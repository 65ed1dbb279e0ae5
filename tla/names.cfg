SPECIFICATION Spec
CONSTANTS
  MaxLabel = 3
  MaxPrefix = 5
  MaxTyped = 6
INVARIANTS LabelsChecked PrefixesChecked
CHECK_DEADLOCK FALSE
