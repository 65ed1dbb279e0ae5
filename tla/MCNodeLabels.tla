---------------------------- MODULE MCNodeLabels ----------------------------
(***************************************************************************)
(* Small instances of NodeLabels: every device-info of two entries, up to  *)
(* the names of the first one, and a few that GetConfigMapInfo refuses.    *)
(***************************************************************************)
EXTENDS NodeLabels

CONSTANTS A, B, x, y

Entry(index, model, device, cannot) ==
  [index |-> index, model |-> model, device |-> device, cannot |-> cannot,
   wellFormed |-> TRUE]

Valid(list) == [infos |-> list, prefixValid |-> TRUE, rangeParsed |-> TRUE]

FirstEntries == {Entry(0, A, x, cannot) : cannot \in SUBSET {0, MaxIndex}}
SecondEntries ==
  {Entry(index, model, device, cannot) :
     index \in {0, MaxIndex}, model \in {A, B}, device \in {x, y},
     cannot \in SUBSET {0, MaxIndex}}

Pairs == {<<e1, e2>> : e1 \in FirstEntries, e2 \in SecondEntries}

Refused ==
  {Valid(<<Entry(MaxIndex + 1, A, x, {})>>),
   Valid(<<[Entry(0, A, x, {}) EXCEPT !.wellFormed = FALSE]>>),
   [Valid(<<>>) EXCEPT !.prefixValid = FALSE],
   [Valid(<<>>) EXCEPT !.rangeParsed = FALSE]}

SmallConfigs == {Valid(pair) : pair \in Pairs} \cup Refused

\* Some numbers, one below zero, and a value that is none.
SomeValues == {-1, 0, 2, BadValue}

=============================================================================
