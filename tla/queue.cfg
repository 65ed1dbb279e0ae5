SPECIFICATION FairSpec
CONSTANTS
  pool = pool
  claim = claim
  event1 = event1
  event2 = event2
  silent = silent
  NoKey = NoKey
  Unset = Unset
  NotANumber = NotANumber
  Keys = {pool, claim}
  Permanent = {pool}
  Work = {event1, event2, silent}
  Silent = {silent}
  Settings <- AllSettings
  MaxFaults = 2
INVARIANT WorkHasKey
PROPERTIES EventsHandled ScansHandled
