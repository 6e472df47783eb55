SPECIFICATION FairSpec
CONSTANTS
  r1 = r1
  r2 = r2
  t1 = t1
  t2 = t2
  d1 = d1
  Requests = {r1, r2}
  Inserters = {t1, t2}
  Disablers = {d1}
  LogBoot = TRUE
  OpenResults = {TRUE, FALSE}
  WriteResults = {TRUE, FALSE}
  HeaderResults = {TRUE, FALSE}
CHECK_DEADLOCK FALSE
INVARIANT CallbackOutlivesUse
INVARIANT LogOnePlace
INVARIANT UnloadLeavesNothing
PROPERTY DisableReturns
INVARIANT FileComplete
INVARIANT DisableSavesAll
