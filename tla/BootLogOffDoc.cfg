SPECIFICATION Spec
CONSTANTS
  r1 = r1
  r2 = r2
  t1 = t1
  t2 = t2
  d1 = d1
  Requests = {r1}
  Inserters = {t1}
  Disablers = {d1}
  LogBoot = FALSE
  OpenResults = {TRUE}
  WriteResults = {TRUE}
  HeaderResults = {TRUE}
CHECK_DEADLOCK FALSE
INVARIANT NothingLoggedWhenOff
