SPECIFICATION Spec
CONSTANTS
  r1 = r1
  r2 = r2
  r3 = r3
  p1 = p1
  p2 = p2
  c1 = c1
  c2 = c2
  Nobody = Nobody
  Requests = {r1, r2}
  Paged = {r1}
  Producers = {p1, p2}
  Clients = {c1}
  Getters = {c1}
  MaxSnapshot = 0
  CollectValues = {TRUE}
  ClearValues = {TRUE}
CHECK_DEADLOCK FALSE
PROPERTY CollectsWhenDisconnected
