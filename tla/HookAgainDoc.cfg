SPECIFICATION Spec
CONSTANTS
  r1 = r1
  r2 = r2
  h1 = h1
  h2 = h2
  c1 = c1
  c2 = c2
  t1 = t1
  Nobody = Nobody
  Records = {r1, r2}
  Handles = {h1, h2}
  Clients = {c1}
  Controllers = {c1}
  Irps = {t1}
  StaleHandles = TRUE
CHECK_DEADLOCK FALSE
INVARIANT UnhookFindsItsRecord
