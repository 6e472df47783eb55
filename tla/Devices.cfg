SPECIFICATION Spec
CONSTANTS
  DriverRecords = {d1}
  Records = {r1, r2}
  Handles = {h1}
  Controllers = {a}
  Openers = {b}
  Handlers = {c, e}
  Nobody = Nobody
CHECK_DEADLOCK FALSE
INVARIANT DeviceRecordsSound
