SPECIFICATION Spec
CONSTANTS
  p1 = p1
  p2 = p2
  t1 = t1
  t2 = t2
  f1 = f1
  g1 = g1
  r1 = r1
  r2 = r2
  r3 = r3
  k1 = k1
  k2 = k2
  v1 = v1
  v2 = v2
  Own = Own
  NoData = NoData
  n1 = n1
  n2 = n2
  n3 = n3
  x1 = x1
  x2 = x2
  x3 = x3
  x4 = x4
  d1 = d1
  d2 = d2
  c1 = c1
  c2 = c2
  Absent = Absent
  Nobody = Nobody
SYMMETRY RecordSymmetry
CHECK_DEADLOCK FALSE
INVARIANT HandlersTruthful
INVARIANT ProcessesKnown
INVARIANT ContextsSound
 
INVARIANT ModulesSound
 
INVARIANT ContainersSound
INVARIANT ListsSound
INVARIANT ClientsServed
