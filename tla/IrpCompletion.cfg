SPECIFICATION FairSpec
CONSTANTS
  i1 = i1
  i2 = i2
  Irps = {i1, i2}
  RequestKinds = {TRUE, FALSE}
  ContextKinds = {TRUE, FALSE}
  CompletionKinds = {TRUE, FALSE}
CHECK_DEADLOCK FALSE
INVARIANT TypeOK
INVARIANT CompletionAfterRequest
INVARIANT ReportedOnce
INVARIANT UnloadWaits
INVARIANT ContextOutlivesUse
INVARIANT NothingLeft
PROPERTY AnswersInserted
PROPERTY UnloadEnds
