SPECIFICATION FairSpec
CONSTANTS
  i1 = i1
  i2 = i2
  Irps = {i1}
  RequestKinds = {FALSE}
  ContextKinds = {TRUE}
  CompletionKinds = {TRUE}
CHECK_DEADLOCK FALSE
PROPERTY CompletionsReported
