CONSTANTS
  s1 = s1
  q1 = q1
  q2 = q2
  SS = {s1}
  Kinds = {"get", "put"}
  length = 1
  Polled = {1}
  Requests = {q1, q2}
  NoReq = NoReq
  MaxCalls = 2
  MaxBreaks = 1
SPECIFICATION Spec
INVARIANTS
  OnlyLeftFound
  SemaphoreKept
  CompleteMeansAnswered
PROPERTIES
  CompletionNoticed
