CONSTANTS
  r1 = r1
  r2 = r2
  NoOne = NoOne
  Requests <- TwoRequests
  Kind <- ReadAndSend
  N = 2
  MaxRetries = 1
  MaxFailures = 2
  Commitment = "confirmed"
  Answers <- OneGood
SPECIFICATION Spec
INVARIANTS TypeOK GoodEndpointServes
PROPERTIES RequestEnds
