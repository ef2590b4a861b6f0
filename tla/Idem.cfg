SPECIFICATION FairSpec
CONSTANTS
  q1 = q1
  q2 = q2
  q3 = q3
  q4 = q4
  A = A
  B = B
  Requests = {q1, q2, q3, q4}
  Payloads = {A, B}
  Payload <- MCPayload
  MaxTries = 3
  DirectUse = {TRUE, FALSE}
  NoRequest = NoRequest
PROPERTIES KeyIsKept RequestsEnd
