SPECIFICATION KeysFairSpec
CONSTANTS
  Attempt = {q1, q2, q3}
  Body = {b1, b2}
  NoAttempt = NoAttempt
  MaxDeaths = 2
INVARIANT KeysTypeOK
INVARIANT OneAtATime
INVARIANT OneResponse
INVARIANT ChangedOnce
PROPERTY AttemptsEnd
CHECK_DEADLOCK FALSE
