SPECIFICATION FairSpec
CONSTANTS
  c1 = c1
  c2 = c2
  c3 = c3
  c4 = c4
  k1 = k1
  Calls = {c1, c2, c3, c4}
  Keys = {k1}
  NoKey = NoKey
  KeyOf <- ThreeSharedOneBare
  Dialect = "postgresql"
  NoId = NoId
  MaxFaults = 2
CHECK_DEADLOCK FALSE
INVARIANTS NoSpuriousError AnsweredIsPublished
PROPERTIES SubmissionPromise CallsEnd
