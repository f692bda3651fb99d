SPECIFICATION FairHttpSpec
CONSTANTS
  Tasks = {s, t}
  Urls = {u}
  Methods = {"GET", "POST"}
  Null = Null
  Interval = 2
  Ttl = 2
  MaxRetries = 1
  RetryAfters <- MCRetryAfters
  RetryCap = 3
  Closes = {TRUE, FALSE}
INVARIANTS HttpTypeOK LockConsistent CacheFresh AnswersJustify
PROPERTIES SendsSpaced RequestsEnd
