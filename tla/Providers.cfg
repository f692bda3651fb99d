SPECIFICATION ProviderSpec
CONSTANTS
  Self = t
  Tasks = {t}
  Urls = {"token", "listings"}
  Methods = {"GET", "POST"}
  Null = Null
  Interval = 2
  Ttl = 2
  MaxRetries = 2
  RetryAfters <- MCRetryAfters
  RetryCap = 3
  Closes = {FALSE}
  Kinds = {"ebay", "generic"}
  MaxSearches = 2
INVARIANTS SearchTypeOK StatusJustified ClientReleased
PROPERTIES SendsSpaced SearchesEnd
