\* Fetches of two pages that may redirect to each other.
SPECIFICATION Spec
CONSTANTS
  Urls = {"u1", "u2"}
  Hosts = {"h1", "h2"}
  HostOf <- MCHostOf
  Contents = {"a", "b"}
  None = None
  MaxAttempts = 3
  MaxRedirects = 1
  MaxFetches = 2
INVARIANTS
  TypeOK
  RobotsObeyed
  RequestsBounded
  RecordedWasStored
  RowsAreOneFetch
PROPERTY FetchEnds
CHECK_DEADLOCK FALSE
