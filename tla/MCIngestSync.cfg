SPECIFICATION Spec
CONSTANTS
  User = {"u"}
  Caller = {"s1", "s2"}
  Admin = {"a1", "a2"}
  Cascade <- MCCascade
  TTL = 2
  MaxChanges = 2
  Record = {"x"}
  Owner <- MCOwner
  FetchLimit = 1
  Sink = "sources"
INVARIANTS
  StaleGrantExpires
  IngestedWithinTTL
  StoredTwiceOnlyByRivals
PROPERTIES
  RevocationIsFinal
