\* A call, two workers, a lease for every row and every worker.  Two messages,
\* two goroutines that send, and two desks.
CONSTANTS
  Calls = {c1}
  Workers = {w1, w2}
  Leases = {l1, l2, l3}
  MaxAttempts = 2
  MaxCrashes = 2
  None = None
  Desks = {d1, d2}
  Senders = {s1, s2}
  MaxMessages = 2
  MaxTries = 2
  LastHour = 1
  MaxFaults = 1
  Shown = {"calls", "bookings", "desks", "batch", "invoices"}
SPECIFICATION SpecSend
CHECK_DEADLOCK FALSE
INVARIANTS TypeOK OneSender MessagesAreTrue
PROPERTIES RestsUntilAskedFor NothingIsForgotten EveryMessageSettles
