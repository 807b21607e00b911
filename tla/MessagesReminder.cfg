\* A reminder of a booking that starts the day after tomorrow.
CONSTANTS
  Calls = {c1}
  Workers = {w1, w2}
  Leases = {l1, l2, l3}
  MaxAttempts = 2
  MaxCrashes = 2
  None = None
  Desks = {d1, d2}
  Senders = {s1, s2}
  MaxMessages = 1
  MaxTries = 2
  LastHour = 2
  MaxFaults = 0
  Shown = {"reminder"}
SPECIFICATION SpecSend
CHECK_DEADLOCK FALSE
INVARIANTS NotBeforeItsHour
