SPECIFICATION Spec
CONSTANTS
  Jobs = {j1, j2}
  Parts = {1, 2}
  Txs = {t1, t2}
  Keys = {}
  Offers <- PartLines
  Wishes <- NoWishes
  Amounts = {}
  MaxLines = 1
  MaxTaken = 0
  MaxDocs = 2
  NoPart = NoPart
  NoKey = NoKey
SYMMETRY People
INVARIANTS
  IssuesNeverWaitInACircle
