\* Two jobs, and everything up to two connections may do with their invoices,
\* apart from what they may do with two parts and their count.
SPECIFICATION SpecOfParts
CONSTANTS
  Jobs = {j1, j2}
  Parts = {1, 2}
  Txs = {t1, t2}
  Keys = {k1, k2, k3}
  Offers <- SomeLines
  Wishes <- SomeWishes
  Amounts = {1}
  MaxLines = 2
  MaxTaken = 1
  MaxDocs = 5
  NoPart = NoPart
  NoKey = NoKey
SYMMETRY People
INVARIANTS
  TypeOK
  NoGaps
  OneInvoicePerJob
  CreditsWithinInvoice
  BilledWhatStands
  ReservedForOpenJobs
  FormsCountOnce
PROPERTIES
  ShelfIsTrue
  ShopSpec
CHECK_DEADLOCK FALSE
