\* Bookings, requests sent again, work and test drives on a rental; two sales
\* after each other, one with a trade-in and one to two buyers.
SPECIFICATION SpecYard
CONSTANTS
  Keys = {k1, k2}
  Asks = {a1, a2}
  Drives = {d1}
  Jobs = {j1, j2}
  End = 3
  Holds = {0, 1}
  Buffer = 1
  MaxSpells = 1
  Sales = {s1, s2}
  anna = anna
  reda = reda
  People = {anna, reda}
  NoSale = NoSale
  Offers <- SomeOffers
  Price = 2
  MaxTerms = 2
  MaxDefects = 1
  Lines = {k1, k2}
  Tasks = {j1, j2}
  Orders = {j1, j2}
  Mechanics = {m1}
  NoLine = NoLine
  MaxPrice = 2
  MaxQuotes = 2
  MaxHolds = 2
  Shown = {"bookings", "requests", "work", "drives", "two sales", "trade-in", "buyers",
           "quotes", "work list", "waiting", "supplier"}
SYMMETRY Symmetry
INVARIANTS
  YardTypeOK
  NoOverlap
  BlocksAreTrue
  CarFollowsItsSale
  InvoicedTermsStand
  WorkStands
PROPERTIES
  RetryFindsItsBooking
  ShopUntilTheLastJob
  NewWorkIsNotReady
CHECK_DEADLOCK FALSE
