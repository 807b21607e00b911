\* One car, two buyers, one after the other; the first reserved it.
SPECIFICATION SpecYard
CONSTANTS
  Keys = {}
  Asks = {}
  Drives = {}
  Jobs = {}
  End = 0
  Holds = {}
  Buffer = 0
  MaxSpells = 0
  Sales = {s1, s2}
  anna = anna
  reda = reda
  People = {anna, reda}
  NoSale = NoSale
  Offers <- SomeOffers
  Price = 2
  MaxTerms = 2
  MaxDefects = 1
  Lines = {k1, k2}
  Tasks = {j1, j2}
  Orders = {j1, j2}
  Mechanics = {m1}
  NoLine = NoLine
  MaxPrice = 2
  MaxQuotes = 2
  MaxHolds = 1
  Shown = {"two sales"}
INVARIANTS DepositsPayTheirOwnSale
CHECK_DEADLOCK FALSE
