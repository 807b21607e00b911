\* A deposit is held: settling, overpaying, applying, refunding and reversing,
\* four more rows, two at a time; after the fourth one pays while the other
\* undoes an application.  Apart from that, requests with a key, sent again while the first is
\* still under way: two rows.  Apart from both, one rental: two charges and two
\* invoices, and a deposit that settles damage.
CONSTANTS
  Txs = {t1, t2}
  Invoices = {i1}
  Deposits = {d1}
  Payouts = {o1}
  Keys = {k1, k2}
  Amounts = {5}
  Total = 10
  Coin = 4
  Margin = 4
  MaxRows = 5
  NoKey = NoKey
  Sums = {1, 2}
  Requests = {q1}
  NoRequest = NoRequest
  MaxCharges = 2
  MaxBills = 2
  MaxUses = 2
  MaxMoney = 2
  Shown = {"settling", "cash", "keys", "charges", "claim"}
CHECK_DEADLOCK FALSE
SYMMETRY Symmetry
SPECIFICATION SpecOfParts
INVARIANTS MoneyTypeOK PaidOutWasPaidIn ApplicationsAreWhole NoCircle OneRowPerKey RentalBilledOnce
PROPERTY SettledAndClosed
