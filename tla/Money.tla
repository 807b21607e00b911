------------------------------- MODULE Money -------------------------------
(* Amounts in whole minor units and how they round: internal/money.         *)
EXTENDS Integers

\* divRound: half away from zero.
DivRound(a, b) == IF a >= 0 THEN (a + b \div 2) \div b ELSE -((b \div 2 - a) \div b)

LineNet(qty, unit) == DivRound(qty * unit, 1000)
VAT(net, rate)     == DivRound(net * rate, 10000)

\* Cash is rounded to whole coins.
CashRound(gross, coin) == DivRound(gross, coin) * coin
=============================================================================
