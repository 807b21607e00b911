---------------------------- MODULE MCInvoicing ----------------------------
(* Invoicing on small instances, and values for its constants that a .cfg  *)
(* cannot write.                                                           *)
EXTENDS Invoicing, TLC

People == Permutations(Txs) \cup Permutations(Keys) \cup Permutations(Jobs)

\* A line whose shares do not divide: 1.5 at 3.33 is 5.00 and 1.25 VAT, and
\* half of one is 1.67 and 0.42.
OddLine == {[qty |-> 1500, unit |-> 333, rate |-> 2500, part |-> NoPart, agreed |-> FALSE]}

Everything   == [lines |-> <<>>, adjust |-> <<>>]
AShareOf1    == [lines |-> <<500>>, adjust |-> <<>>]
AllLeftOf1   == [lines |-> <<0>>, adjust |-> <<>>]
Goodwill     == [lines |-> <<>>, adjust |-> <<[net |-> 100, rate |-> 2500]>>]
SomeWishes   == {Everything, AShareOf1, AllLeftOf1, Goodwill}
NoWishes     == {}

\* One of a part at a price, for each part.
PartLines == {[qty |-> 1, unit |-> 1000, rate |-> 0, part |-> p, agreed |-> TRUE] : p \in Parts}
SomeLines == OddLine \cup PartLines
=============================================================================
