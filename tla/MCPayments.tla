----------------------------- MODULE MCPayments -----------------------------
(***************************************************************************)
(* Payments on small instances.  What undoes an application is five rows:  *)
(* the deposit is paid in, applied in two and undone in two.  InitPaidIn   *)
(* is when the first of them is there.                                     *)
(***************************************************************************)
EXTENDS Payments

\* Connections are alike.
Symmetry == Permutations(Txs)

InitPaidIn ==
  /\ \E d \in Deposits, a \in Amounts : rows = <<Moved(d, a, NoKey)>>
  /\ halves = {} /\ credited = [i \in Invoices |-> 0]
  /\ job = [i \in Invoices |-> "invoiced"] /\ here \in [Invoices -> BOOLEAN]
  /\ tx = [t \in Txs |-> Idle] /\ holds = NothingHeld
=============================================================================
