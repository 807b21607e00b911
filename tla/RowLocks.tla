------------------------------ MODULE RowLocks ------------------------------
(***************************************************************************)
(* Row locks as PostgreSQL gives them to the transactions of the workshop: *)
(* each row for "update" (FOR UPDATE, or an UPDATE), or only kept from     *)
(* being deleted by a row that refers to it ("share", the FOR KEY SHARE of *)
(* a foreign key, which waits for a FOR UPDATE and is waited for by one).  *)
(* A transaction keeps what it locked until it ends.                       *)
(***************************************************************************)
CONSTANT Txs      \* connections: the transactions that can be under way at once
VARIABLE holds    \* [Txs -> row locks held, as <<row, mode>>]

Clash(m, o) == m = "update" \/ o = "update"

NothingHeld == [t \in Txs |-> {}]

Free(t, row, mode) ==
  \A u \in Txs \ {t} : \A o \in {"share", "update"} : <<row, o>> \in holds[u] => ~Clash(mode, o)
Lock(t, row, mode) ==
  Free(t, row, mode) /\ holds' = [holds EXCEPT ![t] = @ \cup {<<row, mode>>}]
Unlock(t) == holds' = [holds EXCEPT ![t] = {}]

\* u has a lock that t has to wait for before it gets <<row, mode>>.
Blocks(u, t, row, mode) ==
  t # u /\ \E o \in {"share", "update"} : <<row, o>> \in holds[u] /\ Clash(mode, o)

-----------------------------------------------------------------------------
(* What the locks are, and that they keep apart who has to be kept apart.  *)

Modes == \A t \in Txs : \A h \in holds[t] : h = <<h[1], h[2]>> /\ h[2] \in {"share", "update"}
Apart == \A t, u \in Txs : t # u =>
           \A h \in holds[t], g \in holds[u] : h[1] = g[1] => ~Clash(h[2], g[2])
LocksHold == DOMAIN holds = Txs /\ Modes /\ Apart
=============================================================================
