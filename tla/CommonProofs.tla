---------------------------- MODULE CommonProofs ----------------------------
(***************************************************************************)
(* What the proofs about documents and about payments both rest on: that   *)
(* row locks keep transactions apart, whatever rows there are, and what a  *)
(* sum over a finite set comes to.  The sum of the community modules is a  *)
(* CHOOSE of a recursive function.  That there is one, and what it does,   *)
(* is found by looking at a smallest set that would refute it, since the   *)
(* subsets of a finite set are well founded.                               *)
(***************************************************************************)
EXTENDS RowLocks, Integers, Functions, FiniteSetTheorems, WellFoundedInduction, TLAPS

\* A row is locked only when nobody holds it otherwise.
LEMMA LockKeepsApart ==
  ASSUME LocksHold, NEW t \in Txs, NEW row,
         NEW mode \in {"share", "update"}, Lock(t, row, mode)
  PROVE  /\ LocksHold'
         /\ holds[t] \subseteq holds'[t] /\ <<row, mode>> \in holds'[t]
         /\ \A u \in Txs \ {t} : holds'[u] = holds[u]
<1> USE DEF LocksHold
<1>1. holds' = [holds EXCEPT ![t] = @ \cup {<<row, mode>>}]
  BY DEF Lock
<1>2. /\ DOMAIN holds' = Txs /\ holds'[t] = holds[t] \cup {<<row, mode>>}
      /\ \A u \in Txs \ {t} : holds'[u] = holds[u]
  BY <1>1
<1>3. Modes'
  BY <1>2 DEF Modes
<1>4. \A u \in Txs \ {t} : \A g \in holds[u] : g[1] = row => ~Clash(mode, g[2])
  <2> SUFFICES ASSUME NEW u \in Txs \ {t}, NEW g \in holds[u], g[1] = row
               PROVE  ~Clash(mode, g[2])
    OBVIOUS
  <2>1. g = <<row, g[2]>> /\ g[2] \in {"share", "update"}
    BY DEF Modes
  <2> QED
    BY <2>1 DEF Lock, Free
<1>5. Apart'
  <2> SUFFICES ASSUME NEW u \in Txs, NEW v \in Txs, u # v, NEW h \in holds'[u], NEW g \in holds'[v],
                      h[1] = g[1]
               PROVE  ~Clash(h[2], g[2])
    BY DEF Apart
  <2>1. CASE u # t /\ v # t
    BY <1>2, <2>1 DEF Apart
  <2>2. CASE u = t
    <3>1. g \in holds[v] /\ v \in Txs \ {t}
      BY <1>2, <2>2
    <3>2. CASE h \in holds[t]
      BY <2>2, <3>1, <3>2 DEF Apart
    <3>3. CASE h = <<row, mode>>
      BY <1>4, <3>1, <3>3
    <3> QED
      BY <1>2, <2>2, <3>2, <3>3
  <2>3. CASE v = t
    <3>1. h \in holds[u] /\ u \in Txs \ {t}
      BY <1>2, <2>3
    <3>2. CASE g \in holds[t]
      BY <2>3, <3>1, <3>2 DEF Apart
    <3>3. CASE g = <<row, mode>>
      <4>1. ~Clash(mode, h[2])
        BY <1>4, <3>1, <3>3
      <4> QED
        BY <3>3, <4>1 DEF Clash
    <3> QED
      BY <1>2, <2>3, <3>2, <3>3
  <2> QED
    BY <2>1, <2>2, <2>3
<1> QED
  BY <1>2, <1>3, <1>5

\* Two transactions never hold the same row for update.
LEMMA OneHasTheRow ==
  ASSUME LocksHold, NEW t \in Txs, NEW u \in Txs \ {t}, NEW row,
         <<row, "update">> \in holds[t], <<row, "update">> \in holds[u]
  PROVE  FALSE
BY DEF LocksHold, Apart, Clash

\* A transaction that ends holds nothing.
LEMMA UnlockKeepsApart ==
  ASSUME LocksHold, NEW t \in Txs, Unlock(t)
  PROVE  /\ LocksHold' /\ holds'[t] = {}
         /\ \A u \in Txs \ {t} : holds'[u] = holds[u]
<1>1. /\ DOMAIN holds' = Txs /\ holds'[t] = {}
      /\ \A u \in Txs \ {t} : holds'[u] = holds[u]
  BY DEF Unlock, LocksHold
<1>2. Modes'
  BY <1>1 DEF LocksHold, Modes
<1>3. Apart'
  BY <1>1 DEF LocksHold, Apart
<1> QED
  BY <1>1, <1>2, <1>3 DEF LocksHold

-----------------------------------------------------------------------------
(* Sums over finite sets.                                                  *)

Pick(s) == CHOOSE x \in s : TRUE
IsSum(g, f, S) == g = [s \in SUBSET S |-> IF s = {} THEN 0 ELSE f[Pick(s)] + g[s \ {Pick(s)}]]

LEMMA Unfolded == ASSUME NEW f, NEW S PROVE SumFunctionOnSet(f, S) = (CHOOSE g : IsSum(g, f, S))[S]
  BY DEF SumFunctionOnSet, FoldFunctionOnSet, MapThenFoldSet, IsSum, Pick

LEMMA PickIsOne == ASSUME NEW s, s # {} PROVE Pick(s) \in s
  BY DEF Pick

\* Of any subsets of a finite set one has none of the others in it.
LEMMA SmallestOf ==
  ASSUME NEW S, IsFiniteSet(S), NEW B \in SUBSET (SUBSET S), B # {}
  PROVE  \E s \in B : \A t \in SUBSET s : t # s => t \notin B
  <1>1. IsWellFoundedOn(StrictSubsetOrdering(S), FiniteSubsetsOf(S))
    BY FS_StrictSubsetOrderingWellFounded
  <1>2. B \subseteq FiniteSubsetsOf(S)
    BY FS_FiniteSubsetsOfFinite
  <1>3. PICK s \in B : \A t \in B : ~ (<<t, s>> \in StrictSubsetOrdering(S))
    BY <1>1, <1>2, WFMin
  <1> SUFFICES ASSUME NEW t \in SUBSET s, t # s, t \in B PROVE FALSE
    OBVIOUS
  <1> QED  BY <1>3 DEF StrictSubsetOrdering

\* Two that are sums agree where both are defined.
LEMMA SumsAgree ==
  ASSUME NEW f, NEW S, NEW T, NEW g, NEW h, IsSum(g, f, S), IsSum(h, f, T),
         NEW s \in (SUBSET S) \cap (SUBSET T), IsFiniteSet(s)
  PROVE  g[s] = h[s]
  <1> DEFINE Bad == {t \in SUBSET s : g[t] # h[t]}
  <1> SUFFICES ASSUME Bad # {} PROVE FALSE
    OBVIOUS
  <1>1. PICK t \in Bad : \A u \in SUBSET t : u # t => u \notin Bad
    <2>1. Bad \in SUBSET (SUBSET s)
      OBVIOUS
    <2> HIDE DEF Bad
    <2> QED  BY <2>1, SmallestOf
  <1>2. t \in SUBSET S /\ t \in SUBSET T /\ g[t] # h[t] /\ t \subseteq s
    OBVIOUS
  <1> DEFINE p == Pick(t)
  <1>3. g[t] = IF t = {} THEN 0 ELSE f[p] + g[t \ {p}]
    BY <1>2 DEF IsSum
  <1>4. h[t] = IF t = {} THEN 0 ELSE f[p] + h[t \ {p}]
    BY <1>2 DEF IsSum
  <1>5. t # {}
    BY <1>2, <1>3, <1>4
  <1>6. p \in t
    BY <1>5, PickIsOne
  <1>7. t \ {p} \notin Bad
    BY <1>1, <1>6
  <1>8. g[t \ {p}] = h[t \ {p}]
    BY <1>2, <1>7
  <1> QED  BY <1>2, <1>3, <1>4, <1>5, <1>8

LEMMA SumIsThere == ASSUME NEW f, NEW S, IsFiniteSet(S) PROVE \E g : IsSum(g, f, S)
  <1> DEFINE Bad == {T \in SUBSET S : ~ \E g : IsSum(g, f, T)}
  <1> SUFFICES ASSUME Bad # {} PROVE FALSE
    OBVIOUS
  <1>1. PICK T \in Bad : \A U \in SUBSET T : U # T => U \notin Bad
    <2>1. Bad \in SUBSET (SUBSET S)
      OBVIOUS
    <2> HIDE DEF Bad
    <2> QED  BY <2>1, SmallestOf
  <1>2. \A U \in SUBSET T : IsFiniteSet(U)
    BY FS_Subset
  <1>3. ASSUME NEW U \in SUBSET T, U # T PROVE \E g : IsSum(g, f, U)
    BY <1>1, <1>3
  <1>4. ASSUME NEW U \in SUBSET T, U # T, NEW V \in SUBSET U, NEW g, IsSum(g, f, U)
        PROVE  g[V] = SumFunctionOnSet(f, V)
    <2>1. V \in SUBSET T /\ V # T
      BY <1>4
    <2>2. \E h : IsSum(h, f, V)
      BY <1>3, <2>1
    <2> DEFINE v == CHOOSE h : IsSum(h, f, V)
    <2>3. IsSum(v, f, V)
      BY <2>2
    <2>4. SumFunctionOnSet(f, V) = v[V]
      BY Unfolded
    <2> HIDE DEF v
    <2>5. IsFiniteSet(V) /\ V \in (SUBSET U) \cap (SUBSET V)
      BY <1>2, <2>1
    <2> QED  BY <1>4, <2>3, <2>4, <2>5, SumsAgree
  <1> DEFINE g == [s \in SUBSET T |-> IF s = {} THEN 0 ELSE f[Pick(s)] + SumFunctionOnSet(f, s \ {Pick(s)})]
  <1>5. ASSUME NEW s \in SUBSET T, s # T PROVE SumFunctionOnSet(f, s) = IF s = {} THEN 0 ELSE f[Pick(s)] + SumFunctionOnSet(f, s \ {Pick(s)})
    <2>1. PICK h : IsSum(h, f, s)
      BY <1>3, <1>5
    <2>2. h[s] = IF s = {} THEN 0 ELSE f[Pick(s)] + h[s \ {Pick(s)}]
      BY <2>1 DEF IsSum
    <2>3. h[s] = SumFunctionOnSet(f, s)
      BY <1>4, <1>5, <2>1
    <2>4. h[s \ {Pick(s)}] = SumFunctionOnSet(f, s \ {Pick(s)})
      BY <1>4, <1>5, <2>1
    <2> QED  BY <2>2, <2>3, <2>4
  <1>6. ASSUME NEW s \in SUBSET T, s # {} PROVE g[s \ {Pick(s)}] = SumFunctionOnSet(f, s \ {Pick(s)})
    <2> DEFINE u == s \ {Pick(s)}
    <2>1. u \in SUBSET T /\ u # T
      BY <1>6, PickIsOne
    <2>2. g[u] = IF u = {} THEN 0 ELSE f[Pick(u)] + SumFunctionOnSet(f, u \ {Pick(u)})
      BY <2>1
    <2> HIDE DEF u, g
    <2>3. g[u] = SumFunctionOnSet(f, u)
      BY <1>5, <2>1, <2>2
    <2> QED  BY <2>3 DEF u
  <1>7. \A s \in SUBSET T : g[s] = IF s = {} THEN 0 ELSE f[Pick(s)] + g[s \ {Pick(s)}]
    BY <1>6
  <1>8. IsSum(g, f, T)
    <2> DEFINE k == [s \in SUBSET T |-> IF s = {} THEN 0 ELSE f[Pick(s)] + g[s \ {Pick(s)}]]
    <2>1. DOMAIN g = SUBSET T /\ g = [s \in DOMAIN g |-> g[s]]
      OBVIOUS
    <2> HIDE DEF g
    <2>2. g = [s \in SUBSET T |-> g[s]]
      BY <2>1
    <2>3. [s \in SUBSET T |-> g[s]] = k
      BY <1>7
    <2> QED  BY <2>2, <2>3 DEF IsSum
  <1> QED  BY <1>8

\* The sum over a finite set: nothing, or one and the sum over the others.
LEMMA SumUnfolds ==
  ASSUME NEW f, NEW S, IsFiniteSet(S)
  PROVE  SumFunctionOnSet(f, S) = IF S = {} THEN 0 ELSE f[Pick(S)] + SumFunctionOnSet(f, S \ {Pick(S)})
  <1> DEFINE g == CHOOSE h : IsSum(h, f, S)
  <1> DEFINE T == S \ {Pick(S)}
  <1> DEFINE k == CHOOSE h : IsSum(h, f, T)
  <1>1. IsFiniteSet(T) /\ T \in (SUBSET S) \cap (SUBSET T)
    BY FS_Subset
  <1>2. IsSum(g, f, S) /\ IsSum(k, f, T)
    BY <1>1, SumIsThere
  <1>3. SumFunctionOnSet(f, S) = g[S] /\ SumFunctionOnSet(f, T) = k[T]
    BY Unfolded
  <1> HIDE DEF g, k
  <1>4. g[S] = IF S = {} THEN 0 ELSE f[Pick(S)] + g[T]
    BY <1>2 DEF IsSum
  <1> HIDE DEF T
  <1>5. g[T] = k[T]
    BY <1>1, <1>2, SumsAgree
  <1> QED  BY <1>3, <1>4, <1>5 DEF T

LEMMA SumOfNone == ASSUME NEW f PROVE SumFunctionOnSet(f, {}) = 0
  <1>1. IsFiniteSet({})
    BY FS_EmptySet
  <1> QED  BY <1>1, SumUnfolds

\* A sum of whole numbers is one.
LEMMA SumIsInt ==
  ASSUME NEW f, NEW S, IsFiniteSet(S), \A x \in S : f[x] \in Int
  PROVE  SumFunctionOnSet(f, S) \in Int
  <1> DEFINE Bad == {T \in SUBSET S : SumFunctionOnSet(f, T) \notin Int}
  <1> SUFFICES ASSUME Bad # {} PROVE FALSE
    OBVIOUS
  <1>1. PICK T \in Bad : \A U \in SUBSET T : U # T => U \notin Bad
    <2>1. Bad \in SUBSET (SUBSET S)
      OBVIOUS
    <2> HIDE DEF Bad
    <2> QED  BY <2>1, SmallestOf
  <1> DEFINE p == Pick(T)
  <1>2. T \in SUBSET S /\ IsFiniteSet(T) /\ SumFunctionOnSet(f, T) \notin Int
    BY FS_Subset
  <1>3. SumFunctionOnSet(f, T) = IF T = {} THEN 0 ELSE f[p] + SumFunctionOnSet(f, T \ {p})
    BY <1>2, SumUnfolds
  <1>4. T # {} /\ p \in T
    BY <1>2, <1>3, PickIsOne
  <1>5. SumFunctionOnSet(f, T \ {p}) \in Int
    BY <1>1, <1>2, <1>4
  <1> HIDE DEF p
  <1>6. f[p] \in Int
    BY <1>2, <1>4
  <1> QED  BY <1>2, <1>3, <1>4, <1>5, <1>6

\* Whichever is taken first, the sum is the same.
LEMMA SumTakesOne ==
  ASSUME NEW f, NEW S, IsFiniteSet(S), \A x \in S : f[x] \in Int, NEW x \in S
  PROVE  SumFunctionOnSet(f, S) = f[x] + SumFunctionOnSet(f, S \ {x})
  <1> DEFINE Fails(T, y) == SumFunctionOnSet(f, T) # f[y] + SumFunctionOnSet(f, T \ {y})
  <1> DEFINE Bad == {T \in SUBSET S : \E y \in T : Fails(T, y)}
  <1> SUFFICES ASSUME Bad # {} PROVE FALSE
    OBVIOUS
  <1>1. PICK T \in Bad : \A U \in SUBSET T : U # T => U \notin Bad
    <2>1. Bad \in SUBSET (SUBSET S)
      OBVIOUS
    <2> HIDE DEF Bad
    <2> QED  BY <2>1, SmallestOf
  <1>2. PICK y \in T : Fails(T, y)
    OBVIOUS
  <1> DEFINE p == Pick(T)
  <1>3. T \in SUBSET S /\ IsFiniteSet(T) /\ T # {} /\ p \in T
    BY FS_Subset, PickIsOne
  <1>4. SumFunctionOnSet(f, T) = f[p] + SumFunctionOnSet(f, T \ {p})
    BY <1>3, SumUnfolds
  <1> HIDE DEF p
  <1>5. p # y
    BY <1>2, <1>4
  <1>6. T \ {p} \notin Bad /\ T \ {y} \notin Bad
    BY <1>1, <1>3
  <1>7. /\ SumFunctionOnSet(f, T \ {p}) = f[y] + SumFunctionOnSet(f, (T \ {p}) \ {y})
        /\ SumFunctionOnSet(f, T \ {y}) = f[p] + SumFunctionOnSet(f, (T \ {y}) \ {p})
    BY <1>3, <1>5, <1>6
  <1>8. (T \ {p}) \ {y} = (T \ {y}) \ {p}
    OBVIOUS
  <1>9. f[p] \in Int /\ f[y] \in Int /\ SumFunctionOnSet(f, (T \ {y}) \ {p}) \in Int
    <2>1. IsFiniteSet((T \ {y}) \ {p})
      BY <1>3, FS_Subset
    <2> QED  BY <1>3, <2>1, SumIsInt
  <1> DEFINE c == SumFunctionOnSet(f, (T \ {y}) \ {p})
             a == SumFunctionOnSet(f, T)
             b == SumFunctionOnSet(f, T \ {p})
             d == SumFunctionOnSet(f, T \ {y})
  <1>10. a = f[p] + b /\ b = f[y] + c /\ d = f[p] + c /\ a # f[y] + d /\ c \in Int
    BY <1>2, <1>4, <1>7, <1>8, <1>9
  <1> HIDE DEF a, b, c, d
  <1> QED  BY <1>9, <1>10

LEMMA SumWithOne ==
  ASSUME NEW f, NEW S, IsFiniteSet(S), \A y \in S : f[y] \in Int, NEW x, x \notin S, f[x] \in Int
  PROVE  SumFunctionOnSet(f, S \cup {x}) = f[x] + SumFunctionOnSet(f, S)
  <1>1. IsFiniteSet(S \cup {x}) /\ x \in S \cup {x} /\ (S \cup {x}) \ {x} = S
    BY FS_AddElement
  <1> QED  BY <1>1, SumTakesOne

LEMMA SumOfOne ==
  ASSUME NEW f, NEW x, f[x] \in Int PROVE SumFunctionOnSet(f, {x}) = f[x]
  <1>1. SumFunctionOnSet(f, {} \cup {x}) = f[x] + SumFunctionOnSet(f, {})
    BY FS_EmptySet, SumWithOne
  <1> QED  BY <1>1, SumOfNone

\* The sum over what is in one of two sets that have nothing in common.
LEMMA SumOfTwo ==
  ASSUME NEW f, NEW S, NEW T, IsFiniteSet(S), IsFiniteSet(T), S \cap T = {},
         \A x \in S \cup T : f[x] \in Int
  PROVE  SumFunctionOnSet(f, S \cup T) = SumFunctionOnSet(f, S) + SumFunctionOnSet(f, T)
  <1> DEFINE Bad == {U \in SUBSET T : SumFunctionOnSet(f, S \cup U) # SumFunctionOnSet(f, S) + SumFunctionOnSet(f, U)}
  <1> SUFFICES ASSUME Bad # {} PROVE FALSE
    OBVIOUS
  <1>1. PICK U \in Bad : \A V \in SUBSET U : V # U => V \notin Bad
    <2>1. Bad \in SUBSET (SUBSET T)
      OBVIOUS
    <2> HIDE DEF Bad
    <2> QED  BY <2>1, SmallestOf
  <1>2. /\ U \in SUBSET T /\ IsFiniteSet(U) /\ SumFunctionOnSet(f, S) \in Int
        /\ SumFunctionOnSet(f, S \cup U) # SumFunctionOnSet(f, S) + SumFunctionOnSet(f, U)
    BY FS_Subset, SumIsInt
  <1>3. U # {}
    <2> SUFFICES ASSUME U = {} PROVE FALSE
      OBVIOUS
    <2>1. S \cup U = S /\ SumFunctionOnSet(f, U) = 0
      BY SumOfNone
    <2> QED  BY <1>2, <2>1
  <1>4. PICK x \in U : TRUE
    BY <1>3
  <1> DEFINE V == U \ {x}
  <1>5. V \in SUBSET T /\ V # U /\ V \in SUBSET U /\ IsFiniteSet(V) /\ IsFiniteSet(S \cup V)
    BY <1>2, FS_Subset, FS_Union
  <1>6. SumFunctionOnSet(f, S \cup V) = SumFunctionOnSet(f, S) + SumFunctionOnSet(f, V)
    BY <1>1, <1>5
  <1>7. U = V \cup {x} /\ S \cup U = (S \cup V) \cup {x} /\ x \notin V /\ x \notin S \cup V /\ f[x] \in Int
    BY <1>2
  <1>8. /\ \A y \in V : f[y] \in Int
        /\ \A y \in S \cup V : f[y] \in Int
    BY <1>5
  <1> HIDE DEF V
  <1>9. /\ SumFunctionOnSet(f, U) = f[x] + SumFunctionOnSet(f, V)
        /\ SumFunctionOnSet(f, S \cup U) = f[x] + SumFunctionOnSet(f, S \cup V)
    BY <1>5, <1>7, <1>8, SumWithOne
  <1>10. SumFunctionOnSet(f, V) \in Int
    BY <1>5, <1>8, SumIsInt
  <1> QED  BY <1>2, <1>6, <1>7, <1>9, <1>10

\* What is not summed does not matter.
LEMMA SumIsOfItsTerms ==
  ASSUME NEW f, NEW g, NEW S, IsFiniteSet(S), \A x \in S : f[x] = g[x]
  PROVE  SumFunctionOnSet(f, S) = SumFunctionOnSet(g, S)
  <1> DEFINE Bad == {T \in SUBSET S : SumFunctionOnSet(f, T) # SumFunctionOnSet(g, T)}
  <1> SUFFICES ASSUME Bad # {} PROVE FALSE
    OBVIOUS
  <1>1. PICK T \in Bad : \A U \in SUBSET T : U # T => U \notin Bad
    <2>1. Bad \in SUBSET (SUBSET S)
      OBVIOUS
    <2> HIDE DEF Bad
    <2> QED  BY <2>1, SmallestOf
  <1>2. T \in SUBSET S /\ IsFiniteSet(T) /\ SumFunctionOnSet(f, T) # SumFunctionOnSet(g, T)
    BY FS_Subset
  <1> DEFINE p == Pick(T)
  <1>3. /\ SumFunctionOnSet(f, T) = IF T = {} THEN 0 ELSE f[p] + SumFunctionOnSet(f, T \ {p})
        /\ SumFunctionOnSet(g, T) = IF T = {} THEN 0 ELSE g[p] + SumFunctionOnSet(g, T \ {p})
    BY <1>2, SumUnfolds
  <1>4. T # {} /\ p \in T
    BY <1>2, <1>3, PickIsOne
  <1>5. SumFunctionOnSet(f, T \ {p}) = SumFunctionOnSet(g, T \ {p})
    BY <1>1, <1>2, <1>4
  <1> HIDE DEF p
  <1>6. f[p] = g[p]
    BY <1>2, <1>4
  <1> QED  BY <1>2, <1>3, <1>4, <1>5, <1>6

\* Nothing above nothing adds up to nothing above nothing.
LEMMA SumOfLosses ==
  ASSUME NEW f, NEW S, IsFiniteSet(S), \A x \in S : f[x] \in Int /\ f[x] <= 0
  PROVE  SumFunctionOnSet(f, S) \in Int /\ SumFunctionOnSet(f, S) <= 0
  <1> DEFINE Bad == {T \in SUBSET S : ~(SumFunctionOnSet(f, T) <= 0)}
  <1>0. SumFunctionOnSet(f, S) \in Int
    BY SumIsInt
  <1> SUFFICES ASSUME Bad # {} PROVE FALSE
    BY <1>0
  <1>1. PICK T \in Bad : \A U \in SUBSET T : U # T => U \notin Bad
    <2>1. Bad \in SUBSET (SUBSET S)
      OBVIOUS
    <2> HIDE DEF Bad
    <2> QED  BY <2>1, SmallestOf
  <1>2. T \in SUBSET S /\ IsFiniteSet(T) /\ ~(SumFunctionOnSet(f, T) <= 0)
    BY FS_Subset
  <1> DEFINE p == Pick(T)
  <1>3. SumFunctionOnSet(f, T) = IF T = {} THEN 0 ELSE f[p] + SumFunctionOnSet(f, T \ {p})
    BY <1>2, SumUnfolds
  <1>4. T # {} /\ p \in T
    BY <1>2, <1>3, PickIsOne
  <1>5. SumFunctionOnSet(f, T \ {p}) <= 0
    BY <1>1, <1>2, <1>4
  <1>6. SumFunctionOnSet(f, T \ {p}) \in Int
    BY <1>2, FS_Subset, SumIsInt
  <1> HIDE DEF p
  <1>7. f[p] \in Int /\ f[p] <= 0
    BY <1>2, <1>4
  <1> QED  BY <1>2, <1>3, <1>4, <1>5, <1>6, <1>7

\* Nor does anything below nothing come of what is not.
LEMMA SumIsNat ==
  ASSUME NEW f, NEW S, IsFiniteSet(S), \A x \in S : f[x] \in Nat
  PROVE  SumFunctionOnSet(f, S) \in Nat
  <1> DEFINE Bad == {T \in SUBSET S : ~(SumFunctionOnSet(f, T) >= 0)}
  <1>0. SumFunctionOnSet(f, S) \in Int
    BY SumIsInt
  <1> SUFFICES ASSUME Bad # {} PROVE FALSE
    BY <1>0
  <1>1. PICK T \in Bad : \A U \in SUBSET T : U # T => U \notin Bad
    <2>1. Bad \in SUBSET (SUBSET S)
      OBVIOUS
    <2> HIDE DEF Bad
    <2> QED  BY <2>1, SmallestOf
  <1>2. T \in SUBSET S /\ IsFiniteSet(T) /\ ~(SumFunctionOnSet(f, T) >= 0)
    BY FS_Subset
  <1> DEFINE p == Pick(T)
  <1>3. SumFunctionOnSet(f, T) = IF T = {} THEN 0 ELSE f[p] + SumFunctionOnSet(f, T \ {p})
    BY <1>2, SumUnfolds
  <1>4. T # {} /\ p \in T
    BY <1>2, <1>3, PickIsOne
  <1>5. SumFunctionOnSet(f, T \ {p}) >= 0
    BY <1>1, <1>2, <1>4
  <1>6. SumFunctionOnSet(f, T \ {p}) \in Int
    BY <1>2, FS_Subset, SumIsInt
  <1> HIDE DEF p
  <1>7. f[p] \in Nat
    BY <1>2, <1>4
  <1> QED  BY <1>2, <1>3, <1>4, <1>5, <1>6, <1>7

\* Leaving out losses makes a sum no smaller.
LEMMA SumWithoutLosses ==
  ASSUME NEW f, NEW S, IsFiniteSet(S), \A x \in S : f[x] \in Int,
         NEW T \in SUBSET S, \A x \in S \ T : f[x] <= 0
  PROVE  SumFunctionOnSet(f, S) <= SumFunctionOnSet(f, T)
  <1> DEFINE R == S \ T
  <1>1. S = T \cup R /\ T \cap R = {} /\ IsFiniteSet(T) /\ IsFiniteSet(R)
    BY FS_Subset
  <1>2. /\ \A x \in T \cup R : f[x] \in Int
        /\ \A x \in R : f[x] \in Int /\ f[x] <= 0
        /\ \A x \in T : f[x] \in Int
    OBVIOUS
  <1> HIDE DEF R
  <1>3. SumFunctionOnSet(f, S) = SumFunctionOnSet(f, T) + SumFunctionOnSet(f, R)
    BY <1>1, <1>2, SumOfTwo
  <1>4. SumFunctionOnSet(f, R) \in Int /\ SumFunctionOnSet(f, R) <= 0 /\ SumFunctionOnSet(f, T) \in Int
    BY <1>1, <1>2, SumOfLosses, SumIsInt
  <1> QED  BY <1>3, <1>4
=============================================================================
