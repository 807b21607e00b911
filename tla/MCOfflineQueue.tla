--------------------------- MODULE MCOfflineQueue ---------------------------
(***************************************************************************)
(* The instances of OfflineQueue that TLC checks.                          *)
(***************************************************************************)
EXTENDS OfflineQueue, TLC

\* People, pages, keys and slots are interchangeable for the safety runs.
Symmetry == Permutations(Keys) \cup Permutations(Users) \cup Permutations(Pages)
              \cup Permutations(Reqs)
=============================================================================
