-------------------------- MODULE MCCatalogState --------------------------
(***************************************************************************)
(* CatalogState on a small instance.  Requests and sessions are numbers,   *)
(* and no definition of CatalogState tells one from another; numbering the *)
(* requests in the order they begin, and the first one's session first,    *)
(* leaves out behaviours that differ in names only.  (A symmetry set would *)
(* not be sound for EverythingEnds.)                                       *)
(***************************************************************************)
EXTENDS CatalogState

NamedInOrder ==
  /\ \A r, q \in Requests : q < r /\ request[r] # Null => request[q] # Null
  /\ request[1] = Null \/ request[1].session = 1

MCSpec == Init /\ [][Next /\ NamedInOrder']_vars /\ Fairness
=============================================================================
