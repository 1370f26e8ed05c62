------------------------- MODULE MCWorkBuddyOAuth -------------------------
(***************************************************************************)
(* WorkBuddyOAuth on small instances.  The names of requests, submissions, *)
(* pairs and keys are interchangeable.                                     *)
(*                                                                         *)
(* No step looks at the revocations that were answered or at the tool call *)
(* in flight, and every property speaks of one answer or of the call, so   *)
(* behaviours in which one revocation at most misses its token, and none   *)
(* while calls are made, stand for all.                                    *)
(***************************************************************************)
EXTENDS WorkBuddyOAuth, TLC

Symmetry == Permutations(Authorizations) \cup Permutations(Binds)
            \cup Permutations(Grants) \cup Permutations(Keys)

Misses == {x \in Tokens \X Grants : <<"revoked", <<x[2], {x[1]}>>>> \in told}
OneMiss == Cardinality(Misses) <= 1 /\ (Misses # {} => call = Null)

MCSpec == Init /\ [][Next /\ OneMiss']_vars
=============================================================================
