---------------------------- MODULE MCSubmission ----------------------------
(* Small instances of Submission for TLC.                                  *)
EXTENDS Submission

\* Calls are interchangeable, and so are previews (Keys holds all of them).
Symmetry == Permutations(Calls) \cup Permutations(Previews)
=============================================================================
