------------------------ MODULE MCSalesOrderUpdate ------------------------
(***************************************************************************)
(* SalesOrderUpdate on a small instance: order XS1, whose number is part   *)
(* of that of order XS10, with pages of one row.  Calls of one kind are    *)
(* interchangeable, and so are the values of fields.                       *)
(***************************************************************************)
EXTENDS SalesOrderUpdate, TLC

CONSTANTS i1, i2, XS1, XS10

MCNumber == i1 :> XS1 @@ i2 :> XS10
MCFinds == XS1 :> {i1, i2} @@ XS10 :> {i2}

Change(fields, value, named, final) ==
  [fields |-> fields, value |-> value, named |-> named, final |-> final]

\* A locked field; the lines of the order and posting; new lines and a note.
MCWanted ==
  UNION {{Change({"party"}, v, FALSE, FALSE), Change({"items"}, v, TRUE, TRUE),
          Change({"items", "note"}, v, FALSE, FALSE)} : v \in Values}

Symmetry == Permutations(Updates) \cup Permutations(Values)
=============================================================================
