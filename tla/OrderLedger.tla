---------------------------- MODULE OrderLedger ----------------------------
(***************************************************************************)
(* What a client of submitSalesOrder is promised, with no session, lock or *)
(* cache in sight: a confirmed preview is sent to the ERP only while       *)
(* nothing it sent before can still turn into an order, so a preview never *)
(* becomes two sales orders.  Submission.tla is shown to implement it.     *)
(***************************************************************************)
EXTENDS Naturals

CONSTANT Previews        \* every preview id that is ever issued

VARIABLES
  offered,    \* previews issued so far
  usable,     \* previews that a submission may send now
  pending,    \* previews whose request the ERP may still execute
  orders      \* orders[p]: number of sales orders the ERP created from p

ledgerVars == <<offered, usable, pending, orders>>

Init ==
  /\ offered = {}
  /\ usable = {}
  /\ pending = {}
  /\ orders = [p \in Previews |-> 0]

\* A new preview becomes usable; older ones may be given up to make room.
Offer(p, dropped) ==
  /\ p \notin offered
  /\ offered' = offered \cup {p}
  /\ usable' = (usable \ dropped) \cup {p}
  /\ UNCHANGED <<pending, orders>>

\* The preview goes to the ERP and is out of reach until the ERP refuses it.
Send(p) ==
  /\ p \in usable
  /\ usable' = usable \ {p}
  /\ pending' = pending \cup {p}
  /\ UNCHANGED <<offered, orders>>

Create(p) ==
  /\ p \in pending
  /\ pending' = pending \ {p}
  /\ orders' = [orders EXCEPT ![p] = @ + 1]
  /\ UNCHANGED <<offered, usable>>

\* The ERP will not execute the request: it refused it or never received it.
Discard(p) ==
  /\ p \in pending
  /\ pending' = pending \ {p}
  /\ UNCHANGED <<offered, usable, orders>>

\* A refused preview may be sent again.
Return(p) ==
  /\ p \in offered \ pending
  /\ orders[p] = 0
  /\ usable' = usable \cup {p}
  /\ UNCHANGED <<offered, pending, orders>>

\* Previews are forgotten: eviction, restart.
Withdraw(dropped) ==
  /\ usable' = usable \ dropped
  /\ UNCHANGED <<offered, pending, orders>>

Next ==
  \/ \E p \in Previews :
       \/ \E dropped \in SUBSET usable : Offer(p, dropped)
       \/ Send(p) \/ Create(p) \/ Discard(p) \/ Return(p)
  \/ \E dropped \in SUBSET usable : Withdraw(dropped)

Spec == Init /\ [][Next]_ledgerVars

-----------------------------------------------------------------------------

LedgerTypeOK ==
  /\ offered \subseteq Previews
  /\ usable \subseteq offered
  /\ pending \subseteq offered
  /\ orders \in [Previews -> Nat]

\* A preview that may be sent has no order and nothing under way.
UsableIsClean == \A p \in usable : p \notin pending /\ orders[p] = 0

\* A preview under way has no order yet.
PendingHasNoOrder == \A p \in pending : orders[p] = 0

\* Only a preview that was offered has become an order.
OrdersAreOffered == \A p \in Previews \ offered : orders[p] = 0

\* The promise: no preview becomes two sales orders.
AtMostOncePerPreview == \A p \in Previews : orders[p] <= 1

LedgerInv ==
  /\ LedgerTypeOK /\ UsableIsClean /\ PendingHasNoOrder /\ OrdersAreOffered
  /\ AtMostOncePerPreview
=============================================================================
