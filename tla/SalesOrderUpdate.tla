-------------------------- MODULE SalesOrderUpdate --------------------------
(***************************************************************************)
(* updateSalesOrder and voidSalesOrder on the orders of the ERP, with the  *)
(* reading of an order (getSalesOrder) that is part of both.  A call names *)
(* its order by internal id or by order number; a number is looked up in   *)
(* one page of a search that finds every order whose number contains it.   *)
(* The ERP takes whole orders (PUT), so an update reads the order, merges  *)
(* the fields it was asked to change and writes everything back; no lock   *)
(* and no version joins the read to the write.                             *)
(*                                                                         *)
(* "party" stands for the fields an effective order locks (customer,       *)
(* warehouse, discount), "note" for those it does not (date, handler,      *)
(* remark), "items" for the lines.  A line that keeps its orderItemId is   *)
(* edited by the ERP, one without is a new line.                           *)
(***************************************************************************)
EXTENDS Naturals, FiniteSets

CONSTANTS
  Updates,  \* updateSalesOrder calls
  Voids,    \* voidSalesOrder calls
  Values,   \* what a field may hold
  Wanted,   \* changes that updates ask for
  Ids,      \* internal ids of orders, all digits
  Number,   \* the order number of each
  Tokens,   \* ids and numbers that calls name
  Finds,    \* the orders a search for a number finds
  PageSize, \* rows of a page of that search (20)
  Null

Fields == {"party", "note", "items"}
Draft == 1
Effective == 2
Voided == 3

\* What an update asks for: new values of some fields, whether the new items name
\* their lines, and saveType final.
Changes == {ch \in [fields : SUBSET Fields, value : Values, named : BOOLEAN, final : BOOLEAN] :
              /\ ch.fields # {} \/ ch.final
              /\ ch.named => "items" \in ch.fields}
Orders == [status : {Draft, Effective, Voided}, named : BOOLEAN,
           party : Values, note : Values, items : Values]
NewOrders == {o \in Orders : o.status # Voided /\ o.named
                              /\ o.party = o.note /\ o.note = o.items}

Calls == Updates \cup Voids

\* Order numbers are unique and never all digits; a search for a number finds at
\* least the order that has it.
ASSUME UpdateAssumption ==
  /\ Null \notin Changes \cup Orders \cup Ids \cup Tokens
  /\ \A i \in Ids : Number[i] # Null
  /\ Wanted \subseteq Changes
  /\ IsFiniteSet(Ids)
  /\ PageSize \in Nat
  /\ Updates \cap Voids = {}
  /\ \A i \in Ids : Number[i] \notin Ids
                  /\ \A j \in Ids : Number[i] = Number[j] => i = j
  /\ Tokens \subseteq Ids \cup {Number[i] : i \in Ids}
  /\ \A n \in Tokens \ Ids : /\ Finds[n] \subseteq Ids
                             /\ \A i \in Ids : Number[i] = n => i \in Finds[n]

VARIABLES
  orders,  \* the orders in the ERP; named: the lines are the ones it had
  pc,      \* where each call is
  target,  \* how each call names its order, or Null
  found,   \* the id each call resolved that to, or Null
  change,  \* what each update asks for, or Null
  seen,    \* the detail each update read, or Null
  put,     \* what became of each call's PUT
  answer   \* the order each call's answer names, or Null for an error

vars == <<orders, pc, target, found, change, seen, put, answer>>

Init ==
  /\ orders \in [Ids -> NewOrders \cup {Null}]
  /\ pc = [c \in Calls |-> "idle"]
  /\ target = [c \in Calls |-> Null]
  /\ found = [c \in Calls |-> Null]
  /\ change = [c \in Updates |-> Null]
  /\ seen = [c \in Updates |-> Null]
  /\ put = [c \in Calls |-> "unsent"]
  /\ answer = [c \in Calls |-> Null]

Goes(c, where) == pc' = [pc EXCEPT ![c] = where]

-----------------------------------------------------------------------------
(* Finding the order.                                                      *)

Exists(i) == orders[i] # Null

\* (variant: the page is one row short)
PagesShort(n) ==
  LET hits == {i \in Finds[n] : Exists(i)} IN
  {page \in SUBSET hits : /\ Cardinality(page) <= PageSize - 1
                          /\ Cardinality(page) = PageSize - 1 \/ page = hits}

\* search_sales_orders: pages the ERP may answer a search for n with.
Pages(n) ==
  LET hits == {i \in Finds[n] : Exists(i)} IN
  {page \in SUBSET hits : /\ Cardinality(page) <= PageSize
                          /\ Cardinality(page) = PageSize \/ page = hits}

\* (variant: the first row is taken)
AnyRow(n, page) == page

Exact(n, page) == {i \in page : Number[i] = n}

\* _resolve_order_id: what a name may be resolved to, Null for not found.
Resolutions(name) ==
  IF name \in Ids
  THEN {name}
  ELSE UNION {IF Exact(name, page) = {} THEN {Null} ELSE Exact(name, page) :
                page \in Pages(name)}

\* The name is resolved: a void sends its PUT, an update reads the order.
Resolve(c) ==
  /\ pc[c] = "finding"
  /\ \E i \in Resolutions(target[c]) :
       /\ found' = [found EXCEPT ![c] = i]
       /\ IF i = Null
          THEN Goes(c, "not found") /\ answer' = [answer EXCEPT ![c] = Null] /\ UNCHANGED put
          ELSE IF c \in Voids
               THEN Goes(c, "putting") /\ put' = [put EXCEPT ![c] = "travelling"]
                    /\ UNCHANGED answer
               ELSE Goes(c, "reading") /\ UNCHANGED <<put, answer>>
  /\ UNCHANGED <<orders, target, change, seen>>

\* _lookup_order_no of an order that was found: its number, or what it is called
\* meanwhile if the lookup fails.
Shown(i, name) == {name} \cup IF i # Null /\ Exists(i) THEN {Number[i]} ELSE {}

-----------------------------------------------------------------------------
(* updateSalesOrder.                                                       *)

\* Arguments are fine and references resolved; the order is to be found.
Update(c, name, ch) ==
  /\ pc[c] = "idle"
  /\ target' = [target EXCEPT ![c] = name]
  /\ change' = [change EXCEPT ![c] = ch]
  /\ Goes(c, "finding")
  /\ UNCHANGED <<orders, found, seen, put, answer>>

\* (variant: a locked field is compared with nothing)
RejectedVoidedOnly(o, ch) == o.status = Voided

\* _merge_sales_order_update refuses: the order is voided, or it is effective
\* and a locked field would change or a line lacks its id.
Rejected(o, ch) ==
  \/ o.status = Voided
  \/ /\ o.status = Effective
     /\ \/ "party" \in ch.fields /\ ch.value # o.party
        \/ "items" \in ch.fields /\ ~ch.named

\* (variant: lines that are not changed lose their ids)
MergedForgetsIds(o, ch) ==
  [o EXCEPT !.party  = IF "party" \in ch.fields THEN ch.value ELSE @,
            !.note   = IF "note" \in ch.fields THEN ch.value ELSE @,
            !.items  = IF "items" \in ch.fields THEN ch.value ELSE @,
            !.status = IF ch.final THEN Effective ELSE @,
            !.named  = "items" \in ch.fields /\ ch.named]

\* The payload: what was read, with the changes laid over it.
Merged(o, ch) ==
  [o EXCEPT !.party  = IF "party" \in ch.fields THEN ch.value ELSE @,
            !.note   = IF "note" \in ch.fields THEN ch.value ELSE @,
            !.items  = IF "items" \in ch.fields THEN ch.value ELSE @,
            !.status = IF ch.final THEN Effective ELSE @,
            !.named  = IF "items" \in ch.fields THEN ch.named ELSE TRUE]

\* The detail arrives; the PUT leaves unless the merge refuses.
ReadAndPut(c) ==
  /\ c \in Updates
  /\ pc[c] = "reading"
  /\ Exists(found[c])
  /\ LET o == orders[found[c]] IN
       /\ seen' = [seen EXCEPT ![c] = o]
       /\ IF Rejected(o, change[c])
          THEN Goes(c, "done") /\ UNCHANGED put
          ELSE Goes(c, "putting") /\ put' = [put EXCEPT ![c] = "travelling"]
  /\ UNCHANGED <<orders, target, found, change, answer>>

\* The PUT succeeded; the order's number is looked up for the answer.
UpdateAnswered(c) ==
  /\ c \in Updates
  /\ pc[c] = "putting"
  /\ put[c] = "applied"
  /\ \E n \in Shown(found[c], found[c]) : answer' = [answer EXCEPT ![c] = n]
  /\ Goes(c, "done")
  /\ UNCHANGED <<orders, target, found, change, seen, put>>

-----------------------------------------------------------------------------
(* voidSalesOrder.                                                         *)

Void(c, name) ==
  /\ pc[c] = "idle"
  /\ target' = [target EXCEPT ![c] = name]
  /\ Goes(c, "looking")
  /\ UNCHANGED <<orders, found, change, seen, put, answer>>

\* The number to answer with is looked up first; whether that works does not
\* matter.  Then the order is found once more, to be voided.
LookUp(c) ==
  /\ pc[c] = "looking"
  /\ \E i \in Resolutions(target[c]) : \E n \in Shown(i, target[c]) :
       answer' = [answer EXCEPT ![c] = n]
  /\ Goes(c, "finding")
  /\ UNCHANGED <<orders, target, found, change, seen, put>>

VoidAnswered(c) ==
  /\ c \in Voids
  /\ pc[c] = "putting"
  /\ put[c] = "applied"
  /\ Goes(c, "done")
  /\ UNCHANGED <<orders, target, found, change, seen, put, answer>>

-----------------------------------------------------------------------------
(* Both.                                                                   *)

\* (variant: the number looked up is told all the same)
FailsTelling(c) ==
  /\ pc[c] \in {"looking", "finding", "reading", "putting"}
  /\ Goes(c, "done")
  /\ UNCHANGED <<orders, target, found, change, seen, put, answer>>

\* A request fails, times out or is cancelled; a PUT that still travels goes on.
Fails(c) ==
  /\ pc[c] \in {"looking", "finding", "reading", "putting"}
  /\ answer' = [answer EXCEPT ![c] = Null]
  /\ Goes(c, "done")
  /\ UNCHANGED <<orders, target, found, change, seen, put>>

(***************************************************************************)
(* The ERP carries a PUT out once, refuses it or never gets it.  It does   *)
(* not touch a voided order.                                               *)
(***************************************************************************)
Applies(c) ==
  /\ c \in Updates
  /\ put[c] = "travelling"
  /\ LET o == orders[found[c]]
         p == Merged(seen[c], change[c])
     IN /\ o.status # Voided
        /\ orders' = [orders EXCEPT
                        ![found[c]] = [p EXCEPT !.status = IF @ < o.status THEN o.status ELSE @,
                                                !.named = @ /\ o.named]]
  /\ put' = [put EXCEPT ![c] = "applied"]
  /\ UNCHANGED <<pc, target, found, change, seen, answer>>

AppliesVoid(c) ==
  /\ c \in Voids
  /\ put[c] = "travelling"
  /\ Exists(found[c])
  /\ orders' = [orders EXCEPT ![found[c]].status = Voided]
  /\ put' = [put EXCEPT ![c] = "applied"]
  /\ UNCHANGED <<pc, target, found, change, seen, answer>>

RefusesOrLoses(c) ==
  /\ put[c] = "travelling"
  /\ put' = [put EXCEPT ![c] = "gone"]
  /\ UNCHANGED <<orders, pc, target, found, change, seen, answer>>

\* Another user of the ERP creates an order.
Created(i) ==
  /\ ~Exists(i)
  /\ \E o \in NewOrders : orders' = [orders EXCEPT ![i] = o]
  /\ UNCHANGED <<pc, target, found, change, seen, put, answer>>

-----------------------------------------------------------------------------

Next ==
  \/ \E c \in Updates :
       \/ \E name \in Tokens, ch \in Wanted : Update(c, name, ch)
       \/ ReadAndPut(c) \/ UpdateAnswered(c) \/ Applies(c)
  \/ \E c \in Voids :
       \/ \E name \in Tokens : Void(c, name)
       \/ LookUp(c) \/ VoidAnswered(c) \/ AppliesVoid(c)
  \/ \E c \in Calls : Resolve(c) \/ Fails(c) \/ RefusesOrLoses(c)
  \/ \E i \in Ids : Created(i)

Spec == Init /\ [][Next]_vars

-----------------------------------------------------------------------------
(* Correctness.                                                            *)

\* Every variable keeps its type.
TypeOK ==
  /\ orders \in [Ids -> Orders \cup {Null}]
  /\ pc \in [Calls -> {"idle", "looking", "finding", "reading", "putting", "not found", "done"}]
  /\ target \in [Calls -> Tokens \cup {Null}]
  /\ found \in [Calls -> Ids \cup {Null}]
  /\ change \in [Updates -> Changes \cup {Null}]
  /\ seen \in [Updates -> Orders \cup {Null}]
  /\ put \in [Calls -> {"unsent", "travelling", "applied", "gone"}]
  /\ answer \in [Calls -> Tokens \cup Ids \cup {Number[i] : i \in Ids} \cup {Null}]

Applied(c) == put[c] = "travelling" /\ put'[c] = "applied"

\* Another update than c posted the order that c found.
PostedByOther(c) ==
  \E d \in Updates \ {c} : put[d] = "applied" /\ found[d] = found[c] /\ change[d].final

\* An order's lines lose their identity only to the PUT of an update that replaced
\* them, never to a change of another field, and only as lines of a draft
\* (_merge_sales_order_update) - but for one race: nothing joins the read to the
\* PUT, so an update that read a draft takes the lines of an effective order if
\* another update posted it in between.
LinesKeepIdentity ==
  [][\A i \in Ids : Exists(i) /\ orders[i].named /\ ~orders'[i].named =>
       \E c \in Updates :
         /\ Applied(c) /\ found[c] = i
         /\ "items" \in change[c].fields /\ ~change[c].named
         /\ seen[c].status = Draft
         /\ orders[i].status = Draft \/ PostedByOther(c)]_vars

\* This step changes of the order c found what c was asked to change.
IsExact(c) ==
  LET ch == change[c]   o == orders[found[c]]   p == orders'[found[c]] IN
  /\ \A f \in Fields : p[f] = IF f \in ch.fields THEN ch.value ELSE o[f]
  /\ "items" \notin ch.fields => p.named = o.named
  /\ o.status = Effective => p.party = o.party

\* An update that finds the order as it read it changes what it was asked to,
\* and nothing else: no omitted field, no line's identity, and no locked field
\* of an effective order.
UndisturbedUpdateIsExact ==
  [][\A c \in Updates : Applied(c) /\ seen[c] = orders[found[c]] => IsExact(c)]_vars

NamedBy(c, i) == target[c] = i \/ target[c] = Number[i]

\* An order that exists changes only by the PUT of a call that named it, however
\* many other numbers contain the one it gave.
WritesOnlyNamed ==
  [][\A i \in Ids : Exists(i) /\ orders'[i] # orders[i] =>
       \E c \in Calls : Applied(c) /\ NamedBy(c, i)]_vars

\* What a call answers with is the order it changed, which is the one it was
\* asked to change, although a void finds that order twice.
AnswerNamesOrder ==
  \A c \in Calls : pc[c] = "done" /\ answer[c] # Null =>
    put[c] = "applied" /\ NamedBy(c, found[c]) /\ answer[c] \in {found[c], Number[found[c]]}

\* An order that exists is found by its number, unless more orders than fit on
\* a page have numbers that contain it (_resolve_order_id reads one page).
MissedOnlyBeyondPage ==
  [][\A c \in Calls, i \in Ids :
       pc[c] = "finding" /\ pc'[c] = "not found" /\ Exists(i) /\ Number[i] = target[c] =>
         Cardinality({j \in Finds[target[c]] : Exists(j)}) > PageSize]_vars

-----------------------------------------------------------------------------
(* The inductive invariant behind them.                                    *)

\* A call works on an order it named, and its PUT is out only for such an order.
FoundIsNamed ==
  \A c \in Calls :
    /\ pc[c] # "idle" => target[c] \in Tokens
    /\ pc[c] \in {"idle", "looking", "finding", "reading", "not found"} => put[c] = "unsent"
    /\ pc[c] \in {"idle", "looking", "finding"} => found[c] = Null
    /\ pc[c] \in {"reading", "putting"} \/ put[c] # "unsent" => found[c] # Null
    /\ found[c] # Null => NamedBy(c, found[c])

\* A PUT is out only after the update read an order its merge accepts, and
\* nothing it was made from changes any more.
PutIsMerged ==
  \A c \in Updates :
    /\ pc[c] # "idle" => change[c] \in Changes
    /\ put[c] # "unsent" => /\ seen[c] \in Orders /\ ~Rejected(seen[c], change[c])
                            /\ Exists(found[c])

\* Before the end an answer is kept only for a void, and is what it named or the
\* number of that.
AnswerIsOfTarget ==
  \A c \in Calls : answer[c] # Null /\ pc[c] # "done" =>
    /\ c \in Voids /\ pc[c] \notin {"idle", "looking"}
    /\ answer[c] = target[c] \/ (target[c] \in Ids /\ answer[c] = Number[target[c]])

\* The status of an order never falls back, and while an update's PUT travels it
\* rises to effective only by another update that posts.
StatusOnlyRises ==
  \A c \in Updates : put[c] = "travelling" =>
    LET now == orders[found[c]].status IN
    /\ seen[c].status <= now
    /\ now = Effective => seen[c].status = Effective \/ PostedByOther(c)

UpdateInv ==
  TypeOK /\ FoundIsNamed /\ PutIsMerged /\ StatusOnlyRises /\ AnswerIsOfTarget /\ AnswerNamesOrder
=============================================================================
