----------------------------- MODULE Submission -----------------------------
(***************************************************************************)
(* One conversation's sales-order submissions: the session's prepared      *)
(* previews, its marks of unknown results, its cache of results, the lock  *)
(* submit_sales_order runs under, the call's steps between two awaits, and *)
(* the ERP on the other side of a request that can be lost, refused or     *)
(* answered too late.                                                      *)
(*                                                                         *)
(* asyncio runs one coroutine at a time, so everything between two awaits  *)
(* is one action.  A call sends at most one create request; the ERP order  *)
(* that request creates is named by the call.                              *)
(***************************************************************************)
EXTENDS Naturals, FiniteSets, SequencesExt

CONSTANTS
  Calls,            \* invocations of submitSalesOrder, each used once
  Previews,         \* preview ids, fresh for every preview built (uuid4)
  Keys,             \* idempotency keys; an omitted key is the preview id
  PreviewCap,       \* previews a session keeps (20)
  ResultCap,        \* results a session keeps (50)
  BodyMayNotDecode, \* whether a response body may fail to decode (see CreateEscapes)
  Null

ASSUME SubmissionAssumption ==
  /\ Previews \subseteq Keys
  /\ PreviewCap \in Nat \ {0}
  /\ ResultCap \in Nat \ {0}
  /\ BodyMayNotDecode \in BOOLEAN
  /\ Null \notin Calls

VARIABLES
  issued,     \* preview ids handed out so far
  prepared,   \* _prepared_sales_orders: preview ids, oldest first
  uncertain,  \* _uncertain_previews
  results,    \* _submission_results: key, preview and order, oldest first
  holder,     \* the call that holds submission_lock, or Null
  queue,      \* calls waiting for submission_lock, first come first served
  pc,         \* where each call is
  request,    \* what each call asked for
  post,       \* what became of each call's create request
  reply       \* what each call answered

session == <<issued, prepared, uncertain, results>>
lock    == <<holder, queue>>
vars    == <<issued, prepared, uncertain, results, holder, queue, pc, request,
             post, reply>>

(***************************************************************************)
(* permitted folds the three checks of the call's own arguments: scope     *)
(* billing:write, confirmed_by_user, a key of 1 to 128 characters.         *)
(***************************************************************************)
Requests == [preview : Previews, key : Keys, permitted : BOOLEAN]

\* label: the order is known by its internal id, or by its order number.
Labels  == {"id", "number"}
Results == [key : Keys, preview : Previews, order : Calls, label : Labels]

PostStates == {"unsent", "travelling", "created", "refused", "lost"}
ReplyKinds == {"none", "invalid", "conflict", "replay", "unknown", "notFound",
               "refused", "ok", "cancelled", "escaped"}
Replies == [kind : ReplyKinds, order : Calls \cup {Null}, label : Labels]
Answer(kind) == [kind |-> kind, order |-> Null, label |-> "id"]
Success(kind, r) == [kind |-> kind, order |-> r.order, label |-> r.label]

Init ==
  /\ issued = {}
  /\ prepared = <<>>
  /\ uncertain = {}
  /\ results = <<>>
  /\ holder = Null
  /\ queue = <<>>
  /\ pc = [c \in Calls |-> "idle"]
  /\ request = [c \in Calls |-> Null]
  /\ post = [c \in Calls |-> "unsent"]
  /\ reply = [c \in Calls |-> Answer("none")]

-----------------------------------------------------------------------------
(* The session's bookkeeping.                                              *)

\* A dict in insertion order gives up its oldest entry when it outgrows its cap.
Trim(s, cap) == IF Len(s) > cap THEN Tail(s) ELSE s

\* s without its element x; the lists below hold every element once.
Without(s, x) ==
  IF Contains(s, x) THEN RemoveAt(s, CHOOSE i \in 1 .. Len(s) : s[i] = x) ELSE s

\* (variant: an evicted preview leaves its mark behind)
StoreKeepsMarks(p) ==
  /\ prepared' = Trim(Append(prepared, p), PreviewCap)
  /\ UNCHANGED uncertain

\* store_prepared_sales_order: the oldest preview goes, and its mark with it.
StorePrepared(p) ==
  /\ prepared' = Trim(Append(prepared, p), PreviewCap)
  /\ uncertain' = uncertain \ (ToSet(Append(prepared, p)) \ ToSet(prepared'))

\* (variant: an unknown result leaves no mark)
NoMark(p) == UNCHANGED uncertain

\* mark_submission_uncertain: only a preview that is still kept is marked.
MarkUncertain(p) ==
  uncertain' = IF Contains(prepared, p) THEN uncertain \cup {p} ELSE uncertain

\* (variant: a submitted preview can be submitted again)
ConsumeNothing(p) == UNCHANGED <<prepared, uncertain>>

\* consume_prepared_sales_order
Consume(p) ==
  /\ prepared' = Without(prepared, p)
  /\ uncertain' = uncertain \ {p}

HasResult(k) == \E i \in DOMAIN results : results[i].key = k
ResultOf(k) == results[CHOOSE i \in DOMAIN results : results[i].key = k]

\* remember_submission: an existing key keeps its place.
Remember(r) ==
  results' = IF HasResult(r.key)
             THEN [i \in DOMAIN results |->
                     IF results[i].key = r.key THEN r ELSE results[i]]
             ELSE Trim(Append(results, r), ResultCap)

-----------------------------------------------------------------------------
(* Steps of a call.                                                        *)

\* previewSalesOrder stores a preview at any time: it does not take the lock.
StorePreview(p) ==
  /\ p \notin issued
  /\ issued' = issued \cup {p}
  /\ StorePrepared(p)
  /\ UNCHANGED <<results, lock, pc, request, post, reply>>

Submit(c, r) ==
  /\ pc[c] = "idle"
  /\ request' = [request EXCEPT ![c] = r]
  /\ pc' = [pc EXCEPT ![c] = "waiting"]
  /\ queue' = Append(queue, c)
  /\ UNCHANGED <<session, holder, post, reply>>

\* (variant of Turn: the lock is not waited for)
TurnWithoutLock(c) == pc[c] = "waiting" /\ Contains(queue, c)

\* The lock is free and c is the first to want it.
Turn(c) ==
  /\ pc[c] = "waiting"
  /\ holder = Null
  /\ queue # <<>>
  /\ Head(queue) = c

\* A call that answers in the step that took the lock releases it there.
AnswerInTurn(c, answer) ==
  /\ pc' = [pc EXCEPT ![c] = "done"]
  /\ reply' = [reply EXCEPT ![c] = answer]
  /\ queue' = Without(queue, c)
  /\ UNCHANGED <<session, holder, request, post>>

RejectArguments(c) ==
  /\ Turn(c)
  /\ ~request[c].permitted
  /\ AnswerInTurn(c, Answer("invalid"))

Cached(c) == request[c].permitted /\ HasResult(request[c].key)

\* (variant: the key alone decides what is replayed)
ReplayAnyPreview(c) ==
  /\ Turn(c)
  /\ Cached(c)
  /\ AnswerInTurn(c, Success("replay", ResultOf(request[c].key)))

\* The key has a result for this very preview: answer it again.
Replay(c) ==
  /\ Turn(c)
  /\ Cached(c)
  /\ ResultOf(request[c].key).preview = request[c].preview
  /\ AnswerInTurn(c, Success("replay", ResultOf(request[c].key)))

RejectConflict(c) ==
  /\ Turn(c)
  /\ Cached(c)
  /\ ResultOf(request[c].key).preview # request[c].preview
  /\ AnswerInTurn(c, Answer("conflict"))

NotCached(c) == request[c].permitted /\ ~HasResult(request[c].key)

\* require_prepared_sales_order, the preview is marked.
RejectUncertain(c) ==
  /\ Turn(c)
  /\ NotCached(c)
  /\ request[c].preview \in uncertain
  /\ AnswerInTurn(c, Answer("unknown"))

\* require_prepared_sales_order, the preview is not kept.
RejectMissing(c) ==
  /\ Turn(c)
  /\ NotCached(c)
  /\ request[c].preview \notin uncertain
  /\ ~Contains(prepared, request[c].preview)
  /\ AnswerInTurn(c, Answer("notFound"))

\* (variant: the mark is not looked at)
RequireOnlyPrepared(c) ==
  NotCached(c) /\ Contains(prepared, request[c].preview)

RequirePrepared(c) ==
  /\ NotCached(c)
  /\ request[c].preview \notin uncertain
  /\ Contains(prepared, request[c].preview)

\* No usable credential: create_sales_order fails before anything is sent.
CredentialMissing(c) ==
  /\ Turn(c)
  /\ RequirePrepared(c)
  /\ AnswerInTurn(c, Answer("refused"))

\* The create request leaves; the call keeps the lock while it waits.
SendCreate(c) ==
  /\ Turn(c)
  /\ RequirePrepared(c)
  /\ pc' = [pc EXCEPT ![c] = "creating"]
  /\ post' = [post EXCEPT ![c] = "travelling"]
  /\ holder' = c
  /\ queue' = Without(queue, c)
  /\ UNCHANGED <<session, request, reply>>

\* (variant: the lock is not released on the way out)
FinishKeepsLock(c, answer) ==
  /\ pc' = [pc EXCEPT ![c] = "done"]
  /\ reply' = [reply EXCEPT ![c] = answer]
  /\ UNCHANGED <<issued, holder, queue, request, post>>

\* The call answers and leaves the lock.
Finish(c, answer) ==
  /\ pc' = [pc EXCEPT ![c] = "done"]
  /\ reply' = [reply EXCEPT ![c] = answer]
  /\ holder' = Null
  /\ UNCHANGED <<issued, queue, request, post>>

ResultFor(c, label) ==
  [key |-> request[c].key, preview |-> request[c].preview, order |-> c,
   label |-> label]

\* (variant: the lock does not cover the lookup of the number)
CreateSucceedsUnlocked(c) ==
  /\ pc[c] = "creating"
  /\ post[c] = "created"
  /\ Remember(ResultFor(c, "id"))
  /\ Consume(request[c].preview)
  /\ pc' = [pc EXCEPT ![c] = "lookup"]
  /\ holder' = Null
  /\ UNCHANGED <<issued, queue, request, post, reply>>

\* The order id arrives: remember it, consume the preview, look the number up.
CreateSucceeds(c) ==
  /\ pc[c] = "creating"
  /\ post[c] = "created"
  /\ Remember(ResultFor(c, "id"))
  /\ Consume(request[c].preview)
  /\ pc' = [pc EXCEPT ![c] = "lookup"]
  /\ UNCHANGED <<issued, lock, request, post, reply>>

\* A business refusal arrives: the preview stays as it was.
CreateRefused(c) ==
  /\ pc[c] = "creating"
  /\ post[c] = "refused"
  /\ Finish(c, Answer("refused"))
  /\ UNCHANGED <<prepared, uncertain, results>>

\* Timeout, transport error, HTTP 5xx or an answer without an order id: the
\* ERP may be anywhere with the request.
CreateUnknown(c) ==
  /\ pc[c] = "creating"
  /\ MarkUncertain(request[c].preview)
  /\ Finish(c, Answer("unknown"))
  /\ UNCHANGED <<prepared, results>>

\* The client cancelled the tool call while the request was out.
CreateCancelled(c) ==
  /\ pc[c] = "creating"
  /\ MarkUncertain(request[c].preview)
  /\ Finish(c, Answer("cancelled"))
  /\ UNCHANGED <<prepared, results>>

(***************************************************************************)
(* An httpx.RequestError that is no TransportError (DecodingError: the     *)
(* response's content encoding is broken) is not caught by _request_json   *)
(* and is no DomainError: it leaves the call with no mark set.             *)
(***************************************************************************)
CreateEscapes(c) ==
  /\ BodyMayNotDecode
  /\ pc[c] = "creating"
  /\ post[c] \in {"created", "refused"}
  /\ Finish(c, Answer("escaped"))
  /\ UNCHANGED <<prepared, uncertain, results>>

\* _lookup_order_no ended, with the order number or (on any failure) without.
LookupAnswers(c, label) ==
  /\ pc[c] = "lookup"
  /\ Remember(ResultFor(c, label))
  /\ Finish(c, Success("ok", ResultFor(c, label)))
  /\ UNCHANGED <<prepared, uncertain>>

LookupCancelled(c) ==
  /\ pc[c] = "lookup"
  /\ Finish(c, Answer("cancelled"))
  /\ UNCHANGED <<prepared, uncertain, results>>

\* _lookup_order_no catches DomainError only.
LookupEscapes(c) ==
  /\ BodyMayNotDecode
  /\ pc[c] = "lookup"
  /\ Finish(c, Answer("escaped"))
  /\ UNCHANGED <<prepared, uncertain, results>>

\* Cancelled while waiting for the lock.
CancelWaiting(c) ==
  /\ pc[c] = "waiting"
  /\ AnswerInTurn(c, Answer("cancelled"))

\* The process restarts: memory is gone, requests already sent are not.
Restart ==
  /\ prepared' = <<>>
  /\ uncertain' = {}
  /\ results' = <<>>
  /\ holder' = Null
  /\ queue' = <<>>
  /\ pc' = [c \in Calls |-> IF pc[c] = "idle" THEN "idle" ELSE "done"]
  /\ reply' = [c \in Calls |-> IF pc[c] \in {"idle", "done"} THEN reply[c]
                               ELSE Answer("cancelled")]
  /\ UNCHANGED <<issued, request, post>>

-----------------------------------------------------------------------------
(* The ERP: whatever happens to a request happens once.                    *)

ErpSettles(c, fate) ==
  /\ post[c] = "travelling"
  /\ post' = [post EXCEPT ![c] = fate]
  /\ UNCHANGED <<session, lock, pc, request, reply>>

\* The ERP creates the order, refuses it, or the request never arrives.
ErpCreates(c) == ErpSettles(c, "created")
ErpRefuses(c) == ErpSettles(c, "refused")
RequestLost(c) == ErpSettles(c, "lost")

-----------------------------------------------------------------------------

\* What a call does as soon as the lock is its own.
TakeTurn(c) ==
  \/ RejectArguments(c) \/ Replay(c) \/ RejectConflict(c)
  \/ RejectUncertain(c) \/ RejectMissing(c)
  \/ CredentialMissing(c) \/ SendCreate(c)

\* How the await of create_sales_order ends.
CreateEnds(c) ==
  CreateSucceeds(c) \/ CreateRefused(c) \/ CreateUnknown(c) \/ CreateEscapes(c)

\* How the await of _lookup_order_no ends.
LookupEnds(c) ==
  (\E label \in Labels : LookupAnswers(c, label)) \/ LookupEscapes(c)

Erp(c) == ErpCreates(c) \/ ErpRefuses(c) \/ RequestLost(c)
Cancel(c) == CancelWaiting(c) \/ CreateCancelled(c) \/ LookupCancelled(c)

Next ==
  \/ \E p \in Previews : StorePreview(p)
  \/ \E c \in Calls :
       \/ \E r \in Requests : Submit(c, r)
       \/ TakeTurn(c)
       \/ CreateEnds(c)
       \/ LookupEnds(c)
       \/ Cancel(c)
       \/ Erp(c)
  \/ Restart

(***************************************************************************)
(* Fairness: the event loop runs a coroutine whose lock is free, and httpx *)
(* ends every request within its timeout (with CreateUnknown at the        *)
(* latest).  Nothing is assumed of the ERP, of clients or of the process.  *)
(***************************************************************************)
Fairness ==
  \A c \in Calls :
    /\ WF_vars(TakeTurn(c))
    /\ WF_vars(CreateEnds(c))
    /\ WF_vars(LookupEnds(c))

Spec == Init /\ [][Next]_vars
FairSpec == Spec /\ Fairness

-----------------------------------------------------------------------------
(* Correctness.                                                            *)

TypeOK ==
  /\ issued \subseteq Previews
  /\ prepared \in Seq(Previews) /\ Len(prepared) <= PreviewCap
  /\ uncertain \subseteq Previews
  /\ results \in Seq(Results) /\ Len(results) <= ResultCap
  /\ holder \in Calls \cup {Null}
  /\ queue \in Seq(Calls)
  /\ pc \in [Calls -> {"idle", "waiting", "creating", "lookup", "done"}]
  /\ request \in [Calls -> Requests \cup {Null}]
  /\ post \in [Calls -> PostStates]
  /\ reply \in [Calls -> Replies]

Posted == {c \in Calls : post[c] # "unsent"}
Orders == {c \in Calls : post[c] = "created"}
SamePreview(c, d) == request[c].preview = request[d].preview

\* One preview never becomes two sales orders, however many calls submit it,
\* under whatever keys, and whatever was cancelled, timed out or restarted.
AtMostOneOrder == \A c, d \in Orders : SamePreview(c, d) => c = d

\* Of the orders made of one preview all but one are of calls that a response
\* that did not decode has ended (adapters.py:621): nothing else repeats an order.
OnlyEscapesRepeat ==
  \A c, d \in Orders :
    SamePreview(c, d) /\ c # d => "escaped" \in {reply[c].kind, reply[d].kind}

\* A preview goes to the ERP again only after every earlier attempt was
\* answered with a refusal: a lost or late answer is never retried.
ResendOnlyAfterRefusal ==
  [][\A c \in Calls :
       c \in Posted' \ Posted =>
         \A d \in Posted : SamePreview(c, d) => reply[d].kind = "refused"]_vars

\* However bodies decode, it goes there again only after every earlier attempt was
\* refused or ended by a response that did not decode.
ResendOnlyAfterAnswer ==
  [][\A c \in Calls :
       c \in Posted' \ Posted =>
         \A d \in Posted :
           SamePreview(c, d) => reply[d].kind \in {"refused", "escaped"}]_vars

\* What a caller is told is so: the order it is given was created from the
\* preview it named, and a refused submission created nothing.
TruthfulAnswers ==
  \A c \in Calls :
    /\ reply[c].kind \in {"ok", "replay"} =>
         /\ reply[c].order \in Orders
         /\ SamePreview(reply[c].order, c)
    /\ reply[c].kind = "refused" => post[c] \in {"unsent", "refused"}

\* A kept preview is blocked exactly when the result of a submission of it is
\* unknown: no unknown result is forgotten while the preview is there, and no
\* preview is blocked for a refusal or for a call that sent nothing.
MarksAreExact ==
  /\ uncertain \subseteq ToSet(prepared)
  /\ \A p \in ToSet(prepared) :
       p \in uncertain <=>
         \E c \in Posted : request[c].preview = p /\ pc[c] = "done"
                           /\ reply[c].kind \in {"unknown", "cancelled"}

\* A preview whose order the session knows cannot be sent again, and the
\* result kept for a key names an order made from the preview kept with it.
SuccessIsSettled ==
  \A i \in DOMAIN results :
    /\ ~Contains(prepared, results[i].preview)
    /\ results[i].order \in Orders
    /\ request[results[i].order].preview = results[i].preview
    /\ \A j \in DOMAIN results : results[i].key = results[j].key => i = j

\* A replay gives the caller the very answer the first call got, order number
\* included: no replay slips in before the number was looked up.
ReplayMatchesOriginal ==
  \A c, d \in Calls :
    reply[c].kind = "replay" /\ reply[c].order = d /\ reply[d].kind = "ok"
      => reply[c].label = reply[d].label

\* Every submission is answered: nobody holds the lock for ever and nobody is
\* overtaken for ever.
EverySubmitAnswered ==
  \A c \in Calls : pc[c] = "waiting" ~> pc[c] = "done"

(***************************************************************************)
(* Why OnlyEscapesRepeat holds, and AtMostOneOrder if bodies decode: an    *)
(* inductive invariant.                                                    *)
(***************************************************************************)

\* The lock is held exactly by the call that is between its awaits.
LockInv == \A c \in Calls : pc[c] \in {"creating", "lookup"} <=> holder = c

\* A request is out only for a call that got as far, about an issued preview.
ProgressInv ==
  \A c \in Calls :
    /\ pc[c] # "idle" => request[c] \in Requests
    /\ pc[c] \in {"idle", "waiting"} => post[c] = "unsent"
    /\ post[c] # "unsent" => request[c].preview \in issued

\* The kept previews are issued ones, each kept once.
PreparedInv ==
  /\ ToSet(prepared) \subseteq issued
  /\ \A i, j \in DOMAIN prepared : prepared[i] = prepared[j] => i = j

\* A create request that was not refused: it is, or may become, an order; and
\* the session knows as much, unless a response that did not decode ended the
\* call.
Open(c) ==
  post[c] \in {"travelling", "created", "lost"} /\ reply[c].kind # "escaped"

\* An open request for a preview that can be submitted belongs to the call
\* that holds the lock.
CleanInv ==
  \A c \in Calls :
    Open(c) /\ request[c].preview \in ToSet(prepared) \ uncertain
      => pc[c] = "creating"

AtMostOneOpen ==
  \A c, d \in Calls : Open(c) /\ Open(d) /\ SamePreview(c, d) => c = d

SafetyInv ==
  /\ TypeOK /\ LockInv /\ ProgressInv /\ PreparedInv /\ CleanInv
  /\ AtMostOneOpen

(***************************************************************************)
(* Why the answers are right: what links a call's progress, its answer and *)
(* the result the session keeps of it.                                     *)
(***************************************************************************)

\* What a call has answered, and what became of its request, go together; a
\* call that knows its order has taken the preview out of reach.
AnswerInv ==
  \A c \in Calls :
    /\ pc[c] # "done" => reply[c].kind = "none"
    /\ pc[c] = "creating" => post[c] # "unsent"
    /\ pc[c] = "lookup" =>
         post[c] = "created" /\ request[c].preview \notin ToSet(prepared)
    /\ pc[c] = "done" /\ post[c] # "unsent" =>
         reply[c].kind \in {"ok", "refused", "unknown", "cancelled", "escaped"}
    /\ reply[c].kind = "ok" => reply[c].order = c /\ post[c] = "created"
    /\ reply[c].kind = "refused" => post[c] \in {"unsent", "refused"}
    /\ reply[c].kind = "escaped" => BodyMayNotDecode

\* A kept result is that of the call it names: its order, its preview (which
\* is consumed), its key, and its label once that call has answered.
Faithful(r) ==
  /\ post[r.order] = "created"
  /\ pc[r.order] \in {"lookup", "done"}
  /\ request[r.order].key = r.key
  /\ request[r.order].preview = r.preview
  /\ r.preview \notin ToSet(prepared)
  /\ reply[r.order].kind = "ok" => reply[r.order].label = r.label

KeysDistinct ==
  \A i, j \in DOMAIN results : results[i].key = results[j].key => i = j

ResultInv == KeysDistinct /\ \A i \in DOMAIN results : Faithful(results[i])

\* A replayed order is one whose call had already answered.
ReplayInv ==
  \A c \in Calls : reply[c].kind = "replay" =>
    LET d == reply[c].order IN
      /\ d \in Orders /\ pc[d] = "done" /\ SamePreview(d, c)
      /\ reply[d].kind = "ok" => reply[c].label = reply[d].label

StoryInv == AnswerInv /\ ResultInv /\ ReplayInv

(***************************************************************************)
(* The session implements OrderLedger.                                     *)
(***************************************************************************)
BeingCreated == {request[c].preview : c \in {d \in Calls : pc[d] = "creating"}}
Usable       == (ToSet(prepared) \ uncertain) \ BeingCreated
UnderWay     == {request[c].preview : c \in {d \in Calls : post[d] = "travelling"}}
OrdersOf(p)  == {c \in Orders : request[c].preview = p}

Ledger == INSTANCE OrderLedger WITH
  offered <- issued,
  usable  <- Usable,
  pending <- UnderWay,
  orders  <- [p \in Previews |-> Cardinality(OrdersOf(p))]

\* Every step of the session is a step of the ledger or leaves it alone.
ImplementsLedger == Ledger!Spec
=============================================================================
