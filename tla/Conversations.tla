--------------------------- MODULE Conversations ---------------------------
(***************************************************************************)
(* How tool calls find their conversation: who a request is from, the      *)
(* context its task runs with, the ToolSet cached for its conversation,    *)
(* the catalogue its tenant shares, and the credential it asks the ERP     *)
(* with.  The legacy entry (app.py) keeps the credential of the latest     *)
(* request of a conversation; the WorkBuddy entry takes that of the user,  *)
(* who is named by it, and lets a call in only with a living access token. *)
(*                                                                         *)
(* Resolving identity and ToolSet awaits nothing, so it is one step; the   *)
(* call then runs, and sends requests to the ERP, among others.  Calls are *)
(* numbered as they arrive; a session, like a tenant's catalogue state, is *)
(* named by the call that made it, and a preview by the call it answered.  *)
(* The cache is the TTLCache of cachetools: least recently used out first, *)
(* and every entry gone a fixed time after it was made.                    *)
(***************************************************************************)
EXTENDS Naturals, FiniteSets, SequencesExt

CONSTANTS
  MaxCalls,     \* bound on the calls
  MaxSessions,  \* MCP_SESSION_MAX_SIZE (500)
  Requests,     \* headers of a request: bearer, apiKey and conversation, by entry
  Claims,       \* tenant and login of each bearer token
  Writers,      \* access tokens with the scope billing:write
  Cut,          \* conversation ids cut to 64 characters
  Expiring,     \* tokens that carry an exp, or may be revoked
  Null

Calls == 1 .. MaxCalls

ASSUME ConversationsAssumption ==
  /\ MaxCalls \in Nat /\ MaxSessions \in Nat \ {0}
  /\ \A q \in Requests.legacy : {q.bearer, q.apiKey} # {Null}
  /\ \A q \in Requests.workbuddy : q.bearer # Null
  /\ Null \notin Calls

VARIABLES
  entry,    \* the entry that was started: "legacy" or "workbuddy"
  calls,    \* the calls that arrived, in order
  event,    \* what a call did last, seen from outside, or Null
  creds,    \* SessionCredentialStore._creds
  cache,    \* _toolsets: key and session, least recently used first
  states,   \* _catalog_states: the state of each tenant, or Null
  expired,  \* tokens whose exp has passed, or that were revoked
  closed    \* the entry was shut down

vars == <<entry, calls, event, creds, cache, states, expired, closed>>

\* _CompositeIdentityResolver: a bearer token goes before an API key.
Token(q) == IF q.bearer # Null THEN q.bearer ELSE q.apiKey

\* An API key is a tenant of its own, and so is a key bound at WorkBuddy.
KeyHolder(key) == [tenant |-> key, login |-> key]

User(q) == IF q.bearer # Null THEN Claims[q.bearer] ELSE KeyHolder(q.apiKey)

Tenants == {User(q).tenant : q \in Requests[entry]}

\* (variant: ids are not cut)
KeyOfUncut(q) == [user |-> User(q), conversation |-> q.conversation]

\* _key: tenant and account are the user's tenant, the session is login and id.
\* WorkBuddy takes a digest of the whole id.
KeyOf(q) ==
  [user |-> User(q),
   conversation |-> IF entry = "legacy" THEN Cut[q.conversation] ELSE q.conversation]

Keys == {KeyOf(q) : q \in Requests[entry]}

\* The legacy entry gives every caller both scopes.
MayWrite(q) == entry = "legacy" \/ q.bearer \in Writers

Init ==
  /\ entry \in {"legacy", "workbuddy"}
  /\ calls = <<>>
  /\ event = Null
  /\ creds = [k \in Keys |-> Null]
  /\ cache = <<>>
  /\ states = [t \in Tenants |-> Null]
  /\ expired = {}
  /\ closed = FALSE

-----------------------------------------------------------------------------

\* (variant: the credential a conversation began with is kept)
RegisterOnce(q) ==
  creds' = IF entry = "legacy" /\ creds[KeyOf(q)] = Null
           THEN [creds EXCEPT ![KeyOf(q)] = Token(q)] ELSE creds

\* SessionCredentialStore.register
Register(q) ==
  creds' = IF entry = "legacy" THEN [creds EXCEPT ![KeyOf(q)] = Token(q)] ELSE creds

Cached(k) == {i \in DOMAIN cache : cache[i].key = k}

\* _toolsets.get of an entry that is there.
Touch(i) == Append(RemoveAt(cache, i), cache[i])

\* _toolsets[key] = toolset
Store(item) == Append(IF Len(cache) = MaxSessions THEN Tail(cache) ELSE cache, item)

\* _catalog_state_for
StateFor(t, c) == IF states[t] = Null THEN c ELSE states[t]

\* What the task of a call, and whatever task it starts, runs with: the identity
\* and the scopes of its request.
Context(q) == [key |-> KeyOf(q), write |-> MayWrite(q)]

Call(q, session, state) ==
  [request |-> q, session |-> session, state |-> state, context |-> Context(q)]

\* (variant: the context is kept in the ToolSet instead of the task)
BindShared(q, session, state) ==
  Append([c \in DOMAIN calls |->
            IF calls[c].session = session THEN [calls[c] EXCEPT !.context = Context(q)]
            ELSE calls[c]],
         Call(q, session, state))

\* bind_context: the context belongs to the task of the call.
Bind(q, session, state) == Append(calls, Call(q, session, state))

\* The WorkBuddy entry turns away a token that is dead, before anything else.
Admitted(q) ==
  /\ ~closed /\ Len(calls) < MaxCalls
  /\ entry = "workbuddy" => q.bearer \notin expired

\* A call arrives whose conversation has a session.
ArriveAgain(q) ==
  /\ Admitted(q)
  /\ \E i \in Cached(KeyOf(q)) :
       LET c == cache[i].session IN
       /\ cache' = Touch(i)
       /\ calls' = Bind(q, c, calls[c].state)
  /\ Register(q)
  /\ UNCHANGED <<entry, event, states, expired, closed>>

\* A call arrives whose conversation has none: it gets a new one, of the
\* catalogue state of its tenant.
ArriveNew(q) ==
  /\ Admitted(q)
  /\ Cached(KeyOf(q)) = {}
  /\ LET c == Len(calls) + 1
         state == StateFor(User(q).tenant, c)
     IN /\ cache' = Store([key |-> KeyOf(q), session |-> c])
        /\ states' = [states EXCEPT ![User(q).tenant] = state]
        /\ calls' = Bind(q, c, state)
  /\ Register(q)
  /\ UNCHANGED <<entry, event, expired, closed>>

\* The credential of a context: the one kept for its conversation, or the key its
\* user was named by.
Credential(context) ==
  IF entry = "legacy" THEN creds[context.key] ELSE context.key.user.tenant

Happens(kind, c, token) ==
  /\ event' = [kind |-> kind, call |-> c, token |-> token]
  /\ UNCHANGED <<entry, calls, creds, cache, states, expired, closed>>

\* A call, or a background refresh it left behind, asks the ERP with the
\* credential of its context; an expired one is not sent.
AskErp(c) ==
  /\ ~closed
  /\ LET token == Credential(calls[c].context) IN
     Happens(IF token \in expired THEN "reauth" ELSE "sent", c, token)

\* A call writes to the ERP, if its context has the scope.
Write(c) ==
  /\ ~closed
  /\ LET token == Credential(calls[c].context) IN
     Happens(IF ~calls[c].context.write THEN "forbidden"
             ELSE IF token \in expired THEN "reauth" ELSE "written", c, token)

\* (variant: the previews of all sessions are kept in one place)
SubmitsAny(c, p) ==
  /\ p < c
  /\ event' = [kind |-> "found", call |-> c, preview |-> p]
  /\ UNCHANGED <<entry, calls, creds, cache, states, expired, closed>>

\* A call submits the preview an earlier call p was answered with: it is found
\* if it is in the session of the call.
Submits(c, p) ==
  /\ p < c
  /\ event' = [kind |-> IF calls[p].session = calls[c].session THEN "found" ELSE "not found",
               call |-> c, preview |-> p]
  /\ UNCHANGED <<entry, calls, creds, cache, states, expired, closed>>

\* The time of a session is over, counted from when it was made: the oldest goes first.
SessionExpires(i) ==
  /\ \A j \in DOMAIN cache : cache[i].session <= cache[j].session
  /\ cache' = RemoveAt(cache, i)
  /\ UNCHANGED <<entry, calls, event, creds, states, expired, closed>>

TokenExpires(token) ==
  /\ token \notin expired
  /\ expired' = expired \cup {token}
  /\ UNCHANGED <<entry, calls, event, creds, cache, states, closed>>

\* close: sessions and catalogues are dropped, and the HTTP client is closed.
Close ==
  /\ ~closed
  /\ closed' = TRUE
  /\ cache' = <<>>
  /\ states' = [t \in Tenants |-> Null]
  /\ UNCHANGED <<entry, calls, event, creds, expired>>

Next ==
  \/ \E q \in Requests[entry] : ArriveAgain(q) \/ ArriveNew(q)
  \/ \E c \in DOMAIN calls :
       AskErp(c) \/ Write(c) \/ \E p \in DOMAIN calls : Submits(c, p)
  \/ \E i \in DOMAIN cache : SessionExpires(i)
  \/ \E token \in Expiring : TokenExpires(token)
  \/ Close

Spec == Init /\ [][Next]_vars

-----------------------------------------------------------------------------
(* Correctness.                                                            *)

\* Two calls of one user under one conversation id, as far as it is read.
SameConversation(c, d) ==
  LET q == calls[c].request   r == calls[d].request IN
  /\ User(q) = User(r)
  /\ IF entry = "legacy" THEN Cut[q.conversation] = Cut[r.conversation]
     ELSE q.conversation = r.conversation

\* What the legacy entry sends to the ERP is a token of the call's own user,
\* brought to the same conversation by the call itself or by a later one, never
\* an older one; what the WorkBuddy entry sends is the key the user bound, never
\* an access token (workbuddy_oauth.py:689).
CredentialIsRecent ==
  event # Null /\ event.kind \in {"sent", "reauth", "written"} =>
    IF entry = "workbuddy"
    THEN event.token = User(calls[event.call].request).tenant
    ELSE \E d \in event.call .. Len(calls) :
           /\ Token(calls[d].request) = event.token
           /\ SameConversation(event.call, d)

\* A call writes only by a request that was granted writing, whatever others of
\* the same session, with other grants of the same user, run at the same time.
WritesAreGranted ==
  event # Null /\ event.kind = "written" =>
    entry = "legacy" \/ calls[event.call].request.bearer \in Writers

\* A preview is submitted from the conversation it was shown in: by the same
\* user, under an id that is the same in its first 64 characters.
PreviewStaysInConversation ==
  event # Null /\ event.kind = "found" => SameConversation(event.call, event.preview)

\* Calls of one conversation share a session, and with it the submission lock,
\* previews and results, unless the earlier one's was dropped from the cache.
OneSessionPerConversation ==
  \A c, d \in DOMAIN calls :
    c < d /\ SameConversation(c, d) /\ calls[c].session # calls[d].session
      => \A i \in DOMAIN cache : cache[i].session # calls[c].session

-----------------------------------------------------------------------------
(* Why they hold: an inductive invariant.                                  *)

Contexts == [key : Keys, write : BOOLEAN]

ConversationsTypeOK ==
  /\ entry \in {"legacy", "workbuddy"}
  /\ calls \in Seq([request : Requests[entry], session : Nat, state : Nat, context : Contexts])
  /\ cache \in Seq([key : Keys, session : Nat])
  /\ DOMAIN creds = Keys
  /\ states \in [Tenants -> Nat \cup {Null}]

\* A call runs with its own context, and its session was made for its conversation,
\* by itself or earlier.
CallsAreBound ==
  \A c \in DOMAIN calls :
    /\ calls[c].context = Context(calls[c].request)
    /\ calls[c].session \in 1 .. c
    /\ KeyOf(calls[calls[c].session].request) = KeyOf(calls[c].request)

\* A session is cached under the conversation it was made for, and no conversation
\* has two.
CacheIsKeyed ==
  /\ \A i \in DOMAIN cache :
       /\ cache[i].session \in DOMAIN calls
       /\ cache[i].key = KeyOf(calls[cache[i].session].request)
  /\ \A i, j \in DOMAIN cache : cache[i].key = cache[j].key => cache[i] = cache[j]

\* The credential kept for a conversation was brought by its latest call.
CredsAreRecent ==
  entry = "legacy" =>
    \A c \in DOMAIN calls : \E d \in c .. Len(calls) :
      /\ Token(calls[d].request) = creds[KeyOf(calls[c].request)]
      /\ KeyOf(calls[d].request) = KeyOf(calls[c].request)

\* What was seen last was done by calls that arrived.
EventIsOfCalls ==
  event # Null =>
    /\ event.call \in DOMAIN calls
    /\ event.kind = "found" => event.preview \in DOMAIN calls

ConversationsInv ==
  /\ ConversationsTypeOK /\ CallsAreBound /\ CacheIsKeyed /\ CredsAreRecent /\ EventIsOfCalls
  /\ CredentialIsRecent /\ WritesAreGranted /\ PreviewStaysInConversation
  /\ OneSessionPerConversation
=============================================================================
