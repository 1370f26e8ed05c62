--------------------------- MODULE WorkBuddyOAuth ---------------------------
(***************************************************************************)
(* The WorkBuddy authorization provider over its SQLite table: register,   *)
(* authorize, the binding of an ERP key, the exchange of the code, the     *)
(* rotation and the revocation of token pairs, and the tool calls that     *)
(* come in with an access token.                                           *)
(*                                                                         *)
(* The table survives a crash and every statement is committed on its own. *)
(* A handler has no await between its statements, so no other handler runs *)
(* in between, but a crash may: job holds the commits the running handler  *)
(* still owes.  The one await is the binding validator's request.          *)
(*                                                                         *)
(* Tokens are named by what mints them: a code by the binding that saved   *)
(* it, a pair by the token request it answers.  A request the provider     *)
(* refuses without writing anything is no step.  Tool calls only read the  *)
(* table, so one of them at a time stands for all.                         *)
(***************************************************************************)
EXTENDS Naturals, FiniteSets, Sequences

CONSTANTS
  Clients,         \* registrations, each with a client_id of its own
  Authorizations,  \* authorization requests, each with a request_id of its own
  Binds,           \* submissions of the binding page
  Grants,          \* token requests that are answered with a pair
  Keys,            \* ERP keys; a key's digest is the subject
  Null

Scopes == {"read", "write"}
AskedScopes == SUBSET Scopes \ {{}}
Tokens == {"access", "refresh"}

Requests == [client : Clients, scopes : AskedScopes]
Bindings == [authorization : Authorizations, key : Keys]
Pairs == [bind : Binds, parent : Grants \cup {Null}, scopes : AskedScopes]

ASSUME OAuthAssumption ==
  Null \notin Requests \cup Bindings \cup Pairs \cup Grants \cup Keys

VARIABLES
  rows,     \* workbuddy_oauth_state: kind and key of every row
  asked,    \* client and scopes of each authorization, or Null
  bind,     \* what each submission of the binding page sent, or Null
  waiting,  \* submissions whose validator is at work
  pair,     \* code, parent pair and scope of each pair, or Null
  job,      \* commits the running handler still owes, oldest first
  answer,   \* what it answers after the last of them
  told,     \* answers that left: clients, urls, codes, pairs and revocations
            \* (with the tokens the handler made sure are gone)
  call,     \* the pair whose access token a tool call came with, or Null
  sent      \* kind and key of that call's last request to the ERP, or Null

vars == <<rows, asked, bind, waiting, pair, job, answer, told, call, sent>>
calling == <<call, sent>>

Put(kind, key) == [op |-> "put", row |-> <<kind, key>>]
Del(kind, key) == [op |-> "del", row |-> <<kind, key>>]

Init ==
  /\ rows = {}
  /\ asked = [a \in Authorizations |-> Null]
  /\ bind = [b \in Binds |-> Null]
  /\ waiting = {}
  /\ pair = [g \in Grants |-> Null]
  /\ job = <<>>
  /\ answer = Null
  /\ told = {}
  /\ call = Null
  /\ sent = Null

Stored(kind, key) == <<kind, key>> \in rows

\* A handler runs up to its first await or its end once the last one is through.
Handle(commits, reply) ==
  /\ job = <<>>
  /\ job' = commits
  /\ answer' = reply
  /\ UNCHANGED <<rows, told, calling>>

\* One statement and its commit; the last one lets the answer go.
Commit ==
  /\ job # <<>>
  /\ rows' = IF Head(job).op = "put" THEN rows \cup {Head(job).row}
                                     ELSE rows \ {Head(job).row}
  /\ job' = Tail(job)
  /\ IF Len(job) = 1 THEN told' = told \cup {answer} /\ answer' = Null
                     ELSE UNCHANGED <<told, answer>>
  /\ UNCHANGED <<asked, bind, waiting, pair, calling>>

-----------------------------------------------------------------------------
(* Registration, authorization and binding.                                *)

\* register_client: the metadata is that of a public client.
Register(c) ==
  /\ <<"client", c>> \notin told /\ ~Stored("client", c)
  /\ Handle(<<Put("client", c)>>, <<"client", c>>)
  /\ UNCHANGED <<asked, bind, waiting, pair>>

\* authorize: the request is stored for ten minutes.
Authorize(a, c, scopes) ==
  /\ <<"client", c>> \in told
  /\ Stored("client", c)
  /\ asked[a] = Null
  /\ asked' = [asked EXCEPT ![a] = [client |-> c, scopes |-> scopes]]
  /\ Handle(<<Put("pending", a)>>, <<"url", a>>)
  /\ UNCHANGED <<bind, waiting, pair>>

\* complete_binding up to the validator's await.
BindStarts(b, a, k) ==
  /\ job = <<>>
  /\ <<"url", a>> \in told
  /\ bind[b] = Null
  /\ Stored("pending", a)
  /\ bind' = [bind EXCEPT ![b] = [authorization |-> a, key |-> k]]
  /\ waiting' = waiting \cup {b}
  /\ UNCHANGED <<rows, asked, pair, job, answer, told, calling>>

\* (variant: the request is read again, not consumed)
BindCommitsNoConsume(b) ==
  <<Put("binding", bind[b].key), Put("code", b)>>

\* (variant: the code is saved before the binding)
BindCommitsCodeFirst(b) ==
  <<Del("pending", bind[b].authorization), Put("code", b),
    Put("binding", bind[b].key)>>

\* consume_pending, save_binding, save_code.
BindCommits(b) ==
  <<Del("pending", bind[b].authorization), Put("binding", bind[b].key),
    Put("code", b)>>

\* The validator accepts the key and the request is still there.
BindSucceeds(b) ==
  /\ b \in waiting
  /\ Stored("pending", bind[b].authorization)
  /\ waiting' = waiting \ {b}
  /\ Handle(BindCommits(b), <<"code", b>>)
  /\ UNCHANGED <<asked, bind, pair>>

\* The validator refuses, or the request expired or was taken meanwhile.
BindFails(b) ==
  /\ job = <<>>
  /\ b \in waiting
  /\ waiting' = waiting \ {b}
  /\ UNCHANGED <<rows, asked, bind, pair, job, answer, told, calling>>

-----------------------------------------------------------------------------
(* Tokens.                                                                 *)

PairCommits(g) == <<Put("access", g), Put("refresh", g)>>

\* (variant: the code stays)
CodeCommitsKeepCode(b, g) == PairCommits(g)

\* consume_code, then save_token_pair.
CodeCommits(b, g) == <<Del("code", b)>> \o PairCommits(g)

\* exchange_authorization_code, by a client that got the code.
ExchangeCode(g, b) ==
  /\ <<"code", b>> \in told
  /\ pair[g] = Null
  /\ Stored("code", b)
  /\ Stored("binding", bind[b].key)
  /\ pair' = [pair EXCEPT
                ![g] = [bind |-> b, parent |-> Null,
                        scopes |-> asked[bind[b].authorization].scopes]]
  /\ Handle(CodeCommits(b, g), <<"pair", g>>)
  /\ UNCHANGED <<asked, bind, waiting>>

\* (variant: the new pair is saved first)
RotateCommitsIssueFirst(old, g) ==
  PairCommits(g) \o <<Del("refresh", old), Del("access", old)>>

\* consume_refresh_token, then save_token_pair.
RotateCommits(old, g) ==
  <<Del("refresh", old), Del("access", old)>> \o PairCommits(g)

\* (variant: the scope asked for is not compared)
ScopeNotCompared(old, scopes) == TRUE

\* A refresh may give up a scope, and never gets it back.
ScopeAllowed(old, scopes) == scopes \subseteq pair[old].scopes

\* exchange_refresh_token, by a client that got the pair.
ExchangeRefresh(g, old, scopes) ==
  /\ <<"pair", old>> \in told
  /\ pair[g] = Null
  /\ Stored("refresh", old)
  /\ ScopeAllowed(old, scopes)
  /\ pair' = [pair EXCEPT
                ![g] = [bind |-> pair[old].bind, parent |-> old, scopes |-> scopes]]
  /\ Handle(RotateCommits(old, g), <<"pair", g>>)
  /\ UNCHANGED <<asked, bind, waiting>>

\* exchange_refresh_token that asks for more than was granted: the old pair
\* is consumed before the scopes are compared.
RefuseWiderScope(old, scopes) ==
  /\ <<"pair", old>> \in told
  /\ Stored("refresh", old)
  /\ ~ScopeAllowed(old, scopes)
  /\ Handle(<<Del("refresh", old), Del("access", old)>>, <<"refused", old>>)
  /\ UNCHANGED <<asked, bind, waiting, pair>>

\* (variant: the paired token stays)
RevokeOneToken(kind, g) ==
  /\ <<"pair", g>> \in told
  /\ Stored(kind, g)
  /\ Handle(<<Del(kind, g)>>, <<"revoked", <<g, Tokens>>>>)
  /\ UNCHANGED <<asked, bind, waiting, pair>>

\* revoke_pair: the token named, then the one paired with it.
Revoke(kind, g) ==
  /\ <<"pair", g>> \in told
  /\ Stored(kind, g)
  /\ Handle(<<Del(kind, g), Del(IF kind = "access" THEN "refresh" ELSE "access", g)>>,
            <<"revoked", <<g, Tokens>>>>)
  /\ UNCHANGED <<asked, bind, waiting, pair>>

\* The token named has no row (it expired, or a revocation that deleted it died
\* before the other token): the client gets the same answer, and nothing is done.
RevokeMisses(kind, g) ==
  /\ job = <<>>
  /\ <<"pair", g>> \in told
  /\ ~Stored(kind, g)
  /\ told' = told \cup {<<"revoked", <<g, {kind}>>>>}
  /\ UNCHANGED <<rows, asked, bind, waiting, pair, job, answer, calling>>

\* _get finds a row past its time and deletes it; clients and bindings have
\* no such time.
Expire(kind, key) ==
  /\ job = <<>>
  /\ kind \notin {"client", "binding"}
  /\ Stored(kind, key)
  /\ rows' = rows \ {<<kind, key>>}
  /\ UNCHANGED <<asked, bind, waiting, pair, job, answer, told, calling>>

-----------------------------------------------------------------------------
(* Tool calls.                                                             *)

\* The subject a pair speaks for.
Subject(g) == bind[pair[g].bind].key

\* The middleware lets a request through: the token is live and bound, and
\* may read.
Admit(g) ==
  /\ job = <<>>
  /\ call = Null
  /\ <<"pair", g>> \in told
  /\ Stored("access", g)
  /\ Stored("binding", Subject(g))
  /\ "read" \in pair[g].scopes
  /\ call' = g
  /\ UNCHANGED <<rows, asked, bind, waiting, pair, job, answer, told, sent>>

\* The call asks the ERP, to write if its scopes allow that, with the key its
\* binding holds now.
AskErp(kind) ==
  /\ job = <<>>
  /\ call # Null
  /\ kind \in pair[call].scopes
  /\ Stored("binding", Subject(call))
  /\ sent' = [kind |-> kind, key |-> Subject(call)]
  /\ UNCHANGED <<rows, asked, bind, waiting, pair, job, answer, told, call>>

\* The call is answered.
CallEnds ==
  /\ job = <<>>
  /\ call # Null
  /\ call' = Null
  /\ sent' = Null
  /\ UNCHANGED <<rows, asked, bind, waiting, pair, job, answer, told>>

-----------------------------------------------------------------------------

\* The process dies between any two commits: the table is all that stays.
Crash ==
  /\ job # <<>> \/ waiting # {} \/ call # Null
  /\ job' = <<>>
  /\ answer' = Null
  /\ waiting' = {}
  /\ call' = Null
  /\ sent' = Null
  /\ UNCHANGED <<rows, asked, bind, pair, told>>

-----------------------------------------------------------------------------

Next ==
  \/ \E c \in Clients :
       \/ Register(c)
       \/ \E a \in Authorizations, scopes \in AskedScopes : Authorize(a, c, scopes)
  \/ \E b \in Binds :
       \/ \E a \in Authorizations, k \in Keys : BindStarts(b, a, k)
       \/ BindSucceeds(b) \/ BindFails(b)
  \/ \E g \in Grants :
       \/ \E b \in Binds : ExchangeCode(g, b)
       \/ \E old \in Grants, scopes \in AskedScopes : ExchangeRefresh(g, old, scopes)
       \/ \E scopes \in AskedScopes : RefuseWiderScope(g, scopes)
       \/ \E kind \in Tokens : Revoke(kind, g) \/ RevokeMisses(kind, g)
       \/ Admit(g)
  \/ (\E kind \in Scopes : AskErp(kind)) \/ CallEnds
  \/ \E row \in rows : Expire(row[1], row[2])
  \/ Commit \/ Crash

Spec == Init /\ [][Next]_vars

-----------------------------------------------------------------------------
(* Correctness.                                                            *)

\* The subject a stored token speaks for.
KeyOfRow(row) == IF row[1] = "code" THEN bind[row[2]].key ELSE Subject(row[2])

\* One authorization request hands out one code, however often the page is
\* submitted while the validator is at work.
OneCodePerRequest ==
  \A b, c \in Binds :
    /\ <<"code", b>> \in told /\ <<"code", c>> \in told
    /\ bind[b].authorization = bind[c].authorization
    => b = c

\* What one code was exchanged for is, at every commit and after every crash,
\* at most one access and one refresh token, and never lives beside the code.
OnePairPerCode ==
  \A kind \in {"access", "refresh"}, g \in Grants :
    Stored(kind, g) =>
      /\ ~Stored("code", pair[g].bind)
      /\ \A h \in Grants : Stored(kind, h) /\ pair[g].bind = pair[h].bind => g = h

\* Whatever commit a crash follows, a stored code or token has its binding: no
\* client is left with a token that every tool call would refuse.
TokensAreBound ==
  \A row \in rows :
    row[1] \in {"code", "access", "refresh"} => Stored("binding", KeyOfRow(row))

\* What a tool call does in the ERP, after however many refreshes, was asked for
\* by an authorization that the holder of the very key completed.
RequestsWereGranted ==
  sent # Null =>
    \E b \in Binds : /\ <<"code", b>> \in told
                     /\ bind[b].key = sent.key
                     /\ sent.kind \in asked[bind[b].authorization].scopes

\* Once a client was given the successor of a pair, neither token of the old one
\* is accepted again.  Once it was told of a revocation, the token it named is
\* not accepted again, nor the paired one if the named one was still there: a
\* revocation that does not find its token is answered the same and spares the
\* other (workbuddy_oauth.py:389).
DeadStaysDead ==
  \A g \in Grants :
    /\ \A gone \in SUBSET Tokens :
         <<"revoked", <<g, gone>>>> \in told => \A kind \in gone : ~Stored(kind, g)
    /\ (\E h \in Grants \ {g} : <<"pair", h>> \in told /\ pair[h].parent = g)
         => ~Stored("access", g) /\ ~Stored("refresh", g)

-----------------------------------------------------------------------------
(* The inductive invariant behind them.                                    *)

Rows == ({"client"} \X Clients) \cup ({"pending"} \X Authorizations) \cup ({"binding"} \X Keys)
        \cup ({"code"} \X Binds) \cup (Tokens \X Grants)

\* Every variable keeps its type.
TypeOK ==
  /\ rows \subseteq Rows
  /\ asked \in [Authorizations -> Requests \cup {Null}]
  /\ bind \in [Binds -> Bindings \cup {Null}]
  /\ waiting \subseteq Binds
  /\ pair \in [Grants -> Pairs \cup {Null}]
  /\ job \in Seq([op : {"put", "del"}, row : Rows])
  /\ call \in Grants \cup {Null}
  /\ sent \in [kind : Scopes, key : Keys] \cup {Null}

\* The answer x is on its way.
Owes(x) == job # <<>> /\ answer = x
Given(x) == x \in told \/ Owes(x)

\* A request or a submission that is on record was made.
RequestsKnown ==
  /\ \A a \in Authorizations : Given(<<"url", a>>) => asked[a] # Null
  /\ \A b \in Binds : bind[b] # Null => <<"url", bind[b].authorization>> \in told

\* A code was made by its submission, after its validator.
CodesKnown ==
  \A b \in Binds :
    /\ Given(<<"code", b>>) \/ Stored("code", b) => bind[b] # Null
    /\ b \in waiting => bind[b] # Null /\ ~Given(<<"code", b>>) /\ ~Stored("code", b)

\* A pair was made, of a code that was given, and within the scopes of its request.
PairsKnown ==
  \A g \in Grants :
    /\ Given(<<"pair", g>>) \/ (\E kind \in Tokens : Stored(kind, g)) => pair[g] # Null
    /\ \A gone \in SUBSET Tokens :
         Given(<<"revoked", <<g, gone>>>>) => <<"pair", g>> \in told
    /\ pair[g] # Null =>
         /\ <<"code", pair[g].bind>> \in told
         /\ pair[g].scopes \subseteq asked[bind[pair[g].bind].authorization].scopes
         /\ pair[g].parent # Null => <<"pair", pair[g].parent>> \in told

\* A call has a pair, and its request that pair's key and scope.
CallOK ==
  /\ call # Null => <<"pair", call>> \in told
  /\ sent # Null => call # Null /\ sent.key = Subject(call) /\ sent.kind \in pair[call].scopes

\* A handler stores what it will answer with and no one was told of before, and
\* deletes no binding.
JobIsNew ==
  \A i \in DOMAIN job :
    LET kind == job[i].row[1]   key == job[i].row[2] IN
    IF job[i].op = "del" THEN kind \in {"pending", "code"} \cup Tokens
    ELSE /\ kind = "pending" => answer = <<"url", key>> /\ answer \notin told
         /\ kind = "code" => answer = <<"code", key>> /\ answer \notin told
         /\ kind \in Tokens => answer = <<"pair", key>> /\ answer \notin told

HasKey(row) == row[1] \in {"code"} \cup Tokens

\* It stores a code or a token after the binding.
JobIsBound ==
  \A i \in DOMAIN job :
    LET row == job[i].row IN
    job[i].op = "put" /\ HasKey(row) =>
      \/ Stored("binding", KeyOfRow(row))
      \/ \E j \in 1 .. i - 1 : job[j] = Put("binding", KeyOfRow(row))

\* Two rows that come of one code: itself and a token, or tokens of two pairs.
BindOfRow(row) == IF row[1] = "code" THEN row[2] ELSE pair[row[2]].bind
Rivals(r, s) ==
  /\ HasKey(r) /\ HasKey(s) /\ BindOfRow(r) = BindOfRow(s)
  /\ r[1] = "code" \/ s[1] = "code" => r[1] # s[1]
  /\ r[1] # "code" /\ s[1] # "code" => r[2] # s[2]

NoRivals == \A r, s \in rows : ~Rivals(r, s)

\* The handler deletes the rivals of a row before it stores it.
JobClears ==
  \A i \in DOMAIN job :
    job[i].op = "put" =>
      /\ \A s \in rows : Rivals(job[i].row, s) =>
           \E j \in 1 .. i - 1 : job[j] = [op |-> "del", row |-> s]
      /\ \A j \in DOMAIN job : job[j].op = "put" => ~Rivals(job[i].row, job[j].row)

\* No row, or one that the handler still deletes.
Leaves(kind, key) == Stored(kind, key) => \E i \in DOMAIN job : job[i] = Del(kind, key)

\* The handler answers after it deleted what the answer rules out.
JobEnds ==
  /\ \A b \in Binds : Owes(<<"code", b>>) => Leaves("pending", bind[b].authorization)
  /\ \A g \in Grants, kind \in Tokens :
       /\ \A gone \in SUBSET Tokens :
            Owes(<<"revoked", <<g, gone>>>>) /\ kind \in gone => Leaves(kind, g)
       /\ Owes(<<"pair", g>>) /\ pair[g].parent # Null => Leaves(kind, pair[g].parent)

\* A code that was given has used up its request, and no other code has.
CodesAreSingle ==
  /\ \A b \in Binds : <<"code", b>> \in told => ~Stored("pending", bind[b].authorization)
  /\ \A b, c \in Binds :
       /\ Given(<<"code", b>>) /\ Given(<<"code", c>>)
       /\ bind[b].authorization = bind[c].authorization
       => b = c

OAuthInv ==
  /\ TypeOK /\ RequestsKnown /\ CodesKnown /\ PairsKnown /\ CallOK
  /\ JobIsNew /\ JobIsBound /\ JobClears /\ JobEnds
  /\ NoRivals /\ CodesAreSingle /\ TokensAreBound /\ DeadStaysDead
=============================================================================
