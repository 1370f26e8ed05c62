---------------------------- MODULE CatalogState ----------------------------
(***************************************************************************)
(* The product catalogue one tenant's conversations share                  *)
(* (TenantCatalogState) and the private override a partial synchronisation *)
(* gives one conversation: cold loads under a lock, refreshes in the       *)
(* background while the old catalogue is served, explicit refreshes, the   *)
(* cooldown after a failure, and the close at shutdown.                    *)
(*                                                                         *)
(* A catalogue is the version of the ERP's products it was read at and the *)
(* limit its list was cut at: every load has one, the limit a conversation *)
(* asked for or else settings.auto_sync_limit.  Both timers are flags the  *)
(* clock may lower at any time, so every TTL and retry delay is covered.   *)
(***************************************************************************)
EXTENDS Naturals, FiniteSets, SequencesExt

CONSTANTS
  Requests,     \* tool calls that touch the catalogue, each used once
  Sessions,     \* conversations of the tenant
  MaxVersion,   \* bound on the versions of the ERP's product list
  AutoSyncLimit,  \* settings.auto_sync_limit
  Limits,       \* limits conversations ask for
  Null

Kinds == {"ensure", "full", "partial"}

\* What a call may ask for: only a partial synchronisation names a limit.
NoLimit == 0
AskedLimits(kind) == IF kind = "partial" THEN Limits ELSE {NoLimit}
Asked(since) ==
  [session : Sessions, kind : {"ensure", "full"}, limit : {NoLimit}, since : since]
  \cup [session : Sessions, kind : {"partial"}, limit : Limits, since : since]

ASSUME CatalogAssumption ==
  /\ MaxVersion \in Nat \ {0}
  /\ AutoSyncLimit \in Nat \ {0}
  /\ Limits \subseteq Nat \ {0}
  /\ Null \notin Requests \X {"call", "task"}
  /\ Null \notin Asked(Nat \ {0})

\* The coroutines: a tool call, and the background task it may start.
Actors == Requests \X {"call", "task"}
Call(r) == <<r, "call">>
Task(r) == <<r, "task">>

None == [version |-> 0, limit |-> NoLimit]
Snapshots ==
  [version : 1 .. MaxVersion, limit : {AutoSyncLimit} \cup Limits] \cup {None}

VARIABLES
  erp,        \* version of the ERP's product list
  catalog,    \* TenantCatalogState._catalog, or None
  fresh,      \* now < _expires_at
  cooling,    \* now < _retry_not_before
  override,   \* _catalog_override of each session, or None
  holder,     \* the actor inside _lock, or Null
  queue,      \* actors waiting for _lock, first come first served
  at,         \* where each actor is
  got,        \* what the loader of each actor has read, or None
  request,    \* session, kind, limit and start (an ERP version) of calls, or Null
  outcome,    \* how each call ended
  closed      \* close() has run

timers == <<fresh, cooling>>
lock   == <<holder, queue>>
vars   == <<erp, catalog, fresh, cooling, override, holder, queue, at, got,
            request, outcome, closed>>

Init ==
  /\ erp = 1
  /\ catalog = None
  /\ fresh = FALSE
  /\ cooling = FALSE
  /\ override = [s \in Sessions |-> None]
  /\ holder = Null
  /\ queue = <<>>
  /\ at = [a \in Actors |-> "idle"]
  /\ got = [a \in Actors |-> None]
  /\ request = [r \in Requests |-> Null]
  /\ outcome = [r \in Requests |-> "none"]
  /\ closed = FALSE

\* What a session matches products against: its override, else the shared one.
View(s) == IF override[s] # None THEN override[s] ELSE catalog

\* _background_tasks
Background == {r \in Requests : at[Task(r)] \in {"queued", "loading"}}

-----------------------------------------------------------------------------
(* Calls begin.                                                            *)

Begin(r, s, kind, limit) ==
  /\ ~closed
  /\ at[Call(r)] = "idle"
  /\ limit \in AskedLimits(kind)
  /\ request' = [request EXCEPT
        ![r] = [session |-> s, kind |-> kind, limit |-> limit, since |-> erp]]

Served(r) == outcome' = [outcome EXCEPT ![r] = "served"]

\* ensure_catalog with a catalogue at hand that needs no refresh, or that a
\* background task is refreshing already.
EnsureServed(r, s) ==
  /\ Begin(r, s, "ensure", NoLimit)
  /\ View(s) # None
  /\ override[s] # None \/ fresh \/ cooling \/ Background # {}
  /\ at' = [at EXCEPT ![Call(r)] = "done"]
  /\ Served(r)
  /\ UNCHANGED <<erp, catalog, timers, override, lock, got, closed>>

\* (variant: a task is started without looking for a running one)
EnsureStartsAnotherTask(r, s) ==
  /\ Begin(r, s, "ensure", NoLimit)
  /\ override[s] = None /\ catalog # None
  /\ ~fresh /\ ~cooling
  /\ at' = [at EXCEPT ![Call(r)] = "done", ![Task(r)] = "queued"]
  /\ queue' = Append(queue, Task(r))
  /\ Served(r)
  /\ UNCHANGED <<erp, catalog, timers, override, holder, got, closed>>

\* ensure with a stale catalogue: serve it and refresh it in the background.
EnsureStale(r, s) ==
  /\ Begin(r, s, "ensure", NoLimit)
  /\ override[s] = None /\ catalog # None
  /\ ~fresh /\ ~cooling /\ Background = {}
  /\ at' = [at EXCEPT ![Call(r)] = "done", ![Task(r)] = "queued"]
  /\ queue' = Append(queue, Task(r))
  /\ Served(r)
  /\ UNCHANGED <<erp, catalog, timers, override, holder, got, closed>>

\* ensure without a catalogue, and refresh: both go for the lock.
WaitForLock(r, s, kind) ==
  /\ Begin(r, s, kind, NoLimit)
  /\ \/ kind = "ensure" /\ View(s) = None
     \/ kind = "full"
  /\ at' = [at EXCEPT ![Call(r)] = "queued"]
  /\ queue' = Append(queue, Call(r))
  /\ UNCHANGED <<erp, catalog, timers, override, holder, got, outcome, closed>>

\* sync_catalog_partial loads without the lock.
PartialBegins(r, s, limit) ==
  /\ Begin(r, s, "partial", limit)
  /\ at' = [at EXCEPT ![Call(r)] = "loading"]
  /\ UNCHANGED <<erp, catalog, timers, override, lock, got, outcome, closed>>

-----------------------------------------------------------------------------
(* The lock.                                                               *)

\* (variant of Turn: the lock is not waited for)
TurnWithoutLock(a) == at[a] = "queued" /\ Contains(queue, a)

\* The lock is free and a is the first to want it.
Turn(a) ==
  /\ at[a] = "queued"
  /\ holder = Null
  /\ queue # <<>>
  /\ Head(queue) = a

KindOf(a) == IF a[2] = "task" THEN "task" ELSE request[a[1]].kind

\* a takes the lock and starts reading the ERP.
StartsLoading(a) ==
  /\ at' = [at EXCEPT ![a] = "loading"]
  /\ holder' = a
  /\ queue' = SelectSeq(queue, LAMBDA b : b # a)
  /\ UNCHANGED <<erp, catalog, timers, override, got, request, outcome, closed>>

\* a finds nothing left to do and leaves the lock in the same step.
LeavesAtOnce(a) ==
  /\ at' = [at EXCEPT ![a] = "done"]
  /\ queue' = SelectSeq(queue, LAMBDA b : b # a)
  /\ UNCHANGED <<erp, catalog, timers, override, holder, got, request, closed>>

\* (variant: the catalogue is not looked at again under the lock)
ColdTurnLoads(r) ==
  /\ Turn(Call(r)) /\ KindOf(Call(r)) = "ensure"
  /\ StartsLoading(Call(r))

\* ensure under the lock: the catalogue may have come while it waited.
ColdTurn(r) ==
  /\ Turn(Call(r)) /\ KindOf(Call(r)) = "ensure"
  /\ IF catalog = None THEN StartsLoading(Call(r))
                       ELSE LeavesAtOnce(Call(r)) /\ Served(r)

\* (variant: a fresh catalogue spares the load)
FullTurnTrustsFresh(r) ==
  /\ Turn(Call(r)) /\ KindOf(Call(r)) = "full"
  /\ IF fresh THEN /\ LeavesAtOnce(Call(r))
                   /\ outcome' = [outcome EXCEPT ![r] = "loaded"]
              ELSE StartsLoading(Call(r))

\* refresh loads, however fresh the catalogue is.
FullTurn(r) ==
  /\ Turn(Call(r)) /\ KindOf(Call(r)) = "full"
  /\ StartsLoading(Call(r))

\* (variant: the task does not look at the timers again)
TaskTurnLoads(r) == Turn(Task(r)) /\ StartsLoading(Task(r))

\* _refresh_in_background: another load may have come first, or failed.
TaskTurn(r) ==
  /\ Turn(Task(r))
  /\ IF fresh \/ cooling THEN LeavesAtOnce(Task(r)) /\ UNCHANGED outcome
                         ELSE StartsLoading(Task(r))

-----------------------------------------------------------------------------
(* Loads.                                                                  *)

\* effective_limit of the loader: also a background task's, which runs the
\* loader of the ensure_catalog that started it.
EffectiveLimit(a) == IF KindOf(a) = "partial" THEN request[a[1]].limit
                                              ELSE AutoSyncLimit

\* fetch_products has its first page; a later page is at least as new.
Reads(a) ==
  /\ at[a] = "loading"
  /\ got[a] = None
  /\ got' = [got EXCEPT ![a] = [version |-> erp, limit |-> EffectiveLimit(a)]]
  /\ UNCHANGED <<erp, catalog, timers, override, lock, at, request, outcome, closed>>

\* (variant: a failed load keeps the lock)
FailKeepsLock(a) ==
  /\ at' = [at EXCEPT ![a] = "done"]
  /\ got' = [got EXCEPT ![a] = None]
  /\ UNCHANGED holder

\* a is through, and out of the lock if it held it.
Ends(a) ==
  /\ at' = [at EXCEPT ![a] = "done"]
  /\ got' = [got EXCEPT ![a] = None]
  /\ holder' = IF holder = a THEN Null ELSE holder

\* _install; a full synchronisation also drops the session's override.
LoadInstalls(a) ==
  /\ at[a] = "loading" /\ got[a] # None
  /\ KindOf(a) # "partial"
  /\ catalog' = got[a]
  /\ fresh' = TRUE
  /\ override' = IF KindOf(a) = "full"
                 THEN [override EXCEPT ![request[a[1]].session] = None]
                 ELSE override
  /\ outcome' = IF KindOf(a) = "task" THEN outcome
                ELSE [outcome EXCEPT ![a[1]] = "loaded"]
  /\ Ends(a)
  /\ UNCHANGED <<erp, cooling, queue, request, closed>>

\* (variant: a list cut for one conversation becomes everybody's catalogue)
PartialInstallsShared(a) ==
  /\ at[a] = "loading" /\ got[a] # None
  /\ KindOf(a) = "partial"
  /\ catalog' = got[a]
  /\ outcome' = [outcome EXCEPT ![a[1]] = "loaded"]
  /\ Ends(a)
  /\ UNCHANGED <<erp, timers, override, queue, request, closed>>

\* sync_catalog_partial: the list cut at its limit is this session's alone.
PartialOverrides(a) ==
  /\ at[a] = "loading" /\ got[a] # None
  /\ KindOf(a) = "partial"
  /\ override' = [override EXCEPT ![request[a[1]].session] = got[a]]
  /\ outcome' = [outcome EXCEPT ![a[1]] = "loaded"]
  /\ Ends(a)
  /\ UNCHANGED <<erp, catalog, timers, queue, request, closed>>

\* The ERP fails, or has no product: only a task's failure starts a cooldown.
LoadFails(a) ==
  /\ at[a] = "loading"
  /\ IF KindOf(a) = "task"
     THEN cooling' = TRUE /\ UNCHANGED outcome
     ELSE outcome' = [outcome EXCEPT ![a[1]] = "failed"] /\ UNCHANGED cooling
  /\ Ends(a)
  /\ UNCHANGED <<erp, catalog, fresh, override, queue, request, closed>>

\* The client cancels a call that waits or loads.
CancelCall(r) ==
  /\ at[Call(r)] \in {"queued", "loading"}
  /\ outcome' = [outcome EXCEPT ![r] = "failed"]
  /\ Ends(Call(r))
  /\ queue' = SelectSeq(queue, LAMBDA b : b # Call(r))
  /\ UNCHANGED <<erp, catalog, timers, override, request, closed>>

-----------------------------------------------------------------------------
(* The clock, the ERP and the shutdown.                                    *)

Expire ==
  /\ fresh
  /\ fresh' = FALSE
  /\ UNCHANGED <<erp, catalog, cooling, override, lock, at, got, request, outcome, closed>>

CoolOff ==
  /\ cooling
  /\ cooling' = FALSE
  /\ UNCHANGED <<erp, catalog, fresh, override, lock, at, got, request, outcome, closed>>

\* Bounded by MaxVersion.
ErpChanges ==
  /\ erp < MaxVersion
  /\ erp' = erp + 1
  /\ UNCHANGED <<catalog, timers, override, lock, at, got, request, outcome, closed>>

Drained == \A r \in Requests : at[Call(r)] \notin {"queued", "loading"}

\* (variant: the tasks are forgotten instead of cancelled)
CloseForgetsTasks ==
  /\ ~closed /\ Drained
  /\ closed' = TRUE
  /\ UNCHANGED <<erp, catalog, timers, override, lock, at, got, request, outcome>>

\* close(), once the HTTP server has seen every call end: background tasks are
\* cancelled and awaited, wherever they are.
Close ==
  /\ ~closed /\ Drained
  /\ closed' = TRUE
  /\ at' = [a \in Actors |-> IF at[a] = "idle" THEN "idle" ELSE "done"]
  /\ got' = [a \in Actors |-> None]
  /\ holder' = Null
  /\ queue' = <<>>
  /\ UNCHANGED <<erp, catalog, timers, override, request, outcome>>

-----------------------------------------------------------------------------

Starts(r) ==
  \E s \in Sessions :
    \/ EnsureServed(r, s) \/ EnsureStale(r, s)
    \/ \E limit \in Limits : PartialBegins(r, s, limit)
    \/ \E kind \in {"ensure", "full"} : WaitForLock(r, s, kind)

TakesTurn(r) == ColdTurn(r) \/ FullTurn(r) \/ TaskTurn(r)
LoadEnds(a) == LoadInstalls(a) \/ PartialOverrides(a) \/ LoadFails(a)

Next ==
  \/ \E r \in Requests : Starts(r) \/ TakesTurn(r) \/ CancelCall(r)
  \/ \E a \in Actors : Reads(a) \/ LoadEnds(a)
  \/ Expire \/ CoolOff \/ ErpChanges \/ Close

(***************************************************************************)
(* Fairness: the event loop runs whoever may take the lock, and httpx ends *)
(* every request of a load within its timeout.                             *)
(***************************************************************************)
Fairness ==
  /\ \A r \in Requests : WF_vars(ColdTurn(r) \/ FullTurn(r)) /\ WF_vars(TaskTurn(r))
  /\ \A a \in Actors : WF_vars(LoadEnds(a))

Spec == Init /\ [][Next]_vars
FairSpec == Spec /\ Fairness

-----------------------------------------------------------------------------
(* Correctness.                                                            *)

\* Every variable keeps its type, and who holds the lock is loading.
TypeOK ==
  /\ erp \in 1 .. MaxVersion
  /\ catalog \in Snapshots
  /\ fresh \in BOOLEAN /\ cooling \in BOOLEAN /\ closed \in BOOLEAN
  /\ override \in [Sessions -> Snapshots]
  /\ holder \in Actors \cup {Null}
  /\ holder # Null => at[holder] = "loading"
  /\ queue \in Seq(Actors)
  /\ at \in [Actors -> {"idle", "queued", "loading", "done"}]
  /\ got \in [Actors -> Snapshots]
  /\ request \in [Requests -> Asked(1 .. MaxVersion) \cup {Null}]
  /\ outcome \in [Requests -> {"none", "served", "loaded", "failed"}]

\* The shared catalogue is never replaced by one read earlier from the ERP,
\* whatever loads overlap (installs happen under _lock).
CatalogNeverOlder == [][catalog'.version >= catalog.version]_vars

\* Loads are shared: of all the conversations that find no catalogue at most one
\* ever loads it, and those that find a stale one start one refresh in all.
LoadsAreShared ==
  /\ \A q, r \in Requests :
       /\ outcome[q] = "loaded" /\ request[q].kind = "ensure"
       /\ outcome[r] = "loaded" /\ request[r].kind = "ensure"
       => q = r
  /\ Cardinality(Background) <= 1

\* A background refresh only ever replaces a catalogue whose TTL has run out:
\* never the one an explicit synchronisation installed while the task waited.
BackgroundReplacesOnlyStale ==
  [][\A r \in Requests :
       at[Task(r)] = "loading" /\ catalog' # catalog /\ at'[Task(r)] = "done"
         => ~fresh]_vars

\* A list cut at a limit of its own is seen only by the conversation that asked
\* for that limit, and is no older than its asking: everybody else works on
\* lists cut at auto_sync_limit (sync_catalog_partial, _catalog_loader).
PartialStaysPrivate ==
  \A s \in Sessions :
    \/ View(s) = None
    \/ View(s).limit = AutoSyncLimit
    \/ \E r \in Requests : /\ outcome[r] = "loaded"
                           /\ request[r].session = s
                           /\ request[r].limit = View(s).limit
                           /\ request[r].since <= View(s).version

\* A synchronisation without a limit answers with what the ERP held after the
\* request, up to auto_sync_limit: never with a list that was fresh enough
\* (catalog_state.py:63) nor with the private list the conversation had.
SyncIsCurrent ==
  [][\A r \in Requests :
       /\ outcome[r] = "none" /\ outcome'[r] = "loaded"
       /\ request[r].kind = "full"
       => LET v == View(request[r].session)'
          IN  v.limit = AutoSyncLimit /\ v.version >= request[r].since]_vars

\* Nothing waits for or reads the ERP on after close().
QuietAfterClose == closed => \A a \in Actors : at[a] \in {"idle", "done"}

\* Every call ends, and every background refresh: no load, failure or
\* cancellation leaves the lock taken.
EverythingEnds == \A a \in Actors : at[a] = "queued" ~> at[a] = "done"

-----------------------------------------------------------------------------
(* The inductive invariant behind CatalogNeverOlder and SyncIsCurrent.     *)

\* Loads that hold the lock: all of them, except a partial synchronisation.
LockedLoad(a) == at[a] = "loading" /\ KindOf(a) # "partial"

Lists == [version : Nat, limit : Nat]

Shapes ==
  /\ erp \in Nat \ {0}
  /\ catalog \in Lists
  /\ at \in [Actors -> {"idle", "queued", "loading", "done"}]
  /\ got \in [Actors -> Lists]
  /\ override \in [Sessions -> Lists]
  /\ request \in [Requests -> Asked(Nat \ {0}) \cup {Null}]
  /\ outcome \in [Requests -> {"none", "served", "loaded", "failed"}]

\* The lock has an owner exactly while a locked load is out.
LockIsHeld == \A a \in Actors : LockedLoad(a) <=> holder = a

\* Nothing read or kept is newer than the ERP.
NothingFromTheFuture ==
  /\ catalog.version <= erp
  /\ \A a \in Actors : got[a].version <= erp
  /\ \A r \in Requests :
       /\ at[Call(r)] = "idle" => request[r] = Null
       /\ at[Call(r)] # "idle" => request[r] # Null /\ request[r].since <= erp

\* What a locked load has read is at least as new as the catalogue; what a call
\* has read is as new as its request and cut at its limit; who does not load has
\* read nothing.
ReadUnderLock ==
  /\ \A a \in Actors : at[a] # "loading" => got[a] = None
  /\ \A a \in Actors :
       LockedLoad(a) /\ got[a] # None => got[a].version >= catalog.version
  /\ \A a \in Actors :
       got[a] # None => /\ got[a].limit = EffectiveLimit(a)
                        /\ a[2] = "call" => got[a].version >= request[a[1]].since

LoadInv == Shapes /\ LockIsHeld /\ NothingFromTheFuture /\ ReadUnderLock

-----------------------------------------------------------------------------
(* Why loads are shared, tasks replace only what is stale, and a list cut  *)
(* for one conversation stays private.                                     *)

\* Only a call that is over has an outcome.
OutcomeIsFinal == \A r \in Requests : outcome[r] # "none" => at[Call(r)] = "done"

\* A task that loads was let in because the TTL had run out, and while it holds
\* the lock nobody else renews the catalogue.
TasksFindStale == \A r \in Requests : at[Task(r)] = "loading" => ~fresh

ColdLoaded == {r \in Requests : outcome[r] = "loaded" /\ request[r].kind = "ensure"}

\* A cold load runs only while there is no catalogue, and leaves one behind.
ColdLoads ==
  /\ \A r \in Requests :
       at[Call(r)] = "loading" /\ request[r].kind = "ensure" => catalog = None
  /\ ColdLoaded # {} => catalog # None
  /\ \A q, r \in ColdLoaded : q = r

OneRefresh == \A q, r \in Background : q = r

\* The shared catalogue is cut at auto_sync_limit and nowhere else.
CatalogIsShared == catalog # None => catalog.limit = AutoSyncLimit

AskedFor(s, list) ==
  \E r \in Requests : /\ outcome[r] = "loaded"
                      /\ request[r].session = s
                      /\ request[r].limit = list.limit
                      /\ request[r].since <= list.version

OverridesAreAskedFor ==
  \A s \in Sessions : override[s] # None => AskedFor(s, override[s])

SharedInv ==
  /\ OutcomeIsFinal /\ TasksFindStale /\ ColdLoads /\ OneRefresh
  /\ CatalogIsShared /\ OverridesAreAskedFor /\ QuietAfterClose
=============================================================================
