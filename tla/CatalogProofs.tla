---------------------------- MODULE CatalogProofs ----------------------------
(***************************************************************************)
(* Proofs about CatalogState, for any numbers of requests and sessions:    *)
(* the shared catalogue never goes back, an explicit synchronisation       *)
(* answers with what the ERP held after it was asked, loads are shared, a  *)
(* task replaces only what is stale, a list cut for one conversation stays *)
(* private, and nothing runs on after close().                             *)
(*                                                                         *)
(* LoadInv is inductive.  Its heart is LockIsHeld: a locked load is alone, *)
(* so that what it has read stays at least as new as the catalogue until   *)
(* it installs it.  SharedInv adds what a cold load and a task found when  *)
(* they took the lock, which nobody else can change until they leave it.   *)
(***************************************************************************)
EXTENDS CatalogState, FiniteSetTheorems, TLAPS

\* Calls and tasks are actors, and no call is a task.
LEMMA ActorsAreDistinct ==
  /\ \A r \in Requests : Call(r) \in Actors /\ Task(r) \in Actors
  /\ \A q, r \in Requests : Call(q) # Task(r)
  /\ \A q, r \in Requests : Call(q) = Call(r) => q = r
  /\ \A q, r \in Requests : Task(q) = Task(r) => q = r
  /\ \A r \in Requests : Call(r)[1] = r /\ Call(r)[2] = "call"
  /\ \A r \in Requests : Task(r)[1] = r /\ Task(r)[2] = "task"
  /\ \A a \in Actors : \E r \in Requests : a = Call(r) \/ a = Task(r)
  /\ Null \notin Actors
PROOF BY CatalogAssumption DEF Actors, Call, Task

\* None is a snapshot no load returns.
LEMMA NoneIsASnapshot == None \in Lists
PROOF BY DEF None, NoLimit, Lists

\* What a call asks for.
LEMMA AskedShape ==
  /\ \A q \in Asked(Nat \ {0}) :
       /\ q # Null
       /\ q.session \in Sessions /\ q.kind \in Kinds
       /\ q.limit \in Nat /\ q.since \in Nat \ {0}
  /\ \A s \in Sessions, kind \in Kinds, since \in Nat \ {0} :
       \A limit \in AskedLimits(kind) :
         [session |-> s, kind |-> kind, limit |-> limit, since |-> since]
           \in Asked(Nat \ {0})
<1>1. ASSUME NEW q \in Asked(Nat \ {0})
      PROVE  /\ q # Null
             /\ q.session \in Sessions /\ q.kind \in Kinds
             /\ q.limit \in Nat /\ q.since \in Nat \ {0}
  <2>1. q # Null
    BY CatalogAssumption
  <2>2. CASE q \in [session : Sessions, kind : {"ensure", "full"},
                    limit : {NoLimit}, since : Nat \ {0}]
    BY <2>1, <2>2 DEF Kinds, NoLimit
  <2>3. CASE q \in [session : Sessions, kind : {"partial"},
                    limit : Limits, since : Nat \ {0}]
    BY <2>1, <2>3, CatalogAssumption DEF Kinds
  <2>4. QED
    BY <2>2, <2>3 DEF Asked
<1>2. ASSUME NEW s \in Sessions, NEW kind \in Kinds, NEW since \in Nat \ {0},
             NEW limit \in AskedLimits(kind)
      PROVE  [session |-> s, kind |-> kind, limit |-> limit, since |-> since]
               \in Asked(Nat \ {0})
  <2>1. CASE kind = "partial"
    BY <2>1 DEF Asked, AskedLimits
  <2>2. CASE kind # "partial"
    BY <2>2 DEF Asked, AskedLimits, Kinds
  <2>3. QED
    BY <2>1, <2>2
<1>3. QED
  BY <1>1, <1>2

THEOREM LoadInvInit == Init => LoadInv
<1> SUFFICES ASSUME Init PROVE LoadInv
  OBVIOUS
<1>1. Shapes
  BY NoneIsASnapshot, CatalogAssumption DEF Init, Shapes
<1>2. LockIsHeld
  BY ActorsAreDistinct DEF Init, LockIsHeld, LockedLoad
<1>3. NothingFromTheFuture
  BY ActorsAreDistinct DEF Init, NothingFromTheFuture, None
<1>4. ReadUnderLock
  BY DEF Init, ReadUnderLock
<1>5. QED
  BY <1>1, <1>2, <1>3, <1>4 DEF LoadInv

\* A step that leaves the loads, the lock and the catalogue alone.
LEMMA BeginKeepsInv ==
  ASSUME LoadInv, NEW r \in Requests, NEW s \in Sessions, NEW kind \in Kinds,
         NEW limit, Begin(r, s, kind, limit),
         UNCHANGED <<erp, catalog, override, holder, got>>,
         outcome' = outcome \/ Served(r),
         \/ at' = [at EXCEPT ![Call(r)] = "done"]
         \/ at' = [at EXCEPT ![Call(r)] = "done", ![Task(r)] = "queued"]
            /\ at[Task(r)] # "loading"
         \/ at' = [at EXCEPT ![Call(r)] = "queued"]
         \/ at' = [at EXCEPT ![Call(r)] = "loading"] /\ kind = "partial"
  PROVE  LoadInv'
<1> USE ActorsAreDistinct DEF LoadInv
<1>1. Shapes'
  <2>1. at' \in [Actors -> {"idle", "queued", "loading", "done"}]
    <3>1. at \in [Actors -> {"idle", "queued", "loading", "done"}]
      BY DEF Shapes
    <3>2. \A b \in Actors, x \in {"queued", "loading", "done"} :
             [at EXCEPT ![b] = x] \in [Actors -> {"idle", "queued", "loading", "done"}]
      BY <3>1
    <3>3. [at EXCEPT ![Call(r)] = "done", ![Task(r)] = "queued"]
             \in [Actors -> {"idle", "queued", "loading", "done"}]
      BY <3>1
    <3>4. QED
      BY <3>2, <3>3
  <2>2. request' \in [Requests -> Asked(Nat \ {0}) \cup {Null}]
    <3>1. [session |-> s, kind |-> kind, limit |-> limit, since |-> erp]
             \in Asked(Nat \ {0})
      BY AskedShape DEF Begin, Shapes
    <3>2. QED
      BY <3>1 DEF Shapes, Begin
  <2>3. outcome' \in [Requests -> {"none", "served", "loaded", "failed"}]
    <3>1. outcome \in [Requests -> {"none", "served", "loaded", "failed"}]
      BY DEF Shapes
    <3>2. [outcome EXCEPT ![r] = "served"]
             \in [Requests -> {"none", "served", "loaded", "failed"}]
      BY <3>1
    <3>3. QED
      BY <3>1, <3>2 DEF Served
  <2>4. QED
    BY <2>1, <2>2, <2>3 DEF Shapes
<1>2. \A a \in Actors : a # Call(r) => KindOf(a)' = KindOf(a)
  <2>1. \A q \in Requests : q # r => request'[q] = request[q]
    BY DEF Begin, Shapes
  <2>2. \A a \in Actors : a # Call(r) => a[2] = "task" \/ a[1] # r
    OBVIOUS
  <2>3. \A a \in Actors : a[1] \in Requests
    OBVIOUS
  <2>4. QED
    BY <2>1, <2>2, <2>3 DEF KindOf
<1>3. ~LockedLoad(Call(r)) /\ ~LockedLoad(Call(r))'
  <2>1. ~LockedLoad(Call(r))
    BY DEF Begin, LockedLoad
  <2>2. request'[r].kind = kind
    BY DEF Begin, Shapes
  <2>3. KindOf(Call(r))' = kind
    BY <2>2 DEF KindOf
  <2>4. at'[Call(r)] = "loading" => kind = "partial"
    BY DEF Shapes
  <2>5. QED
    BY <2>1, <2>3, <2>4 DEF LockedLoad
<1>4. \A a \in Actors : LockedLoad(a)' <=> LockedLoad(a)
  <2> SUFFICES ASSUME NEW a \in Actors, a # Call(r)
               PROVE  LockedLoad(a)' <=> LockedLoad(a)
    BY <1>3
  <2>1. at'[a] = "loading" <=> at[a] = "loading"
    BY DEF Shapes
  <2>2. QED
    BY <1>2, <2>1 DEF LockedLoad
<1>5. LockIsHeld'
  BY <1>4 DEF LockIsHeld
<1>6. NothingFromTheFuture'
  <2>1. request'[r] # Null /\ request'[r].since = erp
    <3>1. request'[r] = [session |-> s, kind |-> kind, limit |-> limit, since |-> erp]
      BY DEF Begin, Shapes
    <3>2. request'[r] \in Asked(Nat \ {0})
      BY <3>1, AskedShape DEF Begin, Shapes
    <3>3. QED
      BY <3>1, <3>2, AskedShape
  <2>2. at'[Call(r)] # "idle"
    BY DEF Shapes
  <2>3. \A q \in Requests : q # r =>
           request'[q] = request[q] /\ at'[Call(q)] = at[Call(q)]
    BY DEF Begin, Shapes
  <2>4. QED
    BY <2>1, <2>2, <2>3 DEF NothingFromTheFuture, Shapes
<1>7. ReadUnderLock'
  <2>0. \A a \in Actors : at'[a] # "loading" => got'[a] = None
    BY DEF ReadUnderLock, Begin, Shapes
  <2>1. ASSUME NEW a \in Actors, LockedLoad(a)', got'[a] # None
        PROVE  got'[a].version >= catalog'.version
    BY <1>4, <2>1 DEF ReadUnderLock
  <2>2. ASSUME NEW a \in Actors, got'[a] # None
        PROVE  /\ got'[a].limit = EffectiveLimit(a)'
               /\ a[2] = "call" => got'[a].version >= request'[a[1]].since
    <3>1. got'[a] = got[a] /\ a # Call(r)
      BY <2>2 DEF ReadUnderLock, Begin
    <3>2. KindOf(a)' = KindOf(a)
      BY <1>2, <3>1
    <3>3. CASE a[2] = "call"
      <4>1. request'[a[1]] = request[a[1]]
        BY <3>1, <3>3 DEF Begin, Shapes
      <4>2. QED
        BY <2>2, <3>1, <3>2, <4>1 DEF ReadUnderLock, EffectiveLimit
    <3>4. CASE a[2] = "task"
      <4>1. KindOf(a) = "task"
        BY <3>4 DEF KindOf
      <4>2. QED
        BY <2>2, <3>1, <3>2, <3>4, <4>1 DEF ReadUnderLock, EffectiveLimit
    <3>5. QED
      BY <3>3, <3>4
  <2>3. QED
    BY <2>0, <2>1, <2>2 DEF ReadUnderLock
<1>8. QED
  BY <1>1, <1>5, <1>6, <1>7

\* The one at the head of the queue takes the lock.
LEMMA StartKeepsInv ==
  ASSUME LoadInv, NEW a \in Actors, Turn(a), StartsLoading(a),
         KindOf(a) # "partial"
  PROVE  LoadInv'
<1> USE ActorsAreDistinct DEF LoadInv
<1>1. \A b \in Actors : KindOf(b)' = KindOf(b)
  BY DEF KindOf, StartsLoading
<1>2. \A b \in Actors : at'[b] = IF b = a THEN "loading" ELSE at[b]
  BY DEF StartsLoading, Shapes
<1>3. \A b \in Actors : LockedLoad(b)' <=> b = a
  BY <1>1, <1>2 DEF LockedLoad, LockIsHeld, Turn
<1>4. Shapes'
  BY DEF Shapes, StartsLoading
<1>5. LockIsHeld'
  BY <1>3 DEF LockIsHeld, StartsLoading
<1>6. NothingFromTheFuture'
  BY <1>2 DEF NothingFromTheFuture, StartsLoading, Turn
<1>7. ReadUnderLock'
  <2>1. got[a] = None
    BY DEF ReadUnderLock, Turn
  <2>2. \A b \in Actors : EffectiveLimit(b)' = EffectiveLimit(b)
    BY <1>1 DEF EffectiveLimit, StartsLoading
  <2>3. QED
    BY <1>2, <1>3, <2>1, <2>2 DEF ReadUnderLock, StartsLoading
<1>8. QED
  BY <1>4, <1>5, <1>6, <1>7

\* The lock is left without a load, or a load without the lock: nothing read
\* or kept gets newer.
LEMMA LeaveKeepsInv ==
  ASSUME LoadInv, NEW a \in Actors, at[a] \in {"queued", "loading"},
         at' = [at EXCEPT ![a] = "done"],
         got' = [got EXCEPT ![a] = None],
         holder' = IF holder = a THEN Null ELSE holder,
         UNCHANGED <<erp, request>>,
         \/ catalog' = catalog
         \/ LockedLoad(a) /\ got[a] # None /\ catalog' = got[a],
         override' \in [Sessions -> Lists],
         outcome' \in [Requests -> {"none", "served", "loaded", "failed"}]
  PROVE  LoadInv'
<1> USE ActorsAreDistinct, NoneIsASnapshot DEF LoadInv
<1>1. \A b \in Actors : KindOf(b)' = KindOf(b)
  BY DEF KindOf
<1>2. /\ at' \in [Actors -> {"idle", "queued", "loading", "done"}]
      /\ \A b \in Actors : at'[b] = IF b = a THEN "done" ELSE at[b]
  BY DEF Shapes
<1>3. /\ got' \in [Actors -> Lists]
      /\ \A b \in Actors : got'[b] = IF b = a THEN None ELSE got[b]
  BY DEF Shapes
<1>4. \A b \in Actors : LockedLoad(b)' <=> LockedLoad(b) /\ b # a
  BY <1>1, <1>2 DEF LockedLoad
<1>5. Shapes'
  BY <1>2, <1>3 DEF Shapes
<1>6. LockIsHeld'
  BY <1>4 DEF LockIsHeld
<1>7. NothingFromTheFuture'
  <2>1. catalog'.version <= erp'
    BY DEF NothingFromTheFuture
  <2>2. \A b \in Actors : got'[b].version <= erp'
    BY <1>3 DEF NothingFromTheFuture, None, Shapes
  <2>3. QED
    BY <1>2, <2>1, <2>2 DEF NothingFromTheFuture
<1>8. ReadUnderLock'
  <2>1. \A b \in Actors : at'[b] # "loading" => got'[b] = None
    BY <1>2, <1>3 DEF ReadUnderLock
  <2>2. ASSUME NEW b \in Actors, LockedLoad(b)', got'[b] # None
        PROVE  got'[b].version >= catalog'.version
    <3>1. LockedLoad(b) /\ b # a /\ got'[b] = got[b]
      BY <1>3, <1>4, <2>2
    <3>2. catalog' = catalog
      BY <3>1 DEF LockIsHeld
    <3>3. QED
      BY <2>2, <3>1, <3>2 DEF ReadUnderLock
  <2>3. ASSUME NEW b \in Actors, got'[b] # None
        PROVE  /\ got'[b].limit = EffectiveLimit(b)'
               /\ b[2] = "call" => got'[b].version >= request'[b[1]].since
    <3>1. got'[b] = got[b]
      BY <1>3, <2>3
    <3>2. EffectiveLimit(b)' = EffectiveLimit(b)
      BY <1>1 DEF EffectiveLimit
    <3>3. QED
      BY <2>3, <3>1, <3>2 DEF ReadUnderLock
  <2>4. QED
    BY <2>1, <2>2, <2>3 DEF ReadUnderLock
<1>9. QED
  BY <1>5, <1>6, <1>7, <1>8

\* Who leaves the lock at once had read nothing.
LEMMA LeaveAtOnceKeepsInv ==
  ASSUME LoadInv, NEW a \in Actors, Turn(a), LeavesAtOnce(a),
         outcome' \in [Requests -> {"none", "served", "loaded", "failed"}]
  PROVE  LoadInv'
<1>1. got' = [got EXCEPT ![a] = None]
  BY DEF LoadInv, Shapes, ReadUnderLock, Turn, LeavesAtOnce
<1>2. holder' = IF holder = a THEN Null ELSE holder
  BY DEF Turn, LeavesAtOnce
<1>3. override' \in [Sessions -> Lists]
  BY DEF LoadInv, Shapes, LeavesAtOnce
<1>4. QED
  BY <1>1, <1>2, <1>3, LeaveKeepsInv DEF Turn, LeavesAtOnce

\* A step on anything but the loads, the lock and the requests.
LEMMA AsideKeepsInv ==
  ASSUME LoadInv, UNCHANGED <<catalog, override, holder, at, got, request, outcome>>,
         erp' \in Nat, erp' >= erp
  PROVE  LoadInv'
<1>1. Shapes' /\ LockIsHeld'
  <2>1. erp' \in Nat \ {0}
    BY DEF LoadInv, Shapes
  <2>2. Shapes'
    BY <2>1 DEF LoadInv, Shapes
  <2>3. \A a \in Actors : KindOf(a)' = KindOf(a)
    BY DEF KindOf
  <2>4. LockIsHeld'
    BY <2>3 DEF LoadInv, LockIsHeld, LockedLoad
  <2>5. QED
    BY <2>2, <2>4
<1>2. ReadUnderLock'
  BY DEF LoadInv, ReadUnderLock, LockedLoad, KindOf, EffectiveLimit
<1>3. NothingFromTheFuture'
  <2>1. catalog.version <= erp'
    BY DEF LoadInv, Shapes, Lists, NothingFromTheFuture
  <2>2. \A a \in Actors : got[a].version <= erp'
    BY DEF LoadInv, Shapes, Lists, NothingFromTheFuture
  <2>3. \A r \in Requests : request[r] # Null => request[r].since \in Nat
    BY AskedShape DEF LoadInv, Shapes
  <2>4. \A r \in Requests :
           /\ at[Call(r)] = "idle" => request[r] = Null
           /\ at[Call(r)] # "idle" => request[r] # Null /\ request[r].since <= erp'
    BY <2>3 DEF LoadInv, Shapes, NothingFromTheFuture
  <2>5. QED
    BY <2>1, <2>2, <2>4 DEF NothingFromTheFuture
<1>4. QED
  BY <1>1, <1>2, <1>3 DEF LoadInv

\* fetch_products reads: the newest there is.
LEMMA ReadKeepsInv ==
  ASSUME LoadInv, NEW a \in Actors, Reads(a)
  PROVE  LoadInv'
<1> USE ActorsAreDistinct DEF LoadInv, Reads
<1>0. \A r \in Requests :
         a = Call(r) => request[r] \in Asked(Nat \ {0}) /\ request[r].since <= erp
  BY DEF NothingFromTheFuture, Shapes
<1>a. EffectiveLimit(a) \in Nat
  BY <1>0, AskedShape, CatalogAssumption DEF EffectiveLimit, KindOf
<1>1. /\ got' \in [Actors -> Lists]
      /\ \A b \in Actors : got'[b] =
           IF b = a THEN [version |-> erp, limit |-> EffectiveLimit(a)] ELSE got[b]
  BY <1>a DEF Shapes, Lists
<1>2. Shapes' /\ LockIsHeld'
  <2>1. Shapes'
    BY <1>1 DEF Shapes, lock, timers
  <2>2. \A b \in Actors : KindOf(b)' = KindOf(b)
    BY DEF KindOf
  <2>3. LockIsHeld'
    BY <2>2 DEF LockIsHeld, LockedLoad, lock
  <2>4. QED
    BY <2>1, <2>3
<1>3. NothingFromTheFuture'
  BY <1>1 DEF Shapes, NothingFromTheFuture
<1>4. ReadUnderLock'
  <2>1. \A b \in Actors : LockedLoad(b)' <=> LockedLoad(b)
    BY DEF LockedLoad, KindOf
  <2>2. \A b \in Actors : at'[b] # "loading" => got'[b] = None
    BY <1>1 DEF ReadUnderLock
  <2>3. ASSUME NEW b \in Actors, LockedLoad(b)', got'[b] # None
        PROVE  got'[b].version >= catalog'.version
    <3>1. LockedLoad(b)
      BY <2>1, <2>3
    <3>2. CASE b = a
      BY <1>1, <3>2 DEF NothingFromTheFuture, Shapes, Lists
    <3>3. CASE b # a
      BY <1>1, <2>3, <3>1, <3>3 DEF ReadUnderLock
    <3>4. QED
      BY <3>2, <3>3
  <2>4. ASSUME NEW b \in Actors, got'[b] # None
        PROVE  /\ got'[b].limit = EffectiveLimit(b)'
               /\ b[2] = "call" => got'[b].version >= request'[b[1]].since
    <3>1. EffectiveLimit(b)' = EffectiveLimit(b)
      BY DEF EffectiveLimit, KindOf
    <3>2. CASE b = a
      <4>1. b[2] = "call" => erp >= request[b[1]].since
        BY <1>0, <3>2, AskedShape DEF Shapes
      <4>2. QED
        BY <1>1, <3>1, <3>2, <4>1
    <3>3. CASE b # a
      BY <1>1, <2>4, <3>1, <3>3 DEF ReadUnderLock
    <3>4. QED
      BY <3>2, <3>3
  <2>5. QED
    BY <2>2, <2>3, <2>4 DEF ReadUnderLock
<1>5. QED
  BY <1>2, <1>3, <1>4

\* Every step keeps the invariant.
THEOREM LoadInvStep == LoadInv /\ [Next]_vars => LoadInv'
<1> SUFFICES ASSUME LoadInv, [Next]_vars PROVE LoadInv'
  OBVIOUS
<1>0. erp \in Nat /\ erp + 1 \in Nat /\ erp >= erp /\ erp + 1 >= erp
  BY DEF LoadInv, Shapes
<1>1. ASSUME NEW r \in Requests, Starts(r) PROVE LoadInv'
  <2>0. PICK s \in Sessions :
          \/ EnsureServed(r, s) \/ EnsureStale(r, s)
          \/ \E limit \in Limits : PartialBegins(r, s, limit)
          \/ \E kind \in {"ensure", "full"} : WaitForLock(r, s, kind)
    BY <1>1 DEF Starts
  <2>1. CASE EnsureServed(r, s)
    BY <2>1, BeginKeepsInv DEF EnsureServed, Kinds, lock
  <2>2. CASE EnsureStale(r, s)
    <3>1. at[Task(r)] # "loading"
      BY <2>2 DEF EnsureStale, Background
    <3>2. QED
      BY <2>2, <3>1, BeginKeepsInv DEF EnsureStale, Kinds
  <2>3. ASSUME NEW limit \in Limits, PartialBegins(r, s, limit)
        PROVE  LoadInv'
    BY <2>3, BeginKeepsInv DEF PartialBegins, Kinds, lock
  <2>4. ASSUME NEW kind \in {"ensure", "full"}, WaitForLock(r, s, kind)
        PROVE  LoadInv'
    BY <2>4, BeginKeepsInv DEF WaitForLock, Kinds
  <2>5. QED
    BY <2>0, <2>1, <2>2, <2>3, <2>4
<1>2. ASSUME NEW r \in Requests, TakesTurn(r) PROVE LoadInv'
  <2> USE ActorsAreDistinct
  <2>0. KindOf(Task(r)) = "task"
    BY DEF KindOf
  <2>1. CASE ColdTurn(r)
    <3>1. CASE StartsLoading(Call(r))
      BY <2>1, <3>1, StartKeepsInv DEF ColdTurn
    <3>2. CASE LeavesAtOnce(Call(r)) /\ Served(r)
      <4>1. outcome' \in [Requests -> {"none", "served", "loaded", "failed"}]
        BY <3>2 DEF LoadInv, Shapes, Served
      <4>2. QED
        BY <2>1, <3>2, <4>1, LeaveAtOnceKeepsInv DEF ColdTurn
    <3>3. QED
      BY <2>1, <3>1, <3>2 DEF ColdTurn
  <2>2. CASE FullTurn(r)
    BY <2>2, StartKeepsInv DEF FullTurn
  <2>3. CASE TaskTurn(r)
    <3>1. CASE StartsLoading(Task(r))
      BY <2>0, <2>3, <3>1, StartKeepsInv DEF TaskTurn
    <3>2. CASE LeavesAtOnce(Task(r)) /\ UNCHANGED outcome
      <4>1. outcome' \in [Requests -> {"none", "served", "loaded", "failed"}]
        BY <3>2 DEF LoadInv, Shapes
      <4>2. QED
        BY <2>3, <3>2, <4>1, LeaveAtOnceKeepsInv DEF TaskTurn
    <3>3. QED
      BY <2>3, <3>1, <3>2 DEF TaskTurn
  <2>4. QED
    BY <1>2, <2>1, <2>2, <2>3 DEF TakesTurn
<1>3. ASSUME NEW r \in Requests, CancelCall(r) PROVE LoadInv'
  <2>1. /\ outcome' \in [Requests -> {"none", "served", "loaded", "failed"}]
        /\ override' \in [Sessions -> Lists]
    BY <1>3 DEF CancelCall, LoadInv, Shapes
  <2>2. QED
    BY <1>3, <2>1, LeaveKeepsInv, ActorsAreDistinct DEF CancelCall, Ends
<1>4. ASSUME NEW a \in Actors, Reads(a) PROVE LoadInv'
  BY <1>4, ReadKeepsInv
<1>5. ASSUME NEW a \in Actors, LoadEnds(a) PROVE LoadInv'
  <2>0. /\ a[1] \in Requests
        /\ got[a] \in Lists
    BY ActorsAreDistinct DEF LoadInv, Shapes
  <2>1. /\ outcome' \in [Requests -> {"none", "served", "loaded", "failed"}]
        /\ override' \in [Sessions -> Lists]
    <3>1. /\ outcome \in [Requests -> {"none", "served", "loaded", "failed"}]
          /\ override \in [Sessions -> Lists]
      BY DEF LoadInv, Shapes
    <3>2. CASE LoadInstalls(a)
      BY <2>0, <3>1, <3>2, NoneIsASnapshot DEF LoadInstalls
    <3>3. CASE PartialOverrides(a)
      BY <2>0, <3>1, <3>3 DEF PartialOverrides
    <3>4. CASE LoadFails(a)
      BY <2>0, <3>1, <3>4 DEF LoadFails
    <3>5. QED
      BY <1>5, <3>2, <3>3, <3>4 DEF LoadEnds
  <2>2. CASE LoadInstalls(a)
    BY <2>1, <2>2, LeaveKeepsInv DEF LoadInstalls, LockedLoad, Ends
  <2>3. CASE PartialOverrides(a)
    BY <2>1, <2>3, LeaveKeepsInv DEF PartialOverrides, Ends
  <2>4. CASE LoadFails(a)
    BY <2>1, <2>4, LeaveKeepsInv DEF LoadFails, Ends
  <2>5. QED
    BY <1>5, <2>2, <2>3, <2>4 DEF LoadEnds
<1>6. CASE Expire
  BY <1>0, <1>6, AsideKeepsInv DEF Expire, lock
<1>7. CASE CoolOff
  BY <1>0, <1>7, AsideKeepsInv DEF CoolOff, lock
<1>8. CASE ErpChanges
  BY <1>0, <1>8, AsideKeepsInv DEF ErpChanges, lock
<1>9. CASE Close
  <2> USE ActorsAreDistinct, NoneIsASnapshot DEF LoadInv, Close
  <2>1. \A a \in Actors : at'[a] \in {"idle", "done"} /\ (at'[a] = "idle" <=> at[a] = "idle")
    BY <1>9 DEF Shapes
  <2>2. Shapes'
    BY <1>9 DEF Shapes
  <2>3. LockIsHeld' /\ ReadUnderLock'
    BY <1>9, <2>1 DEF LockIsHeld, LockedLoad, ReadUnderLock
  <2>4. NothingFromTheFuture'
    BY <1>9, <2>1 DEF NothingFromTheFuture, None, Shapes
  <2>5. QED
    BY <2>2, <2>3, <2>4
<1>10. CASE UNCHANGED vars
  BY <1>0, <1>10, AsideKeepsInv DEF vars, lock
<1>11. QED
  BY <1>1, <1>2, <1>3, <1>4, <1>5, <1>6, <1>7, <1>8, <1>9, <1>10 DEF Next

\* For any number of conversations and calls, the shared catalogue is never
\* replaced by an older one (_install under _lock).
THEOREM NeverOlder == Spec => CatalogNeverOlder
<1>1. LoadInv /\ [Next]_vars => [catalog'.version >= catalog.version]_vars
  <2> SUFFICES ASSUME LoadInv, Next PROVE catalog'.version >= catalog.version
    OBVIOUS
  <2>1. CASE \E a \in Actors : LoadInstalls(a)
    BY <2>1 DEF LoadInstalls, LoadInv, ReadUnderLock, LockedLoad
  <2>2. CASE UNCHANGED catalog
    BY <2>2 DEF LoadInv, Shapes, Lists
  <2>3. QED
    BY <2>1, <2>2 DEF Next, Starts, EnsureServed, EnsureStale, PartialBegins,
       WaitForLock, TakesTurn, ColdTurn, FullTurn, TaskTurn, StartsLoading,
       LeavesAtOnce, CancelCall, Reads, LoadEnds, PartialOverrides, LoadFails,
       Expire, CoolOff, ErpChanges, Close, vars
<1>2. QED
  BY <1>1, LoadInvInit, LoadInvStep, PTL DEF Spec, CatalogNeverOlder

\* For any number of conversations and calls, a full synchronisation answers
\* with the list as the ERP held it after the request, cut at auto_sync_limit
\* (refresh, _catalog_loader).
THEOREM SyncAnswersCurrent == Spec => SyncIsCurrent
<1> DEFINE Current(r) ==
      /\ outcome[r] = "none" /\ outcome'[r] = "loaded"
      /\ request[r].kind = "full"
      => LET v == View(request[r].session)'
         IN  v.limit = AutoSyncLimit /\ v.version >= request[r].since
<1>1. LoadInv /\ [Next]_vars => [\A r \in Requests : Current(r)]_vars
  <2> SUFFICES ASSUME LoadInv, Next, NEW r \in Requests,
                      outcome[r] = "none", outcome'[r] = "loaded",
                      request[r].kind = "full"
               PROVE  View(request[r].session)'.limit = AutoSyncLimit
                      /\ View(request[r].session)'.version >= request[r].since
    OBVIOUS
  <2>1. LoadInstalls(Call(r))
    <3>0. /\ outcome' # outcome
          /\ \A q \in Requests : outcome' # [outcome EXCEPT ![q] = "served"]
          /\ \A q \in Requests : outcome' # [outcome EXCEPT ![q] = "failed"]
      BY DEF LoadInv, Shapes
    <3>a. \A q \in Requests : ~Starts(q)
      BY <3>0 DEF Starts, EnsureServed, EnsureStale, PartialBegins, Served, WaitForLock
    <3>b. \A q \in Requests : ~TakesTurn(q) /\ ~CancelCall(q)
      BY <3>0 DEF TakesTurn, ColdTurn, FullTurn, TaskTurn, StartsLoading, Served,
                  LeavesAtOnce, CancelCall
    <3>c. \A a \in Actors : ~Reads(a) /\ ~LoadFails(a)
      BY <3>0, ActorsAreDistinct DEF Reads, LoadFails
    <3>d. ~Expire /\ ~CoolOff /\ ~ErpChanges /\ ~Close
      BY <3>0 DEF Expire, CoolOff, ErpChanges, Close
    <3>1. PICK a \in Actors : LoadInstalls(a) \/ PartialOverrides(a)
      BY <3>a, <3>b, <3>c, <3>d DEF Next, LoadEnds
    <3>2. outcome' = [outcome EXCEPT ![a[1]] = "loaded"] /\ KindOf(a) # "task"
      BY <3>1 DEF LoadInstalls, PartialOverrides
    <3>3. a[1] = r /\ a = Call(r)
      BY <3>2, ActorsAreDistinct DEF LoadInv, Shapes, KindOf
    <3>4. KindOf(a) = "full"
      BY <3>3, ActorsAreDistinct DEF KindOf
    <3>5. QED
      BY <3>1, <3>3, <3>4 DEF PartialOverrides
  <2>2. KindOf(Call(r)) = "full" /\ Call(r)[1] = r
    BY ActorsAreDistinct DEF KindOf
  <2>3. request[r] # Null /\ request[r].session \in Sessions
    <3>1. at[Call(r)] # "idle"
      BY <2>1 DEF LoadInstalls
    <3>2. request[r] # Null
      BY <3>1 DEF LoadInv, NothingFromTheFuture
    <3>3. QED
      BY <3>2, AskedShape DEF LoadInv, Shapes
  <2>4. override'[request[r].session] = None /\ catalog' = got[Call(r)]
    BY <2>1, <2>2, <2>3 DEF LoadInstalls, LoadInv, Shapes
  <2>5. request' = request
    BY <2>1 DEF LoadInstalls
  <2>6. View(request[r].session)' = got[Call(r)]
    BY <2>4, <2>5 DEF View
  <2>7. LockedLoad(Call(r)) /\ got[Call(r)] # None
    BY <2>1 DEF LoadInstalls, LockedLoad
  <2>8. got[Call(r)].limit = AutoSyncLimit
    BY <2>2, <2>7, ActorsAreDistinct DEF LoadInv, ReadUnderLock, EffectiveLimit
  <2>9. got[Call(r)].version >= request[r].since
    BY <2>7, ActorsAreDistinct DEF LoadInv, ReadUnderLock
  <2>10. QED
    BY <2>6, <2>8, <2>9
<1>2. QED
  BY <1>1, LoadInvInit, LoadInvStep, PTL DEF Spec, SyncIsCurrent

-----------------------------------------------------------------------------
(* Loads are shared, tasks replace only what is stale, lists cut for one   *)
(* conversation stay private, and nothing happens after close().           *)

\* A call that has begun knows what it was asked for.
LEMMA BegunCalls ==
  ASSUME LoadInv, NEW r \in Requests, at[Call(r)] # "idle"
  PROVE  /\ request[r] \in Asked(Nat \ {0})
         /\ KindOf(Call(r)) = request[r].kind
         /\ KindOf(Call(r)) \in Kinds /\ KindOf(Call(r)) # "task"
<1>1. request[r] # Null
  BY DEF LoadInv, NothingFromTheFuture
<1>2. request[r] \in Asked(Nat \ {0})
  BY <1>1 DEF LoadInv, Shapes
<1>3. KindOf(Call(r)) = request[r].kind
  BY ActorsAreDistinct DEF KindOf
<1>4. QED
  BY <1>2, <1>3, AskedShape DEF Kinds

LEMMA TaskKind == \A r \in Requests : KindOf(Task(r)) = "task"
BY ActorsAreDistinct DEF KindOf

\* What a call has reached: once begun it keeps its request, once over it keeps
\* its outcome, and only an install makes it "loaded".
LEMMA CallsGoForward ==
  ASSUME LoadInv, [Next]_vars, NEW r \in Requests
  PROVE  /\ at[Call(r)] # "idle" => at'[Call(r)] # "idle" /\ request'[r] = request[r]
         /\ at[Call(r)] = "done" => at'[Call(r)] = "done" /\ outcome'[r] = outcome[r]
         /\ outcome'[r] # outcome[r] => at'[Call(r)] = "done"
         /\ outcome'[r] = "loaded" => \/ outcome[r] = "loaded"
                                      \/ LoadInstalls(Call(r))
                                      \/ PartialOverrides(Call(r))
<1> DEFINE Goal ==
         /\ at[Call(r)] # "idle" => at'[Call(r)] # "idle" /\ request'[r] = request[r]
         /\ at[Call(r)] = "done" => at'[Call(r)] = "done" /\ outcome'[r] = outcome[r]
         /\ outcome'[r] # outcome[r] => at'[Call(r)] = "done"
         /\ outcome'[r] = "loaded" => \/ outcome[r] = "loaded"
                                      \/ LoadInstalls(Call(r))
                                      \/ PartialOverrides(Call(r))
<1> USE ActorsAreDistinct
<1>0. /\ at \in [Actors -> {"idle", "queued", "loading", "done"}]
      /\ outcome \in [Requests -> {"none", "served", "loaded", "failed"}]
      /\ DOMAIN request = Requests
  BY DEF LoadInv, Shapes
<1>1. ASSUME NEW q \in Requests, NEW s \in Sessions, NEW kind \in Kinds, NEW limit,
             EnsureServed(q, s) \/ EnsureStale(q, s) \/ PartialBegins(q, s, limit)
             \/ WaitForLock(q, s, kind)
      PROVE  Goal
  BY <1>0, <1>1 DEF EnsureServed, EnsureStale, PartialBegins, WaitForLock, Begin, Served
<1>2. ASSUME NEW q \in Requests, TakesTurn(q)
      PROVE  Goal
  BY <1>0, <1>2 DEF TakesTurn, ColdTurn, FullTurn, TaskTurn, Turn, StartsLoading,
                    LeavesAtOnce, Served
<1>3. ASSUME NEW q \in Requests, CancelCall(q)
      PROVE  Goal
  BY <1>0, <1>3 DEF CancelCall, Ends
<1>4. ASSUME NEW a \in Actors, LoadEnds(a)
      PROVE  Goal
  <2>1. PICK q \in Requests : a = Call(q) \/ a = Task(q)
    OBVIOUS
  <2>2. at[a] = "loading" /\ at' = [at EXCEPT ![a] = "done"] /\ UNCHANGED request
    BY <1>4 DEF LoadEnds, LoadInstalls, PartialOverrides, LoadFails, Ends
  <2>3. CASE a = Task(q)
    <3>1. UNCHANGED outcome
      BY <1>4, <2>3, TaskKind DEF LoadEnds, LoadInstalls, PartialOverrides, LoadFails
    <3>2. QED
      BY <1>0, <2>2, <2>3, <3>1
  <2>4. CASE a = Call(q)
    <3>1. KindOf(a) # "task"
      BY <2>2, <2>4, BegunCalls
    <3>2. \/ outcome' = [outcome EXCEPT ![q] = "loaded"]
             /\ (LoadInstalls(a) \/ PartialOverrides(a))
          \/ outcome' = [outcome EXCEPT ![q] = "failed"]
      BY <1>4, <2>4, <3>1 DEF LoadEnds, LoadInstalls, PartialOverrides, LoadFails
    <3>3. QED
      BY <1>0, <2>2, <2>4, <3>2
  <2>5. QED
    BY <2>1, <2>3, <2>4
<1>5. CASE \E a \in Actors : Reads(a)
  BY <1>5 DEF Reads
<1>6. CASE Expire \/ CoolOff \/ ErpChanges
  BY <1>6 DEF Expire, CoolOff, ErpChanges
<1>7. CASE Close
  BY <1>0, <1>7 DEF Close
<1>8. CASE UNCHANGED vars
  BY <1>8 DEF vars
<1>9. QED
  BY <1>1, <1>2, <1>3, <1>4, <1>5, <1>6, <1>7, <1>8 DEF Next, Starts, Kinds

\* What may change the shared state, and who may start to load.
LEMMA LoadsGoForward ==
  ASSUME LoadInv, [Next]_vars
  PROVE  /\ UNCHANGED <<catalog, override, fresh>>
            \/ Expire \/ \E a \in Actors : LoadInstalls(a) \/ PartialOverrides(a)
         /\ \A a \in Actors : got'[a] = got[a] \/ got'[a] = None \/ Reads(a)
         /\ \A a \in Actors : at'[a] = "loading" /\ at[a] # "loading" =>
              /\ UNCHANGED <<catalog, fresh>>
              /\ \/ \E r \in Requests : a = Task(r) /\ ~fresh
                 \/ \E r \in Requests : /\ a = Call(r) /\ request'[r] = request[r]
                                        /\ \/ request[r].kind # "ensure"
                                           \/ catalog = None
                 \/ \E r \in Requests : a = Call(r) /\ request'[r].kind = "partial"
<1> DEFINE Goal ==
         /\ UNCHANGED <<catalog, override, fresh>>
            \/ Expire \/ \E a \in Actors : LoadInstalls(a) \/ PartialOverrides(a)
         /\ \A a \in Actors : got'[a] = got[a] \/ got'[a] = None \/ Reads(a)
         /\ \A a \in Actors : at'[a] = "loading" /\ at[a] # "loading" =>
              /\ UNCHANGED <<catalog, fresh>>
              /\ \/ \E r \in Requests : a = Task(r) /\ ~fresh
                 \/ \E r \in Requests : /\ a = Call(r) /\ request'[r] = request[r]
                                        /\ \/ request[r].kind # "ensure"
                                           \/ catalog = None
                 \/ \E r \in Requests : a = Call(r) /\ request'[r].kind = "partial"
<1> USE ActorsAreDistinct
<1>0. /\ at \in [Actors -> {"idle", "queued", "loading", "done"}]
      /\ DOMAIN request = Requests
      /\ DOMAIN got = Actors
  BY DEF LoadInv, Shapes
<1>1. ASSUME NEW q \in Requests, NEW s \in Sessions, NEW kind \in Kinds,
             EnsureServed(q, s) \/ EnsureStale(q, s) \/ WaitForLock(q, s, kind)
      PROVE  Goal
  BY <1>0, <1>1 DEF EnsureServed, EnsureStale, WaitForLock, timers
<1>2. ASSUME NEW q \in Requests, NEW s \in Sessions, NEW limit,
             PartialBegins(q, s, limit)
      PROVE  Goal
  <2>1. /\ UNCHANGED <<catalog, override, fresh, got>>
        /\ at' = [at EXCEPT ![Call(q)] = "loading"]
        /\ request' = [request EXCEPT
              ![q] = [session |-> s, kind |-> "partial", limit |-> limit, since |-> erp]]
    BY <1>2 DEF PartialBegins, Begin, timers
  <2>2. request'[q].kind = "partial"
    BY <1>0, <2>1
  <2>3. QED
    BY <1>0, <2>1, <2>2
<1>3. ASSUME NEW q \in Requests, NEW b \in {Call(q), Task(q)},
             LeavesAtOnce(b)
      PROVE  Goal
  BY <1>0, <1>3 DEF LeavesAtOnce, timers
<1>4. ASSUME NEW q \in Requests, NEW b \in {Call(q), Task(q)},
             StartsLoading(b),
             b = Task(q) => ~fresh,
             b = Call(q) => request[q].kind # "ensure" \/ catalog = None
      PROVE  Goal
  BY <1>0, <1>4 DEF StartsLoading, timers
<1>5. ASSUME NEW q \in Requests, TakesTurn(q)
      PROVE  Goal
  BY <1>3, <1>4, <1>5 DEF TakesTurn, ColdTurn, FullTurn, TaskTurn, KindOf
<1>6. ASSUME NEW q \in Requests, CancelCall(q)
      PROVE  Goal
  BY <1>0, <1>6 DEF CancelCall, Ends, timers
<1>7. ASSUME NEW a \in Actors, LoadEnds(a)
      PROVE  Goal
  <2>1. /\ at' = [at EXCEPT ![a] = "done"] /\ got' = [got EXCEPT ![a] = None]
        /\ \/ UNCHANGED <<catalog, override, fresh>>
           \/ LoadInstalls(a) \/ PartialOverrides(a)
    BY <1>7 DEF LoadEnds, LoadInstalls, PartialOverrides, LoadFails, Ends
  <2>2. QED
    BY <1>0, <2>1
<1>8. ASSUME NEW a \in Actors, Reads(a)
      PROVE  Goal
  BY <1>0, <1>8 DEF Reads, timers
<1>9. CASE Expire \/ CoolOff \/ ErpChanges
  BY <1>9 DEF Expire, CoolOff, ErpChanges, timers
<1>10. CASE Close
  BY <1>0, <1>10 DEF Close, timers
<1>11. CASE UNCHANGED vars
  BY <1>11 DEF vars
<1>12. QED
  BY <1>1, <1>2, <1>5, <1>6, <1>7, <1>8, <1>9, <1>10, <1>11 DEF Next, Starts, Kinds

\* A refresh in the background is started only while none is under way.
LEMMA TasksBegin ==
  ASSUME LoadInv, [Next]_vars
  PROVE  \/ Background' \subseteq Background
         \/ Background = {} /\ \E r \in Requests : Background' \subseteq {r}
<1> USE ActorsAreDistinct
<1>0. at \in [Actors -> {"idle", "queued", "loading", "done"}]
  BY DEF LoadInv, Shapes
<1>1. ASSUME \A r \in Requests : at'[Task(r)] \in {"queued", "loading"}
                                   => at[Task(r)] \in {"queued", "loading"}
      PROVE  Background' \subseteq Background
  BY <1>1 DEF Background
<1>2. ASSUME NEW q \in Requests, NEW s \in Sessions, EnsureStale(q, s)
      PROVE  Background = {} /\ Background' \subseteq {q}
  <2>1. at' = [at EXCEPT ![Call(q)] = "done", ![Task(q)] = "queued"]
    BY <1>2 DEF EnsureStale
  <2>2. \A r \in Requests : r # q => at'[Task(r)] = at[Task(r)]
    BY <1>0, <2>1
  <2>3. QED
    BY <1>2, <2>2 DEF EnsureStale, Background
<1>3. ASSUME NEW q \in Requests, NEW s \in Sessions, NEW kind \in Kinds,
             NEW limit,
             EnsureServed(q, s) \/ PartialBegins(q, s, limit) \/ WaitForLock(q, s, kind)
      PROVE  Background' \subseteq Background
  BY <1>0, <1>1, <1>3 DEF EnsureServed, PartialBegins, WaitForLock
<1>4. ASSUME NEW q \in Requests, TakesTurn(q) \/ CancelCall(q)
      PROVE  Background' \subseteq Background
  <2>1. CASE TaskTurn(q)
    BY <1>0, <1>1, <2>1 DEF TaskTurn, Turn, StartsLoading, LeavesAtOnce
  <2>2. CASE ColdTurn(q) \/ FullTurn(q) \/ CancelCall(q)
    BY <1>0, <1>1, <2>2
       DEF ColdTurn, FullTurn, StartsLoading, LeavesAtOnce, CancelCall, Ends
  <2>3. QED
    BY <1>4, <2>1, <2>2 DEF TakesTurn
<1>5. ASSUME NEW a \in Actors, Reads(a) \/ LoadEnds(a)
      PROVE  Background' \subseteq Background
  BY <1>0, <1>1, <1>5 DEF Reads, LoadEnds, LoadInstalls, PartialOverrides, LoadFails, Ends
<1>6. CASE Expire \/ CoolOff \/ ErpChanges \/ UNCHANGED vars
  BY <1>1, <1>6 DEF Expire, CoolOff, ErpChanges, vars
<1>7. CASE Close
  BY <1>0, <1>1, <1>7 DEF Close
<1>8. QED
  BY <1>2, <1>3, <1>4, <1>5, <1>6, <1>7 DEF Next, Starts, Kinds

LEMMA SharedInvInit == Init => SharedInv
<1> SUFFICES ASSUME Init PROVE SharedInv
  OBVIOUS
<1> USE ActorsAreDistinct DEF Init
<1>1. OutcomeIsFinal /\ TasksFindStale /\ OneRefresh /\ QuietAfterClose
  BY DEF OutcomeIsFinal, TasksFindStale, OneRefresh, Background, QuietAfterClose
<1>2. ColdLoads
  BY DEF ColdLoads, ColdLoaded
<1>3. CatalogIsShared /\ OverridesAreAskedFor
  BY DEF CatalogIsShared, OverridesAreAskedFor
<1>4. QED
  BY <1>1, <1>2, <1>3 DEF SharedInv

\* An install is made by the one load that holds the lock, and it ends there.
LEMMA InstallerHoldsLock ==
  ASSUME LoadInv, NEW a \in Actors, LoadInstalls(a)
  PROVE  /\ LockedLoad(a) /\ got[a] # None /\ catalog' = got[a]
         /\ catalog'.limit = AutoSyncLimit
         /\ at'[a] = "done"
         /\ \A b \in Actors : LockedLoad(b) => b = a
         /\ \A s \in Sessions : override'[s] \in {override[s], None}
<1>1. LockedLoad(a) /\ got[a] # None /\ catalog' = got[a]
  BY DEF LoadInstalls, LockedLoad
<1>2. at'[a] = "done"
  BY DEF LoadInstalls, Ends, LoadInv, Shapes
<1>3. \A b \in Actors : LockedLoad(b) => b = a
  BY <1>1 DEF LoadInv, LockIsHeld
<1>4. \A s \in Sessions : override'[s] \in {override[s], None}
  BY DEF LoadInstalls, LoadInv, Shapes
<1>5. got[a].limit = AutoSyncLimit
  BY <1>1 DEF LockedLoad, LoadInv, ReadUnderLock, EffectiveLimit
<1>6. QED
  BY <1>1, <1>2, <1>3, <1>4, <1>5

LEMMA PartialTouchesOneSession ==
  ASSUME LoadInv, NEW a \in Actors, PartialOverrides(a)
  PROVE  \E r \in Requests :
           /\ a = Call(r) /\ request[r].kind = "partial" /\ at[a] = "loading"
           /\ UNCHANGED <<catalog, fresh, request>>
           /\ outcome'[r] = "loaded"
           /\ \A s \in Sessions : s # request[r].session => override'[s] = override[s]
           /\ LET mine == override'[request[r].session]
              IN  mine.limit = request[r].limit /\ request[r].since <= mine.version
<1> USE ActorsAreDistinct
<1>1. PICK r \in Requests : a = Call(r)
  BY TaskKind DEF PartialOverrides
<1>2. request[r].kind = "partial"
  BY <1>1, BegunCalls DEF PartialOverrides
<1>3. outcome'[r] = "loaded"
  BY <1>1 DEF PartialOverrides, LoadInv, Shapes
<1>4. \A s \in Sessions : s # request[r].session => override'[s] = override[s]
  BY <1>1 DEF PartialOverrides, LoadInv, Shapes
<1>5. request[r] \in Asked(Nat \ {0}) /\ request[r].session \in Sessions
  BY <1>1, BegunCalls, AskedShape DEF PartialOverrides
<1>6. override'[request[r].session] = got[a] /\ got[a] # None /\ got[a] \in Lists
  BY <1>1, <1>5 DEF PartialOverrides, LoadInv, Shapes
<1>7. got[a].limit = request[r].limit /\ got[a].version >= request[r].since
  BY <1>1, <1>6 DEF PartialOverrides, LoadInv, ReadUnderLock, EffectiveLimit
<1>8. request[r].since <= got[a].version
  BY <1>5, <1>6, <1>7, AskedShape DEF Lists
<1>9. QED
  BY <1>1, <1>2, <1>3, <1>4, <1>6, <1>7, <1>8 DEF PartialOverrides, timers

LEMMA SharedInvStep == LoadInv /\ SharedInv /\ [Next]_vars => SharedInv'
<1> SUFFICES ASSUME LoadInv, SharedInv, [Next]_vars PROVE SharedInv'
  OBVIOUS
<1> USE ActorsAreDistinct
<1>0. /\ OutcomeIsFinal /\ TasksFindStale /\ ColdLoads /\ OneRefresh
      /\ CatalogIsShared /\ OverridesAreAskedFor /\ QuietAfterClose
  BY DEF SharedInv
<1>1. OutcomeIsFinal'
  BY <1>0, CallsGoForward DEF OutcomeIsFinal
\* The catalogue and its TTL change only with an install, by the one locked load.
<1>2. ASSUME NEW b \in Actors, LockedLoad(b), at'[b] = "loading"
      PROVE  catalog' = catalog /\ (fresh' => fresh)
  <2>1. \A a \in Actors : ~LoadInstalls(a)
    BY <1>2, InstallerHoldsLock
  <2>2. QED
    BY <2>1, LoadsGoForward, PartialTouchesOneSession DEF Expire
<1>3. TasksFindStale'
  <2> SUFFICES ASSUME NEW r \in Requests, at'[Task(r)] = "loading" PROVE ~fresh'
    BY DEF TasksFindStale
  <2>1. CASE at[Task(r)] = "loading"
    BY <1>0, <1>2, <2>1, TaskKind DEF TasksFindStale, LockedLoad
  <2>2. CASE at[Task(r)] # "loading"
    BY <2>2, LoadsGoForward
  <2>3. QED
    BY <2>1, <2>2
<1>4. \A r \in Requests :
         at'[Call(r)] = "loading" /\ request'[r].kind = "ensure" => catalog' = None
  <2> SUFFICES ASSUME NEW r \in Requests, at'[Call(r)] = "loading",
                      request'[r].kind = "ensure"
               PROVE  catalog' = None
    OBVIOUS
  <2>1. CASE at[Call(r)] = "loading"
    <3>1. request[r].kind = "ensure"
      BY <2>1, CallsGoForward
    <3>2. LockedLoad(Call(r)) /\ catalog = None
      BY <1>0, <2>1, <3>1, BegunCalls DEF LockedLoad, ColdLoads
    <3>3. QED
      BY <1>2, <3>2
  <2>2. CASE at[Call(r)] # "loading"
    BY <2>2, LoadsGoForward
  <2>3. QED
    BY <2>1, <2>2
\* A catalogue once there is never given up.
<1>5. catalog # None => catalog' # None
  BY LoadsGoForward, InstallerHoldsLock, PartialTouchesOneSession DEF Expire
<1>6. ASSUME NEW r \in ColdLoaded' \ ColdLoaded
      PROVE  LoadInstalls(Call(r)) /\ catalog = None
  <2>1. r \in Requests /\ outcome'[r] = "loaded" /\ request'[r].kind = "ensure"
    BY <1>6 DEF ColdLoaded
  <2>2. outcome[r] # "loaded"
    <3>1. outcome[r] = "loaded" => request'[r] = request[r]
      BY <1>0, <2>1, CallsGoForward DEF OutcomeIsFinal
    <3>2. QED
      BY <1>6, <2>1, <3>1 DEF ColdLoaded
  <2>3. LoadInstalls(Call(r)) \/ PartialOverrides(Call(r))
    BY <2>1, <2>2, CallsGoForward
  <2>4. at[Call(r)] = "loading" /\ request'[r] = request[r]
    BY <2>3 DEF LoadInstalls, PartialOverrides
  <2>5. ~PartialOverrides(Call(r))
    BY <2>1, <2>4, BegunCalls DEF PartialOverrides
  <2>6. QED
    BY <1>0, <2>1, <2>3, <2>4, <2>5 DEF ColdLoads
<1>7. ColdLoads'
  <2>1. CASE ColdLoaded' \subseteq ColdLoaded
    BY <1>0, <1>4, <1>5, <2>1 DEF ColdLoads
  <2>2. CASE \E r \in ColdLoaded' : r \notin ColdLoaded
    <3>1. PICK r \in ColdLoaded' : r \notin ColdLoaded
      BY <2>2
    <3>2. LoadInstalls(Call(r)) /\ catalog = None /\ r \in Requests
      BY <1>6, <3>1 DEF ColdLoaded
    <3>3. catalog' # None
      BY <3>2, InstallerHoldsLock
    <3>4. ColdLoaded = {}
      BY <1>0, <3>2 DEF ColdLoads
    <3>5. ASSUME NEW q \in ColdLoaded'
          PROVE  q = r
      <4>1. LoadInstalls(Call(q)) /\ q \in Requests
        BY <1>6, <3>4, <3>5 DEF ColdLoaded
      <4>2. Call(q) = Call(r)
        BY <3>2, <4>1, InstallerHoldsLock
      <4>3. QED
        BY <3>2, <4>1, <4>2
    <3>6. QED
      BY <1>4, <3>3, <3>5 DEF ColdLoads
  <2>3. QED
    BY <2>1, <2>2
<1>8. OneRefresh'
  BY <1>0, TasksBegin DEF OneRefresh
<1>9. CatalogIsShared'
  <2>1. UNCHANGED catalog \/ \E a \in Actors : LoadInstalls(a)
    BY LoadsGoForward, PartialTouchesOneSession DEF Expire
  <2>2. QED
    BY <1>0, <2>1, InstallerHoldsLock DEF CatalogIsShared
<1>10. OverridesAreAskedFor'
  <2> SUFFICES ASSUME NEW s \in Sessions, override'[s] # None
               PROVE  AskedFor(s, override[s])'
    BY DEF OverridesAreAskedFor
  <2>1. ASSUME override'[s] = override[s]
        PROVE  AskedFor(s, override[s])'
    <3>1. ASSUME NEW r \in Requests, outcome[r] = "loaded"
          PROVE  outcome'[r] = "loaded" /\ request'[r] = request[r]
      BY <1>0, <3>1, CallsGoForward DEF OutcomeIsFinal
    <3>2. AskedFor(s, override[s])
      BY <1>0, <2>1 DEF OverridesAreAskedFor
    <3>3. QED
      BY <2>1, <3>1, <3>2 DEF AskedFor
  <2>2. ASSUME NEW a \in Actors, PartialOverrides(a)
        PROVE  AskedFor(s, override[s])'
    <3>1. PICK r \in Requests :
           /\ UNCHANGED request /\ outcome'[r] = "loaded"
           /\ s # request[r].session => override'[s] = override[s]
           /\ LET mine == override'[request[r].session]
              IN  mine.limit = request[r].limit /\ request[r].since <= mine.version
      BY <2>2, PartialTouchesOneSession
    <3>2. CASE s = request[r].session
      BY <3>1, <3>2 DEF AskedFor
    <3>3. QED
      BY <2>1, <3>1, <3>2
  <2>3. ASSUME NEW a \in Actors, LoadInstalls(a)
        PROVE  override'[s] = override[s]
    BY <2>3, InstallerHoldsLock
  <2>4. QED
    BY <2>1, <2>2, <2>3, LoadsGoForward DEF Expire
<1>11. QuietAfterClose'
  <2>1. CASE closed
    <3>1. \A a \in Actors : at[a] \in {"idle", "done"}
      BY <1>0, <2>1 DEF QuietAfterClose
    <3>2. at' = at \/ Close
      BY <2>1, <3>1 DEF Next, Starts, EnsureServed, EnsureStale, PartialBegins,
         WaitForLock, Begin, TakesTurn, ColdTurn, FullTurn, TaskTurn, Turn,
         CancelCall, Reads, LoadEnds, LoadInstalls, PartialOverrides, LoadFails,
         Expire, CoolOff, ErpChanges, vars
    <3>3. QED
      BY <2>1, <3>1, <3>2 DEF QuietAfterClose, Close
  <2>2. CASE ~closed /\ Close
    BY <2>2 DEF Close, QuietAfterClose
  <2>3. CASE ~closed /\ closed' = closed
    BY <2>3 DEF QuietAfterClose
  <2>4. QED
    BY <2>1, <2>2, <2>3 DEF Next, Starts, EnsureServed, EnsureStale, PartialBegins,
       WaitForLock, TakesTurn, ColdTurn, FullTurn, TaskTurn, StartsLoading,
       LeavesAtOnce, CancelCall, Reads, LoadEnds, LoadInstalls, PartialOverrides,
       LoadFails, Expire, CoolOff, ErpChanges, vars
<1>12. QED
  BY <1>1, <1>3, <1>7, <1>8, <1>9, <1>10, <1>11 DEF SharedInv

LEMMA SharedAlways == Spec => [](LoadInv /\ SharedInv)
BY LoadInvInit, LoadInvStep, SharedInvInit, SharedInvStep, PTL DEF Spec

\* However many conversations find no catalogue, one of them loads it; however
\* many find a stale one, one refresh runs (ensure, _start_background_refresh).
THEOREM OneLoadForAll == Spec => []LoadsAreShared
<1>1. ASSUME OneRefresh
      PROVE  Cardinality(Background) <= 1
  <2>1. CASE Background = {}
    BY <2>1, FS_EmptySet
  <2>2. CASE Background # {}
    <3>1. PICK r : r \in Background
      BY <2>2
    <3>2. Background = {r}
      BY <1>1, <3>1 DEF OneRefresh
    <3>3. QED
      BY <3>2, FS_Singleton
  <2>3. QED
    BY <2>1, <2>2
<1>2. SharedInv => LoadsAreShared
  BY <1>1 DEF SharedInv, ColdLoads, ColdLoaded, LoadsAreShared
<1>3. QED
  BY <1>2, SharedAlways, PTL

\* A list cut at a limit of its own is seen only by the conversation that asked
\* for that limit (sync_catalog_partial).
THEOREM ShortListsStayPrivate == Spec => []PartialStaysPrivate
<1>1. SharedInv => PartialStaysPrivate
  BY DEF SharedInv, CatalogIsShared, OverridesAreAskedFor, AskedFor,
         PartialStaysPrivate, View
<1>2. QED
  BY <1>1, SharedAlways, PTL

\* After close() no call and no task waits for or reads the ERP.
THEOREM NothingAfterClose == Spec => []QuietAfterClose
BY SharedAlways, PTL DEF SharedInv

\* A background refresh replaces only a catalogue whose TTL has run out, even if
\* an explicit synchronisation came first while it waited for the lock.
THEOREM TasksReplaceOnlyStale == Spec => BackgroundReplacesOnlyStale
<1>1. SharedInv /\ [Next]_vars =>
        [\A r \in Requests :
           at[Task(r)] = "loading" /\ catalog' # catalog /\ at'[Task(r)] = "done"
             => ~fresh]_vars
  BY DEF SharedInv, TasksFindStale
<1>2. QED
  BY <1>1, SharedAlways, PTL DEF Spec, BackgroundReplacesOnlyStale
=============================================================================
