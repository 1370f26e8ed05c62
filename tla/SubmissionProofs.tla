-------------------------- MODULE SubmissionProofs --------------------------
(***************************************************************************)
(* What is proved of Submission for any number of calls, previews and keys *)
(* and any caps.  NoDuplicateOrder, OnlyRefusedIsResent and the refinement  *)
(* of OrderLedger (SessionIsLedger) hold when every response body decodes; *)
(* all the rest holds however responses are decoded, and OnlyUndecoded-    *)
(* Repeats and DoubtIsNeverResent say what then is left of the first two.  *)
(* The ledger's rules by themselves keep its promise (PromiseKept).        *)
(***************************************************************************)
EXTENDS Submission, SequenceTheorems, FiniteSetTheorems, TLAPS

\* No two places of a list hold the same element.
Distinct(s) == \A i, j \in DOMAIN s : s[i] = s[j] => i = j

\* t is s with x behind it, but for its oldest element if that one was dropped.
Slid(t, s, x) ==
  \E o \in 0 .. 1 : \A i \in DOMAIN t :
    /\ i + o \in 1 .. Len(s) + 1
    /\ t[i] = IF i + o = Len(s) + 1 THEN x ELSE s[i + o]

\* What Trim leaves of a list that outgrew its cap by one appended element.
LEMMA TrimOfAppend ==
  ASSUME NEW S, NEW s \in Seq(S), NEW x \in S, NEW cap \in Nat \ {0},
         Len(s) <= cap
  PROVE  /\ Trim(Append(s, x), cap) \in Seq(S)
         /\ Len(Trim(Append(s, x), cap)) <= cap
         /\ ToSet(Trim(Append(s, x), cap)) \subseteq ToSet(s) \cup {x}
         /\ x \in ToSet(Trim(Append(s, x), cap))
         /\ x \notin ToSet(s) /\ Distinct(s)
              => Distinct(Trim(Append(s, x), cap))
         /\ Slid(Trim(Append(s, x), cap), s, x)
<1> DEFINE a == Append(s, x)
           t == Trim(a, cap)
<1>1. /\ a \in Seq(S)
      /\ Len(a) = Len(s) + 1
      /\ \A i \in 1 .. Len(s) : a[i] = s[i]
      /\ a[Len(s) + 1] = x
  BY AppendProperties
<1> HIDE DEF a
<1>2. CASE Len(a) > cap
  <2>1. t = Tail(a)
    BY <1>2 DEF Trim
  <2>2. /\ t \in Seq(S)
        /\ Len(t) = Len(s)
        /\ \A i \in 1 .. Len(s) : t[i] = a[i + 1]
    <3>1. a # <<>>
      BY <1>1, EmptySeq
    <3>2. Tail(a) \in Seq(S) /\ Len(Tail(a)) = Len(a) - 1
      BY <1>1, <3>1, HeadTailProperties
    <3>3. \A i \in 1 .. Len(Tail(a)) : Tail(a)[i] = a[i + 1]
      BY <1>1, <3>1, HeadTailProperties
    <3>4. QED
      BY <1>1, <2>1, <3>2, <3>3, LenProperties
  <2> HIDE DEF t
  <2>3. DOMAIN t = 1 .. Len(s) /\ DOMAIN s = 1 .. Len(s)
    BY <2>2, LenProperties
  <2>4. \A i \in 1 .. Len(s) : t[i] = x \/ (i + 1 \in 1 .. Len(s) /\ t[i] = s[i + 1])
    BY <1>1, <2>2
  <2>5. ToSet(t) \subseteq ToSet(s) \cup {x}
    BY <2>3, <2>4 DEF ToSet
  <2>6. x \notin ToSet(s) /\ Distinct(s) => Distinct(t)
    <3> SUFFICES ASSUME x \notin ToSet(s), Distinct(s),
                        NEW i \in 1 .. Len(s), NEW j \in 1 .. Len(s), t[i] = t[j]
                 PROVE  i = j
      BY <2>3 DEF Distinct
    <3>1. \A n \in 1 .. Len(s) : s[n] # x
      BY <2>3 DEF ToSet
    <3>2. t[Len(s)] = x
      BY <1>1, <2>2
    <3>3. \A n \in 1 .. Len(s) - 1 : t[n] = s[n + 1] /\ n + 1 \in 1 .. Len(s)
      BY <1>1, <2>2
    <3>4. QED
      BY <3>1, <3>2, <3>3, <2>3 DEF Distinct
  <2>7. Len(s) \in Nat /\ Len(s) > 0
    BY <1>1, <1>2, LenProperties
  <2>8. x \in ToSet(t)
    BY <1>1, <2>2, <2>3, <2>7 DEF ToSet
  <2>9. \A i \in DOMAIN t : /\ i + 1 \in 1 .. Len(s) + 1
                             /\ t[i] = IF i + 1 = Len(s) + 1 THEN x ELSE s[i + 1]
    BY <1>1, <2>2, <2>3, <2>7
  <2>10. QED
    <3>1. Slid(t, s, x)
      BY <2>9 DEF Slid
    <3>2. QED
      BY <1>2, <2>2, <2>5, <2>6, <2>8, <3>1, <1>1 DEF a, t
<1>3. CASE ~(Len(a) > cap)
  <2>1. t = a
    BY <1>3 DEF Trim
  <2>2. ToSet(a) \subseteq ToSet(s) \cup {x}
    BY <1>1 DEF ToSet
  <2>3. x \notin ToSet(s) /\ Distinct(s) => Distinct(a)
    BY <1>1 DEF ToSet, Distinct
  <2>4. Len(s) \in Nat /\ DOMAIN a = 1 .. Len(s) + 1
    BY <1>1, LenProperties
  <2>5. x \in ToSet(a)
    BY <1>1, <2>4 DEF ToSet
  <2>6. \A i \in DOMAIN a : /\ i + 0 \in 1 .. Len(s) + 1
                             /\ a[i] = IF i + 0 = Len(s) + 1 THEN x ELSE s[i + 0]
    BY <1>1, <2>4
  <2>7. QED
    <3>1. Slid(t, s, x)
      BY <2>1, <2>6 DEF Slid
    <3>2. QED
      BY <1>1, <1>3, <2>1, <2>2, <2>3, <2>5, <3>1 DEF a
<1>4. QED
  BY <1>2, <1>3

\* Removing an element from a list.
LEMMA WithoutProperties ==
  ASSUME NEW S, NEW s \in Seq(S), NEW e
  PROVE  /\ Without(s, e) \in Seq(S)
         /\ Len(Without(s, e)) <= Len(s)
         /\ ToSet(Without(s, e)) \subseteq ToSet(s)
         /\ ToSet(s) \ {e} \subseteq ToSet(Without(s, e))
         /\ Distinct(s) => /\ e \notin ToSet(Without(s, e))
                           /\ Distinct(Without(s, e))
<1> DEFINE t == Without(s, e)
<1>1. CASE \E i \in 1 .. Len(s) : s[i] = e
  <2> DEFINE I == {i \in 1 .. Len(s) : s[i] = e}
             k == CHOOSE i \in 1 .. Len(s) : s[i] = e
  <2>2. k \in I
    BY <1>1
  <2>3. t = SubSeq(s, 1, k - 1) \o SubSeq(s, k + 1, Len(s))
    BY <1>1 DEF Without, Contains, RemoveAt
  <2> HIDE DEF k
  <2>4. /\ SubSeq(s, 1, k - 1) \in Seq(S)
        /\ Len(SubSeq(s, 1, k - 1)) = k - 1
        /\ \A i \in 1 .. k - 1 : SubSeq(s, 1, k - 1)[i] = s[i]
    BY <2>2, SubSeqProperties, ElementOfSeq
  <2>5. /\ SubSeq(s, k + 1, Len(s)) \in Seq(S)
        /\ Len(SubSeq(s, k + 1, Len(s))) = Len(s) - k
        /\ \A i \in 1 .. Len(s) - k : SubSeq(s, k + 1, Len(s))[i] = s[k + i]
    BY <2>2, SubSeqProperties, ElementOfSeq
  <2>6. /\ t \in Seq(S)
        /\ Len(t) = Len(s) - 1
        /\ \A i \in 1 .. Len(s) - 1 : t[i] = IF i < k THEN s[i] ELSE s[i + 1]
    <3> DEFINE u == SubSeq(s, 1, k - 1)
               v == SubSeq(s, k + 1, Len(s))
    <3> HIDE DEF u, v, t
    <3>1. u \in Seq(S) /\ v \in Seq(S) /\ t = u \o v
      BY <2>3, <2>4, <2>5 DEF u, v
    <3>2. Len(u) = k - 1 /\ Len(v) = Len(s) - k
      BY <2>4, <2>5 DEF u, v
    <3>3. /\ t \in Seq(S)
          /\ Len(t) = Len(u) + Len(v)
          /\ \A i \in 1 .. Len(u) + Len(v) :
               t[i] = IF i <= Len(u) THEN u[i] ELSE v[i - Len(u)]
      BY <3>1, ConcatProperties
    <3>4. /\ \A i \in 1 .. k - 1 : u[i] = s[i]
          /\ \A i \in 1 .. Len(s) - k : v[i] = s[k + i]
      BY <2>4, <2>5 DEF u, v
    <3>5. k \in 1 .. Len(s) /\ Len(s) \in Nat
      BY <2>2
    <3>6. ASSUME NEW i \in 1 .. Len(s) - 1
          PROVE  t[i] = IF i < k THEN s[i] ELSE s[i + 1]
      <4>1. CASE i < k
        <5>1. i \in 1 .. Len(u) + Len(v) /\ i <= Len(u) /\ i \in 1 .. k - 1
          BY <4>1, <3>2, <3>5
        <5>2. t[i] = u[i] /\ u[i] = s[i]
          BY <5>1, <3>3, <3>4
        <5>3. QED
          BY <4>1, <5>2
      <4>2. CASE ~(i < k)
        <5>1. i - (k - 1) \in 1 .. Len(s) - k /\ k + (i - (k - 1)) = i + 1
          BY <4>2, <3>5
        <5>2. t[i] = v[i - (k - 1)]
          BY <4>2, <3>2, <3>3, <3>5
        <5>3. v[i - (k - 1)] = s[i + 1]
          BY <5>1, <3>4
        <5>4. QED
          BY <4>2, <5>2, <5>3
      <4>3. QED
        BY <4>1, <4>2
    <3>7. QED
      BY <3>2, <3>3, <3>5, <3>6
  <2> HIDE DEF t
  <2>7. DOMAIN t = 1 .. Len(s) - 1 /\ DOMAIN s = 1 .. Len(s)
    BY <2>6, LenProperties
  <2>8. \A i \in 1 .. Len(s) - 1 :
           \E j \in 1 .. Len(s) : j # k /\ t[i] = s[j]
    BY <2>2, <2>6
  <2>9. ToSet(t) \subseteq ToSet(s)
    BY <2>7, <2>8 DEF ToSet
  <2>10. Distinct(s) => e \notin ToSet(t)
    BY <2>2, <2>7, <2>8 DEF ToSet, Distinct
  <2>11. Distinct(s) => Distinct(t)
    <3> SUFFICES ASSUME Distinct(s), NEW i \in 1 .. Len(s) - 1,
                        NEW j \in 1 .. Len(s) - 1, t[i] = t[j]
                 PROVE  i = j
      BY <2>7 DEF Distinct
    <3> DEFINE at(n) == IF n < k THEN n ELSE n + 1
    <3>1. \A n \in 1 .. Len(s) - 1 : at(n) \in 1 .. Len(s) /\ t[n] = s[at(n)]
      BY <2>2, <2>6
    <3>2. at(i) = at(j)
      BY <3>1, <2>7 DEF Distinct
    <3>3. QED
      BY <2>2, <3>2
  <2>12. ToSet(s) \ {e} \subseteq ToSet(t)
    <3> SUFFICES ASSUME NEW j \in 1 .. Len(s), s[j] # e PROVE s[j] \in ToSet(t)
      BY <2>7 DEF ToSet
    <3>1. k \in 1 .. Len(s) /\ s[k] = e /\ Len(s) \in Nat
      BY <2>2
    <3>2. CASE j < k
      BY <3>1, <3>2, <2>6, <2>7 DEF ToSet
    <3>3. CASE j > k
      <4>1. j - 1 \in 1 .. Len(s) - 1 /\ t[j - 1] = s[j]
        BY <3>1, <3>3, <2>6
      <4>2. QED
        BY <4>1, <2>7 DEF ToSet
    <3>4. QED
      BY <3>1, <3>2, <3>3
  <2>13. QED
    BY <2>6, <2>9, <2>10, <2>11, <2>12 DEF t
<1>2. CASE ~\E i \in 1 .. Len(s) : s[i] = e
  BY <1>2 DEF Without, Contains, ToSet
<1>3. QED
  BY <1>1, <1>2
-----------------------------------------------------------------------------
(* Type correctness.                                                       *)

\* Remembering a result keeps the cache a bounded list of results.
LEMMA RememberType ==
  ASSUME TypeOK, NEW r \in Results, Remember(r)
  PROVE  results' \in Seq(Results) /\ Len(results') <= ResultCap
<1>1. CASE HasResult(r.key)
  <2>1. results' = [i \in 1 .. Len(results) |->
                      IF results[i].key = r.key THEN r ELSE results[i]]
    BY <1>1, LenProperties DEF Remember, TypeOK
  <2>2. \A i \in 1 .. Len(results) : results[i] \in Results
    BY ElementOfSeq DEF TypeOK
  <2>3. Len(results) \in Nat
    BY LenProperties DEF TypeOK
  <2>4. results' \in Seq(Results) /\ Len(results') = Len(results)
    BY <2>1, <2>2, <2>3, IsASeq
  <2>5. QED
    BY <2>4 DEF TypeOK
<1>2. CASE ~HasResult(r.key)
  BY <1>2, TrimOfAppend, SubmissionAssumption DEF Remember, TypeOK
<1>3. QED
  BY <1>1, <1>2

\* What remembering r does to the cache: r is there, every other entry is an
\* old one kept for another key, and no key gets two entries.
LEMMA RememberEffect ==
  ASSUME TypeOK, NEW r \in Results, Remember(r)
  PROVE  /\ \A i \in DOMAIN results' :
              \/ results'[i] = r
              \/ \E j \in DOMAIN results :
                   results'[i] = results[j] /\ results[j].key # r.key
         /\ KeysDistinct => KeysDistinct'
<1>1. CASE HasResult(r.key)
  <2>1. results' = [i \in DOMAIN results |->
                      IF results[i].key = r.key THEN r ELSE results[i]]
    BY <1>1 DEF Remember
  <2>2. \A i \in DOMAIN results : results'[i].key = results[i].key
    BY <2>1
  <2>3. QED
    BY <2>1, <2>2 DEF KeysDistinct
<1>2. CASE ~HasResult(r.key)
  <2>1. results' = Trim(Append(results, r), ResultCap)
    BY <1>2 DEF Remember
  <2>a. results \in Seq(Results) /\ Len(results) <= ResultCap /\ ResultCap \in Nat \ {0}
    BY SubmissionAssumption DEF TypeOK
  <2>b. Slid(results', results, r)
    BY <2>1, <2>a, TrimOfAppend
  <2>2. PICK o \in 0 .. 1 : \A i \in DOMAIN results' :
          /\ i + o \in 1 .. Len(results) + 1
          /\ results'[i] = IF i + o = Len(results) + 1 THEN r ELSE results[i + o]
    BY <2>b DEF Slid
  <2>3. /\ results' \in Seq(Results) /\ Len(results') \in Nat
        /\ DOMAIN results' = 1 .. Len(results')
    BY RememberType, LenProperties
  <2>4. DOMAIN results = 1 .. Len(results) /\ Len(results) \in Nat
    BY LenProperties DEF TypeOK
  <2>5. \A j \in DOMAIN results : results[j].key # r.key
    BY <1>2 DEF HasResult
  <2>6. ASSUME NEW i \in DOMAIN results'
        PROVE  \/ results'[i] = r
               \/ \E j \in DOMAIN results :
                    results'[i] = results[j] /\ results[j].key # r.key
    BY <2>2, <2>3, <2>4, <2>5
  <2>7. ASSUME KeysDistinct, NEW i \in DOMAIN results', NEW j \in DOMAIN results',
               results'[i].key = results'[j].key
        PROVE  i = j
    <3>1. i \in Int /\ j \in Int /\ o \in Int
      BY <2>3
    <3>2. CASE i + o = Len(results) + 1 /\ j + o = Len(results) + 1
      BY <3>1, <3>2, <2>4
    <3>3. CASE i + o # Len(results) + 1 /\ j + o # Len(results) + 1
      <4>1. /\ i + o \in DOMAIN results /\ j + o \in DOMAIN results
            /\ results[i + o].key = results[j + o].key
        BY <2>2, <2>4, <2>7, <3>3
      <4>2. i + o = j + o
        BY <4>1, <2>7 DEF KeysDistinct
      <4>3. i = (i + o) - o /\ j = (j + o) - o
        BY <3>1
      <4>4. QED
        BY <4>2, <4>3
    <3>4. CASE (i + o = Len(results) + 1) # (j + o = Len(results) + 1)
      <4>1. \E n \in DOMAIN results : results[n].key = r.key
        BY <2>2, <2>4, <2>7, <3>4
      <4>2. QED
        BY <4>1, <2>5
    <3>5. QED
      BY <3>2, <3>3, <3>4
  <2>8. QED
    BY <2>6, <2>7 DEF KeysDistinct
<1>3. QED
  BY <1>1, <1>2

\* A cached key is found with a result of the right type.
LEMMA ResultOfType ==
  ASSUME TypeOK, NEW k, HasResult(k)
  PROVE  ResultOf(k) \in Results
<1>1. PICK i \in DOMAIN results : results[i].key = k
  BY DEF HasResult
<1>2. \A j \in DOMAIN results : results[j] \in Results
  BY ElementOfSeq, LenProperties DEF TypeOK
<1>3. QED
  BY <1>1, <1>2 DEF ResultOf

\* A call that is under way has a request, and its parts have their types.
LEMMA AnswerTypes ==
  /\ \A kind \in ReplyKinds : Answer(kind) \in Replies
  /\ \A r \in Results, kind \in ReplyKinds : Success(kind, r) \in Replies
BY DEF Answer, Success, Replies, Results, Labels

\* The answers a call gives as soon as it has the lock, or when it gives up
\* waiting for it: it replays a kept result, or says why there is none.
AnswersAtOnce(c, answer) ==
  /\ pc[c] = "waiting"
  /\ AnswerInTurn(c, answer)
  /\ \/ /\ answer = Success("replay", ResultOf(request[c].key))
        /\ holder = Null
        /\ HasResult(request[c].key)
        /\ ResultOf(request[c].key).preview = request[c].preview
     \/ answer.kind \in {"invalid", "conflict", "unknown", "notFound", "refused",
                         "cancelled"}

LEMMA AnswersInTurn ==
  ASSUME NEW c \in Calls, TypeOK, ProgressInv,
         \/ RejectArguments(c) \/ Replay(c) \/ RejectConflict(c)
         \/ RejectUncertain(c) \/ RejectMissing(c) \/ CredentialMissing(c)
         \/ CancelWaiting(c)
  PROVE  \E answer \in Replies : AnswersAtOnce(c, answer)
<1> USE AnswerTypes DEF ReplyKinds, AnswersAtOnce
<1>1. CASE RejectArguments(c)
  BY <1>1 DEF RejectArguments, Turn, Answer
<1>2. CASE Replay(c)
  BY <1>2, ResultOfType DEF Replay, Turn, Cached
<1>3. CASE RejectConflict(c)
  BY <1>3 DEF RejectConflict, Turn, Answer
<1>4. CASE RejectUncertain(c)
  BY <1>4 DEF RejectUncertain, Turn, Answer
<1>5. CASE RejectMissing(c)
  BY <1>5 DEF RejectMissing, Turn, Answer
<1>6. CASE CredentialMissing(c)
  BY <1>6 DEF CredentialMissing, Turn, Answer
<1>7. CASE CancelWaiting(c)
  BY <1>7 DEF CancelWaiting, Answer
<1>8. QED
  BY <1>1, <1>2, <1>3, <1>4, <1>5, <1>6, <1>7

\* The ways a call that holds the lock ends, and what each does to the session.
EndsCreating(c, answer) ==
  /\ pc[c] = "creating"
  /\ Finish(c, answer)
  /\ UNCHANGED <<prepared, results>>
  /\ \/ /\ MarkUncertain(request[c].preview)
        /\ answer.kind \in {"unknown", "cancelled"}
     \/ /\ UNCHANGED uncertain
        /\ \/ answer.kind = "refused" /\ post[c] = "refused"
           \/ answer.kind = "escaped" /\ BodyMayNotDecode

EndsLookup(c, answer) ==
  /\ pc[c] = "lookup"
  /\ Finish(c, answer)
  /\ UNCHANGED <<prepared, uncertain>>
  /\ \/ \E label \in Labels : /\ Remember(ResultFor(c, label))
                              /\ answer = Success("ok", ResultFor(c, label))
     \/ /\ UNCHANGED results
        /\ \/ answer.kind = "cancelled"
           \/ answer.kind = "escaped" /\ BodyMayNotDecode

LEMMA ResultForType ==
  ASSUME NEW c \in Calls, ProgressInv, pc[c] # "idle", NEW label \in Labels
  PROVE  ResultFor(c, label) \in Results
BY DEF ResultFor, Results, ProgressInv, Requests

LEMMA EndsWithLock ==
  ASSUME NEW c \in Calls, TypeOK, ProgressInv,
         \/ CreateRefused(c) \/ CreateUnknown(c) \/ CreateEscapes(c)
         \/ LookupEnds(c) \/ CreateCancelled(c) \/ LookupCancelled(c)
  PROVE  \E answer \in Replies : EndsCreating(c, answer) \/ EndsLookup(c, answer)
<1> USE AnswerTypes DEF ReplyKinds, EndsCreating, EndsLookup
<1>1. CASE CreateRefused(c)
  BY <1>1 DEF CreateRefused, Answer
<1>2. CASE CreateUnknown(c)
  BY <1>2 DEF CreateUnknown, Answer
<1>3. CASE CreateEscapes(c)
  BY <1>3 DEF CreateEscapes, Answer
<1>4. CASE \E label \in Labels : LookupAnswers(c, label)
  BY <1>4, ResultForType DEF LookupAnswers
<1>5. CASE LookupEscapes(c)
  BY <1>5 DEF LookupEscapes, Answer
<1>6. CASE CreateCancelled(c)
  BY <1>6 DEF CreateCancelled, Answer
<1>7. CASE LookupCancelled(c)
  BY <1>7 DEF LookupCancelled, Answer
<1>8. QED
  BY <1>1, <1>2, <1>3, <1>4, <1>5, <1>6, <1>7 DEF LookupEnds

\* Every step, as the invariant proofs need to tell it apart from the others.
LEMMA Steps ==
  ASSUME TypeOK, ProgressInv, [Next]_vars
  PROVE  \/ \E p \in Previews : StorePreview(p)
         \/ \E c \in Calls, r \in Requests : Submit(c, r)
         \/ \E c \in Calls, answer \in Replies : AnswersAtOnce(c, answer)
         \/ \E c \in Calls : SendCreate(c)
         \/ \E c \in Calls : CreateSucceeds(c)
         \/ \E c \in Calls, answer \in Replies :
              EndsCreating(c, answer) \/ EndsLookup(c, answer)
         \/ \E c \in Calls, fate \in {"created", "refused", "lost"} :
              ErpSettles(c, fate)
         \/ Restart
         \/ UNCHANGED vars
<1>1. ASSUME NEW c \in Calls, TakeTurn(c) \/ CancelWaiting(c)
      PROVE  \/ SendCreate(c)
             \/ \E answer \in Replies : AnswersAtOnce(c, answer)
  BY <1>1, AnswersInTurn DEF TakeTurn
<1>2. ASSUME NEW c \in Calls,
             CreateEnds(c) \/ LookupEnds(c) \/ CreateCancelled(c) \/ LookupCancelled(c)
      PROVE  \/ CreateSucceeds(c)
             \/ \E answer \in Replies : EndsCreating(c, answer) \/ EndsLookup(c, answer)
  BY <1>2, EndsWithLock DEF CreateEnds
<1>3. ASSUME NEW c \in Calls, Erp(c)
      PROVE  \E fate \in {"created", "refused", "lost"} : ErpSettles(c, fate)
  BY <1>3 DEF Erp, ErpCreates, ErpRefuses, RequestLost
<1>4. QED
  BY <1>1, <1>2, <1>3 DEF Next, Cancel

-----------------------------------------------------------------------------
(* The part of the invariant that needs no assumption on response bodies.  *)

BookInv == TypeOK /\ LockInv /\ ProgressInv /\ PreparedInv

\* What the session's helpers do to the two preview sets.
LEMMA StoreEffect ==
  ASSUME TypeOK, PreparedInv, NEW p \in Previews, p \notin issued, StorePrepared(p)
  PROVE  /\ prepared' \in Seq(Previews) /\ Len(prepared') <= PreviewCap
         /\ ToSet(prepared') \subseteq ToSet(prepared) \cup {p}
         /\ Distinct(prepared')
         /\ uncertain' \subseteq uncertain
         /\ uncertain \cap ToSet(prepared') \subseteq uncertain'
         /\ p \in ToSet(prepared')
         /\ uncertain \subseteq ToSet(prepared) => uncertain' \subseteq ToSet(prepared')
<1>1. p \notin ToSet(prepared) /\ Distinct(prepared)
  BY DEF PreparedInv, Distinct
<1>2. ToSet(prepared) \subseteq ToSet(Append(prepared, p))
  <2> DEFINE a == Append(prepared, p)
  <2>1. prepared \in Seq(Previews)
    BY DEF TypeOK
  <2>2. /\ a \in Seq(Previews) /\ Len(a) = Len(prepared) + 1
        /\ \A i \in 1 .. Len(prepared) : a[i] = prepared[i]
    BY <2>1, AppendProperties
  <2> HIDE DEF a
  <2>3. /\ DOMAIN a = 1 .. Len(prepared) + 1
        /\ DOMAIN prepared = 1 .. Len(prepared) /\ Len(prepared) \in Nat
    BY <2>1, <2>2, LenProperties
  <2>4. ToSet(prepared) \subseteq ToSet(a)
    BY <2>2, <2>3 DEF ToSet
  <2>5. QED
    BY <2>4 DEF a
<1>3. QED
  BY <1>1, <1>2, TrimOfAppend, SubmissionAssumption DEF StorePrepared, TypeOK

LEMMA ConsumeEffect ==
  ASSUME TypeOK, PreparedInv, NEW p, Consume(p)
  PROVE  /\ prepared' \in Seq(Previews) /\ Len(prepared') <= PreviewCap
         /\ ToSet(prepared') = ToSet(prepared) \ {p}
         /\ Distinct(prepared')
         /\ uncertain' = uncertain \ {p}
<1>1. Distinct(prepared)
  BY DEF PreparedInv, Distinct
<1>2. Len(prepared) \in Nat /\ PreviewCap \in Nat /\ Len(prepared') \in Nat
  BY WithoutProperties, LenProperties, SubmissionAssumption DEF TypeOK, Consume
<1>3. QED
  BY <1>1, <1>2, WithoutProperties DEF Consume, TypeOK

LEMMA MarkEffect ==
  ASSUME TypeOK, NEW p, MarkUncertain(p)
  PROVE  /\ uncertain \subseteq uncertain'
         /\ p \in ToSet(prepared) => p \in uncertain'
         /\ uncertain' \subseteq uncertain \cup (ToSet(prepared) \cap {p})
BY LenProperties DEF MarkUncertain, Contains, ToSet, TypeOK

LEMMA BookInit == Init => BookInv
<1> SUFFICES ASSUME Init PROVE BookInv
  OBVIOUS
<1>1. TypeOK
  BY SubmissionAssumption, EmptySeq, AnswerTypes
     DEF Init, TypeOK, PostStates, ReplyKinds
<1>2. LockInv
  BY SubmissionAssumption DEF Init, LockInv
<1>3. ProgressInv
  BY DEF Init, ProgressInv
<1>4. PreparedInv
  BY DEF Init, PreparedInv, ToSet
<1>5. QED
  BY <1>1, <1>2, <1>3, <1>4 DEF BookInv

LEMMA BookStep == BookInv /\ [Next]_vars => BookInv'
<1> SUFFICES ASSUME BookInv, [Next]_vars PROVE BookInv'
  OBVIOUS
<1> USE DEF BookInv
<1>1. ASSUME NEW p \in Previews, StorePreview(p)
      PROVE  BookInv'
  <2> USE <1>1, StoreEffect DEF StorePreview, lock
  <2>1. TypeOK'
    BY DEF TypeOK
  <2>2. LockInv'
    BY DEF LockInv
  <2>3. ProgressInv'
    BY DEF ProgressInv
  <2>4. PreparedInv'
    BY DEF PreparedInv, Distinct
  <2>5. QED
    BY <2>1, <2>2, <2>3, <2>4
<1>2. ASSUME NEW c \in Calls, NEW r \in Requests, Submit(c, r)
      PROVE  BookInv'
  <2> USE <1>2 DEF Submit, session
  <2>1. TypeOK'
    BY AppendProperties DEF TypeOK
  <2>2. LockInv'
    BY DEF LockInv, TypeOK
  <2>3. ProgressInv'
    BY DEF ProgressInv, TypeOK
  <2>4. PreparedInv'
    BY DEF PreparedInv
  <2>5. QED
    BY <2>1, <2>2, <2>3, <2>4
<1>3. ASSUME NEW c \in Calls, NEW answer \in Replies, AnswersAtOnce(c, answer)
      PROVE  BookInv'
  <2> USE <1>3 DEF AnswersAtOnce, AnswerInTurn, session
  <2>1. TypeOK'
    BY WithoutProperties DEF TypeOK
  <2>2. LockInv'
    BY DEF LockInv, TypeOK
  <2>3. ProgressInv'
    BY DEF ProgressInv, TypeOK
  <2>4. PreparedInv'
    BY DEF PreparedInv
  <2>5. QED
    BY <2>1, <2>2, <2>3, <2>4
<1>4. ASSUME NEW c \in Calls, SendCreate(c)
      PROVE  BookInv'
  <2> USE <1>4 DEF SendCreate, Turn, session
  <2>1. TypeOK'
    BY WithoutProperties DEF TypeOK, PostStates
  <2>2. LockInv'
    BY SubmissionAssumption DEF LockInv, TypeOK
  <2>3. request[c].preview \in issued
    BY DEF RequirePrepared, Contains, PreparedInv, ToSet, TypeOK
  <2>4. ProgressInv'
    BY <2>3 DEF ProgressInv, TypeOK
  <2>5. PreparedInv'
    BY DEF PreparedInv
  <2>6. QED
    BY <2>1, <2>2, <2>4, <2>5
<1>5. ASSUME NEW c \in Calls, CreateSucceeds(c)
      PROVE  BookInv'
  <2> USE <1>5, ConsumeEffect DEF CreateSucceeds, lock
  <2>1. results' \in Seq(Results) /\ Len(results') <= ResultCap
    BY ResultForType, RememberType DEF Labels
  <2>2. TypeOK'
    BY <2>1 DEF TypeOK
  <2>3. LockInv'
    BY DEF LockInv, TypeOK
  <2>4. ProgressInv'
    BY DEF ProgressInv, TypeOK
  <2>5. PreparedInv'
    BY DEF PreparedInv, Distinct
  <2>6. QED
    BY <2>2, <2>3, <2>4, <2>5
<1>6. ASSUME NEW c \in Calls, NEW answer \in Replies,
             EndsCreating(c, answer) \/ EndsLookup(c, answer)
      PROVE  BookInv'
  <2>1. /\ pc[c] \in {"creating", "lookup"}
        /\ Finish(c, answer)
        /\ UNCHANGED prepared
    BY <1>6 DEF EndsCreating, EndsLookup
  <2>2. results' \in Seq(Results) /\ Len(results') <= ResultCap
    BY <1>6, <2>1, ResultForType, RememberType DEF EndsCreating, EndsLookup, TypeOK
  <2>3. uncertain' \subseteq Previews
    <3>1. ToSet(prepared) \subseteq Previews
      BY DEF PreparedInv, TypeOK
    <3>2. QED
      BY <1>6, <3>1, MarkEffect DEF EndsCreating, EndsLookup, TypeOK
  <2>4. TypeOK'
    BY <2>1, <2>2, <2>3 DEF TypeOK, Finish
  <2>5. LockInv'
    BY <2>1, SubmissionAssumption DEF LockInv, TypeOK, Finish
  <2>6. ProgressInv'
    BY <2>1 DEF ProgressInv, TypeOK, Finish
  <2>7. PreparedInv'
    BY <2>1 DEF PreparedInv, Finish
  <2>8. QED
    BY <2>4, <2>5, <2>6, <2>7
<1>7. ASSUME NEW c \in Calls, NEW fate \in {"created", "refused", "lost"},
             ErpSettles(c, fate)
      PROVE  BookInv'
  <2> USE <1>7 DEF ErpSettles, session, lock
  <2>1. TypeOK'
    BY DEF TypeOK, PostStates
  <2>2. LockInv'
    BY DEF LockInv
  <2>3. ProgressInv'
    BY DEF ProgressInv, TypeOK
  <2>4. PreparedInv'
    BY DEF PreparedInv
  <2>5. QED
    BY <2>1, <2>2, <2>3, <2>4
<1>8. ASSUME Restart
      PROVE  BookInv'
  <2> USE <1>8 DEF Restart
  <2>1. TypeOK'
    BY EmptySeq, AnswerTypes, SubmissionAssumption DEF TypeOK, ReplyKinds
  <2>2. LockInv'
    BY SubmissionAssumption DEF LockInv, TypeOK
  <2>3. ProgressInv'
    BY DEF ProgressInv, TypeOK
  <2>4. PreparedInv'
    BY DEF PreparedInv, ToSet
  <2>5. QED
    BY <2>1, <2>2, <2>3, <2>4
<1>9. CASE UNCHANGED vars
  BY <1>9 DEF vars, TypeOK, LockInv, ProgressInv, PreparedInv
<1>10. QED
  BY <1>1, <1>2, <1>3, <1>4, <1>5, <1>6, <1>7, <1>8, <1>9, Steps

\* Every variable keeps its type: the lists stay within their caps whatever
\* the interleaving of previews, submissions, cancellations and restarts.
THEOREM TypeCorrect == Spec => []TypeOK
<1>1. Spec => []BookInv
  BY BookInit, BookStep, PTL DEF Spec
<1>2. BookInv => TypeOK
  BY DEF BookInv
<1>3. QED
  BY <1>1, <1>2, PTL

-----------------------------------------------------------------------------
(* The answers, whether or not response bodies decode.                     *)

\* Nothing a call has reached is undone: an order stays, an answer stays, a
\* request stays, and a preview that was given up never comes back.
LEMMA OnlyForward ==
  ASSUME BookInv, [Next]_vars
  PROVE  /\ \A c \in Calls : post[c] = "created" => post'[c] = "created"
         /\ \A c \in Calls : pc[c] = "lookup" => pc'[c] \in {"lookup", "done"}
         /\ \A c \in Calls : pc[c] = "done" => pc'[c] = "done" /\ reply'[c] = reply[c]
         /\ \A c \in Calls : pc[c] # "idle" => request'[c] = request[c]
         /\ \A q \in issued : q \in ToSet(prepared') => q \in ToSet(prepared)
<1> USE DEF BookInv
<1>1. ASSUME NEW p \in Previews, StorePreview(p)
      PROVE  \A q \in issued : q \in ToSet(prepared') => q \in ToSet(prepared)
  BY <1>1, StoreEffect DEF StorePreview
<1>2. CASE \E p \in Previews : StorePreview(p)
  BY <1>1, <1>2 DEF StorePreview, lock
<1>3. CASE \E c \in Calls, r \in Requests : Submit(c, r)
  BY <1>3 DEF Submit, session, TypeOK
<1>4. CASE \E c \in Calls, answer \in Replies : AnswersAtOnce(c, answer)
  BY <1>4 DEF AnswersAtOnce, AnswerInTurn, session, TypeOK
<1>5. CASE \E c \in Calls : SendCreate(c)
  BY <1>5 DEF SendCreate, Turn, session, TypeOK, ProgressInv
<1>6. CASE \E c \in Calls : CreateSucceeds(c)
  BY <1>6, ConsumeEffect DEF CreateSucceeds, lock, TypeOK
<1>7. CASE \E c \in Calls, answer \in Replies :
             EndsCreating(c, answer) \/ EndsLookup(c, answer)
  BY <1>7 DEF EndsCreating, EndsLookup, Finish, TypeOK
<1>8. CASE \E c \in Calls, fate \in {"created", "refused", "lost"} : ErpSettles(c, fate)
  BY <1>8 DEF ErpSettles, session, lock, TypeOK
<1>9. CASE Restart
  BY <1>9 DEF Restart, ToSet
<1>10. CASE UNCHANGED vars
  BY <1>10 DEF vars
<1>11. QED
  BY <1>2, <1>3, <1>4, <1>5, <1>6, <1>7, <1>8, <1>9, <1>10, Steps

LEMMA StoryInit == Init => StoryInv
<1> SUFFICES ASSUME Init PROVE StoryInv
  OBVIOUS
<1>1. AnswerInv
  BY DEF Init, AnswerInv, Answer
<1>2. ResultInv
  BY DEF Init, ResultInv, KeysDistinct
<1>3. ReplayInv
  BY DEF Init, ReplayInv, Answer
<1>4. QED
  BY <1>1, <1>2, <1>3 DEF StoryInv

LEMMA AnswerStep ==
  ASSUME BookInv, AnswerInv, [Next]_vars
  PROVE  AnswerInv'
<1> USE DEF BookInv
<1>1. ASSUME NEW p \in Previews, StorePreview(p)
      PROVE  AnswerInv'
  <2>1. \A q \in issued : q \in ToSet(prepared') => q \in ToSet(prepared)
    BY OnlyForward
  <2>2. \A c \in Calls : post[c] = "created" => request[c].preview \in issued
    BY DEF ProgressInv
  <2>3. QED
    BY <1>1, <2>1, <2>2 DEF StorePreview, lock, AnswerInv
<1>2. ASSUME NEW c \in Calls, NEW r \in Requests, Submit(c, r)
      PROVE  AnswerInv'
  BY <1>2 DEF Submit, session, AnswerInv, TypeOK
<1>3. ASSUME NEW c \in Calls, NEW answer \in Replies, AnswersAtOnce(c, answer)
      PROVE  AnswerInv'
  <2>1. post[c] = "unsent"
    BY <1>3 DEF AnswersAtOnce, ProgressInv
  <2>2. answer.kind \notin {"ok", "escaped"}
    BY <1>3 DEF AnswersAtOnce, Success
  <2>3. QED
    BY <1>3, <2>1, <2>2 DEF AnswersAtOnce, AnswerInTurn, session, AnswerInv, TypeOK
<1>4. ASSUME NEW c \in Calls, SendCreate(c)
      PROVE  AnswerInv'
  BY <1>4 DEF SendCreate, Turn, session, AnswerInv, TypeOK
<1>5. ASSUME NEW c \in Calls, CreateSucceeds(c)
      PROVE  AnswerInv'
  <2>1. ToSet(prepared') = ToSet(prepared) \ {request[c].preview}
    BY <1>5, ConsumeEffect DEF CreateSucceeds
  <2>2. QED
    BY <1>5, <2>1 DEF CreateSucceeds, lock, AnswerInv, TypeOK
<1>6. ASSUME NEW c \in Calls, NEW answer \in Replies,
             EndsCreating(c, answer) \/ EndsLookup(c, answer)
      PROVE  AnswerInv'
  <2>1. /\ pc' = [pc EXCEPT ![c] = "done"] /\ reply' = [reply EXCEPT ![c] = answer]
        /\ UNCHANGED <<request, post, prepared>>
    BY <1>6 DEF EndsCreating, EndsLookup, Finish
  <2>2. answer.kind \in {"ok", "refused", "unknown", "cancelled", "escaped"}
    BY <1>6 DEF EndsCreating, EndsLookup, Success
  <2>3. answer.kind = "ok" => answer.order = c /\ post[c] = "created"
    <3>1. pc[c] = "lookup" => post[c] = "created"
      BY DEF AnswerInv
    <3>2. CASE EndsCreating(c, answer)
      BY <3>2 DEF EndsCreating
    <3>3. CASE EndsLookup(c, answer)
      <4>1. pc[c] = "lookup"
        BY <3>3 DEF EndsLookup
      <4>2. CASE \E label \in Labels : answer = Success("ok", ResultFor(c, label))
        BY <3>1, <4>1, <4>2 DEF Success, ResultFor
      <4>3. CASE answer.kind # "ok"
        BY <4>3
      <4>4. QED
        BY <3>3, <4>2, <4>3 DEF EndsLookup
    <3>4. QED
      BY <1>6, <3>2, <3>3
  <2>4. answer.kind = "refused" => post[c] = "refused"
    BY <1>6 DEF EndsCreating, EndsLookup, Success
  <2>5. answer.kind = "escaped" => BodyMayNotDecode
    BY <1>6 DEF EndsCreating, EndsLookup, Success
  <2>6. QED
    BY <2>1, <2>2, <2>3, <2>4, <2>5 DEF AnswerInv, TypeOK
<1>7. ASSUME NEW c \in Calls, NEW fate \in {"created", "refused", "lost"},
             ErpSettles(c, fate)
      PROVE  AnswerInv'
  BY <1>7 DEF ErpSettles, session, lock, AnswerInv, TypeOK
<1>8. ASSUME Restart
      PROVE  AnswerInv'
  BY <1>8 DEF Restart, AnswerInv, TypeOK, Answer, ProgressInv
<1>9. CASE UNCHANGED vars
  BY <1>9 DEF vars, AnswerInv
<1>10. QED
  BY <1>1, <1>2, <1>3, <1>4, <1>5, <1>6, <1>7, <1>8, <1>9, Steps

\* A kept result stays faithful as long as its call does not answer something
\* else than it says.
LEMMA FaithfulKept ==
  ASSUME BookInv, [Next]_vars, NEW r \in Results, Faithful(r),
         reply'[r.order].kind = "ok" /\ pc[r.order] # "done"
           => reply'[r.order].label = r.label
  PROVE  (Faithful(r))'
<1>1. r.order \in Calls
  BY DEF Results
<1>2. r.preview \in issued
  BY <1>1 DEF Faithful, BookInv, ProgressInv
<1>3. /\ post'[r.order] = "created"
      /\ pc'[r.order] \in {"lookup", "done"}
      /\ request'[r.order] = request[r.order]
      /\ r.preview \notin ToSet(prepared')
      /\ pc[r.order] = "done" => reply'[r.order] = reply[r.order]
  BY <1>1, <1>2, OnlyForward DEF Faithful
<1>4. QED
  BY <1>3 DEF Faithful

\* The result a call leaves behind when its order id, or its number, arrives.
LEMMA ResultForFaithful ==
  ASSUME NEW c \in Calls, NEW label \in Labels, NEW r, r = ResultFor(c, label),
         post'[c] = "created", pc'[c] \in {"lookup", "done"},
         request'[c] = request[c],
         request[c].preview \notin ToSet(prepared'),
         reply'[c].kind = "ok" => reply'[c].label = label
  PROVE  (Faithful(r))'
BY DEF Faithful, ResultFor

LEMMA ResultStep ==
  ASSUME BookInv, AnswerInv, ResultInv, [Next]_vars
  PROVE  ResultInv'
<1>1. TypeOK /\ ProgressInv /\ KeysDistinct
  BY DEF BookInv, ResultInv
<1>2. \A i \in DOMAIN results : results[i] \in Results /\ Faithful(results[i])
  BY <1>1, ElementOfSeq, LenProperties DEF ResultInv, TypeOK
<1>3. ASSUME UNCHANGED results,
             \A c \in Calls : pc[c] # "done" => reply'[c].kind # "ok"
      PROVE  ResultInv'
  <2>1. \A i \in DOMAIN results : results[i].order \in Calls
    BY <1>2 DEF Results
  <2>2. ASSUME NEW i \in DOMAIN results
        PROVE  (Faithful(results[i]))'
    <3>1. \E r \in Results : r = results[i]
      BY <1>2
    <3>2. PICK r \in Results : r = results[i]
      BY <3>1
    <3>3. Faithful(r) /\ (reply'[r.order].kind = "ok" => pc[r.order] = "done")
      BY <1>2, <1>3, <2>1, <3>2
    <3>4. (Faithful(r))'
      BY <3>3, FaithfulKept
    <3>5. QED
      BY <1>3, <3>2, <3>4
  <2>3. QED
    BY <1>1, <1>3, <2>2 DEF ResultInv, KeysDistinct
<1>4. ASSUME NEW c \in Calls, NEW label \in Labels, Remember(ResultFor(c, label)),
             pc[c] \in {"creating", "lookup"}, post[c] = "created",
             pc'[c] \in {"lookup", "done"},
             request[c].preview \notin ToSet(prepared'),
             reply'[c].kind = "ok" => reply'[c].label = label,
             \A d \in Calls : d # c => reply'[d] = reply[d]
      PROVE  ResultInv'
  <2>0. ResultFor(c, label) \in Results
    BY <1>1, <1>4, ResultForType
  <2>r. PICK r \in Results : r = ResultFor(c, label)
    BY <2>0
  <2>1. r \in Results /\ r.key = request[c].key
    BY <2>r DEF ResultFor
  <2>2. (Faithful(r))'
    BY <1>4, <2>r, ResultForFaithful, OnlyForward
  <2>3. Remember(r)
    BY <1>4, <2>r
  <2>4. /\ \A i \in DOMAIN results' :
              \/ results'[i] = r
              \/ \E j \in DOMAIN results :
                   results'[i] = results[j] /\ results[j].key # r.key
        /\ KeysDistinct'
    BY <1>1, <2>1, <2>3, RememberEffect
  <2>5. ASSUME NEW j \in DOMAIN results, results[j].key # r.key, NEW q, q = results[j]
        PROVE  (Faithful(q))'
    <3>1. q \in Results /\ Faithful(q) /\ q.order \in Calls
      BY <1>2, <2>5 DEF Results
    \* Two results of one call would be kept for one key.
    <3>2. q.order # c
      BY <2>1, <2>5, <3>1 DEF Faithful
    <3>3. pc[q.order] # "done" => reply'[q.order].kind = "none"
      BY <1>4, <3>1, <3>2 DEF AnswerInv
    <3>4. QED
      BY <3>1, <3>3, FaithfulKept
  <2>6. ASSUME NEW i \in DOMAIN results'
        PROVE  (Faithful(results[i]))'
    <3>1. CASE results'[i] = r
      BY <2>2, <3>1
    <3>2. CASE \E j \in DOMAIN results :
                 results'[i] = results[j] /\ results[j].key # r.key
      <4>1. PICK j \in DOMAIN results :
                   results'[i] = results[j] /\ results[j].key # r.key
        BY <3>2
      <4>2. \A q : q = results[j] => (Faithful(q))'
        BY <4>1, <2>5
      <4>3. PICK q : q = results[j]
        OBVIOUS
      <4>4. (Faithful(q))' /\ results'[i] = q
        BY <4>1, <4>2, <4>3
      <4>5. QED
        BY <4>4
    <3>3. QED
      BY <2>4, <3>1, <3>2
  <2>7. QED
    BY <2>4, <2>6 DEF ResultInv
<1>5. CASE \E p \in Previews : StorePreview(p)
  BY <1>3, <1>5 DEF StorePreview, AnswerInv
<1>6. CASE \E c \in Calls, q \in Requests : Submit(c, q)
  BY <1>3, <1>6 DEF Submit, session, AnswerInv
<1>7. CASE \E c \in Calls, answer \in Replies : AnswersAtOnce(c, answer)
  <2>1. PICK c \in Calls, answer \in Replies : AnswersAtOnce(c, answer)
    BY <1>7
  <2>2. answer.kind # "ok"
    BY <2>1 DEF AnswersAtOnce, Success
  <2>3. QED
    BY <1>1, <1>3, <2>1, <2>2
       DEF AnswersAtOnce, AnswerInTurn, session, AnswerInv, TypeOK
<1>8. CASE \E c \in Calls : SendCreate(c)
  BY <1>3, <1>8 DEF SendCreate, session, AnswerInv
<1>9. CASE \E c \in Calls : CreateSucceeds(c)
  <2>1. PICK c \in Calls : CreateSucceeds(c)
    BY <1>9
  <2>2. /\ pc[c] = "creating" /\ post[c] = "created" /\ reply' = reply
        /\ Remember(ResultFor(c, "id")) /\ pc'[c] = "lookup" /\ "id" \in Labels
    BY <1>1, <2>1 DEF CreateSucceeds, TypeOK, Labels
  <2>3. request[c].preview \notin ToSet(prepared')
    BY <1>1, <2>1, ConsumeEffect DEF CreateSucceeds, BookInv
  <2>4. reply'[c].kind = "none"
    BY <2>2 DEF AnswerInv
  <2>5. QED
    BY <1>4, <2>2, <2>3, <2>4
<1>10. CASE \E c \in Calls, answer \in Replies :
              EndsCreating(c, answer) \/ EndsLookup(c, answer)
  <2>1. PICK c \in Calls, answer \in Replies :
               EndsCreating(c, answer) \/ EndsLookup(c, answer)
    BY <1>10
  <2>2. /\ pc[c] \in {"creating", "lookup"}
        /\ reply' = [reply EXCEPT ![c] = answer] /\ pc'[c] = "done"
        /\ UNCHANGED prepared
    BY <1>1, <2>1 DEF EndsCreating, EndsLookup, Finish, TypeOK
  <2>3. CASE UNCHANGED results /\ answer.kind # "ok"
    BY <1>1, <1>3, <2>2, <2>3 DEF AnswerInv, TypeOK
  <2>4. CASE /\ pc[c] = "lookup"
             /\ \E label \in Labels : /\ Remember(ResultFor(c, label))
                                      /\ answer = Success("ok", ResultFor(c, label))
    <3>1. PICK label \in Labels : /\ Remember(ResultFor(c, label))
                                  /\ answer = Success("ok", ResultFor(c, label))
      BY <2>4
    <3>2. post[c] = "created" /\ request[c].preview \notin ToSet(prepared')
      BY <2>2, <2>4 DEF AnswerInv
    <3>3. answer.label = label
      BY <3>1 DEF Success, ResultFor
    <3>4. reply'[c].label = label /\ \A d \in Calls : d # c => reply'[d] = reply[d]
      BY <1>1, <2>2, <3>3 DEF TypeOK
    <3>5. QED
      BY <1>4, <2>2, <3>1, <3>2, <3>4
  <2>5. QED
    BY <2>1, <2>3, <2>4 DEF EndsCreating, EndsLookup
<1>11. CASE \E c \in Calls, fate \in {"created", "refused", "lost"} : ErpSettles(c, fate)
  BY <1>3, <1>11 DEF ErpSettles, session, AnswerInv
<1>12. CASE Restart
  BY <1>12 DEF Restart, ResultInv, KeysDistinct
<1>13. CASE UNCHANGED vars
  BY <1>3, <1>13 DEF vars, AnswerInv
<1>14. QED
  BY <1>1, <1>5, <1>6, <1>7, <1>8, <1>9, <1>10, <1>11, <1>12, <1>13, Steps

LEMMA ReplayStep ==
  ASSUME BookInv, AnswerInv, ResultInv, ReplayInv, [Next]_vars
  PROVE  ReplayInv'
<1>1. TypeOK /\ ProgressInv /\ LockInv
  BY DEF BookInv
\* A replay given earlier keeps what it says.
<1>2. ASSUME NEW c \in Calls, reply'[c] = reply[c], reply[c].kind = "replay"
      PROVE  \A d : d = reply'[c].order =>
               /\ d \in Orders' /\ pc'[d] = "done" /\ SamePreview(d, c)'
               /\ reply'[d].kind = "ok" => reply'[c].label = reply'[d].label
  <2> SUFFICES ASSUME NEW d, d = reply'[c].order
               PROVE  /\ d \in Orders' /\ pc'[d] = "done" /\ SamePreview(d, c)'
                      /\ reply'[d].kind = "ok" => reply'[c].label = reply'[d].label
    OBVIOUS
  <2>1. d = reply[c].order
    BY <1>2
  <2>2. /\ d \in Orders /\ pc[d] = "done" /\ SamePreview(d, c)
        /\ reply[d].kind = "ok" => reply[c].label = reply[d].label
    BY <1>2, <2>1 DEF ReplayInv
  <2>3. d \in Calls /\ pc[c] = "done"
    BY <1>2, <2>2 DEF Orders, AnswerInv
  <2>4. /\ post'[d] = "created" /\ pc'[d] = "done" /\ reply'[d] = reply[d]
        /\ request'[d] = request[d] /\ request'[c] = request[c]
    BY <2>2, <2>3, OnlyForward DEF Orders
  <2>5. QED
    BY <1>2, <2>2, <2>3, <2>4 DEF Orders, SamePreview
<1>3. ASSUME \A c \in Calls : reply'[c] = reply[c] \/ reply'[c].kind # "replay"
      PROVE  ReplayInv'
  BY <1>2, <1>3 DEF ReplayInv
<1>4. CASE \E c \in Calls, answer \in Replies : AnswersAtOnce(c, answer)
  <2>1. PICK c \in Calls, answer \in Replies : AnswersAtOnce(c, answer)
    BY <1>4
  <2>2. /\ reply' = [reply EXCEPT ![c] = answer]
        /\ UNCHANGED <<request, post>> /\ pc' = [pc EXCEPT ![c] = "done"]
        /\ pc[c] = "waiting"
    BY <2>1 DEF AnswersAtOnce, AnswerInTurn
  <2>3. CASE answer.kind # "replay"
    BY <1>1, <1>3, <2>2, <2>3 DEF TypeOK
  <2>4. CASE answer.kind = "replay"
    <3>1. /\ answer = Success("replay", ResultOf(request[c].key)) /\ holder = Null
          /\ HasResult(request[c].key)
          /\ ResultOf(request[c].key).preview = request[c].preview
      BY <2>1, <2>4 DEF AnswersAtOnce
    <3>2. PICK i \in DOMAIN results : ResultOf(request[c].key) = results[i]
      BY <3>1 DEF HasResult, ResultOf
    <3>3. PICK r \in Results : r = results[i]
      BY <1>1, <3>1, <3>2, ResultOfType
    <3>4. Faithful(r)
      BY <3>3 DEF ResultInv
    <3>5. r.order \in Calls /\ answer.order = r.order /\ answer.label = r.label
          /\ r.preview = request[c].preview
      BY <3>1, <3>2, <3>3 DEF Results, Success
    \* Nobody is looking a number up while the lock is free.
    <3>6. pc[r.order] = "done" /\ r.order # c
      BY <1>1, <2>2, <3>1, <3>4, <3>5, SubmissionAssumption DEF LockInv, Faithful
    <3>7. \A d : d = reply'[c].order =>
            /\ d \in Orders' /\ pc'[d] = "done" /\ SamePreview(d, c)'
            /\ reply'[d].kind = "ok" => reply'[c].label = reply'[d].label
      BY <1>1, <2>2, <3>4, <3>5, <3>6 DEF Faithful, Orders, SamePreview, TypeOK
    <3>8. \A e \in Calls : e # c => reply'[e] = reply[e]
      BY <1>1, <2>2 DEF TypeOK
    <3>9. QED
      BY <1>2, <3>7, <3>8 DEF ReplayInv
  <2>5. QED
    BY <2>3, <2>4
<1>5. CASE \E p \in Previews : StorePreview(p)
  BY <1>3, <1>5 DEF StorePreview
<1>6. CASE \E c \in Calls, q \in Requests : Submit(c, q)
  BY <1>3, <1>6 DEF Submit
<1>7. CASE \E c \in Calls : SendCreate(c) \/ CreateSucceeds(c)
  BY <1>3, <1>7 DEF SendCreate, CreateSucceeds
<1>8. CASE \E c \in Calls, answer \in Replies :
             EndsCreating(c, answer) \/ EndsLookup(c, answer)
  <2>1. PICK c \in Calls, answer \in Replies :
               EndsCreating(c, answer) \/ EndsLookup(c, answer)
    BY <1>8
  <2>2. reply' = [reply EXCEPT ![c] = answer] /\ answer.kind # "replay"
    BY <2>1 DEF EndsCreating, EndsLookup, Finish, Success
  <2>3. QED
    BY <1>1, <1>3, <2>2 DEF TypeOK
<1>9. CASE \E c \in Calls, fate \in {"created", "refused", "lost"} : ErpSettles(c, fate)
  BY <1>3, <1>9 DEF ErpSettles
<1>10. CASE Restart
  BY <1>3, <1>10 DEF Restart, Answer
<1>11. CASE UNCHANGED vars
  BY <1>3, <1>11 DEF vars
<1>12. QED
  BY <1>1, <1>4, <1>5, <1>6, <1>7, <1>8, <1>9, <1>10, <1>11, Steps

LEMMA StoryAlways == Spec => [](BookInv /\ StoryInv)
<1>1. BookInv /\ StoryInv /\ [Next]_vars => BookInv' /\ StoryInv'
  BY BookStep, AnswerStep, ResultStep, ReplayStep DEF StoryInv
<1>2. QED
  BY BookInit, StoryInit, <1>1, PTL DEF Spec

\* A preview whose order is known cannot be sent again, and the result kept for
\* a key is that of an order made from the preview kept with it: nothing that
\* happens to other calls, and no restart, sets a result and its order apart.
THEOREM KnownOrdersStay == Spec => []SuccessIsSettled
<1>1. ASSUME BookInv, ResultInv
      PROVE  SuccessIsSettled
  <2>1. \A i \in DOMAIN results : results[i] \in Results
    BY <1>1, ElementOfSeq, LenProperties DEF BookInv, TypeOK
  <2>2. \A q : Contains(prepared, q) <=> q \in ToSet(prepared)
    BY <1>1, LenProperties DEF BookInv, TypeOK, Contains, ToSet
  <2>3. QED
    BY <1>1, <2>1, <2>2
       DEF ResultInv, KeysDistinct, Faithful, SuccessIsSettled, Results, Orders
<1>2. QED
  BY StoryAlways, <1>1, PTL DEF StoryInv

\* A replay says what the first call was told, order number included.
THEOREM ReplaysAgree == Spec => []ReplayMatchesOriginal
<1>1. ReplayInv => ReplayMatchesOriginal
  BY DEF ReplayInv, ReplayMatchesOriginal
<1>2. QED
  BY StoryAlways, <1>1, PTL DEF StoryInv

\* A caller that is given an order is given one made from its preview, and a
\* caller that is refused has created nothing: even if a body fails to decode.
THEOREM AnswersAreTrue == Spec => []TruthfulAnswers
<1>1. ASSUME AnswerInv, ReplayInv
      PROVE  TruthfulAnswers
  BY <1>1 DEF AnswerInv, ReplayInv, TruthfulAnswers, Orders, SamePreview
<1>2. QED
  BY StoryAlways, <1>1, PTL DEF StoryInv

-----------------------------------------------------------------------------
(* At most one order per preview, but for responses that do not decode.    *)

LEMMA SafetyInit == Init => SafetyInv
<1>1. Init => CleanInv /\ AtMostOneOpen
  BY DEF Init, CleanInv, AtMostOneOpen, Open
<1>2. QED
  BY <1>1, BookInit DEF BookInv, SafetyInv

\* The steps that open no request and move no call out of its await, and that
\* make no preview submittable: they keep both invariants.
LEMMA NothingOpened ==
  ASSUME SafetyInv,
         \A c \in Calls : Open(c)' => Open(c) /\ request'[c] = request[c],
         \A c \in Calls : Open(c)' /\ pc[c] = "creating" =>
            \/ pc'[c] = "creating"
            \/ request[c].preview \notin ToSet(prepared') \ uncertain',
         \A c \in Calls : Open(c) /\ request[c].preview \in ToSet(prepared') \ uncertain'
            => request[c].preview \in ToSet(prepared) \ uncertain
  PROVE  CleanInv' /\ AtMostOneOpen'
<1>1. CleanInv'
  BY DEF SafetyInv, CleanInv
<1>2. AtMostOneOpen'
  BY DEF SafetyInv, AtMostOneOpen, SamePreview
<1>3. QED
  BY <1>1, <1>2

LEMMA SafetyStep ==
  ASSUME SafetyInv, AnswerInv, [Next]_vars
  PROVE  SafetyInv'
<1> USE DEF SafetyInv
<1>0. BookInv /\ BookInv'
  BY BookStep DEF BookInv
\* An answer that decided nothing stays: no request is opened again.
<1>answered. \A c \in Calls : Open(c)' => reply[c].kind # "escaped"
  BY <1>0, OnlyForward DEF AnswerInv, Open
<1>1. ASSUME NEW p \in Previews, StorePreview(p)
      PROVE  CleanInv' /\ AtMostOneOpen'
  \* An open request names an issued preview, so never the new one.
  <2>1. \A c \in Calls : Open(c) => request[c].preview \in issued \ {p}
    BY <1>1 DEF StorePreview, ProgressInv, Open
  <2>2. /\ ToSet(prepared') \subseteq ToSet(prepared) \cup {p}
        /\ uncertain \cap ToSet(prepared') \subseteq uncertain'
    BY <1>1, StoreEffect DEF StorePreview
  <2>3. QED
    BY <1>answered, <1>1, <2>1, <2>2, NothingOpened DEF StorePreview, Open
<1>2. ASSUME NEW c \in Calls, NEW r \in Requests, Submit(c, r)
      PROVE  CleanInv' /\ AtMostOneOpen'
  <2>1. ~Open(c)
    BY <1>2 DEF Submit, ProgressInv, Open
  <2>2. QED
    BY <1>answered, <1>2, <2>1, NothingOpened DEF Submit, session, Open, TypeOK
<1>3. ASSUME NEW c \in Calls, NEW answer \in Replies, AnswersAtOnce(c, answer)
      PROVE  CleanInv' /\ AtMostOneOpen'
  BY <1>answered, <1>3, NothingOpened DEF AnswersAtOnce, AnswerInTurn, session, Open, TypeOK
<1>4. ASSUME NEW c \in Calls, SendCreate(c)
      PROVE  CleanInv' /\ AtMostOneOpen'
  \* An open request for this preview would be the lock holder's, but the lock
  \* is free.
  <2>1. request[c].preview \in ToSet(prepared) \ uncertain
    BY <1>4, LenProperties DEF SendCreate, RequirePrepared, Contains, ToSet, TypeOK
  <2>2. \A d \in Calls : pc[d] # "creating"
    BY <1>4, SubmissionAssumption DEF SendCreate, Turn, LockInv
  <2>3. \A d \in Calls : Open(d) => ~SamePreview(c, d)
    BY <2>1, <2>2 DEF CleanInv, SamePreview
  <2>4. /\ \A d \in Calls : d # c => (Open(d)' <=> Open(d)) /\ pc'[d] = pc[d]
        /\ pc'[c] = "creating"
        /\ request' = request
        /\ prepared' = prepared /\ uncertain' = uncertain
    BY <1>4 DEF SendCreate, session, Open, TypeOK
  <2>5. CleanInv'
    BY <2>4 DEF CleanInv
  <2>6. AtMostOneOpen'
    BY <2>3, <2>4 DEF AtMostOneOpen, SamePreview
  <2>7. QED
    BY <2>5, <2>6
<1>5. ASSUME NEW c \in Calls, CreateSucceeds(c)
      PROVE  CleanInv' /\ AtMostOneOpen'
  <2>1. /\ ToSet(prepared') = ToSet(prepared) \ {request[c].preview}
        /\ uncertain' = uncertain \ {request[c].preview}
    BY <1>5, ConsumeEffect DEF CreateSucceeds
  <2>2. QED
    BY <1>answered, <1>5, <2>1, NothingOpened DEF CreateSucceeds, Open, TypeOK
<1>6. ASSUME NEW c \in Calls, NEW answer \in Replies,
             EndsCreating(c, answer) \/ EndsLookup(c, answer)
      PROVE  CleanInv' /\ AtMostOneOpen'
  <2>1. CASE EndsCreating(c, answer) /\ MarkUncertain(request[c].preview)
    <3>1. /\ uncertain \subseteq uncertain'
          /\ request[c].preview \in ToSet(prepared) => request[c].preview \in uncertain'
      BY <2>1, MarkEffect
    <3>2. QED
      BY <1>answered, <2>1, <3>1, NothingOpened DEF EndsCreating, Finish, Open, TypeOK
  <2>2. CASE EndsCreating(c, answer) /\ UNCHANGED uncertain /\ post[c] = "refused"
    BY <1>answered, <2>2, NothingOpened DEF EndsCreating, Finish, Open, TypeOK
  <2>3. CASE EndsLookup(c, answer)
    BY <1>answered, <2>3, NothingOpened DEF EndsLookup, Finish, Open, TypeOK
  <2>4. CASE EndsCreating(c, answer) /\ UNCHANGED uncertain /\ answer.kind = "escaped"
    BY <1>answered, <2>4, NothingOpened DEF EndsCreating, Finish, Open, TypeOK
  <2>5. QED
    BY <1>6, <2>1, <2>2, <2>3, <2>4 DEF EndsCreating
<1>7. ASSUME NEW c \in Calls, NEW fate \in {"created", "refused", "lost"},
             ErpSettles(c, fate)
      PROVE  CleanInv' /\ AtMostOneOpen'
  BY <1>answered, <1>7, NothingOpened DEF ErpSettles, session, lock, Open, TypeOK
<1>8. ASSUME Restart
      PROVE  CleanInv' /\ AtMostOneOpen'
  <2>1. ToSet(prepared') = {}
    BY <1>8 DEF Restart, ToSet
  <2>2. QED
    BY <1>answered, <1>8, <2>1, NothingOpened DEF Restart, Open
<1>9. ASSUME UNCHANGED vars
      PROVE  CleanInv' /\ AtMostOneOpen'
  BY <1>9 DEF vars, CleanInv, AtMostOneOpen, Open, SamePreview
<1>10. CleanInv' /\ AtMostOneOpen'
  BY <1>1, <1>2, <1>3, <1>4, <1>5, <1>6, <1>7, <1>8, <1>9, Steps
<1>11. QED
  BY <1>0, <1>10 DEF BookInv

-----------------------------------------------------------------------------
(* The marks.                                                              *)

FullInv == SafetyInv /\ AnswerInv /\ MarksAreExact

\* The result of a submission of q is unknown.
InDoubt(q) ==
  \E c \in Posted : /\ request[c].preview = q /\ pc[c] = "done"
                    /\ reply[c].kind \in {"unknown", "cancelled"}

LEMMA MarksStep ==
  ASSUME BookInv, AnswerInv, MarksAreExact, [Next]_vars
  PROVE  MarksAreExact'
<1>1. /\ TypeOK /\ ProgressInv /\ PreparedInv
      /\ uncertain \subseteq ToSet(prepared)
      /\ \A q \in ToSet(prepared) : q \in uncertain <=> InDoubt(q)
  BY DEF BookInv, MarksAreExact, InDoubt
<1>2. ASSUME uncertain' \subseteq ToSet(prepared'),
             \A q \in ToSet(prepared') : q \in uncertain' <=> (InDoubt(q))'
      PROVE  MarksAreExact'
  BY <1>2 DEF MarksAreExact, InDoubt
\* Whether q is in doubt changes only with a call about q.
<1>3. ASSUME NEW q, NEW c \in Calls,
             \A d \in Calls : d # c =>
               /\ pc'[d] = pc[d] /\ request'[d] = request[d]
               /\ reply'[d] = reply[d] /\ (post'[d] = "unsent" <=> post[d] = "unsent"),
             \/ post'[c] = "unsent" \/ pc'[c] # "done" \/ request'[c].preview # q
             \/ reply'[c].kind \notin {"unknown", "cancelled"},
             \/ post[c] = "unsent" \/ pc[c] # "done" \/ request[c].preview # q
             \/ reply[c].kind \notin {"unknown", "cancelled"}
      PROVE  (InDoubt(q))' <=> InDoubt(q)
  BY <1>3 DEF InDoubt, Posted
<1>4. ASSUME NEW p \in Previews, StorePreview(p)
      PROVE  MarksAreExact'
  <2>1. /\ ToSet(prepared') \subseteq ToSet(prepared) \cup {p}
        /\ uncertain \cap ToSet(prepared') \subseteq uncertain'
        /\ uncertain' \subseteq uncertain /\ uncertain' \subseteq ToSet(prepared')
        /\ p \notin issued
    BY <1>1, <1>4, StoreEffect DEF StorePreview
  <2>2. \A q : (InDoubt(q))' <=> InDoubt(q)
    BY <1>4 DEF StorePreview, InDoubt, Posted
  <2>3. p \notin uncertain' /\ ~InDoubt(p)
    BY <1>1, <2>1 DEF PreparedInv, ProgressInv, InDoubt, Posted
  <2>4. QED
    BY <1>1, <1>2, <2>1, <2>2, <2>3
<1>5. ASSUME NEW c \in Calls, NEW r \in Requests, Submit(c, r)
      PROVE  MarksAreExact'
  <2>1. \A q : (InDoubt(q))' <=> InDoubt(q)
    BY <1>1, <1>3, <1>5 DEF Submit, TypeOK, ProgressInv
  <2>2. QED
    BY <1>1, <1>2, <1>5, <2>1 DEF Submit, session
<1>6. ASSUME NEW c \in Calls, NEW answer \in Replies, AnswersAtOnce(c, answer)
      PROVE  MarksAreExact'
  <2>1. \A q : (InDoubt(q))' <=> InDoubt(q)
    BY <1>1, <1>3, <1>6 DEF AnswersAtOnce, AnswerInTurn, TypeOK, ProgressInv
  <2>2. QED
    BY <1>1, <1>2, <1>6, <2>1 DEF AnswersAtOnce, AnswerInTurn, session
<1>7. ASSUME NEW c \in Calls, SendCreate(c)
      PROVE  MarksAreExact'
  <2>1. \A q : (InDoubt(q))' <=> InDoubt(q)
    BY <1>1, <1>3, <1>7 DEF SendCreate, Turn, TypeOK
  <2>2. QED
    BY <1>1, <1>2, <1>7, <2>1 DEF SendCreate, session
<1>8. ASSUME NEW c \in Calls, CreateSucceeds(c)
      PROVE  MarksAreExact'
  <2>1. \A q : (InDoubt(q))' <=> InDoubt(q)
    BY <1>1, <1>3, <1>8 DEF CreateSucceeds, TypeOK
  <2>2. /\ ToSet(prepared') = ToSet(prepared) \ {request[c].preview}
        /\ uncertain' = uncertain \ {request[c].preview}
    BY <1>1, <1>8, ConsumeEffect DEF CreateSucceeds
  <2>3. QED
    BY <1>1, <1>2, <2>1, <2>2
<1>9. ASSUME NEW c \in Calls, NEW answer \in Replies,
             EndsCreating(c, answer) \/ EndsLookup(c, answer)
      PROVE  MarksAreExact'
  <2>1. /\ pc' = [pc EXCEPT ![c] = "done"] /\ reply' = [reply EXCEPT ![c] = answer]
        /\ UNCHANGED <<request, post, prepared>>
        /\ pc[c] \in {"creating", "lookup"}
    BY <1>9 DEF EndsCreating, EndsLookup, Finish
  <2>2. \A q : q # request[c].preview \/ answer.kind \notin {"unknown", "cancelled"}
           => ((InDoubt(q))' <=> InDoubt(q))
    BY <1>1, <1>3, <2>1 DEF TypeOK
  <2>3. CASE /\ pc[c] = "creating" /\ MarkUncertain(request[c].preview)
             /\ answer.kind \in {"unknown", "cancelled"}
    <3>1. /\ uncertain \subseteq uncertain'
          /\ uncertain' \subseteq uncertain \cup (ToSet(prepared) \cap {request[c].preview})
          /\ request[c].preview \in ToSet(prepared) => request[c].preview \in uncertain'
      BY <1>1, <2>3, MarkEffect
    <3>2. post[c] # "unsent"
      BY <2>3 DEF AnswerInv
    <3>3. (InDoubt(request[c].preview))'
      BY <1>1, <2>1, <2>3, <3>2 DEF InDoubt, Posted, TypeOK
    <3>4. QED
      BY <1>1, <1>2, <2>1, <2>2, <3>1, <3>3
  <2>4. CASE UNCHANGED uncertain /\ answer.kind \notin {"unknown", "cancelled"}
    BY <1>1, <1>2, <2>1, <2>2, <2>4
  <2>5. CASE pc[c] = "lookup" /\ UNCHANGED uncertain
    <3>1. request[c].preview \notin ToSet(prepared)
      BY <2>5 DEF AnswerInv
    <3>2. QED
      BY <1>1, <1>2, <2>1, <2>2, <2>5, <3>1
  <2>6. QED
    BY <1>9, <2>3, <2>4, <2>5 DEF EndsCreating, EndsLookup
<1>10. ASSUME NEW c \in Calls, NEW fate \in {"created", "refused", "lost"},
              ErpSettles(c, fate)
       PROVE  MarksAreExact'
  <2>1. \A q : (InDoubt(q))' <=> InDoubt(q)
    BY <1>1, <1>10 DEF ErpSettles, TypeOK, InDoubt, Posted
  <2>2. QED
    BY <1>1, <1>2, <1>10, <2>1 DEF ErpSettles, session
<1>11. CASE Restart
  BY <1>2, <1>11 DEF Restart, ToSet
<1>12. CASE UNCHANGED vars
  BY <1>12 DEF vars, MarksAreExact, Posted
<1>13. QED
  BY <1>1, <1>4, <1>5, <1>6, <1>7, <1>8, <1>9, <1>10, <1>11, <1>12, Steps

LEMMA FullAlways == Spec => []FullInv
<1>1. Init => MarksAreExact
  BY DEF Init, MarksAreExact, ToSet
<1>2. SafetyInv => BookInv
  BY DEF SafetyInv, BookInv
<1>3. FullInv /\ [Next]_vars => FullInv'
  BY <1>2, SafetyStep, AnswerStep, MarksStep DEF FullInv
<1>4. Init => FullInv
  BY <1>1, SafetyInit, StoryInit DEF StoryInv, FullInv
<1>5. QED
  BY <1>3, <1>4, PTL DEF Spec

\* Of several orders made of one preview all but one are of calls that a response
\* that does not decode has ended: for any number of calls, previews and keys, any
\* caps of the session's lists, nothing else repeats an order.
THEOREM OnlyUndecodedRepeats == Spec => []OnlyEscapesRepeat
<1>1. FullInv => OnlyEscapesRepeat
  BY DEF FullInv, SafetyInv, AtMostOneOpen, OnlyEscapesRepeat, Open, Orders
<1>2. QED
  BY FullAlways, <1>1, PTL

\* If every response body decodes, one preview never becomes two sales orders.
THEOREM NoDuplicateOrder ==
  ASSUME BodyMayNotDecode = FALSE
  PROVE  Spec => []AtMostOneOrder
<1>1. FullInv => AtMostOneOrder
  BY DEF FullInv, SafetyInv, AnswerInv, AtMostOneOpen, AtMostOneOrder, Open, Orders
<1>2. QED
  BY FullAlways, <1>1, PTL

\* A kept preview is blocked exactly while the result of a submission of it is
\* unknown: no interleaving forgets a doubt or blocks a preview without one.
THEOREM MarksFollowDoubt == Spec => []MarksAreExact
<1>1. FullInv => MarksAreExact
  BY DEF FullInv
<1>2. QED
  BY FullAlways, <1>1, PTL

\* A request leaves for the ERP only when each earlier one for the same preview was
\* refused, or its response did not decode.
LEMMA SentOnlyAfterAnswer ==
  ASSUME FullInv, [Next]_vars,
         NEW c \in Posted' \ Posted, NEW d \in Posted, SamePreview(c, d)
  PROVE  reply[d].kind \in {"refused", "escaped"}
<1>1. /\ TypeOK /\ ProgressInv /\ LockInv /\ PreparedInv /\ CleanInv
      /\ AnswerInv /\ MarksAreExact
  BY DEF FullInv, SafetyInv
<1>2. c \in Calls /\ post[c] = "unsent" /\ post'[c] # "unsent" /\ d \in Calls
      /\ post[d] # "unsent"
  BY DEF Posted
<1>3. CASE \E e \in Calls : SendCreate(e)
  <2>1. SendCreate(c)
    BY <1>1, <1>2, <1>3 DEF SendCreate, TypeOK
  <2>2. request[d].preview \in ToSet(prepared) \ uncertain
    BY <1>1, <2>1, LenProperties
       DEF SendCreate, RequirePrepared, Contains, ToSet, TypeOK, SamePreview
  <2>3. pc[d] = "done"
    BY <1>1, <1>2, <2>1, SubmissionAssumption
       DEF SendCreate, Turn, LockInv, ProgressInv, TypeOK
  <2>4. post[d] = "refused" \/ reply[d].kind = "escaped"
    BY <1>1, <1>2, <2>2, <2>3 DEF CleanInv, Open, TypeOK, PostStates
  <2>5. reply[d].kind \notin {"unknown", "cancelled"}
    BY <1>1, <1>2, <2>2, <2>3 DEF MarksAreExact, Posted
  <2>6. QED
    BY <1>1, <1>2, <2>3, <2>4, <2>5 DEF AnswerInv
<1>4. CASE \E e \in Calls, fate \in {"created", "refused", "lost"} : ErpSettles(e, fate)
  BY <1>1, <1>2, <1>4 DEF ErpSettles, TypeOK
<1>5. CASE UNCHANGED post
  BY <1>2, <1>5
<1>6. QED
  BY <1>1, <1>3, <1>4, <1>5, Steps
     DEF StorePreview, Submit, AnswersAtOnce, AnswerInTurn, CreateSucceeds,
         EndsCreating, EndsLookup, Finish, Restart, vars

\* However bodies decode, no lost or late answer, and no cancelled call, is followed
\* by another create request for its preview.
THEOREM DoubtIsNeverResent == Spec => ResendOnlyAfterAnswer
<1>1. FullInv /\ [Next]_vars =>
        [\A c \in Calls :
           c \in Posted' \ Posted =>
             \A d \in Posted :
               SamePreview(c, d) => reply[d].kind \in {"refused", "escaped"}]_vars
  BY SentOnlyAfterAnswer
<1>2. QED
  BY FullAlways, <1>1, PTL DEF Spec, ResendOnlyAfterAnswer

\* If every response body decodes, a preview leaves for the ERP again only when
\* each earlier attempt was answered with a refusal.
THEOREM OnlyRefusedIsResent ==
  ASSUME BodyMayNotDecode = FALSE
  PROVE  Spec => ResendOnlyAfterRefusal
<1>1. FullInv => \A d \in Calls : reply[d].kind # "escaped"
  BY DEF FullInv, AnswerInv
<1>2. FullInv /\ [Next]_vars =>
        [\A c \in Calls :
           c \in Posted' \ Posted =>
             \A d \in Posted : SamePreview(c, d) => reply[d].kind = "refused"]_vars
  BY <1>1, SentOnlyAfterAnswer DEF Posted
<1>3. QED
  BY FullAlways, <1>2, PTL DEF Spec, ResendOnlyAfterRefusal

-----------------------------------------------------------------------------
(* The session implements OrderLedger, step by step.                       *)

OrderCount == [p \in Previews |-> Cardinality(OrdersOf(p))]

\* The steps of the ledger the session's steps stand for.
LEMMA LedgerSteps ==
  ASSUME \/ \E p \in Previews : Ledger!Offer(p, Usable \ Usable')
         \/ \E p \in Previews : \/ Ledger!Send(p) \/ Ledger!Create(p)
                                \/ Ledger!Discard(p) \/ Ledger!Return(p)
         \/ Ledger!Withdraw(Usable \ Usable')
         \/ UNCHANGED <<issued, Usable, UnderWay, OrderCount>>
  PROVE  [Ledger!Next]_(Ledger!ledgerVars)
BY DEF Ledger!Next, Ledger!ledgerVars, OrderCount

\* Steps that leave the requests and what became of them alone.
LEMMA SameRequests ==
  ASSUME TypeOK, UNCHANGED post,
         \A c \in Calls : post[c] # "unsent" => request'[c] = request[c]
  PROVE  UNCHANGED <<UnderWay, OrderCount>>
<1>1. UnderWay' = UnderWay
  BY DEF UnderWay
<1>2. \A p \in Previews : OrdersOf(p)' = OrdersOf(p)
  BY DEF OrdersOf, Orders
<1>3. QED
  BY <1>1, <1>2 DEF OrderCount

\* A call being created has an issued preview, and it holds the lock.
LEMMA OneBeingCreated ==
  ASSUME FullInv
  PROVE  /\ BeingCreated \subseteq issued
         /\ \A c \in Calls : pc[c] = "creating" => BeingCreated = {request[c].preview}
         /\ (\A c \in Calls : pc[c] # "creating") => BeingCreated = {}
         /\ Usable \subseteq issued
<1>1. \A c \in Calls : pc[c] = "creating" => request[c].preview \in issued
  BY DEF FullInv, SafetyInv, AnswerInv, ProgressInv
<1>2. \A c, d \in Calls : pc[c] = "creating" /\ pc[d] = "creating" => c = d
  BY DEF FullInv, SafetyInv, LockInv
<1>3. ToSet(prepared) \subseteq issued
  BY DEF FullInv, SafetyInv, PreparedInv
<1>4. QED
  BY <1>1, <1>2, <1>3 DEF BeingCreated, Usable

LEMMA LedgerStart == Init => Ledger!Init
<1> SUFFICES ASSUME Init PROVE Ledger!Init
  OBVIOUS
<1>1. ToSet(prepared) = {}
  BY DEF Init, ToSet
<1>2. Usable = {} /\ UnderWay = {}
  BY <1>1 DEF Init, Usable, UnderWay
<1>3. \A p \in Previews : OrdersOf(p) = {}
  BY DEF Init, OrdersOf, Orders
<1>4. \A p \in Previews : Cardinality(OrdersOf(p)) = 0
  BY <1>3, FS_EmptySet
<1>5. QED
  BY <1>2, <1>4 DEF Init, Ledger!Init

LEMMA LedgerStep ==
  ASSUME BodyMayNotDecode = FALSE, FullInv, FullInv', [Next]_vars
  PROVE  [Ledger!Next]_(Ledger!ledgerVars)
<1>1. /\ TypeOK /\ LockInv /\ ProgressInv /\ PreparedInv /\ CleanInv /\ AtMostOneOpen
      /\ AnswerInv /\ uncertain \subseteq ToSet(prepared)
  BY DEF FullInv, SafetyInv, MarksAreExact
<1>2. /\ \A c \in Calls : post[c] # "unsent" => pc[c] # "idle"
      /\ \A c \in Calls : reply[c].kind # "escaped" /\ reply'[c].kind # "escaped"
  BY <1>1 DEF ProgressInv, FullInv, AnswerInv
<1>3. CASE \E p \in Previews : StorePreview(p)
  <2>1. PICK p \in Previews : StorePreview(p)
    BY <1>3
  <2>2. /\ p \notin issued /\ issued' = issued \cup {p}
        /\ UNCHANGED <<post, request, pc>>
    BY <2>1 DEF StorePreview
  <2>3. /\ ToSet(prepared') \subseteq ToSet(prepared) \cup {p} /\ p \in ToSet(prepared')
        /\ uncertain \cap ToSet(prepared') \subseteq uncertain'
        /\ uncertain' \subseteq uncertain
    BY <1>1, <2>1, StoreEffect DEF StorePreview
  <2>4. p \notin uncertain' /\ p \notin BeingCreated
    BY <1>1, <2>2, <2>3, OneBeingCreated DEF PreparedInv
  <2>5. BeingCreated' = BeingCreated
    BY <2>2 DEF BeingCreated
  <2>6. Usable' = (Usable \ (Usable \ Usable')) \cup {p}
    BY <2>3, <2>4, <2>5 DEF Usable
  <2>7. UNCHANGED <<UnderWay, OrderCount>>
    BY <1>1, <2>2, SameRequests
  <2>8. Ledger!Offer(p, Usable \ Usable')
    BY <2>2, <2>6, <2>7 DEF Ledger!Offer, OrderCount
  <2>9. QED
    BY <2>8, LedgerSteps
<1>4. CASE \E c \in Calls, r \in Requests : Submit(c, r)
  <2>1. PICK c \in Calls, r \in Requests : Submit(c, r)
    BY <1>4
  <2>2. /\ pc[c] = "idle" /\ UNCHANGED <<issued, prepared, uncertain, post>>
        /\ pc' = [pc EXCEPT ![c] = "waiting"] /\ request' = [request EXCEPT ![c] = r]
    BY <2>1 DEF Submit, session
  <2>3. BeingCreated' = BeingCreated
    BY <1>1, <2>2 DEF BeingCreated, TypeOK
  <2>4. UNCHANGED <<UnderWay, OrderCount>>
    BY <1>1, <1>2, <2>2, SameRequests DEF TypeOK
  <2>5. QED
    BY <2>2, <2>3, <2>4, LedgerSteps DEF Usable
<1>5. CASE \E c \in Calls, answer \in Replies : AnswersAtOnce(c, answer)
  <2>1. PICK c \in Calls, answer \in Replies : AnswersAtOnce(c, answer)
    BY <1>5
  <2>2. /\ pc[c] = "waiting" /\ UNCHANGED <<issued, prepared, uncertain, post, request>>
        /\ pc' = [pc EXCEPT ![c] = "done"]
    BY <2>1 DEF AnswersAtOnce, AnswerInTurn, session
  <2>3. BeingCreated' = BeingCreated
    BY <1>1, <2>2 DEF BeingCreated, TypeOK
  <2>4. UNCHANGED <<UnderWay, OrderCount>>
    BY <1>1, <2>2, SameRequests
  <2>5. QED
    BY <2>2, <2>3, <2>4, LedgerSteps DEF Usable
<1>6. CASE \E c \in Calls : SendCreate(c)
  <2>1. PICK c \in Calls : SendCreate(c)
    BY <1>6
  <2>2. /\ holder = Null /\ UNCHANGED <<issued, prepared, uncertain, request>>
        /\ pc' = [pc EXCEPT ![c] = "creating"] /\ pc[c] = "waiting"
        /\ post' = [post EXCEPT ![c] = "travelling"] /\ post[c] = "unsent"
        /\ request[c].preview \in ToSet(prepared) \ uncertain
    BY <1>1, <2>1, LenProperties
       DEF SendCreate, Turn, RequirePrepared, Contains, ToSet, session, TypeOK, ProgressInv
  <2>3. request[c].preview \in Previews
    BY <1>1, <2>2 DEF PreparedInv, TypeOK
  <2>4. BeingCreated = {} /\ BeingCreated' = {request[c].preview}
    <3>1. \A d \in Calls : pc[d] # "creating"
      BY <1>1, <2>2, SubmissionAssumption DEF LockInv
    <3>2. QED
      BY <1>1, <2>2, <3>1 DEF BeingCreated, TypeOK
  <2>5. UnderWay' = UnderWay \cup {request[c].preview}
    BY <1>1, <2>2 DEF UnderWay, TypeOK
  <2>6. OrderCount' = OrderCount
    <3>1. \A p \in Previews : OrdersOf(p)' = OrdersOf(p)
      BY <1>1, <2>2 DEF OrdersOf, Orders, TypeOK
    <3>2. QED
      BY <3>1 DEF OrderCount
  <2>7. Ledger!Send(request[c].preview)
    BY <2>2, <2>4, <2>5, <2>6 DEF Ledger!Send, Usable, OrderCount
  <2>8. QED
    BY <2>3, <2>7, LedgerSteps
<1>7. CASE \E c \in Calls : CreateSucceeds(c)
  <2>1. PICK c \in Calls : CreateSucceeds(c)
    BY <1>7
  <2>2. /\ pc[c] = "creating" /\ UNCHANGED <<issued, request, post>>
        /\ ToSet(prepared') = ToSet(prepared) \ {request[c].preview}
        /\ uncertain' = uncertain \ {request[c].preview}
    BY <1>1, <2>1, ConsumeEffect DEF CreateSucceeds
  <2>3. Usable' \subseteq Usable
    BY <2>2, OneBeingCreated DEF Usable
  <2>4. UNCHANGED <<UnderWay, OrderCount>>
    BY <1>1, <2>2, SameRequests
  <2>5. Ledger!Withdraw(Usable \ Usable')
    BY <2>2, <2>3, <2>4 DEF Ledger!Withdraw, OrderCount
  <2>6. QED
    BY <2>5, LedgerSteps
<1>8. CASE \E c \in Calls, answer \in Replies :
             EndsCreating(c, answer) \/ EndsLookup(c, answer)
  <2>1. PICK c \in Calls, answer \in Replies :
               EndsCreating(c, answer) \/ EndsLookup(c, answer)
    BY <1>8
  <2>2. /\ pc' = [pc EXCEPT ![c] = "done"] /\ UNCHANGED <<issued, request, post, prepared>>
        /\ pc[c] \in {"creating", "lookup"}
    BY <2>1 DEF EndsCreating, EndsLookup, Finish
  <2>3. UNCHANGED <<UnderWay, OrderCount>>
    BY <1>1, <2>2, SameRequests
  <2>4. \A d \in Calls : pc'[d] # "creating"
    BY <1>1, <2>2 DEF LockInv, TypeOK
  <2>5. BeingCreated' = {}
    BY <2>4 DEF BeingCreated
  <2>6. CASE Usable' \subseteq Usable
    <3>1. Ledger!Withdraw(Usable \ Usable')
      BY <2>2, <2>3, <2>6 DEF Ledger!Withdraw, OrderCount
    <3>2. QED
      BY <3>1, LedgerSteps
  <2>7. CASE pc[c] = "creating" /\ MarkUncertain(request[c].preview)
    BY <1>1, <2>2, <2>6, <2>7, MarkEffect, OneBeingCreated DEF Usable
  <2>8. CASE pc[c] = "lookup" /\ UNCHANGED uncertain
    <3>1. BeingCreated = {}
      BY <1>1, <2>2, <2>8, OneBeingCreated DEF LockInv
    <3>2. QED
      BY <2>2, <2>5, <2>6, <2>8, <3>1 DEF Usable
  \* A refusal gives the preview back, unless the session dropped it meanwhile.
  <2>9. CASE pc[c] = "creating" /\ UNCHANGED uncertain
    <3> DEFINE p == request[c].preview
    <3>1. BeingCreated = {p}
      BY <2>9, OneBeingCreated
    <3>2. CASE p \notin ToSet(prepared) \ uncertain
      BY <2>2, <2>5, <2>6, <2>9, <3>1, <3>2 DEF Usable
    <3>3. CASE p \in ToSet(prepared) \ uncertain
      <4>1. Usable' = Usable \cup {p}
        BY <2>2, <2>5, <2>9, <3>1, <3>3 DEF Usable
      <4>2. CleanInv'
        BY DEF FullInv, SafetyInv
      <4>3. \A d \in Calls : request[d].preview = p =>
              post[d] \notin {"travelling", "created"}
        BY <1>2, <2>2, <2>4, <2>9, <3>3, <4>2 DEF CleanInv, Open
      <4>4. p \notin UnderWay /\ OrdersOf(p) = {}
        BY <4>3 DEF UnderWay, OrdersOf, Orders
      <4>5. p \in issued /\ p \in Previews
        BY <1>1, <3>3 DEF PreparedInv, TypeOK
      <4>6. OrderCount[p] = 0
        BY <4>4, <4>5, FS_EmptySet DEF OrderCount
      <4>7. Ledger!Return(p)
        BY <2>2, <2>3, <4>1, <4>4, <4>5, <4>6 DEF Ledger!Return, OrderCount
      <4>8. QED
        BY <4>5, <4>7, LedgerSteps
    <3>4. QED
      BY <3>2, <3>3
  <2>10. QED
    BY <2>1, <2>7, <2>8, <2>9 DEF EndsCreating, EndsLookup
<1>9. CASE \E c \in Calls, fate \in {"created", "refused", "lost"} : ErpSettles(c, fate)
  <2>1. PICK c \in Calls, fate \in {"created", "refused", "lost"} : ErpSettles(c, fate)
    BY <1>9
  <2>2. /\ post[c] = "travelling" /\ post' = [post EXCEPT ![c] = fate]
        /\ UNCHANGED <<issued, prepared, uncertain, pc, request>>
    BY <2>1 DEF ErpSettles, session
  <2>0. request[c].preview \in Previews
    BY <1>1, <2>2 DEF ProgressInv, TypeOK
  <2>3. PICK p \in Previews : p = request[c].preview
    BY <2>0
  <2>4. Usable' = Usable
    BY <2>2 DEF Usable, BeingCreated
  <2>5. \A d \in Calls : d # c /\ request[d].preview = p =>
          post[d] \notin {"travelling", "created"}
    BY <1>1, <1>2, <2>2, <2>3 DEF AtMostOneOpen, Open, SamePreview
  <2>6. p \in UnderWay /\ UnderWay' = UnderWay \ {p}
    BY <1>1, <2>2, <2>3, <2>5 DEF UnderWay, TypeOK
  <2>7. \A q \in Previews \ {p} : OrdersOf(q)' = OrdersOf(q)
    BY <1>1, <2>2, <2>3 DEF OrdersOf, Orders, TypeOK
  <2>8. OrdersOf(p) = {}
    BY <2>2, <2>3, <2>5 DEF OrdersOf, Orders
  <2>9. CASE fate = "created"
    <3>1. OrdersOf(p)' = {c}
      BY <1>1, <2>2, <2>3, <2>5, <2>9 DEF OrdersOf, Orders, TypeOK
    <3>2. Cardinality(OrdersOf(p)) = 0 /\ Cardinality(OrdersOf(p)') = 1
      BY <2>8, <3>1, FS_EmptySet, FS_Singleton
    <3>3. OrderCount' = [OrderCount EXCEPT ![p] = @ + 1]
      <4>1. /\ OrderCount[p] = 0 /\ OrderCount'[p] = 1
            /\ \A q \in Previews \ {p} : OrderCount'[q] = OrderCount[q]
        BY <2>3, <2>7, <3>2 DEF OrderCount
      <4>2. /\ OrderCount = [q \in Previews |-> OrderCount[q]]
            /\ OrderCount' = [q \in Previews |-> OrderCount'[q]]
        BY DEF OrderCount
      <4>3. QED
        BY <2>3, <4>1, <4>2
    <3>4. Ledger!Create(p)
      BY <2>2, <2>4, <2>6, <3>3 DEF Ledger!Create, OrderCount
    <3>5. QED
      BY <2>3, <3>4, LedgerSteps
  <2>10. CASE fate # "created"
    <3>1. OrdersOf(p)' = {}
      BY <1>1, <2>2, <2>3, <2>5, <2>10 DEF OrdersOf, Orders, TypeOK
    <3>2. OrderCount' = OrderCount
      <4>1. \A q \in Previews : OrdersOf(q)' = OrdersOf(q)
        BY <2>7, <2>8, <3>1
      <4>2. QED
        BY <4>1 DEF OrderCount
    <3>3. Ledger!Discard(p)
      BY <2>2, <2>4, <2>6, <3>2 DEF Ledger!Discard, OrderCount
    <3>4. QED
      BY <2>3, <3>3, LedgerSteps
  <2>11. QED
    BY <2>9, <2>10
<1>10. CASE Restart
  <2>1. ToSet(prepared') = {} /\ UNCHANGED <<issued, request, post>>
    BY <1>10 DEF Restart, ToSet
  <2>2. Usable' = {}
    BY <2>1 DEF Usable
  <2>3. UNCHANGED <<UnderWay, OrderCount>>
    BY <1>1, <2>1, SameRequests
  <2>4. Ledger!Withdraw(Usable \ Usable')
    BY <2>1, <2>2, <2>3 DEF Ledger!Withdraw, OrderCount
  <2>5. QED
    BY <2>4, LedgerSteps
<1>11. CASE UNCHANGED vars
  <2>1. UNCHANGED <<issued, Usable, UnderWay, OrderCount>>
    BY <1>11 DEF vars, Usable, BeingCreated, UnderWay, OrderCount, OrdersOf, Orders
  <2>2. QED
    BY <2>1, LedgerSteps
<1>12. QED
  BY <1>1, <1>3, <1>4, <1>5, <1>6, <1>7, <1>8, <1>9, <1>10, <1>11, Steps

\* If every response body decodes, the session, its lock and its lists implement
\* the ledger: every step is a step of the ledger or leaves it alone.
THEOREM SessionIsLedger ==
  ASSUME BodyMayNotDecode = FALSE
  PROVE  Spec => ImplementsLedger
<1>1. FullInv /\ FullInv' /\ [Next]_vars => [Ledger!Next]_(Ledger!ledgerVars)
  BY LedgerStep
<1>2. QED
  BY FullAlways, <1>1, LedgerStart, PTL DEF Spec, ImplementsLedger, Ledger!Spec
-----------------------------------------------------------------------------
(* What the ledger promises follows from its own rules, and so carries over *)
(* to whatever implements it.                                               *)

\* The ledger starts within its invariant.
LEMMA LedgerInvInit == Ledger!Init => Ledger!LedgerInv
BY DEF Ledger!Init, Ledger!LedgerInv, Ledger!LedgerTypeOK, Ledger!UsableIsClean,
       Ledger!PendingHasNoOrder, Ledger!OrdersAreOffered, Ledger!AtMostOncePerPreview

\* Every step keeps it: a preview is usable, under way or an order, never two of
\* these at once.
LEMMA LedgerInvStep ==
  Ledger!LedgerInv /\ [Ledger!Next]_(Ledger!ledgerVars) => Ledger!LedgerInv'
<1> SUFFICES ASSUME Ledger!LedgerInv, [Ledger!Next]_(Ledger!ledgerVars)
             PROVE  Ledger!LedgerInv'
  OBVIOUS
<1> USE DEF Ledger!LedgerInv, Ledger!LedgerTypeOK, Ledger!UsableIsClean,
       Ledger!PendingHasNoOrder, Ledger!OrdersAreOffered, Ledger!AtMostOncePerPreview
<1>1. ASSUME NEW p \in Previews, NEW dropped \in SUBSET Usable, Ledger!Offer(p, dropped)
      PROVE  Ledger!LedgerInv'
  <2>1. p \notin UnderWay /\ OrderCount[p] = 0
    BY <1>1 DEF Ledger!Offer, OrderCount
  <2> QED BY <1>1, <2>1 DEF Ledger!Offer, OrderCount
<1>2. ASSUME NEW p \in Previews, Ledger!Send(p) PROVE Ledger!LedgerInv'
  BY <1>2 DEF Ledger!Send
<1>3. ASSUME NEW p \in Previews, Ledger!Create(p) PROVE Ledger!LedgerInv'
  <2>1. /\ OrderCount' = [OrderCount EXCEPT ![p] = @ + 1] /\ UnderWay' = UnderWay \ {p}
        /\ p \in UnderWay /\ issued' = issued /\ Usable' = Usable
    BY <1>3 DEF Ledger!Create, OrderCount
  <2>2. /\ OrderCount \in [Previews -> Nat] /\ UnderWay \subseteq issued
        /\ issued \subseteq Previews /\ Usable \subseteq issued
        /\ \A q \in Usable : q \notin UnderWay /\ OrderCount[q] = 0
        /\ \A q \in UnderWay : OrderCount[q] = 0
        /\ \A q \in Previews \ issued : OrderCount[q] = 0
        /\ \A q \in Previews : OrderCount[q] <= 1
    BY DEF OrderCount
  <2>3. /\ OrderCount' \in [Previews -> Nat] /\ UnderWay' \subseteq issued'
        /\ issued' \subseteq Previews /\ Usable' \subseteq issued'
        /\ \A q \in Usable' : q \notin UnderWay' /\ OrderCount'[q] = 0
        /\ \A q \in UnderWay' : OrderCount'[q] = 0
        /\ \A q \in Previews \ issued' : OrderCount'[q] = 0
        /\ \A q \in Previews : OrderCount'[q] <= 1
    BY <2>1, <2>2
  <2> QED BY <2>3 DEF OrderCount
<1>4. ASSUME NEW p \in Previews, Ledger!Discard(p) PROVE Ledger!LedgerInv'
  BY <1>4 DEF Ledger!Discard
<1>5. ASSUME NEW p \in Previews, Ledger!Return(p) PROVE Ledger!LedgerInv'
  BY <1>5 DEF Ledger!Return
<1>6. ASSUME NEW dropped \in SUBSET Usable, Ledger!Withdraw(dropped)
      PROVE  Ledger!LedgerInv'
  BY <1>6 DEF Ledger!Withdraw
<1>7. CASE UNCHANGED Ledger!ledgerVars
  BY <1>7 DEF Ledger!ledgerVars
<1> QED BY <1>1, <1>2, <1>3, <1>4, <1>5, <1>6, <1>7 DEF Ledger!Next

\* Who keeps the ledger's rules never makes two sales orders of a preview.
THEOREM PromiseKept == Ledger!Spec => []Ledger!AtMostOncePerPreview
<1>1. Ledger!LedgerInv => Ledger!AtMostOncePerPreview
  BY DEF Ledger!LedgerInv
<1> QED BY <1>1, LedgerInvInit, LedgerInvStep, PTL DEF Ledger!Spec
=============================================================================
