------------------------ MODULE ConversationsProofs ------------------------
(***************************************************************************)
(* Calls, previews, credentials and sessions stay with their conversation, *)
(* and only granted writes are made, for any number of calls, requests and *)
(* sessions.                                                               *)
(***************************************************************************)
EXTENDS Conversations, SequenceTheorems, TLAPS

\* RemoveAt takes one element out and closes the gap.
LEMMA RemoveAtProperties ==
  ASSUME NEW S, NEW s \in Seq(S), NEW i \in 1 .. Len(s)
  PROVE  /\ RemoveAt(s, i) \in Seq(S)
         /\ Len(RemoveAt(s, i)) = Len(s) - 1
         /\ \A j \in 1 .. Len(s) - 1 : RemoveAt(s, i)[j] = s[IF j < i THEN j ELSE j + 1]
<1> DEFINE a == SubSeq(s, 1, i - 1)
           b == SubSeq(s, i + 1, Len(s))
<1>1. Len(s) \in Nat /\ i \in Nat
  BY LenProperties
<1>2. /\ a \in Seq(S) /\ Len(a) = i - 1
      /\ \A j \in 1 .. i - 1 : a[j] = s[j]
  <2>1. \A j \in 1 .. i - 1 : s[j] \in S
    BY <1>1, ElementOfSeq
  <2> QED BY <1>1, <2>1, SubSeqProperties
<1>3. /\ b \in Seq(S) /\ Len(b) = Len(s) - i
      /\ \A j \in 1 .. Len(s) - i : b[j] = s[j + i]
  <2>1. \A j \in i + 1 .. Len(s) : s[j] \in S
    BY <1>1, ElementOfSeq
  <2> QED BY <1>1, <2>1, SubSeqProperties
<1>4. RemoveAt(s, i) = a \o b
  BY DEF RemoveAt
<1> HIDE DEF a, b
<1>5. /\ a \o b \in Seq(S) /\ Len(a \o b) = Len(a) + Len(b)
      /\ \A j \in 1 .. Len(a) + Len(b) :
           (a \o b)[j] = IF j <= Len(a) THEN a[j] ELSE b[j - Len(a)]
  BY <1>2, <1>3, ConcatProperties
<1> QED BY <1>1, <1>2, <1>3, <1>4, <1>5

\* An entry used again: the cache has no entry it did not have.
LEMMA TouchProperties ==
  ASSUME NEW S, cache \in Seq(S), NEW i \in DOMAIN cache
  PROVE  /\ Touch(i) \in Seq(S)
         /\ \A j \in DOMAIN Touch(i) : \E k \in DOMAIN cache : Touch(i)[j] = cache[k]
<1> DEFINE n == Len(cache)
           r == RemoveAt(cache, i)
<1>1. n \in Nat /\ DOMAIN cache = 1 .. n /\ i \in 1 .. n /\ cache[i] \in S
  BY LenProperties, ElementOfSeq
<1>2. /\ r \in Seq(S) /\ Len(r) = n - 1
      /\ \A j \in 1 .. n - 1 : r[j] = cache[IF j < i THEN j ELSE j + 1]
  BY <1>1, RemoveAtProperties
<1>3. Touch(i) = Append(r, cache[i])
  BY DEF Touch
<1> HIDE DEF r, n
<1>4. /\ Touch(i) \in Seq(S) /\ Len(Touch(i)) = n
      /\ \A j \in 1 .. n : Touch(i)[j] = IF j = n THEN cache[i] ELSE r[j]
  BY <1>1, <1>2, <1>3, AppendProperties
<1>5. DOMAIN Touch(i) = 1 .. n
  BY <1>4, LenProperties
<1>6. ASSUME NEW j \in 1 .. n PROVE \E k \in 1 .. n : Touch(i)[j] = cache[k]
  <2>1. CASE j = n
    BY <1>1, <1>4, <2>1
  <2>2. CASE j # n
    <3>1. j \in 1 .. n - 1 /\ Touch(i)[j] = r[j]
      BY <1>1, <1>4, <2>2
    <3> QED BY <1>1, <1>2, <3>1
  <2> QED BY <2>1, <2>2
<1> QED BY <1>1, <1>4, <1>5, <1>6

\* What is left when an entry is dropped was there before.
LEMMA RemovedProperties ==
  ASSUME NEW S, cache \in Seq(S), NEW i \in DOMAIN cache
  PROVE  /\ RemoveAt(cache, i) \in Seq(S)
         /\ \A j \in DOMAIN RemoveAt(cache, i) :
              \E k \in DOMAIN cache : RemoveAt(cache, i)[j] = cache[k]
<1> DEFINE n == Len(cache)
           r == RemoveAt(cache, i)
<1>1. n \in Nat /\ DOMAIN cache = 1 .. n /\ i \in 1 .. n
  BY LenProperties
<1>2. /\ r \in Seq(S) /\ Len(r) = n - 1
      /\ \A j \in 1 .. n - 1 : r[j] = cache[IF j < i THEN j ELSE j + 1]
  BY <1>1, RemoveAtProperties
<1> HIDE DEF r, n
<1>3. DOMAIN r = 1 .. n - 1
  BY <1>2, LenProperties
<1>4. \A j \in 1 .. n - 1 : \E k \in 1 .. n : r[j] = cache[k]
  BY <1>1, <1>2
<1> QED BY <1>1, <1>2, <1>3, <1>4 DEF r

\* A stored item joins what stays of the cache.
LEMMA StoreProperties ==
  ASSUME NEW S, cache \in Seq(S), NEW item \in S
  PROVE  /\ Store(item) \in Seq(S)
         /\ \A j \in DOMAIN Store(item) :
              Store(item)[j] = item \/ \E k \in DOMAIN cache : Store(item)[j] = cache[k]
<1> DEFINE t == IF Len(cache) = MaxSessions THEN Tail(cache) ELSE cache
           m == Len(t)
<1>1. Len(cache) \in Nat /\ DOMAIN cache = 1 .. Len(cache)
  BY LenProperties
<1>2. t \in Seq(S) /\ \A j \in 1 .. m : \E k \in DOMAIN cache : t[j] = cache[k]
  <2>1. CASE Len(cache) # MaxSessions
    BY <1>1, <2>1
  <2>2. CASE Len(cache) = MaxSessions
    <3>1. cache # <<>>
      BY <1>1, <2>2, ConversationsAssumption
    <3>2. /\ Tail(cache) \in Seq(S) /\ Len(Tail(cache)) = Len(cache) - 1
          /\ \A j \in 1 .. Len(cache) - 1 : Tail(cache)[j] = cache[j + 1]
      BY <1>1, <3>1, HeadTailProperties
    <3>3. \A j \in 1 .. Len(cache) - 1 : j + 1 \in DOMAIN cache
      BY <1>1
    <3> QED BY <2>2, <3>2, <3>3
  <2> QED BY <2>1, <2>2
<1>3. Store(item) = Append(t, item)
  BY DEF Store
<1> HIDE DEF t
<1>4. m \in Nat
  BY <1>2, LenProperties
<1> HIDE DEF m
<1>5. /\ Store(item) \in Seq(S) /\ Len(Store(item)) = m + 1
      /\ \A j \in 1 .. m : Store(item)[j] = t[j]
      /\ Store(item)[m + 1] = item
  BY <1>2, <1>3, <1>4, AppendProperties DEF m
<1>6. DOMAIN Store(item) = 1 .. m + 1
  BY <1>5, LenProperties
<1>7. \A j \in 1 .. m + 1 : j \in 1 .. m \/ j = m + 1
  BY <1>4
<1> QED BY <1>2, <1>5, <1>6, <1>7

-----------------------------------------------------------------------------

\* The invariant holds at the start.
LEMMA InitInv == Init => ConversationsInv
<1> SUFFICES ASSUME Init PROVE ConversationsInv
  OBVIOUS
<1>1. calls = <<>> /\ cache = <<>> /\ DOMAIN calls = {} /\ DOMAIN cache = {}
  BY DEF Init
<1>2. ConversationsTypeOK
  BY <1>1 DEF Init, ConversationsTypeOK
<1>3. CallsAreBound /\ CacheIsKeyed /\ CredsAreRecent /\ EventIsOfCalls
  BY <1>1 DEF Init, CallsAreBound, CacheIsKeyed, CredsAreRecent, EventIsOfCalls
<1>4. /\ CredentialIsRecent /\ WritesAreGranted /\ PreviewStaysInConversation
      /\ OneSessionPerConversation
  BY <1>1 DEF Init, CredentialIsRecent, WritesAreGranted, PreviewStaysInConversation,
       OneSessionPerConversation
<1> QED BY <1>2, <1>3, <1>4 DEF ConversationsInv

\* The key of a request names its conversation.
LEMMA KeyIsConversation ==
  ASSUME entry \in {"legacy", "workbuddy"}, NEW c, NEW d
  PROVE  SameConversation(c, d) <=> KeyOf(calls[c].request) = KeyOf(calls[d].request)
BY DEF SameConversation, KeyOf

\* A call arrives: its session s is the one of its conversation, or made now.
LEMMA ArriveInv ==
  ASSUME ConversationsInv, entry' = entry, event' = event,
         NEW q \in Requests[entry], NEW s \in 1 .. Len(calls) + 1, NEW state \in Nat,
         calls' = Append(calls, Call(q, s, state)), Register(q),
         states' \in [Tenants -> Nat \cup {Null}],
         cache' \in Seq([key : Keys, session : Nat]),
         \A j \in DOMAIN cache' :
           \/ \E k \in DOMAIN cache : cache'[j] = cache[k]
           \/ s = Len(calls) + 1 /\ cache'[j] = [key |-> KeyOf(q), session |-> s],
         \/ \E k \in DOMAIN cache : cache[k] = [key |-> KeyOf(q), session |-> s]
         \/ s = Len(calls) + 1 /\ \A k \in DOMAIN cache : cache[k].key # KeyOf(q)
  PROVE  ConversationsInv'
<1> DEFINE n == Len(calls)
           Item == [request : Requests[entry], session : Nat, state : Nat, context : Contexts]
<1>T. ConversationsTypeOK
  BY DEF ConversationsInv
<1>B. CallsAreBound
  BY DEF ConversationsInv
<1>K. CacheIsKeyed
  BY DEF ConversationsInv
<1>1. KeyOf(q) \in Keys /\ Context(q) \in Contexts /\ calls \in Seq(Item)
  BY <1>T DEF Keys, Contexts, Context, MayWrite, ConversationsTypeOK
<1>2. Call(q, s, state) \in Item
  BY <1>1 DEF Call
<1>3. n \in Nat /\ DOMAIN calls = 1 .. n
  BY <1>1, LenProperties
<1>4. /\ calls' \in Seq(Item) /\ Len(calls') = n + 1
      /\ \A c \in 1 .. n : calls'[c] = calls[c]
      /\ calls'[n + 1] = Call(q, s, state)
  BY <1>1, <1>2, <1>3, AppendProperties
<1>5. DOMAIN calls' = 1 .. n + 1
  BY <1>4, LenProperties
<1> HIDE DEF n, Item
<1>6. /\ \A c \in 1 .. n + 1 : c \in 1 .. n \/ c = n + 1
      /\ \A c \in 1 .. n : c # n + 1 /\ c \in 1 .. n + 1
  BY <1>3
<1>7. /\ Keys' = Keys /\ Contexts' = Contexts /\ Tenants' = Tenants
      /\ \A r : KeyOf(r)' = KeyOf(r) /\ Context(r)' = Context(r)
  BY DEF Keys, Contexts, Tenants, KeyOf, Context, MayWrite
<1>8. ConversationsTypeOK'
  <2>1. DOMAIN creds' = Keys
    BY <1>T, <1>1 DEF Register, ConversationsTypeOK
  <2> QED BY <2>1, <1>4, <1>7, <1>T DEF ConversationsTypeOK, Item
<1>S. s \in 1 .. n => KeyOf(calls[s].request) = KeyOf(q)
  BY <1>6, <1>K DEF CacheIsKeyed, n
<1>C. /\ calls'[n + 1].request = q /\ calls'[n + 1].session = s
      /\ calls'[n + 1].context = Context(q)
  BY <1>4 DEF Call
<1>9. CallsAreBound'
  <2> SUFFICES ASSUME NEW c \in 1 .. n + 1
               PROVE  /\ calls'[c].context = Context(calls'[c].request)
                      /\ calls'[c].session \in 1 .. c
                      /\ KeyOf(calls'[calls'[c].session].request) = KeyOf(calls'[c].request)
    BY <1>5 DEF CallsAreBound, KeyOf, Context, MayWrite
  <2>1. CASE c \in 1 .. n
    <3>1. calls[c].session \in 1 .. c /\ calls[c].session \in 1 .. n
      BY <1>3, <1>B, <2>1 DEF CallsAreBound
    <3> QED BY <1>3, <1>4, <1>B, <2>1, <3>1 DEF CallsAreBound
  <2>2. CASE c = n + 1
    <3>1. s \in 1 .. n \/ s = n + 1
      BY <1>6 DEF n
    <3>2. KeyOf(calls'[s].request) = KeyOf(q)
      BY <1>4, <1>S, <1>C, <3>1
    <3>3. s \in 1 .. n + 1
      BY <3>1, <1>3
    <3> QED BY <1>C, <2>2, <3>2, <3>3
  <2> QED BY <1>6, <2>1, <2>2
<1>N. \A k \in DOMAIN cache :
        /\ cache[k].session \in 1 .. n
        /\ cache[k].key = KeyOf(calls'[cache[k].session].request)
  BY <1>3, <1>4, <1>K DEF CacheIsKeyed
<1>M. ASSUME s = n + 1 PROVE \A k \in DOMAIN cache : cache[k].key # KeyOf(q)
  <2>1. ASSUME NEW k \in DOMAIN cache, cache[k] = [key |-> KeyOf(q), session |-> s] PROVE FALSE
    BY <1>6, <1>N, <1>M, <2>1
  <2> QED BY <2>1
<1>10. CacheIsKeyed'
  <2>1. ASSUME NEW j \in DOMAIN cache'
        PROVE  /\ cache'[j].session \in 1 .. n + 1
               /\ cache'[j].key = KeyOf(calls'[cache'[j].session].request)
    <3>1. CASE \E k \in DOMAIN cache : cache'[j] = cache[k]
      BY <1>6, <1>N, <3>1
    <3>2. CASE s = n + 1 /\ cache'[j] = [key |-> KeyOf(q), session |-> s]
      BY <1>C, <1>3, <3>2
    <3> QED BY <2>1, <3>1, <3>2 DEF n
  <2>2. ASSUME NEW i \in DOMAIN cache', NEW j \in DOMAIN cache', cache'[i].key = cache'[j].key
        PROVE  cache'[i] = cache'[j]
    <3>1. CASE s = n + 1
      BY <1>M, <1>K, <2>2, <3>1 DEF CacheIsKeyed
    <3>2. CASE s # n + 1
      BY <1>K, <2>2, <3>2 DEF CacheIsKeyed, n
    <3> QED BY <3>1, <3>2
  <2> QED BY <1>5, <2>1, <2>2 DEF CacheIsKeyed, KeyOf
<1>11. CredsAreRecent'
  <2> SUFFICES ASSUME entry = "legacy", NEW c \in 1 .. n + 1
               PROVE  \E d \in c .. n + 1 :
                        /\ Token(calls'[d].request) = creds'[KeyOf(calls'[c].request)]
                        /\ KeyOf(calls'[d].request) = KeyOf(calls'[c].request)
    <3> SUFFICES ASSUME entry' = "legacy", NEW c \in DOMAIN calls'
                 PROVE  \E d \in c .. Len(calls') :
                          /\ Token(calls[d].request)' = creds'[KeyOf(calls[c].request)']
                          /\ KeyOf(calls[d].request)' = KeyOf(calls[c].request)'
      BY DEF CredsAreRecent
    <3>1. PICK d \in c .. n + 1 :
            /\ Token(calls'[d].request) = creds'[KeyOf(calls'[c].request)]
            /\ KeyOf(calls'[d].request) = KeyOf(calls'[c].request)
      BY <1>5
    <3>2. /\ KeyOf(calls[d].request)' = KeyOf(calls'[d].request)
          /\ KeyOf(calls[c].request)' = KeyOf(calls'[c].request)
          /\ Token(calls[d].request)' = Token(calls'[d].request)
      BY DEF KeyOf, Token
    <3> QED BY <1>4, <3>1, <3>2
  <2>1. creds' = [creds EXCEPT ![KeyOf(q)] = Token(q)] /\ DOMAIN creds = Keys
    BY <1>T DEF Register, ConversationsTypeOK
  <2>2. n + 1 \in c .. n + 1
    BY <1>3
  <2>3. CASE KeyOf(calls'[c].request) = KeyOf(q)
    BY <1>1, <1>C, <2>1, <2>2, <2>3
  <2>4. CASE KeyOf(calls'[c].request) # KeyOf(q)
    <3>1. c \in 1 .. n
      BY <1>6, <1>C, <2>4
    <3>2. creds'[KeyOf(calls[c].request)] = creds[KeyOf(calls[c].request)]
      <4>1. KeyOf(calls[c].request) \in Keys
        <5>1. calls[c] \in Item
          BY <1>1, <3>1, ElementOfSeq DEF n
        <5> QED BY <5>1 DEF Keys, Item
      <4> QED BY <1>4, <2>1, <2>4, <3>1, <4>1
    <3>3. PICK d \in c .. n : /\ Token(calls[d].request) = creds[KeyOf(calls[c].request)]
                              /\ KeyOf(calls[d].request) = KeyOf(calls[c].request)
      <4>1. CredsAreRecent
        BY DEF ConversationsInv
      <4> QED BY <1>3, <3>1, <4>1 DEF CredsAreRecent, n
    <3>4. d \in 1 .. n /\ d \in c .. n + 1
      BY <1>3, <3>1
    <3> QED BY <1>4, <3>1, <3>2, <3>3, <3>4
  <2> QED BY <2>3, <2>4
<1>12. EventIsOfCalls'
  BY <1>3, <1>5, <1>6 DEF ConversationsInv, EventIsOfCalls
<1>13. CredentialIsRecent'
  <2> SUFFICES ASSUME event # Null, event.kind \in {"sent", "reauth", "written"}
               PROVE  IF entry = "workbuddy"
                      THEN event.token = User(calls'[event.call].request).tenant
                      ELSE \E d \in event.call .. n + 1 :
                             /\ Token(calls'[d].request) = event.token
                             /\ SameConversation(event.call, d)'
    BY <1>4 DEF CredentialIsRecent, User, Token
  <2>1. event.call \in 1 .. n /\ calls'[event.call] = calls[event.call]
    BY <1>3, <1>4 DEF ConversationsInv, EventIsOfCalls
  <2>2. CredentialIsRecent
    BY DEF ConversationsInv
  <2>3. CASE entry = "workbuddy"
    BY <2>1, <2>2, <2>3 DEF CredentialIsRecent
  <2>4. CASE entry # "workbuddy"
    <3>1. PICK d \in event.call .. n : /\ Token(calls[d].request) = event.token
                                       /\ SameConversation(event.call, d)
      BY <2>2, <2>4 DEF CredentialIsRecent, n
    <3>2. d \in 1 .. n /\ d \in event.call .. n + 1
      BY <1>3, <2>1
    <3>3. SameConversation(event.call, d)'
      BY <1>4, <2>1, <3>1, <3>2 DEF SameConversation
    <3> QED BY <1>4, <2>4, <3>1, <3>2, <3>3
  <2> QED BY <2>3, <2>4
<1>14. WritesAreGranted'
  BY <1>3, <1>4 DEF ConversationsInv, EventIsOfCalls, WritesAreGranted
<1>15. PreviewStaysInConversation'
  BY <1>3, <1>4 DEF ConversationsInv, EventIsOfCalls, PreviewStaysInConversation,
       SameConversation
<1>16. OneSessionPerConversation'
  <2> SUFFICES ASSUME NEW c \in 1 .. n + 1, NEW d \in 1 .. n + 1, c < d,
                      SameConversation(c, d)', calls'[c].session # calls'[d].session,
                      NEW j \in DOMAIN cache', cache'[j].session = calls'[c].session
               PROVE  FALSE
    BY <1>5 DEF OneSessionPerConversation, SameConversation
  <2>1. c \in 1 .. n
    BY <1>3
  <2>2. calls'[c] = calls[c] /\ calls[c].session \in 1 .. n
    BY <1>3, <1>4, <1>B, <2>1 DEF CallsAreBound
  <2>3. PICK k \in DOMAIN cache : cache'[j] = cache[k]
    BY <1>3, <1>6, <2>2 DEF n
  <2>4. CASE d \in 1 .. n
    <3>1. SameConversation(c, d) /\ calls[c].session # calls[d].session
      BY <1>4, <2>1, <2>4 DEF SameConversation
    <3> QED BY <1>3, <2>1, <2>2, <2>3, <2>4, <3>1
         DEF ConversationsInv, OneSessionPerConversation
  <2>5. CASE d = n + 1
    <3>1. KeyOf(calls[c].request) = KeyOf(q)
      BY <1>C, <1>T, <2>2, <2>5 DEF SameConversation, KeyOf, ConversationsTypeOK
    <3>2. cache[k].key = KeyOf(q) /\ cache[k].session = calls[c].session
      BY <1>3, <1>B, <1>K, <2>1, <2>2, <2>3, <3>1 DEF CallsAreBound, CacheIsKeyed
    <3>3. CASE s = n + 1
      BY <1>M, <3>2, <3>3
    <3>4. CASE s # n + 1
      <4>1. PICK i \in DOMAIN cache : cache[i] = [key |-> KeyOf(q), session |-> s]
        BY <3>4 DEF n
      <4>2. cache[i] = cache[k]
        BY <1>K, <3>2, <4>1 DEF CacheIsKeyed
      <4>3. cache[k].session = s
        BY <4>1, <4>2
      <4>4. calls'[d].session = s
        BY <1>C, <2>5
      <4> QED BY <2>2, <3>2, <4>3, <4>4
    <3> QED BY <3>3, <3>4
  <2> QED BY <1>6, <2>4, <2>5
<1> QED BY <1>8, <1>9, <1>10, <1>11, <1>12, <1>13, <1>14, <1>15, <1>16 DEF ConversationsInv

\* What stays the same when no call arrives.
Settled == UNCHANGED <<entry, calls, creds>>

LEMMA SettledInv ==
  ASSUME ConversationsInv, Settled, states' \in [Tenants -> Nat \cup {Null}],
         cache' \in Seq([key : Keys, session : Nat]),
         \A j \in DOMAIN cache' : \E k \in DOMAIN cache : cache'[j] = cache[k],
         EventIsOfCalls', CredentialIsRecent', WritesAreGranted', PreviewStaysInConversation'
  PROVE  ConversationsInv'
<1>1. /\ entry' = entry /\ calls' = calls /\ creds' = creds
      /\ Keys' = Keys /\ Contexts' = Contexts /\ Tenants' = Tenants
  BY DEF Settled, Keys, Contexts, Tenants, KeyOf
<1>2. ConversationsTypeOK'
  BY <1>1 DEF ConversationsInv, ConversationsTypeOK
<1>3. CallsAreBound' /\ CredsAreRecent'
  BY <1>1 DEF ConversationsInv, CallsAreBound, CredsAreRecent, KeyOf, Context, MayWrite
<1>4. CacheIsKeyed'
  <2>1. CacheIsKeyed
    BY DEF ConversationsInv
  <2>2. ASSUME NEW j \in DOMAIN cache'
        PROVE  /\ cache'[j].session \in DOMAIN calls
               /\ cache'[j].key = KeyOf(calls[cache'[j].session].request)
    BY <2>1 DEF CacheIsKeyed
  <2>3. ASSUME NEW i \in DOMAIN cache', NEW j \in DOMAIN cache', cache'[i].key = cache'[j].key
        PROVE  cache'[i] = cache'[j]
    BY <2>1, <2>3 DEF CacheIsKeyed
  <2> QED BY <1>1, <2>2, <2>3 DEF CacheIsKeyed, KeyOf
<1>5. OneSessionPerConversation'
  <2> SUFFICES ASSUME NEW c \in DOMAIN calls, NEW d \in DOMAIN calls, c < d,
                      SameConversation(c, d), calls[c].session # calls[d].session,
                      NEW j \in DOMAIN cache'
               PROVE  cache'[j].session # calls[c].session
    BY <1>1 DEF OneSessionPerConversation, SameConversation
  <2> QED BY DEF ConversationsInv, OneSessionPerConversation
<1> QED BY <1>2, <1>3, <1>4, <1>5 DEF ConversationsInv

\* A step that keeps what happened last needs no more than that.
LEMMA SameEvent ==
  ASSUME ConversationsInv, Settled, event' = event
  PROVE  /\ EventIsOfCalls' /\ CredentialIsRecent'
         /\ WritesAreGranted' /\ PreviewStaysInConversation'
BY DEF ConversationsInv, Settled, EventIsOfCalls, CredentialIsRecent, WritesAreGranted,
     PreviewStaysInConversation, SameConversation

\* The credential of a call is one the property allows.
LEMMA CredentialOfCall ==
  ASSUME ConversationsInv, NEW c \in DOMAIN calls
  PROVE  IF entry = "workbuddy"
         THEN Credential(calls[c].context) = User(calls[c].request).tenant
         ELSE \E d \in c .. Len(calls) :
                /\ Token(calls[d].request) = Credential(calls[c].context)
                /\ SameConversation(c, d)
<1>1. calls[c].context = Context(calls[c].request) /\ entry \in {"legacy", "workbuddy"}
  BY DEF ConversationsInv, CallsAreBound, ConversationsTypeOK
<1>2. calls[c].context.key = KeyOf(calls[c].request)
  BY <1>1 DEF Context
<1>3. CASE entry = "workbuddy"
  BY <1>2, <1>3 DEF Credential, KeyOf
<1>4. CASE entry = "legacy"
  <2>1. PICK d \in c .. Len(calls) : /\ Token(calls[d].request) = creds[KeyOf(calls[c].request)]
                                     /\ KeyOf(calls[d].request) = KeyOf(calls[c].request)
    BY <1>4 DEF ConversationsInv, CredsAreRecent
  <2>2. SameConversation(c, d)
    BY <1>1, <2>1, KeyIsConversation
  <2> QED BY <1>2, <1>4, <2>1, <2>2 DEF Credential
<1> QED BY <1>1, <1>3, <1>4

\* What a call does: it asks, writes or submits.
LEMMA HappensInv ==
  ASSUME ConversationsInv, NEW c \in DOMAIN calls, NEW kind,
         Happens(kind, c, Credential(calls[c].context)),
         kind \in {"sent", "reauth", "forbidden", "written"},
         kind = "written" => calls[c].context.write
  PROVE  ConversationsInv'
<1> DEFINE token == Credential(calls[c].context)
<1>1. /\ Settled /\ cache' = cache /\ states' = states
      /\ event' = [kind |-> kind, call |-> c, token |-> token]
  BY DEF Happens, Settled
<1> HIDE DEF token
<1>2. event'.kind = kind /\ event'.call = c /\ event'.token = token
  BY <1>1
<1>3. EventIsOfCalls' /\ PreviewStaysInConversation'
  BY <1>1, <1>2 DEF Settled, EventIsOfCalls, PreviewStaysInConversation
<1>4. CredentialIsRecent'
  BY <1>1, <1>2, CredentialOfCall DEF Settled, CredentialIsRecent, SameConversation, token
<1>5. WritesAreGranted'
  <2>1. calls[c].context = Context(calls[c].request)
    BY DEF ConversationsInv, CallsAreBound
  <2>2. calls[c].context.write = MayWrite(calls[c].request)
    BY <2>1 DEF Context
  <2> QED BY <1>1, <1>2, <2>2 DEF Settled, WritesAreGranted, MayWrite
<1>6. states' \in [Tenants -> Nat \cup {Null}] /\ cache' \in Seq([key : Keys, session : Nat])
  BY <1>1 DEF ConversationsInv, ConversationsTypeOK
<1> QED BY <1>1, <1>3, <1>4, <1>5, <1>6, SettledInv

-----------------------------------------------------------------------------

\* Every step keeps the invariant.
LEMMA NextInv == ConversationsInv /\ [Next]_vars => ConversationsInv'
<1> SUFFICES ASSUME ConversationsInv, [Next]_vars PROVE ConversationsInv'
  OBVIOUS
<1>T. ConversationsTypeOK
  BY DEF ConversationsInv
<1>S. /\ cache \in Seq([key : Keys, session : Nat]) /\ states \in [Tenants -> Nat \cup {Null}]
      /\ Len(calls) \in Nat /\ DOMAIN calls = 1 .. Len(calls)
  BY <1>T, LenProperties DEF ConversationsTypeOK
<1>1. ASSUME NEW q \in Requests[entry], ArriveAgain(q) PROVE ConversationsInv'
  <2>1. PICK i \in Cached(KeyOf(q)) :
          /\ cache' = Touch(i)
          /\ calls' = Bind(q, cache[i].session, calls[cache[i].session].state)
    BY <1>1 DEF ArriveAgain
  <2>2. i \in DOMAIN cache /\ cache[i].key = KeyOf(q)
    BY <2>1 DEF Cached
  <2> DEFINE s == cache[i].session
  <2>3. s \in DOMAIN calls /\ cache[i] \in [key : Keys, session : Nat]
    <3>1. cache[i] \in [key : Keys, session : Nat]
      BY <1>S, <2>2, ElementOfSeq, LenProperties
    <3> QED BY <2>2, <3>1 DEF ConversationsInv, CacheIsKeyed
  <2>4. cache[i] = [key |-> KeyOf(q), session |-> s]
    BY <2>2, <2>3
  <2>5. calls[s].state \in Nat
    <3> DEFINE R == [request : Requests[entry], session : Nat, state : Nat, context : Contexts]
    <3>1. calls \in Seq(R) /\ s \in 1 .. Len(calls)
      BY <1>T, <1>S, <2>3 DEF ConversationsTypeOK
    <3> HIDE DEF R, s
    <3>2. calls[s] \in R
      BY <3>1, ElementOfSeq
    <3> QED BY <3>2 DEF R
  <2>6. /\ cache' \in Seq([key : Keys, session : Nat])
        /\ \A j \in DOMAIN cache' : \E k \in DOMAIN cache : cache'[j] = cache[k]
    BY <1>S, <2>1, <2>2, TouchProperties
  <2>7. /\ entry' = entry /\ event' = event /\ states' = states /\ Register(q)
        /\ calls' = Append(calls, Call(q, s, calls[s].state))
    BY <1>1, <2>1 DEF ArriveAgain, Bind
  <2>8. s \in 1 .. Len(calls) + 1
    BY <1>S, <2>3
  <2> HIDE DEF s
  <2> QED BY <1>S, <2>2, <2>4, <2>5, <2>6, <2>7, <2>8, ArriveInv
<1>2. ASSUME NEW q \in Requests[entry], ArriveNew(q) PROVE ConversationsInv'
  <2> DEFINE s == Len(calls) + 1
             state == StateFor(User(q).tenant, s)
             item == [key |-> KeyOf(q), session |-> s]
  <2>1. /\ entry' = entry /\ event' = event /\ Register(q) /\ Cached(KeyOf(q)) = {}
        /\ cache' = Store(item)
        /\ states' = [states EXCEPT ![User(q).tenant] = state]
        /\ calls' = Append(calls, Call(q, s, state))
    BY <1>2 DEF ArriveNew, Bind
  <2>2. s \in Nat /\ s \in 1 .. Len(calls) + 1 /\ User(q).tenant \in Tenants
    BY <1>S DEF Tenants
  <2>3. state \in Nat
    BY <1>S, <2>2 DEF StateFor
  <2>4. states' \in [Tenants -> Nat \cup {Null}]
    BY <1>S, <2>1, <2>2, <2>3
  <2>5. item \in [key : Keys, session : Nat]
    BY <2>2 DEF Keys
  <2> HIDE DEF item, state
  <2>6. /\ cache' \in Seq([key : Keys, session : Nat])
        /\ \A j \in DOMAIN cache' :
             cache'[j] = item \/ \E k \in DOMAIN cache : cache'[j] = cache[k]
    BY <1>S, <2>1, <2>5, StoreProperties
  <2>7. \A k \in DOMAIN cache : cache[k].key # KeyOf(q)
    BY <2>1 DEF Cached
  <2> QED BY <2>1, <2>2, <2>3, <2>4, <2>6, <2>7, ArriveInv DEF item
<1>3. ASSUME NEW c \in DOMAIN calls, AskErp(c) PROVE ConversationsInv'
  <2>1. PICK kind \in {"reauth", "sent"} : Happens(kind, c, Credential(calls[c].context))
    BY <1>3 DEF AskErp
  <2> QED BY <2>1, HappensInv
<1>4. ASSUME NEW c \in DOMAIN calls, Write(c) PROVE ConversationsInv'
  <2>1. PICK kind \in {"forbidden", "reauth", "written"} :
          /\ Happens(kind, c, Credential(calls[c].context))
          /\ kind = "written" => calls[c].context.write
    BY <1>4 DEF Write
  <2> QED BY <2>1, HappensInv
<1>5. ASSUME NEW c \in DOMAIN calls, NEW p \in DOMAIN calls, Submits(c, p) PROVE ConversationsInv'
  <2> DEFINE kind == IF calls[p].session = calls[c].session THEN "found" ELSE "not found"
  <2>1. /\ Settled /\ cache' = cache /\ states' = states
        /\ event' = [kind |-> kind, call |-> c, preview |-> p]
    BY <1>5 DEF Submits, Settled
  <2>2. event'.kind = kind /\ event'.call = c /\ event'.preview = p /\ calls' = calls
    BY <2>1 DEF Settled
  <2>3. EventIsOfCalls' /\ CredentialIsRecent' /\ WritesAreGranted'
    BY <2>2 DEF EventIsOfCalls, CredentialIsRecent, WritesAreGranted
  <2>4. PreviewStaysInConversation'
    <3>1. ASSUME kind = "found" PROVE SameConversation(c, p)
      <4>1. KeyOf(calls[c].request) = KeyOf(calls[p].request)
        BY <3>1 DEF ConversationsInv, CallsAreBound
      <4> QED BY <1>T, <4>1, KeyIsConversation DEF ConversationsTypeOK
    <3>2. SameConversation(c, p)' = SameConversation(c, p)
      BY <2>1 DEF Settled, SameConversation
    <3> QED BY <2>2, <3>1, <3>2 DEF PreviewStaysInConversation, SameConversation
  <2> QED BY <1>S, <2>1, <2>3, <2>4, SettledInv
<1>6. ASSUME NEW i \in DOMAIN cache, SessionExpires(i) PROVE ConversationsInv'
  <2>1. Settled /\ event' = event /\ states' = states /\ cache' = RemoveAt(cache, i)
    BY <1>6 DEF SessionExpires, Settled
  <2> QED BY <1>S, <2>1, RemovedProperties, SameEvent, SettledInv
<1>7. ASSUME NEW token \in Expiring, TokenExpires(token) PROVE ConversationsInv'
  <2>1. Settled /\ event' = event /\ states' = states /\ cache' = cache
    BY <1>7 DEF TokenExpires, Settled
  <2> QED BY <1>S, <2>1, SameEvent, SettledInv
<1>8. ASSUME Close PROVE ConversationsInv'
  <2>1. /\ Settled /\ event' = event /\ states' = [t \in Tenants |-> Null]
        /\ cache' = <<>> /\ DOMAIN cache' = {}
    BY <1>8 DEF Close, Settled
  <2>2. states' \in [Tenants -> Nat \cup {Null}] /\ cache' \in Seq([key : Keys, session : Nat])
    BY <2>1
  <2> QED BY <2>1, <2>2, SameEvent, SettledInv
<1>9. CASE UNCHANGED vars
  <2>1. Settled /\ event' = event /\ states' = states /\ cache' = cache
    BY <1>9 DEF vars, Settled
  <2> QED BY <1>S, <2>1, SameEvent, SettledInv
<1> QED BY <1>1, <1>2, <1>3, <1>4, <1>5, <1>6, <1>7, <1>8, <1>9 DEF Next

\* The invariant holds in every reachable state: calls are bound to their own
\* context, sessions cached under the conversation they were made for.
THEOREM ConversationsInvariant == Spec => []ConversationsInv
<1> QED BY InitInv, NextInv, PTL DEF Spec

\* A call asks the ERP with a token of its own user and conversation, brought by
\* itself or a later call, or with the key its user bound (CredentialIsRecent).
THEOREM CredentialsAreRecent == Spec => []CredentialIsRecent
<1>1. ConversationsInv => CredentialIsRecent
  BY DEF ConversationsInv
<1> QED BY <1>1, ConversationsInvariant, PTL

\* Only calls granted writing write, however calls of one session overlap
\* (WritesAreGranted).
THEOREM OnlyGrantedWrites == Spec => []WritesAreGranted
<1>1. ConversationsInv => WritesAreGranted
  BY DEF ConversationsInv
<1> QED BY <1>1, ConversationsInvariant, PTL

\* A preview is found from the conversation it was shown in only
\* (PreviewStaysInConversation).
THEOREM PreviewsStay == Spec => []PreviewStaysInConversation
<1>1. ConversationsInv => PreviewStaysInConversation
  BY DEF ConversationsInv
<1> QED BY <1>1, ConversationsInvariant, PTL

\* A conversation has two sessions only after the cache dropped the first, for a
\* cache of any size (OneSessionPerConversation).
THEOREM OneSessionEach == Spec => []OneSessionPerConversation
<1>1. ConversationsInv => OneSessionPerConversation
  BY DEF ConversationsInv
<1> QED BY <1>1, ConversationsInvariant, PTL
=============================================================================
