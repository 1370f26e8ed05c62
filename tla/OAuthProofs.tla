---------------------------- MODULE OAuthProofs ----------------------------
(***************************************************************************)
(* What the authorization provider promises, for any number of clients,    *)
(* requests, submissions, pairs and keys, with a crash after any commit.   *)
(*                                                                         *)
(* Three kinds of step: a quiet one leaves no handler at work and stores   *)
(* nothing; a handler starts, with all its commits ahead; one commit.      *)
(***************************************************************************)
EXTENDS WorkBuddyOAuth, SequenceTheorems, TLAPS

\* What is on record stays as it is.
Grows ==
  /\ \A a \in Authorizations : asked[a] # Null => asked'[a] = asked[a]
  /\ \A b \in Binds : bind[b] # Null => bind'[b] = bind[b]
  /\ \A g \in Grants : pair[g] # Null => pair'[g] = pair[g]

\* The submission and the key of a row that is stored stay.
LEMMA RowStays ==
  ASSUME OAuthInv, Grows, NEW row \in rows, HasKey(row)
  PROVE  /\ (BindOfRow(row))' = BindOfRow(row) /\ (KeyOfRow(row))' = KeyOfRow(row)
         /\ row[1] = "code" => row[2] \in Binds /\ bind[row[2]] # Null
         /\ row[1] # "code" => row[2] \in Grants /\ pair[row[2]] # Null
<1>1. TypeOK /\ CodesKnown /\ PairsKnown
  BY DEF OAuthInv
<1>2. row \in Rows
  BY <1>1 DEF TypeOK
<1>3. CASE row[1] = "code"
  <2>1. row = <<"code", row[2]>> /\ row[2] \in Binds
    BY <1>2, <1>3 DEF Rows, Tokens
  <2>2. bind[row[2]] # Null
    BY <1>1, <2>1 DEF CodesKnown, Stored
  <2> QED BY <1>3, <2>1, <2>2 DEF BindOfRow, KeyOfRow, Grows
<1>4. CASE row[1] # "code"
  <2>1. row[1] \in Tokens /\ row = <<row[1], row[2]>> /\ row[2] \in Grants
    BY <1>2, <1>4 DEF Rows, Tokens, HasKey
  <2>2. pair[row[2]] # Null
    BY <1>1, <2>1 DEF PairsKnown, Stored
  <2>3. pair[row[2]].bind \in Binds
    BY <1>1, <2>1, <2>2 DEF TypeOK, Pairs
  <2>4. bind[pair[row[2]].bind] # Null
    BY <1>1, <2>1, <2>2, <2>3 DEF PairsKnown, CodesKnown, Given
  <2>5. pair'[row[2]] = pair[row[2]] /\ bind'[pair[row[2]].bind] = bind[pair[row[2]].bind]
    BY <2>1, <2>2, <2>3, <2>4 DEF Grows
  <2> QED BY <1>4, <2>1, <2>2, <2>5 DEF BindOfRow, KeyOfRow, Subject
<1> QED BY <1>3, <1>4

\* What holds of the rows alone is kept while none is added.
LEMMA RowsFrame ==
  ASSUME OAuthInv, Grows, rows' \subseteq rows, told' = told,
         \A k \in Keys : <<"binding", k>> \in rows => <<"binding", k>> \in rows'
  PROVE  /\ NoRivals' /\ TokensAreBound' /\ DeadStaysDead'
         /\ \A b \in Binds :
              <<"code", b>> \in told' => ~(Stored("pending", bind[b].authorization))'
<1>1. /\ TypeOK /\ CodesKnown /\ PairsKnown /\ NoRivals /\ TokensAreBound
      /\ DeadStaysDead /\ CodesAreSingle
  BY DEF OAuthInv
<1>2. NoRivals'
  <2> SUFFICES ASSUME NEW r \in rows', NEW s \in rows', (Rivals(r, s))' PROVE FALSE
    BY DEF NoRivals
  <2>1. HasKey(r) /\ HasKey(s) /\ r \in rows /\ s \in rows
    BY DEF Rivals, HasKey
  <2>2. (BindOfRow(r))' = BindOfRow(r) /\ (BindOfRow(s))' = BindOfRow(s)
    BY <2>1, RowStays
  <2>3. Rivals(r, s)
    BY <2>1, <2>2 DEF Rivals, HasKey
  <2> QED BY <1>1, <2>1, <2>3 DEF NoRivals
<1>3. TokensAreBound'
  <2> SUFFICES ASSUME NEW row \in rows', row[1] \in {"code", "access", "refresh"}
               PROVE  (Stored("binding", KeyOfRow(row)))'
    BY DEF TokensAreBound
  <2>1. HasKey(row) /\ row \in rows
    BY DEF HasKey, Tokens
  <2>2. (KeyOfRow(row))' = KeyOfRow(row)
    BY <2>1, RowStays
  <2>3. <<"binding", KeyOfRow(row)>> \in rows
    BY <1>1, <2>1 DEF TokensAreBound, Stored
  <2>4. KeyOfRow(row) \in Keys
    BY <1>1, <2>3 DEF TypeOK, Rows, Tokens
  <2> QED BY <2>2, <2>3, <2>4 DEF Stored
<1>4. DeadStaysDead'
  <2>1. \A h \in Grants : <<"pair", h>> \in told => pair[h] # Null /\ pair'[h] = pair[h]
    BY <1>1 DEF PairsKnown, Given, Grows
  <2> QED BY <1>1, <2>1 DEF DeadStaysDead, Stored
<1>5. ASSUME NEW b \in Binds, <<"code", b>> \in told'
      PROVE  ~(Stored("pending", bind[b].authorization))'
  <2>1. bind[b] # Null /\ bind'[b] = bind[b]
    BY <1>1, <1>5 DEF CodesKnown, Given, Grows
  <2> QED BY <1>1, <1>5, <2>1 DEF CodesAreSingle, Stored
<1> QED BY <1>2, <1>3, <1>4, <1>5

\* The rest of CodesAreSingle is kept by a step that gives no code.
LEMMA CodesFrame ==
  ASSUME OAuthInv, Grows, \A b \in Binds : (Given(<<"code", b>>))' => Given(<<"code", b>>)
  PROVE  \A b, c \in Binds :
           /\ (Given(<<"code", b>>))' /\ (Given(<<"code", c>>))'
           /\ (bind[b].authorization = bind[c].authorization)'
           => b = c
<1>1. CodesKnown /\ CodesAreSingle
  BY DEF OAuthInv
<1>2. \A b \in Binds : (Given(<<"code", b>>))' => bind'[b] = bind[b]
  BY <1>1 DEF CodesKnown, Grows
<1> QED BY <1>1, <1>2 DEF CodesAreSingle

\* A step that leaves no handler at work and stores nothing keeps the invariant.
LEMMA Quiet ==
  ASSUME OAuthInv, Grows, rows' \subseteq rows, told' = told, job' = <<>>,
         \A k \in Keys : <<"binding", k>> \in rows => <<"binding", k>> \in rows',
         TypeOK', RequestsKnown', CodesKnown', PairsKnown', CallOK'
  PROVE  OAuthInv'
<1>1. JobIsNew' /\ JobIsBound' /\ JobClears' /\ JobEnds'
  BY DEF JobIsNew, JobIsBound, JobClears, JobEnds, Owes
<1>2. \A b \in Binds : (Given(<<"code", b>>))' => Given(<<"code", b>>)
  BY DEF Given, Owes
<1>3. CodesAreSingle'
  BY <1>2, RowsFrame, CodesFrame DEF CodesAreSingle
<1> QED BY <1>1, <1>3, RowsFrame DEF OAuthInv

\* Quiet steps.
LEMMA QuietSteps ==
  ASSUME OAuthInv,
         \/ \E b \in Binds, a \in Authorizations, k \in Keys : BindStarts(b, a, k)
         \/ \E b \in Binds : BindFails(b)
         \/ \E row \in rows : Expire(row[1], row[2])
         \/ (\E g \in Grants : Admit(g)) \/ (\E kind \in Scopes : AskErp(kind)) \/ CallEnds
         \/ Crash
  PROVE  OAuthInv'
<1>1. TypeOK /\ RequestsKnown /\ CodesKnown /\ PairsKnown /\ CallOK
  BY DEF OAuthInv
<1>2. ASSUME NEW b \in Binds, NEW a \in Authorizations, NEW k \in Keys, BindStarts(b, a, k)
      PROVE  OAuthInv'
  <2>1. /\ job = <<>> /\ job' = <<>> /\ <<"url", a>> \in told /\ bind[b] = Null
        /\ bind' = [bind EXCEPT ![b] = [authorization |-> a, key |-> k]]
        /\ waiting' = waiting \cup {b}
        /\ rows' = rows /\ asked' = asked /\ pair' = pair /\ told' = told
        /\ call' = call /\ sent' = sent
    BY <1>2 DEF BindStarts, calling
  <2>2. [authorization |-> a, key |-> k] \in Bindings /\ [authorization |-> a, key |-> k] # Null
    BY OAuthAssumption DEF Bindings
  <2>3. bind \in [Binds -> Bindings \cup {Null}]
    BY <1>1 DEF TypeOK
  <2>4. /\ bind'[b] = [authorization |-> a, key |-> k]
        /\ \A c \in Binds : c # b => bind'[c] = bind[c]
        /\ bind' \in [Binds -> Bindings \cup {Null}]
    BY <2>1, <2>2, <2>3
  <2>5. Grows
    BY <2>1, <2>4 DEF Grows
  <2>6. TypeOK'
    BY <1>1, <2>1, <2>4 DEF TypeOK
  <2>7. RequestsKnown'
    BY <1>1, <2>1, <2>2, <2>4 DEF RequestsKnown, Given, Owes
  <2>8. CodesKnown'
    BY <1>1, <2>1, <2>2, <2>4 DEF CodesKnown, Given, Owes, Stored
  <2>9. ASSUME NEW g \in Grants, pair[g] # Null
        PROVE  pair[g].bind \in Binds /\ bind[pair[g].bind] # Null
    BY <1>1, <2>9 DEF TypeOK, Pairs, PairsKnown, CodesKnown, Given
  <2>10. PairsKnown'
    BY <1>1, <2>1, <2>4, <2>9 DEF PairsKnown, Given, Owes, Stored
  <2>11. CallOK'
    <3>1. call # Null => call \in Grants /\ pair[call] # Null
      BY <1>1 DEF CallOK, TypeOK, PairsKnown, Given
    <3> QED BY <1>1, <2>1, <2>4, <2>9, <3>1 DEF CallOK, Subject
  <2> QED BY <2>1, <2>5, <2>6, <2>7, <2>8, <2>10, <2>11, Quiet
<1>3. ASSUME \/ \E b \in Binds : BindFails(b)
             \/ \E row \in rows : Expire(row[1], row[2])
             \/ (\E g \in Grants : Admit(g)) \/ (\E kind \in Scopes : AskErp(kind)) \/ CallEnds
             \/ Crash
      PROVE  OAuthInv'
  <2>1. /\ job' = <<>> /\ told' = told /\ rows' \subseteq rows /\ waiting' \subseteq waiting
        /\ asked' = asked /\ bind' = bind /\ pair' = pair
    BY <1>3 DEF BindFails, Expire, Admit, AskErp, CallEnds, Crash, calling
  <2>2. Grows
    BY <2>1 DEF Grows
  <2>3. \A k \in Keys : <<"binding", k>> \in rows => <<"binding", k>> \in rows'
    <3>1. CASE \E row \in rows : Expire(row[1], row[2])
      <4>1. PICK row \in rows : Expire(row[1], row[2])
        BY <3>1
      <4> QED BY <4>1 DEF Expire
    <3>2. CASE rows' = rows
      BY <3>2
    <3> QED BY <1>3, <3>1, <3>2 DEF BindFails, Admit, AskErp, CallEnds, Crash
  <2>4. /\ call' \in {call, Null} \/ \E g \in Grants : Admit(g)
        /\ sent' \in {sent, Null} \/ \E kind \in Scopes : AskErp(kind)
        /\ call' = call \/ sent' = Null \/ \E g \in Grants : Admit(g)
    BY <1>3 DEF BindFails, Expire, Admit, AskErp, CallEnds, Crash, calling
  <2>5. ASSUME NEW g \in Grants, Admit(g) PROVE CallOK' /\ call' \in Grants /\ sent' = sent
    BY <1>1, <2>1, <2>5 DEF Admit, CallOK
  <2>6. ASSUME NEW kind \in Scopes, AskErp(kind)
        PROVE  CallOK' /\ sent' \in [kind : Scopes, key : Keys] /\ call' = call
    <3>1. call \in Grants /\ pair[call] # Null
      BY <1>1, <2>6 DEF AskErp, TypeOK, CallOK, PairsKnown, Given
    <3>2. Subject(call) \in Keys
      <4>1. pair[call].bind \in Binds /\ bind[pair[call].bind] # Null
        BY <1>1, <3>1 DEF TypeOK, Pairs, PairsKnown, CodesKnown, Given
      <4> QED BY <1>1, <4>1 DEF Subject, TypeOK, Bindings
    <3> QED BY <1>1, <2>1, <2>6, <3>1, <3>2 DEF AskErp, CallOK, Subject
  <2>7. CallOK'
    BY <1>1, <2>1, <2>4, <2>5, <2>6 DEF CallOK, Subject
  <2>8. TypeOK'
    BY <1>1, <2>1, <2>4, <2>5, <2>6 DEF TypeOK
  <2>9. RequestsKnown'
    BY <1>1, <2>1 DEF RequestsKnown, Given, Owes
  <2>10. CodesKnown'
    BY <1>1, <2>1 DEF CodesKnown, Given, Owes, Stored
  <2>11. PairsKnown'
    BY <1>1, <2>1 DEF PairsKnown, Given, Owes, Stored
  <2> QED BY <2>1, <2>2, <2>3, <2>7, <2>8, <2>9, <2>10, <2>11, Quiet
<1> QED BY <1>2, <1>3

\* The jobs of handlers, as sequences.
LEMMA OneCommit ==
  ASSUME NEW S, NEW x \in S
  PROVE  <<x>> \in Seq(S) /\ <<x>> # <<>> /\ DOMAIN <<x>> = {1} /\ <<x>>[1] = x
OBVIOUS

LEMMA TwoCommits ==
  ASSUME NEW S, NEW x \in S, NEW y \in S
  PROVE  /\ <<x, y>> \in Seq(S) /\ <<x, y>> # <<>> /\ DOMAIN <<x, y>> = {1, 2}
         /\ <<x, y>>[1] = x /\ <<x, y>>[2] = y
OBVIOUS

LEMMA ThreeCommits ==
  ASSUME NEW S, NEW x \in S, NEW y \in S, NEW z \in S
  PROVE  /\ <<x, y, z>> \in Seq(S) /\ <<x, y, z>> # <<>> /\ DOMAIN <<x, y, z>> = {1, 2, 3}
         /\ <<x, y, z>>[1] = x /\ <<x, y, z>>[2] = y /\ <<x, y, z>>[3] = z
         /\ <<x>> \o <<y, z>> = <<x, y, z>>
<1> DEFINE s == <<x>>  t == <<y, z>>  u == <<x, y, z>>
<1>1. s \in Seq(S) /\ t \in Seq(S) /\ u \in Seq(S) /\ Len(s) = 1 /\ Len(t) = 2 /\ Len(u) = 3
  OBVIOUS
<1>2. s[1] = x /\ t[1] = y /\ t[2] = z /\ u[1] = x /\ u[2] = y /\ u[3] = z
  OBVIOUS
<1> HIDE DEF s, t, u
<1>3. /\ s \o t \in Seq(S) /\ Len(s \o t) = Len(s) + Len(t)
      /\ \A i \in 1 .. Len(s) + Len(t) :
           (s \o t)[i] = IF i <= Len(s) THEN s[i] ELSE t[i - Len(s)]
  <2>1. s \in Seq(S) /\ t \in Seq(S)
    BY <1>1
  <2> QED BY <2>1, ConcatProperties
<1>4. Len(s \o t) = 3
  BY <1>1, <1>3
<1>5. \A i \in 1 .. 3 : u[i] = (s \o t)[i]
  <2> SUFFICES ASSUME NEW i \in 1 .. 3 PROVE u[i] = (s \o t)[i]
    OBVIOUS
  <2>1. i = 1 \/ i = 2 \/ i = 3
    OBVIOUS
  <2>2. (s \o t)[i] = IF i <= Len(s) THEN s[i] ELSE t[i - Len(s)]
    BY <1>1, <1>3
  <2> QED BY <1>1, <1>2, <2>1, <2>2
<1>6. s \o t = u
  BY <1>1, <1>3, <1>4, <1>5, SeqEqual
<1> QED BY <1>6 DEF s, t, u

LEMMA FourCommits ==
  ASSUME NEW S, NEW x \in S, NEW y \in S, NEW z \in S, NEW w \in S
  PROVE  /\ <<x, y, z, w>> \in Seq(S) /\ <<x, y, z, w>> # <<>>
         /\ DOMAIN <<x, y, z, w>> = {1, 2, 3, 4}
         /\ <<x, y, z, w>>[1] = x /\ <<x, y, z, w>>[2] = y
         /\ <<x, y, z, w>>[3] = z /\ <<x, y, z, w>>[4] = w
         /\ <<x, y>> \o <<z, w>> = <<x, y, z, w>>
<1> DEFINE s == <<x, y>>  t == <<z, w>>  u == <<x, y, z, w>>
<1>1. s \in Seq(S) /\ t \in Seq(S) /\ u \in Seq(S) /\ Len(s) = 2 /\ Len(t) = 2 /\ Len(u) = 4
  OBVIOUS
<1>2. /\ s[1] = x /\ s[2] = y /\ t[1] = z /\ t[2] = w
      /\ u[1] = x /\ u[2] = y /\ u[3] = z /\ u[4] = w
  OBVIOUS
<1> HIDE DEF s, t, u
<1>3. /\ s \o t \in Seq(S) /\ Len(s \o t) = Len(s) + Len(t)
      /\ \A i \in 1 .. Len(s) + Len(t) :
           (s \o t)[i] = IF i <= Len(s) THEN s[i] ELSE t[i - Len(s)]
  <2>1. s \in Seq(S) /\ t \in Seq(S)
    BY <1>1
  <2> QED BY <2>1, ConcatProperties
<1>4. Len(s \o t) = 4
  BY <1>1, <1>3
<1>5. \A i \in 1 .. 4 : u[i] = (s \o t)[i]
  <2> SUFFICES ASSUME NEW i \in 1 .. 4 PROVE u[i] = (s \o t)[i]
    OBVIOUS
  <2>1. i = 1 \/ i = 2 \/ i = 3 \/ i = 4
    OBVIOUS
  <2>2. (s \o t)[i] = IF i <= Len(s) THEN s[i] ELSE t[i - Len(s)]
    BY <1>1, <1>3
  <2> QED BY <1>1, <1>2, <2>1, <2>2
<1>6. s \o t = u
  BY <1>1, <1>3, <1>4, <1>5, SeqEqual
<1> QED BY <1>6 DEF s, t, u

\* A handler that starts keeps what is said of the rows alone.
LEMMA Starts ==
  ASSUME OAuthInv, Grows, rows' = rows, told' = told,
         TypeOK', RequestsKnown', CodesKnown', PairsKnown', CallOK',
         JobIsNew', JobIsBound', JobClears', JobEnds',
         \A b, c \in Binds :
           /\ (Given(<<"code", b>>))' /\ (Given(<<"code", c>>))'
           /\ (bind[b].authorization = bind[c].authorization)'
           => b = c
  PROVE  OAuthInv'
<1>1. CodesAreSingle'
  BY RowsFrame DEF CodesAreSingle
<1> QED BY <1>1, RowsFrame DEF OAuthInv

Entries == [op : {"put", "del"}, row : Rows]

\* register_client and authorize start.
LEMMA RegisterStarts ==
  ASSUME OAuthInv, NEW c \in Clients, Register(c)
  PROVE  OAuthInv'
<1>1. TypeOK /\ RequestsKnown /\ CodesKnown /\ PairsKnown /\ CallOK
  BY DEF OAuthInv
<1>2. /\ job = <<>> /\ job' = <<Put("client", c)>> /\ answer' = <<"client", c>>
      /\ rows' = rows /\ told' = told /\ call' = call /\ sent' = sent
      /\ asked' = asked /\ bind' = bind /\ waiting' = waiting /\ pair' = pair
  BY DEF Register, Handle, calling
<1>3. Put("client", c) \in Entries
  BY DEF Put, Entries, Rows
<1>4. job' \in Seq(Entries) /\ job' # <<>> /\ DOMAIN job' = {1} /\ job'[1] = Put("client", c)
  BY <1>2, <1>3, OneCommit
<1>5. Grows
  BY <1>2 DEF Grows
<1>6. TypeOK' /\ CallOK'
  BY <1>1, <1>2, <1>4 DEF TypeOK, Entries, CallOK, Subject
<1>7. RequestsKnown'
  BY <1>1, <1>2 DEF RequestsKnown, Given, Owes
<1>8. CodesKnown'
  BY <1>1, <1>2 DEF CodesKnown, Given, Owes, Stored
<1>9. PairsKnown'
  BY <1>1, <1>2 DEF PairsKnown, Given, Owes, Stored
<1>10. JobIsNew' /\ JobIsBound' /\ JobClears'
  BY <1>4 DEF JobIsNew, JobIsBound, JobClears, HasKey, Rivals, Put, Tokens
<1>11. JobEnds'
  BY <1>2 DEF JobEnds, Owes
<1>12. \A b \in Binds : (Given(<<"code", b>>))' => Given(<<"code", b>>)
  BY <1>2 DEF Given, Owes
<1> QED BY <1>2, <1>5, <1>6, <1>7, <1>8, <1>9, <1>10, <1>11, <1>12, CodesFrame, Starts

LEMMA AuthorizeStarts ==
  ASSUME OAuthInv, NEW a \in Authorizations, NEW c \in Clients, NEW scopes \in AskedScopes,
         Authorize(a, c, scopes)
  PROVE  OAuthInv'
<1> DEFINE q == [client |-> c, scopes |-> scopes]
<1>1. TypeOK /\ RequestsKnown /\ CodesKnown /\ PairsKnown /\ CallOK
  BY DEF OAuthInv
<1>2. /\ job = <<>> /\ job' = <<Put("pending", a)>> /\ answer' = <<"url", a>> /\ asked[a] = Null
      /\ rows' = rows /\ told' = told /\ call' = call /\ sent' = sent
      /\ asked' = [asked EXCEPT ![a] = q]
      /\ bind' = bind /\ waiting' = waiting /\ pair' = pair
  BY DEF Authorize, Handle, calling
<1>3. Put("pending", a) \in Entries
  BY DEF Put, Entries, Rows
<1>4. job' \in Seq(Entries) /\ job' # <<>> /\ DOMAIN job' = {1} /\ job'[1] = Put("pending", a)
  BY <1>2, <1>3, OneCommit
<1>5. /\ q \in Requests /\ q # Null /\ asked'[a] = q
      /\ \A d \in Authorizations : d # a => asked'[d] = asked[d]
      /\ asked' \in [Authorizations -> Requests \cup {Null}]
  <2>1. q \in Requests /\ q # Null
    BY OAuthAssumption DEF Requests
  <2> QED BY <1>1, <1>2, <2>1 DEF TypeOK
<1>6. <<"url", a>> \notin told
  BY <1>1, <1>2 DEF RequestsKnown, Given
<1>7. Grows
  BY <1>2, <1>5 DEF Grows
<1>8. TypeOK' /\ CallOK'
  BY <1>1, <1>2, <1>4, <1>5 DEF TypeOK, Entries, CallOK, Subject
<1>9. RequestsKnown'
  BY <1>1, <1>2, <1>5 DEF RequestsKnown, Given, Owes
<1>10. CodesKnown'
  BY <1>1, <1>2 DEF CodesKnown, Given, Owes, Stored
<1>11. PairsKnown'
  <2> SUFFICES ASSUME NEW g \in Grants, pair[g] # Null
               PROVE  asked'[bind[pair[g].bind].authorization]
                        = asked[bind[pair[g].bind].authorization]
    BY <1>1, <1>2 DEF PairsKnown, Given, Owes, Stored
  <2>1. pair[g].bind \in Binds /\ bind[pair[g].bind] # Null
    BY <1>1 DEF TypeOK, Pairs, PairsKnown, CodesKnown, Given
  <2>2. bind[pair[g].bind].authorization \in Authorizations
    BY <1>1, <2>1 DEF TypeOK, Bindings
  <2>3. bind[pair[g].bind].authorization # a
    BY <1>1, <1>6, <2>1 DEF RequestsKnown
  <2> QED BY <1>5, <2>2, <2>3
<1>12. JobIsNew'
  BY <1>2, <1>4, <1>6 DEF JobIsNew, Put, Tokens
<1>13. JobIsBound' /\ JobClears'
  BY <1>4 DEF JobIsBound, JobClears, HasKey, Rivals, Put, Tokens
<1>14. JobEnds'
  BY <1>2 DEF JobEnds, Owes
<1>15. \A b \in Binds : (Given(<<"code", b>>))' => Given(<<"code", b>>)
  BY <1>2 DEF Given, Owes
<1> QED BY <1>2, <1>7, <1>8, <1>9, <1>10, <1>11, <1>12, <1>13, <1>14, <1>15, CodesFrame, Starts

\* complete_binding goes on after the validator: the request is still there, so
\* no code was given for it.
LEMMA BindStartsJob ==
  ASSUME OAuthInv, NEW b \in Binds, BindSucceeds(b)
  PROVE  OAuthInv'
<1> DEFINE a == bind[b].authorization  k == bind[b].key
<1>1. TypeOK /\ RequestsKnown /\ CodesKnown /\ PairsKnown /\ CallOK /\ CodesAreSingle
  BY DEF OAuthInv
<1>2. /\ job = <<>> /\ job' = <<Del("pending", a), Put("binding", k), Put("code", b)>>
      /\ answer' = <<"code", b>> /\ b \in waiting /\ Stored("pending", a)
      /\ rows' = rows /\ told' = told /\ call' = call /\ sent' = sent
      /\ asked' = asked /\ bind' = bind /\ waiting' = waiting \ {b} /\ pair' = pair
  BY DEF BindSucceeds, BindCommits, Handle, calling
<1>3. bind[b] # Null /\ a \in Authorizations /\ k \in Keys /\ <<"code", b>> \notin told
  BY <1>1, <1>2 DEF TypeOK, CodesKnown, Bindings, Given
<1>4. Del("pending", a) \in Entries /\ Put("binding", k) \in Entries /\ Put("code", b) \in Entries
  BY <1>3 DEF Put, Del, Entries, Rows
<1>5. /\ job' \in Seq(Entries) /\ job' # <<>> /\ DOMAIN job' = {1, 2, 3}
      /\ job'[1] = Del("pending", a) /\ job'[2] = Put("binding", k) /\ job'[3] = Put("code", b)
  BY <1>2, <1>4, ThreeCommits
<1>6. Grows
  BY <1>2 DEF Grows
<1>7. TypeOK' /\ CallOK'
  BY <1>1, <1>2, <1>5 DEF TypeOK, Entries, CallOK, Subject
<1>8. RequestsKnown'
  BY <1>1, <1>2 DEF RequestsKnown, Given, Owes
<1>9. CodesKnown'
  BY <1>1, <1>2, <1>3 DEF CodesKnown, Given, Owes, Stored
<1>10. PairsKnown'
  BY <1>1, <1>2 DEF PairsKnown, Given, Owes, Stored
<1>11. JobIsNew'
  BY <1>2, <1>3, <1>5 DEF JobIsNew, Put, Del, Tokens
<1>12. JobIsBound'
  <2>1. (KeyOfRow(<<"code", b>>))' = k
    BY <1>2 DEF KeyOfRow
  <2>2. 2 \in 1 .. 3 - 1
    OBVIOUS
  <2> QED BY <1>5, <2>1, <2>2 DEF JobIsBound, HasKey, Put, Del, Tokens
<1>13. JobClears'
  <2>1. ASSUME NEW s \in rows, (Rivals(<<"code", b>>, s))' PROVE FALSE
    <3>1. HasKey(s) /\ s[1] # "code" /\ pair[s[2]].bind = b
      BY <1>2, <2>1 DEF Rivals, HasKey, BindOfRow
    <3>2. s[2] \in Grants /\ pair[s[2]] # Null
      BY <1>6, <3>1, RowStays
    <3> QED BY <1>1, <1>3, <3>1, <3>2 DEF PairsKnown
  <2>2. ~(Rivals(<<"code", b>>, <<"code", b>>))' /\ ~(Rivals(<<"code", b>>, <<"binding", k>>))'
    BY DEF Rivals, HasKey, Tokens
  <2>3. \A s : ~(Rivals(<<"binding", k>>, s))'
    BY DEF Rivals, HasKey, Tokens
  <2> QED BY <1>2, <1>5, <2>1, <2>2, <2>3 DEF JobClears, Put, Del
<1>14. JobEnds'
  BY <1>2, <1>5 DEF JobEnds, Owes, Leaves
<1>15. ASSUME NEW c \in Binds, <<"code", c>> \in told PROVE bind[c].authorization # a
  BY <1>1, <1>2, <1>15 DEF CodesAreSingle
<1>16. \A c \in Binds : (Given(<<"code", c>>))' => <<"code", c>> \in told \/ c = b
  BY <1>2 DEF Given, Owes
<1>17. \A c, d \in Binds :
         /\ (Given(<<"code", c>>))' /\ (Given(<<"code", d>>))'
         /\ (bind[c].authorization = bind[d].authorization)'
         => c = d
  BY <1>1, <1>2, <1>15, <1>16 DEF CodesAreSingle, Given
<1> QED BY <1>2, <1>6, <1>7, <1>8, <1>9, <1>10, <1>11, <1>12, <1>13, <1>14, <1>17, Starts

\* What a new pair makes of the history.
LEMMA NewPair ==
  ASSUME OAuthInv, NEW g \in Grants, NEW p \in Pairs, pair[g] = Null,
         job = <<>>, job' # <<>>, job' \in Seq(Entries), answer' = <<"pair", g>>,
         pair' = [pair EXCEPT ![g] = p],
         rows' = rows /\ told' = told /\ call' = call /\ sent' = sent,
         asked' = asked /\ bind' = bind /\ waiting' = waiting,
         <<"code", p.bind>> \in told,
         p.scopes \subseteq asked[bind[p.bind].authorization].scopes,
         p.parent # Null => <<"pair", p.parent>> \in told
  PROVE  /\ Grows /\ TypeOK' /\ CallOK' /\ RequestsKnown' /\ CodesKnown' /\ PairsKnown'
         /\ pair'[g] = p /\ <<"pair", g>> \notin told
         /\ \A b \in Binds : (Given(<<"code", b>>))' => Given(<<"code", b>>)
<1>1. TypeOK /\ RequestsKnown /\ CodesKnown /\ PairsKnown /\ CallOK
  BY DEF OAuthInv
<1>2. /\ pair'[g] = p /\ p # Null /\ \A h \in Grants : h # g => pair'[h] = pair[h]
      /\ pair' \in [Grants -> Pairs \cup {Null}]
  BY <1>1, OAuthAssumption DEF TypeOK
<1>3. Grows
  BY <1>2 DEF Grows
<1>4. <<"pair", g>> \notin told
  BY <1>1 DEF PairsKnown, Given
<1>5. TypeOK'
  BY <1>1, <1>2 DEF TypeOK, Entries
<1>6. CallOK'
  <2>1. call # Null => call \in Grants /\ pair'[call] = pair[call]
    BY <1>1, <1>2, <1>4 DEF TypeOK, CallOK
  <2> QED BY <1>1, <2>1 DEF CallOK, Subject
<1>7. RequestsKnown' /\ CodesKnown'
  <2>1. RequestsKnown'
    BY <1>1 DEF RequestsKnown, Given, Owes
  <2>2. CodesKnown'
    BY <1>1 DEF CodesKnown, Given, Owes, Stored
  <2> QED BY <2>1, <2>2
<1>8. PairsKnown'
  BY <1>1, <1>2 DEF PairsKnown, Given, Owes, Stored
<1>9. \A b \in Binds : (Given(<<"code", b>>))' => Given(<<"code", b>>)
  BY DEF Given, Owes
<1> QED BY <1>2, <1>3, <1>4, <1>5, <1>6, <1>7, <1>8, <1>9

\* exchange_authorization_code starts: as the code is stored, no token of it is.
LEMMA ExchangeCodeStarts ==
  ASSUME OAuthInv, NEW g \in Grants, NEW b \in Binds, ExchangeCode(g, b)
  PROVE  OAuthInv'
<1> DEFINE p == [bind |-> b, parent |-> Null, scopes |-> asked[bind[b].authorization].scopes]
<1>1. TypeOK /\ RequestsKnown /\ CodesKnown /\ PairsKnown /\ CallOK /\ NoRivals
  BY DEF OAuthInv
<1>2. /\ job = <<>> /\ answer' = <<"pair", g>>
      /\ job' = <<Del("code", b)>> \o <<Put("access", g), Put("refresh", g)>>
      /\ <<"code", b>> \in told /\ pair[g] = Null /\ Stored("code", b)
      /\ Stored("binding", bind[b].key) /\ pair' = [pair EXCEPT ![g] = p]
      /\ rows' = rows /\ told' = told /\ call' = call /\ sent' = sent
      /\ asked' = asked /\ bind' = bind /\ waiting' = waiting
  BY DEF ExchangeCode, CodeCommits, PairCommits, Handle, calling
<1>3. p \in Pairs
  <2>1. bind[b] # Null /\ bind[b].authorization \in Authorizations
    BY <1>1, <1>2 DEF TypeOK, CodesKnown, Given, Bindings
  <2>2. asked[bind[b].authorization] # Null
    BY <1>1, <2>1 DEF RequestsKnown, Given
  <2> QED BY <1>1, <2>1, <2>2 DEF TypeOK, Requests, Pairs
<1>4. Del("code", b) \in Entries /\ Put("access", g) \in Entries /\ Put("refresh", g) \in Entries
  BY DEF Put, Del, Entries, Rows, Tokens
<1>5. /\ job' \in Seq(Entries) /\ job' # <<>> /\ DOMAIN job' = {1, 2, 3}
      /\ job'[1] = Del("code", b) /\ job'[2] = Put("access", g) /\ job'[3] = Put("refresh", g)
  BY <1>2, <1>4, ThreeCommits
<1>6. /\ Grows /\ TypeOK' /\ CallOK' /\ RequestsKnown' /\ CodesKnown' /\ PairsKnown'
      /\ pair'[g] = p /\ <<"pair", g>> \notin told
      /\ \A c \in Binds : (Given(<<"code", c>>))' => Given(<<"code", c>>)
  <2>1. p.bind = b /\ p.parent = Null /\ p.scopes = asked[bind[b].authorization].scopes
    OBVIOUS
  <2> HIDE DEF p
  <2> QED BY <1>2, <1>3, <1>5, <2>1, NewPair
<1>7. JobIsNew'
  BY <1>2, <1>5, <1>6 DEF JobIsNew, Put, Del, Tokens
<1>8. JobIsBound'
  <2>1. ASSUME NEW kind \in Tokens PROVE (Stored("binding", KeyOfRow(<<kind, g>>)))'
    BY <1>2, <1>6 DEF KeyOfRow, Subject, Stored, Tokens
  <2>2. ASSUME NEW i \in DOMAIN job', job'[i].op = "put"
        PROVE  job'[i].row = <<"access", g>> \/ job'[i].row = <<"refresh", g>>
    BY <1>5, <2>2 DEF Put, Del
  <2>3. "access" \in Tokens /\ "refresh" \in Tokens
    BY DEF Tokens
  <2>4. \A i \in DOMAIN job' : job'[i].op = "put" => (Stored("binding", KeyOfRow(job[i].row)))'
    BY <2>1, <2>2, <2>3
  <2> QED BY <2>4 DEF JobIsBound
<1>9. JobClears'
  <2>1. ASSUME NEW kind \in Tokens, NEW s \in rows, (Rivals(<<kind, g>>, s))'
        PROVE  s = <<"code", b>>
    <3>1. HasKey(s) /\ (BindOfRow(s))' = b
      BY <1>6, <2>1 DEF Rivals, HasKey, BindOfRow, Tokens
    <3>2. BindOfRow(s) = b
      BY <1>6, <3>1, RowStays
    <3>3. s[1] = "code"
      BY <1>1, <1>2, <3>1, <3>2 DEF NoRivals, Rivals, HasKey, BindOfRow, Stored
    <3> QED BY <1>1, <3>2, <3>3 DEF BindOfRow, TypeOK, Rows
  <2>2. ASSUME NEW k1 \in Tokens, NEW k2 \in Tokens PROVE ~(Rivals(<<k1, g>>, <<k2, g>>))'
    BY DEF Rivals, Tokens
  <2>3. ASSUME NEW i \in DOMAIN job', job'[i].op = "put"
        PROVE  \E kind \in Tokens : job'[i].row = <<kind, g>>
    BY <1>5, <2>3 DEF Put, Del, Tokens
  <2>4. ASSUME NEW i \in DOMAIN job', job'[i].op = "put"
        PROVE  1 \in 1 .. i - 1
    BY <1>5, <2>4 DEF Put, Del
  <2>5. job'[1] = [op |-> "del", row |-> <<"code", b>>]
    BY <1>5 DEF Del
  <2>6. ASSUME NEW i \in DOMAIN job', job'[i].op = "put", NEW s \in rows',
               (Rivals(job[i].row, s))'
        PROVE  \E j \in 1 .. i - 1 : job'[j] = [op |-> "del", row |-> s]
    <3>1. PICK kind \in Tokens : job'[i].row = <<kind, g>>
      BY <2>3, <2>6
    <3>2. s = <<"code", b>>
      BY <1>2, <2>1, <2>6, <3>1
    <3> QED BY <2>4, <2>5, <2>6, <3>2
  <2>7. ASSUME NEW i \in DOMAIN job', job'[i].op = "put",
               NEW j \in DOMAIN job', job'[j].op = "put"
        PROVE  ~(Rivals(job[i].row, job[j].row))'
    BY <2>2, <2>3, <2>7
  <2> QED BY <2>6, <2>7 DEF JobClears
<1>10. JobEnds'
  BY <1>2, <1>6 DEF JobEnds, Owes
<1> QED BY <1>2, <1>6, <1>7, <1>8, <1>9, <1>10, CodesFrame, Starts

\* exchange_refresh_token starts: as the refresh token is stored, the only other
\* row of its code is the access token paired with it.
LEMMA ExchangeRefreshStarts ==
  ASSUME OAuthInv, NEW g \in Grants, NEW old \in Grants, NEW scopes \in AskedScopes,
         ExchangeRefresh(g, old, scopes)
  PROVE  OAuthInv'
<1> DEFINE p == [bind |-> pair[old].bind, parent |-> old, scopes |-> scopes]
<1>1. TypeOK /\ RequestsKnown /\ CodesKnown /\ PairsKnown /\ CallOK /\ NoRivals /\ TokensAreBound
  BY DEF OAuthInv
<1>2. /\ job = <<>> /\ answer' = <<"pair", g>>
      /\ job' = <<Del("refresh", old), Del("access", old)>> \o <<Put("access", g), Put("refresh", g)>>
      /\ <<"pair", old>> \in told /\ pair[g] = Null /\ Stored("refresh", old)
      /\ scopes \subseteq pair[old].scopes /\ pair' = [pair EXCEPT ![g] = p]
      /\ rows' = rows /\ told' = told /\ call' = call /\ sent' = sent
      /\ asked' = asked /\ bind' = bind /\ waiting' = waiting
  BY DEF ExchangeRefresh, RotateCommits, PairCommits, ScopeAllowed, Handle, calling
<1>3. pair[old] # Null /\ pair[old].bind \in Binds /\ p \in Pairs /\ old # Null
  BY <1>1, <1>2, OAuthAssumption DEF TypeOK, PairsKnown, Given, Pairs
<1>4. /\ Del("refresh", old) \in Entries /\ Del("access", old) \in Entries
      /\ Put("access", g) \in Entries /\ Put("refresh", g) \in Entries
  BY DEF Put, Del, Entries, Rows, Tokens
<1>5. /\ job' \in Seq(Entries) /\ job' # <<>> /\ DOMAIN job' = {1, 2, 3, 4}
      /\ job'[1] = Del("refresh", old) /\ job'[2] = Del("access", old)
      /\ job'[3] = Put("access", g) /\ job'[4] = Put("refresh", g)
  BY <1>2, <1>4, FourCommits
<1>6. /\ Grows /\ TypeOK' /\ CallOK' /\ RequestsKnown' /\ CodesKnown' /\ PairsKnown'
      /\ pair'[g] = p /\ <<"pair", g>> \notin told
      /\ \A c \in Binds : (Given(<<"code", c>>))' => Given(<<"code", c>>)
  <2>1. p.bind = pair[old].bind /\ p.parent = old /\ p.scopes = scopes
    OBVIOUS
  <2> HIDE DEF p
  <2>2. p.scopes \subseteq asked[bind[p.bind].authorization].scopes /\ <<"code", p.bind>> \in told
    BY <1>1, <1>2, <1>3, <2>1 DEF PairsKnown
  <2> QED BY <1>2, <1>3, <1>5, <2>1, <2>2, NewPair
<1>7. <<"refresh", old>> \in rows /\ HasKey(<<"refresh", old>>)
      /\ BindOfRow(<<"refresh", old>>) = pair[old].bind
  BY <1>2 DEF Stored, HasKey, BindOfRow, Tokens
<1>8. JobIsNew'
  BY <1>2, <1>5, <1>6 DEF JobIsNew, Put, Del, Tokens
<1>9. JobIsBound'
  <2>1. Stored("binding", Subject(old))
    BY <1>1, <1>7 DEF TokensAreBound, KeyOfRow
  <2>2. ASSUME NEW kind \in Tokens PROVE (Stored("binding", KeyOfRow(<<kind, g>>)))'
    BY <1>2, <1>6, <2>1 DEF KeyOfRow, Subject, Stored, Tokens
  <2>3. ASSUME NEW i \in DOMAIN job', job'[i].op = "put"
        PROVE  job'[i].row = <<"access", g>> \/ job'[i].row = <<"refresh", g>>
    BY <1>5, <2>3 DEF Put, Del
  <2>4. "access" \in Tokens /\ "refresh" \in Tokens
    BY DEF Tokens
  <2>5. \A i \in DOMAIN job' : job'[i].op = "put" => (Stored("binding", KeyOfRow(job[i].row)))'
    BY <2>2, <2>3, <2>4
  <2> QED BY <2>5 DEF JobIsBound
<1>10. JobClears'
  <2>1. ASSUME NEW kind \in Tokens, NEW s \in rows, (Rivals(<<kind, g>>, s))'
        PROVE  s = <<"refresh", old>> \/ s = <<"access", old>>
    <3>1. HasKey(s) /\ (BindOfRow(s))' = pair[old].bind
      BY <1>6, <2>1 DEF Rivals, HasKey, BindOfRow, Tokens
    <3>2. BindOfRow(s) = pair[old].bind
      BY <1>6, <3>1, RowStays
    <3>3. ~Rivals(<<"refresh", old>>, s)
      BY <1>1, <1>7 DEF NoRivals
    <3>4. s[1] # "code" /\ s[2] = old
      BY <1>7, <3>1, <3>2, <3>3 DEF Rivals
    <3>5. s[1] \in Tokens /\ s = <<s[1], s[2]>>
      BY <1>1, <3>1, <3>4 DEF HasKey, TypeOK, Rows
    <3> QED BY <3>4, <3>5 DEF Tokens
  <2>2. ASSUME NEW k1 \in Tokens, NEW k2 \in Tokens PROVE ~(Rivals(<<k1, g>>, <<k2, g>>))'
    BY DEF Rivals, Tokens
  <2>3. ASSUME NEW i \in DOMAIN job', job'[i].op = "put"
        PROVE  \E kind \in Tokens : job'[i].row = <<kind, g>>
    BY <1>5, <2>3 DEF Put, Del, Tokens
  <2>4. ASSUME NEW i \in DOMAIN job', job'[i].op = "put"
        PROVE  1 \in 1 .. i - 1 /\ 2 \in 1 .. i - 1
    BY <1>5, <2>4 DEF Put, Del
  <2>5. /\ job'[1] = [op |-> "del", row |-> <<"refresh", old>>]
        /\ job'[2] = [op |-> "del", row |-> <<"access", old>>]
    BY <1>5 DEF Del
  <2>6. ASSUME NEW i \in DOMAIN job', job'[i].op = "put", NEW s \in rows',
               (Rivals(job[i].row, s))'
        PROVE  \E j \in 1 .. i - 1 : job'[j] = [op |-> "del", row |-> s]
    <3>1. PICK kind \in Tokens : job'[i].row = <<kind, g>>
      BY <2>3, <2>6
    <3>2. s = <<"refresh", old>> \/ s = <<"access", old>>
      BY <1>2, <2>1, <2>6, <3>1
    <3> QED BY <2>4, <2>5, <2>6, <3>2
  <2>7. ASSUME NEW i \in DOMAIN job', job'[i].op = "put",
               NEW j \in DOMAIN job', job'[j].op = "put"
        PROVE  ~(Rivals(job[i].row, job[j].row))'
    BY <2>2, <2>3, <2>7
  <2> QED BY <2>6, <2>7 DEF JobClears
<1>11. JobEnds'
  <2>1. \A h \in Grants : (Owes(<<"pair", h>>))' => h = g
    BY <1>2 DEF Owes
  <2>2. \A kind \in Tokens : (Leaves(kind, old))'
    BY <1>5 DEF Leaves, Tokens
  <2>3. \A b \in Binds : ~(Owes(<<"code", b>>))'
    BY <1>2 DEF Owes
  <2>4. \A x : ~(Owes(<<"revoked", x>>))'
    BY <1>2 DEF Owes
  <2>5. pair'[g].parent = old
    BY <1>6
  <2> QED BY <2>1, <2>2, <2>3, <2>4, <2>5 DEF JobEnds, Leaves
<1> QED BY <1>2, <1>6, <1>8, <1>9, <1>10, <1>11, CodesFrame, Starts

\* A revocation or a refused refresh starts: it deletes both tokens.
LEMMA DeletionStarts ==
  ASSUME OAuthInv, NEW g \in Grants,
         \/ \E scopes \in AskedScopes : RefuseWiderScope(g, scopes)
         \/ \E kind \in Tokens : Revoke(kind, g)
  PROVE  OAuthInv'
<1>1. TypeOK /\ RequestsKnown /\ CodesKnown /\ PairsKnown /\ CallOK
  BY DEF OAuthInv
<1>2. \E k1 \in Tokens, k2 \in Tokens :
        k1 # k2 /\ job' = <<Del(k1, g), Del(k2, g)>>
  BY DEF RefuseWiderScope, Revoke, Handle, Tokens
<1>3. PICK k1 \in Tokens, k2 \in Tokens : k1 # k2 /\ job' = <<Del(k1, g), Del(k2, g)>>
  BY <1>2
<1>4. /\ job = <<>> /\ answer' \in {<<"refused", g>>, <<"revoked", <<g, Tokens>>>>} /\ <<"pair", g>> \in told
      /\ rows' = rows /\ told' = told /\ call' = call /\ sent' = sent
      /\ asked' = asked /\ bind' = bind /\ waiting' = waiting /\ pair' = pair
  BY DEF RefuseWiderScope, Revoke, Handle, calling
<1>5. Del(k1, g) \in Entries /\ Del(k2, g) \in Entries
  BY DEF Del, Entries, Rows
<1>6. /\ job' \in Seq(Entries) /\ job' # <<>> /\ DOMAIN job' = {1, 2}
      /\ job'[1] = Del(k1, g) /\ job'[2] = Del(k2, g)
  BY <1>3, <1>5, TwoCommits
<1>7. Grows
  BY <1>4 DEF Grows
<1>8. TypeOK' /\ CallOK'
  BY <1>1, <1>4, <1>6 DEF TypeOK, Entries, CallOK, Subject
<1>9. /\ \A a \in Authorizations : ~(Owes(<<"url", a>>))'
      /\ \A b \in Binds : ~(Owes(<<"code", b>>))'
      /\ \A h \in Grants : ~(Owes(<<"pair", h>>))'
      /\ \A h \in Grants : \A gone : (Owes(<<"revoked", <<h, gone>>>>))' => h = g
  BY <1>4 DEF Owes
<1>10. RequestsKnown'
  BY <1>1, <1>4, <1>9 DEF RequestsKnown, Given
<1>11. CodesKnown'
  BY <1>1, <1>4, <1>9 DEF CodesKnown, Given, Stored
<1>12. PairsKnown'
  <2>1. \A h \in Grants : (Given(<<"pair", h>>))' => Given(<<"pair", h>>)
    BY <1>4, <1>9 DEF Given
  <2>2. \A h \in Grants, gone \in SUBSET Tokens :
          (Given(<<"revoked", <<h, gone>>>>))' => <<"pair", h>> \in told
    BY <1>1, <1>4, <1>9 DEF Given, PairsKnown
  <2>3. \A h \in Grants, kind \in Tokens : (Stored(kind, h))' => Stored(kind, h)
    BY <1>4 DEF Stored
  <2> QED BY <1>1, <1>4, <2>1, <2>2, <2>3 DEF PairsKnown
<1>13. JobIsNew' /\ JobIsBound' /\ JobClears'
  BY <1>6 DEF JobIsNew, JobIsBound, JobClears, Del, Tokens
<1>14. JobEnds'
  <2>1. \A kind \in Tokens : (Leaves(kind, g))'
    BY <1>3, <1>6 DEF Leaves, Tokens
  <2> QED BY <1>9, <2>1 DEF JobEnds
<1>15. \A b \in Binds : (Given(<<"code", b>>))' => Given(<<"code", b>>)
  BY <1>4 DEF Given, Owes
<1> QED BY <1>4, <1>7, <1>8, <1>10, <1>11, <1>12, <1>13, <1>14, <1>15, CodesFrame, Starts

\* A revocation that misses its token only answers.
LEMMA MissKeepsInv ==
  ASSUME OAuthInv, NEW kind \in Tokens, NEW g \in Grants, RevokeMisses(kind, g)
  PROVE  OAuthInv'
<1> DEFINE x == <<"revoked", <<g, {kind}>>>>
<1>1. /\ TypeOK /\ RequestsKnown /\ CodesKnown /\ PairsKnown /\ CallOK
      /\ NoRivals /\ CodesAreSingle /\ TokensAreBound /\ DeadStaysDead
  BY DEF OAuthInv
<1>2. /\ job = <<>> /\ <<"pair", g>> \in told /\ ~Stored(kind, g) /\ told' = told \cup {x}
      /\ rows' = rows /\ asked' = asked /\ bind' = bind /\ waiting' = waiting
      /\ pair' = pair /\ job' = <<>> /\ call' = call /\ sent' = sent
  BY DEF RevokeMisses, calling
<1>3. ASSUME NEW sort \in {"url", "code", "pair"}, NEW key
      PROVE  /\ <<sort, key>> \in told' <=> <<sort, key>> \in told
             /\ (Given(<<sort, key>>))' <=> Given(<<sort, key>>)
  <2>1. <<sort, key>> # x
    OBVIOUS
  <2> QED BY <1>2, <2>1 DEF Given, Owes
<1>4. ASSUME NEW h \in Grants, NEW gone \in SUBSET Tokens,
             (Given(<<"revoked", <<h, gone>>>>))'
      PROVE  Given(<<"revoked", <<h, gone>>>>) \/ (h = g /\ gone = {kind})
  BY <1>2, <1>4 DEF Given, Owes
<1>5. TypeOK' /\ CallOK'
  BY <1>1, <1>2 DEF TypeOK, CallOK, Subject
<1>6. RequestsKnown' /\ CodesKnown'
  BY <1>1, <1>2, <1>3 DEF RequestsKnown, CodesKnown, Stored
<1>7. PairsKnown'
  BY <1>1, <1>2, <1>3, <1>4 DEF PairsKnown, Stored
<1>8. JobIsNew' /\ JobIsBound' /\ JobClears' /\ JobEnds'
  BY <1>2 DEF JobIsNew, JobIsBound, JobClears, JobEnds, Owes
<1>9. NoRivals' /\ TokensAreBound'
  BY <1>1, <1>2
     DEF NoRivals, Rivals, BindOfRow, HasKey, TokensAreBound, Stored, KeyOfRow, Subject
<1>10. CodesAreSingle'
  BY <1>1, <1>2, <1>3 DEF CodesAreSingle, Stored
<1>11. DeadStaysDead'
  <2>1. ASSUME NEW h \in Grants, NEW gone \in SUBSET Tokens, NEW k \in gone,
               <<"revoked", <<h, gone>>>> \in told'
        PROVE  ~(Stored(k, h))'
    <3>1. <<"revoked", <<h, gone>>>> \in told \/ (h = g /\ gone = {kind})
      BY <1>2, <2>1
    <3> QED BY <1>1, <1>2, <2>1, <3>1 DEF DeadStaysDead, Stored
  <2>2. ASSUME NEW h \in Grants, NEW i \in Grants \ {h}, <<"pair", i>> \in told',
               pair[i].parent = h
        PROVE  ~(Stored("access", h))' /\ ~(Stored("refresh", h))'
    BY <1>1, <1>2, <1>3, <2>2 DEF DeadStaysDead, Stored
  <2> QED BY <1>2, <2>1, <2>2 DEF DeadStaysDead
<1> QED BY <1>5, <1>6, <1>7, <1>8, <1>9, <1>10, <1>11 DEF OAuthInv

\* What one commit does.
LEMMA CommitFacts ==
  ASSUME OAuthInv, Commit
  PROVE  /\ Len(job) \in Nat /\ DOMAIN job = 1 .. Len(job) /\ 1 \in DOMAIN job
         /\ job[1].op \in {"put", "del"} /\ job[1].row \in Rows
         /\ job' \in Seq(Entries) /\ DOMAIN job' = 1 .. Len(job) - 1
         /\ \A i \in DOMAIN job' : i + 1 \in DOMAIN job /\ job'[i] = job[i + 1]
         /\ job' # <<>> => told' = told /\ answer' = answer /\ Len(job) > 1
         /\ job' = <<>> => told' = told \cup {answer} /\ DOMAIN job = {1}
         /\ \A row : row \in rows' <=>
            (row \in rows /\ ~(job[1].op = "del" /\ job[1].row = row))
            \/ (job[1].op = "put" /\ job[1].row = row)
         /\ asked' = asked /\ bind' = bind /\ waiting' = waiting /\ pair' = pair
         /\ call' = call /\ sent' = sent
<1>1. job \in Seq(Entries) /\ job # <<>>
  BY DEF OAuthInv, TypeOK, Commit, Entries
<1>2. /\ Head(job) = job[1] /\ job' = Tail(job)
      /\ Len(job) \in Nat /\ Len(job) >= 1 /\ DOMAIN job = 1 .. Len(job)
      /\ Tail(job) \in Seq(Entries) /\ Len(Tail(job)) = Len(job) - 1
      /\ \A i \in 1 .. Len(Tail(job)) : Tail(job)[i] = job[i + 1]
  <2>1. job' = Tail(job)
    BY DEF Commit
  <2>2. Len(job) \in Nat /\ Len(job) >= 1 /\ DOMAIN job = 1 .. Len(job)
    BY <1>1, EmptySeq, LenProperties
  <2> QED BY <1>1, <2>1, <2>2, HeadTailProperties
<1>3. 1 \in DOMAIN job /\ job[1] \in Entries
  BY <1>1, <1>2, ElementOfSeq
<1>4. job[1].op \in {"put", "del"} /\ job[1].row \in Rows
  BY <1>3 DEF Entries
<1>5. DOMAIN job' = 1 .. Len(job) - 1
  BY <1>2, LenProperties
<1>6. \A i \in DOMAIN job' : i + 1 \in DOMAIN job /\ job'[i] = job[i + 1]
  BY <1>2, <1>5
<1>7. job' = <<>> <=> Len(job) = 1
  <2>1. job' = <<>> <=> Len(job') = 0
    BY <1>2, EmptySeq
  <2> QED BY <1>2, <2>1
<1>8. /\ job' # <<>> => told' = told /\ answer' = answer /\ Len(job) > 1
      /\ job' = <<>> => told' = told \cup {answer} /\ DOMAIN job = {1}
  BY <1>2, <1>7 DEF Commit
<1>9. \A row : row \in rows' <=>
                (row \in rows /\ ~(job[1].op = "del" /\ job[1].row = row))
                \/ (job[1].op = "put" /\ job[1].row = row)
  <2>1. job[1].op = "put" => rows' = rows \cup {job[1].row}
    BY <1>2 DEF Commit
  <2>2. job[1].op = "del" => rows' = rows \ {job[1].row}
    BY <1>2 DEF Commit
  <2>3. ASSUME NEW row
        PROVE  row \in rows' <=>
            (row \in rows /\ ~(job[1].op = "del" /\ job[1].row = row))
            \/ (job[1].op = "put" /\ job[1].row = row)
    <3>1. CASE job[1].op = "put"
      BY <2>1, <3>1
    <3>2. CASE job[1].op = "del"
      BY <2>2, <3>2
    <3> QED BY <1>4, <3>1, <3>2
  <2> QED BY <2>3
<1>10. /\ asked' = asked /\ bind' = bind /\ waiting' = waiting /\ pair' = pair
       /\ call' = call /\ sent' = sent
  BY DEF Commit, calling
<1> QED BY <1>2, <1>3, <1>4, <1>5, <1>6, <1>8, <1>9, <1>10

\* What a commit makes of the answers.
LEMMA CommitAnswers ==
  ASSUME OAuthInv, Commit, NEW x
  PROVE  /\ (Given(x))' => Given(x)
         /\ (Owes(x))' => Owes(x)
         /\ x \in told => x \in told'
         /\ x \in told' => x \in told \/ (Owes(x) /\ DOMAIN job = {1})
<1>1. job # <<>>
  BY DEF Commit
<1> QED BY <1>1, CommitFacts DEF Given, Owes

\* A row that a commit stores goes with an answer that is still to be given.
LEMMA CommitStores ==
  ASSUME OAuthInv, Commit, NEW kind, NEW key
  PROVE  /\ (Stored(kind, key))' =>
              \/ Stored(kind, key) /\ ~(job[1].op = "del" /\ job[1].row = <<kind, key>>)
              \/ job[1].op = "put" /\ job[1].row = <<kind, key>>
         /\ job[1].op = "put" /\ job[1].row = <<kind, key>> =>
              /\ kind = "pending" => Owes(<<"url", key>>) /\ <<"url", key>> \notin told
              /\ kind = "code" => Owes(<<"code", key>>) /\ <<"code", key>> \notin told
              /\ kind \in Tokens => Owes(<<"pair", key>>) /\ <<"pair", key>> \notin told
<1>1. job # <<>>
  BY DEF Commit
<1>2. JobIsNew
  BY DEF OAuthInv
<1>3. ASSUME job[1].op = "put", job[1].row = <<kind, key>>
      PROVE  /\ kind = "pending" => Owes(<<"url", key>>) /\ <<"url", key>> \notin told
             /\ kind = "code" => Owes(<<"code", key>>) /\ <<"code", key>> \notin told
             /\ kind \in Tokens => Owes(<<"pair", key>>) /\ <<"pair", key>> \notin told
  <2>1. 1 \in DOMAIN job
    BY CommitFacts
  <2>2. job[1].row[1] = kind /\ job[1].row[2] = key
    BY <1>3
  <2> QED BY <1>1, <1>2, <1>3, <2>1, <2>2 DEF JobIsNew, Owes
<1> QED BY <1>3, CommitFacts DEF Stored

\* A commit that gives the last answer leaves what the answer rules out.
LEMMA CommitLeaves ==
  ASSUME OAuthInv, Commit, NEW kind, NEW key, Leaves(kind, key),
         ~(job[1].op = "put" /\ job[1].row = <<kind, key>>)
  PROVE  /\ (Leaves(kind, key))'
         /\ DOMAIN job = {1} => ~(Stored(kind, key))'
<1>1. ASSUME (Stored(kind, key))'
      PROVE  \E i \in DOMAIN job : i # 1 /\ job[i] = Del(kind, key)
  <2>1. Stored(kind, key) /\ ~(job[1].op = "del" /\ job[1].row = <<kind, key>>)
    BY <1>1, CommitStores
  <2>2. PICK i \in DOMAIN job : job[i] = Del(kind, key)
    BY <2>1 DEF Leaves
  <2> QED BY <2>1, <2>2 DEF Del
<1>2. DOMAIN job = {1} => ~(Stored(kind, key))'
  BY <1>1
<1>3. ASSUME (Stored(kind, key))'
      PROVE  \E i \in DOMAIN job' : job'[i] = Del(kind, key)
  <2>1. PICK i \in DOMAIN job : i # 1 /\ job[i] = Del(kind, key)
    BY <1>1, <1>3
  <2>2. i - 1 \in DOMAIN job' /\ (i - 1) + 1 = i
    BY <2>1, CommitFacts
  <2>3. job'[i - 1] = job[i]
    BY <2>2, CommitFacts
  <2> QED BY <2>1, <2>2, <2>3
<1>4. (Leaves(kind, key))'
  BY <1>3 DEF Leaves, Del
<1> QED BY <1>2, <1>4

\* A commit keeps the history.
LEMMA CommitKeepsHistory ==
  ASSUME OAuthInv, Commit
  PROVE  TypeOK' /\ RequestsKnown' /\ CodesKnown' /\ PairsKnown' /\ CallOK'
<1>1. TypeOK /\ RequestsKnown /\ CodesKnown /\ PairsKnown /\ CallOK
  BY DEF OAuthInv
<1>2. /\ asked' = asked /\ bind' = bind /\ waiting' = waiting /\ pair' = pair
      /\ call' = call /\ sent' = sent
  BY CommitFacts
<1>3. TypeOK'
  <2>1. rows' \subseteq Rows
    BY <1>1, CommitFacts DEF TypeOK
  <2>2. job' \in Seq(Entries)
    BY CommitFacts
  <2> QED BY <1>1, <1>2, <2>1, <2>2 DEF TypeOK, Entries
<1>4. RequestsKnown'
  BY <1>1, <1>2, CommitAnswers DEF RequestsKnown
<1>5. CodesKnown'
  <2>1. \A b \in Binds : (Stored("code", b))' => Stored("code", b) \/ Given(<<"code", b>>)
    BY CommitStores DEF Given
  <2> QED BY <1>1, <1>2, <2>1, CommitAnswers DEF CodesKnown
<1>6. PairsKnown'
  <2>1. \A g \in Grants, kind \in Tokens :
          (Stored(kind, g))' => Stored(kind, g) \/ Given(<<"pair", g>>)
    BY CommitStores DEF Given
  <2>2. \A g \in Grants :
          (Given(<<"pair", g>>) \/ (\E kind \in Tokens : Stored(kind, g)) => pair[g] # Null)'
    BY <1>1, <1>2, <2>1, CommitAnswers DEF PairsKnown
  <2>3. \A g \in Grants, gone \in SUBSET Tokens :
          (Given(<<"revoked", <<g, gone>>>>) => <<"pair", g>> \in told)'
    BY <1>1, CommitAnswers DEF PairsKnown
  <2>4. \A g \in Grants : pair[g] # Null =>
          /\ <<"code", pair[g].bind>> \in told'
          /\ pair[g].scopes \subseteq asked[bind[pair[g].bind].authorization].scopes
          /\ pair[g].parent # Null => <<"pair", pair[g].parent>> \in told'
    <3>1. \A x : x \in told => x \in told'
      BY CommitAnswers
    <3> QED BY <1>1, <3>1 DEF PairsKnown
  <2> QED BY <1>2, <2>2, <2>3, <2>4 DEF PairsKnown
<1>7. CallOK'
  <2>1. call # Null => <<"pair", call>> \in told'
    BY <1>1, CommitAnswers DEF CallOK
  <2> QED BY <1>1, <1>2, <2>1 DEF CallOK, Subject
<1> QED BY <1>3, <1>4, <1>5, <1>6, <1>7

\* A commit keeps what is said of the commits ahead.
LEMMA CommitKeepsJob ==
  ASSUME OAuthInv, Commit
  PROVE  JobIsNew' /\ JobIsBound' /\ JobClears' /\ JobEnds'
<1>1. JobIsNew /\ JobIsBound /\ JobClears /\ JobEnds /\ PairsKnown
  BY DEF OAuthInv
<1>2. /\ Len(job) \in Nat /\ DOMAIN job = 1 .. Len(job) /\ 1 \in DOMAIN job
      /\ DOMAIN job' = 1 .. Len(job) - 1
      /\ \A i \in DOMAIN job' : i + 1 \in DOMAIN job /\ job'[i] = job[i + 1]
      /\ bind' = bind /\ pair' = pair
  BY CommitFacts
<1>3. ASSUME NEW i \in DOMAIN job' PROVE told' = told /\ answer' = answer
  <2>1. job' # <<>>
    BY <1>3
  <2> QED BY <2>1, CommitFacts
<1>4. JobIsNew'
  BY <1>1, <1>2, <1>3 DEF JobIsNew
<1>5. JobIsBound'
  <2> SUFFICES ASSUME NEW i \in DOMAIN job', NEW row, row = job'[i].row,
                      job'[i].op = "put", HasKey(row)
               PROVE  \/ <<"binding", KeyOfRow(row)>> \in rows'
                      \/ \E j \in 1 .. i - 1 : job'[j] = Put("binding", KeyOfRow(row))
    BY <1>2 DEF JobIsBound, Stored, KeyOfRow, Subject
  <2>1. \/ <<"binding", KeyOfRow(row)>> \in rows
        \/ \E j \in 1 .. i : job[j] = Put("binding", KeyOfRow(row))
    <3>1. i + 1 \in DOMAIN job /\ job[i + 1].op = "put" /\ job[i + 1].row = row /\ (i + 1) - 1 = i
      BY <1>2
    <3> QED BY <1>1, <3>1 DEF JobIsBound, Stored
  <2>2. <<"binding", KeyOfRow(row)>> \in rows => <<"binding", KeyOfRow(row)>> \in rows'
    <3>1. job[1].op = "del" => job[1].row[1] # "binding"
      BY <1>1, <1>2 DEF JobIsNew, Tokens
    <3>2. \A k : job[1].op = "del" => job[1].row # <<"binding", k>>
      BY <3>1
    <3>3. ASSUME NEW k, <<"binding", k>> \in rows PROVE <<"binding", k>> \in rows'
      BY <3>2, <3>3, CommitFacts
    <3> QED BY <3>3
  <2>3. ASSUME NEW j \in 1 .. i, job[j] = Put("binding", KeyOfRow(row))
        PROVE  \/ <<"binding", KeyOfRow(row)>> \in rows'
               \/ \E m \in 1 .. i - 1 : job'[m] = Put("binding", KeyOfRow(row))
    <3>1. CASE j = 1
      BY <2>3, <3>1, CommitFacts DEF Put
    <3>2. CASE j # 1
      <4>1. j - 1 \in 1 .. i - 1 /\ j - 1 \in DOMAIN job' /\ (j - 1) + 1 = j
        BY <1>2, <3>2
      <4> QED BY <1>2, <2>3, <4>1
    <3> QED BY <3>1, <3>2
  <2> QED BY <2>1, <2>2, <2>3
<1>6. JobClears'
  <2>1. ASSUME NEW r, NEW s PROVE (Rivals(r, s))' <=> Rivals(r, s)
    BY <1>2 DEF Rivals, HasKey, BindOfRow
  <2>2. ASSUME NEW i \in DOMAIN job', NEW r, job'[i].row = r, job'[i].op = "put",
               NEW s \in rows', Rivals(r, s)
        PROVE  \E j \in 1 .. i - 1 : job'[j] = [op |-> "del", row |-> s]
    <3>1. i + 1 \in DOMAIN job /\ job[i + 1].op = "put" /\ job[i + 1].row = r /\ (i + 1) - 1 = i
      BY <1>2, <2>2
    <3>2. ~(job[1].op = "put" /\ job[1].row = s)
      BY <1>1, <1>2, <2>2, <3>1 DEF JobClears
    <3>3. s \in rows /\ ~(job[1].op = "del" /\ job[1].row = s)
      BY <3>2, CommitFacts
    <3>4. PICK j \in 1 .. i : job[j] = [op |-> "del", row |-> s]
      BY <1>1, <2>2, <3>1, <3>3 DEF JobClears
    <3>5. j # 1
      BY <3>3, <3>4
    <3>6. j - 1 \in 1 .. i - 1 /\ j - 1 \in DOMAIN job' /\ (j - 1) + 1 = j
      BY <1>2, <3>5
    <3> QED BY <1>2, <3>4, <3>6
  <2>3. ASSUME NEW i \in DOMAIN job', NEW r, job'[i].row = r, job'[i].op = "put",
               NEW j \in DOMAIN job', NEW s, job'[j].row = s, job'[j].op = "put"
        PROVE  ~Rivals(r, s)
    BY <1>1, <1>2, <2>3 DEF JobClears
  <2>4. ASSUME NEW i \in DOMAIN job', job'[i].op = "put"
        PROVE  /\ \A s \in rows' : (Rivals(job[i].row, s))' =>
                    \E j \in 1 .. i - 1 : job'[j] = [op |-> "del", row |-> s]
               /\ \A j \in DOMAIN job' : job'[j].op = "put" => ~(Rivals(job[i].row, job[j].row))'
    BY <2>1, <2>2, <2>3, <2>4
  <2> QED BY <2>4 DEF JobClears
<1>7. JobEnds'
  <2>1. ASSUME NEW b \in Binds, (Owes(<<"code", b>>))'
        PROVE  (Leaves("pending", bind[b].authorization))'
    <3> DEFINE a == bind[b].authorization
    <3>1. Owes(<<"code", b>>) /\ Leaves("pending", a)
      BY <1>1, <2>1, CommitAnswers DEF JobEnds
    <3>2. ~(job[1].op = "put" /\ job[1].row = <<"pending", a>>)
      BY <3>1, CommitStores DEF Owes
    <3> QED BY <1>2, <3>1, <3>2, CommitLeaves
  <2>2. ASSUME NEW g \in Grants, NEW gone \in SUBSET Tokens, NEW kind \in gone,
               (Owes(<<"revoked", <<g, gone>>>>))'
        PROVE  (Leaves(kind, g))'
    <3>1. Owes(<<"revoked", <<g, gone>>>>) /\ Leaves(kind, g)
      BY <1>1, <2>2, CommitAnswers DEF JobEnds
    <3>2. ~(job[1].op = "put" /\ job[1].row = <<kind, g>>)
      BY <3>1, CommitStores DEF Owes
    <3> QED BY <3>1, <3>2, CommitLeaves
  <2>3. ASSUME NEW g \in Grants, NEW kind \in Tokens, (Owes(<<"pair", g>>))',
               pair[g].parent # Null
        PROVE  (Leaves(kind, pair[g].parent))'
    <3> DEFINE old == pair[g].parent
    <3>1. Owes(<<"pair", g>>) /\ Leaves(kind, old)
      BY <1>1, <2>3, CommitAnswers DEF JobEnds
    <3>2. <<"pair", old>> \in told
      BY <1>1, <2>3, <3>1 DEF PairsKnown, Given
    <3>3. ~(job[1].op = "put" /\ job[1].row = <<kind, old>>)
      BY <3>2, CommitStores
    <3> QED BY <1>2, <3>1, <3>3, CommitLeaves
  <2> QED BY <1>2, <2>1, <2>2, <2>3 DEF JobEnds
<1> QED BY <1>4, <1>5, <1>6, <1>7

\* A commit keeps what is said of the rows.
LEMMA CommitKeepsRows ==
  ASSUME OAuthInv, Commit
  PROVE  NoRivals' /\ CodesAreSingle' /\ TokensAreBound' /\ DeadStaysDead'
<1>1. /\ RequestsKnown /\ CodesKnown /\ PairsKnown /\ JobIsNew /\ JobIsBound /\ JobClears /\ JobEnds
      /\ NoRivals /\ CodesAreSingle /\ TokensAreBound /\ DeadStaysDead
  BY DEF OAuthInv
<1>2. /\ bind' = bind /\ pair' = pair /\ asked' = asked /\ 1 \in DOMAIN job
  BY CommitFacts
<1>3. NoRivals'
  <2>1. ASSUME NEW r, NEW s PROVE (Rivals(r, s))' <=> Rivals(r, s)
    BY <1>2 DEF Rivals, HasKey, BindOfRow
  <2>2. ASSUME NEW r, job[1].op = "put", job[1].row = r, NEW s \in rows'
        PROVE  ~Rivals(r, s)
    <3>1. s \in rows \/ s = r
      BY <2>2, CommitFacts
    <3>2. CASE s \in rows
      <4>1. ~\E j \in 1 .. 1 - 1 : TRUE
        OBVIOUS
      <4> QED BY <1>1, <1>2, <2>2, <3>2, <4>1 DEF JobClears
    <3>3. CASE s = r
      BY <1>1, <1>2, <2>2, <3>3 DEF JobClears
    <3> QED BY <3>1, <3>2, <3>3
  <2>3. ASSUME NEW r, NEW s, Rivals(r, s) PROVE Rivals(s, r)
    BY <2>3 DEF Rivals
  <2>4. ASSUME NEW r \in rows', NEW s \in rows' PROVE ~Rivals(r, s)
    <3>1. /\ r \in rows \/ (job[1].op = "put" /\ job[1].row = r)
          /\ s \in rows \/ (job[1].op = "put" /\ job[1].row = s)
      BY CommitFacts
    <3> QED BY <1>1, <2>2, <2>3, <3>1 DEF NoRivals
  <2> QED BY <2>1, <2>4 DEF NoRivals
<1>4. CodesAreSingle'
  <2>1. Grows
    BY <1>2 DEF Grows
  <2>2. ASSUME NEW b \in Binds, <<"code", b>> \in told'
        PROVE  ~(Stored("pending", bind[b].authorization))'
    <3> DEFINE a == bind[b].authorization
    <3>1. <<"url", a>> \in told
      BY <1>1, <2>2, CommitAnswers DEF RequestsKnown, CodesKnown, Given
    <3>2. ~(job[1].op = "put" /\ job[1].row = <<"pending", a>>)
      BY <3>1, CommitStores
    <3>3. CASE <<"code", b>> \in told
      BY <1>1, <1>2, <3>2, <3>3, CommitStores DEF CodesAreSingle
    <3>4. CASE Owes(<<"code", b>>) /\ DOMAIN job = {1}
      <4>1. Leaves("pending", a)
        BY <1>1, <3>4 DEF JobEnds
      <4> QED BY <1>2, <3>2, <3>4, <4>1, CommitLeaves
    <3> QED BY <2>2, <3>3, <3>4, CommitAnswers
  <2>3. \A b, c \in Binds :
          /\ (Given(<<"code", b>>))' /\ (Given(<<"code", c>>))'
          /\ (bind[b].authorization = bind[c].authorization)'
          => b = c
    BY <2>1, CommitAnswers, CodesFrame
  <2> QED BY <2>2, <2>3 DEF CodesAreSingle
<1>5. TokensAreBound'
  <2> SUFFICES ASSUME NEW row \in rows', row[1] \in {"code", "access", "refresh"}
               PROVE  <<"binding", KeyOfRow(row)>> \in rows'
    BY <1>2 DEF TokensAreBound, Stored, KeyOfRow, Subject
  <2>1. <<"binding", KeyOfRow(row)>> \in rows
    <3>1. CASE row \in rows
      BY <1>1, <3>1 DEF TokensAreBound, Stored
    <3>2. CASE job[1].op = "put" /\ job[1].row = row
      <4>1. HasKey(row)
        BY DEF HasKey, Tokens
      <4>2. ~\E j \in 1 .. 1 - 1 : TRUE
        OBVIOUS
      <4> QED BY <1>1, <1>2, <3>2, <4>1, <4>2 DEF JobIsBound, Stored
    <3> QED BY <3>1, <3>2, CommitFacts
  <2>2. job[1].op = "del" => job[1].row[1] # "binding"
    BY <1>1, <1>2 DEF JobIsNew, Tokens
  <2>3. \A k : job[1].op = "del" => job[1].row # <<"binding", k>>
    BY <2>2
  <2>4. ASSUME NEW k, <<"binding", k>> \in rows PROVE <<"binding", k>> \in rows'
    BY <2>3, <2>4, CommitFacts
  <2> QED BY <2>1, <2>4
<1>6. DeadStaysDead'
  <2>1. ASSUME NEW g \in Grants, NEW gone \in SUBSET Tokens, NEW kind \in gone,
               <<"revoked", <<g, gone>>>> \in told'
        PROVE  ~(Stored(kind, g))'
    <3>1. <<"pair", g>> \in told
      BY <1>1, <2>1, CommitAnswers DEF PairsKnown, Given
    <3>2. ~(job[1].op = "put" /\ job[1].row = <<kind, g>>)
      BY <3>1, CommitStores
    <3>3. CASE <<"revoked", <<g, gone>>>> \in told
      BY <1>1, <3>2, <3>3, CommitStores DEF DeadStaysDead, Tokens
    <3>4. CASE Owes(<<"revoked", <<g, gone>>>>) /\ DOMAIN job = {1}
      <4>1. Leaves(kind, g)
        BY <1>1, <3>4 DEF JobEnds
      <4> QED BY <3>2, <3>4, <4>1, CommitLeaves
    <3> QED BY <2>1, <3>3, <3>4, CommitAnswers
  <2>2. ASSUME NEW g \in Grants, NEW h \in Grants \ {g}, <<"pair", h>> \in told',
               pair[h].parent = g, NEW kind \in Tokens
        PROVE  ~(Stored(kind, g))'
    <3>1. pair[h] # Null /\ g # Null
      BY <1>1, <2>2, OAuthAssumption, CommitAnswers DEF PairsKnown, Given
    <3>2. <<"pair", g>> \in told
      BY <1>1, <2>2, <3>1 DEF PairsKnown
    <3>3. ~(job[1].op = "put" /\ job[1].row = <<kind, g>>)
      BY <3>2, CommitStores
    <3>4. CASE <<"pair", h>> \in told
      BY <1>1, <2>2, <3>3, <3>4, CommitStores DEF DeadStaysDead, Tokens
    <3>5. CASE Owes(<<"pair", h>>) /\ DOMAIN job = {1}
      <4>1. Leaves(kind, g)
        BY <1>1, <2>2, <3>1, <3>5 DEF JobEnds
      <4> QED BY <3>3, <3>5, <4>1, CommitLeaves
    <3> QED BY <2>2, <3>4, <3>5, CommitAnswers
  <2> QED BY <1>2, <2>1, <2>2 DEF DeadStaysDead, Tokens
<1> QED BY <1>3, <1>4, <1>5, <1>6

\* The invariant holds at first and every step keeps it.
LEMMA InitInv == Init => OAuthInv
<1> SUFFICES ASSUME Init PROVE OAuthInv
  OBVIOUS
<1>1. TypeOK
  BY DEF Init, TypeOK
<1>2. RequestsKnown /\ CodesKnown /\ PairsKnown /\ CallOK
  BY DEF Init, RequestsKnown, CodesKnown, PairsKnown, CallOK, Given, Owes, Stored
<1>3. JobIsNew /\ JobIsBound /\ JobClears /\ JobEnds
  BY DEF Init, JobIsNew, JobIsBound, JobClears, JobEnds, Owes
<1>4. NoRivals /\ CodesAreSingle /\ TokensAreBound /\ DeadStaysDead
  BY DEF Init, NoRivals, CodesAreSingle, TokensAreBound, DeadStaysDead, Given, Owes
<1> QED BY <1>1, <1>2, <1>3, <1>4 DEF OAuthInv

LEMMA StepInv == OAuthInv /\ [Next]_vars => OAuthInv'
<1> SUFFICES ASSUME OAuthInv, [Next]_vars PROVE OAuthInv'
  OBVIOUS
<1>1. ASSUME NEW c \in Clients, Register(c) PROVE OAuthInv'
  BY <1>1, RegisterStarts
<1>2. ASSUME NEW c \in Clients, NEW a \in Authorizations, NEW scopes \in AskedScopes,
             Authorize(a, c, scopes)
      PROVE  OAuthInv'
  BY <1>2, AuthorizeStarts
<1>3. ASSUME NEW b \in Binds, BindSucceeds(b) PROVE OAuthInv'
  BY <1>3, BindStartsJob
<1>4. ASSUME NEW g \in Grants, NEW b \in Binds, ExchangeCode(g, b) PROVE OAuthInv'
  BY <1>4, ExchangeCodeStarts
<1>5. ASSUME NEW g \in Grants, NEW old \in Grants, NEW scopes \in AskedScopes,
             ExchangeRefresh(g, old, scopes)
      PROVE  OAuthInv'
  BY <1>5, ExchangeRefreshStarts
<1>6. ASSUME NEW g \in Grants,
             \/ \E scopes \in AskedScopes : RefuseWiderScope(g, scopes)
             \/ \E kind \in Tokens : Revoke(kind, g)
      PROVE  OAuthInv'
  BY <1>6, DeletionStarts
<1>a. ASSUME NEW g \in Grants, NEW kind \in Tokens, RevokeMisses(kind, g)
      PROVE  OAuthInv'
  BY <1>a, MissKeepsInv
<1>7. ASSUME Commit PROVE OAuthInv'
  BY <1>7, CommitKeepsHistory, CommitKeepsJob, CommitKeepsRows DEF OAuthInv
<1>8. ASSUME UNCHANGED vars PROVE OAuthInv'
  <2>1. /\ rows' = rows /\ asked' = asked /\ bind' = bind /\ waiting' = waiting /\ pair' = pair
        /\ job' = job /\ answer' = answer /\ told' = told /\ call' = call /\ sent' = sent
    BY <1>8 DEF vars
  <2>2. TypeOK' /\ RequestsKnown' /\ CodesKnown' /\ PairsKnown' /\ CallOK'
    BY <2>1
       DEF OAuthInv, TypeOK, RequestsKnown, CodesKnown, PairsKnown, CallOK, Given, Owes,
       Stored, Subject
  <2>3. JobIsNew' /\ JobIsBound'
    BY <2>1 DEF OAuthInv, JobIsNew, JobIsBound, Stored, KeyOfRow, Subject
  <2>4. \A r, s : (Rivals(r, s))' <=> Rivals(r, s)
    BY <2>1 DEF Rivals, BindOfRow
  <2>5. JobClears' /\ NoRivals'
    <3>1. JobClears /\ NoRivals
      BY DEF OAuthInv
    <3> QED BY <2>1, <2>4, <3>1 DEF JobClears, NoRivals
  <2>6. JobEnds' /\ CodesAreSingle'
    BY <2>1 DEF OAuthInv, JobEnds, CodesAreSingle, Leaves, Given, Owes, Stored
  <2>7. TokensAreBound' /\ DeadStaysDead'
    BY <2>1 DEF OAuthInv, TokensAreBound, DeadStaysDead, Stored, KeyOfRow, Subject
  <2> QED BY <2>2, <2>3, <2>5, <2>6, <2>7 DEF OAuthInv
<1>9. CASE Next
  BY <1>1, <1>2, <1>3, <1>4, <1>5, <1>6, <1>a, <1>7, <1>9, QuietSteps DEF Next
<1> QED BY <1>8, <1>9

\* OAuthInv holds in every reachable state.
THEOREM OAuthInvariant == Spec => []OAuthInv
<1> QED BY InitInv, StepInv, PTL DEF Spec

\* For any number of submissions, one authorization hands out one code: while
\* the validator is at work, a second submission of the page gets none.
THEOREM SingleCode == Spec => []OneCodePerRequest
<1>1. OAuthInv => OneCodePerRequest
  BY DEF OAuthInv, CodesAreSingle, OneCodePerRequest, Given
<1> QED BY <1>1, OAuthInvariant, PTL

\* For any number of exchanges and refreshes, with a crash after any commit, one
\* code is worth at most one live pair and never outlives it.
THEOREM SinglePair == Spec => []OnePairPerCode
<1>1. OAuthInv => OnePairPerCode
  <2> SUFFICES ASSUME OAuthInv, NEW kind \in {"access", "refresh"}, NEW g \in Grants,
                      Stored(kind, g)
               PROVE  /\ ~Stored("code", pair[g].bind)
                      /\ \A h \in Grants : Stored(kind, h) /\ pair[g].bind = pair[h].bind => g = h
    BY DEF OnePairPerCode
  <2>1. NoRivals
    BY DEF OAuthInv
  <2>2. ASSUME Stored("code", pair[g].bind) PROVE FALSE
    <3>1. Rivals(<<kind, g>>, <<"code", pair[g].bind>>)
      BY DEF Rivals, HasKey, BindOfRow, Tokens
    <3> QED BY <2>1, <2>2, <3>1 DEF NoRivals, Stored
  <2>3. ASSUME NEW h \in Grants, Stored(kind, h), pair[g].bind = pair[h].bind, g # h PROVE FALSE
    <3>1. Rivals(<<kind, g>>, <<kind, h>>)
      BY <2>3 DEF Rivals, HasKey, BindOfRow, Tokens
    <3> QED BY <2>1, <2>3, <3>1 DEF NoRivals, Stored
  <2> QED BY <2>2, <2>3
<1> QED BY <1>1, OAuthInvariant, PTL

\* Whatever commit a crash follows, every stored code and token has its binding.
THEOREM TokensBound == Spec => []TokensAreBound
<1>1. OAuthInv => TokensAreBound
  BY DEF OAuthInv
<1> QED BY <1>1, OAuthInvariant, PTL

\* Once a rotation is answered, no token of the old pair comes back, nor after a
\* revocation the token it named, and the paired one unless the named one was gone
\* before: in whatever order the other handlers run, and after any crash.
THEOREM Dead == Spec => []DeadStaysDead
<1>1. OAuthInv => DeadStaysDead
  BY DEF OAuthInv
<1> QED BY <1>1, OAuthInvariant, PTL

\* However long the chain of refreshes, what a tool call does in the ERP was
\* granted to the holder of the key it is done with.
THEOREM Granted == Spec => []RequestsWereGranted
<1>1. OAuthInv => RequestsWereGranted
  <2> SUFFICES ASSUME OAuthInv, sent # Null
               PROVE  \E b \in Binds : /\ <<"code", b>> \in told
                                       /\ bind[b].key = sent.key
                                       /\ sent.kind \in asked[bind[b].authorization].scopes
    BY DEF RequestsWereGranted
  <2>1. TypeOK /\ PairsKnown /\ CallOK
    BY DEF OAuthInv
  <2>2. /\ call \in Grants /\ pair[call] # Null
        /\ sent.key = Subject(call) /\ sent.kind \in pair[call].scopes
    BY <2>1 DEF TypeOK, CallOK, PairsKnown, Given
  <2>3. /\ pair[call].bind \in Binds /\ <<"code", pair[call].bind>> \in told
        /\ pair[call].scopes \subseteq asked[bind[pair[call].bind].authorization].scopes
    BY <2>1, <2>2 DEF TypeOK, Pairs, PairsKnown
  <2> QED BY <2>2, <2>3 DEF Subject
<1> QED BY <1>1, OAuthInvariant, PTL
=============================================================================
