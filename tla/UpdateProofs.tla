---------------------------- MODULE UpdateProofs ----------------------------
(***************************************************************************)
(* What updates and voids may do to orders, for any number of calls,       *)
(* orders and values: lines keep their identity, an undisturbed update is  *)
(* exact, and only the order a call named is written and answered with.    *)
(***************************************************************************)
EXTENDS SalesOrderUpdate, FiniteSetTheorems, TLAPS

\* Merging a change into an order gives an order.
LEMMA MergedIsOrder ==
  ASSUME NEW o \in Orders, NEW ch \in Changes
  PROVE  /\ Merged(o, ch) \in Orders
         /\ Merged(o, ch).status \in {Draft, Effective, Voided}
BY DEF Merged, Orders, Changes, Draft, Effective, Voided, Fields

\* What the ERP holds after it carried out a PUT.
AfterPut(o, p) ==
  [p EXCEPT !.status = IF @ < o.status THEN o.status ELSE @, !.named = @ /\ o.named]

\* It is an order.
LEMMA AfterPutIsOrder ==
  ASSUME NEW o \in Orders, NEW p \in Orders
  PROVE  AfterPut(o, p) \in Orders
BY DEF AfterPut, Orders, Draft, Effective, Voided

\* A name is resolved to the id of an order it names.
LEMMA ResolvedIsNamed ==
  ASSUME NEW name \in Tokens, NEW i \in Resolutions(name), i # Null
  PROVE  i \in Ids /\ (i = name \/ Number[i] = name)
<1>1. CASE name \in Ids
  BY <1>1 DEF Resolutions
<1>2. CASE name \notin Ids
  <2>1. PICK page \in Pages(name) : i \in Exact(name, page)
    BY <1>2 DEF Resolutions
  <2>2. page \subseteq Ids
    BY <1>2, UpdateAssumption DEF Pages
  <2> QED BY <2>1, <2>2 DEF Exact
<1> QED BY <1>1, <1>2

\* What is shown of an order that a name was resolved to.
LEMMA ShownIsNamed ==
  ASSUME NEW name \in Tokens, NEW i \in Resolutions(name), NEW n \in Shown(i, name)
  PROVE  /\ n \in Tokens \cup {Number[j] : j \in Ids}
         /\ n = name \/ (name \in Ids /\ n = Number[name])
<1>1. CASE n = name
  BY <1>1
<1>2. CASE n # name
  <2>1. i # Null /\ n = Number[i]
    BY <1>2 DEF Shown
  <2>2. i \in Ids /\ (i = name \/ Number[i] = name)
    BY <2>1, ResolvedIsNamed
  <2> QED BY <1>2, <2>1, <2>2
<1> QED BY <1>1, <1>2

\* What most steps need of the assumption.
LEMMA Apart ==
  /\ Null \notin Changes /\ Null \notin Orders /\ Null \notin Ids /\ Null \notin Tokens
  /\ \A c \in Updates : c \notin Voids
BY UpdateAssumption

\* A step after which no PUT is out that was not, and that leaves what those were
\* made from, the status of their orders and the updates applied before.
LEMMA StatusFrame ==
  ASSUME StatusOnlyRises,
         \A c \in Updates : put'[c] = "travelling" =>
           /\ put[c] = "travelling" /\ seen'[c] = seen[c] /\ found'[c] = found[c]
           /\ orders'[found[c]].status = orders[found[c]].status,
         \A c \in Updates : put[c] = "applied" =>
           put'[c] = "applied" /\ found'[c] = found[c] /\ change'[c] = change[c]
  PROVE  StatusOnlyRises'
BY DEF StatusOnlyRises, PostedByOther

\* The invariant holds at the start.
LEMMA InitInv == Init => UpdateInv
<1> SUFFICES ASSUME Init PROVE UpdateInv
  OBVIOUS
<1>1. TypeOK
  BY DEF Init, TypeOK, NewOrders, Calls
<1>2. FoundIsNamed /\ PutIsMerged /\ AnswerIsOfTarget /\ AnswerNamesOrder
  BY DEF Init, FoundIsNamed, PutIsMerged, AnswerIsOfTarget, AnswerNamesOrder, Calls
<1>3. StatusOnlyRises
  BY DEF Init, StatusOnlyRises, Calls
<1> QED BY <1>1, <1>2, <1>3 DEF UpdateInv

\* Where a call is after its name was resolved to i, and what it has then.
Becomes(c, i, there, sent, told) ==
  /\ there \in {"not found", "putting", "reading"} /\ sent \in {"unsent", "travelling"}
  /\ pc' = [pc EXCEPT ![c] = there]
  /\ put' = [put EXCEPT ![c] = sent]
  /\ answer' = [answer EXCEPT ![c] = told]
  /\ there \in {"not found", "reading"} => sent = "unsent"
  /\ sent = "travelling" => c \in Voids
  /\ there # "not found" => i # Null
  /\ told \in {Null, answer[c]} /\ (told # Null => there # "not found")

\* The name is resolved.
LEMMA ResolveInv ==
  ASSUME UpdateInv, NEW c \in Calls, Resolve(c)
  PROVE  UpdateInv'
<1>T. TypeOK
  BY DEF UpdateInv
<1>F. FoundIsNamed
  BY DEF UpdateInv
<1>P. PutIsMerged
  BY DEF UpdateInv
<1>L. StatusOnlyRises
  BY DEF UpdateInv
<1>A. AnswerIsOfTarget
  BY DEF UpdateInv
<1>N. AnswerNamesOrder
  BY DEF UpdateInv
<1>1. /\ pc[c] = "finding" /\ target[c] \in Tokens /\ put[c] = "unsent"
      /\ orders' = orders /\ target' = target /\ change' = change /\ seen' = seen
  BY <1>F DEF Resolve, FoundIsNamed
<1>2. PICK i \in Resolutions(target[c]) :
        /\ found' = [found EXCEPT ![c] = i]
        /\ IF i = Null
           THEN pc' = [pc EXCEPT ![c] = "not found"] /\ answer' = [answer EXCEPT ![c] = Null]
                /\ UNCHANGED put
           ELSE IF c \in Voids
                THEN pc' = [pc EXCEPT ![c] = "putting"]
                     /\ put' = [put EXCEPT ![c] = "travelling"] /\ UNCHANGED answer
                ELSE pc' = [pc EXCEPT ![c] = "reading"] /\ UNCHANGED <<put, answer>>
  BY DEF Resolve, Goes
<1>3. i # Null => i \in Ids /\ (i = target[c] \/ Number[i] = target[c])
  BY <1>1, ResolvedIsNamed
<1>4. \E there, sent, told : Becomes(c, i, there, sent, told)
  <2>1. put = [put EXCEPT ![c] = "unsent"] /\ answer = [answer EXCEPT ![c] = answer[c]]
    BY <1>1, <1>T DEF TypeOK
  <2>2. CASE i = Null
    <3>1. Becomes(c, i, "not found", "unsent", Null)
      BY <1>2, <2>1, <2>2 DEF Becomes
    <3> QED BY <3>1
  <2>3. CASE i # Null /\ c \in Voids
    <3>1. Becomes(c, i, "putting", "travelling", answer[c])
      BY <1>2, <2>1, <2>3 DEF Becomes
    <3> QED BY <3>1
  <2>4. CASE i # Null /\ c \notin Voids
    <3>1. Becomes(c, i, "reading", "unsent", answer[c])
      BY <1>1, <1>2, <1>A, <2>1, <2>4 DEF Becomes, AnswerIsOfTarget
    <3> QED BY <3>1
  <2> QED BY <2>2, <2>3, <2>4
<1>5. PICK there, sent, told : Becomes(c, i, there, sent, told)
  BY <1>4
<1>6. found' = [found EXCEPT ![c] = i]
  BY <1>2
<1>7. TypeOK'
  BY <1>1, <1>3, <1>5, <1>6, <1>T DEF TypeOK, Becomes
<1>8. FoundIsNamed'
  BY <1>1, <1>3, <1>5, <1>6, <1>T, <1>F DEF TypeOK, FoundIsNamed, NamedBy, Becomes
<1>9. PutIsMerged'
  BY <1>1, <1>5, <1>6, <1>T, <1>P, Apart DEF TypeOK, PutIsMerged, Exists, Calls, Becomes
<1>10. StatusOnlyRises'
  <2>1. ASSUME NEW u \in Updates
        PROVE  /\ put'[u] = "travelling" =>
                    /\ put[u] = "travelling" /\ seen'[u] = seen[u] /\ found'[u] = found[u]
                    /\ orders'[found[u]].status = orders[found[u]].status
               /\ put[u] = "applied" =>
                    put'[u] = "applied" /\ found'[u] = found[u] /\ change'[u] = change[u]
    <3>1. CASE u = c
      <4>1. put'[u] = "unsent" /\ put[u] = "unsent"
        BY <1>1, <1>5, <1>T, <3>1, Apart DEF TypeOK, Becomes
      <4> QED BY <4>1
    <3>2. CASE u # c
      <4>1. put'[u] = put[u] /\ found'[u] = found[u]
        BY <1>5, <1>6, <1>T, <3>2 DEF TypeOK, Becomes, Calls
      <4> QED BY <1>1, <4>1
    <3> QED BY <3>1, <3>2
  <2> QED BY <2>1, <1>L, StatusFrame
<1>11. AnswerIsOfTarget'
  BY <1>1, <1>5, <1>T, <1>A DEF TypeOK, AnswerIsOfTarget, Becomes
<1>12. AnswerNamesOrder'
  BY <1>1, <1>5, <1>6, <1>T, <1>N DEF TypeOK, AnswerNamesOrder, NamedBy, Becomes
<1> QED BY <1>7, <1>8, <1>9, <1>10, <1>11, <1>12 DEF UpdateInv

\* Updates that were applied stay so.
PostFrame(c) ==
  \A d \in Updates : put[d] = "applied" =>
    put'[d] = "applied" /\ found'[d] = found[d] /\ change'[d] = change[d]

\* The ERP carries an update out.
LEMMA AppliesInv ==
  ASSUME UpdateInv, NEW c \in Updates, Applies(c)
  PROVE  UpdateInv'
<1>T. TypeOK
  BY DEF UpdateInv
<1>F. FoundIsNamed
  BY DEF UpdateInv
<1>P. PutIsMerged
  BY DEF UpdateInv
<1>L. StatusOnlyRises
  BY DEF UpdateInv
<1>A. AnswerIsOfTarget
  BY DEF UpdateInv
<1>N. AnswerNamesOrder
  BY DEF UpdateInv
<1> DEFINE i == found[c]  o == orders[i]  p == Merged(seen[c], change[c])
<1>1. /\ c \in Calls /\ put[c] = "travelling" /\ put' = [put EXCEPT ![c] = "applied"]
      /\ pc' = pc /\ target' = target /\ found' = found /\ change' = change /\ seen' = seen
      /\ answer' = answer
  BY DEF Applies, Calls
<1>2. /\ seen[c] \in Orders /\ change[c] \in Changes
      /\ pc[c] \notin {"idle", "looking", "finding", "reading", "not found"}
      /\ ~Rejected(seen[c], change[c])
      /\ i \in Ids /\ Exists(i) /\ o \in Orders
  <2>1. pc[c] \notin {"idle", "looking", "finding", "reading", "not found"} /\ found[c] # Null
    BY <1>1, <1>F DEF FoundIsNamed
  <2>2. i \in Ids
    BY <1>1, <2>1, <1>T DEF TypeOK
  <2> QED BY <1>1, <2>1, <2>2, <1>T, <1>P DEF TypeOK, PutIsMerged, Exists
<1>3. p \in Orders
  BY <1>2, MergedIsOrder
<1>4. orders' = [orders EXCEPT ![i] = AfterPut(o, p)] /\ AfterPut(o, p) \in Orders
  BY <1>2, <1>3, AfterPutIsOrder DEF Applies, AfterPut
<1>5. /\ orders'[i] = AfterPut(o, p) /\ orders'[i] # Null
      /\ \A j \in Ids : j # i => orders'[j] = orders[j]
  BY <1>2, <1>4, <1>T, Apart DEF TypeOK
<1>6. TypeOK'
  BY <1>1, <1>2, <1>4, <1>T DEF TypeOK
<1>7. FoundIsNamed'
  BY <1>1, <1>2, <1>T, <1>F DEF TypeOK, FoundIsNamed, NamedBy
<1>8. PutIsMerged'
  <2> SUFFICES ASSUME NEW u \in Updates
               PROVE  (/\ pc[u] # "idle" => change[u] \in Changes
                       /\ put[u] # "unsent" => /\ seen[u] \in Orders
                                               /\ ~Rejected(seen[u], change[u])
                                               /\ Exists(found[u]))'
    BY DEF PutIsMerged
  <2>1. put'[u] # "unsent" => put[u] # "unsent"
    BY <1>1, <1>T DEF TypeOK, Calls
  <2>2. put[u] # "unsent" => found[u] \in Ids
    BY <1>F, <1>T DEF FoundIsNamed, TypeOK, Calls
  <2>3. \A j \in Ids : Exists(j) => Exists(j)'
    BY <1>2, <1>5 DEF Exists
  <2> QED BY <1>1, <2>1, <2>2, <2>3, <1>P DEF PutIsMerged, Exists
<1>9. StatusOnlyRises'
  <2>1. PostFrame(c)
    BY <1>1, <1>T DEF PostFrame, TypeOK, Calls
  <2>2. p.status = IF change[c].final THEN Effective ELSE seen[c].status
    BY <1>2 DEF Merged, Orders
  <2>3. orders'[i].status = IF p.status < o.status THEN o.status ELSE p.status
    BY <1>2, <1>3, <1>5 DEF AfterPut, Orders
  <2>4. seen[c].status \in {Draft, Effective} /\ o.status \in {Draft, Effective, Voided}
    BY <1>2 DEF Orders, Rejected
  <2>5. /\ seen[c].status <= o.status
        /\ o.status = Effective => seen[c].status = Effective \/ PostedByOther(c)
    BY <1>1, <1>L DEF StatusOnlyRises
  <2>6. orders'[i].status = o.status \/ (o.status = Draft /\ change[c].final)
    BY <2>2, <2>3, <2>4, <2>5 DEF Draft, Effective, Voided
  <2>7. o.status <= orders'[i].status
    BY <2>2, <2>3, <2>4 DEF Draft, Effective, Voided
  <2> SUFFICES ASSUME NEW u \in Updates, put'[u] = "travelling"
               PROVE  /\ seen[u].status <= orders'[found[u]].status
                      /\ orders'[found[u]].status = Effective =>
                           seen[u].status = Effective \/ PostedByOther(u)'
    BY <1>1 DEF StatusOnlyRises
  <2>8. u # c /\ put[u] = "travelling"
    BY <1>1, <1>T DEF TypeOK, Calls
  <2>9. /\ seen[u].status <= orders[found[u]].status
        /\ orders[found[u]].status = Effective =>
             seen[u].status = Effective \/ PostedByOther(u)
    BY <2>8, <1>L DEF StatusOnlyRises
  <2>10. PostedByOther(u) => PostedByOther(u)'
    BY <1>1, <2>1 DEF PostFrame, PostedByOther
  <2>11. seen[u] \in Orders /\ found[u] \in Ids
    BY <2>8, <1>T, <1>F, <1>P DEF TypeOK, FoundIsNamed, PutIsMerged, Calls
  <2>12. CASE found[u] # i
    BY <1>5, <2>9, <2>10, <2>11, <2>12
  <2>13. CASE found[u] = i
    <3>1. seen[u].status <= orders'[i].status
      BY <2>4, <2>6, <2>7, <2>9, <2>11, <2>13 DEF Orders, Draft, Effective, Voided
    <3>2. change[c].final => PostedByOther(u)'
      BY <1>1, <1>T, <2>8, <2>13 DEF PostedByOther, TypeOK, Calls
    <3> QED BY <2>6, <2>9, <2>10, <2>13, <3>1, <3>2
  <2> QED BY <2>12, <2>13
<1>10. AnswerIsOfTarget'
  BY <1>1, <1>A DEF AnswerIsOfTarget
<1>11. AnswerNamesOrder'
  BY <1>1, <1>T, <1>N DEF TypeOK, AnswerNamesOrder, NamedBy
<1> QED BY <1>6, <1>7, <1>8, <1>9, <1>10, <1>11 DEF UpdateInv

\* The ERP carries a void out.
LEMMA AppliesVoidInv ==
  ASSUME UpdateInv, NEW c \in Voids, AppliesVoid(c)
  PROVE  UpdateInv'
<1>T. TypeOK
  BY DEF UpdateInv
<1>F. FoundIsNamed
  BY DEF UpdateInv
<1>P. PutIsMerged
  BY DEF UpdateInv
<1>L. StatusOnlyRises
  BY DEF UpdateInv
<1>A. AnswerIsOfTarget
  BY DEF UpdateInv
<1>N. AnswerNamesOrder
  BY DEF UpdateInv
<1> DEFINE i == found[c]  o == [orders[i] EXCEPT !.status = Voided]
<1>1. /\ c \in Calls /\ put[c] = "travelling" /\ put' = [put EXCEPT ![c] = "applied"]
      /\ pc' = pc /\ target' = target /\ found' = found /\ change' = change /\ seen' = seen
      /\ answer' = answer /\ c \notin Updates
      /\ Exists(i) /\ orders' = [orders EXCEPT ![i] = o]
  BY Apart DEF AppliesVoid, Calls
<1>2. i \in Ids /\ orders[i] \in Orders
  <2>1. found[c] # Null
    BY <1>1, <1>F DEF FoundIsNamed
  <2>2. i \in Ids
    BY <1>1, <2>1, <1>T DEF TypeOK
  <2> QED BY <1>1, <2>2, <1>T DEF TypeOK, Exists
<1>3. o \in Orders /\ o.named = orders[i].named
  BY <1>2 DEF Orders
<1>4. \A j \in Ids : (Exists(j)' <=> Exists(j)) /\ (Exists(j) => orders'[j].named = orders[j].named)
  BY <1>1, <1>2, <1>3, <1>T, Apart DEF TypeOK, Exists
<1>5. TypeOK'
  BY <1>1, <1>2, <1>3, <1>T DEF TypeOK
<1>6. FoundIsNamed'
  BY <1>1, <1>T, <1>F DEF TypeOK, FoundIsNamed, NamedBy
<1>7. PutIsMerged'
  <2>1. \A u \in Updates : put'[u] = put[u] /\ (put[u] # "unsent" => found[u] \in Ids)
    BY <1>1, <1>T, <1>F DEF TypeOK, FoundIsNamed, Calls
  <2> QED BY <1>1, <1>4, <2>1, <1>P DEF PutIsMerged, Rejected
<1>8. StatusOnlyRises'
  <2>1. PostFrame(c)
    BY <1>1, <1>T DEF PostFrame, TypeOK, Calls
  <2> SUFFICES ASSUME NEW u \in Updates, put'[u] = "travelling"
               PROVE  /\ seen[u].status <= orders'[found[u]].status
                      /\ orders'[found[u]].status = Effective =>
                           seen[u].status = Effective \/ PostedByOther(u)'
    BY <1>1 DEF StatusOnlyRises
  <2>2. put[u] = "travelling"
    BY <1>1, <1>T DEF TypeOK, Calls
  <2>3. /\ seen[u].status <= orders[found[u]].status
        /\ orders[found[u]].status = Effective =>
             seen[u].status = Effective \/ PostedByOther(u)
    BY <2>2, <1>L DEF StatusOnlyRises
  <2>4. PostedByOther(u) => PostedByOther(u)'
    BY <1>1, <2>1 DEF PostFrame, PostedByOther
  <2>5. seen[u] \in Orders /\ found[u] \in Ids
    BY <2>2, <1>T, <1>F, <1>P DEF TypeOK, FoundIsNamed, PutIsMerged, Calls
  <2>6. CASE found[u] # i
    <3>1. orders'[found[u]] = orders[found[u]]
      BY <1>1, <1>T, <2>5, <2>6 DEF TypeOK
    <3> QED BY <2>3, <2>4, <3>1
  <2>7. CASE found[u] = i
    <3>1. orders'[i].status = Voided
      BY <1>1, <1>2, <1>T DEF TypeOK, Orders
    <3> QED BY <2>5, <2>7, <3>1 DEF Orders, Draft, Effective, Voided
  <2> QED BY <2>6, <2>7
<1>9. AnswerIsOfTarget'
  BY <1>1, <1>A DEF AnswerIsOfTarget
<1>10. AnswerNamesOrder'
  BY <1>1, <1>T, <1>N DEF TypeOK, AnswerNamesOrder, NamedBy
<1> QED BY <1>5, <1>6, <1>7, <1>8, <1>9, <1>10 DEF UpdateInv

\* Every step keeps the invariant.
LEMMA StepInv == UpdateInv /\ [Next]_vars => UpdateInv'
<1> SUFFICES ASSUME UpdateInv, [Next]_vars PROVE UpdateInv'
  OBVIOUS
<1>T. TypeOK
  BY DEF UpdateInv
<1>F. FoundIsNamed
  BY DEF UpdateInv
<1>P. PutIsMerged
  BY DEF UpdateInv
<1>L. StatusOnlyRises
  BY DEF UpdateInv
<1>A. AnswerIsOfTarget
  BY DEF UpdateInv
<1>N. AnswerNamesOrder
  BY DEF UpdateInv
<1>1. ASSUME NEW c \in Updates, NEW name \in Tokens, NEW ch \in Wanted, Update(c, name, ch) PROVE UpdateInv'
  <2>1. ch \in Changes /\ c \in Calls
    BY UpdateAssumption DEF Calls
  <2>2. TypeOK'
    BY <1>1, <2>1, <1>T, Apart DEF Update, Goes, Calls, TypeOK
  <2>3. FoundIsNamed'
    BY <1>1, <2>1, <1>T, <1>F, Apart DEF Update, Goes, Calls, TypeOK, FoundIsNamed, NamedBy
  <2>4. PutIsMerged'
    BY <1>1, <2>1, <1>T, <1>F, <1>P, Apart
       DEF Update, Goes, Calls, TypeOK, FoundIsNamed, PutIsMerged, Exists, Rejected
  <2>5. StatusOnlyRises'
    BY <1>1, <2>1, <1>T, <1>F, <1>L, StatusFrame, Apart
       DEF Update, Goes, Calls, TypeOK, FoundIsNamed, Exists
  <2>6. AnswerIsOfTarget'
    BY <1>1, <2>1, <1>T, <1>A, Apart DEF Update, Goes, Calls, TypeOK, AnswerIsOfTarget
  <2>7. AnswerNamesOrder'
    BY <1>1, <2>1, <1>T, <1>N, Apart
       DEF Update, Goes, Calls, TypeOK, AnswerNamesOrder, NamedBy
  <2> QED BY <2>2, <2>3, <2>4, <2>5, <2>6, <2>7 DEF UpdateInv
<1>2. ASSUME NEW c \in Updates, ReadAndPut(c) PROVE UpdateInv'
  <2>1. found[c] \in Ids /\ orders[found[c]] \in Orders
    BY <1>2, <1>T, <1>F DEF ReadAndPut, TypeOK, FoundIsNamed, Exists, Calls
  <2>2. /\ pc[c] = "reading" /\ found[c] # Null /\ target' = target /\ found' = found
        /\ answer' = answer
        /\ \/ pc' = [pc EXCEPT ![c] = "done"] /\ put' = put
           \/ pc' = [pc EXCEPT ![c] = "putting"] /\ put' = [put EXCEPT ![c] = "travelling"]
    BY <1>2, <2>1, Apart DEF ReadAndPut, Goes
  <2>3. answer[c] = Null
    BY <1>2, <2>2, <1>A, Apart DEF AnswerIsOfTarget, Calls
  <2>4. TypeOK'
    BY <1>2, <2>1, <2>2, <2>3, <1>T, Apart DEF ReadAndPut, Goes, Calls, TypeOK
  <2>5. FoundIsNamed'
    BY <2>2, <1>T, <1>F DEF Calls, TypeOK, FoundIsNamed, NamedBy
  <2>6. PutIsMerged'
    <3>1. /\ orders' = orders /\ change' = change /\ seen' = [seen EXCEPT ![c] = orders[found[c]]]
          /\ Rejected(orders[found[c]], change[c]) => put' = put
          /\ put[c] = "unsent"
      BY <1>2, <1>A, <1>T, <1>F, <2>1, Apart DEF ReadAndPut, FoundIsNamed, Calls, TypeOK
    <3> QED
      BY <1>2, <3>1, <2>1, <2>2, <1>T, <1>F, <1>P, Apart
         DEF Calls, TypeOK, PutIsMerged, Exists
  <2>7. StatusOnlyRises'
    <3>1. /\ orders' = orders /\ change' = change /\ seen' = [seen EXCEPT ![c] = orders[found[c]]]
          /\ put[c] = "unsent"
      BY <1>2, <1>F, Apart DEF ReadAndPut, FoundIsNamed, Calls
    <3> SUFFICES ASSUME NEW u \in Updates, put'[u] = "travelling"
                 PROVE  /\ seen'[u].status <= orders[found[u]].status
                        /\ orders[found[u]].status = Effective =>
                             seen'[u].status = Effective \/ PostedByOther(u)'
      BY <2>2, <3>1 DEF StatusOnlyRises
    <3>2. CASE u = c
      <4>1. seen'[u] = orders[found[u]]
        BY <3>1, <3>2, <1>T DEF TypeOK
      <4> QED BY <2>1, <3>2, <4>1 DEF Orders, Draft, Effective, Voided
    <3>3. CASE u # c
      <4>1. put[u] = "travelling" /\ seen'[u] = seen[u]
        BY <2>2, <3>1, <3>3, <1>T DEF TypeOK, Calls
      <4>2. PostedByOther(u) => PostedByOther(u)'
        BY <2>2, <3>1, <1>T DEF PostedByOther, TypeOK, Calls
      <4> QED BY <4>1, <4>2, <1>L DEF StatusOnlyRises
    <3> QED BY <3>2, <3>3
  <2>8. AnswerIsOfTarget'
    BY <1>2, <2>1, <2>2, <2>3, <1>T, <1>A, Apart
       DEF ReadAndPut, Goes, Calls, TypeOK, AnswerIsOfTarget
  <2>9. AnswerNamesOrder'
    BY <2>2, <2>3, <1>T, <1>N DEF Calls, TypeOK, AnswerNamesOrder, NamedBy
  <2> QED BY <2>4, <2>5, <2>6, <2>7, <2>8, <2>9 DEF UpdateInv
<1>3. ASSUME NEW c \in Updates, UpdateAnswered(c) PROVE UpdateInv'
  <2>1. found[c] \in Ids /\ NamedBy(c, found[c])
    BY <1>3, <1>T, <1>F DEF UpdateAnswered, TypeOK, FoundIsNamed, Calls
  <2>2. PICK n \in {found[c], Number[found[c]]} : answer' = [answer EXCEPT ![c] = n]
    BY <1>3 DEF UpdateAnswered, Shown
  <2>3. n \in Tokens \cup Ids \cup {Number[i] : i \in Ids}
    BY <2>1
  <2>4. TypeOK'
    BY <1>3, <2>1, <2>2, <2>3, <1>T, Apart DEF UpdateAnswered, Goes, Calls, TypeOK
  <2>5. FoundIsNamed'
    BY <1>3, <2>1, <2>2, <2>3, <1>T, <1>F, Apart
       DEF UpdateAnswered, Goes, Calls, TypeOK, FoundIsNamed, NamedBy
  <2>6. PutIsMerged'
    BY <1>3, <2>1, <2>2, <2>3, <1>T, <1>F, <1>P, Apart
       DEF UpdateAnswered, Goes, Calls, TypeOK, FoundIsNamed, PutIsMerged, Exists, Rejected
  <2>7. StatusOnlyRises'
    BY <1>3, <2>1, <2>2, <2>3, <1>T, <1>F, <1>L, StatusFrame, Apart
       DEF UpdateAnswered, Goes, Calls, TypeOK, FoundIsNamed, Exists
  <2>8. AnswerIsOfTarget'
    BY <1>3, <2>1, <2>2, <2>3, <1>T, <1>A, Apart
       DEF UpdateAnswered, Goes, Calls, TypeOK, AnswerIsOfTarget
  <2>9. AnswerNamesOrder'
    BY <1>3, <2>1, <2>2, <2>3, <1>T, <1>N, Apart
       DEF UpdateAnswered, Goes, Calls, TypeOK, AnswerNamesOrder, NamedBy
  <2> QED BY <2>4, <2>5, <2>6, <2>7, <2>8, <2>9 DEF UpdateInv
<1>4. ASSUME NEW c \in Voids, NEW name \in Tokens, Void(c, name) PROVE UpdateInv'
  <2>1. answer[c] = Null
    BY <1>4, <1>A DEF Void, AnswerIsOfTarget, Calls
  <2>2. TypeOK'
    BY <1>4, <2>1, <1>T, Apart DEF Void, Goes, Calls, TypeOK
  <2>3. FoundIsNamed'
    BY <1>4, <2>1, <1>T, <1>F, Apart DEF Void, Goes, Calls, TypeOK, FoundIsNamed, NamedBy
  <2>4. PutIsMerged'
    BY <1>4, <2>1, <1>T, <1>F, <1>P, Apart
       DEF Void, Goes, Calls, TypeOK, FoundIsNamed, PutIsMerged, Exists, Rejected
  <2>5. StatusOnlyRises'
    BY <1>4, <2>1, <1>T, <1>F, <1>L, StatusFrame, Apart
       DEF Void, Goes, Calls, TypeOK, FoundIsNamed, Exists
  <2>6. AnswerIsOfTarget'
    BY <1>4, <2>1, <1>T, <1>A, Apart DEF Void, Goes, Calls, TypeOK, AnswerIsOfTarget
  <2>7. AnswerNamesOrder'
    BY <1>4, <2>1, <1>T, <1>N, Apart
       DEF Void, Goes, Calls, TypeOK, AnswerNamesOrder, NamedBy
  <2> QED BY <2>2, <2>3, <2>4, <2>5, <2>6, <2>7 DEF UpdateInv
<1>5. ASSUME NEW c \in Voids, LookUp(c) PROVE UpdateInv'
  <2>1. target[c] \in Tokens
    BY <1>5, <1>F DEF LookUp, FoundIsNamed, Calls
  <2>2. PICK n \in UNION {Shown(i, target[c]) : i \in Resolutions(target[c])} :
          answer' = [answer EXCEPT ![c] = n]
    BY <1>5 DEF LookUp
  <2>3. /\ n \in Tokens \cup {Number[j] : j \in Ids}
        /\ n = target[c] \/ (target[c] \in Ids /\ n = Number[target[c]])
    BY <2>1, <2>2, ShownIsNamed
  <2>4. TypeOK'
    BY <1>5, <2>1, <2>2, <2>3, <1>T, Apart DEF LookUp, Goes, Calls, TypeOK
  <2>5. FoundIsNamed'
    BY <1>5, <2>1, <2>2, <2>3, <1>T, <1>F, Apart
       DEF LookUp, Goes, Calls, TypeOK, FoundIsNamed, NamedBy
  <2>6. PutIsMerged'
    BY <1>5, <2>1, <2>2, <2>3, <1>T, <1>F, <1>P, Apart
       DEF LookUp, Goes, Calls, TypeOK, FoundIsNamed, PutIsMerged, Exists, Rejected
  <2>7. StatusOnlyRises'
    BY <1>5, <2>1, <2>2, <2>3, <1>T, <1>F, <1>L, StatusFrame, Apart
       DEF LookUp, Goes, Calls, TypeOK, FoundIsNamed, Exists
  <2>8. AnswerIsOfTarget'
    BY <1>5, <2>1, <2>2, <2>3, <1>T, <1>A, Apart
       DEF LookUp, Goes, Calls, TypeOK, AnswerIsOfTarget
  <2>9. AnswerNamesOrder'
    BY <1>5, <2>1, <2>2, <2>3, <1>T, <1>N, Apart
       DEF LookUp, Goes, Calls, TypeOK, AnswerNamesOrder, NamedBy
  <2> QED BY <2>4, <2>5, <2>6, <2>7, <2>8, <2>9 DEF UpdateInv
<1>6. ASSUME NEW c \in Voids, VoidAnswered(c) PROVE UpdateInv'
  <2>1. found[c] \in Ids /\ NamedBy(c, found[c])
    BY <1>6, <1>T, <1>F DEF VoidAnswered, TypeOK, FoundIsNamed, Calls
  <2>2. \A i \in Ids : Number[i] \notin Ids
    BY UpdateAssumption
  <2>3. answer[c] # Null => answer[c] \in {found[c], Number[found[c]]}
    BY <1>6, <2>1, <2>2, <1>A DEF VoidAnswered, AnswerIsOfTarget, NamedBy, Calls
  <2>4. TypeOK'
    BY <1>6, <2>1, <2>2, <2>3, <1>T, Apart DEF VoidAnswered, Goes, Calls, TypeOK
  <2>5. FoundIsNamed'
    BY <1>6, <2>1, <2>2, <2>3, <1>T, <1>F, Apart
       DEF VoidAnswered, Goes, Calls, TypeOK, FoundIsNamed, NamedBy
  <2>6. PutIsMerged'
    BY <1>6, <2>1, <2>2, <2>3, <1>T, <1>F, <1>P, Apart
       DEF VoidAnswered, Goes, Calls, TypeOK, FoundIsNamed, PutIsMerged, Exists, Rejected
  <2>7. StatusOnlyRises'
    BY <1>6, <2>1, <2>2, <2>3, <1>T, <1>F, <1>L, StatusFrame, Apart
       DEF VoidAnswered, Goes, Calls, TypeOK, FoundIsNamed, Exists
  <2>8. AnswerIsOfTarget'
    BY <1>6, <2>1, <2>2, <2>3, <1>T, <1>A, Apart
       DEF VoidAnswered, Goes, Calls, TypeOK, AnswerIsOfTarget
  <2>9. AnswerNamesOrder'
    BY <1>6, <2>1, <2>2, <2>3, <1>T, <1>N, Apart
       DEF VoidAnswered, Goes, Calls, TypeOK, AnswerNamesOrder, NamedBy
  <2> QED BY <2>4, <2>5, <2>6, <2>7, <2>8, <2>9 DEF UpdateInv
<1>7. ASSUME NEW c \in Calls, Fails(c) PROVE UpdateInv'
  <2>1. TypeOK'
    BY <1>7, <1>T, Apart DEF Fails, Goes, Calls, TypeOK
  <2>2. FoundIsNamed'
    BY <1>7, <1>T, <1>F, Apart DEF Fails, Goes, Calls, TypeOK, FoundIsNamed, NamedBy
  <2>3. PutIsMerged'
    BY <1>7, <1>T, <1>F, <1>P, Apart
       DEF Fails, Goes, Calls, TypeOK, FoundIsNamed, PutIsMerged, Exists, Rejected
  <2>4. StatusOnlyRises'
    BY <1>7, <1>T, <1>F, <1>L, StatusFrame, Apart
       DEF Fails, Goes, Calls, TypeOK, FoundIsNamed, Exists
  <2>5. AnswerIsOfTarget'
    BY <1>7, <1>T, <1>A, Apart DEF Fails, Goes, Calls, TypeOK, AnswerIsOfTarget
  <2>6. AnswerNamesOrder'
    BY <1>7, <1>T, <1>N, Apart DEF Fails, Goes, Calls, TypeOK, AnswerNamesOrder, NamedBy
  <2> QED BY <2>1, <2>2, <2>3, <2>4, <2>5, <2>6 DEF UpdateInv
<1>8. ASSUME NEW c \in Calls, RefusesOrLoses(c) PROVE UpdateInv'
  <2>1. TypeOK'
    BY <1>8, <1>T, Apart DEF RefusesOrLoses, Goes, Calls, TypeOK
  <2>2. FoundIsNamed'
    BY <1>8, <1>T, <1>F, Apart
       DEF RefusesOrLoses, Goes, Calls, TypeOK, FoundIsNamed, NamedBy
  <2>3. PutIsMerged'
    BY <1>8, <1>T, <1>F, <1>P, Apart
       DEF RefusesOrLoses, Goes, Calls, TypeOK, FoundIsNamed, PutIsMerged, Exists, Rejected
  <2>4. StatusOnlyRises'
    BY <1>8, <1>T, <1>F, <1>L, StatusFrame, Apart
       DEF RefusesOrLoses, Goes, Calls, TypeOK, FoundIsNamed, Exists
  <2>5. AnswerIsOfTarget'
    BY <1>8, <1>T, <1>A, Apart DEF RefusesOrLoses, Goes, Calls, TypeOK, AnswerIsOfTarget
  <2>6. AnswerNamesOrder'
    BY <1>8, <1>T, <1>N, Apart
       DEF RefusesOrLoses, Goes, Calls, TypeOK, AnswerNamesOrder, NamedBy
  <2> QED BY <2>1, <2>2, <2>3, <2>4, <2>5, <2>6 DEF UpdateInv
<1>9. ASSUME NEW i \in Ids, Created(i) PROVE UpdateInv'
  <2>1. PICK o \in Orders : orders' = [orders EXCEPT ![i] = o] /\ o.named
    BY <1>9 DEF Created, NewOrders
  <2>2. TypeOK'
    BY <1>9, <2>1, <1>T, Apart DEF Created, Goes, Calls, TypeOK
  <2>3. FoundIsNamed'
    BY <1>9, <2>1, <1>T, <1>F, Apart DEF Created, Goes, Calls, TypeOK, FoundIsNamed, NamedBy
  <2>4. PutIsMerged'
    BY <1>9, <2>1, <1>T, <1>F, <1>P, Apart
       DEF Created, Goes, Calls, TypeOK, FoundIsNamed, PutIsMerged, Exists, Rejected
  <2>5. StatusOnlyRises'
    <3>1. /\ put' = put /\ seen' = seen /\ found' = found /\ change' = change
          /\ orders[i] = Null
      BY <1>9 DEF Created, Exists
    <3>2. \A u \in Updates : put[u] = "travelling" => found[u] \in Ids /\ orders[found[u]] # Null
      BY <1>T, <1>F, <1>P DEF TypeOK, FoundIsNamed, PutIsMerged, Exists, Calls
    <3>3. \A u \in Updates : put[u] = "travelling" => orders'[found[u]] = orders[found[u]]
      BY <2>1, <3>1, <3>2, <1>T DEF TypeOK
    <3> QED BY <3>1, <3>3, <1>L, StatusFrame
  <2>6. AnswerIsOfTarget'
    BY <1>9, <2>1, <1>T, <1>A, Apart DEF Created, Goes, Calls, TypeOK, AnswerIsOfTarget
  <2>7. AnswerNamesOrder'
    BY <1>9, <2>1, <1>T, <1>N, Apart
       DEF Created, Goes, Calls, TypeOK, AnswerNamesOrder, NamedBy
  <2> QED BY <2>2, <2>3, <2>4, <2>5, <2>6, <2>7 DEF UpdateInv
<1>10. ASSUME UNCHANGED vars PROVE UpdateInv'
  <2>1. TypeOK'
    BY <1>10, <1>T DEF vars, TypeOK
  <2>2. FoundIsNamed'
    BY <1>10, <1>F DEF vars, FoundIsNamed, NamedBy
  <2>3. PutIsMerged'
    BY <1>10, <1>P DEF vars, PutIsMerged, Exists, Rejected
  <2>4. StatusOnlyRises'
    BY <1>10, <1>L DEF vars, StatusOnlyRises, PostedByOther
  <2>5. AnswerIsOfTarget'
    BY <1>10, <1>A DEF vars, AnswerIsOfTarget
  <2>6. AnswerNamesOrder'
    BY <1>10, <1>N DEF vars, AnswerNamesOrder, NamedBy
  <2> QED BY <2>1, <2>2, <2>3, <2>4, <2>5, <2>6 DEF UpdateInv
<1> QED
  BY <1>1, <1>2, <1>3, <1>4, <1>5, <1>6, <1>7, <1>8, <1>9, <1>10, ResolveInv, AppliesInv,
     AppliesVoidInv DEF Next

\* The invariant holds in every reachable state.
THEOREM UpdateInvariant == Spec => []UpdateInv
BY InitInv, StepInv, PTL DEF Spec

\* The order a call answers with is the one it changed and was asked to change.
THEOREM AnswerNamed == Spec => []AnswerNamesOrder
<1>1. UpdateInv => AnswerNamesOrder
  BY DEF UpdateInv
<1> QED BY <1>1, UpdateInvariant, PTL

\* Only the ERP's own steps apply a PUT or change an order.
LEMMA AppliedIsErp ==
  ASSUME UpdateInv, [Next]_vars, NEW c \in Calls, Applied(c)
  PROVE  (c \in Updates /\ Applies(c)) \/ (c \in Voids /\ AppliesVoid(c))
<1>T. TypeOK
  BY DEF UpdateInv
<1>F. FoundIsNamed
  BY DEF UpdateInv
<1>1. ASSUME NEW d \in Calls, Resolve(d) PROVE FALSE
  <2>1. put[d] = "unsent"
    BY <1>1, <1>F DEF Resolve, FoundIsNamed
  <2>2. put' = put \/ put' = [put EXCEPT ![d] = "travelling"]
    BY <1>1 DEF Resolve
  <2> QED BY <2>1, <2>2, <1>T DEF Applied, TypeOK
<1>2. ASSUME NEW d \in Calls, Fails(d) \/ RefusesOrLoses(d) PROVE FALSE
  BY <1>2, <1>T DEF Fails, RefusesOrLoses, Applied, TypeOK
<1>3. ASSUME NEW d \in Updates, ReadAndPut(d) PROVE FALSE
  <2>1. put' = put \/ put' = [put EXCEPT ![d] = "travelling"]
    BY <1>3 DEF ReadAndPut
  <2> QED BY <2>1, <1>T DEF Applied, TypeOK, Calls
<1>4. ASSUME NEW d \in Updates, UpdateAnswered(d) PROVE FALSE
  BY <1>4, <1>T DEF UpdateAnswered, Applied
<1>5. ASSUME NEW d \in Voids, LookUp(d) \/ VoidAnswered(d) PROVE FALSE
  BY <1>5, <1>T DEF LookUp, VoidAnswered, Applied
<1>6. ASSUME NEW d \in Voids, NEW name \in Tokens, Void(d, name) PROVE FALSE
  BY <1>6 DEF Void, Applied
<1>7. ASSUME NEW d \in Updates, NEW name \in Tokens, NEW ch \in Wanted, Update(d, name, ch)
      PROVE  FALSE
  BY <1>7 DEF Update, Applied
<1>8. ASSUME NEW i \in Ids, Created(i) PROVE FALSE
  BY <1>8 DEF Created, Applied
<1>9. ASSUME UNCHANGED vars PROVE FALSE
  BY <1>9 DEF vars, Applied
<1>10. ASSUME NEW d \in Updates, Applies(d) PROVE c \in Updates /\ Applies(c)
  <2>1. d = c
    BY <1>10, <1>T DEF Applies, Applied, TypeOK, Calls
  <2> QED BY <1>10, <2>1
<1>11. ASSUME NEW d \in Voids, AppliesVoid(d) PROVE c \in Voids /\ AppliesVoid(c)
  <2>1. d = c
    BY <1>11, <1>T DEF AppliesVoid, Applied, TypeOK, Calls
  <2> QED BY <1>11, <2>1
<1> QED
  BY <1>1, <1>2, <1>3, <1>4, <1>5, <1>6, <1>7, <1>8, <1>9, <1>10, <1>11 DEF Next

\* What one step makes of an order that is as the update read it.
LEMMA StepIsExact ==
  ASSUME UpdateInv, [Next]_vars, NEW c \in Updates, Applied(c), seen[c] = orders[found[c]]
  PROVE  IsExact(c)
<1> DEFINE i == found[c]  o == orders[i]  ch == change[c]  p == Merged(o, ch)
<1>1. Applies(c)
  BY AppliedIsErp, UpdateAssumption DEF Calls
<1>2. /\ o \in Orders /\ ch \in Changes /\ ~Rejected(o, ch) /\ i \in Ids
      /\ orders \in [Ids -> Orders \cup {Null}]
  BY <1>1, UpdateAssumption
     DEF Applies, UpdateInv, TypeOK, PutIsMerged, FoundIsNamed, Exists, Calls
<1>3. p \in Orders /\ orders'[i] = AfterPut(o, p)
  BY <1>1, <1>2, MergedIsOrder DEF Applies, AfterPut
<1> DEFINE q == orders'[i]
<1>4. q.party = p.party /\ q.note = p.note /\ q.items = p.items
  BY <1>3 DEF AfterPut, Orders
<1>5. q.named = (p.named /\ o.named)
  BY <1>3 DEF AfterPut, Orders
<1>6. /\ p.party = IF "party" \in ch.fields THEN ch.value ELSE o.party
      /\ p.note = IF "note" \in ch.fields THEN ch.value ELSE o.note
      /\ p.items = IF "items" \in ch.fields THEN ch.value ELSE o.items
      /\ p.named = IF "items" \in ch.fields THEN ch.named ELSE TRUE
  BY <1>2 DEF Merged, Orders
<1>7. \A f \in Fields : q[f] = IF f \in ch.fields THEN ch.value ELSE o[f]
  BY <1>4, <1>6 DEF Fields
<1>8. "items" \notin ch.fields => q.named = o.named
  BY <1>2, <1>5, <1>6 DEF Orders
<1>9. o.status = Effective => q.party = o.party
  BY <1>2, <1>4, <1>6 DEF Rejected
<1> QED BY <1>7, <1>8, <1>9 DEF IsExact

\* An update of an order nobody touched since changes what it was asked to.
THEOREM UndisturbedExact == Spec => UndisturbedUpdateIsExact
<1>1. UpdateInv /\ [Next]_vars =>
        [\A c \in Updates : Applied(c) /\ seen[c] = orders[found[c]] => IsExact(c)]_vars
  BY StepIsExact
<1> QED BY <1>1, UpdateInvariant, PTL DEF Spec, UndisturbedUpdateIsExact

\* A step that takes the identity of an order's lines.
LEMMA IdentityTaken ==
  ASSUME UpdateInv, [Next]_vars, NEW i \in Ids, Exists(i), orders[i].named, ~orders'[i].named
  PROVE  \E c \in Updates :
           /\ Applied(c) /\ found[c] = i
           /\ "items" \in change[c].fields /\ ~change[c].named
           /\ seen[c].status = Draft
           /\ orders[i].status = Draft \/ PostedByOther(c)
<1>1. orders \in [Ids -> Orders \cup {Null}] /\ orders[i] \in Orders
  BY DEF UpdateInv, TypeOK, Exists
<1>2. ASSUME NEW j \in Ids, Created(j) PROVE FALSE
  <2>1. j # i /\ \E q : orders' = [orders EXCEPT ![j] = q]
    BY <1>2 DEF Created
  <2> QED BY <1>1, <2>1
<1>3. (\E c \in Updates : Applies(c)) \/ (\E c \in Voids : AppliesVoid(c))
  BY <1>2 DEF Next, vars, Update, ReadAndPut, UpdateAnswered, Void, LookUp, VoidAnswered,
              Resolve, Fails, RefusesOrLoses
<1>4. ASSUME NEW c \in Voids, AppliesVoid(c) PROVE FALSE
  <2>1. orders'[i] = orders[i] \/ orders'[i] = [orders[i] EXCEPT !.status = Voided]
    BY <1>1, <1>4 DEF AppliesVoid
  <2> QED BY <1>1, <2>1 DEF Orders
<1>5. PICK c \in Updates : Applies(c)
  BY <1>3, <1>4
<1> DEFINE o == orders[i]  s == seen[c]  ch == change[c]  p == Merged(s, ch)
<1>6. (Applied(c) /\ put[c] = "travelling" /\ o.status # Voided) \/ found[c] # i
  BY <1>5 DEF Applies, Applied, UpdateInv, TypeOK, Calls
<1>7. found[c] = i
  BY <1>1, <1>5 DEF Applies
<1>8. s \in Orders /\ ch \in Changes /\ ~Rejected(s, ch)
  BY <1>5 DEF Applies, UpdateInv, TypeOK, PutIsMerged, FoundIsNamed, Calls
<1>9. p \in Orders /\ orders'[i] = AfterPut(o, p)
  BY <1>1, <1>5, <1>7, <1>8, MergedIsOrder DEF Applies, AfterPut
<1>10. ~p.named
  BY <1>1, <1>9 DEF AfterPut, Orders
<1>11. "items" \in ch.fields /\ ~ch.named
  BY <1>8, <1>10 DEF Merged, Orders, Changes
<1>12. s.status = Draft
  BY <1>8, <1>11 DEF Rejected, Orders
<1>13. o.status = Draft \/ PostedByOther(c)
  <2>1. o.status = Effective => s.status = Effective \/ PostedByOther(c)
    BY <1>6, <1>7 DEF UpdateInv, StatusOnlyRises
  <2> QED BY <1>1, <1>6, <1>7, <1>12, <2>1 DEF Orders, Draft, Effective, Voided
<1> QED BY <1>6, <1>7, <1>11, <1>12, <1>13

\* Lines lose their identity only to an update that replaced them in an order it
\* had read as a draft, and that no one else but another update has posted since.
THEOREM IdentityKept == Spec => LinesKeepIdentity
<1>1. UpdateInv /\ [Next]_vars =>
        [\A i \in Ids : Exists(i) /\ orders[i].named /\ ~orders'[i].named =>
           \E c \in Updates :
             /\ Applied(c) /\ found[c] = i
             /\ "items" \in change[c].fields /\ ~change[c].named
             /\ seen[c].status = Draft
             /\ orders[i].status = Draft \/ PostedByOther(c)]_vars
  BY IdentityTaken
<1> QED BY <1>1, UpdateInvariant, PTL DEF Spec, LinesKeepIdentity

\* A step that changes an order carries out the PUT of a call that named it.
LEMMA ChangeIsNamed ==
  ASSUME UpdateInv, [Next]_vars, NEW i \in Ids, Exists(i), orders'[i] # orders[i]
  PROVE  \E c \in Calls : Applied(c) /\ NamedBy(c, i)
<1> USE UpdateAssumption DEF UpdateInv
<1>1. ~UNCHANGED orders
  OBVIOUS
<1>2. ~Created(i) /\ \A j \in Ids : ~Created(j)
  BY DEF Created, TypeOK
<1>3. (\E c \in Updates : Applies(c)) \/ (\E c \in Voids : AppliesVoid(c))
  BY <1>1, <1>2
     DEF Next, vars, Update, ReadAndPut, UpdateAnswered, Void, LookUp, VoidAnswered,
                    Resolve, Fails, RefusesOrLoses
<1>4. ASSUME NEW c \in Updates, Applies(c) PROVE Applied(c) /\ found[c] = i /\ c \in Calls
  BY <1>4 DEF Applies, Applied, TypeOK, Calls
<1>5. ASSUME NEW c \in Voids, AppliesVoid(c) PROVE Applied(c) /\ found[c] = i /\ c \in Calls
  BY <1>5 DEF AppliesVoid, Applied, TypeOK, Calls
<1>6. \A c \in Calls : found[c] = i => NamedBy(c, i)
  BY DEF FoundIsNamed
<1> QED BY <1>3, <1>4, <1>5, <1>6

\* No order is written that the call did not name, whatever else a search finds.
THEOREM OnlyNamedWritten == Spec => WritesOnlyNamed
<1>1. UpdateInv /\ [Next]_vars =>
        [\A i \in Ids : Exists(i) /\ orders'[i] # orders[i] =>
           \E c \in Calls : Applied(c) /\ NamedBy(c, i)]_vars
  BY ChangeIsNamed
<1> QED BY <1>1, UpdateInvariant, PTL DEF Spec, WritesOnlyNamed

\* A search that misses an order that exists found more than a page.
LEMMA MissIsBeyondPage ==
  ASSUME NEW n \in Tokens, Null \in Resolutions(n), NEW i \in Ids, Exists(i), Number[i] = n
  PROVE  Cardinality({j \in Finds[n] : Exists(j)}) > PageSize
<1> DEFINE hits == {j \in Finds[n] : Exists(j)}
<1>1. n \notin Ids /\ i \in hits
  BY UpdateAssumption
<1>2. PICK page \in Pages(n) : Exact(n, page) = {}
  <2>1. PICK page \in Pages(n) :
          Null \in IF Exact(n, page) = {} THEN {Null} ELSE Exact(n, page)
    BY <1>1 DEF Resolutions
  <2>2. page \subseteq Ids
    BY <1>1, UpdateAssumption DEF Pages
  <2>3. Null \notin Exact(n, page)
    BY <2>2, UpdateAssumption DEF Exact
  <2> QED BY <2>1, <2>3
<1>3. page \subseteq hits /\ i \notin page /\ page # hits /\ Cardinality(page) = PageSize
  BY <1>1, <1>2 DEF Pages, Exact
<1>4. IsFiniteSet(hits)
  <2>1. hits \subseteq Ids
    BY <1>1, UpdateAssumption
  <2> QED BY <2>1, FS_Subset, UpdateAssumption
<1>5. Cardinality(page) < Cardinality(hits)
  <2>1. page \in SUBSET hits
    BY <1>3
  <2>2. Cardinality(page) <= Cardinality(hits) /\ (Cardinality(hits) = Cardinality(page) => page = hits)
    BY <2>1, <1>4, FS_Subset
  <2>3. Cardinality(page) \in Nat /\ Cardinality(hits) \in Nat
    BY <2>1, <1>4, FS_Subset, FS_CardinalityType
  <2> QED BY <1>3, <2>2, <2>3
<1> QED BY <1>3, <1>5

\* An order that exists is missed only when a page could not hold all hits.
THEOREM MissedBeyondPage == Spec => MissedOnlyBeyondPage
<1>1. ASSUME UpdateInv, [Next]_vars, NEW c \in Calls, NEW i \in Ids, pc[c] = "finding",
             pc'[c] = "not found", Exists(i), Number[i] = target[c]
      PROVE  Cardinality({j \in Finds[target[c]] : Exists(j)}) > PageSize
  <2> USE Apart DEF UpdateInv, Calls
  <2>1. Resolve(c)
    BY <1>1 DEF Next, vars, TypeOK, Goes, Update, ReadAndPut, UpdateAnswered, Applies, Void,
                LookUp, VoidAnswered, AppliesVoid, Resolve, Fails, RefusesOrLoses, Created
  <2>2. Null \in Resolutions(target[c])
    BY <1>1, <2>1 DEF Resolve, Goes, TypeOK
  <2>3. target[c] \in Tokens
    BY <1>1 DEF FoundIsNamed
  <2> QED BY <1>1, <2>2, <2>3, MissIsBeyondPage
<1>2. UpdateInv /\ [Next]_vars =>
        [\A c \in Calls, i \in Ids :
           pc[c] = "finding" /\ pc'[c] = "not found" /\ Exists(i) /\ Number[i] = target[c] =>
             Cardinality({j \in Finds[target[c]] : Exists(j)}) > PageSize]_vars
  BY <1>1
<1> QED BY <1>2, UpdateInvariant, PTL DEF Spec, MissedOnlyBeyondPage
=============================================================================
