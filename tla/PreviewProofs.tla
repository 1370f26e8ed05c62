--------------------------- MODULE PreviewProofs ---------------------------
(***************************************************************************)
(* What a preview stores is what was said and confirmed                    *)
(* (PreviewIsConfirmed), its references are those that were named          *)
(* (ReferencesNamed), and an answer that is not ready leaves the agent     *)
(* something to do (AlwaysAWayOn): for any catalogues, texts and           *)
(* references, and any agent that does what it is told, errs, edits the    *)
(* text or repeats itself.                                                 *)
(***************************************************************************)
EXTENDS SalesOrderPreview, SequenceTheorems, FiniteSetTheorems, TLAPS

-----------------------------------------------------------------------------
(* Helpers.                                                                *)

LEMMA TheKinds ==
  /\ Kinds = {"customer", "warehouse", "handler"}
  /\ Order[1] = "customer" /\ Order[2] = "warehouse" /\ Order[3] = "handler"
  /\ \A i \in 1 .. 3 : Order[i] \in Kinds
  /\ \A k \in Kinds : \E i \in 1 .. 3 : Order[i] = k
  /\ \A i, j \in 1 .. 3 : Order[i] = Order[j] => i = j
<1>1. Kinds = {"customer", "warehouse", "handler"}
  <2>1. Kinds = {Order[i] : i \in 1 .. 3}
    BY DEF Kinds, ToSet, Order
  <2> QED BY <2>1 DEF Order
<1>2. Order[1] = "customer" /\ Order[2] = "warehouse" /\ Order[3] = "handler"
  BY DEF Order
<1>3. \A i \in 1 .. 3 : i = 1 \/ i = 2 \/ i = 3
  OBVIOUS
<1> QED BY <1>1, <1>2, <1>3

\* The first candidates are some of them, and at least one if there are any.
LEMMA SomeAreOffered ==
  ASSUME NEW C, IsFiniteSet(C), NEW cap \in Nat \ {0}
  PROVE  /\ Best(C, cap) \subseteq C
         /\ C # {} => Best(C, cap) # {}
<1>1. CASE Cardinality(C) <= cap
  BY <1>1 DEF Best
<1>2. CASE ~(Cardinality(C) <= cap)
  <2>1. \E S \in SUBSET C : Cardinality(S) = cap
    <3>1. PICK n \in Nat : ExistsBijection(1 .. n, C)
      BY FS_NatBijection
    <3>2. Cardinality(C) = n /\ cap <= n
      BY <1>2, <3>1, FS_CountingElements
    <3>3. PICK f \in Bijection(1 .. n, C) : TRUE
      BY <3>1 DEF ExistsBijection
    <3> DEFINE S == {f[i] : i \in 1 .. cap}
               g == [i \in 1 .. cap |-> f[i]]
    <3>4. f \in [1 .. n -> C] /\ \A i, j \in 1 .. n : f[i] = f[j] => i = j
      BY <3>3 DEF Bijection, Injection, IsInjective
    <3>5. S \subseteq C
      BY <3>2, <3>4
    <3>6. \A i \in 1 .. cap : i \in 1 .. n
      BY <3>2
    <3>7. g \in Bijection(1 .. cap, S)
      BY <3>4, <3>6 DEF Bijection, Injection, Surjection, IsInjective
    <3>8. Cardinality(S) = cap
      BY <3>7, FS_CountingElements DEF ExistsBijection
    <3> QED BY <3>5, <3>8
  <2>2. Best(C, cap) \in SUBSET C /\ Cardinality(Best(C, cap)) = cap
    BY <1>2, <2>1 DEF Best
  <2>3. Best(C, cap) # {}
    BY <2>2, FS_EmptySet
  <2> QED BY <2>2, <2>3
<1> QED BY <1>1, <1>2

\* A set of one element is that element alone.
LEMMA TheOnlyOne ==
  ASSUME NEW S, IsFiniteSet(S), Cardinality(S) = 1
  PROVE  S = {CHOOSE x \in S : TRUE}
<1>1. PICK x : S = {x}
  BY FS_Singleton
<1> QED BY <1>1

\* Remembering adds ids to ids.
LEMMA SetToSeqType ==
  ASSUME NEW S, IsFiniteSet(S)
  PROVE  SetToSeq(S) \in Seq(S)
<1> DEFINE n == Cardinality(S)
<1>1. n \in Nat /\ ExistsBijection(1 .. n, S)
  BY FS_CardinalityType
<1>2. \E f \in [1 .. n -> S] : IsInjective(f)
  BY <1>1 DEF ExistsBijection, Bijection, Injection
<1>3. SetToSeq(S) \in [1 .. n -> S]
  BY <1>2 DEF SetToSeq
<1> QED BY <1>1, <1>3, SeqDef

LEMMA RememberType ==
  ASSUME NEW mem \in Seq(Ids), NEW page \in SUBSET Ids, IsFiniteSet(page)
  PROVE  Remember(mem, page) \in Seq(Ids)
<1> DEFINE new == page \ ToSet(mem)
           tail == SetToSeq(new)
           all == mem \o tail
           drop == IF Len(all) > RememberCap THEN Len(all) - RememberCap ELSE 0
<1>1. tail \in Seq(Ids)
  <2>1. IsFiniteSet(new)
    BY FS_Subset
  <2>2. tail \in Seq(new)
    BY <2>1, SetToSeqType
  <2> QED BY <2>2, SeqMonotonic
<1> HIDE DEF tail
<1>2. all \in Seq(Ids)
  BY <1>1, ConcatProperties
<1>3. Remember(mem, page) = SubSeq(all, drop + 1, Len(all))
  BY DEF Remember, all, tail
<1> HIDE DEF all
<1>4. RememberCap \in Nat
  BY PreviewAssumption
<1>5. Len(all) \in Nat /\ \A i \in 1 .. Len(all) : all[i] \in Ids
  BY <1>2, LenProperties, ElementOfSeq
<1>6. drop \in Nat
  BY <1>4, <1>5
<1>7. drop + 1 \in Int /\ Len(all) \in Int /\ \A i \in (drop + 1) .. Len(all) : all[i] \in Ids
  BY <1>5, <1>6
<1> HIDE DEF drop
<1>8. SubSeq(all, drop + 1, Len(all)) \in Seq(Ids)
  BY <1>7, SubSeqProperties
<1> QED BY <1>3, <1>8

-----------------------------------------------------------------------------
(* References.                                                             *)

\* A page holds references of the kind; it is empty only if none is found, and
\* an id finds nothing.
LEMMA APage ==
  ASSUME NEW k \in Kinds, NEW q, NEW page \in Pages(k, q)
  PROVE  /\ page \subseteq Entities[k] /\ page \subseteq Ids /\ IsFiniteSet(page)
         /\ page = {} => Found(k, q) = {}
         /\ page # {} => q \notin Ids
<1>1. Found(k, q) \subseteq Entities[k] /\ (Found(k, q) # {} => q \notin Ids)
  BY ReferenceAssumption DEF Found
<1>2. page \in SUBSET Found(k, q) /\ (page = Found(k, q) \/ Cardinality(page) = PageSize)
  BY DEF Pages
<1>3. IsFiniteSet(page)
  BY <1>1, <1>2, ReferenceAssumption, FS_Subset
<1>4. page = {} => Found(k, q) = {}
  <2>1. PageSize # 0
    BY PreviewAssumption
  <2> QED BY <1>2, <2>1, FS_EmptySet
<1>5. Entities[k] \subseteq Ids
  BY DEF Ids
<1> QED BY <1>1, <1>2, <1>3, <1>4, <1>5

\* What a search resolves a reference to.
LEMMA SearchResolved ==
  ASSUME NEW f, IsForm(f), NEW k \in Kinds, f.query[k] # Null,
         NEW page \in Pages(k, f.query[k])
  PROVE  Resolves(f, k, Judge(page, f.query[k]))
<1> DEFINE q == f.query[k]  r == Judge(page, q)
<1>1. /\ page \subseteq Entities[k] /\ page \subseteq Ids /\ IsFiniteSet(page)
      /\ page = {} => Found(k, q) = {}
      /\ page # {} => q \notin Ids
  BY APage
<1>2. q \in Queries[k] \cup Entities[k]
  BY DEF IsForm
<1>3. CASE Cardinality(Exact(page, q)) = 1
  <2>1. Exact(page, q) \in SUBSET page
    BY DEF Exact
  <2>2. IsFiniteSet(Exact(page, q))
    BY <1>1, <2>1, FS_Subset
  <2>3. (CHOOSE e \in Exact(page, q) : TRUE) \in Exact(page, q)
    BY <1>3, <2>2, TheOnlyOne
  <2>4. r = [status |-> "matched", selected |-> CHOOSE e \in Exact(page, q) : TRUE,
             candidates |-> {}]
    BY <1>3 DEF Judge
  <2>5. /\ r.status = "matched" /\ r.candidates = {}
        /\ r.selected \in page /\ q \in {r.selected, NameOf[r.selected]}
    BY <2>3, <2>4 DEF Exact
  <2> QED BY <1>1, <2>5 DEF Resolves
<1>4. CASE Cardinality(Exact(page, q)) # 1
  <2>1. /\ r.status = IF page = {} THEN "unmatched" ELSE "ambiguous"
        /\ r.candidates = Best(page, CandidateCap)
    BY <1>4 DEF Judge
  <2>2. /\ Best(page, CandidateCap) \subseteq page
        /\ page # {} => Best(page, CandidateCap) # {}
    BY <1>1, SomeAreOffered, PreviewAssumption
  <2>3. CASE page = {}
    <3>1. Queries[k] \ {q} # {}
      BY <1>1, <2>3, AgentAssumption DEF Found
    <3> QED BY <2>1, <2>2, <2>3, <3>1 DEF Resolves
  <2>4. CASE page # {}
    BY <1>1, <2>1, <2>2, <2>4 DEF Resolves
  <2> QED BY <2>3, <2>4
<1> QED BY <1>3, <1>4

\* What is resolved without a search.
LEMMA AtOnceResolved ==
  ASSUME NEW f, IsForm(f), NEW mem \in Seq(Ids), NEW j \in 1 .. 3, ~Searched(f, mem, j)
  PROVE  Resolves(f, Order[j], AtOnce(f.query[Order[j]]))
<1> DEFINE k == Order[j]  q == f.query[k]
<1>1. k \in Kinds
  BY TheKinds
<1>2. CASE q = Null
  BY <1>2 DEF Resolves, AtOnce
<1>3. CASE q # Null
  <2>1. Contains(mem, q)
    BY <1>3 DEF Searched, Knows
  <2>2. q \in Ids
    BY <2>1, ElementOfSeq DEF Contains
  <2>3. q \in Entities[k]
    <3>1. q \in Queries[k] \cup Entities[k] \cup {Null}
      BY <1>1 DEF IsForm
    <3> QED BY <1>1, <1>3, <2>2, <3>1, AgentAssumption
  <2>4. AtOnce(q).status = "matched" /\ AtOnce(q).selected = q /\ AtOnce(q).candidates = {}
    BY <1>3 DEF AtOnce
  <2> QED BY <1>3, <2>3, <2>4 DEF Resolves
<1> QED BY <1>2, <1>3

\* The next stop is the first reference that has to be searched.
LEMMA NextStop ==
  ASSUME NEW f, NEW mem, NEW i \in 0 .. 3
  PROVE  /\ Stop(f, mem, i) \in 1 .. 4 /\ Stop(f, mem, i) > i
         /\ Stop(f, mem, i) # 4 => Searched(f, mem, Stop(f, mem, i))
         /\ \A l \in 1 .. 3 : l > i /\ l < Stop(f, mem, i) => ~Searched(f, mem, l)
<1> DEFINE todo == {j \in 1 .. 3 : j > i /\ Searched(f, mem, j)}
<1>1. CASE todo = {}
  BY <1>1 DEF Stop
<1>2. CASE todo # {}
  <2>1. \E j \in todo : \A l \in todo : j <= l
    <3>1. todo \subseteq {1, 2, 3}
      OBVIOUS
    <3> HIDE DEF todo
    <3>2. CASE 1 \in todo
      BY <3>1, <3>2
    <3>3. CASE 1 \notin todo /\ 2 \in todo
      BY <3>1, <3>3
    <3>4. CASE todo = {3}
      BY <3>4
    <3> QED BY <1>2, <3>1, <3>2, <3>3, <3>4
  <2>2. Stop(f, mem, i) \in todo /\ \A l \in todo : Stop(f, mem, i) <= l
    BY <1>2, <2>1 DEF Stop
  <2> QED BY <2>2
<1> QED BY <1>1, <1>2

\* What was resolved before position i stays, and the references up to the next
\* stop are resolved at once.
LEMMA PassedResolved ==
  ASSUME NEW f, IsForm(f), NEW mem \in Seq(Ids), NEW i \in 0 .. 3, NEW res,
         \A l \in 1 .. 3 : l <= i => Resolves(f, Order[l], res[Order[l]])
  PROVE  LET stop == Stop(f, mem, i)
             all == Passed(f, res, i, stop)
         IN /\ all = [k \in Kinds |-> all[k]]
            /\ \A l \in 1 .. 3 : l < stop => Resolves(f, Order[l], all[Order[l]])
<1> DEFINE stop == Stop(f, mem, i)
           all == Passed(f, res, i, stop)
<1>1. /\ stop \in 1 .. 4 /\ stop > i
      /\ \A l \in 1 .. 3 : l > i /\ l < stop => ~Searched(f, mem, l)
  BY NextStop
<1> HIDE DEF stop
<1>2. all = [k \in Kinds |-> IF \E l \in (i + 1) .. (stop - 1) : Order[l] = k
                             THEN AtOnce(f.query[k]) ELSE res[k]]
  BY DEF Passed
<1> HIDE DEF all
<1>3. ASSUME NEW l \in 1 .. 3, l < stop
      PROVE  Resolves(f, Order[l], all[Order[l]])
  <2>1. Order[l] \in Kinds
    BY TheKinds
  <2>2. CASE l > i
    <3>1. \E m \in (i + 1) .. (stop - 1) : Order[m] = Order[l]
      BY <1>1, <1>3, <2>2
    <3>2. all[Order[l]] = AtOnce(f.query[Order[l]])
      BY <1>2, <2>1, <3>1
    <3> QED BY <1>1, <1>3, <2>2, <3>2, AtOnceResolved
  <2>3. CASE l <= i
    <3>1. ~\E m \in (i + 1) .. (stop - 1) : Order[m] = Order[l]
      <4> SUFFICES ASSUME NEW m \in (i + 1) .. (stop - 1), Order[m] = Order[l] PROVE FALSE
        OBVIOUS
      <4>1. m \in 1 .. 3 /\ m # l
        BY <1>1, <2>3
      <4> QED BY <4>1, TheKinds
    <3>2. all[Order[l]] = res[Order[l]]
      BY <1>2, <2>1, <3>1
    <3> QED BY <2>3, <3>2
  <2> QED BY <2>2, <2>3
<1>4. all = [k \in Kinds |-> all[k]]
  BY <1>2
<1> QED BY <1>3, <1>4 DEF stop, all

-----------------------------------------------------------------------------
(* Lines.                                                                  *)

\* What matching says of a name, in the catalogue of version v.
Matches(v, n, line) ==
  /\ \/ line.status = "matched" /\ Certain(Catalog[v], n) = {line.product}
     \/ line.status = "ambiguous" /\ line.candidates # {}
     \/ line.status = "unmatched" /\ line.candidates = {}
  /\ line.candidates \subseteq Catalog[v].products
  /\ line.unit = AskedUnit[n]
  /\ DOMAIN line = {"status", "product", "candidates", "unit", "sized"}

LEMMA LineMatched ==
  ASSUME NEW v \in Versions, NEW n \in Names
  PROVE  Matches(v, n, MatchLine(Catalog[v], n))
<1> DEFINE c == Catalog[v]
           sure == Certain(c, n)
           hits == IF sure # {} THEN sure ELSE c.weak[n]
           m == MatchLine(c, n)
<1>1. /\ sure \subseteq c.products /\ hits \subseteq c.products
      /\ IsFiniteSet(sure) /\ IsFiniteSet(hits)
  <2>1. sure \subseteq c.products /\ hits \subseteq c.products
    BY CatalogAssumption DEF Certain
  <2>2. IsFiniteSet(c.products)
    BY CatalogAssumption
  <2> HIDE DEF sure, hits, c
  <2>3. sure \in SUBSET c.products /\ hits \in SUBSET c.products
    BY <2>1
  <2> QED BY <2>2, <2>3, FS_Subset
<1>2. m = IF Cardinality(sure) = 1
          THEN Line(n, "matched", CHOOSE p \in hits : TRUE, {})
          ELSE Line(n, IF hits = {} THEN "unmatched" ELSE "ambiguous", Null,
                    Best(hits, CandidateCap))
  BY DEF MatchLine
<1>3. CASE Cardinality(sure) = 1
  <2>1. sure = {CHOOSE p \in sure : TRUE}
    BY <1>1, <1>3, TheOnlyOne
  <2>2. hits = sure
    BY <2>1
  <2>3. m = Line(n, "matched", CHOOSE p \in sure : TRUE, {})
    BY <1>2, <1>3, <2>2
  <2> HIDE DEF m
  <2>4. m.status = "matched" /\ m.product = (CHOOSE p \in sure : TRUE)
        /\ m.unit = AskedUnit[n] /\ m.candidates = {}
        /\ DOMAIN m = {"status", "product", "candidates", "unit", "sized"}
    BY <2>3 DEF Line
  <2> QED BY <2>1, <2>4 DEF Matches, m
<1>4. CASE Cardinality(sure) # 1
  <2>1. m = Line(n, IF hits = {} THEN "unmatched" ELSE "ambiguous", Null,
                 Best(hits, CandidateCap))
    BY <1>2, <1>4
  <2>2. /\ Best(hits, CandidateCap) \subseteq hits
        /\ hits # {} => Best(hits, CandidateCap) # {}
    BY <1>1, SomeAreOffered, PreviewAssumption
  <2> HIDE DEF m, hits
  <2>3. /\ m.status = IF hits = {} THEN "unmatched" ELSE "ambiguous"
        /\ m.candidates = Best(hits, CandidateCap)
        /\ m.unit = AskedUnit[n]
        /\ DOMAIN m = {"status", "product", "candidates", "unit", "sized"}
    BY <2>1 DEF Line
  <2> QED BY <1>1, <2>2, <2>3 DEF Matches, m, hits
<1> QED BY <1>3, <1>4

\* What the draft of version v says of line i of a form.
Drawn(v, f, i, line) ==
  LET c == Catalog[v]
      n == f.text[i]
  IN /\ line.status \in {"matched", "ambiguous", "unmatched"}
     /\ line.status = "matched" =>
          \/ Certain(c, n) = {line.product}
          \/ i \in DOMAIN f.confirmed /\ f.confirmed[i].product = line.product
     /\ line.status # "matched" => i \notin DOMAIN f.confirmed /\ i \notin DOMAIN f.units
     /\ line.status = "ambiguous" => line.candidates # {}
     /\ line.status = "unmatched" => line.candidates = {}
     /\ i \in DOMAIN f.units =>
          /\ f.units[i].product = line.product
          /\ f.units[i].unit = c.unit[line.product]
          /\ line.unit = c.unit[line.product]
     /\ i \notin DOMAIN f.units => line.unit = AskedUnit[n] /\ line = Matched(c, f)[i]

LEMMA DraftDrawn ==
  ASSUME NEW v \in Versions, NEW f, IsForm(f), Accepted(v, f)
  PROVE  /\ DOMAIN DraftOf(v, f) = DOMAIN f.text
         /\ \A i \in DOMAIN f.text :
              /\ DraftOf(v, f)[i].version = v
              /\ Drawn(v, f, i, DraftOf(v, f)[i].line)
<1> DEFINE c == Catalog[v]
           m == Matched(c, f)
           d == WithUnits(m, f)
<1>1. DOMAIN m = DOMAIN f.text /\ DOMAIN d = DOMAIN f.text
  BY DEF Matched, WithUnits
<1>2. DraftOf(v, f) = [i \in DOMAIN f.text |-> [line |-> d[i], version |-> v]]
  BY <1>1 DEF DraftOf
<1> HIDE DEF d, m
<1>3. ASSUME NEW i \in DOMAIN f.text PROVE Drawn(v, f, i, d[i])
  <2> DEFINE n == f.text[i]  line == MatchLine(c, n)
  <2>1. n \in Names
    BY LenProperties, ElementOfSeq DEF IsForm
  <2>2. Matches(v, n, line)
    BY <2>1, LineMatched
  <2> HIDE DEF line
  <2>3. /\ Draftable(c, f)
        /\ UnitsAccepted(c, m, f)
    <3>1. f.text # <<>>
      OBVIOUS
    <3> QED BY <3>1 DEF Accepted, m
  <2>4. m[i] = IF i \in DOMAIN f.confirmed
               THEN Line(n, "matched", f.confirmed[i].product, {})
               ELSE line
    BY DEF m, Matched, line
  <2>5. /\ m[i].status \in {"matched", "ambiguous", "unmatched"}
        /\ m[i].status = "matched" =>
             \/ Certain(c, n) = {m[i].product}
             \/ i \in DOMAIN f.confirmed /\ f.confirmed[i].product = m[i].product
        /\ m[i].status # "matched" => i \notin DOMAIN f.confirmed
        /\ m[i].status = "ambiguous" => m[i].candidates # {}
        /\ m[i].status = "unmatched" => m[i].candidates = {}
        /\ m[i].unit = AskedUnit[n]
        /\ DOMAIN m[i] = {"status", "product", "candidates", "unit", "sized"}
    <3>1. CASE i \in DOMAIN f.confirmed
      <4>1. m[i] = Line(n, "matched", f.confirmed[i].product, {})
        BY <2>4, <3>1
      <4>2. /\ m[i].status = "matched" /\ m[i].product = f.confirmed[i].product
            /\ m[i].unit = AskedUnit[n]
            /\ DOMAIN m[i] = {"status", "product", "candidates", "unit", "sized"}
        BY <4>1 DEF Line
      <4> QED BY <3>1, <4>2
    <3>2. CASE i \notin DOMAIN f.confirmed
      <4>1. m[i] = line
        BY <2>4, <3>2
      <4> QED BY <2>2, <3>2, <4>1 DEF Matches
    <3> QED BY <3>1, <3>2
  <2>6. d[i] = IF i \in DOMAIN f.units
               THEN [m[i] EXCEPT !.unit = f.units[i].unit, !.sized = TRUE]
               ELSE m[i]
    BY <1>1 DEF d, WithUnits
  <2>7. CASE i \in DOMAIN f.units
    <3>1. /\ f.units[i].product = m[i].product
          /\ f.units[i].unit = c.unit[m[i].product] /\ m[i].status = "matched"
      BY <2>3, <2>7 DEF UnitsAccepted
    <3>2. d[i] = [m[i] EXCEPT !.unit = f.units[i].unit, !.sized = TRUE]
      BY <2>6, <2>7
    <3>3. /\ d[i].status = m[i].status /\ d[i].product = m[i].product
          /\ d[i].candidates = m[i].candidates /\ d[i].unit = f.units[i].unit
      BY <2>5, <3>2
    <3> QED BY <2>5, <2>7, <3>1, <3>3 DEF Drawn
  <2>8. CASE i \notin DOMAIN f.units
    <3>1. d[i] = m[i]
      BY <2>6, <2>8
    <3> QED BY <2>5, <2>8, <3>1 DEF Drawn, m
  <2> QED BY <2>7, <2>8
<1> QED BY <1>2, <1>3

-----------------------------------------------------------------------------
(* Answers.                                                                *)

LEMMA ReplyKinds ==
  ASSUME NEW f, NEW res, NEW d
  PROVE  /\ Reply(f, res, d).kind = "open" =>
              ~Ready(f, res, d) /\ Reply(f, res, d) = Open(f, res, d)
         /\ Reply(f, res, d).kind = "ready" =>
              Ready(f, res, d) /\ Reply(f, res, d).preview = Items(d)
         /\ Reply(f, res, d).kind \in {"open", "ready"} => Reply(f, res, d).refs = res
<1>1. CASE ~Ready(f, res, d)
  <2>1. Reply(f, res, d) = Open(f, res, d)
    BY <1>1 DEF Reply
  <2>2. Open(f, res, d).kind = "open" /\ Open(f, res, d).refs = res
    BY DEF Open
  <2> QED BY <1>1, <2>1, <2>2
<1>2. CASE Ready(f, res, d) /\ \E i \in Settled(d) : ~d[i].line.sized
  <2>1. Reply(f, res, d) = Failure
    BY <1>2 DEF Reply
  <2>2. Failure.kind = "error"
    BY DEF Failure, Plain
  <2> QED BY <2>1, <2>2
<1>3. CASE Ready(f, res, d) /\ ~\E i \in Settled(d) : ~d[i].line.sized
  <2>1. Reply(f, res, d) = [Plain EXCEPT !.kind = "ready", !.actions = {<<"confirm", "submit">>},
                                         !.refs = res, !.preview = Items(d)]
    BY <1>3 DEF Reply
  <2> DEFINE items == Items(d)
  <2> HIDE DEF items
  <2>2. Reply(f, res, d) = [Plain EXCEPT !.kind = "ready", !.actions = {<<"confirm", "submit">>},
                                         !.refs = res, !.preview = items]
    BY <2>1 DEF items
  <2>3. /\ Reply(f, res, d).kind = "ready" /\ Reply(f, res, d).refs = res
        /\ Reply(f, res, d).preview = items
    BY <2>2 DEF Plain
  <2> QED BY <1>3, <2>3 DEF items
<1> QED BY <1>1, <1>2, <1>3

\* What a ready answer stores is confirmed.
LEMMA ReadyIsConfirmed == PreviewInv => StoredIsConfirmed
<1> SUFFICES ASSUME PreviewInv, answer.kind = "ready" PROVE StoredIsConfirmed
  BY DEF StoredIsConfirmed
<1>1. IsForm(form)
  BY DEF PreviewInv
<1>2. PICK v \in Versions :
        Accepted(v, form) /\ answer = Reply(form, answer.refs, DraftOf(v, form))
  BY DEF PreviewInv, AnswerInv, AnsweredFrom
<1> DEFINE d == DraftOf(v, form)  items == Items(d)  c == Catalog[v]
<1>3. Ready(form, answer.refs, d) /\ answer.preview = items
  BY <1>2, ReplyKinds
<1>4. /\ DOMAIN d = DOMAIN form.text
      /\ \A i \in DOMAIN d : d[i].version = v /\ Drawn(v, form, i, d[i].line)
  BY <1>1, <1>2, DraftDrawn
<1>5. d = [i \in DOMAIN d |-> d[i]]
  BY DEF DraftOf
<1> HIDE DEF d
<1>6. items = [i \in Settled(d) |->
                 [product |-> d[i].line.product, version |-> d[i].version,
                  unit |-> Catalog[d[i].version].unit[d[i].line.product]]]
  BY DEF Items
<1> HIDE DEF items
<1>7. /\ Warned(d) = {} /\ d # NoLines
      /\ Settled(d) = DOMAIN d \/ (form.partial /\ Settled(d) # {})
  BY <1>3 DEF Ready
<1>8. DOMAIN items = Settled(d) /\ Settled(d) \subseteq DOMAIN d
  BY <1>6 DEF Settled
<1>9. items # NoLines
  <2>1. DOMAIN NoLines = {}
    BY DEF NoLines
  <2>2. CASE Settled(d) = DOMAIN d
    <3>1. DOMAIN d # {}
      <4>1. DOMAIN d = {} => d = NoLines
        BY <1>5 DEF NoLines
      <4> QED BY <1>7, <4>1
    <3> QED BY <1>8, <2>1, <2>2, <3>1
  <2>3. CASE Settled(d) # {}
    BY <1>8, <2>1, <2>3
  <2> QED BY <1>7, <2>2, <2>3
<1>10. DOMAIN items = DOMAIN form.text \/ form.partial
  BY <1>4, <1>7, <1>8
<1>11. ASSUME NEW i \in DOMAIN items
       PROVE  LET n == form.text[i]
                  p == items[i].product
              IN /\ items[i].version = v
                 /\ \/ c.direct[n] = {p}
                    \/ c.direct[n] = {} /\ c.alias[n] = {p}
                    \/ i \in DOMAIN form.confirmed /\ form.confirmed[i].product = p
                 /\ items[i].unit = c.unit[p]
                 /\ \/ Null \in {c.unit[p], AskedUnit[n]} \/ c.unit[p] = AskedUnit[n]
                    \/ i \in DOMAIN form.units
                       /\ form.units[i] = [product |-> p, unit |-> c.unit[p]]
  <2> DEFINE n == form.text[i]  p == items[i].product  line == d[i].line
  <2>1. i \in Settled(d) /\ i \in DOMAIN d /\ line.status = "matched"
    BY <1>8 DEF Settled
  <2>2. p = line.product /\ items[i].version = d[i].version
        /\ items[i].unit = Catalog[d[i].version].unit[line.product]
    BY <1>6, <2>1
  <2>3. d[i].version = v /\ Drawn(v, form, i, line)
    BY <1>4, <2>1
  <2> HIDE DEF line, p, n
  <2>4. \/ Certain(c, n) = {p}
        \/ i \in DOMAIN form.confirmed /\ form.confirmed[i].product = p
    BY <2>1, <2>2, <2>3 DEF Drawn, n
  <2>5. \/ c.direct[n] = {p}
        \/ c.direct[n] = {} /\ c.alias[n] = {p}
        \/ i \in DOMAIN form.confirmed /\ form.confirmed[i].product = p
    BY <2>4 DEF Certain
  <2>6. items[i].unit = c.unit[p]
    BY <2>2, <2>3
  <2>7. CASE i \in DOMAIN form.units
    <3>1. form.units[i].product = p /\ form.units[i].unit = c.unit[p]
      BY <2>2, <2>3, <2>7 DEF Drawn
    <3>2. form.units[i] = [product |-> form.units[i].product, unit |-> form.units[i].unit]
      BY <1>1, <2>7 DEF IsForm
    <3>3. form.units[i] = [product |-> p, unit |-> c.unit[p]]
      BY <3>1, <3>2
    <3> QED BY <2>2, <2>3, <2>5, <2>6, <2>7, <3>3 DEF p, n
  <2>8. CASE i \notin DOMAIN form.units
    <3>1. line.unit = AskedUnit[n]
      BY <2>3, <2>8 DEF Drawn, n
    <3>2. i \notin Warned(d)
      BY <1>7
    <3>3. Null \in {line.unit, c.unit[line.product]} \/ line.unit = c.unit[line.product]
      BY <2>1, <2>3, <3>2 DEF Warned, line
    <3>4. Null \in {c.unit[p], AskedUnit[n]} \/ c.unit[p] = AskedUnit[n]
      BY <2>2, <3>1, <3>3
    <3> QED BY <2>2, <2>3, <2>5, <2>6, <3>4 DEF p, n
  <2> QED BY <2>7, <2>8
<1>12. answer.preview = items
  BY <1>3
<1>13. \A i \in DOMAIN items : \A j \in DOMAIN items : items[i].version = items[j].version
  BY <1>11
<1>14. ASSUME NEW i \in DOMAIN items
       PROVE  LET cat == Catalog[items[i].version]
                  n == form.text[i]
                  p == items[i].product
              IN /\ \A j \in DOMAIN items : items[i].version = items[j].version
                 /\ \/ cat.direct[n] = {p}
                    \/ cat.direct[n] = {} /\ cat.alias[n] = {p}
                    \/ i \in DOMAIN form.confirmed /\ form.confirmed[i].product = p
                 /\ items[i].unit = cat.unit[p]
                 /\ \/ Null \in {cat.unit[p], AskedUnit[n]} \/ cat.unit[p] = AskedUnit[n]
                    \/ i \in DOMAIN form.units
                       /\ form.units[i] = [product |-> p, unit |-> cat.unit[p]]
  <2>1. Catalog[items[i].version] = c
    BY <1>11
  <2> QED BY <1>11, <1>13, <2>1
<1> QED BY <1>9, <1>10, <1>12, <1>14 DEF StoredIsConfirmed

\* The references of a ready answer are resolved, so they are those named.
LEMMA ReadyIsNamed == PreviewInv => ReferencesAreNamed
<1> SUFFICES ASSUME PreviewInv, answer.kind = "ready", NEW k \in Kinds
             PROVE  LET e == answer.refs[k].selected IN
                    e \in Entities[k] /\ form.query[k] \in {e, NameOf[e]}
  BY DEF ReferencesAreNamed
<1>1. PICK v \in Versions :
        Accepted(v, form) /\ answer = Reply(form, answer.refs, DraftOf(v, form))
  BY DEF PreviewInv, AnswerInv, AnsweredFrom
<1>2. Ready(form, answer.refs, DraftOf(v, form))
  BY <1>1, ReplyKinds
<1>3. answer.refs[k].status = "matched"
  BY <1>2 DEF Ready
<1>4. Resolves(form, k, answer.refs[k])
  BY DEF PreviewInv, AnswerInv, AnsweredFrom
<1> QED BY <1>3, <1>4 DEF Resolves, Fresh

-----------------------------------------------------------------------------
(* The agent.                                                              *)

\* The forms that carry out each required action.
LEMMA Ways ==
  ASSUME NEW f, NEW a
  PROVE  /\ Carried(f, a, "provide", "order_date") = {[f EXCEPT !.dated = TRUE]}
         /\ Carried(f, a, "provide", "order_text") = {[f EXCEPT !.text = t] : t \in Texts}
         /\ Carried(f, a, "select", "products") =
              UNION {Confirmed(f, i, a.offered[i]) : i \in DOMAIN a.offered}
         /\ Carried(f, a, "confirm", "units") =
              {[f EXCEPT !.units = With(@, i, a.warned[i])] : i \in DOMAIN a.warned}
<1>1. Kinds = {"customer", "warehouse", "handler"}
  BY TheKinds
<1>2. /\ "order_date" \notin Kinds /\ "order_text" \notin Kinds /\ "products" \notin Kinds
  BY <1>1
<1>3. Carried(f, a, "provide", "order_date") = {[f EXCEPT !.dated = TRUE]}
  BY <1>2 DEF Carried
<1>4. Carried(f, a, "provide", "order_text") = {[f EXCEPT !.text = t] : t \in Texts}
  BY <1>2 DEF Carried
<1>5. Carried(f, a, "select", "products") =
        UNION {Confirmed(f, i, a.offered[i]) : i \in DOMAIN a.offered}
  BY <1>2 DEF Carried
<1>6. Carried(f, a, "confirm", "units") =
        {[f EXCEPT !.units = With(@, i, a.warned[i])] : i \in DOMAIN a.warned}
  BY DEF Carried
<1> QED BY <1>3, <1>4, <1>5, <1>6

\* The same for a reference.
LEMMA WaysOfKind ==
  ASSUME NEW f, NEW a, NEW k \in Kinds
  PROVE  /\ Carried(f, a, "provide", k) = Named(f, k, Queries[k])
         /\ Carried(f, a, "replace", k) = Named(f, k, Queries[k])
         /\ Carried(f, a, "select", k) = Named(f, k, a.refs[k].candidates)
<1>1. "order_date" \notin Kinds /\ "order_text" \notin Kinds /\ "products" \notin Kinds
  BY TheKinds
<1> QED BY <1>1 DEF Carried

LEMMA Resolving ==
  ASSUME NEW f, NEW a, NEW g
  PROVE  g \in Carried(f, a, "resolve", "products") <=>
           \/ g = [f EXCEPT !.partial = TRUE]
           \/ \E i \in Blank(a) : g \in Confirmed(f, i, Catalog[version].products)
<1>1. Carried(f, a, "resolve", "products") = LookedUp(f, a) \cup {[f EXCEPT !.partial = TRUE]}
  BY DEF Carried
<1>2. g \in LookedUp(f, a) <=>
        \E i \in Blank(a) : g \in Confirmed(f, i, Catalog[version].products)
  BY DEF LookedUp
<1> QED BY <1>1, <1>2

\* What an answer that is not ready can ask for.
LEMMA TheActions ==
  ASSUME NEW f, NEW res, NEW d, NEW x \in Actions(f, res, d)
  PROVE  \/ \E y \in Missing(f) : x[1] = "provide" /\ x[2] = y
         \/ \E k \in Kinds : res[k].status = "ambiguous" /\ x[1] = "select" /\ x[2] = k
         \/ \E k \in Kinds : res[k].status = "unmatched" /\ x[1] = "replace" /\ x[2] = k
         \/ \E i \in DOMAIN d :
              d[i].line.status = "ambiguous" /\ x[1] = "select" /\ x[2] = "products"
         \/ \E i \in DOMAIN d :
              d[i].line.status = "unmatched" /\ x[1] = "resolve" /\ x[2] = "products"
         \/ \E i \in Warned(d) : x[1] = "confirm" /\ x[2] = "units"
<1>1. \/ \E y \in Missing(f) : x = <<"provide", y>>
      \/ \E k \in Kinds : res[k].status = "ambiguous" /\ x = <<"select", k>>
      \/ \E k \in Kinds : res[k].status = "unmatched" /\ x = <<"replace", k>>
      \/ \E i \in DOMAIN d : d[i].line.status = "ambiguous" /\ x = <<"select", "products">>
      \/ \E i \in DOMAIN d : d[i].line.status = "unmatched" /\ x = <<"resolve", "products">>
      \/ \E i \in Warned(d) : x = <<"confirm", "units">>
  BY DEF Actions
<1>2. \A u, w : <<u, w>>[1] = u /\ <<u, w>>[2] = w
  OBVIOUS
<1> QED BY <1>1, <1>2

FormOf(t, d, c, u, p, q) ==
  [text |-> t, dated |-> d, confirmed |-> c, units |-> u, partial |-> p, query |-> q]

LEMMA FormFields ==
  ASSUME NEW f, IsForm(f), NEW x
  PROVE  /\ [f EXCEPT !.text = x] = FormOf(x, f.dated, f.confirmed, f.units, f.partial, f.query)
         /\ [f EXCEPT !.dated = x] = FormOf(f.text, x, f.confirmed, f.units, f.partial, f.query)
         /\ [f EXCEPT !.confirmed = x] = FormOf(f.text, f.dated, x, f.units, f.partial, f.query)
         /\ [f EXCEPT !.units = x] = FormOf(f.text, f.dated, f.confirmed, x, f.partial, f.query)
         /\ [f EXCEPT !.partial = x] = FormOf(f.text, f.dated, f.confirmed, f.units, x, f.query)
         /\ [f EXCEPT !.query = x] = FormOf(f.text, f.dated, f.confirmed, f.units, f.partial, x)
<1>1. f = FormOf(f.text, f.dated, f.confirmed, f.units, f.partial, f.query)
  BY DEF IsForm, FormOf
<1> SUFFICES ASSUME NEW t, NEW d, NEW c, NEW u, NEW p, NEW q, f = FormOf(t, d, c, u, p, q)
             PROVE  /\ [f EXCEPT !.text = x] = FormOf(x, d, c, u, p, q)
                    /\ [f EXCEPT !.dated = x] = FormOf(t, x, c, u, p, q)
                    /\ [f EXCEPT !.confirmed = x] = FormOf(t, d, x, u, p, q)
                    /\ [f EXCEPT !.units = x] = FormOf(t, d, c, x, p, q)
                    /\ [f EXCEPT !.partial = x] = FormOf(t, d, c, u, x, q)
                    /\ [f EXCEPT !.query = x] = FormOf(t, d, c, u, p, x)
  BY <1>1
<1> QED BY DEF FormOf

LEMMA QueryField ==
  ASSUME NEW f, IsForm(f), NEW k \in Kinds, NEW q
  PROVE  /\ [f EXCEPT !.query[k] = q] = [f EXCEPT !.query = [f.query EXCEPT ![k] = q]]
         /\ \A l \in Kinds :
              [f.query EXCEPT ![k] = q][l] = IF l = k THEN q ELSE f.query[l]
         /\ DOMAIN [f.query EXCEPT ![k] = q] = Kinds
<1>1. f.query = [l \in Kinds |-> f.query[l]]
  BY DEF IsForm
<1>2. [f EXCEPT !.query[k] = q] = [f EXCEPT !.query = [f.query EXCEPT ![k] = q]]
  OBVIOUS
<1>3. \A g : g = [l \in Kinds |-> g[l]] =>
        /\ \A l \in Kinds : [g EXCEPT ![k] = q][l] = IF l = k THEN q ELSE g[l]
        /\ DOMAIN [g EXCEPT ![k] = q] = Kinds
  OBVIOUS
<1> QED BY <1>1, <1>2, <1>3

\* A change that answers changes something.
LEMMA SomethingChanges ==
  ASSUME NEW f, IsForm(f)
  PROVE  /\ ~f.dated => [f EXCEPT !.dated = TRUE] # f
         /\ \A t : t # f.text => [f EXCEPT !.text = t] # f
         /\ \A k \in Kinds : \A q : q # f.query[k] => [f EXCEPT !.query[k] = q] # f
         /\ \A i, x : i \notin DOMAIN f.confirmed =>
              [f EXCEPT !.confirmed = With(@, i, x)] # f
         /\ \A i, x : i \notin DOMAIN f.units => [f EXCEPT !.units = With(@, i, x)] # f
<1>1. ASSUME ~f.dated PROVE [f EXCEPT !.dated = TRUE] # f
  <2>1. [f EXCEPT !.dated = TRUE].dated = TRUE
    BY FormFields DEF FormOf
  <2> QED BY <1>1, <2>1
<1>2. ASSUME NEW t, t # f.text PROVE [f EXCEPT !.text = t] # f
  <2>1. [f EXCEPT !.text = t].text = t
    BY FormFields DEF FormOf
  <2> QED BY <1>2, <2>1
<1>3. ASSUME NEW k \in Kinds, NEW q, q # f.query[k] PROVE [f EXCEPT !.query[k] = q] # f
  <2> DEFINE g == [f.query EXCEPT ![k] = q]
  <2>1. [f EXCEPT !.query[k] = q] = [f EXCEPT !.query = g] /\ g[k] = q
    BY QueryField
  <2> HIDE DEF g
  <2>2. [f EXCEPT !.query = g].query = g
    BY FormFields DEF FormOf
  <2> QED BY <1>3, <2>1, <2>2
<1>4. ASSUME NEW i, NEW x, i \notin DOMAIN f.confirmed
      PROVE  [f EXCEPT !.confirmed = With(@, i, x)] # f
  <2> DEFINE g == With(f.confirmed, i, x)
  <2>1. i \in DOMAIN g
    BY DEF With
  <2> HIDE DEF g
  <2>2. [f EXCEPT !.confirmed = g].confirmed = g
    BY FormFields DEF FormOf
  <2>3. [f EXCEPT !.confirmed = With(@, i, x)] = [f EXCEPT !.confirmed = g]
    BY DEF g
  <2> QED BY <1>4, <2>1, <2>2, <2>3
<1>5. ASSUME NEW i, NEW x, i \notin DOMAIN f.units
      PROVE  [f EXCEPT !.units = With(@, i, x)] # f
  <2> DEFINE g == With(f.units, i, x)
  <2>1. i \in DOMAIN g
    BY DEF With
  <2> HIDE DEF g
  <2>2. [f EXCEPT !.units = g].units = g
    BY FormFields DEF FormOf
  <2>3. [f EXCEPT !.units = With(@, i, x)] = [f EXCEPT !.units = g]
    BY DEF g
  <2> QED BY <1>5, <2>1, <2>2, <2>3
<1> QED BY <1>1, <1>2, <1>3, <1>4, <1>5

\* A form with the same lines and confirmations is accepted as well.
LEMMA SameLinesAccepted ==
  ASSUME NEW v, NEW f, NEW g, g.text = f.text, g.confirmed = f.confirmed, g.units = f.units,
         Accepted(v, f)
  PROVE  Accepted(v, g)
<1>1. Draftable(Catalog[v], f) => Draftable(Catalog[v], g)
  BY DEF Draftable
<1>2. Matched(Catalog[v], g) = Matched(Catalog[v], f)
  BY DEF Matched
<1> DEFINE m == Matched(Catalog[v], f)
<1> HIDE DEF m
<1>3. UnitsAccepted(Catalog[v], m, f) => UnitsAccepted(Catalog[v], m, g)
  BY DEF UnitsAccepted
<1> QED BY <1>1, <1>2, <1>3 DEF Accepted, m

\* What a change of one field leaves alone.
LEMMA OtherFields ==
  ASSUME NEW f, IsForm(f)
  PROVE  /\ \A k \in Kinds : \A q :
              LET g == [f EXCEPT !.query[k] = q] IN
              /\ g.text = f.text /\ g.confirmed = f.confirmed /\ g.units = f.units
              /\ g.partial = f.partial
         /\ LET g == [f EXCEPT !.dated = TRUE] IN
              /\ g.text = f.text /\ g.confirmed = f.confirmed /\ g.units = f.units
              /\ g.partial = f.partial
         /\ \A t : [f EXCEPT !.text = t].partial = f.partial
         /\ \A i, x :
              LET g == [f EXCEPT !.confirmed = With(@, i, x)] IN
              /\ g.text = f.text /\ g.confirmed = With(f.confirmed, i, x) /\ g.units = f.units
              /\ g.partial = f.partial
         /\ \A i, x :
              LET g == [f EXCEPT !.units = With(@, i, x)] IN
              /\ g.text = f.text /\ g.confirmed = f.confirmed /\ g.units = With(f.units, i, x)
              /\ g.partial = f.partial
<1>1. ASSUME NEW x
      PROVE  /\ LET g == [f EXCEPT !.query = x] IN
                  /\ g.text = f.text /\ g.confirmed = f.confirmed /\ g.units = f.units
                  /\ g.partial = f.partial
             /\ LET g == [f EXCEPT !.dated = x] IN
                  /\ g.text = f.text /\ g.confirmed = f.confirmed /\ g.units = f.units
                  /\ g.partial = f.partial
             /\ [f EXCEPT !.text = x].partial = f.partial
             /\ LET g == [f EXCEPT !.confirmed = x] IN
                  /\ g.text = f.text /\ g.confirmed = x /\ g.units = f.units
                  /\ g.partial = f.partial
             /\ LET g == [f EXCEPT !.units = x] IN
                  /\ g.text = f.text /\ g.confirmed = f.confirmed /\ g.units = x
                  /\ g.partial = f.partial
  BY FormFields DEF FormOf
<1>2. \A k \in Kinds : \A q : \E x : [f EXCEPT !.query[k] = q] = [f EXCEPT !.query = x]
  BY QueryField
<1>3. \A i, x : [f EXCEPT !.confirmed = With(@, i, x)] = [f EXCEPT !.confirmed = With(f.confirmed, i, x)]
  OBVIOUS
<1>4. \A i, x : [f EXCEPT !.units = With(@, i, x)] = [f EXCEPT !.units = With(f.units, i, x)]
  OBVIOUS
<1> QED BY <1>1, <1>2, <1>3, <1>4

\* Another name for a reference changes that reference only.
LEMMA NamedForm ==
  ASSUME NEW f, IsForm(f), NEW v, Accepted(v, f), NEW k \in Kinds, NEW names, NEW q \in names,
         q # f.query[k]
  PROVE  \E g \in Named(f, k, names) \ {f} : g.partial = f.partial /\ Accepted(v, g)
<1> DEFINE g == [f EXCEPT !.query[k] = q]
<1>1. g \in Named(f, k, names)
  BY DEF Named
<1>2. g # f
  BY SomethingChanges
<1>3. /\ g.text = f.text /\ g.confirmed = f.confirmed /\ g.units = f.units
      /\ g.partial = f.partial
  BY OtherFields
<1> HIDE DEF g
<1>4. Accepted(v, g)
  BY <1>3, SameLinesAccepted
<1> QED BY <1>1, <1>2, <1>3, <1>4

\* One more confirmed line, with a product that line may have, is accepted.
LEMMA ConfirmedAccepted ==
  ASSUME NEW v, NEW f, Accepted(v, f), NEW i \in DOMAIN f.text,
         i \notin DOMAIN f.confirmed, i \notin DOMAIN f.units,
         NEW x, Confirmable(Catalog[v], MatchLine(Catalog[v], f.text[i]), x.product),
         NEW g, g.text = f.text, g.confirmed = With(f.confirmed, i, x), g.units = f.units
  PROVE  Accepted(v, g)
<1> DEFINE c == Catalog[v]  m == Matched(c, f)  w == Matched(c, g)
<1>1. Draftable(c, f) /\ UnitsAccepted(c, m, f)
  <2>1. f.text # <<>>
    OBVIOUS
  <2> QED BY <2>1 DEF Accepted
<1>2. /\ DOMAIN g.confirmed = DOMAIN f.confirmed \cup {i}
      /\ g.confirmed[i] = x
      /\ \A j \in DOMAIN f.confirmed : j # i => g.confirmed[j] = f.confirmed[j]
  BY DEF With
<1>3. Draftable(c, g)
  BY <1>1, <1>2 DEF Draftable
<1>4. DOMAIN w = DOMAIN m /\ \A j \in DOMAIN m : j # i => w[j] = m[j]
  BY <1>2 DEF Matched
<1> HIDE DEF m, w
<1>5. UnitsAccepted(c, w, g)
  BY <1>1, <1>4 DEF UnitsAccepted
<1> QED BY <1>3, <1>5 DEF Accepted, w

\* So is one more confirmed unit, of the product a line is matched with.
LEMMA UnitAccepted ==
  ASSUME NEW v, NEW f, Accepted(v, f), NEW i \in DOMAIN f.text, i \notin DOMAIN f.units,
         NEW x,
         LET line == Matched(Catalog[v], f)[i] IN
           /\ line.status = "matched" /\ x.product = line.product
           /\ x.unit = Catalog[v].unit[line.product] /\ x.unit # Null,
         NEW g, g.text = f.text, g.confirmed = f.confirmed, g.units = With(f.units, i, x)
  PROVE  Accepted(v, g)
<1> DEFINE c == Catalog[v]  m == Matched(c, f)
<1>1. Draftable(c, f) /\ UnitsAccepted(c, m, f)
  <2>1. f.text # <<>>
    OBVIOUS
  <2> QED BY <2>1 DEF Accepted
<1>2. Draftable(c, g)
  BY <1>1 DEF Draftable
<1>3. Matched(c, g) = m /\ i \in DOMAIN m
  BY DEF Matched
<1>4. /\ DOMAIN g.units = DOMAIN f.units \cup {i}
      /\ g.units[i] = x
      /\ \A j \in DOMAIN f.units : j # i => g.units[j] = f.units[j]
  BY DEF With
<1>5. /\ m[i].status = "matched" /\ x.product = m[i].product
      /\ x.unit = c.unit[m[i].product] /\ x.unit # Null
  OBVIOUS
<1> HIDE DEF m
<1>6. UnitsAccepted(c, m, g)
  BY <1>1, <1>3, <1>4, <1>5 DEF UnitsAccepted
<1> QED BY <1>2, <1>3, <1>6 DEF Accepted

\* An open answer asks for something, and the agent can do whatever it asks.
LEMMA OpenLeadsOn == PreviewInv => NoDeadEnd
<1> SUFFICES ASSUME PreviewInv, answer.kind = "open" PROVE NoDeadEnd
  BY DEF NoDeadEnd
<1>1. IsForm(form) /\ version \in Versions
  BY DEF PreviewInv
<1>2. PICK v \in Versions :
        /\ Accepted(v, form) /\ answer = Reply(form, answer.refs, DraftOf(v, form))
        /\ AnsweredFrom(version) => v = version
  <2>1. PICK u \in Versions : AnsweredFrom(u)
    BY DEF PreviewInv, AnswerInv, AnsweredFrom
  <2>2. CASE AnsweredFrom(version)
    BY <1>1, <2>2 DEF AnsweredFrom
  <2>3. CASE ~AnsweredFrom(version)
    BY <2>1, <2>3 DEF AnsweredFrom
  <2> QED BY <2>2, <2>3
<1> DEFINE d == DraftOf(v, form)  res == answer.refs
<1>3. /\ DOMAIN d = DOMAIN form.text
      /\ \A i \in DOMAIN d : d[i].version = v /\ Drawn(v, form, i, d[i].line)
  BY <1>1, <1>2, DraftDrawn
<1>4. ~Ready(form, res, d) /\ answer = Open(form, res, d)
  BY <1>2, ReplyKinds
<1>5. d = [i \in DOMAIN d |-> d[i]]
  BY DEF DraftOf
<1>6. \A k \in Kinds : Resolves(form, k, res[k])
  BY DEF PreviewInv, AnswerInv, AnsweredFrom
<1> HIDE DEF d, res
<1>7. \A i \in DOMAIN d : d[i].line.status \in {"matched", "ambiguous", "unmatched"}
  BY <1>3 DEF Drawn
<1>8. Actions(form, res, d) # {}
  <2>1. CASE Missing(form) # {}
    BY <2>1 DEF Actions
  <2>2. ASSUME NEW k \in Kinds, res[k].status # "matched", Missing(form) = {}
        PROVE  Actions(form, res, d) # {}
    <3>1. form.query[k] # Null
      BY <2>2 DEF Missing
    <3>2. res[k].status \in {"ambiguous", "unmatched"}
      BY <1>6, <2>2, <3>1 DEF Resolves
    <3> QED BY <3>2 DEF Actions
  <2>3. CASE Warned(d) # {}
    BY <2>3 DEF Actions
  <2>4. ASSUME NEW i \in DOMAIN d, d[i].line.status # "matched"
        PROVE  Actions(form, res, d) # {}
    <3>1. d[i].line.status \in {"ambiguous", "unmatched"}
      BY <1>7, <2>4
    <3> QED BY <3>1 DEF Actions
  <2>5. CASE d = NoLines
    <3>1. form.text = <<>>
      <4>1. DOMAIN form.text = {}
        BY <1>3, <2>5 DEF NoLines
      <4>2. form.text \in Seq(Names)
        BY <1>1 DEF IsForm
      <4>3. Len(form.text) \in Nat /\ DOMAIN form.text = 1 .. Len(form.text)
        BY <4>2, LenProperties
      <4>4. Len(form.text) = 0
        <5>1. Len(form.text) # 0 => 1 \in 1 .. Len(form.text)
          BY <4>3
        <5> QED BY <4>1, <4>3, <5>1
      <4> QED BY <4>2, <4>4, EmptySeq
    <3>2. "order_text" \in Missing(form)
      BY <3>1 DEF Missing
    <3> QED BY <3>2, <2>1
  <2>6. Settled(d) = DOMAIN d \/ \E i \in DOMAIN d : d[i].line.status # "matched"
    BY DEF Settled
  <2> QED BY <1>4, <2>1, <2>2, <2>3, <2>4, <2>5, <2>6 DEF Ready
<1>9. /\ answer.actions = Actions(form, res, d)
      /\ answer.offered = [i \in DOMAIN d \ Settled(d) |-> d[i].line.candidates]
      /\ answer.warned = [i \in Warned(d) |->
                           [product |-> d[i].line.product,
                            unit |-> Catalog[d[i].version].unit[d[i].line.product]]]
  BY <1>4 DEF Open
<1> DEFINE Way(x, f) ==
             /\ f \in Carried(form, answer, x[1], x[2]) \ {form}
             /\ f.partial = form.partial
             /\ v = version /\ x # <<"provide", "order_text">> => Accepted(v, f)
<1>10. ASSUME NEW x \in Actions(form, res, d) PROVE \E f : Way(x, f)
  <2>1. ASSUME NEW y \in Missing(form), x[1] = "provide", x[2] = y PROVE \E f : Way(x, f)
    <3>1. CASE y \in Kinds /\ form.query[y] = Null
      <4>1. PICK q \in Queries[y] : q # Null
        BY <3>1, AgentAssumption
      <4>2. PICK g \in Named(form, y, Queries[y]) \ {form} :
              g.partial = form.partial /\ Accepted(v, g)
        BY <1>1, <1>2, <3>1, <4>1, NamedForm
      <4>3. Carried(form, answer, "provide", y) = Named(form, y, Queries[y])
        BY <3>1, WaysOfKind
      <4> QED BY <2>1, <4>2, <4>3
    <3>2. CASE y = "order_date" /\ ~form.dated
      <4> DEFINE g == [form EXCEPT !.dated = TRUE]
      <4>1. g \in Carried(form, answer, "provide", y)
        BY <3>2, Ways
      <4>2. g # form
        BY <1>1, <3>2, SomethingChanges
      <4>3. g.partial = form.partial /\ Accepted(v, g)
        BY <1>1, <1>2, OtherFields, SameLinesAccepted
      <4> HIDE DEF g
      <4> QED BY <2>1, <4>1, <4>2, <4>3
    <3>3. CASE y = "order_text" /\ form.text = <<>>
      <4>1. PICK t \in Texts : t # <<>>
        BY AgentAssumption
      <4> DEFINE g == [form EXCEPT !.text = t]
      <4>2. g \in Carried(form, answer, "provide", y)
        BY <3>3, Ways
      <4>3. g # form
        BY <1>1, <3>3, <4>1, SomethingChanges
      <4>4. g.partial = form.partial
        BY <1>1, OtherFields
      <4>5. x = <<"provide", "order_text">>
        <5>1. x \in {<<a, b>> : a \in {x[1]}, b \in {x[2]}}
          BY DEF Actions
        <5> QED BY <2>1, <3>3, <5>1
      <4> HIDE DEF g
      <4> QED BY <2>1, <4>2, <4>3, <4>4, <4>5
    <3> QED BY <3>1, <3>2, <3>3 DEF Missing
  <2>2. ASSUME NEW k \in Kinds, res[k].status = "ambiguous", x[1] = "select", x[2] = k
        PROVE  \E f : Way(x, f)
    <3>1. res[k].candidates # {} /\ form.query[k] \notin res[k].candidates
      BY <1>6, <2>2 DEF Resolves, Fresh
    <3>2. PICK e \in res[k].candidates : e # form.query[k]
      BY <3>1
    <3>3. PICK g \in Named(form, k, res[k].candidates) \ {form} :
            g.partial = form.partial /\ Accepted(v, g)
      BY <1>1, <1>2, <3>2, NamedForm
    <3>4. Carried(form, answer, "select", k) = Named(form, k, res[k].candidates)
      BY WaysOfKind DEF res
    <3> QED BY <2>2, <3>3, <3>4
  <2>3. ASSUME NEW k \in Kinds, res[k].status = "unmatched", x[1] = "replace", x[2] = k
        PROVE  \E f : Way(x, f)
    <3>1. PICK q \in Queries[k] : q # form.query[k]
      BY <1>6, <2>3 DEF Resolves, Fresh
    <3>2. PICK g \in Named(form, k, Queries[k]) \ {form} :
            g.partial = form.partial /\ Accepted(v, g)
      BY <1>1, <1>2, <3>1, NamedForm
    <3>3. Carried(form, answer, "replace", k) = Named(form, k, Queries[k])
      BY WaysOfKind
    <3> QED BY <2>3, <3>2, <3>3
  <2>4. ASSUME NEW i \in DOMAIN d, d[i].line.status \in {"ambiguous", "unmatched"}, NEW p,
               d[i].line.status = "ambiguous" => p \in answer.offered[i],
               d[i].line.status = "unmatched" => p \in Catalog[version].products
        PROVE  LET g == [form EXCEPT !.confirmed =
                           With(@, i, [product |-> p, meant |-> form.text[i]])]
               IN /\ g # form /\ g.partial = form.partial
                  /\ i \in DOMAIN answer.offered /\ answer.offered[i] = d[i].line.candidates
                  /\ v = version => Accepted(v, g)
    <3> DEFINE y == [product |-> p, meant |-> form.text[i]]
               g == [form EXCEPT !.confirmed = With(@, i, y)]
               line == MatchLine(Catalog[v], form.text[i])
    <3>1. i \in DOMAIN form.text /\ i \notin DOMAIN form.confirmed /\ i \notin DOMAIN form.units
      BY <1>3, <2>4 DEF Drawn
    <3>2. d[i].line = line
      BY <1>3, <2>4, <3>1 DEF Drawn, Matched
    <3>3. i \in DOMAIN answer.offered /\ answer.offered[i] = d[i].line.candidates
      BY <1>9, <2>4 DEF Settled
    <3>4. line.candidates \subseteq Catalog[v].products
      <4>1. form.text[i] \in Names
        BY <1>1, <3>1, LenProperties, ElementOfSeq DEF IsForm
      <4> QED BY <4>1, LineMatched DEF Matches
    <3> HIDE DEF line
    <3>5. v = version => Confirmable(Catalog[v], line, y.product)
      BY <2>4, <3>2, <3>3, <3>4 DEF Confirmable
    <3>6. /\ g.text = form.text /\ g.confirmed = With(form.confirmed, i, y)
          /\ g.units = form.units /\ g.partial = form.partial
      BY <1>1, OtherFields
    <3>7. g # form
      BY <1>1, <3>1, SomethingChanges
    <3> HIDE DEF g, y
    <3>8. v = version => Accepted(v, g)
      BY <1>2, <3>1, <3>5, <3>6, ConfirmedAccepted DEF line
    <3> QED BY <3>3, <3>6, <3>7, <3>8 DEF g, y
  <2>5. ASSUME NEW i \in DOMAIN d, d[i].line.status = "ambiguous", x[1] = "select", x[2] = "products"
        PROVE  \E f : Way(x, f)
    <3>1. answer.offered[i] # {}
      BY <1>3, <1>9, <2>5 DEF Settled, Drawn
    <3>2. PICK p \in answer.offered[i] : TRUE
      BY <3>1
    <3> DEFINE g == [form EXCEPT !.confirmed =
                       With(@, i, [product |-> p, meant |-> form.text[i]])]
    <3>3. /\ g # form /\ g.partial = form.partial /\ i \in DOMAIN answer.offered
          /\ v = version => Accepted(v, g)
      BY <2>4, <2>5
    <3>4. g \in Confirmed(form, i, answer.offered[i])
      BY DEF Confirmed
    <3> HIDE DEF g
    <3>5. g \in Carried(form, answer, "select", "products")
      BY <3>3, <3>4, Ways
    <3> QED BY <2>5, <3>3, <3>5
  <2>6. ASSUME NEW i \in DOMAIN d, d[i].line.status = "unmatched", x[1] = "resolve", x[2] = "products"
        PROVE  \E f : Way(x, f)
    <3>1. PICK p \in Catalog[version].products : TRUE
      BY <1>1, CatalogAssumption
    <3> DEFINE g == [form EXCEPT !.confirmed =
                       With(@, i, [product |-> p, meant |-> form.text[i]])]
    <3>2. /\ g # form /\ g.partial = form.partial
          /\ i \in DOMAIN answer.offered /\ answer.offered[i] = d[i].line.candidates
          /\ v = version => Accepted(v, g)
      BY <2>4, <2>6
    <3>3. answer.offered[i] = {}
      BY <1>3, <2>6, <3>2 DEF Drawn
    <3>4. g \in Confirmed(form, i, Catalog[version].products)
      BY DEF Confirmed
    <3> HIDE DEF g
    <3>5. g \in Carried(form, answer, "resolve", "products")
      BY <3>2, <3>3, <3>4, Resolving DEF Blank
    <3> QED BY <2>6, <3>2, <3>5
  <2>7. ASSUME NEW i \in Warned(d), x[1] = "confirm", x[2] = "units" PROVE \E f : Way(x, f)
    <3>1. /\ i \in DOMAIN d /\ d[i].line.status = "matched"
          /\ Null \notin {d[i].line.unit, Catalog[v].unit[d[i].line.product]}
          /\ d[i].line.unit # Catalog[v].unit[d[i].line.product]
      BY <1>3, <2>7 DEF Warned
    <3>2. i \in DOMAIN form.text /\ i \notin DOMAIN form.units
      BY <1>3, <3>1 DEF Drawn
    <3>3. d[i].line = Matched(Catalog[v], form)[i]
      BY <1>3, <3>1, <3>2 DEF Drawn
    <3> DEFINE y == answer.warned[i]
               g == [form EXCEPT !.units = With(@, i, y)]
    <3>4. y.product = d[i].line.product /\ y.unit = Catalog[v].unit[d[i].line.product]
      <4>1. d[i].version = v
        BY <1>3, <3>1
      <4>2. y = [product |-> d[i].line.product,
                 unit |-> Catalog[d[i].version].unit[d[i].line.product]]
        BY <1>9
      <4> HIDE DEF y
      <4> QED BY <4>1, <4>2
    <3>5. /\ g.text = form.text /\ g.confirmed = form.confirmed
          /\ g.units = With(form.units, i, y) /\ g.partial = form.partial
      BY <1>1, OtherFields
    <3>6. g # form
      BY <1>1, <3>2, SomethingChanges
    <3>7. g \in Carried(form, answer, "confirm", "units")
      <4>1. i \in DOMAIN answer.warned
        BY <1>9
      <4> QED BY <4>1, Ways
    <3> HIDE DEF g, y
    <3>8. Accepted(v, g)
      BY <1>2, <3>1, <3>2, <3>3, <3>4, <3>5, UnitAccepted
    <3> QED BY <2>7, <3>5, <3>6, <3>7, <3>8
  <2> QED BY <2>1, <2>2, <2>3, <2>5, <2>6, <2>7, TheActions
<1> QED BY <1>2, <1>8, <1>9, <1>10 DEF NoDeadEnd

-----------------------------------------------------------------------------
(* Forms stay forms.                                                       *)

LEMMA QueryKept ==
  ASSUME NEW f, IsForm(f), NEW k \in Kinds, NEW q \in Queries[k] \cup Entities[k]
  PROVE  IsForm([f EXCEPT !.query[k] = q])
<1> DEFINE h == [f.query EXCEPT ![k] = q]
           g == [f EXCEPT !.query[k] = q]
<1>1. /\ g = [f EXCEPT !.query = h]
      /\ \A l \in Kinds : h[l] = IF l = k THEN q ELSE f.query[l]
      /\ DOMAIN h = Kinds
  BY QueryField
<1>2. h = [l \in Kinds |-> h[l]]
  <2>1. f.query = [l \in Kinds |-> f.query[l]]
    BY DEF IsForm
  <2>2. \A e : e = [l \in Kinds |-> e[l]] =>
          [e EXCEPT ![k] = q] = [l \in Kinds |-> [e EXCEPT ![k] = q][l]]
    OBVIOUS
  <2> QED BY <2>1, <2>2
<1> HIDE DEF h
<1>3. g = [text |-> f.text, dated |-> f.dated, confirmed |-> f.confirmed,
           units |-> f.units, partial |-> f.partial, query |-> h]
  BY <1>1, FormFields DEF FormOf
<1> HIDE DEF g
<1>4. \A l \in Kinds : h[l] \in Queries[l] \cup Entities[l] \cup {Null}
  BY <1>1 DEF IsForm
<1>5. /\ g.text = f.text /\ g.dated = f.dated /\ g.confirmed = f.confirmed
      /\ g.units = f.units /\ g.partial = f.partial /\ g.query = h
  BY <1>3
<1>6. IsForm(g)
  BY <1>2, <1>3, <1>4, <1>5 DEF IsForm
<1> QED BY <1>6 DEF g

\* A form with another value in any other field.
LEMMA FieldKept ==
  ASSUME NEW f, IsForm(f)
  PROVE  /\ IsForm([f EXCEPT !.dated = TRUE])
         /\ \A b \in BOOLEAN : IsForm([f EXCEPT !.partial = b])
         /\ \A t \in Seq(Names) : IsForm([f EXCEPT !.text = t])
         /\ \A c : IsForm([f EXCEPT !.confirmed = c])
         /\ \A u : (\A i \in DOMAIN u :
                      u[i] = [product |-> u[i].product, unit |-> u[i].unit])
                    => IsForm([f EXCEPT !.units = u])
<1>1. ASSUME NEW t \in Seq(Names), NEW d \in BOOLEAN, NEW c, NEW u, NEW p \in BOOLEAN,
             \A i \in DOMAIN u : u[i] = [product |-> u[i].product, unit |-> u[i].unit]
      PROVE  IsForm(FormOf(t, d, c, u, p, f.query))
  <2> DEFINE r == FormOf(t, d, c, u, p, f.query)
  <2>1. /\ r.text = t /\ r.dated = d /\ r.confirmed = c
        /\ r.units = u /\ r.partial = p /\ r.query = f.query
    BY DEF FormOf
  <2>2. r = [text |-> r.text, dated |-> r.dated, confirmed |-> r.confirmed,
             units |-> r.units, partial |-> r.partial, query |-> r.query]
    BY DEF FormOf
  <2> HIDE DEF r
  <2>3. /\ f.query = [k \in Kinds |-> f.query[k]]
        /\ \A k \in Kinds : f.query[k] \in Queries[k] \cup Entities[k] \cup {Null}
    BY DEF IsForm
  <2>4. IsForm(r)
    BY <1>1, <2>1, <2>2, <2>3 DEF IsForm
  <2> QED BY <2>4 DEF r
<1>2. /\ f.text \in Seq(Names) /\ f.dated \in BOOLEAN /\ f.partial \in BOOLEAN
      /\ \A i \in DOMAIN f.units :
           f.units[i] = [product |-> f.units[i].product, unit |-> f.units[i].unit]
  BY DEF IsForm
<1>3. IsForm([f EXCEPT !.dated = TRUE])
  <2>1. [f EXCEPT !.dated = TRUE] =
          FormOf(f.text, TRUE, f.confirmed, f.units, f.partial, f.query)
    BY FormFields
  <2>2. IsForm(FormOf(f.text, TRUE, f.confirmed, f.units, f.partial, f.query))
    BY <1>1, <1>2
  <2> QED BY <2>1, <2>2
<1>7. ASSUME NEW b \in BOOLEAN PROVE IsForm([f EXCEPT !.partial = b])
  <2>1. [f EXCEPT !.partial = b] =
          FormOf(f.text, f.dated, f.confirmed, f.units, b, f.query)
    BY FormFields
  <2>2. IsForm(FormOf(f.text, f.dated, f.confirmed, f.units, b, f.query))
    BY <1>1, <1>2
  <2> QED BY <2>1, <2>2
<1>4. ASSUME NEW t \in Seq(Names) PROVE IsForm([f EXCEPT !.text = t])
  <2>1. [f EXCEPT !.text = t] = FormOf(t, f.dated, f.confirmed, f.units, f.partial, f.query)
    BY FormFields
  <2>2. IsForm(FormOf(t, f.dated, f.confirmed, f.units, f.partial, f.query))
    BY <1>1, <1>2
  <2> QED BY <2>1, <2>2
<1>5. ASSUME NEW c PROVE IsForm([f EXCEPT !.confirmed = c])
  <2>1. [f EXCEPT !.confirmed = c] = FormOf(f.text, f.dated, c, f.units, f.partial, f.query)
    BY FormFields
  <2>2. IsForm(FormOf(f.text, f.dated, c, f.units, f.partial, f.query))
    BY <1>1, <1>2
  <2> QED BY <2>1, <2>2
<1>6. ASSUME NEW u, \A i \in DOMAIN u :
                      u[i] = [product |-> u[i].product, unit |-> u[i].unit]
      PROVE  IsForm([f EXCEPT !.units = u])
  <2>1. [f EXCEPT !.units = u] = FormOf(f.text, f.dated, f.confirmed, u, f.partial, f.query)
    BY FormFields
  <2>2. IsForm(FormOf(f.text, f.dated, f.confirmed, u, f.partial, f.query))
    BY <1>1, <1>2, <1>6
  <2> QED BY <2>1, <2>2
<1> QED BY <1>3, <1>4, <1>5, <1>6, <1>7

\* Doing what an answer asks for leads from form to form.
LEMMA SupplyKept ==
  ASSUME PreviewInv, answer.kind = "open", NEW g \in Supply(form, answer)
  PROVE  IsForm(g)
<1>1. IsForm(form)
  BY DEF PreviewInv
<1>2. PICK x \in answer.actions : g \in Carried(form, answer, x[1], x[2])
  BY DEF Supply
<1>3. \A k \in Kinds : answer.refs[k].candidates \subseteq Entities[k]
  BY DEF PreviewInv, AnswerInv, Resolves, Fresh
<1>0. PICK v \in Versions : answer = Reply(form, answer.refs, DraftOf(v, form))
  BY DEF PreviewInv, AnswerInv, AnsweredFrom
<1> DEFINE d == DraftOf(v, form)
<1>10. answer = Open(form, answer.refs, d)
  BY <1>0, ReplyKinds
<1> HIDE DEF d
<1>11. x \in Actions(form, answer.refs, d)
  BY <1>2, <1>10 DEF Open
<1>4. \A i \in DOMAIN answer.warned :
        answer.warned[i] = [product |-> answer.warned[i].product,
                            unit |-> answer.warned[i].unit]
  <2>1. answer.warned = [i \in Warned(d) |->
                           [product |-> d[i].line.product,
                            unit |-> Catalog[d[i].version].unit[d[i].line.product]]]
    BY <1>10 DEF Open
  <2>2. ASSUME NEW i \in Warned(d)
        PROVE  answer.warned[i] = [product |-> answer.warned[i].product,
                                   unit |-> answer.warned[i].unit]
    BY <2>1
  <2>3. DOMAIN answer.warned = Warned(d)
    BY <2>1
  <2> QED BY <2>2, <2>3
<1>5. CASE g = [form EXCEPT !.dated = TRUE] \/ g = [form EXCEPT !.partial = TRUE]
  BY <1>1, <1>5, FieldKept
<1>6. CASE \E t \in Texts : g = [form EXCEPT !.text = t]
  <2>1. PICK t \in Texts : g = [form EXCEPT !.text = t]
    BY <1>6
  <2>2. t \in Seq(Names)
    BY AgentAssumption
  <2>3. IsForm([form EXCEPT !.text = t])
    BY <1>1, <2>2, FieldKept
  <2> QED BY <2>1, <2>3
<1>7. CASE \E k \in Kinds : \E q \in Queries[k] \cup Entities[k] : g = [form EXCEPT !.query[k] = q]
  BY <1>1, <1>7, QueryKept
<1>8. CASE \E i \in DOMAIN answer.offered : \E y : g = [form EXCEPT !.confirmed = With(@, i, y)]
  <2>1. PICK i, y : g = [form EXCEPT !.confirmed = With(@, i, y)]
    BY <1>8
  <2> DEFINE c == With(form.confirmed, i, y)
  <2>2. g = [form EXCEPT !.confirmed = c]
    BY <2>1
  <2> HIDE DEF c
  <2> QED BY <1>1, <2>2, FieldKept
<1>9. CASE \E i \in DOMAIN answer.warned :
             g = [form EXCEPT !.units = With(@, i, answer.warned[i])]
  <2>1. PICK i \in DOMAIN answer.warned :
          g = [form EXCEPT !.units = With(@, i, answer.warned[i])]
    BY <1>9
  <2> DEFINE u == With(form.units, i, answer.warned[i])
  <2>2. \A j \in DOMAIN u : u[j] = [product |-> u[j].product, unit |-> u[j].unit]
    BY <1>1, <1>4 DEF IsForm, With
  <2>3. g = [form EXCEPT !.units = u]
    BY <2>1
  <2> HIDE DEF u
  <2> QED BY <1>1, <2>2, <2>3, FieldKept
<1>12. ASSUME NEW i, NEW P, g \in Confirmed(form, i, P)
       PROVE  \E y : g = [form EXCEPT !.confirmed = With(@, i, y)]
  BY <1>12 DEF Confirmed
<1>13. CASE x[1] = "provide"
  <2>1. x[2] \in Kinds \cup {"order_date", "order_text"}
    BY <1>11, <1>13, TheActions DEF Missing
  <2>2. CASE x[2] \in Kinds
    <3>1. Carried(form, answer, "provide", x[2]) = Named(form, x[2], Queries[x[2]])
      BY <2>2, WaysOfKind
    <3>2. g \in Named(form, x[2], Queries[x[2]])
      BY <1>2, <1>13, <3>1
    <3> QED BY <1>7, <2>2, <3>2 DEF Named
  <2>3. CASE x[2] = "order_date"
    BY <1>2, <1>5, <1>13, <2>3, Ways
  <2>4. CASE x[2] = "order_text"
    BY <1>2, <1>6, <1>13, <2>4, Ways
  <2> QED BY <2>1, <2>2, <2>3, <2>4
<1>14. CASE x[1] \in {"select", "replace"} /\ x[2] \in Kinds
  <2>1. \/ g \in Named(form, x[2], Queries[x[2]])
        \/ g \in Named(form, x[2], answer.refs[x[2]].candidates)
    <3>1. /\ Carried(form, answer, "replace", x[2]) = Named(form, x[2], Queries[x[2]])
          /\ Carried(form, answer, "select", x[2])
               = Named(form, x[2], answer.refs[x[2]].candidates)
      BY <1>14, WaysOfKind
    <3>2. x[1] = "replace" \/ x[1] = "select"
      BY <1>14
    <3> QED BY <1>2, <3>1, <3>2
  <2>2. answer.refs[x[2]].candidates \subseteq Entities[x[2]]
    BY <1>3, <1>14
  <2> QED BY <1>7, <1>14, <2>1, <2>2 DEF Named
<1>15. CASE x[1] = "select" /\ x[2] = "products"
  <2>1. PICK i \in DOMAIN answer.offered : g \in Confirmed(form, i, answer.offered[i])
    BY <1>2, <1>15, Ways
  <2> QED BY <1>8, <1>12, <2>1
<1>16. CASE x[1] = "resolve" /\ x[2] = "products"
  <2>1. \/ g = [form EXCEPT !.partial = TRUE]
        \/ \E i \in DOMAIN answer.offered : g \in Confirmed(form, i, Catalog[version].products)
    BY <1>2, <1>16, Resolving DEF Blank
  <2> QED BY <1>5, <1>8, <1>12, <2>1
<1>17. CASE x[1] = "confirm" /\ x[2] = "units"
  BY <1>2, <1>9, <1>17, Ways
<1> QED BY <1>11, <1>13, <1>14, <1>15, <1>16, <1>17, TheActions

\* Starting afresh or taking out a line, too.
LEMMA AfreshKept ==
  ASSUME NEW f, IsForm(f)
  PROVE  IsForm(Afresh(f))
<1> DEFINE g == [f EXCEPT !.confirmed = NoLines]
           h == [g EXCEPT !.units = NoLines]
<1>1. IsForm(g)
  BY FieldKept
<1> HIDE DEF g
<1>2. IsForm(h)
  <2>1. \A i \in DOMAIN NoLines :
          NoLines[i] = [product |-> NoLines[i].product, unit |-> NoLines[i].unit]
    BY DEF NoLines
  <2> QED BY <1>1, <2>1, FieldKept
<1>3. Afresh(f) = [h EXCEPT !.partial = FALSE]
  BY DEF Afresh, g, h
<1> HIDE DEF h
<1>4. IsForm([h EXCEPT !.partial = FALSE])
  BY <1>2, FieldKept
<1> QED BY <1>3, <1>4

LEMMA EditedKept ==
  ASSUME NEW f, IsForm(f), NEW g \in Edited(f)
  PROVE  IsForm(g)
<1>1. PICK i \in DOMAIN f.text : g = [f EXCEPT !.text = RemoveAt(f.text, i)]
  BY DEF Edited
<1> DEFINE s == f.text
<1>2. /\ s \in Seq(Names) /\ Len(s) \in Nat /\ i \in 1 .. Len(s)
      /\ \A j \in 1 .. Len(s) : s[j] \in Names
  BY LenProperties, ElementOfSeq DEF IsForm
<1> HIDE DEF s
<1>3. SubSeq(s, 1, i - 1) \in Seq(Names)
  <2>1. 1 \in Int /\ i - 1 \in Int /\ \A j \in 1 .. i - 1 : s[j] \in Names
    BY <1>2
  <2> QED BY <2>1, SubSeqProperties
<1>4. SubSeq(s, i + 1, Len(s)) \in Seq(Names)
  <2>1. i + 1 \in Int /\ Len(s) \in Int /\ \A j \in i + 1 .. Len(s) : s[j] \in Names
    BY <1>2
  <2> QED BY <2>1, SubSeqProperties
<1>5. RemoveAt(s, i) \in Seq(Names)
  BY <1>3, <1>4, ConcatProperties DEF RemoveAt
<1> QED BY <1>1, <1>5, FieldKept DEF s

-----------------------------------------------------------------------------
(* Every step keeps the invariant.                                         *)

\* No text, no lines.
LEMMA NothingDrawn ==
  ASSUME NEW v \in Versions, NEW f, IsForm(f), f.text = <<>>
  PROVE  DraftOf(v, f) = NoLines
<1>1. Accepted(v, f)
  BY DEF Accepted
<1>2. DOMAIN DraftOf(v, f) = DOMAIN f.text
  BY <1>1, DraftDrawn
<1>3. DOMAIN f.text = {}
  OBVIOUS
<1>4. DraftOf(v, f) = [i \in DOMAIN DraftOf(v, f) |-> DraftOf(v, f)[i]]
  BY DEF DraftOf
<1> HIDE DEF DraftOf
<1> QED BY <1>2, <1>3, <1>4 DEF NoLines

\* A call that fails has no draft and no references left.
LEMMA FailureKept ==
  ASSUME Answer(Failure)
  PROVE  CallInv' /\ AnswerInv'
<1>1. Failure.kind = "error"
  BY DEF Failure, Plain
<1> QED BY <1>1 DEF Answer, CallInv, AnswerInv

\* A call that goes on from position i.
LEMMA GoOnKept ==
  ASSUME NEW f, IsForm(f), NEW mem \in Seq(Ids), NEW i \in 0 .. 3, NEW res,
         \A l \in 1 .. 3 : l <= i => Resolves(f, Order[l], res[Order[l]]),
         NEW v \in Versions, Accepted(v, f),
         GoOn(f, mem, DraftOf(v, f), res, i), form' = f
  PROVE  CallInv' /\ AnswerInv'
<1> DEFINE stop == Stop(f, mem, i)
           all == Passed(f, res, i, stop)
           d == DraftOf(v, f)
<1>1. /\ stop \in 1 .. 4
      /\ stop # 4 => Searched(f, mem, stop)
  BY NextStop
<1>2. /\ all = [k \in Kinds |-> all[k]]
      /\ \A l \in 1 .. 3 : l < stop => Resolves(f, Order[l], all[Order[l]])
  BY PassedResolved
<1>3. IF stop = 4 THEN Answer(Reply(f, all, d))
      ELSE at' = stop /\ draft' = d /\ resolved' = all /\ answer' = Plain
  BY DEF GoOn
<1> HIDE DEF stop, all, d
<1>4. CASE stop = 4
  <2>1. Answer(Reply(f, all, d))
    BY <1>3, <1>4
  <2>2. CallInv'
    BY <2>1 DEF Answer, CallInv
  <2>3. ASSUME answer'.kind \in {"open", "ready"}
        PROVE  /\ \A k \in Kinds : Resolves(f, k, answer'.refs[k])
               /\ Accepted(v, f) /\ answer' = Reply(f, answer'.refs, DraftOf(v, f))
    <3>1. answer' = Reply(f, all, d)
      BY <2>1 DEF Answer
    <3>2. answer'.refs = all
      BY <2>3, <3>1, ReplyKinds
    <3>3. \A k \in Kinds : Resolves(f, k, all[k])
      BY <1>2, <1>4, TheKinds
    <3> QED BY <3>1, <3>2, <3>3 DEF d
  <2>4. AnswerInv'
    BY <2>3 DEF AnswerInv, AnsweredFrom
  <2> QED BY <2>2, <2>4
<1>5. CASE stop # 4
  <2>1. at' = stop /\ draft' = d /\ resolved' = all /\ answer' = Plain
    BY <1>3, <1>5
  <2>2. stop \in 1 .. 3 /\ f.query[Order[stop]] # Null
    BY <1>1, <1>5 DEF Searched
  <2>3. CallInv'
    <3>1. at' \in 0 .. 3 /\ form'.query[Order[at']] # Null
      BY <2>1, <2>2
    <3>2. resolved' = [k \in Kinds |-> resolved'[k]]
      BY <1>2, <2>1
    <3>3. \A l \in 1 .. 3 : l < at' => Resolves(form', Order[l], resolved'[Order[l]])
      BY <1>2, <2>1
    <3>4. Accepted(v, form') /\ draft' = DraftOf(v, form')
      BY <2>1 DEF d
    <3> QED BY <3>1, <3>2, <3>3, <3>4 DEF CallInv
  <2>4. AnswerInv'
    BY <2>1 DEF AnswerInv, Plain
  <2> QED BY <2>3, <2>4
<1> QED BY <1>4, <1>5

LEMMA CallKept ==
  ASSUME PreviewInv, NEW f, IsForm(f), Call(f)
  PROVE  PreviewInv'
<1>1. /\ form' = f /\ version' = version /\ remembered' = remembered
      /\ version \in Versions /\ remembered \in Seq(Ids)
  BY DEF Call, PreviewInv
<1> DEFINE res == [k \in Kinds |-> Fresh]
<1>2. CASE Answer(Failure)
  BY <1>1, <1>2, FailureKept DEF PreviewInv
<1>3. CASE Accepted(version, f) /\ GoOn(f, remembered, DraftOf(version, f), res, 0)
  <2>1. \A l \in 1 .. 3 : l <= 0 => Resolves(f, Order[l], res[Order[l]])
    OBVIOUS
  <2> HIDE DEF res
  <2>2. CallInv' /\ AnswerInv'
    BY <1>1, <1>3, <2>1, GoOnKept
  <2> QED BY <1>1, <2>2 DEF PreviewInv
<1>4. CASE f.text = <<>> /\ GoOn(f, remembered, NoLines, res, 0)
  <2>1. DraftOf(version, f) = NoLines /\ Accepted(version, f)
    BY <1>1, <1>4, NothingDrawn DEF Accepted
  <2> QED BY <1>3, <1>4, <2>1
<1> QED BY <1>2, <1>3, <1>4 DEF Call, Accepted

LEMMA SearchKept ==
  ASSUME PreviewInv, SearchReturns
  PROVE  PreviewInv'
<1>1. /\ version' = version /\ form' = form /\ at \in 1 .. 3
      /\ version \in Versions /\ remembered \in Seq(Ids) /\ IsForm(form)
  BY DEF SearchReturns, PreviewInv, CallInv
<1> DEFINE k == Order[at]  q == form.query[k]
<1>2. /\ k \in Kinds /\ q # Null
      /\ resolved = [l \in Kinds |-> resolved[l]]
      /\ \A l \in 1 .. 3 : l < at => Resolves(form, Order[l], resolved[Order[l]])
      /\ \A l \in 1 .. 3 : l # at => Order[l] # k
  BY <1>1, TheKinds DEF PreviewInv, CallInv
<1>3. PICK page \in Pages(k, q) :
        /\ remembered' = Remember(remembered, page)
        /\ GoOn(form, Remember(remembered, page), draft,
                [resolved EXCEPT ![k] = Judge(page, q)], at)
  BY DEF SearchReturns
<1> DEFINE mem == Remember(remembered, page)
           r == Judge(page, q)
           res == [resolved EXCEPT ![k] = r]
<1>4. mem \in Seq(Ids)
  <2>1. page \in SUBSET Ids /\ IsFiniteSet(page)
    BY <1>2, APage
  <2> QED BY <1>1, <2>1, RememberType
<1>5. Resolves(form, k, r)
  BY <1>1, <1>2, SearchResolved
<1> HIDE DEF k, mem, r
<1>6. \A l \in Kinds : res[l] = IF l = k THEN r ELSE resolved[l]
  <2>1. \A g : g = [l \in Kinds |-> g[l]] =>
          \A l \in Kinds : [g EXCEPT ![k] = r][l] = IF l = k THEN r ELSE g[l]
    OBVIOUS
  <2> QED BY <1>2, <2>1
<1> HIDE DEF res
<1>7. \A l \in 1 .. 3 : l <= at => Resolves(form, Order[l], res[Order[l]])
  <2> SUFFICES ASSUME NEW l \in 1 .. 3, l <= at PROVE Resolves(form, Order[l], res[Order[l]])
    OBVIOUS
  <2>1. Order[l] \in Kinds
    BY TheKinds
  <2>2. CASE l = at
    BY <1>2, <1>5, <1>6, <2>2 DEF k
  <2>3. CASE l < at
    BY <1>1, <1>2, <1>6, <2>1, <2>3
  <2> QED BY <1>1, <2>2, <2>3
<1>8. PICK v \in Versions : Accepted(v, form) /\ draft = DraftOf(v, form)
  BY <1>1 DEF PreviewInv, CallInv
<1>9. GoOn(form, mem, DraftOf(v, form), res, at)
  BY <1>3, <1>8 DEF mem, res, r
<1>10. CallInv' /\ AnswerInv'
  <2>1. at \in 0 .. 3
    BY <1>1
  <2> QED BY <1>1, <1>4, <1>7, <1>8, <1>9, <2>1, GoOnKept
<1>11. remembered' \in Seq(Ids)
  BY <1>3, <1>4 DEF mem
<1> QED BY <1>1, <1>10, <1>11 DEF PreviewInv

LEMMA PreviewInit == Init => PreviewInv
<1> SUFFICES ASSUME Init PROVE PreviewInv
  OBVIOUS
<1>1. IsForm(form)
  <2>1. form \in FirstForms
    BY DEF Init
  <2>2. /\ form = [text |-> form.text, dated |-> form.dated, confirmed |-> form.confirmed,
                   units |-> form.units, partial |-> form.partial, query |-> form.query]
        /\ form.text \in Texts \cup {<<>>} /\ form.dated \in BOOLEAN
        /\ form.partial = FALSE /\ form.units = NoLines
        /\ form.query = [k \in Kinds |-> form.query[k]]
        /\ \A k \in Kinds : form.query[k] \in Queries[k] \cup {Null}
    BY <2>1 DEF FirstForms
  <2>3. form.text \in Seq(Names)
    BY <2>2, AgentAssumption, EmptySeq
  <2>4. DOMAIN form.units = {}
    BY <2>2 DEF NoLines
  <2> QED BY <2>2, <2>3, <2>4 DEF IsForm
<1>2. remembered \in Seq(Ids)
  BY EmptySeq DEF Init
<1>3. answer.kind = "none"
  BY DEF Init, Plain
<1> QED BY <1>1, <1>2, <1>3 DEF Init, PreviewInv, CallInv, AnswerInv

LEMMA PreviewStep == PreviewInv /\ [Next]_vars => PreviewInv'
<1> SUFFICES ASSUME PreviewInv, [Next]_vars PROVE PreviewInv'
  OBVIOUS
<1>0. IsForm(form)
  BY DEF PreviewInv
<1>1. CASE Obey
  <2>1. PICK f : Follows(f) /\ Call(f)
    BY <1>1 DEF Obey
  <2>2. IsForm(f)
    BY <1>0, <2>1, SupplyKept, AfreshKept DEF Follows
  <2> QED BY <2>1, <2>2, CallKept
<1>2. CASE Edit
  BY <1>0, <1>2, EditedKept, CallKept DEF Edit
<1>3. CASE Again
  BY <1>0, <1>3, CallKept DEF Again
<1>4. CASE RejectedAtOnce \/ SearchFails
  BY <1>4, FailureKept DEF RejectedAtOnce, SearchFails, PreviewInv
<1>5. CASE SearchReturns
  BY <1>5, SearchKept
<1>6. CASE Install
  <2>1. version' \in Versions
    BY <1>6 DEF Install
  <2>2. UNCHANGED <<remembered, form, at, draft, resolved, answer>>
    BY <1>6 DEF Install
  <2> QED BY <2>1, <2>2 DEF PreviewInv, CallInv, AnswerInv, AnsweredFrom
<1>7. ASSUME NEW k \in Kinds, NEW q, Browse(k, q)
      PROVE  PreviewInv'
  <2>1. PICK page \in Pages(k, q) : remembered' = Remember(remembered, page)
    BY <1>7 DEF Browse
  <2>2. page \in SUBSET Ids /\ IsFiniteSet(page)
    BY APage
  <2>3. remembered' \in Seq(Ids)
    BY <2>1, <2>2, RememberType DEF PreviewInv
  <2>4. UNCHANGED <<version, form, at, draft, resolved, answer>>
    BY <1>7 DEF Browse
  <2> QED BY <2>3, <2>4 DEF PreviewInv, CallInv, AnswerInv, AnsweredFrom
<1>8. CASE UNCHANGED vars
  BY <1>8 DEF vars, PreviewInv, CallInv, AnswerInv, AnsweredFrom
<1> QED
  BY <1>1, <1>2, <1>3, <1>4, <1>5, <1>6, <1>7, <1>8 DEF Next, Search, Others

-----------------------------------------------------------------------------

\* Every call in flight works on a draft of one catalogue and on references
\* resolved for its own form.
THEOREM PreviewInvariant == Spec => []PreviewInv
BY PreviewInit, PreviewStep, PTL DEF Spec

\* What is stored for submission is what the text and the user say, whatever was
\* installed while the references were looked up (session.py:285).
THEOREM PreviewIsConfirmed == Spec => []StoredIsConfirmed
BY PreviewInvariant, ReadyIsConfirmed, PTL

\* The references of a preview are those the agent named.
THEOREM ReferencesNamed == Spec => []ReferencesAreNamed
BY PreviewInvariant, ReadyIsNamed, PTL

\* An answer that is not ready asks for something, and every single action it asks
\* for can be carried out by a form that a call by the same catalogue accepts.
THEOREM AlwaysAWayOn == Spec => []NoDeadEnd
BY PreviewInvariant, OpenLeadsOn, PTL
=============================================================================
