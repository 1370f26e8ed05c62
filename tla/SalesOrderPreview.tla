------------------------- MODULE SalesOrderPreview -------------------------
(***************************************************************************)
(* previewSalesOrder as the agent uses it: call after call, each with the  *)
(* whole order text and all that was confirmed so far, until an answer is  *)
(* ready to submit.  A call matches the lines against the catalogue of the *)
(* moment, then resolves customer, warehouse and handler one after the     *)
(* other.  Other calls run at each await: a new catalogue may be installed *)
(* and other references may be remembered in the session.                  *)
(*                                                                         *)
(* A catalogue is the set of its products, their units, and the products   *)
(* each requested name hits; scores and name normalisation stay behind     *)
(* those sets.  Its version stands for its prices.                         *)
(***************************************************************************)
EXTENDS Naturals, FiniteSets, SequencesExt

CONSTANTS
  Names,        \* product names an order text can ask for
  Products,     \* product ids
  Units,        \* units, normalised (_normalized_unit)
  AskedUnit,    \* the unit each name is ordered in, or Null
  TooSmall,     \* names ordered in a quantity below 0.0001
  Catalog,      \* the catalogues, by version: products, unit, direct, alias, weak
  Entities,     \* reference ids of each kind
  NameOf,       \* their names
  Queries,      \* what the agent can write for each kind
  Finds,        \* what the ERP finds for each kind and query
  Texts,        \* order texts the agent can start from
  PageSize,     \* references asked for at once (10)
  CandidateCap, \* candidates offered for a line or a reference (5)
  RememberCap,  \* references a session remembers (200)
  BrowseAt,     \* when searchBillingReferences may run: positions of Order, 0 = between calls
  Null

Order    == <<"customer", "warehouse", "handler">>
Kinds    == ToSet(Order)
Versions == DOMAIN Catalog
Ids      == UNION {Entities[k] : k \in Kinds}

ASSUME PreviewAssumption ==
  /\ PageSize \in Nat \ {0} /\ CandidateCap \in Nat \ {0}
  /\ RememberCap \in Nat /\ RememberCap >= 3 * PageSize
  /\ Null \notin Units \cup Products \cup Ids

\* No catalogue is empty (catalog.py:103), and hits are products of it.
ASSUME CatalogAssumption ==
  \A v \in Versions :
    /\ IsFiniteSet(Catalog[v].products) /\ Catalog[v].products # {}
    /\ \A n \in Names :
         Catalog[v].direct[n] \cup Catalog[v].alias[n] \cup Catalog[v].weak[n]
           \subseteq Catalog[v].products

\* An id stands for a kind and an identifier.  The ERP searches names and codes,
\* not ids, among the references of a kind.
ASSUME ReferenceAssumption ==
  \A k \in Kinds :
    /\ IsFiniteSet(Entities[k])
    /\ \A l \in Kinds \ {k} : Entities[k] \cap Entities[l] = {}
    /\ \A q \in DOMAIN Finds[k] : q \notin Ids /\ Finds[k][q] \subseteq Entities[k]

\* The agent has something to order and something to call every reference, and
\* another name for one that is not found.  An id it writes is one of the kind.
ASSUME AgentAssumption ==
  /\ Texts # {} /\ Texts \subseteq Seq(Names) \ {<<>>}
  /\ \A k \in Kinds :
       /\ Queries[k] # {} /\ Null \notin Queries[k]
       /\ Queries[k] \cap Ids \subseteq Entities[k]
       /\ \A q \in Queries[k] :
            (q \in DOMAIN Finds[k] => Finds[k][q] = {}) => Queries[k] # {q}

VARIABLES
  version,    \* the catalogue every call sees
  remembered, \* _reference_options: ids in the order they were first seen
  form,       \* the arguments of the agent's latest call
  at,         \* the reference being searched: a position of Order, 0 = no call
  draft,      \* the matched lines of the call in flight
  resolved,   \* its references so far
  answer      \* what the latest call answered

vars == <<version, remembered, form, at, draft, resolved, answer>>

(***************************************************************************)
(* A form is a call's arguments.  Confirmations are keyed by line number;  *)
(* meant is the name the user was looking at when confirming, which the    *)
(* code is not told.                                                       *)
(***************************************************************************)
NoLines == [i \in {} |-> Null]
FirstForms ==
  [text : Texts \cup {<<>>}, dated : BOOLEAN, confirmed : {NoLines}, units : {NoLines},
   partial : {FALSE},
   query : {q \in [Kinds -> (UNION {Queries[k] : k \in Kinds}) \cup {Null}] :
              \A k \in Kinds : q[k] \in Queries[k] \cup {Null}}]

Fresh == [status |-> "missing", selected |-> Null, candidates |-> {}]
Plain == [kind |-> "none", missing |-> {}, refs |-> [k \in Kinds |-> Fresh],
          offered |-> NoLines, warned |-> NoLines, actions |-> {}, preview |-> Null]
Failure == [Plain EXCEPT !.kind = "error"]

Init ==
  /\ version \in Versions
  /\ remembered = <<>>
  /\ form \in FirstForms
  /\ at = 0
  /\ draft = NoLines
  /\ resolved = [k \in Kinds |-> Fresh]
  /\ answer = Plain

-----------------------------------------------------------------------------
(* Matching the lines.                                                     *)

\* The first candidates of a ranked list that is cut at cap.
Best(C, cap) ==
  IF Cardinality(C) <= cap THEN C
  ELSE CHOOSE S \in SUBSET C : Cardinality(S) = cap

\* _resolve_candidates: a direct hit outranks a synonym, a synonym the rest.
Certain(c, n) == IF c.direct[n] # {} THEN c.direct[n] ELSE c.alias[n]

Line(n, status, product, candidates) ==
  [status |-> status, product |-> product, candidates |-> candidates,
   unit |-> AskedUnit[n], sized |-> n \notin TooSmall]

\* match_line: only a hit that is alone in its class is taken for certain.
MatchLine(c, n) ==
  LET hits == IF Certain(c, n) # {} THEN Certain(c, n) ELSE c.weak[n] IN
  IF Cardinality(Certain(c, n)) = 1
  THEN Line(n, "matched", CHOOSE p \in hits : TRUE, {})
  ELSE Line(n, IF hits = {} THEN "unmatched" ELSE "ambiguous", Null,
            Best(hits, CandidateCap))

\* (variant: only what was offered is accepted)
ConfirmableIfOffered(c, line, p) == p \in c.products \cap (line.candidates \cup {line.product})

\* _confirm_recommendation accepts p for a line: any product of the catalogue
\* when nothing was offered.
Confirmable(c, line, p) ==
  /\ p \in c.products
  /\ line.status = "unmatched" \/ p \in line.candidates \cup {line.product}

\* create_draft_from_text: every confirmation has its line and is accepted.
Draftable(c, f) ==
  \A i \in DOMAIN f.confirmed :
    i \in DOMAIN f.text /\ Confirmable(c, MatchLine(c, f.text[i]), f.confirmed[i].product)

Matched(c, f) ==
  [i \in DOMAIN f.text |->
     LET line == MatchLine(c, f.text[i]) IN
     IF i \in DOMAIN f.confirmed
     THEN Line(f.text[i], "matched", f.confirmed[i].product, {})
     ELSE line]

\* _apply_confirmed_units accepts them all: each names the product and the unit
\* of a matched line.
UnitsAccepted(c, d, f) ==
  \A i \in DOMAIN f.units :
    /\ i \in DOMAIN d /\ d[i].status = "matched"
    /\ f.units[i].product = d[i].product
    /\ f.units[i].unit = c.unit[d[i].product] /\ f.units[i].unit # Null

\* A confirmed line is ordered in the product's own unit, in a valid quantity.
WithUnits(d, f) ==
  [i \in DOMAIN d |->
     IF i \in DOMAIN f.units THEN [d[i] EXCEPT !.unit = f.units[i].unit, !.sized = TRUE]
     ELSE d[i]]

\* A draft remembers the products it was made with (here: their version).
DraftOf(v, f) ==
  LET d == WithUnits(Matched(Catalog[v], f), f) IN
  [i \in DOMAIN d |-> [line |-> d[i], version |-> v]]

\* _unit_warnings: matched lines asked for in a unit that is not the product's.
Warned(d) ==
  {i \in DOMAIN d :
     LET u == Catalog[d[i].version].unit[d[i].line.product] IN
     /\ d[i].line.status = "matched"
     /\ Null \notin {d[i].line.unit, u}
     /\ d[i].line.unit # u}

-----------------------------------------------------------------------------
(* Resolving the references.                                               *)

\* (variant: a remembered reference is not looked up)
KnowsNothing(mem, q) == FALSE

\* reference_by_id
Knows(mem, q) == Contains(mem, q)

\* remember_references: a reference seen before keeps its old place, and the
\* oldest places are given up.
Remember(mem, page) ==
  LET all == mem \o SetToSeq(page \ ToSet(mem))
      drop == IF Len(all) > RememberCap THEN Len(all) - RememberCap ELSE 0
  IN SubSeq(all, drop + 1, Len(all))

\* What a search finds.
Found(k, q) == IF q \in DOMAIN Finds[k] THEN Finds[k][q] ELSE {}

\* The first page of what the ERP finds; it chooses the order.
Pages(k, q) ==
  {S \in SUBSET Found(k, q) : \/ S = Found(k, q) /\ Cardinality(S) <= PageSize
                             \/ Cardinality(S) = PageSize}

Exact(page, q) == {e \in page : q \in {e, NameOf[e]}}

\* (variant: a single candidate is taken for the one that was meant)
JudgeSingle(page, q) ==
  IF Cardinality(page) = 1
  THEN [status |-> "matched", selected |-> CHOOSE e \in page : TRUE, candidates |-> {}]
  ELSE [status |-> IF page = {} THEN "unmatched" ELSE "ambiguous", selected |-> Null,
        candidates |-> Best(page, CandidateCap)]

\* _resolve_reference, once the page is there.
Judge(page, q) ==
  IF Cardinality(Exact(page, q)) = 1
  THEN [status |-> "matched", selected |-> CHOOSE e \in Exact(page, q) : TRUE,
        candidates |-> {}]
  ELSE [status |-> IF page = {} THEN "unmatched" ELSE "ambiguous", selected |-> Null,
        candidates |-> Best(page, CandidateCap)]

\* _resolve_reference without a search: nothing was given, or an id is known.
AtOnce(q) == IF q = Null THEN Fresh
             ELSE [status |-> "matched", selected |-> q, candidates |-> {}]

Searched(f, mem, j) ==
  LET q == f.query[Order[j]] IN q # Null /\ ~Knows(mem, q)

\* The next reference after position i that has to be searched, 4 if none has.
Stop(f, mem, i) ==
  LET todo == {j \in 1 .. 3 : j > i /\ Searched(f, mem, j)} IN
  IF todo = {} THEN 4 ELSE CHOOSE j \in todo : \A l \in todo : j <= l

\* What is resolved on the way from position i to position j.
Passed(f, res, i, j) ==
  [k \in Kinds |-> IF \E l \in (i + 1) .. (j - 1) : Order[l] = k
                   THEN AtOnce(f.query[k]) ELSE res[k]]
-----------------------------------------------------------------------------
(* The end of a call: what is ready, what is stored, what is asked for.    *)

\* Required fields in the order they are asked for.
Missing(f) ==
  {k \in Kinds : f.query[k] = Null}
  \cup (IF f.dated THEN {} ELSE {"order_date"})
  \cup (IF f.text = <<>> THEN {"order_text"} ELSE {})

\* Lines whose product is settled.
Settled(d) == {i \in DOMAIN d : d[i].line.status = "matched"}

\* ready_to_submit
Ready(f, res, d) ==
  /\ Missing(f) = {}
  /\ \A k \in Kinds : res[k].status = "matched"
  /\ Warned(d) = {}
  /\ d # NoLines
  /\ Settled(d) = DOMAIN d \/ (f.partial /\ Settled(d) # {})

\* (variant: units are read again when the preview is built)
UnitsReadAgain(d) ==
  [i \in Settled(d) |->
     [product |-> d[i].line.product, version |-> d[i].version,
      unit |-> Catalog[version].unit[d[i].line.product]]]

\* The items of the payload and of the preview: lines without a product are
\* left out, units and prices are those of the draft's products.
Items(d) ==
  [i \in Settled(d) |->
     [product |-> d[i].line.product, version |-> d[i].version,
      unit |-> Catalog[d[i].version].unit[d[i].line.product]]]

\* _required_actions of an order that is not ready.
Actions(f, res, d) ==
  {<<"provide", x>> : x \in Missing(f)}
  \cup {<<"select", k>> : k \in {k \in Kinds : res[k].status = "ambiguous"}}
  \cup {<<"replace", k>> : k \in {k \in Kinds : res[k].status = "unmatched"}}
  \cup {<<"select", "products">> : i \in {i \in DOMAIN d : d[i].line.status = "ambiguous"}}
  \cup {<<"resolve", "products">> : i \in {i \in DOMAIN d : d[i].line.status = "unmatched"}}
  \cup {<<"confirm", "units">> : i \in Warned(d)}

\* What a call that is not ready shows of its lines and references.
Open(f, res, d) ==
  [kind |-> "open", missing |-> Missing(f), refs |-> res,
   offered |-> [i \in DOMAIN d \ Settled(d) |-> d[i].line.candidates],
   warned |-> [i \in Warned(d) |->
                 [product |-> d[i].line.product,
                  unit |-> Catalog[d[i].version].unit[d[i].line.product]]],
   actions |-> Actions(f, res, d), preview |-> Null]

\* Nothing is awaited between the last reference and the answer.  A quantity
\* below 0.0001 is refused only when the preview is built.
Reply(f, res, d) ==
  IF ~Ready(f, res, d) THEN Open(f, res, d)
  ELSE IF \E i \in Settled(d) : ~d[i].line.sized THEN Failure
  ELSE [Plain EXCEPT !.kind = "ready", !.actions = {<<"confirm", "submit">>},
                     !.refs = res, !.preview = Items(d)]

-----------------------------------------------------------------------------
(* Steps of a call.                                                        *)

Answer(a) ==
  /\ at' = 0
  /\ draft' = NoLines
  /\ resolved' = [k \in Kinds |-> Fresh]
  /\ answer' = a

\* On from position i, with the references resolved so far, to the next await
\* or to the end.
GoOn(f, mem, d, res, i) ==
  LET stop == Stop(f, mem, i)
      all == Passed(f, res, i, stop)
  IN IF stop = 4 THEN Answer(Reply(f, all, d))
     ELSE /\ at' = stop
          /\ draft' = d
          /\ resolved' = all
          /\ answer' = Plain

\* A call begins: everything up to the first search.  ensure_catalog returns
\* the catalogue there is (CatalogState has its cold start).
Call(f) ==
  /\ at = 0
  /\ form' = f
  /\ UNCHANGED <<version, remembered>>
  /\ IF f.text = <<>>
     THEN IF f.units # NoLines THEN Answer(Failure)
          ELSE GoOn(f, remembered, NoLines, [k \in Kinds |-> Fresh], 0)
     ELSE IF Draftable(Catalog[version], f)
             /\ UnitsAccepted(Catalog[version], Matched(Catalog[version], f), f)
          THEN GoOn(f, remembered, DraftOf(version, f), [k \in Kinds |-> Fresh], 0)
          ELSE Answer(Failure)

\* A call that ends before it awaits a reference: a date, remark, save type or
\* source is invalid, the text cannot be read, or no catalogue can be loaded.
RejectedAtOnce ==
  /\ at = 0
  /\ answer.kind # "none"
  /\ Answer(Failure)
  /\ UNCHANGED <<version, remembered, form>>

\* A search returns.
SearchReturns ==
  /\ at # 0
  /\ \E page \in Pages(Order[at], form.query[Order[at]]) :
       LET mem == Remember(remembered, page)
           res == [resolved EXCEPT ![Order[at]] = Judge(page, form.query[Order[at]])]
       IN /\ remembered' = mem
          /\ GoOn(form, mem, draft, res, at)
  /\ UNCHANGED <<version, form>>

\* A search fails: what the earlier ones remembered stays.
SearchFails ==
  /\ at # 0
  /\ Answer(Failure)
  /\ UNCHANGED <<version, remembered, form>>

\* searchBillingReferences, by the same conversation.
Browse(k, q) ==
  /\ at \in BrowseAt
  /\ \E page \in Pages(k, q) : remembered' = Remember(remembered, page)
  /\ UNCHANGED <<version, form, at, draft, resolved, answer>>

\* A newer catalogue is installed for the tenant.
Install ==
  /\ version + 1 \in Versions
  /\ version' = version + 1
  /\ UNCHANGED <<remembered, form, at, draft, resolved, answer>>

-----------------------------------------------------------------------------
(* What the agent does next: one change to the form, then the next call.   *)

With(g, i, x) == [j \in DOMAIN g \cup {i} |-> IF j = i THEN x ELSE g[j]]

Named(f, k, names) == {[f EXCEPT !.query[k] = q] : q \in names}
Confirmed(f, i, products) ==
  {[f EXCEPT !.confirmed = With(@, i, [product |-> p, meant |-> f.text[i]])] : p \in products}

\* Lines for which nothing was offered; the agent may look a product up for one
\* (searchProducts, listProducts).
Blank(a) == {i \in DOMAIN a.offered : a.offered[i] = {}}
LookedUp(f, a) == UNION {Confirmed(f, i, Catalog[version].products) : i \in Blank(a)}

\* The forms that carry out required action <<verb, what>> of answer a.  A line
\* without a product may also be left out.
Carried(f, a, verb, what) ==
  CASE verb = "provide" /\ what = "order_date" -> {[f EXCEPT !.dated = TRUE]}
    [] verb = "provide" /\ what = "order_text" -> {[f EXCEPT !.text = t] : t \in Texts}
    [] verb \in {"provide", "replace"} /\ what \in Kinds -> Named(f, what, Queries[what])
    [] verb = "select" /\ what \in Kinds -> Named(f, what, a.refs[what].candidates)
    [] verb = "select" /\ what = "products" ->
         UNION {Confirmed(f, i, a.offered[i]) : i \in DOMAIN a.offered}
    [] verb = "resolve" -> LookedUp(f, a) \cup {[f EXCEPT !.partial = TRUE]}
    [] verb = "confirm" -> {[f EXCEPT !.units = With(@, i, a.warned[i])] : i \in DOMAIN a.warned}

\* Changes that carry out a required action.
Supply(f, a) == UNION {Carried(f, a, x[1], x[2]) : x \in a.actions} \ {f}

\* After an error the confirmations are dropped.
Afresh(f) == [f EXCEPT !.confirmed = NoLines, !.units = NoLines, !.partial = FALSE]

\* The user takes a line out of the text; what was confirmed is sent again.
Edited(f) == {[f EXCEPT !.text = RemoveAt(f.text, i)] : i \in DOMAIN f.text}

Follows(f) ==
  \/ answer.kind = "none" /\ f = form
  \/ answer.kind = "open" /\ f \in Supply(form, answer)
  \/ answer.kind = "error" /\ f = Afresh(form)

Obey == at = 0 /\ \E f \in Supply(form, answer) \cup {form, Afresh(form)} :
                    Follows(f) /\ Call(f)
Edit == at = 0 /\ answer.kind # "none" /\ \E f \in Edited(form) : Call(f)
Again == at = 0 /\ answer.kind = "ready" /\ Call(form)

Search == SearchReturns \/ SearchFails
Others == Install \/ \E k \in Kinds : \E q \in Queries[k] : Browse(k, q)

Next == Obey \/ Edit \/ Again \/ RejectedAtOnce \/ Search \/ Others

Spec == Init /\ [][Next]_vars

(***************************************************************************)
(* An agent that does as it is told and an ERP that answers: the agent     *)
(* repeats the call until it is ready, and never edits the text.  Fairness *)
(* for it (MCSalesOrderPreview) is the agent's promise, not the code's.    *)
(***************************************************************************)
Obedient == Obey \/ SearchReturns \/ Install

-----------------------------------------------------------------------------
(* Correctness.                                                            *)

Hits(c, n) == c.direct[n] \cup c.alias[n] \cup c.weak[n]

\* What is stored for submission is what the text and the user say, whatever
\* was installed while the references were looked up: every line (or, in a
\* partial order, at least one), all at the prices of one catalogue, each with
\* a product that is the only certain one or was confirmed, in the product's
\* unit, which is the one asked for or was confirmed.
StoredIsConfirmed ==
  answer.kind = "ready" =>
    LET items == answer.preview IN
    /\ items # NoLines
    /\ DOMAIN items = DOMAIN form.text \/ form.partial
    /\ \A i \in DOMAIN items :
         LET c == Catalog[items[i].version]
             n == form.text[i]
             p == items[i].product
         IN /\ \A j \in DOMAIN items : items[i].version = items[j].version
            /\ \/ c.direct[n] = {p}
               \/ c.direct[n] = {} /\ c.alias[n] = {p}
               \/ i \in DOMAIN form.confirmed /\ form.confirmed[i].product = p
            /\ items[i].unit = c.unit[p]
            /\ \/ Null \in {c.unit[p], AskedUnit[n]} \/ c.unit[p] = AskedUnit[n]
               \/ i \in DOMAIN form.units
                  /\ form.units[i] = [product |-> p, unit |-> c.unit[p]]

\* The references of a preview are among those the agent named: the ERP entity
\* of that name, or the very id it chose.
ReferencesAreNamed ==
  answer.kind = "ready" =>
    \A k \in Kinds :
      LET e == answer.refs[k].selected IN
      e \in Entities[k] /\ form.query[k] \in {e, NameOf[e]}

\* The lines and confirmations of a call are accepted by a catalogue.
Accepted(v, f) ==
  \/ f.text = <<>>
  \/ /\ Draftable(Catalog[v], f)
     /\ UnitsAccepted(Catalog[v], Matched(Catalog[v], f), f)

\* The latest answer is the reply to the form that is still there, by the
\* catalogue of version v.
AnsweredFrom(v) ==
  Accepted(v, form) /\ answer = Reply(form, answer.refs, DraftOf(v, form))

\* An answer that is not ready asks for something, and for nothing that cannot
\* be done: every single required action can be carried out by a form that
\* leaves no further line out.  Unless another catalogue was installed since, the
\* next call does not refuse what that form confirms; only a new order text may
\* not go with what had been confirmed for the old one.
NoDeadEnd ==
  answer.kind = "open" =>
    /\ answer.actions # {}
    /\ \A x \in answer.actions :
         \E f \in Carried(form, answer, x[1], x[2]) \ {form} :
           /\ f.partial = form.partial
           /\ AnsweredFrom(version) /\ x # <<"provide", "order_text">> => Accepted(version, f)

\* A confirmation made for another line is not taken for this one.
StaleConfirmationRefused ==
  answer.kind = "ready" =>
    \A i \in DOMAIN answer.preview \cap DOMAIN form.confirmed :
      \/ form.confirmed[i].meant = form.text[i]
      \/ answer.preview[i].product
           \in Hits(Catalog[answer.preview[i].version], form.text[i])

-----------------------------------------------------------------------------
(* What holds at every step.                                               *)

IsForm(f) ==
  /\ f = [text |-> f.text, dated |-> f.dated, confirmed |-> f.confirmed,
          units |-> f.units, partial |-> f.partial, query |-> f.query]
  /\ f.text \in Seq(Names) /\ f.dated \in BOOLEAN /\ f.partial \in BOOLEAN
  /\ f.query = [k \in Kinds |-> f.query[k]]
  /\ \A k \in Kinds : f.query[k] \in Queries[k] \cup Entities[k] \cup {Null}
  /\ \A i \in DOMAIN f.units :
       f.units[i] = [product |-> f.units[i].product, unit |-> f.units[i].unit]

\* What a reference was resolved to leaves the agent something to do, unless it
\* was named.
Resolves(f, k, r) ==
  LET q == f.query[k] IN
  \/ q = Null /\ r = Fresh
  \/ /\ q # Null /\ r.status = "matched"
     /\ r.selected \in Entities[k] /\ q \in {r.selected, NameOf[r.selected]}
     /\ r.candidates = {}
  \/ /\ q # Null /\ r.status = "ambiguous"
     /\ r.candidates # {} /\ r.candidates \subseteq Entities[k] \ {q}
  \/ /\ q # Null /\ r.status = "unmatched"
     /\ r.candidates = {} /\ Queries[k] \ {q} # {}

\* A call in flight works on a draft that one catalogue accepted, and has dealt
\* with the references before the one it searches.
CallInv ==
  /\ at \in 0 .. 3
  /\ at # 0 =>
       /\ form.query[Order[at]] # Null
       /\ resolved = [k \in Kinds |-> resolved[k]]
       /\ \A l \in 1 .. 3 : l < at => Resolves(form, Order[l], resolved[Order[l]])
       /\ \E v \in Versions : Accepted(v, form) /\ draft = DraftOf(v, form)

\* An answer is the reply to the form that is still there.
AnswerInv ==
  answer.kind \in {"open", "ready"} =>
    /\ \A k \in Kinds : Resolves(form, k, answer.refs[k])
    /\ \E v \in Versions : AnsweredFrom(v)

PreviewInv ==
  /\ version \in Versions
  /\ remembered \in Seq(Ids)
  /\ IsForm(form)
  /\ CallInv
  /\ AnswerInv
=============================================================================
