------------------------ MODULE MCSalesOrderPreview ------------------------
(***************************************************************************)
(* SalesOrderPreview on small instances: beef is ambiguous and then has a  *)
(* synonym, salt is certain but sold by the bag, gum is unknown, and dust  *)
(* is certain but ordered in too small a quantity.  Two customers share a  *)
(* name; a query may find nothing.                                         *)
(*                                                                         *)
(* Half of the initial states belong to an obedient agent, of whose user   *)
(* ObedienceEnds also needs sensible wishes: a name that exists and *)
(* quantities that are not too small.                                      *)
(***************************************************************************)
EXTENDS SalesOrderPreview

VARIABLE obedient
MCvars == <<vars, obedient>>

Sensible ==
  /\ form.query.customer # "Nobody"
  /\ \A i \in DOMAIN form.text : form.text[i] \notin TooSmall

Does(A) == obedient /\ A /\ Sensible' /\ UNCHANGED obedient

\* The other agents give the date at once.
MCInit == Init /\ obedient \in BOOLEAN /\ IF obedient THEN Sensible ELSE form.dated
MCNext == Does(Obedient) \/ (~obedient /\ Next /\ UNCHANGED obedient)
MCSpec ==
  MCInit /\ [][MCNext]_MCvars /\ WF_MCvars(Does(Obey)) /\ WF_MCvars(Does(SearchReturns))

\* An agent that carries out required actions, one at a time and in any order,
\* ends with a preview that is ready (toolset.py:1506, prompt.py:111).
ObedienceEnds == obedient => <>[](answer.kind = "ready")

MCAskedUnit == [beef |-> "kg", salt |-> "kg", gum |-> Null, dust |-> Null]

Version(products, bag, direct, alias, weak) ==
  [products |-> products,
   unit |-> [p1 |-> "kg", p2 |-> bag],
   direct |-> [n \in Names |-> IF n \in DOMAIN direct THEN direct[n] ELSE {}],
   alias |-> [n \in Names |-> IF n \in DOMAIN alias THEN alias[n] ELSE {}],
   weak |-> [n \in Names |-> IF n \in DOMAIN weak THEN weak[n] ELSE {}]]

None == [n \in {} |-> {}]
MCCatalog ==
  <<Version({"p1", "p2"}, "bag", [salt |-> {"p2"}, dust |-> {"p1"}], None,
            [beef |-> {"p1", "p2"}]),
    Version({"p2"}, Null, [salt |-> {"p2"}, dust |-> {"p2"}], [beef |-> {"p2"}], None)>>
OneCatalog ==
  <<Version({"p1", "p2"}, "bag", [salt |-> {"p2"}], None, [beef |-> {"p1"}])>>

MCEntities == [customer |-> {"c1", "c2"}, warehouse |-> {"w1"}, handler |-> {"h1"}]
MCNameOf == [c1 |-> "Li", c2 |-> "Li", w1 |-> "Main", h1 |-> "Wang"]
MCQueries ==
  [customer |-> {"Li", "Nobody"}, warehouse |-> {"Main"}, handler |-> {"Wa", "Wang"}]
MCFinds ==
  [customer |-> [Li |-> {"c1", "c2"}, Nobody |-> {}],
   warehouse |-> [Main |-> {"w1"}],
   handler |-> [Wa |-> {"h1"}, Wang |-> {"h1"}]]

MCTexts == {<<"beef", "salt">>, <<"salt", "gum">>, <<"dust">>}
StaleTexts == {<<"beef", "gum">>}
=============================================================================
