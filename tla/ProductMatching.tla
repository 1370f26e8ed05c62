-------------------------- MODULE ProductMatching --------------------------
(***************************************************************************)
(* How a requested name finds its product: the synonym groups a catalogue  *)
(* is built with (ProductCatalog), and the classes of hits that decide     *)
(* whether a product is taken for certain or only offered (ProductMatcher).*)
(*                                                                         *)
(* A name is as it was written; Key is what normalize_name makes of it,    *)
(* NoKey when nothing is left.  Substrings, processed-food words, category *)
(* words and the similarity ratio are relations between keys.              *)
(***************************************************************************)
EXTENDS Naturals, FiniteSets, Sequences

CONSTANTS
  Names,       \* names, codes and aliases as they are written
  Key,         \* normalize_name
  NoKey,       \* the empty key
  Part,        \* <<x, y>>: x has two characters or more and is part of y
  Mismatch,    \* <<x, y>>: y is processed food or a flavour of x (_is_likely_mismatch)
  Terms,       \* _category_keywords: the words a general name stands for
  Ratio,       \* SequenceMatcher.ratio in percent, for different keys
  Thresholds,  \* values of settings.recommendation_score, in percent
  Limit,       \* limit of match_line (5) and resolve (10)
  Catalogs,    \* product lists a catalogue may hold, sorted by name
  External,    \* alias tables the service may be configured with
  Null

Keys == {Key[n] : n \in Names} \ {NoKey}

ASSUME MatchingAssumption ==
  /\ \A x, y \in Keys : x # y => Ratio[x, y] \in 0 .. 99
  /\ Thresholds \subseteq 0 .. 100
  /\ Limit \in Nat \ {0} /\ Null \notin Nat
  /\ Catalogs \subseteq Seq([name : Names, code : Names,
                             aliases : SUBSET Names, others : SUBSET Names])
  /\ \A table \in External : table \in [DOMAIN table -> Names] /\ DOMAIN table \subseteq Names

VARIABLES
  products,  \* ProductCatalog.products: name, code, aliases and other identifiers
  external,  \* the configured aliases
  threshold, \* settings.recommendation_score
  visited,   \* _build_alias_groups: names seen
  pending,   \* names still to be visited
  component, \* the group being collected
  groups,    \* equivalents: the group of every name that was grouped
  answer     \* the latest match

settings == <<products, external, threshold>>
vars == <<settings, visited, pending, component, groups, answer>>

NoAnswer == [name |-> Null, selected |-> Null, offered |-> {}]

Init ==
  /\ products \in Catalogs
  /\ external \in External
  /\ threshold \in Thresholds
  /\ visited = {}
  /\ pending = {}
  /\ component = {}
  /\ groups = [k \in {} |-> {}]
  /\ answer = NoAnswer

-----------------------------------------------------------------------------
(* Synonym groups.                                                         *)

\* (variant: a product's own alias replaces the configured one)
ProductsOverride(n) ==
  LET with == {i \in DOMAIN products : n \in products[i].aliases} IN
  IF with # {} THEN products[CHOOSE i \in with : \A j \in with : i <= j].name
  ELSE external[n]

\* What an alias stands for (_merge_product_aliases): the configured target,
\* else the name of the first product that has the alias.
Target(n) ==
  LET with == {i \in DOMAIN products : n \in products[i].aliases} IN
  IF n \in DOMAIN external THEN external[n]
  ELSE products[CHOOSE i \in with : \A j \in with : i <= j].name

Aliases == DOMAIN external \cup UNION {products[i].aliases : i \in DOMAIN products}

\* adjacency
Adjacent(k) ==
  ({Key[Target(n)] : n \in {n \in Aliases : Key[n] = k}}
   \cup {Key[n] : n \in {n \in Aliases : Key[Target(n)] = k}}) \ {NoKey}

Vertices == {k \in Keys : Adjacent(k) # {}}
Grouped == visited = Vertices /\ component = {}

\* The next name that was not seen starts a group.
StartGroup(k) ==
  /\ pending = {} /\ component = {}
  /\ k \in Vertices \ visited
  /\ pending' = {k}
  /\ UNCHANGED <<settings, visited, component, groups, answer>>

\* One pending name is visited.  The neighbours are a Python set, so the order
\* in which they are pushed, and so which name comes next, is left open.
Visit(k) ==
  /\ k \in pending
  /\ IF k \in visited
     THEN /\ pending' = pending \ {k}
          /\ UNCHANGED <<visited, component>>
     ELSE /\ visited' = visited \cup {k}
          /\ component' = component \cup {k}
          /\ pending' = (pending \ {k}) \cup Adjacent(k)
  /\ UNCHANGED <<settings, groups, answer>>

\* Nothing is pending any more: the group is complete.
EndGroup ==
  /\ pending = {} /\ component # {}
  /\ groups' = [k \in DOMAIN groups \cup component |->
                  IF k \in component THEN component ELSE groups[k]]
  /\ component' = {}
  /\ UNCHANGED <<settings, visited, pending, answer>>

\* equivalent_names, normalised again by the matcher
Equivalents(k) == IF k \in DOMAIN groups THEN groups[k] ELSE {}

-----------------------------------------------------------------------------
(* Hits.                                                                   *)

\* Keys of the product's id, code, barcode, name, aliases and customer codes.
Identifiers(i) ==
  {Key[n] : n \in {products[i].name, products[i].code}
                   \cup products[i].aliases \cup products[i].others} \ {NoKey}

NameKey(i) == Key[products[i].name]

\* x is part of product i's name and the name is not something else made of x.
Inside(x, i) == <<x, NameKey(i)>> \in Part /\ <<x, NameKey(i)>> \notin Mismatch

Greatest(S) == CHOOSE r \in S : \A s \in S : s <= r

\* The best similarity of k to a name, code or alias; halved for a mismatch.
Similarity(k, i) ==
  LET alike == {Key[n] : n \in {products[i].name, products[i].code} \cup products[i].aliases}
      ratios == {0} \cup {Ratio[k, x] : x \in alike \ {NoKey}}
      best == Greatest(ratios)
  IN IF <<k, NameKey(i)>> \in Mismatch THEN best \div 2 ELSE best

\* _score_product: the first kind of hit that applies.
Hit(k, i) ==
  IF k \in Identifiers(i) THEN "direct"
  ELSE IF Equivalents(k) \cap Identifiers(i) # {} THEN "synonym"
  ELSE IF \E x \in Equivalents(k) : Inside(x, i) THEN "synonym part"
  ELSE IF \E x \in Terms[k] : Inside(x, i) THEN "category"
  ELSE IF Inside(k, i) \/ <<NameKey(i), k>> \in Part THEN "part"
  ELSE "similar"

Score(k, i) ==
  CASE Hit(k, i) = "direct"       -> 100
    [] Hit(k, i) = "synonym"      -> 98
    [] Hit(k, i) = "synonym part" -> 92
    [] Hit(k, i) = "category"     -> 88
    [] Hit(k, i) = "part"         -> 86
    [] Hit(k, i) = "similar"      -> Similarity(k, i)

\* (variant: the threshold applies to every kind of hit)
AboveThreshold(k) == {i \in DOMAIN products : Score(k, i) >= threshold}

\* _candidates
Candidates(k) ==
  {i \in DOMAIN products :
     Hit(k, i) \in {"direct", "synonym"} \/ Score(k, i) >= threshold}

\* (variant: the best hit is taken if no other scores as high)
BestHits(k) ==
  LET c == Candidates(k) IN {i \in c : \A j \in c : Score(k, j) <= Score(k, i)}

\* (variant: a synonym is never certain)
DirectOnly(k) == {i \in Candidates(k) : Hit(k, i) = "direct"}

\* _resolve_candidates: direct hits if there are any, else synonyms.
Certain(k) ==
  LET direct == {i \in Candidates(k) : Hit(k, i) = "direct"} IN
  IF direct # {} THEN direct ELSE {i \in Candidates(k) : Hit(k, i) = "synonym"}

\* The first Limit hits by score, then by name.
Best(k, C) ==
  LET before(i) == {j \in C : \/ Score(k, j) > Score(k, i)
                              \/ Score(k, j) = Score(k, i) /\ j < i}
  IN {i \in C : Cardinality(before(i)) < Limit}

\* match_line and resolve: the one certain product, or products to choose from.
MatchOf(n) ==
  LET k == Key[n]
      certain == IF k = NoKey THEN {} ELSE Certain(k)
      hits == IF k = NoKey THEN {} ELSE IF certain # {} THEN certain ELSE Candidates(k)
  IN IF Cardinality(certain) = 1
     THEN [name |-> n, selected |-> CHOOSE i \in certain : TRUE, offered |-> {}]
     ELSE [name |-> n, selected |-> Null, offered |-> Best(k, hits)]

\* searchProducts asks for one name.
Match(n) ==
  /\ Grouped
  /\ answer' = MatchOf(n)
  /\ UNCHANGED <<settings, visited, pending, component, groups>>

Next ==
  \/ \E k \in Keys : StartGroup(k) \/ Visit(k)
  \/ EndGroup
  \/ \E n \in Names : Match(n)

Spec == Init /\ [][Next]_vars
-----------------------------------------------------------------------------
(* Correctness.  Declared pairs of names, read off the configuration and   *)
(* the products, without _merge_product_aliases.                           *)

ByConfiguration == {<<n, external[n]>> : n \in DOMAIN external}
ByProducts ==
  UNION {products[i].aliases \X {products[i].name} : i \in DOMAIN products}

\* Keys linked to k by pairs of names, in either direction and in any number
\* of steps: those in every set that holds k and is closed under the pairs.
ClosedUnder(S, pairs) ==
  \A p \in pairs :
    NoKey \notin {Key[p[1]], Key[p[2]]} => (Key[p[1]] \in S <=> Key[p[2]] \in S)

Linked(k, pairs) ==
  LET closed == {S \in SUBSET Keys : k \in S /\ ClosedUnder(S, pairs)}
  IN {x \in Keys : \A S \in closed : x \in S}

\* Every alias is declared for one target.
NoClash ==
  \A p, q \in ByConfiguration \cup ByProducts : p[1] = q[1] => p[2] = q[2]

\* A synonym group holds everything the configuration links, nothing that is
\* not declared anywhere, and everything declared if no alias is declared
\* twice (catalog.py:319: the configuration goes first).
GroupsAreSynonyms ==
  /\ \A k \in DOMAIN groups :
       /\ Linked(k, ByConfiguration) \subseteq groups[k]
       /\ groups[k] \subseteq Linked(k, ByConfiguration \cup ByProducts)
       /\ NoClash => groups[k] = Linked(k, ByConfiguration \cup ByProducts)
  /\ Grouped => \A k \in Keys \ DOMAIN groups : Linked(k, ByConfiguration) = {k}

Answered == answer # NoAnswer

\* A product is taken for certain only if it is the one product that goes by
\* the requested name, or no product does and it is the one that goes by a
\* synonym (product-matching-algorithm.md:246: only a unique
\* equivalence is written without asking).
CertainIsUnique ==
  Answered /\ answer.selected # Null =>
    LET k == Key[answer.name]
        own == {i \in DOMAIN products : k \in Identifiers(i)}
        synonyms == {i \in DOMAIN products :
                       Linked(k, ByConfiguration \cup ByProducts) \cap Identifiers(i) # {}}
    IN /\ k # NoKey
       /\ \/ own = {answer.selected}
          \/ /\ own = {} /\ answer.selected \in synonyms
             /\ NoClash => synonyms = {answer.selected}

\* Whoever asks for a product by a name it goes by, or by a configured synonym
\* of one, gets it or is offered as many such products as an answer holds, and
\* nothing else.
NothingCertainLost ==
  Answered /\ Key[answer.name] # NoKey =>
    LET k == Key[answer.name]
        own == {i \in DOMAIN products : k \in Identifiers(i)}
        known == {i \in DOMAIN products :
                    Linked(k, ByConfiguration) \cap Identifiers(i) # {}}
        shown == answer.offered \cup ({answer.selected} \ {Null})
    IN /\ own # {} => /\ shown \subseteq own
                      /\ shown = own \/ Cardinality(shown) = Limit
       /\ own = {} => known \subseteq shown \/ Cardinality(shown) = Limit

-----------------------------------------------------------------------------
(* What holds at every step.                                               *)

\* Everything in C is linked to everything else in C.
Connected(C) == \A x \in C : C \subseteq Linked(x, ByConfiguration \cup ByProducts)

\* The group being collected lies beside the finished ones, grows by what is
\* adjacent to it, and nothing else.
CollectInv ==
  /\ pending \subseteq Vertices /\ visited \subseteq Vertices
  /\ visited = DOMAIN groups \cup component
  /\ DOMAIN groups \cap (component \cup pending) = {}
  /\ \A k \in component : Adjacent(k) \subseteq component \cup pending
  /\ Connected(component \cup pending)

\* A finished group is whole.
GroupsInv ==
  \A k \in DOMAIN groups :
    /\ k \in groups[k] /\ groups[k] \subseteq DOMAIN groups
    /\ \A x \in groups[k] : Adjacent(x) \subseteq groups[k]
    /\ Connected(groups[k])

\* An answer was given with all groups, and would be given again.
AnswerInv ==
  Answered => /\ Grouped /\ pending = {}
              /\ answer.name \in Names /\ answer = MatchOf(answer.name)

MatchingInv ==
  /\ products \in Catalogs /\ external \in External
  /\ CollectInv /\ GroupsInv /\ AnswerInv
=============================================================================
