----------------------------- MODULE OrderLines -----------------------------
(***************************************************************************)
(* From an order text to draft lines (create_draft_from_text): OrderText   *)
(* reads the lines and ProductMatching finds their products, with nothing  *)
(* awaited in between.  Searches by one name leave the draft alone, so an  *)
(* order is read only before there was one, and only in the Shops.         *)
(***************************************************************************)
EXTENDS ProductMatching, OrderText

CONSTANTS
  Shops   \* settings orders are read with: products, aliases, threshold

VARIABLES
  draft   \* the match of every line of the order

orderVars == <<said, text, lines, draft>>
shopVars == <<vars, orderVars>>

ShopsInit == Init /\ OrderInit /\ draft = <<>>

\* A name that is none of Names resembles no product.
LineMatch(name) ==
  IF name \in Names THEN MatchOf(name) ELSE [name |-> name, selected |-> Null, offered |-> {}]

\* The order is read again with one item more, and every line is matched.
CreateDraft ==
  /\ settings \in Shops
  /\ answer = NoAnswer
  /\ Grouped
  /\ \E item \in Items : Say(item)
  /\ draft' = [i \in DOMAIN lines' |-> LineMatch(lines'[i].name)]
  /\ UNCHANGED vars

ShopsNext ==
  \/ said = <<>> /\ Next /\ UNCHANGED orderVars
  \/ CreateDraft

ShopsSpec == ShopsInit /\ [][ShopsNext]_shopVars

-----------------------------------------------------------------------------

\* The products that go by a name, or else by a synonym of it.
Known(k) ==
  LET own == {i \in DOMAIN products : k \in Identifiers(i)}
      synonyms == {i \in DOMAIN products :
                     Linked(k, ByConfiguration \cup ByProducts) \cap Identifiers(i) # {}}
  IN IF own # {} THEN own ELSE synonyms

GoesByName(n) == n \in Names /\ Key[n] # NoKey /\ Cardinality(Known(Key[n])) = 1

\* If no alias is declared twice, an order in clear items for products the shop
\* has, each by one product's name or synonym, is drafted as those products in
\* those quantities, in the order they were said, and nothing is left to be
\* confirmed (session.py:287).
OrderedIsDrafted ==
  NoClash /\ Clear /\ lines # <<>> /\ (\A i \in DOMAIN Meant : GoesByName(Meant[i].name))
    => /\ DOMAIN draft = DOMAIN Meant
       /\ \A i \in DOMAIN Meant :
            /\ draft[i].selected \in Known(Key[Meant[i].name])
            /\ lines[i].quantity = Meant[i].quantity

\* The draft is the matches of the lines, found with all groups.
DraftInv ==
  /\ said \in Seq(Items)
  /\ said = <<>> => lines = <<>>
  /\ said # <<>> => Grouped
  /\ draft = [i \in DOMAIN lines |-> LineMatch(lines[i].name)]
=============================================================================
