---------------------------- MODULE MCOrderLines ----------------------------
(***************************************************************************)
(* OrderLines on all pairs of small products under all small alias tables, *)
(* and on orders of two items in one of these shops.  Names are sequences  *)
(* of lexemes: "n" and "N" have one key and "-" has none; "k 2" contains   *)
(* "k" and resembles "n", and like "san m" it holds a numeral; "2 jin n"    *)
(* begins like a number of its own.  Items are counted in digits, in words *)
(* or not at all, in listed and other units.                               *)
(***************************************************************************)
EXTENDS OrderLines

N == <<"n">>    CapitalN == <<"N">>    K == <<"k">>    K2 == <<"k", "2">>
SanM == <<"san", "m">>    Dash == <<"-">>
TwoJin == <<"2", "jin", "n">>    \* no product's name

MCNames == {N, CapitalN, K, K2, SanM, Dash}
MCNoKey == <<>>
MCKey == [n \in MCNames |-> CASE n = CapitalN -> N [] n = Dash -> MCNoKey [] OTHER -> n]
MCPart == {<<K, K2>>}
MCMismatch == {}
MCTerms == [k \in Keys |-> IF k = SanM THEN {K} ELSE {}]
MCRatio == [k \in Keys \X Keys |-> IF k \in {<<N, K2>>, <<K2, N>>} THEN 70 ELSE 20]

Product(names, code) ==
  [name : names, code : {code}, others : {{}},
   aliases : {s \in SUBSET {N, CapitalN, SanM} : Cardinality(s) <= 1}]
MCExternal == UNION {[d -> MCNames] : d \in {{}, {N}, {SanM, N}, {Dash}}}

\* Products go by "n" and "k 2", and "san m" is configured to stand for "n".
MCShops ==
  {<< <<[name |-> N, code |-> Dash, others |-> {}, aliases |-> {}],
        [name |-> K2, code |-> Dash, others |-> {}, aliases |-> {}]>>,
      [n \in {SanM, N} |-> N], 60>>}

MCCatalogs ==
  {<<p, q>> : p \in Product({N, K}, Dash), q \in Product({K, K2}, SanM)}
  \cup {shop[1] : shop \in MCShops}

-----------------------------------------------------------------------------

Said(form, request, names, count, digits, unit) ==
  [form : form, request : {request}, blank : BOOLEAN, names : names, count : {count},
   digits : digits, unit : unit]

\* Every form for an item, once with a request before it.
Every(names, pairs, count, digits) ==
  UNION {
    Said({"name first"}, request, names, count, digits, {<<>>, <<"jin">>, <<"u">>})
    \cup Said(Forms \ {"name first", "each"}, request, names, count, digits, {<<"jin">>, <<"u">>})
    \cup Said({"each"}, request, pairs, count, digits, {<<"jin">>, <<"u">>}) : request \in BOOLEAN}

MCItems ==
  Every({<<N>>, <<SanM>>, <<K2>>}, {<<N, K2>>}, 21, BOOLEAN)
  \cup Said({"name first", "count first"}, FALSE, {<<N>>}, 0, {TRUE}, {<<"jin">>})
  \cup Said({"name first"}, FALSE, {<<TwoJin>>}, 3, BOOLEAN, {<<"jin">>})
  \cup UNION {Said({"name first"}, FALSE, {<<N>>}, c, {FALSE}, {<<"jin">>}) :
              c \in {3, 10, 15, 110, 300, 1234, 2030}}
=============================================================================
