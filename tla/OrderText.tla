----------------------------- MODULE OrderText -----------------------------
(***************************************************************************)
(* How an order that was said or typed becomes order lines                 *)
(* (parse_order_text): the text is cut into parts, a part is read by the   *)
(* first of four patterns it matches, and a part no pattern reads refuses  *)
(* the whole order.                                                        *)
(*                                                                         *)
(* A text is a sequence of lexemes, one for each class of characters the   *)
(* patterns tell apart.  The sign and the decimals of a digit number are   *)
(* left out, and "lai" stands for every request prefix.  `.+?' takes the   *)
(* shortest name, a number is taken as long as it goes.                    *)
(***************************************************************************)
EXTENDS Integers, FiniteSetsExt, SequencesExt

CONSTANTS
  Items,      \* what can be asked for, and how it is said
  MaxItems    \* items of one order

Ones == <<"yi", "er", "san", "si", "wu", "liu", "qi", "ba", "jiu">>
DigitNames == <<"0", "1", "2", "3", "4", "5", "6", "7", "8", "9">>
Digits == Range(DigitNames)
Chinese == Range(Ones) \cup {"shi", "bai", "qian", "wan"}
Listed == {"jin", "ping"}     \* _UNIT_PATTERN
Space == " "
NewLine == "\n"               \* with the commas and semicolons of _SPLIT_RE
Request == "lai"              \* _REQUEST_PREFIX_PATTERN
And == "he"
Each == "ge"

Forms == {"name first", "count first", "count first, blank", "each"}

\* An item: its form, whether a request comes before it and a blank (or else a
\* line break) before that, what it asks for, and whether the count is said in
\* digits or in words.
IsItem(item) ==
  /\ DOMAIN item = {"form", "request", "blank", "names", "count", "digits", "unit"}
  /\ item.form \in Forms
  /\ item.request \in BOOLEAN /\ item.blank \in BOOLEAN /\ item.digits \in BOOLEAN
  /\ item.names \in Seq(Seq(STRING)) /\ item.unit \in Seq(STRING)
  /\ Len(item.names) = IF item.form = "each" THEN 2 ELSE 1
  /\ \A k \in DOMAIN item.names :
       item.names[k] # <<>> /\ Range(item.names[k]) \cap {Space, NewLine, And, Each} = {}
  /\ item.count \in Nat /\ item.count < 10000 /\ (item.count = 0 => item.digits)
  /\ Range(item.unit) \cap (Digits \cup {Space, NewLine}) = {}

ASSUME ItemsAssumption == (\A item \in Items : IsItem(item)) /\ MaxItems \in Nat

VARIABLES
  said,   \* the items of the order, as they are meant
  text,   \* what is said
  lines   \* what parse_order_text makes of their text; <<>> if it refuses

-----------------------------------------------------------------------------
(* Numbers (_parse_quantity).  0 is no quantity.                           *)

Scale(x) == CASE x = "shi" -> 10 [] x = "bai" -> 100 [] x = "qian" -> 1000
Scales == {"shi", "bai", "qian"}
OneOf(x) == CHOOSE i \in DOMAIN Ones : Ones[i] = x
DigitOf(x) == CHOOSE i \in 0 .. 9 : DigitNames[i + 1] = x

\* Thousands, hundreds, tens and ones in that order, each at most once; only
\* ten goes without its digit.
Regular(q) ==
  /\ q # <<>> /\ Range(q) \subseteq Range(Ones) \cup Scales
  /\ \A i, j \in DOMAIN q :
       i < j /\ q[i] \in Scales /\ q[j] \in Scales => Scale(q[i]) > Scale(q[j])
  /\ \A i \in DOMAIN q : q[i] \in {"bai", "qian"} => i > 1 /\ q[i - 1] \in Range(Ones)
  /\ \A i \in DOMAIN q : q[i] \in Range(Ones) /\ i < Len(q) => q[i + 1] \in Scales

\* (variant: a scale without a digit counts nothing)
TimesNoBareTen(q, x) ==
  LET i == CHOOSE i \in DOMAIN q : q[i] = x IN
  IF x \notin Range(q) THEN 0
  ELSE IF i > 1 /\ q[i - 1] \in Range(Ones) THEN OneOf(q[i - 1]) ELSE 0

\* The digit before a scale counts for it, and the last digit for itself.
Times(q, x) ==
  LET i == CHOOSE i \in DOMAIN q : q[i] = x IN
  IF x \notin Range(q) THEN 0
  ELSE IF i > 1 /\ q[i - 1] \in Range(Ones) THEN OneOf(q[i - 1]) ELSE 1

ChineseValue(q) ==
  1000 * Times(q, "qian") + 100 * Times(q, "bai") + 10 * Times(q, "shi")
  + (IF Last(q) \in Range(Ones) THEN OneOf(Last(q)) ELSE 0)

DecimalValue(q) ==
  LET value[i \in 0 .. Len(q)] ==
        IF i = 0 THEN 0 ELSE 10 * value[i - 1] + DigitOf(q[i])
  IN value[Len(q)]

Quantity(q) ==
  IF q[1] \in Digits THEN DecimalValue(q)
  ELSE IF Regular(q) THEN ChineseValue(q) ELSE 0

-----------------------------------------------------------------------------
(* Parts of a text.                                                        *)

From(s, i) == SubSeq(s, i, Len(s))

\* The first place at or after i where s has none of the lexemes.
Past(s, i, lexemes) ==
  CHOOSE j \in i .. Len(s) + 1 :
    (j > Len(s) \/ s[j] \notin lexemes) /\ \A k \in i .. j - 1 : s[k] \in lexemes

Strip(s) ==
  LET kept == {i \in DOMAIN s : s[i] # Space} IN
  IF kept = {} THEN <<>> ELSE SubSeq(s, Min(kept), Max(kept))

\* A text of a request prefix alone (_VERB_PREFIX_ONLY_RE); `$' also matches
\* before a last line break.
RequestOnly(s) ==
  \/ s = <<>> \/ s = <<NewLine>>
  \/ Head(s) = Request /\ Range(Tail(s)) \subseteq {Space, NewLine}

\* (variant: every blank after a number and its unit separates)
SeparatesAlways(s, i) ==
  /\ s[i] \in Digits /\ (i = 1 \/ s[i - 1] \notin Digits)
  /\ LET j == Past(s, i, Digits) IN
     j < Len(s) /\ s[j] \in Listed /\ s[j + 1] \in {Space, NewLine}

\* A digit number with its unit and a blank starts at i (_DIGIT_UNIT_SPACE_RE),
\* and more than a request comes before it, in the whole text.
Separates(s, i) ==
  /\ s[i] \in Digits /\ (i = 1 \/ s[i - 1] \notin Digits)
  /\ LET j == Past(s, i, Digits) IN
     j < Len(s) /\ s[j] \in Listed /\ s[j + 1] \in {Space, NewLine}
  /\ ~RequestOnly(SubSeq(s, 1, i - 1))

\* The places _insert_inter_item_separators puts a line break behind.
Ends(s) ==
  {Past(s, Past(s, i, Digits) + 1, {Space, NewLine}) - 1 :
     i \in {i \in DOMAIN s : Separates(s, i)}}

\* The places before which _SPLIT_RE.split cuts a text with these line breaks.
Cuts(s) ==
  {i \in 1 .. Len(s) + 1 :
     \/ i = 1 \/ i = Len(s) + 1
     \/ s[i] = NewLine \/ s[i - 1] = NewLine
     \/ i - 1 \in Ends(s)}

\* The parts, but for those that strip leaves empty, in their order.
Parts(s) ==
  LET cuts == Cuts(s)
      begins == {i \in DOMAIN s :
                   /\ s[i] \notin {Space, NewLine}
                   /\ \E c \in cuts : c <= i /\ \A k \in c .. i - 1 : s[k] = Space}
      Begin(k) == CHOOSE i \in begins : Cardinality({j \in begins : j < i}) = k - 1
      PartAt(i) == Strip(SubSeq(s, i, Min({c \in cuts : c > i}) - 1))
  IN [k \in 1 .. Cardinality(begins) |-> PartAt(Begin(k))]

-----------------------------------------------------------------------------
(* The patterns (_parse_part).                                             *)

\* The number that starts at i, as long as it goes, and what follows it.
NumberAt(p, i) == i <= Len(p) /\ p[i] \in Digits \cup Chinese
AfterNumber(p, i) == Past(p, i, IF p[i] \in Digits THEN Digits ELSE Chinese)
NumberFrom(p, i) == SubSeq(p, i, AfterNumber(p, i) - 1)
UnitFrom(p, i) == From(p, Past(p, AfterNumber(p, i), {Space}))

ListedUnit(u) == u = <<>> \/ (Len(u) = 1 /\ u[1] \in Listed)
AnyUnit(u) == Range(u) \cap (Digits \cup {Space}) = {}

\* _clean_requested_name
CleanName(name) ==
  LET s == Strip(name)
      rest == IF s # <<>> /\ s[1] = Request THEN Strip(Tail(s)) ELSE s
  IN IF rest = <<>> THEN s ELSE rest

Line(name, number, unit) ==
  [name |-> CleanName(name), quantity |-> Quantity(number), unit |-> unit]

\* _EACH_RE: a name, "and", a name, "each", a number and any unit.
EachSplits(p) ==
  {s \in (DOMAIN p) \X (DOMAIN p) :
     /\ 1 < s[1] /\ s[1] + 1 < s[2] /\ p[s[1]] = And /\ p[s[2]] = Each
     /\ LET i == Past(p, s[2] + 1, {Space}) IN NumberAt(p, i) /\ AnyUnit(UnitFrom(p, i))}

EachLines(p) ==
  LET a == Min({s[1] : s \in EachSplits(p)})
      b == Min({s[2] : s \in {s \in EachSplits(p) : s[1] = a}})
      i == Past(p, b + 1, {Space})
  IN << Line(SubSeq(p, 1, a - 1), NumberFrom(p, i), UnitFrom(p, i)),
        Line(SubSeq(p, a + 1, b - 1), NumberFrom(p, i), UnitFrom(p, i)) >>

\* _QUANTITY_FIRST_RE: a request, a number, a listed unit and a name.
FirstNumber(p) == IF p[1] = Request THEN Past(p, 2, {Space}) ELSE 1
QuantityFirst(p) ==
  LET i == FirstNumber(p) IN
  /\ NumberAt(p, i)
  /\ LET rest == UnitFrom(p, i) IN Len(rest) > 1 /\ rest[1] \in Listed

QuantityFirstLine(p) ==
  LET i == FirstNumber(p)   rest == UnitFrom(p, i) IN
  Line(Tail(rest), NumberFrom(p, i), <<rest[1]>>)

\* _LINE_RE and _LINE_ANY_UNIT_RE: a name, a number and a unit, to the end.
BeforeListed(p) == {i \in 2 .. Len(p) : NumberAt(p, i) /\ ListedUnit(UnitFrom(p, i))}
BeforeAny(p) == {i \in 2 .. Len(p) : NumberAt(p, i) /\ AnyUnit(UnitFrom(p, i))}
NameFirstLine(p, i) == Line(SubSeq(p, 1, i - 1), NumberFrom(p, i), UnitFrom(p, i))

PartLines(p) ==
  LET listed == BeforeListed(p)
      others == BeforeAny(p)
  IN IF EachSplits(p) # {} THEN EachLines(p)
     ELSE IF Each \in Range(p) THEN <<>>
     ELSE IF QuantityFirst(p) THEN <<QuantityFirstLine(p)>>
     ELSE IF listed # {} THEN <<NameFirstLine(p, Min(listed))>>
     ELSE IF others # {} THEN <<NameFirstLine(p, Min(others))>>
     ELSE <<>>

Understood(part) == part # <<>> /\ \A i \in DOMAIN part : part[i].quantity > 0

parse_order_text(s) ==
  LET parts == Parts(s)
      read == [k \in DOMAIN parts |-> PartLines(parts[k])]
  IN IF \A k \in DOMAIN read : Understood(read[k]) THEN FlattenSeq(read) ELSE <<>>

-----------------------------------------------------------------------------
(* The order as it is said: what each item means, and its text.            *)

Tens == <<1, 10, 100, 1000>>
TensNames == <<"", "shi", "bai", "qian">>
Place(n, k) == (n \div Tens[k]) % 10

InDigits(n) ==
  LET width == Max({1} \cup {k \in 1 .. 4 : Tens[k] <= n}) IN
  [i \in 1 .. width |-> DigitNames[Place(n, width + 1 - i) + 1]]

\* The word for a place; a place that is skipped is said as zero, which is none
\* of the lexemes of a number.
Word(n, k) ==
  LET rest == n % Tens[k] IN
  IF Place(n, k) = 0 THEN <<>>
  ELSE (IF k = 2 /\ Place(n, k) = 1 THEN <<>> ELSE <<Ones[Place(n, k)]>>)
       \o (IF k = 1 THEN <<>> ELSE <<TensNames[k]>>)
       \o (IF k > 1 /\ 0 < rest /\ rest < Tens[k - 1] THEN <<"zero">> ELSE <<>>)

InWords(n) == Word(n, 4) \o Word(n, 3) \o Word(n, 2) \o Word(n, 1)

Spelled(item) == IF item.digits THEN InDigits(item.count) ELSE InWords(item.count)

ItemText(item) ==
  (IF item.request THEN <<Request>> ELSE <<>>) \o
  CASE item.form = "name first"  -> item.names[1] \o Spelled(item) \o item.unit
    [] item.form = "count first" -> Spelled(item) \o item.unit \o item.names[1]
    [] item.form = "count first, blank" ->
         Spelled(item) \o item.unit \o <<Space>> \o item.names[1]
    [] item.form = "each" ->
         item.names[1] \o <<And>> \o item.names[2] \o <<Each>> \o Spelled(item) \o item.unit

\* An item goes on a line of its own, or after a blank; the whole text is read
\* again.
Say(item) ==
  /\ Len(said) < MaxItems
  /\ said' = Append(said, item)
  /\ text' = text
       \o (IF said = <<>> THEN <<>> ELSE IF item.blank THEN <<Space>> ELSE <<NewLine>>)
       \o ItemText(item)
  /\ lines' = parse_order_text(text')

OrderInit == said = <<>> /\ text = <<>> /\ lines = <<>>

-----------------------------------------------------------------------------
(* Correctness.                                                            *)

\* What the items mean.
MeantLines(item) ==
  [k \in DOMAIN item.names |->
     [name |-> item.names[k], quantity |-> item.count, unit |-> item.unit]]
Meant == FlattenSeq([i \in DOMAIN said |-> MeantLines(said[i])])

Numerals == Digits \cup Chinese
ListedItem(item) == \E u \in Listed : item.unit = <<u>>

\* A name that begins with a number and a listed unit.
BeginsCounted(name) ==
  /\ NumberAt(name, 1)
  /\ LET j == AfterNumber(name, 1) IN j <= Len(name) /\ name[j] \in Listed

\* No name begins like a request, or runs into the number or the unit.
NameIsClear(item) ==
  /\ \A k \in DOMAIN item.names : item.names[k][1] # Request
  /\ item.form = "name first" =>
       LET name == item.names[1] IN
       /\ Last(name) \in Digits => ~item.digits
       /\ Last(name) \in Chinese => item.digits
       /\ ~BeginsCounted(name)
       /\ item.unit # <<>> /\ ~ListedItem(item) => Range(name) \cap Numerals = {}

\* A number in words skips no place.
NumberIsClear(item) == "zero" \notin Range(Spelled(item))

\* A unit holds no numeral and no "each"; one that is not listed comes last.
UnitIsClear(item) ==
  /\ Range(item.unit) \cap (Numerals \cup {Each}) = {}
  /\ item.form \in {"count first", "count first, blank"} => ListedItem(item)

\* A blank separates only after digits and a listed unit.
BlankIsClear(i) ==
  i < Len(said) /\ said[i + 1].blank =>
    /\ said[i].form \in {"name first", "each"}
    /\ said[i].digits /\ ListedItem(said[i])

\* A number that comes first is not cut off from its name.
GapIsClear(i) == said[i].form = "count first, blank" => i = 1 \/ ~said[i].digits

Clear ==
  \A i \in DOMAIN said :
    /\ NameIsClear(said[i]) /\ NumberIsClear(said[i]) /\ UnitIsClear(said[i])
    /\ BlankIsClear(i) /\ GapIsClear(i)

\* An order in clear items is read as it was meant, name, quantity and unit of
\* every item; if it asks for nothing of something it is refused, and no
\* quantity is made up (session.py:574).
ClearOrdersAreRead ==
  Clear =>
    lines = IF \E i \in DOMAIN said : said[i].count = 0 THEN <<>> ELSE Meant
=============================================================================
