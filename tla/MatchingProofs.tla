--------------------------- MODULE MatchingProofs ---------------------------
(***************************************************************************)
(* Synonym groups are the declared ones (GroupsAreDeclared), only a unique *)
(* product is taken for certain (UniqueIsCertain), and no product that     *)
(* goes by the requested name is lost (CertainIsKept): for any products,   *)
(* alias tables and names, whatever order names are visited in.  Orders    *)
(* leave that alone (OrdersKeepPromises), are read as they were meant      *)
(* (OrdersAreRead) and drafted as they were meant (OrdersAreDrafted).      *)
(*                                                                         *)
(* That the search over the alias graph finds whole groups takes no        *)
(* induction over paths: Linked is what every closed set holds, and the    *)
(* invariant says of the search that it closes.  Reading takes none over   *)
(* texts: ReadInv says where in the text each item is, and an order grows  *)
(* item by item.                                                           *)
(***************************************************************************)
EXTENDS OrderLines, SequenceTheorems, FiniteSetTheorems, TLAPS

-----------------------------------------------------------------------------
(* Numbers.                                                                *)

\* Every set of naturals that is not empty has a least element.
LEMMA LeastNat ==
  ASSUME NEW S \in SUBSET Nat, S # {}
  PROVE  \E m \in S : \A n \in S : m <= n
<1> DEFINE R == {p \in Nat \X Nat : p[1] < p[2]}
<1>1. IsWellFoundedOn(R, Nat)
  BY NatLessThanWellFounded DEF OpToRel
<1> HIDE DEF R
<1>2. PICK m \in S : \A n \in S : ~(<<n, m>> \in R)
  BY <1>1, WFMin
<1>3. \A n \in S : ~(n < m)
  BY <1>2 DEF R
<1>4. m \in Nat /\ \A n \in S : n \in Nat
  OBVIOUS
<1> QED BY <1>3, <1>4

\* Of a list, the entries with fewer than L entries before them are all of it or L.
LEMMA FirstOnes ==
  ASSUME NEW C \in SUBSET Nat, IsFiniteSet(C), NEW L \in Nat \ {0},
         NEW B, B = {i \in C : Cardinality({j \in C : j < i}) < L}
  PROVE  B = C \/ Cardinality(B) = L
<1> DEFINE P(i) == {j \in C : j < i}
<1>0. L \in Nat /\ 0 < L
  OBVIOUS
<1>1. \A i : IsFiniteSet(P(i)) /\ Cardinality(P(i)) \in Nat
  <2>1. \A i : P(i) \in SUBSET C
    OBVIOUS
  <2> HIDE DEF P
  <2> QED BY <2>1, FS_Subset, FS_CardinalityType
<1>2. B = {i \in C : Cardinality(P(i)) < L} /\ B \in SUBSET C
  OBVIOUS
<1> SUFFICES ASSUME B # C PROVE Cardinality(B) = L
  OBVIOUS
<1>3. PICK i \in C \ B : \A j \in C \ B : i <= j
  <2>1. C \ B \in SUBSET Nat /\ C \ B # {}
    BY <1>2
  <2> QED BY <2>1, LeastNat
<1>4. i \in Nat /\ ~(Cardinality(P(i)) < L)
  BY <1>2, <1>3
<1>5. P(i) \subseteq B
  <2>1. ASSUME NEW j \in P(i) PROVE j \in B
    <3>1. j \in C /\ j < i /\ j \in Nat
      OBVIOUS
    <3>2. j \in C \ B => i <= j
      BY <1>3
    <3> QED BY <1>4, <3>1, <3>2
  <2> QED BY <2>1
<1>6. B \subseteq P(i)
  <2> SUFFICES ASSUME NEW b \in B, b \notin P(i) PROVE FALSE
    OBVIOUS
  <2>1. b \in C /\ b \in Nat /\ i < b /\ Cardinality(P(b)) < L
    <3>1. b \in C /\ b \in Nat /\ Cardinality(P(b)) < L
      BY <1>2
    <3>2. ~(b < i)
      BY <3>1
    <3>3. b # i
      BY <1>3
    <3> QED BY <1>4, <3>1, <3>2, <3>3
  <2>2. P(i) \in SUBSET P(b) /\ i \in P(b) /\ i \notin P(i)
    <3>1. ASSUME NEW j \in P(i) PROVE j \in P(b)
      <4>1. j \in C /\ j \in Nat /\ j < i
        OBVIOUS
      <4> QED BY <1>4, <2>1, <4>1
    <3>2. i \in C /\ ~(i < i)
      BY <1>3, <1>4
    <3> QED BY <2>1, <3>1, <3>2
  <2> HIDE DEF P
  <2>3. Cardinality(P(i)) <= Cardinality(P(b))
    BY <1>1, <2>2, FS_Subset
  <2> QED BY <1>1, <1>4, <2>1, <2>3
<1>7. B = P(i) /\ IsFiniteSet(B) /\ Cardinality(B) \in Nat /\ ~(Cardinality(B) < L)
  <2>1. B = P(i)
    BY <1>5, <1>6
  <2> HIDE DEF P
  <2> QED BY <1>1, <1>4, <2>1
<1>8. B # {}
  <2>1. B = {} => Cardinality(B) = 0
    BY FS_EmptySet
  <2> QED BY <1>0, <1>7, <2>1
<1>9. PICK m \in B : \A b \in B : b <= m
  <2> DEFINE D == {n \in Nat : \E b \in B : n = i - b}
  <2>1. \A b \in B : b \in Nat /\ b < i
    BY <1>6
  <2>2. \A b \in B : i - b \in D
    BY <1>4, <2>1
  <2>3. D \in SUBSET Nat /\ D # {}
    BY <1>8, <2>2
  <2>4. PICK n \in D : \A k \in D : n <= k
    <3> HIDE DEF D
    <3> QED BY <2>3, LeastNat
  <2>5. PICK m \in B : n = i - m
    BY <2>4
  <2>6. ASSUME NEW b \in B PROVE b <= m
    <3>1. i - m <= i - b
      BY <2>2, <2>4, <2>5
    <3> QED BY <1>4, <2>1, <3>1
  <2> QED BY <2>6
<1>10. B \ {m} \in SUBSET P(m)
  <2>1. ASSUME NEW b \in B, b # m PROVE b \in C /\ b < m
    BY <1>2, <1>9, <2>1
  <2> QED BY <2>1
<1>11. Cardinality(P(m)) < L
  BY <1>2, <1>9
<1> HIDE DEF P
<1>12. Cardinality(B \ {m}) = Cardinality(B) - 1
  BY <1>7, <1>9, FS_RemoveElement
<1>13. Cardinality(B \ {m}) <= Cardinality(P(m))
  BY <1>1, <1>10, FS_Subset
<1>14. Cardinality(P(m)) \in Nat /\ Cardinality(B) \in Nat
  BY <1>1, <1>7
<1>15. \A b, q, l \in Nat : b - 1 <= q /\ q < l /\ ~(b < l) => b = l
  OBVIOUS
<1>16. Cardinality(B) - 1 <= Cardinality(P(m))
  BY <1>12, <1>13
<1>17. /\ Cardinality(B) - 1 <= Cardinality(P(m)) /\ Cardinality(P(m)) < L
       /\ ~(Cardinality(B) < L)
       => Cardinality(B) = L
  BY <1>0, <1>14, <1>15
<1> QED BY <1>7, <1>11, <1>16, <1>17

-----------------------------------------------------------------------------
(* Aliases and what they stand for.                                        *)

Settings == products \in Catalogs /\ external \in External
Declared == ByConfiguration \cup ByProducts

\* Everything the settings name is a name.
LEMMA SettingsType ==
  ASSUME Settings
  PROVE  /\ \A i \in DOMAIN products :
              /\ products[i].name \in Names /\ products[i].code \in Names
              /\ products[i].aliases \subseteq Names /\ products[i].others \subseteq Names
         /\ DOMAIN products \subseteq Nat /\ IsFiniteSet(DOMAIN products)
         /\ DOMAIN external \subseteq Names
         /\ \A n \in DOMAIN external : external[n] \in Names
<1> DEFINE R == [name : Names, code : Names, aliases : SUBSET Names, others : SUBSET Names]
<1>1. products \in Seq(R)
  BY MatchingAssumption DEF Settings
<1> HIDE DEF R
<1>2. Len(products) \in Nat /\ DOMAIN products = 1 .. Len(products)
      /\ \A i \in 1 .. Len(products) : products[i] \in R
  BY <1>1, LenProperties, ElementOfSeq
<1>3. IsFiniteSet(DOMAIN products)
  BY <1>2, FS_Interval
<1>4. DOMAIN external \subseteq Names /\ \A n \in DOMAIN external : external[n] \in Names
  BY MatchingAssumption DEF Settings
<1> QED BY <1>2, <1>3, <1>4 DEF R

\* An alias stands for something declared, and for what the configuration says
\* if it says anything.
LEMMA TargetDeclared ==
  ASSUME Settings, NEW n \in Aliases
  PROVE  /\ n \in Names /\ Target(n) \in Names
         /\ <<n, Target(n)>> \in Declared
         /\ n \in DOMAIN external => Target(n) = external[n]
<1>1. CASE n \in DOMAIN external
  <2>1. Target(n) = external[n]
    BY <1>1 DEF Target
  <2>2. <<n, external[n]>> \in ByConfiguration
    BY <1>1 DEF ByConfiguration
  <2> QED BY <1>1, <2>1, <2>2, SettingsType DEF Declared
<1>2. CASE n \notin DOMAIN external
  <2> DEFINE with == {i \in DOMAIN products : n \in products[i].aliases}
             i == CHOOSE i \in with : \A j \in with : i <= j
  <2>1. with # {}
    BY <1>2 DEF Aliases
  <2>2. with \in SUBSET Nat
    BY SettingsType
  <2>3. i \in with
    <3> HIDE DEF with
    <3>1. \E m \in with : \A j \in with : m <= j
      BY <2>1, <2>2, LeastNat
    <3> QED BY <3>1
  <2>4. Target(n) = products[i].name
    BY <1>2 DEF Target
  <2> HIDE DEF i
  <2>5. i \in DOMAIN products /\ n \in products[i].aliases
    BY <2>3
  <2>6. <<n, products[i].name>> \in products[i].aliases \X {products[i].name}
    BY <2>5
  <2>7. <<n, products[i].name>> \in ByProducts
    BY <2>5, <2>6 DEF ByProducts
  <2> QED BY <1>2, <2>4, <2>5, <2>7, SettingsType DEF Declared
<1> QED BY <1>1, <1>2

\* Who is adjacent to whom.
Joins(n, x, y) == Key[n] = x /\ Key[Target(n)] = y

LEMMA AdjacentMeans ==
  ASSUME NEW x, NEW y
  PROVE  y \in Adjacent(x) <=>
           /\ y # NoKey
           /\ \E n \in Aliases : Joins(n, x, y) \/ Joins(n, y, x)
<1> DEFINE out == {Key[Target(n)] : n \in {n \in Aliases : Key[n] = x}}
           in == {Key[n] : n \in {n \in Aliases : Key[Target(n)] = x}}
<1>1. Adjacent(x) = (out \cup in) \ {NoKey}
  BY DEF Adjacent
<1>2. y \in out <=> \E n \in Aliases : Joins(n, x, y)
  BY DEF Joins
<1>3. y \in in <=> \E n \in Aliases : Joins(n, y, x)
  BY DEF Joins
<1> HIDE DEF out, in
<1> QED BY <1>1, <1>2, <1>3

LEMMA AdjacentKeys ==
  ASSUME Settings, NEW x \in Keys, NEW y \in Adjacent(x)
  PROVE  y \in Keys /\ x \in Adjacent(y) /\ x \in Vertices /\ y \in Vertices
<1>1. PICK n \in Aliases : Joins(n, x, y) \/ Joins(n, y, x)
  BY AdjacentMeans
<1>2. n \in Names /\ Target(n) \in Names
  BY TargetDeclared
<1>3. y # NoKey
  BY AdjacentMeans
<1>4. y \in Keys
  BY <1>1, <1>2, <1>3 DEF Keys, Joins
<1>5. x # NoKey
  BY DEF Keys
<1>6. x \in Adjacent(y)
  BY <1>1, <1>5, AdjacentMeans
<1> QED BY <1>4, <1>6 DEF Vertices

\* A set of keys that is closed under the declared pairs is closed under
\* adjacency.
LEMMA ClosedHoldsAdjacent ==
  ASSUME Settings, NEW S \in SUBSET Keys, ClosedUnder(S, Declared),
         NEW x \in S, NEW y \in Adjacent(x)
  PROVE  y \in S
<1>1. PICK n \in Aliases : Joins(n, x, y) \/ Joins(n, y, x)
  BY AdjacentMeans
<1> DEFINE p == <<n, Target(n)>>
<1>2. p \in Declared /\ p[1] = n /\ p[2] = Target(n)
  BY TargetDeclared
<1>3. x # NoKey /\ y # NoKey
  BY AdjacentMeans DEF Keys
<1>4. NoKey \notin {Key[p[1]], Key[p[2]]} => (Key[p[1]] \in S <=> Key[p[2]] \in S)
  BY <1>2 DEF ClosedUnder
<1> HIDE DEF p
<1> QED BY <1>1, <1>2, <1>3, <1>4 DEF Joins

\* A set of keys that is closed under adjacency is closed under pairs whose
\* aliases stand for what the pairs say.
LEMMA AdjacentCloses ==
  ASSUME Settings, NEW S \in SUBSET Keys, \A x \in S : Adjacent(x) \subseteq S,
         NEW pairs, \A p \in pairs : p[1] \in Aliases /\ p[2] = Target(p[1])
  PROVE  ClosedUnder(S, pairs)
<1> SUFFICES ASSUME NEW p \in pairs, NoKey \notin {Key[p[1]], Key[p[2]]}
             PROVE  Key[p[1]] \in S <=> Key[p[2]] \in S
  BY DEF ClosedUnder
<1> DEFINE x == Key[p[1]]  y == Key[p[2]]
<1>1. p[1] \in Aliases /\ Key[Target(p[1])] = y /\ x # NoKey /\ y # NoKey
  OBVIOUS
<1>2. y \in Adjacent(x) /\ x \in Adjacent(y)
  <2>1. \E n \in Aliases : Joins(n, x, y)
    BY <1>1 DEF Joins
  <2> HIDE DEF x, y
  <2> QED BY <1>1, <2>1, AdjacentMeans
<1> QED BY <1>2

\* Linked is the least closed set around a key.
LEMMA LinkedInClosed ==
  ASSUME NEW S \in SUBSET Keys, NEW k \in S, NEW pairs, ClosedUnder(S, pairs)
  PROVE  Linked(k, pairs) \subseteq S
BY DEF Linked

LEMMA LinkedByClosed ==
  ASSUME NEW k, NEW pairs, NEW x \in Keys,
         \A S \in SUBSET Keys : k \in S /\ ClosedUnder(S, pairs) => x \in S
  PROVE  x \in Linked(k, pairs)
BY DEF Linked

LEMMA LinkedStays ==
  ASSUME NEW k, NEW pairs, NEW x \in Linked(k, pairs), NEW S \in SUBSET Keys,
         k \in S, ClosedUnder(S, pairs)
  PROVE  x \in S
BY DEF Linked

\* A connected set stays connected with the neighbours of one of its keys.
LEMMA ConnectedGrows ==
  ASSUME Settings, NEW C \in SUBSET Keys, Connected(C), NEW k \in C
  PROVE  Connected(C \cup Adjacent(k))
<1>1. Adjacent(k) \subseteq Keys
  BY AdjacentKeys
<1> SUFFICES ASSUME NEW x \in C \cup Adjacent(k), NEW y \in C \cup Adjacent(k),
                    NEW S \in SUBSET Keys, x \in S, ClosedUnder(S, Declared)
             PROVE  y \in S
  <2>1. \A x, y \in C \cup Adjacent(k) : y \in Linked(x, Declared)
    BY <1>1, LinkedByClosed
  <2> QED BY <2>1 DEF Connected, Declared
<1>2. k \in S
  <2>1. CASE x \in C
    <3>1. k \in Linked(x, Declared)
      BY <2>1 DEF Connected, Declared
    <3> QED BY <3>1, LinkedStays
  <2>2. CASE x \in Adjacent(k)
    <3>1. k \in Adjacent(x)
      BY <2>2, AdjacentKeys
    <3> QED BY <3>1, ClosedHoldsAdjacent
  <2> QED BY <2>1, <2>2
<1>3. CASE y \in C
  <2>1. y \in Linked(k, Declared)
    BY <1>3 DEF Connected, Declared
  <2> QED BY <1>2, <2>1, LinkedStays
<1>4. CASE y \in Adjacent(k)
  BY <1>2, <1>4, ClosedHoldsAdjacent
<1> QED BY <1>3, <1>4

LEMMA OneIsConnected ==
  ASSUME NEW k \in Keys
  PROVE  Connected({k})
BY LinkedByClosed DEF Connected

-----------------------------------------------------------------------------
(* Every step keeps the invariant.                                         *)

\* No key of a finished group is adjacent to a key outside.
LEMMA FinishedStayApart ==
  ASSUME Settings, GroupsInv, NEW x \in Keys \ DOMAIN groups
  PROVE  Adjacent(x) \cap DOMAIN groups = {}
<1> SUFFICES ASSUME NEW y \in Adjacent(x), y \in DOMAIN groups PROVE FALSE
  OBVIOUS
<1>1. x \in Adjacent(y)
  BY AdjacentKeys
<1>2. x \in groups[y] /\ groups[y] \subseteq DOMAIN groups
  BY <1>1 DEF GroupsInv
<1> QED BY <1>2

LEMMA MatchingInit == Init => MatchingInv
<1> SUFFICES ASSUME Init PROVE MatchingInv
  OBVIOUS
<1>1. DOMAIN groups = {} /\ visited = {} /\ pending = {} /\ component = {}
  BY DEF Init
<1>2. CollectInv
  BY <1>1 DEF CollectInv, Connected
<1>3. GroupsInv
  BY <1>1 DEF GroupsInv
<1> QED BY <1>2, <1>3 DEF Init, MatchingInv, AnswerInv, Answered

\* Adjacency, connection and answers hang on settings, and answers on groups.
LEMMA SameSettings ==
  ASSUME UNCHANGED settings
  PROVE  /\ Vertices' = Vertices
         /\ \A k : (Adjacent(k))' = Adjacent(k)
         /\ \A C : Connected(C) => (Connected(C))'
<1>1. products' = products /\ external' = external
  BY DEF settings
<1>2. \A n : (Target(n))' = Target(n)
  BY <1>1 DEF Target
<1>3. Aliases' = Aliases
  BY <1>1 DEF Aliases
<1>4. \A k : (Adjacent(k))' = Adjacent(k)
  BY <1>2, <1>3 DEF Adjacent
<1>5. Vertices' = Vertices
  BY <1>4 DEF Vertices
<1>6. ByConfiguration' = ByConfiguration /\ ByProducts' = ByProducts
  BY <1>1 DEF ByConfiguration, ByProducts
<1>7. \A C : Connected(C) => (Connected(C))'
  BY <1>6 DEF Connected
<1> QED BY <1>4, <1>5, <1>7

\* Steps of the search are over once there was an answer.
LEMMA NoAnswerYet ==
  ASSUME MatchingInv, \/ \E k : StartGroup(k) \/ Visit(k)
                      \/ EndGroup
  PROVE  ~Answered /\ answer' = answer /\ UNCHANGED settings
<1>1. UNCHANGED settings /\ answer' = answer
  BY DEF StartGroup, Visit, EndGroup
<1>2. Answered => visited = Vertices /\ component = {} /\ pending = {}
  BY DEF MatchingInv, AnswerInv, Grouped
<1>3. ~Answered
  BY <1>2 DEF StartGroup, Visit, EndGroup
<1> QED BY <1>1, <1>3

LEMMA StartKept ==
  ASSUME MatchingInv, NEW k, StartGroup(k)
  PROVE  CollectInv' /\ GroupsInv'
<1>1. /\ pending = {} /\ component = {} /\ k \in Vertices /\ k \notin visited
      /\ pending' = {k} /\ visited' = visited /\ component' = {}
      /\ groups' = groups /\ UNCHANGED settings
  BY DEF StartGroup
<1>2. /\ Vertices' = Vertices
      /\ \A x : (Adjacent(x))' = Adjacent(x)
      /\ \A C : Connected(C) => (Connected(C))'
  BY <1>1, SameSettings
<1>3. CollectInv /\ GroupsInv
  BY DEF MatchingInv
<1>4. k \in Keys
  BY <1>1 DEF Vertices
<1>5. (Connected({k}))'
  BY <1>2, <1>4, OneIsConnected
<1>6. Connected(component \cup pending)'
  BY <1>1, <1>5 DEF Connected
<1>7. CollectInv'
  <2>1. pending' \subseteq Vertices' /\ visited' \subseteq Vertices'
    BY <1>1, <1>2, <1>3 DEF CollectInv
  <2>2. visited' = DOMAIN groups' \cup component'
    BY <1>1, <1>3 DEF CollectInv
  <2>3. DOMAIN groups' \cap (component' \cup pending') = {}
    BY <1>1, <1>3 DEF CollectInv
  <2>4. \A x \in component' : (Adjacent(x))' \subseteq component' \cup pending'
    BY <1>1
  <2> QED BY <1>6, <2>1, <2>2, <2>3, <2>4 DEF CollectInv
<1>8. GroupsInv'
  BY <1>1, <1>2, <1>3 DEF GroupsInv
<1> QED BY <1>7, <1>8

LEMMA VisitKept ==
  ASSUME MatchingInv, NEW k, Visit(k)
  PROVE  CollectInv' /\ GroupsInv'
<1>1. k \in pending /\ groups' = groups /\ UNCHANGED settings
  BY DEF Visit
<1>2. /\ Vertices' = Vertices
      /\ \A x : (Adjacent(x))' = Adjacent(x)
      /\ \A C : Connected(C) => (Connected(C))'
  BY <1>1, SameSettings
<1>3. CollectInv /\ GroupsInv /\ Settings
  BY DEF MatchingInv, Settings
<1>4. k \in Vertices /\ k \in Keys /\ k \notin DOMAIN groups
  BY <1>1, <1>3 DEF CollectInv, Vertices
<1>5. GroupsInv'
  BY <1>1, <1>2, <1>3 DEF GroupsInv
<1>6. CASE k \in visited
  <2>1. visited' = visited /\ component' = component /\ pending' = pending \ {k}
    BY <1>6 DEF Visit
  <2>2. k \in component
    BY <1>3, <1>4, <1>6 DEF CollectInv
  <2>3. component' \cup pending' = component \cup pending
    BY <1>1, <2>1, <2>2
  <2>4. (Connected(component \cup pending))'
    BY <1>2, <1>3, <2>3 DEF CollectInv, Connected
  <2>5. pending' \subseteq Vertices' /\ visited' \subseteq Vertices'
    BY <1>2, <1>3, <2>1 DEF CollectInv
  <2>6. visited' = DOMAIN groups' \cup component'
    BY <1>1, <1>3, <2>1 DEF CollectInv
  <2>7. DOMAIN groups' \cap (component' \cup pending') = {}
    BY <1>1, <1>3, <2>3 DEF CollectInv
  <2>8. \A x \in component' : (Adjacent(x))' \subseteq component' \cup pending'
    BY <1>2, <1>3, <2>1, <2>3 DEF CollectInv
  <2> QED BY <1>5, <2>4, <2>5, <2>6, <2>7, <2>8 DEF CollectInv
<1>7. CASE k \notin visited
  <2>1. /\ visited' = visited \cup {k} /\ component' = component \cup {k}
        /\ pending' = (pending \ {k}) \cup Adjacent(k)
    BY <1>7 DEF Visit
  <2> DEFINE C == component \cup pending
  <2>2. component' \cup pending' = C \cup Adjacent(k)
    BY <1>1, <2>1
  <2>3. C \in SUBSET Keys /\ Connected(C) /\ k \in C
    BY <1>1, <1>3 DEF CollectInv, Vertices
  <2>4. Connected(C \cup Adjacent(k))
    BY <1>3, <2>3, ConnectedGrows
  <2>5. \A D : D = C \cup Adjacent(k) => (Connected(D))'
    BY <1>2, <2>4
  <2>6. (Connected(component \cup pending))'
    BY <2>2, <2>5 DEF Connected
  <2>7. Adjacent(k) \subseteq Vertices
    BY <1>3, <1>4, AdjacentKeys
  <2>8. pending' \subseteq Vertices' /\ visited' \subseteq Vertices'
    BY <1>2, <1>3, <1>4, <2>1, <2>7 DEF CollectInv
  <2>9. visited' = DOMAIN groups' \cup component'
    BY <1>1, <1>3, <2>1 DEF CollectInv
  <2>10. DOMAIN groups' \cap (component' \cup pending') = {}
    <3>1. Adjacent(k) \cap DOMAIN groups = {}
      BY <1>3, <1>4, FinishedStayApart
    <3> QED BY <1>1, <1>3, <2>2, <3>1 DEF CollectInv
  <2>11. \A x \in component' : (Adjacent(x))' \subseteq component' \cup pending'
    <3>1. \A x \in component : Adjacent(x) \subseteq C
      BY <1>3 DEF CollectInv
    <3> QED BY <1>2, <2>1, <2>2, <3>1
  <2> QED BY <1>5, <2>6, <2>8, <2>9, <2>10, <2>11 DEF CollectInv
<1> QED BY <1>6, <1>7

LEMMA EndKept ==
  ASSUME MatchingInv, EndGroup
  PROVE  CollectInv' /\ GroupsInv'
<1>1. /\ pending = {} /\ component' = {} /\ visited' = visited /\ pending' = pending
      /\ groups' = [k \in DOMAIN groups \cup component |->
                      IF k \in component THEN component ELSE groups[k]]
      /\ UNCHANGED settings
  BY DEF EndGroup
<1>2. /\ Vertices' = Vertices
      /\ \A x : (Adjacent(x))' = Adjacent(x)
      /\ \A C : Connected(C) => (Connected(C))'
  BY <1>1, SameSettings
<1>3. CollectInv /\ GroupsInv
  BY DEF MatchingInv
<1>4. DOMAIN groups' = DOMAIN groups \cup component
  BY <1>1
<1>5. CollectInv'
  BY <1>1, <1>2, <1>3, <1>4 DEF CollectInv, Connected
<1>6. ASSUME NEW k \in DOMAIN groups'
      PROVE  /\ k \in groups'[k] /\ groups'[k] \subseteq DOMAIN groups'
             /\ \A x \in groups'[k] : (Adjacent(x))' \subseteq groups'[k]
             /\ (Connected(groups[k]))'
  <2>1. CASE k \in component
    <3>1. groups'[k] = component
      BY <1>1, <2>1
    <3>2. component \cup pending = component
      BY <1>1
    <3>3. Connected(component) /\ \A x \in component : Adjacent(x) \subseteq component
      BY <1>3, <3>2 DEF CollectInv
    <3>4. \A D : D = component => (Connected(D))'
      BY <1>2, <3>3
    <3>5. (Connected(groups[k]))'
      BY <3>1, <3>4 DEF Connected
    <3> QED BY <1>2, <1>4, <2>1, <3>1, <3>3, <3>5
  <2>2. CASE k \notin component
    <3>1. k \in DOMAIN groups /\ groups'[k] = groups[k]
      BY <1>1, <1>4, <2>2
    <3>2. /\ k \in groups[k] /\ groups[k] \subseteq DOMAIN groups
          /\ \A x \in groups[k] : Adjacent(x) \subseteq groups[k]
          /\ Connected(groups[k])
      BY <1>3, <3>1 DEF GroupsInv
    <3>3. \A D : D = groups[k] => (Connected(D))'
      BY <1>2, <3>2
    <3>4. (Connected(groups[k]))'
      BY <3>1, <3>3 DEF Connected
    <3> QED BY <1>2, <1>4, <3>1, <3>2, <3>4
  <2> QED BY <2>1, <2>2
<1>7. GroupsInv'
  BY <1>6 DEF GroupsInv
<1> QED BY <1>5, <1>7

\* What an answer says hangs on the settings and the groups only.
LEMMA SameAnswer ==
  ASSUME UNCHANGED <<settings, groups>>
  PROVE  \A n : (MatchOf(n))' = MatchOf(n)
<1>1. products' = products /\ threshold' = threshold /\ groups' = groups
  BY DEF settings
<1>2. \A i : (Identifiers(i))' = Identifiers(i) /\ (NameKey(i))' = NameKey(i)
  BY <1>1 DEF Identifiers, NameKey
<1>3. \A x, i : (Inside(x, i))' = Inside(x, i)
  BY <1>2 DEF Inside
<1>4. \A k : (Equivalents(k))' = Equivalents(k)
  BY <1>1 DEF Equivalents
<1>5. \A k, i : (Hit(k, i))' = Hit(k, i)
  BY <1>2, <1>3, <1>4 DEF Hit
<1>6. \A k, i : (Similarity(k, i))' = Similarity(k, i)
  BY <1>1, <1>2 DEF Similarity
<1>7. \A k, i : (Score(k, i))' = Score(k, i)
  BY <1>5, <1>6 DEF Score
<1>8. \A k : (Candidates(k))' = Candidates(k)
  BY <1>1, <1>5, <1>7 DEF Candidates
<1>9. \A k : (Certain(k))' = Certain(k)
  BY <1>5, <1>8 DEF Certain
<1>10. \A k, C : (Best(k, C))' = Best(k, C)
  BY <1>7 DEF Best
<1> QED BY <1>8, <1>9, <1>10 DEF MatchOf

LEMMA MatchKept ==
  ASSUME MatchingInv, NEW n \in Names, Match(n)
  PROVE  MatchingInv'
<1>1. /\ Grouped /\ answer' = MatchOf(n)
      /\ UNCHANGED <<settings, visited, pending, component, groups>>
  BY DEF Match
<1>2. /\ Vertices' = Vertices
      /\ \A x : (Adjacent(x))' = Adjacent(x)
      /\ \A C : Connected(C) => (Connected(C))'
  BY <1>1, SameSettings
<1>3. CollectInv /\ GroupsInv /\ products \in Catalogs /\ external \in External
  BY DEF MatchingInv
<1>4. CollectInv'
  BY <1>1, <1>2, <1>3 DEF CollectInv, Connected
<1>5. GroupsInv'
  BY <1>1, <1>2, <1>3 DEF GroupsInv, Connected
<1>6. pending = {}
  BY <1>1, <1>3 DEF CollectInv, Grouped
<1>7. Grouped' /\ pending' = {}
  BY <1>1, <1>2, <1>6 DEF Grouped
<1>8. answer'.name = n
  <2>1. MatchOf(n).name = n
    BY DEF MatchOf
  <2> QED BY <1>1, <2>1
<1>9. answer' = (MatchOf(n))'
  BY <1>1, SameAnswer
<1>10. \A m : m = n => (MatchOf(m))' = (MatchOf(n))'
  OBVIOUS
<1>11. AnswerInv'
  BY <1>7, <1>8, <1>9, <1>10 DEF AnswerInv
<1> QED BY <1>1, <1>3, <1>4, <1>5, <1>11 DEF MatchingInv, settings

LEMMA MatchingStep == MatchingInv /\ [Next]_vars => MatchingInv'
<1> SUFFICES ASSUME MatchingInv, [Next]_vars PROVE MatchingInv'
  OBVIOUS
<1>1. ASSUME CollectInv', GroupsInv', ~Answered, answer' = answer, UNCHANGED settings
      PROVE  MatchingInv'
  <2>1. AnswerInv'
    BY <1>1 DEF AnswerInv, Answered
  <2> QED BY <1>1, <2>1 DEF MatchingInv, settings
<1>2. ASSUME NEW k \in Keys, StartGroup(k) PROVE MatchingInv'
  BY <1>1, <1>2, NoAnswerYet, StartKept
<1>3. ASSUME NEW k \in Keys, Visit(k) PROVE MatchingInv'
  BY <1>1, <1>3, NoAnswerYet, VisitKept
<1>4. CASE EndGroup
  BY <1>1, <1>4, NoAnswerYet, EndKept
<1>5. ASSUME NEW n \in Names, Match(n) PROVE MatchingInv'
  BY <1>5, MatchKept
<1>6. CASE UNCHANGED vars
  <2>1. UNCHANGED <<settings, visited, pending, component, groups, answer>>
    BY <1>6 DEF vars
  <2>2. /\ Vertices' = Vertices
        /\ \A x : (Adjacent(x))' = Adjacent(x)
        /\ \A C : Connected(C) => (Connected(C))'
    BY <2>1, SameSettings
  <2>3. CollectInv'
    BY <2>1, <2>2 DEF MatchingInv, CollectInv, Connected
  <2>4. GroupsInv'
    BY <2>1, <2>2 DEF MatchingInv, GroupsInv, Connected
  <2>5. Answered' = Answered /\ Grouped' = Grouped
    BY <2>1, <2>2 DEF Answered, Grouped
  <2>6. \A n : (MatchOf(n))' = MatchOf(n)
    BY <2>1, SameAnswer
  <2>7. (MatchOf(answer.name))' = MatchOf(answer.name)
    <3>1. \A n : n = answer.name => (MatchOf(n))' = MatchOf(n)
      BY <2>6
    <3> QED BY <2>1, <3>1
  <2>8. AnswerInv'
    BY <2>1, <2>5, <2>7 DEF MatchingInv, AnswerInv
  <2> QED BY <2>1, <2>3, <2>4, <2>8 DEF MatchingInv, settings
<1> QED BY <1>2, <1>3, <1>4, <1>5, <1>6 DEF Next

\* Groups are whole and apart, in every state, and answers are given with all of
\* them (_build_alias_groups runs before the first match).
THEOREM MatchingInvariant == Spec => []MatchingInv
BY MatchingInit, MatchingStep, PTL DEF Spec
-----------------------------------------------------------------------------
(* What groups hold.                                                       *)

\* What the configuration declares is what aliases stand for.
LEMMA ConfiguredTarget ==
  ASSUME NEW p \in ByConfiguration
  PROVE  p[1] \in Aliases /\ p[2] = Target(p[1])
<1>1. PICK n \in DOMAIN external : p = <<n, external[n]>>
  BY DEF ByConfiguration
<1>2. p[1] = n /\ p[2] = external[n]
  BY <1>1
<1> QED BY <1>1, <1>2 DEF Aliases, Target

\* If no alias is declared twice, that holds of all declared pairs.
LEMMA DeclaredTarget ==
  ASSUME Settings, NoClash, NEW p \in Declared
  PROVE  p[1] \in Aliases /\ p[2] = Target(p[1])
<1>1. p[1] \in Aliases
  <2>1. CASE p \in ByConfiguration
    BY <2>1, ConfiguredTarget
  <2>2. CASE p \in ByProducts
    <3>1. PICK i \in DOMAIN products : p \in products[i].aliases \X {products[i].name}
      BY <2>2 DEF ByProducts
    <3>2. p[1] \in products[i].aliases
      BY <3>1
    <3> QED BY <3>2 DEF Aliases
  <2> QED BY <2>1, <2>2 DEF Declared
<1> DEFINE q == <<p[1], Target(p[1])>>
<1>2. q \in Declared /\ q[1] = p[1] /\ q[2] = Target(p[1])
  BY <1>1, TargetDeclared
<1> HIDE DEF q
<1> QED BY <1>1, <1>2 DEF NoClash, Declared

\* A finished group holds all that is linked by what its aliases stand for.
LEMMA GroupIsClosed ==
  ASSUME MatchingInv, NEW k \in DOMAIN groups,
         NEW pairs, \A p \in pairs : p[1] \in Aliases /\ p[2] = Target(p[1])
  PROVE  Linked(k, pairs) \subseteq groups[k]
<1>1. Settings /\ CollectInv /\ GroupsInv
  BY DEF MatchingInv, Settings
<1>2. DOMAIN groups \subseteq Keys
  BY <1>1 DEF CollectInv, Vertices
<1>3. /\ k \in groups[k] /\ groups[k] \in SUBSET Keys
      /\ \A x \in groups[k] : Adjacent(x) \subseteq groups[k]
  BY <1>1, <1>2 DEF GroupsInv
<1>4. ClosedUnder(groups[k], pairs)
  BY <1>1, <1>3, AdjacentCloses
<1> QED BY <1>3, <1>4, LinkedInClosed

\* A name without a group is linked to nothing.
LEMMA AloneIsAlone ==
  ASSUME MatchingInv, Grouped, NEW k \in Keys \ DOMAIN groups,
         NEW pairs, \A p \in pairs : p[1] \in Aliases /\ p[2] = Target(p[1])
  PROVE  Linked(k, pairs) = {k}
<1>1. Settings /\ CollectInv
  BY DEF MatchingInv, Settings
<1>2. k \notin Vertices
  BY <1>1 DEF CollectInv, Grouped
<1>3. Adjacent(k) = {}
  BY <1>2 DEF Vertices
<1>4. {k} \in SUBSET Keys /\ \A x \in {k} : Adjacent(x) \subseteq {k}
  BY <1>3
<1>5. ClosedUnder({k}, pairs)
  BY <1>1, <1>4, AdjacentCloses
<1>6. Linked(k, pairs) \subseteq {k}
  BY <1>4, <1>5, LinkedInClosed
<1>7. k \in Linked(k, pairs)
  BY LinkedByClosed
<1> QED BY <1>6, <1>7

LEMMA GroupsHold == MatchingInv => GroupsAreSynonyms
<1> SUFFICES ASSUME MatchingInv PROVE GroupsAreSynonyms
  OBVIOUS
<1>1. Settings /\ GroupsInv
  BY DEF MatchingInv, Settings
<1>2. ASSUME NEW k \in DOMAIN groups
      PROVE  /\ Linked(k, ByConfiguration) \subseteq groups[k]
             /\ groups[k] \subseteq Linked(k, Declared)
             /\ NoClash => groups[k] = Linked(k, Declared)
  <2>1. Linked(k, ByConfiguration) \subseteq groups[k]
    BY ConfiguredTarget, GroupIsClosed
  <2>2. groups[k] \subseteq Linked(k, Declared)
    BY <1>1 DEF GroupsInv, Connected, Declared
  <2>3. NoClash => Linked(k, Declared) \subseteq groups[k]
    BY <1>1, DeclaredTarget, GroupIsClosed
  <2> QED BY <2>1, <2>2, <2>3
<1>3. Grouped => \A k \in Keys \ DOMAIN groups : Linked(k, ByConfiguration) = {k}
  BY ConfiguredTarget, AloneIsAlone
<1> QED BY <1>2, <1>3 DEF GroupsAreSynonyms, Declared

\* A synonym group holds everything the configuration links, nothing undeclared,
\* and everything declared if no alias is declared twice (_merge_product_aliases
\* and _build_alias_groups), in whatever order names are visited.
THEOREM GroupsAreDeclared == Spec => []GroupsAreSynonyms
BY MatchingInvariant, GroupsHold, PTL

-----------------------------------------------------------------------------
(* What answers hold.                                                      *)

Own(k) == {i \in DOMAIN products : k \in Identifiers(i)}
Synonyms(k) == {i \in DOMAIN products : Equivalents(k) \cap Identifiers(i) # {}}

\* Which hits are certain, and that they all score the same.
LEMMA CertainHits ==
  ASSUME NEW k
  PROVE  /\ Own(k) # {} => Certain(k) = Own(k)
         /\ Own(k) = {} => Certain(k) = Synonyms(k)
         /\ \E s \in Nat : \A i \in Certain(k) : Score(k, i) = s
<1>1. \A i : Hit(k, i) = "direct" <=> k \in Identifiers(i)
  BY DEF Hit
<1>2. \A i : Hit(k, i) = "synonym" <=>
               k \notin Identifiers(i) /\ Equivalents(k) \cap Identifiers(i) # {}
  BY DEF Hit
<1>3. Own(k) = {i \in Candidates(k) : Hit(k, i) = "direct"}
  BY <1>1 DEF Own, Candidates
<1>4. Own(k) = {} => Synonyms(k) = {i \in Candidates(k) : Hit(k, i) = "synonym"}
  BY <1>2 DEF Own, Synonyms, Candidates
<1>5. CASE Own(k) # {}
  <2>1. Certain(k) = Own(k)
    BY <1>3, <1>5 DEF Certain
  <2>2. \A i \in Certain(k) : Hit(k, i) = "direct"
    BY <1>3, <2>1
  <2>3. \A i \in Certain(k) : Score(k, i) = 100
    BY <2>2 DEF Score
  <2> QED BY <1>5, <2>1, <2>3
<1>6. CASE Own(k) = {}
  <2>1. Certain(k) = Synonyms(k)
    BY <1>3, <1>4, <1>6 DEF Certain
  <2>2. \A i \in Certain(k) : Hit(k, i) = "synonym"
    BY <1>4, <1>6, <2>1
  <2>3. \A i \in Certain(k) : Score(k, i) = 98
    BY <2>2 DEF Score
  <2> QED BY <1>6, <2>1, <2>3
<1> QED BY <1>5, <1>6

\* Of hits that score the same, all are offered or as many as an answer holds.
LEMMA BestOfEqual ==
  ASSUME NEW k, NEW C \in SUBSET Nat, IsFiniteSet(C),
         NEW s \in Nat, \A i \in C : Score(k, i) = s
  PROVE  /\ Best(k, C) \subseteq C
         /\ Best(k, C) = C \/ Cardinality(Best(k, C)) = Limit
<1> DEFINE B == {i \in C : Cardinality({j \in C : j < i}) < Limit}
           before(i) == {j \in C : \/ Score(k, j) > Score(k, i)
                                   \/ Score(k, j) = Score(k, i) /\ j < i}
<1>1. \A i \in C : before(i) = {j \in C : j < i}
  <2>1. \A i, j \in C : ~(Score(k, j) > Score(k, i)) /\ Score(k, j) = Score(k, i)
    OBVIOUS
  <2> QED BY <2>1
<1>2. Best(k, C) = {i \in C : Cardinality(before(i)) < Limit}
  BY DEF Best
<1>3. Best(k, C) = B
  <2> HIDE DEF before
  <2> QED BY <1>1, <1>2
<1>4. Limit \in Nat \ {0}
  BY MatchingAssumption
<1>5. B \subseteq C
  OBVIOUS
<1>6. B = C \/ Cardinality(B) = Limit
  <2>1. \A b : b = {i \in C : Cardinality({j \in C : j < i}) < Limit}
               => b = C \/ Cardinality(b) = Limit
    BY <1>4, FirstOnes
  <2> QED BY <2>1
<1> HIDE DEF B
<1> QED BY <1>3, <1>5, <1>6

\* What an answer selects and offers.
LEMMA WhatMatchSays ==
  ASSUME Settings, NEW n \in Names
  PROVE  /\ MatchOf(n).selected # Null =>
              /\ Key[n] # NoKey /\ Certain(Key[n]) = {MatchOf(n).selected}
              /\ MatchOf(n).offered = {}
         /\ Key[n] # NoKey /\ Certain(Key[n]) # {} /\ MatchOf(n).selected = Null =>
              MatchOf(n).offered = Best(Key[n], Certain(Key[n]))
         /\ Key[n] # NoKey /\ Cardinality(Certain(Key[n])) = 1 =>
              MatchOf(n).selected \in Certain(Key[n])
<1> DEFINE k == Key[n]
           certain == IF k = NoKey THEN {} ELSE Certain(k)
           hits == IF k = NoKey THEN {} ELSE IF certain # {} THEN certain ELSE Candidates(k)
<1>1. MatchOf(n) =
        IF Cardinality(certain) = 1
        THEN [name |-> n, selected |-> CHOOSE i \in certain : TRUE, offered |-> {}]
        ELSE [name |-> n, selected |-> Null, offered |-> Best(k, hits)]
  BY DEF MatchOf
<1>2. certain \in SUBSET (DOMAIN products) /\ IsFiniteSet(certain)
  <2>1. certain \in SUBSET (DOMAIN products)
    BY DEF Certain, Candidates
  <2>2. IsFiniteSet(DOMAIN products)
    BY SettingsType
  <2> HIDE DEF certain
  <2> QED BY <2>1, <2>2, FS_Subset
<1>3. CASE Cardinality(certain) = 1
  <2>1. PICK i : certain = {i}
    <3> HIDE DEF certain
    <3> QED BY <1>2, <1>3, FS_Singleton
  <2>2. (CHOOSE j \in certain : TRUE) = i
    <3> HIDE DEF certain
    <3> QED BY <2>1
  <2>3. MatchOf(n).selected = i /\ MatchOf(n).offered = {}
    <3> HIDE DEF certain
    <3> QED BY <1>1, <1>3, <2>2
  <2>4. i \in DOMAIN products /\ i \in Nat /\ i # Null
    <3>1. i \in DOMAIN products
      BY <1>2, <2>1
    <3> QED BY <3>1, SettingsType, MatchingAssumption
  <2>5. k # NoKey /\ Certain(k) = {i}
    BY <2>1
  <2> HIDE DEF k, certain
  <2> QED BY <2>3, <2>4, <2>5 DEF k
<1>4. CASE Cardinality(certain) # 1
  <2>1. MatchOf(n).selected = Null /\ MatchOf(n).offered = Best(k, hits)
    <3> HIDE DEF certain, hits
    <3> QED BY <1>1, <1>4
  <2>2. k # NoKey /\ Certain(k) # {} => hits = Certain(k)
    OBVIOUS
  <2>3. k # NoKey => Cardinality(Certain(k)) # 1
    BY <1>4
  <2> HIDE DEF hits
  <2> QED BY <2>1, <2>2, <2>3
<1> QED BY <1>3, <1>4

LEMMA UniqueHits == MatchingInv => CertainIsUnique
<1> SUFFICES ASSUME MatchingInv, Answered, answer.selected # Null
             PROVE  LET k == Key[answer.name]
                        synonyms == {i \in DOMAIN products :
                                       Linked(k, Declared) \cap Identifiers(i) # {}}
                    IN /\ k # NoKey
                       /\ \/ Own(k) = {answer.selected}
                          \/ /\ Own(k) = {} /\ answer.selected \in synonyms
                             /\ NoClash => synonyms = {answer.selected}
  BY DEF CertainIsUnique, Own, Declared
<1> DEFINE k == Key[answer.name]
           synonyms == {i \in DOMAIN products :
                          Linked(k, Declared) \cap Identifiers(i) # {}}
<1>1. Settings /\ answer.name \in Names /\ answer = MatchOf(answer.name)
  BY DEF MatchingInv, AnswerInv, Settings
<1>2. k # NoKey /\ Certain(k) = {answer.selected}
  BY <1>1, WhatMatchSays
<1>3. CASE Own(k) # {}
  BY <1>2, <1>3, CertainHits
<1>4. CASE Own(k) = {}
  <2>1. Synonyms(k) = {answer.selected}
    BY <1>2, <1>4, CertainHits
  <2>2. k \in DOMAIN groups /\ Equivalents(k) = groups[k]
    BY <2>1 DEF Synonyms, Equivalents
  <2>3. groups[k] \subseteq Linked(k, Declared) /\ (NoClash => groups[k] = Linked(k, Declared))
    BY <2>2, GroupsHold DEF GroupsAreSynonyms, Declared
  <2>4. answer.selected \in synonyms
    BY <2>1, <2>2, <2>3 DEF Synonyms
  <2>5. NoClash => synonyms = {answer.selected}
    BY <2>1, <2>2, <2>3 DEF Synonyms
  <2> QED BY <1>2, <1>4, <2>4, <2>5
<1> QED BY <1>3, <1>4

\* A product is taken for certain only if it alone goes by the requested name,
\* or none does and it goes by a synonym, alone if no alias is declared twice
\* (_resolve_candidates).
THEOREM UniqueIsCertain == Spec => []CertainIsUnique
BY MatchingInvariant, UniqueHits, PTL

LEMMA NoHitLost == MatchingInv => NothingCertainLost
<1> SUFFICES ASSUME MatchingInv, Answered, Key[answer.name] # NoKey
             PROVE  LET k == Key[answer.name]
                        known == {i \in DOMAIN products :
                                    Linked(k, ByConfiguration) \cap Identifiers(i) # {}}
                        shown == answer.offered \cup ({answer.selected} \ {Null})
                    IN /\ Own(k) # {} => /\ shown \subseteq Own(k)
                                         /\ shown = Own(k) \/ Cardinality(shown) = Limit
                       /\ Own(k) = {} => known \subseteq shown \/ Cardinality(shown) = Limit
  BY DEF NothingCertainLost, Own
<1> DEFINE k == Key[answer.name]
           known == {i \in DOMAIN products :
                       Linked(k, ByConfiguration) \cap Identifiers(i) # {}}
           shown == answer.offered \cup ({answer.selected} \ {Null})
<1>1. /\ Settings /\ Grouped
      /\ answer.name \in Names /\ answer = MatchOf(answer.name)
  BY DEF MatchingInv, AnswerInv, Settings
<1>2. k \in Keys
  BY <1>1 DEF Keys
<1>3. Certain(k) \in SUBSET Nat /\ IsFiniteSet(Certain(k))
  <2>1. Certain(k) \in SUBSET (DOMAIN products)
    BY DEF Certain, Candidates
  <2> QED BY <1>1, <2>1, SettingsType, FS_Subset
<1>4. Certain(k) # {} => /\ shown \subseteq Certain(k)
                         /\ shown = Certain(k) \/ Cardinality(shown) = Limit
  <2>1. CASE answer.selected # Null
    <3>1. Certain(k) = {answer.selected} /\ answer.offered = {}
      BY <1>1, <2>1, WhatMatchSays
    <3>2. shown = Certain(k)
      BY <2>1, <3>1
    <3> QED BY <3>2
  <2>2. CASE answer.selected = Null /\ Certain(k) # {}
    <3>1. answer.offered = Best(k, Certain(k))
      BY <1>1, <2>2, WhatMatchSays
    <3>2. shown = Best(k, Certain(k))
      BY <2>2, <3>1
    <3>3. PICK s \in Nat : \A i \in Certain(k) : Score(k, i) = s
      BY CertainHits
    <3> QED BY <1>3, <3>2, <3>3, BestOfEqual
  <2> QED BY <2>1, <2>2
<1>5. CASE Own(k) # {}
  <2>1. Certain(k) = Own(k)
    BY <1>5, CertainHits
  <2> QED BY <1>4, <1>5, <2>1
<1>6. CASE Own(k) = {}
  <2>1. known \subseteq Certain(k)
    <3>1. CASE k \in DOMAIN groups
      <4>1. Linked(k, ByConfiguration) \subseteq Equivalents(k)
        BY <3>1, GroupsHold DEF GroupsAreSynonyms, Equivalents
      <4>2. known \subseteq Synonyms(k)
        BY <4>1 DEF Synonyms
      <4> QED BY <1>6, <4>2, CertainHits
    <3>2. CASE k \notin DOMAIN groups
      <4>1. Linked(k, ByConfiguration) = {k}
        BY <1>1, <1>2, <3>2, ConfiguredTarget, AloneIsAlone
      <4>2. known = {}
        BY <1>6, <4>1 DEF Own
      <4> QED BY <4>2
    <3> QED BY <3>1, <3>2
  <2>2. known = {} \/ Certain(k) # {}
    BY <2>1
  <2> HIDE DEF known, shown
  <2>3. known \subseteq shown \/ Cardinality(shown) = Limit
    BY <1>4, <2>1, <2>2
  <2> QED BY <1>6, <2>3 DEF known, shown
<1> QED BY <1>5, <1>6

\* Whoever asks by a name of a product, or a configured synonym of one, gets it
\* or as many such products as an answer holds (match_line and resolve).
THEOREM CertainIsKept == Spec => []NothingCertainLost
BY MatchingInvariant, NoHitLost, PTL
-----------------------------------------------------------------------------
(* Orders.                                                                 *)

\* If no alias is declared twice, what goes by a name is what is certain of it.
LEMMA KnownIsCertain ==
  ASSUME MatchingInv, Grouped, NoClash, NEW k \in Keys
  PROVE  Known(k) = Certain(k)
<1> DEFINE linked == {i \in DOMAIN products :
                        Linked(k, Declared) \cap Identifiers(i) # {}}
<1>1. Known(k) = IF Own(k) # {} THEN Own(k) ELSE linked
  BY DEF Known, Own, Declared
<1>2. CASE Own(k) # {}
  BY <1>1, <1>2, CertainHits
<1>3. CASE Own(k) = {}
  <2>1. Certain(k) = Synonyms(k)
    BY <1>3, CertainHits
  <2>2. CASE k \in DOMAIN groups
    <3>1. Equivalents(k) = Linked(k, Declared)
      BY <2>2, GroupsHold DEF GroupsAreSynonyms, Equivalents, Declared
    <3> QED BY <1>1, <1>3, <2>1, <3>1 DEF Synonyms
  <2>3. CASE k \notin DOMAIN groups
    <3>1. Settings
      BY DEF MatchingInv, Settings
    <3>2. Linked(k, Declared) = {k}
      BY <2>3, <3>1, DeclaredTarget, AloneIsAlone
    <3>3. linked = {}
      BY <1>3, <3>2 DEF Own
    <3>4. Synonyms(k) = {}
      BY <2>3 DEF Synonyms, Equivalents
    <3> QED BY <1>1, <1>3, <2>1, <3>3, <3>4
  <2> QED BY <2>2, <2>3
<1> QED BY <1>2, <1>3

LEMMA NamedIsSelected ==
  ASSUME MatchingInv, Grouped, NoClash, NEW n, GoesByName(n)
  PROVE  LineMatch(n).selected \in Known(Key[n])
<1>1. n \in Names /\ Key[n] # NoKey /\ Cardinality(Known(Key[n])) = 1
  BY DEF GoesByName
<1>2. Key[n] \in Keys
  BY <1>1 DEF Keys
<1>3. Settings
  BY DEF MatchingInv, Settings
<1>4. Known(Key[n]) = Certain(Key[n])
  BY <1>2, KnownIsCertain
<1>5. MatchOf(n).selected \in Certain(Key[n])
  BY <1>1, <1>3, <1>4, WhatMatchSays
<1> QED BY <1>1, <1>4, <1>5 DEF LineMatch

-----------------------------------------------------------------------------
(* Reading: numerals.                                                      *)

Letters == {"yi", "er", "san", "si", "wu", "liu", "qi", "ba", "jiu"}

\* The classes of lexemes are disjoint.
LEMMA Classes ==
  /\ Range(Ones) = Letters
  /\ Digits = {"0", "1", "2", "3", "4", "5", "6", "7", "8", "9"}
  /\ Chinese = Letters \cup {"shi", "bai", "qian", "wan"}
  /\ Numerals = Digits \cup Chinese
  /\ Digits \cap Chinese = {}
  /\ Numerals \cap (Listed \cup {Space, NewLine, Request, And, Each, "zero"}) = {}
  /\ Listed \cap {Space, NewLine, Request, And, Each, "zero"} = {}
<1>1. Range(Ones) = Letters
  BY DEF Range, Ones, Letters
<1>2. Digits = {"0", "1", "2", "3", "4", "5", "6", "7", "8", "9"}
  BY DEF Range, Digits, DigitNames
<1>3. QED
  BY <1>1, <1>2 DEF Letters, Chinese, Numerals, Listed, Space, NewLine, Request, And, Each

\* What a numeral stands for.
LEMMA Named ==
  /\ \A i \in 1 .. 9 : Ones[i] \in Letters /\ OneOf(Ones[i]) = i
  /\ \A i \in 0 .. 9 : DigitNames[i + 1] \in Digits /\ DigitOf(DigitNames[i + 1]) = i
<1>1. \A i \in 1 .. 9 : Ones[i] \in Letters /\ i \in DOMAIN Ones
  BY DEF Ones, Letters
<1>2. \A i, j \in 1 .. 9 : Ones[i] = Ones[j] => i = j
  BY DEF Ones
<1>3. DOMAIN Ones = 1 .. 9
  BY DEF Ones
<1>4. \A i \in 1 .. 9 : OneOf(Ones[i]) = i
  BY <1>1, <1>2, <1>3 DEF OneOf
<1>5. \A i \in 0 .. 9 : DigitNames[i + 1] \in Digits
  BY DEF DigitNames, Digits, Range
<1>6. \A i, j \in 0 .. 9 : DigitNames[i + 1] = DigitNames[j + 1] => i = j
  BY DEF DigitNames
<1>7. \A i \in 0 .. 9 : DigitOf(DigitNames[i + 1]) = i
  BY <1>6 DEF DigitOf
<1>8. QED
  BY <1>1, <1>4, <1>5, <1>7

\* A count is the sum of its places.
LEMMA Decimals ==
  ASSUME NEW n \in Nat, n < 10000
  PROVE  /\ \A k \in 1 .. 4 : Place(n, k) \in 0 .. 9
         /\ n = 1000 * Place(n, 4) + 100 * Place(n, 3) + 10 * Place(n, 2) + Place(n, 1)
<1>1. /\ Place(n, 4) = (n \div 1000) % 10 /\ Place(n, 3) = (n \div 100) % 10
      /\ Place(n, 2) = (n \div 10) % 10 /\ Place(n, 1) = (n \div 1) % 10
  BY DEF Place, Tens
<1>2. /\ (n \div 1000) \in Int /\ n - 1000 * (n \div 1000) \in 0 .. 999
  OBVIOUS
<1>3. /\ (n \div 100) \in Int /\ n - 100 * (n \div 100) \in 0 .. 99
  OBVIOUS
<1>4. /\ (n \div 10) \in Int /\ n - 10 * (n \div 10) \in 0 .. 9
  OBVIOUS
<1>5. n \div 1 = n
  OBVIOUS
<1>6. ASSUME NEW m \in Nat
      PROVE  m % 10 \in 0 .. 9 /\ m % 10 = m - 10 * (m \div 10)
  <2>1. m % 10 \in 0 .. 9
    OBVIOUS
  <2>2. m % 10 = m - 10 * (m \div 10)
    OBVIOUS
  <2>3. QED
    BY <2>1, <2>2
<1>7. (n \div 100) \div 10 = n \div 1000 /\ (n \div 10) \div 10 = n \div 100
  BY <1>2, <1>3, <1>4
<1>8. /\ n \in Nat /\ n \div 10 \in Nat /\ n \div 100 \in Nat /\ n \div 1000 \in Nat
      /\ n \div 1000 \in 0 .. 9
  BY <1>2, <1>3, <1>4
<1>9. (n \div 1000) % 10 = n \div 1000
  BY <1>8
<1>10. /\ n % 10 = n - 10 * (n \div 10)
       /\ (n \div 10) % 10 = (n \div 10) - 10 * (n \div 100)
       /\ (n \div 100) % 10 = (n \div 100) - 10 * (n \div 1000)
  BY <1>6, <1>7, <1>8
<1>11. n % 10 \in 0 .. 9 /\ (n \div 10) % 10 \in 0 .. 9 /\ (n \div 100) % 10 \in 0 .. 9
  BY <1>6, <1>8
<1>12. \A k \in 1 .. 4 : k = 1 \/ k = 2 \/ k = 3 \/ k = 4
  OBVIOUS
<1>13. QED
  BY <1>1, <1>5, <1>8, <1>9, <1>10, <1>11, <1>12

\* The value of a digit number, place by place.
LEMMA DecimalUnrolled ==
  ASSUME NEW q \in Seq(Digits), Len(q) \in 1 .. 4
  PROVE  /\ Len(q) = 1 => DecimalValue(q) = DigitOf(q[1])
         /\ Len(q) = 2 => DecimalValue(q) = 10 * DigitOf(q[1]) + DigitOf(q[2])
         /\ Len(q) = 3 => DecimalValue(q) = 100 * DigitOf(q[1]) + 10 * DigitOf(q[2]) + DigitOf(q[3])
         /\ Len(q) = 4 => DecimalValue(q) = 1000 * DigitOf(q[1]) + 100 * DigitOf(q[2])
                                            + 10 * DigitOf(q[3]) + DigitOf(q[4])
<1>1. PICK l \in 1 .. 4 : Len(q) = l
  OBVIOUS
<1>2. \A i \in 1 .. l : DigitOf(q[i]) \in 0 .. 9
  <2>1. \A x \in Digits : \E i \in 0 .. 9 : x = DigitNames[i + 1]
    BY DEF Digits, Range, DigitNames
  <2>2. \A i \in 1 .. l : q[i] \in Digits
    BY <1>1, LenProperties
  <2>3. QED
    BY <2>1, <2>2, Named
<1>3. PICK d1 \in 0 .. 9 : d1 = DigitOf(q[1])
  BY <1>2
<1>4. PICK d2 \in 0 .. 9 : l > 1 => d2 = DigitOf(q[2])
  BY <1>2
<1>5. PICK d3 \in 0 .. 9 : l > 2 => d3 = DigitOf(q[3])
  BY <1>2
<1>6. PICK d4 \in 0 .. 9 : l > 3 => d4 = DigitOf(q[4])
  BY <1>2
<1>7. /\ l = 1 => DecimalValue(q) = d1
      /\ l = 2 => DecimalValue(q) = 10 * d1 + d2
      /\ l = 3 => DecimalValue(q) = 100 * d1 + 10 * d2 + d3
      /\ l = 4 => DecimalValue(q) = 1000 * d1 + 100 * d2 + 10 * d3 + d4
  <2> DEFINE value ==
               CHOOSE f : f = [i \in 0 .. Len(q) |->
                                 IF i = 0 THEN 0 ELSE 10 * f[i - 1] + DigitOf(q[i])]
             h(i) == IF i = 0 THEN 0
                     ELSE IF i = 1 THEN d1
                     ELSE IF i = 2 THEN 10 * d1 + d2
                     ELSE IF i = 3 THEN 100 * d1 + 10 * d2 + d3
                     ELSE 1000 * d1 + 100 * d2 + 10 * d3 + d4
             g == [i \in 0 .. Len(q) |-> h(i)]
  <2>1. \A i \in 0 .. Len(q) : h(i) = IF i = 0 THEN 0 ELSE 10 * h(i - 1) + DigitOf(q[i])
    <3>1. \A i \in 0 .. Len(q) : \/ i = 0 \/ i = 1 \/ (i = 2 /\ l > 1)
                                 \/ (i = 3 /\ l > 2) \/ (i = 4 /\ l > 3)
      BY <1>1
    <3>2. QED
      BY <1>1, <1>3, <1>4, <1>5, <1>6, <3>1
  <2>2. g = [i \in 0 .. Len(q) |-> IF i = 0 THEN 0 ELSE 10 * g[i - 1] + DigitOf(q[i])]
    BY <2>1
  <2>3. value = [i \in 0 .. Len(q) |-> IF i = 0 THEN 0 ELSE 10 * value[i - 1] + DigitOf(q[i])]
    BY <2>2
  <2> HIDE DEF value, g, h
  <2>4. \A i \in 0 .. l : value[i] = IF i = 0 THEN 0 ELSE 10 * value[i - 1] + DigitOf(q[i])
    BY <1>1, <2>3
  <2>5. DecimalValue(q) = value[l]
    BY <1>1 DEF DecimalValue, value
  <2>6. value[0] = 0 /\ value[1] = d1
    BY <1>1, <1>3, <2>4
  <2>7. l > 1 => value[2] = 10 * d1 + d2
    BY <1>4, <2>4, <2>6
  <2>8. l > 2 => value[3] = 100 * d1 + 10 * d2 + d3
    BY <1>5, <2>4, <2>7
  <2>9. l > 3 => value[4] = 1000 * d1 + 100 * d2 + 10 * d3 + d4
    BY <1>6, <2>4, <2>8
  <2>10. QED
    BY <2>5, <2>6, <2>7, <2>8, <2>9
<1>8. QED
  BY <1>1, <1>3, <1>4, <1>5, <1>6, <1>7

\* Every count said in digits is read back as itself (session.py:575).
LEMMA DigitsRead ==
  ASSUME NEW n \in Nat, n < 10000
  PROVE  /\ InDigits(n) \in Seq(Digits) /\ InDigits(n) # <<>>
         /\ Quantity(InDigits(n)) = n
<1> DEFINE ws == {1} \cup {k \in 1 .. 4 : Tens[k] <= n}
           w == Max(ws)
           q == InDigits(n)
<1>1. Tens[1] = 1 /\ Tens[2] = 10 /\ Tens[3] = 100 /\ Tens[4] = 1000
  BY DEF Tens
<1>2. /\ w \in 1 .. 4 /\ \A k \in 1 .. 4 : k > w => n < Tens[k]
  <2>1. \E m \in ws : \A k \in ws : m >= k
    <3>1. CASE 4 \in ws
      BY <3>1
    <3>2. CASE 4 \notin ws /\ 3 \in ws
      BY <3>2
    <3>3. CASE 4 \notin ws /\ 3 \notin ws /\ 2 \in ws
      BY <3>3
    <3>4. CASE 4 \notin ws /\ 3 \notin ws /\ 2 \notin ws
      BY <3>4
    <3>5. QED
      BY <3>1, <3>2, <3>3, <3>4
  <2>2. w \in ws /\ \A k \in ws : w >= k
    BY <2>1 DEF Max
  <2>3. \A k \in 1 .. 4 : Tens[k] \in Nat
    BY <1>1
  <2>4. QED
    BY <2>2, <2>3
<1>3. q = [i \in 1 .. w |-> DigitNames[Place(n, w + 1 - i) + 1]]
  BY DEF InDigits
<1> HIDE DEF w, q
<1>4. \A i \in 1 .. w : w + 1 - i \in 1 .. 4
  BY <1>2
<1>5. \A i \in 1 .. w : q[i] \in Digits /\ DigitOf(q[i]) = Place(n, w + 1 - i)
  <2>1. \A k \in 1 .. 4 : Place(n, k) \in 0 .. 9
    BY Decimals
  <2>2. \A i \in 1 .. w : Place(n, w + 1 - i) \in 0 .. 9
    BY <1>4, <2>1
  <2>3. QED
    BY <1>3, <2>2, Named
<1>6. q \in Seq(Digits) /\ Len(q) = w
  BY <1>2, <1>3, <1>5
<1>7. Quantity(q) = DecimalValue(q)
  BY <1>2, <1>5 DEF Quantity
<1>8. PICK a \in 0 .. 9 : a = Place(n, 1)
  BY Decimals
<1>9. PICK b \in 0 .. 9 : b = Place(n, 2)
  BY Decimals
<1>10. PICK c \in 0 .. 9 : c = Place(n, 3)
  BY Decimals
<1>11. PICK d \in 0 .. 9 : d = Place(n, 4)
  BY Decimals
<1>12. n = 1000 * d + 100 * c + 10 * b + a
  BY <1>8, <1>9, <1>10, <1>11, Decimals
<1>13. (w < 2 => b = 0) /\ (w < 3 => c = 0) /\ (w < 4 => d = 0)
  BY <1>1, <1>2, <1>12
<1>14. DecimalValue(q) = n
  <2>1. CASE w = 1
    <3>1. DigitOf(q[1]) = a
      BY <1>5, <1>8, <2>1
    <3>2. QED
      BY <1>6, <1>12, <1>13, <2>1, <3>1, DecimalUnrolled
  <2>2. CASE w = 2
    <3>1. DigitOf(q[1]) = b /\ DigitOf(q[2]) = a
      BY <1>5, <1>8, <1>9, <2>2
    <3>2. QED
      BY <1>6, <1>12, <1>13, <2>2, <3>1, DecimalUnrolled
  <2>3. CASE w = 3
    <3>1. DigitOf(q[1]) = c /\ DigitOf(q[2]) = b /\ DigitOf(q[3]) = a
      BY <1>5, <1>8, <1>9, <1>10, <2>3
    <3>2. QED
      BY <1>6, <1>12, <1>13, <2>3, <3>1, DecimalUnrolled
  <2>4. CASE w = 4
    <3>1. DigitOf(q[1]) = d /\ DigitOf(q[2]) = c /\ DigitOf(q[3]) = b /\ DigitOf(q[4]) = a
      BY <1>5, <1>8, <1>9, <1>10, <1>11, <2>4
    <3>2. QED
      BY <1>6, <1>12, <2>4, <3>1, DecimalUnrolled
  <2>5. QED
    BY <1>2, <2>1, <2>2, <2>3, <2>4
<1>15. QED
  BY <1>2, <1>6, <1>7, <1>14 DEF q

(* Texts: what they are, their size, and how they are put together and     *)
(* taken apart, as operators the provers leave as they are.                *)
Size(s) == Len(s)
IsText(s) == Len(s) \in Nat /\ s = [i \in 1 .. Len(s) |-> s[i]]
Joined(s, t) == s \o t
Slice(s, i, j) == SubSeq(s, i, j)

\* A sequence is a text.
LEMMA SeqIsText ==
  ASSUME NEW S, NEW s \in Seq(S)
  PROVE  IsText(s)
BY DEF IsText

\* The size of a text, and its lexemes.
LEMMA TextFacts ==
  ASSUME NEW s, IsText(s)
  PROVE  /\ Size(s) \in Nat /\ DOMAIN s = 1 .. Size(s)
         /\ s = <<>> <=> Size(s) = 0
         /\ Range(s) = {s[i] : i \in 1 .. Size(s)}
<1>1. Len(s) \in Nat /\ DOMAIN s = 1 .. Len(s)
  BY DEF IsText
<1>2. s = <<>> => Len(s) = 0
  OBVIOUS
<1>3. Len(s) = 0 => s = <<>>
  BY DEF IsText
<1>4. QED
  BY <1>1, <1>2, <1>3 DEF Range, Size

\* Texts of the same lexemes are the same.
LEMMA SameText ==
  ASSUME NEW s, NEW t, IsText(s), IsText(t), Size(s) = Size(t),
         \A i \in 1 .. Size(s) : s[i] = t[i]
  PROVE  s = t
BY DEF IsText, Size

\* Two texts put together, ConcatAt and ConcatParts: and their lexemes.
LEMMA Concat ==
  ASSUME NEW s, NEW t, IsText(s), IsText(t)
  PROVE  IsText(Joined(s, t)) /\ Size(Joined(s, t)) = Size(s) + Size(t)
<1>1. Len(s) \in Nat /\ Len(t) \in Nat
  BY DEF IsText
<1>2. Len(Joined(s, t)) = Len(s) + Len(t)
  BY <1>1 DEF Joined
<1> DEFINE S == {s[i] : i \in 1 .. Len(s)} \cup {t[i] : i \in 1 .. Len(t)}
<1>3. s \in Seq(S) /\ t \in Seq(S)
  BY DEF IsText
<1>4. IsText(Joined(s, t))
  <2> HIDE DEF S
  <2>1. s \o t \in Seq(S)
    BY <1>3
  <2>2. QED
    BY <2>1, SeqIsText DEF Joined
<1>5. QED
  BY <1>1, <1>2, <1>4 DEF Size

LEMMA ConcatAt ==
  ASSUME NEW s, NEW t, NEW i \in Int, IsText(s), IsText(t), 1 <= i, i <= Size(s) + Size(t)
  PROVE  Joined(s, t)[i] = IF i <= Size(s) THEN s[i] ELSE t[i - Size(s)]
BY DEF Joined, IsText, Size

\* The empty text.
LEMMA EmptyText ==
  /\ IsText(<<>>) /\ Size(<<>>) = 0
  /\ \A s : IsText(s) => Joined(s, <<>>) = s /\ Joined(<<>>, s) = s
<1>1. IsText(<<>>) /\ Size(<<>>) = 0
  BY DEF IsText, Size
<1>2. ASSUME NEW s, IsText(s)
      PROVE  Joined(s, <<>>) = s /\ Joined(<<>>, s) = s
  BY <1>2 DEF IsText, Joined
<1>3. QED
  BY <1>1, <1>2

\* Texts of one lexeme, and of two.
LEMMA TinyTexts ==
  /\ \A x : IsText(<<x>>) /\ Size(<<x>>) = 1 /\ <<x>>[1] = x
  /\ \A x, y : /\ IsText(<<x, y>>) /\ Size(<<x, y>>) = 2
               /\ <<x, y>>[1] = x /\ <<x, y>>[2] = y
               /\ Joined(<<x>>, <<y>>) = <<x, y>>
<1>1. \A x : IsText(<<x>>) /\ Size(<<x>>) = 1 /\ <<x>>[1] = x
  BY DEF IsText, Size
<1>2. \A x, y : IsText(<<x, y>>) /\ Size(<<x, y>>) = 2 /\ <<x, y>>[1] = x /\ <<x, y>>[2] = y
  BY DEF IsText, Size
<1>3. ASSUME NEW x, NEW y
      PROVE  Joined(<<x>>, <<y>>) = <<x, y>>
  <2> DEFINE s == <<x>>  t == <<y>>  u == <<x, y>>
  <2>1. /\ IsText(s) /\ IsText(t) /\ Size(s) = 1 /\ Size(t) = 1 /\ s[1] = x /\ t[1] = y
        /\ IsText(u) /\ Size(u) = 2 /\ u[1] = x /\ u[2] = y
    BY <1>1, <1>2
  <2> HIDE DEF s, t, u
  <2>2. IsText(Joined(s, t)) /\ Size(Joined(s, t)) = 2
    BY <2>1, Concat
  <2>3. Joined(s, t)[1] = x /\ Joined(s, t)[2] = y
    BY <2>1, ConcatAt
  <2>4. \A i \in 1 .. Size(u) : u[i] = Joined(s, t)[i]
    BY <2>1, <2>3
  <2>5. u = Joined(s, t)
    BY <2>1, <2>2, <2>4, SameText
  <2>6. QED
    BY <2>5 DEF s, t, u
<1>4. QED
  BY <1>1, <1>2, <1>3

\* A part of a text, and SliceAt: its lexemes.
LEMMA SliceFacts ==
  ASSUME NEW s, NEW i \in Int, NEW j \in Int, IsText(s), 1 <= i, i - 1 <= j, j <= Size(s)
  PROVE  IsText(Slice(s, i, j)) /\ Size(Slice(s, i, j)) = j - i + 1
<1>1. Slice(s, i, j) = [k \in 1 .. j - i + 1 |-> s[i + k - 1]]
  BY DEF Slice, IsText, Size
<1>2. j - i + 1 \in Nat
  BY DEF IsText, Size
<1>3. QED
  BY <1>1, <1>2 DEF IsText, Size

LEMMA SliceAt ==
  ASSUME NEW s, NEW i \in Int, NEW j \in Int, NEW k \in Int,
         IsText(s), 1 <= i, i - 1 <= j, j <= Size(s), 1 <= k, k <= j - i + 1
  PROVE  Slice(s, i, j)[k] = s[i + k - 1]
BY DEF Slice, IsText, Size

LEMMA ConcatParts ==
  ASSUME NEW s, NEW t, NEW m \in Int, NEW n \in Int,
         IsText(s), IsText(t), Size(s) = m, Size(t) = n
  PROVE  /\ \A i \in 1 .. m : Joined(s, t)[i] = s[i]
         /\ \A i \in 1 .. n : Joined(s, t)[m + i] = t[i]
<1>1. m \in Nat /\ n \in Nat
  BY TextFacts
<1>2. \A i \in 1 .. m : Joined(s, t)[i] = s[i]
  <2>1. TAKE i \in 1 .. m
  <2>2. i \in Int /\ 1 <= i /\ i <= m + n
    BY <1>1
  <2>3. QED
    BY <2>2, ConcatAt
<1>3. \A i \in 1 .. n : Joined(s, t)[m + i] = t[i]
  <2>1. TAKE i \in 1 .. n
  <2>2. m + i \in Int /\ 1 <= m + i /\ m + i <= m + n /\ ~(m + i <= m) /\ m + i - m = i
    BY <1>1
  <2>3. Joined(s, t)[m + i] = IF m + i <= m THEN s[m + i] ELSE t[m + i - m]
    BY <2>2, ConcatAt
  <2>4. QED
    BY <2>2, <2>3
<1>4. QED
  BY <1>2, <1>3

\* A number in words that skips no place, word by word.
Spelling(q, n, a, b, c, d, iq, ib, is, l) ==
  /\ a \in 0 .. 9 /\ b \in 0 .. 9 /\ c \in 0 .. 9 /\ d \in 0 .. 9
  /\ iq \in 0 .. 2 /\ ib \in 0 .. 4 /\ is \in 0 .. 6 /\ l \in 0 .. 7
  /\ n = 1000 * d + 100 * c + 10 * b + a
  /\ iq = IF d = 0 THEN 0 ELSE 2
  /\ ib = IF c = 0 THEN iq ELSE iq + 2
  /\ is = IF b = 0 THEN ib ELSE IF b = 1 THEN ib + 1 ELSE ib + 2
  /\ l = IF a = 0 THEN is ELSE is + 1
  /\ IsText(q) /\ Size(q) = l
  /\ d # 0 => q[1] = Ones[d] /\ q[2] = "qian"
  /\ c # 0 => q[iq + 1] = Ones[c] /\ q[iq + 2] = "bai"
  /\ b # 0 => q[is] = "shi"
  /\ b > 1 => q[is - 1] = Ones[b]
  /\ a # 0 => q[l] = Ones[a]

\* The words of a number that skips no place.
LEMMA WordsSpelled ==
  ASSUME NEW n \in Nat, n < 10000, "zero" \notin Range(InWords(n))
  PROVE  \E a, b, c, d, iq, ib, is, l : Spelling(InWords(n), n, a, b, c, d, iq, ib, is, l)
<1>1. PICK a \in 0 .. 9 : a = Place(n, 1)
  BY Decimals
<1>2. PICK b \in 0 .. 9 : b = Place(n, 2)
  BY Decimals
<1>3. PICK c \in 0 .. 9 : c = Place(n, 3)
  BY Decimals
<1>4. PICK d \in 0 .. 9 : d = Place(n, 4)
  BY Decimals
<1>19. n = 1000 * d + 100 * c + 10 * b + a
  BY <1>1, <1>2, <1>3, <1>4, Decimals
<1>20. PICK iq \in 0 .. 2 : iq = IF d = 0 THEN 0 ELSE 2
  OBVIOUS
<1>21. PICK ib \in 0 .. 4 : ib = IF c = 0 THEN iq ELSE iq + 2
  OBVIOUS
<1>22. PICK is \in 0 .. 6 : is = IF b = 0 THEN ib ELSE IF b = 1 THEN ib + 1 ELSE ib + 2
  OBVIOUS
<1>23. PICK l \in 0 .. 7 : l = IF a = 0 THEN is ELSE is + 1
  OBVIOUS
<1> DEFINE Zero(k) == IF k > 1 /\ 0 < n % Tens[k] /\ n % Tens[k] < Tens[k - 1]
                      THEN <<"zero">> ELSE <<>>
           v4 == Word(n, 4)  v3 == Word(n, 3)  v2 == Word(n, 2)  v1 == Word(n, 1)
<1> DEFINE w4 == IF d = 0 THEN <<>> ELSE <<Ones[d], "qian">>
           w3 == IF c = 0 THEN <<>> ELSE <<Ones[c], "bai">>
           w2 == IF b = 0 THEN <<>> ELSE IF b = 1 THEN <<"shi">> ELSE <<Ones[b], "shi">>
           w1 == IF a = 0 THEN <<>> ELSE <<Ones[a]>>
<1>5. /\ IsText(w4) /\ Size(w4) = iq
      /\ IsText(w3) /\ Size(w3) = ib - iq
      /\ IsText(w2) /\ Size(w2) = is - ib
      /\ IsText(w1) /\ Size(w1) = l - is
  <2>1. IsText(w4) /\ Size(w4) = iq
    BY <1>20, <1>21, <1>22, <1>23, TinyTexts, EmptyText
  <2>2. IsText(w3) /\ Size(w3) = ib - iq
    BY <1>20, <1>21, <1>22, <1>23, TinyTexts, EmptyText
  <2>3. IsText(w2) /\ Size(w2) = is - ib
    BY <1>20, <1>21, <1>22, <1>23, TinyTexts, EmptyText
  <2>4. IsText(w1) /\ Size(w1) = l - is
    BY <1>20, <1>21, <1>22, <1>23, TinyTexts, EmptyText
  <2>5. QED
    BY <2>1, <2>2, <2>3, <2>4
<1>6. /\ v4 = IF d = 0 THEN w4 ELSE Joined(w4, Zero(4))
      /\ v3 = IF c = 0 THEN w3 ELSE Joined(w3, Zero(3))
      /\ v2 = IF b = 0 THEN w2 ELSE Joined(w2, Zero(2))
      /\ v1 = w1
  <2>1. TensNames[4] = "qian" /\ TensNames[3] = "bai" /\ TensNames[2] = "shi"
    BY DEF TensNames
  <2>2. v4 = IF d = 0 THEN w4 ELSE Joined(w4, Zero(4))
    <3>1. d = 0 => v4 = <<>>
      BY <1>1, <1>2, <1>3, <1>4 DEF Word
    <3>2. d # 0 => v4 = Joined(Joined(<<Ones[d]>>, <<"qian">>), Zero(4))
      BY <1>1, <1>2, <1>3, <1>4, <2>1 DEF Word, Joined
    <3>3. Joined(<<Ones[d]>>, <<"qian">>) = <<Ones[d], "qian">>
      BY <1>20, <1>21, <1>22, <1>23, TinyTexts, EmptyText
    <3>4. QED
      BY <3>1, <3>2, <3>3
  <2>3. v3 = IF c = 0 THEN w3 ELSE Joined(w3, Zero(3))
    <3>1. c = 0 => v3 = <<>>
      BY <1>1, <1>2, <1>3, <1>4 DEF Word
    <3>2. c # 0 => v3 = Joined(Joined(<<Ones[c]>>, <<"bai">>), Zero(3))
      BY <1>1, <1>2, <1>3, <1>4, <2>1 DEF Word, Joined
    <3>3. Joined(<<Ones[c]>>, <<"bai">>) = <<Ones[c], "bai">>
      BY TinyTexts
    <3>4. QED
      BY <3>1, <3>2, <3>3
  <2>4. v2 = IF b = 0 THEN w2 ELSE Joined(w2, Zero(2))
    <3>1. b = 0 => v2 = <<>>
      BY <1>1, <1>2, <1>3, <1>4 DEF Word
    <3>2. b = 1 => v2 = Joined(Joined(<<>>, <<"shi">>), Zero(2))
      BY <1>1, <1>2, <1>3, <1>4, <2>1 DEF Word, Joined
    <3>3. b > 1 => v2 = Joined(Joined(<<Ones[b]>>, <<"shi">>), Zero(2))
      BY <1>1, <1>2, <1>3, <1>4, <2>1 DEF Word, Joined
    <3>4. b = 0 \/ b = 1 \/ b > 1
      OBVIOUS
    <3>5. Joined(<<Ones[b]>>, <<"shi">>) = <<Ones[b], "shi">> /\ Joined(<<>>, <<"shi">>) = <<"shi">>
      BY <1>20, <1>21, <1>22, <1>23, TinyTexts, EmptyText
    <3>6. QED
      BY <3>1, <3>2, <3>3, <3>4, <3>5
  <2>5. v1 = w1
    <3>1. a = 0 => v1 = <<>>
      BY <1>1, <1>2, <1>3, <1>4 DEF Word
    <3>2. a # 0 => v1 = Joined(Joined(<<Ones[a]>>, <<>>), <<>>)
      BY <1>1, <1>2, <1>3, <1>4 DEF Word, Joined
    <3>3. Joined(<<Ones[a]>>, <<>>) = <<Ones[a]>>
      BY <1>20, <1>21, <1>22, <1>23, TinyTexts, EmptyText
    <3>4. QED
      BY <3>1, <3>2, <3>3
  <2>6. QED
    BY <2>2, <2>3, <2>4, <2>5
<1>7. \A k \in 1 .. 4 : Zero(k) = <<>> \/ Zero(k) = <<"zero">>
  OBVIOUS
<1> HIDE DEF Zero, w4, w3, w2, w1
<1>8. ASSUME NEW w, NEW z, IsText(w), z = <<>> \/ z = <<"zero">>
      PROVE  /\ IsText(Joined(w, z))
             /\ (\A i \in 1 .. Size(Joined(w, z)) : Joined(w, z)[i] # "zero") => Joined(w, z) = w
  <2>1. CASE z = <<>>
    BY <1>8, <2>1, EmptyText
  <2>2. CASE z = <<"zero">>
    <3>1. IsText(z) /\ Size(z) = 1 /\ z[1] = "zero"
      BY <2>2, TinyTexts
    <3>2. Size(w) \in Nat
      BY <1>8, TextFacts
    <3>3. IsText(Joined(w, z)) /\ Size(Joined(w, z)) = Size(w) + 1
      BY <1>8, <3>1, Concat
    <3>4. Joined(w, z)[Size(w) + 1] = "zero"
      BY <1>8, <3>1, <3>2, ConcatParts
    <3>5. Size(w) + 1 \in 1 .. Size(w) + 1
      BY <3>2
    <3>6. QED
      BY <3>3, <3>4, <3>5
  <2>3. QED
    BY <1>8, <2>1, <2>2
<1>9. IsText(v4) /\ IsText(v3) /\ IsText(v2) /\ IsText(v1)
  BY <1>5, <1>6, <1>7, <1>8
<1>10. InWords(n) = Joined(Joined(Joined(v4, v3), v2), v1)
  BY DEF InWords, Joined
<1> HIDE DEF v4, v3, v2, v1
<1>11. /\ \A i \in 1 .. Size(v4) : v4[i] # "zero"
       /\ \A i \in 1 .. Size(v3) : v3[i] # "zero"
       /\ \A i \in 1 .. Size(v2) : v2[i] # "zero"
  <2>1. /\ IsText(Joined(v4, v3)) /\ IsText(Joined(Joined(v4, v3), v2))
        /\ IsText(InWords(n))
    BY <1>9, <1>10, Concat
  <2>2. \A i \in 1 .. Size(InWords(n)) : InWords(n)[i] # "zero"
    BY <2>1, TextFacts
  <2>3. ASSUME NEW s, NEW t, IsText(s), IsText(t),
               \A i \in 1 .. Size(Joined(s, t)) : Joined(s, t)[i] # "zero"
        PROVE  /\ \A i \in 1 .. Size(s) : s[i] # "zero"
               /\ \A i \in 1 .. Size(t) : t[i] # "zero"
    <3>1. Size(s) \in Nat /\ Size(t) \in Nat /\ Size(Joined(s, t)) = Size(s) + Size(t)
      BY <2>3, Concat, TextFacts
    <3>2. /\ \A i \in 1 .. Size(s) : i \in 1 .. Size(Joined(s, t))
          /\ \A i \in 1 .. Size(t) : Size(s) + i \in 1 .. Size(Joined(s, t))
      BY <3>1
    <3>3. /\ \A i \in 1 .. Size(s) : Joined(s, t)[i] = s[i]
          /\ \A i \in 1 .. Size(t) : Joined(s, t)[Size(s) + i] = t[i]
      BY <2>3, <3>1, ConcatParts
    <3>4. QED
      BY <2>3, <3>2, <3>3
  <2>4. QED
    BY <1>9, <1>10, <2>1, <2>2, <2>3
<1>12. v4 = w4 /\ v3 = w3 /\ v2 = w2 /\ v1 = w1
  BY <1>5, <1>6, <1>7, <1>8, <1>11
<1>13. /\ IsText(InWords(n)) /\ Size(InWords(n)) = l
       /\ \A i \in 1 .. iq : InWords(n)[i] = w4[i]
       /\ \A i \in 1 .. ib - iq : InWords(n)[iq + i] = w3[i]
       /\ \A i \in 1 .. is - ib : InWords(n)[ib + i] = w2[i]
       /\ \A i \in 1 .. l - is : InWords(n)[is + i] = w1[i]
  <2>1. /\ IsText(Joined(w4, w3)) /\ Size(Joined(w4, w3)) = ib
        /\ \A i \in 1 .. iq : Joined(w4, w3)[i] = w4[i]
        /\ \A i \in 1 .. ib - iq : Joined(w4, w3)[iq + i] = w3[i]
    <3>1. IsText(Joined(w4, w3)) /\ Size(Joined(w4, w3)) = ib
      BY <1>5, Concat
    <3>2. QED
      BY <1>5, <3>1, ConcatParts
  <2>2. /\ IsText(Joined(Joined(w4, w3), w2)) /\ Size(Joined(Joined(w4, w3), w2)) = is
        /\ \A i \in 1 .. ib : Joined(Joined(w4, w3), w2)[i] = Joined(w4, w3)[i]
        /\ \A i \in 1 .. is - ib : Joined(Joined(w4, w3), w2)[ib + i] = w2[i]
    <3>1. IsText(Joined(Joined(w4, w3), w2)) /\ Size(Joined(Joined(w4, w3), w2)) = is
      BY <1>5, <2>1, Concat
    <3>2. QED
      BY <1>5, <2>1, <3>1, ConcatParts
  <2> DEFINE y == Joined(Joined(w4, w3), w2)
  <2>3. /\ IsText(Joined(y, w1)) /\ Size(Joined(y, w1)) = l
        /\ \A i \in 1 .. is : Joined(y, w1)[i] = y[i]
        /\ \A i \in 1 .. l - is : Joined(y, w1)[is + i] = w1[i]
    <3>1. IsText(y) /\ Size(y) = is
      BY <2>2
    <3> HIDE DEF y
    <3>2. IsText(Joined(y, w1)) /\ Size(Joined(y, w1)) = l
      BY <1>5, <3>1, Concat
    <3>3. QED
      BY <1>5, <3>1, <3>2, ConcatParts
  <2>4. InWords(n) = Joined(y, w1)
    BY <1>10, <1>12
  <2>5. \A i \in 1 .. iq : i \in 1 .. ib /\ i \in 1 .. is
    BY <1>21, <1>22
  <2>6. \A i \in 1 .. ib - iq : iq + i \in 1 .. ib /\ iq + i \in 1 .. is
    BY <1>21, <1>22
  <2>7. \A i \in 1 .. is - ib : ib + i \in 1 .. is
    OBVIOUS
  <2>8. QED
    BY <2>1, <2>2, <2>3, <2>4, <2>5, <2>6, <2>7
<1>14. /\ d # 0 => w4[1] = Ones[d] /\ w4[2] = "qian"
       /\ c # 0 => w3[1] = Ones[c] /\ w3[2] = "bai"
       /\ b = 1 => w2[1] = "shi"
       /\ b > 1 => w2[1] = Ones[b] /\ w2[2] = "shi"
       /\ a # 0 => w1[1] = Ones[a]
  BY DEF w4, w3, w2, w1
<1>15. /\ d # 0 => InWords(n)[1] = Ones[d] /\ InWords(n)[2] = "qian"
       /\ c # 0 => InWords(n)[iq + 1] = Ones[c] /\ InWords(n)[iq + 2] = "bai"
  BY <1>13, <1>14, <1>20, <1>21, <1>22, <1>23
<1>16. /\ b = 1 => InWords(n)[ib + 1] = "shi"
       /\ b > 1 => InWords(n)[ib + 1] = Ones[b] /\ InWords(n)[ib + 2] = "shi"
       /\ a # 0 => InWords(n)[is + 1] = Ones[a]
  <2>1. b = 1 => 1 \in 1 .. is - ib
    BY <1>22
  <2>2. b > 1 => 1 \in 1 .. is - ib /\ 2 \in 1 .. is - ib
    BY <1>22
  <2>3. a # 0 => 1 \in 1 .. l - is
    BY <1>23
  <2>4. QED
    BY <1>13, <1>14, <2>1, <2>2, <2>3
<1>17. /\ b # 0 => InWords(n)[is] = "shi"
       /\ b > 1 => InWords(n)[is - 1] = Ones[b]
       /\ a # 0 => InWords(n)[l] = Ones[a]
  BY <1>16, <1>22, <1>23
<1>18. Spelling(InWords(n), n, a, b, c, d, iq, ib, is, l)
  BY <1>13, <1>15, <1>17, <1>19, <1>20, <1>21, <1>22, <1>23 DEF Spelling
<1>24. QED
  BY <1>18

\* What a scale counts for, where there is one of it.
LEMMA TimesIs ==
  ASSUME NEW q, NEW x, NEW m, x \in Range(q), m \in DOMAIN q, q[m] = x,
         \A i \in DOMAIN q : q[i] = x => i = m
  PROVE  Times(q, x) = IF m > 1 /\ q[m - 1] \in Range(Ones) THEN OneOf(q[m - 1]) ELSE 1
<1> DEFINE i == CHOOSE i \in DOMAIN q : q[i] = x
<1>1. i = m
  OBVIOUS
<1>2. Times(q, x) = IF x \notin Range(q) THEN 0
                    ELSE IF i > 1 /\ q[i - 1] \in Range(Ones) THEN OneOf(q[i - 1]) ELSE 1
  BY DEF Times
<1> HIDE DEF i
<1>3. QED
  BY <1>1, <1>2

\* Every count said in words that skip no place is read back as itself
\* (session.py:578).
LEMMA WordsRead ==
  ASSUME NEW n \in Nat, 0 < n, n < 10000, "zero" \notin Range(InWords(n))
  PROVE  /\ IsText(InWords(n)) /\ InWords(n) # <<>> /\ Range(InWords(n)) \subseteq Chinese
         /\ Quantity(InWords(n)) = n
<1> DEFINE q == InWords(n)
<1>1. PICK a, b, c, d, iq, ib, is, l : Spelling(q, n, a, b, c, d, iq, ib, is, l)
  BY WordsSpelled
<1>2. /\ a \in 0 .. 9 /\ b \in 0 .. 9 /\ c \in 0 .. 9 /\ d \in 0 .. 9
      /\ iq \in 0 .. 2 /\ ib \in 0 .. 4 /\ is \in 0 .. 6 /\ l \in 0 .. 7
  BY <1>1 DEF Spelling
<1>5. n = 1000 * d + 100 * c + 10 * b + a
  BY <1>1 DEF Spelling
<1>6. iq = IF d = 0 THEN 0 ELSE 2
  BY <1>1 DEF Spelling
<1>7. ib = IF c = 0 THEN iq ELSE iq + 2
  BY <1>1 DEF Spelling
<1>8. is = IF b = 0 THEN ib ELSE IF b = 1 THEN ib + 1 ELSE ib + 2
  BY <1>1 DEF Spelling
<1>9. l = IF a = 0 THEN is ELSE is + 1
  BY <1>1 DEF Spelling
<1>10. IsText(q) /\ Size(q) = l
  BY <1>1 DEF Spelling
<1>11. /\ d # 0 => q[1] = Ones[d] /\ q[2] = "qian"
       /\ c # 0 => q[iq + 1] = Ones[c] /\ q[iq + 2] = "bai"
       /\ b # 0 => q[is] = "shi"
       /\ b > 1 => q[is - 1] = Ones[b]
       /\ a # 0 => q[l] = Ones[a]
  BY <1>1 DEF Spelling
<1> HIDE DEF q
<1>12. l > 0
  BY <1>2, <1>5, <1>6, <1>7, <1>8, <1>9
<1>13. \A i \in 1 .. l :
         \/ d # 0 /\ (i = 1 \/ i = 2)
         \/ c # 0 /\ (i = iq + 1 \/ i = iq + 2)
         \/ b # 0 /\ i = is
         \/ b > 1 /\ i = is - 1
         \/ a # 0 /\ i = l
  BY <1>2, <1>6, <1>7, <1>8, <1>9
<1>14. \A i \in 1 .. 9 : Ones[i] \in Letters /\ OneOf(Ones[i]) = i
  BY Named
<1>15. "shi" \notin Letters /\ "bai" \notin Letters /\ "qian" \notin Letters
  BY DEF Letters
<1>16. /\ a # 0 => Ones[a] \in Letters /\ OneOf(Ones[a]) = a
       /\ b # 0 => Ones[b] \in Letters /\ OneOf(Ones[b]) = b
       /\ c # 0 => Ones[c] \in Letters /\ OneOf(Ones[c]) = c
       /\ d # 0 => Ones[d] \in Letters /\ OneOf(Ones[d]) = d
  BY <1>2, <1>14
<1>17. \A i \in 1 .. l :
         /\ q[i] \in Letters \/ q[i] = "shi" \/ q[i] = "bai" \/ q[i] = "qian"
         /\ q[i] = "qian" => d # 0 /\ i = 2
         /\ q[i] = "bai" => c # 0 /\ i = iq + 2
         /\ q[i] = "shi" => b # 0 /\ i = is
  <2>1. TAKE i \in 1 .. l
  <2>2. \/ d # 0 /\ i = 1 /\ q[i] \in Letters
        \/ d # 0 /\ i = 2 /\ q[i] = "qian"
        \/ c # 0 /\ i = iq + 1 /\ q[i] \in Letters
        \/ c # 0 /\ i = iq + 2 /\ q[i] = "bai"
        \/ b # 0 /\ i = is /\ q[i] = "shi"
        \/ b > 1 /\ i = is - 1 /\ q[i] \in Letters
        \/ a # 0 /\ i = l /\ q[i] \in Letters
    BY <1>2, <1>11, <1>13, <1>16
  <2>3. QED
    BY <1>15, <2>2
<1>18. /\ Range(Ones) = Letters /\ Chinese = Letters \cup {"shi", "bai", "qian", "wan"}
       /\ \A x \in Chinese : x \notin Digits
  BY Classes
<1>19. DOMAIN q = 1 .. l /\ q # <<>> /\ Range(q) = {q[i] : i \in 1 .. l}
  BY <1>2, <1>10, <1>12, TextFacts
<1>20. Range(q) \subseteq Letters \cup Scales /\ Range(q) \subseteq Chinese
  BY <1>2, <1>17, <1>18, <1>19 DEF Scales
<1>21. Times(q, "qian") = d
  <2>1. CASE d = 0
    BY <1>2, <1>17, <1>19, <2>1 DEF Times
  <2>2. CASE d # 0
    <3>1. 2 \in 1 .. l
      BY <1>2, <1>6, <1>7, <1>8, <1>9, <2>2
    <3>2. 2 \in DOMAIN q /\ q[2] = "qian" /\ "qian" \in Range(q)
      BY <1>2, <1>11, <1>19, <2>2, <3>1
    <3>3. \A i \in DOMAIN q : q[i] = "qian" => i = 2
      BY <1>17, <1>19
    <3>4. Times(q, "qian") = IF 2 > 1 /\ q[2 - 1] \in Range(Ones) THEN OneOf(q[2 - 1]) ELSE 1
      BY <3>2, <3>3, TimesIs
    <3>5. QED
      BY <1>11, <1>16, <1>18, <2>2, <3>4
  <2>3. QED
    BY <2>1, <2>2
<1>22. Times(q, "bai") = c
  <2>1. CASE c = 0
    BY <1>2, <1>17, <1>19, <2>1 DEF Times
  <2>2. CASE c # 0
    <3>1. iq + 2 \in 1 .. l /\ iq + 2 > 1 /\ (iq + 2) - 1 = iq + 1
      BY <1>2, <1>6, <1>7, <1>8, <1>9, <2>2
    <3>2. iq + 2 \in DOMAIN q /\ q[iq + 2] = "bai" /\ "bai" \in Range(q)
      BY <1>2, <1>11, <1>19, <2>2, <3>1
    <3>3. \A i \in DOMAIN q : q[i] = "bai" => i = iq + 2
      BY <1>17, <1>19
    <3>4. Times(q, "bai") = IF iq + 2 > 1 /\ q[(iq + 2) - 1] \in Range(Ones)
                            THEN OneOf(q[(iq + 2) - 1]) ELSE 1
      BY <3>2, <3>3, TimesIs
    <3>5. QED
      BY <1>2, <1>11, <1>16, <1>18, <2>2, <3>1, <3>4
  <2>3. QED
    BY <2>1, <2>2
<1>23. Times(q, "shi") = b
  <2>1. CASE b = 0
    BY <1>2, <1>17, <1>19, <2>1 DEF Times
  <2>2. CASE b # 0
    <3>1. is \in 1 .. l
      BY <1>2, <1>6, <1>7, <1>8, <1>9, <2>2
    <3>2. is \in DOMAIN q /\ q[is] = "shi" /\ "shi" \in Range(q)
      BY <1>2, <1>11, <1>19, <2>2, <3>1
    <3>3. \A i \in DOMAIN q : q[i] = "shi" => i = is
      BY <1>17, <1>19
    <3>4. Times(q, "shi") = IF is > 1 /\ q[is - 1] \in Letters THEN OneOf(q[is - 1]) ELSE 1
      BY <1>18, <3>2, <3>3, TimesIs
    <3>5. CASE b > 1
      <4>1. is > 1
        BY <1>2, <1>7, <1>8, <3>5
      <4>2. QED
        BY <1>2, <1>11, <1>16, <2>2, <3>4, <3>5, <4>1
    <3>6. CASE b = 1
      <4>1. CASE is > 1
        <5>1. (is - 1 = iq + 2 /\ c # 0) \/ (is - 1 = 2 /\ d # 0)
          BY <1>2, <1>6, <1>7, <1>8, <3>6, <4>1
        <5>2. q[is - 1] \notin Letters
          BY <1>2, <1>11, <1>15, <5>1
        <5>3. QED
          BY <3>4, <3>6, <5>2
      <4>2. CASE ~(is > 1)
        BY <1>2, <3>4, <3>6, <4>2
      <4>3. QED
        BY <4>1, <4>2
    <3>7. QED
      BY <1>2, <2>2, <3>5, <3>6
  <2>3. QED
    BY <2>1, <2>2
<1>24. (IF Last(q) \in Range(Ones) THEN OneOf(Last(q)) ELSE 0) = a
  <2>1. Last(q) = q[l]
    BY <1>10 DEF Last, Size
  <2>2. CASE a = 0
    <3>1. q[l] \notin Letters
      <4>1. (l = is /\ b # 0) \/ (l = iq + 2 /\ c # 0) \/ (l = 2 /\ d # 0)
        BY <1>2, <1>6, <1>7, <1>8, <1>9, <1>12, <2>2
      <4>2. QED
        BY <1>2, <1>11, <1>15, <4>1
    <3>2. QED
      BY <1>18, <2>1, <2>2, <3>1
  <2>3. CASE a # 0
    BY <1>2, <1>11, <1>16, <1>18, <2>1, <2>3
  <2>4. QED
    BY <2>2, <2>3
<1>25. Regular(q)
  <2>1. Scale("qian") = 1000 /\ Scale("bai") = 100 /\ Scale("shi") = 10
    BY DEF Scale
  <2>2. ASSUME NEW i \in 1 .. l, NEW j \in 1 .. l, i < j, q[i] \in Scales, q[j] \in Scales
        PROVE  Scale(q[i]) > Scale(q[j])
    <3>1. \/ q[i] = "qian" /\ i = 2
          \/ q[i] = "bai" /\ i = iq + 2 /\ c # 0
          \/ q[i] = "shi" /\ i = is
      BY <1>2, <1>17, <2>2 DEF Scales
    <3>2. \/ q[j] = "qian" /\ j = 2
          \/ q[j] = "bai" /\ j = iq + 2 /\ c # 0
          \/ q[j] = "shi" /\ j = is
      BY <1>2, <1>17, <2>2 DEF Scales
    <3>3. c # 0 => is >= iq + 2
      BY <1>2, <1>7, <1>8
    <3>4. \/ q[i] = "qian" /\ q[j] = "bai"
          \/ q[i] = "qian" /\ q[j] = "shi"
          \/ q[i] = "bai" /\ q[j] = "shi"
      BY <1>2, <1>6, <1>7, <1>8, <1>17, <2>2, <3>1, <3>2, <3>3
    <3>5. QED
      BY <2>1, <3>4
  <2>3. ASSUME NEW i \in 1 .. l, q[i] \in {"bai", "qian"}
        PROVE  i > 1 /\ q[i - 1] \in Letters
    <3>1. (i = 2 /\ d # 0) \/ (i = iq + 2 /\ c # 0)
      BY <1>2, <1>17, <2>3
    <3>2. (i > 1 /\ i - 1 = 1 /\ d # 0) \/ (i > 1 /\ i - 1 = iq + 1 /\ c # 0)
      BY <1>2, <3>1
    <3>3. QED
      BY <1>2, <1>11, <1>16, <3>2
  <2>4. ASSUME NEW i \in 1 .. l, q[i] \in Letters, i < l
        PROVE  q[i + 1] \in Scales
    <3>1. \/ d # 0 /\ i = 1
          \/ c # 0 /\ i = iq + 1
          \/ b > 1 /\ i = is - 1
      <4>1. \A k \in 1 .. l : k = 2 /\ d # 0 => q[k] \notin Letters
        BY <1>2, <1>11, <1>15
      <4>2. \A k \in 1 .. l : k = iq + 2 /\ c # 0 => q[k] \notin Letters
        BY <1>2, <1>11, <1>15
      <4>3. \A k \in 1 .. l : k = is /\ b # 0 => q[k] \notin Letters
        BY <1>2, <1>11, <1>15
      <4>4. QED
        BY <1>2, <1>13, <2>4, <4>1, <4>2, <4>3
    <3>2. \/ d # 0 /\ i + 1 = 2
          \/ c # 0 /\ i + 1 = iq + 2
          \/ b # 0 /\ i + 1 = is
      BY <1>2, <3>1
    <3>3. QED
      BY <1>2, <1>11, <3>2 DEF Scales
  <2>5. Len(q) = l
    BY <1>10 DEF Size
  <2>6. QED
    BY <1>18, <1>19, <1>20, <2>2, <2>3, <2>4, <2>5 DEF Regular
<1>26. Quantity(q) = ChineseValue(q)
  <2>1. q[1] \in Chinese
    BY <1>2, <1>12, <1>19, <1>20
  <2>2. QED
    BY <1>18, <1>25, <2>1 DEF Quantity
<1>27. Quantity(q) = n
  <2>1. ChineseValue(q) = 1000 * Times(q, "qian") + 100 * Times(q, "bai") + 10 * Times(q, "shi")
                            + (IF Last(q) \in Range(Ones) THEN OneOf(Last(q)) ELSE 0)
    BY DEF ChineseValue
  <2>2. ChineseValue(q) = 1000 * d + 100 * c + 10 * b + a
    BY ONLY <1>21, <1>22, <1>23, <1>24, <2>1
  <2>3. QED
    BY ONLY <1>5, <1>26, <2>2
<1>28. QED
  BY <1>2, <1>10, <1>19, <1>20, <1>27 DEF q

\* Texts are put together in any order.
LEMMA JoinedAgain ==
  ASSUME NEW a, NEW b, NEW c, IsText(a), IsText(b), IsText(c)
  PROVE  Joined(a, Joined(b, c)) = Joined(Joined(a, b), c)
<1> DEFINE x == Joined(a, Joined(b, c))  y == Joined(Joined(a, b), c)
<1>1. PICK l \in Nat, m \in Nat, n \in Nat : l = Size(a) /\ m = Size(b) /\ n = Size(c)
  BY TextFacts
<1>2. IsText(Joined(b, c)) /\ Size(Joined(b, c)) = m + n
  BY <1>1, Concat
<1>3. IsText(Joined(a, b)) /\ Size(Joined(a, b)) = l + m
  BY <1>1, Concat
<1>4. IsText(x) /\ Size(x) = l + m + n /\ IsText(y) /\ Size(y) = l + m + n
  BY <1>1, <1>2, <1>3, Concat
<1>5. ASSUME NEW i \in 1 .. l + m + n
      PROVE  x[i] = y[i]
  <2>1. CASE i <= l
    <3>1. i \in 1 .. l
      BY <2>1
    <3>4. x[i] = a[i]
      BY <1>1, <1>2, <3>1, ConcatParts
    <3>2. Joined(a, b)[i] = a[i]
      BY <1>1, <3>1, ConcatParts
    <3>3. y[i] = Joined(a, b)[i]
      BY <1>1, <1>3, <2>1, ConcatAt
    <3>5. QED
      BY <3>2, <3>3, <3>4
  <2>2. CASE i > l
    <3>1. x[i] = Joined(b, c)[i - l]
      BY <1>1, <1>2, <2>2, ConcatAt
    <3>2. CASE i <= l + m
      <4>1. Joined(b, c)[i - l] = b[i - l]
        BY <1>1, <2>2, <3>2, ConcatAt
      <4>2. Joined(a, b)[i] = b[i - l]
        BY <1>1, <2>2, <3>2, ConcatAt
      <4>3. y[i] = Joined(a, b)[i]
        BY <1>1, <1>3, <3>2, ConcatAt
      <4>4. QED
        BY <3>1, <4>1, <4>2, <4>3
    <3>3. CASE i > l + m
      <4>1. Joined(b, c)[i - l] = c[i - l - m]
        BY <1>1, <3>3, ConcatAt
      <4>2. y[i] = c[i - (l + m)]
        BY <1>1, <1>3, <3>3, ConcatAt
      <4>3. i - l - m = i - (l + m)
        OBVIOUS
      <4>4. QED
        BY <3>1, <4>1, <4>2, <4>3
    <3>4. QED
      BY <3>2, <3>3
  <2>3. QED
    BY <2>1, <2>2
<1> HIDE DEF x, y
<1>6. x = y
  BY <1>4, <1>5, SameText
<1>7. QED
  BY <1>6 DEF x, y

\* Where the lexemes end that Past goes over, and PastIs: that it is there.
LEMMA PastFound ==
  ASSUME NEW s, NEW lexemes, NEW i \in Nat, IsText(s), 1 <= i, i <= Size(s) + 1
  PROVE  /\ Past(s, i, lexemes) \in Nat
         /\ i <= Past(s, i, lexemes) /\ Past(s, i, lexemes) <= Size(s) + 1
         /\ Past(s, i, lexemes) <= Size(s) => s[Past(s, i, lexemes)] \notin lexemes
         /\ \A k \in Int : i <= k /\ k < Past(s, i, lexemes) => s[k] \in lexemes
<1>1. PICK n \in Nat : n = Size(s)
  BY TextFacts
<1> DEFINE Q(j) == (j > n \/ s[j] \notin lexemes) /\ \A k \in i .. j - 1 : s[k] \in lexemes
           S == {j \in i .. n + 1 : j > n \/ s[j] \notin lexemes}
<1>2. S \in SUBSET Nat /\ S # {}
  <2>1. n + 1 \in S
    BY <1>1
  <2>2. QED
    BY <1>1, <2>1
<1>3. PICK m \in S : \A j \in S : m <= j
  <2> HIDE DEF S
  <2>1. QED
    BY <1>2, LeastNat
<1>4. m \in i .. n + 1 /\ Q(m)
  <2>1. \A k \in i .. m - 1 : k \notin S
    BY <1>2, <1>3
  <2>2. QED
    BY <1>1, <1>3, <2>1
<1>5. Past(s, i, lexemes) = CHOOSE j \in i .. n + 1 : Q(j)
  BY <1>1 DEF Past, Size
<1> DEFINE j == CHOOSE j \in i .. n + 1 : Q(j)
<1>6. j \in i .. n + 1 /\ Q(j)
  <2> HIDE DEF Q
  <2>1. QED
    BY <1>4
<1> HIDE DEF j
<1>7. Past(s, i, lexemes) = j
  BY <1>5 DEF j
<1>8. QED
  BY <1>1, <1>6, <1>7

LEMMA PastIs ==
  ASSUME NEW s, NEW lexemes, NEW i \in Nat, NEW j \in Nat,
         IsText(s), 1 <= i, i <= j, j <= Size(s) + 1,
         j <= Size(s) => s[j] \notin lexemes,
         \A k \in Int : i <= k /\ k < j => s[k] \in lexemes
  PROVE  Past(s, i, lexemes) = j
<1>1. PICK n \in Nat : n = Size(s)
  BY TextFacts
<1>2. i <= n + 1
  BY <1>1
<1>3. PICK m \in Nat : m = Past(s, i, lexemes)
  BY <1>1, <1>2, PastFound
<1>4. /\ i <= m /\ m <= n + 1
      /\ m <= n => s[m] \notin lexemes
      /\ \A k \in Int : i <= k /\ k < m => s[k] \in lexemes
  BY <1>1, <1>2, <1>3, PastFound
<1>5. ~(m < j)
  BY <1>1, <1>4
<1>6. ~(j < m)
  BY <1>1, <1>4
<1>7. QED
  BY <1>3, <1>5, <1>6

\* A text p has the text b behind its place l.
Has(p, l, b) == l + Size(b) <= Size(p) /\ \A i \in 1 .. Size(b) : p[l + i] = b[i]

\* Each of two texts is where it was put.
LEMMA ConcatHas ==
  ASSUME NEW a, NEW b, IsText(a), IsText(b)
  PROVE  Has(Joined(a, b), 0, a) /\ Has(Joined(a, b), Size(a), b)
<1>1. PICK m \in Nat : Size(a) = m
  BY TextFacts
<1>2. PICK n \in Nat : Size(b) = n
  BY TextFacts
<1>3. Size(Joined(a, b)) = m + n
  BY <1>1, <1>2, Concat
<1>4. \A i \in 1 .. m : Joined(a, b)[0 + i] = a[i]
  <2>1. \A i \in 1 .. m : 0 + i = i
    OBVIOUS
  <2>2. QED
    BY <1>1, <1>2, <2>1, ConcatParts
<1>5. \A i \in 1 .. n : Joined(a, b)[m + i] = b[i]
  BY <1>1, <1>2, ConcatParts
<1>6. Has(Joined(a, b), 0, a)
  BY <1>1, <1>3, <1>4 DEF Has
<1>7. Has(Joined(a, b), Size(a), b)
  BY <1>1, <1>2, <1>3, <1>5 DEF Has
<1>8. QED
  BY <1>6, <1>7

\* A text in a text in a text.
LEMMA HasBehind ==
  ASSUME NEW p, NEW q, NEW b, NEW l \in Nat, NEW k \in Nat,
         IsText(p), IsText(q), IsText(b), Has(p, l, q), Has(q, k, b)
  PROVE  Has(p, l + k, b)
<1>1. PICK m \in Nat : Size(q) = m
  BY TextFacts
<1>2. PICK n \in Nat : Size(b) = n
  BY TextFacts
<1>3. PICK o \in Nat : Size(p) = o
  BY TextFacts
<1>4. l + m <= o /\ \A i \in 1 .. m : p[l + i] = q[i]
  BY <1>1, <1>3 DEF Has
<1>5. k + n <= m /\ \A i \in 1 .. n : q[k + i] = b[i]
  BY <1>1, <1>2 DEF Has
<1>6. \A i \in 1 .. n : k + i \in 1 .. m /\ l + (k + i) = (l + k) + i
  BY <1>5
<1>7. \A i \in 1 .. n : p[(l + k) + i] = b[i]
  BY <1>4, <1>5, <1>6
<1>8. (l + k) + n <= o
  BY <1>4, <1>5
<1>9. QED
  BY <1>2, <1>3, <1>7, <1>8 DEF Has

\* What is cut out of a text where another one is.
LEMMA HasSlice ==
  ASSUME NEW p, NEW b, NEW l \in Nat, IsText(p), IsText(b), Has(p, l, b)
  PROVE  Slice(p, l + 1, l + Size(b)) = b
<1>1. PICK m \in Nat : Size(b) = m
  BY TextFacts
<1>2. PICK o \in Nat : Size(p) = o
  BY TextFacts
<1>3. l + m <= o /\ \A i \in 1 .. m : p[l + i] = b[i]
  BY <1>1, <1>2 DEF Has
<1> DEFINE x == Slice(p, l + 1, l + m)
<1>4. /\ l + 1 \in Int /\ l + m \in Int /\ 1 <= l + 1 /\ (l + 1) - 1 <= l + m
      /\ l + m - (l + 1) + 1 = m
  OBVIOUS
<1>5. IsText(x) /\ Size(x) = m
  BY <1>2, <1>3, <1>4, SliceFacts
<1>6. \A i \in 1 .. m : x[i] = b[i]
  <2>1. TAKE i \in 1 .. m
  <2>2. x[i] = p[(l + 1) + i - 1]
    BY <1>2, <1>3, <1>4, SliceAt
  <2>3. (l + 1) + i - 1 = l + i
    OBVIOUS
  <2>4. QED
    BY <1>3, <2>2, <2>3
<1> HIDE DEF x
<1>7. x = b
  BY <1>1, <1>5, <1>6, SameText
<1>8. QED
  BY <1>1, <1>7 DEF x

\* Each of three texts is where it was put.
LEMMA ThreeHas ==
  ASSUME NEW a, NEW b, NEW c, IsText(a), IsText(b), IsText(c)
  PROVE  /\ IsText(Joined(Joined(a, b), c))
         /\ Size(Joined(Joined(a, b), c)) = Size(a) + Size(b) + Size(c)
         /\ Has(Joined(Joined(a, b), c), 0, a)
         /\ Has(Joined(Joined(a, b), c), Size(a), b)
         /\ Has(Joined(Joined(a, b), c), Size(a) + Size(b), c)
<1>1. PICK l \in Nat : Size(a) = l
  BY TextFacts
<1>2. PICK m \in Nat : Size(b) = m
  BY TextFacts
<1>3. PICK n \in Nat : Size(c) = n
  BY TextFacts
<1> DEFINE x == Joined(a, b)  p == Joined(x, c)
<1>4. IsText(x) /\ Size(x) = l + m /\ Has(x, 0, a) /\ Has(x, l, b)
  <2>1. IsText(x) /\ Size(x) = l + m
    BY <1>1, <1>2, Concat
  <2>2. QED
    BY <1>1, <2>1, ConcatHas
<1> HIDE DEF x
<1>5. IsText(p) /\ Size(p) = l + m + n /\ Has(p, 0, x) /\ Has(p, l + m, c)
  <2>1. IsText(p) /\ Size(p) = l + m + n
    BY <1>3, <1>4, Concat
  <2>2. QED
    BY <1>4, <2>1, ConcatHas
<1> HIDE DEF p
<1>6. 0 + 0 = 0 /\ 0 + l = l
  OBVIOUS
<1>7. Has(p, 0 + 0, a) /\ Has(p, 0 + l, b)
  BY <1>4, <1>5, HasBehind
<1>8. QED
  BY <1>1, <1>2, <1>3, <1>5, <1>6, <1>7 DEF p, x

\* A number that a unit or nothing follows is taken whole, and so is the unit.
LEMMA NumberIn ==
  ASSUME NEW p, NEW l \in Nat, NEW num, NEW u, NEW class \in {Digits, Chinese},
         IsText(p), IsText(num), IsText(u),
         Has(p, l, num), Has(p, l + Size(num), u), Size(p) = l + Size(num) + Size(u),
         num # <<>>, Range(num) \subseteq class, u # <<>> => u[1] \notin Numerals \cup {Space}
  PROVE  /\ NumberAt(p, l + 1) /\ AfterNumber(p, l + 1) = l + Size(num) + 1
         /\ NumberFrom(p, l + 1) = num /\ UnitFrom(p, l + 1) = u
<1>1. PICK m \in Nat : Size(num) = m
  BY TextFacts
<1>2. PICK n \in Nat : Size(u) = n
  BY TextFacts
<1>3. Size(p) = l + m + n
  BY <1>1, <1>2
<1>4. \A i \in 1 .. m : p[l + i] = num[i]
  BY <1>1 DEF Has
<1>5. \A i \in 1 .. n : p[(l + m) + i] = u[i]
  BY <1>1, <1>2 DEF Has
<1>6. m > 0 /\ \A i \in 1 .. m : num[i] \in class
  BY <1>1, TextFacts
<1>7. n > 0 => u[1] \notin Numerals \cup {Space}
  BY <1>2, TextFacts
<1>8. /\ class \subseteq Numerals /\ Numerals = Digits \cup Chinese /\ Digits \cap Chinese = {}
      /\ Space \notin Numerals
  BY Classes
<1>9. p[l + 1] \in class
  <2>1. 1 \in 1 .. m
    BY <1>6
  <2>2. QED
    BY <1>4, <1>6, <2>1
<1>10. n > 0 => p[l + m + 1] \notin Numerals \cup {Space}
  <2>1. n > 0 => 1 \in 1 .. n
    OBVIOUS
  <2>2. QED
    BY <1>5, <1>7, <2>1
<1>11. NumberAt(p, l + 1)
  <2>1. l + 1 <= Size(p)
    BY <1>3, <1>6
  <2>2. QED
    BY <1>8, <1>9, <2>1 DEF NumberAt, Size
<1>12. AfterNumber(p, l + 1) = Past(p, l + 1, class)
  BY <1>8, <1>9 DEF AfterNumber
<1>13. Past(p, l + 1, class) = l + m + 1
  <2>1. ASSUME NEW k \in Int, l + 1 <= k, k < l + m + 1
        PROVE  p[k] \in class
    <3>1. k - l \in 1 .. m /\ l + (k - l) = k
      BY <2>1
    <3>2. QED
      BY <1>4, <1>6, <3>1
  <2>2. l + m + 1 <= Size(p) => p[l + m + 1] \notin class
    BY <1>3, <1>8, <1>10
  <2>3. l + 1 \in Nat /\ l + m + 1 \in Nat /\ 1 <= l + 1 /\ l + 1 <= l + m + 1
        /\ l + m + 1 <= Size(p) + 1
    BY <1>3
  <2>4. QED
    BY <2>1, <2>2, <2>3, PastIs
<1>14. AfterNumber(p, l + 1) = l + m + 1
  BY <1>12, <1>13
<1>15. NumberFrom(p, l + 1) = num
  <2>1. NumberFrom(p, l + 1) = Slice(p, l + 1, (l + m + 1) - 1)
    BY <1>14 DEF NumberFrom, Slice
  <2>2. (l + m + 1) - 1 = l + m
    OBVIOUS
  <2>3. Slice(p, l + 1, l + m) = num
    BY <1>1, HasSlice
  <2>4. QED
    BY <2>1, <2>2, <2>3
<1>16. UnitFrom(p, l + 1) = u
  <2>1. Past(p, l + m + 1, {Space}) = l + m + 1
    <3>1. l + m + 1 <= Size(p) => p[l + m + 1] \notin {Space}
      BY <1>3, <1>10
    <3>2. l + m + 1 \in Nat /\ 1 <= l + m + 1 /\ l + m + 1 <= Size(p) + 1
      BY <1>3
    <3>3. \A k \in Int : l + m + 1 <= k /\ k < l + m + 1 => p[k] \in {Space}
      OBVIOUS
    <3>4. QED
      BY <3>1, <3>2, <3>3, PastIs
  <2>2. UnitFrom(p, l + 1) = Slice(p, l + m + 1, Size(p))
    BY <1>14, <2>1 DEF UnitFrom, From, Slice, Size
  <2>3. l + m \in Nat /\ Size(p) = (l + m) + n
    BY <1>3
  <2>4. Slice(p, (l + m) + 1, (l + m) + n) = u
    BY <1>1, <1>2, <2>3, HasSlice
  <2>5. QED
    BY <2>2, <2>3, <2>4
<1>17. QED
  BY <1>1, <1>11, <1>14, <1>15, <1>16

\* A blank is no part of a text that neither begins nor ends with one.
LEMMA StripIs ==
  ASSUME NEW s, NEW p, NEW l \in Nat, IsText(s), IsText(p), Has(p, l, s), s # <<>>,
         s[1] # Space, s[Size(s)] # Space,
         \A i \in 1 .. Size(p) : i <= l \/ i > l + Size(s) => p[i] = Space
  PROVE  Strip(p) = s
<1>1. PICK m \in Nat : Size(s) = m
  BY TextFacts
<1>2. PICK o \in Nat : Size(p) = o
  BY TextFacts
<1>3. l + m <= o /\ \A i \in 1 .. m : p[l + i] = s[i]
  BY <1>1, <1>2 DEF Has
<1>4. m > 0 /\ s[m] # Space
  BY <1>1, TextFacts
<1>5. \A i \in 1 .. o : i <= l \/ i > l + m => p[i] = Space
  BY <1>1, <1>2
<1> DEFINE kept == {i \in DOMAIN p : p[i] # Space}
<1>6. DOMAIN p = 1 .. o
  BY <1>2, TextFacts
<1>7. l + 1 \in kept /\ l + m \in kept
  <2>1. 1 \in 1 .. m /\ m \in 1 .. m
    BY <1>4
  <2>2. p[l + 1] = s[1] /\ p[l + m] = s[m]
    BY <1>3, <2>1
  <2>3. l + 1 \in 1 .. o /\ l + m \in 1 .. o
    BY <1>3, <1>4
  <2>4. QED
    BY <1>4, <1>6, <2>2, <2>3
<1>8. \A i \in kept : i \in 1 .. o /\ l + 1 <= i /\ i <= l + m
  BY <1>5, <1>6
<1>9. Strip(p) = IF kept = {} THEN <<>> ELSE SubSeq(p, Min(kept), Max(kept))
  BY DEF Strip
<1> HIDE DEF kept
<1>10. Min(kept) = l + 1
  BY <1>7, <1>8 DEF Min
<1>11. Max(kept) = l + m
  BY <1>7, <1>8 DEF Max
<1>12. Strip(p) = Slice(p, l + 1, l + m)
  BY <1>7, <1>9, <1>10, <1>11 DEF Slice
<1>13. QED
  BY <1>1, <1>12, HasSlice

\* A name is left as it is, but for a request or a blank before it.
LEMMA CleanNameIs ==
  ASSUME NEW name, IsText(name), name # <<>>,
         \A i \in 1 .. Size(name) : name[i] # Space, name[1] # Request
  PROVE  /\ CleanName(name) = name
         /\ CleanName(Joined(<<Space>>, name)) = name
         /\ CleanName(Joined(<<Request>>, name)) = name
<1>1. PICK m \in Nat : Size(name) = m
  BY TextFacts
<1>2. m > 0 /\ name[1] # Space /\ name[Size(name)] # Space
  <2>1. m > 0
    BY <1>1, TextFacts
  <2>2. 1 \in 1 .. m /\ m \in 1 .. m
    BY <2>1
  <2>3. QED
    BY <1>1, <2>1, <2>2
<1>3. Strip(name) = name
  <2>1. Has(name, 0, name)
    <3>1. \A i \in 1 .. m : name[0 + i] = name[i]
      OBVIOUS
    <3>2. QED
      BY <1>1, <3>1 DEF Has
  <2>2. \A i \in 1 .. Size(name) : i <= 0 \/ i > 0 + Size(name) => name[i] = Space
    BY <1>1
  <2>3. QED
    BY <1>2, <2>1, <2>2, StripIs
<1>4. ASSUME NEW x
      PROVE  /\ IsText(Joined(<<x>>, name)) /\ Size(Joined(<<x>>, name)) = 1 + m
             /\ Has(Joined(<<x>>, name), 1, name) /\ Joined(<<x>>, name)[1] = x
             /\ \A i \in 1 .. m : Joined(<<x>>, name)[1 + i] = name[i]
  <2>1. IsText(<<x>>) /\ Size(<<x>>) = 1 /\ <<x>>[1] = x
    BY TinyTexts
  <2> DEFINE y == <<x>>
  <2> HIDE DEF y
  <2>2. IsText(y) /\ Size(y) = 1 /\ y[1] = x
    BY <2>1 DEF y
  <2>3. IsText(Joined(y, name)) /\ Size(Joined(y, name)) = 1 + m
    BY <1>1, <2>2, Concat
  <2>4. Has(Joined(y, name), 1, name)
    BY <2>2, ConcatHas
  <2>5. /\ \A i \in 1 .. 1 : Joined(y, name)[i] = y[i]
        /\ \A i \in 1 .. m : Joined(y, name)[1 + i] = name[i]
    BY <1>1, <2>2, ConcatParts
  <2>6. QED
    BY <2>2, <2>3, <2>4, <2>5 DEF y
<1>5. Strip(Joined(<<Space>>, name)) = name
  <2> DEFINE p == Joined(<<Space>>, name)
  <2>1. IsText(p) /\ Size(p) = 1 + m /\ Has(p, 1, name) /\ p[1] = Space
    BY <1>4
  <2> HIDE DEF p
  <2>2. \A i \in 1 .. Size(p) : i <= 1 \/ i > 1 + Size(name) => p[i] = Space
    BY <1>1, <2>1
  <2>3. Strip(p) = name
    BY <1>2, <2>1, <2>2, StripIs
  <2>4. QED
    BY <2>3 DEF p
<1>6. CleanName(name) = name /\ CleanName(Joined(<<Space>>, name)) = name
  BY <1>3, <1>5 DEF CleanName
<1>7. CleanName(Joined(<<Request>>, name)) = name
  <2> DEFINE p == Joined(<<Request>>, name)
  <2>1. IsText(p) /\ Size(p) = 1 + m /\ Has(p, 1, name) /\ p[1] = Request
        /\ \A i \in 1 .. m : p[1 + i] = name[i]
    BY <1>4
  <2> HIDE DEF p
  <2>2. Strip(p) = p
    <3>1. Has(p, 0, p)
      <4>1. \A i \in 1 .. 1 + m : p[0 + i] = p[i]
        OBVIOUS
      <4>2. QED
        BY <2>1, <4>1 DEF Has
    <3>2. p[1] # Space /\ p[Size(p)] # Space
      <4>1. p[1 + m] = name[m]
        BY <1>2, <2>1
      <4>2. Request # Space
        BY DEF Request, Space
      <4>3. QED
        BY <1>1, <1>2, <2>1, <4>1, <4>2
    <3>3. \A i \in 1 .. Size(p) : i <= 0 \/ i > 0 + Size(p) => p[i] = Space
      BY <2>1
    <3>4. p # <<>>
      BY <2>1, TextFacts
    <3>5. QED
      BY <2>1, <3>1, <3>2, <3>3, <3>4, StripIs
  <2>3. Tail(p) = name
    <3>1. Tail(p) = Slice(p, 1 + 1, 1 + m)
      BY <2>1 DEF Slice, IsText, Size
    <3>2. QED
      BY <1>1, <2>1, <3>1, HasSlice
  <2>4. p # <<>>
    BY <2>1, TextFacts
  <2>5. CleanName(p) = name
    BY <1>3, <2>1, <2>2, <2>3, <2>4 DEF CleanName
  <2>6. QED
    BY <2>5 DEF p
<1>8. QED
  BY <1>6, <1>7

-----------------------------------------------------------------------------
(* Items.                                                                  *)

Req(item) == IF item.request THEN <<Request>> ELSE <<>>
Class(item) == IF item.digits THEN Digits ELSE Chinese
IsClear(item) == item \in Items /\ NameIsClear(item) /\ NumberIsClear(item) /\ UnitIsClear(item)

\* An item, its names (NamesAre, NameFacts, NamesOf) and its unit (UnitFacts).
LEMMA ItemIs ==
  ASSUME NEW item \in Items
  PROVE  /\ item.form \in Forms /\ item.request \in BOOLEAN
         /\ item.blank \in BOOLEAN /\ item.digits \in BOOLEAN
         /\ item.names \in Seq(Seq(STRING)) /\ item.unit \in Seq(STRING)
         /\ Len(item.names) = IF item.form = "each" THEN 2 ELSE 1
         /\ item.count \in Nat /\ item.count < 10000 /\ (item.count = 0 => item.digits)
         /\ Range(item.unit) \cap (Digits \cup {Space, NewLine}) = {}
<1>1. IsItem(item)
  BY ItemsAssumption
<1>2. item.form \in Forms /\ item.request \in BOOLEAN
  BY <1>1, SMT DEF IsItem
<1>3. item.blank \in BOOLEAN /\ item.digits \in BOOLEAN
  BY <1>1, SMT DEF IsItem
<1>4. item.names \in Seq(Seq(STRING)) /\ item.unit \in Seq(STRING)
  BY <1>1, SMT DEF IsItem
<1>5. Len(item.names) = IF item.form = "each" THEN 2 ELSE 1
  BY <1>1, SMT DEF IsItem
<1>6. item.count \in Nat /\ item.count < 10000
  BY <1>1, SMT DEF IsItem
<1>7. item.count = 0 => item.digits
  BY <1>1, SMT DEF IsItem
<1>8. Range(item.unit) \cap (Digits \cup {Space, NewLine}) = {}
  BY <1>1, SMT DEF IsItem
<1>9. QED
  BY <1>2, <1>3, <1>4, <1>5, <1>6, <1>7, <1>8

LEMMA NamesAre ==
  ASSUME NEW item \in Items, NEW k \in DOMAIN item.names
  PROVE  item.names[k] # <<>> /\ Range(item.names[k]) \cap {Space, NewLine, And, Each} = {}
<1>1. IsItem(item)
  BY ItemsAssumption
<1>2. QED
  BY <1>1, SMT DEF IsItem

LEMMA NameFacts ==
  ASSUME NEW item \in Items, NEW k \in DOMAIN item.names
  PROVE  /\ IsText(item.names[k]) /\ item.names[k] # <<>>
         /\ \A i \in 1 .. Size(item.names[k]) :
              item.names[k][i] \notin {Space, NewLine, And, Each}
<1>1. item.names \in Seq(Seq(STRING))
  BY ItemIs
<1>2. item.names[k] \in Seq(STRING)
  BY <1>1
<1>3. IsText(item.names[k])
  BY <1>2, SeqIsText
<1>4. item.names[k] # <<>> /\ Range(item.names[k]) \cap {Space, NewLine, And, Each} = {}
  BY NamesAre
<1>5. Range(item.names[k]) = {item.names[k][i] : i \in 1 .. Size(item.names[k])}
  BY <1>3, TextFacts
<1>6. QED
  BY <1>3, <1>4, <1>5

LEMMA NamesOf ==
  ASSUME NEW item \in Items
  PROVE  DOMAIN item.names = IF item.form = "each" THEN {1, 2} ELSE {1}
<1>1. item.names \in Seq(Seq(STRING)) /\ Len(item.names) = IF item.form = "each" THEN 2 ELSE 1
  BY ItemIs
<1>2. CASE item.form = "each"
  BY <1>1, <1>2
<1>3. CASE item.form # "each"
  BY <1>1, <1>3
<1>4. QED
  BY <1>2, <1>3

LEMMA UnitFacts ==
  ASSUME NEW item, IsClear(item)
  PROVE  /\ IsText(item.unit) /\ AnyUnit(item.unit)
         /\ \A i \in 1 .. Size(item.unit) :
              item.unit[i] \notin Numerals \cup {Space, NewLine, Each}
         /\ item.unit # <<>> => item.unit[1] \notin Numerals \cup {Space}
<1>1. item \in Items
  BY DEF IsClear
<1>2. item.unit \in Seq(STRING) /\ Range(item.unit) \cap (Digits \cup {Space, NewLine}) = {}
  BY <1>1, ItemIs
<1>3. IsText(item.unit)
  BY <1>2, SeqIsText
<1>4. AnyUnit(item.unit)
  BY <1>2 DEF AnyUnit
<1>5. Range(item.unit) \cap (Numerals \cup {Each}) = {}
  BY DEF IsClear, UnitIsClear
<1>6. Range(item.unit) = {item.unit[i] : i \in 1 .. Size(item.unit)}
  BY <1>3, TextFacts
<1>7. \A i \in 1 .. Size(item.unit) : item.unit[i] \notin Numerals \cup {Space, NewLine, Each}
  BY <1>2, <1>5, <1>6
<1>8. item.unit # <<>> => 1 \in 1 .. Size(item.unit)
  <2>1. PICK n \in Nat : Size(item.unit) = n
    BY <1>3, TextFacts
  <2>2. item.unit # <<>> => n > 0
    BY <1>3, <2>1, TextFacts
  <2>3. QED
    BY <2>1, <2>2
<1>9. QED
  BY <1>3, <1>4, <1>7, <1>8

\* The count of a clear item is read back from its text.
LEMMA SpelledRead ==
  ASSUME NEW item, IsClear(item)
  PROVE  /\ IsText(Spelled(item)) /\ Spelled(item) # <<>>
         /\ Class(item) \in {Digits, Chinese} /\ Range(Spelled(item)) \subseteq Class(item)
         /\ item.count \in Nat /\ Quantity(Spelled(item)) = item.count
<1>1. item \in Items
  BY DEF IsClear
<1>2. /\ item.count \in Nat /\ item.count < 10000 /\ item.digits \in BOOLEAN
      /\ ~item.digits => 0 < item.count
  <2>1. item.digits \in BOOLEAN
    BY <1>1, ItemIs
  <2>2. item.count = 0 => item.digits
    BY <1>1, ItemIs
  <2>3. item.count \in Nat /\ item.count < 10000
    BY <1>1, ItemIs
  <2>4. ~item.digits => 0 < item.count
    BY <2>2, <2>3
  <2>5. QED
    BY <2>1, <2>3, <2>4
<1>3. CASE item.digits
  <2>1. Spelled(item) = InDigits(item.count) /\ Class(item) = Digits
    BY <1>3 DEF Spelled, Class
  <2>2. /\ InDigits(item.count) \in Seq(Digits) /\ InDigits(item.count) # <<>>
        /\ Quantity(InDigits(item.count)) = item.count
    BY <1>2, DigitsRead
  <2> DEFINE q == InDigits(item.count)
  <2> HIDE DEF q
  <2>3. q \in Seq(Digits)
    BY <2>2 DEF q
  <2>4. IsText(q) /\ Range(q) \subseteq Digits
    BY <2>3, SeqIsText DEF Range
  <2>5. QED
    BY <1>2, <2>1, <2>2, <2>4 DEF q
<1>4. CASE ~item.digits
  <2>1. Spelled(item) = InWords(item.count) /\ Class(item) = Chinese
    BY <1>4 DEF Spelled, Class
  <2>2. "zero" \notin Range(InWords(item.count))
    BY <2>1 DEF IsClear, NumberIsClear
  <2>3. QED
    BY <1>2, <1>4, <2>1, <2>2, WordsRead
<1>5. QED
  BY <1>2, <1>3, <1>4

\* What the request before an item is.
LEMMA ReqFacts ==
  ASSUME NEW item
  PROVE  /\ IsText(Req(item)) /\ (item.request => Size(Req(item)) = 1 /\ Req(item)[1] = Request)
         /\ ~item.request => Req(item) = <<>> /\ Size(Req(item)) = 0
         /\ \A i \in 1 .. Size(Req(item)) : Req(item)[i] = Request
<1>1. CASE item.request
  <2>1. Req(item) = <<Request>>
    BY <1>1 DEF Req
  <2>2. IsText(Req(item)) /\ Size(Req(item)) = 1 /\ Req(item)[1] = Request
    BY <2>1, TinyTexts
  <2>3. QED
    BY <1>1, <2>2
<1>2. CASE ~item.request
  <2>1. Req(item) = <<>>
    BY <1>2 DEF Req
  <2>2. IsText(Req(item)) /\ Size(Req(item)) = 0
    BY <2>1, EmptyText
  <2>3. QED
    BY <1>2, <2>1, <2>2
<1>3. QED
  BY <1>1, <1>2

\* What is said first is left out of the name behind it.
LEMMA RequestLeftOut ==
  ASSUME NEW item, IsClear(item), NEW k \in DOMAIN item.names
  PROVE  /\ CleanName(Joined(Req(item), item.names[k])) = item.names[k]
         /\ CleanName(item.names[k]) = item.names[k]
         /\ CleanName(Joined(<<Space>>, item.names[k])) = item.names[k]
<1> DEFINE name == item.names[k]
<1>1. item \in Items
  BY DEF IsClear
<1>2. IsText(name) /\ name # <<>> /\ \A i \in 1 .. Size(name) : name[i] # Space
  BY <1>1, NameFacts
<1>3. name[1] # Request
  BY DEF IsClear, NameIsClear
<1> HIDE DEF name
<1>4. /\ CleanName(name) = name
      /\ CleanName(Joined(<<Space>>, name)) = name
      /\ CleanName(Joined(<<Request>>, name)) = name
  BY <1>2, <1>3, CleanNameIs
<1>5. Joined(<<>>, name) = name
  BY <1>2, EmptyText
<1>6. CleanName(Joined(Req(item), name)) = name
  BY <1>4, <1>5 DEF Req
<1>7. QED
  BY <1>4, <1>6 DEF name

-----------------------------------------------------------------------------
(* Numbers that a part holds before the one it is read by.                 *)

\* A listed unit is empty or one lexeme.
LEMMA ListedIs ==
  \A u : ListedUnit(u) <=> u = <<>> \/ (Size(u) = 1 /\ u[1] \in Listed)
BY Zenon DEF ListedUnit, Size

\* A number before the one at l stops there, where a lexeme of its own class
\* comes behind one that is not, and what follows it is no listed unit.
LEMMA RunStops ==
  ASSUME NEW p, NEW i \in Nat, NEW l \in Nat, NEW class \in {Digits, Chinese},
         IsText(p), 1 <= i, i < l, l <= Size(p), NumberAt(p, i),
         p[l] \in class, p[l - 1] \notin class
  PROVE  /\ AfterNumber(p, i) \in Nat /\ i < AfterNumber(p, i) /\ AfterNumber(p, i) <= l
         /\ ~ListedUnit(UnitFrom(p, i))
<1>1. PICK o \in Nat : Size(p) = o
  BY TextFacts
<1> DEFINE c == IF p[i] \in Digits THEN Digits ELSE Chinese
           j == AfterNumber(p, i)
<1>2. j = Past(p, i, c)
  BY DEF AfterNumber
<1>3. p[i] \in c /\ c \in {Digits, Chinese}
  BY DEF NumberAt
<1> HIDE DEF c, j
<1>4. i <= Size(p) + 1
  BY <1>1
<1>5. /\ j \in Nat /\ i <= j /\ j <= o + 1
      /\ j <= o => p[j] \notin c
      /\ \A k \in Int : i <= k /\ k < j => p[k] \in c
  BY <1>1, <1>2, <1>4, PastFound
<1>6. i < j
  BY <1>1, <1>3, <1>5
<1>7. j <= l
  <2>1. SUFFICES ASSUME j > l
                 PROVE  FALSE
    BY <1>5
  <2>2. l - 1 \in Int /\ i <= l - 1 /\ l - 1 < j
    BY <1>5, <2>1
  <2>3. p[l] \in c /\ p[l - 1] \in c
    BY <1>5, <2>1, <2>2
  <2>4. c = class
    BY <1>3, <2>3, Classes
  <2>5. QED
    BY <2>3, <2>4
<1>8. p[l] \in Numerals /\ p[l] \notin Listed /\ p[l] # Space
  BY Classes DEF Numerals
<1> DEFINE k == Past(p, j, {Space})
<1>9. /\ k \in Nat /\ j <= k /\ k <= o + 1
      /\ \A h \in Int : j <= h /\ h < k => p[h] = Space
  <2>1. 1 <= j /\ j <= Size(p) + 1
    BY <1>1, <1>5, <1>6
  <2>2. QED
    BY <1>1, <1>5, <2>1, PastFound
<1>10. UnitFrom(p, i) = Slice(p, k, o)
  BY <1>1 DEF UnitFrom, From, Slice, Size, j
<1> HIDE DEF k
<1>11. k <= l
  BY <1>5, <1>7, <1>8, <1>9
<1> DEFINE u == Slice(p, k, o)
<1>12. IsText(u) /\ Size(u) = o - k + 1
  BY <1>1, <1>5, <1>6, <1>9, <1>11, SliceFacts
<1>13. u[l - k + 1] = p[l]
  <2>1. l - k + 1 \in Int /\ 1 <= l - k + 1 /\ l - k + 1 <= o - k + 1 /\ 1 <= k /\ k - 1 <= o
    BY <1>1, <1>5, <1>6, <1>9, <1>11
  <2>2. u[l - k + 1] = p[k + (l - k + 1) - 1]
    BY <1>1, <1>9, <2>1, SliceAt
  <2>3. k + (l - k + 1) - 1 = l
    BY <1>9
  <2>4. QED
    BY <2>2, <2>3
<1> HIDE DEF u
<1>14. ~ListedUnit(u)
  <2>1. o - k + 1 \in Nat /\ o - k + 1 > 0
    BY <1>1, <1>9, <1>11
  <2>2. u # <<>>
    BY <1>12, <2>1, TextFacts
  <2>3. Size(u) = 1 => l - k + 1 = 1
    BY <1>1, <1>9, <1>11, <1>12
  <2>4. Size(u) = 1 => u[1] \notin Listed
    BY <1>8, <1>13, <2>3
  <2>5. QED
    BY <2>2, <2>4, ListedIs
<1>15. QED
  BY <1>5, <1>6, <1>7, <1>10, <1>14 DEF u, j

\* The lexeme behind the number at i begins what follows the number, unless it
\* is a blank.
LEMMA UnitBegins ==
  ASSUME NEW p, NEW i \in Nat, NEW j \in Nat, IsText(p), 1 <= i, i <= j, j <= Size(p),
         AfterNumber(p, i) = j, p[j] # Space
  PROVE  UnitFrom(p, i)[1] = p[j]
<1>1. PICK o \in Nat : Size(p) = o
  BY TextFacts
<1>2. Past(p, j, {Space}) = j
  <2>1. \A k \in Int : j <= k /\ k < j => p[k] \in {Space}
    OBVIOUS
  <2>2. 1 <= j /\ j <= Size(p) + 1
    BY <1>1
  <2>3. QED
    BY <2>1, <2>2, PastIs
<1>3. UnitFrom(p, i) = Slice(p, j, o)
  BY <1>1, <1>2 DEF UnitFrom, From, Slice, Size
<1>4. 1 <= j /\ j - 1 <= o /\ 1 <= o - j + 1
  BY <1>1
<1>5. Slice(p, j, o)[1] = p[j + 1 - 1]
  BY <1>1, <1>4, SliceAt
<1>6. QED
  BY <1>3, <1>5

\* Without an "each" there is no item of two names.
LEMMA NoEach ==
  ASSUME NEW p, IsText(p), Each \notin Range(p)
  PROVE  EachSplits(p) = {}
<1>1. \A i \in DOMAIN p : p[i] \in Range(p)
  BY DEF Range
<1>2. QED
  BY <1>1 DEF EachSplits

\* A number is looked for behind the request.
LEMMA FirstNumberIs ==
  ASSUME NEW item, NEW b, IsText(b), b # <<>>, b[1] # Request, b[1] # Space
  PROVE  FirstNumber(Joined(Req(item), b)) = Size(Req(item)) + 1
<1> DEFINE q == Req(item)
           p == Joined(q, b)
<1>1. PICK n \in Nat : Size(b) = n
  BY TextFacts
<1>2. n > 0
  BY <1>1, TextFacts
<1>3. 1 \in 1 .. n
  BY <1>2
<1>4. CASE item.request
  <2>1. IsText(q) /\ Size(q) = 1 /\ q[1] = Request
    BY <1>4, ReqFacts
  <2> HIDE DEF q
  <2>2. IsText(p) /\ Size(p) = 1 + n
    BY <1>1, <2>1, Concat
  <2>3. \A i \in 1 .. 1 : p[i] = q[i]
    BY <1>1, <2>1, ConcatParts
  <2>4. \A i \in 1 .. n : p[1 + i] = b[i]
    BY <1>1, <2>1, ConcatParts
  <2>5. p[1] = Request /\ p[2] # Space
    <3>1. p[1 + 1] = b[1]
      BY <1>3, <2>4
    <3>2. QED
      BY <2>1, <2>3, <3>1
  <2> HIDE DEF p
  <2>6. Past(p, 2, {Space}) = 2
    <3>1. 2 <= Size(p) + 1
      BY <2>2
    <3>2. \A k \in Int : 2 <= k /\ k < 2 => p[k] \in {Space}
      OBVIOUS
    <3>3. QED
      BY <2>2, <2>5, <3>1, <3>2, PastIs
  <2>7. FirstNumber(p) = 2
    BY <2>5, <2>6 DEF FirstNumber
  <2>8. QED
    BY <2>1, <2>7 DEF p, q
<1>5. CASE ~item.request
  <2>1. q = <<>> /\ Size(q) = 0
    BY <1>5, ReqFacts
  <2>2. p = b
    BY <2>1, EmptyText
  <2>3. FirstNumber(b) = 1
    BY DEF FirstNumber
  <2>4. QED
    BY <2>1, <2>2, <2>3
<1>6. QED
  BY <1>4, <1>5

\* A part that begins with a name is not read as a quantity that comes first.
LEMMA NotCounted ==
  ASSUME NEW p, NEW name, NEW r \in Nat, NEW l \in Nat, NEW class \in {Digits, Chinese},
         IsText(p), IsText(name), name # <<>>, Has(p, r, name), r + Size(name) + 1 = l,
         l <= Size(p), p[l] \in class, name[Size(name)] \notin class,
         \A i \in 1 .. Size(name) : name[i] # Space,
         FirstNumber(p) = r + 1, ~BeginsCounted(name)
  PROVE  ~QuantityFirst(p)
<1>1. PICK m \in Nat : Size(name) = m
  BY TextFacts
<1>2. PICK o \in Nat : Size(p) = o
  BY TextFacts
<1>3. m > 0
  BY <1>1, TextFacts
<1>4. /\ \A i \in 1 .. m : p[r + i] = name[i] /\ name[i] # Space
      /\ r + m + 1 = l /\ l <= o
  BY <1>1, <1>2 DEF Has
<1>5. p[l - 1] \notin class
  <2>1. m \in 1 .. m /\ r + m = l - 1
    BY <1>3, <1>4
  <2>2. p[r + m] = name[m]
    BY <1>4, <2>1
  <2>3. QED
    BY <1>1, <2>1, <2>2
<1>6. SUFFICES ASSUME NumberAt(p, r + 1), UnitFrom(p, r + 1)[1] \in Listed
               PROVE  FALSE
  BY DEF QuantityFirst
<1>7. r + 1 \in Nat /\ 1 <= r + 1 /\ r + 1 < l
  BY <1>3, <1>4
<1>8. PICK j \in Nat : AfterNumber(p, r + 1) = j
  BY <1>5, <1>6, <1>7, RunStops
<1>9. r + 1 < j /\ j <= l
  BY <1>5, <1>6, <1>7, <1>8, RunStops
<1>10. p[j] # Space /\ p[j] \notin Listed
  <2>1. CASE j = l
    BY <2>1, Classes DEF Numerals
  <2>2. CASE j # l
    <3> DEFINE h == j - r
               c == IF p[r + 1] \in Digits THEN Digits ELSE Chinese
    <3>1. h \in 1 .. m /\ r + h = j /\ h \in Nat /\ 1 <= h /\ h <= Size(name) + 1
      BY <1>1, <1>4, <1>9, <2>2
    <3>2. p[j] = name[h] /\ name[h] # Space
      BY <1>4, <3>1
    <3>3. p[r + 1] = name[1]
      <4>1. 1 \in 1 .. m
        BY <1>3
      <4>2. QED
        BY <1>4, <4>1
    <3>4. /\ \A k \in Int : r + 1 <= k /\ k < j => p[k] \in c
          /\ p[j] \notin c
      <4>1. AfterNumber(p, r + 1) = Past(p, r + 1, c)
        BY DEF AfterNumber
      <4> HIDE DEF c
      <4>2. r + 1 <= Size(p) + 1 /\ j <= Size(p)
        BY <1>2, <1>4, <1>7, <1>9
      <4>3. QED
        BY <1>7, <1>8, <4>1, <4>2, PastFound
    <3>5. AfterNumber(name, 1) = Past(name, 1, c)
      BY <3>3 DEF AfterNumber
    <3> HIDE DEF c
    <3>6. \A k \in Int : 1 <= k /\ k < h => name[k] \in c
      <4>1. TAKE k \in Int
      <4>2. HAVE 1 <= k /\ k < h
      <4>3. k \in 1 .. m /\ r + 1 <= r + k /\ r + k < j /\ r + k \in Int
        BY <3>1, <4>2
      <4>4. QED
        BY <1>4, <3>4, <4>3
    <3>7. name[h] \notin c
      BY <3>2, <3>4
    <3> HIDE DEF h
    <3>8. Past(name, 1, c) = h
      BY <3>1, <3>6, <3>7, PastIs
    <3>9. NumberAt(name, 1)
      <4>1. p[r + 1] \in Digits \cup Chinese
        BY <1>6 DEF NumberAt
      <4>2. 1 <= Len(name)
        BY <1>1, <1>3 DEF Size
      <4>3. QED
        BY <3>3, <4>1, <4>2 DEF NumberAt
    <3>10. h <= Len(name)
      BY <1>1, <3>1 DEF Size
    <3>11. name[h] \notin Listed
      BY <3>5, <3>8, <3>9, <3>10 DEF BeginsCounted
    <3>12. QED
      BY <3>2, <3>11
  <2>3. QED
    BY <2>1, <2>2
<1>11. UnitFrom(p, r + 1)[1] = p[j]
  <2>1. r + 1 <= j /\ j <= Size(p)
    BY <1>2, <1>4, <1>9
  <2>2. QED
    BY <1>7, <1>8, <1>10, <2>1, UnitBegins
<1>12. QED
  BY <1>6, <1>10, <1>11

\* A number read from the middle is followed by the same unit.
LEMMA InsideNumber ==
  ASSUME NEW p, NEW l \in Nat, NEW num, NEW u, NEW class \in {Digits, Chinese},
         IsText(p), IsText(num), IsText(u),
         Has(p, l, num), Has(p, l + Size(num), u), Size(p) = l + Size(num) + Size(u),
         num # <<>>, Range(num) \subseteq class, u # <<>> => u[1] \notin Numerals \cup {Space},
         NEW i \in Nat, l < i, i <= l + Size(num)
  PROVE  UnitFrom(p, i) = u
<1>1. PICK m \in Nat : Size(num) = m
  BY TextFacts
<1>2. PICK n \in Nat : Size(u) = n
  BY TextFacts
<1>3. PICK k \in Nat : i - l = k
  OBVIOUS
<1>4. 1 <= k /\ k <= m /\ i - 1 \in Nat /\ (i - 1) + (m - k + 1) = l + m
  BY <1>1, <1>3
<1> DEFINE rest == Slice(num, k, m)
<1>5. IsText(rest) /\ Size(rest) = m - k + 1
  BY <1>1, <1>4, SliceFacts
<1>6. \A h \in 1 .. m - k + 1 : rest[h] = num[k + h - 1]
  BY <1>1, <1>4, SliceAt
<1> HIDE DEF rest
<1>7. rest # <<>>
  BY <1>4, <1>5, TextFacts
<1>8. Range(rest) \subseteq class
  <2>1. Range(num) = {num[h] : h \in 1 .. m}
    BY <1>1, TextFacts
  <2>2. Range(rest) = {rest[h] : h \in 1 .. m - k + 1}
    BY <1>5, TextFacts
  <2>3. \A h \in 1 .. m - k + 1 : k + h - 1 \in 1 .. m
    BY <1>4
  <2>4. QED
    BY <1>6, <2>1, <2>2, <2>3
<1>9. Has(p, i - 1, rest)
  <2>1. l + m <= Size(p) /\ \A h \in 1 .. m : p[l + h] = num[h]
    BY <1>1 DEF Has
  <2>2. \A h \in 1 .. m - k + 1 : k + h - 1 \in 1 .. m /\ l + (k + h - 1) = (i - 1) + h
    BY <1>3, <1>4
  <2>3. \A h \in 1 .. m - k + 1 : p[(i - 1) + h] = rest[h]
    BY <1>6, <2>1, <2>2
  <2>4. (i - 1) + (m - k + 1) <= Size(p)
    BY <1>4, <2>1
  <2>5. QED
    BY <1>5, <2>3, <2>4 DEF Has
<1>10. /\ Has(p, (i - 1) + Size(rest), u)
       /\ Size(p) = (i - 1) + Size(rest) + Size(u)
  <2>1. (i - 1) + Size(rest) = l + m
    BY <1>4, <1>5
  <2>2. QED
    BY <1>1, <2>1
<1> DEFINE h == i - 1
<1>11. h \in Nat /\ h + 1 = i
  BY <1>4
<1>12. Has(p, h, rest) /\ Has(p, h + Size(rest), u) /\ Size(p) = h + Size(rest) + Size(u)
  BY <1>9, <1>10
<1> HIDE DEF h
<1>13. UnitFrom(p, h + 1) = u
  <2>1. IsText(rest) /\ h \in Nat
    BY <1>5, <1>11
  <2>2. QED
    BY <1>7, <1>8, <1>12, <2>1, NumberIn
<1>14. QED
  BY <1>11, <1>13

\* What is read of a text a with a number and a unit behind it.
LEMMA NameFirstRead ==
  ASSUME NEW p, NEW a, NEW num, NEW u, NEW class \in {Digits, Chinese},
         IsText(p), IsText(a), IsText(num), IsText(u), Has(p, 0, a),
         Has(p, Size(a), num), Has(p, Size(a) + Size(num), u),
         Size(p) = Size(a) + Size(num) + Size(u),
         a # <<>>, num # <<>>, Range(num) \subseteq class, AnyUnit(u),
         \A i \in 1 .. Size(u) : u[i] \notin Numerals \cup {Space},
         a[Size(a)] \notin class,
         ~ListedUnit(u) => \A i \in 1 .. Size(a) : a[i] \notin Numerals,
         Each \notin Range(p), ~QuantityFirst(p)
  PROVE  PartLines(p) = <<Line(a, num, u)>>
<1>1. PICK l \in Nat : Size(a) = l
  BY TextFacts
<1>2. PICK m \in Nat : Size(num) = m
  BY TextFacts
<1>3. PICK n \in Nat : Size(u) = n
  BY TextFacts
<1>4. l > 0 /\ m > 0 /\ Size(p) = l + m + n
  BY <1>1, <1>2, <1>3, TextFacts
<1>5. u # <<>> => u[1] \notin Numerals \cup {Space}
  <2>1. u # <<>> => 1 \in 1 .. n
    BY <1>3, TextFacts
  <2>2. QED
    BY <1>3, <2>1
<1>6. NumberAt(p, l + 1) /\ NumberFrom(p, l + 1) = num /\ UnitFrom(p, l + 1) = u
  BY <1>1, <1>5, NumberIn
<1>7. /\ \A i \in 1 .. l : p[i] = a[i]
      /\ \A i \in 1 .. m : p[l + i] = num[i]
      /\ \A i \in 1 .. n : p[(l + m) + i] = u[i]
  <2>1. \A i \in 1 .. l : p[0 + i] = a[i]
    BY <1>1 DEF Has
  <2>2. \A i \in 1 .. l : 0 + i = i
    OBVIOUS
  <2>3. QED
    BY <1>1, <1>2, <1>3, <2>1, <2>2 DEF Has
<1>8. p[l + 1] \in class /\ p[l] \notin class
  <2>1. 1 \in 1 .. m /\ l \in 1 .. l
    BY <1>4
  <2>2. Range(num) = {num[i] : i \in 1 .. m}
    BY <1>2, TextFacts
  <2>3. QED
    BY <1>1, <1>7, <2>1, <2>2
<1>9. \A i \in 2 .. Len(p) : i \in Nat /\ 2 <= i /\ i <= l + m + n
  BY <1>4 DEF Size
<1>10. l + 1 \in 2 .. Len(p)
  BY <1>4 DEF Size
<1>11. \A i \in BeforeListed(p) : i \in Nat /\ l + 1 <= i
  <2>1. TAKE i \in BeforeListed(p)
  <2>2. i \in 2 .. Len(p) /\ NumberAt(p, i) /\ ListedUnit(UnitFrom(p, i))
    BY DEF BeforeListed
  <2>3. i \in Nat /\ 2 <= i /\ i <= l + m + n
    BY <1>9, <2>2
  <2>4. SUFFICES ASSUME i < l + 1
                 PROVE  FALSE
    BY <2>3
  <2>5. l + 1 <= Size(p) /\ (l + 1) - 1 = l /\ l + 1 \in Nat /\ 1 <= i
    BY <1>4, <2>3
  <2>6. ~ListedUnit(UnitFrom(p, i))
    BY <1>8, <2>2, <2>3, <2>4, <2>5, RunStops
  <2>7. QED
    BY <2>2, <2>6
<1>12. Slice(p, 0 + 1, 0 + l) = a
  BY <1>1, HasSlice
<1>13. SubSeq(p, 1, l) = a
  <2>1. 0 + 1 = 1 /\ 0 + l = l
    OBVIOUS
  <2>2. QED
    BY <1>12, <2>1 DEF Slice
<1>14. NameFirstLine(p, l + 1) = Line(a, num, u)
  <2>1. (l + 1) - 1 = l
    OBVIOUS
  <2>2. QED
    BY <1>6, <1>13, <2>1 DEF NameFirstLine
<1>15. EachSplits(p) = {}
  BY NoEach
<1>16. CASE ListedUnit(u)
  <2>1. l + 1 \in BeforeListed(p)
    BY <1>6, <1>10, <1>16 DEF BeforeListed
  <2>2. Min(BeforeListed(p)) = l + 1
    BY <1>11, <2>1 DEF Min
  <2>3. QED
    BY <1>14, <1>15, <2>1, <2>2 DEF PartLines
<1>17. CASE ~ListedUnit(u)
  <2>1. \A i \in 2 .. Len(p) : NumberAt(p, i) => l + 1 <= i /\ i <= l + m
    <3>1. TAKE i \in 2 .. Len(p)
    <3>2. HAVE NumberAt(p, i)
    <3>3. p[i] \in Numerals
      BY <3>2 DEF NumberAt, Numerals
    <3>4. i \in Nat /\ 2 <= i /\ i <= l + m + n
      BY <1>9
    <3>5. ~(i <= l)
      <4>1. i <= l => i \in 1 .. l
        BY <3>4
      <4>2. QED
        BY <1>1, <1>7, <1>17, <3>3, <4>1
    <3>6. ~(i > l + m)
      <4>1. i > l + m => i - (l + m) \in 1 .. n /\ (l + m) + (i - (l + m)) = i
        BY <3>4
      <4>2. QED
        BY <1>3, <1>7, <3>3, <4>1
    <3>7. QED
      BY <3>4, <3>5, <3>6
  <2>2. \A i \in 2 .. Len(p) : NumberAt(p, i) => UnitFrom(p, i) = u
    <3>1. TAKE i \in 2 .. Len(p)
    <3>2. HAVE NumberAt(p, i)
    <3>3. i \in Nat /\ l < i /\ i <= l + m
      BY <1>9, <2>1, <3>2
    <3>4. QED
      BY <1>1, <1>2, <1>5, <3>3, InsideNumber
  <2>3. BeforeListed(p) = {}
    BY <1>17, <2>2 DEF BeforeListed
  <2>4. l + 1 \in BeforeAny(p)
    BY <1>6, <1>10 DEF BeforeAny
  <2>5. \A i \in BeforeAny(p) : i \in Nat /\ l + 1 <= i
    BY <1>9, <2>1 DEF BeforeAny
  <2>6. Min(BeforeAny(p)) = l + 1
    BY <2>4, <2>5 DEF Min
  <2>7. QED
    BY <1>14, <1>15, <2>3, <2>4, <2>6 DEF PartLines
<1>18. QED
  BY <1>16, <1>17

\* What is read of a number that comes first, with its unit and a text behind it.
LEMMA CountFirstRead ==
  ASSUME NEW p, NEW r \in Nat, NEW num, NEW x \in Listed, NEW w, NEW class \in {Digits, Chinese},
         IsText(p), IsText(num), IsText(w), FirstNumber(p) = r + 1,
         Has(p, r, num), Has(p, r + Size(num), Joined(<<x>>, w)),
         Size(p) = r + Size(num) + Size(Joined(<<x>>, w)),
         num # <<>>, Range(num) \subseteq class, w # <<>>, Each \notin Range(p)
  PROVE  PartLines(p) = <<Line(w, num, <<x>>)>>
<1>1. PICK n \in Nat : Size(w) = n
  BY TextFacts
<1>2. n > 0
  BY <1>1, TextFacts
<1> DEFINE y == <<x>>
<1>3. IsText(y) /\ Size(y) = 1 /\ y[1] = x
  BY TinyTexts
<1> HIDE DEF y
<1> DEFINE rest == Joined(y, w)
<1>4. IsText(rest) /\ Size(rest) = 1 + n
  BY <1>1, <1>3, Concat
<1>5. rest[1] = x
  <2>1. \A i \in 1 .. 1 : rest[i] = y[i]
    BY <1>1, <1>3, ConcatParts
  <2>2. QED
    BY <1>3, <2>1
<1>6. Tail(rest) = w
  <2>1. Has(rest, 1, w)
    BY <1>3, ConcatHas
  <2> HIDE DEF rest
  <2>2. Tail(rest) = Slice(rest, 1 + 1, 1 + n)
    BY <1>4 DEF Slice, IsText, Size
  <2>3. QED
    BY <1>1, <1>4, <2>1, <2>2, HasSlice
<1>7. /\ Has(p, r + Size(num), rest)
      /\ Size(p) = r + Size(num) + Size(rest)
  BY DEF y
<1> HIDE DEF rest
<1>8. NumberAt(p, r + 1) /\ NumberFrom(p, r + 1) = num /\ UnitFrom(p, r + 1) = rest
  <2>1. rest # <<>> => rest[1] \notin Numerals \cup {Space}
    BY <1>5, Classes
  <2>2. QED
    BY <1>4, <1>7, <2>1, NumberIn
<1>9. Len(rest) > 1
  BY <1>2, <1>4 DEF Size
<1>10. QuantityFirst(p)
  BY <1>5, <1>8, <1>9 DEF QuantityFirst
<1>11. QuantityFirstLine(p) = Line(w, num, <<x>>)
  BY <1>5, <1>6, <1>8 DEF QuantityFirstLine
<1>12. QED
  BY <1>10, <1>11, NoEach DEF PartLines

\* The least of one.
LEMMA MinOfOne ==
  ASSUME NEW x \in Int
  PROVE  Min({x}) = x
BY DEF Min

\* A text has none of the lexemes.
Free(s, lexemes) == \A i \in 1 .. Size(s) : s[i] \notin lexemes

\* A text of two names, a number behind its place k, and a unit.
EachLaid(p, a, b, num, u, k) ==
  /\ IsText(p) /\ IsText(a) /\ IsText(b) /\ IsText(num) /\ IsText(u)
  /\ a # <<>> /\ b # <<>> /\ num # <<>> /\ AnyUnit(u)
  /\ Free(a, {And, Each}) /\ Free(b, {And, Each}) /\ Free(u, Numerals \cup {Space, Each})
  /\ Size(a) + Size(b) + 2 = k
  /\ Has(p, 0, a) /\ p[Size(a) + 1] = And /\ Has(p, Size(a) + 1, b) /\ p[k] = Each
  /\ Has(p, k, num) /\ Has(p, k + Size(num), u) /\ Size(p) = k + Size(num) + Size(u)

EachLinesOf(a, b, num, u) == <<Line(a, num, u), Line(b, num, u)>>

\* What is read of two names with a number and a unit for each.
LEMMA EachRead ==
  ASSUME NEW p, NEW a, NEW b, NEW num, NEW u, NEW class \in {Digits, Chinese},
         NEW k \in Nat, EachLaid(p, a, b, num, u, k), Range(num) \subseteq class
  PROVE  PartLines(p) = EachLinesOf(a, b, num, u)
<1>0. /\ IsText(p) /\ IsText(a) /\ IsText(b) /\ IsText(num) /\ IsText(u)
      /\ a # <<>> /\ b # <<>> /\ num # <<>> /\ AnyUnit(u)
      /\ Size(a) + Size(b) + 2 = k
      /\ Has(p, 0, a) /\ p[Size(a) + 1] = And /\ Has(p, Size(a) + 1, b) /\ p[k] = Each
      /\ Has(p, k, num) /\ Has(p, k + Size(num), u) /\ Size(p) = k + Size(num) + Size(u)
  BY DEF EachLaid
<1>. /\ \A i \in 1 .. Size(a) : a[i] \notin {And, Each}
     /\ \A i \in 1 .. Size(b) : b[i] \notin {And, Each}
     /\ \A i \in 1 .. Size(u) : u[i] \notin Numerals \cup {Space, Each}
  BY DEF EachLaid, Free
<1> USE <1>0
<1>1. PICK la \in Nat : Size(a) = la
  BY TextFacts
<1>2. PICK lb \in Nat : Size(b) = lb
  BY TextFacts
<1>3. PICK m \in Nat : Size(num) = m
  BY TextFacts
<1>4. PICK n \in Nat : Size(u) = n
  BY TextFacts
<1>5. /\ la > 0 /\ lb > 0 /\ m > 0
      /\ la + lb + 2 = k /\ Size(p) = k + m + n
  BY <1>1, <1>2, <1>3, <1>4, TextFacts
<1>6. /\ \A i \in 1 .. la : p[i] = a[i] /\ p[i] \notin {And, Each}
      /\ \A i \in 1 .. lb : p[(la + 1) + i] = b[i] /\ p[(la + 1) + i] \notin {And, Each}
      /\ \A i \in 1 .. m : p[k + i] = num[i]
      /\ \A i \in 1 .. n : p[(k + m) + i] = u[i]
  <2>1. \A i \in 1 .. la : p[0 + i] = a[i]
    BY <1>1 DEF Has
  <2>2. \A i \in 1 .. la : 0 + i = i
    OBVIOUS
  <2>3. QED
    BY <1>1, <1>2, <1>3, <1>4, <2>1, <2>2 DEF Has
<1>7. \A i \in 1 .. m : p[k + i] \in Numerals
  <2>1. Range(num) = {num[i] : i \in 1 .. m}
    BY <1>3, TextFacts
  <2>2. \A i \in 1 .. m : num[i] \in class
    BY <2>1
  <2>3. class \subseteq Numerals
    BY DEF Numerals
  <2>4. QED
    BY <1>6, <2>2, <2>3
<1>8. DOMAIN p = 1 .. k + m + n
  BY <1>5, TextFacts
<1>9. \A i \in 1 .. k + m + n : p[i] = Each => i = k
  <2>1. TAKE i \in 1 .. k + m + n
  <2>2. \/ i \in 1 .. la \/ i = la + 1 \/ i - (la + 1) \in 1 .. lb
        \/ i = k \/ i - k \in 1 .. m \/ i - (k + m) \in 1 .. n
    BY <1>5
  <2>3. /\ (la + 1) + (i - (la + 1)) = i /\ k + (i - k) = i
        /\ (k + m) + (i - (k + m)) = i
    OBVIOUS
  <2>4. CASE i = la + 1
    BY <1>1, <2>4, Classes DEF And, Each
  <2>5. CASE i - k \in 1 .. m
    <3>1. p[i] \in Numerals
      BY <1>7, <2>3, <2>5
    <3>2. QED
      BY <3>1, Classes
  <2>6. CASE i - (k + m) \in 1 .. n
    <3>1. p[(k + m) + (i - (k + m))] = u[i - (k + m)]
      BY <1>6, <2>6
    <3>2. u[i - (k + m)] # Each
      BY <1>4, <2>6
    <3>3. QED
      BY <2>3, <3>1, <3>2
  <2>7. CASE i \in 1 .. la \/ i - (la + 1) \in 1 .. lb
    BY <1>6, <2>3, <2>7
  <2>8. QED
    BY <2>2, <2>4, <2>5, <2>6, <2>7
<1>10. \A i \in 1 .. k + m + n : p[i] = And /\ i < k => i = la + 1
  <2>1. TAKE i \in 1 .. k + m + n
  <2>2. HAVE p[i] = And /\ i < k
  <2>3. i \in 1 .. la \/ i = la + 1 \/ i - (la + 1) \in 1 .. lb
    BY <1>5, <2>2
  <2>4. (la + 1) + (i - (la + 1)) = i
    OBVIOUS
  <2>5. QED
    BY <1>6, <2>2, <2>3, <2>4
<1>11. Past(p, k + 1, {Space}) = k + 1
  <2>1. p[k + 1] # Space
    <3>1. 1 \in 1 .. m
      BY <1>5
    <3>2. QED
      BY <1>7, <3>1, Classes
  <2>2. k + 1 <= Size(p) + 1 /\ 1 <= k + 1 /\ k + 1 \in Nat
    BY <1>5
  <2>3. \A i \in Int : k + 1 <= i /\ i < k + 1 => p[i] \in {Space}
    OBVIOUS
  <2>4. QED
    BY <2>1, <2>2, <2>3, PastIs
<1>12. NumberAt(p, k + 1) /\ NumberFrom(p, k + 1) = num /\ UnitFrom(p, k + 1) = u
  <2>1. u # <<>> => u[1] \notin Numerals \cup {Space}
    <3>1. u # <<>> => 1 \in 1 .. n
      BY <1>4, TextFacts
    <3>2. QED
      BY <1>4, <3>1
  <2>2. QED
    BY <2>1, NumberIn
<1> DEFINE s == <<la + 1, k>>
<1>13. EachSplits(p) = {s}
  <2>1. s \in EachSplits(p)
    <3>1. s \in (DOMAIN p) \X (DOMAIN p) /\ s[1] = la + 1 /\ s[2] = k
      BY <1>5, <1>8
    <3>2. 1 < la + 1 /\ la + 1 + 1 < k
      BY <1>5
    <3>3. p[la + 1] = And
      BY <1>1
    <3> HIDE DEF s
    <3>4. QED
      BY <1>11, <1>12, <3>1, <3>2, <3>3 DEF EachSplits
  <2>2. ASSUME NEW t \in EachSplits(p)
        PROVE  t = s
    <3>1. /\ t \in (DOMAIN p) \X (DOMAIN p) /\ t[1] + 1 < t[2]
          /\ p[t[1]] = And /\ p[t[2]] = Each
      BY DEF EachSplits
    <3>2. t = <<t[1], t[2]>> /\ t[1] \in 1 .. k + m + n /\ t[2] \in 1 .. k + m + n
      BY <1>8, <3>1
    <3>3. t[2] = k
      BY <1>9, <3>1, <3>2
    <3>4. t[1] = la + 1
      BY <1>10, <3>1, <3>2, <3>3
    <3>5. QED
      BY <3>2, <3>3, <3>4
  <2>3. QED
    BY <2>1, <2>2
<1>14. s[1] = la + 1 /\ s[2] = k
  OBVIOUS
<1> HIDE DEF s
<1>15. Min({t[1] : t \in EachSplits(p)}) = la + 1
  <2>1. {t[1] : t \in EachSplits(p)} = {la + 1}
    BY <1>13, <1>14
  <2>2. Min({la + 1}) = la + 1
    BY MinOfOne
  <2>3. QED
    BY <2>1, <2>2, Zenon
<1>16. Min({t[2] : t \in {t \in EachSplits(p) : t[1] = la + 1}}) = k
  <2>1. {t[2] : t \in {t \in EachSplits(p) : t[1] = la + 1}} = {k}
    BY <1>13, <1>14
  <2>2. Min({k}) = k
    BY MinOfOne
  <2>3. QED
    BY <2>1, <2>2, Zenon
<1>17. SubSeq(p, 1, (la + 1) - 1) = a
  <2>1. 1 = 0 + 1 /\ (la + 1) - 1 = 0 + la
    OBVIOUS
  <2>2. Slice(p, 0 + 1, 0 + la) = a
    BY <1>1, HasSlice
  <2>3. QED
    BY <2>1, <2>2 DEF Slice
<1>18. SubSeq(p, (la + 1) + 1, k - 1) = b
  <2>1. k - 1 = (la + 1) + lb /\ la + 1 \in Nat
    BY <1>5
  <2>2. Slice(p, (la + 1) + 1, (la + 1) + lb) = b
    BY <1>1, <1>2, <2>1, HasSlice
  <2>3. QED
    BY <2>1, <2>2 DEF Slice
<1>19. EachLines(p) = <<Line(a, num, u), Line(b, num, u)>>
  BY <1>11, <1>12, <1>15, <1>16, <1>17, <1>18 DEF EachLines
<1>20. QED
  BY <1>13, <1>19 DEF PartLines, EachLinesOf

-----------------------------------------------------------------------------
(* The text of an item: what comes before its number, and behind it.       *)

Ahead(item) ==
  IF item.form = "name first" THEN Joined(Req(item), item.names[1])
  ELSE IF item.form = "each"
       THEN Joined(Joined(Joined(Joined(Req(item), item.names[1]), <<And>>), item.names[2]), <<Each>>)
       ELSE Req(item)

Behind(item) ==
  IF item.form = "count first" THEN Joined(item.unit, item.names[1])
  ELSE IF item.form = "count first, blank"
       THEN Joined(item.unit, Joined(<<Space>>, item.names[1]))
       ELSE item.unit

\* The text of an item, form by form.
LEMMA SaidText ==
  ASSUME NEW item
  PROVE  /\ item.form = "name first" =>
              ItemText(item) = Joined(Req(item), Joined(Joined(item.names[1], Spelled(item)), item.unit))
         /\ item.form = "count first" =>
              ItemText(item) = Joined(Req(item), Joined(Joined(Spelled(item), item.unit), item.names[1]))
         /\ item.form = "count first, blank" =>
              ItemText(item) = Joined(Req(item), Joined(Joined(Joined(Spelled(item), item.unit),
                                                               <<Space>>), item.names[1]))
         /\ item.form = "each" =>
              ItemText(item) = Joined(Req(item),
                Joined(Joined(Joined(Joined(Joined(item.names[1], <<And>>), item.names[2]), <<Each>>),
                              Spelled(item)), item.unit))
<1>1. ASSUME item.form = "name first"
      PROVE  ItemText(item) = Joined(Req(item), Joined(Joined(item.names[1], Spelled(item)), item.unit))
  BY <1>1 DEF ItemText, Joined, Req
<1>2. ASSUME item.form = "count first"
      PROVE  ItemText(item) = Joined(Req(item), Joined(Joined(Spelled(item), item.unit), item.names[1]))
  BY <1>2 DEF ItemText, Joined, Req
<1>3. ASSUME item.form = "count first, blank"
      PROVE  ItemText(item) = Joined(Req(item), Joined(Joined(Joined(Spelled(item), item.unit),
                                                              <<Space>>), item.names[1]))
  BY <1>3 DEF ItemText, Joined, Req
<1>4. ASSUME item.form = "each"
      PROVE  ItemText(item) = Joined(Req(item),
               Joined(Joined(Joined(Joined(Joined(item.names[1], <<And>>), item.names[2]), <<Each>>),
                             Spelled(item)), item.unit))
  BY <1>4 DEF ItemText, Joined, Req
<1>5. QED
  BY <1>1, <1>2, <1>3, <1>4

\* It is its front, its number and its back.
LEMMA ItemTextIs ==
  ASSUME NEW item, IsClear(item)
  PROVE  /\ IsText(Ahead(item)) /\ IsText(Behind(item))
         /\ ItemText(item) = Joined(Joined(Ahead(item), Spelled(item)), Behind(item))
<1> DEFINE q == Req(item)
           num == Spelled(item)
           u == item.unit
           n == item.names[1]
           l == item.names[2]
           blank == <<Space>>
           and == <<And>>
           each == <<Each>>
<1>1. item \in Items /\ item.form \in Forms
  BY ItemIs DEF IsClear
<1>2. IsText(q) /\ IsText(num) /\ IsText(u) /\ IsText(blank) /\ IsText(and) /\ IsText(each)
  BY ReqFacts, SpelledRead, UnitFacts, TinyTexts
<1>3. IsText(n)
  BY <1>1, NamesOf, NameFacts
<1>4. item.form = "each" => IsText(l)
  BY <1>1, NamesOf, NameFacts
<1>5. CASE item.form = "name first"
  <2>1. /\ Ahead(item) = Joined(q, n) /\ Behind(item) = u
        /\ ItemText(item) = Joined(q, Joined(Joined(n, num), u))
    BY <1>5, SaidText DEF Ahead, Behind
  <2> HIDE DEF q, num, u, n, l, blank, and, each
  <2>2. IsText(Joined(q, n)) /\ IsText(Joined(n, num))
    BY <1>2, <1>3, Concat
  <2>3. Joined(q, Joined(Joined(n, num), u)) = Joined(Joined(q, Joined(n, num)), u)
    BY <1>2, <2>2, JoinedAgain
  <2>4. Joined(q, Joined(n, num)) = Joined(Joined(q, n), num)
    BY <1>2, <1>3, JoinedAgain
  <2>5. QED
    BY <1>2, <2>1, <2>2, <2>3, <2>4 DEF num
<1>6. CASE item.form = "count first"
  <2>1. /\ Ahead(item) = q /\ Behind(item) = Joined(u, n)
        /\ ItemText(item) = Joined(q, Joined(Joined(num, u), n))
    BY <1>6, SaidText DEF Ahead, Behind
  <2> HIDE DEF q, num, u, n, l, blank, and, each
  <2>2. IsText(Joined(u, n))
    BY <1>2, <1>3, Concat
  <2>3. Joined(Joined(num, u), n) = Joined(num, Joined(u, n))
    BY <1>2, <1>3, JoinedAgain
  <2>4. Joined(q, Joined(num, Joined(u, n))) = Joined(Joined(q, num), Joined(u, n))
    BY <1>2, <2>2, JoinedAgain
  <2>5. QED
    BY <1>2, <2>1, <2>2, <2>3, <2>4 DEF num
<1>7. CASE item.form = "count first, blank"
  <2>1. /\ Ahead(item) = q /\ Behind(item) = Joined(u, Joined(blank, n))
        /\ ItemText(item) = Joined(q, Joined(Joined(Joined(num, u), blank), n))
    BY <1>7, SaidText DEF Ahead, Behind
  <2> HIDE DEF q, num, u, n, l, blank, and, each
  <2>2. IsText(Joined(blank, n)) /\ IsText(Joined(num, u))
    BY <1>2, <1>3, Concat
  <2>3. IsText(Joined(u, Joined(blank, n)))
    BY <1>2, <2>2, Concat
  <2>4. Joined(Joined(Joined(num, u), blank), n) = Joined(Joined(num, u), Joined(blank, n))
    BY <1>2, <1>3, <2>2, JoinedAgain
  <2>5. Joined(Joined(num, u), Joined(blank, n)) = Joined(num, Joined(u, Joined(blank, n)))
    BY <1>2, <2>2, JoinedAgain
  <2>6. Joined(q, Joined(num, Joined(u, Joined(blank, n))))
          = Joined(Joined(q, num), Joined(u, Joined(blank, n)))
    BY <1>2, <2>3, JoinedAgain
  <2>7. QED
    BY <1>2, <2>1, <2>3, <2>4, <2>5, <2>6 DEF num
<1>8. CASE item.form = "each"
  <2>1. /\ Ahead(item) = Joined(Joined(Joined(Joined(q, n), and), l), each) /\ Behind(item) = u
        /\ ItemText(item) = Joined(q, Joined(Joined(Joined(Joined(Joined(n, and), l), each), num), u))
    BY <1>8, SaidText DEF Ahead, Behind
  <2>0. IsText(l)
    BY <1>4, <1>8
  <2> HIDE DEF q, num, u, n, l, blank, and, each
  <2> DEFINE a == Joined(n, and)
             b == Joined(a, l)
             c == Joined(b, each)
             d == Joined(c, num)
  <2>2. IsText(a) /\ Joined(q, a) = Joined(Joined(q, n), and)
    BY <1>2, <1>3, Concat, JoinedAgain
  <2> HIDE DEF a
  <2>3. IsText(b) /\ Joined(q, b) = Joined(Joined(q, a), l)
    BY <1>2, <2>0, <2>2, Concat, JoinedAgain
  <2> HIDE DEF b
  <2>4. IsText(c) /\ Joined(q, c) = Joined(Joined(q, b), each)
    BY <1>2, <2>3, Concat, JoinedAgain
  <2>5. IsText(Joined(q, c))
    BY <1>2, <2>4, Concat
  <2> HIDE DEF c
  <2>6. IsText(d) /\ Joined(q, d) = Joined(Joined(q, c), num)
    BY <1>2, <2>4, Concat, JoinedAgain
  <2> HIDE DEF d
  <2>7. Joined(q, Joined(d, u)) = Joined(Joined(q, d), u)
    BY <1>2, <2>6, JoinedAgain
  <2>8. Ahead(item) = Joined(q, c)
    BY <2>1, <2>2, <2>3, <2>4
  <2>9. ItemText(item) = Joined(Joined(Joined(q, c), num), u)
    BY <2>1, <2>6, <2>7 DEF a, b, c, d
  <2>10. QED
    BY <1>2, <2>1, <2>5, <2>8, <2>9 DEF num
<1>9. QED
  BY <1>1, <1>5, <1>6, <1>7, <1>8 DEF Forms

\* Texts that are free of lexemes stay so when they are put together (TinyFree,
\* JoinedFree).
LEMMA FreeOfFewer ==
  ASSUME NEW s, NEW S, NEW T, Free(s, S), T \subseteq S
  PROVE  Free(s, T)
BY DEF Free

LEMMA TinyFree ==
  ASSUME NEW x, NEW S, x \notin S
  PROVE  Free(<<x>>, S)
<1> DEFINE y == <<x>>
<1>1. Size(y) = 1 /\ y[1] = x
  BY TinyTexts
<1> HIDE DEF y
<1>2. Free(y, S)
  BY <1>1 DEF Free
<1>3. QED
  BY <1>2 DEF y

LEMMA JoinedFree ==
  ASSUME NEW a, NEW b, NEW S, IsText(a), IsText(b), Free(a, S), Free(b, S)
  PROVE  Free(Joined(a, b), S)
<1>1. PICK m \in Nat : Size(a) = m
  BY TextFacts
<1>2. PICK n \in Nat : Size(b) = n
  BY TextFacts
<1>3. \A i \in 1 .. m : Joined(a, b)[i] \notin S
  BY <1>1, <1>2, ConcatParts DEF Free
<1>4. \A i \in 1 .. n : Joined(a, b)[m + i] \notin S
  BY <1>1, <1>2, ConcatParts DEF Free
<1>5. Size(Joined(a, b)) = m + n
  BY <1>1, <1>2, Concat
<1>6. \A i \in 1 .. m + n : Joined(a, b)[i] \notin S
  <2>1. TAKE i \in 1 .. m + n
  <2>2. i \in 1 .. m \/ i - m \in 1 .. n
    OBVIOUS
  <2>3. m + (i - m) = i
    OBVIOUS
  <2>4. QED
    BY <1>3, <1>4, <2>2, <2>3
<1>7. QED
  BY <1>5, <1>6 DEF Free

\* The ends of two texts put together.
LEMMA JoinedEnds ==
  ASSUME NEW a, NEW b, IsText(a), IsText(b)
  PROVE  /\ a # <<>> => Joined(a, b) # <<>> /\ Joined(a, b)[1] = a[1]
         /\ b # <<>> => /\ Joined(a, b) # <<>>
                        /\ Joined(a, b)[Size(Joined(a, b))] = b[Size(b)]
<1>1. PICK m \in Nat : Size(a) = m
  BY TextFacts
<1>2. PICK n \in Nat : Size(b) = n
  BY TextFacts
<1> DEFINE p == Joined(a, b)
<1>3. IsText(p) /\ Size(p) = m + n
  BY <1>1, <1>2, Concat
<1>4. /\ \A i \in 1 .. m : p[i] = a[i]
      /\ \A i \in 1 .. n : p[m + i] = b[i]
  BY <1>1, <1>2, ConcatParts
<1> HIDE DEF p
<1>5. ASSUME a # <<>>
      PROVE  p # <<>> /\ p[1] = a[1]
  <2>1. m > 0
    BY <1>1, <1>5, TextFacts
  <2>2. 1 \in 1 .. m /\ m + n # 0
    BY <2>1
  <2>3. QED
    BY <1>3, <1>4, <2>2, TextFacts
<1>6. ASSUME b # <<>>
      PROVE  p # <<>> /\ p[Size(p)] = b[Size(b)]
  <2>1. n > 0
    BY <1>2, <1>6, TextFacts
  <2>2. n \in 1 .. n /\ m + n # 0
    BY <2>1
  <2>3. QED
    BY <1>2, <1>3, <1>4, <2>2, TextFacts
<1>7. QED
  BY <1>5, <1>6 DEF p

\* What is not in the pieces of a clear item.
LEMMA PiecesFree ==
  ASSUME NEW item, IsClear(item)
  PROVE  /\ Free(Req(item), {Space, NewLine, And, Each} \cup Numerals)
         /\ \A k \in DOMAIN item.names : Free(item.names[k], {Space, NewLine, And, Each})
         /\ Free(Spelled(item), {Space, NewLine, And, Each, Request})
         /\ Free(item.unit, Numerals \cup {Space, NewLine, Each})
<1>1. item \in Items
  BY DEF IsClear
<1>2. Free(Req(item), {Space, NewLine, And, Each} \cup Numerals)
  <2>1. Request \notin {Space, NewLine, And, Each} \cup Numerals
    BY Classes DEF Request, Space, NewLine, And, Each
  <2>2. QED
    BY <2>1, ReqFacts DEF Free
<1>3. \A k \in DOMAIN item.names : Free(item.names[k], {Space, NewLine, And, Each})
  BY <1>1, NameFacts DEF Free
<1>4. Free(Spelled(item), {Space, NewLine, And, Each, Request})
  <2>1. IsText(Spelled(item)) /\ Range(Spelled(item)) \subseteq Numerals
    BY SpelledRead DEF Numerals
  <2>2. \A i \in 1 .. Size(Spelled(item)) : Spelled(item)[i] \in Numerals
    BY <2>1, TextFacts
  <2>3. QED
    BY <2>2, Classes DEF Free
<1>5. Free(item.unit, Numerals \cup {Space, NewLine, Each})
  BY UnitFacts DEF Free
<1>6. QED
  BY <1>2, <1>3, <1>4, <1>5

\* What comes before the number of a clear item.
LEMMA FrontFacts ==
  ASSUME NEW item, IsClear(item)
  PROVE  /\ Free(Ahead(item), {Space, NewLine})
         /\ item.form # "each" => Free(Ahead(item), {And, Each})
         /\ item.form \in {"name first", "each"} =>
              /\ Ahead(item) # <<>>
              /\ Ahead(item)[Size(Ahead(item))] \notin Class(item) \cup {Space, NewLine}
         /\ item.form \notin {"name first", "each"} => Ahead(item) = Req(item)
<1> DEFINE q == Req(item)
           n == item.names[1]
           l == item.names[2]
           and == <<And>>
           each == <<Each>>
           none == {Space, NewLine}
           words == {And, Each}
<1>1. item \in Items /\ item.form \in Forms
  BY ItemIs DEF IsClear
<1>2. IsText(q) /\ IsText(and) /\ IsText(each)
  BY ReqFacts, TinyTexts
<1>3. /\ IsText(n) /\ n # <<>> /\ Free(n, none) /\ Free(n, words)
      /\ item.form = "each" => IsText(l) /\ l # <<>> /\ Free(l, none)
  <2>1. 1 \in DOMAIN item.names /\ (item.form = "each" => 2 \in DOMAIN item.names)
    BY <1>1, NamesOf
  <2>2. \A k \in DOMAIN item.names :
          IsText(item.names[k]) /\ item.names[k] # <<>>
    BY <1>1, NameFacts
  <2>3. \A k \in DOMAIN item.names :
          Free(item.names[k], none) /\ Free(item.names[k], words)
    BY PiecesFree, FreeOfFewer
  <2>4. QED
    BY <2>1, <2>2, <2>3
<1>4. Free(q, none) /\ Free(q, words)
  BY PiecesFree, FreeOfFewer
<1>5. CASE item.form = "name first"
  <2>1. Ahead(item) = Joined(q, n)
    BY <1>5 DEF Ahead
  <2>2. n[Size(n)] \notin Class(item)
    <3>1. /\ Last(n) \in Digits => ~item.digits
          /\ Last(n) \in Chinese => item.digits
      BY <1>5 DEF IsClear, NameIsClear
    <3>2. Last(n) = n[Size(n)]
      BY DEF Last, Size
    <3>3. QED
      BY <1>1, <3>1, <3>2, ItemIs DEF Class
  <2>3. n[Size(n)] \notin none
    <3>1. Size(n) \in 1 .. Size(n)
      <4>1. PICK m \in Nat : Size(n) = m
        BY <1>3, TextFacts
      <4>2. m > 0
        BY <1>3, <4>1, TextFacts
      <4>3. QED
        BY <4>1, <4>2
    <3>2. QED
      BY <1>3, <3>1 DEF Free
  <2> HIDE DEF q, n, l, and, each, none, words
  <2>4. Free(Joined(q, n), none) /\ Free(Joined(q, n), words)
    BY <1>2, <1>3, <1>4, JoinedFree
  <2>5. Joined(q, n) # <<>> /\ Joined(q, n)[Size(Joined(q, n))] = n[Size(n)]
    BY <1>2, <1>3, JoinedEnds
  <2>6. QED
    BY <1>5, <2>1, <2>2, <2>3, <2>4, <2>5 DEF none, words
<1>6. CASE item.form = "each"
  <2>1. Ahead(item) = Joined(Joined(Joined(Joined(q, n), and), l), each)
    BY <1>6 DEF Ahead
  <2>2. Free(and, none) /\ Free(each, none)
    <3>1. And \notin none /\ Each \notin none
      BY DEF And, Each, Space, NewLine
    <3> HIDE DEF none
    <3>2. QED
      BY <3>1, TinyFree
  <2>3. each # <<>> /\ each[Size(each)] = Each
    BY TinyTexts
  <2>4. Each \notin Class(item) \cup none
    BY SpelledRead, Classes DEF Each, Space, NewLine
  <2> HIDE DEF q, n, l, and, each, none, words
  <2> DEFINE a == Joined(q, n)
             b == Joined(a, and)
             c == Joined(b, l)
             d == Joined(c, each)
  <2>5. IsText(a) /\ Free(a, none)
    BY <1>2, <1>3, <1>4, Concat, JoinedFree
  <2> HIDE DEF a
  <2>6. IsText(b) /\ Free(b, none)
    BY <1>2, <2>2, <2>5, Concat, JoinedFree
  <2> HIDE DEF b
  <2>7. IsText(c) /\ Free(c, none)
    BY <1>3, <1>6, <2>6, Concat, JoinedFree
  <2> HIDE DEF c
  <2>8. Free(d, none) /\ d # <<>> /\ d[Size(d)] = Each
    BY <1>2, <2>2, <2>3, <2>7, JoinedFree, JoinedEnds
  <2> HIDE DEF d
  <2>9. Ahead(item) = d
    BY <2>1 DEF a, b, c, d
  <2>10. QED
    BY <1>6, <2>4, <2>8, <2>9 DEF none
<1>7. CASE item.form \notin {"name first", "each"}
  <2>1. Ahead(item) = q
    BY <1>7 DEF Ahead
  <2>2. QED
    BY <1>4, <1>7, <2>1
<1>8. QED
  BY <1>5, <1>6, <1>7

\* When the unit of a clear item is listed.
LEMMA UnitListed ==
  ASSUME NEW item, IsClear(item)
  PROVE  /\ ListedUnit(item.unit) <=> item.unit = <<>> \/ ListedItem(item)
         /\ item.form \in {"count first", "count first, blank"} => ListedItem(item)
<1>1. IsText(item.unit)
  BY UnitFacts
<1>2. ListedItem(item) => Size(item.unit) = 1 /\ item.unit[1] \in Listed
  BY TinyTexts DEF ListedItem
<1>3. ASSUME Size(item.unit) = 1, item.unit[1] \in Listed
      PROVE  ListedItem(item)
  <2>1. PICK x \in Listed : item.unit[1] = x
    BY <1>3
  <2> DEFINE y == <<x>>
  <2>2. IsText(y) /\ Size(y) = 1 /\ y[1] = x
    BY TinyTexts
  <2> HIDE DEF y
  <2>3. \A i \in 1 .. 1 : item.unit[i] = y[i]
    BY <2>1, <2>2
  <2>4. item.unit = y
    BY <1>1, <1>3, <2>2, <2>3, SameText
  <2>5. QED
    BY <2>1, <2>4 DEF ListedItem, y
<1>4. item.form \in {"count first", "count first, blank"} => ListedItem(item)
  BY DEF IsClear, UnitIsClear
<1>5. QED
  BY <1>2, <1>3, <1>4, ListedIs

\* What comes behind the number of a clear item.
LEMMA BackFacts ==
  ASSUME NEW item, IsClear(item)
  PROVE  /\ Free(Behind(item), {NewLine, Each})
         /\ item.form # "count first, blank" => Free(Behind(item), {Space})
         /\ item.form = "count first, blank" =>
              /\ Size(Behind(item)) \in Nat /\ Size(Behind(item)) > 2 /\ Behind(item)[2] = Space
              /\ \A i \in 1 .. Size(Behind(item)) : Behind(item)[i] = Space => i = 2
         /\ item.form \in {"count first", "count first, blank"} =>
              /\ Behind(item) # <<>> /\ Behind(item)[1] \in Listed
              /\ Behind(item)[Size(Behind(item))] # Space
         /\ item.form \in {"name first", "each"} => Behind(item) = item.unit
<1> DEFINE u == item.unit
           n == item.names[1]
           blank == <<Space>>
           none == {NewLine, Each}
           space == {Space}
<1>1. item \in Items /\ item.form \in Forms
  BY ItemIs DEF IsClear
<1>2. IsText(u) /\ IsText(blank) /\ Free(u, none) /\ Free(u, space)
  BY UnitFacts, TinyTexts, PiecesFree, FreeOfFewer
<1>3. IsText(n) /\ n # <<>> /\ Free(n, none) /\ Free(n, space)
  <2>1. 1 \in DOMAIN item.names
    BY <1>1, NamesOf
  <2>2. Free(n, {Space, NewLine, And, Each})
    BY <2>1, PiecesFree
  <2>3. Free(n, none) /\ Free(n, space)
    BY <2>2, FreeOfFewer
  <2>4. QED
    BY <1>1, <2>1, <2>3, NameFacts
<1>4. n[Size(n)] # Space
  <2>1. PICK m \in Nat : Size(n) = m
    BY <1>3, TextFacts
  <2>2. m > 0
    BY <1>3, <2>1, TextFacts
  <2>3. m \in 1 .. m
    BY <2>2
  <2>4. QED
    BY <1>3, <2>1, <2>3 DEF Free
<1>5. CASE item.form \in {"name first", "each"}
  <2>1. Behind(item) = u
    BY <1>5 DEF Behind
  <2>2. QED
    BY <1>2, <1>5, <2>1
<1>6. CASE item.form = "count first"
  <2>1. Behind(item) = Joined(u, n)
    BY <1>6 DEF Behind
  <2>2. PICK x \in Listed : u = <<x>>
    BY <1>6, UnitListed DEF ListedItem
  <2>3. u # <<>> /\ u[1] \in Listed
    BY <2>2
  <2> HIDE DEF u, n, none, space
  <2>4. Free(Joined(u, n), none) /\ Free(Joined(u, n), space)
    BY <1>2, <1>3, JoinedFree
  <2>5. /\ Joined(u, n) # <<>> /\ Joined(u, n)[1] \in Listed
        /\ Joined(u, n)[Size(Joined(u, n))] # Space
    BY <1>2, <1>3, <1>4, <2>3, JoinedEnds
  <2>6. QED
    BY <1>6, <2>1, <2>4, <2>5 DEF none, space
<1>7. CASE item.form = "count first, blank"
  <2>1. Behind(item) = Joined(u, Joined(blank, n))
    BY <1>7 DEF Behind
  <2>2. PICK x \in Listed : u = <<x>>
    BY <1>7, UnitListed DEF ListedItem
  <2>3. u # <<>> /\ Size(u) = 1 /\ u[1] \in Listed /\ u[1] # Space
    BY <2>2, TinyTexts, Classes
  <2>4. Size(blank) = 1 /\ blank[1] = Space /\ Free(blank, none)
    <3>1. Space \notin none
      BY DEF Space, NewLine, Each
    <3> HIDE DEF none
    <3>2. QED
      BY <3>1, TinyTexts, TinyFree
  <2>5. PICK m \in Nat : Size(n) = m
    BY <1>3, TextFacts
  <2>6. m > 0
    BY <1>3, <2>5, TextFacts
  <2> HIDE DEF u, n, none, space, blank
  <2> DEFINE w == Joined(blank, n)
             b == Joined(u, w)
  <2>7. IsText(w) /\ Size(w) = 1 + m /\ Free(w, none)
    BY <1>2, <1>3, <2>4, <2>5, Concat, JoinedFree
  <2>8. /\ \A i \in 1 .. 1 : w[i] = blank[i]
        /\ \A i \in 1 .. m : w[1 + i] = n[i]
    BY <1>2, <1>3, <2>4, <2>5, ConcatParts
  <2>9. w # <<>> /\ w[Size(w)] # Space
    BY <1>2, <1>3, <1>4, JoinedEnds
  <2> HIDE DEF w
  <2>10. IsText(b) /\ Size(b) = 1 + (1 + m) /\ Free(b, none)
    BY <1>2, <2>3, <2>7, Concat, JoinedFree
  <2>11. /\ \A i \in 1 .. 1 : b[i] = u[i]
         /\ \A i \in 1 .. 1 + m : b[1 + i] = w[i]
    <3>1. 1 + m \in Int
      BY <2>6
    <3>2. QED
      BY <1>2, <2>3, <2>7, <3>1, ConcatParts
  <2>12. b # <<>> /\ b[1] \in Listed /\ b[Size(b)] # Space
    BY <1>2, <2>3, <2>7, <2>9, JoinedEnds
  <2> HIDE DEF b
  <2>13. b[2] = Space
    <3>1. 1 \in 1 .. 1 + m /\ 1 + 1 = 2
      BY <2>6
    <3>2. b[1 + 1] = w[1]
      BY <2>11, <3>1
    <3>3. QED
      BY <2>4, <2>8, <3>1, <3>2
  <2>14. \A i \in 1 .. 1 + (1 + m) : b[i] = Space => i = 2
    <3>1. TAKE i \in 1 .. 1 + (1 + m)
    <3>2. CASE i = 1
      BY <2>3, <2>11, <3>2
    <3>3. CASE i > 2
      <4>1. /\ i - 1 \in 1 .. 1 + m /\ 1 + (i - 1) = i
            /\ i - 2 \in 1 .. m /\ 1 + (i - 2) = i - 1
        BY <3>3
      <4>2. b[i] = n[i - 2]
        BY <2>8, <2>11, <4>1
      <4>3. QED
        BY <1>3, <2>5, <4>1, <4>2 DEF Free, space
    <3>4. QED
      BY <3>2, <3>3
  <2>15. Size(b) \in Nat /\ Size(b) > 2
    BY <2>6, <2>10
  <2>16. Behind(item) = b
    BY <2>1 DEF b, w
  <2>17. QED
    BY <1>7, <2>10, <2>12, <2>13, <2>14, <2>15, <2>16 DEF none
<1>8. QED
  BY <1>1, <1>5, <1>6, <1>7 DEF Forms

\* What the text of an item is read as.
LEMMA MeantIs ==
  ASSUME NEW item \in Items
  PROVE  /\ item.form # "each" =>
              MeantLines(item) =
                <<[name |-> item.names[1], quantity |-> item.count, unit |-> item.unit]>>
         /\ item.form = "each" =>
              MeantLines(item) =
                <<[name |-> item.names[1], quantity |-> item.count, unit |-> item.unit],
                  [name |-> item.names[2], quantity |-> item.count, unit |-> item.unit]>>
<1>1. CASE item.form # "each"
  <2>1. DOMAIN item.names = {1}
    BY <1>1, NamesOf
  <2>2. QED
    BY <1>1, <2>1 DEF MeantLines
<1>2. CASE item.form = "each"
  <2>1. DOMAIN item.names = {1, 2}
    BY <1>2, NamesOf
  <2>2. QED
    BY <1>2, <2>1 DEF MeantLines
<1>3. QED
  BY <1>1, <1>2

\* A line of what is meant, with the name cleaned.
LEMMA LineIs ==
  ASSUME NEW item, IsClear(item), NEW k \in DOMAIN item.names,
         NEW a, CleanName(a) = item.names[k]
  PROVE  Line(a, Spelled(item), item.unit)
           = [name |-> item.names[k], quantity |-> item.count, unit |-> item.unit]
<1>1. Quantity(Spelled(item)) = item.count
  BY SpelledRead
<1>2. QED
  BY <1>1, Zenon DEF Line

\* How an item is said.
NameFirst(item) == item.form = "name first"
SaysEach(item) == item.form = "each"

\* Only an item of two names says "each".
LEMMA NoEachSaid ==
  ASSUME NEW item, IsClear(item), ~SaysEach(item)
  PROVE  IsText(ItemText(item)) /\ Each \notin Range(ItemText(item))
<1> DEFINE a == Ahead(item)
           num == Spelled(item)
           b == Behind(item)
           none == {Each}
<1>1. /\ IsText(a) /\ IsText(num) /\ IsText(b)
      /\ ItemText(item) = Joined(Joined(a, num), b)
  BY ItemTextIs, SpelledRead
<1>2. Free(a, none) /\ Free(num, none) /\ Free(b, none)
  <2>1. Free(a, {And, Each})
    BY FrontFacts DEF SaysEach
  <2>2. Free(num, {Space, NewLine, And, Each, Request}) /\ Free(b, {NewLine, Each})
    BY PiecesFree, BackFacts
  <2>3. none \subseteq {And, Each} /\ none \subseteq {NewLine, Each}
        /\ none \subseteq {Space, NewLine, And, Each, Request}
    OBVIOUS
  <2> HIDE DEF a, num, b, none
  <2>4. QED
    BY <2>1, <2>2, <2>3, FreeOfFewer
<1> HIDE DEF a, num, b, none
<1>3. IsText(Joined(a, num)) /\ Free(Joined(a, num), none)
  BY <1>1, <1>2, Concat, JoinedFree
<1> DEFINE c == Joined(a, num)
<1> HIDE DEF c
<1>4. IsText(Joined(c, b)) /\ Free(Joined(c, b), none)
  BY <1>1, <1>2, <1>3, Concat, JoinedFree DEF c
<1> DEFINE p == Joined(c, b)
<1> HIDE DEF p
<1>5. Range(p) = {p[i] : i \in 1 .. Size(p)}
  BY <1>4, TextFacts DEF p
<1>6. Each \notin Range(p)
  BY <1>4, <1>5 DEF Free, none, p
<1>7. QED
  BY <1>1, <1>4, <1>6 DEF p, c

\* A clear item whose name comes first is read as it is meant.
LEMMA NameFirstItemRead ==
  ASSUME NEW item, IsClear(item), NameFirst(item)
  PROVE  PartLines(ItemText(item)) = MeantLines(item)
<1> DEFINE q == Req(item)
           n == item.names[1]
           num == Spelled(item)
           u == item.unit
           a == Joined(q, n)
           p == ItemText(item)
<1>1. item \in Items /\ 1 \in DOMAIN item.names
  BY NamesOf DEF IsClear
<1>2. IsText(q) /\ IsText(n) /\ n # <<>> /\ IsText(num) /\ num # <<>> /\ IsText(u)
  BY <1>1, ReqFacts, NameFacts, SpelledRead, UnitFacts
<1>3. /\ p = Joined(q, Joined(Joined(n, num), u)) /\ p = Joined(Joined(a, num), u)
      /\ a = Ahead(item)
  BY SaidText, ItemTextIs DEF Ahead, Behind, NameFirst
<1>4. a # <<>> /\ a[Size(a)] \notin Class(item)
  BY <1>3, FrontFacts DEF NameFirst
<1>5. Class(item) \in {Digits, Chinese} /\ Range(num) \subseteq Class(item)
  BY SpelledRead
<1>6. AnyUnit(u) /\ \A i \in 1 .. Size(u) : u[i] \notin Numerals \cup {Space}
  BY UnitFacts
<1>7. IsText(p) /\ Each \notin Range(p)
  BY NoEachSaid DEF NameFirst, SaysEach
<1>8. n[1] # Request /\ \A i \in 1 .. Size(n) : n[i] # Space
  BY <1>1, NameFacts DEF IsClear, NameIsClear, NameFirst
<1>9. ~BeginsCounted(n)
  BY DEF IsClear, NameIsClear, NameFirst
<1>10. ASSUME ~ListedUnit(u)
       PROVE  Free(a, Numerals)
  <2>1. Range(n) \cap Numerals = {}
    BY <1>10, UnitListed DEF IsClear, NameIsClear, NameFirst
  <2>2. Range(n) = {n[i] : i \in 1 .. Size(n)}
    BY <1>2, TextFacts
  <2>3. Free(n, Numerals)
    BY <2>1, <2>2 DEF Free
  <2>4. Free(q, Numerals)
    <3>1. Free(q, {Space, NewLine, And, Each} \cup Numerals)
      BY PiecesFree
    <3>2. QED
      BY <3>1, FreeOfFewer
  <2>5. QED
    BY <1>2, <2>3, <2>4, JoinedFree
<1>11. Last(n) = n[Size(n)]
  BY DEF Last, Size
<1>12. n[Size(n)] \notin Class(item)
  BY <1>2, <1>4, JoinedEnds
<1>13. CleanName(a) = n
  BY <1>1, RequestLeftOut
<1> HIDE DEF q, n, num, u
<1>14. FirstNumber(p) = Size(q) + 1
  <2> DEFINE b == Joined(Joined(n, num), u)
  <2>1. IsText(Joined(n, num)) /\ Joined(n, num) # <<>> /\ Joined(n, num)[1] = n[1]
    BY <1>2, Concat, JoinedEnds
  <2>2. IsText(b) /\ b # <<>> /\ b[1] = n[1]
    BY <1>2, <2>1, Concat, JoinedEnds
  <2>3. n[1] # Space
    <3>1. PICK m \in Nat : Size(n) = m
      BY <1>2, TextFacts
    <3>2. m > 0
      BY <1>2, <3>1, TextFacts
    <3>3. 1 \in 1 .. m
      BY <3>2
    <3>4. QED
      BY <1>8, <3>1, <3>3
  <2> HIDE DEF b
  <2>4. FirstNumber(Joined(q, b)) = Size(q) + 1
    BY <1>8, <2>2, <2>3, FirstNumberIs DEF q
  <2>5. QED
    BY <1>3, <2>4 DEF b
<1>15. IsText(a) /\ Size(a) = Size(q) + Size(n) /\ Has(a, Size(q), n)
  BY <1>2, Concat, ConcatHas
<1> HIDE DEF a, p
<1>16. /\ Size(p) = Size(a) + Size(num) + Size(u) /\ Has(p, 0, a)
       /\ Has(p, Size(a), num) /\ Has(p, Size(a) + Size(num), u)
  BY <1>2, <1>3, <1>15, ThreeHas
<1>17. ~QuantityFirst(p)
  <2>1. PICK r \in Nat : Size(q) = r
    BY <1>2, TextFacts
  <2>2. PICK m \in Nat : Size(n) = m
    BY <1>2, TextFacts
  <2>3. PICK k \in Nat : Size(num) = k
    BY <1>2, TextFacts
  <2>4. PICK o \in Nat : Size(u) = o
    BY <1>2, TextFacts
  <2>5. k > 0
    BY <1>2, <2>3, TextFacts
  <2> DEFINE l == r + m + 1
  <2>6. l \in Nat /\ l <= Size(p)
    BY <1>15, <1>16, <2>1, <2>2, <2>3, <2>4, <2>5
  <2>7. Has(p, r, n)
    <3>1. Has(p, 0 + r, n)
      BY <1>2, <1>7, <1>15, <1>16, <2>1, HasBehind
    <3>2. 0 + r = r
      OBVIOUS
    <3>3. QED
      BY <3>1, <3>2
  <2>8. p[l] \in Class(item)
    <3>1. Range(num) = {num[i] : i \in 1 .. k}
      BY <1>2, <2>3, TextFacts
    <3>2. Size(a) + 1 = l /\ 1 \in 1 .. k
      BY <1>15, <2>1, <2>2, <2>5
    <3>3. p[Size(a) + 1] = num[1]
      BY <1>16, <2>3, <3>2 DEF Has
    <3>4. QED
      BY <1>5, <3>1, <3>2, <3>3
  <2>9. r + Size(n) + 1 = l
    BY <2>2
  <2>10. FirstNumber(p) = r + 1
    BY <1>14, <2>1
  <2> HIDE DEF l
  <2>11. QED
    BY <1>2, <1>5, <1>7, <1>8, <1>9, <1>12, <2>6, <2>7, <2>8, <2>9, <2>10, NotCounted
<1>18. PartLines(p) = <<Line(a, num, u)>>
  BY <1>2, <1>4, <1>5, <1>6, <1>7, <1>10, <1>15, <1>16, <1>17, NameFirstRead DEF Free
<1>19. Line(a, num, u) = [name |-> n, quantity |-> item.count, unit |-> u]
  BY <1>1, <1>13, LineIs DEF n, num, u
<1>20. QED
  BY <1>1, <1>18, <1>19, MeantIs DEF n, u, p, NameFirst

CountFirst(item) == item.form \in {"count first", "count first, blank"}

\* A clear item whose number comes first is read as it is meant.
LEMMA CountFirstItemRead ==
  ASSUME NEW item, IsClear(item), CountFirst(item)
  PROVE  PartLines(ItemText(item)) = MeantLines(item)
<1> DEFINE q == Req(item)
           n == item.names[1]
           num == Spelled(item)
           u == item.unit
           p == ItemText(item)
<1>1. item \in Items /\ 1 \in DOMAIN item.names
  BY NamesOf DEF IsClear
<1>2. IsText(q) /\ IsText(n) /\ n # <<>> /\ IsText(num) /\ num # <<>> /\ IsText(u)
  BY <1>1, ReqFacts, NameFacts, SpelledRead, UnitFacts
<1>3. Class(item) \in {Digits, Chinese} /\ Range(num) \subseteq Class(item)
  BY SpelledRead
<1>4. IsText(p) /\ Each \notin Range(p)
  BY NoEachSaid DEF CountFirst, SaysEach
<1>5. PICK x \in Listed : u = <<x>>
  BY UnitListed DEF CountFirst, ListedItem
<1>6. PICK w : IsText(w) /\ w # <<>> /\ CleanName(w) = n /\ Behind(item) = Joined(u, w)
  <2>1. CASE item.form = "count first"
    <3>1. Behind(item) = Joined(u, n)
      BY <2>1 DEF Behind
    <3>2. CleanName(n) = n
      BY <1>1, RequestLeftOut
    <3>3. QED
      BY <1>2, <3>1, <3>2
  <2>2. CASE item.form = "count first, blank"
    <3>1. Behind(item) = Joined(u, Joined(<<Space>>, n))
      BY <2>2 DEF Behind
    <3>2. CleanName(Joined(<<Space>>, n)) = n
      BY <1>1, RequestLeftOut
    <3>3. IsText(<<Space>>)
      BY TinyTexts
    <3> DEFINE w == Joined(<<Space>>, n)
    <3>4. IsText(w) /\ w # <<>>
      BY <1>2, <3>3, Concat, JoinedEnds
    <3>5. QED
      BY <3>1, <3>2, <3>4
  <2>3. QED
    BY <2>1, <2>2 DEF CountFirst
<1>7. p = Joined(Joined(q, num), Joined(<<x>>, w))
  <2>1. Ahead(item) = q
    BY DEF CountFirst, Ahead
  <2>2. QED
    BY <1>5, <1>6, <2>1, ItemTextIs
<1>8. num[1] # Request /\ num[1] # Space
  <2>1. PICK m \in Nat : Size(num) = m
    BY <1>2, TextFacts
  <2>2. m > 0
    BY <1>2, <2>1, TextFacts
  <2>3. 1 \in 1 .. m
    BY <2>2
  <2>4. \A i \in 1 .. Size(num) : num[i] \notin {Space, NewLine, And, Each, Request}
    BY PiecesFree DEF Free
  <2>5. QED
    BY <2>1, <2>3, <2>4
<1> HIDE DEF q, n, num, p
<1> DEFINE rest == Joined(<<x>>, w)
<1>9. IsText(rest)
  BY <1>6, TinyTexts, Concat
<1> HIDE DEF rest
<1>10. p = Joined(Joined(q, num), rest)
  BY <1>7 DEF rest
<1>11. FirstNumber(p) = Size(q) + 1
  <2> DEFINE b == Joined(num, rest)
  <2>1. IsText(b) /\ b # <<>> /\ b[1] = num[1]
    BY <1>2, <1>9, Concat, JoinedEnds
  <2>2. p = Joined(q, b)
    BY <1>2, <1>9, <1>10, JoinedAgain
  <2> HIDE DEF b
  <2>3. QED
    BY <1>8, <2>1, <2>2, FirstNumberIs DEF q
<1>12. /\ Size(p) = Size(q) + Size(num) + Size(rest)
       /\ Has(p, Size(q), num) /\ Has(p, Size(q) + Size(num), rest)
  BY <1>2, <1>9, <1>10, ThreeHas
<1>13. PartLines(p) = <<Line(w, num, <<x>>)>>
  <2>1. Size(q) \in Nat
    BY <1>2, TextFacts
  <2>2. QED
    BY <1>2, <1>3, <1>4, <1>6, <1>11, <1>12, <2>1, CountFirstRead DEF rest
<1>14. Line(w, num, u) = [name |-> n, quantity |-> item.count, unit |-> u]
  BY <1>1, <1>6, LineIs DEF n, num
<1>15. PartLines(p) = <<[name |-> n, quantity |-> item.count, unit |-> u]>>
  BY <1>5, <1>13, <1>14
<1>16. QED
  BY <1>1, <1>15, MeantIs DEF n, p, CountFirst

\* A text, a lexeme, a text and a lexeme.
LEMMA FourHas ==
  ASSUME NEW a, NEW b, NEW x, NEW y, IsText(a), IsText(b)
  PROVE  LET f == Joined(Joined(Joined(a, <<x>>), b), <<y>>) IN
         /\ IsText(f) /\ Size(f) = Size(a) + Size(b) + 2
         /\ Has(f, 0, a) /\ f[Size(a) + 1] = x /\ Has(f, Size(a) + 1, b)
         /\ f[Size(a) + Size(b) + 2] = y
<1>1. PICK m \in Nat : Size(a) = m
  BY TextFacts
<1>2. PICK n \in Nat : Size(b) = n
  BY TextFacts
<1> DEFINE t == <<x>>
           v == <<y>>
           c == Joined(Joined(a, t), b)
           f == Joined(c, v)
<1>3. IsText(t) /\ Size(t) = 1 /\ t[1] = x /\ IsText(v) /\ Size(v) = 1 /\ v[1] = y
  BY TinyTexts
<1> HIDE DEF t, v
<1>4. /\ IsText(c) /\ Size(c) = m + 1 + n
      /\ Has(c, 0, a) /\ Has(c, m, t) /\ Has(c, m + 1, b)
  BY <1>1, <1>2, <1>3, ThreeHas
<1> HIDE DEF c
<1>5. IsText(f) /\ Size(f) = (m + 1 + n) + 1 /\ Has(f, 0, c) /\ Has(f, m + 1 + n, v)
  BY <1>3, <1>4, Concat, ConcatHas
<1> HIDE DEF f
<1>6. Has(f, 0 + 0, a) /\ Has(f, 0 + m, t) /\ Has(f, 0 + (m + 1), b)
  <2>1. m + 1 \in Nat
    OBVIOUS
  <2>2. QED
    BY <1>1, <1>2, <1>3, <1>4, <1>5, <2>1, HasBehind
<1>7. f[m + 1] = x
  <2>1. f[(0 + m) + 1] = t[1]
    BY <1>3, <1>6 DEF Has
  <2>2. QED
    BY <1>3, <2>1
<1>8. f[m + n + 2] = y
  <2>1. f[(m + 1 + n) + 1] = v[1]
    BY <1>3, <1>5 DEF Has
  <2>2. (m + 1 + n) + 1 = m + n + 2
    OBVIOUS
  <2>3. QED
    BY <1>3, <2>1, <2>2
<1>9. QED
  BY <1>1, <1>2, <1>5, <1>6, <1>7, <1>8 DEF f, c, t, v

\* A clear item of two names is read as it is meant.
LEMMA EachItemRead ==
  ASSUME NEW item, IsClear(item), SaysEach(item)
  PROVE  PartLines(ItemText(item)) = MeantLines(item)
<1> DEFINE q == Req(item)
           n == item.names[1]
           b == item.names[2]
           num == Spelled(item)
           u == item.unit
           a == Joined(q, n)
           p == ItemText(item)
           words == {And, Each}
           f == Ahead(item)
<1>1. item \in Items /\ 1 \in DOMAIN item.names /\ 2 \in DOMAIN item.names
  BY NamesOf DEF IsClear, SaysEach
<1>2. /\ IsText(q) /\ IsText(num) /\ num # <<>> /\ IsText(u)
      /\ IsText(n) /\ n # <<>> /\ IsText(b) /\ b # <<>>
  BY <1>1, ReqFacts, NameFacts, SpelledRead, UnitFacts
<1>3. Class(item) \in {Digits, Chinese} /\ Range(num) \subseteq Class(item)
  BY SpelledRead
<1>4. AnyUnit(u) /\ \A i \in 1 .. Size(u) : u[i] \notin Numerals \cup {Space, Each}
  BY UnitFacts
<1>5. /\ IsText(f) /\ p = Joined(Joined(f, num), u)
      /\ f = Joined(Joined(Joined(a, <<And>>), b), <<Each>>)
  BY ItemTextIs DEF Ahead, Behind, SaysEach
<1>6. CleanName(a) = n /\ CleanName(b) = b
  BY <1>1, RequestLeftOut
<1>7. Free(q, words) /\ Free(n, words) /\ Free(b, words)
  BY <1>1, PiecesFree, FreeOfFewer
<1> HIDE DEF q, n, b, num, p, words, f
<1>8. IsText(a) /\ a # <<>> /\ Free(a, words)
  BY <1>2, <1>7, Concat, JoinedEnds, JoinedFree
<1> HIDE DEF a
<1>9. PICK la \in Nat : Size(a) = la
  BY <1>8, TextFacts
<1>10. PICK lb \in Nat : Size(b) = lb
  BY <1>2, TextFacts
<1> DEFINE k == la + lb + 2
<1>11. /\ Size(f) = k /\ Has(f, 0, a) /\ f[la + 1] = And /\ Has(f, la + 1, b) /\ f[k] = Each
  BY <1>2, <1>5, <1>8, <1>9, <1>10, FourHas
<1>12. /\ IsText(p) /\ Size(p) = Size(f) + Size(num) + Size(u) /\ Has(p, 0, f)
       /\ Has(p, Size(f), num) /\ Has(p, Size(f) + Size(num), u)
  BY <1>2, <1>5, ThreeHas
<1>13. Has(p, 0 + 0, a) /\ Has(p, 0 + (la + 1), b)
  <2>1. la + 1 \in Nat
    OBVIOUS
  <2>2. QED
    BY <1>2, <1>5, <1>8, <1>11, <1>12, <2>1, HasBehind
<1>14. p[la + 1] = And /\ p[k] = Each
  <2>1. \A i \in 1 .. k : p[0 + i] = f[i]
    BY <1>11, <1>12 DEF Has
  <2>2. la + 1 \in 1 .. k /\ k \in 1 .. k /\ 0 + (la + 1) = la + 1 /\ 0 + k = k
    OBVIOUS
  <2>3. p[0 + (la + 1)] = f[la + 1] /\ p[0 + k] = f[k]
    BY <2>1, <2>2
  <2>4. QED
    BY <1>11, <2>2, <2>3
<1>15. p[k] = Each /\ k \in Nat /\ Size(a) + Size(b) + 2 = k
  BY <1>9, <1>10, <1>14
<1>16. /\ Has(p, 0, a) /\ Has(p, Size(a) + 1, b) /\ p[Size(a) + 1] = And
  BY <1>9, <1>13, <1>14
<1>17. Has(p, k, num) /\ Has(p, k + Size(num), u) /\ Size(p) = k + Size(num) + Size(u)
  BY <1>11, <1>12
<1> HIDE DEF k, u
<1>18. k \in Nat /\ EachLaid(p, a, b, num, u, k)
  <2>1. Free(a, {And, Each}) /\ Free(b, {And, Each}) /\ Free(u, Numerals \cup {Space, Each})
    BY <1>4, <1>7, <1>8 DEF words, Free
  <2>2. QED
    BY <1>2, <1>4, <1>8, <1>12, <1>15, <1>16, <1>17, <2>1 DEF EachLaid
<1>19. PartLines(p) = <<Line(a, num, u), Line(b, num, u)>>
  BY <1>3, <1>18, EachRead DEF EachLinesOf
<1>20. /\ Line(a, num, u) = [name |-> n, quantity |-> item.count, unit |-> u]
       /\ Line(b, num, u) = [name |-> b, quantity |-> item.count, unit |-> u]
  BY <1>1, <1>6, LineIs DEF n, b, num, u
<1>21. QED
  BY <1>1, <1>19, <1>20, MeantIs DEF n, b, p, u, SaysEach

\* The text of a clear item is read as it is meant.
LEMMA ItemIsRead ==
  ASSUME NEW item, IsClear(item)
  PROVE  /\ PartLines(ItemText(item)) = MeantLines(item)
         /\ Understood(MeantLines(item)) <=> item.count # 0
<1>1. item \in Items
  BY DEF IsClear
<1>2. item.form \in Forms
  BY <1>1, ItemIs
<1>3. NameFirst(item) \/ CountFirst(item) \/ SaysEach(item)
  BY <1>2 DEF Forms, NameFirst, CountFirst, SaysEach
<1>4. PartLines(ItemText(item)) = MeantLines(item)
  BY <1>3, NameFirstItemRead, CountFirstItemRead, EachItemRead
<1>5. item.count \in Nat
  BY SpelledRead
<1>6. DOMAIN MeantLines(item) = DOMAIN item.names /\ 1 \in DOMAIN item.names
  BY <1>1, NamesOf DEF MeantLines
<1>7. \A k \in DOMAIN item.names : MeantLines(item)[k].quantity = item.count
  BY DEF MeantLines
<1>8. MeantLines(item) # <<>>
  BY <1>6
<1>9. Understood(MeantLines(item)) <=> item.count > 0
  BY <1>6, <1>7, <1>8 DEF Understood
<1>10. QED
  BY <1>4, <1>5, <1>9

-----------------------------------------------------------------------------
(* The text of an order: where its items are.                              *)

\* Where the number of an item is in its text.
Before(item) == Size(Ahead(item))
Width(item) == Size(Spelled(item))

\* The text of a clear item is its front, its number and its back, each where
\* it was put.
LEMMA ItemShape ==
  ASSUME NEW item, IsClear(item)
  PROVE  /\ IsText(ItemText(item))
         /\ Before(item) \in Nat /\ Width(item) \in Nat /\ Width(item) > 0
         /\ Size(ItemText(item)) = Before(item) + Width(item) + Size(Behind(item))
         /\ Has(ItemText(item), 0, Ahead(item))
         /\ Has(ItemText(item), Before(item), Spelled(item))
         /\ Has(ItemText(item), Before(item) + Width(item), Behind(item))
<1> DEFINE a == Ahead(item)
           num == Spelled(item)
           b == Behind(item)
<1>1. /\ IsText(a) /\ IsText(num) /\ num # <<>> /\ IsText(b)
      /\ ItemText(item) = Joined(Joined(a, num), b)
  BY ItemTextIs, SpelledRead
<1> HIDE DEF a, num, b
<1>2. /\ IsText(ItemText(item)) /\ Size(ItemText(item)) = Size(a) + Size(num) + Size(b)
      /\ Has(ItemText(item), 0, a) /\ Has(ItemText(item), Size(a), num)
      /\ Has(ItemText(item), Size(a) + Size(num), b)
  BY <1>1, ThreeHas
<1>3. PICK m \in Nat : Size(num) = m
  BY <1>1, TextFacts
<1>4. m > 0
  BY <1>1, <1>3, TextFacts
<1>5. Size(a) \in Nat
  BY <1>1, TextFacts
<1>6. QED
  BY <1>2, <1>3, <1>4, <1>5 DEF Before, Width, a, num, b

\* Where its lexemes are.
LEMMA ItemAt ==
  ASSUME NEW item, IsClear(item)
  PROVE  /\ \A i \in 1 .. Before(item) : ItemText(item)[i] = Ahead(item)[i]
         /\ \A i \in 1 .. Width(item) :
              /\ ItemText(item)[Before(item) + i] = Spelled(item)[i]
              /\ Spelled(item)[i] \in Class(item)
         /\ \A i \in 1 .. Size(Behind(item)) :
              ItemText(item)[(Before(item) + Width(item)) + i] = Behind(item)[i]
<1>1. \A i \in 1 .. Before(item) : ItemText(item)[0 + i] = Ahead(item)[i]
  BY ItemShape DEF Has, Before
<1>2. \A i \in 1 .. Before(item) : 0 + i = i
  BY ItemShape
<1>3. \A i \in 1 .. Width(item) : ItemText(item)[Before(item) + i] = Spelled(item)[i]
  BY ItemShape DEF Has, Width
<1>4. \A i \in 1 .. Size(Behind(item)) :
        ItemText(item)[(Before(item) + Width(item)) + i] = Behind(item)[i]
  BY ItemShape DEF Has
<1>5. \A i \in 1 .. Width(item) : Spelled(item)[i] \in Class(item)
  <2>1. IsText(Spelled(item)) /\ Range(Spelled(item)) \subseteq Class(item)
    BY SpelledRead
  <2>2. Range(Spelled(item)) = {Spelled(item)[i] : i \in 1 .. Width(item)}
    BY <2>1, TextFacts DEF Width
  <2>3. QED
    BY <2>1, <2>2
<1>6. QED
  BY <1>1, <1>2, <1>3, <1>4, <1>5

SaidBlank(item) == item.form = "count first, blank"

\* A blank is in the text of an item only behind the unit of a number that comes
\* first, and there is no line break in it.
LEMMA ItemBlanks ==
  ASSUME NEW item, IsClear(item), NEW i \in 1 .. Size(ItemText(item))
  PROVE  /\ ItemText(item)[i] # NewLine
         /\ ItemText(item)[i] = Space =>
              SaidBlank(item) /\ i = Before(item) + Width(item) + 2
<1> DEFINE t == ItemText(item)
           none == {Space, NewLine}
<1>1. PICK f \in Nat : Before(item) = f
  BY ItemShape
<1>2. PICK m \in Nat : Width(item) = m
  BY ItemShape
<1>3. IsText(Behind(item))
  BY ItemTextIs
<1>4. PICK n \in Nat : Size(Behind(item)) = n
  BY <1>3, TextFacts
<1>5. Size(t) = f + m + n
  BY <1>1, <1>2, <1>4, ItemShape
<1>6. /\ \A j \in 1 .. f : t[j] = Ahead(item)[j]
      /\ \A j \in 1 .. m : t[f + j] = Spelled(item)[j]
      /\ \A j \in 1 .. n : t[(f + m) + j] = Behind(item)[j]
  BY <1>1, <1>2, <1>4, ItemAt
<1>7. i \in 1 .. f + m + n
  BY <1>5
<1> HIDE DEF t
<1>8. CASE i \in 1 .. f
  <2>1. Ahead(item)[i] \notin none
    BY <1>1, <1>8, FrontFacts DEF Free, Before
  <2>2. QED
    BY <1>6, <1>8, <2>1 DEF t
<1>9. CASE i - f \in 1 .. m
  <2>1. t[f + (i - f)] = Spelled(item)[i - f] /\ f + (i - f) = i
    BY <1>6, <1>9
  <2>2. Free(Spelled(item), {Space, NewLine, And, Each, Request})
    BY PiecesFree
  <2>3. Spelled(item)[i - f] \notin none
    BY <1>2, <1>9, <2>2 DEF Free, Width
  <2>4. QED
    BY <2>1, <2>3 DEF t
<1>10. CASE i - (f + m) \in 1 .. n
  <2>1. t[(f + m) + (i - (f + m))] = Behind(item)[i - (f + m)] /\ (f + m) + (i - (f + m)) = i
    BY <1>6, <1>10
  <2>2. Free(Behind(item), {NewLine, Each})
    BY BackFacts
  <2>3. Behind(item)[i - (f + m)] # NewLine
    BY <1>4, <1>10, <2>2 DEF Free
  <2>4. ASSUME Behind(item)[i - (f + m)] = Space
        PROVE  SaidBlank(item) /\ i = f + m + 2
    <3>1. SaidBlank(item)
      <4>1. ~SaidBlank(item) => Free(Behind(item), {Space})
        BY BackFacts DEF SaidBlank
      <4>2. QED
        BY <1>4, <1>10, <2>4, <4>1 DEF Free
    <3>2. \A j \in 1 .. n : Behind(item)[j] = Space => j = 2
      BY <1>4, <3>1, BackFacts DEF SaidBlank
    <3>3. i - (f + m) = 2
      BY <1>10, <2>4, <3>2
    <3>4. i = f + m + 2
      BY <1>7, <3>3
    <3>5. QED
      BY <3>1, <3>4
  <2>5. t[i] = Behind(item)[i - (f + m)]
    BY <2>1
  <2>6. QED
    BY <1>1, <1>2, <2>3, <2>4, <2>5 DEF t
<1>11. QED
  BY <1>7, <1>8, <1>9, <1>10

\* A clear item neither begins nor ends with a blank or a line break.
LEMMA ItemEnds ==
  ASSUME NEW item, IsClear(item)
  PROVE  LET t == ItemText(item) IN
         /\ Size(t) \in Nat /\ Size(t) > 0
         /\ t[1] \notin {Space, NewLine} /\ t[Size(t)] \notin {Space, NewLine}
<1> DEFINE t == ItemText(item)
<1>1. PICK f \in Nat : Before(item) = f
  BY ItemShape
<1>2. PICK m \in Nat : Width(item) = m
  BY ItemShape
<1>3. IsText(Behind(item))
  BY ItemTextIs
<1>4. PICK n \in Nat : Size(Behind(item)) = n
  BY <1>3, TextFacts
<1>5. Size(t) = f + m + n /\ m > 0
  BY <1>1, <1>2, <1>4, ItemShape
<1>6. \A i \in 1 .. f + m + n :
        t[i] # NewLine /\ (t[i] = Space => SaidBlank(item) /\ i = f + m + 2)
  BY <1>1, <1>2, <1>5, ItemBlanks
<1>7. SaidBlank(item) => n > 2
  BY <1>4, BackFacts DEF SaidBlank
<1>8. 1 \in 1 .. f + m + n /\ f + m + n \in 1 .. f + m + n /\ 1 # f + m + 2
  BY <1>5
<1>9. SaidBlank(item) => f + m + n # f + m + 2
  BY <1>7
<1>10. t[1] \notin {Space, NewLine}
  BY <1>6, <1>8
<1>11. t[f + m + n] \notin {Space, NewLine}
  BY <1>6, <1>8, <1>9
<1>12. f + m + n \in Nat /\ f + m + n > 0
  BY <1>5
<1>13. QED
  BY <1>5, <1>10, <1>11, <1>12

\* The items of a text s: the one at k begins at at[k] and is w[k] long, and a
\* blank or a line break is between two of them.
Layout(items, s, at, w) ==
  /\ IsText(s) /\ IsText(items) /\ Size(items) > 0
  /\ \A k \in 1 .. Size(items) :
       /\ at[k] \in Nat /\ at[k] > 0 /\ w[k] \in Nat /\ w[k] > 0
       /\ Size(ItemText(items[k])) = w[k]
       /\ \A i \in 1 .. w[k] : s[(at[k] - 1) + i] = ItemText(items[k])[i]
  /\ at[1] = 1 /\ at[Size(items)] + w[Size(items)] = Size(s) + 1
  /\ \A k \in 1 .. Size(items) - 1 :
       /\ at[k + 1] = at[k] + w[k] + 1
       /\ s[at[k] + w[k]] = IF items[k + 1].blank THEN Space ELSE NewLine
  /\ \A i \in 1 .. Size(s) : \E k \in 1 .. Size(items) : at[k] <= i /\ i <= at[k] + w[k]
  /\ \A k, l \in 1 .. Size(items) : k < l => at[k] + w[k] < at[l]

\* A number that comes first and its blank begin the order; a blank comes only
\* behind digits and a listed unit.
DigitsLast(item) == item.form \in {"name first", "each"} /\ item.digits /\ ListedItem(item)
AllClear(items) ==
  \A k \in 1 .. Size(items) :
    /\ IsClear(items[k])
    /\ SaidBlank(items[k]) => k = 1 \/ ~items[k].digits
    /\ k < Size(items) /\ items[k + 1].blank => DigitsLast(items[k])

\* An item in the text of an order.
LEMMA LayoutAt ==
  ASSUME NEW items, NEW s, NEW at, NEW w, Layout(items, s, at, w), AllClear(items),
         NEW n \in Nat, Size(items) = n, NEW o \in Nat, Size(s) = o, NEW k \in 1 .. n
  PROVE  /\ at[k] \in Nat /\ at[k] > 0 /\ w[k] \in Nat /\ w[k] > 0
         /\ at[k] + w[k] <= o + 1 /\ (k = n => at[k] + w[k] = o + 1)
         /\ k # n => at[k] + w[k] < o
         /\ \A i \in 1 .. w[k] : s[(at[k] - 1) + i] = ItemText(items[k])[i]
         /\ IsClear(items[k]) /\ Size(ItemText(items[k])) = w[k]
         /\ s[at[k]] \notin {Space, NewLine}
<1>1. /\ at[k] \in Nat /\ at[k] > 0 /\ w[k] \in Nat /\ w[k] > 0
      /\ Size(ItemText(items[k])) = w[k]
      /\ \A i \in 1 .. w[k] : s[(at[k] - 1) + i] = ItemText(items[k])[i]
  BY DEF Layout
<1>2. n \in 1 .. n
  OBVIOUS
<1>3. at[n] \in Nat /\ w[n] \in Nat /\ w[n] > 0 /\ at[n] + w[n] = o + 1
  BY <1>2 DEF Layout
<1>4. k # n => at[k] + w[k] < at[n]
  BY <1>2 DEF Layout
<1>5. IsClear(items[k])
  BY DEF AllClear
<1>6. s[at[k]] \notin {Space, NewLine}
  <2>1. 1 \in 1 .. w[k] /\ (at[k] - 1) + 1 = at[k]
    BY <1>1
  <2>2. s[(at[k] - 1) + 1] = ItemText(items[k])[1]
    BY <1>1, <2>1
  <2>3. QED
    BY <1>5, <2>1, <2>2, ItemEnds
<1>7. at[k] + w[k] <= o + 1 /\ (k = n => at[k] + w[k] = o + 1) /\ (k # n => at[k] + w[k] < o)
  BY <1>1, <1>3, <1>4
<1>8. QED
  BY <1>1, <1>5, <1>6, <1>7

\* Two items in a row, and the separator between them.
LEMMA LayoutNext ==
  ASSUME NEW items, NEW s, NEW at, NEW w, Layout(items, s, at, w), AllClear(items),
         NEW n \in Nat, Size(items) = n, NEW o \in Nat, Size(s) = o, NEW k \in 1 .. n, k # n
  PROVE  /\ k + 1 \in 1 .. n /\ at[k + 1] = at[k] + w[k] + 1
         /\ s[at[k] + w[k]] = IF items[k + 1].blank THEN Space ELSE NewLine
         /\ s[at[k] + w[k] + 1] \notin {Space, NewLine}
         /\ Past(s, at[k] + w[k], {Space, NewLine}) = at[k] + w[k] + 1
<1>1. k \in 1 .. n - 1 /\ k + 1 \in 1 .. n
  OBVIOUS
<1>2. at[k + 1] = at[k] + w[k] + 1
  BY <1>1 DEF Layout
<1>3. s[at[k] + w[k]] = IF items[k + 1].blank THEN Space ELSE NewLine
  BY <1>1 DEF Layout
<1>4. s[at[k + 1]] \notin {Space, NewLine}
  BY <1>1, LayoutAt
<1>5. at[k] \in Nat /\ w[k] \in Nat /\ at[k] > 0 /\ at[k] + w[k] < o
  BY LayoutAt
<1>6. PICK i \in Nat : at[k] + w[k] = i
  BY <1>5
<1>7. /\ 1 <= i /\ i <= i + 1 /\ i + 1 <= o + 1 /\ i + 1 \in Nat
      /\ s[i] \in {Space, NewLine} /\ s[i + 1] \notin {Space, NewLine}
  BY <1>2, <1>3, <1>4, <1>5, <1>6
<1> DEFINE blanks == {Space, NewLine}
<1>8. IsText(s)
  BY DEF Layout
<1>9. \A j \in Int : i <= j /\ j < i + 1 => s[j] \in blanks
  BY <1>7
<1> HIDE DEF blanks
<1>10. Past(s, i, blanks) = i + 1
  BY <1>7, <1>8, <1>9, PastIs DEF blanks
<1>11. QED
  BY <1>1, <1>2, <1>3, <1>6, <1>7, <1>10 DEF blanks

\* Whatever separates ends before an item.
LEMMA EndsBetween ==
  ASSUME NEW items, NEW s, NEW at, NEW w, Layout(items, s, at, w), AllClear(items),
         NEW n \in Nat, Size(items) = n, NEW e \in Ends(s)
  PROVE  \E k \in 1 .. n : k # n /\ e = at[k] + w[k]
<1>1. IsText(s)
  BY DEF Layout
<1>2. PICK o \in Nat : Size(s) = o
  BY <1>1, TextFacts
<1>3. PICK i \in DOMAIN s : /\ Separates(s, i)
                            /\ e = Past(s, Past(s, i, Digits) + 1, {Space, NewLine}) - 1
  BY DEF Ends
<1>4. i \in 1 .. o
  BY <1>1, <1>2, <1>3, TextFacts
<1>5. PICK j \in Nat : Past(s, i, Digits) = j
  <2>1. i \in Nat /\ 1 <= i /\ i <= Size(s) + 1
    BY <1>2, <1>4
  <2>2. QED
    BY <1>1, <2>1, PastFound
<1>6. /\ i <= j /\ j <= o + 1
      /\ \A h \in Int : i <= h /\ h < j => s[h] \in Digits
  <2>1. i \in Nat /\ 1 <= i /\ i <= Size(s) + 1
    BY <1>2, <1>4
  <2>2. QED
    BY <1>1, <1>2, <1>5, <2>1, PastFound
<1>7. /\ s[i] \in Digits /\ (i = 1 \/ s[i - 1] \notin Digits)
      /\ j < o /\ s[j] \in Listed /\ s[j + 1] \in {Space, NewLine}
      /\ ~RequestOnly(SubSeq(s, 1, i - 1))
  BY <1>2, <1>3, <1>5 DEF Separates, Size
<1>8. i < j
  <2>1. s[i] \notin Listed
    BY <1>7, Classes DEF Numerals
  <2>2. i # j
    BY <1>7, <2>1
  <2>3. QED
    BY <1>4, <1>6, <2>2
<1>9. PICK k \in 1 .. n : at[k] <= j + 1 /\ j + 1 <= at[k] + w[k]
  <2>1. j + 1 \in 1 .. o
    BY <1>7
  <2>2. QED
    BY <1>2, <2>1 DEF Layout
<1>10. PICK a \in Nat : at[k] = a
  BY <1>2, LayoutAt
<1>11. PICK b \in Nat : w[k] = b
  BY <1>2, LayoutAt
<1>12. /\ a > 0 /\ b > 0 /\ (k = n => a + b = o + 1)
       /\ \A h \in 1 .. b : s[(a - 1) + h] = ItemText(items[k])[h]
       /\ IsClear(items[k]) /\ Size(ItemText(items[k])) = b
  BY <1>2, <1>10, <1>11, LayoutAt
<1>13. CASE j + 1 = a + b
  <2>1. k # n
    BY <1>7, <1>12, <1>13
  <2>2. Past(s, a + b, {Space, NewLine}) = a + b + 1
    BY <1>2, <1>10, <1>11, <2>1, LayoutNext
  <2>3. e = (a + b + 1) - 1
    BY <1>3, <1>5, <1>13, <2>2
  <2>4. e = a + b
    BY <2>3
  <2>5. QED
    BY <1>10, <1>11, <2>1, <2>4
<1>14. CASE j + 1 # a + b
  <2> DEFINE item == items[k]
             t == ItemText(item)
  <2>1. PICK f \in Nat : Before(item) = f
    BY <1>12, ItemShape
  <2>2. PICK m \in Nat : Width(item) = m
    BY <1>12, ItemShape
  <2>3. m > 0
    BY <1>12, <2>2, ItemShape
  <2>4. /\ \A h \in 1 .. f : t[h] = Ahead(item)[h]
        /\ \A h \in 1 .. m : t[f + h] \in Class(item)
    BY <1>12, <2>1, <2>2, ItemAt
  <2>5. PICK h \in Nat : j + 1 = (a - 1) + h
    <3>1. (j + 1) - (a - 1) \in Nat /\ j + 1 = (a - 1) + ((j + 1) - (a - 1))
      BY <1>9, <1>10
    <3>2. QED
      BY <3>1
  <2>6. h \in 1 .. b
    BY <1>9, <1>10, <1>11, <1>14, <2>5
  <2>7. t[h] \in {Space, NewLine}
    BY <1>7, <1>12, <2>5, <2>6
  <2>8. /\ t[h] # NewLine
        /\ t[h] = Space => SaidBlank(item) /\ h = f + m + 2
    BY <1>12, <2>1, <2>2, <2>6, ItemBlanks
  <2>9. SaidBlank(item) /\ h = f + m + 2
    BY <2>7, <2>8
  <2>10. j - 1 = (a - 1) + (f + m) /\ f + m \in 1 .. b
    BY <2>3, <2>5, <2>6, <2>9
  <2>11. s[j - 1] \in Digits
    <3>1. i <= j - 1 /\ j - 1 < j /\ j - 1 \in Int
      BY <1>4, <1>8
    <3>2. QED
      BY <1>6, <3>1
  <2>12. t[f + m] \in Digits
    BY <1>12, <2>10, <2>11
  <2>13. Class(item) = Digits
    <3>1. m \in 1 .. m
      BY <2>3
    <3>2. t[f + m] \in Class(item)
      BY <2>4, <3>1
    <3>3. Class(item) \in {Digits, Chinese}
      BY <1>12, SpelledRead
    <3>4. QED
      BY <2>12, <3>2, <3>3, Classes
  <2>14. item.digits
    <3>1. Digits # Chinese
      BY <2>12, Classes
    <3>2. QED
      BY <2>13, <3>1 DEF Class
  <2>15. k = 1
    BY <2>9, <2>14 DEF AllClear
  <2>16. a = 1
    BY <1>10, <2>15 DEF Layout
  <2>17. /\ Ahead(item) = Req(item) /\ Size(Req(item)) = f
         /\ \A h1 \in 1 .. f : Req(item)[h1] = Request
         /\ f = 0 \/ f = 1
    <3>1. Ahead(item) = Req(item)
      BY <1>12, <2>9, FrontFacts DEF SaidBlank
    <3>2. Size(Req(item)) = f
      BY <2>1, <3>1 DEF Before
    <3>3. \A h1 \in 1 .. f : Req(item)[h1] = Request
      BY <3>2, ReqFacts
    <3>4. Size(Req(item)) = 0 \/ Size(Req(item)) = 1
      BY ReqFacts
    <3>5. QED
      BY <3>1, <3>2, <3>3, <3>4
  <2>18. /\ \A h1 \in 1 .. b : s[h1] = t[h1]
         /\ j = f + m + 1 /\ f + m <= b
    <3>1. \A h1 \in 1 .. b : (a - 1) + h1 = h1
      BY <2>16
    <3>2. QED
      BY <1>12, <2>10, <2>16, <3>1
  <2>19. \A h1 \in 1 .. m : s[f + h1] \in Digits
    <3>1. \A h1 \in 1 .. m : f + h1 \in 1 .. b
      BY <2>18
    <3>2. QED
      BY <2>4, <2>13, <2>18, <3>1
  <2>20. i = f + 1
    <3>1. ~(i <= f)
      <4>1. SUFFICES ASSUME i <= f
                     PROVE  FALSE
        OBVIOUS
      <4>2. i \in 1 .. f /\ i \in 1 .. b
        BY <1>4, <2>18, <4>1
      <4>3. s[i] = Request
        BY <2>4, <2>17, <2>18, <4>2
      <4>4. QED
        BY <1>7, <4>3, Classes DEF Numerals
    <3>2. ~(i > f + 1)
      <4>1. SUFFICES ASSUME i > f + 1
                     PROVE  FALSE
        OBVIOUS
      <4>2. (i - 1) - f \in 1 .. m /\ f + ((i - 1) - f) = i - 1 /\ i # 1
        BY <1>4, <1>8, <2>18, <4>1
      <4>3. QED
        BY <1>7, <2>19, <4>2
    <3>3. QED
      BY <1>4, <3>1, <3>2
  <2>21. RequestOnly(SubSeq(s, 1, i - 1))
    <3>1. CASE f = 0
      <4>1. i - 1 = 0
        BY <2>20, <3>1
      <4>2. SubSeq(s, 1, 0) = <<>>
        BY <1>1 DEF IsText
      <4>3. QED
        BY <4>1, <4>2 DEF RequestOnly
    <3>2. CASE f = 1
      <4>1. i - 1 = 1
        BY <2>20, <3>2
      <4>2. s[1] = Request
        <5>1. 1 \in 1 .. f /\ 1 \in 1 .. b
          BY <2>18, <3>2, <2>3
        <5>2. QED
          BY <2>4, <2>17, <2>18, <5>1
      <4>3. SubSeq(s, 1, 1) = <<Request>>
        <5> DEFINE y == Slice(s, 1, 1)
                   v == <<Request>>
        <5>1. 1 <= o /\ 1 + 1 - 1 = 1 /\ 1 - 1 + 1 = 1
          BY <1>4
        <5>2. IsText(y) /\ Size(y) = 1 /\ y[1] = s[1]
          BY <1>1, <1>2, <5>1, SliceFacts, SliceAt
        <5>3. IsText(v) /\ Size(v) = 1 /\ v[1] = Request
          BY TinyTexts
        <5> HIDE DEF y, v
        <5>4. \A h1 \in 1 .. 1 : y[h1] = v[h1]
          BY <4>2, <5>2, <5>3
        <5>5. y = v
          BY <5>2, <5>3, <5>4, SameText
        <5>6. QED
          BY <5>5 DEF y, v, Slice
      <4>4. RequestOnly(<<Request>>)
        BY DEF RequestOnly, Range
      <4>5. QED
        BY <4>1, <4>3, <4>4
    <3>3. QED
      BY <2>17, <3>1, <3>2
  <2>22. QED
    BY <1>7, <2>21
<1>15. QED
  BY <1>13, <1>14

\* A name is more than a request.
LEMMA FrontNotRequest ==
  ASSUME NEW item, IsClear(item), DigitsLast(item), Before(item) = 1
  PROVE  Ahead(item)[1] # Request
<1> DEFINE q == Req(item)
           n == item.names[1]
           each == <<Each>>
<1>1. item \in Items /\ 1 \in DOMAIN item.names
  BY NamesOf DEF IsClear
<1>2. IsText(q) /\ IsText(n) /\ n # <<>> /\ IsText(each) /\ each # <<>> /\ each[Size(each)] = Each
  BY <1>1, ReqFacts, NameFacts, TinyTexts
<1>3. CASE NameFirst(item)
  <2>1. Ahead(item) = Joined(q, n)
    BY <1>3 DEF NameFirst, Ahead
  <2>2. n[1] # Request
    BY <1>1 DEF IsClear, NameIsClear
  <2> HIDE DEF q, n
  <2>3. PICK a \in Nat : Size(q) = a
    BY <1>2, TextFacts
  <2>4. PICK b \in Nat : Size(n) = b
    BY <1>2, TextFacts
  <2>5. b > 0
    BY <1>2, <2>4, TextFacts
  <2>6. Size(Joined(q, n)) = a + b
    BY <1>2, <2>3, <2>4, Concat
  <2>7. b = 1
    BY <2>1, <2>5, <2>6 DEF Before
  <2>8. Joined(q, n)[Size(Joined(q, n))] = n[Size(n)]
    BY <1>2, JoinedEnds
  <2>9. QED
    BY <2>1, <2>2, <2>4, <2>7, <2>8 DEF Before
<1>4. CASE ~NameFirst(item)
  <2> DEFINE c == Joined(Joined(Joined(q, n), <<And>>), item.names[2])
  <2>1. SaysEach(item)
    BY <1>4 DEF NameFirst, DigitsLast, SaysEach
  <2>2. Ahead(item) = Joined(c, each)
    BY <2>1 DEF SaysEach, Ahead
  <2>3. IsText(c)
    <3>1. 2 \in DOMAIN item.names
      BY <1>1, <2>1, NamesOf DEF SaysEach
    <3>2. IsText(item.names[2]) /\ IsText(<<And>>)
      BY <1>1, <3>1, NameFacts, TinyTexts
    <3> DEFINE l == item.names[2]
               and == <<And>>
    <3> HIDE DEF q, n, l, and
    <3>3. IsText(Joined(q, n))
      BY <1>2, Concat
    <3> DEFINE d == Joined(q, n)
    <3> HIDE DEF d
    <3>4. IsText(Joined(d, and))
      BY <3>2, <3>3, Concat DEF d, and
    <3> DEFINE e == Joined(d, and)
    <3> HIDE DEF e
    <3>5. IsText(Joined(e, l))
      BY <3>2, <3>4, Concat DEF e, l
    <3>6. QED
      BY <3>5 DEF d, e, l, and
  <2> HIDE DEF c, each
  <2>4. Joined(c, each)[Size(Joined(c, each))] = Each
    BY <1>2, <2>3, JoinedEnds
  <2>5. Each # Request
    BY DEF Each, Request
  <2>6. QED
    BY <2>2, <2>4, <2>5 DEF Before
<1>5. QED
  BY <1>3, <1>4

\* A blank between two items separates them.
LEMMA BlanksEnd ==
  ASSUME NEW items, NEW s, NEW at, NEW w, Layout(items, s, at, w), AllClear(items),
         NEW n \in Nat, Size(items) = n, NEW k \in 1 .. n, k # n, items[k + 1].blank
  PROVE  at[k] + w[k] \in Ends(s)
<1>1. IsText(s)
  BY DEF Layout
<1>2. PICK o \in Nat : Size(s) = o
  BY <1>1, TextFacts
<1>3. PICK a \in Nat : at[k] = a
  BY <1>2, LayoutAt
<1>4. PICK b \in Nat : w[k] = b
  BY <1>2, LayoutAt
<1> DEFINE item == items[k]
           t == ItemText(item)
<1>5. /\ a > 0 /\ b > 0 /\ a + b < o
      /\ \A h \in 1 .. b : s[(a - 1) + h] = t[h]
      /\ IsClear(item) /\ Size(t) = b
  BY <1>2, <1>3, <1>4, LayoutAt
<1>6. DigitsLast(item)
  <2>1. k < Size(items)
    OBVIOUS
  <2>2. QED
    BY <2>1 DEF AllClear
<1>7. /\ s[a + b] = Space
      /\ Past(s, a + b, {Space, NewLine}) = a + b + 1
  <2>1. s[at[k] + w[k]] = Space
    BY <1>2, LayoutNext
  <2>2. Past(s, at[k] + w[k], {Space, NewLine}) = at[k] + w[k] + 1
    BY <1>2, LayoutNext
  <2>3. QED
    BY <1>3, <1>4, <2>1, <2>2
<1>8. PICK f \in Nat : Before(item) = f
  BY <1>5, ItemShape
<1>9. PICK m \in Nat : Width(item) = m
  BY <1>5, ItemShape
<1>10. m > 0
  BY <1>5, <1>9, ItemShape
<1>11. PICK x \in Listed : item.unit = <<x>>
  BY <1>6 DEF DigitsLast, ListedItem
<1>12. Behind(item) = <<x>>
  <2>1. Behind(item) = item.unit
    BY <1>5, <1>6, BackFacts DEF DigitsLast
  <2>2. QED
    BY <1>11, <2>1
<1>13. Size(Behind(item)) = 1 /\ Behind(item)[1] = x
  BY <1>12, TinyTexts
<1>14. b = f + m + 1
  BY <1>5, <1>8, <1>9, <1>13, ItemShape
<1>15. Class(item) = Digits
  BY <1>6 DEF DigitsLast, Class
<1>16. /\ \A h \in 1 .. f : t[h] = Ahead(item)[h]
       /\ \A h \in 1 .. m : t[f + h] \in Digits
       /\ t[(f + m) + 1] = x
  <2>1. \A h \in 1 .. f : t[h] = Ahead(item)[h]
    BY <1>5, <1>8, ItemAt
  <2>2. \A h \in 1 .. m : t[f + h] \in Digits
    BY <1>5, <1>8, <1>9, <1>15, ItemAt
  <2>3. \A h \in 1 .. 1 : t[(f + m) + h] = Behind(item)[h]
    BY <1>5, <1>8, <1>9, <1>13, ItemAt
  <2>4. t[(f + m) + 1] = x
    BY <1>13, <2>3
  <2>5. QED
    BY <2>1, <2>2, <2>4
<1>17. f > 0 /\ Ahead(item)[f] \notin Digits \cup {Space, NewLine}
  <2>1. /\ Ahead(item) # <<>> /\ IsText(Ahead(item))
        /\ Ahead(item)[Size(Ahead(item))] \notin Class(item) \cup {Space, NewLine}
    BY <1>5, <1>6, FrontFacts, ItemTextIs DEF DigitsLast
  <2>2. Size(Ahead(item)) = f
    BY <1>8 DEF Before
  <2>3. f > 0
    BY <2>1, <2>2, TextFacts
  <2>4. QED
    BY <1>15, <2>1, <2>2, <2>3
<1>18. f = 1 => t[1] # Request
  <2>1. f = 1 => Ahead(item)[1] # Request
    BY <1>5, <1>6, <1>8, FrontNotRequest
  <2>2. f = 1 => 1 \in 1 .. f
    OBVIOUS
  <2>3. QED
    BY <1>16, <2>1, <2>2
<1>19. t[f] \notin Digits \cup {Space, NewLine}
  <2>1. f \in 1 .. f
    BY <1>17
  <2>2. QED
    BY <1>16, <1>17, <2>1
<1> HIDE DEF item, t
<1> DEFINE i == a + f
           j == a + f + m
<1>20. \A h \in 1 .. m : s[(i + h) - 1] \in Digits
  <2>1. TAKE h \in 1 .. m
  <2>2. f + h \in 1 .. b /\ (a - 1) + (f + h) = (i + h) - 1
    BY <1>14
  <2>3. QED
    BY <1>5, <1>16, <2>2
<1>21. s[i - 1] = t[f]
  <2>1. f \in 1 .. b /\ (a - 1) + f = i - 1
    BY <1>14, <1>17
  <2>2. QED
    BY <1>5, <2>1
<1>22. s[j] = x
  <2>1. f + m + 1 \in 1 .. b /\ (a - 1) + (f + m + 1) = j /\ (f + m) + 1 = f + m + 1
    BY <1>14
  <2>2. QED
    BY <1>5, <1>16, <2>1
<1>23. i \in Nat /\ j \in Nat /\ i < j /\ j + 1 = a + b /\ j < o /\ 1 < i
  BY <1>5, <1>10, <1>14, <1>17
<1>24. s[i] \in Digits
  <2>1. 1 \in 1 .. m /\ (i + 1) - 1 = i
    BY <1>10
  <2>2. QED
    BY <1>20, <2>1
<1>25. Past(s, i, Digits) = j
  <2>1. x \notin Digits
    BY Classes DEF Numerals
  <2>2. \A h \in Int : i <= h /\ h < j => s[h] \in Digits
    <3>1. TAKE h \in Int
    <3>2. HAVE i <= h /\ h < j
    <3>3. (h - i) + 1 \in 1 .. m /\ (i + ((h - i) + 1)) - 1 = h
      BY <3>2
    <3>4. QED
      BY <1>20, <3>3
  <2> HIDE DEF i, j
  <2>3. 1 <= i /\ i <= j /\ j <= Size(s) + 1
    BY <1>2, <1>23
  <2>4. QED
    BY <1>1, <1>22, <1>23, <2>1, <2>2, <2>3, PastIs
<1>26. ~RequestOnly(SubSeq(s, 1, i - 1))
  <2> DEFINE y == Slice(s, 1, i - 1)
  <2> HIDE DEF i
  <2>1. 1 - 1 <= i - 1 /\ i - 1 <= o /\ i - 1 \in Nat /\ i - 1 > 0 /\ (i - 1) - 1 + 1 = i - 1
    BY <1>23
  <2>2. IsText(y) /\ Size(y) = i - 1
    BY <1>1, <1>2, <2>1, SliceFacts
  <2>3. \A h \in 1 .. i - 1 : y[h] = s[h]
    <3>1. TAKE h \in 1 .. i - 1
    <3>2. y[h] = s[1 + h - 1]
      BY <1>1, <1>2, <2>1, SliceAt
    <3>3. 1 + h - 1 = h
      OBVIOUS
    <3>4. QED
      BY <3>2, <3>3
  <2> HIDE DEF y
  <2>4. y[i - 1] \notin {Space, NewLine}
    <3>1. i - 1 \in 1 .. i - 1
      BY <2>1
    <3>2. QED
      BY <1>19, <1>21, <2>3, <3>1
  <2>5. y # <<>>
    BY <2>1, <2>2, TextFacts
  <2>6. y # <<NewLine>>
    <3>1. y = <<NewLine>> => Size(y) = 1 /\ y[1] = NewLine
      BY TinyTexts
    <3>2. QED
      BY <2>2, <2>4, <3>1
  <2>7. ASSUME Head(y) = Request, Range(Tail(y)) \subseteq {Space, NewLine}
        PROVE  FALSE
    <3>1. y[1] = Request
      BY <2>7
    <3>2. CASE i - 1 = 1
      <4>1. a = 1 /\ f = 1
        BY <1>5, <1>17, <3>2 DEF i
      <4>2. y[1] = t[1]
        BY <1>21, <2>1, <2>3, <3>2, <4>1
      <4>3. QED
        BY <1>18, <3>1, <4>1, <4>2
    <3>3. CASE i - 1 # 1
      <4> DEFINE z == Slice(y, 2, i - 1)
      <4>1. Tail(y) = z
        BY <2>2 DEF Slice, IsText, Size
      <4>2. 1 <= 2 /\ 2 - 1 <= i - 1 /\ i - 2 \in Int /\ 1 <= i - 2 /\ i - 2 <= (i - 1) - 2 + 1
        BY <1>23, <2>1, <3>3
      <4>3. IsText(z) /\ Size(z) = (i - 1) - 2 + 1
        BY <2>1, <2>2, <4>2, SliceFacts
      <4>4. z[i - 2] = y[2 + (i - 2) - 1]
        BY <2>1, <2>2, <4>2, SliceAt
      <4>5. 2 + (i - 2) - 1 = i - 1 /\ i - 2 \in 1 .. (i - 1) - 2 + 1
        BY <1>23, <4>2
      <4> HIDE DEF z
      <4>6. Range(z) = {z[h] : h \in 1 .. (i - 1) - 2 + 1}
        BY <4>3, TextFacts
      <4>7. z[i - 2] \in Range(z)
        BY <4>5, <4>6
      <4>8. QED
        BY <2>4, <2>7, <4>1, <4>4, <4>5, <4>7
    <3>4. QED
      BY <3>2, <3>3
  <2>8. QED
    BY <2>5, <2>6, <2>7 DEF RequestOnly, Slice, y
<1>27. Separates(s, i)
  <2>1. s[i - 1] \notin Digits
    BY <1>19, <1>21
  <2>2. s[j] \in Listed /\ s[j + 1] \in {Space, NewLine}
    BY <1>7, <1>22, <1>23
  <2> HIDE DEF i, j
  <2>3. j < Len(s)
    BY <1>2, <1>23 DEF Size
  <2>4. QED
    BY <1>24, <1>25, <1>26, <2>1, <2>2, <2>3 DEF Separates
<1>28. i \in DOMAIN s
  BY <1>1, <1>2, <1>23, TextFacts
<1>29. Past(s, Past(s, i, Digits) + 1, {Space, NewLine}) - 1 = a + b
  <2>1. Past(s, j + 1, {Space, NewLine}) = a + b + 1
    BY <1>7, <1>23
  <2>2. QED
    BY <1>25, <2>1
<1> HIDE DEF i
<1>30. QED
  BY <1>3, <1>4, <1>27, <1>28, <1>29 DEF Ends

\* A line break is only between two items.
LEMMA BreaksBetween ==
  ASSUME NEW items, NEW s, NEW at, NEW w, Layout(items, s, at, w), AllClear(items),
         NEW n \in Nat, Size(items) = n, NEW o \in Nat, Size(s) = o,
         NEW i \in 1 .. o, s[i] = NewLine
  PROVE  \E k \in 1 .. n : k # n /\ i = at[k] + w[k]
<1>1. PICK k \in 1 .. n : at[k] <= i /\ i <= at[k] + w[k]
  BY DEF Layout
<1>2. PICK a \in Nat : at[k] = a
  BY LayoutAt
<1>3. PICK b \in Nat : w[k] = b
  BY LayoutAt
<1>4. /\ a > 0 /\ b > 0 /\ (k = n => a + b = o + 1)
      /\ \A h \in 1 .. b : s[(a - 1) + h] = ItemText(items[k])[h]
      /\ IsClear(items[k]) /\ Size(ItemText(items[k])) = b
  BY <1>2, <1>3, LayoutAt
<1>5. i = a + b
  <2>1. SUFFICES ASSUME i # a + b
                 PROVE  FALSE
    OBVIOUS
  <2>2. (i - a) + 1 \in 1 .. b /\ (a - 1) + ((i - a) + 1) = i
    BY <1>1, <1>2, <1>3, <2>1
  <2>3. s[(a - 1) + ((i - a) + 1)] = ItemText(items[k])[(i - a) + 1]
    BY <1>4, <2>2
  <2>4. ItemText(items[k])[(i - a) + 1] # NewLine
    BY <1>4, <2>2, ItemBlanks
  <2>5. QED
    BY <2>2, <2>3, <2>4
<1>6. k # n
  BY <1>4, <1>5
<1>7. QED
  BY <1>2, <1>3, <1>5, <1>6

\* The text is cut before every item, and before a line break.
LEMMA CutsAre ==
  ASSUME NEW items, NEW s, NEW at, NEW w, Layout(items, s, at, w), AllClear(items),
         NEW n \in Nat, Size(items) = n, NEW o \in Nat, Size(s) = o
  PROVE  /\ \A c \in Cuts(s) : \/ c = o + 1
                               \/ \E k \in 1 .. n : c = at[k] \/ (k # n /\ c = at[k] + w[k])
         /\ \A k \in 1 .. n : at[k] \in Cuts(s)
         /\ o + 1 \in Cuts(s)
         /\ \A k \in 1 .. n :
              k # n /\ at[k] + w[k] \notin Cuts(s) => s[at[k] + w[k]] = Space
<1>1. Cuts(s) = {i \in 1 .. o + 1 :
                   \/ i = 1 \/ i = o + 1 \/ s[i] = NewLine \/ s[i - 1] = NewLine
                   \/ i - 1 \in Ends(s)}
  BY DEF Cuts, Size
<1>2. 1 \in 1 .. n /\ at[1] = 1
  <2>1. n > 0 /\ at[1] = 1
    BY DEF Layout
  <2>2. QED
    BY <2>1
<1>3. ASSUME NEW c \in Cuts(s)
      PROVE  c = o + 1 \/ \E k \in 1 .. n : c = at[k] \/ (k # n /\ c = at[k] + w[k])
  <2>1. c \in 1 .. o + 1
    BY <1>1
  <2>2. CASE c = 1
    BY <1>2, <2>2
  <2>3. CASE s[c] = NewLine /\ c # o + 1
    <3>1. c \in 1 .. o
      BY <2>1, <2>3
    <3>2. QED
      BY <2>3, <3>1, BreaksBetween
  <2>4. ASSUME c - 1 \in 1 .. o, NEW k \in 1 .. n, k # n, c - 1 = at[k] + w[k]
        PROVE  \E h \in 1 .. n : c = at[h]
    <3>1. k + 1 \in 1 .. n /\ at[k + 1] = at[k] + w[k] + 1
      BY <2>4, LayoutNext
    <3>2. at[k + 1] = c
      BY <2>1, <2>4, <3>1
    <3>3. QED
      BY <3>1, <3>2
  <2>5. CASE s[c - 1] = NewLine /\ c # 1
    <3>1. c - 1 \in 1 .. o
      BY <2>1, <2>5
    <3>2. \E k \in 1 .. n : k # n /\ c - 1 = at[k] + w[k]
      BY <2>5, <3>1, BreaksBetween
    <3>3. QED
      BY <2>4, <3>1, <3>2
  <2>6. CASE c - 1 \in Ends(s) /\ c # 1
    <3>1. c - 1 \in 1 .. o
      BY <2>1, <2>6
    <3>2. \E k \in 1 .. n : k # n /\ c - 1 = at[k] + w[k]
      BY <2>6, EndsBetween
    <3>3. QED
      BY <2>4, <3>1, <3>2
  <2>7. QED
    BY <1>1, <2>2, <2>3, <2>5, <2>6
<1>4. ASSUME NEW k \in 1 .. n
      PROVE  at[k] \in Cuts(s)
  <2>1. CASE k = 1
    <3>1. 1 \in 1 .. o + 1
      OBVIOUS
    <3>2. 1 \in Cuts(s)
      BY <1>1, <3>1
    <3>3. QED
      BY <1>2, <2>1, <3>2
  <2>2. CASE k # 1
    <3>1. PICK h \in 1 .. n : h + 1 = k
      <4>1. k - 1 \in 1 .. n /\ (k - 1) + 1 = k
        BY <2>2
      <4>2. QED
        BY <4>1
    <3>2. h # n
      BY <3>1
    <3>3. PICK a \in Nat : at[h] + w[h] = a
      BY LayoutAt
    <3>4. a < o
      BY <3>2, <3>3, LayoutAt
    <3>5. at[k] = a + 1
      BY <3>1, <3>2, <3>3, LayoutNext
    <3>6. s[a] = IF items[k].blank THEN Space ELSE NewLine
      <4>1. s[at[h] + w[h]] = IF items[h + 1].blank THEN Space ELSE NewLine
        BY <3>2, LayoutNext
      <4>2. QED
        BY <3>1, <3>3, <4>1
    <3>7. items[k].blank => a \in Ends(s)
      <4>1. items[h + 1].blank => at[h] + w[h] \in Ends(s)
        BY <3>2, BlanksEnd
      <4>2. QED
        BY <3>1, <3>3, <4>1
    <3>8. a + 1 \in 1 .. o + 1 /\ (a + 1) - 1 = a
      BY <3>4
    <3>9. a + 1 \in Cuts(s)
      BY <1>1, <3>6, <3>7, <3>8
    <3>10. QED
      BY <3>5, <3>9
  <2>3. QED
    BY <2>1, <2>2
<1>5. o + 1 \in Cuts(s)
  <2>1. o + 1 \in 1 .. o + 1
    OBVIOUS
  <2>2. QED
    BY <1>1, <2>1
<1>6. ASSUME NEW k \in 1 .. n, k # n, at[k] + w[k] \notin Cuts(s)
      PROVE  s[at[k] + w[k]] = Space
  <2>1. s[at[k] + w[k]] = IF items[k + 1].blank THEN Space ELSE NewLine
    BY <1>6, LayoutNext
  <2>2. at[k] + w[k] \in 1 .. o + 1
    <3>1. at[k] \in Nat /\ w[k] \in Nat /\ at[k] > 0 /\ at[k] + w[k] <= o + 1
      BY LayoutAt
    <3>2. QED
      BY <3>1
  <2>3. s[at[k] + w[k]] # NewLine
    BY <1>1, <1>6, <2>2
  <2>4. QED
    BY <2>1, <2>3
<1>7. QED
  BY <1>3, <1>4, <1>5, <1>6

Begins(s) ==
  {i \in DOMAIN s : /\ s[i] \notin {Space, NewLine}
                    /\ \E c \in Cuts(s) : c <= i /\ \A k \in c .. i - 1 : s[k] = Space}

\* Where its items begin, the parts of the text begin, and nowhere else.
LEMMA BeginsAre ==
  ASSUME NEW items, NEW s, NEW at, NEW w, Layout(items, s, at, w), AllClear(items),
         NEW n \in Nat, Size(items) = n
  PROVE  Begins(s) = {at[k] : k \in 1 .. n}
<1>1. IsText(s)
  BY DEF Layout
<1>2. PICK o \in Nat : Size(s) = o
  BY <1>1, TextFacts
<1>3. DOMAIN s = 1 .. o
  BY <1>1, <1>2, TextFacts
<1>4. ASSUME NEW k \in 1 .. n
      PROVE  at[k] \in Begins(s)
  <2>1. PICK a \in Nat : at[k] = a
    BY <1>2, LayoutAt
  <2>2. a \in 1 .. o
    <3>1. w[k] \in Nat /\ w[k] > 0 /\ at[k] + w[k] <= o + 1 /\ at[k] > 0
      BY <1>2, LayoutAt
    <3>2. QED
      BY <2>1, <3>1
  <2>3. s[a] \notin {Space, NewLine}
    BY <1>2, <2>1, LayoutAt
  <2>4. a \in Cuts(s)
    BY <1>2, <2>1, CutsAre
  <2>5. a <= a /\ \A h \in a .. a - 1 : s[h] = Space
    OBVIOUS
  <2>6. QED
    BY <1>3, <2>1, <2>2, <2>3, <2>4, <2>5 DEF Begins
<1>5. ASSUME NEW i \in Begins(s)
      PROVE  \E k \in 1 .. n : i = at[k]
  <2>1. i \in 1 .. o /\ s[i] \notin {Space, NewLine}
    BY <1>3 DEF Begins
  <2>2. PICK c \in Cuts(s) : c <= i /\ \A h \in c .. i - 1 : s[h] = Space
    BY DEF Begins
  <2>3. c # o + 1
    BY <2>1, <2>2
  <2>4. PICK k \in 1 .. n : c = at[k] \/ (k # n /\ c = at[k] + w[k])
    BY <1>2, <2>3, CutsAre
  <2>5. CASE c = at[k]
    <3>1. at[k] \in Nat /\ s[at[k]] \notin {Space, NewLine}
      BY <1>2, LayoutAt
    <3>2. at[k] < i => at[k] \in c .. i - 1
      BY <2>1, <2>5, <3>1
    <3>3. ~(at[k] < i)
      BY <2>2, <3>1, <3>2
    <3>4. i = at[k]
      BY <2>1, <2>2, <2>5, <3>1, <3>3
    <3>5. QED
      BY <3>4
  <2>6. CASE k # n /\ c = at[k] + w[k]
    <3>1. PICK b \in Nat : at[k] + w[k] = b
      BY <1>2, LayoutAt
    <3>2. /\ s[b] \in {Space, NewLine} /\ s[b + 1] \notin {Space, NewLine}
          /\ k + 1 \in 1 .. n /\ at[k + 1] = b + 1
      BY <1>2, <2>6, <3>1, LayoutNext
    <3>3. i # b
      BY <2>1, <3>2
    <3>4. b + 1 <= i
      BY <2>1, <2>2, <2>6, <3>1, <3>3
    <3>5. b + 1 < i => b + 1 \in c .. i - 1
      BY <2>1, <2>6, <3>1
    <3>6. ~(b + 1 < i)
      BY <2>2, <3>2, <3>5
    <3>7. i = b + 1
      BY <2>1, <3>4, <3>6
    <3>8. QED
      BY <3>2, <3>7
  <2>7. QED
    BY <2>4, <2>5, <2>6
<1>6. QED
  BY <1>4, <1>5

\* As many places as come before the place of the k-th item.
LEMMA RankIs ==
  ASSUME NEW at, NEW m \in Nat,
         \A k \in 1 .. m : at[k] \in Nat, \A k, l \in 1 .. m : k < l => at[k] < at[l]
  PROVE  Cardinality({at[k] : k \in 1 .. m}) = m
<1> DEFINE T == {at[k] : k \in 1 .. m}
           f == [k \in 1 .. m |-> at[k]]
<1>1. IsFiniteSet(1 .. m) /\ Cardinality(1 .. m) = m
  BY FS_Interval
<1>2. f \in Surjection(1 .. m, T)
  BY DEF Surjection
<1>3. f \in Injection(1 .. m, T)
  <2>1. \A k, l \in 1 .. m : at[k] = at[l] => k = l
    <3>1. TAKE k \in 1 .. m, l \in 1 .. m
    <3>2. at[k] \in Nat /\ at[l] \in Nat
      OBVIOUS
    <3>3. k < l \/ l < k \/ k = l
      OBVIOUS
    <3>4. QED
      BY <3>2, <3>3
  <2>2. f \in [1 .. m -> T]
    OBVIOUS
  <2>3. QED
    BY <2>1, <2>2 DEF Injection, IsInjective
<1> HIDE DEF T, f
<1>4. Cardinality(T) = Cardinality(1 .. m)
  BY <1>1, <1>2, <1>3, FS_Surjection
<1>5. QED
  BY <1>1, <1>4 DEF T

\* The k-th part begins where the k-th item does.
LEMMA BeginIs ==
  ASSUME NEW items, NEW s, NEW at, NEW w, Layout(items, s, at, w), AllClear(items),
         NEW n \in Nat, Size(items) = n
  PROVE  /\ Cardinality(Begins(s)) = n
         /\ \A k \in 1 .. n :
              (CHOOSE i \in Begins(s) : Cardinality({j \in Begins(s) : j < i}) = k - 1) = at[k]
<1>1. IsText(s)
  BY DEF Layout
<1>2. PICK o \in Nat : Size(s) = o
  BY <1>1, TextFacts
<1>3. \A k \in 1 .. n : at[k] \in Nat
  BY <1>2, LayoutAt
<1>4. \A k, l \in 1 .. n : k < l => at[k] < at[l]
  <2>1. TAKE k \in 1 .. n, l \in 1 .. n
  <2>2. HAVE k < l
  <2>3. at[k] + w[k] < at[l]
    BY <2>2 DEF Layout
  <2>4. at[k] \in Nat /\ w[k] \in Nat /\ at[l] \in Nat
    BY <1>2, LayoutAt
  <2>5. QED
    BY <2>3, <2>4
<1>5. Begins(s) = {at[k] : k \in 1 .. n}
  BY BeginsAre
<1>6. Cardinality(Begins(s)) = n
  BY <1>3, <1>4, <1>5, RankIs
<1>7. ASSUME NEW k \in 1 .. n
      PROVE  Cardinality({j \in Begins(s) : j < at[k]}) = k - 1
  <2>1. PICK m \in Nat : k - 1 = m
    OBVIOUS
  <2>2. \A h \in 1 .. m : h \in 1 .. n /\ h < k
    BY <2>1
  <2>3. \A h \in 1 .. n : at[h] < at[k] => h \in 1 .. m
    <3>1. TAKE h \in 1 .. n
    <3>2. HAVE at[h] < at[k]
    <3>3. at[h] \in Nat /\ at[k] \in Nat
      BY <1>3
    <3>4. ~(k < h) /\ k # h
      BY <1>4, <3>2, <3>3
    <3>5. QED
      BY <2>1, <3>4
  <2>4. {j \in Begins(s) : j < at[k]} = {at[h] : h \in 1 .. m}
    <3>1. \A h \in 1 .. m : at[h] \in Begins(s) /\ at[h] < at[k]
      BY <1>4, <1>5, <2>2
    <3>2. QED
      BY <1>5, <2>3, <3>1
  <2>5. \A h \in 1 .. m : at[h] \in Nat
    BY <1>3, <2>2
  <2>6. \A h, l \in 1 .. m : h < l => at[h] < at[l]
    BY <1>4, <2>2
  <2>7. Cardinality({at[h] : h \in 1 .. m}) = m
    BY <2>5, <2>6, RankIs
  <2>8. QED
    BY <2>1, <2>4, <2>7
<1>8. ASSUME NEW k \in 1 .. n
      PROVE  (CHOOSE i \in Begins(s) : Cardinality({j \in Begins(s) : j < i}) = k - 1) = at[k]
  <2>1. at[k] \in Begins(s)
    BY <1>5
  <2>2. ASSUME NEW i \in Begins(s), Cardinality({j \in Begins(s) : j < i}) = k - 1
        PROVE  i = at[k]
    <3>1. PICK h \in 1 .. n : i = at[h]
      BY <1>5
    <3>2. Cardinality({j \in Begins(s) : j < at[h]}) = h - 1
      BY <1>7
    <3>3. h - 1 = k - 1
      BY <2>2, <3>1, <3>2
    <3>4. h = k
      BY <3>3
    <3>5. QED
      BY <3>1, <3>4
  <2>3. Cardinality({j \in Begins(s) : j < at[k]}) = k - 1
    BY <1>7
  <2> DEFINE P(i) == Cardinality({j \in Begins(s) : j < i}) = k - 1
  <2>4. P(at[k]) /\ \A i \in Begins(s) : P(i) => i = at[k]
    BY <2>2, <2>3
  <2> HIDE DEF P
  <2>5. (CHOOSE i \in Begins(s) : P(i)) = at[k]
    BY <2>1, <2>4
  <2>6. QED
    BY <2>5 DEF P
<1>9. QED
  BY <1>6, <1>8

\* What is cut at an item is its text, but for a blank behind it.
LEMMA PartIs ==
  ASSUME NEW items, NEW s, NEW at, NEW w, Layout(items, s, at, w), AllClear(items),
         NEW n \in Nat, Size(items) = n, NEW k \in 1 .. n
  PROVE  Strip(SubSeq(s, at[k], Min({c \in Cuts(s) : c > at[k]}) - 1)) = ItemText(items[k])
<1>1. IsText(s)
  BY DEF Layout
<1>2. PICK o \in Nat : Size(s) = o
  BY <1>1, TextFacts
<1>3. PICK a \in Nat : at[k] = a
  BY <1>2, LayoutAt
<1>4. PICK b \in Nat : w[k] = b
  BY <1>2, LayoutAt
<1> DEFINE t == ItemText(items[k])
           C == {c \in Cuts(s) : c > a}
<1>5. /\ a > 0 /\ b > 0 /\ a + b <= o + 1 /\ (k = n => a + b = o + 1) /\ (k # n => a + b < o)
      /\ \A h \in 1 .. b : s[(a - 1) + h] = t[h]
      /\ IsClear(items[k]) /\ Size(t) = b
  BY <1>2, <1>3, <1>4, LayoutAt
<1>6. IsText(t) /\ t # <<>> /\ t[1] # Space /\ t[Size(t)] # Space
  <2>1. IsText(t)
    BY <1>5, ItemShape
  <2>2. Size(t) # 0
    BY <1>5
  <2>3. QED
    BY <1>5, <2>1, <2>2, TextFacts, ItemEnds
<1> HIDE DEF t
<1>7. ASSUME NEW c \in C
      PROVE  c \in Nat /\ (a + b <= c) /\ (c = a + b \/ a + b + 1 <= c)
  <2>1. c > a /\ (\/ c = o + 1
                  \/ \E h \in 1 .. n : c = at[h] \/ (h # n /\ c = at[h] + w[h]))
    BY <1>2, CutsAre
  <2>2. CASE c = o + 1
    BY <1>5, <2>2
  <2>3. ASSUME NEW h \in 1 .. n, c = at[h] \/ (h # n /\ c = at[h] + w[h])
        PROVE  c \in Nat /\ (a + b <= c)
    <3>1. PICK d \in Nat : at[h] = d
      BY <1>2, LayoutAt
    <3>2. PICK e \in Nat : w[h] = e
      BY <1>2, LayoutAt
    <3>3. c = d \/ c = d + e
      BY <2>3, <3>1, <3>2
    <3>4. h < k => d + e < a
      <4>1. h < k => at[h] + w[h] < at[k]
        BY DEF Layout
      <4>2. QED
        BY <1>3, <3>1, <3>2, <4>1
    <3>5. k < h => a + b < d
      <4>1. k < h => at[k] + w[k] < at[h]
        BY DEF Layout
      <4>2. QED
        BY <1>3, <1>4, <3>1, <4>1
    <3>6. h = k => d = a /\ e = b
      BY <1>3, <1>4, <3>1, <3>2
    <3>7. QED
      BY <2>1, <3>3, <3>4, <3>5, <3>6
  <2>4. c \in Nat /\ (a + b <= c)
    BY <2>1, <2>2, <2>3, <1>5
  <2>5. QED
    BY <2>4
<1>8. \/ Min(C) = a + b
      \/ k # n /\ Min(C) = a + b + 1 /\ s[a + b] = Space
  <2>1. CASE a + b \in C
    <3>1. \A c \in C : a + b <= c
      BY <1>7
    <3> HIDE DEF C
    <3>2. Min(C) = a + b
      <4>1. PICK d \in Nat : a + b = d
        OBVIOUS
      <4>2. \A c \in C : c \in Nat
        BY <1>7 DEF C
      <4>3. Min(C) = d
        BY <2>1, <3>1, <4>1, <4>2 DEF Min
      <4>4. QED
        BY <4>1, <4>3
    <3>3. QED
      BY <3>2
  <2>2. CASE a + b \notin C
    <3>1. k # n
      <4>1. o + 1 \in Cuts(s)
        BY <1>2, CutsAre
      <4>2. k = n => a + b \in C
        BY <1>5, <4>1
      <4>3. QED
        BY <2>2, <4>2
    <3>2. s[a + b] = Space
      <4>1. a + b > a
        BY <1>5
      <4>2. a + b \notin Cuts(s)
        BY <2>2, <4>1
      <4>3. at[k] + w[k] \notin Cuts(s) => s[at[k] + w[k]] = Space
        BY <1>2, <3>1, CutsAre
      <4>4. QED
        BY <1>3, <1>4, <4>2, <4>3
    <3>3. a + b + 1 \in C
      <4>1. k + 1 \in 1 .. n /\ at[k + 1] = at[k] + w[k] + 1
        BY <1>2, <3>1, LayoutNext
      <4>2. at[k + 1] \in Cuts(s)
        BY <1>2, <4>1, CutsAre
      <4>3. a + b + 1 > a /\ at[k + 1] = a + b + 1
        BY <1>3, <1>4, <4>1
      <4>4. QED
        BY <4>2, <4>3
    <3>4. \A c \in C : c \in Nat /\ a + b + 1 <= c
      BY <1>7, <2>2
    <3> HIDE DEF C
    <3>5. Min(C) = a + b + 1
      <4>1. PICK d \in Nat : a + b + 1 = d
        OBVIOUS
      <4>2. Min(C) = d
        BY <3>3, <3>4, <4>1 DEF Min
      <4>3. QED
        BY <4>1, <4>2
    <3>6. QED
      BY <3>1, <3>2, <3>5
  <2>3. QED
    BY <2>1, <2>2
<1> HIDE DEF C
<1>9. ASSUME NEW e \in Nat, a + b - 1 <= e, e <= o, e = a + b - 1 \/ (e = a + b /\ s[a + b] = Space)
      PROVE  Strip(Slice(s, a, e)) = t
  <2> DEFINE y == Slice(s, a, e)
  <2>1. 1 <= a /\ a - 1 <= e
    BY <1>5, <1>9
  <2>2. IsText(y) /\ Size(y) = e - a + 1
    BY <1>1, <1>2, <1>9, <2>1, SliceFacts
  <2>3. \A h \in 1 .. e - a + 1 : y[h] = s[a + h - 1]
    BY <1>1, <1>2, <1>9, <2>1, SliceAt
  <2> HIDE DEF y
  <2>4. \A h \in 1 .. b : y[0 + h] = t[h]
    <3>1. TAKE h \in 1 .. b
    <3>2. h \in 1 .. e - a + 1 /\ 0 + h = h /\ a + h - 1 = (a - 1) + h
      BY <1>5, <1>9
    <3>3. QED
      BY <1>5, <2>3, <3>2
  <2>5. Has(y, 0, t)
    <3>1. 0 + b <= e - a + 1
      BY <1>5, <1>9
    <3>2. QED
      BY <1>5, <2>2, <2>4, <3>1 DEF Has
  <2>6. \A h \in 1 .. e - a + 1 : h <= 0 \/ h > 0 + b => y[h] = Space
    <3>1. TAKE h \in 1 .. e - a + 1
    <3>2. HAVE h <= 0 \/ h > 0 + b
    <3>3. a + h - 1 = a + b /\ s[a + b] = Space
      BY <1>5, <1>9, <3>2
    <3>4. QED
      BY <2>3, <3>3
  <2>7. Strip(y) = t
    <3>1. \A h \in 1 .. Size(y) : h <= 0 \/ h > 0 + Size(t) => y[h] = Space
      BY <1>5, <2>2, <2>6
    <3>2. QED
      BY <1>6, <2>2, <2>5, <3>1, StripIs
  <2>8. QED
    BY <2>7 DEF y
<1>10. CASE Min(C) = a + b
  <2>1. a + b - 1 \in Nat /\ a + b - 1 <= o
    BY <1>5
  <2>2. Strip(Slice(s, a, a + b - 1)) = t
    BY <1>9, <2>1
  <2>3. Min(C) - 1 = a + b - 1
    BY <1>10
  <2>4. QED
    BY <1>3, <2>2, <2>3 DEF Slice, t, C
<1>11. CASE k # n /\ Min(C) = a + b + 1 /\ s[a + b] = Space
  <2>1. a + b \in Nat /\ a + b <= o /\ a + b - 1 <= a + b
    BY <1>5, <1>11
  <2>2. Strip(Slice(s, a, a + b)) = t
    BY <1>9, <1>11, <2>1
  <2>3. Min(C) - 1 = a + b
    BY <1>11
  <2>4. QED
    BY <1>3, <2>2, <2>3 DEF Slice, t, C
<1>12. QED
  BY <1>8, <1>10, <1>11

BeginOf(s, k) == CHOOSE i \in Begins(s) : Cardinality({j \in Begins(s) : j < i}) = k - 1
PartOf(s, i) == Strip(SubSeq(s, i, Min({c \in Cuts(s) : c > i}) - 1))

\* The parts of an order in clear items are the texts of its items.
LEMMA PartsAre ==
  ASSUME NEW items, NEW s, NEW at, NEW w, Layout(items, s, at, w), AllClear(items),
         NEW n \in Nat, Size(items) = n
  PROVE  Parts(s) = [k \in 1 .. n |-> ItemText(items[k])]
<1>1. Parts(s) = [k \in 1 .. Cardinality(Begins(s)) |-> PartOf(s, BeginOf(s, k))]
  BY Zenon DEF Parts, Begins, BeginOf, PartOf
<1>2. Cardinality(Begins(s)) = n
  BY BeginIs
<1>3. ASSUME NEW k \in 1 .. n
      PROVE  PartOf(s, BeginOf(s, k)) = ItemText(items[k])
  <2>1. BeginOf(s, k) = at[k]
    BY BeginIs DEF BeginOf
  <2>2. PartOf(s, at[k]) = ItemText(items[k])
    BY PartIs DEF PartOf
  <2>3. QED
    BY <2>1, <2>2
<1>4. QED
  BY <1>1, <1>2, <1>3

\* And they are read as they are meant, all of them or none.
LEMMA ClearTextIsRead ==
  ASSUME NEW items, NEW s, NEW at, NEW w, Layout(items, s, at, w), AllClear(items),
         NEW n \in Nat, Size(items) = n
  PROVE  parse_order_text(s) =
           IF \E k \in 1 .. n : items[k].count = 0 THEN <<>>
           ELSE FlattenSeq([k \in 1 .. n |-> MeantLines(items[k])])
<1> DEFINE read == [k \in DOMAIN Parts(s) |-> PartLines(Parts(s)[k])]
<1>1. Parts(s) = [k \in 1 .. n |-> ItemText(items[k])]
  BY PartsAre
<1>2. \A k \in 1 .. n : IsClear(items[k])
  BY DEF AllClear
<1>3. \A k \in 1 .. n : PartLines(ItemText(items[k])) = MeantLines(items[k])
  BY <1>2, ItemIsRead
<1>4. read = [k \in 1 .. n |-> MeantLines(items[k])]
  BY <1>1, <1>3
<1>5. \A k \in 1 .. n : Understood(MeantLines(items[k])) <=> items[k].count # 0
  BY <1>2, ItemIsRead
<1>6. parse_order_text(s) =
        IF \A k \in DOMAIN read : Understood(read[k]) THEN FlattenSeq(read) ELSE <<>>
  BY DEF parse_order_text
<1> HIDE DEF read
<1>7. DOMAIN read = 1 .. n /\ \A k \in 1 .. n : read[k] = MeantLines(items[k])
  BY <1>4
<1>8. (\A k \in DOMAIN read : Understood(read[k])) <=> ~(\E k \in 1 .. n : items[k].count = 0)
  BY <1>5, <1>7
<1>9. QED
  BY <1>4, <1>6, <1>8

-----------------------------------------------------------------------------
(* The text grows.                                                         *)

\* One item more.
LEMMA AppendIs ==
  ASSUME NEW S, NEW s \in Seq(S), NEW x \in S
  PROVE  /\ IsText(Append(s, x)) /\ Size(Append(s, x)) = Size(s) + 1
         /\ \A i \in 1 .. Size(s) : Append(s, x)[i] = s[i]
         /\ Append(s, x)[Size(s) + 1] = x
<1>1. Append(s, x) \in Seq(S)
  OBVIOUS
<1>2. IsText(Append(s, x))
  BY <1>1, SeqIsText
<1>3. Size(Append(s, x)) = Size(s) + 1
  BY DEF Size
<1>4. \A i \in 1 .. Size(s) : Append(s, x)[i] = s[i]
  BY DEF Size
<1>5. Append(s, x)[Size(s) + 1] = x
  BY DEF Size
<1>6. QED
  BY <1>2, <1>3, <1>4, <1>5

\* What comes before the last item of a clear order is a clear order.
LEMMA ClearBefore ==
  ASSUME NEW items \in Seq(Items), NEW item \in Items, AllClear(Append(items, item))
  PROVE  AllClear(items) /\ IsClear(item)
<1>1. IsText(items)
  BY SeqIsText
<1>2. PICK n \in Nat : Size(items) = n
  BY <1>1, TextFacts
<1> DEFINE more == Append(items, item)
<1>3. /\ Size(more) = n + 1 /\ more[n + 1] = item
      /\ \A k \in 1 .. n : more[k] = items[k]
  BY <1>2, AppendIs
<1>4. \A k \in 1 .. n + 1 :
        /\ IsClear(more[k])
        /\ SaidBlank(more[k]) => k = 1 \/ ~more[k].digits
        /\ k < n + 1 /\ more[k + 1].blank => DigitsLast(more[k])
  BY <1>3 DEF AllClear
<1> HIDE DEF more
<1>5. IsClear(item)
  <2>1. n + 1 \in 1 .. n + 1
    OBVIOUS
  <2>2. QED
    BY <1>3, <1>4, <2>1
<1>6. ASSUME NEW k \in 1 .. n
      PROVE  /\ IsClear(items[k])
             /\ SaidBlank(items[k]) => k = 1 \/ ~items[k].digits
             /\ k < n /\ items[k + 1].blank => DigitsLast(items[k])
  <2>1. k \in 1 .. n + 1 /\ k < n + 1
    OBVIOUS
  <2>2. k < n => k + 1 \in 1 .. n
    OBVIOUS
  <2>3. QED
    BY <1>3, <1>4, <2>1, <2>2
<1>7. AllClear(items)
  BY <1>2, <1>6 DEF AllClear
<1>8. QED
  BY <1>5, <1>7

\* The first item is laid out.
LEMMA LayoutStarts ==
  ASSUME NEW item \in Items, IsClear(item)
  PROVE  \E at, w : Layout(Append(<<>>, item), ItemText(item), at, w)
<1> DEFINE items == Append(<<>>, item)
           t == ItemText(item)
<1>1. IsText(t)
  BY ItemShape
<1>2. PICK m \in Nat : Size(t) = m
  BY <1>1, TextFacts
<1>3. m > 0
  BY <1>2, ItemEnds
<1>4. IsText(items) /\ Size(items) = 1 /\ items[1] = item
  <2>1. <<>> \in Seq(Items) /\ Size(<<>>) = 0
    BY EmptyText
  <2>2. IsText(items) /\ Size(items) = Size(<<>>) + 1 /\ items[Size(<<>>) + 1] = item
    BY <2>1, AppendIs
  <2>3. QED
    BY <2>1, <2>2
<1> HIDE DEF items, t
<1> DEFINE at == [k \in {1} |-> 1]
           w == [k \in {1} |-> m]
<1>5. at[1] = 1 /\ w[1] = m
  OBVIOUS
<1> HIDE DEF at, w
<1>6. \A k \in 1 .. 1 : k = 1
  OBVIOUS
<1>7. \A i \in 1 .. m : (1 - 1) + i = i
  OBVIOUS
<1>8. \A k \in 1 .. 1 :
        /\ at[k] \in Nat /\ at[k] > 0 /\ w[k] \in Nat /\ w[k] > 0
        /\ Size(ItemText(items[k])) = w[k]
        /\ \A i \in 1 .. w[k] : t[(at[k] - 1) + i] = ItemText(items[k])[i]
  BY <1>2, <1>3, <1>4, <1>5, <1>6, <1>7 DEF t
<1>9. \A i \in 1 .. m : \E k \in 1 .. 1 : at[k] <= i /\ i <= at[k] + w[k]
  <2>1. TAKE i \in 1 .. m
  <2>2. 1 \in 1 .. 1 /\ at[1] <= i /\ i <= at[1] + w[1]
    BY <1>5
  <2>3. QED
    BY <2>2
<1>10. at[1] + w[1] = m + 1 /\ 1 .. 1 - 1 = {}
  BY <1>3, <1>5
<1>11. \A k, l \in 1 .. 1 : k < l => at[k] + w[k] < at[l]
  BY <1>6
<1>12. Layout(items, t, at, w)
  BY <1>1, <1>2, <1>4, <1>5, <1>8, <1>9, <1>10, <1>11 DEF Layout
<1>13. QED
  BY <1>12 DEF items, t

Separator(item) == IF item.blank THEN Space ELSE NewLine

\* One clear item more, behind its separator, is laid out.
LEMMA LayoutGrows ==
  ASSUME NEW items \in Seq(Items), NEW item \in Items, AllClear(items), IsClear(item),
         NEW s, NEW at, NEW w, Layout(items, s, at, w)
  PROVE  \E at2, w2 :
           Layout(Append(items, item), Joined(Joined(s, <<Separator(item)>>), ItemText(item)),
                  at2, w2)
<1> DEFINE more == Append(items, item)
           t == ItemText(item)
           x == Separator(item)
           sep == <<x>>
           s2 == Joined(Joined(s, sep), t)
<1>1. IsText(s) /\ IsText(items) /\ Size(items) > 0
  BY DEF Layout
<1>2. PICK n \in Nat : Size(items) = n
  BY <1>1, TextFacts
<1>3. PICK o \in Nat : Size(s) = o
  BY <1>1, TextFacts
<1>4. IsText(t)
  BY ItemShape
<1>5. PICK m \in Nat : Size(t) = m
  BY <1>4, TextFacts
<1>6. m > 0 /\ n > 0
  BY <1>1, <1>2, <1>5, ItemEnds
<1>7. /\ IsText(more) /\ Size(more) = n + 1 /\ more[n + 1] = item
      /\ \A k \in 1 .. n : more[k] = items[k]
  BY <1>2, AppendIs
<1>8. IsText(sep) /\ Size(sep) = 1 /\ sep[1] = x
  BY TinyTexts
<1> HIDE DEF sep, t, x
<1>9. /\ IsText(s2) /\ Size(s2) = o + 1 + m
      /\ Has(s2, 0, s) /\ Has(s2, o, sep) /\ Has(s2, o + 1, t)
  BY <1>1, <1>3, <1>4, <1>5, <1>8, ThreeHas
<1> HIDE DEF s2, more
<1>10. /\ \A i \in 1 .. o : s2[i] = s[i]
       /\ s2[o + 1] = x
       /\ \A i \in 1 .. m : s2[(o + 1) + i] = t[i]
  <2>1. \A i \in 1 .. o : s2[0 + i] = s[i]
    BY <1>3, <1>9 DEF Has
  <2>2. \A i \in 1 .. o : 0 + i = i
    OBVIOUS
  <2>3. \A i \in 1 .. 1 : s2[o + i] = sep[i]
    BY <1>8, <1>9 DEF Has
  <2>4. \A i \in 1 .. m : s2[(o + 1) + i] = t[i]
    BY <1>5, <1>9 DEF Has
  <2>5. QED
    BY <1>8, <2>1, <2>2, <2>3, <2>4
<1> DEFINE at2 == [k \in 1 .. n + 1 |-> IF k = n + 1 THEN o + 2 ELSE at[k]]
           w2 == [k \in 1 .. n + 1 |-> IF k = n + 1 THEN m ELSE w[k]]
<1>11. /\ at2[n + 1] = o + 2 /\ w2[n + 1] = m
       /\ \A k \in 1 .. n : at2[k] = at[k] /\ w2[k] = w[k]
  OBVIOUS
<1> HIDE DEF at2, w2
<1>12. \A k \in 1 .. n :
         /\ at[k] \in Nat /\ at[k] > 0 /\ w[k] \in Nat /\ w[k] > 0
         /\ at[k] + w[k] <= o + 1 /\ (k = n => at[k] + w[k] = o + 1)
         /\ (k # n => at[k] + w[k] < o)
         /\ Size(ItemText(items[k])) = w[k]
  BY <1>2, <1>3, LayoutAt
<1>13. ASSUME NEW k \in 1 .. n + 1
       PROVE  /\ at2[k] \in Nat /\ at2[k] > 0 /\ w2[k] \in Nat /\ w2[k] > 0
              /\ Size(ItemText(more[k])) = w2[k]
              /\ \A i \in 1 .. w2[k] : s2[(at2[k] - 1) + i] = ItemText(more[k])[i]
  <2>1. CASE k = n + 1
    <3>1. (o + 2) - 1 = o + 1 /\ o + 2 \in Nat /\ o + 2 > 0
      OBVIOUS
    <3>2. at2[k] = o + 2 /\ w2[k] = m /\ more[k] = item
      BY <1>7, <1>11, <2>1
    <3>3. ItemText(item) = t
      BY DEF t
    <3>4. QED
      BY <1>5, <1>6, <1>10, <3>1, <3>2, <3>3
  <2>2. CASE k # n + 1
    <3>1. k \in 1 .. n
      BY <2>2
    <3>2. PICK a \in Nat : at[k] = a
      BY <1>12, <3>1
    <3>3. PICK b \in Nat : w[k] = b
      BY <1>12, <3>1
    <3>4. a > 0 /\ b > 0 /\ a + b <= o + 1 /\ Size(ItemText(items[k])) = b
      BY <1>12, <3>1, <3>2, <3>3
    <3>5. \A i \in 1 .. b : s[(a - 1) + i] = ItemText(items[k])[i]
      <4>1. \A i \in 1 .. w[k] : s[(at[k] - 1) + i] = ItemText(items[k])[i]
        <5>1. k \in 1 .. Size(items)
          BY ONLY <1>2, <3>1
        <5>2. QED
          BY ONLY <5>1, Layout(items, s, at, w) DEF Layout
      <4>2. QED
        BY ONLY <3>2, <3>3, <4>1
    <3>6. \A i \in 1 .. b : s2[(a - 1) + i] = ItemText(items[k])[i]
      <4>1. TAKE i \in 1 .. b
      <4>2. (a - 1) + i \in 1 .. o
        BY <3>4
      <4>3. QED
        BY <1>10, <3>5, <4>2
    <3>7. at2[k] = a /\ w2[k] = b /\ more[k] = items[k]
      BY <1>7, <1>11, <3>1, <3>2, <3>3
    <3>8. QED
      BY <3>4, <3>6, <3>7
  <2>3. QED
    BY <2>1, <2>2
<1>14. at2[1] = 1
  <2>1. 1 \in 1 .. n /\ at[1] = 1
    BY <1>6 DEF Layout
  <2>2. QED
    BY <1>11, <2>1
<1>15. at2[n + 1] + w2[n + 1] = (o + 1 + m) + 1
  BY <1>11
<1>16. ASSUME NEW k \in 1 .. n
       PROVE  /\ at2[k + 1] = at2[k] + w2[k] + 1
              /\ s2[at2[k] + w2[k]] = IF more[k + 1].blank THEN Space ELSE NewLine
  <2>1. CASE k = n
    <3>1. at2[k] + w2[k] = o + 1
      BY <1>11, <1>12, <2>1
    <3>2. QED
      BY <1>7, <1>10, <1>11, <2>1, <3>1 DEF x, Separator
  <2>2. CASE k # n
    <3>1. /\ k + 1 \in 1 .. n /\ at[k + 1] = at[k] + w[k] + 1
          /\ s[at[k] + w[k]] = IF items[k + 1].blank THEN Space ELSE NewLine
      BY <1>2, <1>3, <2>2, LayoutNext
    <3>2. at[k] + w[k] \in 1 .. o
      BY <1>12, <2>2
    <3>3. s2[at[k] + w[k]] = s[at[k] + w[k]]
      BY <1>10, <3>2
    <3>4. at2[k + 1] = at[k + 1] /\ at2[k] = at[k] /\ w2[k] = w[k] /\ more[k + 1] = items[k + 1]
      BY <1>7, <1>11, <3>1
    <3>5. QED
      BY <3>1, <3>3, <3>4
  <2>3. QED
    BY <2>1, <2>2
<1>17. ASSUME NEW i \in 1 .. o + 1 + m
       PROVE  \E k \in 1 .. n + 1 : at2[k] <= i /\ i <= at2[k] + w2[k]
  <2>1. CASE i \in 1 .. o
    <3>1. PICK k \in 1 .. n : at[k] <= i /\ i <= at[k] + w[k]
      BY <1>2, <1>3, <2>1 DEF Layout
    <3>2. k \in 1 .. n + 1
      OBVIOUS
    <3>3. QED
      BY <1>11, <3>1, <3>2
  <2>2. CASE i = o + 1
    <3>1. n \in 1 .. n /\ n \in 1 .. n + 1
      BY <1>6
    <3>2. at[n] <= i /\ i <= at[n] + w[n]
      BY <1>12, <2>2, <3>1
    <3>3. QED
      BY <1>11, <3>1, <3>2
  <2>3. CASE i > o + 1
    <3>1. n + 1 \in 1 .. n + 1 /\ o + 2 <= i /\ i <= o + 2 + m
      BY <2>3
    <3>2. QED
      BY <1>11, <3>1
  <2>4. QED
    BY <2>1, <2>2, <2>3
<1>18. ASSUME NEW k \in 1 .. n + 1, NEW l \in 1 .. n + 1, k < l
       PROVE  at2[k] + w2[k] < at2[l]
  <2>1. k \in 1 .. n
    BY <1>18
  <2>2. CASE l = n + 1
    BY <1>11, <1>12, <2>1, <2>2
  <2>3. CASE l # n + 1
    <3>1. l \in 1 .. n
      BY <2>3
    <3>2. at[k] + w[k] < at[l]
      BY <1>2, <1>18, <2>1, <3>1 DEF Layout
    <3>3. QED
      BY <1>11, <2>1, <3>1, <3>2
  <2>4. QED
    BY <2>2, <2>3
<1>19. n + 1 > 0 /\ (n + 1) - 1 = n
  OBVIOUS
<1>20. Layout(more, s2, at2, w2)
  BY <1>7, <1>9, <1>13, <1>14, <1>15, <1>16, <1>17, <1>18, <1>19 DEF Layout
<1>21. QED
  BY <1>20 DEF more, s2, sep, t, x

-----------------------------------------------------------------------------
(* The order that is said.                                                 *)

\* The lines are what the text is read as, and a clear order is laid out in it.
ReadInv ==
  /\ said \in Seq(Items)
  /\ said = <<>> => text = <<>> /\ lines = <<>>
  /\ said # <<>> => lines = parse_order_text(text)
  /\ said # <<>> /\ AllClear(said) => \E at, w : Layout(said, text, at, w)

\* Clear says of an order what AllClear says of its items.
LEMMA ClearIs ==
  ASSUME said \in Seq(Items), Clear
  PROVE  AllClear(said)
<1>1. IsText(said)
  BY SeqIsText
<1>2. PICK n \in Nat : Size(said) = n
  BY <1>1, TextFacts
<1>3. DOMAIN said = 1 .. n
  BY <1>1, <1>2, TextFacts
<1>4. \A k \in 1 .. n : said[k] \in Items
  BY <1>3
<1>5. Len(said) = n
  BY <1>2 DEF Size
<1>6. ASSUME NEW k \in 1 .. n
      PROVE  /\ IsClear(said[k])
             /\ SaidBlank(said[k]) => k = 1 \/ ~said[k].digits
             /\ k < n /\ said[k + 1].blank => DigitsLast(said[k])
  <2>1. /\ NameIsClear(said[k]) /\ NumberIsClear(said[k]) /\ UnitIsClear(said[k])
        /\ BlankIsClear(k) /\ GapIsClear(k)
    BY <1>3 DEF Clear
  <2>2. IsClear(said[k])
    BY <1>4, <2>1 DEF IsClear
  <2>3. SaidBlank(said[k]) => k = 1 \/ ~said[k].digits
    BY <2>1 DEF GapIsClear, SaidBlank
  <2>4. k < n /\ said[k + 1].blank => DigitsLast(said[k])
    BY <1>5, <2>1 DEF BlankIsClear, DigitsLast
  <2>5. QED
    BY <2>2, <2>3, <2>4
<1>7. QED
  BY <1>2, <1>6 DEF AllClear

\* Saying one item more keeps what is read (parse_order_text reads the whole
\* text again).
LEMMA ReadStep ==
  ASSUME ReadInv, NEW item \in Items, Say(item)
  PROVE  ReadInv'
<1>1. /\ said' = Append(said, item) /\ lines' = parse_order_text(text')
      /\ text' = text
           \o (IF said = <<>> THEN <<>> ELSE IF item.blank THEN <<Space>> ELSE <<NewLine>>)
           \o ItemText(item)
  BY DEF Say
<1>2. said \in Seq(Items)
  BY DEF ReadInv
<1>3. IsText(said') /\ Size(said') = Size(said) + 1 /\ Size(said) \in Nat
  BY <1>1, <1>2, AppendIs, SeqIsText, TextFacts
<1>4. said' \in Seq(Items)
  BY <1>1, <1>2
<1>5. said' # <<>>
  <2>1. Size(said') # 0
    BY <1>3
  <2>2. QED
    BY <1>3, <2>1, TextFacts
<1>6. ASSUME AllClear(Append(said, item))
      PROVE  \E at, w : Layout(Append(said, item), text', at, w)
  <2>1. AllClear(said) /\ IsClear(item)
    BY <1>2, <1>6, ClearBefore
  <2>2. CASE said = <<>>
    <3>1. text = <<>>
      BY <2>2 DEF ReadInv
    <3>2. text' = Joined(Joined(<<>>, <<>>), ItemText(item))
      BY <1>1, <2>2, <3>1 DEF Joined
    <3>3. text' = ItemText(item)
      <4>1. Joined(<<>>, <<>>) = <<>> /\ IsText(ItemText(item))
        BY <2>1, EmptyText, ItemShape
      <4>2. Joined(<<>>, ItemText(item)) = ItemText(item)
        BY <4>1, EmptyText
      <4>3. QED
        BY ONLY <3>2, <4>1, <4>2
    <3>4. \E at, w : Layout(Append(<<>>, item), ItemText(item), at, w)
      BY <2>1, LayoutStarts
    <3>5. QED
      BY <2>2, <3>3, <3>4
  <2>3. CASE said # <<>>
    <3>1. PICK at, w : Layout(said, text, at, w)
      BY <2>1, <2>3 DEF ReadInv
    <3>2. text' = Joined(Joined(text, <<Separator(item)>>), ItemText(item))
      BY <1>1, <2>3 DEF Joined, Separator
    <3>3. \E at2, w2 :
            Layout(Append(said, item),
                   Joined(Joined(text, <<Separator(item)>>), ItemText(item)), at2, w2)
      BY <1>2, <2>1, <3>1, LayoutGrows
    <3>4. QED
      BY <3>2, <3>3
  <2>4. QED
    BY <2>2, <2>3
<1>7. AllClear(said') => \E at, w : Layout(said', text', at, w)
  BY <1>1, <1>6
<1>8. QED
  BY <1>1, <1>4, <1>5, <1>7 DEF ReadInv

\* What is laid out is read as it is meant.
LEMMA ReadAsMeant == ReadInv => ClearOrdersAreRead
<1> SUFFICES ASSUME ReadInv, Clear
             PROVE  lines = IF \E i \in DOMAIN said : said[i].count = 0 THEN <<>> ELSE Meant
  BY DEF ClearOrdersAreRead
<1>1. said \in Seq(Items) /\ IsText(said)
  BY SeqIsText DEF ReadInv
<1>2. PICK n \in Nat : Size(said) = n
  BY <1>1, TextFacts
<1>3. DOMAIN said = 1 .. n
  BY <1>1, <1>2, TextFacts
<1>4. CASE said = <<>>
  <2>1. lines = <<>>
    BY <1>4 DEF ReadInv
  <2>2. n = 0
    BY <1>1, <1>2, <1>4, TextFacts
  <2>3. DOMAIN said = {}
    BY <1>3, <2>2
  <2>4. [i \in DOMAIN said |-> MeantLines(said[i])] = <<>>
    BY <2>3
  <2>5. Meant = <<>>
    BY <2>4 DEF Meant, FlattenSeq
  <2>6. QED
    BY <2>1, <2>5
<1>5. CASE said # <<>>
  <2>1. AllClear(said)
    BY <1>1, ClearIs
  <2>2. PICK at, w : Layout(said, text, at, w)
    BY <1>5, <2>1 DEF ReadInv
  <2>3. parse_order_text(text) =
          IF \E k \in 1 .. n : said[k].count = 0 THEN <<>>
          ELSE FlattenSeq([k \in 1 .. n |-> MeantLines(said[k])])
    BY <1>2, <2>1, <2>2, ClearTextIsRead
  <2>4. Meant = FlattenSeq([k \in 1 .. n |-> MeantLines(said[k])])
    BY <1>3 DEF Meant
  <2>5. lines = parse_order_text(text)
    BY <1>5 DEF ReadInv
  <2>6. QED
    BY <1>3, <2>3, <2>4, <2>5
<1>6. QED
  BY <1>4, <1>5

-----------------------------------------------------------------------------
(* Orders: what is read is drafted.                                        *)

\* Reading orders leaves matching alone.
LEMMA ShopsStep == [ShopsNext]_shopVars => [Next]_vars
BY DEF ShopsNext, CreateDraft, shopVars

LEMMA DraftStep == DraftInv /\ [ShopsNext]_shopVars => DraftInv'
<1> SUFFICES ASSUME DraftInv, [ShopsNext]_shopVars PROVE DraftInv'
  OBVIOUS
<1>1. /\ said \in Seq(Items) /\ (said = <<>> => lines = <<>>)
      /\ (said # <<>> => Grouped)
      /\ draft = [i \in DOMAIN lines |-> LineMatch(lines[i].name)]
  BY DEF DraftInv
<1>2. CASE said = <<>> /\ Next /\ UNCHANGED orderVars
  <2>1. lines' = <<>> /\ lines = <<>> /\ said' = <<>> /\ draft' = draft
    BY <1>1, <1>2 DEF orderVars
  <2>2. DOMAIN <<>> = {}
    OBVIOUS
  <2>3. draft' = [i \in DOMAIN lines' |-> (LineMatch(lines[i].name))']
    BY <1>1, <2>1, <2>2
  <2> QED BY <1>1, <2>1, <2>3 DEF DraftInv
<1>3. ASSUME UNCHANGED vars
      PROVE  Grouped' = Grouped /\ \A n : (LineMatch(n))' = LineMatch(n)
  <2>1. UNCHANGED <<settings, groups, visited, component>>
    BY <1>3 DEF vars
  <2>2. \A n : (MatchOf(n))' = MatchOf(n)
    BY <2>1, SameAnswer
  <2>3. Vertices' = Vertices
    BY <2>1, SameSettings
  <2> QED BY <2>1, <2>2, <2>3 DEF LineMatch, Grouped
<1>4. CASE CreateDraft
  <2>1. PICK item \in Items : Say(item)
    BY <1>4 DEF CreateDraft
  <2>2. said' = Append(said, item) /\ Grouped /\ UNCHANGED vars
        /\ draft' = [i \in DOMAIN lines' |-> LineMatch(lines'[i].name)]
    BY <1>4, <2>1 DEF CreateDraft, Say
  <2>3. said' \in Seq(Items) /\ said' # <<>>
    <3>1. /\ Append(said, item) \in Seq(Items)
          /\ Len(Append(said, item)) = Len(said) + 1
      BY <1>1, AppendProperties
    <3>2. Len(said) \in Nat /\ Len(<<>>) = 0
      BY <1>1, LenProperties
    <3>3. Append(said, item) # <<>>
      <4>1. \A t : t = <<>> => Len(t) = 0
        BY <3>2
      <4> QED BY <3>1, <3>2, <4>1
    <3> QED BY <2>2, <3>1, <3>3
  <2>4. draft' = [i \in DOMAIN lines' |-> (LineMatch(lines[i].name))']
    BY <1>3, <2>2
  <2> QED BY <1>3, <2>2, <2>3, <2>4 DEF DraftInv
<1>5. CASE UNCHANGED shopVars
  <2>1. UNCHANGED <<vars, said, lines, draft>>
    BY <1>5 DEF shopVars, orderVars
  <2>2. draft' = [i \in DOMAIN lines' |-> (LineMatch(lines[i].name))']
    BY <1>1, <1>3, <2>1
  <2> QED BY <1>1, <1>3, <2>1, <2>2 DEF DraftInv
<1> QED BY <1>2, <1>4, <1>5 DEF ShopsNext

\* Reading keeps what is read, and a search by one name leaves it alone.
LEMMA ReadingStep == ReadInv /\ [ShopsNext]_shopVars => ReadInv'
<1> SUFFICES ASSUME ReadInv, [ShopsNext]_shopVars PROVE ReadInv'
  OBVIOUS
<1>1. CASE CreateDraft
  <2>1. PICK item \in Items : Say(item)
    BY <1>1 DEF CreateDraft
  <2> QED BY <2>1, ReadStep
<1>2. CASE UNCHANGED orderVars
  <2>1. said' = said /\ text' = text /\ lines' = lines
    BY <1>2 DEF orderVars
  <2> QED BY <2>1 DEF ReadInv
<1> QED BY <1>1, <1>2 DEF ShopsNext, shopVars

LEMMA ShopsAlways == ShopsSpec => [](MatchingInv /\ DraftInv /\ ReadInv)
<1>1. ShopsInit => MatchingInv /\ DraftInv /\ ReadInv
  <2> SUFFICES ASSUME ShopsInit PROVE MatchingInv /\ DraftInv /\ ReadInv
    OBVIOUS
  <2>1. Init /\ said = <<>> /\ text = <<>> /\ lines = <<>> /\ draft = <<>>
    BY DEF ShopsInit, OrderInit
  <2>2. DOMAIN <<>> = {} /\ <<>> \in Seq(Items)
    OBVIOUS
  <2>3. draft = [i \in DOMAIN lines |-> LineMatch(lines[i].name)]
    BY <2>1, <2>2
  <2>4. ReadInv
    BY <2>1, <2>2 DEF ReadInv
  <2> QED BY <2>1, <2>2, <2>3, <2>4, MatchingInit DEF DraftInv
<1>2. MatchingInv /\ DraftInv /\ ReadInv /\ [ShopsNext]_shopVars
        => MatchingInv' /\ DraftInv' /\ ReadInv'
  BY ShopsStep, MatchingStep, DraftStep, ReadingStep
<1> QED BY <1>1, <1>2, PTL DEF ShopsSpec

\* What holds of searches by one name holds while orders are read
\* (create_draft_from_text leaves the catalogue alone).
THEOREM OrdersKeepPromises ==
  ShopsSpec => [](GroupsAreSynonyms /\ CertainIsUnique /\ NothingCertainLost)
<1>1. MatchingInv => GroupsAreSynonyms /\ CertainIsUnique /\ NothingCertainLost
  BY GroupsHold, UniqueHits, NoHitLost
<1> QED BY <1>1, ShopsAlways, PTL

\* An order in clear items is read as it was meant (parse_order_text): in any
\* number of them, of any names, units and counts below ten thousand, on lines of
\* their own or behind a blank, every name, quantity and unit; and an order that
\* asks for nothing of something is refused.
THEOREM OrdersAreRead == ShopsSpec => []ClearOrdersAreRead
<1> QED BY ReadAsMeant, ShopsAlways, PTL

LEMMA ReadIsDrafted ==
  MatchingInv /\ DraftInv /\ ClearOrdersAreRead => OrderedIsDrafted
<1> SUFFICES ASSUME MatchingInv, DraftInv, ClearOrdersAreRead, NoClash, Clear, lines # <<>>,
                    \A i \in DOMAIN Meant : GoesByName(Meant[i].name)
             PROVE  /\ DOMAIN draft = DOMAIN Meant
                    /\ \A i \in DOMAIN Meant :
                         /\ draft[i].selected \in Known(Key[Meant[i].name])
                         /\ lines[i].quantity = Meant[i].quantity
  BY DEF OrderedIsDrafted
<1>1. lines = Meant
  BY DEF ClearOrdersAreRead
<1>2. Grouped /\ draft = [i \in DOMAIN lines |-> LineMatch(lines[i].name)]
  BY DEF DraftInv
<1>3. \A i \in DOMAIN Meant : draft[i].selected \in Known(Key[Meant[i].name])
  BY <1>1, <1>2, NamedIsSelected
<1> QED BY <1>1, <1>2, <1>3

\* An order in clear items, each by a name or synonym of one product, is drafted
\* as those products in those quantities, whatever the catalogue and however the
\* items are said (create_draft_from_text).
THEOREM OrdersAreDrafted == ShopsSpec => []OrderedIsDrafted
<1> QED BY ReadAsMeant, ReadIsDrafted, ShopsAlways, PTL
=============================================================================
