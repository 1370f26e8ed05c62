---------------------------- MODULE PagingProofs ----------------------------
(***************************************************************************)
(* No load misses a product that stays where its limit lets it get to, for *)
(* any number of products, any limit and any page size.                    *)
(***************************************************************************)
EXTENDS ProductPaging, SequenceTheorems, TLAPS

\* What InsertAt returns.
LEMMA InsertAtProperties ==
  ASSUME NEW S, NEW s \in Seq(S), NEW e \in S, NEW i \in 1 .. Len(s) + 1
  PROVE  LET t == InsertAt(s, i, e) IN
         /\ t \in Seq(S) /\ Len(t) = Len(s) + 1
         /\ \A j \in 1 .. Len(t) :
              t[j] = IF j < i THEN s[j] ELSE IF j = i THEN e ELSE s[j - 1]
<1> DEFINE a == SubSeq(s, 1, i - 1)  b == <<e>>  c == SubSeq(s, i, Len(s))
<1>1. Len(s) \in Nat /\ \A j \in 1 .. Len(s) : s[j] \in S
  BY LenProperties, ElementOfSeq
<1>2. /\ a \in Seq(S) /\ Len(a) = i - 1
      /\ \A j \in 1 .. i - 1 : a[j] = s[j]
  <2>1. /\ i \in Int /\ i - 1 \in Int /\ 1 \in Int /\ \A j \in 1 .. i - 1 : s[j] \in S
    BY <1>1
  <2> HIDE <1>1
  <2>2. /\ a \in Seq(S) /\ Len(a) = IF 1 <= i - 1 THEN i - 1 - 1 + 1 ELSE 0
        /\ \A j \in 1 .. i - 1 - 1 + 1 : a[j] = s[1 + j - 1]
    BY <2>1, SubSeqProperties
  <2> HIDE DEF a
  <2> QED BY <2>1, <2>2
<1>3. /\ c \in Seq(S) /\ Len(c) = Len(s) - i + 1
      /\ \A j \in 1 .. Len(s) - i + 1 : c[j] = s[i + j - 1]
  <2>1. i \in Int /\ Len(s) \in Int /\ \A j \in i .. Len(s) : s[j] \in S
    BY <1>1
  <2>2. /\ c \in Seq(S) /\ Len(c) = IF i <= Len(s) THEN Len(s) - i + 1 ELSE 0
        /\ \A j \in 1 .. Len(s) - i + 1 : c[j] = s[i + j - 1]
    BY <2>1, SubSeqProperties
  <2> HIDE DEF c
  <2> QED BY <2>1, <2>2, <1>1
<1>4. b \in Seq(S) /\ Len(b) = 1 /\ b[1] = e
  OBVIOUS
<1> HIDE DEF a, b, c
<1> DEFINE ab == a \o b
<1>5. /\ ab \in Seq(S) /\ Len(ab) = Len(a) + Len(b)
      /\ \A j \in 1 .. Len(a) + Len(b) : ab[j] = IF j <= Len(a) THEN a[j] ELSE b[j - Len(a)]
  BY <1>2, <1>4, ConcatProperties
<1> HIDE DEF ab
<1>6. /\ ab \o c \in Seq(S) /\ Len(ab \o c) = Len(ab) + Len(c)
      /\ \A j \in 1 .. Len(ab) + Len(c) :
           (ab \o c)[j] = IF j <= Len(ab) THEN ab[j] ELSE c[j - Len(ab)]
  <2>1. ab \in Seq(S) /\ c \in Seq(S)
    BY <1>3, <1>5
  <2> QED BY <2>1, ConcatProperties
<1> DEFINE t == ab \o c
<1>7. t = InsertAt(s, i, e)
  BY DEF InsertAt, ab, a, b, c
<1> HIDE DEF t
<1>8. t \in Seq(S) /\ Len(t) = Len(s) + 1
  BY <1>1, <1>2, <1>3, <1>4, <1>5, <1>6 DEF t
<1>9. ASSUME NEW j \in 1 .. Len(t)
      PROVE  t[j] = IF j < i THEN s[j] ELSE IF j = i THEN e ELSE s[j - 1]
  <2>1. CASE j < i
    <3>1. t[j] = ab[j]
      BY <2>1, <1>1, <1>2, <1>3, <1>4, <1>5, <1>6, <1>8 DEF t
    <3>2. ab[j] = a[j] /\ a[j] = s[j]
      BY <2>1, <1>1, <1>2, <1>4, <1>5, <1>8
    <3> QED BY <2>1, <3>1, <3>2
  <2>2. CASE j = i
    BY <2>2, <1>1, <1>2, <1>3, <1>4, <1>5, <1>6, <1>8 DEF t
  <2>3. CASE j > i
    <3>1. t[j] = c[j - i]
      BY <2>3, <1>1, <1>2, <1>3, <1>4, <1>5, <1>6, <1>8 DEF t
    <3>2. j - i \in 1 .. Len(s) - i + 1
      BY <2>3, <1>1, <1>8
    <3> QED BY <2>3, <3>1, <3>2, <1>1, <1>3
  <2> QED BY <2>1, <2>2, <2>3
<1> QED BY <1>7, <1>8, <1>9

\* RemoveAt gives a sequence again.
LEMMA RemoveAtIsASeq ==
  ASSUME NEW S, NEW s \in Seq(S), NEW i \in 1 .. Len(s)
  PROVE  RemoveAt(s, i) \in Seq(S)
<1>1. Len(s) \in Nat /\ \A j \in 1 .. Len(s) : s[j] \in S
  BY LenProperties, ElementOfSeq
<1>2. i \in Int /\ i - 1 \in Int /\ i + 1 \in Int /\ Len(s) \in Int
      /\ (\A j \in 1 .. i - 1 : s[j] \in S) /\ \A j \in i + 1 .. Len(s) : s[j] \in S
  BY <1>1
<1>3. SubSeq(s, 1, i - 1) \in Seq(S) /\ SubSeq(s, i + 1, Len(s)) \in Seq(S)
  BY <1>2, SubSeqProperties
<1> QED BY <1>3, ConcatProperties DEF RemoveAt

\* The page of a positive size at a positive number: the rows of the list from
\* the one after (n - 1) * k on, as many as there are up to n * k.
LEMMA PageProperties ==
  ASSUME list \in Seq(Products), pageNum \in Nat \ {0}, NEW k \in Nat \ {0}
  PROVE  LET before == (pageNum - 1) * k
             after == Smaller(pageNum * k, Len(list))
         IN /\ before \in Nat /\ pageNum * k = before + k /\ after \in Nat
            /\ Page(k) \in Seq(Products)
            /\ Len(Page(k)) = IF before < after THEN after - before ELSE 0
            /\ Len(Page(k)) <= k
            /\ \A i \in 1 .. Len(Page(k)) : Page(k)[i] = list[before + i]
<1> DEFINE before == (pageNum - 1) * k
           after == Smaller(pageNum * k, Len(list))
<1>1. before \in Nat /\ pageNum * k = before + k
  OBVIOUS
<1>2. Len(list) \in Nat /\ \A i \in 1 .. Len(list) : list[i] \in Products
  BY LenProperties, ElementOfSeq
<1> HIDE DEF before
<1>3. after \in Nat /\ after <= Len(list)
  BY <1>1, <1>2 DEF Smaller
<1>4. Page(k) = SubSeq(list, before + 1, after)
  BY DEF Page, before
<1> HIDE DEF after
<1>5. /\ before + 1 \in Int /\ after \in Int
      /\ \A i \in before + 1 .. after : list[i] \in Products
  BY <1>1, <1>2, <1>3
<1> DEFINE page == SubSeq(list, before + 1, after)
<1>6. /\ page \in Seq(Products)
      /\ Len(page) = IF before + 1 <= after THEN after - (before + 1) + 1 ELSE 0
      /\ \A i \in 1 .. after - (before + 1) + 1 : page[i] = list[before + 1 + i - 1]
  BY <1>5, SubSeqProperties
<1> HIDE DEF page
<1>7. Len(page) = IF before < after THEN after - before ELSE 0
  BY <1>1, <1>3, <1>6
<1>9. Len(page) <= k
  BY <1>1, <1>2, <1>3, <1>7 DEF after, Smaller
<1>8. ASSUME NEW i \in 1 .. Len(page) PROVE page[i] = list[before + i]
  <2>1. i \in 1 .. after - (before + 1) + 1 /\ before + 1 + i - 1 = before + i
    BY <1>1, <1>3, <1>7
  <2> QED BY <1>6, <2>1
<1> QED BY <1>1, <1>3, <1>4, <1>6, <1>7, <1>8, <1>9 DEF page, before, after

\* What a limit lets a load get to.
LEMMA WithinLimit ==
  ASSUME limit \in Nat, NEW i \in Nat, Within(i)
  PROVE  /\ i <= limit
         /\ limit >= PageSize =>
              \E n \in Nat : n * PageSize \in Nat /\ i <= n * PageSize /\ n * PageSize <= limit
<1>1. limit # NoLimit
  BY PagingAssumption
<1>2. CASE limit < PageSize /\ i <= limit
  BY <1>2, PagingAssumption
<1>3. CASE \E n \in 1 .. limit : i <= n * PageSize /\ n * PageSize <= limit
  <2>1. PICK n \in 1 .. limit : i <= n * PageSize /\ n * PageSize <= limit
    BY <1>3
  <2>2. n \in Nat /\ n * PageSize \in Nat
    BY PagingAssumption
  <2>3. i <= limit
    BY <2>1, <2>2
  <2> QED BY <2>1, <2>2, <2>3
<1> QED BY <1>1, <1>2, <1>3 DEF Within

\* The invariant holds when a load begins.
LEMMA InitInv == Init => PagingInv
<1> SUFFICES ASSUME Init PROVE PagingInv
  OBVIOUS
<1>1. PICK n \in 0 .. MaxProducts : list = [i \in 1 .. n |-> i]
  BY DEF Init
<1>2. n \in Nat /\ \A i \in 1 .. n : i \in Products
  BY PagingAssumption DEF Products
<1>3. list \in Seq(Products)
  BY <1>1, <1>2, IsASeq
<1>4. initial \subseteq Products
  BY <1>3, <1>2, <1>1 DEF Init, ToSet
<1>5. Len(rows) = 0 /\ rows \in Seq(Products)
  BY DEF Init
<1>6. TypeOK
  <2>1. limit # NoLimit => Len(rows) <= limit /\ Len(rows) < limit
    BY <1>5, PagingAssumption DEF Init
  <2>2. inserted \in BOOLEAN /\ removed \in BOOLEAN
    BY Zenon DEF Init
  <2>3. limit \in Limits /\ pageNum \in Nat \ {0} /\ pc \in {"fetching", "done", "failed"}
    BY DEF Init
  <2> QED BY <1>3, <1>4, <1>5, <2>1, <2>2, <2>3 DEF TypeOK
<1>7. NothingBehind
  <2>1. Past = 0
    BY PagingAssumption DEF Init, Past
  <2>2. \A i \in 1 .. Len(list) : ~(i <= 0)
    BY <1>3, LenProperties
  <2>3. initial = ToSet(list) /\ Len(rows) = Past
    BY <1>5, <2>1 DEF Init
  <2> QED BY <2>1, <2>2, <2>3 DEF NothingBehind
<1> QED BY <1>6, <1>7 DEF Init, PagingInv, NothingMissed

\* A page read keeps the invariant: it appends what comes next, and ends the
\* load only at the end of the list.
LEMMA FetchPageInv ==
  ASSUME PagingInv, FetchPage
  PROVE  PagingInv'
<1> DEFINE page == Page(Size)
<1> USE DEF PagingInv
<1>1. /\ list \in Seq(Products) /\ Len(list) \in Nat
      /\ rows \in Seq(Products) /\ Len(rows) \in Nat
      /\ pageNum \in Nat \ {0} /\ limit \in Limits /\ pc = "fetching"
  BY LenProperties DEF TypeOK, FetchPage
<1>2. /\ Size \in Nat \ {0}
      /\ limit = NoLimit => Size = PageSize
      /\ limit # NoLimit => limit \in Nat /\ Len(rows) < limit /\ Size <= limit - Len(rows)
  BY <1>1, PagingAssumption DEF Size, Smaller, TypeOK
<1> DEFINE before == (pageNum - 1) * Size
           after == Smaller(pageNum * Size, Len(list))
<1>3. /\ before \in Nat /\ pageNum * Size = before + Size /\ after \in Nat
      /\ page \in Seq(Products)
      /\ Len(page) = IF before < after THEN after - before ELSE 0
      /\ Len(page) <= Size
      /\ \A i \in 1 .. Len(page) : page[i] = list[before + i]
  BY <1>1, <1>2, PageProperties
<1>4. Len(page) \in Nat
  BY <1>3, LenProperties
<1>5. /\ rows' = rows \o page
      /\ \/ IsLast(page) /\ pc' = "done" /\ pageNum' = pageNum
         \/ ~IsLast(page) /\ pageNum' = pageNum + 1 /\ pc' = "fetching"
      /\ UNCHANGED <<list, initial, inserted, removed, limit>>
  BY <1>1 DEF FetchPage
<1>6. page = <<>> => Len(page) = 0
  OBVIOUS
<1> HIDE DEF page, before
<1>7. /\ rows' \in Seq(Products) /\ Len(rows') = Len(rows) + Len(page)
      /\ \A i \in 1 .. Len(rows) + Len(page) :
           rows'[i] = IF i <= Len(rows) THEN rows[i] ELSE page[i - Len(rows)]
  BY <1>1, <1>3, <1>5, ConcatProperties
<1>8. TypeOK'
  <2>1. pageNum' \in Nat \ {0} /\ pc' \in {"fetching", "done", "failed"}
    BY <1>1, <1>5
  <2>2. ASSUME limit # NoLimit
        PROVE  Len(rows') <= limit /\ (pc' = "fetching" => Len(rows') < limit)
    BY <1>1, <1>2, <1>3, <1>4, <1>5, <1>7, <2>2 DEF IsLast
  <2> QED BY <1>5, <1>7, <2>1, <2>2 DEF TypeOK
<1>9. Loaded' = Loaded \cup ToSet(page)
  <2>1. DOMAIN rows = 1 .. Len(rows) /\ DOMAIN page = 1 .. Len(page)
        /\ DOMAIN rows' = 1 .. Len(rows) + Len(page)
    BY <1>1, <1>3, <1>7, LenProperties
  <2>2. ASSUME NEW x \in Loaded' PROVE x \in Loaded \cup ToSet(page)
    <3>1. PICK i \in 1 .. Len(rows) + Len(page) : x = rows'[i]
      BY <2>1, <2>2 DEF Loaded, ToSet
    <3>2. CASE i <= Len(rows)
      BY <1>1, <1>4, <1>7, <2>1, <3>1, <3>2 DEF Loaded, ToSet
    <3>3. CASE ~(i <= Len(rows))
      <4>1. i - Len(rows) \in 1 .. Len(page) /\ x = page[i - Len(rows)]
        BY <1>1, <1>4, <1>7, <3>1, <3>3
      <4> QED BY <2>1, <4>1 DEF ToSet
    <3> QED BY <3>2, <3>3
  <2>3. ASSUME NEW x \in Loaded PROVE x \in Loaded'
    <3>1. PICK i \in 1 .. Len(rows) : x = rows[i]
      BY <2>1, <2>3 DEF Loaded, ToSet
    <3>2. i \in 1 .. Len(rows) + Len(page) /\ x = rows'[i]
      BY <1>1, <1>4, <1>7, <3>1
    <3> QED BY <2>1, <3>2 DEF Loaded, ToSet
  <2>4. ASSUME NEW x \in ToSet(page) PROVE x \in Loaded'
    <3>1. PICK i \in 1 .. Len(page) : x = page[i]
      BY <2>1, <2>4 DEF ToSet
    <3>2. /\ Len(rows) + i \in 1 .. Len(rows) + Len(page)
          /\ ~(Len(rows) + i <= Len(rows)) /\ (Len(rows) + i) - Len(rows) = i
      BY <1>1, <1>4, <3>1
    <3>3. x = rows'[Len(rows) + i]
      BY <1>7, <3>1, <3>2
    <3> QED BY <2>1, <3>2, <3>3 DEF Loaded, ToSet
  <2> QED BY <2>2, <2>3, <2>4
\* A page of the full size comes right after the rows read so far; a narrowed one
\* ends the load.
<1>10. /\ Past \in Nat /\ Len(rows) = Past
       /\ Size = PageSize => before = Past
       /\ Size # PageSize => /\ limit # NoLimit /\ Size < PageSize
                             /\ limit = Past + Size
                             /\ before <= Past /\ (pageNum = 1 => before = 0)
  <2>1. Past \in Nat /\ Len(rows) = Past
    BY <1>1, PagingAssumption DEF NothingBehind, Past
  <2>2. ASSUME Size # PageSize
        PROVE  limit # NoLimit /\ Size < PageSize /\ limit = Past + Size
    BY <1>1, <1>2, <2>1, <2>2, PagingAssumption DEF Size, Smaller
  <2>3. ASSUME Size < PageSize PROVE before <= Past
    <3>1. PICK n \in Nat : n = pageNum - 1
      BY <1>1
    <3>2. PICK d \in Nat : PageSize = Size + d
      BY <1>2, <2>3, PagingAssumption
    <3>3. n * PageSize = n * Size + n * d /\ n * d \in Nat /\ n * Size \in Nat
      BY <1>2, <3>1, <3>2
    <3> QED BY <3>1, <3>3 DEF before, Past
  <2>4. pageNum = 1 => before = 0
    BY <1>2 DEF before
  <2> QED BY <2>1, <2>2, <2>3, <2>4 DEF before, Past
<1>11. ASSUME pc' = "fetching"
       PROVE  Size = PageSize /\ Len(page) = Size /\ Past' = Past + Size
  <2>1. ~IsLast(page) /\ pageNum' = pageNum + 1
    BY <1>5, <1>11
  <2>2. Len(page) = Size
    BY <1>2, <1>3, <1>4, <2>1 DEF IsLast
  <2>3. Size = PageSize
    BY <1>1, <1>2, <1>10, <2>1, <2>2 DEF IsLast
  <2>4. Past' = pageNum * PageSize
    BY <1>1, <2>1, PagingAssumption DEF Past
  <2> QED BY <1>3, <1>10, <2>2, <2>3, <2>4
\* A load that ends has read every position the limit lets it get to.
<1>12. ASSUME pc' = "done", NEW i \in 1 .. Len(list), Within(i)
       PROVE  i <= Past \/ i <= before + Len(page)
  <2>1. IsLast(page)
    BY <1>5, <1>12
  <2>2. ASSUME Len(page) < Size PROVE i <= before + Len(page)
    <3>1. after = IF before + Size < Len(list) THEN before + Size ELSE Len(list)
      BY <1>3 DEF Smaller
    <3> HIDE DEF after
    <3> QED BY <1>1, <1>2, <1>3, <1>4, <2>2, <3>1
  <2>3. CASE Size = PageSize
    <3>1. CASE Len(rows) + Len(page) >= Len(list) \/ Len(page) < Size
      BY <1>1, <1>3, <1>4, <1>10, <2>2, <2>3, <3>1
    <3>2. CASE limit # NoLimit /\ Len(rows) + Len(page) >= limit
      <4>1. i <= limit
        BY <1>1, <1>2, <1>12, <3>2, WithinLimit
      <4> QED BY <1>1, <1>2, <1>3, <1>4, <1>10, <2>3, <3>2, <4>1
    <3> QED BY <1>2, <1>6, <2>1, <3>1, <3>2 DEF IsLast
  <2>4. CASE Size # PageSize /\ pageNum = 1
    <3>1. before = 0 /\ Past = 0 /\ limit = Size /\ limit \in Nat
      BY <1>1, <1>2, <1>10, <2>4, PagingAssumption DEF Past
    <3>2. i <= limit
      BY <1>1, <1>12, <3>1, WithinLimit
    <3> QED BY <1>1, <1>2, <1>3, <1>4, <2>2, <3>1, <3>2
  <2>5. CASE Size # PageSize /\ pageNum # 1
    <3>1. PICK m \in Nat : m + 1 = pageNum - 1
      BY <1>1, <2>5
    <3>2. Past = m * PageSize + PageSize /\ m * PageSize \in Nat
      BY <3>1, PagingAssumption DEF Past
    <3>3. limit >= PageSize /\ limit < Past + PageSize /\ limit \in Nat
      BY <1>2, <1>10, <2>5, <3>2, PagingAssumption
    <3>4. PICK n \in Nat :
            n * PageSize \in Nat /\ i <= n * PageSize /\ n * PageSize <= limit
      BY <1>1, <1>12, <3>3, WithinLimit
    <3>5. n <= pageNum - 1
      <4>1. SUFFICES ASSUME ~(n <= pageNum - 1) PROVE FALSE
        OBVIOUS
      <4>2. PICK d \in Nat : n = pageNum + d
        BY <1>1, <3>3, <4>1
      <4>3. n * PageSize = pageNum * PageSize + d * PageSize /\ d * PageSize \in Nat
        BY <1>1, <4>2, PagingAssumption
      <4>4. pageNum * PageSize = Past + PageSize
        BY <1>1, PagingAssumption DEF Past
      <4> QED BY <1>10, <3>3, <3>4, <4>3, <4>4, PagingAssumption
    <3>6. n * PageSize <= Past
      <4>1. PICK d \in Nat : pageNum - 1 = n + d
        BY <1>1, <3>3, <3>5
      <4>2. Past = n * PageSize + d * PageSize /\ d * PageSize \in Nat
        BY <3>3, <4>1, PagingAssumption DEF Past
      <4> QED BY <3>3, <4>2, PagingAssumption
    <3> QED BY <1>1, <1>10, <3>4, <3>6
  <2> QED BY <2>3, <2>4, <2>5
<1>13. ASSUME ~removed, NEW i \in 1 .. Len(list), list[i] \in initial,
              i <= Past \/ i <= before + Len(page)
       PROVE  list[i] \in Loaded'
  <2>1. CASE i <= Past
    BY <1>1, <1>9, <1>13, <2>1 DEF NothingBehind
  <2>2. CASE ~(i <= Past)
    <3>1. before <= Past
      BY <1>3, <1>10
    <3>2. i - before \in 1 .. Len(page) /\ page[i - before] = list[i]
      BY <1>1, <1>3, <1>4, <1>10, <1>13, <2>2, <3>1
    <3>3. DOMAIN page = 1 .. Len(page)
      BY <1>3, LenProperties
    <3> QED BY <1>9, <3>2, <3>3 DEF ToSet
  <2> QED BY <2>1, <2>2
<1>14. NothingBehind'
  <2>1. pc' = "fetching" => Len(rows') = Past'
    BY <1>2, <1>7, <1>10, <1>11
  <2>2. ASSUME pc' = "fetching", ~removed, NEW i \in 1 .. Len(list),
               i <= Past', list[i] \in initial
        PROVE  list[i] \in Loaded'
    BY <1>10, <1>11, <1>13, <2>2
  <2> QED BY <1>1, <1>5, <2>1, <2>2 DEF NothingBehind
<1>15. NothingMissed'
  <2> SUFFICES ASSUME pc' = "done", ~removed, NEW x \in initial, x \notin Loaded'
               PROVE  \E i \in 1 .. Len(list) : list[i] = x /\ ~Within(i)
    BY <1>5 DEF NothingMissed, Within
  <2>1. PICK i \in 1 .. Len(list) : x = list[i]
    <3>1. x \in ToSet(list) /\ DOMAIN list = 1 .. Len(list)
      BY <1>1, LenProperties DEF NothingBehind
    <3> QED BY <3>1 DEF ToSet
  <2>2. ~Within(i)
    BY <1>12, <1>13, <2>1
  <2> QED BY <2>1, <2>2
<1> QED BY <1>8, <1>14, <1>15

\* A product that comes moves others away from what was read, never into it.
LEMMA ProductComesInv ==
  ASSUME PagingInv, NEW p \in Products, NEW i \in 1 .. Len(list) + 1, ProductComes(p, i)
  PROVE  PagingInv'
<1> USE DEF PagingInv
<1>1. /\ list \in Seq(Products) /\ Len(list) \in Nat /\ pc = "fetching"
      /\ p \notin ToSet(list) /\ list' = InsertAt(list, i, p) /\ inserted' = TRUE
      /\ UNCHANGED <<initial, removed, limit, pageNum, rows, pc>>
  BY LenProperties DEF TypeOK, ProductComes
<1>2. /\ list' \in Seq(Products) /\ Len(list') = Len(list) + 1
      /\ \A j \in 1 .. Len(list') :
           list'[j] = IF j < i THEN list[j] ELSE IF j = i THEN p ELSE list[j - 1]
  BY <1>1, InsertAtProperties
<1>3. TypeOK'
  BY <1>1, <1>2 DEF TypeOK
<1>4. DOMAIN list = 1 .. Len(list) /\ DOMAIN list' = 1 .. Len(list')
  BY <1>1, <1>2, LenProperties
<1>5. ToSet(list) \subseteq ToSet(list')
  <2> SUFFICES ASSUME NEW j \in 1 .. Len(list) PROVE list[j] \in ToSet(list')
    BY <1>4 DEF ToSet
  <2>1. CASE j < i
    <3>1. j \in 1 .. Len(list') /\ list'[j] = list[j]
      BY <1>1, <1>2, <2>1
    <3> QED BY <1>4, <3>1 DEF ToSet
  <2>2. CASE ~(j < i)
    <3>1. j + 1 \in 1 .. Len(list') /\ ~(j + 1 < i) /\ j + 1 # i /\ (j + 1) - 1 = j
      BY <1>1, <1>2, <2>2
    <3>2. list'[j + 1] = list[j]
      BY <1>2, <3>1
    <3> QED BY <1>4, <3>1, <3>2 DEF ToSet
  <2> QED BY <2>1, <2>2
<1>6. NothingBehind'
  <2> SUFFICES ASSUME ~removed, NEW j \in 1 .. Len(list'),
                      j <= Past, list'[j] \in initial
               PROVE  list'[j] \in Loaded
    <3>1. Past' = Past /\ Loaded' = Loaded
      BY <1>1 DEF Past, Loaded
    <3> QED BY <1>1, <1>5, <3>1 DEF NothingBehind
  <2>1. initial \subseteq ToSet(list)
    BY DEF NothingBehind
  <2>2. j # i
    BY <1>1, <1>2, <2>1
  <2>3. Past \in Int
    BY PagingAssumption DEF Past, TypeOK
  <2>4. PICK m \in 1 .. Len(list) : m <= j /\ list'[j] = list[m]
    <3>1. CASE j < i
      BY <1>1, <1>2, <3>1
    <3>2. CASE ~(j < i)
      BY <1>1, <1>2, <2>2, <3>2
    <3> QED BY <3>1, <3>2
  <2>5. m <= Past
    BY <1>1, <1>2, <2>3, <2>4
  <2> QED BY <1>1, <2>4, <2>5 DEF NothingBehind
<1>7. NothingMissed'
  BY <1>1 DEF NothingMissed
<1> QED BY <1>3, <1>6, <1>7

\* Every step keeps the invariant.
LEMMA StepInv == PagingInv /\ [Next]_vars => PagingInv'
<1> SUFFICES ASSUME PagingInv, [Next]_vars PROVE PagingInv'
  OBVIOUS
<1> USE DEF PagingInv
<1>1. CASE FetchPage
  BY <1>1, FetchPageInv
<1>2. CASE FetchFails
  BY <1>2 DEF FetchFails, TypeOK, NothingBehind, NothingMissed, Past, Loaded
<1>3. ASSUME NEW p \in Products, NEW i \in 1 .. Len(list) + 1, ProductComes(p, i)
      PROVE  PagingInv'
  BY <1>3, ProductComesInv
<1>4. ASSUME NEW i \in 1 .. Len(list), ProductGoes(i) PROVE PagingInv'
  <2>1. /\ pc = "fetching" /\ list' \in Seq(Products) /\ removed' = TRUE
        /\ UNCHANGED <<initial, inserted, limit, pageNum, rows, pc>>
    BY <1>4, RemoveAtIsASeq DEF ProductGoes, TypeOK
  <2>2. TypeOK'
    BY <2>1 DEF TypeOK
  <2>3. NothingBehind' /\ NothingMissed'
    BY <2>1 DEF NothingBehind, NothingMissed, Past
  <2> QED BY <2>2, <2>3
<1>5. CASE UNCHANGED vars
  BY <1>5 DEF vars, TypeOK, NothingBehind, NothingMissed, Past, Loaded, Within
<1> QED BY <1>1, <1>2, <1>3, <1>4, <1>5 DEF Next

\* The invariant holds in every state of a load.
THEOREM PagingInvariant == Spec => []PagingInv
BY InitInv, StepInv, PTL DEF Spec

\* A load returns every product that was there when it began, up to where its
\* limit lets it get, unless some product was removed meanwhile (fetch_products).
THEOREM NoProductMissed == Spec => []NothingMissed
<1>1. PagingInv => NothingMissed
  BY DEF PagingInv
<1> QED BY <1>1, PagingInvariant, PTL
=============================================================================
