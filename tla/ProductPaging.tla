---------------------------- MODULE ProductPaging ----------------------------
(***************************************************************************)
(* fetch_products: the ERP's product list read page after page, with or    *)
(* without a limit, while products come and go between two pages.          *)
(*                                                                         *)
(* The ERP answers page n of size k with the rows (n-1)*k+1 .. n*k of the  *)
(* list as it is then, and with the list's length (external).  A row is    *)
(* its product; normalize_live_product_rows keeps every product once.      *)
(***************************************************************************)
EXTENDS Naturals, Sequences, SequencesExt, FiniteSets

CONSTANTS
  MaxProducts,  \* products are 1 .. MaxProducts
  PageSize,     \* _page_size (100)
  Limits,       \* limits a load may be given; NoLimit is None
  NoLimit

ASSUME PagingAssumption ==
  /\ MaxProducts \in Nat
  /\ PageSize \in Nat \ {0}
  /\ Limits \subseteq (Nat \ {0}) \cup {NoLimit}
  /\ NoLimit \notin Nat

Products == 1 .. MaxProducts

VARIABLES
  list,      \* the ERP's products, in its order
  initial,   \* its products when the load began
  inserted,  \* a product came since
  removed,   \* a product went since
  limit,     \* wanted
  pageNum,   \* page_num
  rows,      \* rows
  pc

vars == <<list, initial, inserted, removed, limit, pageNum, rows, pc>>

Init ==
  /\ \E n \in 0 .. MaxProducts : list = [i \in 1 .. n |-> i]
  /\ initial = ToSet(list)
  /\ inserted = FALSE
  /\ removed = FALSE
  /\ limit \in Limits
  /\ pageNum = 1
  /\ rows = <<>>
  /\ pc = "fetching"

Smaller(m, n) == IF m < n THEN m ELSE n

\* page_size: with a limit, no more than is still wanted.
Size == IF limit = NoLimit THEN PageSize ELSE Smaller(PageSize, limit - Len(rows))

\* The ERP's answer.
Page(size) ==
  SubSeq(list, (pageNum - 1) * size + 1, Smaller(pageNum * size, Len(list)))

\* (variant: only the total ends the load)
IsLastTotalOnly(page) == Len(rows) + Len(page) >= Len(list)

\* (variant: a full page ends the load too)
IsLastFullPage(page) == Len(page) <= Size \/ Len(rows) + Len(page) >= Len(list)

IsLast(page) ==
  \/ page = <<>>
  \/ Len(rows) + Len(page) >= Len(list)
  \/ Len(page) < Size
  \/ limit # NoLimit /\ Len(rows) + Len(page) >= limit

\* MaxPages bounds the counter; no load reaches it, for every page but the
\* last is full.
MaxPages == MaxProducts + 1

FetchPage ==
  /\ pc = "fetching"
  /\ pageNum <= MaxPages
  /\ LET page == Page(Size) IN
       /\ rows' = rows \o page
       /\ IF IsLast(page)
          THEN pc' = "done" /\ UNCHANGED pageNum
          ELSE pageNum' = pageNum + 1 /\ UNCHANGED pc
  /\ UNCHANGED <<list, initial, inserted, removed, limit>>

\* Any failure of a page fails the load.
FetchFails ==
  /\ pc = "fetching"
  /\ pc' = "failed"
  /\ UNCHANGED <<list, initial, inserted, removed, limit, pageNum, rows>>

\* The ERP's users, between two pages; Products bounds the list.
ProductComes(p, i) ==
  /\ pc = "fetching"
  /\ p \notin ToSet(list)
  /\ list' = InsertAt(list, i, p)
  /\ inserted' = TRUE
  /\ UNCHANGED <<initial, removed, limit, pageNum, rows, pc>>

ProductGoes(i) ==
  /\ pc = "fetching"
  /\ list' = RemoveAt(list, i)
  /\ removed' = TRUE
  /\ UNCHANGED <<initial, inserted, limit, pageNum, rows, pc>>

Next ==
  \/ FetchPage \/ FetchFails
  \/ \E p \in Products, i \in 1 .. Len(list) + 1 : ProductComes(p, i)
  \/ \E i \in 1 .. Len(list) : ProductGoes(i)

Spec == Init /\ [][Next]_vars

\* httpx ends every request, so the load always goes on.
FairSpec == Spec /\ WF_vars(FetchPage)

-----------------------------------------------------------------------------
(* Correctness.                                                            *)

\* Every variable keeps its type; no more rows are kept than were wanted, and
\* fewer as long as the load goes on.
TypeOK ==
  /\ list \in Seq(Products)
  /\ initial \subseteq Products
  /\ inserted \in BOOLEAN /\ removed \in BOOLEAN
  /\ limit \in Limits
  /\ pageNum \in Nat \ {0}
  /\ rows \in Seq(Products)
  /\ limit # NoLimit => Len(rows) <= limit /\ (pc = "fetching" => Len(rows) < limit)
  /\ pc \in {"fetching", "done", "failed"}

Loaded == ToSet(rows)

\* The positions a load gets to: all without a limit, else those on full pages
\* below the limit, or below a limit that is less than a page (the last page is
\* narrowed, adapters.py:180; see LimitHonoured).
Within(i) ==
  \/ limit = NoLimit
  \/ limit < PageSize /\ i <= limit
  \/ \E n \in 1 .. limit : i <= n * PageSize /\ n * PageSize <= limit

\* A load misses a product that was there when it began, and stays, only if at
\* its end the product stands behind what the limit lets the load get to, wherever
\* others are inserted between its pages.  The server's loads have auto_sync_limit
\* (toolset.py:582): they miss none while the list is no longer than that limit
\* and the limit is a multiple of the page size, as 10000 is.
NothingMissed ==
  pc = "done" /\ ~removed =>
    \A p \in initial \ Loaded : \E i \in 1 .. Len(list) : list[i] = p /\ ~Within(i)

\* A load with a limit returns that many products if the ERP has them, all of
\* them otherwise (toolset.py:502: the limit truncates the result).
LimitHonoured ==
  pc = "done" /\ limit # NoLimit /\ ~removed /\ ~inserted
    => Cardinality(Loaded) = Smaller(limit, Len(list))

\* Every load ends, however the list changes under it.
LoadEnds == <>(pc # "fetching")

-----------------------------------------------------------------------------
(* The inductive invariant behind NothingMissed.                           *)

\* Positions of the list that a load is past.
Past == (pageNum - 1) * PageSize

\* A load that goes on has read full pages so far, for a narrowed page is its
\* last; while nothing is removed, what was there at the start is still there, and
\* was read if the load is past it.
NothingBehind ==
  /\ pc = "fetching" => Len(rows) = Past
  /\ ~removed => initial \subseteq ToSet(list)
  /\ pc = "fetching" /\ ~removed =>
       \A i \in 1 .. Len(list) : i <= Past /\ list[i] \in initial => list[i] \in Loaded

PagingInv == TypeOK /\ NothingBehind /\ NothingMissed
=============================================================================
