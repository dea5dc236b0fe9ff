--------------------------- MODULE Listing_proofs ---------------------------
(* What holds of list commands for any number of sources, rows, pages and   *)
(* changes of the backend.                                                  *)
EXTENDS Listing, SequenceTheorems, TLAPS

-----------------------------------------------------------------------------
(* Prefixes, row by row *)

Begins(q, r) == Len(q) <= Len(r) /\ \A i \in 1 .. Len(q) : q[i] = r[i]

LEMMA PrefixIsBeginning ==
    ASSUME NEW S, NEW q \in Seq(S), NEW r \in Seq(S)
    PROVE  IsPrefix(q, r) <=> Begins(q, r)
<1>1. SubSeq(q, 1, Len(q)) = q
    BY SubSeqFull
<1>2. CASE Len(q) <= Len(r)
    <2>1. SubSeq(r, 1, Len(q)) \in Seq(S) /\ Len(SubSeq(r, 1, Len(q))) = Len(q)
        BY <1>2
    <2>2. \A i \in 1 .. Len(q) : SubSeq(r, 1, Len(q))[i] = r[i]
        BY <1>2
    <2>3. q = SubSeq(r, 1, Len(q)) <=> \A i \in 1 .. Len(q) : q[i] = r[i]
        BY <2>1, <2>2, SeqEqual
    <2> QED
        BY <1>1, <1>2, <2>3 DEF IsPrefix, Begins
<1>3. CASE ~(Len(q) <= Len(r))
    BY <1>3 DEF IsPrefix, Begins
<1> QED
    BY <1>2, <1>3

(* What follows the items continues them. *)
LEMMA Continuation ==
    ASSUME NEW S, NEW q \in Seq(S), NEW r \in Seq(S), Begins(q, r),
           NEW m \in Nat, Len(q) <= m, m <= Len(r)
    PROVE  /\ SubSeq(r, Len(q) + 1, m) \in Seq(S)
           /\ Len(SubSeq(r, Len(q) + 1, m)) = m - Len(q)
           /\ q \o SubSeq(r, Len(q) + 1, m) \in Seq(S)
           /\ Len(q \o SubSeq(r, Len(q) + 1, m)) = m
           /\ Begins(q \o SubSeq(r, Len(q) + 1, m), r)
<1>1. PICK n \in Nat : n = Len(q)
    BY LenProperties
<1>2. PICK page : page = SubSeq(r, n + 1, m)
    OBVIOUS
<1>3. Len(r) \in Nat /\ n <= m /\ m <= Len(r)
    BY <1>1, LenProperties
<1>4. page \in Seq(S) /\ Len(page) = m - n /\ \A i \in 1 .. (m - n) : page[i] = r[n + i]
    <2>1. \A i \in (n + 1) .. m : r[i] \in S
        BY <1>1, <1>3, ElementOfSeq
    <2>2. /\ page \in Seq(S)
          /\ Len(page) = IF n + 1 <= m THEN m - (n + 1) + 1 ELSE 0
          /\ \A i \in 1 .. (m - (n + 1) + 1) : page[i] = r[(n + 1) + i - 1]
        BY <1>2, <2>1, SubSeqProperties
    <2> QED
        BY <1>3, <2>2
<1>5. /\ q \o page \in Seq(S) /\ Len(q \o page) = n + (m - n)
      /\ \A i \in 1 .. n + (m - n) : (q \o page)[i] = IF i <= n THEN q[i] ELSE page[i - n]
    BY <1>1, <1>4, ConcatProperties
<1>6. n + (m - n) = m
    BY <1>3
<1>7. ASSUME NEW i \in 1 .. m PROVE (q \o page)[i] = r[i]
    <2>1. CASE i <= n
        BY <1>1, <1>5, <1>6, <2>1 DEF Begins
    <2>2. CASE n < i
        <3>1. (q \o page)[i] = page[i - n]
            BY <1>5, <1>6, <2>2
        <3>2. i - n \in 1 .. (m - n) /\ n + (i - n) = i
            BY <1>3, <2>2
        <3> QED
            BY <1>4, <3>1, <3>2
    <2>3. i <= n \/ n < i
        BY <1>1
    <2> QED
        BY <2>1, <2>2, <2>3
<1> QED
    BY <1>1, <1>2, <1>3, <1>4, <1>5, <1>6, <1>7 DEF Begins

(* A page that is read where the items end continues them. *)
LEMMA PageContinues ==
    ASSUME NEW S, NEW q \in Seq(S), NEW r \in Seq(S), Begins(q, r),
           NEW k \in Nat, Len(q) = k * PageSize
    PROVE  /\ PageOf(r, k) \in Seq(S) /\ q \o PageOf(r, k) \in Seq(S)
           /\ Begins(q \o PageOf(r, k), r)
           /\ Len(q \o PageOf(r, k)) = Lesser((k + 1) * PageSize, Len(r))
           /\ Len(PageOf(r, k)) = Lesser((k + 1) * PageSize, Len(r)) - Len(q)
           /\ (k + 1) * PageSize = Len(q) + PageSize
<1>1. PageSize \in Nat \ {0}
    BY ListingAssumption
<1>2. (k + 1) * PageSize = Len(q) + PageSize
    BY <1>1
<1>3. PICK m \in Nat : m = Lesser((k + 1) * PageSize, Len(r)) /\ Len(q) <= m /\ m <= Len(r)
    BY <1>1, <1>2, LenProperties DEF Lesser, Begins
<1>4. PageOf(r, k) = SubSeq(r, Len(q) + 1, m)
    BY <1>3 DEF PageOf
<1> QED
    BY <1>2, <1>3, <1>4, Continuation

LEMMA BeginsReflexive ==
    ASSUME NEW S, NEW q \in Seq(S)
    PROVE  Begins(q, q) /\ Begins(<<>>, q)
BY LenProperties, EmptySeq DEF Begins

LEMMA BeginsTransitive ==
    ASSUME NEW S, NEW p \in Seq(S), NEW q \in Seq(S), NEW r \in Seq(S),
           Begins(p, q), Begins(q, r)
    PROVE  Begins(p, r)
BY LenProperties DEF Begins

LEMMA BeginsAppend ==
    ASSUME NEW S, NEW q \in Seq(S), NEW r \in Seq(S), NEW e \in S, Begins(q, r)
    PROVE  Begins(q, Append(r, e))
BY LenProperties, AppendProperties DEF Begins

LEMMA BothBegin ==
    ASSUME NEW S, NEW p \in Seq(S), NEW q \in Seq(S), NEW r \in Seq(S),
           Begins(p, r), Begins(q, r), Len(p) <= Len(q)
    PROVE  Begins(p, q)
BY LenProperties DEF Begins

LEMMA BeginsWhole ==
    ASSUME NEW S, NEW q \in Seq(S), NEW r \in Seq(S), Begins(q, r), Len(q) = Len(r)
    PROVE  q = r
BY SeqEqual DEF Begins

LEMMA KindsAfter ==
    ASSUME NEW S, NEW q \in Seq(S), NEW e \in S
    PROVE  ToSet(Append(q, e)) = ToSet(q) \cup {e} /\ Append(q, e) # <<>>
<1>1. /\ Append(q, e) \in Seq(S) /\ Len(Append(q, e)) = Len(q) + 1
      /\ \A i \in 1 .. Len(q) : Append(q, e)[i] = q[i]
      /\ Append(q, e)[Len(q) + 1] = e
    BY AppendProperties
<1>2. Len(q) \in Nat
    BY LenProperties
<1>3. Append(q, e) # <<>>
    BY <1>1, <1>2, EmptySeq
<1>4. ToSet(q) = {q[i] : i \in 1 .. Len(q)}
    BY LenProperties DEF ToSet
<1>5. ToSet(Append(q, e)) = {Append(q, e)[i] : i \in 1 .. Len(q) + 1}
    BY <1>1, LenProperties DEF ToSet
<1>6. ToSet(Append(q, e)) \subseteq ToSet(q) \cup {e}
    BY <1>1, <1>2, <1>4, <1>5
<1>7. ToSet(q) \cup {e} \subseteq ToSet(Append(q, e))
    BY <1>1, <1>2, <1>4, <1>5
<1> QED
    BY <1>3, <1>6, <1>7

LEMMA RemoveAtType ==
    ASSUME NEW S, NEW q \in Seq(S), NEW i \in DOMAIN q
    PROVE  RemoveAt(q, i) \in Seq(S)
<1>1. i \in 1 .. Len(q) /\ Len(q) \in Nat
    BY LenProperties
<1>2. SubSeq(q, 1, i - 1) \in Seq(S)
    BY <1>1, ElementOfSeq, SubSeqProperties
<1>3. SubSeq(q, i + 1, Len(q)) \in Seq(S)
    BY <1>1, ElementOfSeq, SubSeqProperties
<1> QED
    BY <1>2, <1>3, ConcatProperties DEF RemoveAt
LEMMA PageType ==
    ASSUME NEW S, NEW r \in Seq(S), NEW k \in Nat
    PROVE  PageOf(r, k) \in Seq(S)
<1>1. PICK a \in Nat : a = k * PageSize
    BY ListingAssumption
<1>2. PICK b \in Nat : b = Lesser((k + 1) * PageSize, Len(r)) /\ b <= Len(r)
    <2>1. (k + 1) * PageSize \in Nat /\ Len(r) \in Nat
        BY ListingAssumption, LenProperties
    <2> QED
        BY <2>1 DEF Lesser
<1>3. \A i \in (a + 1) .. b : r[i] \in S
    BY <1>1, <1>2, ElementOfSeq, LenProperties
<1> QED
    BY <1>1, <1>2, <1>3, SubSeqProperties DEF PageOf

-----------------------------------------------------------------------------
(* The inductive invariant *)

Grows(s) == endpoint[s] \notin {"silent", "stuck"} /\ ToSet(changes[s]) \subseteq {"append"}

(* While rows are at most appended, the items are the backend's first rows, *)
(* as many as the pages fetched hold, and no fewer than there were at first *)
(* once the walk is over.                                                   *)
Walk ==
    \A s \in Sources :
        Grows(s) =>
            /\ Begins(initial[s], backend[s])
            /\ Begins(items[s], backend[s])
            /\ fetch[s] = "running" => Len(items[s]) = fetched[s] * PageSize
            /\ fetch[s] = "done" => Len(initial[s]) <= Len(items[s])

(* A walk the backend stood still for took all of it. *)
Stood ==
    \A s \in Sources :
        Listed(s) /\ changes[s] = <<>> =>
            /\ Len(items[s]) = Len(backend[s])
            /\ total[s] \in {0, Len(items[s])}

(* The tables come out in order, and one is missing until the command ends. *)
Order ==
    /\ printed \in Seq(Sources)
    /\ Begins(printed, SourceOrder)
    /\ result = "none" => SourceOrder = <<>> \/ Len(printed) < Len(SourceOrder)

ListInv == TypeOK /\ Order /\ Walk /\ Stood /\ NoOutputUnlessAllFetched

-----------------------------------------------------------------------------
LEMMA SourceOrderType == SourceOrder \in Seq(Sources)
BY ListingAssumption

(* What a page says, for an endpoint that is neither silent nor stuck. *)
LEMMA LastPageIsTheEnd ==
    ASSUME TypeOK, NEW s \in Sources, endpoint[s] \notin {"silent", "stuck"},
           Begins(items[s], backend[s]), Len(items[s]) = fetched[s] * PageSize,
           NEW merged, merged = items[s] \o PageServed(s)
    PROVE  /\ PageServed(s) \in Seq(Rows) /\ merged \in Seq(Rows)
           /\ Begins(merged, backend[s])
           /\ IF IsLastPage(PageServed(s), merged, TotalServed(s), HasMore(s))
              THEN Len(merged) = Len(backend[s]) /\ TotalServed(s) \in {0, Len(merged)}
              ELSE Len(merged) = (fetched[s] + 1) * PageSize
<1>1. /\ items[s] \in Seq(Rows) /\ backend[s] \in Seq(Rows)
      /\ fetched[s] \in Nat /\ endpoint[s] \in Endpoints
    BY ListingAssumption DEF TypeOK
<1>2. PageServed(s) = PageOf(backend[s], fetched[s])
    BY DEF PageServed
<1>3. PICK k \in Nat : k = fetched[s]
    BY <1>1
<1>4. PICK b \in Nat : b = Len(backend[s])
    BY <1>1, LenProperties
<1>5. PICK n \in Nat : n = Len(items[s])
    BY <1>1, LenProperties
<1>6. PICK z \in Nat : z = (k + 1) * PageSize /\ z = n + PageSize /\ PageSize \in Nat
    <2>1. PageSize \in Nat
        BY ListingAssumption
    <2>2. n = k * PageSize
        BY <1>3, <1>5
    <2>3. (k + 1) * PageSize = n + PageSize /\ (k + 1) * PageSize \in Nat
        BY <2>1, <2>2
    <2> QED
        BY <2>1, <2>3
<1>7. /\ PageServed(s) \in Seq(Rows) /\ merged \in Seq(Rows)
      /\ Begins(merged, backend[s])
      /\ Len(merged) = Lesser(z, b)
      /\ Len(PageServed(s)) = Lesser(z, b) - n
    <2>1. Len(items[s]) = k * PageSize
        BY <1>3
    <2>2. /\ PageOf(backend[s], k) \in Seq(Rows) /\ items[s] \o PageOf(backend[s], k) \in Seq(Rows)
          /\ Begins(items[s] \o PageOf(backend[s], k), backend[s])
          /\ Len(items[s] \o PageOf(backend[s], k)) = Lesser((k + 1) * PageSize, Len(backend[s]))
          /\ Len(PageOf(backend[s], k)) = Lesser((k + 1) * PageSize, Len(backend[s])) - Len(items[s])
        <3>1. items[s] \in Seq(Rows) /\ backend[s] \in Seq(Rows) /\ k \in Nat
            BY <1>1, <1>3
        <3>2. ASSUME NEW q \in Seq(Rows), NEW r \in Seq(Rows), Begins(q, r), Len(q) = k * PageSize
              PROVE  /\ PageOf(r, k) \in Seq(Rows) /\ q \o PageOf(r, k) \in Seq(Rows)
                     /\ Begins(q \o PageOf(r, k), r)
                     /\ Len(q \o PageOf(r, k)) = Lesser((k + 1) * PageSize, Len(r))
                     /\ Len(PageOf(r, k)) = Lesser((k + 1) * PageSize, Len(r)) - Len(q)
            BY <3>1, <3>2, PageContinues
        <3> QED
            BY <2>1, <3>1, <3>2
    <2> QED
        BY <1>2, <1>3, <1>4, <1>5, <1>6, <2>2
<1>8. TotalServed(s) = b \/ (TotalServed(s) = 0 /\ endpoint[s] = "bare")
    BY <1>4 DEF TotalServed
<1>9. CASE endpoint[s] \in {"flag", "counts"}
    <2>1. HasMore(s) = {z < b}
        <3>1. CASE endpoint[s] = "flag"
            BY <1>3, <1>4, <1>6, <3>1 DEF HasMore
        <3>2. CASE endpoint[s] = "counts"
            <4>1. HasMore(s) = {HasMoreFromCounts(k, b)}
                BY <1>3, <1>4, <3>2 DEF HasMore
            <4>2. HasMoreFromCounts(k, b) <=> z < b
                BY <1>6 DEF HasMoreFromCounts
            <4> QED
                BY <4>1, <4>2 DEF HasMoreFromCounts
        <3> QED
            BY <1>9, <3>1, <3>2
    <2>2. IsLastPage(PageServed(s), merged, TotalServed(s), HasMore(s)) <=> ~(z < b)
        <3>1. CASE z < b
            <4>1. HasMore(s) = {TRUE}
                BY <2>1, <3>1
            <4> QED
                BY <3>1, <4>1, Zenon DEF IsLastPage
        <3>2. CASE ~(z < b)
            <4>1. (z < b) = FALSE
                BY <3>2
            <4>2. HasMore(s) = {FALSE}
                BY <2>1, <4>1
            <4> QED
                BY <3>2, <4>2, Zenon DEF IsLastPage
        <3> QED
            BY <3>1, <3>2
    <2>3. TotalServed(s) = b
        BY <1>8, <1>9
    <2> QED
        BY <1>3, <1>4, <1>6, <1>7, <2>2, <2>3 DEF Lesser
<1>10. CASE endpoint[s] \in {"total", "bare"}
    <2>1. HasMore(s) = {}
        BY <1>10 DEF HasMore
    <2>2. IsLastPage(PageServed(s), merged, TotalServed(s), HasMore(s)) <=>
              \/ TotalServed(s) > 0 /\ Lesser(z, b) >= TotalServed(s)
              \/ Lesser(z, b) - n < PageSize
        BY <1>7, <2>1 DEF IsLastPage
    <2>3. CASE z < b
        <3>1. Lesser(z, b) = z /\ Len(merged) = z
            BY <1>7, <2>3 DEF Lesser
        <3>2. ~IsLastPage(PageServed(s), merged, TotalServed(s), HasMore(s))
            BY <1>4, <1>6, <1>8, <2>2, <2>3, <3>1
        <3> QED
            BY <1>3, <1>6, <1>7, <3>1, <3>2
    <2>4. CASE ~(z < b)
        <3>1. Lesser(z, b) = b /\ Len(merged) = b
            BY <1>7, <2>4 DEF Lesser
        <3>2. TotalServed(s) \in {0, Len(merged)} /\ Len(merged) = Len(backend[s])
            BY <1>4, <1>8, <3>1
        <3>3. IsLastPage(PageServed(s), merged, TotalServed(s), HasMore(s)) \/ b = z
            BY <1>6, <2>2, <2>4, <3>1
        <3>4. b = z => Len(merged) = (fetched[s] + 1) * PageSize
            BY <1>3, <1>6, <3>1
        <3> QED
            BY <1>7, <3>2, <3>3, <3>4
    <2> QED
        BY <2>3, <2>4
<1> QED
    BY <1>1, <1>7, <1>9, <1>10 DEF Endpoints
-----------------------------------------------------------------------------
LEMMA ListInvInit == Init => ListInv
<1> SUFFICES ASSUME Init PROVE ListInv
    OBVIOUS
<1>1. \A s \in Sources : backend[s] \in Seq(Rows) /\ initial[s] = backend[s]
    BY ListingAssumption DEF Init
<1>2. backend \in [Sources -> Seq(Rows)] /\ initial = backend
    BY ListingAssumption DEF Init
<1>3. printed = <<>> /\ <<>> \in Seq(Sources) /\ Len(<<>>) = 0
    BY EmptySeq DEF Init
<1>4. Begins(printed, SourceOrder)
    BY <1>3, SourceOrderType, BeginsReflexive
<1>5. TypeOK
    <2>1. IsPrefix(printed, SourceOrder)
        BY <1>3, <1>4, SourceOrderType, PrefixIsBeginning
    <2>2. fetched \in [Sources -> 0 .. MaxPages]
        BY ListingAssumption DEF Init
    <2>3. changes \in [Sources -> Seq(Changes)] /\ items \in [Sources -> Seq(Rows)]
        BY DEF Init
    <2> QED
        BY <1>2, <2>1, <2>2, <2>3 DEF Init, TypeOK
<1>6. Order
    <2>1. SourceOrder = <<>> \/ Len(SourceOrder) \in Nat \ {0}
        BY SourceOrderType, EmptySeq
    <2> QED
        BY <1>3, <1>4, <2>1 DEF Order
<1>7. Walk
    <2> SUFFICES ASSUME NEW s \in Sources
                 PROVE  /\ Begins(initial[s], backend[s]) /\ Begins(items[s], backend[s])
                        /\ Len(items[s]) = fetched[s] * PageSize
                        /\ fetch[s] # "done"
        BY DEF Walk
    <2>1. items[s] = <<>> /\ fetched[s] = 0 /\ fetch[s] = "running"
        BY DEF Init
    <2>2. 0 * PageSize = 0
        BY ListingAssumption
    <2> QED
        BY <1>1, <1>3, <2>1, <2>2, BeginsReflexive
<1>8. Stood
    BY DEF Init, Stood, Listed
<1>9. NoOutputUnlessAllFetched
    BY DEF Init, NoOutputUnlessAllFetched
<1> QED
    BY <1>5, <1>6, <1>7, <1>8, <1>9 DEF ListInv

LEMMA FetchPageKeeps ==
    ASSUME ListInv, NEW s \in Sources, FetchPage(s)
    PROVE  ListInv'
<1> DEFINE page == PageServed(s)
           merged == items[s] \o page
           last == IsLastPage(page, merged, TotalServed(s), HasMore(s))
<1>1. /\ fetch[s] = "running" /\ fetched[s] < MaxPages
      /\ items' = [items EXCEPT ![s] = merged]
      /\ total' = [total EXCEPT ![s] = TotalServed(s)]
      /\ fetched' = [fetched EXCEPT ![s] = @ + 1]
      /\ fetch' = [fetch EXCEPT ![s] = IF last THEN "done" ELSE @]
      /\ UNCHANGED <<world, printed, result>>
    BY DEF FetchPage
<1>2. page \in Seq(Rows) /\ TotalServed(s) \in Nat /\ merged \in Seq(Rows)
    <2>1. backend[s] \in Seq(Rows) /\ fetched[s] \in Nat /\ items[s] \in Seq(Rows)
        BY ListingAssumption DEF ListInv, TypeOK
    <2>2. TotalServed(s) \in Nat
        BY <2>1, LenProperties DEF TotalServed
    <2>3. page \in Seq(Rows)
        BY <2>1, PageType DEF PageServed
    <2> QED
        BY <2>1, <2>2, <2>3, ConcatProperties
<1> HIDE DEF page, merged, last
<1>3. TypeOK'
    <2>1. fetched' \in [Sources -> 0 .. MaxPages]
        BY <1>1, ListingAssumption DEF ListInv, TypeOK
    <2> QED
        BY <1>1, <1>2, <2>1 DEF ListInv, TypeOK, world
<1>4. Order'
    BY <1>1 DEF ListInv, Order
<1>5. \A t \in Sources : /\ t # s => /\ items'[t] = items[t] /\ fetch'[t] = fetch[t]
                                     /\ fetched'[t] = fetched[t] /\ total'[t] = total[t]
                         /\ t = s => /\ items'[t] = merged /\ total'[t] = TotalServed(s)
                                     /\ fetched'[t] = fetched[s] + 1
                                     /\ fetch'[t] = IF last THEN "done" ELSE "running"
    BY <1>1 DEF ListInv, TypeOK
<1>6. ASSUME Grows(s)
      PROVE  /\ Begins(initial[s], backend[s]) /\ Begins(merged, backend[s])
             /\ IF last
                THEN Len(merged) = Len(backend[s]) /\ TotalServed(s) \in {0, Len(merged)}
                ELSE Len(merged) = (fetched[s] + 1) * PageSize
    <2>1. /\ Begins(initial[s], backend[s]) /\ Begins(items[s], backend[s])
          /\ Len(items[s]) = fetched[s] * PageSize
        BY <1>1, <1>6 DEF ListInv, Walk
    <2>2. TypeOK /\ endpoint[s] \notin {"silent", "stuck"} /\ merged = items[s] \o PageServed(s)
        BY <1>6 DEF ListInv, Grows, merged, page
    <2> QED
        BY <2>1, <2>2, LastPageIsTheEnd DEF last, page
<1>7. Walk'
    <2> SUFFICES ASSUME NEW t \in Sources, Grows(t)'
                 PROVE  /\ Begins(initial[t], backend[t])'
                        /\ Begins(items[t], backend[t])'
                        /\ (fetch[t] = "running")' => (Len(items[t]) = fetched[t] * PageSize)'
                        /\ (fetch[t] = "done")' => (Len(initial[t]) <= Len(items[t]))'
        BY DEF Walk
    <2>1. Grows(t)
        BY <1>1 DEF Grows, world
    <2>2. CASE t # s
        BY <1>1, <1>5, <2>1, <2>2 DEF ListInv, Walk, world
    <2>3. CASE t = s
        <3>1. Len(initial[s]) <= Len(backend[s])
            BY <1>6, <2>1, <2>3 DEF Begins
        <3> QED
            BY <1>1, <1>5, <1>6, <2>1, <2>3, <3>1 DEF world
    <2> QED
        BY <2>2, <2>3
<1>8. Stood'
    <2> SUFFICES ASSUME NEW t \in Sources, Listed(t)', changes'[t] = <<>>
                 PROVE  (Len(items[t]) = Len(backend[t]) /\ total[t] \in {0, Len(items[t])})'
        BY DEF Stood
    <2>1. CASE t # s
        BY <1>1, <1>5, <2>1 DEF ListInv, Stood, Listed, world
    <2>2. CASE t = s
        <3>1. Grows(s)
            <4>1. changes[s] = <<>> /\ ToSet(<<>>) = {}
                BY <1>1, <2>2 DEF ToSet, world
            <4> QED
                BY <1>1, <2>2, <4>1 DEF Grows, Listed, world
        <3>2. last
            BY <1>5, <2>2 DEF Listed
        <3> QED
            BY <1>1, <1>5, <1>6, <2>2, <3>1, <3>2 DEF world
    <2> QED
        BY <2>1, <2>2
<1>9. NoOutputUnlessAllFetched'
    BY <1>1 DEF ListInv, NoOutputUnlessAllFetched
<1> QED
    BY <1>3, <1>4, <1>7, <1>8, <1>9 DEF ListInv

LEMMA FailsKeeps ==
    ASSUME ListInv, NEW s \in Sources, fetch[s] = "running", Fails(s)
    PROVE  ListInv'
<1>1. /\ fetch' = [fetch EXCEPT ![s] = "failed"] /\ items' = [items EXCEPT ![s] = <<>>]
      /\ UNCHANGED <<world, fetched, total, printed, result>>
    BY DEF Fails
<1>2. \A t \in Sources : /\ t # s => items'[t] = items[t] /\ fetch'[t] = fetch[t]
                         /\ t = s => items'[t] = <<>> /\ fetch'[t] = "failed"
    BY <1>1 DEF ListInv, TypeOK
<1>3. TypeOK'
    BY <1>1 DEF ListInv, TypeOK, world
<1>4. Order'
    BY <1>1 DEF ListInv, Order
<1>5. Walk'
    <2> SUFFICES ASSUME NEW t \in Sources, Grows(t)'
                 PROVE  /\ Begins(initial[t], backend[t])'
                        /\ Begins(items[t], backend[t])'
                        /\ (fetch[t] = "running")' => (Len(items[t]) = fetched[t] * PageSize)'
                        /\ (fetch[t] = "done")' => (Len(initial[t]) <= Len(items[t]))'
        BY DEF Walk
    <2>1. Grows(t) /\ backend[t] \in Seq(Rows)
        BY <1>1 DEF ListInv, TypeOK, Grows, world
    <2>2. CASE t # s
        BY <1>1, <1>2, <2>1, <2>2 DEF ListInv, Walk, world
    <2>3. CASE t = s
        BY <1>1, <1>2, <2>1, <2>3, BeginsReflexive DEF ListInv, Walk, world
    <2> QED
        BY <2>2, <2>3
<1>6. Stood'
    BY <1>1, <1>2 DEF ListInv, Stood, Listed, world
<1>7. NoOutputUnlessAllFetched'
    BY <1>1 DEF ListInv, NoOutputUnlessAllFetched
<1> QED
    BY <1>3, <1>4, <1>5, <1>6, <1>7 DEF ListInv
LEMMA ChangeKeeps ==
    ASSUME ListInv, NEW s \in Sources, NEW kind \in Changes, NEW rows \in Seq(Rows),
           Change(s, kind, rows),
           kind = "append" => Begins(backend[s], rows)
    PROVE  ListInv'
<1>1. /\ backend' = [backend EXCEPT ![s] = rows]
      /\ changes' = [changes EXCEPT ![s] = Append(@, kind)]
      /\ UNCHANGED <<endpoint, initial, fetched, items, total, fetch, printed, result>>
    BY DEF Change
<1>2. changes[s] \in Seq(Changes)
    BY DEF ListInv, TypeOK
<1>3. \A t \in Sources : /\ t # s => backend'[t] = backend[t] /\ changes'[t] = changes[t]
                         /\ t = s => backend'[t] = rows /\ changes'[t] = Append(changes[s], kind)
    BY <1>1 DEF ListInv, TypeOK
<1>4. TypeOK'
    <2>1. Append(changes[s], kind) \in Seq(Changes)
        BY <1>2, AppendProperties
    <2> QED
        BY <1>1, <2>1 DEF ListInv, TypeOK
<1>5. Order'
    BY <1>1 DEF ListInv, Order
<1>6. Walk'
    <2> SUFFICES ASSUME NEW t \in Sources, Grows(t)'
                 PROVE  /\ Begins(initial[t], backend[t])'
                        /\ Begins(items[t], backend[t])'
                        /\ (fetch[t] = "running")' => (Len(items[t]) = fetched[t] * PageSize)'
                        /\ (fetch[t] = "done")' => (Len(initial[t]) <= Len(items[t]))'
        BY DEF Walk
    <2>1. CASE t # s
        BY <1>1, <1>3, <2>1 DEF ListInv, Walk, Grows
    <2>2. CASE t = s
        <3>1. ToSet(Append(changes[s], kind)) = ToSet(changes[s]) \cup {kind}
            BY <1>2, KindsAfter
        <3>2. kind = "append" /\ Grows(s)
            BY <1>1, <1>3, <2>2, <3>1 DEF Grows
        <3>3. /\ Begins(initial[s], backend[s]) /\ Begins(items[s], backend[s])
              /\ fetch[s] = "running" => Len(items[s]) = fetched[s] * PageSize
              /\ fetch[s] = "done" => Len(initial[s]) <= Len(items[s])
            BY <3>2 DEF ListInv, Walk
        <3>4. initial[s] \in Seq(Rows) /\ items[s] \in Seq(Rows) /\ backend[s] \in Seq(Rows)
            BY DEF ListInv, TypeOK
        <3>5. Begins(initial[s], rows) /\ Begins(items[s], rows)
            BY <3>2, <3>3, <3>4, BeginsTransitive
        <3> QED
            BY <1>1, <1>3, <2>2, <3>3, <3>5
    <2> QED
        BY <2>1, <2>2
<1>7. Stood'
    <2>1. Append(changes[s], kind) # <<>>
        BY <1>2, KindsAfter
    <2> QED
        BY <1>1, <1>3, <2>1 DEF ListInv, Stood, Listed
<1>8. NoOutputUnlessAllFetched'
    BY <1>1 DEF ListInv, NoOutputUnlessAllFetched
<1> QED
    BY <1>4, <1>5, <1>6, <1>7, <1>8 DEF ListInv

LEMMA BackendChangesKeeps ==
    ASSUME ListInv, NEW s \in Sources, BackendChanges(s)
    PROVE  ListInv'
<1>1. backend[s] \in Seq(Rows)
    BY DEF ListInv, TypeOK
<1>2. FreshRow(s) \subseteq Rows
    BY DEF FreshRow
<1>3. ASSUME NEW r \in FreshRow(s), Change(s, "append", Append(backend[s], r)) PROVE ListInv'
    <2>1. r \in Rows
        BY <1>2
    <2>2. Append(backend[s], r) \in Seq(Rows)
        BY <1>1, <2>1, AppendProperties
    <2>3. Begins(backend[s], Append(backend[s], r))
        BY <1>1, <2>1, BeginsReflexive, BeginsAppend
    <2> QED
        BY <1>3, <2>2, <2>3, ChangeKeeps DEF Changes
<1>4. ASSUME NEW r \in FreshRow(s), Change(s, "insert", <<r>> \o backend[s]) PROVE ListInv'
    <2>1. <<r>> \in Seq(Rows)
        BY <1>2
    <2>2. <<r>> \o backend[s] \in Seq(Rows)
        BY <1>1, <2>1, ConcatProperties
    <2> QED
        BY <1>4, <2>2, ChangeKeeps DEF Changes
<1>5. ASSUME NEW i \in DOMAIN backend[s], Change(s, "delete", RemoveAt(backend[s], i))
      PROVE  ListInv'
    <2>1. RemoveAt(backend[s], i) \in Seq(Rows)
        BY <1>1, RemoveAtType
    <2> QED
        BY <1>5, <2>1, ChangeKeeps DEF Changes
<1> QED
    BY <1>3, <1>4, <1>5 DEF BackendChanges

LEMMA WriteKeeps ==
    ASSUME ListInv, NEW s \in Sources, Write(s)
    PROVE  ListInv'
<1>1. /\ \A t \in Sources : fetch[t] = "done"
      /\ s = SourceOrder[Len(printed) + 1] /\ result = "none"
      /\ printed' = Append(printed, s)
      /\ result' = IF printed' = SourceOrder THEN "ok" ELSE "none"
      /\ UNCHANGED <<world, fetched, items, total, fetch>>
    BY DEF Write
<1>2. /\ printed \in Seq(Sources) /\ Begins(printed, SourceOrder)
      /\ SourceOrder = <<>> \/ Len(printed) < Len(SourceOrder)
    BY <1>1 DEF ListInv, Order
<1>3. SourceOrder # <<>>
    BY DEF Sources, ToSet
<1>4. /\ printed' \in Seq(Sources) /\ Len(printed') = Len(printed) + 1
      /\ \A i \in 1 .. Len(printed) : printed'[i] = printed[i]
      /\ printed'[Len(printed) + 1] = s
    BY <1>1, <1>2, AppendProperties
<1>5. Begins(printed', SourceOrder)
    <2>1. Len(printed) \in Nat /\ Len(SourceOrder) \in Nat
        BY <1>2, SourceOrderType, LenProperties
    <2> QED
        BY <1>1, <1>2, <1>3, <1>4, <2>1 DEF Begins
<1>6. Order'
    <2>1. Len(printed') \in Nat /\ Len(SourceOrder) \in Nat
        BY <1>4, SourceOrderType, LenProperties
    <2>2. Len(printed') = Len(SourceOrder) => printed' = SourceOrder
        BY <1>4, <1>5, SourceOrderType, BeginsWhole
    <2>3. result' = "none" => Len(printed') < Len(SourceOrder)
        BY <1>1, <1>5, <2>1, <2>2 DEF Begins
    <2> QED
        BY <1>4, <1>5, <2>3 DEF Order
<1>7. TypeOK'
    <2>1. IsPrefix(printed', SourceOrder)
        BY <1>4, <1>5, SourceOrderType, PrefixIsBeginning
    <2> QED
        BY <1>1, <2>1 DEF ListInv, TypeOK, world
<1>8. Walk'
    BY <1>1 DEF ListInv, Walk, Grows, world
<1>9. Stood'
    BY <1>1 DEF ListInv, Stood, Listed, world
<1>10. NoOutputUnlessAllFetched'
    BY <1>1 DEF NoOutputUnlessAllFetched
<1> QED
    BY <1>6, <1>7, <1>8, <1>9, <1>10 DEF ListInv

LEMMA EndKeeps ==
    ASSUME ListInv, ReportFailure \/ WriteFails
    PROVE  ListInv'
<1>1. /\ result' = "error"
      /\ UNCHANGED <<world, fetched, items, total, fetch, printed>>
    BY DEF ReportFailure, WriteFails
<1> QED
    BY <1>1 DEF ListInv, TypeOK, Order, Walk, Stood, NoOutputUnlessAllFetched, Grows, Listed, world

LEMMA ListInvStep == ListInv /\ [Next]_vars => ListInv'
<1> SUFFICES ASSUME ListInv, [Next]_vars PROVE ListInv'
    OBVIOUS
<1>1. CASE UNCHANGED vars
    BY <1>1 DEF vars, ListInv, TypeOK, Order, Walk, Stood, NoOutputUnlessAllFetched, Grows, Listed
<1>2. ASSUME NEW s \in Sources, FetchPage(s) PROVE ListInv'
    BY <1>2, FetchPageKeeps
<1>3. ASSUME NEW s \in Sources, TooManyPages(s) \/ PageFails(s) PROVE ListInv'
    BY <1>3, FailsKeeps DEF TooManyPages, PageFails
<1>4. ASSUME NEW s \in Sources, Write(s) PROVE ListInv'
    BY <1>4, WriteKeeps
<1>5. CASE ReportFailure \/ WriteFails
    BY <1>5, EndKeeps
<1>6. ASSUME NEW s \in Sources, BackendChanges(s) PROVE ListInv'
    BY <1>6, BackendChangesKeeps
<1> QED
    BY <1>1, <1>2, <1>3, <1>4, <1>5, <1>6 DEF Next, Work, Fetch

LEMMA ListInvAlways == Spec => []ListInv
BY ListInvInit, ListInvStep, PTL DEF Spec

-----------------------------------------------------------------------------
(* Every reachable state of a list command is well typed: in particular no *)
(* walk takes more than MaxPages pages, and the tables come out in order.  *)
THEOREM TypeCorrect == Spec => []TypeOK
<1>1. ListInv => TypeOK
    BY DEF ListInv
<1> QED
    BY <1>1, ListInvAlways, PTL

(* FetchAllRawPages lists a backend that stands still exactly, whichever of *)
(* its three ways to end a walk the endpoint calls for.                     *)
THEOREM StableListing == Spec => []StableListingExact
<1>1. ASSUME ListInv, NEW s \in Sources, Listed(s), changes[s] = <<>>
      PROVE  items[s] = backend[s] /\ total[s] \in {0, Len(items[s])}
    <2>1. Grows(s)
        BY <1>1 DEF Grows, Listed, ToSet
    <2>2. Begins(items[s], backend[s])
        BY <1>1, <2>1 DEF ListInv, Walk
    <2>3. Len(items[s]) = Len(backend[s]) /\ total[s] \in {0, Len(items[s])}
        BY <1>1 DEF ListInv, Stood
    <2>4. items[s] \in Seq(Rows) /\ backend[s] \in Seq(Rows)
        BY <1>1 DEF ListInv, TypeOK
    <2> QED
        BY <2>2, <2>3, <2>4, BeginsWhole
<1>2. ListInv => StableListingExact
    BY <1>1 DEF StableListingExact
<1> QED
    BY <1>2, ListInvAlways, PTL

(* FetchAllRawPages misses and doubles none of the first rows while others *)
(* are appended.                                                           *)
THEOREM GrowthKept == Spec => []GrowthKeepsRows
<1>1. ASSUME ListInv, NEW s \in Sources, Listed(s), ToSet(changes[s]) \subseteq {"append"}
      PROVE  IsPrefix(initial[s], items[s])
    <2>1. /\ Begins(initial[s], backend[s]) /\ Begins(items[s], backend[s])
          /\ Len(initial[s]) <= Len(items[s])
        BY <1>1 DEF ListInv, Walk, Grows, Listed
    <2>2. initial[s] \in Seq(Rows) /\ items[s] \in Seq(Rows) /\ backend[s] \in Seq(Rows)
        BY <1>1 DEF ListInv, TypeOK
    <2>3. Begins(initial[s], items[s])
        BY <2>1, <2>2, BothBegin
    <2> QED
        BY <2>2, <2>3, PrefixIsBeginning
<1>2. ListInv => GrowthKeepsRows
    BY <1>1 DEF GrowthKeepsRows
<1> QED
    BY <1>2, ListInvAlways, PTL

(* WriteBothSourceTables prints nothing before every source is in, and *)
(* nothing at all when one failed.                                     *)
THEOREM NoPartialOutput == Spec => []NoOutputUnlessAllFetched
<1>1. ListInv => NoOutputUnlessAllFetched
    BY DEF ListInv
<1> QED
    BY <1>1, ListInvAlways, PTL

-----------------------------------------------------------------------------
(* No listing goes on for ever *)

(* The turns a walk may still take, its failure at the limit included. *)
PagesLeft(s) == IF fetch[s] = "running" THEN MaxPages - fetched[s] + 1 ELSE 0

(* The tables that may still be written, and the failure to write one. *)
TablesLeft == IF result = "none" THEN Len(SourceOrder) - Len(printed) + 1 ELSE 0

LEMMA LeftBound ==
    ASSUME ListInv
    PROVE  /\ \A s \in Sources : PagesLeft(s) \in 0 .. MaxPages + 1
           /\ TablesLeft \in 0 .. Len(SourceOrder) + 1
<1>1. ASSUME NEW s \in Sources PROVE PagesLeft(s) \in 0 .. MaxPages + 1
    <2>1. fetched[s] \in 0 .. MaxPages
        BY DEF ListInv, TypeOK
    <2> QED
        BY <2>1, ListingAssumption DEF PagesLeft
<1>2. Len(printed) \in Nat /\ Len(SourceOrder) \in Nat /\ Len(printed) <= Len(SourceOrder)
    BY SourceOrderType, LenProperties DEF ListInv, Order, Begins
<1>3. TablesLeft \in 0 .. Len(SourceOrder) + 1
    BY <1>2 DEF TablesLeft
<1> QED
    BY <1>1, <1>3

(* A turn of a walk uses up one of that walk's and touches nothing else. *)
LEMMA FetchUses ==
    ASSUME ListInv, NEW s \in Sources, Fetch(s)
    PROVE  /\ PagesLeft(s)' < PagesLeft(s)
           /\ \A t \in Sources \ {s} : PagesLeft(t)' = PagesLeft(t)
           /\ TablesLeft' = TablesLeft
<1>1. /\ fetch[s] = "running" /\ UNCHANGED <<printed, result>>
      /\ fetched[s] \in 0 .. MaxPages /\ MaxPages \in Nat
    BY ListingAssumption DEF Fetch, FetchPage, TooManyPages, PageFails, Fails, ListInv, TypeOK
<1>2. ASSUME NEW t \in Sources \ {s}
      PROVE  fetch'[t] = fetch[t] /\ fetched'[t] = fetched[t]
    BY DEF Fetch, FetchPage, TooManyPages, PageFails, Fails, ListInv, TypeOK
<1>3. PagesLeft(s)' < PagesLeft(s)
    <2>1. CASE FetchPage(s)
        <3>1. /\ fetched'[s] = fetched[s] + 1 /\ fetched[s] < MaxPages
              /\ fetch'[s] \in {"running", "done"}
            BY <1>1, <2>1 DEF FetchPage, ListInv, TypeOK
        <3> QED
            BY <1>1, <3>1 DEF PagesLeft
    <2>2. CASE TooManyPages(s) \/ PageFails(s)
        <3>1. fetch'[s] = "failed"
            BY <2>2 DEF TooManyPages, PageFails, Fails, ListInv, TypeOK
        <3> QED
            BY <1>1, <3>1 DEF PagesLeft
    <2> QED
        BY <2>1, <2>2 DEF Fetch
<1>4. \A t \in Sources \ {s} : PagesLeft(t)' = PagesLeft(t)
    BY <1>2 DEF PagesLeft
<1> QED
    BY <1>1, <1>3, <1>4 DEF TablesLeft

(* So does a table that is written, or the end of the command. *)
LEMMA OutputUses ==
    ASSUME ListInv, ReportFailure \/ WriteFails \/ \E s \in Sources : Write(s)
    PROVE  /\ TablesLeft' < TablesLeft
           /\ \A t \in Sources : PagesLeft(t)' = PagesLeft(t)
<1>1. result = "none" /\ UNCHANGED <<fetch, fetched>>
    BY DEF ReportFailure, WriteFails, Write
<1>2. Len(printed) \in Nat /\ Len(SourceOrder) \in Nat /\ Len(printed) <= Len(SourceOrder)
    BY SourceOrderType, LenProperties DEF ListInv, Order, Begins
<1>3. CASE ReportFailure \/ WriteFails
    <2>1. result' # "none"
        BY <1>3 DEF ReportFailure, WriteFails
    <2> QED
        BY <1>1, <1>2, <2>1 DEF TablesLeft, PagesLeft
<1>4. ASSUME NEW s \in Sources, Write(s) PROVE TablesLeft' < TablesLeft
    <2>1. Len(printed') = Len(printed) + 1
        BY <1>4, AppendProperties DEF Write, ListInv, Order
    <2> QED
        BY <1>1, <1>2, <2>1 DEF TablesLeft
<1> QED
    BY <1>1, <1>3, <1>4 DEF PagesLeft

(* A list command is over after (MaxPages + 1) turns of each walk and one   *)
(* step more than there are tables, whatever the endpoints answer: each of  *)
(* its steps uses up one of those, and what happens to the rows gives none  *)
(* back.  Until then it is never stuck: a walk is under way, or all are     *)
(* over and a failure is to be reported or the next table to be written.    *)
THEOREM ListingIsBounded ==
    Spec => /\ []( /\ \A s \in Sources : PagesLeft(s) \in 0 .. MaxPages + 1
                   /\ TablesLeft \in 0 .. Len(SourceOrder) + 1 )
            /\ [][ \/ \E s \in Sources :
                         /\ PagesLeft(s)' < PagesLeft(s)
                         /\ \A t \in Sources \ {s} : PagesLeft(t)' = PagesLeft(t)
                         /\ TablesLeft' = TablesLeft
                   \/ /\ TablesLeft' < TablesLeft
                      /\ \A t \in Sources : PagesLeft(t)' = PagesLeft(t)
                   \/ /\ \E s \in Sources : BackendChanges(s)
                      /\ \A t \in Sources : PagesLeft(t)' = PagesLeft(t)
                      /\ TablesLeft' = TablesLeft ]_vars
            /\ [](result = "none" =>
                     \/ \E s \in Sources : fetch[s] = "running"
                     \/ AllFetched /\ \E s \in Sources : fetch[s] = "failed"
                     \/ /\ \A s \in Sources : fetch[s] = "done"
                        /\ Sources = {} \/ SourceOrder[Len(printed) + 1] \in Sources)
<1> DEFINE Bounds == /\ \A s \in Sources : PagesLeft(s) \in 0 .. MaxPages + 1
                     /\ TablesLeft \in 0 .. Len(SourceOrder) + 1
           Uses == \/ \E s \in Sources :
                         /\ PagesLeft(s)' < PagesLeft(s)
                         /\ \A t \in Sources \ {s} : PagesLeft(t)' = PagesLeft(t)
                         /\ TablesLeft' = TablesLeft
                   \/ /\ TablesLeft' < TablesLeft
                      /\ \A t \in Sources : PagesLeft(t)' = PagesLeft(t)
                   \/ /\ \E s \in Sources : BackendChanges(s)
                      /\ \A t \in Sources : PagesLeft(t)' = PagesLeft(t)
                      /\ TablesLeft' = TablesLeft
           GoesOn == result = "none" =>
                        \/ \E s \in Sources : fetch[s] = "running"
                        \/ AllFetched /\ \E s \in Sources : fetch[s] = "failed"
                        \/ /\ \A s \in Sources : fetch[s] = "done"
                           /\ Sources = {} \/ SourceOrder[Len(printed) + 1] \in Sources
<1>1. ListInv => Bounds
    BY LeftBound
<1>2. ListInv /\ [Next]_vars => [Uses]_vars
    <2> SUFFICES ASSUME ListInv, Next PROVE Uses
        OBVIOUS
    <2>1. ASSUME NEW s \in Sources, Fetch(s) PROVE Uses
        BY <2>1, FetchUses
    <2>2. ASSUME ReportFailure \/ WriteFails \/ \E s \in Sources : Write(s) PROVE Uses
        BY <2>2, OutputUses
    <2>3. ASSUME NEW s \in Sources, BackendChanges(s) PROVE Uses
        <3>1. UNCHANGED <<fetch, fetched, printed, result>>
            BY <2>3 DEF BackendChanges, Change
        <3> QED
            BY <2>3, <3>1 DEF PagesLeft, TablesLeft
    <2> HIDE DEF Uses
    <2> QED
        BY <2>1, <2>2, <2>3 DEF Next, Work
<1>3. ListInv => GoesOn
    <2> SUFFICES ASSUME ListInv, result = "none", \A s \in Sources : fetch[s] = "done",
                        Sources # {}
                 PROVE  SourceOrder[Len(printed) + 1] \in Sources
        BY DEF ListInv, TypeOK, AllFetched
    <2>1. SourceOrder # <<>>
        BY DEF Sources, ToSet
    <2>2. Len(printed) \in Nat /\ Len(SourceOrder) \in Nat /\ Len(printed) < Len(SourceOrder)
        BY <2>1, SourceOrderType, LenProperties DEF ListInv, Order
    <2> QED
        BY <2>2, SourceOrderType, ElementOfSeq
<1> QED
    BY <1>1, <1>2, <1>3, ListInvAlways, PTL DEF Spec
=============================================================================
