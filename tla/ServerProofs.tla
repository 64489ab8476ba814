---------------------------- MODULE ServerProofs ----------------------------
(***************************************************************************)
(* The server beside the rooms: the rows a commit writes are the receipts  *)
(* it brought, the caches of the current release hold no other's bytes, a  *)
(* change gets the checks its paths need, and the bytes a document refers  *)
(* to are never lost, for all values of the constants.                     *)
(***************************************************************************)
EXTENDS AssetStore, ReceiptRanges, Release, Impact, FiniteSetTheorems, TLAPS

-----------------------------------------------------------------------------
(* The receipt ranges of a commit.                                           *)

Index == 1 .. Len(Sites)
StoredRange == [site : Index, first : 1 .. MaxStored, last : 1 .. MaxStored]

\* A sequence the change brought to a site, and one a range holds.
New(i, q) == q \in Set(after[i]) /\ q \notin Set(before[i])
Covered(i, q) == \E n \in DOMAIN ranges : ranges[n].site = i /\ q \in Span(ranges[n])

\* Ranges hold storable sequences of sites that were walked, in order and apart.
RangesTyped ==
    /\ before \in [Index -> Receipts] /\ after \in [Index -> Receipts]
    /\ \A i \in Index : Set(before[i]) \subseteq Set(after[i])
    /\ site \in 1 .. Len(Sites) + 1 /\ phase \in {"prefix", "known", "sparse"}
    /\ start \in Nat /\ todo \in SUBSET (1 .. MaxStored)
    /\ ranges \in Seq(StoredRange)
    /\ \A n \in DOMAIN ranges : ranges[n].first <= ranges[n].last /\ ranges[n].site <= site
RangesOrdered ==
    \A m, n \in DOMAIN ranges : m < n =>
        \/ ranges[m].site < ranges[n].site
        \/ ranges[m].site = ranges[n].site /\ ranges[m].last + 1 < ranges[n].first

\* The ranges of the current site end below q.
EndBelow(q) == \A n \in DOMAIN ranges : ranges[n].site = site => ranges[n].last < q

\* What the walk of the current site has covered.
Walking ==
    /\ phase = "prefix" => \A n \in DOMAIN ranges : ranges[n].site # site
    /\ phase = "known" =>
         /\ before[site].observed < start /\ start <= after[site].observed + 1
         /\ todo \subseteq before[site].sparse /\ EndBelow(start)
         /\ \A p \in before[site].sparse : p \in todo \/ p < start \/ p > after[site].observed
         /\ \A q \in Nat : Covered(site, q) <=> New(site, q) /\ q < start
    /\ phase = "sparse" =>
         /\ todo \subseteq after[site].sparse /\ \A q \in todo : EndBelow(q)
         /\ \A q \in Nat : Covered(site, q) <=> New(site, q) /\ q \notin todo

RangesInv ==
    /\ RangesTyped /\ RangesOrdered
    /\ \A i \in Index : i < site => \A q \in Nat : Covered(i, q) <=> New(i, q)
    /\ AtSite => Walking

\* What a pushed range adds to ranges that end below it.
Pushed(first, last) ==
    /\ ranges' \in Seq(StoredRange)
    /\ \A n \in DOMAIN ranges' : ranges'[n].first <= ranges'[n].last /\ ranges'[n].site <= site
    /\ RangesOrdered'
    /\ \A n \in DOMAIN ranges' : ranges'[n].site = site => ranges'[n].last <= last
    /\ \A i \in Index, q \in Nat : Covered(i, q)' <=> Covered(i, q) \/ (i = site /\ q \in first .. last)

LEMMA PushAdds ==
  ASSUME ReceiptRangesAssumption, RangesTyped, RangesOrdered, AtSite,
         NEW first \in 1 .. MaxStored, NEW last \in first .. MaxStored,
         EndBelow(first), ranges' = Push(first, last)
  PROVE  Pushed(first, last)
<1> DEFINE n == Len(ranges)
           new == [site |-> site, first |-> first, last |-> last]
<1>a. MaxStored \in Nat /\ first \in Nat /\ last \in Nat /\ Len(Sites) \in Nat /\ first <= last
      /\ first > 0 /\ last <= MaxStored
  BY DEF ReceiptRangesAssumption
<1>b. site \in Index /\ site \in Nat
  BY <1>a DEF RangesTyped, Index, AtSite
<1>c. ranges \in Seq(StoredRange) /\ n \in Nat /\ DOMAIN ranges = 1 .. n
  BY DEF RangesTyped, StoredRange
<1>d. ASSUME NEW m \in 1 .. n
      PROVE  /\ ranges[m] \in StoredRange /\ ranges[m].site \in Index /\ ranges[m].site \in Nat
             /\ ranges[m].first \in 1 .. MaxStored /\ ranges[m].last \in 1 .. MaxStored
             /\ ranges[m].first \in Nat /\ ranges[m].last \in Nat
  <2>1. ranges[m] \in StoredRange
    BY <1>c
  <2> QED BY <2>1, <1>a DEF StoredRange, Index
<1>e. \A m \in 1 .. n : ranges[m].site <= site /\ ranges[m].first <= ranges[m].last
  BY <1>c DEF RangesTyped
<1>0. /\ ranges \in Seq(StoredRange) /\ n \in Nat /\ DOMAIN ranges = 1 .. n /\ site \in Index /\ site \in Nat
      /\ MaxStored \in Nat /\ first \in Nat /\ last \in Nat /\ Len(Sites) \in Nat
      /\ first <= last /\ first > 0 /\ last <= MaxStored
      /\ \A m \in 1 .. n : /\ ranges[m] \in StoredRange /\ ranges[m].site \in Nat /\ ranges[m].first \in Nat
                           /\ ranges[m].last \in Nat /\ ranges[m].site <= site
                           /\ ranges[m].first <= ranges[m].last
  BY <1>a, <1>b, <1>c, <1>d, <1>e
<1>f. \A m, k \in 1 .. n : m < k =>
        \/ ranges[m].site < ranges[k].site
        \/ ranges[m].site = ranges[k].site /\ ranges[m].last + 1 < ranges[k].first
  BY <1>c DEF RangesOrdered
<1>g. \A m \in 1 .. n : ranges[m].site = site => ranges[m].last < first
  BY <1>c DEF EndBelow
<1>h. \A i \in Index, q \in Nat :
        Covered(i, q) <=> \E m \in 1 .. n : ranges[m].site = i /\ q \in ranges[m].first .. ranges[m].last
  BY <1>c DEF Covered, Span
<1> HIDE DEF n
<1>1. new \in StoredRange /\ new.site = site /\ new.first = first /\ new.last = last
  BY <1>a, <1>b DEF StoredRange
<1>2. CASE n > 0 /\ ranges[n].site = site /\ ranges[n].last < Last64 /\ ranges[n].last + 1 = first
  <2> DEFINE r == [ranges[n] EXCEPT !.last = last]
  <2>1. ranges' = [ranges EXCEPT ![n] = r]
    BY <1>2, <1>0 DEF Push, n
  <2>2. r \in StoredRange /\ r.site = site /\ r.first = ranges[n].first /\ r.last = last
    BY <1>0, <1>2 DEF StoredRange
  <2>3. ranges' \in Seq(StoredRange) /\ DOMAIN ranges' = 1 .. n /\ ranges'[n] = r
        /\ \A m \in 1 .. n : m # n => ranges'[m] = ranges[m]
    BY <2>1, <2>2, <1>0, <1>2
  <2> HIDE DEF r
  <2>4. \A i \in Index : \A q \in Nat :
         (\E m \in 1 .. n : ranges'[m].site = i /\ q \in Span(ranges'[m]))
         <=> Covered(i, q) \/ (i = site /\ q \in first .. last)
    <3> SUFFICES ASSUME NEW i \in Index, NEW q \in Nat
                 PROVE (\E m \in 1 .. n : ranges'[m].site = i /\ q \in Span(ranges'[m]))
                       <=> Covered(i, q) \/ (i = site /\ q \in first .. last)
      OBVIOUS
    <3>1. ASSUME NEW m \in 1 .. n, ranges'[m].site = i, q \in Span(ranges'[m])
          PROVE  Covered(i, q) \/ (i = site /\ q \in first .. last)
      <4>1. CASE m # n
        BY <3>1, <4>1, <2>3, <1>0, <1>h DEF Span
      <4>2. CASE m = n /\ q <= ranges[n].last
        <5>1. n \in 1 .. n /\ ranges[n].site = i /\ q \in ranges[n].first .. ranges[n].last
          BY <3>1, <4>2, <2>2, <2>3, <1>0, <1>2 DEF Span
        <5> QED BY <5>1, <1>h
      <4>3. CASE m = n /\ ~(q <= ranges[n].last)
        BY <3>1, <4>3, <2>2, <2>3, <1>0, <1>2 DEF Span
      <4> QED BY <4>1, <4>2, <4>3
    <3>2. ASSUME NEW m \in 1 .. n, ranges[m].site = i, q \in Span(ranges[m])
          PROVE  ranges'[m].site = i /\ q \in Span(ranges'[m])
      <4>1. CASE m # n
        BY <3>2, <4>1, <2>3, <1>0
      <4>2. CASE m = n
        <5>1. ranges'[m].site = site /\ ranges'[m].first = ranges[n].first /\ ranges'[m].last = last
          BY <4>2, <2>2, <2>3
        <5>2. q \in ranges[n].first .. ranges[n].last /\ ranges[n].last < last
          BY <3>2, <4>2, <1>0, <1>2 DEF Span
        <5> QED BY <3>2, <4>2, <5>1, <5>2, <1>0, <1>2 DEF Span
      <4> QED BY <4>1, <4>2
    <3>3. ASSUME i = site, q \in first .. last
          PROVE  n \in 1 .. n /\ ranges'[n].site = i /\ q \in Span(ranges'[n])
      BY <3>3, <2>2, <2>3, <1>0, <1>2 DEF Span
    <3> QED BY <3>1, <3>2, <3>3, <1>0, <1>h DEF Span
  <2>5. \A m, k \in 1 .. n : m < k =>
         \/ ranges'[m].site < ranges'[k].site
         \/ ranges'[m].site = ranges'[k].site /\ ranges'[m].last + 1 < ranges'[k].first
    <3> SUFFICES ASSUME NEW m \in 1 .. n, NEW k \in 1 .. n, m < k
                 PROVE  \/ ranges'[m].site < ranges'[k].site
                        \/ ranges'[m].site = ranges'[k].site /\ ranges'[m].last + 1 < ranges'[k].first
      OBVIOUS
    <3>1. ranges'[m] = ranges[m] /\ ranges'[k].site = ranges[k].site /\ ranges'[k].first = ranges[k].first
      <4>1. m # n
        BY <1>0
      <4>2. r.site = ranges[n].site
        BY <2>2, <1>2
      <4> QED BY <4>1, <4>2, <2>2, <2>3
    <3> QED BY <3>1, <1>f
  <2>6. \A m \in 1 .. n : /\ ranges'[m].first <= ranges'[m].last /\ ranges'[m].site <= site
                          /\ ranges'[m].site = site => ranges'[m].last <= last
    <3> SUFFICES ASSUME NEW m \in 1 .. n
                 PROVE  /\ ranges'[m].first <= ranges'[m].last /\ ranges'[m].site <= site
                        /\ ranges'[m].site = site => ranges'[m].last <= last
      OBVIOUS
    <3>1. CASE m = n
      <4>1. ranges[n].first <= ranges[n].last /\ ranges[n].last < last
        BY <3>1, <1>0, <1>2
      <4>2. ranges'[m].first = ranges[n].first /\ ranges'[m].last = last /\ ranges'[m].site = site
        BY <3>1, <2>2, <2>3
      <4> QED BY <4>1, <4>2, <3>1, <1>0
    <3>2. CASE m # n
      BY <3>2, <2>3, <1>0, <1>g
    <3> QED BY <3>1, <3>2
  <2> QED BY <2>3, <2>4, <2>5, <2>6 DEF Pushed, RangesOrdered, Covered
<1>3. CASE ~(n > 0 /\ ranges[n].site = site /\ ranges[n].last < Last64 /\ ranges[n].last + 1 = first)
  <2>1. ranges' = Append(ranges, new)
    <3>1. ~(first = 0 \/ last < first)
      BY <1>0
    <3> QED BY <1>3, <3>1 DEF Push, n
  <2>2. ranges' \in Seq(StoredRange) /\ DOMAIN ranges' = 1 .. n + 1 /\ ranges'[n + 1] = new
        /\ \A m \in 1 .. n : ranges'[m] = ranges[m]
    BY <2>1, <1>1, <1>0 DEF n
  <2> HIDE DEF new
  <2>3. \A m \in 1 .. n : ranges[m].site = site => ranges[m].last + 1 < first
    <3> SUFFICES ASSUME NEW m \in 1 .. n, ranges[m].site = site PROVE ranges[m].last + 1 < first
      OBVIOUS
    <3>1. ranges[m].last < first
      BY <1>0, <1>g
    <3>2. CASE m = n
      <4>1. n > 0 /\ ranges[n].site = site /\ ranges[n].last < first
        BY <3>1, <3>2, <1>0
      <4>2. ranges[n].last < Last64 /\ ranges[n].last \in Nat
        BY <4>1, <1>0 DEF ReceiptRangesAssumption
      <4>3. ranges[n].last + 1 # first
        BY <4>1, <4>2, <1>3
      <4>4. \A x, y \in Nat : x < y /\ x + 1 # y => x + 1 < y
        OBVIOUS
      <4>5. ranges[n].last + 1 < first
        BY <4>1, <4>2, <4>3, <4>4, <1>a
      <4> QED BY <3>2, <4>5
    <3>3. CASE m < n
      <4>1. n \in 1 .. n /\ ranges[n].site = site /\ ranges[m].last + 1 < ranges[n].first
        BY <3>3, <1>0, <1>f
      <4> QED BY <4>1, <1>0, <1>g
    <3> QED BY <3>2, <3>3, <1>0
  <2>4. \A i \in Index : \A q \in Nat :
         (\E m \in 1 .. n + 1 : ranges'[m].site = i /\ q \in Span(ranges'[m]))
         <=> Covered(i, q) \/ (i = site /\ q \in first .. last)
    <3> SUFFICES ASSUME NEW i \in Index, NEW q \in Nat
                 PROVE (\E m \in 1 .. n + 1 : ranges'[m].site = i /\ q \in Span(ranges'[m]))
                       <=> Covered(i, q) \/ (i = site /\ q \in first .. last)
      OBVIOUS
    <3>1. ASSUME NEW m \in 1 .. n + 1, ranges'[m].site = i, q \in Span(ranges'[m])
          PROVE  Covered(i, q) \/ (i = site /\ q \in first .. last)
      <4>1. CASE m \in 1 .. n
        <5>1. ranges[m].site = i /\ q \in ranges[m].first .. ranges[m].last
          BY <3>1, <4>1, <2>2 DEF Span
        <5> QED BY <4>1, <5>1, <1>h
      <4>2. CASE m = n + 1
        BY <3>1, <4>2, <2>2, <1>1 DEF Span
      <4> QED BY <4>1, <4>2, <1>0
    <3>2. ASSUME NEW m \in 1 .. n, ranges[m].site = i, q \in Span(ranges[m])
          PROVE  m \in 1 .. n + 1 /\ ranges'[m].site = i /\ q \in Span(ranges'[m])
      <4>1. ranges'[m] = ranges[m]
        BY <2>2
      <4>2. m \in 1 .. n + 1
        BY <1>0
      <4> QED BY <3>2, <4>1, <4>2
    <3>3. ASSUME i = site, q \in first .. last
          PROVE  n + 1 \in 1 .. n + 1 /\ ranges'[n + 1].site = i /\ q \in Span(ranges'[n + 1])
      BY <3>3, <2>2, <1>0, <1>1 DEF Span
    <3> QED BY <3>1, <3>2, <3>3, <1>0, <1>h DEF Span
  <2>5. \A m, k \in 1 .. n + 1 : m < k =>
         \/ ranges'[m].site < ranges'[k].site
         \/ ranges'[m].site = ranges'[k].site /\ ranges'[m].last + 1 < ranges'[k].first
    <3> SUFFICES ASSUME NEW m \in 1 .. n + 1, NEW k \in 1 .. n + 1, m < k
                 PROVE  \/ ranges'[m].site < ranges'[k].site
                        \/ ranges'[m].site = ranges'[k].site /\ ranges'[m].last + 1 < ranges'[k].first
      OBVIOUS
    <3>1. CASE k = n + 1
      BY <3>1, <2>2, <2>3, <1>0, <1>1
    <3>2. CASE k # n + 1
      <4>1. m \in 1 .. n /\ k \in 1 .. n
        BY <3>2, <1>0
      <4> QED BY <4>1, <2>2, <1>f
    <3> QED BY <3>1, <3>2
  <2>6. \A m \in 1 .. n + 1 : /\ ranges'[m].first <= ranges'[m].last /\ ranges'[m].site <= site
                              /\ ranges'[m].site = site => ranges'[m].last <= last
    BY <2>2, <2>3, <1>0, <1>1, <1>g
  <2> QED BY <2>2, <2>4, <2>5, <2>6 DEF Pushed, RangesOrdered, Covered
<1> QED BY <1>2, <1>3

\* What the versions of the current site hold.
LEMMA AtVersions ==
  ASSUME ReceiptRangesAssumption, RangesTyped, AtSite
  PROVE  /\ site \in Index /\ site \in Nat /\ MaxStored \in Nat /\ Last64 \in Nat /\ MaxStored < Last64
         /\ before[site].observed \in 0 .. MaxStored /\ after[site].observed \in 0 .. MaxStored
         /\ before[site].sparse \subseteq 1 .. MaxStored /\ after[site].sparse \subseteq 1 .. MaxStored
         /\ \A q \in before[site].sparse : q > before[site].observed + 1
         /\ \A q \in after[site].sparse : q > after[site].observed + 1
         /\ \A q \in Nat : New(site, q) <=> /\ q \in 1 .. MaxStored
                                            /\ q <= after[site].observed \/ q \in after[site].sparse
                                            /\ before[site].observed < q /\ q \notin before[site].sparse
<1>1. /\ site \in Index /\ site \in Nat /\ MaxStored \in Nat /\ Last64 \in Nat /\ MaxStored < Last64
  BY DEF RangesTyped, AtSite, Index, ReceiptRangesAssumption
<1>2. before[site] \in Receipts /\ after[site] \in Receipts
  BY <1>1 DEF RangesTyped
<1>3. /\ before[site].observed \in 0 .. MaxStored /\ after[site].observed \in 0 .. MaxStored
      /\ before[site].sparse \subseteq 1 .. MaxStored /\ after[site].sparse \subseteq 1 .. MaxStored
      /\ \A q \in before[site].sparse : q > before[site].observed + 1
      /\ \A q \in after[site].sparse : q > after[site].observed + 1
  BY <1>2 DEF Receipts
<1>4. \A q \in Nat : New(site, q) <=> /\ q \in 1 .. MaxStored
                                      /\ q <= after[site].observed \/ q \in after[site].sparse
                                      /\ before[site].observed < q /\ q \notin before[site].sparse
  BY <1>1, <1>3 DEF New, Set, Holds
<1> QED BY <1>1, <1>3, <1>4

\* What a step leaves alone.
LEMMA Unwalked ==
  ASSUME UNCHANGED <<before, after>>
  PROVE  /\ \A i, q : New(i, q)' <=> New(i, q)
         /\ ranges' = ranges => /\ \A i, q : Covered(i, q)' <=> Covered(i, q)
                                /\ RangesOrdered => RangesOrdered'
  BY DEF New, Set, Holds, Covered, RangesOrdered

\* The walk begins at a site nothing covers.
LEMMA PrefixKeeps ==
  ASSUME ReceiptRangesAssumption, RangesInv, Prefix
  PROVE  RangesInv'
<1>1. RangesTyped /\ RangesOrdered /\ AtSite /\ Walking /\ phase = "prefix"
      /\ UNCHANGED <<before, after, site, ranges>> /\ AtSite'
  BY DEF RangesInv, Prefix, AtSite
<1>2. start' = before[site].observed + 1
  BY <1>1, AtVersions DEF Prefix, SaturatingAdd
<1>3. RangesTyped'
  BY <1>1, <1>2, AtVersions DEF RangesTyped, Prefix
<1>4. \A i, q : (New(i, q)' <=> New(i, q)) /\ (Covered(i, q)' <=> Covered(i, q))
  BY <1>1, Unwalked
<1>5. \A q \in Nat : ~Covered(site, q) /\ EndBelow(q)'
  BY <1>1 DEF Walking, Covered, EndBelow
<1>6. CASE start' <= after[site].observed
  <2>1. phase' = "known" /\ todo' = before[site].sparse
    BY <1>6 DEF Prefix
  <2>2. \A q \in Nat : ~(New(site, q) /\ q < start')
    BY <1>1, <1>2, AtVersions
  <2>3. start' \in Nat /\ before[site].observed < start' /\ start' <= after[site].observed + 1
    BY <1>1, <1>2, <1>6, AtVersions
  <2> QED BY <1>1, <1>3, <1>4, <1>5, <2>1, <2>2, <2>3, Unwalked DEF RangesInv, Walking
<1>7. CASE ~(start' <= after[site].observed)
  <2>1. phase' = "sparse" /\ todo' = after[site].sparse
    BY <1>7 DEF Prefix
  <2>2. \A q \in Nat : ~(New(site, q) /\ q \notin after[site].sparse)
    BY <1>1, <1>2, <1>7, AtVersions
  <2>3. \A q \in after[site].sparse : q \in Nat
    BY <1>1, AtVersions
  <2> QED BY <1>1, <1>3, <1>4, <1>5, <2>1, <2>2, <2>3, Unwalked DEF RangesInv, Walking
<1> QED BY <1>6, <1>7

\* A step of the walk that pushes a range, or none.
LEMMA PushKeeps ==
  ASSUME ReceiptRangesAssumption, RangesInv, AtSite, UNCHANGED <<before, after, site>>,
         phase' \in {"prefix", "known", "sparse"}, start' \in Nat, todo' \in SUBSET (1 .. MaxStored),
         NEW first \in 1 .. MaxStored, NEW last \in first .. MaxStored,
         EndBelow(first), ranges' = Push(first, last)
  PROVE  /\ RangesTyped' /\ RangesOrdered' /\ AtSite'
         /\ \A i \in Index : i < site => \A q \in Nat : Covered(i, q)' <=> New(i, q)'
         /\ \A q \in Nat : Covered(site, q)' <=> Covered(site, q) \/ q \in first .. last
         /\ \A q \in Nat : last < q => EndBelow(q)'
<1>1. Pushed(first, last)
  BY PushAdds DEF RangesInv
<1>2. RangesTyped'
  BY <1>1 DEF Pushed, RangesTyped, RangesInv, StoredRange
<1>3. site \in Index /\ site \in Nat /\ last \in Nat /\ \A n \in DOMAIN ranges' : ranges'[n].last \in Nat
  <2>1. \A n \in DOMAIN ranges' : ranges'[n] \in StoredRange
    BY <1>1 DEF Pushed
  <2> QED BY <2>1, AtVersions DEF StoredRange, RangesInv
<1>4. \A q \in Nat : last < q => EndBelow(q)'
  BY <1>1, <1>3 DEF Pushed, EndBelow
<1>5. \A i \in Index, q \in Nat : Covered(i, q)' <=> Covered(i, q) \/ (i = site /\ q \in first .. last)
  BY <1>1 DEF Pushed
<1>6. \A i \in Index : i < site => \A q \in Nat : Covered(i, q)' <=> New(i, q)'
  <2>1. \A i \in Index : i < site => i # site
    BY <1>3 DEF Index
  <2> QED BY <2>1, <1>5, Unwalked DEF RangesInv
<1> QED BY <1>1, <1>2, <1>3, <1>4, <1>5, <1>6 DEF Pushed, AtSite

\* A known sequence ends the open range before it, and the next starts after it.
LEMMA KnownKeeps ==
  ASSUME ReceiptRangesAssumption, RangesInv, NEW q \in todo, Known(q)
  PROVE  RangesInv'
<1> DEFINE b == before[site]  a == after[site]
<1>1. RangesTyped /\ RangesOrdered /\ AtSite /\ Walking /\ phase = "known" /\ phase' = "known"
      /\ UNCHANGED <<before, after, site>> /\ AtSite'
  BY DEF RangesInv, Known, AtSite
<1>2. /\ b.observed < start /\ start <= a.observed + 1 /\ todo \subseteq b.sparse /\ EndBelow(start)
      /\ \A p \in b.sparse : p \in todo \/ p < start \/ p > a.observed
      /\ \A p \in Nat : Covered(site, p) <=> New(site, p) /\ p < start
  BY <1>1 DEF Walking
<1>3. q \in 1 .. MaxStored /\ q # Last64 /\ start \in Nat /\ todo \in SUBSET (1 .. MaxStored)
      /\ a.observed \in 0 .. MaxStored /\ b.observed \in 0 .. MaxStored /\ MaxStored \in Nat
  BY <1>1, AtVersions DEF RangesTyped
<1>4. \A i, p : New(i, p)' <=> New(i, p)
  BY <1>1, Unwalked
<1>5. todo' = todo \ {q}
  BY <1>3 DEF Known
<1>6. CASE (q < start \/ q > a.observed) /\ UNCHANGED <<start, ranges>>
  <2>1. RangesTyped' /\ RangesOrdered'
    BY <1>1, <1>3, <1>5, <1>6, Unwalked DEF RangesTyped
  <2>2. \A i, p : Covered(i, p)' <=> Covered(i, p)
    BY <1>1, <1>6, Unwalked
  <2>3. EndBelow(start)'
    BY <1>1, <1>2, <1>6 DEF EndBelow
  <2>4. \A p \in b.sparse : p \in todo' \/ p < start \/ p > a.observed
    BY <1>2, <1>5, <1>6
  <2> QED BY <1>1, <1>2, <1>4, <1>5, <1>6, <2>1, <2>2, <2>3, <2>4 DEF RangesInv, Walking
<1>7. CASE start <= q /\ q <= a.observed
  <2>1. /\ ranges' = (IF start < q THEN Push(start, q - 1) ELSE ranges) /\ start' = q + 1
    BY <1>3, <1>7 DEF Known, SaturatingAdd
  <2>2. \A p \in todo : q <= p
    BY DEF Known, Least
  <2>3. \A p \in b.sparse : p \in todo' \/ p < start' \/ p > a.observed
    <3>1. \A p \in b.sparse : p \in Nat
      BY <1>1, AtVersions
    <3> QED BY <1>2, <1>3, <1>5, <1>7, <2>1, <3>1
  <2>4. \A p \in Nat : New(site, p) /\ p < start' <=> New(site, p) /\ (p < start \/ p \in start .. q - 1)
    <3>1. ~New(site, q)
      BY <1>1, <1>2, <1>3, AtVersions
    <3> QED BY <3>1, <1>3, <1>7, <2>1
  <2>5. \A p \in start .. q - 1 : p \in Nat /\ New(site, p)
    <3> SUFFICES ASSUME NEW p \in start .. q - 1 PROVE p \in Nat /\ New(site, p)
      OBVIOUS
    <3>1. p \in Nat /\ b.observed < p /\ p <= a.observed /\ p \in 1 .. MaxStored /\ start <= p /\ p < q
      BY <1>2, <1>3, <1>7
    <3>2. p \notin todo
      BY <2>2, <3>1, <1>3
    <3>3. p \notin b.sparse
      BY <3>1, <3>2, <1>2, <1>3
    <3> QED BY <3>1, <3>3, <1>1, AtVersions
  <2>6. /\ RangesTyped' /\ RangesOrdered'
        /\ \A i \in Index : i < site => \A p \in Nat : Covered(i, p)' <=> New(i, p)'
        /\ \A p \in Nat : Covered(site, p)' <=> Covered(site, p) \/ p \in start .. q - 1
        /\ EndBelow(start)'
    <3>1. start' \in Nat /\ todo' \in SUBSET (1 .. MaxStored)
      <4>1. q + 1 \in Nat
        BY <1>3
      <4>2. todo' \in SUBSET (1 .. MaxStored)
        BY <1>3, <1>5
      <4> QED BY <2>1, <4>1, <4>2
    <3>2. CASE start < q
      <4>1. start \in 1 .. MaxStored /\ q - 1 \in start .. MaxStored /\ q - 1 < start' /\ start' \in Nat
        BY <1>2, <1>3, <1>7, <2>1, <3>2
      <4>2. ranges' = Push(start, q - 1)
        BY <2>1, <3>2
      <4>3. phase' \in {"prefix", "known", "sparse"} /\ EndBelow(start)
        BY <1>1, <1>2
      <4>4. /\ RangesTyped' /\ RangesOrdered'
            /\ \A i \in Index : i < site => \A p \in Nat : Covered(i, p)' <=> New(i, p)'
            /\ \A p \in Nat : Covered(site, p)' <=> Covered(site, p) \/ p \in start .. q - 1
            /\ \A p \in Nat : q - 1 < p => EndBelow(p)'
        BY <1>1, <3>1, <4>1, <4>2, <4>3, PushKeeps
      <4>5. EndBelow(q + 1)'
        BY <4>4, <1>3
      <4> QED BY <4>4, <4>5, <2>1 DEF EndBelow
    <3>3. CASE ~(start < q)
      <4>1. ranges' = ranges /\ start .. q - 1 = {} /\ start = q
        BY <1>3, <1>7, <2>1, <3>3
      <4>2. RangesTyped' /\ RangesOrdered' /\ \A i, p : Covered(i, p)' <=> Covered(i, p)
        BY <1>1, <3>1, <4>1, Unwalked DEF RangesTyped
      <4>3. EndBelow(start)'
        <5>1. \A n \in DOMAIN ranges : ranges[n] \in StoredRange
          BY <1>1 DEF RangesTyped
        <5>2. \A n \in DOMAIN ranges : ranges[n].last \in Nat
          BY <5>1, <1>3 DEF StoredRange
        <5> QED BY <1>1, <1>2, <1>3, <2>1, <4>1, <5>2 DEF EndBelow
      <4> QED BY <1>1, <1>4, <4>1, <4>2, <4>3 DEF RangesInv
    <3> QED BY <3>2, <3>3
  <2>7. \A p \in Nat : Covered(site, p)' <=> New(site, p)' /\ p < start'
    BY <1>1, <1>2, <1>4, <2>4, <2>5, <2>6
  <2>8. b.observed < start' /\ start' <= a.observed + 1 /\ todo' \subseteq b.sparse
    <3>1. todo' \subseteq b.sparse
      BY <1>2, <1>5
    <3> HIDE DEF a, b
    <3>2. b.observed \in Nat /\ a.observed \in Nat /\ q \in Nat /\ start \in Nat
      BY <1>3
    <3> QED BY <3>1, <3>2, <1>2, <1>7, <2>1
  <2>9. Walking'
    BY <1>1, <2>3, <2>6, <2>7, <2>8 DEF Walking
  <2> QED BY <1>1, <2>6, <2>9 DEF RangesInv
<1> QED BY <1>6, <1>7 DEF Known

\* The rest of the prefix is pushed.
LEMMA RestKeeps ==
  ASSUME ReceiptRangesAssumption, RangesInv, Rest
  PROVE  RangesInv'
<1> DEFINE b == before[site]  a == after[site]
<1>1. RangesTyped /\ RangesOrdered /\ AtSite /\ Walking /\ phase = "known" /\ phase' = "sparse"
      /\ UNCHANGED <<before, after, site, start>> /\ AtSite' /\ todo = {} /\ todo' = a.sparse
      /\ ranges' = (IF start <= a.observed THEN Push(start, a.observed) ELSE ranges)
  BY DEF RangesInv, Rest, AtSite
<1>2. /\ b.observed < start /\ start <= a.observed + 1 /\ EndBelow(start)
      /\ \A p \in b.sparse : p < start \/ p > a.observed
      /\ \A p \in Nat : Covered(site, p) <=> New(site, p) /\ p < start
  BY <1>1 DEF Walking
<1>3. /\ start \in Nat /\ todo' \in SUBSET (1 .. MaxStored) /\ MaxStored \in Nat
      /\ a.observed \in 0 .. MaxStored /\ b.observed \in 0 .. MaxStored
      /\ \A q \in a.sparse : q > a.observed + 1
      /\ \A p \in Nat : New(site, p) <=> /\ p \in 1 .. MaxStored
                                         /\ p <= a.observed \/ p \in a.sparse
                                         /\ b.observed < p /\ p \notin b.sparse
  BY <1>1, AtVersions DEF RangesTyped
<1>4. \A i, p : New(i, p)' <=> New(i, p)
  BY <1>1, Unwalked
<1>5. /\ RangesTyped' /\ RangesOrdered'
      /\ \A i \in Index : i < site => \A p \in Nat : Covered(i, p)' <=> New(i, p)'
      /\ \A p \in Nat : Covered(site, p)' <=> Covered(site, p) \/ p \in start .. a.observed
      /\ \A p \in Nat : a.observed + 1 < p => EndBelow(p)'
  <2>1. CASE start <= a.observed
    <3>1. start \in 1 .. MaxStored /\ a.observed \in start .. MaxStored /\ phase' \in {"prefix", "known", "sparse"}
      BY <1>1, <1>2, <1>3, <2>1
    <3>2. start' \in Nat /\ ranges' = Push(start, a.observed)
      BY <1>1, <1>3, <2>1
    <3>3. \A p \in Nat : a.observed + 1 < p => a.observed < p
      BY <1>3
    <3> QED BY <1>1, <1>2, <1>3, <3>1, <3>2, <3>3, PushKeeps
  <2>2. CASE ~(start <= a.observed)
    <3>1. ranges' = ranges /\ start .. a.observed = {} /\ start = a.observed + 1
      BY <1>1, <1>2, <1>3, <2>2
    <3>2. RangesTyped' /\ RangesOrdered' /\ \A i, p : Covered(i, p)' <=> Covered(i, p)
      BY <1>1, <1>3, <3>1, Unwalked DEF RangesTyped
    <3>3. \A p \in Nat : a.observed + 1 < p => EndBelow(p)'
      <4>1. \A n \in DOMAIN ranges : ranges[n] \in StoredRange
        BY <1>1 DEF RangesTyped
      <4>2. \A n \in DOMAIN ranges : ranges[n].last \in Nat
        BY <4>1, <1>3 DEF StoredRange
      <4> QED BY <1>1, <1>2, <1>3, <3>1, <4>2 DEF EndBelow
    <3> QED BY <1>1, <1>4, <3>1, <3>2, <3>3 DEF RangesInv
  <2> QED BY <2>1, <2>2
<1>6. \A p \in Nat : Covered(site, p)' <=> New(site, p)' /\ p \notin todo'
  <2> SUFFICES ASSUME NEW p \in Nat PROVE Covered(site, p)' <=> New(site, p) /\ p \notin a.sparse
    BY <1>1, <1>4
  <2>1. Covered(site, p)' <=> (New(site, p) /\ p < start) \/ p \in start .. a.observed
    BY <1>2, <1>5
  <2>2. p \in start .. a.observed => New(site, p) /\ p \notin a.sparse
    BY <1>2, <1>3
  <2>3. New(site, p) /\ p < start => p \notin a.sparse
    BY <1>2, <1>3
  <2>4. New(site, p) /\ p \notin a.sparse => p < start \/ p \in start .. a.observed
    BY <1>2, <1>3
  <2> QED BY <2>1, <2>2, <2>3, <2>4
<1>7. \A q \in todo' : EndBelow(q)'
  BY <1>1, <1>3, <1>5
<1>8. Walking'
  BY <1>1, <1>6, <1>7 DEF Walking
<1> QED BY <1>1, <1>5, <1>8 DEF RangesInv

\* A sparse sequence that was not known is a range, or ends one.
LEMMA SparseKeeps ==
  ASSUME ReceiptRangesAssumption, RangesInv, NEW q \in todo, Sparse(q)
  PROVE  RangesInv'
<1> DEFINE b == before[site]  a == after[site]
<1>1. RangesTyped /\ RangesOrdered /\ AtSite /\ Walking /\ phase = "sparse" /\ phase' = "sparse"
      /\ UNCHANGED <<before, after, site, start>> /\ AtSite' /\ todo' = todo \ {q}
      /\ ranges' = (IF Holds(b, q) THEN ranges ELSE Push(q, q)) /\ \A p \in todo : q <= p
  BY DEF RangesInv, Sparse, AtSite, Least
<1>2. /\ todo \subseteq a.sparse /\ \A p \in todo : EndBelow(p)
      /\ \A p \in Nat : Covered(site, p) <=> New(site, p) /\ p \notin todo
  BY <1>1 DEF Walking
<1>3. /\ start \in Nat /\ todo \in SUBSET (1 .. MaxStored) /\ MaxStored \in Nat
      /\ q \in Nat /\ q \in 1 .. MaxStored /\ q \in a.sparse
  BY <1>1, <1>2, AtVersions DEF RangesTyped
<1>4. \A i, p : New(i, p)' <=> New(i, p)
  BY <1>1, Unwalked
<1>5. New(site, q) <=> ~Holds(b, q)
  BY <1>1, <1>3, AtVersions DEF Holds
<1>6. CASE Holds(b, q)
  <2>1. ranges' = ranges
    BY <1>1, <1>6
  <2>2. RangesTyped' /\ RangesOrdered' /\ \A i, p : Covered(i, p)' <=> Covered(i, p)
    BY <1>1, <1>3, <2>1, Unwalked DEF RangesTyped
  <2>3. \A p \in todo' : EndBelow(p)'
    BY <1>1, <1>2, <2>1 DEF EndBelow
  <2>4. \A p \in Nat : Covered(site, p)' <=> New(site, p)' /\ p \notin todo'
    BY <1>1, <1>2, <1>4, <1>5, <1>6, <2>2
  <2>5. Walking'
    BY <1>1, <1>2, <2>3, <2>4 DEF Walking
  <2> QED BY <1>1, <1>4, <2>2, <2>5 DEF RangesInv
<1>7. CASE ~Holds(b, q)
  <2>1. ranges' = Push(q, q) /\ q \in q .. MaxStored /\ EndBelow(q) /\ start' \in Nat
        /\ todo' \in SUBSET (1 .. MaxStored) /\ phase' \in {"prefix", "known", "sparse"}
    <3>1. ranges' = Push(q, q)
      BY <1>1, <1>7
    <3>2. q \in q .. MaxStored /\ start' \in Nat /\ todo' \in SUBSET (1 .. MaxStored)
      BY <1>1, <1>3
    <3> QED BY <1>1, <1>2, <3>1, <3>2
  <2>2. /\ RangesTyped' /\ RangesOrdered'
        /\ \A i \in Index : i < site => \A p \in Nat : Covered(i, p)' <=> New(i, p)'
        /\ \A p \in Nat : Covered(site, p)' <=> Covered(site, p) \/ p \in q .. q
        /\ \A p \in Nat : q < p => EndBelow(p)'
    BY <1>1, <1>3, <2>1, PushKeeps
  <2>3. \A p \in Nat : Covered(site, p)' <=> New(site, p)' /\ p \notin todo'
    <3>1. \A p \in Nat : p \in q .. q <=> p = q
      BY <1>3
    <3> QED BY <1>1, <1>2, <1>4, <1>5, <1>7, <2>2, <3>1
  <2>4. \A p \in todo' : p \in Nat /\ q < p
    BY <1>1, <1>3
  <2>5. Walking'
    BY <1>1, <1>2, <2>2, <2>3, <2>4 DEF Walking
  <2> QED BY <1>1, <2>2, <2>5 DEF RangesInv
<1> QED BY <1>6, <1>7

\* The walk goes on to a site no range is of.
LEMMA NextSiteKeeps ==
  ASSUME ReceiptRangesAssumption, RangesInv, NextSite
  PROVE  RangesInv'
<1>1. RangesTyped /\ RangesOrdered /\ AtSite /\ Walking /\ phase = "sparse" /\ phase' = "prefix"
      /\ UNCHANGED <<before, after, start, todo, ranges>> /\ todo = {} /\ site' = site + 1
  BY DEF RangesInv, NextSite
<1>2. site \in Nat /\ site \in Index /\ Len(Sites) \in Nat
  BY <1>1, AtVersions DEF ReceiptRangesAssumption
<1>3. \A n \in DOMAIN ranges : ranges[n] \in StoredRange /\ ranges[n].site \in Nat
  <2>1. \A n \in DOMAIN ranges : ranges[n] \in StoredRange
    BY <1>1 DEF RangesTyped
  <2> QED BY <2>1, <1>2 DEF StoredRange, Index
<1>4. RangesTyped' /\ RangesOrdered'
  BY <1>1, <1>2, <1>3, Unwalked DEF RangesTyped, AtSite
<1>5. \A i, q : (New(i, q)' <=> New(i, q)) /\ (Covered(i, q)' <=> Covered(i, q))
  BY <1>1, Unwalked
<1>6. \A i \in Index : i < site' => \A q \in Nat : Covered(i, q)' <=> New(i, q)'
  <2> SUFFICES ASSUME NEW i \in Index, i < site + 1, NEW q \in Nat
               PROVE  Covered(i, q) <=> New(i, q)
    BY <1>1, <1>5
  <2>1. i < site \/ i = site
    BY <1>2 DEF Index
  <2> QED BY <1>1, <2>1 DEF RangesInv, Walking
<1>7. Walking'
  BY <1>1, <1>2, <1>3 DEF Walking, RangesTyped
<1> QED BY <1>4, <1>6, <1>7 DEF RangesInv

\* Every range begins at site one with nothing covered.
LEMMA RangesBegin == ASSUME ReceiptRangesAssumption, RangesInit PROVE RangesInv
<1>1. ranges = <<>> /\ DOMAIN ranges = {} /\ site = 1 /\ phase = "prefix" /\ start = 0 /\ todo = {}
  BY DEF RangesInit
<1>2. Len(Sites) \in Nat /\ MaxStored \in Nat
  BY DEF ReceiptRangesAssumption
<1>3. RangesTyped
  BY <1>1, <1>2 DEF RangesTyped, RangesInit, Index
<1>4. RangesOrdered /\ Walking
  BY <1>1 DEF RangesOrdered, Walking
<1>5. \A i \in Index : ~(i < site)
  BY <1>1, <1>2 DEF Index
<1> QED BY <1>3, <1>4, <1>5 DEF RangesInv

\* The walk over a version covers exactly what the version brought.
THEOREM RangesInvariant ==
  ASSUME ReceiptRangesAssumption PROVE RangesSpec => []RangesInv
<1>1. RangesInv /\ [RangesNext]_rangesVars => RangesInv'
  <2> SUFFICES ASSUME RangesInv, [RangesNext]_rangesVars PROVE RangesInv'
    OBVIOUS
  <2>1. CASE Prefix
    BY <2>1, PrefixKeeps
  <2>2. CASE Rest
    BY <2>2, RestKeeps
  <2>3. CASE NextSite
    BY <2>3, NextSiteKeeps
  <2>4. ASSUME NEW q \in todo, Known(q) PROVE RangesInv'
    BY <2>4, KnownKeeps
  <2>5. ASSUME NEW q \in todo, Sparse(q) PROVE RangesInv'
    BY <2>5, SparseKeeps
  <2>6. CASE UNCHANGED rangesVars
    <3>1. UNCHANGED <<before, after, site, phase, start, todo, ranges>>
      BY <2>6 DEF rangesVars
    <3> QED BY <3>1 DEF RangesInv, RangesTyped, RangesOrdered, Walking, Covered, New, Set, Holds, EndBelow, AtSite
  <2> QED BY <2>1, <2>2, <2>3, <2>4, <2>5, <2>6 DEF RangesNext
<1> QED BY <1>1, RangesBegin, PTL DEF RangesSpec

\* The rows a commit writes are the receipts it brought and no others, each in
\* one row, in as few rows as can be, whatever was known out of order before and
\* however the watermarks moved over it (new_receipt_ranges).
THEOREM RangesStayExact ==
  ASSUME ReceiptRangesAssumption PROVE RangesSpec => []RangesExact
<1>1. ASSUME RangesInv PROVE RangesExact
  <2> SUFFICES ASSUME ~AtSite, NEW i \in 1 .. Len(Sites)
               PROVE  /\ UNION {Span(ranges[n]) : n \in Of(i)} = Set(after[i]) \ Set(before[i])
                      /\ \A m, n \in Of(i) : m = n \/ Span(ranges[m]) \cap Span(ranges[n]) = {}
                      /\ \A m, n \in Of(i) : ranges[m].last + 1 # ranges[n].first
    BY DEF RangesExact
  <2>1. RangesTyped /\ RangesOrdered /\ \A q \in Nat : Covered(i, q) <=> New(i, q)
    <3>1. Len(Sites) \in Nat /\ i \in Index /\ i < site
      BY <1>1 DEF RangesInv, RangesTyped, AtSite, Index, ReceiptRangesAssumption
    <3> QED BY <1>1, <3>1 DEF RangesInv
  <2>2. \A n \in Of(i) : /\ n \in DOMAIN ranges /\ n \in Nat /\ ranges[n].site = i
                          /\ ranges[n].first \in Nat /\ ranges[n].last \in Nat
                          /\ ranges[n].first <= ranges[n].last
    <3> SUFFICES ASSUME NEW n \in Of(i)
                 PROVE  /\ n \in DOMAIN ranges /\ n \in Nat /\ ranges[n].site = i
                        /\ ranges[n].first \in Nat /\ ranges[n].last \in Nat
                        /\ ranges[n].first <= ranges[n].last
      OBVIOUS
    <3>1. n \in DOMAIN ranges /\ ranges[n].site = i /\ ranges \in Seq(StoredRange) /\ MaxStored \in Nat
      BY <2>1 DEF Of, RangesTyped, ReceiptRangesAssumption
    <3>2. n \in Nat /\ ranges[n] \in StoredRange
      BY <3>1
    <3> QED BY <2>1, <3>1, <3>2 DEF StoredRange, RangesTyped
  <2>3. \A m, n \in Of(i) : m < n => ranges[m].last + 1 < ranges[n].first
    <3>1. ~(i < i)
      BY DEF ReceiptRangesAssumption
    <3> QED BY <2>1, <2>2, <3>1 DEF RangesOrdered
  <2>4. \A q : q \in UNION {Span(ranges[n]) : n \in Of(i)} <=> q \in Set(after[i]) \ Set(before[i])
    <3>1. ASSUME NEW q \in Nat
          PROVE  q \in UNION {Span(ranges[n]) : n \in Of(i)} <=> q \in Set(after[i]) \ Set(before[i])
      BY <2>1 DEF Covered, New, Of
    <3>2. \A q : q \in UNION {Span(ranges[n]) : n \in Of(i)} => q \in Nat
      BY <2>2 DEF Span
    <3>3. \A q : q \in Set(after[i]) => q \in Nat
      BY DEF Set, ReceiptRangesAssumption
    <3> QED BY <3>1, <3>2, <3>3
  <2>5. \A m, n \in Of(i) : m = n \/ Span(ranges[m]) \cap Span(ranges[n]) = {}
    <3> SUFFICES ASSUME NEW m \in Of(i), NEW n \in Of(i), m # n,
                        NEW q \in Span(ranges[m]), q \in Span(ranges[n])
                 PROVE  FALSE
      OBVIOUS
    <3>1. m < n \/ n < m
      BY <2>2
    <3> QED BY <2>2, <2>3, <3>1 DEF Span
  <2>6. \A m, n \in Of(i) : ranges[m].last + 1 # ranges[n].first
    <3> SUFFICES ASSUME NEW m \in Of(i), NEW n \in Of(i), ranges[m].last + 1 = ranges[n].first
                 PROVE  FALSE
      OBVIOUS
    <3>1. m < n \/ n < m \/ m = n
      BY <2>2
    <3> QED BY <2>2, <2>3, <3>1
  <2> QED BY <2>4, <2>5, <2>6
<1> QED BY <1>1, RangesInvariant, PTL

-----------------------------------------------------------------------------
(* The release a page runs.                                                  *)

Pages(S) == [page : S, rt : S, manifest : S, core : S]
IsPage(p) == \E S : p \in Pages(S)
\* Every page has its four fields.
PagesTyped ==
  /\ tabs = [t \in Tabs |-> tabs[t]]
  /\ \A t \in Tabs : IsPage(tabs[t])
Matched(p) == p.rt = "loaded" => Component[p.core] = Component[p.manifest]

\* A page with some of its fields set.
LEMMA FieldsSet ==
  ASSUME NEW q, IsPage(q), NEW a, NEW b
  PROVE  /\ IsPage([q EXCEPT !.rt = a, !.manifest = b])
         /\ a # "loaded" => Matched([q EXCEPT !.rt = a, !.manifest = b])
         /\ IsPage([q EXCEPT !.manifest = b, !.rt = a])
         /\ a # "loaded" => Matched([q EXCEPT !.manifest = b, !.rt = a])
         /\ IsPage([q EXCEPT !.core = b, !.rt = a])
         /\ Component[b] = Component[q.manifest] => Matched([q EXCEPT !.core = b, !.rt = a])
<1>1. PICK S : q \in Pages(S)
  BY DEF IsPage
<1> DEFINE T == S \cup {a, b}
<1>2. q \in Pages(T) /\ a \in T /\ b \in T
  BY <1>1 DEF Pages
<1> HIDE DEF T
<1>3. [q EXCEPT !.rt = a, !.manifest = b] \in Pages(T) /\ [q EXCEPT !.rt = a, !.manifest = b].rt = a
  BY <1>2 DEF Pages
<1>4. [q EXCEPT !.manifest = b, !.rt = a] \in Pages(T) /\ [q EXCEPT !.manifest = b, !.rt = a].rt = a
  BY <1>2 DEF Pages
<1>5. /\ [q EXCEPT !.core = b, !.rt = a] \in Pages(T) /\ [q EXCEPT !.core = b, !.rt = a].core = b
      /\ [q EXCEPT !.core = b, !.rt = a].manifest = q.manifest
  BY <1>2 DEF Pages
<1>6. /\ IsPage([q EXCEPT !.rt = a, !.manifest = b]) /\ IsPage([q EXCEPT !.manifest = b, !.rt = a])
      /\ IsPage([q EXCEPT !.core = b, !.rt = a])
  BY <1>3, <1>4, <1>5, Zenon DEF IsPage
<1>7. a # "loaded" => Matched([q EXCEPT !.rt = a, !.manifest = b])
  BY <1>3, Zenon DEF Matched
<1>8. a # "loaded" => Matched([q EXCEPT !.manifest = b, !.rt = a])
  BY <1>4, Zenon DEF Matched
<1>9. Component[b] = Component[q.manifest] => Matched([q EXCEPT !.core = b, !.rt = a])
  BY <1>5, Zenon DEF Matched
<1> QED BY <1>6, <1>7, <1>8, <1>9

\* A page before anything is loaded.
LEMMA FreshPage == ASSUME NEW r PROVE IsPage([NoPage EXCEPT !.page = r]) /\ Matched([NoPage EXCEPT !.page = r])
<1>1. /\ [NoPage EXCEPT !.page = r] \in Pages({0, "none", r})
      /\ [NoPage EXCEPT !.page = r].rt = "none"
  BY DEF NoPage, Pages
<1>2. IsPage([NoPage EXCEPT !.page = r])
  BY <1>1, Zenon DEF IsPage
<1>3. Matched([NoPage EXCEPT !.page = r])
  BY <1>1 DEF Matched, NoPage
<1> QED BY <1>2, <1>3

\* A page that changes alone.
LEMMA PageChanges ==
  ASSUME PagesTyped, ModulesMatchManifest, NEW t \in Tabs, NEW p, tabs' = [tabs EXCEPT ![t] = p],
         IsPage(p), Matched(p)
  PROVE  PagesTyped' /\ ModulesMatchManifest'
<1>1. \A u \in Tabs : tabs'[u] = IF u = t THEN p ELSE tabs[u]
  BY DEF PagesTyped
<1>2. tabs' = [u \in Tabs |-> tabs'[u]]
  BY DEF PagesTyped
<1>3. \A u \in Tabs : IsPage(tabs'[u])
  BY <1>1 DEF PagesTyped
<1>4. \A u \in Tabs : Matched(tabs'[u])
  BY <1>1 DEF ModulesMatchManifest, Matched
<1> QED BY <1>2, <1>3, <1>4 DEF PagesTyped, ModulesMatchManifest, Matched

\* What the modules of a page are, whatever the caches hold.
LEMMA PagesStayMatched ==
  ASSUME PagesTyped, ModulesMatchManifest, [ReleaseNext]_releaseVars
  PROVE  PagesTyped' /\ ModulesMatchManifest'
<1> DEFINE TabsInv == PagesTyped /\ ModulesMatchManifest
<1>2. TabsInv'
  <2> DEFINE Turns(t, p) == tabs' = [tabs EXCEPT ![t] = p] /\ IsPage(p) /\ Matched(p)
  <2>0. ASSUME NEW t \in Tabs, NEW p, Turns(t, p) PROVE TabsInv'
    BY <2>0, PageChanges
  <2>1. ASSUME NEW t \in Tabs, LoadManifest(t) PROVE TabsInv'
    <3> DEFINE p == [tabs[t] EXCEPT !.rt = "manifest", !.manifest = Fetched("manifest")]
    <3>1. tabs' = [tabs EXCEPT ![t] = p]
      BY <2>1 DEF LoadManifest
    <3>2. IsPage(tabs[t])
      BY DEF PagesTyped
    <3>3. IsPage(p) /\ Matched(p)
      BY <3>2, FieldsSet
    <3> HIDE DEF p
    <3> QED BY <2>0, <3>1, <3>3
  <2>2. ASSUME NEW t \in Tabs, LoadCore(t) PROVE TabsInv'
    <3> DEFINE core == Fetched("core")
               p == [tabs[t] EXCEPT !.core = core, !.rt = "loaded"]
               r == [tabs[t] EXCEPT !.manifest = 0, !.rt = "none"]
    <3>1. tabs' = [tabs EXCEPT ![t] = IF Component[core] = Component[tabs[t].manifest] THEN p ELSE r]
      BY <2>2 DEF LoadCore
    <3>2. IsPage(tabs[t])
      BY DEF PagesTyped
    <3> HIDE DEF core
    <3>3. IsPage(p) /\ (Component[core] = Component[tabs[t].manifest] => Matched(p))
      BY <3>2, FieldsSet
    <3>4. IsPage(r) /\ Matched(r)
      BY <3>2, FieldsSet
    <3> HIDE DEF p, r
    <3> QED BY <2>0, <3>1, <3>3, <3>4
  <2>3. ASSUME NEW t \in Tabs, LoadTimesOut(t) PROVE TabsInv'
    <3> DEFINE p == [tabs[t] EXCEPT !.rt = "none", !.manifest = 0]
    <3>1. tabs' = [tabs EXCEPT ![t] = p]
      BY <2>3 DEF LoadTimesOut
    <3>2. IsPage(tabs[t])
      BY DEF PagesTyped
    <3>3. IsPage(p) /\ Matched(p)
      BY <3>2, FieldsSet
    <3> HIDE DEF p
    <3> QED BY <2>0, <3>1, <3>3
  <2>4. ASSUME NEW t \in Tabs, NEW online \in BOOLEAN, Navigate(t, online) PROVE TabsInv'
    <3>1. PICK r : tabs' = [tabs EXCEPT ![t] = [NoPage EXCEPT !.page = r]]
      BY <2>4 DEF Navigate
    <3> DEFINE p == [NoPage EXCEPT !.page = r]
    <3>2. IsPage(p) /\ Matched(p)
      BY FreshPage
    <3>3. tabs' = [tabs EXCEPT ![t] = p]
      BY <3>1
    <3> HIDE DEF p
    <3> QED BY <2>0, <3>2, <3>3
  <2>5. CASE UNCHANGED tabs
    BY <2>5 DEF PagesTyped, ModulesMatchManifest
  <2> QED
    BY <2>1, <2>2, <2>3, <2>4, <2>5
       DEF ReleaseNext, releaseVars, Deploy, CheckForUpdate, Precache, InstallFails, Activate
<1> QED BY <1>2

\* The caches: one for each digest, its paths stored since a release that has it.
Digests == {Version(r) : r \in 1..Releases}
CacheRow == [ns : Digests, holds : [Paths -> Nat]]
Caches == Seq(CacheRow)
Kept(c, d) ==
  \E r \in 1..d : Version(r) = c.ns /\ \A p \in Paths : c.holds[p] = 0 \/ c.holds[p] \in r..d
CachesKept ==
  /\ caches \in Caches
  /\ \A i, j \in DOMAIN caches : caches[i].ns = caches[j].ns => i = j
  /\ \A i \in DOMAIN caches : Kept(caches[i], deployed)
\* What an installation is done with is in the cache of its digest.
InstallKept ==
  /\ install \in [ns : Digests \cup {NoNamespace}, todo : SUBSET Paths]
  /\ install # NoInstall =>
       /\ \E r \in 1..deployed : Version(r) = install.ns
       /\ \A p \in Paths \ install.todo :
            \E i \in DOMAIN caches : caches[i].ns = install.ns /\ caches[i].holds[p] # 0
\* The cache of the active worker is the oldest and is complete.
ActiveFirst ==
  active # NoNamespace =>
    /\ caches # <<>> /\ caches[1].ns = active
    /\ \A p \in Paths : caches[1].holds[p] # 0
CacheInv ==
  /\ deployed \in 1..Releases
  /\ CachesKept /\ InstallKept /\ ActiveFirst

\* The oldest cache answers when it has the path.
LEMMA OldestAnswers ==
  ASSUME caches \in Caches, NEW p \in Paths, caches # <<>>, caches[1].holds[p] # 0
  PROVE  Lookup(p) = caches[1].holds[p]
<1> DEFINE hits == {i \in DOMAIN caches : caches[i].holds[p] # 0}
<1>1. 1 \in hits /\ \A i \in hits : i \in Nat /\ 1 <= i
  BY DEF Caches
<1>2. \A x \in hits : (\A y \in hits : x =< y) => x = 1
  BY <1>1
<1> HIDE DEF hits
<1>3. Min(hits) = 1
  BY <1>1, <1>2 DEF Min
<1>4. Lookup(p) = IF hits = {} THEN 0 ELSE caches[Min(hits)].holds[p]
  BY DEF Lookup, hits
<1> QED BY <1>1, <1>3, <1>4

\* While a worker is active a bootstrap is served from its cache.
LEMMA NothingRefilled ==
  ASSUME CacheInv, NEW p \in Paths
  PROVE  /\ active # NoNamespace => Lookup(p) # 0
         /\ Refilled(p) = caches
<1>1. active # NoNamespace => Lookup(p) = caches[1].holds[p] /\ caches[1].holds[p] # 0
  BY OldestAnswers DEF CacheInv, ActiveFirst, CachesKept
<1> QED BY <1>1 DEF Refilled

\* The caches after a path of the current release is stored in one of them.
StoredIn(ns, p, N) ==
  /\ N \in Caches
  /\ \A i, j \in DOMAIN N : N[i].ns = N[j].ns => i = j
  /\ \A i \in DOMAIN N : Kept(N[i], deployed)
  /\ \E i \in DOMAIN N : N[i].ns = ns /\ N[i].holds[p] # 0
  /\ \A i \in DOMAIN caches :
       /\ i \in DOMAIN N /\ N[i].ns = caches[i].ns
       /\ \A q \in Paths : caches[i].holds[q] # 0 => N[i].holds[q] # 0

LEMMA StoredKeeps ==
  ASSUME deployed \in 1..Releases, CachesKept, NEW p \in Paths,
         NEW r \in 1..deployed, NEW ns, ns = Version(r)
  PROVE  StoredIn(ns, p, Stored(ns, p, deployed))
<1>0. ns \in Digests /\ Releases \in Nat /\ deployed \in Nat
  BY ReleaseAssumption DEF Digests
<1>1. CASE \E i \in DOMAIN caches : caches[i].ns = ns
  <2> DEFINE N == [i \in DOMAIN caches |->
                    IF caches[i].ns = ns THEN [caches[i] EXCEPT !.holds[p] = deployed] ELSE caches[i]]
  <2>1. Stored(ns, p, deployed) = N
    BY <1>1 DEF Stored
  <2>2. \A i \in DOMAIN caches : caches[i] \in CacheRow
    BY DEF CachesKept, Caches
  <2>3. \A i \in DOMAIN caches :
          /\ N[i] \in CacheRow /\ N[i].ns = caches[i].ns
          /\ \A q \in Paths : N[i].holds[q] = IF caches[i].ns = ns /\ q = p THEN deployed
                                              ELSE caches[i].holds[q]
    BY <2>2, <1>0 DEF CacheRow
  <2>4. DOMAIN N = DOMAIN caches /\ DOMAIN caches = 1..Len(caches) /\ Len(caches) \in Nat
    BY DEF CachesKept, Caches
  <2>5. N \in Caches
    <3>1. \A i \in DOMAIN N : N[i] \in CacheRow
      BY <2>3, <2>4
    <3>2. N = [i \in 1..Len(caches) |-> N[i]]
      BY <2>4
    <3> HIDE DEF N
    <3> QED BY <3>1, <3>2, <2>4 DEF Caches
  <2>6. ASSUME NEW i \in DOMAIN caches PROVE Kept(N[i], deployed)
    <3>1. PICK m \in 1..deployed : /\ Version(m) = caches[i].ns
                                   /\ \A q \in Paths : caches[i].holds[q] = 0 \/ caches[i].holds[q] \in m..deployed
      BY DEF CachesKept, Kept
    <3>2. Version(m) = N[i].ns /\ \A q \in Paths : N[i].holds[q] = 0 \/ N[i].holds[q] \in m..deployed
      BY <3>1, <2>3, <1>0
    <3> HIDE DEF N
    <3> QED BY <3>2 DEF Kept
  <2> HIDE DEF N
  <2>7. \A i, j \in DOMAIN N : N[i].ns = N[j].ns => i = j
    BY <2>3, <2>4 DEF CachesKept
  <2>8. \E i \in DOMAIN N : N[i].ns = ns /\ N[i].holds[p] # 0
    BY <1>1, <2>3, <2>4, <1>0
  <2>9. \A i \in DOMAIN caches :
          /\ i \in DOMAIN N /\ N[i].ns = caches[i].ns
          /\ \A q \in Paths : caches[i].holds[q] # 0 => N[i].holds[q] # 0
    BY <2>3, <2>4, <1>0
  <2> QED BY <2>1, <2>4, <2>5, <2>6, <2>7, <2>8, <2>9 DEF StoredIn
<1>2. CASE ~ \E i \in DOMAIN caches : caches[i].ns = ns
  <2> DEFINE c == [ns |-> ns, holds |-> [q \in Paths |-> IF q = p THEN deployed ELSE 0]]
             N == Append(caches, c)
  <2>1. Stored(ns, p, deployed) = N
    BY <1>2 DEF Stored
  <2>2. /\ c \in CacheRow /\ c.ns = ns /\ c.holds[p] = deployed
        /\ \A q \in Paths : c.holds[q] = 0 \/ c.holds[q] \in r..deployed
    BY <1>0 DEF CacheRow
  <2>3. Kept(c, deployed)
    BY <2>2 DEF Kept
  <2> HIDE DEF c
  <2>4. caches \in Seq(CacheRow)
    BY DEF CachesKept, Caches
  <2>5. /\ N \in Caches /\ DOMAIN N = 1..Len(caches) + 1 /\ N[Len(caches) + 1] = c
        /\ \A i \in 1..Len(caches) : N[i] = caches[i]
        /\ DOMAIN caches = 1..Len(caches) /\ Len(caches) \in Nat
    BY <2>2, <2>4 DEF Caches
  <2> HIDE DEF N
  <2>6. \A i \in DOMAIN N : Kept(N[i], deployed)
    BY <2>3, <2>5 DEF CachesKept
  <2>7. \A i, j \in DOMAIN N : N[i].ns = N[j].ns => i = j
    BY <2>2, <2>5, <1>2 DEF CachesKept
  <2>8. \E i \in DOMAIN N : N[i].ns = ns /\ N[i].holds[p] # 0
    BY <2>2, <2>5, <1>0
  <2>9. \A i \in DOMAIN caches :
          /\ i \in DOMAIN N /\ N[i].ns = caches[i].ns
          /\ \A q \in Paths : caches[i].holds[q] # 0 => N[i].holds[q] # 0
    BY <2>5
  <2> QED BY <2>1, <2>5, <2>6, <2>7, <2>8, <2>9 DEF StoredIn
<1> QED BY <1>1, <1>2

\* A store leaves the cache of the active worker first and complete.
LEMMA StoreStep ==
  ASSUME CacheInv, NEW p \in Paths, NEW ns, StoredIn(ns, p, caches'),
         UNCHANGED <<deployed, active>>
  PROVE  /\ CachesKept' /\ ActiveFirst'
         /\ \A q \in Paths : \A n : (\E i \in DOMAIN caches : caches[i].ns = n /\ caches[i].holds[q] # 0)
              => \E i \in DOMAIN caches' : caches'[i].ns = n /\ caches'[i].holds[q] # 0
<1>1. CachesKept'
  BY DEF StoredIn, CachesKept, Caches, CacheRow, Digests, Version, Kept
<1>2. ActiveFirst'
  <2>1. active # NoNamespace => 1 \in DOMAIN caches /\ caches \in Seq(CacheRow)
    BY DEF CacheInv, ActiveFirst, CachesKept, Caches
  <2> QED BY <2>1 DEF CacheInv, ActiveFirst, StoredIn
<1>3. \A q \in Paths : \A n : (\E i \in DOMAIN caches : caches[i].ns = n /\ caches[i].holds[q] # 0)
        => \E i \in DOMAIN caches' : caches'[i].ns = n /\ caches'[i].holds[q] # 0
  BY DEF StoredIn
<1> QED BY <1>1, <1>2, <1>3

\* The caches, whatever is deployed, fetched, stored and activated.
LEMMA CachesStayKept ==
  ASSUME CacheInv, [ReleaseNext]_releaseVars
  PROVE  CacheInv'
<1>0. Releases \in Nat /\ deployed \in 1..Releases /\ deployed \in Nat
  BY ReleaseAssumption DEF CacheInv
<1>1. CASE Deploy
  <2>1. \A c : Kept(c, deployed) => Kept(c, deployed')
    BY <1>0, <1>1 DEF Deploy, Kept, Version
  <2>2. CachesKept'
    BY <1>1, <2>1 DEF CacheInv, CachesKept, Deploy, Caches, CacheRow, Digests, Version
  <2>3. InstallKept'
    BY <1>0, <1>1 DEF CacheInv, InstallKept, Deploy, Digests, Version
  <2> QED BY <1>0, <1>1, <2>2, <2>3 DEF CacheInv, ActiveFirst, Deploy
<1>2. CASE CheckForUpdate
  <2>1. install' = [ns |-> Version(deployed), todo |-> Paths]
    BY <1>2 DEF CheckForUpdate
  <2>2. InstallKept'
    BY <1>0, <1>2, <2>1 DEF InstallKept, CheckForUpdate, Digests, Version
  <2> QED BY <1>2, <2>2 DEF CacheInv, CheckForUpdate, CachesKept, Caches, CacheRow, Digests, Version, Kept, ActiveFirst
<1>3. ASSUME NEW p \in Paths, Precache(p) PROVE CacheInv'
  <2>1. install # NoInstall /\ UNCHANGED <<deployed, active>>
    BY <1>3 DEF Precache, NoInstall
  <2>2. PICK r \in 1..deployed : Version(r) = install.ns
    BY <2>1 DEF CacheInv, InstallKept
  <2>3. StoredIn(install.ns, p, caches')
    BY <1>0, <1>3, <2>2, StoredKeeps DEF Precache, CacheInv
  <2>4. /\ CachesKept' /\ ActiveFirst'
        /\ \A q \in Paths : \A n : (\E i \in DOMAIN caches : caches[i].ns = n /\ caches[i].holds[q] # 0)
             => \E i \in DOMAIN caches' : caches'[i].ns = n /\ caches'[i].holds[q] # 0
    BY <2>1, <2>3, StoreStep
  <2>5. install' = [install EXCEPT !.todo = @ \ {p}]
    BY <1>3 DEF Precache
  <2>6. install \in [ns : Digests \cup {NoNamespace}, todo : SUBSET Paths]
    BY DEF CacheInv, InstallKept
  <2>7. /\ install'.ns = install.ns /\ install'.todo = install.todo \ {p}
        /\ install' \in [ns : Digests \cup {NoNamespace}, todo : SUBSET Paths]
    BY <2>5, <2>6
  <2>8. \E i \in DOMAIN caches' : caches'[i].ns = install.ns /\ caches'[i].holds[p] # 0
    BY <2>3 DEF StoredIn
  <2>9. \A q \in Paths \ install'.todo :
          \E i \in DOMAIN caches' : caches'[i].ns = install'.ns /\ caches'[i].holds[q] # 0
    <3> SUFFICES ASSUME NEW q \in Paths, q \notin install'.todo
                 PROVE  \E i \in DOMAIN caches' : caches'[i].ns = install.ns /\ caches'[i].holds[q] # 0
      BY <2>7
    <3>1. CASE q = p
      BY <3>1, <2>8
    <3>2. CASE q # p
      <4>1. q \in Paths \ install.todo
        BY <3>2, <2>7
      <4>2. \E i \in DOMAIN caches : caches[i].ns = install.ns /\ caches[i].holds[q] # 0
        BY <4>1, <2>1 DEF CacheInv, InstallKept
      <4> QED BY <4>2, <2>4
    <3> QED BY <3>1, <3>2
  <2>10. InstallKept'
    BY <2>1, <2>2, <2>7, <2>9 DEF InstallKept, Digests, Version
  <2> QED BY <1>0, <2>1, <2>4, <2>10 DEF CacheInv
<1>4. CASE InstallFails
  <2>1. InstallKept'
    BY <1>4 DEF InstallFails, InstallKept, NoInstall, Digests, Version
  <2> QED BY <1>4, <2>1 DEF CacheInv, InstallFails, CachesKept, Caches, CacheRow, Digests, Version, Kept, ActiveFirst
<1>5. CASE Activate
  <2>1. PICK i \in DOMAIN caches : caches[i].ns = install.ns /\ caches' = <<caches[i]>>
    BY <1>5 DEF Activate
  <2>2. /\ install # NoInstall /\ install.todo = {} /\ active' = install.ns /\ install' = NoInstall
        /\ deployed' = deployed
    BY <1>5 DEF Activate
  <2>3. caches[i] \in CacheRow /\ Kept(caches[i], deployed)
    BY DEF CacheInv, CachesKept, Caches
  <2> DEFINE c == caches[i]
  <2>4. \A p \in Paths : c.holds[p] # 0
    BY <2>1, <2>2 DEF CacheInv, InstallKept, CachesKept
  <2> HIDE DEF c
  <2>5. caches' = <<c>> /\ c \in CacheRow /\ Kept(c, deployed) /\ c.ns = install.ns
    BY <2>1, <2>3 DEF c
  <2>6. /\ caches' \in Seq(CacheRow) /\ DOMAIN caches' = {1} /\ caches'[1] = c
        /\ caches' # <<>>
    BY <2>5
  <2>7. Kept(caches'[1], deployed')
    BY <2>2, <2>5, <2>6 DEF Kept, Version
  <2>8. CachesKept'
    BY <2>6, <2>7 DEF CachesKept, Caches, CacheRow, Digests, Version
  <2>9. ActiveFirst'
    BY <2>2, <2>4, <2>5, <2>6 DEF ActiveFirst
  <2>10. InstallKept'
    BY <2>2 DEF InstallKept, NoInstall, Digests, Version
  <2> QED BY <1>0, <2>2, <2>8, <2>9, <2>10 DEF CacheInv
<1>6. ASSUME UNCHANGED <<deployed, caches, active, install>> PROVE CacheInv'
  BY <1>6 DEF CacheInv, CachesKept, Caches, CacheRow, Digests, Version, Kept, InstallKept, ActiveFirst
<1>7. ASSUME NEW t \in Tabs, LoadManifest(t) \/ LoadCore(t) \/ LoadTimesOut(t) PROVE CacheInv'
  <2>1. Refilled("manifest") = caches /\ Refilled("core") = caches
    BY NothingRefilled DEF Paths
  <2> QED BY <1>6, <1>7, <2>1 DEF LoadManifest, LoadCore, LoadTimesOut
<1>8. ASSUME NEW t \in Tabs, NEW online \in BOOLEAN, Navigate(t, online) PROVE CacheInv'
  <2>1. UNCHANGED <<deployed, active, install>>
    BY <1>8 DEF Navigate
  <2>2. CASE caches' = caches
    BY <1>6, <2>1, <2>2
  <2>3. CASE caches' # caches
    <3>1. active # NoNamespace /\ caches' = Stored(active, "shell", deployed)
      BY <1>8, <2>3 DEF Navigate
    <3>2. PICK r \in 1..deployed : Version(r) = active
      <4>1. 1 \in DOMAIN caches /\ caches[1].ns = active
        BY <3>1 DEF CacheInv, ActiveFirst, CachesKept, Caches
      <4> QED BY <4>1 DEF CacheInv, CachesKept, Kept
    <3>3. "shell" \in Paths
      BY DEF Paths
    <3>4. StoredIn(active, "shell", caches')
      BY <1>0, <3>1, <3>2, <3>3, StoredKeeps DEF CacheInv
    <3>5. /\ CachesKept' /\ ActiveFirst'
          /\ \A q \in Paths : \A n : (\E i \in DOMAIN caches : caches[i].ns = n /\ caches[i].holds[q] # 0)
               => \E i \in DOMAIN caches' : caches'[i].ns = n /\ caches'[i].holds[q] # 0
      BY <2>1, <3>3, <3>4, StoreStep
    <3>6. InstallKept'
      BY <2>1, <3>5 DEF CacheInv, InstallKept, Digests, Version
    <3> QED BY <1>0, <2>1, <3>5, <3>6 DEF CacheInv
  <2> QED BY <2>2, <2>3
<1> QED BY <1>1, <1>2, <1>3, <1>4, <1>5, <1>6, <1>7, <1>8 DEF ReleaseNext, releaseVars

\* Whatever is deployed, fetched, stored and activated in whatever order, and
\* whichever installations and bootstraps are cut off: an active worker can start
\* the application alone, the worker of the current release serves nothing of a
\* prior one unless a release was rolled back, and a page runs the modules its
\* manifest names (sw.js, verifyComponentArtifact).
THEOREM ReleaseStaysCoherent == ReleaseSpec => []ReleaseCoherent
<1> DEFINE Inv == CacheInv /\ PagesTyped /\ ModulesMatchManifest
<1>1. ReleaseInit => Inv
  <2> SUFFICES ASSUME ReleaseInit PROVE Inv
    OBVIOUS
  <2>1. NoPage \in Pages({0, "none"}) /\ NoPage.rt = "none"
    BY DEF NoPage, Pages
  <2>2. IsPage(NoPage)
    BY <2>1 DEF IsPage
  <2>3. PagesTyped /\ ModulesMatchManifest
    BY <2>1, <2>2 DEF ReleaseInit, PagesTyped, ModulesMatchManifest
  <2>4. caches = <<>> /\ DOMAIN caches = {} /\ caches \in Caches
    BY DEF ReleaseInit, Caches
  <2>5. CacheInv
    BY <2>4, ReleaseAssumption
       DEF ReleaseInit, CacheInv, CachesKept, InstallKept, ActiveFirst, NoInstall
  <2> QED BY <2>3, <2>5
<1>2. ASSUME Inv, [ReleaseNext]_releaseVars PROVE Inv'
  BY <1>2, PagesStayMatched, CachesStayKept
<1>3. ASSUME Inv PROVE ReleaseCoherent
  <2>1. OfflineReady
    BY <1>3, NothingRefilled DEF OfflineReady
  <2>2. StableUrlsCurrent
    <3> SUFFICES ASSUME active = Version(deployed), ~RolledBack, NEW p \in Paths
                 PROVE  Version(Lookup(p)) = Version(deployed)
      BY DEF StableUrlsCurrent
    <3>1. active # NoNamespace
      BY DEF Version, NoNamespace
    <3>2. /\ Lookup(p) = caches[1].holds[p] /\ caches[1].holds[p] # 0
          /\ 1 \in DOMAIN caches /\ caches[1].ns = active
      BY <1>3, <3>1, OldestAnswers DEF CacheInv, CachesKept, ActiveFirst, Caches
    <3>3. PICK r \in 1..deployed : /\ Version(r) = caches[1].ns
                                   /\ caches[1].holds[p] = 0 \/ caches[1].holds[p] \in r..deployed
      BY <1>3, <3>2 DEF CacheInv, CachesKept, Kept
    <3>4. Version(r) = Version(deployed) /\ Lookup(p) \in r..deployed
      BY <3>2, <3>3
    <3> QED BY <3>4 DEF RolledBack
  <2> QED BY <1>3, <2>1, <2>2 DEF ReleaseCoherent
<1> QED BY <1>1, <1>2, <1>3, PTL DEF ReleaseSpec

-----------------------------------------------------------------------------
(* The bytes of an asset.                                                    *)

Removing == {"begin", "linked", "unlink", "unlinked"}

RequestState ==
    [kind : {"none", "upload", "purge"}, doc : Docs \cup {"none"},
     at : {"idle", "begin", "gate", "reclaim", "check", "put", "tx", "recheck", "remove", "done"}]
WorkerState ==
    [safety : BOOLEAN, state : {"active", "cancelled", "committed"},
     at : Removing \cup {"none", "exists", "link", "verify", "ok", "failed", "restore", "committed", "ended"}]

BackupState ==
    [at : {"idle", "snapshot", "copy", "publish", "failed"}, guard : BOOLEAN, named : BOOLEAN]

Typed ==
    /\ request \in [Requests -> RequestState] /\ worker \in [Requests -> WorkerState]
    /\ backup \in BackupState
    /\ residue \in Nat /\ canonical \in BOOLEAN /\ up \in BOOLEAN

\* A worker is where its request sent it.  A removal has its link from the
\* moment it makes it to the end, and goes on by itself only if cancelled.
Outlived(q, w) ==
    /\ w.safety <=> w.at \in {"linked", "unlink", "unlinked", "restore", "committed"}
    /\ q.at \notin {"put", "remove", "done"} => w.at = "none"
    /\ q.at = "put" => w.at \in {"exists", "link", "verify", "ok", "failed"}
    /\ w.at \in Removing => w.state = "cancelled" \/ (w.state = "active" /\ q.at = "remove")
    /\ w.at = "restore" => w.state = "cancelled"

WorkersKnown == \A r \in Requests : Outlived(request[r], worker[r])

\* content_guard excludes, and bytes are removed only while no document refers
\* to them: the guard is held from the check to the exchange.
ContentAlone ==
    /\ \A r, s \in Requests : Content(r) /\ Content(s) => r = s
    /\ \A r \in Requests : At(r, "remove") => refs = {}

\* A removal that lost the exchange, or will, and puts the bytes back.
Restoring(w) == w.at \in {"unlinked", "restore"} /\ w.state = "cancelled"

\* The bytes are in place, left for the sweep, or about to be put back.
Restorable == canonical \/ residue > 0 \/ \E r \in Requests : Restoring(worker[r])

\* The put of a request is over and its rows may be written.
PutDone(q, w) == q.at = "tx" \/ (q.at = "put" /\ w.at = "ok")

\* What a transaction is about to refer to, or refers to, is restorable.
ReferencedRestorable ==
    /\ refs # {} => Restorable
    /\ \A r \in Requests : PutDone(request[r], worker[r]) => Restorable

\* Nothing is under way while the directory is swept.
SweepsAlone == ~up => \A r \in Requests : request[r].at \in {"idle", "done"}

\* A backup excludes what changes rows, so its snapshot stays true.
BackupAlone ==
    backup.guard => /\ \A r \in Requests : ~Shared(r)
                    /\ backup.at = "copy" /\ backup.named => refs # {}

Inv ==
    /\ Typed /\ WorkersKnown /\ ContentAlone /\ ReferencedRestorable /\ SweepsAlone /\ BackupAlone

-----------------------------------------------------------------------------
(* Steps of one request or its worker. *)

ContentSteps == {"check", "put", "tx", "recheck", "remove"}
Unshared == {"idle", "begin", "done"}

\* What such a step may do: r enters a guard only when it is free, makes bytes
\* known only under the content guard, and takes them away only if nobody
\* refers to them or if it will put them back.
Moves(r) ==
    LET q == request'[r]
        w == worker'[r]
    IN  /\ request' = [request EXCEPT ![r] = q] /\ q \in RequestState
        /\ worker' = [worker EXCEPT ![r] = w] /\ w \in WorkerState
        /\ UNCHANGED <<backup, up>> /\ Outlived(q, w)
        /\ up \/ q.at \in {"idle", "done"} \/ Shared(r)
        /\ q.at \in Unshared \/ Shared(r) \/ SharedFree
        /\ q.at \notin ContentSteps \/ Content(r) \/ ContentFree
        /\ q.at = "remove" => refs' = {}
        /\ refs' = refs \/ Shared(r)
        /\ refs' # {} => refs # {} \/ At(r, "tx")
        /\ PutDone(q, w) => PutDone(request[r], worker[r]) \/ canonical'
        /\ canonical' \in BOOLEAN /\ residue' \in Nat /\ residue' >= residue
        /\ canonical => canonical' \/ Restoring(w) \/ (Content(r) /\ refs' = {} /\ ~PutDone(q, w))
        /\ Restoring(worker[r]) => Restoring(w) \/ canonical' \/ residue' > 0

LEMMA MovesKeepInv == ASSUME Inv, NEW r \in Requests, Moves(r) PROVE Inv'
<1> DEFINE q == request'[r]
           w == worker'[r]
<1>1. /\ \A s \in Requests : s # r => request'[s] = request[s] /\ worker'[s] = worker[s]
      /\ q \in RequestState /\ w \in WorkerState /\ UNCHANGED <<backup, up>>
    BY DEF Moves, Inv, Typed
<1>2. Typed'
    BY <1>1 DEF Moves, Inv, Typed
<1>3. WorkersKnown'
    BY <1>1 DEF Moves, Inv, WorkersKnown
<1>4. ContentAlone'
    <2>1. \A s \in Requests : s # r => (Content(s)' <=> Content(s)) /\ (At(s, "remove")' <=> At(s, "remove"))
        BY <1>1 DEF Content, At
    <2>2. Content(r)' <=> q.at \in ContentSteps
        BY DEF Content, ContentSteps
    <2>3. ASSUME NEW s \in Requests, s # r, Content(s) PROVE q.at \notin ContentSteps
        BY <2>3 DEF Moves, Inv, ContentAlone, ContentFree
    <2>4. ASSUME NEW s \in Requests, s # r, At(s, "remove") PROVE refs' = {}
        <3>1. refs = {} /\ Content(s)
            BY <2>4 DEF Inv, ContentAlone, Content, At
        <3>2. ~At(r, "tx")
            BY <2>4, <3>1 DEF Inv, ContentAlone, Content, At
        <3> QED BY <3>1, <3>2 DEF Moves
    <2> QED BY <2>1, <2>2, <2>3, <2>4 DEF Moves, Inv, ContentAlone, At
<1>5. ReferencedRestorable'
    <2>1. Restorable => Restorable' \/ (Content(r) /\ refs' = {} /\ ~PutDone(q, w))
        BY <1>1 DEF Moves, Restorable, Inv, Typed
    <2>2. ASSUME NEW s \in Requests, s # r, PutDone(request[s], worker[s]) PROVE Restorable'
        <3>1. Content(s)
            BY <2>2 DEF PutDone, Content
        <3> QED BY <2>1, <2>2, <3>1 DEF Inv, ContentAlone, ReferencedRestorable
    <2>3. PutDone(q, w) => Restorable'
        BY <2>1 DEF Moves, Inv, ReferencedRestorable, Restorable
    <2>4. refs' # {} => Restorable'
        BY <2>1 DEF Moves, Inv, ReferencedRestorable, PutDone, At
    <2> QED BY <1>1, <2>2, <2>3, <2>4 DEF ReferencedRestorable
<1>6. SweepsAlone'
    BY <1>1 DEF Moves, Inv, SweepsAlone, Shared
<1>7. BackupAlone'
    BY <1>1 DEF Moves, Inv, BackupAlone, Shared, SharedFree, Unshared
<1> QED BY <1>2, <1>3, <1>4, <1>5, <1>6, <1>7 DEF Inv

\* What is known of a request and its worker.
Situation(r) ==
    /\ request[r] \in RequestState /\ worker[r] \in WorkerState
    /\ Outlived(request[r], worker[r])
    /\ residue \in Nat /\ residue >= residue /\ canonical \in BOOLEAN
    /\ At(r, "remove") => refs = {}
    /\ Shared(r) => up
    /\ UNCHANGED request => request' = [request EXCEPT ![r] = request'[r]]
    /\ UNCHANGED worker => worker' = [worker EXCEPT ![r] = worker'[r]]

LEMMA Situated == ASSUME Inv, NEW r \in Requests PROVE Situation(r)
    BY DEF Inv, Typed, WorkersKnown, ContentAlone, SweepsAlone, Shared, Situation

\* The worker of r alone changes, to a state with these fields.
Becomes(r, pc, state, safety) ==
    /\ worker' = [worker EXCEPT ![r] = worker'[r]] /\ worker'[r] \in WorkerState
    /\ worker'[r].at = pc /\ worker'[r].state = state /\ worker'[r].safety = safety

\* A request goes to its next step.
LEMMA GoesTo ==
    ASSUME Inv, NEW r \in Requests, NEW pc, Goto(r, pc),
           pc \in {"idle", "begin", "gate", "reclaim", "check", "put", "tx", "recheck", "remove", "done"}
    PROVE  /\ request' = [request EXCEPT ![r] = request'[r]]
           /\ request'[r] \in RequestState /\ request'[r].at = pc
    BY DEF Inv, Typed, Goto, RequestState

\* A worker goes to its next step.
LEMMA StepsTo ==
    ASSUME Inv, NEW r \in Requests, NEW pc, Step(r, pc),
           pc \in Removing \cup {"none", "exists", "link", "verify", "ok", "failed", "restore",
                                "committed", "ended"}
    PROVE  Becomes(r, pc, worker[r].state, worker[r].safety)
    BY DEF Inv, Typed, Step, WorkerState, Becomes

-----------------------------------------------------------------------------
USE DEF files, At, Removing

\* Requests on their way to the bytes.
LEMMA RequestSteps ==
    ASSUME Inv, NEW r \in Requests,
           \/ \E d \in Docs : \E k \in {"upload", "purge"} : Begin(r, d, k)
           \/ Enter(r) \/ Purge(r) \/ Reclaim(r) \/ Upload(r)
    PROVE  Inv'
<1> SUFFICES Moves(r)
    BY MovesKeepInv
<1> Situation(r)
    BY Situated
<1> USE DEF Becomes, Situation, Moves, Outlived, Restoring, PutDone, Content, ContentSteps, Shared, Unshared
<1>1. ASSUME NEW d \in Docs, NEW k \in {"upload", "purge"}, Begin(r, d, k) PROVE Moves(r)
    <2>1. /\ request' = [request EXCEPT ![r] = request'[r]]
          /\ request'[r] \in RequestState /\ request'[r].at = "begin"
        BY <1>1 DEF Begin, Inv, Typed, RequestState
    <2> QED BY <1>1, <2>1 DEF Begin
<1>2. CASE Enter(r)
    BY <1>2, GoesTo DEF Enter
<1>3. CASE Purge(r)
    BY <1>3, GoesTo DEF Purge
<1>4. CASE Reclaim(r)
    BY <1>4, GoesTo DEF Reclaim
<1>5. CASE Upload(r)
    BY <1>5, GoesTo DEF Upload
<1> QED BY <1>1, <1>2, <1>3, <1>4, <1>5

\* Requests under the content guard, and their end.
LEMMA GuardedSteps ==
    ASSUME Inv, NEW r \in Requests,
           Check(r) \/ PutEnds(r) \/ Insert(r) \/ Recheck(r) \/ RemoveEnds(r) \/ Drop(r)
    PROVE  Inv'
<1> SUFFICES Moves(r)
    BY MovesKeepInv
<1> Situation(r)
    BY Situated
<1> USE DEF Becomes, Situation, Moves, Outlived, Restoring, PutDone, Content, ContentSteps, Shared, Unshared
<1>1. CASE Check(r)
    <2>1. CASE doc[request[r].doc] = "live" /\ request[r].doc \notin refs
        <3>1. worker' = [worker EXCEPT ![r] = [at |-> "exists", state |-> "active", safety |-> FALSE]]
            BY <1>1, <2>1 DEF Check, NoWorker
        <3>2. Becomes(r, "exists", "active", FALSE)
            BY <3>1 DEF Inv, Typed, WorkerState
        <3> QED BY <1>1, <2>1, <3>2, GoesTo DEF Check
    <2>2. CASE ~(doc[request[r].doc] = "live" /\ request[r].doc \notin refs)
        BY <1>1, <2>2, GoesTo DEF Check
    <2> QED BY <2>1, <2>2
<1>2. CASE PutEnds(r)
    BY <1>2, GoesTo, StepsTo DEF PutEnds
<1>3. CASE Insert(r)
    BY <1>3, GoesTo DEF Insert
<1>4. CASE Recheck(r)
    <2>1. CASE refs = {}
        <3>1. worker' = [worker EXCEPT ![r] = [at |-> "begin", state |-> "active", safety |-> FALSE]]
            BY <1>4, <2>1 DEF Recheck, NoWorker
        <3>2. Becomes(r, "begin", "active", FALSE)
            BY <3>1 DEF Inv, Typed, WorkerState
        <3> QED BY <1>4, <2>1, <3>2, GoesTo DEF Recheck
    <2>2. CASE refs # {}
        BY <1>4, <2>2, GoesTo DEF Recheck
    <2> QED BY <2>1, <2>2
<1>5. CASE RemoveEnds(r)
    BY <1>5, GoesTo, StepsTo DEF RemoveEnds
<1>6. CASE Drop(r)
    <2>1. CASE At(r, "remove") /\ worker[r].state = "active"
        <3>1. Becomes(r, worker[r].at, "cancelled", worker[r].safety)
            BY <1>6, <2>1 DEF Drop, Inv, Typed, WorkerState
        <3> QED BY <1>6, <2>1, <3>1, GoesTo DEF Drop
    <2>2. CASE ~(At(r, "remove") /\ worker[r].state = "active")
        BY <1>6, <2>2, GoesTo DEF Drop
    <2> QED BY <2>1, <2>2
<1> QED BY <1>1, <1>2, <1>3, <1>4, <1>5, <1>6

\* The blocking workers.
LEMMA WorkerSteps ==
    ASSUME Inv, NEW r \in Requests,
           \/ Put(r) \/ Safety(r) \/ Cancelled(r) \/ Unlink(r) \/ Commit(r)
           \/ Restore(r) \/ RestoreFails(r) \/ Discard(r)
    PROVE  Inv'
<1> SUFFICES Moves(r)
    BY MovesKeepInv
<1> Situation(r)
    BY Situated
<1> USE DEF Becomes, Situation, Moves, Outlived, Restoring, PutDone, Content, ContentSteps, Shared, Unshared
<1>1. CASE Put(r)
    <2>1. CASE worker[r].at = "exists"
        BY <1>1, <2>1, StepsTo DEF Put
    <2>2. CASE worker[r].at = "link"
        <3>1. \/ Step(r, "verify") /\ canonical /\ canonical'
              \/ Step(r, "ok") /\ canonical'
              \/ Step(r, "failed") /\ canonical' = canonical
            BY <1>1, <2>2 DEF Put
        <3>2. UNCHANGED <<refs, residue, request, backup, up>>
            BY <1>1 DEF Put
        <3>3. ASSUME Step(r, "verify"), canonical' PROVE Moves(r)
            BY <2>2, <3>2, <3>3, StepsTo
        <3>4. ASSUME Step(r, "ok"), canonical' PROVE Moves(r)
            <4>1. Becomes(r, "ok", worker[r].state, worker[r].safety)
                BY <3>4, StepsTo
            <4> QED BY <2>2, <3>2, <3>4, <4>1
        <3>5. ASSUME Step(r, "failed"), canonical' = canonical PROVE Moves(r)
            BY <2>2, <3>2, <3>5, StepsTo
        <3> QED BY <3>1, <3>3, <3>4, <3>5
    <2>3. CASE worker[r].at = "verify"
        BY <1>1, <2>3, StepsTo DEF Put
    <2> QED BY <1>1, <2>1, <2>2, <2>3 DEF Put
<1>2. CASE Safety(r)
    <2>1. IF worker[r].state = "cancelled" \/ ~canonical
          THEN Becomes(r, "ended", worker[r].state, worker[r].safety)
          ELSE Becomes(r, "linked", worker[r].state, TRUE)
        BY <1>2 DEF Safety, Inv, Typed, WorkerState
    <2> QED BY <1>2, <2>1 DEF Safety
<1>3. CASE Cancelled(r)
    <2>1. IF worker[r].state = "cancelled"
          THEN Becomes(r, "ended", worker[r].state, FALSE)
          ELSE Becomes(r, "unlink", worker[r].state, worker[r].safety)
        BY <1>3 DEF Cancelled, Inv, Typed, WorkerState
    <2> QED BY <1>3, <2>1 DEF Cancelled
<1>4. CASE Unlink(r)
    BY <1>4, StepsTo DEF Unlink
<1>5. CASE Commit(r)
    <2>1. IF worker[r].state = "active"
          THEN Becomes(r, "committed", "committed", worker[r].safety)
          ELSE Becomes(r, "restore", worker[r].state, worker[r].safety)
        BY <1>5 DEF Commit, Inv, Typed, WorkerState
    <2> QED BY <1>5, <2>1 DEF Commit
<1>6. CASE Restore(r)
    BY <1>6, StepsTo DEF Restore
<1>7. CASE RestoreFails(r)
    <2>1. Becomes(r, "ended", worker[r].state, FALSE)
        BY <1>7 DEF RestoreFails, Inv, Typed, WorkerState
    <2> QED BY <1>7, <2>1 DEF RestoreFails
<1>8. CASE Discard(r)
    <2>1. Becomes(r, "ended", worker[r].state, FALSE)
        BY <1>8 DEF Discard, Inv, Typed, WorkerState
    <2> QED BY <1>8, <2>1 DEF Discard
<1> QED BY <1>1, <1>2, <1>3, <1>4, <1>5, <1>6, <1>7, <1>8

-----------------------------------------------------------------------------
(* A crash, and steps that concern no request. *)

\* A crash leaves every private link for the sweep.
LEMMA CrashStep == ASSUME Inv, Crash PROVE Inv'
<1> DEFINE links == {r \in Requests : worker[r].safety}
<1>1. IsFiniteSet(links)
    BY AssetStoreAssumption, FS_Subset
<1>2. Cardinality(links) \in Nat /\ (links # {} => Cardinality(links) # 0)
    BY <1>1, FS_CardinalityType, FS_EmptySet
<1>3. residue' = residue + Cardinality(links) /\ residue \in Nat
    BY DEF Crash, Inv, Typed
<1>4. residue' \in Nat /\ (residue > 0 \/ links # {} => residue' > 0)
    BY <1>2, <1>3
<1>5. Restorable => Restorable'
    <2>1. CASE canonical
        BY <2>1 DEF Restorable, Crash
    <2>2. CASE residue > 0
        BY <1>4, <2>2 DEF Restorable
    <2>3. ASSUME NEW r \in Requests, Restoring(worker[r]) PROVE Restorable'
        <3>1. r \in links
            BY <2>3 DEF Restoring, Inv, WorkersKnown, Outlived
        <3> QED BY <1>4, <3>1 DEF Restorable
    <2> QED BY <2>1, <2>2, <2>3 DEF Restorable
<1>6. ASSUME NEW r \in Requests
      PROVE  /\ request'[r] \in RequestState /\ request'[r].at \in {"idle", "done"}
             /\ (request'[r].at = "idle" => request[r].at = "idle")
             /\ worker'[r] = NoWorker
    BY DEF Crash, Inv, Typed, RequestState
<1>7. Typed'
    <2>1. request' \in [Requests -> RequestState]
        BY <1>6 DEF Crash
    <2>2. worker' \in [Requests -> WorkerState]
        BY DEF Crash, NoWorker, WorkerState
    <2> QED BY <1>4, <2>1, <2>2 DEF Crash, NoBackup, BackupState, Inv, Typed
<1>8. WorkersKnown' /\ SweepsAlone' /\ BackupAlone'
    BY <1>6 DEF WorkersKnown, SweepsAlone, BackupAlone, Outlived, NoWorker, NoBackup, Crash
<1>9. ContentAlone' /\ ReferencedRestorable'
    BY <1>5, <1>6 DEF ContentAlone, Content, PutDone, Inv, ReferencedRestorable, Crash
<1> QED BY <1>7, <1>8, <1>9 DEF Inv

\* Backups, exports, the sweep, and what users do to documents.
LEMMA OtherSteps ==
    ASSUME Inv, \/ \E d \in Docs : Trash(d) \/ Expire(d) \/ BundleBegins(d)
                \/ BackupBegins \/ Snapshot \/ Copy \/ BackupTimesOut \/ BackupEnds
                \/ BundleVerified \/ BundleStreams \/ BundleEnds \/ SweepSafety \/ SweepEnds
    PROVE  Inv'
<1>1. CASE SweepSafety \/ SweepEnds
    <2>1. /\ canonical' \in BOOLEAN /\ residue' \in Nat /\ up' \in BOOLEAN
          /\ UNCHANGED <<refs, request, worker, backup>> /\ ~up
          /\ Restorable /\ refs # {} => Restorable'
        <3>1. CASE SweepSafety
            <4>1. residue > 0 /\ residue \in Nat /\ residue' = residue - 1
                BY <3>1 DEF SweepSafety, Inv, Typed
            <4>2. residue' \in Nat
                BY <4>1
            <4> QED BY <3>1, <4>2 DEF SweepSafety, Inv, Typed, Restorable
        <3>2. CASE SweepEnds
            <4>1. residue' = residue /\ residue = 0 /\ worker' = worker
                BY <3>2 DEF SweepEnds
            <4>2. Restorable /\ refs # {} => Restorable'
                BY <3>2, <4>1 DEF SweepEnds, Restorable
            <4> QED BY <3>2, <4>1, <4>2 DEF SweepEnds
        <3> QED BY <1>1, <3>1, <3>2
    <2>2. \A r \in Requests : ~PutDone(request[r], worker[r])
        BY <2>1 DEF Inv, SweepsAlone, PutDone
    <2> QED BY <2>1, <2>2 DEF Inv, Typed, WorkersKnown, ContentAlone, Content, ReferencedRestorable,
               SweepsAlone, BackupAlone, Shared
<1>2. CASE UNCHANGED <<refs, canonical, residue, request, worker, up>>
    <2>1. /\ WorkersKnown' /\ ContentAlone' /\ ReferencedRestorable' /\ SweepsAlone'
          /\ Typed /\ BackupAlone
        BY <1>2 DEF Inv, WorkersKnown, ContentAlone, Content, ReferencedRestorable, Restorable,
               SweepsAlone
    <2>2. CASE backup' = backup
        BY <1>2, <2>1, <2>2 DEF Inv, Typed, BackupAlone, Shared
    <2>3. CASE BackupBegins
        BY <1>2, <2>1, <2>3 DEF BackupBegins, ExclusiveFree, Inv, Typed, BackupState, BackupAlone, Shared
    <2>4. CASE Snapshot \/ Copy \/ BackupTimesOut \/ BackupEnds
        <3>1. /\ backup' \in BackupState /\ (backup'.guard => backup.guard)
              /\ backup'.guard /\ backup'.at = "copy" /\ backup'.named => refs # {}
            <4>1. backup \in BackupState
                BY <2>1 DEF Typed
            <4>2. CASE Snapshot
                BY <4>1, <4>2 DEF Snapshot, BackupState
            <4>3. CASE Copy \/ BackupTimesOut
                BY <2>1, <4>1, <4>3 DEF Copy, BackupTimesOut, BackupState, BackupAlone
            <4>4. CASE BackupEnds
                BY <4>4 DEF BackupEnds, NoBackup, BackupState
            <4> QED BY <2>4, <4>2, <4>3, <4>4
        <3> QED BY <1>2, <2>1, <3>1 DEF Inv, Typed, BackupAlone, Shared
    <2> QED BY <2>2, <2>3, <2>4
           DEF Trash, Expire, BundleBegins, BundleVerified, BundleStreams, BundleEnds, SweepSafety,
               SweepEnds
<1> QED BY <1>1, <1>2
        DEF Trash, Expire, BundleBegins, BackupBegins, Snapshot, Copy, BackupTimesOut, BackupEnds,
            BundleVerified, BundleStreams, BundleEnds

\* The strengthened invariant holds in every reachable state.
LEMMA InvHolds == Spec => []Inv
<1>1. Init => Inv
    <2>1. ASSUME Init PROVE Typed
        <3>1. NoRequest \in RequestState /\ NoWorker \in WorkerState
            BY DEF NoRequest, NoWorker, RequestState, WorkerState
        <3> QED BY <2>1, <3>1 DEF Init, Typed, NoBackup, BackupState
    <2>2. ASSUME Init PROVE WorkersKnown /\ ContentAlone
        BY <2>2 DEF Init, NoRequest, NoWorker, WorkersKnown, Outlived, ContentAlone, Content
    <2>3. ASSUME Init PROVE ReferencedRestorable /\ SweepsAlone /\ BackupAlone
        BY <2>3 DEF Init, NoRequest, NoBackup, ReferencedRestorable, PutDone, SweepsAlone, BackupAlone
    <2> QED BY <2>1, <2>2, <2>3 DEF Inv
<1>2. Inv /\ [Next]_vars => Inv'
    <2>1. ASSUME Inv, UNCHANGED vars PROVE Inv'
        BY <2>1 DEF vars, Inv, Typed, WorkersKnown, ContentAlone, Content, ReferencedRestorable,
               Restorable, SweepsAlone, BackupAlone, Shared
    <2> QED BY <2>1, RequestSteps, GuardedSteps, WorkerSteps, CrashStep, OtherSteps DEF Next
<1> QED BY <1>1, <1>2, PTL DEF Spec

-----------------------------------------------------------------------------
\* However uploads, purges, deadlines, blocking workers, faults and crashes
\* interleave, bytes that a row names exist or have a link they come back from.
THEOREM BytesStayRecoverable == Spec => []ReferencedRecoverable
<1>1. Inv => ReferencedRecoverable
    BY DEF Inv, ReferencedRecoverable, ReferencedRestorable, Restorable, Restoring, WorkersKnown, Outlived
<1> QED BY <1>1, InvHolds, PTL

\* A backup that has its guard finds the bytes its snapshot names, or a
\* cancelled removal is about to put them back.
THEOREM BackupsFindBytes == Spec => []BackupFindsBytes
<1>1. Inv => BackupFindsBytes
    BY DEF Inv, BackupFindsBytes, BackupAlone, ReferencedRestorable, Restorable, Restoring,
           WorkersKnown, Outlived
<1> QED BY <1>1, InvHolds, PTL

-----------------------------------------------------------------------------
(* The checks of a change.                                                   *)

Profiles == {"none", "docs", "infra", "webUnit", "webChromium", "serverChromium", "full"}
Checks == {"rust", "web", "harness", "service", "chromium", "firefox", "webkit"}

\* A rule there is decides: the first of those that name the path.
LEMMA LeastRule ==
  ASSUME NEW S \in SUBSET (1 .. 22), 22 \in S
  PROVE \E i \in S : \A j \in 1 .. i - 1 : j \notin S
OBVIOUS

LEMMA LeastTestRule ==
  ASSUME NEW S \in SUBSET (1 .. 6), 6 \in S
  PROVE \E i \in S : \A j \in 1 .. i - 1 : j \notin S
OBVIOUS

\* The rules by their place in the list.
LEMMA RulesListed ==
  /\ DOMAIN Rules = 1 .. 22 /\ DOMAIN TestRules = 1 .. 6
  /\ Rules[22][1] = RepoPaths /\ TestRules[6][1] = RepoPaths
  /\ Rules[1][1] = Named({"unsafe"}) /\ Rules[2][1] = Selectors /\ Rules[3][1] = Named({"service"})
  /\ Rules[9][1] = Tests
BY DEF Rules, TestRules

LEMMA RulesSay ==
  /\ \A i \in 1 .. 22 : Rules[i][2] \in Profiles \cup {"tests"} /\ Rules[i][3] \in BOOLEAN
  /\ \A i \in 1 .. 6 : TestRules[i][2] \in Profiles /\ TestRules[i][3] = FALSE
  /\ Rules[2][2] = "full"
  /\ \A i \in 1 .. 9 : i \notin {1, 3} => Rules[i][3] = FALSE
BY DEF Rules, TestRules, Profiles

LEMMA PathDecided ==
  ASSUME NEW p \in RepoPaths
  PROVE /\ \E i \in 1 .. 22 : Decides(Rules, p, i) /\ FirstOf(Rules, p) = Rules[i]
        /\ \E i \in 1 .. 6 : Decides(TestRules, p, i) /\ FirstOf(TestRules, p) = TestRules[i]
<1>1. \E i \in DOMAIN Rules : Decides(Rules, p, i)
  <2> DEFINE S == {i \in 1 .. 22 : p \in Rules[i][1]}
  <2>1. S \in SUBSET (1 .. 22) /\ 22 \in S
    BY RulesListed
  <2> HIDE DEF S
  <2>2. PICK i \in S : \A j \in 1 .. i - 1 : j \notin S
    BY <2>1, LeastRule
  <2>3. i \in 1 .. 22 /\ p \in Rules[i][1] /\ \A j \in 1 .. i - 1 : p \notin Rules[j][1]
    BY <2>2 DEF S
  <2> QED BY <2>3, RulesListed DEF Decides
<1>2. \E i \in DOMAIN TestRules : Decides(TestRules, p, i)
  <2> DEFINE S == {i \in 1 .. 6 : p \in TestRules[i][1]}
  <2>1. S \in SUBSET (1 .. 6) /\ 6 \in S
    BY RulesListed
  <2> HIDE DEF S
  <2>2. PICK i \in S : \A j \in 1 .. i - 1 : j \notin S
    BY <2>1, LeastTestRule
  <2>3. i \in 1 .. 6 /\ p \in TestRules[i][1] /\ \A j \in 1 .. i - 1 : p \notin TestRules[j][1]
    BY <2>2 DEF S
  <2> QED BY <2>3, RulesListed DEF Decides
<1> QED BY <1>1, <1>2, RulesListed DEF FirstOf

LEMMA ProfileTyped ==
  ASSUME NEW p \in RepoPaths PROVE Profile(p) \in Profiles /\ Runtime(p) \in BOOLEAN
<1>1. PICK i \in 1 .. 22 : FirstOf(Rules, p) = Rules[i]
  BY PathDecided
<1>2. PICK k \in 1 .. 6 : FirstOf(TestRules, p) = TestRules[k]
  BY PathDecided
<1>3. /\ Rules[i][2] \in Profiles \cup {"tests"} /\ Rules[i][3] \in BOOLEAN
      /\ TestRules[k][2] \in Profiles /\ TestRules[k][3] = FALSE
  BY RulesSay
<1>4. ClassifyPath(p) = IF Rules[i][2] = "tests" THEN TestRules[k] ELSE Rules[i]
  BY <1>1, <1>2 DEF ClassifyPath
<1> QED BY <1>3, <1>4 DEF Profile, Runtime

\* A selector is not unsafe and meets its rule first.
LEMMA SelectorFull ==
  ASSUME NEW p \in Named({"selector"}) PROVE Profile(p) = "full"
<1>1. p \in RepoPaths /\ p \notin Named({"unsafe"}) /\ p \in Selectors
  BY DEF Named, Selectors
<1>2. PICK i \in 1 .. 22 : Decides(Rules, p, i) /\ FirstOf(Rules, p) = Rules[i]
  BY <1>1, PathDecided
<1>3. i = 2
  <2>1. i # 1
    BY <1>1, <1>2, RulesListed DEF Decides
  <2>2. ~(i > 2)
    BY <1>1, <1>2, RulesListed DEF Decides
  <2> QED BY <2>1, <2>2
<1>4. ClassifyPath(p) = Rules[2]
  BY <1>2, <1>3, RulesSay DEF ClassifyPath
<1> QED BY <1>4, RulesSay DEF Profile

\* A test, wherever it is, is no part of what runs.
LEMMA TestNotRuntime ==
  ASSUME NEW p \in Named({"test", "tokens", "selector"}) PROVE Runtime(p) = FALSE
<1>1. p \in RepoPaths /\ p \notin Named({"unsafe"}) /\ p \notin Named({"service"}) /\ (p \in Selectors \/ p \in Tests)
  BY DEF Named, Selectors, Tests
<1>2. PICK i \in 1 .. 22 : Decides(Rules, p, i) /\ FirstOf(Rules, p) = Rules[i]
  BY <1>1, PathDecided
<1>3. PICK k \in 1 .. 6 : FirstOf(TestRules, p) = TestRules[k]
  BY <1>1, PathDecided
<1>4. i \in 1 .. 9 /\ i # 1 /\ i # 3
  <2>1. i # 1 /\ i # 3
    BY <1>1, <1>2, RulesListed DEF Decides
  <2>2. ~(i > 9)
    BY <1>1, <1>2, RulesListed DEF Decides
  <2> QED BY <2>1, <2>2
<1>5. Rules[i][3] = FALSE /\ TestRules[k][3] = FALSE
  BY <1>4, RulesSay
<1>6. ClassifyPath(p) = IF Rules[i][2] = "tests" THEN TestRules[k] ELSE Rules[i]
  BY <1>2, <1>3 DEF ClassifyPath
<1> QED BY <1>5, <1>6 DEF Runtime

-----------------------------------------------------------------------------
(* The merge. *)

LEMMA ConfigSays ==
  /\ ProfileConfig.full = Checks /\ ProfileConfig["full"] = Checks
  /\ ProfileConfig.none = {"chromium"} /\ ProfileConfig["none"] = {"chromium"}
  /\ ProfileConfig["docs"] = {"chromium"}
  /\ \A f \in Profiles : ProfileConfig[f] \subseteq Checks
<1>1. /\ ProfileConfig["none"] \subseteq Checks /\ ProfileConfig["docs"] \subseteq Checks
      /\ ProfileConfig["infra"] \subseteq Checks /\ ProfileConfig["webUnit"] \subseteq Checks
      /\ ProfileConfig["webChromium"] \subseteq Checks /\ ProfileConfig["serverChromium"] \subseteq Checks
      /\ ProfileConfig["full"] \subseteq Checks
  BY DEF ProfileConfig, Checks
<1>2. \A f \in Profiles : ProfileConfig[f] \subseteq Checks
  BY <1>1 DEF Profiles
<1>3. /\ ProfileConfig.full = Checks /\ ProfileConfig["full"] = Checks
      /\ ProfileConfig.none = {"chromium"} /\ ProfileConfig["none"] = {"chromium"}
      /\ ProfileConfig["docs"] = {"chromium"}
  BY DEF ProfileConfig, Checks
<1> QED BY <1>2, <1>3

LEMMA MergeSays ==
  ASSUME NEW f \in Profiles, NEW g \in Profiles
  PROVE /\ MergeProfile(f, g) \in {f, g, "full"}
        /\ Family(f) = "web" \/ Family(g) = "web"
             => MergeProfile(f, g) = "full" \/ Family(MergeProfile(f, g)) = "web"
        /\ Family(f) = "server" \/ Family(g) = "server"
             => MergeProfile(f, g) = "full" \/ Family(MergeProfile(f, g)) = "server"
        /\ f = "full" => MergeProfile(f, g) = "full"
<1>1. /\ ProfileOrder["none"] = 0 /\ ProfileOrder["docs"] = 1 /\ ProfileOrder["infra"] = 2
      /\ ProfileOrder["webUnit"] = 3 /\ ProfileOrder["webChromium"] = 4
      /\ ProfileOrder["serverChromium"] = 4 /\ ProfileOrder["full"] = 5
  BY DEF ProfileOrder
<1>2. \A x \in Profiles :
        /\ Family(x) = "web" <=> x \in {"webUnit", "webChromium"}
        /\ Family(x) = "server" <=> x = "serverChromium"
  BY DEF Family, Profiles
<1>3. /\ Family(f) = "web" /\ Family(g) = "server" => MergeProfile(f, g) = "full"
      /\ Family(f) = "server" /\ Family(g) = "web" => MergeProfile(f, g) = "full"
  BY DEF MergeProfile
<1>4. MergeProfile(f, g) = "full" \/ MergeProfile(f, g) = IF ProfileOrder[g] > ProfileOrder[f] THEN g ELSE f
  BY DEF MergeProfile
<1>5. f = "full" => ~(ProfileOrder[g] > ProfileOrder[f])
  BY <1>1 DEF Profiles
<1>6. Family(f) \in {"web", "server"} /\ ProfileOrder[g] > ProfileOrder[f]
        => g = "full" \/ Family(g) \in {"web", "server"}
  BY <1>1, <1>2 DEF Profiles
<1>7. Family(g) \in {"web", "server"} /\ ~(ProfileOrder[g] > ProfileOrder[f])
        => f = "full" \/ Family(f) \in {"web", "server"}
  BY <1>1, <1>2 DEF Profiles
<1> QED BY <1>3, <1>4, <1>5, <1>6, <1>7

ChecksOf(paths) == ProfileConfig.none \cup UNION {ProfileConfig[Profile(p)] : p \in paths}

LEMMA ChecksBounded ==
  ASSUME NEW S \in SUBSET RepoPaths PROVE ChecksOf(S) \subseteq Checks
BY ConfigSays, ProfileTyped DEF ChecksOf, Checks

ImpactTyped ==
  /\ changed \in SUBSET RepoPaths /\ untaken \in SUBSET changed
  /\ profile \in Profiles /\ merged \in BOOLEAN
  /\ merged => untaken = {}

\* What has been read of the change until the end of the loop.
Taken == changed \ untaken

\* Its checks are gathered, the profile is one of them or all, and of two
\* families there is none that the profile forgot.
Gathering ==
  ~merged =>
    /\ requirements = ChecksOf(Taken)
    /\ profile \in {"none", "docs", "full"} \cup {Profile(p) : p \in Taken}
    /\ \A h \in {"web", "server"} :
         (\E p \in Taken : Family(Profile(p)) = h) => profile = "full" \/ Family(profile) = h

RuntimeSeen == runtimeChanged <=> \E p \in Taken : Runtime(p) = TRUE

ImpactInv == ImpactTyped /\ Gathering /\ RuntimeSeen /\ ChecksMerged

LEMMA ImpactInitInv == ImpactInit => ImpactInv
<1> SUFFICES ASSUME ImpactInit PROVE ImpactInv
  OBVIOUS
<1>1. changed \in SUBSET RepoPaths /\ untaken = changed /\ ~merged /\ profile \in {"none", "docs"}
      /\ runtimeChanged = FALSE /\ requirements = {"chromium"} /\ merged \in BOOLEAN
  BY DEF ImpactInit
<1>2. Taken = {}
  BY <1>1 DEF Taken
<1>3. ChecksOf({}) = {"chromium"}
  BY ConfigSays DEF ChecksOf
<1>4. ImpactTyped
  BY <1>1 DEF ImpactTyped, Profiles
<1>5. Gathering /\ RuntimeSeen
  BY <1>1, <1>2, <1>3 DEF Gathering, RuntimeSeen
<1>6. ChecksMerged
  BY <1>1 DEF ChecksMerged, NoCheckLost, SelectorsProved, TestsNeverDeploy
<1> QED BY <1>4, <1>5, <1>6 DEF ImpactInv

LEMMA TakeStep == ASSUME ImpactInv, NEW p \in untaken, Take(p) PROVE ImpactInv'
<1> DEFINE f == Profile(p)
<1>1. ImpactTyped /\ ~merged /\ p \in RepoPaths /\ p \in changed
  BY DEF ImpactInv, ImpactTyped
<1>2. f \in Profiles /\ Runtime(p) \in BOOLEAN
  BY <1>1, ProfileTyped
<1>3. /\ untaken' = untaken \ {p} /\ profile' = MergeProfile(profile, f)
      /\ runtimeChanged' = (runtimeChanged \/ Runtime(p))
      /\ requirements' = requirements \cup ProfileConfig[f]
      /\ changed' = changed /\ merged' = merged
  BY DEF Take
<1>4. Taken' = Taken \cup {p}
  BY <1>1, <1>3 DEF Taken
<1> HIDE DEF f
<1>5. /\ profile' \in {profile, f, "full"}
      /\ \A h \in {"web", "server"} :
           Family(profile) = h \/ Family(f) = h => profile' = "full" \/ Family(profile') = h
      /\ profile = "full" => profile' = "full"
  BY <1>1, <1>2, <1>3, MergeSays DEF ImpactTyped
<1>6. ImpactTyped'
  <2>1. profile' \in Profiles
    BY <1>1, <1>2, <1>5 DEF ImpactTyped, Profiles
  <2> QED BY <1>1, <1>3, <2>1 DEF ImpactTyped
<1>7. Gathering'
  <2>1. requirements' = ChecksOf(Taken')
    <3>1. requirements = ChecksOf(Taken)
      BY <1>1 DEF ImpactInv, Gathering
    <3>2. ChecksOf(Taken \cup {p}) = ChecksOf(Taken) \cup ProfileConfig[f]
      BY DEF ChecksOf, f
    <3> QED BY <1>3, <1>4, <3>1, <3>2
  <2>2. profile' \in {"none", "docs", "full"} \cup {Profile(q) : q \in Taken'}
    <3>1. profile \in {"none", "docs", "full"} \cup {Profile(q) : q \in Taken}
      BY <1>1 DEF ImpactInv, Gathering
    <3> QED BY <1>4, <1>5, <3>1 DEF f
  <2>3. ASSUME NEW h \in {"web", "server"}, NEW q \in Taken', Family(Profile(q)) = h
        PROVE profile' = "full" \/ Family(profile') = h
    <3>1. CASE q = p
      BY <1>5, <2>3, <3>1 DEF f
    <3>2. CASE q # p
      <4>1. profile = "full" \/ Family(profile) = h
        BY <1>1, <1>4, <2>3, <3>2 DEF ImpactInv, Gathering
      <4> QED BY <1>5, <4>1
    <3> QED BY <3>1, <3>2
  <2> QED BY <2>1, <2>2, <2>3 DEF Gathering
<1>8. RuntimeSeen'
  BY <1>2, <1>3, <1>4 DEF ImpactInv, RuntimeSeen
<1>9. ChecksMerged'
  BY <1>1, <1>3 DEF ChecksMerged, NoCheckLost, SelectorsProved, TestsNeverDeploy
<1> QED BY <1>6, <1>7, <1>8, <1>9 DEF ImpactInv

LEMMA FinishStep == ASSUME ImpactInv, NEW forceFull \in BOOLEAN, Finish(forceFull) PROVE ImpactInv'
<1>1. ImpactTyped /\ ~merged /\ merged' /\ untaken = {} /\ untaken' = {} /\ changed' = changed
      /\ runtimeChanged' = runtimeChanged
  BY DEF ImpactInv, Finish
<1>2. /\ profile' = IF forceFull /\ profile # "none" THEN "full" ELSE profile
      /\ requirements' = requirements \cup ProfileConfig[profile']
  BY DEF Finish
<1>3. Taken = changed /\ Taken' = changed /\ changed \in SUBSET RepoPaths
  BY <1>1 DEF Taken, ImpactTyped
<1>4. /\ requirements = ChecksOf(changed)
      /\ profile \in {"none", "docs", "full"} \cup {Profile(p) : p \in changed}
      /\ \A h \in {"web", "server"} :
           (\E p \in changed : Family(Profile(p)) = h) => profile = "full" \/ Family(profile) = h
  BY <1>1, <1>3 DEF ImpactInv, Gathering
<1>5. ImpactTyped'
  BY <1>1, <1>2 DEF ImpactTyped, Profiles, Finish
<1>6. Gathering' /\ RuntimeSeen'
  BY <1>1, <1>3 DEF ImpactInv, Gathering, RuntimeSeen
<1>7. ChecksOf(changed) \subseteq Checks
  BY <1>3, ChecksBounded
<1>8. Needed(changed) \in {Checks, ChecksOf(changed)}
  BY ConfigSays DEF Needed, ChecksOf
<1>9. requirements' = Checks \/ (requirements' = ChecksOf(changed) /\ Needed(changed) = ChecksOf(changed))
  <2>1. CASE profile' = "full"
    BY <1>2, <1>4, <1>7, <2>1, ConfigSays
  <2>2. CASE profile' # "full"
    <3>1. profile' = profile
      BY <1>2, <2>2
    <3>2. ProfileConfig[profile] \subseteq ChecksOf(changed)
      BY <1>4, <2>2, <3>1, ConfigSays DEF ChecksOf
    <3>3. ~((\E p \in changed : Family(Profile(p)) = "web") /\ (\E p \in changed : Family(Profile(p)) = "server"))
      BY <1>4, <2>2, <3>1
    <3>4. Needed(changed) = ChecksOf(changed)
      <4>1. ~({"web", "server"} \subseteq {Family(f) : f \in {Profile(p) : p \in changed}})
        BY <3>3
      <4>2. UNION {ProfileConfig[f] : f \in {Profile(p) : p \in changed}}
              = UNION {ProfileConfig[Profile(p)] : p \in changed}
        OBVIOUS
      <4> QED BY <4>1, <4>2 DEF Needed, ChecksOf
    <3> QED BY <1>2, <1>4, <3>1, <3>2, <3>4
  <2> QED BY <2>1, <2>2
<1>10. NoCheckLost'
  <2>1. Needed(changed) \subseteq requirements' /\ requirements' \in {Needed(changed), ProfileConfig.full}
    BY <1>7, <1>8, <1>9, ConfigSays
  <2> QED BY <1>1, <2>1 DEF NoCheckLost
<1>11. SelectorsProved'
  <2>1. ASSUME NEW p \in changed, p \in Named({"selector"}) PROVE requirements' = Checks
    <3>1. Profile(p) = "full"
      BY <2>1, SelectorFull
    <3>2. Checks \subseteq ChecksOf(changed)
      BY <2>1, <3>1, ConfigSays DEF ChecksOf
    <3> QED BY <1>7, <1>9, <3>2
  <2> QED BY <1>1, <2>1, ConfigSays DEF SelectorsProved
<1>12. TestsNeverDeploy'
  <2>1. ASSUME changed \subseteq Named({"test", "tokens", "selector"}) PROVE ~runtimeChanged
    <3>1. \A p \in changed : Runtime(p) = FALSE
      BY <2>1, TestNotRuntime
    <3> QED BY <1>3, <3>1 DEF ImpactInv, RuntimeSeen
  <2> QED BY <1>1, <2>1 DEF TestsNeverDeploy
<1> QED BY <1>5, <1>6, <1>10, <1>11, <1>12 DEF ImpactInv, ChecksMerged

\* For a change of any size: all the checks its paths need are selected, and
\* without a request for more no others (classifyPaths, mergeProfile).
THEOREM ChecksStayMerged == ImpactSpec => []ChecksMerged
<1>1. ImpactInv /\ [ImpactNext]_impactVars => ImpactInv'
  <2> SUFFICES ASSUME ImpactInv, [ImpactNext]_impactVars PROVE ImpactInv'
    OBVIOUS
  <2>1. CASE UNCHANGED impactVars
    BY <2>1 DEF impactVars, ImpactInv, ImpactTyped, Gathering, RuntimeSeen, Taken, ChecksMerged, NoCheckLost,
                SelectorsProved, TestsNeverDeploy
  <2> QED BY <2>1, TakeStep, FinishStep DEF ImpactNext
<1>2. ImpactInv => ChecksMerged
  BY DEF ImpactInv
<1> QED BY <1>1, <1>2, ImpactInitInv, PTL DEF ImpactSpec
=============================================================================
