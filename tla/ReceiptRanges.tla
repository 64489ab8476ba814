--------------------------- MODULE ReceiptRanges ---------------------------
(***************************************************************************)
(* new_receipt_ranges (room/task.rs): the receipts of a version that an    *)
(* earlier one lacks, as ranges.  A version is, for each site, a watermark *)
(* and the sequences known beyond it; the walk never expands what is below *)
(* the watermark.  Sequences are u64, and those a room stores fit i64.     *)
(***************************************************************************)
EXTENDS Naturals, Sequences

CONSTANTS
    Sites,      \* sites in the order of receipts(), a sequence
    Last64,     \* u64::MAX
    MaxStored   \* MAX_STORED_SEQUENCE

ReceiptRangesAssumption ==
    /\ Last64 \in Nat /\ MaxStored \in Nat \ {0} /\ MaxStored < Last64
    /\ Len(Sites) \in Nat \ {0}

VARIABLES
    before, after,  \* the versions
    site,           \* index of the site the walk is at
    phase,          \* "prefix", "known", "rest" or "sparse"
    start, todo,    \* where the open range starts, sequences still to see
    ranges

rangesVars == <<before, after, site, phase, start, todo, ranges>>

\* A version's receipts of a site: sequences beyond the watermark leave a gap.
Receipts == {r \in [observed : 0 .. MaxStored, sparse : SUBSET (1 .. MaxStored)] :
                \A q \in r.sparse : q > r.observed + 1}
Holds(r, q) == q \in 1 .. r.observed \/ q \in r.sparse
Set(r) == {q \in 1 .. MaxStored : Holds(r, q)}

\* The room applies a mutation: the version grows.
RangesInit ==
    /\ before \in [1 .. Len(Sites) -> Receipts]
    /\ after \in {f \in [1 .. Len(Sites) -> Receipts] :
                     \A i \in 1 .. Len(Sites) : Set(before[i]) \subseteq Set(f[i])}
    /\ site = 1 /\ phase = "prefix" /\ start = 0 /\ todo = {} /\ ranges = <<>>

SaturatingAdd(q) == IF q = Last64 THEN Last64 ELSE q + 1
AtSite == site <= Len(Sites)

\* Sparse sequences are seen in their order.
Least(q) == q \in todo /\ \A p \in todo : q <= p

\* push_accepted_range: a range that touches the last one extends it.
Push(first, last) ==
    LET n == Len(ranges)
    IN  IF first = 0 \/ last < first THEN ranges
        ELSE IF n > 0 /\ ranges[n].site = site /\ ranges[n].last < Last64 /\ ranges[n].last + 1 = first
        THEN [ranges EXCEPT ![n].last = last]
        ELSE Append(ranges, [site |-> site, first |-> first, last |-> last])

\* first_missing and what of it was known already.
Prefix ==
    /\ AtSite /\ phase = "prefix" /\ start' = SaturatingAdd(before[site].observed)
    /\ IF start' <= after[site].observed
       THEN phase' = "known" /\ todo' = before[site].sparse
       ELSE phase' = "sparse" /\ todo' = after[site].sparse
    /\ UNCHANGED <<before, after, site, ranges>>

\* Mutant: the range goes up to what is known.
KnownIncluded(q) ==
    /\ AtSite /\ phase = "known" /\ Least(q)
    /\ IF q < start \/ q > after[site].observed
       THEN todo' = todo \ {q} /\ UNCHANGED <<start, ranges, phase>>
       ELSE /\ ranges' = Push(start, q) /\ start' = q + 1 /\ todo' = todo \ {q}
            /\ UNCHANGED phase
    /\ UNCHANGED <<before, after, site>>

\* One sequence known before, inside the new prefix or not.
Known(q) ==
    /\ AtSite /\ phase = "known" /\ Least(q)
    /\ \/ /\ q < start \/ q > after[site].observed
          /\ todo' = todo \ {q} /\ UNCHANGED <<start, ranges>>
       \/ /\ start <= q /\ q <= after[site].observed
          /\ ranges' = (IF start < q THEN Push(start, q - 1) ELSE ranges)
          /\ start' = SaturatingAdd(q)
          /\ todo' = IF q = Last64 THEN {} ELSE todo \ {q}
    /\ UNCHANGED <<before, after, site, phase>>

\* What is left of the prefix.
Rest ==
    /\ AtSite /\ phase = "known" /\ todo = {} /\ phase' = "sparse"
    /\ ranges' = IF start <= after[site].observed THEN Push(start, after[site].observed) ELSE ranges
    /\ todo' = after[site].sparse
    /\ UNCHANGED <<before, after, site, start>>

Sparse(q) ==
    /\ AtSite /\ phase = "sparse" /\ Least(q) /\ todo' = todo \ {q}
    /\ ranges' = IF Holds(before[site], q) THEN ranges ELSE Push(q, q)
    /\ UNCHANGED <<before, after, site, phase, start>>

NextSite ==
    /\ AtSite /\ phase = "sparse" /\ todo = {} /\ site' = site + 1 /\ phase' = "prefix"
    /\ UNCHANGED <<before, after, start, todo, ranges>>

RangesNext == Prefix \/ Rest \/ NextSite \/ \E q \in todo : Known(q) \/ Sparse(q)

RangesSpec == RangesInit /\ [][RangesNext]_rangesVars

\* version_has_new_site_other_than, for one site.
Introduces(i) ==
    \/ before[i].observed < after[i].observed
    \/ \E q \in after[i].sparse : ~Holds(before[i], q)

----------------------------------------------------------------------------
Span(r) == r.first .. r.last
Of(i) == {n \in DOMAIN ranges : ranges[n].site = i}

\* The ranges are the receipts the change brought and no others, however
\* watermarks moved over sequences known before; no receipt is in two, and a row
\* is written for each range: none could be joined with another.
RangesExact ==
    ~AtSite => \A i \in 1 .. Len(Sites) :
        /\ UNION {Span(ranges[n]) : n \in Of(i)} = Set(after[i]) \ Set(before[i])
        /\ \A m, n \in Of(i) : m = n \/ Span(ranges[m]) \cap Span(ranges[n]) = {}
        /\ \A m, n \in Of(i) : ranges[m].last + 1 # ranges[n].first
=============================================================================
