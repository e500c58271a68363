---------------------------- MODULE AddressRanges ----------------------------
(***************************************************************************)
(* AddressRange, AddressRanges and AddressRangeMap                         *)
(* (core/connection/addressrange.h, core/connection/addressrange.cpp): the *)
(* bytes of a property or of a task, and the map that finds the properties *)
(* over given bytes.                                                       *)
(*                                                                         *)
(* A map is a function from ranges to values; an iterator of std::map is   *)
(* the range it stands on, and end() is the range NoRange.                 *)
(***************************************************************************)
EXTENDS Naturals, Sequences, FiniteSets, TLC, SequencesExt

CONSTANT MaxAddress    \* the largest address, UINT32_MAX in the code

ASSUME AddressAssumption == MaxAddress \in Nat

Addresses == 0..MaxAddress
AddressRange == { r \in [first : Addresses, last : Addresses] : r.first <= r.last }

\* Sums of addresses wrap; the constructor asserts that none did, and without
\* assertions makes a range of one address of it.
FirstToLast(first, last) == [first |-> first, last |-> IF last < first THEN first ELSE last]
FirstAndSize(first, size) == FirstToLast(first, (first + size - 1) % (MaxAddress + 1))
Moved(r, offset) ==
    FirstToLast((r.first + offset) % (MaxAddress + 1), (r.last + offset) % (MaxAddress + 1))

RangeContains(r, s) == r.first <= s.first /\ s.last <= r.last
Overlap(r, s)  == s.first <= r.last /\ r.first <= s.last

\* operator<=> compares the members in their order.
Less(r, s) == r.first < s.first \/ (r.first = s.first /\ r.last < s.last)

-----------------------------------------------------------------------------
(* AddressRanges: ranges in ascending order with a gap between neighbours. *)

\* Ranges that touch become one.
Appended(merged, r) ==
    IF merged = <<>> THEN <<r>>
    ELSE LET last == merged[Len(merged)]
         IN  IF RangeContains(last, r) THEN merged
             ELSE IF Overlap(last, r) \/ last.last + 1 = r.first
             THEN [merged EXCEPT ![Len(merged)] = FirstToLast(last.first, r.last)]
             ELSE Append(merged, r)

\* The loop over the sorted ranges.
Merged(sorted) ==
    LET merged[k \in 0..Len(sorted)] ==
            IF k = 0 THEN <<>> ELSE Appended(merged[k-1], sorted[k])
    IN  merged[Len(sorted)]

SetRanges(ranges) == Merged(SortSeq(ranges, Less))

\* What the constructors make.
IsAddressRanges(ranges) ==
    /\ ranges \in Seq(AddressRange)
    /\ \A i, j \in DOMAIN ranges : i < j => ranges[i].last + 1 < ranges[j].first

\* overlaps: both are walked together.  Neither before nor behind the other,
\* two ranges overlap.
RangesOverlap(these, others) ==
    LET from[at \in (1..Len(these)+1) \X (1..Len(others)+1)] ==
            LET i == at[1]
                j == at[2]
            IN  IF i > Len(these) \/ j > Len(others) THEN FALSE
                ELSE IF these[i].last < others[j].first THEN from[<<i+1, j>>]
                ELSE IF others[j].last < these[i].first THEN from[<<i, j+1>>]
                ELSE TRUE
    IN  from[<<1, 1>>]

\* contains; nothing is contained in or contains no range at all.
RangesContain(these, others) ==
    LET from[at \in (1..Len(these)+1) \X (1..Len(others)+1)] ==
            LET i == at[1]
                j == at[2]
            IN  IF j > Len(others) THEN TRUE
                ELSE IF i > Len(these) THEN FALSE
                ELSE IF these[i].last < others[j].first THEN from[<<i+1, j>>]
                ELSE IF others[j].last < these[i].first THEN FALSE
                ELSE IF RangeContains(these[i], others[j]) THEN from[<<i, j+1>>]
                ELSE from[<<i+1, j>>]
    IN  these # <<>> /\ others # <<>> /\ from[<<1, 1>>]

-----------------------------------------------------------------------------
(* AddressRangeMap.                                                        *)

EmptyMap == [r \in {} |-> {}]

\* Fault: only the ranges that begin in the range are looked at.
OverlapOfRange_NoPrevious(map, range) ==
    { r \in DOMAIN map : ~Less(r, range) /\ r.first <= range.last }

\* From the greatest range below the given one, if it reaches into it, to
\* before the first one that begins behind it.
OverlapOfRange(map, range) ==
    { r \in DOMAIN map :
        /\ r.first <= range.last
        /\ \/ ~Less(r, range)
           \/ /\ Overlap(r, range)
              /\ \A s \in DOMAIN map : Less(s, range) => s = r \/ Less(s, r) }

\* getOverlap
GetOverlap(map, ranges) ==
    { map[r] : r \in UNION { OverlapOfRange(map, range) : range \in ranges } }

\* addRanges; false leaves the map as it is.
AddRanges(map, ranges, value) ==
    IF GetOverlap(map, ranges) # {} THEN map
    ELSE [r \in DOMAIN map \cup ranges |-> IF r \in DOMAIN map THEN map[r] ELSE value]

\* removeRanges, for each of the values.
RemoveRanges(map, values) == [r \in { s \in DOMAIN map : map[s] \notin values } |-> map[r]]

=============================================================================
