------------------------ MODULE PropertyRegisterProofs ------------------------
(***************************************************************************)
(* The walks over ranges and the map of addresses find what they should,   *)
(* the maps follow the register of the adapters, what can be read can be   *)
(* addressed, what cannot be read has no value and what was overwritten is *)
(* forgotten: for every table of properties, every memory and whatever     *)
(* addresses a camera reports.                                             *)
(***************************************************************************)
EXTENDS PropertyRegister, WellFoundedInduction, TLAPS

-----------------------------------------------------------------------------
(* Ranges and maps of ranges.                                              *)

ApartSet(S) == \A r, s \in S : r # s => ~Overlap(r, s)

\* The range of a preset is a range, even if the sum of its address and its size wraps.
LEMMA FirstAndSizeIsRange ==
    ASSUME NEW first \in Addresses, NEW size \in Nat
    PROVE  FirstAndSize(first, size) \in AddressRange
  <1> DEFINE last == (first + size - 1) % (MaxAddress + 1)
  <1>1. last \in 0..MaxAddress
    BY AddressAssumption DEF Addresses
  <1> HIDE DEF last
  <1>2. FirstToLast(first, last) \in AddressRange
    BY <1>1, AddressAssumption DEF FirstToLast, AddressRange, Addresses
  <1> QED BY <1>2 DEF FirstAndSize, last

\* The order of the map is total.
LEMMA LessIsTotal ==
    ASSUME NEW r \in AddressRange, NEW s \in AddressRange, r # s, ~Less(s, r)
    PROVE  Less(r, s)
  BY AddressAssumption DEF AddressRange, Addresses, Less

\* What the search returns for one range overlaps it, in any map.
LEMMA OverlapOfRangeIsSound ==
    ASSUME NEW map, DOMAIN map \subseteq AddressRange, NEW range \in AddressRange,
           NEW r \in OverlapOfRange(map, range)
    PROVE  r \in DOMAIN map /\ Overlap(r, range)
  BY AddressAssumption DEF OverlapOfRange, Overlap, Less, AddressRange, Addresses

\* Between a range that reaches into the given one and the given one there is no
\* other, since it would overlap the first.
LEMMA OverlapOfRangeIsComplete ==
    ASSUME NEW map, DOMAIN map \subseteq AddressRange, ApartSet(DOMAIN map),
           NEW range \in AddressRange, NEW r \in DOMAIN map, Overlap(r, range)
    PROVE  r \in OverlapOfRange(map, range)
  <1>1. r.first <= range.last
    BY AddressAssumption DEF Overlap, AddressRange, Addresses
  <1>2. ASSUME Less(r, range), NEW s \in DOMAIN map, Less(s, range), s # r
        PROVE  Less(s, r)
    <2>1. SUFFICES ASSUME ~Less(s, r) PROVE FALSE
      OBVIOUS
    <2>2. Less(r, s)
      BY <1>2, <2>1, LessIsTotal
    <2>3. Overlap(r, s)
      BY <1>2, <2>2, AddressAssumption DEF Overlap, Less, AddressRange, Addresses
    <2> QED BY <1>2, <2>3 DEF ApartSet
  <1> QED BY <1>1, <1>2 DEF OverlapOfRange

\* getOverlap of a map whose ranges are apart finds the properties over the given
\* bytes and no other.
THEOREM GetOverlapIsExact ==
    ASSUME NEW map, DOMAIN map \subseteq AddressRange, ApartSet(DOMAIN map),
           NEW rs \in SUBSET AddressRange
    PROVE  GetOverlap(map, rs) =
             { map[r] : r \in { r \in DOMAIN map : \E range \in rs : Overlap(r, range) } }
  <1>1. ASSUME NEW range \in rs
        PROVE  OverlapOfRange(map, range) = { r \in DOMAIN map : Overlap(r, range) }
    <2>1. OverlapOfRange(map, range) \subseteq DOMAIN map
      BY DEF OverlapOfRange
    <2> QED BY <2>1, OverlapOfRangeIsSound, OverlapOfRangeIsComplete
  <1>2. UNION { OverlapOfRange(map, range) : range \in rs } =
          { r \in DOMAIN map : \E range \in rs : Overlap(r, range) }
    BY <1>1
  <1> QED BY <1>2 DEF GetOverlap

LEMMA OverlapsItself ==
    ASSUME NEW r \in AddressRange
    PROVE  Overlap(r, r)
  BY DEF AddressRange, Overlap

LEMMA OverlapIsSymmetric == \A r, s : Overlap(r, s) <=> Overlap(s, r)
  BY DEF Overlap

\* Ranges in ascending order are apart.
LEMMA AddressRangesAreApart ==
    ASSUME NEW rs, IsAddressRanges(rs)
    PROVE  ApartSet(ToSet(rs))
  <1>1. \A k \in DOMAIN rs : /\ k \in Nat /\ rs[k].first \in Nat /\ rs[k].last \in Nat
                             /\ rs[k].first <= rs[k].last
    BY AddressAssumption DEF IsAddressRanges, AddressRange, Addresses
  <1>2. \A k, l \in DOMAIN rs : k < l => ~Overlap(rs[k], rs[l]) /\ ~Overlap(rs[l], rs[k])
    BY <1>1 DEF IsAddressRanges, Overlap
  <1>3. \A k, l \in DOMAIN rs : k < l \/ l < k \/ k = l
    BY <1>1
  <1> QED BY <1>2, <1>3 DEF ApartSet, ToSet

\* With ranges that are apart and overlap nothing a map stays apart.
LEMMA AddRangesKeepsApart ==
    ASSUME NEW map, DOMAIN map \subseteq AddressRange, ApartSet(DOMAIN map),
           NEW rs \in SUBSET AddressRange, ApartSet(rs), GetOverlap(map, rs) = {}
    PROVE  ApartSet(DOMAIN map \cup rs) /\ rs \cap DOMAIN map = {}
  <1>1. \A r \in DOMAIN map, s \in rs : ~Overlap(r, s)
    BY GetOverlapIsExact
  <1>2. \A r \in rs : r \notin DOMAIN map
    BY <1>1, OverlapsItself
  <1>3. ApartSet(DOMAIN map \cup rs)
    BY <1>1, OverlapIsSymmetric DEF ApartSet
  <1> QED BY <1>2, <1>3

-----------------------------------------------------------------------------
(* The two walks over pairs of ranges.  Both end because each turn moves   *)
(* one of the two places on; that nothing is known of the walk but its     *)
(* equation is made up for by a function that satisfies it too.            *)

\* Every set of natural numbers has a least one.
LEMMA LeastNat ==
  ASSUME NEW S \in SUBSET Nat, S # {}
  PROVE  \E n \in S : \A m \in S : n <= m
  <1> DEFINE R == OpToRel(<, Nat)
  <1>1. IsWellFoundedOn(R, Nat) BY NatLessThanWellFounded
  <1>2. \A m, n \in Nat : m < n => <<m, n>> \in R BY DEF OpToRel
  <1> HIDE DEF R
  <1>3. PICK n \in S : \A m \in S : <<m, n>> \notin R BY <1>1, WFMin
  <1>4. \A m \in S : ~(m < n) BY <1>2, <1>3
  <1>5. \A m \in S : n <= m BY <1>4
  <1> QED BY <1>5

\* Two functions over pairs of places that either agree or both move on in the
\* same way agree everywhere: the first place where they differ would be none.
MoveTogether(a, b, f, g) ==
    \A i \in 1..a+1, j \in 1..b+1 :
      \/ f[<<i, j>>] = g[<<i, j>>]
      \/ i <= a /\ f[<<i, j>>] = f[<<i+1, j>>] /\ g[<<i, j>>] = g[<<i+1, j>>]
      \/ j <= b /\ f[<<i, j>>] = f[<<i, j+1>>] /\ g[<<i, j>>] = g[<<i, j+1>>]

Agree(a, b, f, g) == \A i \in 1..a+1, j \in 1..b+1 : f[<<i, j>>] = g[<<i, j>>]

LEMMA WalksAgree ==
    ASSUME NEW a \in Nat, NEW b \in Nat, NEW f, NEW g, MoveTogether(a, b, f, g)
    PROVE  Agree(a, b, f, g)
  <1> DEFINE Places == (1..a+1) \X (1..b+1)
             left(at) == a + b + 2 - at[1] - at[2]
             Differ == { left(at) : at \in { at \in Places : f[at] # g[at] } }
  <1>1. SUFFICES ASSUME NEW i \in 1..a+1, NEW j \in 1..b+1, f[<<i, j>>] # g[<<i, j>>]
                 PROVE  FALSE
    BY DEF Agree
  <1>2. \A at \in Places : left(at) \in Nat
    <2>1. \A k \in 1..a+1, l \in 1..b+1 : a + b + 2 - k - l \in Nat
      OBVIOUS
    <2> QED BY <2>1
  <1>3. Differ \in SUBSET Nat /\ Differ # {}
    <2>1. <<i, j>> \in Places
      OBVIOUS
    <2> QED BY <1>1, <1>2, <2>1
  <1>4. PICK n \in Differ : \A m \in Differ : n <= m
    <2> HIDE DEF Differ
    <2> QED BY <1>3, LeastNat
  <1>5. PICK k \in 1..a+1, l \in 1..b+1 : f[<<k, l>>] # g[<<k, l>>] /\ n = a + b + 2 - k - l
    <2>1. PICK at \in Places : f[at] # g[at] /\ n = left(at)
      BY <1>4
    <2>2. at = <<at[1], at[2]>> /\ at[1] \in 1..a+1 /\ at[2] \in 1..b+1
      BY <2>1
    <2>3. f[<<at[1], at[2]>>] # g[<<at[1], at[2]>>] /\ n = a + b + 2 - at[1] - at[2]
      BY <2>1, <2>2
    <2> QED BY <2>2, <2>3
  <1>6. ASSUME NEW p \in 1..a+1, NEW q \in 1..b+1, f[<<p, q>>] # g[<<p, q>>]
        PROVE  a + b + 2 - k - l <= a + b + 2 - p - q
    <2>1. <<p, q>> \in Places /\ left(<<p, q>>) = a + b + 2 - p - q
      OBVIOUS
    <2>2. left(<<p, q>>) \in Differ
      BY <1>6, <2>1
    <2> QED BY <1>4, <1>5, <2>1, <2>2
  <1>7. CASE k <= a /\ f[<<k+1, l>>] # g[<<k+1, l>>]
    BY <1>6, <1>7
  <1>8. CASE l <= b /\ f[<<k, l+1>>] # g[<<k, l+1>>]
    BY <1>6, <1>8
  <1> QED BY <1>5, <1>7, <1>8 DEF MoveTogether

\* overlaps tells whether there is an address that both have.
THEOREM RangesOverlapIsExact ==
    ASSUME NEW these, IsAddressRanges(these), NEW others, IsAddressRanges(others)
    PROVE  RangesOverlap(these, others) <=> HaveCommonAddress(these, others)
  <1> DEFINE a == Len(these)
             b == Len(others)
             Places == (1..a+1) \X (1..b+1)
             walk(f) ==
               [at \in Places |->
                  IF at[1] > a \/ at[2] > b THEN FALSE
                  ELSE IF these[at[1]].last < others[at[2]].first THEN f[<<at[1]+1, at[2]>>]
                  ELSE IF others[at[2]].last < these[at[1]].first THEN f[<<at[1], at[2]+1>>]
                  ELSE TRUE]
             turn(f, i, j) ==
               IF i > a \/ j > b THEN FALSE
               ELSE IF these[i].last < others[j].first THEN f[<<i+1, j>>]
               ELSE IF others[j].last < these[i].first THEN f[<<i, j+1>>]
               ELSE TRUE
             from == CHOOSE f : f = walk(f)
             behind(i, j) == \E k \in i..a, l \in j..b : Overlap(these[k], others[l])
             g == [at \in Places |-> behind(at[1], at[2])]
  <1>1. RangesOverlap(these, others) = from[<<1, 1>>]
    BY DEF RangesOverlap
  <1>2. ASSUME NEW f, f = walk(f), NEW i \in 1..a+1, NEW j \in 1..b+1
        PROVE  f[<<i, j>>] = turn(f, i, j)
    <2>1. f[<<i, j>>] = walk(f)[<<i, j>>]
      BY <1>2
    <2>2. <<i, j>> \in Places
      OBVIOUS
    <2> QED BY <2>1, <2>2
  <1>3. a \in Nat /\ b \in Nat /\ DOMAIN these = 1..a /\ DOMAIN others = 1..b
    BY DEF IsAddressRanges
  <1>4. /\ \A k \in 1..a : /\ these[k].first \in Nat /\ these[k].last \in Nat
                           /\ these[k].first <= these[k].last
        /\ \A k \in 1..b : /\ others[k].first \in Nat /\ others[k].last \in Nat
                           /\ others[k].first <= others[k].last
    BY <1>3, AddressAssumption DEF IsAddressRanges, AddressRange, Addresses
  <1>5. /\ \A k, l \in 1..a : k < l => these[k].last + 1 < these[l].first
        /\ \A k, l \in 1..b : k < l => others[k].last + 1 < others[l].first
    BY <1>3 DEF IsAddressRanges
  <1>6. ASSUME NEW i \in 1..a+1, NEW j \in 1..b+1
        PROVE  behind(i, j) =
                 IF i > a \/ j > b THEN FALSE
                 ELSE IF these[i].last < others[j].first THEN behind(i+1, j)
                 ELSE IF others[j].last < these[i].first THEN behind(i, j+1)
                 ELSE TRUE
    <2> HIDE DEF a, b
    <2>1. CASE i > a \/ j > b
      BY <1>3, <2>1
    <2>2. CASE i <= a /\ j <= b /\ these[i].last < others[j].first
      <3>1. ASSUME NEW l \in j..b
            PROVE  ~Overlap(these[i], others[l])
        <4>1. l \in 1..b /\ j \in 1..b /\ i \in 1..a /\ (l = j \/ j < l)
          BY <1>3, <2>2
        <4>2. /\ others[j].first \in Nat /\ others[j].last \in Nat /\ others[l].first \in Nat
              /\ these[i].last \in Nat /\ others[j].first <= others[j].last
          BY <1>4, <4>1
        <4>3. j < l => others[j].last + 1 < others[l].first
          BY <1>5, <4>1
        <4>4. others[j].first <= others[l].first
          BY <4>1, <4>2, <4>3
        <4> QED BY <2>2, <4>2, <4>4 DEF Overlap
      <3>2. \A k \in i..a : k = i \/ k \in i+1..a
        BY <1>3
      <3>3. \A k \in i+1..a : k \in i..a
        BY <1>3
      <3> QED BY <1>3, <2>2, <3>1, <3>2, <3>3
    <2>3. CASE i <= a /\ j <= b /\ others[j].last < these[i].first
      <3>1. ASSUME NEW k \in i..a
            PROVE  ~Overlap(these[k], others[j])
        <4>1. k \in 1..a /\ i \in 1..a /\ j \in 1..b /\ (k = i \/ i < k)
          BY <1>3, <2>3
        <4>2. these[i].first <= these[k].first
          BY <1>4, <1>5, <4>1
        <4> QED BY <1>4, <2>3, <4>1, <4>2 DEF Overlap
      <3>2. \A l \in j..b : l = j \/ l \in j+1..b
        BY <1>3
      <3>3. \A l \in j+1..b : l \in j..b
        BY <1>3
      <3>4. ~(these[i].last < others[j].first)
        BY <1>3, <1>4, <2>3
      <3> QED BY <1>3, <2>3, <3>1, <3>2, <3>3, <3>4
    <2>4. CASE /\ i <= a /\ j <= b
               /\ ~(these[i].last < others[j].first) /\ ~(others[j].last < these[i].first)
      <3>1. Overlap(these[i], others[j])
        BY <1>3, <1>4, <2>4 DEF Overlap
      <3>2. i \in i..a /\ j \in j..b
        BY <1>3, <2>4
      <3> QED BY <1>3, <2>4, <3>1, <3>2
    <2> QED BY <1>3, <2>1, <2>2, <2>3, <2>4
  <1> HIDE DEF behind
  <1>7. \A i \in 1..a+1, j \in 1..b+1 : g[<<i, j>>] = behind(i, j)
    <2>1. \A i \in 1..a+1, j \in 1..b+1 : <<i, j>> \in Places
      OBVIOUS
    <2> QED BY <2>1
  <1>8. ASSUME NEW f, f = [at \in Places |-> f[at]],
               \A i \in 1..a+1, j \in 1..b+1 : f[<<i, j>>] = turn(f, i, j)
        PROVE  f = walk(f)
    <2>1. ASSUME NEW at \in Places PROVE f[at] = walk(f)[at]
      <3>1. at = <<at[1], at[2]>> /\ at[1] \in 1..a+1 /\ at[2] \in 1..b+1
        OBVIOUS
      <3>2. f[<<at[1], at[2]>>] = turn(f, at[1], at[2])
        BY <1>8, <3>1
      <3>3. walk(f)[at] = turn(f, at[1], at[2])
        OBVIOUS
      <3> HIDE DEF turn, walk
      <3> QED BY <3>1, <3>2, <3>3
    <2> QED BY <1>8, <2>1
  <1>9. g = walk(g)
    <2>1. g = [at \in Places |-> g[at]]
      OBVIOUS
    <2> HIDE DEF g
    <2>2. ASSUME NEW i \in 1..a+1, NEW j \in 1..b+1 PROVE g[<<i, j>>] = turn(g, i, j)
      <3>1. (i <= a => i+1 \in 1..a+1) /\ (j <= b => j+1 \in 1..b+1)
        BY <1>3
      <3>2. /\ g[<<i, j>>] = behind(i, j)
            /\ i <= a => g[<<i+1, j>>] = behind(i+1, j)
            /\ j <= b => g[<<i, j+1>>] = behind(i, j+1)
        BY <1>7, <3>1
      <3>3. (i <= a \/ i > a) /\ (j <= b \/ j > b)
        BY <1>3
      <3> QED BY <1>6, <3>2, <3>3
    <2> HIDE DEF walk, turn
    <2> QED BY <1>8, <2>1, <2>2
  <1>10. from = walk(from)
    <2> HIDE DEF walk, g
    <2> QED BY <1>9
  <1> HIDE DEF g, from, walk
  <1>11. \A i \in 1..a+1, j \in 1..b+1 : from[<<i, j>>] = g[<<i, j>>]
    <2>1. ASSUME NEW i \in 1..a+1, NEW j \in 1..b+1
          PROVE  \/ from[<<i, j>>] = g[<<i, j>>]
                 \/ i <= a /\ from[<<i, j>>] = from[<<i+1, j>>] /\ g[<<i, j>>] = g[<<i+1, j>>]
                 \/ j <= b /\ from[<<i, j>>] = from[<<i, j+1>>] /\ g[<<i, j>>] = g[<<i, j+1>>]
      <3>1. from[<<i, j>>] = turn(from, i, j) /\ g[<<i, j>>] = turn(g, i, j)
        <4> HIDE DEF turn
        <4> QED BY <1>2, <1>9, <1>10
      <3>2. i <= a \/ i > a
        BY <1>3
      <3>3. j <= b \/ j > b
        BY <1>3
      <3> QED BY <3>1, <3>2, <3>3
    <2>2. MoveTogether(a, b, from, g)
      BY <2>1 DEF MoveTogether
    <2>3. a \in Nat /\ b \in Nat
      BY <1>3
    <2>4. Agree(a, b, from, g)
      BY <2>2, <2>3, WalksAgree
    <2> QED BY <2>4 DEF Agree
  <1>12. from[<<1, 1>>] = g[<<1, 1>>] /\ g[<<1, 1>>] = behind(1, 1)
    BY <1>3, <1>7, <1>11
  <1>13. behind(1, 1) <=> HaveCommonAddress(these, others)
    BY <1>3 DEF HaveCommonAddress, ToSet, behind
  <1> QED BY <1>1, <1>12, <1>13

\* The addresses of ranges.
AddressesOf(rs) == UNION { r.first .. r.last : r \in ToSet(rs) }

\* Ranges with gaps between them have an interval only within one of them.
LEMMA WithinOneRange ==
    ASSUME NEW these, IsAddressRanges(these), NEW s \in AddressRange
    PROVE  s.first .. s.last \subseteq AddressesOf(these) <=>
             \E k \in DOMAIN these : RangeContains(these[k], s)
  <1>1. /\ s.first \in Nat /\ s.last \in Nat /\ s.first <= s.last
        /\ \A k \in DOMAIN these : /\ k \in Nat
                                  /\ these[k].first \in Nat /\ these[k].last \in Nat
                                  /\ these[k].first <= these[k].last
    BY AddressAssumption DEF IsAddressRanges, AddressRange, Addresses
  <1>2. \A n : n \in AddressesOf(these) <=> \E k \in DOMAIN these : n \in these[k].first .. these[k].last
    BY DEF AddressesOf, ToSet
  <1>3. ASSUME NEW k \in DOMAIN these, RangeContains(these[k], s)
        PROVE  s.first .. s.last \subseteq AddressesOf(these)
    BY <1>1, <1>2, <1>3 DEF RangeContains
  <1>4. ASSUME s.first .. s.last \subseteq AddressesOf(these)
        PROVE  \E k \in DOMAIN these : RangeContains(these[k], s)
    <2>1. PICK k \in DOMAIN these : s.first \in these[k].first .. these[k].last
      BY <1>1, <1>2, <1>4
    <2>2. SUFFICES ASSUME these[k].last < s.last PROVE FALSE
      BY <1>1, <2>1 DEF RangeContains
    <2>3. PICK l \in DOMAIN these : these[k].last + 1 \in these[l].first .. these[l].last
      <3>1. these[k].last + 1 \in s.first .. s.last
        BY <1>1, <2>1, <2>2
      <3> QED BY <1>2, <1>4, <3>1
    <2>4. \A i, j \in DOMAIN these : i < j => these[i].last + 1 < these[j].first
      BY DEF IsAddressRanges
    <2> QED BY <1>1, <2>1, <2>3, <2>4
  <1> QED BY <1>3, <1>4

\* contains tells whether all addresses of the others are among these: a read that is
\* ignored is part of one that waits or runs.
THEOREM RangesContainIsExact ==
    ASSUME NEW these, IsAddressRanges(these), NEW others, IsAddressRanges(others)
    PROVE  RangesContain(these, others) <=>
             these # <<>> /\ others # <<>> /\ AddressesOf(others) \subseteq AddressesOf(these)
  <1> DEFINE a == Len(these)
             b == Len(others)
             Places == (1..a+1) \X (1..b+1)
             walk(f) ==
               [at \in Places |->
                  IF at[2] > b THEN TRUE
                  ELSE IF at[1] > a THEN FALSE
                  ELSE IF these[at[1]].last < others[at[2]].first THEN f[<<at[1]+1, at[2]>>]
                  ELSE IF others[at[2]].last < these[at[1]].first THEN FALSE
                  ELSE IF RangeContains(these[at[1]], others[at[2]]) THEN f[<<at[1], at[2]+1>>]
                  ELSE f[<<at[1]+1, at[2]>>]]
             turn(f, i, j) ==
               IF j > b THEN TRUE
               ELSE IF i > a THEN FALSE
               ELSE IF these[i].last < others[j].first THEN f[<<i+1, j>>]
               ELSE IF others[j].last < these[i].first THEN FALSE
               ELSE IF RangeContains(these[i], others[j]) THEN f[<<i, j+1>>]
               ELSE f[<<i+1, j>>]
             from == CHOOSE f : f = walk(f)
             behind(i, j) == \A l \in j..b : \E k \in i..a : RangeContains(these[k], others[l])
             g == [at \in Places |-> behind(at[1], at[2])]
  <1>1. RangesContain(these, others) = (these # <<>> /\ others # <<>> /\ from[<<1, 1>>])
    BY DEF RangesContain
  <1>2. ASSUME NEW f, f = walk(f), NEW i \in 1..a+1, NEW j \in 1..b+1
        PROVE  f[<<i, j>>] = turn(f, i, j)
    <2>1. f[<<i, j>>] = walk(f)[<<i, j>>]
      BY <1>2
    <2>2. <<i, j>> \in Places
      OBVIOUS
    <2> QED BY <2>1, <2>2
  <1>3. a \in Nat /\ b \in Nat /\ DOMAIN these = 1..a /\ DOMAIN others = 1..b
    BY DEF IsAddressRanges
  <1>4. /\ \A k \in 1..a : /\ these[k].first \in Nat /\ these[k].last \in Nat
                           /\ these[k].first <= these[k].last
        /\ \A k \in 1..b : /\ others[k].first \in Nat /\ others[k].last \in Nat
                           /\ others[k].first <= others[k].last
    BY <1>3, AddressAssumption DEF IsAddressRanges, AddressRange, Addresses
  <1>5. /\ \A k, l \in 1..a : k < l => these[k].last + 1 < these[l].first
        /\ \A k, l \in 1..b : k < l => others[k].last + 1 < others[l].first
    BY <1>3 DEF IsAddressRanges
  <1>6. ASSUME NEW i \in 1..a+1, NEW j \in 1..b+1
        PROVE  behind(i, j) =
                 IF j > b THEN TRUE
                 ELSE IF i > a THEN FALSE
                 ELSE IF these[i].last < others[j].first THEN behind(i+1, j)
                 ELSE IF others[j].last < these[i].first THEN FALSE
                 ELSE IF RangeContains(these[i], others[j]) THEN behind(i, j+1)
                 ELSE behind(i+1, j)
    <2> HIDE DEF a, b
    <2>1. CASE j > b
      BY <1>3, <2>1
    <2>2. CASE j <= b /\ i > a
      BY <1>3, <2>2
    <2>3. ASSUME i <= a, j <= b
          PROVE  /\ \A k \in i..a : k = i \/ k \in i+1..a
                 /\ \A k \in i+1..a : k \in i..a
                 /\ \A l \in j..b : l = j \/ l \in j+1..b
                 /\ \A l \in j+1..b : l \in j..b
                 /\ i \in i..a /\ j \in j..b
                 /\ \A k \in i..a : these[i].first <= these[k].first
                 /\ \A k \in i+1..a : these[i].last < these[k].first
                 /\ \A l \in j..b : others[j].first <= others[l].first
      <3>1. \A k \in i..a : k \in 1..a /\ i \in 1..a /\ (k = i \/ i < k)
        BY <1>3
      <3>2. \A l \in j..b : l \in 1..b /\ j \in 1..b /\ (l = j \/ j < l)
        BY <1>3
      <3>3. ASSUME NEW k \in i..a PROVE these[i].first <= these[k].first
        <4>1. CASE k = i
          BY <1>4, <3>1, <4>1
        <4>2. CASE i < k
          <5>1. k \in 1..a /\ i \in 1..a
            BY <3>1
          <5>2. these[i].last + 1 < these[k].first
            BY <1>5, <4>2, <5>1
          <5>3. /\ these[i].first \in Nat /\ these[i].last \in Nat /\ these[k].first \in Nat
                /\ these[i].first <= these[i].last
            BY <1>4, <5>1
          <5> QED BY <5>2, <5>3
        <4> QED BY <3>1, <4>1, <4>2
      <3>4. ASSUME NEW l \in j..b PROVE others[j].first <= others[l].first
        <4>1. CASE l = j
          BY <1>4, <3>2, <4>1
        <4>2. CASE j < l
          <5>1. l \in 1..b /\ j \in 1..b
            BY <3>2
          <5>2. others[j].last + 1 < others[l].first
            BY <1>5, <4>2, <5>1
          <5>3. /\ others[j].first \in Nat /\ others[j].last \in Nat /\ others[l].first \in Nat
                /\ others[j].first <= others[j].last
            BY <1>4, <5>1
          <5> QED BY <5>2, <5>3
        <4> QED BY <3>2, <4>1, <4>2
      <3>5. \A k \in i+1..a : k \in 1..a /\ i \in 1..a /\ i < k
        BY <1>3
      <3>6. ASSUME NEW k \in i+1..a PROVE these[i].last < these[k].first
        <4>1. k \in 1..a /\ i \in 1..a /\ i < k
          BY <3>5
        <4>2. these[i].last + 1 < these[k].first /\ these[i].last \in Nat /\ these[k].first \in Nat
          BY <1>4, <1>5, <4>1
        <4> QED BY <4>2
      <3> QED BY <1>3, <2>3, <3>3, <3>4, <3>6
    <2>4. \A k \in 1..a, l \in 1..b :
            RangeContains(these[k], others[l]) <=>
              these[k].first <= others[l].first /\ others[l].last <= these[k].last
      BY DEF RangeContains
    <2>5. CASE i <= a /\ j <= b /\ these[i].last < others[j].first
      <3>1. ASSUME NEW l \in j..b PROVE ~RangeContains(these[i], others[l])
        <4>1. i \in 1..a /\ j \in 1..b /\ l \in 1..b /\ others[j].first <= others[l].first
          BY <1>3, <2>3, <2>5
        <4>2. /\ these[i].last \in Nat /\ others[j].first \in Nat
              /\ others[l].first \in Nat /\ others[l].last \in Nat
              /\ others[l].first <= others[l].last
          BY <1>4, <4>1
        <4>3. these[i].last < others[l].last
          BY <2>5, <4>1, <4>2
        <4>4. ~(others[l].last <= these[i].last)
          BY <4>2, <4>3
        <4> QED BY <2>4, <4>1, <4>4
      <3> QED BY <1>3, <2>3, <2>5, <3>1
    <2>6. CASE /\ i <= a /\ j <= b /\ ~(these[i].last < others[j].first)
               /\ others[j].last < these[i].first
      <3>1. ASSUME NEW k \in i..a PROVE ~RangeContains(these[k], others[j])
        <4>1. i \in 1..a /\ j \in 1..b /\ k \in 1..a /\ these[i].first <= these[k].first
          BY <1>3, <2>3, <2>6
        <4>2. /\ these[i].first \in Nat /\ these[k].first \in Nat
              /\ others[j].first \in Nat /\ others[j].last \in Nat
              /\ others[j].first <= others[j].last
          BY <1>4, <4>1
        <4>3. others[j].first < these[k].first
          BY <2>6, <4>1, <4>2
        <4>4. ~(these[k].first <= others[j].first)
          BY <4>2, <4>3
        <4> QED BY <2>4, <4>1, <4>4
      <3> QED BY <1>3, <2>3, <2>6, <3>1
    <2>7. CASE /\ i <= a /\ j <= b /\ ~(these[i].last < others[j].first)
               /\ ~(others[j].last < these[i].first) /\ RangeContains(these[i], others[j])
      BY <1>3, <2>3, <2>7
    <2>8. CASE /\ i <= a /\ j <= b /\ ~(these[i].last < others[j].first)
               /\ ~(others[j].last < these[i].first) /\ ~RangeContains(these[i], others[j])
      <3>1. others[j].first <= these[i].last /\ others[j].first \in Nat /\ these[i].last \in Nat
        BY <1>3, <1>4, <2>8
      <3>2. ASSUME NEW k \in i+1..a PROVE ~(these[k].first <= others[j].first)
        <4>1. k \in 1..a /\ these[k].first \in Nat
          BY <1>3, <1>4
        <4> QED BY <2>3, <2>8, <3>1, <4>1
      <3>3. \A k \in i+1..a : ~RangeContains(these[k], others[j])
        BY <3>2 DEF RangeContains
      <3>4. \A k \in i..a : ~RangeContains(these[k], others[j])
        BY <2>3, <2>8, <3>3
      <3> QED BY <1>3, <2>3, <2>8, <3>4
    <2> QED BY <1>3, <2>1, <2>2, <2>5, <2>6, <2>7, <2>8
  <1> HIDE DEF behind
  <1>7. \A i \in 1..a+1, j \in 1..b+1 : g[<<i, j>>] = behind(i, j)
    <2>1. \A i \in 1..a+1, j \in 1..b+1 : <<i, j>> \in Places
      OBVIOUS
    <2> QED BY <2>1
  <1>8. ASSUME NEW f, f = [at \in Places |-> f[at]],
               \A i \in 1..a+1, j \in 1..b+1 : f[<<i, j>>] = turn(f, i, j)
        PROVE  f = walk(f)
    <2>1. ASSUME NEW at \in Places PROVE f[at] = walk(f)[at]
      <3>1. at = <<at[1], at[2]>> /\ at[1] \in 1..a+1 /\ at[2] \in 1..b+1
        OBVIOUS
      <3>2. f[<<at[1], at[2]>>] = turn(f, at[1], at[2])
        BY <1>8, <3>1
      <3>3. walk(f)[at] = turn(f, at[1], at[2])
        OBVIOUS
      <3> HIDE DEF turn, walk
      <3> QED BY <3>1, <3>2, <3>3
    <2> QED BY <1>8, <2>1
  <1>9. g = walk(g)
    <2>1. g = [at \in Places |-> g[at]]
      OBVIOUS
    <2> HIDE DEF g
    <2>2. ASSUME NEW i \in 1..a+1, NEW j \in 1..b+1 PROVE g[<<i, j>>] = turn(g, i, j)
      <3>1. (i <= a => i+1 \in 1..a+1) /\ (j <= b => j+1 \in 1..b+1)
        BY <1>3
      <3>2. /\ g[<<i, j>>] = behind(i, j)
            /\ i <= a => g[<<i+1, j>>] = behind(i+1, j)
            /\ j <= b => g[<<i, j+1>>] = behind(i, j+1)
        BY <1>7, <3>1
      <3>3. (i <= a \/ i > a) /\ (j <= b \/ j > b)
        BY <1>3
      <3> QED BY <1>6, <3>2, <3>3
    <2> HIDE DEF walk, turn
    <2> QED BY <1>8, <2>1, <2>2
  <1>10. from = walk(from)
    <2> HIDE DEF walk, g
    <2> QED BY <1>9
  <1> HIDE DEF g, from, walk
  <1>11. \A i \in 1..a+1, j \in 1..b+1 : from[<<i, j>>] = g[<<i, j>>]
    <2>1. ASSUME NEW i \in 1..a+1, NEW j \in 1..b+1
          PROVE  \/ from[<<i, j>>] = g[<<i, j>>]
                 \/ i <= a /\ from[<<i, j>>] = from[<<i+1, j>>] /\ g[<<i, j>>] = g[<<i+1, j>>]
                 \/ j <= b /\ from[<<i, j>>] = from[<<i, j+1>>] /\ g[<<i, j>>] = g[<<i, j+1>>]
      <3>1. from[<<i, j>>] = turn(from, i, j) /\ g[<<i, j>>] = turn(g, i, j)
        <4> HIDE DEF turn
        <4> QED BY <1>2, <1>9, <1>10
      <3>2. i <= a \/ i > a
        BY <1>3
      <3>3. j <= b \/ j > b
        BY <1>3
      <3> QED BY <3>1, <3>2, <3>3
    <2>2. MoveTogether(a, b, from, g)
      BY <2>1 DEF MoveTogether
    <2>3. a \in Nat /\ b \in Nat
      BY <1>3
    <2>4. Agree(a, b, from, g)
      BY <2>2, <2>3, WalksAgree
    <2> QED BY <2>4 DEF Agree
  <1>12. from[<<1, 1>>] = g[<<1, 1>>] /\ g[<<1, 1>>] = behind(1, 1)
    BY <1>3, <1>7, <1>11
  <1>13. behind(1, 1) <=> AddressesOf(others) \subseteq AddressesOf(these)
    <2>1. behind(1, 1) <=> \A l \in 1..b : others[l].first .. others[l].last \subseteq AddressesOf(these)
      <3>1. \A l \in 1..b : others[l] \in AddressRange
        BY <1>3 DEF IsAddressRanges
      <3> HIDE DEF a, b
      <3> QED BY <1>3, <3>1, WithinOneRange DEF behind
    <2>2. AddressesOf(others) = UNION { others[l].first .. others[l].last : l \in 1..b }
      BY <1>3 DEF AddressesOf, ToSet
    <2> HIDE DEF b
    <2> QED BY <2>1, <2>2
  <1> QED BY <1>1, <1>12, <1>13
-----------------------------------------------------------------------------
(* The constructors.                                                       *)

\* Where r does not begin before the last range, it is added to the addresses
\* and leaves the gaps.
LEMMA AppendedKeeps ==
    ASSUME NEW rs, IsAddressRanges(rs), NEW r \in AddressRange,
           rs # <<>> => rs[Len(rs)].first <= r.first,
           NEW all, all = Appended(rs, r)
    PROVE  /\ IsAddressRanges(all) /\ all # <<>> /\ all[Len(all)].first <= r.first
           /\ AddressesOf(all) = AddressesOf(rs) \cup (r.first .. r.last)
  <1>1. /\ rs \in Seq(AddressRange) /\ Len(rs) \in Nat /\ DOMAIN rs = 1..Len(rs)
        /\ r.first \in Nat /\ r.last \in Nat /\ r.first <= r.last
        /\ \A k \in DOMAIN rs : /\ rs[k].first \in Nat /\ rs[k].last \in Nat
                                /\ rs[k].first <= rs[k].last
    BY AddressAssumption DEF IsAddressRanges, AddressRange, Addresses
  <1>2. \A k, l \in 1..Len(rs) : k < l => rs[k].last + 1 < rs[l].first
    BY <1>1 DEF IsAddressRanges
  <1>3. \A q \in Seq(AddressRange) :
          AddressesOf(q) = UNION { q[k].first .. q[k].last : k \in 1..Len(q) }
    <2>1. ASSUME NEW q \in Seq(AddressRange)
          PROVE  AddressesOf(q) = UNION { q[k].first .. q[k].last : k \in 1..Len(q) }
      BY DEF AddressesOf, ToSet
    <2> QED BY <2>1
  <1>4. CASE rs = <<>>
    <2>1. all = <<r>>
      BY <1>4 DEF Appended
    <2>2. all \in Seq(AddressRange) /\ Len(all) = 1 /\ all[1] = r /\ DOMAIN all = 1..1 /\ all # <<>>
      BY <2>1
    <2>3. IsAddressRanges(all)
      BY <2>2 DEF IsAddressRanges
    <2>4. ToSet(all) = {r} /\ ToSet(rs) = {}
      BY <1>4, <2>1 DEF ToSet
    <2> QED BY <1>1, <2>2, <2>3, <2>4 DEF AddressesOf
  <1>5. CASE rs # <<>>
    <2> DEFINE n == Len(rs)
               last == rs[n]
    <2>1. /\ n \in 1..Len(rs) /\ n \in Nat /\ n > 0
          /\ last \in AddressRange /\ last.first \in Nat /\ last.last \in Nat
          /\ last.first <= last.last /\ last.first <= r.first
      BY <1>1, <1>5
    <2>2. CASE RangeContains(last, r)
      <3>1. all = rs
        BY <1>5, <2>2 DEF Appended
      <3>2. r.first .. r.last \subseteq last.first .. last.last
        BY <1>1, <2>1, <2>2 DEF RangeContains
      <3>3. last.first .. last.last \subseteq AddressesOf(rs)
        BY <1>1, <1>3, <2>1
      <3> QED BY <1>5, <2>1, <3>1, <3>2, <3>3
    <2>3. CASE ~RangeContains(last, r) /\ (Overlap(last, r) \/ last.last + 1 = r.first)
      <3> DEFINE longer == [first |-> last.first, last |-> r.last]
      <3>1. last.last < r.last /\ r.first <= last.last + 1
        BY <1>1, <2>1, <2>3 DEF RangeContains, Overlap
      <3>2. FirstToLast(last.first, r.last) = longer
        BY <1>1, <2>1, <3>1 DEF FirstToLast
      <3>3. all = [rs EXCEPT ![n] = longer]
        BY <1>5, <2>3, <3>2 DEF Appended
      <3>4. longer \in AddressRange
        BY <1>1, <2>1, <3>1, AddressAssumption DEF AddressRange, Addresses
      <3>5. longer.first = last.first /\ longer.last = r.last
        OBVIOUS
      <3> HIDE DEF longer
      <3>6. /\ all \in Seq(AddressRange) /\ Len(all) = n /\ DOMAIN all = 1..n /\ all[n] = longer
            /\ \A k \in 1..n : k # n => all[k] = rs[k]
        <4>1. rs \in [1..n -> AddressRange] /\ n \in 1..n /\ n \in Nat
          BY <1>1, <2>1
        <4> HIDE DEF n, last
        <4>2. all \in [1..n -> AddressRange] /\ all[n] = longer
              /\ \A k \in 1..n : k # n => all[k] = rs[k]
          BY <3>3, <3>4, <4>1
        <4>3. all \in Seq(AddressRange) /\ Len(all) = n
          BY <4>1, <4>2
        <4> QED BY <4>2, <4>3
      <3>7. ASSUME NEW k \in 1..n, NEW l \in 1..n, k < l
            PROVE  all[k].last + 1 < all[l].first
        <4>1. all[k] = rs[k]
          <5>1. k # n
            BY <2>1, <3>7
          <5> HIDE DEF n, last
          <5> QED BY <3>6, <5>1
        <4>2. l # n => all[l] = rs[l]
          BY <3>6
        <4>3. l = n => all[l].first = rs[l].first
          BY <3>5, <3>6
        <4> QED BY <1>2, <3>7, <4>1, <4>2, <4>3
      <3>8. IsAddressRanges(all)
        BY <3>6, <3>7 DEF IsAddressRanges
      <3>9. all # <<>> /\ all[Len(all)].first <= r.first
        <4>1. all[Len(all)].first = last.first
          BY <3>5, <3>6
        <4>2. Len(all) # 0
          <5> HIDE DEF n, last
          <5>1. Len(all) = n /\ n > 0 /\ n \in Nat
            BY <2>1, <3>6
          <5> QED BY <5>1
        <4> QED BY <2>1, <4>1, <4>2
      <3>10. last.first .. r.last = (last.first .. last.last) \cup (r.first .. r.last)
        BY <1>1, <2>1, <3>1
      <3>11. AddressesOf(all) = AddressesOf(rs) \cup (r.first .. r.last)
        <4> DEFINE before == UNION { rs[k].first .. rs[k].last : k \in { k \in 1..n : k # n } }
        <4>1. AddressesOf(all) = UNION { all[k].first .. all[k].last : k \in 1..n }
          BY <1>3, <3>6
        <4>2. AddressesOf(all) = before \cup (last.first .. r.last)
          BY <2>1, <3>5, <3>6, <4>1
        <4>3. AddressesOf(rs) = UNION { rs[k].first .. rs[k].last : k \in 1..n }
          BY <1>1, <1>3
        <4>4. AddressesOf(rs) = before \cup (last.first .. last.last)
          BY <2>1, <4>3
        <4> HIDE DEF before, last, n
        <4> QED BY <3>10, <4>2, <4>4
      <3> QED BY <3>8, <3>9, <3>11
    <2>4. CASE ~RangeContains(last, r) /\ ~Overlap(last, r) /\ last.last + 1 # r.first
      <3>1. last.last + 1 < r.first
        BY <1>1, <2>1, <2>4 DEF Overlap
      <3>2. all = Append(rs, r)
        BY <1>5, <2>4 DEF Appended
      <3>3. /\ all \in Seq(AddressRange) /\ Len(all) = n + 1 /\ DOMAIN all = 1..n+1
            /\ all[n+1] = r /\ \A k \in 1..n : all[k] = rs[k]
        BY <1>1, <2>1, <3>2
      <3>4. \A k \in 1..n : rs[k].last + 1 < r.first
        <4>1. ASSUME NEW k \in 1..n, k # n PROVE rs[k].last + 1 < r.first
          <5>1. rs[k].last + 1 < last.first
            BY <1>2, <2>1, <4>1
          <5>2. rs[k].last \in Nat
            BY <1>1
          <5> QED BY <1>1, <2>1, <5>1, <5>2
        <4> QED BY <3>1, <4>1
      <3>5. ASSUME NEW k \in 1..n+1, NEW l \in 1..n+1, k < l
            PROVE  all[k].last + 1 < all[l].first
        <4>1. k \in 1..n
          BY <2>1, <3>5
        <4>2. CASE l = n + 1
          BY <3>3, <3>4, <4>1, <4>2
        <4>3. CASE l # n + 1
          <5>1. l \in 1..n
            BY <2>1, <4>3
          <5> QED BY <1>2, <3>3, <3>5, <4>1, <5>1
        <4> QED BY <4>2, <4>3
      <3>6. IsAddressRanges(all)
        BY <3>3, <3>5 DEF IsAddressRanges
      <3>7. all # <<>> /\ all[Len(all)].first <= r.first
        BY <1>1, <2>1, <3>3
      <3>8. AddressesOf(all) = AddressesOf(rs) \cup (r.first .. r.last)
        <4>1. AddressesOf(all) = UNION { all[k].first .. all[k].last : k \in 1..n+1 }
          BY <1>3, <3>3
        <4>2. AddressesOf(rs) = UNION { rs[k].first .. rs[k].last : k \in 1..n }
          BY <1>1, <1>3
        <4>3. \A k : k \in 1..n+1 <=> k \in 1..n \/ k = n+1
          BY <2>1
        <4> HIDE DEF last, n
        <4> QED BY <3>3, <4>1, <4>2, <4>3
      <3> QED BY <3>6, <3>7, <3>8
    <2> QED BY <2>2, <2>3, <2>4
  <1> QED BY <1>4, <1>5

\* What the loop has made of the first n ranges.
MergesTo(sorted, n, merged) ==
    /\ merged[0] = <<>>
    /\ \A k \in 1..n : merged[k] = Appended(merged[k-1], sorted[k])

LEMMA MergesToSomething ==
    ASSUME NEW sorted, NEW n \in Nat
    PROVE  \E merged : DOMAIN merged = 0..n /\ MergesTo(sorted, n, merged)
  <1> DEFINE Without == { m \in Nat : ~\E merged : DOMAIN merged = 0..m /\ MergesTo(sorted, m, merged) }
  <1>1. SUFFICES ASSUME Without # {} PROVE FALSE
    OBVIOUS
  <1>2. PICK m \in Without : \A k \in Without : m <= k
    <2>1. Without \in SUBSET Nat
      OBVIOUS
    <2> HIDE DEF Without
    <2> QED BY <1>1, <2>1, LeastNat
  <1>3. m \in Nat
    OBVIOUS
  <1>4. CASE m = 0
    <2> DEFINE none == [k \in 0..0 |-> <<>>]
    <2>1. DOMAIN none = 0..0 /\ MergesTo(sorted, 0, none)
      BY DEF MergesTo
    <2> HIDE DEF none
    <2> QED BY <1>4, <2>1
  <1>5. CASE m # 0
    <2>1. m - 1 \in Nat /\ ~(m <= m - 1)
      BY <1>3, <1>5
    <2>2. PICK before : DOMAIN before = 0..m-1 /\ MergesTo(sorted, m-1, before)
      BY <1>2, <2>1
    <2> DEFINE merged == [k \in 0..m |-> IF k = m THEN Appended(before[m-1], sorted[m])
                                         ELSE before[k]]
    <2>3. \A k \in 0..m-1 : merged[k] = before[k]
      BY <1>3
    <2>4. merged[m] = Appended(before[m-1], sorted[m]) /\ DOMAIN merged = 0..m
      BY <1>3
    <2> HIDE DEF merged
    <2>5. MergesTo(sorted, m, merged)
      <3>1. merged[0] = <<>>
        BY <2>1, <2>2, <2>3 DEF MergesTo
      <3>2. ASSUME NEW k \in 1..m PROVE merged[k] = Appended(merged[k-1], sorted[k])
        <4>1. CASE k = m
          <5>1. m - 1 \in 0..m-1
            BY <2>1
          <5> QED BY <2>3, <2>4, <4>1, <5>1
        <4>2. CASE k # m
          <5>1. k \in 1..m-1 /\ k \in 0..m-1 /\ k-1 \in 0..m-1
            BY <1>3, <4>2
          <5> QED BY <2>2, <2>3, <5>1 DEF MergesTo
        <4> QED BY <4>1, <4>2
      <3> QED BY <3>1, <3>2 DEF MergesTo
    <2> QED BY <2>4, <2>5
  <1> QED BY <1>4, <1>5

\* The loop of the constructors makes ranges in ascending order with gaps of the
\* sorted ranges it is given, and keeps every address of theirs and no other.
THEOREM MergedIsAddressRanges ==
    ASSUME NEW sorted \in Seq(AddressRange),
           \A i, j \in DOMAIN sorted : i < j => ~Less(sorted[j], sorted[i])
    PROVE  IsAddressRanges(Merged(sorted)) /\ AddressesOf(Merged(sorted)) = AddressesOf(sorted)
  <1> DEFINE n == Len(sorted)
             turns(f) == [k \in 0..n |-> IF k = 0 THEN <<>> ELSE Appended(f[k-1], sorted[k])]
             merged == CHOOSE f : f = turns(f)
             first(k) == UNION { sorted[i].first .. sorted[i].last : i \in 1..k }
  <1>1. /\ n \in Nat /\ DOMAIN sorted = 1..n
        /\ \A i \in 1..n : sorted[i] \in AddressRange /\ sorted[i].first \in Nat
    BY AddressAssumption DEF AddressRange, Addresses
  <1>2. PICK f : DOMAIN f = 0..n /\ MergesTo(sorted, n, f)
    <2> HIDE DEF n
    <2> QED BY <1>1, MergesToSomething
  <1> DEFINE known == [k \in 0..n |-> f[k]]
  <1>3. known = turns(known)
    <2>1. ASSUME NEW k \in 0..n, k # 0
          PROVE  known[k] = Appended(known[k-1], sorted[k])
      <3>1. k \in 1..n /\ k - 1 \in 0..n
        BY <1>1, <2>1
      <3> HIDE DEF n
      <3> QED BY <1>2, <3>1 DEF MergesTo
    <2>2. 0 \in 0..n /\ f[0] = <<>>
      BY <1>1, <1>2 DEF MergesTo
    <2>3. known[0] = <<>>
      BY <2>2
    <2>4. known = [k \in 0..n |-> known[k]]
      OBVIOUS
    <2> HIDE DEF known, n
    <2> QED BY <2>1, <2>3, <2>4
  <1>4. merged = turns(merged)
    <2> HIDE DEF known, turns
    <2> QED BY <1>3
  <1>5. merged[0] = <<>> /\ \A k \in 1..n : merged[k] = Appended(merged[k-1], sorted[k])
    <2> HIDE DEF merged
    <2>1. 0 \in 0..n /\ \A k \in 1..n : k \in 0..n /\ k # 0
      BY <1>1
    <2> HIDE DEF n
    <2> QED BY <1>4, <2>1
  <1> HIDE DEF merged
  <1> DEFINE Right(k) == /\ IsAddressRanges(merged[k])
                         /\ AddressesOf(merged[k]) = first(k)
                         /\ k = 0 => merged[k] = <<>>
                         /\ k # 0 => merged[k][Len(merged[k])].first <= sorted[k].first
             Wrong == { k \in 0..n : ~Right(k) }
  <1>6. \A k \in 0..n : Right(k)
    <2>1. SUFFICES ASSUME Wrong # {} PROVE FALSE
      OBVIOUS
    <2>2. PICK k \in Wrong : \A l \in Wrong : k <= l
      <3>1. Wrong \in SUBSET Nat
        BY <1>1
      <3> HIDE DEF Wrong
      <3> QED BY <2>1, <3>1, LeastNat
    <2>3. k \in 0..n /\ k \in Nat /\ ~Right(k)
      BY <1>1
    <2>4. CASE k = 0
      <3>1. ToSet(<<>>) = {} /\ first(0) = {}
        BY DEF ToSet
      <3>2. IsAddressRanges(<<>>) /\ AddressesOf(<<>>) = {}
        BY <3>1 DEF IsAddressRanges, AddressesOf
      <3> QED BY <1>5, <2>3, <2>4, <3>1, <3>2
    <2>5. CASE k # 0
      <3>1. k \in 1..n /\ k - 1 \in 0..n /\ ~(k <= k - 1)
        BY <1>1, <2>3, <2>5
      <3>2. Right(k-1)
        BY <2>2, <3>1
      <3>3. sorted[k] \in AddressRange /\ merged[k] = Appended(merged[k-1], sorted[k])
        BY <1>1, <1>5, <3>1
      <3>4. merged[k-1] # <<>> => merged[k-1][Len(merged[k-1])].first <= sorted[k].first
        <4>1. SUFFICES ASSUME merged[k-1] # <<>>
                       PROVE  merged[k-1][Len(merged[k-1])].first <= sorted[k].first
          OBVIOUS
        <4>2. k - 1 # 0 /\ merged[k-1][Len(merged[k-1])].first <= sorted[k-1].first
          BY <3>2, <4>1
        <4>3. k - 1 \in 1..n /\ k - 1 < k
          BY <1>1, <3>1, <4>2
        <4>4. sorted[k-1].first <= sorted[k].first
          BY <1>1, <3>1, <4>3 DEF Less
        <4>5. merged[k-1][Len(merged[k-1])].first \in Nat
          <5> DEFINE rs == merged[k-1]
          <5>1. rs \in Seq(AddressRange) /\ rs # <<>>
            BY <3>2, <4>1 DEF IsAddressRanges
          <5> HIDE DEF rs
          <5>2. rs[Len(rs)] \in AddressRange
            BY <5>1
          <5>3. rs[Len(rs)].first \in Nat
            BY <5>2, AddressAssumption DEF AddressRange, Addresses
          <5> QED BY <5>3 DEF rs
        <4> QED BY <1>1, <3>1, <4>2, <4>3, <4>4, <4>5
      <3>5. /\ IsAddressRanges(merged[k]) /\ merged[k][Len(merged[k])].first <= sorted[k].first
            /\ AddressesOf(merged[k]) = AddressesOf(merged[k-1]) \cup (sorted[k].first .. sorted[k].last)
        <4>1. IsAddressRanges(merged[k-1])
          BY <3>2
        <4> HIDE DEF n, Right, Wrong
        <4> QED BY <3>3, <3>4, <4>1, AppendedKeeps
      <3>6. first(k) = first(k-1) \cup (sorted[k].first .. sorted[k].last)
        <4>1. \A i : i \in 1..k <=> i \in 1..k-1 \/ i = k
          BY <2>3, <2>5
        <4> QED BY <4>1
      <3> HIDE DEF first
      <3> QED BY <2>3, <2>5, <3>2, <3>5, <3>6
    <2> QED BY <2>4, <2>5
  <1>7. AddressesOf(sorted) = first(n)
    BY <1>1 DEF AddressesOf, ToSet
  <1>8. Merged(sorted) = merged[n]
    BY DEF Merged, merged
  <1>9. n \in 0..n
    BY <1>1
  <1> HIDE DEF n, first
  <1> QED BY <1>6, <1>7, <1>8, <1>9

-----------------------------------------------------------------------------
(* The maps follow the register.                                           *)

StaticSet == ToSet(Static)
PresetSet == ToSet(Presets)

\* The shape of the register; every phase has adapters of the lists only.
Shape ==
    /\ phase \in {"creating", "open", "connecting"}
    /\ next \in Nat \ {0}
    /\ Registered \subseteq StaticSet \cup PresetSet
    /\ \A p \in Registered : IsAddressRanges(ranges[p])
    /\ DOMAIN maps = DeviceTypes
    /\ \A t \in DeviceTypes : DOMAIN maps[t] \subseteq AddressRange

\* What is created next is not registered yet, and static adapters have the
\* ranges of the table.
Created ==
    /\ \A p \in Registered : p \in StaticSet => ranges[p] = Row[p].ranges
    /\ phase = "creating" =>
         /\ next \in DOMAIN Static
         /\ Registered \subseteq { Static[i] : i \in { i \in DOMAIN Static : i < next } }
    /\ phase = "connecting" =>
         \A j \in DOMAIN Presets : Presets[j] \in Registered => j < next

MapsApart == \A t \in DeviceTypes : ApartSet(DOMAIN maps[t])

RegisterInv == Shape /\ Created /\ MapsApart /\ RegisteredIsMapped

LEMMA ToSetOfSeq ==
    ASSUME NEW S, NEW q \in Seq(S)
    PROVE  /\ ToSet(q) \subseteq S
           /\ \A i \in DOMAIN q : q[i] \in ToSet(q)
           /\ \A x \in ToSet(q) : \E i \in DOMAIN q : x = q[i]
           /\ \A i \in DOMAIN q : i \in Nat \ {0}
  BY DEF ToSet

\* The lists of the table have properties, and no property twice.
LEMMA Lists ==
    /\ StaticSet \subseteq Property /\ PresetSet \subseteq Property
    /\ StaticSet \cap PresetSet = {}
    /\ Static # <<>>
    /\ \A i, j \in DOMAIN Presets : Presets[i] = Presets[j] => i = j
    /\ \A i, j \in DOMAIN Static : Static[i] = Static[j] => i = j
    /\ 1 \in DOMAIN Static
  <1>1. Static \in Seq(Property) /\ Presets \in Seq(Property) /\ Static # <<>>
    BY TableAssumption
  <1>2. StaticSet \cap PresetSet = {}
    BY <1>1, ToSetOfSeq, TableAssumption DEF StaticSet, PresetSet
  <1>3. 1 \in DOMAIN Static
    BY <1>1
  <1> QED BY <1>1, <1>2, <1>3, ToSetOfSeq, TableAssumption DEF StaticSet, PresetSet

\* mapAdapterAddressRanges for a property that does not exist yet.
LEMMA AddedIsMapped ==
    ASSUME Shape, MapsApart, RegisteredIsMapped,
           NEW p \in Property, p \notin Registered,
           NEW rs \in Seq(AddressRange), ApartSet(ToSet(rs)),
           \A t \in DeviceTypes : Row[p].access[t] # {} => GetOverlap(maps[t], ToSet(rs)) = {},
           AddValueAdapter(p, rs)
    PROVE  /\ Registered' = Registered \cup {p}
           /\ \A q \in Registered : ranges'[q] = ranges[q]
           /\ ranges'[p] = rs
           /\ DOMAIN maps' = DeviceTypes
           /\ \A t \in DeviceTypes : DOMAIN maps'[t] \subseteq AddressRange
           /\ MapsApart'
           /\ RegisteredIsMapped'
  <1>1. /\ Registered' = Registered \cup {p}
        /\ \A q \in Registered : ranges'[q] = ranges[q]
        /\ ranges'[p] = rs
    BY DEF AddValueAdapter, Registered
  <1>2. ToSet(rs) \in SUBSET AddressRange
    BY ToSetOfSeq
  <1>3. ASSUME NEW t \in DeviceTypes, Row[p].access[t] # {}, rs # <<>>
        PROVE  /\ DOMAIN maps'[t] = DOMAIN maps[t] \cup ToSet(rs)
               /\ ApartSet(DOMAIN maps'[t])
               /\ \A r \in DOMAIN maps[t] : maps'[t][r] = maps[t][r]
               /\ \A r \in ToSet(rs) : maps'[t][r] = p
    <2>1. maps'[t] = AddRanges(maps[t], ToSet(rs), p)
      BY <1>3 DEF AddValueAdapter
    <2>2. DOMAIN maps[t] \subseteq AddressRange /\ ApartSet(DOMAIN maps[t])
      BY DEF Shape, MapsApart
    <2>3. GetOverlap(maps[t], ToSet(rs)) = {}
      BY <1>3
    <2>4. maps'[t] = [r \in DOMAIN maps[t] \cup ToSet(rs) |->
                        IF r \in DOMAIN maps[t] THEN maps[t][r] ELSE p]
      BY <2>1, <2>3 DEF AddRanges
    <2>5. ApartSet(DOMAIN maps[t] \cup ToSet(rs)) /\ ToSet(rs) \cap DOMAIN maps[t] = {}
      BY <1>2, <2>2, <2>3, AddRangesKeepsApart
    <2> QED BY <2>4, <2>5
  <1>4. ASSUME NEW t \in DeviceTypes, Row[p].access[t] = {} \/ rs = <<>>
        PROVE  maps'[t] = maps[t]
    BY <1>4 DEF AddValueAdapter
  <1>5. rs = <<>> => ToSet(rs) = {}
    BY DEF ToSet
  <1>6. \A t \in DeviceTypes : DOMAIN maps'[t] \subseteq AddressRange
    BY <1>2, <1>3, <1>4 DEF Shape
  <1>7. MapsApart'
    BY <1>3, <1>4 DEF MapsApart
  <1>8. RegisteredIsMapped'
    <2> SUFFICES ASSUME NEW t \in DeviceTypes
                 PROVE  /\ \A q \in Registered' : Row[q].access[t] # {} =>
                             \A r \in ToSet(ranges'[q]) : r \in DOMAIN maps'[t] /\ maps'[t][r] = q
                        /\ \A r \in DOMAIN maps'[t] :
                             /\ maps'[t][r] \in Registered'
                             /\ Row[maps'[t][r]].access[t] # {}
                             /\ r \in ToSet(ranges'[maps'[t][r]])
      BY DEF RegisteredIsMapped
    <2>1. \A q \in Registered : Row[q].access[t] # {} =>
            \A r \in ToSet(ranges[q]) : r \in DOMAIN maps[t] /\ maps[t][r] = q
      BY DEF RegisteredIsMapped
    <2>2. \A r \in DOMAIN maps[t] :
            /\ maps[t][r] \in Registered
            /\ Row[maps[t][r]].access[t] # {}
            /\ r \in ToSet(ranges[maps[t][r]])
      BY DEF RegisteredIsMapped
    <2>3. CASE Row[p].access[t] # {} /\ rs # <<>>
      BY <1>1, <1>3, <2>1, <2>2, <2>3
    <2>4. CASE Row[p].access[t] = {} \/ rs = <<>>
      BY <1>1, <1>4, <1>5, <2>1, <2>2, <2>4
    <2> QED BY <2>3, <2>4
  <1>9. DOMAIN maps' = DeviceTypes
    BY DEF AddValueAdapter
  <1> QED BY <1>1, <1>6, <1>7, <1>8, <1>9

\* removeDynamicPresetAdapters
LEMMA RemovedIsUnmapped ==
    ASSUME Shape, MapsApart, RegisteredIsMapped, RemoveDynamicPresetAdapters
    PROVE  /\ Registered' = Registered \ PresetSet
           /\ \A q \in Registered' : ranges'[q] = ranges[q]
           /\ DOMAIN maps' = DeviceTypes
           /\ \A t \in DeviceTypes : DOMAIN maps'[t] \subseteq AddressRange
           /\ MapsApart'
           /\ RegisteredIsMapped'
  <1>1. /\ Registered' = Registered \ PresetSet
        /\ \A q \in Registered' : ranges'[q] = ranges[q]
        /\ DOMAIN maps' = DeviceTypes
    BY DEF RemoveDynamicPresetAdapters, Registered, PresetSet
  <1>2. ASSUME NEW t \in DeviceTypes
        PROVE  /\ DOMAIN maps'[t] = { r \in DOMAIN maps[t] : maps[t][r] \notin PresetSet }
               /\ \A r \in DOMAIN maps'[t] : maps'[t][r] = maps[t][r]
    BY DEF RemoveDynamicPresetAdapters, RemoveRanges, PresetSet
  <1>3. (\A t \in DeviceTypes : DOMAIN maps'[t] \subseteq AddressRange) /\ MapsApart'
    BY <1>2 DEF Shape, MapsApart, ApartSet
  <1>4. RegisteredIsMapped'
    BY <1>1, <1>2 DEF RegisteredIsMapped
  <1> QED BY <1>1, <1>3, <1>4

\* Before anything is created.
LEMMA RegisterInit == Init => RegisterInv
  <1> SUFFICES ASSUME Init PROVE RegisterInv
    OBVIOUS
  <1>1. Registered = {}
    BY DEF Init, Registered
  <1>2. \A t \in DeviceTypes : DOMAIN maps[t] = {}
    BY DEF Init, EmptyMap
  <1>3. Shape
    BY <1>1, <1>2 DEF Init, Shape
  <1>4. Created
    BY <1>1, Lists DEF Init, Created
  <1>5. MapsApart /\ RegisteredIsMapped
    BY <1>1, <1>2 DEF MapsApart, RegisteredIsMapped, ApartSet
  <1> QED BY <1>3, <1>4, <1>5 DEF RegisterInv

\* What the assumption says of a static property.
LEMMA StaticTable ==
    ASSUME NEW i \in DOMAIN Static
    PROVE  /\ IsAddressRanges(Row[Static[i]].ranges)
           /\ ApartSet(ToSet(Row[Static[i]].ranges))
           /\ \A j \in DOMAIN Static, t \in DeviceTypes :
                j # i /\ Row[Static[i]].access[t] # {} /\ Row[Static[j]].access[t] # {} =>
                  \A r \in ToSet(Row[Static[i]].ranges), s \in ToSet(Row[Static[j]].ranges) :
                     ~Overlap(r, s)
  <1> DEFINE rs == Row[Static[i]].ranges
  <1>1. IsAddressRanges(rs)
    BY TableAssumption
  <1> HIDE DEF rs
  <1>4. ApartSet(ToSet(rs))
    BY <1>1, AddressRangesAreApart
  <1>5. \A j \in DOMAIN Static \ {i}, t \in DeviceTypes :
          Row[Static[i]].access[t] # {} /\ Row[Static[j]].access[t] # {} =>
            \A r \in ToSet(Row[Static[i]].ranges), s \in ToSet(Row[Static[j]].ranges) :
               ~Overlap(r, s)
    BY TableAssumption
  <1> QED BY <1>1, <1>4, <1>5 DEF rs

\* createAdapters: the table keeps static adapters apart.
LEMMA CreateAdapterKeeps == RegisterInv /\ CreateAdapter => RegisterInv'
  <1> SUFFICES ASSUME RegisterInv, CreateAdapter PROVE RegisterInv'
    OBVIOUS
  <1> DEFINE p == Static[next]
             rs == Row[p].ranges
  <1>1. next \in DOMAIN Static /\ p \in Property /\ p \in StaticSet
    <2>1. next \in DOMAIN Static
      BY DEF RegisterInv, Created, CreateAdapter
    <2>2. Static \in Seq(Property)
      BY TableAssumption
    <2> QED BY <2>1, <2>2, ToSetOfSeq DEF StaticSet
  <1>2. IsAddressRanges(rs) /\ rs \in Seq(AddressRange) /\ ApartSet(ToSet(rs))
    BY <1>1, StaticTable DEF IsAddressRanges
  <1>3. \A q \in Registered : \E i \in DOMAIN Static : i < next /\ q = Static[i]
    BY DEF RegisterInv, Created, CreateAdapter
  <1>4. p \notin Registered
    <2>1. next \in Nat
      BY DEF RegisterInv, Shape
    <2>2. \A i \in DOMAIN Static : i < next => i # next
      BY <2>1
    <2> QED BY <1>1, <1>3, <2>2, Lists
  <1>5. ASSUME NEW t \in DeviceTypes, Row[p].access[t] # {}
        PROVE  GetOverlap(maps[t], ToSet(rs)) = {}
    <2>1. ASSUME NEW r \in DOMAIN maps[t], NEW s \in ToSet(rs)
          PROVE  ~Overlap(r, s)
      <3>1. /\ maps[t][r] \in Registered
            /\ Row[maps[t][r]].access[t] # {}
            /\ r \in ToSet(ranges[maps[t][r]])
        BY DEF RegisterInv, RegisteredIsMapped
      <3>2. PICK i \in DOMAIN Static : i < next /\ maps[t][r] = Static[i]
        BY <1>3, <3>1
      <3>3. ranges[Static[i]] = Row[Static[i]].ranges
        <4>1. Static[i] \in StaticSet
          <5>1. Static \in Seq(Property)
            BY TableAssumption
          <5> QED BY <5>1, ToSetOfSeq DEF StaticSet
        <4> QED BY <3>1, <3>2, <4>1 DEF RegisterInv, Created
      <3>4. i # next
        BY <3>2 DEF RegisterInv, Shape
      <3>5. ~Overlap(s, r)
        BY <1>1, <1>5, <3>1, <3>2, <3>3, <3>4, StaticTable
      <3> QED BY <3>5, OverlapIsSymmetric
    <2>2. DOMAIN maps[t] \subseteq AddressRange /\ ApartSet(DOMAIN maps[t])
      BY DEF RegisterInv, Shape, MapsApart
    <2>3. ToSet(rs) \in SUBSET AddressRange
      BY <1>2, ToSetOfSeq
    <2>4. GetOverlap(maps[t], ToSet(rs)) =
            { maps[t][r] : r \in { r \in DOMAIN maps[t] : \E s \in ToSet(rs) : Overlap(r, s) } }
      BY <2>2, <2>3, GetOverlapIsExact
    <2> QED BY <2>1, <2>4
  <1>6. AddValueAdapter(p, rs)
    BY DEF CreateAdapter
  <1> HIDE DEF rs
  <1>7. /\ Registered' = Registered \cup {p}
        /\ \A q \in Registered : ranges'[q] = ranges[q]
        /\ ranges'[p] = rs
        /\ DOMAIN maps' = DeviceTypes
        /\ \A t \in DeviceTypes : DOMAIN maps'[t] \subseteq AddressRange
        /\ MapsApart'
        /\ RegisteredIsMapped'
    BY <1>1, <1>2, <1>4, <1>5, <1>6, AddedIsMapped DEF RegisterInv
  <1>8. Shape'
    <2>1. next' \in Nat \ {0} /\ phase' \in {"creating", "open", "connecting"}
      BY DEF RegisterInv, Shape, CreateAdapter
    <2> QED BY <1>1, <1>2, <1>7, <2>1 DEF RegisterInv, Shape
  <1>9. Created'
    <2>1. \A q \in Registered' : q \in StaticSet => ranges'[q] = Row[q].ranges
      BY <1>7 DEF RegisterInv, Created, rs
    <2>2. ASSUME phase' = "creating"
          PROVE  /\ next' \in DOMAIN Static
                 /\ Registered' \subseteq { Static[i] : i \in { i \in DOMAIN Static : i < next' } }
      <3>1. next' = next + 1 /\ next # Len(Static)
        BY <2>2 DEF CreateAdapter
      <3>2. next \in Nat /\ Static \in Seq(Property)
        BY TableAssumption DEF RegisterInv, Shape
      <3>3. next' \in DOMAIN Static
        BY <1>1, <3>1, <3>2
      <3>4. \A i \in DOMAIN Static : i < next => i < next'
        BY <3>1, <3>2
      <3> QED BY <1>1, <1>3, <1>7, <3>1, <3>2, <3>3, <3>4
    <2>3. phase' # "connecting"
      BY DEF CreateAdapter
    <2> QED BY <2>1, <2>2, <2>3 DEF Created
  <1> QED BY <1>7, <1>8, <1>9 DEF RegisterInv

\* The presets are gone: at a new connection, or for want of a good table.
LEMMA RemovingKeeps ==
    ASSUME RegisterInv, RemoveDynamicPresetAdapters, phase' = "connecting", next' \in Nat \ {0}
    PROVE  RegisterInv'
  <1>1. /\ Registered' = Registered \ PresetSet
        /\ \A q \in Registered' : ranges'[q] = ranges[q]
        /\ DOMAIN maps' = DeviceTypes
        /\ \A t \in DeviceTypes : DOMAIN maps'[t] \subseteq AddressRange
        /\ MapsApart'
        /\ RegisteredIsMapped'
    BY RemovedIsUnmapped DEF RegisterInv
  <1>2. Shape'
    BY <1>1 DEF RegisterInv, Shape
  <1>3. \A j \in DOMAIN Presets : Presets[j] \notin Registered'
    <2>1. Presets \in Seq(Property)
      BY TableAssumption
    <2> QED BY <1>1, <2>1, ToSetOfSeq DEF PresetSet
  <1>4. Created'
    BY <1>1, <1>3 DEF RegisterInv, Created
  <1> QED BY <1>1, <1>2, <1>4 DEF RegisterInv

\* addPresetAdapter: whatever address the camera reports.
LEMMA AddPresetAdapterKeeps ==
    ASSUME RegisterInv, NEW address, AddPresetAdapter(address)
    PROVE  RegisterInv'
  <1> DEFINE p == Presets[next]
             range == FirstAndSize(address, Row[p].size)
  <1>1. /\ phase = "connecting" /\ phase' = "connecting"
        /\ next \in DOMAIN Presets
        /\ address \in PresetAddresses[next]
    BY DEF AddPresetAdapter
  <1>2. next \in Nat \ {0}
    BY DEF RegisterInv, Shape
  <1>3. CASE PresetRangeOk(range)
    <2>1. AddValueAdapter(p, <<range>>) /\ next' = next + 1
      BY <1>3 DEF AddPresetAdapter
    <2>2. p \in Property /\ p \in PresetSet /\ p \notin StaticSet
      <3>1. Presets \in Seq(Property)
        BY TableAssumption
      <3> QED BY <1>1, <3>1, ToSetOfSeq, Lists DEF PresetSet
    <2>3. range \in AddressRange
      <3>1. Row[p].size \in Nat /\ address \in Addresses
        BY <1>1, TableAssumption
      <3> QED BY <3>1, FirstAndSizeIsRange
    <2>4. p \notin Registered
      <3>1. p \in Registered => next < next
        BY <1>1 DEF RegisterInv, Created
      <3> QED BY <1>2, <3>1
    <2>5. Row[p].access["loader"] = {}
      BY <1>1, TableAssumption
    <2>6. GetOverlap(maps["main"], {range}) = {}
      BY <1>3 DEF PresetRangeOk
    <2> HIDE DEF range
    <2>7. /\ <<range>> \in Seq(AddressRange) /\ ToSet(<<range>>) = {range}
          /\ IsAddressRanges(<<range>>)
      BY <2>3 DEF ToSet, IsAddressRanges
    <2>8. ApartSet(ToSet(<<range>>))
      BY <2>7 DEF ApartSet
    <2>9. \A t \in DeviceTypes : Row[p].access[t] # {} =>
            GetOverlap(maps[t], ToSet(<<range>>)) = {}
      BY <2>5, <2>6, <2>7 DEF DeviceTypes
    <2> DEFINE rs == <<range>>
    <2> HIDE DEF rs
    <2>10. /\ Registered' = Registered \cup {p}
           /\ \A q \in Registered : ranges'[q] = ranges[q]
           /\ ranges'[p] = rs
           /\ DOMAIN maps' = DeviceTypes
           /\ \A t \in DeviceTypes : DOMAIN maps'[t] \subseteq AddressRange
           /\ MapsApart'
           /\ RegisteredIsMapped'
      <3>1. /\ rs \in Seq(AddressRange) /\ ApartSet(ToSet(rs)) /\ AddValueAdapter(p, rs)
            /\ \A t \in DeviceTypes : Row[p].access[t] # {} => GetOverlap(maps[t], ToSet(rs)) = {}
        BY <2>1, <2>7, <2>8, <2>9 DEF rs
      <3> QED BY <2>2, <2>4, <3>1, AddedIsMapped DEF RegisterInv
    <2>11. Shape'
      <3>1. phase' \in {"creating", "open", "connecting"} /\ next' \in Nat \ {0}
        BY <1>1, <1>2, <2>1
      <3>2. \A q \in Registered' : IsAddressRanges(ranges'[q])
        BY <2>7, <2>10 DEF RegisterInv, Shape, rs
      <3>3. Registered' \subseteq StaticSet \cup PresetSet
        BY <2>2, <2>10 DEF RegisterInv, Shape
      <3> QED BY <2>10, <3>1, <3>2, <3>3 DEF Shape
    <2>12. \A j \in DOMAIN Presets : Presets[j] \in Registered' => j < next'
      <3>1. ASSUME NEW j \in DOMAIN Presets, Presets[j] \in Registered
            PROVE  j < next'
        <4>1. j < next /\ j \in Nat
          <5>1. Presets \in Seq(Property)
            BY TableAssumption
          <5> QED BY <1>1, <3>1, <5>1 DEF RegisterInv, Created
        <4> QED BY <1>2, <2>1, <4>1
      <3>2. ASSUME NEW j \in DOMAIN Presets, Presets[j] = p
            PROVE  j < next'
        BY <1>1, <1>2, <2>1, <3>2, Lists
      <3> QED BY <2>10, <3>1, <3>2
    <2>13. Created'
      BY <1>1, <2>2, <2>10, <2>12 DEF RegisterInv, Created
    <2> QED BY <2>10, <2>11, <2>13 DEF RegisterInv
  <1>4. CASE ~PresetRangeOk(range)
    <2>1. RemoveDynamicPresetAdapters /\ next' = Len(Presets) + 1
      BY <1>4 DEF AddPresetAdapter
    <2>2. next' \in Nat \ {0}
      <3>1. Presets \in Seq(Property)
        BY TableAssumption
      <3> QED BY <2>1, <3>1
    <2> QED BY <1>1, <2>1, <2>2, RemovingKeeps
  <1> QED BY <1>3, <1>4

\* A step that leaves the register alone and does not begin a phase.
LEMMA QuietStepKeeps ==
    ASSUME RegisterInv, UNCHANGED <<next, registerVars>>, phase' \in {phase, "open"}
    PROVE  RegisterInv'
  <1>1. ranges' = ranges /\ maps' = maps /\ next' = next /\ Registered' = Registered
    BY DEF registerVars, Registered
  <1>2. Shape' /\ Created'
    BY <1>1 DEF RegisterInv, Shape, Created
  <1>3. MapsApart' /\ RegisteredIsMapped'
    BY <1>1 DEF RegisterInv, MapsApart, RegisteredIsMapped, Registered
  <1> QED BY <1>2, <1>3 DEF RegisterInv

LEMMA RegisterNext == RegisterInv /\ [Next]_vars => RegisterInv'
  <1> SUFFICES ASSUME RegisterInv, [Next]_vars PROVE RegisterInv'
    OBVIOUS
  <1>1. CASE CreateAdapter
    BY <1>1, CreateAdapterKeeps
  <1>2. ASSUME NEW t \in Types, BeginConnection(t) PROVE RegisterInv'
    BY <1>2, RemovingKeeps DEF BeginConnection
  <1>3. ASSUME NEW address, AddPresetAdapter(address) PROVE RegisterInv'
    BY <1>3, AddPresetAdapterKeeps
  <1>4. CASE PresetTableError
    <2>1. Presets \in Seq(Property)
      BY TableAssumption
    <2>2. next' \in Nat \ {0} /\ phase' = "connecting" /\ RemoveDynamicPresetAdapters
      BY <1>4, <2>1 DEF PresetTableError
    <2> QED BY <2>2, RemovingKeeps
  <1>5. CASE Connected
    BY <1>5, QuietStepKeeps DEF Connected, registerVars
  <1>6. ASSUME NEW p \in Touched, Touch(p) PROVE RegisterInv'
    BY <1>6, QuietStepKeeps DEF Touch
  <1>7. ASSUME NEW w \in WildRanges, WriteData(w) PROVE RegisterInv'
    BY <1>7, QuietStepKeeps DEF WriteData
  <1>8. CASE RunStep
    BY <1>8, QuietStepKeeps DEF RunStep, Start, AccessRead, AccessWrite, UpdateValueAfterRead,
       InvalidateProperties
  <1>9. CASE UNCHANGED vars
    BY <1>9, QuietStepKeeps DEF vars, registerVars
  <1> QED BY <1>1, <1>2, <1>3, <1>4, <1>5, <1>6, <1>7, <1>8, <1>9 DEF Next

\* Whatever addresses cameras report, the maps of addresses follow the register.
THEOREM MapsFollowTheRegister == Spec => []RegisteredIsMapped
  <1>1. RegisterInv => RegisteredIsMapped
    BY DEF RegisterInv
  <1> QED BY RegisterInit, RegisterNext, <1>1, PTL DEF Spec

-----------------------------------------------------------------------------
(* What cannot be read has no value.                                       *)

\* Outside of an open register no task can bring a value.
ValueInv ==
    /\ DOMAIN status = Property /\ DOMAIN value = Property
    /\ phase # "open" => tasks = {} /\ \A p \in Property : value[p] = None
    /\ UnreadableHasNoValue

LEMMA ValueInit == Init => ValueInv
  BY DEF Init, ValueInv, UnreadableHasNoValue, Readable

\* Values are only set where a property can be read, or forgotten.
LEMMA SetValuesKeeps ==
    ASSUME ValueInv, NEW values, NEW changed, NEW old, SetValues(values, changed, old),
           \A p \in Property : ~Readable(p) => values[p] = None,
           phase = "open", phase' = phase
    PROVE  ValueInv'
  <1>1. DOMAIN status' = Property /\ DOMAIN value' = Property
    BY DEF SetValues
  <1>2. ASSUME NEW p \in Property, ~Readable(p)' PROVE value'[p] = None
    <2>1. CASE status'[p] # status[p]
      BY <1>2, <2>1 DEF SetValues, Readable
    <2>2. CASE status'[p] = status[p]
      <3>1. ~Readable(p)
        BY <1>2, <2>2 DEF Readable
      <3>2. value'[p] = None \/ value'[p] = values[p]
        BY DEF SetValues
      <3> QED BY <3>1, <3>2
    <2> QED BY <2>1, <2>2
  <1> QED BY <1>1, <1>2 DEF ValueInv, UnreadableHasNoValue

LEMMA ValueNext == ValueInv /\ [Next]_vars => ValueInv'
  <1> SUFFICES ASSUME ValueInv, [Next]_vars PROVE ValueInv'
    OBVIOUS
  <1> USE DEF ValueInv, UnreadableHasNoValue, Readable
  <1>1. CASE CreateAdapter
    BY <1>1 DEF CreateAdapter
  <1>2. ASSUME NEW t \in Types, BeginConnection(t) PROVE ValueInv'
    BY <1>2 DEF BeginConnection
  <1>3. ASSUME NEW address, AddPresetAdapter(address) PROVE ValueInv'
    BY <1>3 DEF AddPresetAdapter
  <1>4. CASE PresetTableError
    BY <1>4 DEF PresetTableError
  <1>5. CASE Connected
    BY <1>5 DEF Connected
  <1>6. ASSUME NEW p \in Touched, Touch(p) PROVE ValueInv'
    BY <1>6 DEF Touch, valueVars
  <1>7. ASSUME NEW w \in WildRanges, WriteData(w) PROVE ValueInv'
    BY <1>7 DEF WriteData, valueVars
  <1>8. ASSUME NEW t \in tasks, Start(t) \/ AccessRead(t) \/ AccessWrite(t) PROVE ValueInv'
    BY <1>8 DEF Start, AccessRead, AccessWrite, valueVars
  <1>9. ASSUME NEW t \in tasks, UpdateValueAfterRead(t) PROVE ValueInv'
    <2>1. phase = "open" /\ phase' = phase
      BY <1>9 DEF UpdateValueAfterRead
    <2>2. CASE Readable(t.of)
      <3> DEFINE values == [value EXCEPT ![t.of] = t.answer]
                 old == IF t.old THEN overwritten \cup {t.of} ELSE overwritten \ {t.of}
      <3>1. SetValues(values, {t.of}, old)
        BY <1>9, <2>2 DEF UpdateValueAfterRead
      <3>2. \A p \in Property : ~Readable(p) => values[p] = None
        BY <2>2
      <3> HIDE DEF values, old
      <3> QED BY <2>1, <3>1, <3>2, SetValuesKeeps
    <2>3. CASE ~Readable(t.of)
      BY <1>9, <2>1, <2>3 DEF UpdateValueAfterRead, valueVars
    <2> QED BY <2>2, <2>3
  <1>10. ASSUME NEW t \in tasks, InvalidateProperties(t) PROVE ValueInv'
    <2>1. phase = "open" /\ phase' = phase
      BY <1>10 DEF InvalidateProperties
    <2> DEFINE invalid == IF type \in DeviceTypes
                          THEN GetOverlap(maps[type], ToSet(t.ranges)) ELSE {}
               values == [p \in Property |-> IF p \in invalid THEN None ELSE value[p]]
    <2>2. SetValues(values, invalid, overwritten)
      BY <1>10 DEF InvalidateProperties
    <2> HIDE DEF invalid
    <2>3. \A p \in Property : ~Readable(p) => values[p] = None
      OBVIOUS
    <2> HIDE DEF values
    <2> QED BY <2>1, <2>2, <2>3, SetValuesKeeps
  <1>11. CASE UNCHANGED vars
    BY <1>11 DEF vars
  <1> QED BY <1>1, <1>2, <1>3, <1>4, <1>5, <1>6, <1>7, <1>8, <1>9, <1>10, <1>11 DEF Next, RunStep

\* The assertion of PropertyAdapterValue::touch: a property that cannot be read
\* has no value, whatever answers come and whenever they do.
THEOREM WhatCannotBeReadHasNoValue == Spec => []UnreadableHasNoValue
  <1>1. ValueInv => UnreadableHasNoValue
    BY DEF ValueInv
  <1> QED BY ValueInit, ValueNext, <1>1, PTL DEF Spec

-----------------------------------------------------------------------------
(* What can be read can be addressed.                                      *)

\* The table asks for no register that the memory of the device type lacks.
StaticIsAddressable ==
    \A i \in DOMAIN Static, t \in DeviceTypes :
      "read" \in Row[Static[i]].access[t] =>
        \A r \in ToSet(Row[Static[i]].ranges) : MemoryDescriptors(t, r) # {}

\* No more can be done than the device type allows, and presets are in the memory
\* of the only device type that has them.
AddressInv ==
    /\ RegisterInv
    /\ DOMAIN status = Property
    /\ \A p \in Property : status[p] \subseteq StatusForDevice(p, type)
    /\ \A p \in Registered \cap PresetSet :
         \A r \in ToSet(ranges[p]) : MemoryDescriptors("main", r) # {}

LEMMA AddressInit == Init => AddressInv
  BY RegisterInit DEF Init, AddressInv, Registered

LEMMA SetValuesAllows ==
    ASSUME AddressInv, NEW values, NEW changed, NEW old, SetValues(values, changed, old)
    PROVE  /\ DOMAIN status' = Property
           /\ \A p \in Property : status'[p] \subseteq StatusForDevice(p, type)
  BY DEF AddressInv, SetValues, StatusByValues

LEMMA StepIsAddressed ==
    ASSUME AddressInv, Next
    PROVE  /\ DOMAIN status' = Property
           /\ \A p \in Property : status'[p] \subseteq StatusForDevice(p, type)'
  <1>1. CASE CreateAdapter
    BY <1>1 DEF AddressInv, CreateAdapter, StatusForDevice
  <1>2. ASSUME NEW t \in Types, BeginConnection(t)
        PROVE  DOMAIN status' = Property /\ \A p \in Property : status'[p] = {}
    BY <1>2 DEF BeginConnection
  <1>3. ASSUME NEW address, AddPresetAdapter(address) PROVE UNCHANGED <<status, type>>
    BY <1>3 DEF AddPresetAdapter
  <1>4. CASE PresetTableError
    BY <1>4 DEF AddressInv, PresetTableError, StatusForDevice
  <1>5. CASE Connected
    BY <1>5 DEF Connected, StatusByValues, StatusForDevice
  <1>6. ASSUME NEW p \in Touched, Touch(p) PROVE UNCHANGED <<status, type>>
    BY <1>6 DEF Touch, valueVars
  <1>7. ASSUME NEW w \in WildRanges, WriteData(w) PROVE UNCHANGED <<status, type>>
    BY <1>7 DEF WriteData, valueVars
  <1>8. ASSUME NEW t \in tasks, Start(t) \/ AccessRead(t) \/ AccessWrite(t)
        PROVE  UNCHANGED <<status, type>>
    BY <1>8 DEF Start, AccessRead, AccessWrite, valueVars
  <1>9. ASSUME NEW t \in tasks, UpdateValueAfterRead(t)
        PROVE  /\ DOMAIN status' = Property /\ type' = type
               /\ \A p \in Property : status'[p] \subseteq StatusForDevice(p, type)
    <2>1. type' = type
      BY <1>9 DEF UpdateValueAfterRead
    <2>2. \/ UNCHANGED status
          \/ \E values, old : SetValues(values, {t.of}, old)
      BY <1>9 DEF UpdateValueAfterRead, valueVars
    <2> QED BY <2>1, <2>2, SetValuesAllows DEF AddressInv
  <1>10. ASSUME NEW t \in tasks, InvalidateProperties(t)
         PROVE  /\ DOMAIN status' = Property /\ type' = type
                /\ \A p \in Property : status'[p] \subseteq StatusForDevice(p, type)
    <2>1. type' = type
      BY <1>10 DEF InvalidateProperties
    <2>2. \E values, changed : SetValues(values, changed, overwritten)
      BY <1>10 DEF InvalidateProperties
    <2> QED BY <2>1, <2>2, SetValuesAllows
  <1> QED BY <1>1, <1>2, <1>3, <1>4, <1>5, <1>6, <1>7, <1>8, <1>9, <1>10
      DEF Next, RunStep, AddressInv, StatusForDevice

LEMMA PresetsAreAddressed ==
    ASSUME AddressInv, Next
    PROVE  \A p \in Registered' \cap PresetSet :
             \A r \in ToSet(ranges'[p]) : MemoryDescriptors("main", r) # {}
  <1>1. CASE CreateAdapter
    <2>1. Static[next] \in StaticSet
      <3>1. Static \in Seq(Property) /\ next \in DOMAIN Static
        BY <1>1, TableAssumption DEF AddressInv, RegisterInv, Created, CreateAdapter
      <3> QED BY <3>1, ToSetOfSeq DEF StaticSet
    <2>2. \A p \in Registered' \cap PresetSet : p \in Registered /\ ranges'[p] = ranges[p]
      BY <1>1, <2>1, Lists DEF CreateAdapter, AddValueAdapter, Registered
    <2> QED BY <2>2 DEF AddressInv
  <1>2. CASE RemoveDynamicPresetAdapters
    BY <1>2, RemovedIsUnmapped DEF AddressInv, RegisterInv
  <1>3. ASSUME NEW address, AddPresetAdapter(address), ~RemoveDynamicPresetAdapters
        PROVE  \A p \in Registered' \cap PresetSet :
                 \A r \in ToSet(ranges'[p]) : MemoryDescriptors("main", r) # {}
    <2> DEFINE q == Presets[next]
               range == FirstAndSize(address, Row[q].size)
    <2>1. newType = "main" /\ PresetRangeOk(range) /\ AddValueAdapter(q, <<range>>)
      BY <1>3 DEF AddPresetAdapter
    <2>2. MemoryDescriptors("main", range) # {}
      BY <2>1 DEF PresetRangeOk
    <2> HIDE DEF range
    <2>3. ToSet(<<range>>) = {range}
      BY DEF ToSet
    <2>4. /\ Registered' = Registered \cup {q}
          /\ ranges'[q] = <<range>>
          /\ \A p \in Registered : p # q => ranges'[p] = ranges[p]
      BY <2>1 DEF AddValueAdapter, Registered
    <2> QED BY <2>2, <2>3, <2>4 DEF AddressInv
  <1>4. CASE UNCHANGED registerVars
    BY <1>4 DEF AddressInv, registerVars, Registered
  <1>5. \A t \in Types : BeginConnection(t) => RemoveDynamicPresetAdapters
    BY DEF BeginConnection
  <1>6. PresetTableError => RemoveDynamicPresetAdapters
    BY DEF PresetTableError
  <1>7. Connected \/ RunStep \/ (\E p \in Touched : Touch(p)) \/ (\E w \in WildRanges : WriteData(w))
          => UNCHANGED registerVars
    BY DEF Connected, Touch, WriteData, RunStep, Start, AccessRead, AccessWrite,
       UpdateValueAfterRead, InvalidateProperties, registerVars
  <1> QED BY <1>1, <1>2, <1>3, <1>4, <1>5, <1>6, <1>7 DEF Next

LEMMA AddressNext == AddressInv /\ [Next]_vars => AddressInv'
  <1> SUFFICES ASSUME AddressInv, [Next]_vars PROVE AddressInv'
    OBVIOUS
  <1>1. RegisterInv'
    BY RegisterNext DEF AddressInv
  <1>2. CASE Next
    BY <1>1, <1>2, StepIsAddressed, PresetsAreAddressed DEF AddressInv
  <1>3. CASE UNCHANGED vars
    BY <1>1, <1>3 DEF AddressInv, vars, Registered, StatusForDevice
  <1> QED BY <1>2, <1>3

\* With a table that fits the memory, no preset address a camera reports lets the
\* program read what the device interface refuses.
THEOREM WhatCanBeReadIsAddressable ==
    ASSUME StaticIsAddressable
    PROVE  Spec => []ReadableIsAddressable
  <1>1. AddressInv => ReadableIsAddressable
    <2> SUFFICES ASSUME AddressInv, NEW p \in Registered, Readable(p), NEW r \in ToSet(ranges[p])
                 PROVE  MemoryDescriptors(type, r) # {}
      BY DEF ReadableIsAddressable
    <2>1. p \in StaticSet \cup PresetSet /\ p \in Property
      BY Lists DEF AddressInv, RegisterInv, Shape
    <2>2. "read" \in StatusForDevice(p, type)
      BY <2>1 DEF AddressInv, Readable
    <2>3. type \in DeviceTypes /\ "read" \in Row[p].access[type]
      BY <2>2 DEF StatusForDevice
    <2>4. CASE p \in StaticSet
      <3>1. PICK i \in DOMAIN Static : p = Static[i]
        BY <2>4 DEF StaticSet, ToSet
      <3>2. ranges[p] = Row[p].ranges
        BY <2>4 DEF AddressInv, RegisterInv, Created
      <3> QED BY <2>3, <3>1, <3>2, StaticIsAddressable DEF StaticIsAddressable
    <2>5. CASE p \in PresetSet
      <3>1. PICK j \in DOMAIN Presets : p = Presets[j]
        BY <2>5 DEF PresetSet, ToSet
      <3>2. type = "main"
        BY <2>3, <3>1, TableAssumption DEF DeviceTypes
      <3> QED BY <2>5, <3>2 DEF AddressInv
    <2> QED BY <2>1, <2>4, <2>5
  <1> QED BY AddressInit, AddressNext, <1>1, PTL DEF Spec

-----------------------------------------------------------------------------
(* What was overwritten is forgotten.                                      *)

TaskRecord ==
    [of : Property \cup {NoSource}, ranges : Seq(AddressRange),
     stage : {"waiting", "running", "accessed"},
     answer : {None} \cup UNION { Answers[p] : p \in Property }, old : BOOLEAN]

HasThread(t) == t.stage # "waiting"

\* Tasks with a thread have no address in common, and so no read is ever
\* overtaken by a write.
TaskInv ==
    /\ tasks \subseteq TaskRecord
    /\ \A t \in tasks : IsAddressRanges(t.ranges) /\ (IsRead(t) => ~t.old)
    /\ \A t, u \in tasks :
         t # u /\ HasThread(t) /\ HasThread(u) => ~HaveCommonAddress(t.ranges, u.ranges)

\* What is not registered cannot be read, and nothing can outside of an open register.
StatusInv ==
    /\ \A p \in Property \ Registered : status[p] = {}
    /\ phase # "open" => \A p \in Property : status[p] = {}

OverwrittenInv ==
    /\ phase # "open" => overwritten = {}
    /\ overwritten \subseteq Registered
    /\ \A p \in overwritten : value[p] # None
    /\ ForgetsOverwritten

ForgettingInv == AddressInv /\ ValueInv /\ StatusInv /\ TaskInv /\ OverwrittenInv

LEMMA ForgettingInit == Init => ForgettingInv
  <1> SUFFICES ASSUME Init PROVE ForgettingInv
    OBVIOUS
  <1>1. AddressInv /\ ValueInv
    BY AddressInit, ValueInit
  <1>2. StatusInv
    BY DEF Init, StatusInv
  <1>3. TaskInv /\ OverwrittenInv
    BY DEF Init, TaskInv, OverwrittenInv, ForgetsOverwritten
  <1> QED BY <1>1, <1>2, <1>3 DEF ForgettingInv

\* Only what is registered takes a new status.
LEMMA StatusNext == StatusInv /\ ValueInv /\ [Next]_vars => StatusInv'
  <1> SUFFICES ASSUME StatusInv, ValueInv, [Next]_vars PROVE StatusInv'
    OBVIOUS
  <1> USE DEF StatusInv
  <1>1. CASE CreateAdapter
    BY <1>1 DEF CreateAdapter, AddValueAdapter, Registered
  <1>2. ASSUME NEW t \in Types, BeginConnection(t) PROVE StatusInv'
    BY <1>2 DEF BeginConnection
  <1>3. ASSUME NEW address, AddPresetAdapter(address) PROVE StatusInv'
    BY <1>3 DEF AddPresetAdapter
  <1>4. CASE PresetTableError
    BY <1>4 DEF PresetTableError
  <1>5. CASE Connected
    BY <1>5 DEF Connected, Registered
  <1>6. ASSUME NEW p \in Touched, Touch(p) PROVE StatusInv'
    BY <1>6 DEF Touch, valueVars, registerVars, Registered
  <1>7. ASSUME NEW w \in WildRanges, WriteData(w) PROVE StatusInv'
    BY <1>7 DEF WriteData, valueVars, registerVars, Registered
  <1>8. ASSUME NEW t \in tasks, Start(t) \/ AccessRead(t) \/ AccessWrite(t) PROVE StatusInv'
    BY <1>8 DEF Start, AccessRead, AccessWrite, valueVars, registerVars, Registered
  <1>9. ASSUME NEW values, NEW changed, NEW old, SetValues(values, changed, old),
               UNCHANGED <<phase, registerVars>>, phase = "open"
        PROVE  StatusInv'
    BY <1>9 DEF SetValues, registerVars, Registered
  <1>10. ASSUME NEW t \in tasks, UpdateValueAfterRead(t) \/ InvalidateProperties(t)
         PROVE  StatusInv'
    <2>1. UNCHANGED <<phase, registerVars>> /\ phase = "open"
      BY <1>10 DEF UpdateValueAfterRead, InvalidateProperties, ValueInv
    <2>2. UNCHANGED valueVars \/ \E values, changed, old : SetValues(values, changed, old)
      BY <1>10 DEF UpdateValueAfterRead, InvalidateProperties
    <2>3. CASE UNCHANGED valueVars
      BY <2>1, <2>3 DEF valueVars, registerVars, Registered
    <2> QED BY <1>9, <2>1, <2>2, <2>3
  <1>11. CASE UNCHANGED vars
    BY <1>11 DEF vars, Registered
  <1> QED BY <1>1, <1>2, <1>3, <1>4, <1>5, <1>6, <1>7, <1>8, <1>10, <1>11 DEF Next, RunStep

\* A read that is asked for is a task over the ranges of its property.
LEMMA WithReadsKeeps ==
    ASSUME AddressInv, StatusInv, NEW old, NEW properties \in SUBSET Property,
           old \subseteq TaskRecord,
           \A t \in old : IsAddressRanges(t.ranges) /\ (IsRead(t) => ~t.old),
           NEW reads, reads = WithReads(old, ToRead(properties))
    PROVE  /\ reads \subseteq TaskRecord /\ old \subseteq reads
           /\ \A t \in reads : IsAddressRanges(t.ranges) /\ (IsRead(t) => ~t.old)
           /\ \A t \in reads : HasThread(t) => t \in old
  <1>1. ASSUME NEW t \in reads, t \notin old
        PROVE  \E p \in Registered : p \in Property /\ t = Read(p)
    <2>1. PICK p \in ToRead(properties) : t = Read(p)
      BY <1>1 DEF WithReads
    <2>2. p \in Property /\ p \in Registered
      BY <2>1 DEF ToRead, Readable, StatusInv
    <2> QED BY <2>1, <2>2
  <1>2. ASSUME NEW p \in Registered, p \in Property
        PROVE  /\ Read(p) \in TaskRecord
               /\ IsAddressRanges(Read(p).ranges) /\ ~Read(p).old /\ ~HasThread(Read(p))
    BY <1>2 DEF AddressInv, RegisterInv, Shape, IsAddressRanges, Read, TaskRecord, HasThread
  <1>3. old \subseteq reads
    BY DEF WithReads
  <1> QED BY <1>1, <1>2, <1>3

\* A task that moves on keeps its ranges; it has a thread only next to tasks
\* with which it has no address in common.
LEMMA MovingKeeps ==
    ASSUME TaskInv, NEW t \in tasks, NEW u \in TaskRecord,
           u.of = t.of, u.ranges = t.ranges, u.old = t.old,
           \A v \in tasks : v # t /\ HasThread(v) => ~HaveCommonAddress(t.ranges, v.ranges),
           tasks' = Moving(t, u)
    PROVE  TaskInv'
  <1>1. \A x, y : HaveCommonAddress(x, y) <=> HaveCommonAddress(y, x)
    BY DEF HaveCommonAddress, Overlap
  <1>2. \A v \in tasks' : v = u \/ (v \in tasks /\ v # t)
    BY DEF Moving
  <1>3. tasks' \subseteq TaskRecord
    BY <1>2 DEF TaskInv
  <1>4. \A v \in tasks' : IsAddressRanges(v.ranges) /\ (IsRead(v) => ~v.old)
    BY <1>2 DEF TaskInv, IsRead
  <1>5. ASSUME NEW v \in tasks', NEW w \in tasks', v # w, HasThread(v), HasThread(w)
        PROVE  ~HaveCommonAddress(v.ranges, w.ranges)
    BY <1>1, <1>2, <1>5 DEF TaskInv
  <1> QED BY <1>3, <1>4, <1>5 DEF TaskInv

\* Start: the two walks are right, so that a task gets a thread only where it
\* has no address in common with the tasks that have one.
LEMMA StartKeeps ==
    ASSUME TaskInv, NEW t \in tasks, Start(t)
    PROVE  TaskInv'
  <1> DEFINE u == [t EXCEPT !.stage = "running"]
  <1>1. t \in TaskRecord
    BY DEF TaskInv
  <1>2. u \in TaskRecord /\ u.of = t.of /\ u.ranges = t.ranges /\ u.old = t.old
    BY <1>1 DEF TaskRecord
  <1>3. ASSUME NEW v \in tasks, v # t, HasThread(v)
        PROVE  ~HaveCommonAddress(t.ranges, v.ranges)
    <2>1. ~RangesOverlap(t.ranges, v.ranges)
      BY <1>3 DEF Start, HasThread
    <2>2. IsAddressRanges(t.ranges) /\ IsAddressRanges(v.ranges)
      BY DEF TaskInv
    <2> QED BY <2>1, <2>2, RangesOverlapIsExact
  <1>4. tasks' = Moving(t, u)
    BY DEF Start
  <1> HIDE DEF u
  <1> QED BY <1>2, <1>3, <1>4, MovingKeeps

LEMMA AccessReadKeeps ==
    ASSUME TaskInv, NEW t \in tasks, AccessRead(t)
    PROVE  TaskInv'
  <1>1. PICK answer \in Answers[t.of] :
          tasks' = Moving(t, [t EXCEPT !.stage = "accessed", !.answer = answer])
    BY DEF AccessRead
  <1> DEFINE u == [t EXCEPT !.stage = "accessed", !.answer = answer]
  <1>2. t \in TaskRecord /\ t.of \in Property
    BY DEF TaskInv, AccessRead, IsRead, TaskRecord
  <1>3. u \in TaskRecord /\ u.of = t.of /\ u.ranges = t.ranges /\ u.old = t.old
    BY <1>2 DEF TaskRecord
  <1>4. \A v \in tasks : v # t /\ HasThread(v) => ~HaveCommonAddress(t.ranges, v.ranges)
    BY DEF TaskInv, AccessRead, HasThread
  <1> HIDE DEF u
  <1> QED BY <1>1, <1>3, <1>4, MovingKeeps DEF u

\* AccessWrite: no read that has accessed the device has an address of the write.
LEMMA AccessWriteKeeps ==
    ASSUME TaskInv, NEW t \in tasks, AccessWrite(t)
    PROVE  tasks' = Moving(t, [t EXCEPT !.stage = "accessed"]) /\ TaskInv'
  <1> DEFINE u == [t EXCEPT !.stage = "accessed"]
             marked(v) == [v EXCEPT !.old = @ \/ (v.stage = "accessed" /\ IsRead(v)
                                                   /\ HaveCommonAddress(v.ranges, t.ranges))]
  <1>1. t \in TaskRecord /\ t.stage = "running"
    BY DEF TaskInv, AccessWrite
  <1>2. u \in TaskRecord /\ u.of = t.of /\ u.ranges = t.ranges /\ u.old = t.old
    BY <1>1 DEF TaskRecord
  <1>3. \A v \in tasks : v # t /\ HasThread(v) => /\ ~HaveCommonAddress(t.ranges, v.ranges)
                                                 /\ ~HaveCommonAddress(v.ranges, t.ranges)
    BY <1>1 DEF TaskInv, HasThread
  <1>4. ASSUME NEW v \in tasks, v # t
        PROVE  marked(v) = v
    <2>1. v \in TaskRecord
      BY DEF TaskInv
    <2>2. ~(v.stage = "accessed" /\ IsRead(v) /\ HaveCommonAddress(v.ranges, t.ranges))
      BY <1>3, <1>4 DEF HasThread
    <2>3. v.old \in BOOLEAN /\ v = [v EXCEPT !.old = v.old]
      BY <2>1 DEF TaskRecord
    <2> QED BY <2>2, <2>3
  <1>5. tasks' = { IF v = t THEN u ELSE marked(v) : v \in tasks }
    BY DEF AccessWrite
  <1>6. tasks' = Moving(t, u)
    <2> HIDE DEF u, marked
    <2> QED BY <1>4, <1>5 DEF Moving
  <1> HIDE DEF u, marked
  <1>7. TaskInv'
    BY <1>2, <1>3, <1>6, MovingKeeps
  <1> QED BY <1>6, <1>7 DEF u

\* A task leaves, and reads come that wait.
LEMMA ReadsKeep ==
    ASSUME AddressInv, StatusInv, TaskInv, NEW old \in SUBSET tasks,
           NEW properties \in SUBSET Property, tasks' = WithReads(old, ToRead(properties))
    PROVE  TaskInv' /\ old \subseteq tasks'
  <1>1. /\ old \subseteq TaskRecord
        /\ \A t \in old : IsAddressRanges(t.ranges) /\ (IsRead(t) => ~t.old)
    BY DEF TaskInv
  <1>2. /\ tasks' \subseteq TaskRecord /\ old \subseteq tasks'
        /\ \A t \in tasks' : IsAddressRanges(t.ranges) /\ (IsRead(t) => ~t.old)
        /\ \A t \in tasks' : HasThread(t) => t \in old
    BY <1>1, WithReadsKeeps
  <1>3. \A t, u \in tasks' :
          t # u /\ HasThread(t) /\ HasThread(u) => ~HaveCommonAddress(t.ranges, u.ranges)
    BY <1>2 DEF TaskInv
  <1> QED BY <1>2, <1>3 DEF TaskInv

LEMMA SourcesAreProperties == \A p \in Property : SourcesOf(p) \subseteq Property
  BY TableAssumption DEF SourcesOf

LEMMA RegisteredAreProperties == AddressInv => Registered \subseteq Property
  BY Lists DEF AddressInv, RegisterInv, Shape

LEMMA WriteDataKeeps ==
    ASSUME TaskInv, NEW w \in WildRanges, WriteData(w)
    PROVE  TaskInv'
  <1>1. IsAddressRanges(w)
    BY TableAssumption
  <1>2. /\ Write(w) \in TaskRecord /\ IsAddressRanges(Write(w).ranges)
        /\ ~IsRead(Write(w)) /\ ~HasThread(Write(w))
    BY <1>1 DEF Write, TaskRecord, IsAddressRanges, IsRead, HasThread
  <1>3. tasks' = tasks \cup {Write(w)}
    BY DEF WriteData
  <1> QED BY <1>2, <1>3 DEF TaskInv

\* The end of a read.
LEMMA UpdateKeeps ==
    ASSUME AddressInv, StatusInv, TaskInv, NEW t \in tasks, UpdateValueAfterRead(t)
    PROVE  TaskInv' /\ tasks \ {t} \subseteq tasks'
  <1>1. t.of \in Property
    BY DEF UpdateValueAfterRead, TaskInv, TaskRecord, IsRead
  <1>2. SourcesOf(t.of) \in SUBSET Property
    BY <1>1, SourcesAreProperties
  <1>3. tasks' = WithReads(tasks \ {t}, ToRead(SourcesOf(t.of)))
    BY DEF UpdateValueAfterRead
  <1> QED BY <1>2, <1>3, ReadsKeep

LEMMA TouchKeeps ==
    ASSUME AddressInv, StatusInv, TaskInv, NEW p \in Touched, Touch(p)
    PROVE  TaskInv' /\ tasks \subseteq tasks'
  <1>1. p \in Property
    BY RegisteredAreProperties DEF Touch
  <1>2. {p} \cup SourcesOf(p) \in SUBSET Property
    BY <1>1, SourcesAreProperties
  <1>3. tasks' = WithReads(tasks, ToRead({p} \cup SourcesOf(p)))
    BY DEF Touch
  <1> QED BY <1>2, <1>3, ReadsKeep

LEMMA TaskNext ==
    AddressInv /\ StatusInv /\ TaskInv /\ [Next]_vars => TaskInv'
  <1> SUFFICES ASSUME AddressInv, StatusInv, TaskInv, [Next]_vars PROVE TaskInv'
    OBVIOUS
  <1>1. CASE UNCHANGED tasks
    BY <1>1 DEF TaskInv
  <1>2. ASSUME NEW t \in Types, BeginConnection(t) PROVE TaskInv'
    BY <1>2 DEF BeginConnection, TaskInv
  <1>3. \/ CreateAdapter \/ PresetTableError \/ Connected \/ UNCHANGED vars
        \/ \E address : AddPresetAdapter(address)
        => UNCHANGED tasks
    BY DEF CreateAdapter, PresetTableError, Connected, AddPresetAdapter, vars
  <1>4. ASSUME NEW t \in tasks, InvalidateProperties(t) PROVE TaskInv'
    BY <1>4 DEF InvalidateProperties, TaskInv
  <1> QED BY <1>1, <1>2, <1>3, <1>4, TouchKeeps, WriteDataKeeps, StartKeeps, AccessReadKeeps,
             AccessWriteKeeps, UpdateKeeps DEF Next, RunStep

\* The write over p that has accessed the device and is not finished.
Witness(p, t) ==
    t \in tasks /\ ~IsRead(t) /\ t.stage = "accessed" /\ HaveCommonAddress(t.ranges, ranges[p])

\* Where writes that have accessed the device stay, what they overwrote is still
\* accounted for.
LEMMA WitnessesStay ==
    ASSUME OverwrittenInv, UNCHANGED <<phase, registerVars>>,
           \A t \in tasks : ~IsRead(t) /\ t.stage = "accessed" => t \in tasks',
           overwritten' \subseteq overwritten, \A p \in overwritten' : value'[p] # None
    PROVE  OverwrittenInv'
  BY DEF OverwrittenInv, ForgetsOverwritten, registerVars, Registered

LEMMA AccessWriteForgets ==
    ASSUME TaskInv, ValueInv, OverwrittenInv, NEW t \in tasks, AccessWrite(t)
    PROVE  OverwrittenInv'
  <1> DEFINE u == [t EXCEPT !.stage = "accessed"]
  <1>1. tasks' = Moving(t, u)
    BY AccessWriteKeeps
  <1>2. u.stage = "accessed" /\ ~IsRead(u) /\ u.ranges = t.ranges
    BY DEF AccessWrite, TaskInv, TaskRecord, IsRead
  <1>3. UNCHANGED <<phase, registerVars, value>> /\ t.stage = "running" /\ phase = "open"
    BY DEF AccessWrite, ValueInv
  <1> HIDE DEF u
  <1>4. ASSUME NEW p \in overwritten'
        PROVE  /\ p \in Registered /\ value[p] # None
               /\ \E v \in tasks' : /\ ~IsRead(v) /\ v.stage = "accessed"
                                    /\ HaveCommonAddress(v.ranges, ranges[p])
    <2>1. CASE p \in overwritten
      <3>1. PICK v \in tasks : /\ ~IsRead(v) /\ v.stage = "accessed"
                               /\ HaveCommonAddress(v.ranges, ranges[p])
        BY <2>1 DEF OverwrittenInv, ForgetsOverwritten
      <3>2. v \in tasks'
        BY <1>1, <1>3, <3>1 DEF Moving
      <3> QED BY <2>1, <3>1, <3>2 DEF OverwrittenInv
    <2>2. CASE p \notin overwritten
      <3>1. p \in Registered /\ value[p] # None /\ HaveCommonAddress(ranges[p], t.ranges)
        BY <2>2 DEF AccessWrite
      <3>2. HaveCommonAddress(u.ranges, ranges[p])
        BY <1>2, <3>1 DEF HaveCommonAddress, Overlap
      <3>3. u \in tasks'
        BY <1>1 DEF Moving
      <3> QED BY <1>2, <3>1, <3>2, <3>3
    <2> QED BY <2>1, <2>2
  <1> QED BY <1>3, <1>4 DEF OverwrittenInv, ForgetsOverwritten, registerVars, Registered

\* UpdateValueAfterRead: what was read is from after every write over it.
LEMMA UpdateForgets ==
    ASSUME AddressInv, StatusInv, TaskInv, OverwrittenInv,
           NEW t \in tasks, UpdateValueAfterRead(t)
    PROVE  OverwrittenInv'
  <1>1. /\ UNCHANGED <<phase, registerVars>>
        /\ \A v \in tasks : ~IsRead(v) => v \in tasks'
    BY UpdateKeeps DEF UpdateValueAfterRead
  <1>2. ~t.old
    BY DEF TaskInv, UpdateValueAfterRead
  <1>3. CASE UNCHANGED valueVars
    BY <1>1, <1>3, WitnessesStay DEF valueVars, OverwrittenInv
  <1>4. CASE SetValues([value EXCEPT ![t.of] = t.answer], {t.of}, overwritten \ {t.of})
    BY <1>1, <1>4, WitnessesStay DEF SetValues
  <1> QED BY <1>2, <1>3, <1>4 DEF UpdateValueAfterRead

\* InvalidateProperties: the map of the device type finds every property that
\* the write overlaps and that has a value.
LEMMA InvalidateForgets ==
    ASSUME AddressInv, ValueInv, TaskInv, OverwrittenInv,
           NEW t \in tasks, InvalidateProperties(t)
    PROVE  OverwrittenInv'
  <1> DEFINE invalid == IF type \in DeviceTypes THEN GetOverlap(maps[type], ToSet(t.ranges)) ELSE {}
             values == [p \in Property |-> IF p \in invalid THEN None ELSE value[p]]
  <1>1. /\ UNCHANGED <<phase, registerVars>> /\ tasks' = tasks \ {t}
        /\ SetValues(values, invalid, overwritten)
    BY DEF InvalidateProperties
  <1>2. ASSUME NEW p \in Registered, value[p] # None, HaveCommonAddress(t.ranges, ranges[p])
        PROVE  p \in invalid
    <2>1. p \in Property
      BY RegisteredAreProperties
    <2>2. "read" \in StatusForDevice(p, type)
      BY <1>2, <2>1 DEF ValueInv, UnreadableHasNoValue, Readable, AddressInv
    <2>3. type \in DeviceTypes /\ Row[p].access[type] # {}
      BY <2>2 DEF StatusForDevice
    <2>4. PICK r \in ToSet(t.ranges), s \in ToSet(ranges[p]) : Overlap(r, s)
      BY <1>2 DEF HaveCommonAddress
    <2>5. s \in DOMAIN maps[type] /\ maps[type][s] = p
      BY <2>3 DEF AddressInv, RegisterInv, RegisteredIsMapped
    <2>6. /\ DOMAIN maps[type] \subseteq AddressRange /\ ApartSet(DOMAIN maps[type])
          /\ ToSet(t.ranges) \subseteq AddressRange
      <3>1. t.ranges \in Seq(AddressRange)
        BY DEF TaskInv, IsAddressRanges
      <3> QED BY <2>3, <3>1, ToSetOfSeq DEF AddressInv, RegisterInv, Shape, MapsApart
    <2>7. p \in GetOverlap(maps[type], ToSet(t.ranges))
      BY <2>4, <2>5, <2>6, GetOverlapIsExact DEF Overlap
    <2> QED BY <2>3, <2>7
  <1>3. /\ overwritten' \subseteq overwritten
        /\ \A p \in overwritten' : value'[p] # None
        /\ overwritten' \cap invalid \cap Property = {}
    BY <1>1 DEF SetValues
  <1> HIDE DEF invalid, values
  <1>4. ASSUME NEW p \in overwritten'
        PROVE  \E v \in tasks' : /\ ~IsRead(v) /\ v.stage = "accessed"
                                 /\ HaveCommonAddress(v.ranges, ranges[p])
    <2>1. p \in Registered /\ p \in Property /\ value[p] # None
      BY <1>3, RegisteredAreProperties DEF OverwrittenInv
    <2>2. ~HaveCommonAddress(t.ranges, ranges[p])
      BY <1>2, <1>3, <2>1
    <2>3. PICK v \in tasks : /\ ~IsRead(v) /\ v.stage = "accessed"
                             /\ HaveCommonAddress(v.ranges, ranges[p])
      BY <1>3 DEF OverwrittenInv, ForgetsOverwritten
    <2> QED BY <1>1, <2>2, <2>3
  <1> QED BY <1>1, <1>3, <1>4 DEF OverwrittenInv, ForgetsOverwritten, registerVars, Registered

LEMMA OverwrittenNext == ForgettingInv /\ [Next]_vars => OverwrittenInv'
  <1> SUFFICES ASSUME ForgettingInv, [Next]_vars PROVE OverwrittenInv'
    OBVIOUS
  <1> USE DEF ForgettingInv
  <1>1. ASSUME overwritten' = {} PROVE OverwrittenInv'
    BY <1>1 DEF OverwrittenInv, ForgetsOverwritten
  <1>2. CASE phase # "open" \/ \E t \in Types : BeginConnection(t)
    <2>1. RunStep \/ (\E p \in Touched : Touch(p)) \/ (\E w \in WildRanges : WriteData(w))
          => phase = "open"
      BY DEF ValueInv, RunStep, Touch, WriteData
    <2>2. overwritten' = {}
      BY <1>2, <2>1 DEF OverwrittenInv, Next, CreateAdapter, BeginConnection, AddPresetAdapter,
         PresetTableError, Connected, vars
    <2> QED BY <1>1, <2>2
  <1>3. ASSUME NEW p \in Touched, Touch(p) PROVE OverwrittenInv'
    <2>1. UNCHANGED <<phase, registerVars, valueVars>> /\ tasks \subseteq tasks'
      BY <1>3, TouchKeeps DEF Touch
    <2> QED BY <2>1, WitnessesStay DEF valueVars, OverwrittenInv
  <1>4. ASSUME NEW w \in WildRanges, WriteData(w) PROVE OverwrittenInv'
    BY <1>4, WitnessesStay DEF WriteData, valueVars, OverwrittenInv
  <1>5. ASSUME NEW t \in tasks, Start(t) \/ AccessRead(t) PROVE OverwrittenInv'
    BY <1>5, WitnessesStay DEF Start, AccessRead, Moving, valueVars, OverwrittenInv
  <1>6. ASSUME NEW t \in tasks, AccessWrite(t) PROVE OverwrittenInv'
    BY <1>6, AccessWriteForgets
  <1>7. ASSUME NEW t \in tasks, UpdateValueAfterRead(t) \/ InvalidateProperties(t)
        PROVE  OverwrittenInv'
    BY <1>7, UpdateForgets, InvalidateForgets
  <1>8. CASE UNCHANGED vars
    BY <1>8 DEF vars, OverwrittenInv, ForgetsOverwritten, Registered
  <1>9. CreateAdapter \/ PresetTableError \/ Connected \/ (\E address : AddPresetAdapter(address))
        => phase # "open"
    BY DEF CreateAdapter, PresetTableError, Connected, AddPresetAdapter
  <1> QED BY <1>2, <1>3, <1>4, <1>5, <1>6, <1>7, <1>8, <1>9 DEF Next, RunStep

LEMMA ForgettingNext == ForgettingInv /\ [Next]_vars => ForgettingInv'
  BY AddressNext, ValueNext, StatusNext, TaskNext, OverwrittenNext DEF ForgettingInv

\* A value from before a write past its property is kept only while that write is
\* not finished: whatever the camera's presets, the order in which tasks get
\* threads and the writes, no task has seen the write end and reads the old value.
THEOREM OverwrittenIsForgotten == Spec => []ForgetsOverwritten
  <1>1. ForgettingInv => ForgetsOverwritten
    BY DEF ForgettingInv, OverwrittenInv
  <1> QED BY ForgettingInit, ForgettingNext, <1>1, PTL DEF Spec

=============================================================================
