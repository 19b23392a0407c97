--------------------------- MODULE SparseMemProofs ---------------------------
(***************************************************************************)
(* For address spaces of any size, the array of mappings of memory_sparse.c*)
(* stays sorted and apart, and stands for the bytes GuestMap speaks of.    *)
(***************************************************************************)
EXTENDS SparseMem, Induction

-----------------------------------------------------------------------------
(* Sequences of mappings.                                                  *)

Occurs(q, m) == \E i \in 1 .. Len(q) : q[i] = m
Holds(m, a) == m.guest <= a /\ a < End(m)
ByteOf(m, a) == [host |-> HostOf(m, a), access |-> m.access, allocation |-> m.allocation]

(* Sorted mappings, apart from each other, between two guest addresses.    *)
Tidy(q, from, to) ==
  /\ q \in Seq(Mapping)
  /\ \A i \in 1 .. Len(q) : /\ from <= q[i].guest /\ End(q[i]) <= to
                            /\ q[i].host + q[i].size <= HostSpace
  /\ \A i, j \in 1 .. Len(q) : i < j => End(q[i]) <= q[j].guest

(* The fields of a mapping are numbers of their ranges.                    *)
LEMMA MappingFields ==
  ASSUME NEW m \in Mapping
  PROVE  /\ m.guest \in Nat /\ m.guest < Space /\ m.size \in Nat /\ m.size > 0 /\ m.size <= Space
         /\ m.host \in Nat /\ m.host > 0 /\ m.allocation \in Nat /\ m.allocation > 0
         /\ m.access \in Accesses /\ End(m) \in Nat /\ End(m) > m.guest /\ End(m) = m.guest + m.size
  BY SparseAssumption DEF Mapping, Addresses, Sizes, Hosts, End

(* Nothing is tidy.                                                        *)
LEMMA TidyEmpty ==
  ASSUME NEW from, NEW to
  PROVE  Tidy(<<>>, from, to) /\ \A m : ~Occurs(<<>>, m)
  BY DEF Tidy, Occurs

(* One mapping is tidy in any range that holds it.                         *)
LEMMA TidySingle ==
  ASSUME NEW m \in Mapping, NEW from \in Int, NEW to \in Int,
         from <= m.guest, End(m) <= to, m.host + m.size <= HostSpace
  PROVE  Tidy(<<m>>, from, to) /\ \A x : Occurs(<<m>>, x) <=> x = m
  BY DEF Tidy, Occurs

(* Mappings below and above an address make one tidy sequence.             *)
LEMMA TidyConcat ==
  ASSUME NEW q, NEW r, NEW from \in Int, NEW at \in Int, NEW to \in Int,
         Tidy(q, from, at), Tidy(r, at, to), from <= at, at <= to
  PROVE  /\ Tidy(q \o r, from, to)
         /\ \A m : Occurs(q \o r, m) <=> Occurs(q, m) \/ Occurs(r, m)
         /\ Len(q \o r) = Len(q) + Len(r)
<1>1. /\ q \in Seq(Mapping) /\ r \in Seq(Mapping) /\ q \o r \in Seq(Mapping)
      /\ Len(q) \in Nat /\ Len(r) \in Nat /\ Len(q \o r) = Len(q) + Len(r)
  BY DEF Tidy
<1>2. /\ \A i \in 1 .. Len(q) : (q \o r)[i] = q[i]
      /\ \A i \in 1 .. Len(r) : (q \o r)[Len(q) + i] = r[i]
  BY <1>1
<1>3. \A i \in 1 .. Len(q) + Len(r) : i \in 1 .. Len(q) \/ (i - Len(q) \in 1 .. Len(r) /\ i = Len(q) + (i - Len(q)))
  BY <1>1
<1>4. ASSUME NEW m PROVE Occurs(q \o r, m) <=> Occurs(q, m) \/ Occurs(r, m)
  <2>1. ASSUME Occurs(q \o r, m) PROVE Occurs(q, m) \/ Occurs(r, m)
    BY <1>1, <1>2, <1>3, <2>1 DEF Occurs
  <2>2. ASSUME Occurs(q, m) PROVE Occurs(q \o r, m)
    BY <1>1, <1>2, <2>2 DEF Occurs
  <2>3. ASSUME Occurs(r, m) PROVE Occurs(q \o r, m)
    <3>1. PICK i \in 1 .. Len(r) : r[i] = m
      BY <2>3 DEF Occurs
    <3>2. Len(q) + i \in 1 .. Len(q \o r) /\ (q \o r)[Len(q) + i] = m
      BY <1>1, <1>2, <3>1
    <3> QED
      BY <3>2 DEF Occurs
  <2> QED
    BY <2>1, <2>2, <2>3
<1> DEFINE s == q \o r
<1>5. ASSUME NEW i \in 1 .. Len(s)
      PROVE  from <= s[i].guest /\ End(s[i]) <= to /\ s[i].host + s[i].size <= HostSpace
  <2>1. s[i] \in Mapping
    BY <1>1
  <2>2. CASE i \in 1 .. Len(q)
    <3>1. s[i] = q[i] /\ from <= q[i].guest /\ End(q[i]) <= at /\ q[i].host + q[i].size <= HostSpace
      BY <1>2, <2>2 DEF Tidy
    <3> HIDE DEF s
    <3> QED
      BY <2>1, <3>1, MappingFields
  <2>3. CASE i - Len(q) \in 1 .. Len(r)
    <3> DEFINE k == i - Len(q)
    <3>1. s[i] = r[k] /\ at <= r[k].guest /\ End(r[k]) <= to /\ r[k].host + r[k].size <= HostSpace
      <4>1. i = Len(q) + k
        BY <1>1
      <4> QED
        BY <1>2, <2>3, <4>1 DEF Tidy
    <3> HIDE DEF s, k
    <3> QED
      BY <2>1, <3>1, MappingFields
  <2> QED
    BY <1>1, <1>3, <2>2, <2>3
<1>6. ASSUME NEW i \in 1 .. Len(s), NEW j \in 1 .. Len(s), i < j PROVE End(s[i]) <= s[j].guest
  <2>1. s[i] \in Mapping /\ s[j] \in Mapping
    BY <1>1
  <2>2. CASE i \in 1 .. Len(q) /\ j \in 1 .. Len(q)
    BY <1>2, <1>6, <2>2 DEF Tidy
  <2>3. CASE i \in 1 .. Len(q) /\ j - Len(q) \in 1 .. Len(r)
    <3> DEFINE k == j - Len(q)
    <3>1. s[i] = q[i] /\ End(q[i]) <= at
      BY <1>2, <2>3 DEF Tidy
    <3>2. s[j] = r[k] /\ at <= r[k].guest
      <4>1. j = Len(q) + k
        BY <1>1
      <4> QED
        BY <1>2, <2>3, <4>1 DEF Tidy
    <3> HIDE DEF s, k
    <3> QED
      BY <2>1, <3>1, <3>2, MappingFields
  <2>4. CASE i - Len(q) \in 1 .. Len(r) /\ j - Len(q) \in 1 .. Len(r)
    <3>1. i = Len(q) + (i - Len(q)) /\ j = Len(q) + (j - Len(q)) /\ i - Len(q) < j - Len(q)
      BY <1>1, <1>6
    <3> QED
      BY <1>2, <2>4, <3>1 DEF Tidy
  <2>5. \/ i \in 1 .. Len(q) /\ j \in 1 .. Len(q)
        \/ i \in 1 .. Len(q) /\ j - Len(q) \in 1 .. Len(r)
        \/ i - Len(q) \in 1 .. Len(r) /\ j - Len(q) \in 1 .. Len(r)
    BY <1>1, <1>6
  <2> QED
    BY <2>2, <2>3, <2>4, <2>5
<1> QED
  BY <1>1, <1>4, <1>5, <1>6 DEF Tidy

(* A tidy sequence is tidy in any larger range.                            *)
LEMMA TidyWider ==
  ASSUME NEW q, NEW from \in Int, NEW to \in Int, NEW below \in Int, NEW above \in Int,
         Tidy(q, from, to), below <= from, to <= above
  PROVE  Tidy(q, below, above)
<1>1. \A i \in 1 .. Len(q) : q[i] \in Mapping
  BY DEF Tidy
<1>2. ASSUME NEW i \in 1 .. Len(q) PROVE below <= q[i].guest /\ End(q[i]) <= above
  <2>1. from <= q[i].guest /\ End(q[i]) <= to /\ q[i] \in Mapping
    BY <1>1 DEF Tidy
  <2> QED
    BY <2>1, MappingFields
<1> QED
  BY <1>2 DEF Tidy

-----------------------------------------------------------------------------
(* The bytes a sequence of mappings stands for.                            *)

View(q) ==
  [a \in Addresses |->
     LET over == {i \in 1 .. Len(q) : q[i].guest <= a /\ a < End(q[i])}
     IN  IF over = {} THEN None
         ELSE LET m == q[CHOOSE i \in over : \A j \in over : i <= j]
              IN  [host |-> HostOf(m, a), access |-> m.access, allocation |-> m.allocation]]

(* Two mappings of a tidy sequence that hold one address are the same.     *)
LEMMA HoldsOnce ==
  ASSUME NEW q, Tidy(q, 0, Space), NEW a \in Int,
         NEW i \in 1 .. Len(q), NEW j \in 1 .. Len(q), Holds(q[i], a), Holds(q[j], a)
  PROVE  i = j
<1>1. q[i] \in Mapping /\ q[j] \in Mapping /\ i \in Int /\ j \in Int
  BY DEF Tidy
<1>2. /\ End(q[i]) \in Nat /\ q[i].guest \in Nat /\ End(q[j]) \in Nat /\ q[j].guest \in Nat
  BY <1>1, MappingFields
<1>3. (i < j => End(q[i]) <= q[j].guest) /\ (j < i => End(q[j]) <= q[i].guest)
  BY DEF Tidy
<1> QED
  BY <1>1, <1>2, <1>3 DEF Holds

(* What a mapping gives one of its bytes is neither a hole nor out of      *)
(* range.                                                                  *)
LEMMA ByteFields ==
  ASSUME NEW m \in Mapping, NEW a \in Int, Holds(m, a)
  PROVE  /\ ByteOf(m, a) # None
         /\ ByteOf(m, a).host = m.host + (a - m.guest) /\ ByteOf(m, a).access = m.access
         /\ ByteOf(m, a).allocation = m.allocation
         /\ HostOf(m, a) = m.host + (a - m.guest)
         /\ m.host + (a - m.guest) >= m.host /\ m.host + (a - m.guest) < m.host + m.size
         /\ m.host + (a - m.guest) \in Nat
<1>1. m.host + (a - m.guest) \in Nat /\ m.host + (a - m.guest) >= m.host
      /\ m.host + (a - m.guest) < m.host + m.size
  BY MappingFields DEF Holds
<1>2. ByteOf(m, a) \in [host : Nat, access : Accesses, allocation : Nat]
  BY <1>1, MappingFields DEF ByteOf, HostOf
<1>3. ByteOf(m, a) # None
  BY <1>2, SparseAssumption
<1> QED
  BY <1>1, <1>3 DEF ByteOf, HostOf

(* A byte under a mapping is that mapping's, and any other is a hole.      *)
LEMMA ViewFact ==
  ASSUME NEW q, Tidy(q, 0, Space), NEW a \in Addresses
  PROVE  /\ \A m : Occurs(q, m) /\ Holds(m, a) => View(q)[a] = ByteOf(m, a)
         /\ (\A m : Occurs(q, m) => ~Holds(m, a)) => View(q)[a] = None
         /\ View(q)[a] # None => \E m : Occurs(q, m) /\ Holds(m, a) /\ View(q)[a] = ByteOf(m, a)
<1> DEFINE over == {i \in 1 .. Len(q) : q[i].guest <= a /\ a < End(q[i])}
<1> DEFINE least == CHOOSE i \in over : \A j \in over : i <= j
<1>1. View(q)[a] = IF over = {} THEN None ELSE ByteOf(q[least], a)
  BY DEF View, ByteOf
<1>2. \A i \in 1 .. Len(q) : i \in over <=> Holds(q[i], a)
  BY DEF Holds
<1>3. a \in Int
  BY DEF Addresses
<1>4. \A i \in over : over = {i}
  BY <1>2, <1>3, HoldsOnce
<1>5. ASSUME NEW i \in over PROVE View(q)[a] = ByteOf(q[i], a)
  <2>1. over = {i}
    BY <1>4
  <2>2. i <= i
    <3>1. i \in Int
      OBVIOUS
    <3> QED
      BY <3>1
  <2>3. least = i
    <3> HIDE DEF over
    <3> QED
      BY <2>1, <2>2
  <2>4. over # {}
    OBVIOUS
  <2> HIDE DEF over, least
  <2> QED
    BY <1>1, <2>3, <2>4
<1>6. over = {} => View(q)[a] = None
  BY <1>1
<1> HIDE DEF over, least
<1>7. ASSUME NEW m, Occurs(q, m), Holds(m, a) PROVE View(q)[a] = ByteOf(m, a)
  <2>1. PICK i \in 1 .. Len(q) : q[i] = m
    BY <1>7 DEF Occurs
  <2>2. i \in over
    BY <1>2, <1>7, <2>1
  <2> QED
    BY <1>5, <2>1, <2>2
<1>8. ASSUME \A m : Occurs(q, m) => ~Holds(m, a) PROVE View(q)[a] = None
  <2>1. \A i \in 1 .. Len(q) : ~Holds(q[i], a)
    BY <1>8 DEF Occurs
  <2>2. over = {}
    BY <1>2, <2>1 DEF over
  <2> QED
    BY <1>6, <2>2
<1>9. ASSUME View(q)[a] # None
      PROVE  \E m : Occurs(q, m) /\ Holds(m, a) /\ View(q)[a] = ByteOf(m, a)
  <2>1. PICK i \in over : TRUE
    BY <1>6, <1>9
  <2>2. i \in 1 .. Len(q)
    BY DEF over
  <2>3. Holds(q[i], a) /\ Occurs(q, q[i])
    BY <1>2, <2>1, <2>2 DEF Occurs
  <2> QED
    BY <1>5, <2>1, <2>3
<1> QED
  BY <1>7, <1>8, <1>9

(* A byte is a hole only where no mapping is.                              *)
LEMMA ViewHole ==
  ASSUME NEW q, Tidy(q, 0, Space), NEW a \in Addresses, NEW m, Occurs(q, m), Holds(m, a)
  PROVE  View(q)[a] # None
<1>1. m \in Mapping /\ a \in Int
  BY DEF Occurs, Tidy, Addresses
<1> QED
  BY <1>1, ViewFact, ByteFields

-----------------------------------------------------------------------------
(* What change_range leaves of one mapping.                                *)

Piece(m, from, to) == [m EXCEPT !.guest = from, !.size = to - from, !.host = HostOf(m, from)]

(* A fragment of a mapping keeps its backing, access and allocation.       *)
LEMMA PieceFact ==
  ASSUME NEW m \in Mapping, NEW from \in Int, NEW to \in Int, m.guest <= from, from < to, to <= End(m),
         End(m) <= Space, m.host + m.size <= HostSpace
  PROVE  /\ Piece(m, from, to) \in Mapping
         /\ Piece(m, from, to).guest = from /\ End(Piece(m, from, to)) = to
         /\ Piece(m, from, to).access = m.access /\ Piece(m, from, to).allocation = m.allocation
         /\ Piece(m, from, to).host - from = m.host - m.guest
         /\ Piece(m, from, to).host + Piece(m, from, to).size <= HostSpace
<1> DEFINE p == Piece(m, from, to)
<1>1. p.guest = from /\ p.size = to - from /\ p.host = m.host + (from - m.guest)
      /\ p.access = m.access /\ p.allocation = m.allocation
  BY DEF Piece, HostOf, Mapping
<1>3. from \in Addresses /\ to - from \in Sizes /\ m.host + (from - m.guest) \in Hosts
  BY MappingFields, SparseAssumption DEF Addresses, Sizes, Hosts
<1>5. p \in Mapping
  BY <1>3 DEF Piece, HostOf, Mapping
<1> HIDE DEF p
<1>6. End(p) = to /\ p.host - from = m.host - m.guest /\ p.host + p.size <= HostSpace
  <2>1. End(p) = p.guest + p.size /\ End(m) = m.guest + m.size
    BY DEF End
  <2>2. m.host \in Nat /\ m.guest \in Nat /\ m.size \in Nat /\ HostSpace \in Nat
    BY MappingFields, SparseAssumption
  <2> QED
    BY <1>1, <2>1, <2>2
<1> USE DEF p
<1> QED
  BY <1>1, <1>5, <1>6

(* Fragment is that piece, or nothing.                                     *)
LEMMA FragmentFact ==
  ASSUME NEW m \in Mapping, NEW from \in Int, NEW to \in Int, m.guest <= from, to <= End(m),
         End(m) <= Space, m.host + m.size <= HostSpace
  PROVE  /\ Tidy(Fragment(m, from, to), from, to)
         /\ \A x : Occurs(Fragment(m, from, to), x) <=> from < to /\ x = Piece(m, from, to)
         /\ Len(Fragment(m, from, to)) = IF from < to THEN 1 ELSE 0
<1>1. CASE from < to
  <2>1. Fragment(m, from, to) = <<Piece(m, from, to)>>
    BY <1>1 DEF Fragment, Piece
  <2> QED
    BY <1>1, <2>1, PieceFact, TidySingle
<1>2. CASE ~(from < to)
  <2>1. Fragment(m, from, to) = <<>>
    BY <1>2 DEF Fragment
  <2> QED
    BY <1>2, <2>1, TidyEmpty
<1> QED
  BY <1>1, <1>2

(* What becomes of one mapping when guest .. end - 1 changes.              *)
Cut(m, guest, end, remove, access) ==
  IF Untouched(m, guest, end) THEN <<m>>
  ELSE Before(m, guest, end) \o Within(m, guest, end, remove, access) \o After(m, guest, end)

(* A piece x of m as change_range makes them: the same backing, and the    *)
(* new access in the range, if the range is not removed.                   *)
CutOf(x, m, guest, end, remove, access) ==
  /\ x.allocation = m.allocation /\ x.host - x.guest = m.host - m.guest
  /\ \A a \in Int : Holds(x, a) =>
       /\ Holds(m, a)
       /\ (a < guest \/ a >= end) => x.access = m.access
       /\ (a >= guest /\ a < end) => ~remove /\ x.access = access

One(p) == IF p THEN 1 ELSE 0

(* The pieces of a mapping are tidy where it was, hold every byte of it    *)
(* that was not removed, and are at most two more than it.                 *)
LEMMA CutFact ==
  ASSUME NEW m \in Mapping, End(m) <= Space, m.host + m.size <= HostSpace,
         NEW guest \in Int, NEW end \in Int, guest < end, NEW remove \in BOOLEAN, NEW access \in Accesses
  PROVE  /\ Tidy(Cut(m, guest, end, remove, access), m.guest, End(m))
         /\ \A x : Occurs(Cut(m, guest, end, remove, access), x) => CutOf(x, m, guest, end, remove, access)
         /\ \A a \in Int : Holds(m, a) /\ (remove => a < guest \/ a >= end) =>
              \E x : Occurs(Cut(m, guest, end, remove, access), x) /\ Holds(x, a)
         /\ Len(Cut(m, guest, end, remove, access)) <=
              1 + One(m.guest < guest /\ guest < End(m)) + One(m.guest < end /\ end < End(m))
<1>0. /\ m.guest \in Int /\ End(m) \in Int /\ m.host \in Int /\ m.guest < End(m) /\ m.access \in Accesses
  BY MappingFields
<1>1. CASE Untouched(m, guest, end)
  <2>1. Cut(m, guest, end, remove, access) = <<m>>
    BY <1>1 DEF Cut
  <2>2. Tidy(<<m>>, m.guest, End(m)) /\ \A x : Occurs(<<m>>, x) <=> x = m
    BY <1>0, TidySingle
  <2>3. CutOf(m, m, guest, end, remove, access)
    BY <1>0, <1>1 DEF CutOf, Untouched, Holds
  <2>4. Len(<<m>>) = 1
    OBVIOUS
  <2> QED
    BY <2>1, <2>2, <2>3, <2>4 DEF One
<1>2. CASE ~Untouched(m, guest, end)
  <2> DEFINE L == LargerOf(m.guest, guest)
             S == SmallerOf(End(m), end)
             n == [m EXCEPT !.access = access]
             b == Before(m, guest, end)
             w == Within(m, guest, end, remove, access)
             r == After(m, guest, end)
  <2>1. /\ m.guest < end /\ guest < End(m)
        /\ L \in Int /\ S \in Int /\ m.guest <= L /\ L < S /\ S <= End(m) /\ guest <= L /\ S <= end
        /\ (L = m.guest \/ L = guest) /\ (S = End(m) \/ S = end)
    BY <1>0, <1>2 DEF Untouched, LargerOf, SmallerOf
  <2>2. n \in Mapping /\ n.guest = m.guest /\ End(n) = End(m) /\ n.host = m.host /\ n.size = m.size
        /\ n.access = access /\ n.allocation = m.allocation
    BY DEF Mapping, End
  <2> HIDE DEF L, S, n
  <2>3. /\ Tidy(b, m.guest, L) /\ Len(b) = One(m.guest < guest)
        /\ \A x : Occurs(b, x) <=> m.guest < guest /\ x = Piece(m, m.guest, guest)
    <3>1. /\ Tidy(b, m.guest, guest) /\ Len(b) = One(m.guest < guest)
          /\ \A x : Occurs(b, x) <=> m.guest < guest /\ x = Piece(m, m.guest, guest)
      <4>1. b = Fragment(m, m.guest, guest)
        BY DEF Before
      <4>2. m.guest <= m.guest /\ guest <= End(m)
        BY <1>0, <2>1
      <4>3. /\ Tidy(Fragment(m, m.guest, guest), m.guest, guest)
            /\ Len(Fragment(m, m.guest, guest)) = IF m.guest < guest THEN 1 ELSE 0
            /\ \A x : Occurs(Fragment(m, m.guest, guest), x) <=> m.guest < guest /\ x = Piece(m, m.guest, guest)
        BY <1>0, <4>2, FragmentFact
      <4> QED
        BY <4>1, <4>3 DEF One
    <3>2. guest <= L
      BY <2>1
    <3> QED
      BY <1>0, <2>1, <3>1, <3>2, TidyWider
  <2>4. /\ Tidy(w, L, S) /\ Len(w) = One(~remove)
        /\ \A x : Occurs(w, x) <=> ~remove /\ x = Piece(n, L, S)
    <3>1. CASE remove
      <4>1. w = <<>>
        BY <3>1 DEF Within
      <4> QED
        BY <3>1, <4>1, TidyEmpty DEF One
    <3>2. CASE ~remove
      <4>1. w = Fragment(n, L, S)
        BY <3>2 DEF Within, L, S, n
      <4>2. /\ Tidy(Fragment(n, L, S), L, S) /\ Len(Fragment(n, L, S)) = 1
            /\ \A x : Occurs(Fragment(n, L, S), x) <=> L < S /\ x = Piece(n, L, S)
        BY <2>1, <2>2, FragmentFact
      <4> QED
        BY <2>1, <3>2, <4>1, <4>2 DEF One
    <3> QED
      BY <3>1, <3>2
  <2>5. /\ Tidy(r, S, End(m)) /\ Len(r) = One(end < End(m))
        /\ \A x : Occurs(r, x) <=> end < End(m) /\ x = Piece(m, end, End(m))
    <3>1. /\ Tidy(r, end, End(m)) /\ Len(r) = One(end < End(m))
          /\ \A x : Occurs(r, x) <=> end < End(m) /\ x = Piece(m, end, End(m))
      BY <1>0, <2>1, FragmentFact DEF After, One
    <3> QED
      BY <1>0, <2>1, <3>1, TidyWider
  <2>6. Cut(m, guest, end, remove, access) = (b \o w) \o r
    BY <1>2 DEF Cut
  <2> HIDE DEF b, w, r
  <2>7. /\ Tidy(b \o w, m.guest, S) /\ Len(b \o w) = Len(b) + Len(w)
        /\ \A x : Occurs(b \o w, x) <=> Occurs(b, x) \/ Occurs(w, x)
    <3>1. m.guest <= L /\ L <= S
      BY <2>1
    <3>2. Tidy(b, m.guest, L) /\ Tidy(w, L, S)
      BY <2>3, <2>4
    <3> QED
      BY <1>0, <2>1, <3>1, <3>2, TidyConcat
  <2> DEFINE q == b \o w
  <2> HIDE DEF q
  <2>8. /\ Tidy(q \o r, m.guest, End(m)) /\ Len(q \o r) = Len(q) + Len(r)
        /\ \A x : Occurs(q \o r, x) <=> Occurs(q, x) \/ Occurs(r, x)
    <3>1. Tidy(q, m.guest, S)
      BY <2>7 DEF q
    <3>2. m.guest <= S
      BY <1>0, <2>1
    <3> QED
      BY <1>0, <2>1, <2>5, <3>1, <3>2, TidyConcat
  <2>9. \A x : Occurs(q \o r, x) <=> \/ m.guest < guest /\ x = Piece(m, m.guest, guest)
                                     \/ ~remove /\ x = Piece(n, L, S)
                                     \/ end < End(m) /\ x = Piece(m, end, End(m))
    BY <2>3, <2>4, <2>5, <2>7, <2>8 DEF q
  <2>10. m.guest < guest => /\ Piece(m, m.guest, guest).guest = m.guest /\ End(Piece(m, m.guest, guest)) = guest
                            /\ CutOf(Piece(m, m.guest, guest), m, guest, end, remove, access)
    <3>1. SUFFICES ASSUME m.guest < guest
                   PROVE  /\ Piece(m, m.guest, guest).guest = m.guest /\ End(Piece(m, m.guest, guest)) = guest
                          /\ CutOf(Piece(m, m.guest, guest), m, guest, end, remove, access)
      OBVIOUS
    <3> DEFINE x == Piece(m, m.guest, guest)
    <3>2. /\ x.guest = m.guest /\ End(x) = guest /\ x.access = m.access /\ x.allocation = m.allocation
          /\ x.host - m.guest = m.host - m.guest
      BY <1>0, <2>1, <3>1, PieceFact
    <3> HIDE DEF x
    <3>3. CutOf(x, m, guest, end, remove, access)
      BY <1>0, <2>1, <3>2 DEF CutOf, Holds
    <3> QED
      BY <3>2, <3>3 DEF x
  <2>11. ~remove => /\ Piece(n, L, S).guest = L /\ End(Piece(n, L, S)) = S
                    /\ CutOf(Piece(n, L, S), m, guest, end, remove, access)
    <3>1. SUFFICES ASSUME ~remove
                   PROVE  /\ Piece(n, L, S).guest = L /\ End(Piece(n, L, S)) = S
                          /\ CutOf(Piece(n, L, S), m, guest, end, remove, access)
      OBVIOUS
    <3> DEFINE x == Piece(n, L, S)
    <3>2. /\ x.guest = L /\ End(x) = S /\ x.access = access /\ x.allocation = m.allocation
          /\ x.host - L = m.host - m.guest
      BY <1>0, <2>1, <2>2, PieceFact
    <3> HIDE DEF x
    <3>3. CutOf(x, m, guest, end, remove, access)
      BY <1>0, <2>1, <3>1, <3>2 DEF CutOf, Holds
    <3> QED
      BY <3>2, <3>3 DEF x
  <2>12. end < End(m) => /\ Piece(m, end, End(m)).guest = end /\ End(Piece(m, end, End(m))) = End(m)
                         /\ CutOf(Piece(m, end, End(m)), m, guest, end, remove, access)
    <3>1. SUFFICES ASSUME end < End(m)
                   PROVE  /\ Piece(m, end, End(m)).guest = end /\ End(Piece(m, end, End(m))) = End(m)
                          /\ CutOf(Piece(m, end, End(m)), m, guest, end, remove, access)
      OBVIOUS
    <3> DEFINE x == Piece(m, end, End(m))
    <3>2. /\ x.guest = end /\ End(x) = End(m) /\ x.access = m.access /\ x.allocation = m.allocation
          /\ x.host - end = m.host - m.guest
      BY <1>0, <2>1, <3>1, PieceFact
    <3> HIDE DEF x
    <3>3. CutOf(x, m, guest, end, remove, access)
      BY <1>0, <2>1, <3>1, <3>2 DEF CutOf, Holds
    <3> QED
      BY <3>2, <3>3 DEF x
  <2>13. ASSUME NEW a \in Int, Holds(m, a), remove => a < guest \/ a >= end
         PROVE  \E x : Occurs(q \o r, x) /\ Holds(x, a)
    <3>1. CASE a < guest
      BY <1>0, <2>9, <2>10, <2>13, <3>1 DEF Holds
    <3>2. CASE a >= end
      BY <1>0, <2>9, <2>12, <2>13, <3>2 DEF Holds
    <3>3. CASE a >= guest /\ a < end
      <4>1. L <= a /\ a < S /\ ~remove
        BY <1>0, <2>1, <2>13, <3>3 DEF Holds
      <4> QED
        BY <2>9, <2>11, <4>1 DEF Holds
    <3> QED
      BY <3>1, <3>2, <3>3
  <2>14. Len(q \o r) <= 1 + One(m.guest < guest /\ guest < End(m)) + One(m.guest < end /\ end < End(m))
    <3>1. Len(q \o r) = One(m.guest < guest) + One(~remove) + One(end < End(m))
      BY <2>3, <2>4, <2>5, <2>7, <2>8 DEF q
    <3>2. One(~remove) = 0 \/ One(~remove) = 1
      BY DEF One
    <3> QED
      BY <1>0, <2>1, <3>1, <3>2 DEF One
  <2>15. Cut(m, guest, end, remove, access) = q \o r
    BY <2>6 DEF q
  <2>16. \A x : Occurs(q \o r, x) => CutOf(x, m, guest, end, remove, access)
    BY <2>9, <2>10, <2>11, <2>12
  <2> QED
    BY <2>8, <2>13, <2>14, <2>15, <2>16
<1> QED
  BY <1>1, <1>2

-----------------------------------------------------------------------------
(* change_range's loop over the mappings.                                  *)

(* The concatenation of the pieces, prefix by prefix.                      *)
Joined(f, s) == f = [i \in 1 .. Len(s) |-> IF i = 1 THEN s[i] ELSE f[i - 1] \o s[i]]

(* FlattenSeq has such prefixes.                                           *)
LEMMA FlattenFact ==
  ASSUME NEW V, NEW s \in Seq(Seq(V)), s # <<>>
  PROVE  \E f : /\ Joined(f, s) /\ FlattenSeq(s) = f[Len(s)]
                /\ f[1] = s[1] /\ \A i \in 1 .. Len(s) - 1 : f[i + 1] = f[i] \o s[i + 1]
<1> DEFINE n == Len(s)
           step == [i \in 1 .. n |-> [v \in Seq(V) |-> v \o s[i]]]
<1>1. n \in Nat /\ n >= 1 /\ <<>> \in Seq(V) /\ \A i \in 1 .. n : s[i] \in Seq(V)
  OBVIOUS
<1>2. Steps(step, Seq(V), n)
  <2>1. \A i \in 1 .. n : [v \in Seq(V) |-> v \o s[i]] \in [Seq(V) -> Seq(V)]
    BY <1>1
  <2> QED
    BY <2>1 DEF Steps
<1>3. PICK g : g = WalkStep(g, <<>>, step, n) /\ \A k \in 0 .. n : g[k] \in Seq(V)
  <2> HIDE DEF n, step
  <2> QED
    BY <1>1, <1>2, WalkExists
<1>4. \A k \in 0 .. n : g[k] = IF k = 0 THEN <<>> ELSE step[k][g[k - 1]]
  <2>1. WalkStep(g, <<>>, step, n) = [k \in 0 .. n |-> IF k = 0 THEN <<>> ELSE step[k][g[k - 1]]]
    BY DEF WalkStep
  <2> HIDE DEF n, step
  <2> QED
    BY <1>3, <2>1
<1>5. \A k \in 1 .. n : g[k] = g[k - 1] \o s[k]
  <2> SUFFICES ASSUME NEW k \in 1 .. n PROVE g[k] = g[k - 1] \o s[k]
    OBVIOUS
  <2>1. g[k - 1] \in Seq(V) /\ k \in 0 .. n /\ k # 0
    BY <1>1, <1>3
  <2>2. step[k][g[k - 1]] = g[k - 1] \o s[k]
    BY <2>1
  <2>3. g[k] = step[k][g[k - 1]]
    BY <1>4, <2>1
  <2> QED
    BY <2>2, <2>3
<1>6. g[0] = <<>> /\ g[1] = s[1]
  <2>0. 0 \in 0 .. n /\ 1 \in 1 .. n /\ 1 - 1 = 0
    BY <1>1
  <2> HIDE DEF n, step
  <2>1. g[0] = <<>>
    BY <2>0, <1>4
  <2>2. g[1] = g[0] \o s[1] /\ s[1] \in Seq(V)
    BY <2>0, <1>1, <1>5
  <2> QED
    BY <2>1, <2>2
<1> DEFINE f == [i \in 1 .. n |-> g[i]]
<1>7. Joined(f, s)
  <2>1. ASSUME NEW i \in 1 .. n PROVE f[i] = IF i = 1 THEN s[i] ELSE f[i - 1] \o s[i]
    <3>1. CASE i = 1
      BY <1>6, <3>1
    <3>2. CASE i # 1
      <4>1. i - 1 \in 1 .. n /\ f[i - 1] = g[i - 1] /\ f[i] = g[i]
        BY <3>2
      <4> QED
        BY <1>5, <3>2, <4>1
    <3> QED
      BY <3>1, <3>2
  <2> QED
    BY <2>1, Zenon DEF Joined
<1> DEFINE Body(h) == [i \in 1 .. Len(s) |-> IF i = 1 THEN s[i] ELSE h[i - 1] \o s[i]]
           c == CHOOSE h : h = Body(h)
<1>8. c = Body(c)
  <2>1. f = Body(f)
    BY <1>7, Zenon DEF Joined
  <2> QED
    BY <2>1, Zenon
<1>9. FlattenSeq(s) = c[Len(s)]
  BY <1>1 DEF FlattenSeq
<1> HIDE DEF c
<1>10. Joined(c, s)
  BY <1>8, Zenon DEF Joined
<1>11. c[1] = s[1] /\ \A i \in 1 .. Len(s) - 1 : c[i + 1] = c[i] \o s[i + 1]
  <2>1. \A i \in 1 .. Len(s) : c[i] = IF i = 1 THEN s[i] ELSE c[i - 1] \o s[i]
    BY <1>8
  <2>2. 1 \in 1 .. Len(s) /\ \A i \in 1 .. Len(s) - 1 : i + 1 \in 1 .. Len(s) /\ i + 1 # 1 /\ (i + 1) - 1 = i
    BY <1>1
  <2> QED
    BY <2>1, <2>2
<1> QED
  BY <1>9, <1>10, <1>11

(* The changed array is tidy, its mappings are the pieces of the old ones, *)
(* and they fit in the buffer of count + 2.                                *)
LEMMA ChangedFact ==
  ASSUME Tidy(mappings, 0, Space),
         NEW guest \in Int, NEW end \in Int, guest < end, NEW remove \in BOOLEAN, NEW access \in Accesses
  PROVE  /\ Tidy(Changed(guest, end, remove, access), 0, Space)
         /\ \A x : Occurs(Changed(guest, end, remove, access), x) <=>
              \E i \in 1 .. Count : Occurs(Cut(mappings[i], guest, end, remove, access), x)
         /\ Len(Changed(guest, end, remove, access)) <= Count + 2
<1> DEFINE s == [i \in 1 .. Count |-> Cut(mappings[i], guest, end, remove, access)]
<1>1. Changed(guest, end, remove, access) = FlattenSeq(s)
  BY DEF Changed, Cut
<1>2. Count \in Nat /\ \A i \in 1 .. Count : mappings[i] \in Mapping
  BY DEF Tidy, Count
<1>3. \A i \in 1 .. Count : /\ 0 <= mappings[i].guest /\ End(mappings[i]) <= Space
                            /\ mappings[i].host + mappings[i].size <= HostSpace
                            /\ End(mappings[i]) \in Int /\ mappings[i].guest \in Int
                            /\ mappings[i].guest < End(mappings[i])
  BY <1>2, MappingFields DEF Tidy, Count
<1>4. \A i \in 1 .. Count :
        /\ Tidy(s[i], mappings[i].guest, End(mappings[i]))
        /\ Len(s[i]) <= 1 + One(mappings[i].guest < guest /\ guest < End(mappings[i]))
                          + One(mappings[i].guest < end /\ end < End(mappings[i]))
  BY <1>2, <1>3, CutFact
<1>5. Len(s) = Count /\ s \in Seq(Seq(Mapping))
  <2>1. \A i \in 1 .. Count : s[i] \in Seq(Mapping)
    BY <1>4 DEF Tidy
  <2> QED
    BY <1>2, <2>1
<1>6. \A i \in 1 .. Count : s[i] = Cut(mappings[i], guest, end, remove, access)
  OBVIOUS
<1> HIDE DEF s
<1>7. CASE Count = 0
  <2>1. FlattenSeq(s) = <<>>
    BY <1>5, <1>7 DEF FlattenSeq
  <2>2. Len(<<>>) = 0
    OBVIOUS
  <2> QED
    BY <1>1, <1>7, <2>1, <2>2, TidyEmpty
<1>8. CASE Count # 0
  <2>1. s # <<>> /\ 1 \in 1 .. Count
    BY <1>2, <1>5, <1>8
  <2>2. PICK f : /\ FlattenSeq(s) = f[Count]
                 /\ f[1] = s[1] /\ \A i \in 1 .. Count - 1 : f[i + 1] = f[i] \o s[i + 1]
    BY <1>5, <2>1, FlattenFact
  <2> DEFINE Fine(i) == /\ Tidy(f[i], 0, End(mappings[i]))
                        /\ \A x : Occurs(f[i], x) <=> \E k \in 1 .. i : Occurs(s[k], x)
                        /\ Len(f[i]) <= i + One(guest < End(mappings[i])) + One(end < End(mappings[i]))
             T == {i \in 1 .. Count : Fine(i)}
  <2>3. 1 \in T
    <3>1. Tidy(s[1], 0, End(mappings[1]))
      <4>1. /\ Tidy(s[1], mappings[1].guest, End(mappings[1]))
            /\ 0 <= mappings[1].guest /\ End(mappings[1]) \in Int /\ mappings[1].guest \in Int
            /\ End(mappings[1]) <= End(mappings[1])
        BY <1>3, <1>4, <2>1
      <4> QED
        BY <4>1, TidyWider
    <3>2. Len(s[1]) <= 1 + One(guest < End(mappings[1])) + One(end < End(mappings[1]))
      <4>1. Len(s[1]) \in Nat
        BY <3>1 DEF Tidy
      <4> QED
        BY <1>3, <1>4, <2>1, <4>1 DEF One
    <3>3. \A x : Occurs(f[1], x) <=> \E k \in 1 .. 1 : Occurs(s[k], x)
      BY <2>2
    <3> QED
      BY <2>1, <2>2, <3>1, <3>2, <3>3
  <2>4. ASSUME NEW i \in 1 .. Count - 1, i \in T PROVE i + 1 \in T
    <3> DEFINE m == mappings[i]
               n == mappings[i + 1]
    <3>1. /\ i \in 1 .. Count /\ i + 1 \in 1 .. Count /\ f[i + 1] = f[i] \o s[i + 1]
          /\ End(m) <= n.guest
      <4>1. i \in 1 .. Count /\ i + 1 \in 1 .. Count /\ i < i + 1
        BY <1>2
      <4>2. \A k, l \in 1 .. Count : k < l => End(mappings[k]) <= mappings[l].guest
        BY DEF Tidy, Count
      <4> HIDE DEF T, Fine
      <4> QED
        BY <2>2, <4>1, <4>2
    <3>2. Fine(i)
      BY <2>4
    <3>3. /\ End(m) \in Int /\ n.guest \in Int /\ End(n) \in Int /\ n.guest < End(n)
          /\ 0 <= n.guest /\ 0 <= End(m)
      <4>1. 0 <= m.guest /\ m.guest < End(m) /\ m.guest \in Int
        BY <1>3, <3>1
      <4> QED
        BY <1>3, <3>1, <4>1
    <3>4. Tidy(f[i], 0, n.guest)
      <4>1. Tidy(f[i], 0, End(m)) /\ 0 <= 0
        BY <3>2
      <4> HIDE DEF m, n
      <4> QED
        BY <3>1, <3>3, <4>1, TidyWider
    <3>5. /\ Tidy(s[i + 1], n.guest, End(n))
          /\ Len(s[i + 1]) <= 1 + One(n.guest < guest /\ guest < End(n)) + One(n.guest < end /\ end < End(n))
      BY <1>4, <3>1
    <3>6. /\ Tidy(f[i] \o s[i + 1], 0, End(n)) /\ Len(f[i] \o s[i + 1]) = Len(f[i]) + Len(s[i + 1])
          /\ \A x : Occurs(f[i] \o s[i + 1], x) <=> Occurs(f[i], x) \/ Occurs(s[i + 1], x)
      <4>1. n.guest <= End(n)
        BY <3>3
      <4>2. /\ 0 <= n.guest /\ 0 \in Int /\ n.guest \in Int /\ End(n) \in Int
            /\ Tidy(f[i], 0, n.guest) /\ Tidy(s[i + 1], n.guest, End(n))
        BY <3>3, <3>4, <3>5
      <4> HIDE DEF m, n, T, Fine
      <4> QED
        BY <4>1, <4>2, TidyConcat
    <3>7. \A x : Occurs(f[i + 1], x) <=> \E k \in 1 .. i + 1 : Occurs(s[k], x)
      <4>1. \A k : k \in 1 .. i + 1 <=> k \in 1 .. i \/ k = i + 1
        OBVIOUS
      <4>2. \A x : Occurs(f[i], x) <=> \E k \in 1 .. i : Occurs(s[k], x)
        BY <3>2
      <4> QED
        BY <3>1, <3>6, <4>1, <4>2
    <3>8. Len(f[i + 1]) <= (i + 1) + One(guest < End(n)) + One(end < End(n))
      <4>1. Len(f[i]) <= i + One(guest < End(m)) + One(end < End(m))
        BY <3>2
      <4>2. Len(f[i]) \in Nat /\ Len(s[i + 1]) \in Nat
        BY <3>4, <3>5 DEF Tidy
      <4> HIDE DEF m, n, T, Fine
      <4>3. One(guest < End(m)) + One(n.guest < guest /\ guest < End(n)) <= One(guest < End(n))
        BY <3>1, <3>3 DEF One
      <4>4. One(end < End(m)) + One(n.guest < end /\ end < End(n)) <= One(end < End(n))
        BY <3>1, <3>3 DEF One
      <4>5. Len(f[i + 1]) = Len(f[i]) + Len(s[i + 1])
        BY <3>1, <3>6, Zenon
      <4>6. PICK a1 \in Int : a1 = One(guest < End(m))
        BY DEF One
      <4>7. PICK a2 \in Int : a2 = One(end < End(m))
        BY DEF One
      <4>8. PICK b1 \in Int : b1 = One(guest < End(n))
        BY DEF One
      <4>9. PICK b2 \in Int : b2 = One(end < End(n))
        BY DEF One
      <4>10. PICK c1 \in Int : c1 = One(n.guest < guest /\ guest < End(n))
        BY DEF One
      <4>11. PICK c2 \in Int : c2 = One(n.guest < end /\ end < End(n))
        BY DEF One
      <4>12. /\ Len(f[i]) <= i + a1 + a2 /\ Len(s[i + 1]) <= 1 + c1 + c2
             /\ a1 + c1 <= b1 /\ a2 + c2 <= b2
        BY <3>5, <4>1, <4>3, <4>4, <4>6, <4>7, <4>8, <4>9, <4>10, <4>11, Zenon
      <4>13. Len(f[i]) + Len(s[i + 1]) <= (i + 1) + b1 + b2
        <5>1. i \in Int
          BY <3>1
        <5>2. \A u, v \in Int : u <= i + a1 + a2 /\ v <= 1 + c1 + c2 => u + v <= (i + 1) + b1 + b2
          BY <4>12, <5>1
        <5>3. Len(f[i]) \in Int /\ Len(s[i + 1]) \in Int
          BY <4>2
        <5> QED
          BY <4>12, <5>2, <5>3, Zenon
      <4> QED
        BY <4>5, <4>8, <4>9, <4>13, Zenon
    <3> QED
      BY <3>1, <3>6, <3>7, <3>8
  <2>5. Fine(Count)
    <3>1. 1 .. Count \subseteq T
      <4> HIDE DEF T
      <4> QED
        BY <1>2, <2>3, <2>4, InductionInterval
    <3>2. Count \in 1 .. Count
      BY <1>2, <1>8
    <3> QED
      BY <3>1, <3>2
  <2>6. Tidy(f[Count], 0, Space)
    <3>1. End(mappings[Count]) <= Space /\ End(mappings[Count]) \in Int /\ Space \in Int /\ 0 <= 0
      BY <1>2, <1>3, <1>8, SparseAssumption
    <3> QED
      BY <2>5, <3>1, TidyWider
  <2>7. Len(f[Count]) <= Count + 2
    <3>1. Len(f[Count]) \in Nat
      BY <2>6 DEF Tidy
    <3> QED
      BY <1>2, <2>5, <3>1 DEF One
  <2>8. \A x : Occurs(f[Count], x) <=> \E k \in 1 .. Count : Occurs(Cut(mappings[k], guest, end, remove, access), x)
    BY <1>6, <2>5
  <2> QED
    BY <1>1, <2>2, <2>6, <2>7, <2>8
<1> QED
  BY <1>7, <1>8

-----------------------------------------------------------------------------
(* Bisection.                                                              *)

(* Mappings are sorted, so those that start at or below an address come    *)
(* first.                                                                  *)
LEMMA Leading ==
  ASSUME Tidy(mappings, 0, Space), NEW guest \in Int
  PROVE  \E n \in 0 .. Count : \A i \in 1 .. Count : mappings[i].guest <= guest <=> i <= n
<1>1. /\ Count \in Nat /\ \A i \in 1 .. Count : mappings[i].guest \in Int
      /\ \A i, j \in 1 .. Count : i < j => mappings[i].guest < mappings[j].guest
  <2>1. /\ \A i \in 1 .. Count : mappings[i] \in Mapping
        /\ \A i, j \in 1 .. Count : i < j => End(mappings[i]) <= mappings[j].guest
        /\ Count \in Nat
    BY DEF Tidy, Count
  <2>2. \A i \in 1 .. Count : mappings[i].guest \in Int /\ End(mappings[i]) \in Int
                              /\ mappings[i].guest < End(mappings[i])
    BY <2>1, MappingFields
  <2>3. ASSUME NEW i \in 1 .. Count, NEW j \in 1 .. Count, i < j
        PROVE  mappings[i].guest < mappings[j].guest
    <3>1. End(mappings[i]) <= mappings[j].guest
      BY <2>1, <2>3
    <3> QED
      BY <2>2, <3>1
  <2> QED
    BY <2>1, <2>2, <2>3
<1> DEFINE S == {i \in 1 .. Count : mappings[i].guest <= guest}
<1>2. CASE S = {}
  <2>1. \A i \in 1 .. Count : ~(mappings[i].guest <= guest)
    BY <1>2
  <2>2. 0 \in 0 .. Count /\ \A i \in 1 .. Count : ~(i <= 0)
    BY <1>1
  <2> QED
    BY <2>1, <2>2
<1>3. CASE S # {}
  <2>1. S \subseteq Nat /\ \A i \in S : i <= Count
    BY <1>1
  <2>2. PICK n \in S : \A i \in S : i <= n
    <3> HIDE DEF S
    <3> QED
      BY <1>1, <1>3, <2>1, GreatestNat
  <2>3. n \in 0 .. Count /\ n \in 1 .. Count /\ mappings[n].guest <= guest
    BY <1>1
  <2>4. ASSUME NEW i \in 1 .. Count, i <= n PROVE mappings[i].guest <= guest
    <3>1. i = n \/ i < n
      BY <2>3, <2>4
    <3>2. i < n => mappings[i].guest < mappings[n].guest
      BY <1>1, <2>3
    <3> QED
      BY <1>1, <2>3, <3>1, <3>2
  <2>5. \A i \in 1 .. Count : mappings[i].guest <= guest => i <= n
    BY <2>2
  <2> QED
    BY <2>3, <2>4, <2>5
<1> QED
  BY <1>2, <1>3

\* One round of the loop of upper_bound, and its result from any bounds.
Round(s, guest) ==
  [r \in (0 .. Count) \X (0 .. Count) |->
     LET lo == r[1]
         hi == r[2]
         mid == lo + (hi - lo) \div 2
     IN  IF lo >= hi THEN lo
         ELSE IF mappings[mid + 1].guest <= guest THEN s[<<mid + 1, hi>>]
         ELSE s[<<lo, mid>>]]
Clamped(n, lo, hi) == IF lo >= hi \/ n < lo THEN lo ELSE IF n > hi THEN hi ELSE n

(* The middle of a range that is not empty is in it.                       *)
LEMMA Middle ==
  ASSUME NEW lo \in Int, NEW hi \in Int, lo < hi
  PROVE  /\ lo + (hi - lo) \div 2 \in Int
         /\ lo <= lo + (hi - lo) \div 2 /\ lo + (hi - lo) \div 2 < hi
  OBVIOUS

(* A round takes the result to itself.                                     *)
LEMMA RoundClamped ==
  ASSUME NEW c \in Nat, NEW n \in 0 .. c,
         NEW lo \in 0 .. c, NEW hi \in 0 .. c, lo < hi, NEW mid \in Int, lo <= mid, mid < hi
  PROVE  /\ mid + 1 \in 0 .. c /\ mid \in 0 .. c /\ mid + 1 \in 1 .. c
         /\ mid + 1 <= n => Clamped(n, lo, hi) = Clamped(n, mid + 1, hi)
         /\ ~(mid + 1 <= n) => Clamped(n, lo, hi) = Clamped(n, lo, mid)
  BY DEF Clamped

(* upper_bound counts the mappings that start at or below an address.      *)
LEMMA UpperBoundFact ==
  ASSUME Tidy(mappings, 0, Space), NEW guest \in Int
  PROVE  /\ UpperBound(guest) \in 0 .. Count
         /\ \A i \in 1 .. Count : mappings[i].guest <= guest <=> i <= UpperBound(guest)
<1>1. PICK n \in 0 .. Count : \A i \in 1 .. Count : mappings[i].guest <= guest <=> i <= n
  BY Leading
<1>2. Count \in Nat
  BY DEF Tidy, Count
<1> DEFINE c == CHOOSE s : s = Round(s, guest)
<1>3. UpperBound(guest) = c[<<0, Count>>]
  BY DEF UpperBound, Round
<1> DEFINE f == [r \in (0 .. Count) \X (0 .. Count) |-> Clamped(n, r[1], r[2])]
<1>4. f = Round(f, guest)
  <2>1. ASSUME NEW lo \in 0 .. Count, NEW hi \in 0 .. Count
        PROVE  LET mid == lo + (hi - lo) \div 2
               IN  Clamped(n, lo, hi) =
                     IF lo >= hi THEN lo
                     ELSE IF mappings[mid + 1].guest <= guest THEN f[<<mid + 1, hi>>]
                     ELSE f[<<lo, mid>>]
    <3>1. CASE lo >= hi
      BY <3>1 DEF Clamped
    <3>2. CASE ~(lo >= hi)
      <4> DEFINE mid == lo + (hi - lo) \div 2
      <4>1. lo < hi /\ mid \in Int /\ lo <= mid /\ mid < hi
        BY <1>2, <3>2, Middle
      <4> HIDE DEF mid
      <4>2. /\ mid + 1 \in 0 .. Count /\ mid \in 0 .. Count
            /\ mappings[mid + 1].guest <= guest => Clamped(n, lo, hi) = Clamped(n, mid + 1, hi)
            /\ ~(mappings[mid + 1].guest <= guest) => Clamped(n, lo, hi) = Clamped(n, lo, mid)
        <5>1. /\ mid + 1 \in 0 .. Count /\ mid \in 0 .. Count /\ mid + 1 \in 1 .. Count
              /\ mid + 1 <= n => Clamped(n, lo, hi) = Clamped(n, mid + 1, hi)
              /\ ~(mid + 1 <= n) => Clamped(n, lo, hi) = Clamped(n, lo, mid)
          BY <1>2, <4>1, RoundClamped
        <5>2. mappings[mid + 1].guest <= guest <=> mid + 1 <= n
          BY <1>1, <5>1
        <5> HIDE DEF f, c
        <5> QED
          BY <5>1, <5>2
      <4>3. f[<<mid + 1, hi>>] = Clamped(n, mid + 1, hi) /\ f[<<lo, mid>>] = Clamped(n, lo, mid)
        BY <4>2
      <4>4. Clamped(n, lo, hi) = IF lo >= hi THEN lo
                                 ELSE IF mappings[mid + 1].guest <= guest THEN f[<<mid + 1, hi>>]
                                 ELSE f[<<lo, mid>>]
        BY <3>2, <4>2, <4>3
      <4> QED
        BY <4>4 DEF mid
    <3> QED
      BY <3>1, <3>2
  <2> QED
    BY <2>1 DEF Round
<1>5. c = Round(c, guest)
  <2> HIDE DEF f
  <2> QED
    BY <1>4, Zenon
<1> HIDE DEF c, f
<1> DEFINE T == {d \in Nat : \A lo, hi \in 0 .. Count : hi - lo <= d => c[<<lo, hi>>] = Clamped(n, lo, hi)}
<1>6. \A lo, hi \in 0 .. Count :
        LET mid == lo + (hi - lo) \div 2
        IN  c[<<lo, hi>>] = IF lo >= hi THEN lo
                        ELSE IF mappings[mid + 1].guest <= guest THEN c[<<mid + 1, hi>>]
                        ELSE c[<<lo, mid>>]
  BY <1>5 DEF Round
<1>7. 0 \in T
  <2> SUFFICES ASSUME NEW lo \in 0 .. Count, NEW hi \in 0 .. Count, hi - lo <= 0
               PROVE  c[<<lo, hi>>] = Clamped(n, lo, hi)
    OBVIOUS
  <2>1. lo >= hi
    BY <1>2
  <2> QED
    BY <1>6, <2>1 DEF Clamped
<1>8. ASSUME NEW d \in Nat, d \in T PROVE d + 1 \in T
  <2> SUFFICES ASSUME NEW lo \in 0 .. Count, NEW hi \in 0 .. Count, hi - lo <= d + 1
               PROVE  c[<<lo, hi>>] = Clamped(n, lo, hi)
    OBVIOUS
  <2>1. CASE lo >= hi
    BY <1>6, <2>1 DEF Clamped
  <2>2. CASE ~(lo >= hi)
    <3> DEFINE mid == lo + (hi - lo) \div 2
    <3>1. lo < hi /\ mid \in Int /\ lo <= mid /\ mid < hi
      BY <1>2, <2>2, Middle
    <3>2. c[<<lo, hi>>] = IF mappings[mid + 1].guest <= guest THEN c[<<mid + 1, hi>>] ELSE c[<<lo, mid>>]
      BY <1>6, <2>2
    <3> HIDE DEF mid
    <3>3. /\ mid + 1 \in 0 .. Count /\ mid \in 0 .. Count
          /\ mappings[mid + 1].guest <= guest => Clamped(n, lo, hi) = Clamped(n, mid + 1, hi)
          /\ ~(mappings[mid + 1].guest <= guest) => Clamped(n, lo, hi) = Clamped(n, lo, mid)
      <4>1. /\ mid + 1 \in 0 .. Count /\ mid \in 0 .. Count /\ mid + 1 \in 1 .. Count
            /\ mid + 1 <= n => Clamped(n, lo, hi) = Clamped(n, mid + 1, hi)
            /\ ~(mid + 1 <= n) => Clamped(n, lo, hi) = Clamped(n, lo, mid)
          BY <1>2, <3>1, RoundClamped
        <4> QED
          BY <1>1, <4>1
    <3>4. hi - (mid + 1) <= d /\ mid - lo <= d
      BY <1>2, <3>1
    <3>5. c[<<mid + 1, hi>>] = Clamped(n, mid + 1, hi) /\ c[<<lo, mid>>] = Clamped(n, lo, mid)
      BY <1>8, <3>3, <3>4
    <3> QED
      BY <3>2, <3>3, <3>5
  <2> QED
    BY <2>1, <2>2
<1>9. c[<<0, Count>>] = Clamped(n, 0, Count)
  <2>1. Nat \subseteq T
    <3> HIDE DEF T
    <3> QED
      BY <1>7, <1>8, InductionNat
  <2>2. Count \in T /\ 0 \in 0 .. Count /\ Count \in 0 .. Count /\ Count - 0 <= Count
    <3> HIDE DEF T
    <3> QED
      BY <1>2, <2>1
  <2> QED
    BY <2>2
<1>10. Clamped(n, 0, Count) = n
  BY <1>2 DEF Clamped
<1>11. UpperBound(guest) = n
  BY <1>3, <1>9, <1>10, Zenon
<1> QED
  BY <1>1, <1>11

-----------------------------------------------------------------------------
(* Registering and removing one mapping.                                   *)

Between(q, a, b, from, to) == \A i \in a .. b : from <= q[i].guest /\ End(q[i]) <= to

(* Some mappings in a row of a tidy sequence.                              *)
LEMMA TidySub ==
  ASSUME NEW q, Tidy(q, 0, Space), NEW a \in 1 .. Len(q) + 1, NEW b \in 0 .. Len(q), a <= b + 1,
         NEW from \in Int, NEW to \in Int,
         Between(q, a, b, from, to)
  PROVE  /\ Tidy(SubSeq(q, a, b), from, to)
         /\ \A x : Occurs(SubSeq(q, a, b), x) <=> \E i \in a .. b : q[i] = x
         /\ Len(SubSeq(q, a, b)) = b + 1 - a
<1> DEFINE s == SubSeq(q, a, b)
<1>1. q \in Seq(Mapping) /\ Len(q) \in Nat /\ a \in Int /\ b \in Int
  BY DEF Tidy
<1>2. \A i \in a .. b : i \in 1 .. Len(q) /\ q[i] \in Mapping
  BY <1>1
<1>3. /\ s \in Seq(Mapping) /\ Len(s) = b + 1 - a
      /\ \A i \in 1 .. b + 1 - a : s[i] = q[a + i - 1]
  BY <1>1, <1>2
<1>4. \A i \in 1 .. b + 1 - a : a + i - 1 \in a .. b
  BY <1>1
<1>5. \A i \in a .. b : i - a + 1 \in 1 .. b + 1 - a /\ a + (i - a + 1) - 1 = i
  BY <1>1
<1> HIDE DEF s
<1>6. \A i \in 1 .. Len(s) : /\ from <= s[i].guest /\ End(s[i]) <= to
                             /\ s[i].host + s[i].size <= HostSpace
  BY <1>2, <1>3, <1>4 DEF Tidy, Between
<1>7. ASSUME NEW i \in 1 .. Len(s), NEW j \in 1 .. Len(s), i < j PROVE End(s[i]) <= s[j].guest
  <2>1. /\ a + i - 1 \in 1 .. Len(q) /\ a + j - 1 \in 1 .. Len(q) /\ a + i - 1 < a + j - 1
        /\ s[i] = q[a + i - 1] /\ s[j] = q[a + j - 1]
    BY <1>1, <1>2, <1>3, <1>4, <1>7
  <2> QED
    BY <2>1 DEF Tidy
<1>8. ASSUME NEW x PROVE Occurs(s, x) <=> \E i \in a .. b : q[i] = x
  <2>1. ASSUME Occurs(s, x) PROVE \E i \in a .. b : q[i] = x
    BY <1>3, <1>4, <2>1 DEF Occurs
  <2>2. ASSUME NEW i \in a .. b, q[i] = x PROVE Occurs(s, x)
    <3>1. i - a + 1 \in 1 .. Len(s) /\ s[i - a + 1] = q[i]
      BY <1>3, <1>5
    <3> QED
      BY <2>2, <3>1 DEF Occurs
  <2> QED
    BY <2>1, <2>2
<1> QED
  BY <1>3, <1>6, <1>7, <1>8 DEF Tidy, s

(* Where upper_bound points, and what lies before and after it.            *)
LEMMA BoundFact ==
  ASSUME Tidy(mappings, 0, Space), NEW guest \in Int
  PROVE  /\ UpperBound(guest) \in 0 .. Count /\ UpperBound(guest) \in Nat /\ Count \in Nat
         /\ \A i \in 1 .. Count : /\ mappings[i] \in Mapping
                                  /\ mappings[i].guest <= guest <=> i <= UpperBound(guest)
                                  /\ Holds(mappings[i], guest) => i = UpperBound(guest)
<1>1. /\ UpperBound(guest) \in 0 .. Count
      /\ \A i \in 1 .. Count : mappings[i].guest <= guest <=> i <= UpperBound(guest)
  BY UpperBoundFact
<1>2. Count \in Nat /\ \A i \in 1 .. Count : mappings[i] \in Mapping
  BY DEF Tidy, Count
<1>3. ASSUME NEW i \in 1 .. Count, Holds(mappings[i], guest) PROVE i = UpperBound(guest)
  <2>1. i <= UpperBound(guest)
    BY <1>1, <1>3 DEF Holds
  <2>2. CASE i < UpperBound(guest)
    <3>1. i + 1 \in 1 .. Count /\ i + 1 <= UpperBound(guest) /\ i < i + 1
      BY <1>1, <1>2, <2>2
    <3>2. mappings[i + 1].guest <= guest /\ End(mappings[i]) <= mappings[i + 1].guest
      BY <1>1, <3>1 DEF Tidy, Count
    <3>3. End(mappings[i]) \in Int /\ mappings[i + 1].guest \in Int
      BY <1>2, <3>1, MappingFields
    <3> QED
      BY <1>3, <3>2, <3>3 DEF Holds
  <2> QED
    BY <1>1, <1>2, <2>1, <2>2
<1> QED
  BY <1>1, <1>2, <1>3

(* A range that is available lies between two mappings.                    *)
LEMMA AvailableFact ==
  ASSUME Tidy(mappings, 0, Space), NEW guest \in Nat, NEW size \in Nat, RangeAvailable(guest, size)
  PROVE  /\ guest + size <= Space
         /\ \A i \in 1 .. UpperBound(guest) : End(mappings[i]) <= guest
         /\ \A i \in UpperBound(guest) + 1 .. Count : guest + size <= mappings[i].guest
<1> DEFINE at == UpperBound(guest)
<1>1. at \in 0 .. Count /\ Count \in Nat /\ \A i \in 1 .. Count : mappings[i] \in Mapping
  BY BoundFact
<1>2. /\ guest + size <= Space /\ (at > 0 => guest >= End(mappings[at]))
      /\ (at < Count => mappings[at + 1].guest - guest >= size)
  BY DEF RangeAvailable
<1> HIDE DEF at
<1>3. \A i \in 1 .. Count : /\ mappings[i].guest \in Int /\ End(mappings[i]) \in Int
                            /\ mappings[i].guest < End(mappings[i])
  BY <1>1, MappingFields
<1>4. \A i, j \in 1 .. Count : i < j => End(mappings[i]) <= mappings[j].guest
  BY DEF Tidy, Count
<1>5. ASSUME NEW i \in 1 .. at PROVE End(mappings[i]) <= guest
  <2>1. at \in 1 .. Count /\ i \in 1 .. Count /\ (i = at \/ i < at)
    BY <1>1
  <2> QED
    BY <1>2, <1>3, <1>4, <2>1
<1>6. ASSUME NEW i \in at + 1 .. Count PROVE guest + size <= mappings[i].guest
  <2>1. at + 1 \in 1 .. Count /\ i \in 1 .. Count /\ (i = at + 1 \/ at + 1 < i) /\ at < Count
    BY <1>1
  <2>2. guest + size <= mappings[at + 1].guest
    BY <1>2, <1>3, <2>1
  <2> QED
    BY <1>3, <1>4, <2>1, <2>2
<1> QED
  BY <1>2, <1>5, <1>6 DEF at

(* x86p_sparse_map_access inserts a mapping where nothing was.             *)
LEMMA InsertFact ==
  ASSUME Tidy(mappings, 0, Space), NEW m \in Mapping, m.host + m.size <= HostSpace,
         RangeAvailable(m.guest, m.size)
  PROVE  /\ Tidy(InsertAt(mappings, UpperBound(m.guest) + 1, m), 0, Space)
         /\ \A x : Occurs(InsertAt(mappings, UpperBound(m.guest) + 1, m), x) <=> Occurs(mappings, x) \/ x = m
         /\ \A x, a : Occurs(mappings, x) /\ Holds(x, a) /\ a \in Int => ~Holds(m, a)
         /\ Len(InsertAt(mappings, UpperBound(m.guest) + 1, m)) = Count + 1
<1> DEFINE at == UpperBound(m.guest)
           q == SubSeq(mappings, 1, at)
           r == SubSeq(mappings, at + 1, Count)
<1>1. /\ m.guest \in Nat /\ m.size \in Nat /\ m.size > 0 /\ End(m) \in Nat /\ End(m) = m.guest + m.size
      /\ m.guest < End(m)
  BY MappingFields
<1>2. at \in 0 .. Count /\ at \in Nat /\ Count \in Nat /\ \A i \in 1 .. Count : mappings[i] \in Mapping
  BY <1>1, BoundFact
<1>3. /\ End(m) <= Space
      /\ \A i \in 1 .. at : End(mappings[i]) <= m.guest
      /\ \A i \in at + 1 .. Count : End(m) <= mappings[i].guest
  BY <1>1, AvailableFact
<1>4. InsertAt(mappings, at + 1, m) = (q \o <<m>>) \o r
  <2>1. (at + 1) - 1 = at
    BY <1>2
  <2> QED
    BY <2>1 DEF InsertAt, Count
<1> HIDE DEF at
<1>5. /\ Tidy(q, 0, m.guest) /\ Len(q) = at
      /\ \A x : Occurs(q, x) <=> \E i \in 1 .. at : mappings[i] = x
  <2>1. /\ 1 \in 1 .. Len(mappings) + 1 /\ at \in 0 .. Len(mappings) /\ 1 <= at + 1
        /\ Between(mappings, 1, at, 0, m.guest)
    BY <1>2, <1>3 DEF Tidy, Count, Between
  <2>2. at + 1 - 1 = at
    BY <1>2
  <2> QED
    BY <1>1, <2>1, <2>2, TidySub
<1>6. /\ Tidy(r, End(m), Space) /\ Len(r) = Count - at
      /\ \A x : Occurs(r, x) <=> \E i \in at + 1 .. Count : mappings[i] = x
  <2>1. /\ at + 1 \in 1 .. Len(mappings) + 1 /\ Count \in 0 .. Len(mappings) /\ at + 1 <= Count + 1
        /\ Between(mappings, at + 1, Count, End(m), Space)
    BY <1>2, <1>3 DEF Tidy, Count, Between
  <2>2. Count + 1 - (at + 1) = Count - at
    BY <1>2
  <2> QED
    BY <1>1, <2>1, <2>2, TidySub, SparseAssumption
<1>7. Tidy(<<m>>, m.guest, End(m)) /\ (\A x : Occurs(<<m>>, x) <=> x = m) /\ Len(<<m>>) = 1
  BY <1>1, TidySingle
<1> HIDE DEF q, r
<1>8. /\ Tidy(q \o <<m>>, 0, End(m)) /\ Len(q \o <<m>>) = Len(q) + Len(<<m>>)
      /\ \A x : Occurs(q \o <<m>>, x) <=> Occurs(q, x) \/ Occurs(<<m>>, x)
  <2>1. 0 <= m.guest /\ m.guest <= End(m)
    BY <1>1
  <2> QED
    BY <1>1, <1>5, <1>7, <2>1, TidyConcat
<1> DEFINE p == q \o <<m>>
<1> HIDE DEF p
<1>9. /\ Tidy(p \o r, 0, Space) /\ Len(p \o r) = Len(p) + Len(r)
      /\ \A x : Occurs(p \o r, x) <=> Occurs(p, x) \/ Occurs(r, x)
  <2>1. /\ 0 <= End(m) /\ End(m) <= Space /\ Space \in Int /\ 0 \in Int /\ End(m) \in Int
        /\ Tidy(p, 0, End(m)) /\ Tidy(r, End(m), Space)
    BY <1>1, <1>3, <1>6, <1>8, SparseAssumption DEF p
  <2> QED
    BY <2>1, TidyConcat
<1>10. Len(p \o r) = Count + 1
  BY <1>2, <1>5, <1>6, <1>7, <1>8, <1>9 DEF p
<1>11. ASSUME NEW x PROVE Occurs(p \o r, x) <=> Occurs(mappings, x) \/ x = m
  <2>1. \A i : i \in 1 .. Count <=> i \in 1 .. at \/ i \in at + 1 .. Count
    BY <1>2
  <2>2. Occurs(mappings, x) <=> \E i \in 1 .. Count : mappings[i] = x
    BY DEF Occurs, Count
  <2>3. Occurs(p, x) <=> Occurs(q, x) \/ x = m
    BY <1>7, <1>8 DEF p
  <2> QED
    BY <1>5, <1>6, <1>9, <2>1, <2>2, <2>3
<1>12. ASSUME NEW x, NEW a \in Int, Occurs(mappings, x), Holds(x, a) PROVE ~Holds(m, a)
  <2>1. PICK i \in 1 .. Count : mappings[i] = x
    BY <1>12 DEF Occurs, Count
  <2>2. x.guest \in Int /\ End(x) \in Int
    BY <1>2, <2>1, MappingFields
  <2>3. End(x) <= m.guest \/ End(m) <= x.guest
    BY <1>2, <1>3, <2>1
  <2> QED
    BY <1>1, <1>12, <2>2, <2>3 DEF Holds
<1>13. InsertAt(mappings, at + 1, m) = p \o r
  BY <1>4 DEF p
<1> QED
  BY <1>9, <1>10, <1>11, <1>12, <1>13 DEF at

(* x86p_sparse_unmap takes one mapping out.                                *)
LEMMA RemoveFact ==
  ASSUME Tidy(mappings, 0, Space), NEW at \in 1 .. Count
  PROVE  /\ Tidy(RemoveAt(mappings, at), 0, Space)
         /\ \A x : Occurs(RemoveAt(mappings, at), x) <=> Occurs(mappings, x) /\ x # mappings[at]
         /\ Len(RemoveAt(mappings, at)) = Count - 1
<1> DEFINE m == mappings[at]
           q == SubSeq(mappings, 1, at - 1)
           r == SubSeq(mappings, at + 1, Count)
<1>1. Count \in Nat /\ at \in Nat /\ \A i \in 1 .. Count : mappings[i] \in Mapping
  BY DEF Tidy, Count
<1>2. \A i \in 1 .. Count : /\ mappings[i].guest \in Int /\ End(mappings[i]) \in Int
                            /\ mappings[i].guest < End(mappings[i]) /\ 0 <= mappings[i].guest
                            /\ End(mappings[i]) <= Space
  BY <1>1, MappingFields DEF Tidy, Count
<1>3. \A i, j \in 1 .. Count : i < j => End(mappings[i]) <= mappings[j].guest
  BY DEF Tidy, Count
<1>4. \A i \in 1 .. Count : mappings[i] = m => i = at
  <2> SUFFICES ASSUME NEW i \in 1 .. Count, mappings[i] = m PROVE i = at
    OBVIOUS
  <2>1. i < at => End(mappings[i]) <= m.guest
    BY <1>3
  <2>2. at < i => End(m) <= mappings[i].guest
    BY <1>3
  <2> QED
    BY <1>1, <1>2, <2>1, <2>2
<1>5. /\ Tidy(q, 0, m.guest) /\ Len(q) = at - 1
      /\ \A x : Occurs(q, x) <=> \E i \in 1 .. at - 1 : mappings[i] = x
  <2>1. /\ 1 \in 1 .. Len(mappings) + 1 /\ at - 1 \in 0 .. Len(mappings) /\ 1 <= (at - 1) + 1
        /\ Between(mappings, 1, at - 1, 0, m.guest)
    BY <1>1, <1>2, <1>3 DEF Count, Between
  <2>2. (at - 1) + 1 - 1 = at - 1 /\ m.guest \in Int
    BY <1>1, <1>2
  <2> HIDE DEF m
  <2> QED
    BY <2>1, <2>2, TidySub
<1>6. /\ Tidy(r, m.guest, Space) /\ Len(r) = Count - at
      /\ \A x : Occurs(r, x) <=> \E i \in at + 1 .. Count : mappings[i] = x
  <2>1. /\ at + 1 \in 1 .. Len(mappings) + 1 /\ Count \in 0 .. Len(mappings) /\ at + 1 <= Count + 1
    BY <1>1 DEF Count
  <2>2. Between(mappings, at + 1, Count, m.guest, Space)
    <3> SUFFICES ASSUME NEW i \in at + 1 .. Count
                 PROVE  m.guest <= mappings[i].guest /\ End(mappings[i]) <= Space
      BY DEF Between
    <3>1. i \in 1 .. Count /\ at < i
      BY <1>1
    <3> QED
      BY <1>2, <1>3, <3>1
  <2>3. Count + 1 - (at + 1) = Count - at /\ m.guest \in Int /\ Space \in Int
    BY <1>1, <1>2, SparseAssumption
  <2> HIDE DEF m
  <2> QED
    BY <2>1, <2>2, <2>3, TidySub
<1>7. RemoveAt(mappings, at) = q \o r
  BY DEF RemoveAt, Count
<1>8. m.guest \in Int /\ 0 <= m.guest /\ m.guest <= Space /\ Space \in Int /\ 0 \in Int
  BY <1>2, SparseAssumption
<1> HIDE DEF m, q, r
<1>9. /\ Tidy(q \o r, 0, Space) /\ Len(q \o r) = Len(q) + Len(r)
      /\ \A x : Occurs(q \o r, x) <=> Occurs(q, x) \/ Occurs(r, x)
  BY <1>5, <1>6, <1>8, TidyConcat
<1>10. Len(q \o r) = Count - 1
  BY <1>1, <1>5, <1>6, <1>9
<1>11. ASSUME NEW x PROVE Occurs(q \o r, x) <=> Occurs(mappings, x) /\ x # m
  <2>1. \A i : i \in 1 .. at - 1 \/ i \in at + 1 .. Count <=> i \in 1 .. Count /\ i # at
    BY <1>1
  <2>2. Occurs(mappings, x) <=> \E i \in 1 .. Count : mappings[i] = x
    BY DEF Occurs, Count
  <2>3. mappings[at] = m
    BY DEF m
  <2> QED
    BY <1>4, <1>5, <1>6, <1>9, <2>1, <2>2, <2>3
<1> QED
  BY <1>7, <1>9, <1>10, <1>11 DEF m

-----------------------------------------------------------------------------
(* The inductive invariant.                                                *)

(* An allocation registered keeps one distance from guest to host, however *)
(* often it is cut, and no mapping is of an allocation yet to come.        *)
OneBacking ==
  /\ \A x, y : Occurs(mappings, x) /\ Occurs(mappings, y) /\ x.allocation = y.allocation =>
       x.host - x.guest = y.host - y.guest
  /\ \A x : Occurs(mappings, x) => x.allocation <= next_allocation

SparseInv ==
  /\ Tidy(mappings, 0, Space) /\ next_allocation \in 0 .. MaxAllocations
  /\ OneBacking

(* What x86p_sparse_map_access registers.                                  *)
LEMMA NewMapping ==
  ASSUME SparseInv, NEW guest \in Addresses, NEW size \in Sizes, NEW host \in Hosts, NEW access \in Accesses,
         MapAccess(guest, host, size, access)
  PROVE  \E m \in Mapping :
           /\ m.guest = guest /\ m.size = size /\ m.host = host /\ m.access = access
           /\ m.allocation = next_allocation + 1 /\ m.host + m.size <= HostSpace
           /\ RangeAvailable(guest, size)
           /\ mappings' = InsertAt(mappings, UpperBound(guest) + 1, m)
<1>1. next_allocation' \in 1 .. MaxAllocations /\ next_allocation' = next_allocation + 1
  BY SparseAssumption DEF SparseInv, MapAccess
<1> DEFINE m == [guest |-> guest, size |-> size, host |-> host, access |-> access,
                 allocation |-> next_allocation']
<1>2. m \in Mapping
  BY <1>1 DEF Mapping
<1>3. mappings' = InsertAt(mappings, UpperBound(guest) + 1, m)
  BY DEF MapAccess
<1>4. m.host + m.size <= HostSpace /\ RangeAvailable(guest, size)
  BY DEF MapAccess, HostFits
<1> QED
  BY <1>1, <1>2, <1>3, <1>4

(* A range holds an address once all of it is in guest memory.             *)
LEMMA RangeFacts ==
  ASSUME NEW guest \in Addresses, NEW size \in Sizes
  PROVE  guest \in Nat /\ size \in Nat /\ size > 0 /\ guest < guest + size
         /\ guest + size \in Int /\ guest \in Int /\ guest < Space
  BY SparseAssumption DEF Addresses, Sizes

(* Cutting up mappings does not disturb their backing.                     *)
LEMMA ChangeKeeps ==
  ASSUME SparseInv, NEW guest \in Addresses, NEW size \in Sizes,
         NEW remove \in BOOLEAN, NEW access \in Accesses,
         mappings' = Changed(guest, guest + size, remove, access), UNCHANGED next_allocation
  PROVE  SparseInv'
<1> DEFINE end == guest + size
           q == Changed(guest, end, remove, access)
<1>1. guest \in Int /\ end \in Int /\ guest < end
  BY RangeFacts
<1>2. Tidy(mappings, 0, Space) /\ OneBacking
  BY DEF SparseInv
<1>3. /\ Tidy(q, 0, Space)
      /\ \A x : Occurs(q, x) <=> \E i \in 1 .. Count : Occurs(Cut(mappings[i], guest, end, remove, access), x)
  <2> HIDE DEF end
  <2> QED
    BY <1>1, <1>2, ChangedFact
<1>4. \A i \in 1 .. Count : mappings[i] \in Mapping /\ End(mappings[i]) <= Space
                            /\ mappings[i].host + mappings[i].size <= HostSpace
  BY <1>2 DEF Tidy, Count
<1> HIDE DEF end, q
<1>5. ASSUME NEW x, Occurs(q, x)
      PROVE  \E y : Occurs(mappings, y) /\ y.allocation = x.allocation /\ y.host - y.guest = x.host - x.guest
  <2>1. PICK i \in 1 .. Count : Occurs(Cut(mappings[i], guest, end, remove, access), x)
    BY <1>3, <1>5
  <2>2. CutOf(x, mappings[i], guest, end, remove, access)
    BY <1>1, <1>4, <2>1, CutFact
  <2>3. Occurs(mappings, mappings[i])
    BY DEF Occurs, Count
  <2> QED
    BY <2>2, <2>3 DEF CutOf
<1>6. mappings' = q
  BY DEF q, end
<1>7. /\ \A x, y : Occurs(q, x) /\ Occurs(q, y) /\ x.allocation = y.allocation => x.host - x.guest = y.host - y.guest
      /\ \A x : Occurs(q, x) => x.allocation <= next_allocation
  BY <1>2, <1>5 DEF OneBacking
<1>8. next_allocation' \in 0 .. MaxAllocations
  BY DEF SparseInv
<1> QED
  BY <1>3, <1>6, <1>7, <1>8 DEF SparseInv, OneBacking

(* Every call keeps the invariant.                                         *)
LEMMA SparseStep == SparseInv /\ [Next]_vars => SparseInv'
<1>1. ASSUME SparseInv, NEW guest \in Addresses, NEW size \in Sizes, NEW host \in Hosts,
             NEW access \in Accesses, MapAccess(guest, host, size, access)
      PROVE  SparseInv'
  <2>1. PICK m \in Mapping :
           /\ m.guest = guest /\ m.size = size /\ m.host = host /\ m.access = access
           /\ m.allocation = next_allocation + 1 /\ m.host + m.size <= HostSpace
           /\ RangeAvailable(guest, size)
           /\ mappings' = InsertAt(mappings, UpperBound(guest) + 1, m)
    BY <1>1, NewMapping
  <2>2. Tidy(mappings, 0, Space) /\ OneBacking /\ next_allocation \in Nat
    BY <1>1 DEF SparseInv
  <2>3. Tidy(mappings', 0, Space) /\ \A x : Occurs(mappings', x) <=> Occurs(mappings, x) \/ x = m
    BY <2>1, <2>2, InsertFact
  <2>4. next_allocation' = next_allocation + 1 /\ next_allocation' \in 0 .. MaxAllocations
    BY <1>1, <2>2, SparseAssumption DEF MapAccess
  <2>5. ASSUME NEW x, Occurs(mappings, x) PROVE x.allocation <= next_allocation /\ x.allocation \in Int
    <3>1. x \in Mapping
      BY <2>2, <2>5 DEF Occurs, Tidy
    <3> QED
      BY <2>2, <2>5, <3>1, MappingFields DEF OneBacking
  <2>6. \A x : Occurs(mappings', x) => x.allocation <= next_allocation'
    BY <2>1, <2>2, <2>3, <2>4, <2>5
  <2>7. ASSUME NEW x, NEW y, Occurs(mappings', x), Occurs(mappings', y), x.allocation = y.allocation
        PROVE  x.host - x.guest = y.host - y.guest
    <3>1. x = m => y = m
      BY <2>1, <2>2, <2>3, <2>5, <2>7
    <3>2. y = m => x = m
      BY <2>1, <2>2, <2>3, <2>5, <2>7
    <3> QED
      BY <2>2, <2>3, <2>7, <3>1, <3>2 DEF OneBacking
  <2> QED
    BY <2>3, <2>4, <2>6, <2>7 DEF SparseInv, OneBacking
<1>2. ASSUME SparseInv, NEW guest \in Addresses, NEW size \in Sizes, Unmap(guest, size)
      PROVE  SparseInv'
  <2> DEFINE at == UpperBound(guest)
  <2>1. Tidy(mappings, 0, Space) /\ OneBacking
    BY <1>2 DEF SparseInv
  <2>2. at \in 1 .. Count
    BY <1>2, <2>1, BoundFact, RangeFacts DEF Unmap
  <2>3. mappings' = RemoveAt(mappings, at) /\ UNCHANGED next_allocation
    BY <1>2 DEF Unmap
  <2> HIDE DEF at
  <2>4. Tidy(mappings', 0, Space) /\ \A x : Occurs(mappings', x) <=> Occurs(mappings, x) /\ x # mappings[at]
    BY <2>1, <2>2, <2>3, RemoveFact
  <2> QED
    BY <1>2, <2>1, <2>3, <2>4 DEF SparseInv, OneBacking
<1>3. ASSUME SparseInv, NEW guest \in Addresses, NEW size \in Sizes, UnmapRange(guest, size)
      PROVE  SparseInv'
  BY <1>3, ChangeKeeps, SparseAssumption DEF UnmapRange
<1>4. ASSUME SparseInv, NEW guest \in Addresses, NEW size \in Sizes, NEW access \in Accesses,
             Protect(guest, size, access)
      PROVE  SparseInv'
  BY <1>4, ChangeKeeps DEF Protect
<1>5. ASSUME SparseInv, UNCHANGED vars PROVE SparseInv'
  BY <1>5 DEF SparseInv, OneBacking, vars
<1> QED
  BY <1>1, <1>2, <1>3, <1>4, <1>5 DEF Next

(* The array of mappings is sorted, apart and within the guest's and the   *)
(* host's memory after every call, and an allocation is never stretched:   *)
(* all its fragments lie at one distance from their backing.               *)
THEOREM SparseInvariant == Spec => []SparseInv
<1>1. Init => SparseInv
  <2> SUFFICES ASSUME Init PROVE SparseInv
    OBVIOUS
  <2>1. mappings = <<>> /\ next_allocation = 0
    BY DEF Init
  <2>2. Tidy(<<>>, 0, Space) /\ \A x : ~Occurs(<<>>, x)
    BY TidyEmpty
  <2> QED
    BY <2>1, <2>2, SparseAssumption DEF SparseInv, OneBacking
<1> QED
  BY <1>1, SparseStep, PTL DEF Spec

(* Types; and no mapping reaches past the guest's or the host's memory.    *)
THEOREM SparseTypes == Spec => []TypeOK
<1>1. SparseInv => TypeOK
  BY DEF SparseInv, TypeOK, Tidy, Count
<1> QED
  BY <1>1, SparseInvariant, PTL

(* The buffer of count + 2 that change_range allocates is never overrun:   *)
(* a range cuts at most the two mappings at its ends in two.               *)
THEOREM SplitsFit == Spec => SplitsBounded
<1>1. ASSUME SparseInv, [Next]_vars PROVE [Len(mappings') <= Count + 2]_vars
  <2>1. Tidy(mappings, 0, Space) /\ Count \in Nat
    BY <1>1 DEF SparseInv, Tidy, Count
  <2>2. ASSUME NEW guest \in Addresses, NEW size \in Sizes, NEW host \in Hosts,
               NEW access \in Accesses, MapAccess(guest, host, size, access)
        PROVE  Len(mappings') <= Count + 2
    <3>1. PICK m \in Mapping :
             /\ m.guest = guest /\ m.size = size /\ m.host + m.size <= HostSpace
             /\ RangeAvailable(guest, size)
             /\ mappings' = InsertAt(mappings, UpperBound(guest) + 1, m)
      BY <1>1, <2>2, NewMapping
    <3>2. Len(mappings') = Count + 1
      BY <2>1, <3>1, InsertFact
    <3> QED
      BY <2>1, <3>2
  <2>3. ASSUME NEW guest \in Addresses, NEW size \in Sizes, Unmap(guest, size)
        PROVE  Len(mappings') <= Count + 2
    <3>1. UpperBound(guest) \in 1 .. Count /\ mappings' = RemoveAt(mappings, UpperBound(guest))
      BY <2>1, <2>3, BoundFact, RangeFacts DEF Unmap
    <3>2. Len(mappings') = Count - 1
      BY <2>1, <3>1, RemoveFact
    <3> QED
      BY <2>1, <3>2
  <2>4. ASSUME NEW guest \in Addresses, NEW size \in Sizes, NEW remove \in BOOLEAN, NEW access \in Accesses,
               mappings' = Changed(guest, guest + size, remove, access)
        PROVE  Len(mappings') <= Count + 2
    BY <2>1, <2>4, ChangedFact, RangeFacts
  <2>5. ASSUME NEW guest \in Addresses, NEW size \in Sizes, UnmapRange(guest, size)
        PROVE  Len(mappings') <= Count + 2
    BY <2>4, <2>5, SparseAssumption DEF UnmapRange
  <2>6. ASSUME NEW guest \in Addresses, NEW size \in Sizes, NEW access \in Accesses,
               Protect(guest, size, access)
        PROVE  Len(mappings') <= Count + 2
    BY <2>4, <2>6 DEF Protect
  <2> QED
    BY <1>1, <2>2, <2>3, <2>5, <2>6 DEF Next
<1> QED
  BY <1>1, SparseInvariant, PTL DEF Spec, SplitsBounded

-----------------------------------------------------------------------------
(* Spans.                                                                  *)

Held(a) == \E i \in 1 .. Count : Holds(mappings[i], a)

(* x86p_sparse_span_access: how far one mapping goes, or nothing.          *)
LEMMA SpanFact ==
  ASSUME Tidy(mappings, 0, Space), NEW cursor \in Int, NEW max \in Nat, max > 0
  PROVE  /\ \A i \in 1 .. Count : Holds(mappings[i], cursor) =>
              /\ SpanAccess(cursor, max, {}) = SmallerOf(End(mappings[i]) - cursor, max)
              /\ SpanAccess(cursor, max, {}) \in Nat /\ SpanAccess(cursor, max, {}) > 0
              /\ SpanAccess(cursor, max, {}) <= max
              /\ cursor + SpanAccess(cursor, max, {}) <= End(mappings[i])
         /\ ~Held(cursor) => SpanAccess(cursor, max, {}) = 0
<1> DEFINE at == UpperBound(cursor)
<1>1. /\ at \in 0 .. Count /\ at \in Nat /\ Count \in Nat
      /\ \A i \in 1 .. Count : /\ mappings[i] \in Mapping
                               /\ mappings[i].guest <= cursor <=> i <= at
                               /\ Holds(mappings[i], cursor) => i = at
  BY BoundFact
<1>2. \A i \in 1 .. Count : End(mappings[i]) \in Int
  BY <1>1, MappingFields
<1>3. SpanAccess(cursor, max, {}) =
        IF at = 0 \/ cursor >= End(mappings[at]) THEN 0 ELSE SmallerOf(End(mappings[at]) - cursor, max)
  BY DEF SpanAccess, SmallerOf
<1> HIDE DEF at
<1>4. ASSUME NEW i \in 1 .. Count, Holds(mappings[i], cursor)
      PROVE  /\ SpanAccess(cursor, max, {}) = SmallerOf(End(mappings[i]) - cursor, max)
             /\ SpanAccess(cursor, max, {}) \in Nat /\ SpanAccess(cursor, max, {}) > 0
             /\ SpanAccess(cursor, max, {}) <= max
             /\ cursor + SpanAccess(cursor, max, {}) <= End(mappings[i])
  <2>1. i = at /\ at # 0 /\ cursor < End(mappings[i])
    BY <1>1, <1>4 DEF Holds
  <2>2. SpanAccess(cursor, max, {}) = SmallerOf(End(mappings[i]) - cursor, max)
    BY <1>2, <1>3, <2>1
  <2> QED
    BY <1>2, <2>1, <2>2 DEF SmallerOf
<1>5. ASSUME ~Held(cursor) PROVE SpanAccess(cursor, max, {}) = 0
  <2>1. CASE at = 0
    BY <1>3, <2>1
  <2>2. CASE at # 0
    <3>1. at \in 1 .. Count /\ mappings[at].guest <= cursor
      BY <1>1, <2>2
    <3>2. ~(cursor < End(mappings[at]))
      BY <1>5, <3>1 DEF Held, Holds
    <3>3. cursor >= End(mappings[at])
      BY <1>2, <3>1, <3>2
    <3> QED
      BY <1>3, <3>3
  <2> QED
    BY <2>1, <2>2
<1> QED
  BY <1>4, <1>5

\* One round of whole_span's loop.
SpanRound(s, guest, end) ==
  [cursor \in guest .. end |->
     cursor = end \/
     LET n == SpanAccess(cursor, end - cursor, {}) IN n > 0 /\ s[cursor + n]]

(* whole_span says whether every byte of a range is in some mapping.       *)
LEMMA WholeSpanFact ==
  ASSUME Tidy(mappings, 0, Space), NEW guest \in Nat, NEW size \in Nat
  PROVE  WholeSpan(guest, size) <=>
           guest + size <= Space /\ \A a \in guest .. guest + size - 1 : Held(a)
<1> DEFINE end == guest + size
           c == CHOOSE s : s = SpanRound(s, guest, end)
           Full(cursor) == \A a \in cursor .. end - 1 : Held(a)
           f == [cursor \in guest .. end |-> Full(cursor)]
<1>1. WholeSpan(guest, size) <=> end <= Space /\ c[guest]
  BY DEF WholeSpan, SpanRound
<1>2. end \in Int /\ guest \in Int /\ guest <= end /\ guest \in guest .. end /\ end \in guest .. end
  OBVIOUS
<1>3. ASSUME NEW cursor \in guest .. end, cursor # end
      PROVE  LET n == SpanAccess(cursor, end - cursor, {})
             IN  /\ n > 0 => n \in Nat /\ cursor + n \in guest .. end
                 /\ Full(cursor) <=> n > 0 /\ Full(cursor + n)
  <2> HIDE DEF end
  <2>1. end - cursor \in Nat /\ end - cursor > 0 /\ cursor \in Int
    BY <1>2, <1>3
  <2> DEFINE n == SpanAccess(cursor, end - cursor, {})
  <2>2. CASE Held(cursor)
    <3>1. PICK i \in 1 .. Count : Holds(mappings[i], cursor)
      BY <2>2 DEF Held
    <3>2. n \in Nat /\ n > 0 /\ n <= end - cursor /\ cursor + n <= End(mappings[i])
      BY <2>1, <3>1, SpanFact
    <3>3. mappings[i].guest \in Int /\ End(mappings[i]) \in Int
      BY MappingFields DEF Tidy, Count
    <3> HIDE DEF n
    <3>4. \A a \in cursor .. cursor + n - 1 : Held(a)
      BY <2>1, <3>1, <3>2, <3>3 DEF Held, Holds
    <3>5. cursor + n \in guest .. end
      BY <1>2, <2>1, <3>2
    <3>6. \A a : a \in cursor .. end - 1 <=> a \in cursor .. cursor + n - 1 \/ a \in cursor + n .. end - 1
      BY <1>2, <2>1, <3>2
    <3>7. Full(cursor) <=> Full(cursor + n)
      BY <3>4, <3>6
    <3> HIDE DEF Full
    <3>8. /\ n > 0 => n \in Nat /\ cursor + n \in guest .. end
          /\ Full(cursor) <=> n > 0 /\ Full(cursor + n)
      BY <3>2, <3>5, <3>7
    <3> QED
      BY <3>8 DEF n
  <2>3. CASE ~Held(cursor)
    <3>1. n = 0
      BY <2>1, <2>3, SpanFact
    <3>2. cursor \in cursor .. end - 1
      BY <1>2, <2>1
    <3>3. ~Full(cursor)
      BY <2>3, <3>2
    <3> HIDE DEF Full, n
    <3>4. ~(n > 0)
      BY <3>1
    <3>5. /\ n > 0 => n \in Nat /\ cursor + n \in guest .. end
          /\ Full(cursor) <=> n > 0 /\ Full(cursor + n)
      BY <3>3, <3>4
    <3> QED
      BY <3>5 DEF n
  <2> QED
    BY <2>2, <2>3
<1>4. Full(end)
  BY <1>2
<1> HIDE DEF Full, end
<1>5. f = SpanRound(f, guest, end)
  <2>1. ASSUME NEW cursor \in guest .. end
        PROVE  f[cursor] = (cursor = end \/ LET n == SpanAccess(cursor, end - cursor, {}) IN n > 0 /\ f[cursor + n])
    <3> DEFINE n == SpanAccess(cursor, end - cursor, {})
    <3>1. CASE cursor = end
      <4>1. f[cursor] = TRUE
        BY <1>4, <3>1 DEF Full
      <4> QED
        BY <3>1, <4>1
    <3>2. CASE cursor # end
      <4>1. /\ n > 0 => n \in Nat /\ cursor + n \in guest .. end
            /\ Full(cursor) <=> n > 0 /\ Full(cursor + n)
        BY <1>3, <3>2
      <4>2. f[cursor] = Full(cursor) /\ (n > 0 => f[cursor + n] = Full(cursor + n))
        BY <4>1
      <4>3. Full(cursor) \in BOOLEAN /\ Full(cursor + n) \in BOOLEAN
        BY DEF Full
      <4> HIDE DEF f, n
      <4>4. f[cursor] = (cursor = end \/ (n > 0 /\ f[cursor + n]))
        BY <3>2, <4>1, <4>2, <4>3
      <4> QED
        BY <4>4 DEF n
    <3> QED
      BY <3>1, <3>2
  <2> QED
    BY <2>1, Zenon DEF SpanRound
<1>6. c = SpanRound(c, guest, end)
  <2> HIDE DEF f
  <2> QED
    BY <1>5, Zenon
<1> HIDE DEF c, f
<1>7. \A cursor \in guest .. end :
        c[cursor] <=> (cursor = end \/ LET n == SpanAccess(cursor, end - cursor, {}) IN n > 0 /\ c[cursor + n])
  BY <1>6 DEF SpanRound
<1> DEFINE T == {d \in Nat : \A cursor \in guest .. end : end - cursor <= d => (c[cursor] <=> Full(cursor))}
<1>8. 0 \in T
  <2> SUFFICES ASSUME NEW cursor \in guest .. end, end - cursor <= 0 PROVE c[cursor] <=> Full(cursor)
    OBVIOUS
  <2>1. cursor = end
    BY <1>2
  <2> QED
    BY <1>4, <1>7, <2>1
<1>9. ASSUME NEW d \in Nat, d \in T PROVE d + 1 \in T
  <2> SUFFICES ASSUME NEW cursor \in guest .. end, end - cursor <= d + 1 PROVE c[cursor] <=> Full(cursor)
    OBVIOUS
  <2>1. CASE cursor = end
    BY <1>4, <1>7, <2>1
  <2>2. CASE cursor # end
    <3> DEFINE n == SpanAccess(cursor, end - cursor, {})
    <3>1. /\ n > 0 => n \in Nat /\ cursor + n \in guest .. end
          /\ Full(cursor) <=> n > 0 /\ Full(cursor + n)
      BY <1>3, <2>2
    <3>2. c[cursor] <=> n > 0 /\ c[cursor + n]
      BY <1>7, <2>2
    <3> HIDE DEF n
    <3>3. n > 0 => end - (cursor + n) <= d
      BY <1>2, <3>1
    <3>4. n > 0 => (c[cursor + n] <=> Full(cursor + n))
      BY <1>9, <3>1, <3>3
    <3> QED
      BY <3>1, <3>2, <3>4
  <2> QED
    BY <2>1, <2>2
<1>10. c[guest] <=> Full(guest)
  <2>1. Nat \subseteq T
    <3> HIDE DEF T
    <3> QED
      BY <1>8, <1>9, InductionNat
  <2>2. end - guest \in T /\ end - guest <= end - guest
    <3>1. end - guest \in Nat
      BY <1>2
    <3> HIDE DEF T
    <3> QED
      BY <1>2, <2>1, <3>1
  <2> QED
    BY <1>2, <2>2
<1> QED
  BY <1>1, <1>10 DEF Full, end

-----------------------------------------------------------------------------
(* Each call, on the bytes.                                                *)

(* A byte is the same in two sequences that agree on what holds it.        *)
LEMMA ViewSame ==
  ASSUME NEW q, NEW r, Tidy(q, 0, Space), Tidy(r, 0, Space), NEW a \in Addresses,
         \A x : Holds(x, a) => (Occurs(q, x) <=> Occurs(r, x))
  PROVE  View(r)[a] = View(q)[a]
<1>1. CASE \E x : Occurs(q, x) /\ Holds(x, a)
  BY <1>1, ViewFact
<1>2. CASE ~\E x : Occurs(q, x) /\ Holds(x, a)
  <2>1. \A x : Occurs(r, x) => ~Holds(x, a)
    BY <1>2
  <2> QED
    BY <1>2, <2>1, ViewFact
<1> QED
  BY <1>1, <1>2

(* Registering a mapping backs its range, which was holes.                 *)
LEMMA MapView ==
  ASSUME SparseInv, NEW guest \in Addresses, NEW size \in Sizes, NEW host \in Hosts, NEW access \in Accesses,
         MapAccess(guest, host, size, access), NEW a \in Addresses
  PROVE  /\ a \in guest .. guest + size - 1 => View(mappings)[a] = None
         /\ View(mappings')[a] =
              IF a \in guest .. guest + size - 1
              THEN [host |-> host + a - guest, access |-> access, allocation |-> next_allocation']
              ELSE View(mappings)[a]
<1>1. PICK m \in Mapping :
         /\ m.guest = guest /\ m.size = size /\ m.host = host /\ m.access = access
         /\ m.allocation = next_allocation + 1 /\ m.host + m.size <= HostSpace
         /\ RangeAvailable(guest, size)
         /\ mappings' = InsertAt(mappings, UpperBound(guest) + 1, m)
  BY NewMapping
<1>2. Tidy(mappings, 0, Space)
  BY DEF SparseInv
<1>3. /\ Tidy(mappings', 0, Space)
      /\ \A x : Occurs(mappings', x) <=> Occurs(mappings, x) \/ x = m
      /\ \A x : Occurs(mappings, x) /\ Holds(x, a) => ~Holds(m, a)
  <2>1. a \in Int
    BY DEF Addresses
  <2> QED
    BY <1>1, <1>2, <2>1, InsertFact
<1>4. guest \in Int /\ size \in Int /\ host \in Int /\ a \in Int
  BY RangeFacts DEF Addresses, Hosts
<1>5. a \in guest .. guest + size - 1 <=> Holds(m, a)
  BY <1>1, <1>4 DEF Holds, End
<1>6. ASSUME Holds(m, a)
      PROVE  /\ View(mappings)[a] = None
             /\ View(mappings')[a] = [host |-> host + a - guest, access |-> access, allocation |-> next_allocation']
  <2>1. View(mappings)[a] = None
    BY <1>2, <1>3, <1>6, ViewFact
  <2>2. View(mappings')[a] = ByteOf(m, a)
    BY <1>3, <1>6, ViewFact
  <2>3. next_allocation' = next_allocation + 1
    BY DEF MapAccess
  <2>4. host + (a - guest) = host + a - guest
    BY <1>4
  <2> QED
    BY <1>1, <2>1, <2>2, <2>3, <2>4 DEF ByteOf, HostOf
<1>7. ASSUME ~Holds(m, a) PROVE View(mappings')[a] = View(mappings)[a]
  <2>1. \A x : Holds(x, a) => (Occurs(mappings, x) <=> Occurs(mappings', x))
    BY <1>3, <1>7
  <2> QED
    BY <1>2, <1>3, <2>1, ViewSame
<1> QED
  BY <1>5, <1>6, <1>7

(* Unmapping one mapping leaves holes where it was.                        *)
LEMMA UnmapView ==
  ASSUME SparseInv, NEW guest \in Addresses, NEW size \in Sizes, Unmap(guest, size)
  PROVE  /\ guest + size <= Space
         /\ \A a \in Addresses : View(mappings')[a] =
              IF a \in guest .. guest + size - 1 THEN None ELSE View(mappings)[a]
<1>1. Tidy(mappings, 0, Space)
  BY DEF SparseInv
<1>2. PICK at \in 1 .. Count : /\ mappings[at].guest = guest /\ mappings[at].size = size
                               /\ mappings' = RemoveAt(mappings, at)
  BY <1>1, BoundFact, RangeFacts DEF Unmap
<1>3. /\ Tidy(mappings', 0, Space)
      /\ \A x : Occurs(mappings', x) <=> Occurs(mappings, x) /\ x # mappings[at]
  BY <1>1, <1>2, RemoveFact
<1>4. End(mappings[at]) = guest + size /\ guest + size <= Space
  BY <1>1, <1>2 DEF Tidy, End, Count
<1>5. ASSUME NEW a \in Addresses
      PROVE  View(mappings')[a] = IF a \in guest .. guest + size - 1 THEN None ELSE View(mappings)[a]
  <2>1. guest \in Int /\ size \in Int /\ a \in Int
    BY RangeFacts DEF Addresses
  <2>2. a \in guest .. guest + size - 1 <=> Holds(mappings[at], a)
    BY <1>2, <1>4, <2>1 DEF Holds
  <2>3. CASE Holds(mappings[at], a)
    <3>1. ASSUME NEW x, Occurs(mappings, x), Holds(x, a) PROVE x = mappings[at]
      BY <1>1, <2>1, <2>3, <3>1, HoldsOnce DEF Occurs, Count
    <3>2. \A x : Occurs(mappings', x) => ~Holds(x, a)
      BY <1>3, <3>1
    <3> QED
      BY <1>3, <2>2, <2>3, <3>2, ViewFact
  <2>4. CASE ~Holds(mappings[at], a)
    <3>1. \A x : Holds(x, a) => (Occurs(mappings, x) <=> Occurs(mappings', x))
      BY <1>3, <2>4
    <3>2. View(mappings')[a] = View(mappings)[a]
      BY <1>1, <1>3, <3>1, ViewSame
    <3> QED
      BY <2>2, <2>4, <3>2
  <2> QED
    BY <2>3, <2>4
<1> QED
  BY <1>4, <1>5

WithAccess(byte, access) == [byte EXCEPT !.access = access]

(* A change of a range empties its bytes, or gives them its access and     *)
(* leaves their backing; outside it nothing changes.                       *)
LEMMA ChangeView ==
  ASSUME SparseInv, NEW guest \in Addresses, NEW size \in Sizes,
         NEW remove \in BOOLEAN, NEW access \in Accesses,
         mappings' = Changed(guest, guest + size, remove, access), NEW a \in Addresses
  PROVE  /\ a \notin guest .. guest + size - 1 => View(mappings')[a] = View(mappings)[a]
         /\ a \in guest .. guest + size - 1 /\ remove => View(mappings')[a] = None
         /\ a \in guest .. guest + size - 1 /\ ~remove /\ View(mappings)[a] # None =>
              View(mappings')[a] = WithAccess(View(mappings)[a], access)
<1> DEFINE end == guest + size
           in == a \in guest .. end - 1
<1>1. guest \in Int /\ end \in Int /\ guest < end /\ a \in Int
  BY RangeFacts DEF Addresses
<1>2. in <=> a >= guest /\ a < end
  BY <1>1
<1>12. in <=> a \in guest .. guest + size - 1
  BY <1>1, RangeFacts
<1> HIDE DEF in
<1>3. Tidy(mappings, 0, Space)
  BY DEF SparseInv
<1>4. /\ Tidy(mappings', 0, Space)
      /\ \A x : Occurs(mappings', x) <=> \E i \in 1 .. Count : Occurs(Cut(mappings[i], guest, end, remove, access), x)
  <2>1. mappings' = Changed(guest, end, remove, access)
    OBVIOUS
  <2> HIDE DEF end
  <2> QED
    BY <1>1, <1>3, <2>1, ChangedFact
<1>5. \A i \in 1 .. Count : mappings[i] \in Mapping /\ End(mappings[i]) <= Space
                            /\ mappings[i].host + mappings[i].size <= HostSpace
                            /\ Occurs(mappings, mappings[i])
  BY <1>3 DEF Tidy, Count, Occurs
<1> HIDE DEF end
<1>6. ASSUME NEW x, Occurs(mappings', x), Holds(x, a)
      PROVE  \E m \in Mapping : Occurs(mappings, m) /\ Holds(m, a) /\ CutOf(x, m, guest, end, remove, access)
  <2>1. PICK i \in 1 .. Count : Occurs(Cut(mappings[i], guest, end, remove, access), x)
    BY <1>4, <1>6
  <2>2. CutOf(x, mappings[i], guest, end, remove, access)
    BY <1>1, <1>5, <2>1, CutFact
  <2>3. Holds(mappings[i], a)
    BY <1>1, <1>6, <2>2 DEF CutOf
  <2> QED
    BY <1>5, <2>2, <2>3
<1>7. ASSUME NEW m, Occurs(mappings, m), Holds(m, a), remove => ~in
      PROVE  \E x : Occurs(mappings', x) /\ Holds(x, a)
  <2>1. PICK i \in 1 .. Count : mappings[i] = m
    BY <1>7 DEF Occurs, Count
  <2>2. \E x : Occurs(Cut(mappings[i], guest, end, remove, access), x) /\ Holds(x, a)
    BY <1>1, <1>2, <1>5, <1>7, <2>1, CutFact
  <2> QED
    BY <1>4, <2>2
<1>8. ASSUME NEW x, Occurs(mappings', x), Holds(x, a)
      PROVE  /\ View(mappings')[a] = ByteOf(x, a) /\ View(mappings)[a] # None
             /\ ~in => View(mappings')[a] = View(mappings)[a]
             /\ in => ~remove /\ View(mappings')[a] = WithAccess(View(mappings)[a], access)
  <2>1. PICK m \in Mapping : Occurs(mappings, m) /\ Holds(m, a) /\ CutOf(x, m, guest, end, remove, access)
    BY <1>6, <1>8
  <2>2. View(mappings')[a] = ByteOf(x, a) /\ View(mappings)[a] = ByteOf(m, a)
    BY <1>3, <1>4, <1>8, <2>1, ViewFact
  <2>3. x \in Mapping
    BY <1>4, <1>8 DEF Occurs, Tidy
  <2>4. HostOf(x, a) = HostOf(m, a) /\ x.allocation = m.allocation
    <3>1. x.host \in Int /\ x.guest \in Int /\ m.host \in Int /\ m.guest \in Int
      BY <2>1, <2>3, MappingFields
    <3>2. x.host - x.guest = m.host - m.guest /\ x.allocation = m.allocation
      BY <2>1 DEF CutOf
    <3> QED
      BY <1>1, <3>1, <3>2 DEF HostOf
  <2>5. /\ ~in => x.access = m.access
        /\ in => ~remove /\ x.access = access
    BY <1>1, <1>2, <1>8, <2>1 DEF CutOf
  <2>6. View(mappings)[a] # None
    BY <1>1, <2>1, <2>2, ByteFields
  <2> QED
    BY <2>2, <2>4, <2>5, <2>6 DEF ByteOf, WithAccess
<1> DEFINE old == View(mappings)[a]
           new == View(mappings')[a]
           Goal == /\ ~in => new = old
                   /\ in /\ remove => new = None
                   /\ in /\ ~remove /\ old # None => new = WithAccess(old, access)
<1>9. ASSUME \E x : Occurs(mappings', x) /\ Holds(x, a) PROVE Goal
  <2>1. PICK x : Occurs(mappings', x) /\ Holds(x, a)
    BY <1>9
  <2>2. /\ ~in => new = old
        /\ in => ~remove /\ new = WithAccess(old, access)
    BY <1>8, <2>1
  <2> QED
    BY <2>2
<1>10. ASSUME ~\E x : Occurs(mappings', x) /\ Holds(x, a) PROVE Goal
  <2>1. View(mappings')[a] = None
    BY <1>4, <1>10, ViewFact
  <2>2. (remove => ~in) => View(mappings)[a] = None
    BY <1>3, <1>7, <1>10, ViewFact
  <2> QED
    BY <2>1, <2>2
<1>11. Goal
  BY <1>9, <1>10
<1> QED
  BY <1>11, <1>12, Zenon

(* The array of mappings implements the byte map: the start is a map of    *)
(* holes, and every call that succeeds is the change of GuestMap its       *)
(* documentation promises.                                                 *)
THEOREM SparseImplementsMap == Spec => ImplementsMap
<1> DEFINE Call(guest, size) ==
       \/ (Unmap(guest, size) \/ UnmapRange(guest, size)) /\ Map!UnmapBytes(guest, size)
       \/ \E access \in Accesses :
            \/ Protect(guest, size, access) /\ Map!ProtectBytes(guest, size, access)
            \/ \E host \in Hosts : /\ MapAccess(guest, host, size, access)
                                  /\ Map!MapBytes(guest, host, size, access)
<1>1. Init => Map!MapInit
  <2> SUFFICES ASSUME Init PROVE Map!MapInit
    OBVIOUS
  <2>1. mappings = <<>> /\ next_allocation = 0
    BY DEF Init
  <2>2. \A a \in Addresses : View(<<>>)[a] = None
    BY TidyEmpty, ViewFact
  <2>3. View(<<>>) = [a \in Addresses |-> None]
    BY <2>2 DEF View
  <2>4. Bytes = View(mappings)
    BY DEF Bytes, View, Count
  <2>5. Map!Addresses = Addresses
    BY DEF Map!Addresses, Addresses
  <2>6. Bytes = [a \in Map!Addresses |-> None]
    BY <2>1, <2>3, <2>4, <2>5, Zenon
  <2> QED
    BY <2>1, <2>6 DEF Map!MapInit
<1>2. ASSUME NEW q PROVE View(q) = [a \in Addresses |-> View(q)[a]]
  BY DEF View
<1>3. Bytes = View(mappings) /\ Bytes' = View(mappings')
  BY DEF Bytes, View, Count
<1>4. ASSUME SparseInv, NEW guest \in Addresses, NEW size \in Sizes, guest + size <= Space
      PROVE  /\ size \in 1 .. Space - guest /\ Map!InSpace(guest, size)
             /\ Map!Within(guest, size) = guest .. guest + size - 1 /\ Map!Addresses = Addresses
  BY <1>4, RangeFacts, SparseAssumption DEF Map!InSpace, Map!Within, Map!Addresses, Addresses
<1>5. ASSUME SparseInv, NEW guest \in Addresses, NEW size \in Sizes, NEW host \in Hosts,
             NEW access \in Accesses, MapAccess(guest, host, size, access)
      PROVE  size \in 1 .. Space - guest /\ Call(guest, size)
  <2>1. guest + size <= Space /\ next_allocation < MaxAllocations /\ next_allocation' = next_allocation + 1
    BY <1>5 DEF MapAccess, RangeAvailable
  <2>2. \A a \in Addresses :
          /\ a \in guest .. guest + size - 1 => View(mappings)[a] = None
          /\ View(mappings')[a] =
               IF a \in guest .. guest + size - 1
               THEN [host |-> host + a - guest, access |-> access, allocation |-> next_allocation']
               ELSE View(mappings)[a]
    BY <1>5, MapView
  <2>3. guest .. guest + size - 1 \subseteq Addresses
    BY <2>1, RangeFacts, SparseAssumption DEF Addresses
  <2>4. Bytes' = [a \in Addresses |->
            IF a \in guest .. guest + size - 1
            THEN [host |-> host + a - guest, access |-> access, allocation |-> next_allocation']
            ELSE Bytes[a]]
    BY <1>2, <1>3, <2>2
  <2>5. \A a \in guest .. guest + size - 1 : Bytes[a] = None
    BY <1>3, <2>2, <2>3
  <2>6. Map!MapBytes(guest, host, size, access)
    BY <1>4, <1>5, <2>1, <2>4, <2>5 DEF Map!MapBytes
  <2> QED
    BY <1>4, <1>5, <2>1, <2>6
<1>6. ASSUME SparseInv, NEW guest \in Addresses, NEW size \in Sizes, Unmap(guest, size)
      PROVE  size \in 1 .. Space - guest /\ Call(guest, size)
  <2>1. /\ guest + size <= Space
        /\ \A a \in Addresses : View(mappings')[a] =
             IF a \in guest .. guest + size - 1 THEN None ELSE View(mappings)[a]
    BY <1>6, UnmapView
  <2>2. Bytes' = [a \in Addresses |-> IF a \in guest .. guest + size - 1 THEN None ELSE Bytes[a]]
    BY <1>2, <1>3, <2>1
  <2>3. Map!UnmapBytes(guest, size)
    BY <1>4, <1>6, <2>1, <2>2 DEF Map!UnmapBytes, Unmap
  <2> QED
    BY <1>4, <1>6, <2>1, <2>3
<1>7. ASSUME SparseInv, NEW guest \in Addresses, NEW size \in Sizes, UnmapRange(guest, size)
      PROVE  size \in 1 .. Space - guest /\ Call(guest, size)
  <2>1. guest + size <= Space /\ mappings' = Changed(guest, guest + size, TRUE, {}) /\ UNCHANGED next_allocation
    BY <1>7 DEF UnmapRange
  <2>2. \A a \in Addresses :
          /\ a \notin guest .. guest + size - 1 => View(mappings')[a] = View(mappings)[a]
          /\ a \in guest .. guest + size - 1 => View(mappings')[a] = None
    <3>1. TRUE \in BOOLEAN /\ {} \in Accesses
      BY SparseAssumption
    <3>2. ASSUME NEW a \in Addresses
          PROVE  /\ a \notin guest .. guest + size - 1 => View(mappings')[a] = View(mappings)[a]
                 /\ a \in guest .. guest + size - 1 /\ TRUE => View(mappings')[a] = None
      BY <1>7, <2>1, <3>1, ChangeView, Zenon
    <3> QED
      BY <3>2
  <2>3. Bytes' = [a \in Addresses |-> IF a \in guest .. guest + size - 1 THEN None ELSE Bytes[a]]
    BY <1>2, <1>3, <2>2
  <2>4. Map!UnmapBytes(guest, size)
    BY <1>4, <1>7, <2>1, <2>3 DEF Map!UnmapBytes
  <2> QED
    BY <1>4, <1>7, <2>1, <2>4
<1>8. ASSUME SparseInv, NEW guest \in Addresses, NEW size \in Sizes, NEW access \in Accesses,
             Protect(guest, size, access)
      PROVE  size \in 1 .. Space - guest /\ Call(guest, size)
  <2>1. /\ guest + size <= Space /\ WholeSpan(guest, size)
        /\ mappings' = Changed(guest, guest + size, FALSE, access) /\ UNCHANGED next_allocation
    BY <1>8 DEF Protect
  <2>2. Tidy(mappings, 0, Space)
    BY <1>8 DEF SparseInv
  <2>3. ASSUME NEW a \in guest .. guest + size - 1 PROVE a \in Addresses /\ View(mappings)[a] # None
    <3>1. a \in Addresses
      BY <2>1, RangeFacts, SparseAssumption DEF Addresses
    <3>2. Held(a)
      BY <2>1, <2>2, RangeFacts, WholeSpanFact
    <3> QED
      BY <2>2, <3>1, <3>2, ViewHole DEF Held, Occurs, Count
  <2>4. \A a \in Addresses :
          /\ a \notin guest .. guest + size - 1 => View(mappings')[a] = View(mappings)[a]
          /\ a \in guest .. guest + size - 1 /\ View(mappings)[a] # None =>
               View(mappings')[a] = WithAccess(View(mappings)[a], access)
    <3>1. FALSE \in BOOLEAN
      OBVIOUS
    <3>2. ASSUME NEW a \in Addresses
          PROVE  /\ a \notin guest .. guest + size - 1 => View(mappings')[a] = View(mappings)[a]
                 /\ a \in guest .. guest + size - 1 /\ ~FALSE /\ View(mappings)[a] # None =>
                      View(mappings')[a] = WithAccess(View(mappings)[a], access)
      BY <1>8, <2>1, <3>1, ChangeView, Zenon
    <3> QED
      BY <3>2
  <2>5. Bytes' = [a \in Addresses |->
            IF a \in guest .. guest + size - 1 THEN [Bytes[a] EXCEPT !.access = access] ELSE Bytes[a]]
    BY <1>2, <1>3, <2>3, <2>4 DEF WithAccess
  <2>6. Map!ProtectBytes(guest, size, access)
    BY <1>3, <1>4, <1>8, <2>1, <2>3, <2>5 DEF Map!ProtectBytes
  <2> QED
    BY <1>4, <1>8, <2>1, <2>6
<1> HIDE DEF Call
<1>9. SparseInv /\ [Next]_vars => [\E guest \in Addresses : \E size \in 1 .. Space - guest : Call(guest, size)]_vars
  BY <1>5, <1>6, <1>7, <1>8 DEF Next
<1>10. Spec => [][\E guest \in Addresses : \E size \in 1 .. Space - guest : Call(guest, size)]_vars
  BY <1>9, SparseInvariant, PTL DEF Spec
<1> QED
  BY <1>1, <1>10, PTL DEF Spec, ImplementsMap, Call

-----------------------------------------------------------------------------
(* x86p_sparse_resolve.                                                    *)

Fit(b, allocation, access) ==
  \E i \in 1 .. Count : Continues(mappings[i], b, allocation, access)

\* The rest of a range from `cursor` on is one span of the allocation, and
\* its next mapping is the one at `at`.
Rest(at, cursor, end, allocation, access) ==
  cursor = end \/
    /\ at <= Count /\ Holds(mappings[at], cursor)
    /\ \A b \in cursor .. end - 1 : Fit(b, allocation, access)

(* A step of the loop takes what is left of a mapping off the range: the   *)
(* next byte, if any, must be in the next mapping.                         *)
LEMMA RestStep ==
  ASSUME Tidy(mappings, 0, Space), NEW allocation, NEW access, NEW end \in Int,
         NEW at \in 1 .. Count, NEW cursor \in Int, cursor < end
  PROVE  /\ Continues(mappings[at], cursor, allocation, access) =>
              /\ SmallerOf(End(mappings[at]), end) \in Int
              /\ cursor < SmallerOf(End(mappings[at]), end) /\ SmallerOf(End(mappings[at]), end) <= end
         /\ Rest(at, cursor, end, allocation, access) <=>
              /\ Continues(mappings[at], cursor, allocation, access)
              /\ Rest(at + 1, SmallerOf(End(mappings[at]), end), end, allocation, access)
<1> DEFINE m == mappings[at]
           next == SmallerOf(End(m), end)
<1>1. Count \in Nat /\ at \in Int /\ \A i \in 1 .. Count : mappings[i] \in Mapping
  BY DEF Tidy, Count
<1>2. \A i \in 1 .. Count : /\ mappings[i].guest \in Int /\ End(mappings[i]) \in Int
                            /\ mappings[i].guest < End(mappings[i])
  BY <1>1, MappingFields
<1>3. \A i, j \in 1 .. Count : i < j => End(mappings[i]) <= mappings[j].guest
  BY DEF Tidy, Count
<1>4. /\ next \in Int /\ next <= end /\ next <= End(m) /\ (next = end \/ next = End(m))
      /\ cursor < End(m) => cursor < next
  BY <1>2 DEF SmallerOf
<1>5. \A b : Continues(m, b, allocation, access) <=>
               Holds(m, b) /\ m.allocation = allocation /\ access \subseteq m.access
  BY DEF Continues, Holds
<1>6. ASSUME Rest(at, cursor, end, allocation, access)
      PROVE  Continues(m, cursor, allocation, access) /\ Rest(at + 1, next, end, allocation, access)
  <2>1. Holds(m, cursor) /\ \A b \in cursor .. end - 1 : Fit(b, allocation, access)
    BY <1>6 DEF Rest
  <2>2. PICK i \in 1 .. Count : Continues(mappings[i], cursor, allocation, access)
    BY <2>1 DEF Fit
  <2>3. i = at
    BY <2>1, <2>2, HoldsOnce DEF Continues, Holds, Count
  <2>4. cursor < next
    BY <1>4, <2>1 DEF Holds
  <2>5. CASE next = end
    BY <2>2, <2>3, <2>5 DEF Rest
  <2>6. CASE next # end
    <3>1. next = End(m) /\ next \in cursor .. end - 1
      BY <1>4, <2>4, <2>6
    <3>2. PICK j \in 1 .. Count : Continues(mappings[j], next, allocation, access)
      BY <2>1, <3>1 DEF Fit
    <3>3. mappings[j].guest <= next /\ next < End(mappings[j])
      BY <1>2, <1>4, <3>2 DEF Continues
    <3>4. at < j
      <4>1. j # at
        BY <1>2, <3>1, <3>3
      <4>2. j < at => End(mappings[j]) <= m.guest
        BY <1>3
      <4> QED
        BY <1>1, <1>2, <3>1, <3>3, <4>1, <4>2
    <3>5. j = at + 1
      <4>1. at + 1 \in 1 .. Count /\ at < at + 1
        BY <1>1, <3>4
      <4>2. End(m) <= mappings[at + 1].guest
        BY <1>3, <4>1
      <4>3. at + 1 < j => End(mappings[at + 1]) <= mappings[j].guest
        BY <1>3, <4>1
      <4> QED
        BY <1>1, <1>2, <3>1, <3>3, <3>4, <4>1, <4>2, <4>3
    <3>6. at + 1 <= Count /\ Holds(mappings[at + 1], next)
      BY <1>1, <3>3, <3>5 DEF Holds
    <3>7. \A b \in next .. end - 1 : Fit(b, allocation, access)
      BY <1>4, <2>1, <2>4
    <3>8. Rest(at + 1, next, end, allocation, access)
      BY <3>6, <3>7 DEF Rest
    <3> QED
      BY <2>2, <2>3, <3>8
  <2> QED
    BY <2>5, <2>6
<1>7. ASSUME Continues(m, cursor, allocation, access), Rest(at + 1, next, end, allocation, access)
      PROVE  Rest(at, cursor, end, allocation, access)
  <2>1. Holds(m, cursor) /\ m.allocation = allocation /\ access \subseteq m.access
    BY <1>5, <1>7
  <2>2. ASSUME NEW b \in cursor .. end - 1 PROVE Fit(b, allocation, access)
    <3>1. CASE b < next
      <4>1. Holds(m, b)
        BY <1>2, <1>4, <2>1, <3>1 DEF Holds
      <4> QED
        BY <1>5, <2>1, <4>1 DEF Fit
    <3>2. CASE ~(b < next)
      <4>1. next # end /\ b \in next .. end - 1
        BY <1>4, <3>2
      <4> QED
        BY <1>7, <4>1 DEF Rest
    <3> QED
      BY <3>1, <3>2
  <2>3. at <= Count
    BY <1>1
  <2> QED
    BY <2>1, <2>2, <2>3 DEF Rest
<1>8. Continues(m, cursor, allocation, access) => cursor < next
  BY <1>4 DEF Continues
<1> QED
  BY <1>4, <1>6, <1>7, <1>8

(* Fragments of one allocation continue each other on the host.            *)
LEMMA SameBacking ==
  ASSUME SparseInv, NEW i \in 1 .. Count, NEW j \in 1 .. Count, mappings[i].allocation = mappings[j].allocation,
         NEW guest \in Int, NEW cursor \in Int
  PROVE  HostOf(mappings[i], cursor) = HostOf(mappings[j], guest) + (cursor - guest)
<1>1. mappings[i] \in Mapping /\ mappings[j] \in Mapping
  BY DEF SparseInv, Tidy, Count
<1>2. /\ mappings[i].host \in Int /\ mappings[i].guest \in Int
      /\ mappings[j].host \in Int /\ mappings[j].guest \in Int
  BY <1>1, MappingFields
<1>3. mappings[i].host - mappings[i].guest = mappings[j].host - mappings[j].guest
  BY DEF SparseInv, OneBacking, Occurs, Count
<1> QED
  BY <1>2, <1>3 DEF HostOf

\* One round of x86p_sparse_resolve's loop.
ResolveRound(s, guest, end, first, access) ==
  [r \in (first .. Count + 1) \X (guest .. end) |->
     LET at == r[1]
         cursor == r[2]
     IN  cursor = end \/
         /\ at <= Count
         /\ Continues(mappings[at], cursor, mappings[first].allocation, access)
         /\ HostOf(mappings[at], cursor) = HostOf(mappings[first], guest) + (cursor - guest)
         /\ s[<<at + 1, SmallerOf(End(mappings[at]), end)>>]]

(* A round, on what is left of the range.                                  *)
LEMMA RestRound ==
  ASSUME SparseInv, NEW guest \in Int, NEW end \in Int, NEW first \in 1 .. Count, NEW access,
         NEW at \in first .. Count + 1, NEW cursor \in guest .. end, cursor # end
  PROVE  /\ at <= Count /\ Continues(mappings[at], cursor, mappings[first].allocation, access) =>
              /\ HostOf(mappings[at], cursor) = HostOf(mappings[first], guest) + (cursor - guest)
              /\ at + 1 \in first .. Count + 1 /\ SmallerOf(End(mappings[at]), end) \in guest .. end
         /\ Rest(at, cursor, end, mappings[first].allocation, access) <=>
              /\ at <= Count /\ Continues(mappings[at], cursor, mappings[first].allocation, access)
              /\ Rest(at + 1, SmallerOf(End(mappings[at]), end), end, mappings[first].allocation, access)
<1> DEFINE next == SmallerOf(End(mappings[at]), end)
           allocation == mappings[first].allocation
<1>1. Tidy(mappings, 0, Space) /\ Count \in Nat /\ cursor \in Int /\ cursor < end /\ guest <= cursor
  BY DEF SparseInv, Tidy, Count
<1>2. CASE at <= Count
  <2>1. at \in 1 .. Count /\ at + 1 \in first .. Count + 1
    BY <1>1, <1>2
  <2>2. /\ Continues(mappings[at], cursor, allocation, access) =>
             next \in Int /\ cursor < next /\ next <= end
        /\ Rest(at, cursor, end, allocation, access) <=>
             /\ Continues(mappings[at], cursor, allocation, access)
             /\ Rest(at + 1, next, end, allocation, access)
    BY <1>1, <2>1, RestStep
  <2>3. ASSUME Continues(mappings[at], cursor, allocation, access)
        PROVE  HostOf(mappings[at], cursor) = HostOf(mappings[first], guest) + (cursor - guest)
    <3>1. mappings[at].allocation = mappings[first].allocation
      BY <2>3 DEF Continues
    <3> QED
      BY <1>1, <2>1, <3>1, SameBacking
  <2>4. Continues(mappings[at], cursor, allocation, access) => next \in guest .. end
    BY <1>1, <2>2
  <2> QED
    BY <1>2, <2>1, <2>2, <2>3, <2>4
<1>3. CASE ~(at <= Count)
  BY <1>3 DEF Rest
<1> QED
  BY <1>2, <1>3

(* The loop says whether the range is one span of the first mapping's      *)
(* allocation.                                                             *)
LEMMA ResolveWalk ==
  ASSUME SparseInv, NEW guest \in Int, NEW end \in Int, guest <= end, NEW first \in 1 .. Count, NEW access
  PROVE  (CHOOSE s : s = ResolveRound(s, guest, end, first, access))[<<first, guest>>] <=>
           Rest(first, guest, end, mappings[first].allocation, access)
<1> DEFINE D == (first .. Count + 1) \X (guest .. end)
           c == CHOOSE s : s = ResolveRound(s, guest, end, first, access)
           allocation == mappings[first].allocation
           f == [r \in D |-> Rest(r[1], r[2], end, allocation, access)]
           Step(s, at, cursor) ==
             cursor = end \/
             /\ at <= Count
             /\ Continues(mappings[at], cursor, allocation, access)
             /\ HostOf(mappings[at], cursor) = HostOf(mappings[first], guest) + (cursor - guest)
             /\ s[<<at + 1, SmallerOf(End(mappings[at]), end)>>]
<1>1. Count \in Nat
  BY DEF SparseInv, Tidy, Count
<1>2. ASSUME NEW s PROVE ResolveRound(s, guest, end, first, access) = [r \in D |-> Step(s, r[1], r[2])]
  BY DEF ResolveRound
<1>3. ASSUME NEW s, NEW at \in first .. Count + 1, NEW cursor \in guest .. end,
             \A k \in first .. Count + 1, x \in guest .. end :
               k = at + 1 => (s[<<k, x>>] <=> Rest(k, x, end, allocation, access))
      PROVE  Step(s, at, cursor) <=> Rest(at, cursor, end, allocation, access)
  <2>1. CASE cursor = end
    BY <2>1 DEF Rest
  <2>2. CASE cursor # end
    <3> DEFINE next == SmallerOf(End(mappings[at]), end)
    <3>1. /\ at <= Count /\ Continues(mappings[at], cursor, allocation, access) =>
               /\ HostOf(mappings[at], cursor) = HostOf(mappings[first], guest) + (cursor - guest)
               /\ at + 1 \in first .. Count + 1 /\ next \in guest .. end
          /\ Rest(at, cursor, end, allocation, access) <=>
               /\ at <= Count /\ Continues(mappings[at], cursor, allocation, access)
               /\ Rest(at + 1, next, end, allocation, access)
      <4> HIDE DEF Step, c, f, D
      <4> QED
        BY <2>2, RestRound
    <3>2. Step(s, at, cursor) <=>
            /\ at <= Count
            /\ Continues(mappings[at], cursor, allocation, access)
            /\ HostOf(mappings[at], cursor) = HostOf(mappings[first], guest) + (cursor - guest)
            /\ s[<<at + 1, next>>]
      BY <2>2
    <3> HIDE DEF next, Step
    <3>3. at + 1 \in first .. Count + 1 /\ next \in guest .. end =>
            (s[<<at + 1, next>>] <=> Rest(at + 1, next, end, allocation, access))
      BY <1>3
    <3> QED
      BY <3>1, <3>2, <3>3
  <2> QED
    BY <2>1, <2>2
<1> HIDE DEF Step
<1>4. f = ResolveRound(f, guest, end, first, access)
  <2>1. ASSUME NEW at \in first .. Count + 1, NEW cursor \in guest .. end
        PROVE  f[<<at, cursor>>] = Step(f, at, cursor)
    <3>1. \A k \in first .. Count + 1, x \in guest .. end :
            f[<<k, x>>] = Rest(k, x, end, allocation, access)
      OBVIOUS
    <3> HIDE DEF f
    <3>2. Step(f, at, cursor) <=> Rest(at, cursor, end, allocation, access)
      BY <1>3, <3>1
    <3>3. Step(f, at, cursor) \in BOOLEAN /\ Rest(at, cursor, end, allocation, access) \in BOOLEAN
      BY DEF Step, Rest
    <3>4. Step(f, at, cursor) = Rest(at, cursor, end, allocation, access)
      BY <3>2, <3>3
    <3> QED
      BY <3>1, <3>4, Zenon
  <2>2. \A r \in D : r = <<r[1], r[2]>> /\ r[1] \in first .. Count + 1 /\ r[2] \in guest .. end
    OBVIOUS
  <2>3. f = [r \in D |-> f[r]]
    OBVIOUS
  <2> HIDE DEF f, D
  <2>4. \A r \in D : f[r] = Step(f, r[1], r[2])
    BY <2>1, <2>2
  <2>5. [r \in D |-> f[r]] = [r \in D |-> Step(f, r[1], r[2])]
    BY <2>4, Zenon
  <2> QED
    BY <1>2, <2>3, <2>5, Zenon
<1>5. c = ResolveRound(c, guest, end, first, access)
  <2> HIDE DEF f
  <2> QED
    BY <1>4, Zenon
<1> HIDE DEF c, f
<1>6. ASSUME NEW at \in first .. Count + 1, NEW cursor \in guest .. end
      PROVE  c[<<at, cursor>>] = Step(c, at, cursor)
  <2>1. <<at, cursor>> \in D
    OBVIOUS
  <2>2. [r \in D |-> Step(c, r[1], r[2])][<<at, cursor>>] = Step(c, at, cursor)
    BY <2>1
  <2>3. c = [r \in D |-> Step(c, r[1], r[2])]
    BY <1>2, <1>5, Zenon
  <2> HIDE DEF D
  <2> QED
    BY <2>2, <2>3, Zenon
<1> DEFINE T == {d \in Nat : \A at \in first .. Count + 1, cursor \in guest .. end :
                    Count + 1 - at <= d => (c[<<at, cursor>>] <=> Rest(at, cursor, end, allocation, access))}
<1>7. ASSUME NEW d \in Nat, \A e \in Nat : e < d => e \in T PROVE d \in T
  <2> SUFFICES ASSUME NEW at \in first .. Count + 1, NEW cursor \in guest .. end, Count + 1 - at <= d
               PROVE  c[<<at, cursor>>] <=> Rest(at, cursor, end, allocation, access)
    OBVIOUS
  <2>1. ASSUME NEW k \in first .. Count + 1, NEW x \in guest .. end, k = at + 1
        PROVE  c[<<k, x>>] <=> Rest(k, x, end, allocation, access)
    <3>1. d - 1 \in Nat /\ d - 1 < d /\ Count + 1 - k <= d - 1
      BY <1>1, <2>1
    <3> QED
      BY <1>7, <3>1
  <2>2. Step(c, at, cursor) <=> Rest(at, cursor, end, allocation, access)
    <3> HIDE DEF T
    <3> QED
      BY <1>3, <2>1
  <2> QED
    BY <1>6, <2>2
<1>8. Count + 1 - first \in T
  <2>1. Nat \subseteq T
    <3> HIDE DEF T
    <3> QED
      BY <1>7, StrongInduction
  <2>2. Count + 1 - first \in Nat
    BY <1>1
  <2> QED
    BY <2>1, <2>2
<1>9. c[<<first, guest>>] <=> Rest(first, guest, end, allocation, access)
  <2>1. first \in first .. Count + 1 /\ guest \in guest .. end /\ Count + 1 - first <= Count + 1 - first
    BY <1>1
  <2> QED
    BY <1>8, <2>1
<1> QED
  BY <1>9 DEF c

(* A range resolves when all of it is one span of the first mapping's      *)
(* allocation, to that mapping's host address.                             *)
LEMMA ResolveFact ==
  ASSUME SparseInv, NEW guest \in Addresses, NEW size \in Sizes, NEW access \in Accesses
  PROVE  LET first == UpperBound(guest)
             whole == /\ guest + size <= Space /\ first > 0 /\ Holds(mappings[first], guest)
                      /\ \A b \in guest .. guest + size - 1 : Fit(b, mappings[first].allocation, access)
         IN  Resolve(guest, size, access) = IF whole THEN HostOf(mappings[first], guest) ELSE None
<1> DEFINE end == guest + size
           first == UpperBound(guest)
           c == CHOOSE s : s = ResolveRound(s, guest, end, first, access)
           whole == /\ end <= Space /\ first > 0 /\ Holds(mappings[first], guest)
                    /\ \A b \in guest .. end - 1 : Fit(b, mappings[first].allocation, access)
<1>1. guest \in Int /\ end \in Int /\ guest < end
  BY RangeFacts
<1>2. first \in 0 .. Count /\ first \in Nat /\ Count \in Nat
  BY <1>1, BoundFact DEF SparseInv
<1>3. Resolve(guest, size, access) =
        IF end <= Space /\ first > 0 /\ c[<<first, guest>>] THEN HostOf(mappings[first], guest) ELSE None
  BY DEF Resolve, ResolveRound
<1>4. \A b : b \in guest .. guest + size - 1 <=> b \in guest .. end - 1
  BY RangeFacts
<1> HIDE DEF end, first
<1>5. ASSUME first > 0 PROVE c[<<first, guest>>] <=> Rest(first, guest, end, mappings[first].allocation, access)
  <2>1. first \in 1 .. Count /\ guest <= end
    BY <1>1, <1>2, <1>5
  <2> QED
    BY <1>1, <2>1, ResolveWalk
<1> HIDE DEF c
<1>6. first > 0 =>
        (Rest(first, guest, end, mappings[first].allocation, access) <=>
           /\ Holds(mappings[first], guest)
           /\ \A b \in guest .. end - 1 : Fit(b, mappings[first].allocation, access))
  BY <1>1, <1>2 DEF Rest
<1>7. (end <= Space /\ first > 0 /\ c[<<first, guest>>]) <=> whole
  BY <1>5, <1>6
<1>8. whole <=> /\ guest + size <= Space /\ first > 0 /\ Holds(mappings[first], guest)
                /\ \A b \in guest .. guest + size - 1 : Fit(b, mappings[first].allocation, access)
  BY <1>4 DEF end
<1> HIDE DEF whole
<1>9. Resolve(guest, size, access) = IF whole THEN HostOf(mappings[first], guest) ELSE None
  BY <1>3, <1>7
<1> QED
  BY <1>8, <1>9 DEF first

(* What Bytes says of an address is what the mapping that holds it says.   *)
LEMMA ByteFact ==
  ASSUME SparseInv, NEW a \in Addresses
  PROVE  /\ \A i \in 1 .. Count : Holds(mappings[i], a) =>
              /\ Bytes[a] # None /\ Bytes[a].host = HostOf(mappings[i], a)
              /\ Bytes[a].access = mappings[i].access /\ Bytes[a].allocation = mappings[i].allocation
         /\ Bytes[a] # None => \E i \in 1 .. Count : Holds(mappings[i], a)
<1>1. Bytes = View(mappings) /\ Tidy(mappings, 0, Space)
  BY DEF Bytes, View, Count, SparseInv
<1>2. ASSUME NEW i \in 1 .. Count, Holds(mappings[i], a)
      PROVE  /\ Bytes[a] # None /\ Bytes[a].host = HostOf(mappings[i], a)
             /\ Bytes[a].access = mappings[i].access /\ Bytes[a].allocation = mappings[i].allocation
  <2>1. Occurs(mappings, mappings[i])
    BY DEF Occurs, Count
  <2>2. Bytes[a] = ByteOf(mappings[i], a)
    BY <1>1, <1>2, <2>1, ViewFact
  <2>3. Bytes[a] # None
    BY <1>1, <1>2, <2>1, ViewHole
  <2> QED
    BY <2>2, <2>3 DEF ByteOf
<1>3. ASSUME Bytes[a] # None PROVE \E i \in 1 .. Count : Holds(mappings[i], a)
  <2>1. PICK m : Occurs(mappings, m) /\ Holds(m, a)
    BY <1>1, <1>3, ViewFact
  <2> QED
    BY <2>1 DEF Occurs, Count
<1> QED
  BY <1>2, <1>3

(* The range resolves to what its bytes say.                               *)
LEMMA ResolveBytes ==
  ASSUME SparseInv, NEW guest \in Addresses, NEW size \in Sizes, NEW access \in Accesses
  PROVE  LET bytes == {Bytes[a] : a \in guest .. SmallerOf(guest + size, Space) - 1}
             whole == /\ guest + size <= Space /\ None \notin bytes
                      /\ \A b \in bytes : /\ access \subseteq b.access
                                          /\ b.allocation = Bytes[guest].allocation
         IN  Resolve(guest, size, access) = IF whole THEN Bytes[guest].host ELSE None
<1> DEFINE bytes == {Bytes[a] : a \in guest .. SmallerOf(guest + size, Space) - 1}
           whole == /\ guest + size <= Space /\ None \notin bytes
                    /\ \A b \in bytes : /\ access \subseteq b.access
                                        /\ b.allocation = Bytes[guest].allocation
           first == UpperBound(guest)
           m == mappings[first]
           fits == /\ guest + size <= Space /\ first > 0 /\ Holds(m, guest)
                   /\ \A b \in guest .. guest + size - 1 : Fit(b, m.allocation, access)
<1>1. Resolve(guest, size, access) = IF fits THEN HostOf(m, guest) ELSE None
  BY ResolveFact
<1>2. /\ first \in 0 .. Count /\ first \in Nat /\ Count \in Nat
      /\ \A i \in 1 .. Count : Holds(mappings[i], guest) => i = first
  BY RangeFacts, BoundFact DEF SparseInv
<1>3. ASSUME guest + size <= Space
      PROVE  /\ \A a : a \in guest .. SmallerOf(guest + size, Space) - 1 <=> a \in guest .. guest + size - 1
             /\ \A a \in guest .. guest + size - 1 : a \in Addresses
             /\ guest \in guest .. guest + size - 1
  <2>1. guest \in Nat /\ size \in Nat /\ size > 0 /\ Space \in Nat
    BY RangeFacts, SparseAssumption
  <2>2. SmallerOf(guest + size, Space) = guest + size
    BY <1>3, <2>1 DEF SmallerOf
  <2> QED
    BY <1>3, <2>1, <2>2 DEF Addresses
<1>4. ASSUME fits PROVE whole /\ Bytes[guest].host = HostOf(m, guest)
  <2>1. first \in 1 .. Count
    BY <1>2, <1>4
  <2>2. Bytes[guest].host = HostOf(m, guest) /\ Bytes[guest].allocation = m.allocation
    BY <1>4, <2>1, ByteFact
  <2>3. ASSUME NEW a \in guest .. guest + size - 1
        PROVE  /\ Bytes[a] # None /\ access \subseteq Bytes[a].access
               /\ Bytes[a].allocation = Bytes[guest].allocation
    <3>1. PICK i \in 1 .. Count : Continues(mappings[i], a, m.allocation, access)
      BY <1>4, <2>3 DEF Fit
    <3>2. Holds(mappings[i], a) /\ a \in Addresses
      BY <1>3, <1>4, <3>1 DEF Continues, Holds
    <3> QED
      BY <2>2, <3>1, <3>2, ByteFact DEF Continues
  <2> QED
    BY <1>3, <1>4, <2>2, <2>3
<1>5. ASSUME whole PROVE fits
  <2>1. \A a \in guest .. guest + size - 1 :
          /\ a \in Addresses /\ Bytes[a] # None /\ access \subseteq Bytes[a].access
          /\ Bytes[a].allocation = Bytes[guest].allocation
    BY <1>3, <1>5
  <2>2. guest \in guest .. guest + size - 1
    BY <1>3, <1>5
  <2>3. PICK i \in 1 .. Count : Holds(mappings[i], guest)
    BY <2>1, <2>2, ByteFact
  <2>4. i = first /\ first > 0
    BY <1>2, <2>3
  <2>5. Bytes[guest].allocation = m.allocation
    BY <2>3, <2>4, ByteFact
  <2>6. ASSUME NEW b \in guest .. guest + size - 1 PROVE Fit(b, m.allocation, access)
    <3>1. PICK j \in 1 .. Count : Holds(mappings[j], b)
      BY <2>1, ByteFact
    <3>2. Bytes[b].access = mappings[j].access /\ Bytes[b].allocation = mappings[j].allocation
      BY <2>1, <3>1, ByteFact
    <3>3. Continues(mappings[j], b, m.allocation, access)
      BY <2>1, <2>5, <3>1, <3>2 DEF Continues, Holds
    <3> QED
      BY <3>3 DEF Fit
  <2> QED
    BY <1>5, <2>3, <2>4, <2>6
<1> HIDE DEF whole, fits
<1>6. Resolve(guest, size, access) = IF whole THEN Bytes[guest].host ELSE None
  BY <1>1, <1>4, <1>5
<1> QED
  BY <1>6 DEF whole

(* A range resolves exactly when its bytes all grant the access and belong *)
(* to one allocation, to the host byte of the first (x86p_sparse_resolve). *)
THEOREM SparseResolves == Spec => []ResolveExact
<1>1. SparseInv => ResolveExact
  BY ResolveBytes DEF ResolveExact
<1> QED
  BY <1>1, SparseInvariant, PTL

-----------------------------------------------------------------------------
(* Host ranges.                                                            *)

(* A mapping borrows as many host bytes as it has guest addresses, in the  *)
(* same order, and every backed address is one of these.                   *)
LEMMA Backing ==
  ASSUME SparseInv
  PROVE  /\ \A i \in 1 .. Count : mappings[i].host \in Nat /\ mappings[i].guest \in Nat /\ mappings[i].size \in Nat
         /\ \A i \in 1 .. Count : \A k \in 0 .. mappings[i].size - 1 :
              /\ mappings[i].guest + k \in Addresses
              /\ Holds(mappings[i], mappings[i].guest + k)
              /\ Bytes[mappings[i].guest + k] # None
              /\ Bytes[mappings[i].guest + k].host = mappings[i].host + k
         /\ \A a \in Addresses : Bytes[a] # None =>
              \E i \in 1 .. Count : \E k \in 0 .. mappings[i].size - 1 :
                a = mappings[i].guest + k /\ Bytes[a].host = mappings[i].host + k
<1>1. ASSUME NEW i \in 1 .. Count
      PROVE  /\ mappings[i].host \in Nat /\ mappings[i].guest \in Nat /\ mappings[i].size \in Nat
             /\ End(mappings[i]) = mappings[i].guest + mappings[i].size /\ End(mappings[i]) <= Space
  <2>1. mappings[i] \in Mapping /\ End(mappings[i]) <= Space
    BY DEF SparseInv, Tidy, Count
  <2> QED
    BY <2>1, MappingFields
<1>2. ASSUME NEW i \in 1 .. Count, NEW k \in 0 .. mappings[i].size - 1
      PROVE  /\ mappings[i].guest + k \in Addresses
             /\ Holds(mappings[i], mappings[i].guest + k)
             /\ Bytes[mappings[i].guest + k] # None
             /\ Bytes[mappings[i].guest + k].host = mappings[i].host + k
  <2>1. mappings[i].guest + k \in Addresses
    BY <1>1, SparseAssumption DEF Addresses
  <2>2. Holds(mappings[i], mappings[i].guest + k)
    BY <1>1 DEF Holds
  <2>3. HostOf(mappings[i], mappings[i].guest + k) = mappings[i].host + k
    BY <1>1 DEF HostOf
  <2> QED
    BY <2>1, <2>2, <2>3, ByteFact
<1>3. ASSUME NEW a \in Addresses, Bytes[a] # None
      PROVE  \E i \in 1 .. Count : \E k \in 0 .. mappings[i].size - 1 :
               a = mappings[i].guest + k /\ Bytes[a].host = mappings[i].host + k
  <2>1. PICK i \in 1 .. Count : Holds(mappings[i], a)
    BY <1>3, ByteFact
  <2>2. Bytes[a].host = HostOf(mappings[i], a)
    BY <2>1, ByteFact
  <2> DEFINE k == a - mappings[i].guest
  <2>3. k \in 0 .. mappings[i].size - 1 /\ a = mappings[i].guest + k
    BY <1>1, <2>1, SparseAssumption DEF Holds, Addresses
  <2>4. Bytes[a].host = mappings[i].host + k
    BY <2>2 DEF HostOf
  <2> QED
    BY <2>3, <2>4
<1> QED
  BY <1>1, <1>2, <1>3

\* The guest addresses that borrow a byte of a host range.
Backed(host, size) ==
  {a \in Addresses : Bytes[a] # None /\ Bytes[a].host \in host .. host + size - 1}

\* The mappings that borrow all of it.
Holders(host, size) ==
  {i \in 1 .. Count : /\ host >= mappings[i].host
                      /\ host + size <= mappings[i].host + mappings[i].size}

(* x86p_sparse_host_in_use finds a mapping that borrows a byte.            *)
LEMMA InUseBytes ==
  ASSUME SparseInv, NEW host \in Nat, NEW size \in Nat, size > 0
  PROVE  HostInUse(host, size) <=> Backed(host, size) # {}
<1>1. ASSUME HostInUse(host, size) PROVE Backed(host, size) # {}
  <2>1. PICK i \in 1 .. Count :
          IF mappings[i].host >= host THEN mappings[i].host - host < size
          ELSE host - mappings[i].host < mappings[i].size
    BY <1>1 DEF HostInUse
  <2> DEFINE k == IF mappings[i].host >= host THEN 0 ELSE host - mappings[i].host
  <2>2. mappings[i].host \in Nat /\ mappings[i].size \in Nat /\ mappings[i].size > 0
    BY Backing, MappingFields DEF SparseInv, Tidy, Count
  <2>3. k \in 0 .. mappings[i].size - 1 /\ mappings[i].host + k \in host .. host + size - 1
    BY <2>1, <2>2
  <2> HIDE DEF k
  <2>4. mappings[i].guest + k \in Backed(host, size)
    BY <2>3, Backing DEF Backed
  <2> QED
    BY <2>4
<1>2. ASSUME NEW a \in Backed(host, size) PROVE HostInUse(host, size)
  <2>1. a \in Addresses /\ Bytes[a] # None /\ Bytes[a].host \in host .. host + size - 1
    BY DEF Backed
  <2>2. PICK i \in 1 .. Count : \E k \in 0 .. mappings[i].size - 1 :
          a = mappings[i].guest + k /\ Bytes[a].host = mappings[i].host + k
    BY <2>1, Backing
  <2>3. PICK k \in 0 .. mappings[i].size - 1 : Bytes[a].host = mappings[i].host + k
    BY <2>2
  <2>4. mappings[i].host \in Nat /\ mappings[i].size \in Nat
    BY Backing
  <2>5. IF mappings[i].host >= host THEN mappings[i].host - host < size
        ELSE host - mappings[i].host < mappings[i].size
    BY <2>1, <2>3, <2>4
  <2> QED
    BY <2>5 DEF HostInUse
<1> QED
  BY <1>1, <1>2

(* x86p_sparse_guest_address answers for the only mapping that borrows the *)
(* range, with the address there.                                          *)
LEMMA GuestAddressFact ==
  ASSUME SparseInv, NEW host \in Nat, NEW size \in Nat, size > 0
  PROVE  /\ \A i \in 1 .. Count : Holders(host, size) = {i} =>
              GuestAddress(host, size) = mappings[i].guest + (host - mappings[i].host)
         /\ (~\E i \in Holders(host, size) : Holders(host, size) = {i}) => GuestAddress(host, size) = None
         /\ \A i \in Holders(host, size), k \in 0 .. size - 1 :
              /\ host - mappings[i].host + k \in 0 .. mappings[i].size - 1
              /\ mappings[i].guest + (host - mappings[i].host) + k =
                   mappings[i].guest + (host - mappings[i].host + k)
              /\ mappings[i].host + (host - mappings[i].host + k) = host + k
         /\ \A i \in Holders(host, size) : mappings[i].guest + (host - mappings[i].host) # None
<1> DEFINE holds == Holders(host, size)
<1>1. GuestAddress(host, size) =
        IF \E i \in holds : holds = {i}
        THEN LET m == mappings[CHOOSE i \in holds : TRUE] IN m.guest + (host - m.host)
        ELSE None
  BY DEF GuestAddress, Holders
<1>2. ASSUME NEW i \in holds
      PROVE  /\ i \in 1 .. Count /\ host >= mappings[i].host
             /\ host + size <= mappings[i].host + mappings[i].size
             /\ mappings[i].host \in Nat /\ mappings[i].guest \in Nat /\ mappings[i].size \in Nat
  BY Backing DEF Holders
<1> HIDE DEF holds
<1>3. ASSUME NEW i \in 1 .. Count, holds = {i}
      PROVE  GuestAddress(host, size) = mappings[i].guest + (host - mappings[i].host)
  <2>1. (CHOOSE j \in holds : TRUE) = i
    BY <1>3
  <2>2. \E j \in holds : holds = {j}
    BY <1>3
  <2> QED
    BY <1>1, <2>1, <2>2
<1>4. ASSUME NEW i \in holds, NEW k \in 0 .. size - 1
      PROVE  /\ host - mappings[i].host + k \in 0 .. mappings[i].size - 1
             /\ mappings[i].guest + (host - mappings[i].host) + k =
                  mappings[i].guest + (host - mappings[i].host + k)
             /\ mappings[i].host + (host - mappings[i].host + k) = host + k
  BY <1>2
<1>5. ASSUME NEW i \in holds PROVE mappings[i].guest + (host - mappings[i].host) # None
  <2>1. host - mappings[i].host \in 0 .. mappings[i].size - 1
    BY <1>2
  <2>2. mappings[i].guest + (host - mappings[i].host) \in Addresses
    BY <1>2, <2>1, Backing
  <2> QED
    BY <2>2, SparseAssumption DEF Addresses
<1> QED
  BY <1>1, <1>3, <1>4, <1>5 DEF holds

(* A mapping that borrows a byte does so at one address, and no other does *)
(* so there: a byte has one address while it has one mapping.              *)
LEMMA OneAddress ==
  ASSUME SparseInv, NEW host \in Nat
  PROVE  (\E i \in Holders(host, 1) : Holders(host, 1) = {i}) <=>
           (\E a \in Backed(host, 1) : Backed(host, 1) = {a})
<1> DEFINE at(i) == mappings[i].guest + (host - mappings[i].host)
<1>1. ASSUME NEW i \in Holders(host, 1)
      PROVE  i \in 1 .. Count /\ at(i) \in Backed(host, 1) /\ Holds(mappings[i], at(i))
  <2>1. i \in 1 .. Count /\ host - mappings[i].host \in 0 .. mappings[i].size - 1
    BY Backing DEF Holders
  <2>2. mappings[i].host + (host - mappings[i].host) = host
    BY <2>1, Backing
  <2>3. /\ at(i) \in Addresses /\ Holds(mappings[i], at(i)) /\ Bytes[at(i)] # None
        /\ Bytes[at(i)].host = mappings[i].host + (host - mappings[i].host)
    BY <2>1, Backing
  <2> HIDE DEF at
  <2> QED
    BY <2>1, <2>2, <2>3 DEF Backed
<1>2. ASSUME NEW a \in Backed(host, 1)
      PROVE  \E i \in Holders(host, 1) : a = at(i)
  <2>1. a \in Addresses /\ Bytes[a] # None /\ Bytes[a].host = host
    BY DEF Backed
  <2>2. PICK i \in 1 .. Count : \E k \in 0 .. mappings[i].size - 1 :
          a = mappings[i].guest + k /\ Bytes[a].host = mappings[i].host + k
    BY <2>1, Backing
  <2>3. PICK k \in 0 .. mappings[i].size - 1 : a = mappings[i].guest + k /\ host = mappings[i].host + k
    BY <2>1, <2>2
  <2>4. mappings[i].host \in Nat /\ mappings[i].guest \in Nat /\ mappings[i].size \in Nat
    BY Backing
  <2>5. i \in Holders(host, 1) /\ a = at(i)
    BY <2>3, <2>4 DEF Holders
  <2> QED
    BY <2>5
<1>3. ASSUME NEW i \in Holders(host, 1), NEW j \in Holders(host, 1), at(i) = at(j) PROVE i = j
  <2>1. at(i) \in Int
    BY <1>1 DEF Backed, Addresses
  <2> HIDE DEF at
  <2>2. Tidy(mappings, 0, Space) /\ i \in 1 .. Len(mappings) /\ j \in 1 .. Len(mappings)
    BY <1>1 DEF SparseInv, Count
  <2>3. Holds(mappings[i], at(i)) /\ Holds(mappings[j], at(i))
    BY <1>1, <1>3
  <2> QED
    BY <2>1, <2>2, <2>3, HoldsOnce
<1> HIDE DEF at
<1>4. ASSUME NEW i \in Holders(host, 1), Holders(host, 1) = {i}
      PROVE  \E a \in Backed(host, 1) : Backed(host, 1) = {a}
  <2>1. at(i) \in Backed(host, 1) /\ \A a \in Backed(host, 1) : a = at(i)
    BY <1>1, <1>2, <1>4
  <2>2. Backed(host, 1) = {at(i)}
    BY <2>1
  <2> QED
    BY <2>1, <2>2
<1>5. ASSUME NEW a \in Backed(host, 1), Backed(host, 1) = {a}
      PROVE  \E i \in Holders(host, 1) : Holders(host, 1) = {i}
  <2>1. PICK i \in Holders(host, 1) : a = at(i)
    BY <1>2
  <2>2. \A j \in Holders(host, 1) : j = i
    BY <1>1, <1>3, <1>5, <2>1
  <2>3. Holders(host, 1) = {i}
    BY <2>2
  <2> QED
    BY <2>3
<1> QED
  BY <1>4, <1>5

(* Host memory is in use while a mapping borrows a byte of it, and a guest *)
(* address is given for it where there is exactly one                      *)
(* (x86p_sparse_host_in_use, x86p_sparse_guest_address).                   *)
THEOREM SparseInUse == Spec => []InUseExact
<1>1. ASSUME SparseInv, NEW host \in Hosts, NEW size \in Sizes, host + size <= HostSpace
      PROVE  LET at == GuestAddress(host, size)
                 backed == {a \in Addresses : Bytes[a] # None /\ Bytes[a].host \in host .. host + size - 1}
             IN  /\ HostInUse(host, size) <=> backed # {}
                 /\ at # None => \A k \in 0 .. size - 1 : at + k \in backed /\ Bytes[at + k].host = host + k
                 /\ size = 1 => (at # None <=> \E a \in backed : backed = {a})
  <2> DEFINE at == GuestAddress(host, size)
             backed == Backed(host, size)
  <2>1. host \in Nat /\ size \in Nat /\ size > 0
    BY SparseAssumption DEF Hosts, Sizes
  <2>2. HostInUse(host, size) <=> backed # {}
    BY <1>1, <2>1, InUseBytes
  <2>3. at # None <=> \E i \in Holders(host, size) : Holders(host, size) = {i}
    <3>1. \A i \in Holders(host, size) : i \in 1 .. Count
      BY DEF Holders
    <3> QED
      BY <1>1, <2>1, <3>1, GuestAddressFact
  <2>4. ASSUME at # None, NEW k \in 0 .. size - 1
        PROVE  at + k \in backed /\ Bytes[at + k].host = host + k
    <3>1. PICK i \in Holders(host, size) : Holders(host, size) = {i}
      BY <2>3, <2>4
    <3>2. i \in 1 .. Count
      BY DEF Holders
    <3> DEFINE d == host - mappings[i].host + k
    <3>3. at + k = mappings[i].guest + d /\ d \in 0 .. mappings[i].size - 1 /\ mappings[i].host + d = host + k
      BY <1>1, <2>1, <2>4, <3>1, <3>2, GuestAddressFact
    <3> HIDE DEF d, at
    <3>4. at + k \in Addresses /\ Bytes[at + k] # None /\ Bytes[at + k].host = host + k
      BY <1>1, <3>2, <3>3, Backing
    <3>5. host + k \in host .. host + size - 1
      BY <2>1
    <3> QED
      BY <3>4, <3>5 DEF Backed
  <2>5. size = 1 => (at # None <=> \E a \in backed : backed = {a})
    BY <1>1, <2>1, <2>3, OneAddress
  <2> HIDE DEF at
  <2>6. backed = {a \in Addresses : Bytes[a] # None /\ Bytes[a].host \in host .. host + size - 1}
    BY DEF Backed
  <2> HIDE DEF backed
  <2> QED
    BY <2>2, <2>4, <2>5, <2>6 DEF at
<1>2. SparseInv => InUseExact
  BY <1>1 DEF InUseExact
<1> QED
  BY <1>2, SparseInvariant, PTL
=============================================================================
