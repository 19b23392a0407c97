------------------------------ MODULE SparseMem ------------------------------
(***************************************************************************)
(* Sparse guest memory (memory_sparse.c): an array of mappings sorted by   *)
(* guest address, searched by bisection, split and rebuilt when a range of *)
(* it changes.  Host memory is borrowed, and two mappings may alias it.    *)
(* Left out: null arguments, a refused allocation (a call that changes     *)
(* nothing), and the growth of the array.                                  *)
(***************************************************************************)
EXTENDS Integers, Sequences, SequencesExt

CONSTANTS
  Space,            \* 2^32: guest addresses are 0 .. Space - 1
  HostSpace,        \* UINTPTR_MAX + 1
  Accesses,         \* subsets of the two access bits
  MaxAllocations,   \* UINT64_MAX
  None

ASSUME SparseAssumption ==
  /\ Space \in Nat \ {0} /\ HostSpace \in Nat \ {0} /\ MaxAllocations \in Nat
  /\ {} \in Accesses
  /\ None \notin 0 .. Space - 1
  /\ None \notin [host : Nat, access : Accesses, allocation : Nat]

VARIABLES
  mappings,         \* sequence of [guest, size, host, access, allocation]
  next_allocation

vars == <<mappings, next_allocation>>

Sizes == 1 .. Space
Hosts == 1 .. HostSpace - 1
Addresses == 0 .. Space - 1
Count == Len(mappings)
End(m) == m.guest + m.size
LargerOf(a, b) == IF a > b THEN a ELSE b
SmallerOf(a, b) == IF a < b THEN a ELSE b

Init == mappings = <<>> /\ next_allocation = 0

-----------------------------------------------------------------------------
(* Looking up.                                                             *)

\* upper_bound: how many mappings start at or below `guest`, by bisection.
UpperBound(guest) ==
  LET search[r \in (0 .. Count) \X (0 .. Count)] ==
        LET lo == r[1]
            hi == r[2]
            mid == lo + (hi - lo) \div 2
        IN  IF lo >= hi THEN lo
            ELSE IF mappings[mid + 1].guest <= guest THEN search[<<mid + 1, hi>>]
            ELSE search[<<lo, mid>>]
  IN  search[<<0, Count>>]

RangeAvailable(guest, size) ==
  LET at == UpperBound(guest)
  IN  /\ guest + size <= Space
      /\ at > 0 => guest >= End(mappings[at])
      /\ at < Count => mappings[at + 1].guest - guest >= size

\* x86p_sparse_span_access: bytes from `guest` on in one mapping, up to max.
SpanAccess(guest, max, access) ==
  LET at == UpperBound(guest)
  IN  IF at = 0 \/ guest >= End(mappings[at]) \/ ~(access \subseteq mappings[at].access)
      THEN 0
      ELSE IF End(mappings[at]) - guest < max THEN End(mappings[at]) - guest ELSE max

\* whole_span: the loop over spans.
WholeSpan(guest, size) ==
  LET end == guest + size
      walk[cursor \in guest .. end] ==
        cursor = end \/
        LET n == SpanAccess(cursor, end - cursor, {}) IN n > 0 /\ walk[cursor + n]
  IN  end <= Space /\ walk[guest]

\* Mutant: fragments of other allocations are walked into.
ContinuesAnyhow(m, cursor, allocation, access) ==
  cursor >= m.guest /\ cursor < End(m) /\ access \subseteq m.access

\* The fragment holds `cursor`, for the same allocation, with the access.
Continues(m, cursor, allocation, access) ==
  /\ cursor >= m.guest /\ cursor < End(m)
  /\ m.allocation = allocation
  /\ access \subseteq m.access

HostOf(m, guest) == m.host + (guest - m.guest)

\* x86p_sparse_resolve: one host pointer for a whole range, or None.
Resolve(guest, size, access) ==
  LET end == guest + size
      first == UpperBound(guest)
      walk[r \in (first .. Count + 1) \X (guest .. end)] ==
        LET at == r[1]
            cursor == r[2]
        IN  cursor = end \/
            /\ at <= Count
            /\ Continues(mappings[at], cursor, mappings[first].allocation, access)
            /\ HostOf(mappings[at], cursor) = HostOf(mappings[first], guest) + (cursor - guest)
            /\ walk[<<at + 1, SmallerOf(End(mappings[at]), end)>>]
  IN  IF end <= Space /\ first > 0 /\ walk[<<first, guest>>]
      THEN HostOf(mappings[first], guest) ELSE None

\* x86p_sparse_guest_address: the one mapping that holds the host range.
GuestAddress(host, size) ==
  LET holds == {i \in 1 .. Count :
                  /\ host >= mappings[i].host
                  /\ host + size <= mappings[i].host + mappings[i].size}
  IN  IF \E i \in holds : holds = {i}
      THEN LET m == mappings[CHOOSE i \in holds : TRUE] IN m.guest + (host - m.host)
      ELSE None

\* Mutant: a mapping that starts where the range ends is in it.
HostInUseTouching(host, size) ==
  \E i \in 1 .. Count :
    IF mappings[i].host >= host THEN mappings[i].host - host <= size
    ELSE host - mappings[i].host < mappings[i].size

\* x86p_sparse_host_in_use.
HostInUse(host, size) ==
  \E i \in 1 .. Count :
    IF mappings[i].host >= host THEN mappings[i].host - host < size
    ELSE host - mappings[i].host < mappings[i].size

-----------------------------------------------------------------------------
(* Changing.                                                               *)

HostFits(host, size) == host + size <= HostSpace

\* x86p_sparse_map_access.
MapAccess(guest, host, size, access) ==
  /\ next_allocation < MaxAllocations
  /\ HostFits(host, size)
  /\ RangeAvailable(guest, size)
  /\ next_allocation' = next_allocation + 1
  /\ mappings' = InsertAt(mappings, UpperBound(guest) + 1,
       [guest |-> guest, size |-> size, host |-> host, access |-> access,
        allocation |-> next_allocation'])

\* x86p_sparse_unmap: exactly one registered mapping.
Unmap(guest, size) ==
  LET at == UpperBound(guest)
  IN  /\ at > 0 /\ mappings[at].guest = guest /\ mappings[at].size = size
      /\ mappings' = RemoveAt(mappings, at)
      /\ UNCHANGED next_allocation

\* The fragment of a mapping between two of its addresses.
Fragment(m, from, to) ==
  IF from >= to THEN <<>>
  ELSE << [m EXCEPT !.guest = from, !.size = to - from, !.host = HostOf(m, from)] >>

Untouched(m, guest, end) == End(m) <= guest \/ m.guest >= end

\* Mutant: the rest of a mapping is lost when the range lies inside it.
AfterUnlessSplit(m, guest, end) ==
  IF m.guest < guest THEN <<>> ELSE Fragment(m, end, End(m))

\* Mutant: the part in the range stays as well.
BeforeAndIn(m, guest, end) == Fragment(m, m.guest, SmallerOf(End(m), end))

\* What is left of a mapping before the range, and after it.
Before(m, guest, end) == Fragment(m, m.guest, guest)
After(m, guest, end) == Fragment(m, end, End(m))

\* What becomes of the part in the range: nothing, or the same with `access`.
Within(m, guest, end, remove, access) ==
  IF remove THEN <<>>
  ELSE Fragment([m EXCEPT !.access = access], LargerOf(m.guest, guest), SmallerOf(End(m), end))

\* change_range's loop.
Changed(guest, end, remove, access) ==
  FlattenSeq([i \in 1 .. Count |->
    LET m == mappings[i]
    IN  IF Untouched(m, guest, end) THEN <<m>>
        ELSE Before(m, guest, end) \o Within(m, guest, end, remove, access)
             \o After(m, guest, end)])

UnmapRange(guest, size) ==
  /\ guest + size <= Space
  /\ mappings' = Changed(guest, guest + size, TRUE, {})
  /\ UNCHANGED next_allocation

Protect(guest, size, access) ==
  /\ guest + size <= Space /\ WholeSpan(guest, size)
  /\ mappings' = Changed(guest, guest + size, FALSE, access)
  /\ UNCHANGED next_allocation

Next ==
  \E guest \in Addresses : \E size \in Sizes :
    \/ \E host \in Hosts, access \in Accesses : MapAccess(guest, host, size, access)
    \/ Unmap(guest, size)
    \/ UnmapRange(guest, size)
    \/ \E access \in Accesses : Protect(guest, size, access)

Spec == Init /\ [][Next]_vars

-----------------------------------------------------------------------------
Mapping == [guest : Addresses, size : Sizes, host : Hosts, access : Accesses,
            allocation : 1 .. MaxAllocations]

(* Types; and no mapping reaches past the guest's or the host's memory.    *)
TypeOK ==
  /\ mappings \in Seq(Mapping) /\ next_allocation \in 0 .. MaxAllocations
  /\ \A i \in 1 .. Count : End(mappings[i]) <= Space
                           /\ mappings[i].host + mappings[i].size <= HostSpace

(* The bytes the array stands for, read without searching it.              *)
Bytes ==
  [a \in Addresses |->
     LET over == {i \in 1 .. Count : mappings[i].guest <= a /\ a < End(mappings[i])}
     IN  IF over = {} THEN None
         ELSE LET m == mappings[CHOOSE i \in over : \A j \in over : i <= j]
              IN  [host |-> HostOf(m, a), access |-> m.access, allocation |-> m.allocation]]

Map == INSTANCE GuestMap WITH byte <- Bytes

(* Each call is, on the bytes, the change it is documented to be: what is  *)
(* outside its range keeps backing, access and allocation, however the     *)
(* mappings under it are split, and a refused call changes nothing.        *)
ImplementsMap ==
  Map!MapInit /\
  [][\E guest \in Addresses : \E size \in 1 .. Space - guest :
       \/ (Unmap(guest, size) \/ UnmapRange(guest, size)) /\ Map!UnmapBytes(guest, size)
       \/ \E access \in Accesses :
            \/ Protect(guest, size, access) /\ Map!ProtectBytes(guest, size, access)
            \/ \E host \in Hosts : /\ MapAccess(guest, host, size, access)
                                  /\ Map!MapBytes(guest, host, size, access)]_vars

(* x86p_sparse_resolve answers for exactly the ranges whose every byte     *)
(* grants the access and belongs to one allocation (cpu.h,                 *)
(* x86p_mem_resolve), with the host byte of the first; protection splits   *)
(* never make it refuse, and neighbours never make it answer.              *)
ResolveExact ==
  \A guest \in Addresses, size \in Sizes, access \in Accesses :
    LET bytes == {Bytes[a] : a \in guest .. SmallerOf(guest + size, Space) - 1}
        whole == /\ guest + size <= Space /\ None \notin bytes
                 /\ \A b \in bytes : /\ access \subseteq b.access
                                     /\ b.allocation = Bytes[guest].allocation
    IN  Resolve(guest, size, access) = IF whole THEN Bytes[guest].host ELSE None

(* change_range builds its result in a buffer of count + 2.                *)
SplitsBounded == [][Len(mappings') <= Count + 2]_vars

(* An allocation is in use exactly while a fragment borrows a byte of it;  *)
(* a guest address given for a host range is where those bytes are, and a  *)
(* byte has one exactly while no two guest addresses alias it.             *)
InUseExact ==
  \A host \in Hosts, size \in Sizes :
    host + size <= HostSpace =>
      LET at == GuestAddress(host, size)
          backed == {a \in Addresses : Bytes[a] # None /\ Bytes[a].host \in host .. host + size - 1}
      IN  /\ HostInUse(host, size) <=> backed # {}
          /\ at # None => \A k \in 0 .. size - 1 : at + k \in backed /\ Bytes[at + k].host = host + k
          /\ size = 1 => (at # None <=> \E a \in backed : backed = {a})

=============================================================================
