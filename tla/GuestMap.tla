------------------------------- MODULE GuestMap -------------------------------
(***************************************************************************)
(* What memory_sparse.h promises, byte by byte: each guest byte is a hole  *)
(* or is backed by one host byte of one allocation, with an access.  A     *)
(* mapping call changes every byte of its range or none, and no other.     *)
(***************************************************************************)
EXTENDS Integers

CONSTANTS
  Space,            \* 2^32: guest addresses are 0 .. Space - 1
  MaxAllocations,   \* UINT64_MAX: allocations ever registered
  None

VARIABLES
  byte,             \* [0 .. Space - 1 -> [host, access, allocation] or None]
  next_allocation

Addresses == 0 .. Space - 1
Within(guest, size) == guest .. guest + size - 1
InSpace(guest, size) == size > 0 /\ guest + size <= Space

MapInit == byte = [a \in Addresses |-> None] /\ next_allocation = 0

(* A range of holes is backed, from `host` on, by a new allocation.        *)
MapBytes(guest, host, size, access) ==
  /\ InSpace(guest, size) /\ next_allocation < MaxAllocations
  /\ \A a \in Within(guest, size) : byte[a] = None
  /\ next_allocation' = next_allocation + 1
  /\ byte' = [a \in Addresses |->
       IF a \in Within(guest, size)
       THEN [host |-> host + a - guest, access |-> access, allocation |-> next_allocation']
       ELSE byte[a]]

(* A range without holes changes its access, and keeps its backing.        *)
ProtectBytes(guest, size, access) ==
  /\ InSpace(guest, size)
  /\ \A a \in Within(guest, size) : byte[a] # None
  /\ byte' = [a \in Addresses |->
       IF a \in Within(guest, size) THEN [byte[a] EXCEPT !.access = access] ELSE byte[a]]
  /\ UNCHANGED next_allocation

(* A range becomes holes, whatever was there.                              *)
UnmapBytes(guest, size) ==
  /\ InSpace(guest, size)
  /\ byte' = [a \in Addresses |-> IF a \in Within(guest, size) THEN None ELSE byte[a]]
  /\ UNCHANGED next_allocation
=============================================================================
