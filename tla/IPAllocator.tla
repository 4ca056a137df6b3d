---------------------------- MODULE IPAllocator ----------------------------
(***************************************************************************)
(* The address allocator the agent keeps for every subnet: Kubernetes'     *)
(* ipallocator.Range over an AllocationBitmap.  A Range is identified by   *)
(* the prefix it covers and the generation in which it was built, because  *)
(* the agent builds a fresh Range for a prefix each time it reads a zone   *)
(* from the VSD while old ones may still be referenced.  The contents of   *)
(* all Ranges together are one set of slots [cidr, gen, host].             *)
(*                                                                         *)
(* A host is the offset of an address from its prefix.  The first and the  *)
(* last address of a prefix are not usable, so usable offsets are 1..Hosts *)
(* where Hosts is RangeSize - 2.                                           *)
(***************************************************************************)
EXTENDS Naturals

CONSTANT Hosts

ASSUME HostsAssumption == Hosts \in Nat

Host == 1 .. Hosts

\* The slot that an address occupies in a Range.
Slot(range, h) == [cidr |-> range.cidr, gen |-> range.gen, host |-> h]

\* Range.contains: the network address, the broadcast address and addresses
\* of other prefixes are not in a Range.
Contains(h) == h \in Host

\* Mutant of FreeHosts: the network address is handed out too.
FreeHostsFromZero(alloc, range) == {h \in 0 .. Hosts : Slot(range, h) \notin alloc}

\* The addresses that Allocate accepts and from which AllocateNext, whose
\* scan starts at a random offset and wraps, picks one.  Empty means ErrFull.
FreeHosts(alloc, range) == {h \in Host : Slot(range, h) \notin alloc}

\* A successful Allocate or AllocateNext of address h.
Reserve(alloc, range, h) == alloc \cup {Slot(range, h)}

\* Mutant of Release: the bit of a released address stays set.
ReleaseNothing(alloc, range, h) == alloc

\* Mutant of Release: the whole range is released.
ReleaseRange(alloc, range, h) == {s \in alloc : s.cidr # range.cidr}

\* Range.Release.  Releasing an address that is not allocated, or that is
\* out of range, changes nothing.
Release(alloc, range, h) == alloc \ {Slot(range, h)}

\* Allocate called for each of several addresses, errors only logged:
\* addresses out of range are skipped, repeated ones stay allocated.
ReserveAll(alloc, range, hs) ==
    alloc \cup {Slot(range, h) : h \in {x \in hs : Contains(x)}}
=============================================================================
