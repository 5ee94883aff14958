-------------------------- MODULE DeviceInvocation --------------------------
(***************************************************************************)
(* The device-buffer contract of crates/inferfabric-plan/src/              *)
(* device_buffer.rs: a frozen invocation is verified, the backend prepares *)
(* its kernel against it, and it is bound to the allocations resident on   *)
(* the device.  A call that is refused anywhere goes no further.  64-bit   *)
(* quantities stop at MaxU64 and signed ones at MaxI64.                    *)
(***************************************************************************)
EXTENDS Naturals, Sequences, FiniteSets, FiniteSetsExt, SequencesExt

CONSTANTS Invocations,  \* [binary, rank, allocations, inputs, outputs, workspace]
          Preparations, \* [binary, bytes, alignment]: what a backend comes back with
          Residencies,  \* sequences of [id, base, bytes, rank]
          MaxU64, MaxI64, MaxPorts, MaxWorkspaceAlignment

VARIABLES call, prepared, resident, progress

invocationVars == <<call, prepared, resident, progress>>

DTypeBytes == [I8 |-> 1, Bf16 |-> 2, F32 |-> 4]
Aligned(a) == \E k \in 0 .. a : a = 2 ^ k
Multiple(n, a) == n % a = 0

\* Mutant of Overlap: only whether the first begins inside the second.
OverlapOfStarts(a, b) == b.from <= a.from /\ a.from < b.to

Overlap(a, b) == a.from < b.to /\ b.from < a.to

\* end: a range that is empty, overflows or leaves its allocation is refused.
Fits(offset, bytes, capacity) == offset + bytes <= MaxU64 /\ bytes # 0 /\ offset + bytes <= capacity

----------------------------------------------------------------------------
(* verify.                                                                 *)

\* The elements from dimension k on, which is the stride before it.
Elements(v, k) == FoldLeft(LAMBDA n, d : n * d, 1, SubSeq(v.shape, k, Len(v.shape)))

Contiguous(v) ==
    /\ v.shape # << >> /\ Len(v.shape) <= 8 /\ Len(v.strides) = Len(v.shape)
    /\ \A k \in DOMAIN v.shape :
          /\ v.shape[k] \in 1 .. MaxI64 /\ v.strides[k] = Elements(v, k + 1)
          /\ v.strides[k] <= MaxI64 /\ Elements(v, k) <= MaxU64
    /\ Elements(v, 1) * DTypeBytes[v.dtype] <= MaxU64

ByteSpan(v) == Elements(v, 1) * DTypeBytes[v.dtype]
RangeOf(v) == [from |-> v.offset, to |-> v.offset + ByteSpan(v)]
WorkRange(w) == [from |-> w.offset, to |-> w.offset + w.bytes]

Allocations(c) == Range(c.allocations)
Allocation(c, id) == CHOOSE a \in Allocations(c) : a.id = id
Known(c, id) == \E a \in Allocations(c) : a.id = id

AllocationOK(c, a) ==
    a.bytes # 0 /\ Aligned(a.alignment) /\ a.rank = c.rank /\ (a.class = "Weight" => a.readOnly)

ViewOK(c, v, access) ==
    /\ Known(c, v.allocation)
    /\ LET a == Allocation(c, v.allocation) IN
          /\ v.access = access /\ ~(access = "Write" /\ a.readOnly)
          /\ Aligned(v.alignment) /\ v.alignment >= DTypeBytes[v.dtype] /\ a.alignment >= v.alignment
          /\ Multiple(v.offset, v.alignment)
          /\ Contiguous(v) /\ Fits(v.offset, ByteSpan(v), a.bytes)

Clash(v, u) == v.allocation = u.allocation /\ Overlap(RangeOf(v), RangeOf(u))

WorkspaceOK(c, w) ==
    /\ Known(c, w.allocation)
    /\ LET a == Allocation(c, w.allocation) IN
          /\ ~a.readOnly /\ Aligned(w.alignment) /\ w.alignment <= MaxWorkspaceAlignment
          /\ a.alignment >= w.alignment /\ Multiple(w.offset, w.alignment)
          /\ Fits(w.offset, w.bytes, a.bytes)
    /\ \A v \in Range(c.inputs) \cup Range(c.outputs) :
          ~(v.allocation = w.allocation /\ Overlap(WorkRange(w), RangeOf(v)))

\* workspace is a sequence of at most one.
VerifyOK(c) ==
    /\ c.allocations # << >> /\ Len(c.inputs) \in 1 .. MaxPorts /\ Len(c.outputs) \in 1 .. MaxPorts
    /\ \A j, k \in DOMAIN c.allocations : c.allocations[j].id = c.allocations[k].id => j = k
    /\ \A a \in Allocations(c) : AllocationOK(c, a)
    /\ \A v \in Range(c.inputs) : ViewOK(c, v, "Read")
    /\ \A v \in Range(c.outputs) : ViewOK(c, v, "Write")
    /\ \A k \in DOMAIN c.outputs :
          /\ \A v \in Range(c.inputs) : ~Clash(c.outputs[k], v)
          /\ \A j \in 1 .. k - 1 : ~Clash(c.outputs[k], c.outputs[j])
    /\ \A w \in Range(c.workspace) : WorkspaceOK(c, w)
    /\ \A a \in Allocations(c) : \E v \in Range(c.inputs) \cup Range(c.outputs) \cup Range(c.workspace) : v.allocation = a.id

----------------------------------------------------------------------------
(* verify_prepared and bind.                                               *)

PreparedOK(c, p) ==
    /\ p.binary = c.binary /\ Aligned(p.alignment) /\ p.alignment <= MaxWorkspaceAlignment
    /\ IF c.workspace = << >> THEN p.bytes = 0
       ELSE p.bytes <= c.workspace[1].bytes /\ p.alignment <= c.workspace[1].alignment

Held(r) == [from |-> r.base, to |-> r.base + r.bytes]

ResidentOK(c, r) ==
    /\ Known(c, r.id)
    /\ LET a == Allocation(c, r.id) IN
          /\ r.base # 0 /\ r.base + r.bytes <= MaxU64 /\ r.bytes >= a.bytes
          /\ r.rank = a.rank /\ Multiple(r.base, a.alignment)

BindOK(c, rs) ==
    /\ Len(rs) = Len(c.allocations)
    /\ \A k \in DOMAIN rs :
          /\ ResidentOK(c, rs[k])
          /\ \A j \in 1 .. k - 1 : rs[j].id # rs[k].id /\ ~Overlap(Held(rs[k]), Held(rs[j]))

Base(id) == (CHOOSE r \in Range(resident) : r.id = id).base

----------------------------------------------------------------------------
InvocationInit == call \in Invocations /\ prepared = << >> /\ resident = << >> /\ progress = "frozen"

Verify ==
    /\ progress = "frozen" /\ progress' = IF VerifyOK(call) THEN "verified" ELSE "refused"
    /\ UNCHANGED <<call, prepared, resident>>

VerifyPrepared ==
    /\ progress = "verified" /\ \E p \in Preparations : prepared' = <<p>>
    /\ progress' = IF PreparedOK(call, prepared'[1]) THEN "prepared" ELSE "refused"
    /\ UNCHANGED <<call, resident>>

Bind ==
    /\ progress = "prepared" /\ resident' \in Residencies
    /\ progress' = IF BindOK(call, resident') THEN "bound" ELSE "refused"
    /\ UNCHANGED <<call, prepared>>

InvocationNext == Verify \/ VerifyPrepared \/ Bind
InvocationSpec == InvocationInit /\ [][InvocationNext]_invocationVars

----------------------------------------------------------------------------
(* Properties.                                                             *)

ViewBytes(v) == {Base(v.allocation) + v.offset + b : b \in 0 .. ByteSpan(v) - 1}
WorkBytes == {Base(w.allocation) + w.offset + b : <<w, b>> \in {<<x, y>> \in Range(call.workspace) \X (0 .. MaxU64) : y < x.bytes}}
Owned(r) == r.base .. (r.base + r.bytes - 1)

\* Once bound, a kernel that stays inside its descriptors harms nobody: byte by
\* byte, in absolute addresses, what it may write (outputs and workspace) is
\* apart from what it reads and from each other, never in read-only memory,
\* inside what the resident allocation holds, and below the address limit; every
\* view is aligned as promised, and the workspace the prepared kernel asked for
\* is there.
BoundIsSafe ==
    progress = "bound" =>
      LET views == Range(call.inputs) \cup Range(call.outputs)
          reads == UNION {ViewBytes(v) : v \in Range(call.inputs)}
          sealed == UNION {Owned(r) : r \in {q \in Range(resident) : Allocation(call, q.id).readOnly}}
      IN  /\ \A k \in DOMAIN call.outputs :
                /\ ViewBytes(call.outputs[k]) \cap (reads \cup WorkBytes \cup sealed) = {}
                /\ \A j \in DOMAIN call.outputs \ {k} : ViewBytes(call.outputs[k]) \cap ViewBytes(call.outputs[j]) = {}
          /\ WorkBytes \cap (reads \cup sealed) = {}
          /\ \A v \in views :
                /\ \E r \in Range(resident) : r.id = v.allocation /\ ViewBytes(v) \subseteq Owned(r)
                /\ Multiple(Base(v.allocation) + v.offset, v.alignment) /\ ViewBytes(v) \subseteq 1 .. MaxU64
          /\ prepared[1].bytes <= Cardinality(WorkBytes)
=============================================================================
