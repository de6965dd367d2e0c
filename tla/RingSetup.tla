----------------------------- MODULE RingSetup -----------------------------
(***************************************************************************)
(* Where rings come from: the memory of the srng subsystem and of the      *)
(* rings, and the registers through which the device learns about a ring.  *)
(* The probe sets up the receive rings (dst, status), then the ring of the *)
(* transmit test (src), which goes away at the end of the test; the remove *)
(* gives the rest back.  Every allocation may fail.  The device watches    *)
(* its registers all the time, so they are written one by one.             *)
(***************************************************************************)
EXTENDS Naturals, Sequences, FiniteSets

CONSTANTS
    Blocks,     \* ring memory (dma_alloc_coherent)
    NoBlock,
    NEntries,   \* entries of a ring (32)
    Lives       \* bound: number of probes

ASSUME SetupAssumption ==
    NoBlock \notin Blocks /\ NEntries \in Nat \ {0} /\ Lives \in Nat

Rings == {"src", "dst", "status"}

\* hw_srng_config_template: start_ring_id, entry_size and ring_dir.
Template == [src    |-> [id |-> 125, es |-> 5, dir |-> "src"],
             dst    |-> [id |-> 8,   es |-> 3, dir |-> "src"],
             status |-> [id |-> 1,   es |-> 2, dir |-> "dst"]]
MaxRings == 1
RingIdMax == 127 + 3 * (143 - 128)   \* HAL_SRNG_RING_ID_MAX
Invalid == RingIdMax + 1             \* -EINVAL

\* hal_srng_get_ring_id; no ring of the template is an lmac ring.
GetRingId(r, num) ==
    IF num >= MaxRings \/ Template[r].id + num >= RingIdMax
      THEN Invalid ELSE Template[r].id + num

Id(r) == GetRingId(r, 0)

\* Mutant: the groups are not told apart.
HwregBaseOneGroup(id, grp) == 65536 + id * 256

\* Mutant: the ring id is shifted by 7 bits.
HwregBaseShort(id, grp) == 65536 + id * 128 + grp * 128

\* srng->hwreg_base: 16 bits of group number, 8 of ring id, 1 of grp, 5 of reg.
HwregBase(id, grp) == 65536 + id * 256 + grp * 128

\* The register that the device finds behind an address (external).
Decode(a) == <<(a \div 256) % 256, (a \div 128) % 2, (a % 128) \div 4>>

VARIABLES
    pc, life,
    hal,        \* which of srng_config, rdp and wrp are allocated
    live,       \* ring memory in use
    ring,       \* ring -> its memory, as the pipe has it
    base,       \* ring -> srng->ring_base_paddr
    ready,      \* rings whose set up has returned
    todo,       \* register writes that hw_init has yet to make
    reg         \* the device's registers

vars == <<pc, life, hal, live, ring, base, ready, todo, reg>>

Registers == {Id(r) : r \in Rings} \X {0, 1} \X (0 .. 7)

Init ==
    /\ pc = "down" /\ life = 0
    /\ hal = {} /\ live = {} /\ ready = {} /\ todo = <<>>
    /\ ring = [r \in Rings |-> NoBlock] /\ base = [r \in Rings |-> NoBlock]
    /\ reg = [q \in Registers |-> <<0>>]
-----------------------------------------------------------------------------
(***************************************************************************)
(* wireless_simu_hal_srng_init, in its order: srng_config, rdp, wrp.       *)
(***************************************************************************)
Probe ==
    /\ pc = "down" /\ life < Lives
    /\ pc' = "config" /\ life' = life + 1
    /\ UNCHANGED <<hal, live, ring, base, ready, todo, reg>>

HalAlloc ==
    /\ \/ pc = "config" /\ hal' = hal \union {"config"} /\ pc' = "rdp"
       \/ pc = "rdp" /\ hal' = hal \union {"rdp"} /\ pc' = "wrp"
       \/ pc = "wrp" /\ hal' = hal \union {"wrp"} /\ pc' = "alloc_dst"
    /\ UNCHANGED <<life, live, ring, base, ready, todo, reg>>

\* Mutant: nothing is released.
HalFailsKept ==
    /\ pc \in {"config", "rdp", "wrp"} /\ pc' = "failed"
    /\ UNCHANGED <<life, hal, live, ring, base, ready, todo, reg>>

\* A failure releases rdp, not srng_config; the probe fails, and leaves the
\* regions of the device requested, so that there is no other probe.
HalFails ==
    /\ pc \in {"config", "rdp", "wrp"} /\ pc' = "failed"
    /\ hal' = hal \ {"rdp"}
    /\ UNCHANGED <<life, live, ring, base, ready, todo, reg>>
-----------------------------------------------------------------------------
(***************************************************************************)
(* hal_srng_test_alloc_pipe and hal_srng_test_free_pipes.                  *)
(***************************************************************************)
AllocRing(r, next) ==
    /\ \E b \in Blocks \ live :
         live' = live \union {b} /\ ring' = [ring EXCEPT ![r] = b]
    /\ pc' = next
    /\ UNCHANGED <<life, hal, base, ready, todo, reg>>

Alloc ==
    \/ pc = "alloc_dst" /\ AllocRing("dst", "alloc_status")
    \/ pc = "alloc_status" /\ AllocRing("status", "set_dst")
    \/ pc = "alloc_src" /\ AllocRing("src", "set_src")

\* Mutant: the last ring of the pipe is forgotten.
FreePipesPartly(rs) ==
    /\ live' = live \ {ring[r] : r \in rs \ {"status"}}
    /\ ring' = [r \in Rings |-> IF r \in rs THEN NoBlock ELSE ring[r]]
    /\ ready' = ready \ rs

FreePipes(rs) ==
    /\ live' = live \ {ring[r] : r \in rs}
    /\ ring' = [r \in Rings |-> IF r \in rs THEN NoBlock ELSE ring[r]]
    /\ ready' = ready \ rs

\* A ring or its memory cannot be allocated: free what the pipe has.  The probe
\* goes on without the receive rings, or without the test.
AllocFails ==
    /\ \/ pc \in {"alloc_dst", "alloc_status"}
          /\ FreePipes({"dst", "status"}) /\ pc' = "alloc_src"
       \/ pc = "alloc_src" /\ FreePipes({"src"}) /\ pc' = "up"
    /\ UNCHANGED <<life, hal, base, todo, reg>>
-----------------------------------------------------------------------------
(***************************************************************************)
(* hal_srng_test_init_ring: srng_setup, then the registers.                *)
(***************************************************************************)
W(r, grp, n, v) == [at |-> HwregBase(Id(r), grp) + 4 * n, val |-> v]

\* What the registers say of a ring: its base, its size, its entries, and the
\* word of rdp in which the device reports its pointer.
BaseLow(r, b) == <<b>>
BaseHigh(r, b) == <<b, Template[r].es * NEntries>>
EntrySize(r) ==
    IF Template[r].dir = "src" THEN <<Template[r].es>> ELSE <<Id(r), Template[r].es>>
PointerWord(r) == <<"rdp", Id(r)>>

\* Mutant: the ring is enabled before its pointers are reset.
SrcHwInitEarly(r, b) ==
    << W(r, 0, 0, BaseLow(r, b)), W(r, 0, 7, <<1>>), W(r, 0, 1, BaseHigh(r, b)),
       W(r, 0, 2, EntrySize(r)), W(r, 0, 5, PointerWord(r)),
       W(r, 0, 6, PointerWord(r)), W(r, 1, 0, <<0>>), W(r, 1, 1, <<0>>) >>

\* hal_srng_src_hw_init.
SrcHwInit(r, b) ==
    << W(r, 0, 0, BaseLow(r, b)), W(r, 0, 1, BaseHigh(r, b)),
       W(r, 0, 2, EntrySize(r)), W(r, 0, 3, <<0>>), W(r, 0, 4, <<0>>),
       W(r, 0, 5, PointerWord(r)), W(r, 0, 6, PointerWord(r)),
       W(r, 1, 0, <<0>>), W(r, 1, 1, <<0>>), W(r, 0, 7, <<1>>) >>

\* hal_srng_dst_hw_init.
DstHwInit(r, b) ==
    << W(r, 0, 0, BaseLow(r, b)), W(r, 0, 1, BaseHigh(r, b)),
       W(r, 0, 2, EntrySize(r)), W(r, 0, 3, <<0>>),
       W(r, 0, 5, PointerWord(r)), W(r, 0, 6, PointerWord(r)),
       W(r, 1, 0, <<0>>), W(r, 1, 1, <<0>>), W(r, 0, 7, <<1>>) >>

SetupRing(r, next) ==
    /\ base' = [base EXCEPT ![r] = ring[r]]
    /\ todo' = IF Template[r].dir = "src" THEN SrcHwInit(r, ring[r])
                                          ELSE DstHwInit(r, ring[r])
    /\ pc' = next
    /\ UNCHANGED <<life, hal, live, ring, ready, reg>>

Setup ==
    \/ pc = "set_dst" /\ SetupRing("dst", "write_dst")
    \/ pc = "set_status" /\ SetupRing("status", "write_status")
    \/ pc = "set_src" /\ SetupRing("src", "write_src")

\* wireless_hif_write32.
HifWrite ==
    /\ todo # <<>>
    /\ reg' = [reg EXCEPT ![Decode(Head(todo).at)] = Head(todo).val]
    /\ todo' = Tail(todo)
    /\ UNCHANGED <<pc, life, hal, live, ring, base, ready>>

SetupReturns ==
    /\ todo = <<>>
    /\ \/ pc = "write_dst" /\ pc' = "set_status" /\ ready' = ready \union {"dst"}
       \/ pc = "write_status" /\ pc' = "alloc_src" /\ ready' = ready \union {"status"}
       \/ pc = "write_src" /\ pc' = "test" /\ ready' = ready \union {"src"}
    /\ UNCHANGED <<life, hal, live, ring, base, todo, reg>>
-----------------------------------------------------------------------------
\* The test of the src ring ends and frees it; the probe returns.
TestEnds ==
    /\ pc = "test" /\ pc' = "up"
    /\ FreePipes({"src"})
    /\ UNCHANGED <<life, hal, base, todo, reg>>

\* The remove: dst_test_deinit and wireless_simu_hal_srng_deinit.
Deinit ==
    /\ pc = "up" /\ pc' = "free_hal"
    /\ FreePipes({"dst", "status"})
    /\ UNCHANGED <<life, hal, base, todo, reg>>

HalDeinit ==
    /\ pc = "free_hal" /\ pc' = "down"
    /\ hal' = hal \ {"rdp", "wrp", "config"}
    /\ UNCHANGED <<life, live, ring, base, ready, todo, reg>>

Next ==
    \/ Probe \/ HalAlloc \/ HalFails
    \/ Alloc \/ AllocFails \/ Setup \/ HifWrite \/ SetupReturns
    \/ TestEnds \/ Deinit \/ HalDeinit

Spec == Init /\ [][Next]_vars
-----------------------------------------------------------------------------
\* Type invariant.
TypeOK ==
    /\ life \in 0 .. Lives /\ hal \subseteq {"config", "rdp", "wrp"}
    /\ live \subseteq Blocks /\ ready \subseteq Rings
    /\ ring \in [Rings -> Blocks \union {NoBlock}]
    /\ base \in [Rings -> Blocks \union {NoBlock}]
    /\ \A k \in 1 .. Len(todo) : Decode(todo[k].at) \in Registers
    /\ DOMAIN reg = Registers

R(r, grp, n) == reg[<<Id(r), grp, n>>]

\* The device's registers describe the ring that the driver has set up, and its
\* pointers are 0 (they move once the ring is used: see RxPipe and TxTest).
Coherent(r) ==
    /\ R(r, 0, 0) = BaseLow(r, base[r]) /\ R(r, 0, 1) = BaseHigh(r, base[r])
    /\ R(r, 0, 2) = EntrySize(r)
    /\ R(r, 0, 5) = PointerWord(r) /\ R(r, 0, 6) = PointerWord(r)
    /\ R(r, 1, 0) = <<0>> /\ R(r, 1, 1) = <<0>>

\* On a device that has not been set up before, a ring is never enabled with
\* registers that are incomplete: hw_init enables it with its last write.  (The
\* remove does not disable a ring, so that a second probe rewrites the registers
\* of enabled rings.)
EnabledIsCoherent ==
    life = 1 => \A r \in Rings : R(r, 0, 7) = <<1>> => Coherent(r)

\* When srng_setup has returned the ring is enabled and its registers describe
\* memory that the driver has; no set up of another ring disturbs them.
ReadyIsCoherent ==
    \A r \in ready :
        R(r, 0, 7) = <<1>> /\ Coherent(r) /\ base[r] = ring[r] /\ ring[r] \in live

\* No path through the allocations, their failures and the releases loses ring
\* memory or leaves two rings with the same block.
MemoryAccounted ==
    LET held == {r \in Rings : ring[r] # NoBlock}
    IN  live = {ring[r] : r \in held} /\ Cardinality(live) = Cardinality(held)

\* A failed srng_init leaves at most srng_config behind, and a removed driver
\* nothing.
HalReleased ==
    /\ pc = "failed" => hal \subseteq {"config"}
    /\ pc = "down" => hal = {} /\ live = {}
=============================================================================
