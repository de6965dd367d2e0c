------------------------------- MODULE RxPipe -------------------------------
(***************************************************************************)
(* The receive path of the driver: one srng_test pipe with its "dst" ring  *)
(* (a SRC ring that hands empty buffers to the device) and its "status"    *)
(* ring (a DST ring on which the device announces filled buffers).         *)
(*                                                                         *)
(* Four contexts of the host run concurrently: the probe that posts the    *)
(* first buffers, the tasklet, the replenish timer, and the interrupt      *)
(* handler.  Everything the first three do to the pipe happens under       *)
(* srng_test_lock (the two srng->lock are only taken inside it), but a     *)
(* critical section is cut where it reads or publishes a ring pointer,     *)
(* because the device moves in between.                                    *)
(*                                                                         *)
(* The device is not part of this repository.  Its actions (Dev...) say    *)
(* what the driver relies on; three constants select how it behaves.       *)
(***************************************************************************)
EXTENDS HalSrng, FiniteSets

CONSTANTS
    NEntries,     \* entries of either ring (32 in the driver)
    DstES,        \* words of a dst entry, struct hal_test_dst (3)
    StatusES,     \* words of a status entry, struct hal_test_dst_status (2)
    Bufs,         \* the socket buffers that can be allocated
    NoBuf,        \* a NULL skb, an empty descriptor
    AllocAny,     \* dev_alloc_skb returns any free buffer, not a fixed one
    MaxFails,     \* bound: allocations and mappings that fail in a behaviour
    DevLens,      \* buffer lengths the device reports, among Lengths
    PromptTp,     \* the device writes tp back before it announces the buffer
    MsiPerEvent,  \* an MSI for each event, not only when the status was 0
    OneCpu        \* the tasklet runs on the CPU of the interrupt handler

\* What the driver distinguishes in buffer_length: 0, at most the size of the
\* buffer, more than that.
Lengths == {"zero", "fit", "over"}

ASSUME RingAssumption ==
    /\ NEntries \in Nat /\ NEntries >= 2
    /\ DstES \in Nat \ {0}
    /\ StatusES \in Nat \ {0}

ASSUME ConfigAssumption ==
    /\ NoBuf \notin Bufs
    /\ MaxFails \in Nat
    /\ DevLens \subseteq Lengths
    /\ {AllocAny, PromptTp, MsiPerEvent, OneCpu} \subseteq BOOLEAN

Index == 0 .. NEntries - 1
DstRS == DstES * NEntries
StatusRS == StatusES * NEntries

\* The contexts that take srng_test_lock.
Ctx == {"probe", "tasklet", "timer"}

VARIABLES
    \* struct hal_srng of the two rings, host side
    d_hp, d_cached_tp, s_tp, s_cached_hp,
    \* struct srng_test_ring dst_ring and the pipe's count of missing buffers
    skb, write_index, sw_index, rx_buf_needed,
    \* what host and device share: pointer registers, pointers in memory, and
    \* the entries of the rings
    d_hp_reg, d_tp_mem, s_hp_mem, s_tp_reg, d_desc, s_desc,
    \* the device: its dst tail pointer, the buffer it fills, an event to raise
    dev_tp, dev_buf, dev_irq,
    \* interrupt status register, pending MSI, the handler
    irq_status, msi, irq_pc,
    \* the scheduled tasklet and the armed timer
    tq_sched, timer_armed,
    \* srng_test_lock, and per context where it is and the skb it holds
    lock, pc, cur, nbytes,
    \* life of each buffer: who holds it, whether it is mapped for DMA, and the
    \* length the device reported after filling it; mappings that failed
    own, mapped, fill, leaked,
    \* failed allocations and mappings so far
    fails

hostRings == <<d_hp, d_cached_tp, s_tp, s_cached_hp>>
pipe == <<skb, write_index, sw_index, rx_buf_needed>>
shared == <<d_hp_reg, d_tp_mem, s_hp_mem, s_tp_reg, d_desc, s_desc>>
device == <<dev_tp, dev_buf, dev_irq>>
irq == <<irq_status, msi, irq_pc>>
context == <<lock, pc, cur, nbytes>>
buffers == <<own, mapped, fill, leaked>>
vars == <<hostRings, pipe, shared, device, irq, tq_sched, timer_armed,
          context, buffers, fails>>
-----------------------------------------------------------------------------
\* The buffers that dst_test_init asks for.  A mutant asks for the whole ring.
InitialNeededAll == NEntries
InitialNeeded == NEntries - 2

\* srng_setup of both rings, then dst_test_init up to the call of post_buf: the
\* rings are zeroed and enabled, interrupts are on, nothing is posted.
Init ==
    /\ d_hp = 0 /\ d_cached_tp = 0 /\ s_tp = 0 /\ s_cached_hp = 0
    /\ skb = [i \in Index |-> NoBuf]
    /\ write_index = 0 /\ sw_index = 0
    /\ rx_buf_needed = InitialNeeded
    /\ d_hp_reg = 0 /\ d_tp_mem = 0 /\ s_hp_mem = 0 /\ s_tp_reg = 0
    /\ d_desc = [o \in 0 .. DstRS - 1 |-> NoBuf]
    /\ s_desc = [o \in 0 .. StatusRS - 1 |-> "zero"]
    /\ dev_tp = 0 /\ dev_buf = NoBuf /\ dev_irq = FALSE
    /\ irq_status = 0 /\ msi = FALSE /\ irq_pc = "idle"
    /\ tq_sched = FALSE /\ timer_armed = FALSE
    /\ lock = "none"
    /\ pc = [c \in Ctx |-> IF c = "probe" THEN "post" ELSE "idle"]
    /\ cur = [c \in Ctx |-> NoBuf]
    /\ nbytes = "zero"
    /\ own = [b \in Bufs |-> "free"] /\ mapped = {}
    /\ fill = [b \in Bufs |-> "none"] /\ leaked = 0
    /\ fails = 0

\* Context c is at label l and may run: the interrupt handler preempts a
\* tasklet on its own CPU.
At(c, l) ==
    /\ pc[c] = l
    /\ (OneCpu /\ c = "tasklet") => irq_pc = "idle"

Goto(c, l) == pc' = [pc EXCEPT ![c] = l]

\* The buffers that dev_alloc_skb may return.  Which one it is makes no
\* difference to the driver; a fixed choice keeps the liveness checks small.
Allocatable ==
    LET free == {b \in Bufs : own[b] = "free"}
    IN  IF AllocAny \/ free = {} THEN free ELSE {CHOOSE b \in free : TRUE}

\* Mutant: the timer is not armed.
PostFailsUnarmed(c) ==
    /\ Goto(c, "idle")
    /\ lock' = "none"
    /\ UNCHANGED timer_armed
    /\ fails < MaxFails /\ fails' = fails + 1

\* The caller of post_pipe gets an error other than -ENOSPC, leaves the lock
\* and arms the timer.
PostFails(c) ==
    /\ Goto(c, "idle")
    /\ lock' = "none"
    /\ timer_armed' = TRUE
    /\ fails < MaxFails /\ fails' = fails + 1
-----------------------------------------------------------------------------
(***************************************************************************)
(* wireless_simu_test_dst_post_pipe and enqueue_pipe, run by any context.  *)
(***************************************************************************)
\* Take the lock; nothing to do when no buffer is missing.
PostBegin(c) ==
    /\ At(c, "post") /\ lock = "none"
    /\ IF rx_buf_needed = 0
         THEN Goto(c, "idle") /\ UNCHANGED lock
         ELSE Goto(c, "alloc") /\ lock' = c
    /\ UNCHANGED <<hostRings, pipe, shared, device, irq, tq_sched, timer_armed,
                   cur, nbytes, buffers, fails>>

\* dev_alloc_skb and dma_map_single succeed; enqueue_pipe starts, access_begin
\* reads the tail that the device wrote back.
PostAlloc(c) ==
    /\ At(c, "alloc")
    /\ \E b \in Allocatable :
         /\ own' = [own EXCEPT ![b] = "cpu"]
         /\ mapped' = mapped \union {b}
         /\ cur' = [cur EXCEPT ![c] = b]
    /\ d_cached_tp' = d_tp_mem
    /\ Goto(c, "fill")
    /\ UNCHANGED <<d_hp, s_tp, s_cached_hp, pipe, shared, device, irq, tq_sched,
                   timer_armed, lock, nbytes, fill, leaked, fails>>

\* dev_alloc_skb returns NULL: -ENOMEM.
PostNoMem(c) ==
    /\ At(c, "alloc")
    /\ PostFails(c)
    /\ UNCHANGED <<hostRings, pipe, shared, device, irq, tq_sched, cur, nbytes,
                   buffers>>

\* dev_alloc_skb succeeds and dma_map_single fails: -EIO.  Nobody keeps the skb
\* and nobody frees it.
PostMapError(c) ==
    /\ At(c, "alloc")
    /\ PostFails(c)
    /\ \E b \in Allocatable : own' = [own EXCEPT ![b] = "lost"]
    /\ leaked' = leaked + 1
    /\ UNCHANGED <<hostRings, pipe, shared, device, irq, tq_sched, cur, nbytes,
                   mapped, fill>>

\* enqueue_pipe: num_free and src_get_next_entry find room, the descriptor and
\* the skb table are written.
EnqueueFill(c) ==
    /\ At(c, "fill")
    /\ NumFree(d_hp, d_cached_tp, DstES, DstRS) >= 1
    /\ HasNextEntry(d_hp, d_cached_tp, DstES, DstRS)
    /\ d_hp' = SrcNext(d_hp, DstES, DstRS)
    /\ d_desc' = [d_desc EXCEPT ![d_hp] = cur[c]]
    /\ skb' = [skb EXCEPT ![write_index] = cur[c]]
    /\ own' = [own EXCEPT ![cur[c]] = "ring"]
    /\ cur' = [cur EXCEPT ![c] = NoBuf]
    /\ write_index' = NextIndex(write_index, NEntries)
    /\ rx_buf_needed' = rx_buf_needed - 1
    /\ Goto(c, "end")
    /\ UNCHANGED <<d_cached_tp, s_tp, s_cached_hp, sw_index, d_hp_reg, d_tp_mem,
                   s_hp_mem, s_tp_reg, s_desc, device, irq, tq_sched, timer_armed,
                   lock, nbytes, mapped, fill, leaked, fails>>

\* enqueue_pipe: no room, -ENOSPC.
EnqueueFull(c) ==
    /\ At(c, "fill")
    /\ \/ NumFree(d_hp, d_cached_tp, DstES, DstRS) < 1
       \/ ~HasNextEntry(d_hp, d_cached_tp, DstES, DstRS)
    /\ Goto(c, "nospc")
    /\ UNCHANGED <<hostRings, pipe, shared, device, irq, tq_sched, timer_armed,
                   lock, cur, nbytes, buffers, fails>>

\* Mutant: the head is published one entry too far.
EnqueueEndAhead(c) ==
    /\ At(c, "end")
    /\ d_hp_reg' = SrcNext(d_hp, DstES, DstRS)
    /\ IF rx_buf_needed = 0
         THEN Goto(c, "idle") /\ lock' = "none"
         ELSE Goto(c, "alloc") /\ UNCHANGED lock
    /\ UNCHANGED <<hostRings, pipe, d_tp_mem, s_hp_mem, s_tp_reg, d_desc, s_desc,
                   device, irq, tq_sched, timer_armed, cur, nbytes, buffers, fails>>

\* access_end publishes the head; post_pipe loops while a buffer is missing.
EnqueueEnd(c) ==
    /\ At(c, "end")
    /\ d_hp_reg' = d_hp
    /\ IF rx_buf_needed = 0
         THEN Goto(c, "idle") /\ lock' = "none"
         ELSE Goto(c, "alloc") /\ UNCHANGED lock
    /\ UNCHANGED <<hostRings, pipe, d_tp_mem, s_hp_mem, s_tp_reg, d_desc, s_desc,
                   device, irq, tq_sched, timer_armed, cur, nbytes, buffers, fails>>

\* Mutant: the skb is freed while it is mapped.
EnqueueFullEndMapped(c) ==
    /\ At(c, "nospc")
    /\ d_hp_reg' = d_hp
    /\ own' = [own EXCEPT ![cur[c]] = "free"]
    /\ cur' = [cur EXCEPT ![c] = NoBuf]
    /\ Goto(c, "idle")
    /\ lock' = "none"
    /\ UNCHANGED <<hostRings, pipe, d_tp_mem, s_hp_mem, s_tp_reg, d_desc, s_desc,
                   device, irq, tq_sched, timer_armed, nbytes, mapped, fill,
                   leaked, fails>>

\* access_end after -ENOSPC; post_pipe unmaps and frees the skb and gives up.
\* Neither caller arms the timer for -ENOSPC.
EnqueueFullEnd(c) ==
    /\ At(c, "nospc")
    /\ d_hp_reg' = d_hp
    /\ own' = [own EXCEPT ![cur[c]] = "free"]
    /\ mapped' = mapped \ {cur[c]}
    /\ cur' = [cur EXCEPT ![c] = NoBuf]
    /\ Goto(c, "idle")
    /\ lock' = "none"
    /\ UNCHANGED <<hostRings, pipe, d_tp_mem, s_hp_mem, s_tp_reg, d_desc, s_desc,
                   device, irq, tq_sched, timer_armed, nbytes, fill, leaked, fails>>
-----------------------------------------------------------------------------
(***************************************************************************)
(* The tasklet: recv_next until it fails, free what was received,          *)
(* post_pipe.                                                              *)
(***************************************************************************)
TaskletRun ==
    /\ At("tasklet", "idle")
    /\ tq_sched /\ tq_sched' = FALSE
    /\ Goto("tasklet", "recv")
    /\ UNCHANGED <<hostRings, pipe, shared, device, irq, timer_armed, lock, cur,
                   nbytes, buffers, fails>>

\* recv_next: lock, access_begin reads the head of the status ring.
RecvBegin ==
    /\ At("tasklet", "recv") /\ lock = "none"
    /\ lock' = "tasklet"
    /\ s_cached_hp' = s_hp_mem
    /\ Goto("tasklet", "take")
    /\ UNCHANGED <<d_hp, d_cached_tp, s_tp, pipe, shared, device, irq, tq_sched,
                   timer_armed, cur, nbytes, buffers, fails>>

\* recv_next: the status ring is empty, -EIO.
RecvEmpty ==
    /\ At("tasklet", "take")
    /\ s_tp = s_cached_hp
    /\ Goto("tasklet", "stop")
    /\ UNCHANGED <<hostRings, pipe, shared, device, irq, tq_sched, timer_armed,
                   lock, cur, nbytes, buffers, fails>>

\* recv_next: a status of length 0, -EIO.  Its entry has been consumed.
RecvZero ==
    /\ At("tasklet", "take")
    /\ s_tp # s_cached_hp
    /\ s_desc[s_tp] = "zero"
    /\ s_tp' = DstNext(s_tp, StatusES, StatusRS)
    /\ Goto("tasklet", "stop")
    /\ UNCHANGED <<d_hp, d_cached_tp, s_cached_hp, pipe, shared, device, irq,
                   tq_sched, timer_armed, lock, cur, nbytes, buffers, fails>>

\* Mutants of RecvTake: rx_buf_needed is not counted up, the slot is not
\* cleared, sw_index is not advanced.
RecvTakeUncounted ==
    /\ At("tasklet", "take")
    /\ s_tp # s_cached_hp
    /\ s_desc[s_tp] # "zero"
    /\ nbytes' = s_desc[s_tp]
    /\ s_tp' = DstNext(s_tp, StatusES, StatusRS)
    /\ cur' = [cur EXCEPT !["tasklet"] = skb[sw_index]]
    /\ own' = [own EXCEPT ![skb[sw_index]] = "cpu"]
    /\ skb' = [skb EXCEPT ![sw_index] = NoBuf]
    /\ sw_index' = NextIndex(sw_index, NEntries)
    /\ Goto("tasklet", "took")
    /\ UNCHANGED <<d_hp, d_cached_tp, s_cached_hp, rx_buf_needed, write_index, shared,
                   device, irq, tq_sched, timer_armed, lock, mapped, fill, leaked, fails>>

RecvTakeUncleared ==
    /\ At("tasklet", "take")
    /\ s_tp # s_cached_hp
    /\ s_desc[s_tp] # "zero"
    /\ nbytes' = s_desc[s_tp]
    /\ s_tp' = DstNext(s_tp, StatusES, StatusRS)
    /\ cur' = [cur EXCEPT !["tasklet"] = skb[sw_index]]
    /\ own' = [own EXCEPT ![skb[sw_index]] = "cpu"]
    /\ sw_index' = NextIndex(sw_index, NEntries)
    /\ rx_buf_needed' = rx_buf_needed + 1
    /\ Goto("tasklet", "took")
    /\ UNCHANGED <<d_hp, d_cached_tp, s_cached_hp, skb, write_index, shared, device,
                   irq, tq_sched, timer_armed, lock, mapped, fill, leaked, fails>>

RecvTakeStuck ==
    /\ At("tasklet", "take")
    /\ s_tp # s_cached_hp
    /\ s_desc[s_tp] # "zero"
    /\ nbytes' = s_desc[s_tp]
    /\ s_tp' = DstNext(s_tp, StatusES, StatusRS)
    /\ cur' = [cur EXCEPT !["tasklet"] = skb[sw_index]]
    /\ own' = [own EXCEPT ![skb[sw_index]] = "cpu"]
    /\ skb' = [skb EXCEPT ![sw_index] = NoBuf]
    /\ rx_buf_needed' = rx_buf_needed + 1
    /\ Goto("tasklet", "took")
    /\ UNCHANGED <<d_hp, d_cached_tp, s_cached_hp, sw_index, write_index, shared, device,
                   irq, tq_sched, timer_armed, lock, mapped, fill, leaked, fails>>

\* recv_next: take the skb at sw_index.
RecvTake ==
    /\ At("tasklet", "take")
    /\ s_tp # s_cached_hp
    /\ s_desc[s_tp] # "zero"
    /\ nbytes' = s_desc[s_tp]
    /\ s_tp' = DstNext(s_tp, StatusES, StatusRS)
    /\ cur' = [cur EXCEPT !["tasklet"] = skb[sw_index]]
    /\ own' = [own EXCEPT ![skb[sw_index]] = "cpu"]
    /\ skb' = [skb EXCEPT ![sw_index] = NoBuf]
    /\ sw_index' = NextIndex(sw_index, NEntries)
    /\ rx_buf_needed' = rx_buf_needed + 1
    /\ Goto("tasklet", "took")
    /\ UNCHANGED <<d_hp, d_cached_tp, s_cached_hp, write_index, shared, device,
                   irq, tq_sched, timer_armed, lock, mapped, fill, leaked, fails>>

\* Mutant: the tail is not published.
RecvEndUnpublished ==
    /\ \/ At("tasklet", "took") /\ Goto("tasklet", "got")
       \/ At("tasklet", "stop") /\ Goto("tasklet", "drain")
    /\ lock' = "none"
    /\ UNCHANGED <<hostRings, pipe, shared, device, irq, tq_sched, timer_armed,
                   cur, nbytes, buffers, fails>>

\* recv_next: access_end publishes the tail, unlock.
RecvEnd ==
    /\ \/ At("tasklet", "took") /\ Goto("tasklet", "got")
       \/ At("tasklet", "stop") /\ Goto("tasklet", "drain")
    /\ s_tp_reg' = s_tp
    /\ lock' = "none"
    /\ UNCHANGED <<hostRings, pipe, d_hp_reg, d_tp_mem, s_hp_mem, d_desc, s_desc,
                   device, irq, tq_sched, timer_armed, cur, nbytes, buffers, fails>>

\* Mutant: the tasklet receives a single frame per run.
TaskletQueueOnce ==
    /\ At("tasklet", "got")
    /\ mapped' = mapped \ {cur["tasklet"]}
    /\ own' = [own EXCEPT ![cur["tasklet"]] =
                   IF nbytes = "over" THEN "free" ELSE "list"]
    /\ fill' = [fill EXCEPT ![cur["tasklet"]] = "none"]
    /\ cur' = [cur EXCEPT !["tasklet"] = NoBuf]
    /\ nbytes' = "zero"
    /\ Goto("tasklet", "drain")
    /\ UNCHANGED <<hostRings, pipe, shared, device, irq, tq_sched, timer_armed,
                   lock, leaked, fails>>

\* The loop body: unmap; a frame longer than its buffer is freed, the others
\* are queued.
TaskletQueue ==
    /\ At("tasklet", "got")
    /\ mapped' = mapped \ {cur["tasklet"]}
    /\ own' = [own EXCEPT ![cur["tasklet"]] =
                   IF nbytes = "over" THEN "free" ELSE "list"]
    /\ fill' = [fill EXCEPT ![cur["tasklet"]] = "none"]
    /\ cur' = [cur EXCEPT !["tasklet"] = NoBuf]
    /\ nbytes' = "zero"
    /\ Goto("tasklet", "recv")
    /\ UNCHANGED <<hostRings, pipe, shared, device, irq, tq_sched, timer_armed,
                   lock, leaked, fails>>

\* The queued frames are printed and freed; then post_pipe.
TaskletDrain ==
    /\ At("tasklet", "drain")
    /\ own' = [b \in Bufs |-> IF own[b] = "list" THEN "free" ELSE own[b]]
    /\ Goto("tasklet", "post")
    /\ UNCHANGED <<hostRings, pipe, shared, device, irq, tq_sched, timer_armed,
                   lock, cur, nbytes, mapped, fill, leaked, fails>>
-----------------------------------------------------------------------------
\* The replenish timer expires: rx_replenish_retry calls post_buf.
TimerFire ==
    /\ At("timer", "idle")
    /\ timer_armed /\ timer_armed' = FALSE
    /\ Goto("timer", "post")
    /\ UNCHANGED <<hostRings, pipe, shared, device, irq, tq_sched, lock, cur,
                   nbytes, buffers, fails>>

(***************************************************************************)
(* wireless_simu_irq_handler: read the status register, schedule the       *)
(* tasklet when it holds the event of ring 0, write 0 to the register.     *)
(***************************************************************************)
IrqDispatch ==
    /\ irq_pc = "idle"
    /\ msi /\ msi' = FALSE
    /\ tq_sched' = (tq_sched \/ irq_status = 1)
    /\ irq_pc' = "clear"
    /\ UNCHANGED <<hostRings, pipe, shared, device, irq_status, timer_armed,
                   context, buffers, fails>>

IrqClear ==
    /\ irq_pc = "clear"
    /\ irq_status' = 0
    /\ irq_pc' = "idle"
    /\ UNCHANGED <<hostRings, pipe, shared, device, msi, tq_sched, timer_armed,
                   context, buffers, fails>>
-----------------------------------------------------------------------------
(***************************************************************************)
(* The device (external).  It fetches one posted buffer at a time, writes  *)
(* its tail pointer back, fills the buffer, announces it on the status     *)
(* ring when that has room, and raises an interrupt.  What a fetched entry  *)
(* of the dst ring holds no longer matters: it is blanked, so that a second *)
(* fetch of it would show.                                                 *)
(***************************************************************************)
DevFetch ==
    /\ dev_buf = NoBuf /\ dev_tp # d_hp_reg
    /\ dev_buf' = d_desc[dev_tp]
    /\ d_desc' = [d_desc EXCEPT ![dev_tp] = NoBuf]
    /\ dev_tp' = SrcNext(dev_tp, DstES, DstRS)
    /\ UNCHANGED <<hostRings, pipe, d_hp_reg, d_tp_mem, s_hp_mem, s_tp_reg, s_desc,
                   dev_irq, irq, tq_sched, timer_armed, context, buffers, fails>>

DevWriteTp ==
    /\ d_tp_mem # dev_tp
    /\ d_tp_mem' = dev_tp
    /\ UNCHANGED <<hostRings, pipe, d_hp_reg, s_hp_mem, s_tp_reg, d_desc, s_desc,
                   device, irq, tq_sched, timer_armed, context, buffers, fails>>

DevComplete ==
    /\ dev_buf # NoBuf /\ ~dev_irq
    /\ HasNextEntry(s_hp_mem, s_tp_reg, StatusES, StatusRS)
    /\ PromptTp => d_tp_mem = dev_tp
    /\ \E len \in DevLens :
         /\ s_desc' = [s_desc EXCEPT ![s_hp_mem] = len]
         /\ fill' = [fill EXCEPT ![dev_buf] = len]
    /\ s_hp_mem' = SrcNext(s_hp_mem, StatusES, StatusRS)
    /\ dev_buf' = NoBuf
    /\ dev_irq' = TRUE
    /\ UNCHANGED <<hostRings, pipe, d_hp_reg, d_tp_mem, s_tp_reg, d_desc, dev_tp,
                   irq, tq_sched, timer_armed, context, own, mapped, leaked, fails>>

DevRaise ==
    /\ dev_irq /\ dev_irq' = FALSE
    /\ irq_status' = 1
    /\ msi' = (msi \/ MsiPerEvent \/ irq_status = 0)
    /\ UNCHANGED <<hostRings, pipe, shared, dev_tp, dev_buf, irq_pc,
                   tq_sched, timer_armed, context, buffers, fails>>
-----------------------------------------------------------------------------
Post(c) ==
    \/ PostBegin(c) \/ PostAlloc(c) \/ PostNoMem(c) \/ PostMapError(c)
    \/ EnqueueFill(c) \/ EnqueueFull(c)
    \/ EnqueueEnd(c) \/ EnqueueFullEnd(c)

Tasklet ==
    \/ TaskletRun \/ RecvBegin \/ RecvEmpty \/ RecvZero \/ RecvTake
    \/ RecvEnd \/ TaskletQueue \/ TaskletDrain

Irq == IrqDispatch \/ IrqClear

Device == DevFetch \/ DevWriteTp \/ DevComplete \/ DevRaise

Next ==
    \/ \E c \in Ctx : Post(c)
    \/ Tasklet
    \/ TimerFire
    \/ Irq
    \/ Device

Spec == Init /\ [][Next]_vars

\* Running code goes on: the handler, the tasklet, the timer and the device
\* take their next step.  The spin lock is a queue, so a context that waits
\* for it gets it.  The device need not receive: DevComplete is not fair.
Fairness ==
    /\ \A c \in Ctx : WF_vars(Post(c)) /\ SF_vars(PostBegin(c))
    /\ WF_vars(Tasklet) /\ SF_vars(RecvBegin)
    /\ WF_vars(TimerFire) /\ WF_vars(Irq)
    /\ WF_vars(DevFetch) /\ WF_vars(DevWriteTp) /\ WF_vars(DevRaise)

FairSpec == Spec /\ Fairness
-----------------------------------------------------------------------------
(***************************************************************************)
(* Properties.                                                             *)
(***************************************************************************)
DstOffsets == {DstES * i : i \in Index}
StatusOffsets == {StatusES * i : i \in Index}

TypeRings ==
    /\ {d_hp, d_cached_tp, d_hp_reg, d_tp_mem, dev_tp} \subseteq DstOffsets
    /\ {s_tp, s_cached_hp, s_hp_mem, s_tp_reg} \subseteq StatusOffsets
    /\ d_desc \in [0 .. DstRS - 1 -> Bufs \union {NoBuf}]
    /\ s_desc \in [0 .. StatusRS - 1 -> Lengths]
    /\ dev_buf \in Bufs \union {NoBuf}

TypePipe ==
    /\ skb \in [Index -> Bufs \union {NoBuf}]
    /\ write_index \in Index /\ sw_index \in Index
    /\ rx_buf_needed \in 0 .. NEntries - 2

TypeFlags ==
    /\ dev_irq \in BOOLEAN /\ msi \in BOOLEAN
    /\ tq_sched \in BOOLEAN /\ timer_armed \in BOOLEAN
    /\ irq_status \in {0, 1}
    /\ irq_pc \in {"idle", "clear"}

TypeContext ==
    /\ lock \in Ctx \union {"none"}
    /\ pc \in [Ctx -> {"idle", "post", "alloc", "fill", "end", "nospc",
                       "recv", "take", "took", "stop", "got", "drain"}]
    /\ cur \in [Ctx -> Bufs \union {NoBuf}]
    /\ nbytes \in Lengths

TypeBuffers ==
    /\ own \in [Bufs -> {"free", "cpu", "ring", "list", "lost"}]
    /\ mapped \in SUBSET Bufs
    /\ fill \in [Bufs -> Lengths \union {"none"}]
    /\ fails \in 0 .. MaxFails /\ leaked \in 0 .. fails

\* Type invariant: pointers stay on entry boundaries of their ring, counters
\* in their range, and every context at a label of its code.
TypeOK == TypeRings /\ TypePipe /\ TypeFlags /\ TypeContext /\ TypeBuffers

\* The device has yet to fetch the dst entry at offset o.
Unfetched(o) == Dist(dev_tp, o, DstRS) < Dist(dev_tp, d_hp_reg, DstRS)

\* The device may write into b: it is on the ring and mapped for DMA.
Writable(b) == b \in Bufs /\ own[b] = "ring" /\ b \in mapped

\* Every buffer the device holds or may still fetch is mapped and belongs to
\* the ring: the driver never unmaps, frees or reuses a buffer that the device
\* can write, however reaping, replenishing and fetching interleave.
DmaSafe ==
    /\ dev_buf # NoBuf => Writable(dev_buf)
    /\ \A o \in DstOffsets : Unfetched(o) => Writable(d_desc[o])

\* The skb that recv_next takes from sw_index is the one the device filled for
\* this status entry: dst_ring->skb and the status ring stay in step.
TakenIsFilled ==
    pc["tasklet"] \in {"took", "got"} =>
        cur["tasklet"] # NoBuf /\ fill[cur["tasklet"]] = nbytes

\* enqueue_pipe never overwrites the skb of a buffer still on the ring: the
\* slot at write_index is empty whenever a descriptor is about to be written.
NoSkbOverwritten ==
    (\E c \in Ctx : pc[c] = "fill") => skb[write_index] = NoBuf

\* With a device that writes tp back before announcing a buffer, enqueue_pipe
\* never returns -ENOSPC: nentries - 2 buffers always fit.
NeverNoSpace == \A c \in Ctx : pc[c] # "nospc"

\* The status ring never fills up: a device that holds a buffer finds room to
\* announce it, although the tail is only published at the end of recv_next.
StatusHasRoom ==
    dev_buf # NoBuf => HasNextEntry(s_hp_mem, s_tp_reg, StatusES, StatusRS)

\* rx_buf_needed counts exactly the buffers missing from the ring.
BuffersCounted ==
    Cardinality({i \in Index : skb[i] # NoBuf}) + rx_buf_needed = NEntries - 2

Lost == {b \in Bufs : own[b] = "lost"}

\* A buffer is held in one place: on the ring once, by one context, or neither.
\* Nothing the driver gives up stays mapped.  Each mapping that fails in post_pipe
\* loses its buffer, which nobody frees; no other path loses one.
BuffersAccounted ==
    /\ \A b \in Bufs :
         /\ own[b] = "ring" <=> Cardinality({i \in Index : skb[i] = b}) = 1
         /\ own[b] = "cpu" <=> Cardinality({c \in Ctx : cur[c] = b}) = 1
         /\ b \in mapped <=> own[b] \in {"ring", "cpu"}
    /\ Cardinality(Lost) = leaked

\* The host never rewrites a dst entry that the device has yet to fetch.
UnfetchedStable ==
    [][\A o \in DstOffsets : Unfetched(o) => d_desc'[o] = d_desc[o]
                                         \/ ~Unfetched(o)']_vars

\* Buffers on the ring that the device has announced.
Unreceived == {b \in Bufs : own[b] = "ring" /\ fill[b] # "none"}

\* While a buffer the device announced waits on the ring, recv_next goes on taking
\* buffers: no wakeup is lost between the status register, the interrupt handler
\* and the tasklet.  They are taken in order (RefinesFifo), so each gets its turn.
FramesReceived == []<>(Unreceived = {}) \/ []<><<RecvTake>>_vars

\* A ring that lost buffers to failed allocations is filled up again.
Replenished == (rx_buf_needed > 0) ~> (rx_buf_needed = 0)
-----------------------------------------------------------------------------
(***************************************************************************)
(* The inductive invariant, in entry numbers.  Going round the ring from   *)
(* sw_index one meets the buffers whose status entries recv_next consumed  *)
(* without them (up to StatusTail), those announced (up to StatusHead),    *)
(* the one the device holds (up to DevTail), those published to it (up to  *)
(* HpReg), and the one being posted (up to write_index).                   *)
(***************************************************************************)
\* The device reports no buffer of length 0.
NoZeroLength == "zero" \notin DevLens

PrevIndex(i) == IF i = 0 THEN NEntries - 1 ELSE i - 1
Span(i) == Dist(sw_index, i, NEntries)
Posted == NEntries - 2 - rx_buf_needed
StatusHead == s_hp_mem \div StatusES
StatusTail == s_tp \div StatusES
DevTail ==
    IF dev_buf = NoBuf THEN StatusHead ELSE NextIndex(StatusHead, NEntries)
Publishing == \E c \in Ctx : pc[c] = "end"
HpReg == IF Publishing THEN PrevIndex(write_index) ELSE write_index

\* The device knows the tail of the status ring, or lags by the one entry that
\* recv_next has consumed and not yet published.
TailKnown ==
    \/ s_tp_reg = s_tp
    \/ /\ s_tp_reg = StatusES * PrevIndex(StatusTail)
       /\ pc["tasklet"] \in {"took", "stop"}

\* Labels inside the critical sections, and labels only the tasklet reaches.
Critical == {"alloc", "fill", "end", "nospc", "take", "took", "stop"}
TaskletOnly == {"recv", "take", "took", "stop", "got", "drain"}

\* Context c holds an skb in a local variable.
Holds(c) == pc[c] \in {"fill", "nospc", "took", "got"}

InvLock ==
    \A c \in Ctx :
        /\ pc[c] \in Critical <=> lock = c
        /\ pc[c] \in TaskletOnly => c = "tasklet"

InvPointers ==
    /\ d_hp = DstES * write_index
    /\ s_tp = StatusES * StatusTail
    /\ StatusTail \in Index
    /\ d_hp_reg = DstES * HpReg
    /\ TailKnown
    /\ s_hp_mem = StatusES * StatusHead
    /\ StatusHead \in Index
    /\ dev_tp = DstES * DevTail

InvOrder ==
    /\ Span(write_index) = Posted
    /\ Publishing => Posted >= 1
    /\ Span(StatusTail) <= Span(StatusHead)
    /\ Span(StatusHead) + (IF dev_buf = NoBuf THEN 0 ELSE 1) <= Span(HpReg)
    /\ pc["tasklet"] = "take" =>
           \E j \in Index : /\ s_cached_hp = StatusES * j
                            /\ Span(StatusTail) <= Span(j)
                            /\ Span(j) <= Span(StatusHead)

\* Only what the promptness of the device gives.
InvTail ==
    PromptTp =>
        /\ d_tp_mem \in {DstES * StatusHead, dev_tp}
        /\ \A c \in Ctx : pc[c] = "fill" =>
               \E j \in Index : d_cached_tp = DstES * j /\ Span(j) <= Posted
        /\ \A c \in Ctx : pc[c] # "nospc"

InvNeeded == \A c \in Ctx : pc[c] \in {"alloc", "fill"} => rx_buf_needed > 0

InvSkb ==
    /\ \A i \in Index : Span(i) >= Posted => skb[i] = NoBuf
    /\ \A i \in Index : Span(i) < Posted => Writable(skb[i])
    /\ \A i, j \in Index : skb[i] = skb[j] /\ skb[i] # NoBuf => i = j

InvEntries ==
    /\ \A i \in Index :
           Span(DevTail) <= Span(i) /\ Span(i) < Posted
               => d_desc[DstES * i] = skb[i]
    /\ dev_buf # NoBuf => dev_buf = skb[StatusHead]

InvHeld ==
    /\ \A c \in Ctx : IF Holds(c)
           THEN cur[c] \in mapped /\ own[cur[c]] = "cpu"
           ELSE cur[c] = NoBuf
    /\ \A c, d \in Ctx : Holds(c) /\ cur[c] = cur[d] => c = d

\* Without empty buffers the status entries and the skbs stay in step.
InvMatch ==
    NoZeroLength =>
        /\ StatusTail = sw_index
        /\ \A i \in Index : Span(i) < Span(StatusHead) =>
               /\ s_desc[StatusES * i] = fill[skb[i]]
               /\ s_desc[StatusES * i] # "zero"
        /\ pc["tasklet"] \in {"took", "got"} => fill[cur["tasklet"]] = nbytes

IInv ==
    /\ TypeOK
    /\ InvLock /\ InvPointers /\ InvOrder /\ InvTail /\ InvNeeded
    /\ InvSkb /\ InvEntries /\ InvHeld /\ InvMatch
=============================================================================
