------------------------------- MODULE MgmtTx -------------------------------
(***************************************************************************)
(* Transmission of management frames: mac80211 calls wireless_mac80211_tx  *)
(* from several contexts at once, the frames wait in mgmt_tx_queue, and    *)
(* one worker (a single-threaded workqueue) hands them through the WMI,    *)
(* HTC and CE layers to the firmware.  wireless_simu_ce_send is an empty    *)
(* stub that succeeds, and no completion ever comes back.                  *)
(***************************************************************************)
EXTENDS Naturals, Sequences, FiniteSets, Functions

CONSTANTS
    Frames,      \* each is passed to tx at most once
    NoFrame,
    Callers,     \* contexts in which mac80211 calls tx
    PendingMax,  \* WIRELESS_SIMU_TX_MGMT_NUM_PENDING_MAX (512)
    Threshold    \* WIRELESS_SIMU_PRB_RSP_DROP_THRESHOLD (48)

ASSUME MgmtAssumption ==
    /\ NoFrame \notin Frames /\ IsFiniteSet(Callers)
    /\ PendingMax \in Nat \ {0} /\ Threshold \in Nat

Ids == 0 .. PendingMax - 1

VARIABLES
    cpc, cframe,   \* a caller of tx, and its frame
    prb, vifless,  \* frames that are probe responses; frames with no vif
    data,          \* frames that are no management frames
    queue,         \* mgmt_tx_queue
    num_pending,   \* num_pending_mgmt_tx
    work,          \* mgmt_tx_work is pending
    wpc, wframe,   \* the worker and its frame
    buf_id,        \* the id it has allocated
    mutex,         \* who holds mac_conf_mutex
    idr,           \* txmgmt_idr
    mapped,        \* frames mapped for DMA
    freed,         \* frames given back to mac80211
    lost,          \* frames that nobody refers to any more
    warned         \* drops that found num_pending_mgmt_tx at 0 (WARN_ON_ONCE)

caller == <<cpc, cframe, prb, vifless, data>>
worker == <<wpc, wframe, buf_id>>
frames == <<idr, mapped, freed, lost>>
vars == <<caller, queue, num_pending, work, worker, mutex, frames, warned>>

Init ==
    /\ cpc = [c \in Callers |-> "idle"] /\ cframe = [c \in Callers |-> NoFrame]
    /\ prb = {} /\ vifless = {} /\ data = {}
    /\ queue = <<>> /\ num_pending = 0 /\ work = FALSE
    /\ wpc = "idle" /\ wframe = NoFrame /\ buf_id = 0 /\ mutex = "none"
    /\ idr = [i \in Ids |-> NoFrame]
    /\ mapped = {} /\ freed = {} /\ lost = {}
    /\ warned = 0

Allocated == {idr[i] : i \in Ids} \ {NoFrame}
InFirmware == Allocated \ {wframe}
Used ==
    Range(queue) \union InFirmware \union {wframe} \union freed \union lost
        \union {cframe[c] : c \in Callers}
Fresh == Frames \ Used

CGoto(c, l) == cpc' = [cpc EXCEPT ![c] = l]
Drop(c) == cframe' = [cframe EXCEPT ![c] = NoFrame]
-----------------------------------------------------------------------------
(***************************************************************************)
(* wireless_mac80211_tx and wireless_simu_mac_mgmt_tx.                     *)
(***************************************************************************)
\* A management frame: its vif is noted in the skb.
Tx(c) ==
    /\ cpc[c] = "idle"
    /\ \E f \in Fresh, p \in BOOLEAN, v \in BOOLEAN :
         /\ cframe' = [cframe EXCEPT ![c] = f]
         /\ prb' = IF p THEN prb \union {f} ELSE prb
         /\ vifless' = IF v THEN vifless \union {f} ELSE vifless
    /\ CGoto(c, "admit")
    /\ UNCHANGED <<data, queue, num_pending, work, worker, mutex, frames, warned>>

\* Any other frame is neither queued nor freed.
TxData(c) ==
    /\ cpc[c] = "idle"
    /\ \E f \in Fresh : lost' = lost \union {f} /\ data' = data \union {f}
    /\ UNCHANGED <<cpc, cframe, prb, vifless, queue, num_pending, work, worker,
                   mutex, idr, mapped, freed, warned>>

\* A probe response is refused while more than Threshold frames are pending.
TxRefuse(c) ==
    /\ cpc[c] = "admit" /\ cframe[c] \in prb /\ num_pending > Threshold
    /\ freed' = freed \union {cframe[c]}
    /\ Drop(c) /\ CGoto(c, "idle")
    /\ UNCHANGED <<prb, vifless, data, queue, num_pending, work, worker, mutex, idr,
                   mapped, lost, warned>>

TxAdmit(c) ==
    /\ cpc[c] = "admit" /\ ~(cframe[c] \in prb /\ num_pending > Threshold)
    /\ CGoto(c, "length")
    /\ UNCHANGED <<cframe, prb, vifless, data, queue, num_pending, work, worker, mutex,
                   frames, warned>>

\* Mutant: one frame too many.
TxLengthLate(c) ==
    /\ cpc[c] = "length"
    /\ IF Len(queue) > PendingMax
         THEN freed' = freed \union {cframe[c]} /\ Drop(c) /\ CGoto(c, "idle")
         ELSE CGoto(c, "tail") /\ UNCHANGED <<cframe, freed>>
    /\ UNCHANGED <<prb, vifless, data, queue, num_pending, work, worker, mutex, idr,
                   mapped, lost, warned>>

\* Mutant: no return after a full queue.
TxLengthFalls(c) ==
    /\ cpc[c] = "length" /\ CGoto(c, "tail")
    /\ freed' = IF Len(queue) >= PendingMax THEN freed \union {cframe[c]} ELSE freed
    /\ UNCHANGED <<cframe, prb, vifless, data, queue, num_pending, work, worker, mutex,
                   idr, mapped, lost, warned>>

\* The length of the queue is read without its lock.
TxLength(c) ==
    /\ cpc[c] = "length"
    /\ IF Len(queue) >= PendingMax
         THEN freed' = freed \union {cframe[c]} /\ Drop(c) /\ CGoto(c, "idle")
         ELSE CGoto(c, "tail") /\ UNCHANGED <<cframe, freed>>
    /\ UNCHANGED <<prb, vifless, data, queue, num_pending, work, worker, mutex, idr,
                   mapped, lost, warned>>

\* skb_queue_tail, atomic_inc, queue_work.
TxTail(c) ==
    /\ cpc[c] = "tail" /\ CGoto(c, "inc")
    /\ queue' = Append(queue, cframe[c]) /\ Drop(c)
    /\ UNCHANGED <<prb, vifless, data, num_pending, work, worker, mutex, frames, warned>>

TxInc(c) ==
    /\ cpc[c] = "inc" /\ CGoto(c, "work")
    /\ num_pending' = num_pending + 1
    /\ UNCHANGED <<cframe, prb, vifless, data, queue, work, worker, mutex, frames,
                   warned>>

\* Mutant: the work is not queued when frames were waiting already.
TxWorkOnce(c) ==
    /\ cpc[c] = "work" /\ CGoto(c, "idle")
    /\ work' = (work \/ Len(queue) = 1)
    /\ UNCHANGED <<cframe, prb, vifless, data, queue, num_pending, worker, mutex, frames,
                   warned>>

TxWork(c) ==
    /\ cpc[c] = "work" /\ CGoto(c, "idle")
    /\ work' = TRUE
    /\ UNCHANGED <<cframe, prb, vifless, data, queue, num_pending, worker, mutex, frames,
                   warned>>
-----------------------------------------------------------------------------
(***************************************************************************)
(* wireless_simu_mgmt_tx_work_func, mgmt_tx_wmi and the layers below.      *)
(***************************************************************************)
WorkStart ==
    /\ wpc = "idle" /\ work
    /\ work' = FALSE /\ wpc' = "next"
    /\ UNCHANGED <<caller, queue, num_pending, wframe, buf_id, mutex, frames,
                   warned>>

WorkNext ==
    /\ wpc = "next"
    /\ IF queue = <<>>
         THEN wpc' = "idle" /\ UNCHANGED <<queue, wframe>>
         ELSE /\ wframe' = Head(queue) /\ queue' = Tail(queue)
              /\ wpc' = IF Head(queue) \in vifless THEN "drop" ELSE "lock"
    /\ UNCHANGED <<caller, num_pending, work, buf_id, mutex, frames, warned>>

\* Mutant: the frame is freed but still counted.
WorkDropCounted ==
    /\ wpc = "drop" /\ wpc' = "next"
    /\ freed' = freed \union {wframe} /\ wframe' = NoFrame
    /\ UNCHANGED <<caller, queue, num_pending, work, buf_id, mutex, idr, mapped,
                   lost, warned>>

\* Mutant: atomic_dec, whatever the value.
WorkDropPlain ==
    /\ wpc = "drop" /\ wpc' = "next"
    /\ freed' = freed \union {wframe} /\ wframe' = NoFrame
    /\ num_pending' = num_pending - 1
    /\ UNCHANGED <<caller, queue, work, buf_id, mutex, idr, mapped, lost, warned>>

\* wireless_simu_mgmt_over_tx_drop: free the frame, atomic_dec_if_positive.
WorkDrop ==
    /\ wpc = "drop" /\ wpc' = "next"
    /\ freed' = freed \union {wframe} /\ wframe' = NoFrame
    /\ IF num_pending > 0 THEN num_pending' = num_pending - 1 /\ UNCHANGED warned
                          ELSE warned' = warned + 1 /\ UNCHANGED num_pending
    /\ UNCHANGED <<caller, queue, work, buf_id, mutex, idr, mapped, lost>>

WorkLock ==
    /\ wpc = "lock" /\ mutex = "none"
    /\ mutex' = "worker" /\ wpc' = "idr"
    /\ UNCHANGED <<caller, queue, num_pending, work, wframe, buf_id, frames, warned>>

\* idr_alloc takes the lowest free id.
WorkIdr ==
    /\ wpc = "idr"
    /\ \E i \in Ids :
         /\ idr[i] = NoFrame /\ \A j \in Ids : j < i => idr[j] # NoFrame
         /\ idr' = [idr EXCEPT ![i] = wframe]
         /\ buf_id' = i
    /\ wpc' = "map"
    /\ UNCHANGED <<caller, queue, num_pending, work, wframe, mutex, mapped, freed,
                   lost, warned>>

\* The caller of mgmt_tx_wmi ignores its error: the frame is forgotten.
Forget ==
    /\ lost' = lost \union {wframe} /\ wframe' = NoFrame
    /\ mutex' = "none" /\ wpc' = "next"

\* idr_alloc finds no id: -ENOSPC.
WorkNoId ==
    /\ wpc = "idr" /\ \A i \in Ids : idr[i] # NoFrame
    /\ Forget
    /\ UNCHANGED <<caller, queue, num_pending, work, buf_id, idr, mapped, freed,
                   warned>>

\* dma_map_single of the frame.
WorkMap ==
    /\ wpc = "map" /\ wpc' = "send"
    /\ mapped' = mapped \union {wframe}
    /\ UNCHANGED <<caller, queue, num_pending, work, wframe, buf_id, mutex, idr,
                   freed, lost, warned>>

\* Mutant: a failed mapping keeps the id.
WorkMapErrorIdKept ==
    /\ wpc = "map"
    /\ Forget
    /\ UNCHANGED <<caller, queue, num_pending, work, buf_id, idr, mapped, freed,
                   warned>>

\* A failed mapping (-EIO) releases the id.
WorkMapError ==
    /\ wpc = "map"
    /\ idr' = [idr EXCEPT ![buf_id] = NoFrame]
    /\ Forget
    /\ UNCHANGED <<caller, queue, num_pending, work, buf_id, mapped, freed, warned>>

\* wmi_mgmt_send: the command skb is allocated, wrapped in its headers, mapped
\* and given to ce_send.  The firmware has the frame.
WorkSend ==
    /\ wpc = "send" /\ wpc' = "next"
    /\ wframe' = NoFrame /\ mutex' = "none"
    /\ UNCHANGED <<caller, queue, num_pending, work, buf_id, frames, warned>>

\* No command skb (-ENOMEM), or its mapping fails (-EIO): unmap the frame,
\* release the id.
WorkSendError ==
    /\ wpc = "send"
    /\ mapped' = mapped \ {wframe}
    /\ idr' = [idr EXCEPT ![buf_id] = NoFrame]
    /\ Forget
    /\ UNCHANGED <<caller, queue, num_pending, work, buf_id, freed, warned>>
-----------------------------------------------------------------------------
\* The callbacks configure_filter and add_interface hold the same mutex.
ConfLock ==
    /\ mutex = "none" /\ mutex' = "conf"
    /\ UNCHANGED <<caller, queue, num_pending, work, worker, frames, warned>>

ConfUnlock ==
    /\ mutex = "conf" /\ mutex' = "none"
    /\ UNCHANGED <<caller, queue, num_pending, work, worker, frames, warned>>

\* add_interface finds no free slot: -EBUSY, and the mutex is not given back.
ConfBusy ==
    /\ mutex = "conf" /\ mutex' = "kept"
    /\ UNCHANGED <<caller, queue, num_pending, work, worker, frames, warned>>

Caller(c) ==
    \/ TxRefuse(c) \/ TxAdmit(c) \/ TxLength(c) \/ TxTail(c) \/ TxInc(c) \/ TxWork(c)

Worker ==
    \/ WorkStart \/ WorkNext \/ WorkDrop \/ WorkLock \/ WorkIdr \/ WorkNoId
    \/ WorkMap \/ WorkMapError \/ WorkSend \/ WorkSendError

Next ==
    \/ \E c \in Callers : Tx(c) \/ TxData(c) \/ Caller(c)
    \/ Worker
    \/ ConfLock \/ ConfUnlock \/ ConfBusy

Spec == Init /\ [][Next]_vars

\* A caller finishes tx, the worker runs, a callback returns, with or without the
\* mutex, and the mutex is a queue.  Nothing makes mac80211 send.
FairSpec ==
    /\ Spec
    /\ \A c \in Callers : WF_vars(Caller(c))
    /\ WF_vars(Worker) /\ SF_vars(WorkLock) /\ WF_vars(ConfUnlock \/ ConfBusy)
-----------------------------------------------------------------------------
CLabels == {"idle", "admit", "length", "tail", "inc", "work"}
WLabels == {"idle", "next", "drop", "lock", "idr", "map", "send"}

\* Type invariant.
TypeOK ==
    /\ cpc \in [Callers -> CLabels] /\ cframe \in [Callers -> Frames \union {NoFrame}]
    /\ prb \subseteq Frames /\ vifless \subseteq Frames /\ data \subseteq Frames
    /\ queue \in Seq(Frames) /\ num_pending \in Nat /\ work \in BOOLEAN
    /\ wpc \in WLabels /\ wframe \in Frames \union {NoFrame} /\ buf_id \in Ids
    /\ mutex \in {"none", "worker", "conf", "kept"}
    /\ idr \in [Ids -> Frames \union {NoFrame}]
    /\ mapped \subseteq Frames /\ freed \subseteq Frames /\ lost \subseteq Frames
    /\ warned \in Nat

\* The lockless test of the queue's length lets at most one extra frame through
\* for every other concurrent caller of tx.
QueueBounded == Len(queue) <= PendingMax + Cardinality(Callers) - 1

Places ==
    [caller |-> {cframe[c] : c \in Callers} \ {NoFrame}, queue |-> Range(queue),
     worker |-> {wframe} \ {NoFrame}, firmware |-> InFirmware,
     freed |-> freed, lost |-> lost]

\* A frame is in one place: with one caller, once in the queue, with the worker,
\* with the firmware under one id, freed or lost.
FrameInOnePlace ==
    /\ \A p, q \in DOMAIN Places : p # q => Places[p] \intersect Places[q] = {}
    /\ \A c, d \in Callers : cframe[c] = cframe[d] /\ cframe[c] # NoFrame => c = d
    /\ \A j, k \in DOMAIN queue : queue[j] = queue[k] => j = k
    /\ \A i, j \in Ids : idr[i] = idr[j] /\ idr[i] # NoFrame => i = j

\* Outside of mgmt_tx_wmi an id stands for a frame the firmware may read, and
\* every frame with an id, and no other, is mapped.
IdsAreMapped == wpc \notin {"map", "send"} => mapped = Allocated

Waiting == Len(queue) + (IF wframe = NoFrame THEN 0 ELSE 1)
At(l) == {c \in Callers : cpc[c] = l}
Lagging == Cardinality(At("inc"))

Forgotten == lost \ data

\* num_pending_mgmt_tx, with the frames whose caller has yet to count them, is the
\* number of the frames that wait, that the firmware keeps, or that were forgotten
\* after an error of mgmt_tx_wmi, and of the drops that overtook the count: each of
\* the last three stays in the counter for good.
PendingExact ==
    num_pending + Lagging
        = Waiting + Cardinality(InFirmware) + Cardinality(Forgotten) + warned

\* Who has a frame, by where it is in the code.
InvHolders ==
    /\ \A c \in Callers : cframe[c] # NoFrame <=> cpc[c] \in {"admit", "length", "tail"}
    /\ wframe # NoFrame <=> wpc \notin {"idle", "next"}
    /\ mutex = "worker" <=> wpc \in {"idr", "map", "send"}

\* The worker's id is its own between idr_alloc and the send, and the frame is
\* mapped one step later.
InvIds ==
    /\ wpc \in {"map", "send"} => idr[buf_id] = wframe
    /\ wpc \notin {"map", "send"} => wframe \notin Allocated
    /\ mapped = IF wpc = "map" THEN Allocated \ {wframe} ELSE Allocated

\* Callers that found room but have not queued their frame count as queued.
InvRoom ==
    Len(queue) + Cardinality(At("tail")) <= PendingMax + Cardinality(Callers) - 1

\* Data frames are among the frames lost; those forgotten can be counted.
InvLost == data \subseteq lost /\ IsFiniteSet(Forgotten)

\* The inductive invariant: each context owns the frame it works on, no frame
\* has two owners, and the counter is off by what the error paths leave behind.
IInv ==
    /\ TypeOK /\ InvLost /\ InvHolders /\ InvIds /\ InvRoom
    /\ FrameInOnePlace /\ PendingExact

\* Frames do not stay in the queue: no queue_work is lost between callers that
\* append and the worker that finds the queue empty.  The exception is the mutex
\* that an add_interface which returned -EBUSY has kept: the worker waits for it.
QueueDrained == (queue # <<>>) ~> (queue = <<>> \/ mutex = "kept")

\* over_tx_drop asserts with WARN_ON_ONCE that the counter was positive.
DropIsCounted == warned = 0
=============================================================================
