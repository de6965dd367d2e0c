# Verification of the simulated wireless driver

TLA+ specifications of the Linux driver in `src/driver/driver_wireless/`
(`simu_wireless`), with TLC configurations that check them on small instances
and TLAPS proofs, for every value of the constants, of the receive path, the
transmit test, the management queue and probe and remove. Paths below are
relative to that directory.

## The system

The driver binds to a PCI wifi device simulated by QEMU. Host and device share
*srng* rings: descriptors in coherent memory, with a head and a tail pointer of
which each side owns one and reads the other.

- `wireless.c` probes and removes the device.
- `wireless_hal.c` allocates rings, tells the device about them through
  registers, and runs two tests over them: a transmit test (one SRC ring) in the
  probe, and a receive path (a *dst* ring with empty buffers for the device, a
  *status* ring on which it announces filled ones) that lives as long as the driver.
- `wireless_irq.c` turns an interrupt into a tasklet.
- `wireless_mac80211.c` is the mac80211 side. Its management frames go through a
  queue and a work item to `wireless_wmi.c`, `wireless_htc.c` and `wireless_ce.c`.

The device itself is not in the repository. Actions named `Dev...` are external:
they say what the driver relies on, and constants select among its possible
behaviours.

## Modules

| Module | Models | State and actions |
|---|---|---|
| `HalSrng` | pointer arithmetic of `wireless_hal.c` | operators on word offsets: `SrcNext`, `DstNext`, `NumFree`, `HasNextEntry`, `NextIndex` |
| `RxPipe` | the receive path | host, shared and device copies of each pointer, the skb array, `rx_buf_needed`; `Post*`/`Enqueue*` = `post_pipe`/`enqueue_pipe`, `Recv*` = `recv_next`, `Tasklet*`, `TimerFire`, `Irq*` |
| `RxFifo`, `RxRefinement` | what the receive path promises: a queue of buffers, received once each and in posting order | `RxPipe` refines `RxFifo` through the mapping in `RxRefinement` |
| `TxTest` | `wireless_simu_hal_srng_test` and `test_send` | one action per acquisition, send step and release |
| `RingSetup` | `srng_init`, `alloc_pipe`, `srng_setup`, `hw_init`, and their undoing | ring memory, registers; one action per register write |
| `Lifecycle` | `pci_probe`, `pci_remove`, `dst_test_init`, `dst_test_deinit`, `core_probe`, `core_remove`, against handler, tasklet, timer and management worker | what is held, what the device was told, the lock, and the faults met so far; `Reprobe` binds the driver again |
| `MgmtTx` | `wireless_mac80211_tx` down to `ce_send` | callers, queue, counter, worker, id table, mappings |
| `VifTable` | `start`, `stop`, `add_interface`, `configure_filter` | the table of interfaces and `mac_conf_mutex` |
| `MC...` | instances for TLC: model values and symmetry | no definition of behaviour |
| `...Proofs` | theorems and their proofs | see "Proofs" |

A definition whose comment starts with "Mutant" is a plausible bug of the
definition after it; each property is violated when its mutant takes the place
of the definition.

### Modelling decisions

- A critical section is cut wherever it reads or publishes a pointer, because the
  device moves in between. The per-ring `srng->lock` is only ever taken under
  `srng_test_lock`, so it is not modelled. `PostFails` merges the unlock with
  `mod_timer`, which no other context can observe apart.
- `& mask` is written as `%`: all rings have a power-of-two number of entries.
- `OneCpu` says that the tasklet runs on the CPU that handles the interrupt, which
  is where `tasklet_schedule` puts it: the handler then preempts the tasklet and
  finishes first. `rx_safety` and the proofs do not assume it; `rx_any`, to keep the
  number of states down, and the liveness runs do.
- `MgmtTx` abstracts frames to names, with two facts about each: probe response
  or not, vif or not. The command skb of WMI is never freed by the code and never
  read by it again; it is left out. `ce_send` is a stub that returns 0, so that
  the wait in `wmi_cmd_send` makes one attempt. `wake_up(txmgmt_empty_waitq)` has
  no waiter.
- A buffer whose mapping fails in `post_pipe` is lost, because the code does not free
  it: `PostMapError` gives it the owner "lost", and it is never allocated again.
- In `MgmtTx` the other users of `mac_conf_mutex` (`configure_filter`, `add_interface`)
  are one context that takes the mutex (`ConfLock`) and either releases it
  (`ConfUnlock`) or keeps it, as `add_interface` does when it returns `-EBUSY`
  (`ConfBusy`). Whether the table is full is not tracked there, but in `VifTable`.
- `Lifecycle` repeats probe and remove without bound. The device outlives the driver:
  `irq_enable`, `rings_enabled` and `status` are not reset, and `stale` says that the
  rings were enabled by an earlier probe. `IrqVectors` takes MSI, or, when there is
  none, whatever `PCI_IRQ_ALL_TYPES` gives, which may be a line shared with other
  devices. A step that finds something missing is recorded in `fault`; the properties say
  where that may happen. The probe is not repeated after a fault, because nothing
  more is known of the kernel then, nor after a late failure, because it would fail at
  `pci_request_regions`. The worker is there as a work item that is queued or not and
  that may need the hw.
- `TxTest` assumes coherent DMA: the code writes into a mapped buffer without a
  sync.
- In `VifTable` mac80211 is external: it calls `start` before the first interface
  and `stop` after the last, and does not call `add_interface` for a passive
  monitor.

## Runs

| Run | Shows |
|---|---|
| `rx_safety` | with failing allocations and mappings, oversized frames and two CPUs: the inductive invariant `IInv`; skbs and status entries stay in step (`TakenIsFilled`); no slot or descriptor in use is overwritten (`NoSkbOverwritten`, `UnfetchedStable`); `rx_buf_needed` is exact; `-ENOSPC` does not occur |
| `rx_any` | with a device that updates its tail late and reports empty or oversized buffers, and a failing allocation or mapping: `DmaSafe`, `StatusHasRoom`, `BuffersAccounted` (a failed mapping loses its buffer, nothing else does), and the refinement of `RxFifo` |
| `rx_live` | while an announced frame waits, frames are received (`FramesReceived`; since they are taken in order by `RefinesFifo`, each has its turn); after a failure the ring is filled up again (`Replenished`) |
| `tx_test` | the inductive invariant `IInv` of the proofs; descriptors are fetched in order and once, the shared buffer never shows older data, the test returns |
| `mgmt_tx` | the inductive invariant `IInv` of the proofs; the queue overshoots by at most one frame per further caller, a frame is in one place, ids and mappings agree, exactly what the counter counts, the queue drains unless `-EBUSY` has kept the mutex |
| `vif_table` | each refused opening costs exactly one slot until `stop`; openings and the filter make progress unless `-EBUSY` has been returned |
| `ring_setup` | a ring is enabled only when its registers are complete (first probe), a ring that is set up stays described correctly, no ring memory is lost |
| `lifecycle` | the inductive invariant `IInv` of the proofs; handler, tasklet and worker find what they need, except in the cases the properties name; the remove releases what the probe acquired, early failures unwind, and a remove that meets an idle tasklet and no armed timer returns |
| `rx_nospace`, `lifecycle_kill`, `lifecycle_init`, `mgmt_warn` | violated: see "Disagreements" |

### Bounds

- Receive: 4 entries, so `nentries - 2` = 2 buffers on the ring and two free
  entries; pointers wrap within two frames. Entry sizes 3 and 2 are the real ones.
  4 buffers leave more than the ring can hold; `rx_live` has 5, since a failed mapping
  loses one. One failure (`MaxFails`) suffices to reach the timer in every state of the
  ring.
- `TxTest`: more packets than entries, so the full ring and the wrap both occur.
- `MgmtTx`: 3 frames, 2 callers, `PendingMax` 1 and `Threshold` 1: queue, id table
  and threshold are all exceeded.
- `VifTable`: `MaxRefused` bounds the refused openings in a behaviour; it is
  enough to fill the table and meet `-EBUSY`.
- `RingSetup`: two probes (`Lives`), 3 rings. The ring memory is symmetric.
- `Lifecycle`: no bound on the number of probes; every step that can fail may fail.

The safety results of the first three and of `Lifecycle` are also proved, for all
values of the constants.

### Deadlock

Checked, except in the runs whose cfg says `CHECK_DEADLOCK FALSE`: the model may
stop when a probe has failed late, the driver is removed after a fault, the test is over, frames are
used up, the bound on failures or refusals is reached, or `-EBUSY` has left the mutex
locked.

### Fairness

Threads, softirqs and work items that are runnable run (WF). Spin locks and
mutexes of the kernel are queues, so a waiter gets them (SF on the acquisition).
Interrupts that were sent are handled. Whoever takes `mac_conf_mutex` in `MgmtTx`
releases it or returns `-EBUSY` (WF on `ConfUnlock \/ ConfBusy`): that it is released is
not assumed. Of the device the receive runs ask that it
fetches the descriptors it has been told of, writes its tail back and raises the
interrupt for a status it has set; it may stop filling buffers at any time
(`DevComplete` is not fair). The transmit test asks nothing of it. Nobody has to
open interfaces, send frames, remove the device or bind it again.

## Proofs

Each theorem `Spec => []P` follows from an inductive invariant `IInv` that stands
at the end of the component's module and that a run checks as well: no `P` below is
inductive by itself. The proof modules have one lemma `Step...` per action (or per
group of actions that change the same things) saying that it preserves `IInv`,
a lemma `NextIInv` that joins them, and the theorems.

| Module | Properties proved |
|---|---|
| `RxPipeProofs` | `TypeOK`, `IInv`, `DmaSafe`, `TakenIsFilled`, `NoSkbOverwritten`, `StatusHasRoom`, `NeverNoSpace`, `BuffersCounted`, `BuffersAccounted`, the action property `UnfetchedStable`, the refinement `RefinesFifo` |
| `TxTestProofs` | `TypeOK`, `IInv`, `FetchedInOrder`, `NeverOlderData` |
| `MgmtTxProofs` | `TypeOK`, `IInv`, `QueueBounded`, `FrameInOnePlace`, `IdsAreMapped`, `PendingExact` |
| `LifecycleProofs` | `TypeOK`, `IInv`, `RemoveFreesOnce`, `EarlyFailureUnwound`, `RemoveReleases`, the action properties `HandlerFindsPriv`, `HandlerFindsTasklet`, `TaskletFindsRings`, `WorkerFindsHw` |
| `RxInvariantProofs` | `NumFreeExact`: `src_num_free` and `src_get_next_entry` agree on whether there is room |

The assumptions are those that the modules name: rings have at least two entries,
entries at least one word, and "no buffer" is not a buffer (`RingAssumption`,
`ConfigAssumption`, `TxAssumption`); there are finitely many callers and at least one
id (`MgmtAssumption`). `Lifecycle` assumes nothing about `Failing`. Two theorems need
a hypothesis about the device: `TakenIsFilled` that it reports no buffer of length 0
(`NoZeroLength`), `NeverNoSpace` that it writes its tail back before it announces a
buffer (`PromptTp`). Both hypotheses are necessary, as "Disagreements" explains.

### Receive path

Whether a slot is free depends on where five pointers, kept by different parties in
words of two different sizes, stand relative to each other. `IInv` restates them in
entry numbers. Going round the ring from `sw_index` one meets the buffers whose status
entries were consumed without them (only after a length of 0), those announced,
the one the device holds, those published to the device, and the one being posted,
in this order. `InvPointers`
and `InvOrder` say that, and that copies of pointers lag but never lead. `InvSkb`
and `InvEntries` say which slots and descriptors are occupied as a function of it,
`InvNeeded` ties `rx_buf_needed` to the distance, `InvLock` and `InvHeld` say who may be
between two steps. What depends on the device is stated conditionally: `InvTail` under
`PromptTp`, `InvMatch` under `NoZeroLength`. `Dist`, the distance along the ring, turns
the wrap-around into arithmetic.

Why `nentries - 2`: one entry stays free so that a full SRC ring differs from an
empty one, and the tasklet reaps a buffer before the tail it has read covers it.

Most steps move no pointer (`Still`); `StillFrame` shows once that these keep everything
said of the ring, and leaves each such step its locks and labels.
`BuffersAccounted` needs more than `IInv`: no buffer
is mapped or owned by ring or CPU without a slot or a context that refers to it, and the
lost ones are as many as the failed mappings (`Owned`).

The refinement: both queues of `RxFifo` are windows of `dst_ring->skb` counted from
`sw_index`. The announced skbs span to the head of the status ring, those the device can
still fill from there to the published head; `InvEntries` makes the descriptors of the
dst ring equal to the second window. `EnqueueEnd` appends to it, `DevComplete` moves
the boundary between the two, `RecvTake` takes the first, and every other step changes
neither. This holds for every reported length: an empty buffer leaves the order of the
skbs alone and shifts only the status entries against them.

Layout: `RxInvariantProofs` has ring arithmetic, `Init => IInv` and the steps that
move no skb; `RxPostProofs` the steps of `post_pipe` and `enqueue_pipe`; `RxTakeProofs`
those of `recv_next` and of the device; `RxFifoProofs` the refinement step by step;
`RxPipeProofs` the remaining lemmas and the theorems.

### Transmit test

Again in entry numbers: round the ring lie, in this order, the tail that the host
cached, the tail the device wrote back last, its own tail, the head it was told, and the
entry to fill (`InvOrder`). `fetched` and `test_count` differ by exactly the distance
of the last ones, so that an entry's distance from the device's tail gives the number of
the packet in it (`InvEntries`). The test `SrcNext # cached tail` alone keeps the order
when an entry is filled, however stale the cached tail is. `InvWord` bounds how far the
number in the shared buffer may run ahead of the packet being sent, and `InvTest` says
what is held at each label.

### Management queue

`InvHolders` says, by label, who has a frame and the mutex; `InvIds` that the id in
`buf_id` is the worker's between `idr_alloc` and the send; `InvRoom` counts a caller that
found room but has not queued its frame as queued, which is what bounds the overshoot.
`InvLost` keeps the data frames, which `tx` forgets, apart from the management frames that
an error of `mgmt_tx_wmi` forgets. `FrameInOnePlace` and `PendingExact` are inductive
together with these.

### Probe and remove

What exists is determined by where the thread is: at most (`Claimed`, `Left`) and at
least (`InvHeld`), with the hw (`InvHw`) and `host_config` (`InvConfig`) separately.
`InvHandler` says when there is drvdata and a tasklet and when the device may interrupt:
the rings of the current probe (`Live`) are enabled only after `tasklet_setup`, whatever
an earlier one left. `InvBottom` says that an interrupt needs a registered handler, and
before `IRQ_ENABLE` a shared line; that only enabled rings set the status; and that the
tasklet is scheduled or running only between `tasklet_setup` and `tasklet_kill`. While
the rings are `Live` and not freed, `Served` keeps what the tasklet needs.
The four action properties then follow: the lemma `Blame` says which step can meet which
fault, and `IInv` before that step excludes the fault or puts it where the property
allows it.

### Only model-checked

- Liveness, which rests on fairness and `ENABLED` and is outside the prover:
  `FramesReceived`, `Replenished`, `Returns`, `QueueDrained`, `OpeningEnds`,
  `FilterConfigured`, `QuietRemoveReturns`.
- The invariants of `RingSetup` (`EnabledIsCoherent`, `ReadyIsCoherent`, `MemoryAccounted`,
  `HalReleased`) and of `VifTable` (`SlotPerRefusal`). No proof has been
  written for them. `RingSetup` has the driver's three rings and `VifTable` its table of four
  slots, so that the runs leave only the numbers of probes and of openings bounded.

## Disagreements between the code and what it says

Shown by a run:

1. `rx_nospace`. `wireless_hal.h:620` and `wireless_hal.c:1472` promise a retry when
   the dst ring lacks room, but `-ENOSPC` is the one error for which the timer is not
   armed (`wireless_hal.c:1401`, `1423`). It takes a device that writes its tail back
   after the announcement.
2. `lifecycle_kill`. `tasklet_kill` is called under the spin lock that the scheduled
   tasklet waits for (`wireless_hal.c:1579-1584`).
3. `lifecycle_init`. The comment at `wireless.c:156` wants no interrupt while the driver
   initialises, but nothing disables them there, and `IRQ_ENABLE` is written (230) before
   the tasklet is set up (`wireless_hal.c:1481`). The remove leaves the rings enabled, so that
   on a second probe the device can interrupt in between. With a shared line (140, 175) another
   device's interrupt finds no drvdata before line 210, on the first probe too.
4. `mgmt_warn`. A frame is queued before it is counted, so that a drop may find the
   counter at 0, against the `WARN_ON_ONCE` at `wireless_mac80211.c:26`. It takes a
   frame without vif, which the worker provides for (line 113).

Visible in the models, and stated as the exceptions of the properties:

- If the device sent an MSI for each event, the write that clears the whole status
  (`wireless_irq.c:22`) could erase an event that nobody handles.
- A status entry of length 0 is consumed without its skb (`wireless_hal.c:1212`); every
  later frame then comes with the skb of an earlier one.
- Deinit takes `srng_test_lock` with `spin_lock`, not `spin_lock_bh` (`wireless_hal.c:1579`, against
  1191 and 1312): a replenish timer that fires on its CPU meanwhile never gets the lock.
- The replenish timer is never deleted and may fire after the remove
  (`wireless_hal.c:1572-1600`, against `wireless.c:299-302`).
- A buffer whose mapping fails in `post_pipe` is never freed (`wireless_hal.c:1325-1330`).
- `srng_init` does not free `srng_config` when the pointer memory cannot be allocated
  (`wireless_hal.c:573-590`).
- A probe that fails in `pci_irq_init` keeps the mapping of the registers, and every failed
  probe keeps `priv` (`wireless.c:148-171`, `259-261`).
- `core_remove` frees the hw (`wireless_mac80211.c:698`) before `destroy_workqueue`
  (`wireless.c:288`): a management worker that still runs may drop a frame through it.
- A probe that fails at the workqueue leaves the handler registered and the rings enabled
  (`wireless.c:252`). The results of `request_irq`, `dst_test_init` and `core_probe` are ignored.
- `host_config` is freed twice when the receive rings cannot be allocated
  (`wireless_hal.c:1547`, `1595`); a hw whose channels could not be copied is unregistered without
  having been registered (`wireless_mac80211.c:573`); the channels are never freed by the remove.
- The device's rings stay enabled after `free_pipes` and `srng_deinit`; a second probe rewrites
  the registers of enabled rings, and after the transmit test the device may fetch from freed memory.
- `add_interface` stores the interface, then refuses every type because its test joins two `!=` with
  `||` (`wireless_mac80211.c:268`); `-EBUSY` is returned with the mutex held (259-263).
  The management worker then waits for it at line 121, its queue does not drain, and
  `destroy_workqueue` does not return.
- `tx` neither sends nor frees a frame that is not a management frame (177-192).
- `num_pending_mgmt_tx` never falls for a frame that was sent or failed, so that probe responses are
  refused for good once the threshold is passed.

## Not modelled

- `remove_interface` and `conf_tx` (`wireless_mac80211.c:291-303`, `349-392`): mac80211 calls them for
  interfaces that were added, and `add_interface` never succeeds. The other callbacks are empty.
- `wireless_dptx.c`, `wireless_dprx.c`: lookup tables whose result only lengthens a frame.
- `wireless_dma.c`: compiled out by `WIRELESS_SIMU_DMA_NOUSE`.
- `src_get_next_reaped` (`wireless_hal.c:709`): no caller.
- That a management worker which waits for a kept mutex also keeps `destroy_workqueue`
  waiting: `Lifecycle` takes the worker to end, `MgmtTx` has no remove.
- The headers: constants, layouts and tables. Memory ordering between CPU and device.
- The capabilities that `core_probe` announces (`wireless_mac80211.c:594-657`).
- Outside `driver_wireless/`: `host_wireless_driver.c` does not compile; `pci_driver_test.c`, the
  hello-world modules, `netlink_maxpayload.c` and the scripts are stand-alone.

## Running

    tlc -workers 2 -config MCRxPipe_safety.cfg MCRxPipe
    tlapm RxInvariantProofs.tla

A proof module relies on the lemmas of the proof modules it extends, so each of the eight
is checked on its own.

`PROJECT.json` lists every run with its module, cfg and properties.
