----------------------------- MODULE Lifecycle -----------------------------
(***************************************************************************)
(* The life of the driver: the PCI probe, with every step that can fail,   *)
(* and the PCI remove, against the interrupt handler, the receive tasklet, *)
(* the replenish timer, the management worker and the device, which run at *)
(* the same time; and the next probe, which finds the device as the last   *)
(* remove left it.  What the tasklet and the timer do to the rings is in   *)
(* RxPipe, the worker is in MgmtTx; here they need the rings, the          *)
(* registers, priv and the hw, and contend for srng_test_lock.             *)
(***************************************************************************)
CONSTANT Failing   \* the steps that may fail

VARIABLES
    pc,             \* the thread of the probe and the remove
    held,           \* what the driver has acquired
    drvdata,        \* pci_get_drvdata finds priv
    hw,             \* priv->hw: NULL, only allocated, or registered
    config,         \* st_dst.host_config: NULL, allocated or freed
    tasklets,       \* tasklet_setup was called
    irq_enable,     \* the device's WIRELESS_REG_BASIC_IRQ_ENABLE
    rings_enabled,  \* the device's receive rings
    stale,          \* they were enabled by an earlier probe
    status,         \* the device's WIRELESS_REG_BASIC_IRQ_STATUS is 1
    shared,         \* the interrupt is a line that other devices use
    irq,            \* an interrupt is on its way to the handler
    work,           \* mgmt_tx_work is queued or runs
    sched, tasklet, \* the tasklet: scheduled, and where it is
    armed, timer,   \* the timer: armed, and where its callback is
    lock,           \* who holds srng_test_lock
    blocked,        \* the timer has interrupted deinit, on its CPU
    fault           \* what went wrong

main == <<pc, held, drvdata, hw, config, tasklets>>
device == <<irq_enable, rings_enabled, stale, status, shared>>
calls == <<irq, work>>
bottom == <<sched, tasklet, armed, timer, blocked>>
vars == <<main, device, calls, bottom, lock, fault>>

Init ==
    /\ pc = "assign" /\ held = {"priv"} /\ drvdata = FALSE
    /\ hw = "null" /\ config = "null" /\ tasklets = FALSE
    /\ irq_enable = FALSE /\ rings_enabled = FALSE /\ stale = FALSE
    /\ status = FALSE /\ shared = FALSE /\ irq = FALSE /\ work = FALSE
    /\ sched = FALSE /\ tasklet = "idle" /\ armed = FALSE /\ timer = "idle"
    /\ lock = "none" /\ blocked = FALSE /\ fault = {}
-----------------------------------------------------------------------------
(***************************************************************************)
(* wireless_simu_pci_probe.                                                *)
(***************************************************************************)
\* pci_claim, irq_init and the later steps that acquire one thing, or nothing.
Gain ==
    [assign |-> {}, enable |-> {"pci"}, regions |-> {"regions"}, mask |-> {},
     iomap |-> {"mmio"}, msi_desc |-> {}, request |-> {"irq"},
     hal |-> {"hal"}, test |-> {}, workqueue |-> {"workqueue"}]

After ==
    [assign |-> "enable", enable |-> "regions", regions |-> "mask", mask |-> "iomap",
     iomap |-> "vectors", msi_desc |-> "request", request |-> "drvdata",
     hal |-> "config", test |-> "workqueue", workqueue |-> "hw"]

Acquire ==
    /\ pc \in DOMAIN Gain
    /\ held' = held \union Gain[pc] /\ pc' = After[pc]
    /\ UNCHANGED <<drvdata, hw, config, tasklets, device, calls, bottom, lock, fault>>

\* Mutant: only what the last label releases.
ClaimFailsKept ==
    /\ pc \in {"assign", "enable", "regions", "mask", "iomap"} \intersect Failing
    /\ held' = held \ {"pci"} /\ pc' = "failed"
    /\ UNCHANGED <<drvdata, hw, config, tasklets, device, calls, bottom, lock, fault>>

\* The goto labels of pci_claim release the regions and the device.
ClaimFails ==
    /\ pc \in {"assign", "enable", "regions", "mask", "iomap"} \intersect Failing
    /\ held' = held \ {"pci", "regions"} /\ pc' = "failed"
    /\ UNCHANGED <<drvdata, hw, config, tasklets, device, calls, bottom, lock, fault>>

\* pci_alloc_irq_vectors; without MSI it takes what there is, a line that is
\* shared or MSI-X, and there is no descriptor to look for.
IrqVectors ==
    /\ pc = "vectors" /\ held' = held \union {"vectors"}
    /\ \/ shared' = FALSE /\ pc' = "msi_desc"
       \/ "msi" \in Failing /\ shared' \in BOOLEAN /\ pc' = "request"
    /\ UNCHANGED <<drvdata, hw, config, tasklets, irq_enable, rings_enabled, stale,
                   status, calls, bottom, lock, fault>>

\* No vectors, or no MSI descriptor.
IrqInitFails ==
    /\ pc \in {"vectors", "msi_desc"} \intersect Failing
    /\ held' = held \ {"vectors", "pci", "regions"} /\ pc' = "failed"
    /\ UNCHANGED <<drvdata, hw, config, tasklets, device, calls, bottom, lock, fault>>

\* The result of request_irq is not looked at.
RequestFails ==
    /\ pc = "request" /\ pc \in Failing /\ pc' = "drvdata"
    /\ UNCHANGED <<held, drvdata, hw, config, tasklets, device, calls, bottom, lock,
                   fault>>

\* Mutant: pci_set_drvdata is forgotten.
SetDrvdataMissing ==
    /\ pc = "drvdata" /\ pc' = "irq_enable"
    /\ UNCHANGED <<held, drvdata, hw, config, tasklets, device, calls, bottom, lock,
                   fault>>

SetDrvdata ==
    /\ pc = "drvdata" /\ pc' = "irq_enable" /\ drvdata' = TRUE
    /\ UNCHANGED <<held, hw, config, tasklets, device, calls, bottom, lock, fault>>

IrqEnable ==
    /\ pc = "irq_enable" /\ pc' = "hal" /\ irq_enable' = TRUE
    /\ UNCHANGED <<held, drvdata, hw, config, tasklets, rings_enabled, stale, status,
                   shared, calls, bottom, lock, fault>>

\* srng_init or the workqueue fails: the probe returns the error and releases
\* nothing; the PCI core clears drvdata.
ProbeFails ==
    /\ pc \in {"hal", "workqueue"} \intersect Failing
    /\ pc' = "failed" /\ drvdata' = FALSE
    /\ UNCHANGED <<held, hw, config, tasklets, device, calls, bottom, lock, fault>>
-----------------------------------------------------------------------------
(***************************************************************************)
(* wireless_simu_hal_srng_dst_test_init, whose result the probe ignores.   *)
(***************************************************************************)
DstConfig ==
    /\ pc = "config"
    /\ \/ config' = "live" /\ pc' = "tasklets"
       \/ pc \in Failing /\ pc' = "test" /\ UNCHANGED config
    /\ UNCHANGED <<held, drvdata, hw, tasklets, device, calls, bottom, lock, fault>>

\* Mutant: the tasklets are set up after the rings, by someone else.
DstTaskletsMissing ==
    /\ pc = "tasklets" /\ pc' = "rings"
    /\ UNCHANGED <<held, drvdata, hw, config, tasklets, device, calls, bottom, lock,
                   fault>>

\* spin_lock_init, timer_setup, tasklet_setup.
DstTasklets ==
    /\ pc = "tasklets" /\ pc' = "rings" /\ tasklets' = TRUE
    /\ UNCHANGED <<held, drvdata, hw, config, device, calls, bottom, lock, fault>>

\* alloc_pipe; when it fails host_config is freed and the pointer kept.
DstRings ==
    /\ pc = "rings"
    /\ \/ held' = held \union {"rings"} /\ pc' = "init_rings" /\ UNCHANGED config
       \/ pc \in Failing /\ config' = "freed" /\ pc' = "test" /\ UNCHANGED held
    /\ UNCHANGED <<drvdata, hw, tasklets, device, calls, bottom, lock, fault>>

\* init_ring of both rings enables them.
DstInitRings ==
    /\ pc = "init_rings" /\ pc' = "post"
    /\ rings_enabled' = TRUE /\ stale' = FALSE
    /\ UNCHANGED <<held, drvdata, hw, config, tasklets, irq_enable, status, shared,
                   calls, bottom, lock, fault>>

\* post_buf; a buffer that cannot be allocated arms the timer.
DstPost ==
    /\ pc = "post" /\ pc' = "test" /\ lock = "none"
    /\ \/ UNCHANGED armed
       \/ "post" \in Failing /\ armed' = TRUE
    /\ UNCHANGED <<held, drvdata, hw, config, tasklets, device, calls, sched, tasklet,
                   timer, blocked, lock, fault>>
-----------------------------------------------------------------------------
(***************************************************************************)
(* wireless_mac80211_core_probe, whose result the probe ignores, and       *)
(* wireless_mac80211_core_remove.                                          *)
(***************************************************************************)
CoreAlloc ==
    /\ pc = "hw"
    /\ \/ hw' = "allocated" /\ held' = held \union {"hw"} /\ pc' = "channels"
       \/ pc \in Failing /\ pc' = "bound" /\ UNCHANGED <<hw, held>>
    /\ UNCHANGED <<drvdata, config, tasklets, device, calls, bottom, lock, fault>>

\* kmemdup of the channels; its failure leaves priv->hw as it is.
CoreChannels ==
    /\ pc = "channels"
    /\ \/ held' = held \union {"channels"} /\ pc' = "register"
       \/ pc \in Failing /\ pc' = "bound" /\ UNCHANGED held
    /\ UNCHANGED <<drvdata, hw, config, tasklets, device, calls, bottom, lock, fault>>

\* Mutant: a failed registration keeps priv->hw.
CoreRegisterKept ==
    /\ pc = "register" /\ pc' = "bound"
    /\ \/ hw' = "registered" /\ UNCHANGED held
       \/ pc \in Failing /\ held' = held \ {"hw", "channels"} /\ UNCHANGED hw
    /\ UNCHANGED <<drvdata, config, tasklets, device, calls, bottom, lock, fault>>

CoreRegister ==
    /\ pc = "register" /\ pc' = "bound"
    /\ \/ hw' = "registered" /\ UNCHANGED held
       \/ pc \in Failing /\ hw' = "null" /\ held' = held \ {"hw", "channels"}
    /\ UNCHANGED <<drvdata, config, tasklets, device, calls, bottom, lock, fault>>

\* The remove starts: unregister and free what priv->hw points to.
CoreRemove ==
    /\ pc = "bound" /\ pc' = "free_irq"
    /\ held' = IF hw = "null" THEN held ELSE held \ {"hw"}
    /\ fault' = fault
         \union (IF hw # "null" /\ "hw" \notin held THEN {"freed_hw"} ELSE {})
         \union (IF hw = "allocated" THEN {"unregister"} ELSE {})
    /\ UNCHANGED <<drvdata, hw, config, tasklets, device, calls, bottom, lock>>
-----------------------------------------------------------------------------
(***************************************************************************)
(* wireless_simu_pci_remove.                                               *)
(***************************************************************************)
\* Mutant: the device is told to be quiet, the handler stays.
FreeIrqMasked ==
    /\ pc = "free_irq" /\ pc' = "free_workqueue"
    /\ held' = held \ {"vectors"} /\ irq_enable' = FALSE
    /\ UNCHANGED <<drvdata, hw, config, tasklets, rings_enabled, stale, status, shared,
                   calls, bottom, lock, fault>>

\* free_irq waits for a running handler (and only warns about one that was never
\* requested); then the vectors and the register.
FreeIrq ==
    /\ pc = "free_irq" /\ pc' = "free_workqueue"
    /\ held' = held \ {"irq", "vectors"} /\ irq' = FALSE /\ irq_enable' = FALSE
    /\ UNCHANGED <<drvdata, hw, config, tasklets, rings_enabled, stale, status, shared,
                   work, bottom, lock, fault>>

\* dst_test_deinit: spin_lock, then tasklet_kill, which waits for a tasklet
\* that is scheduled or runs.
DeinitLock ==
    /\ pc = "deinit" /\ pc' = "kill"
    /\ lock = "none" /\ lock' = "main"
    /\ UNCHANGED <<held, drvdata, hw, config, tasklets, device, calls, bottom, fault>>

\* Mutant: nobody waits.
KillNothing ==
    /\ pc = "kill" /\ pc' = "free_rings"
    /\ UNCHANGED <<held, drvdata, hw, config, tasklets, device, calls, bottom, lock,
                   fault>>

Kill ==
    /\ pc = "kill" /\ pc' = "free_rings" /\ ~blocked
    /\ tasklets => ~sched /\ tasklet = "idle"
    /\ UNCHANGED <<held, drvdata, hw, config, tasklets, device, calls, bottom, lock,
                   fault>>

\* Mutant: the lock is not released.
FreeRingsLocked ==
    /\ pc = "free_rings" /\ pc' = "free_hal"
    /\ held' = held \ {"rings"} /\ config' = "freed"
    /\ UNCHANGED <<drvdata, hw, tasklets, device, calls, bottom, lock, fault>>

\* cleanuprx, free_pipes, kfree(host_config), spin_unlock.
FreeRings ==
    /\ pc = "free_rings" /\ pc' = "free_hal" /\ ~blocked
    /\ held' = held \ {"rings"} /\ lock' = "none"
    /\ config' = IF config = "null" THEN "null" ELSE "freed"
    /\ fault' = IF config = "freed" THEN fault \union {"double_free"} ELSE fault
    /\ UNCHANGED <<drvdata, hw, tasklets, device, calls, bottom>>

\* Mutant: the regions stay requested.
LossKept ==
    [free_workqueue |-> {"workqueue"}, free_hal |-> {"hal"}, unmap |-> {"mmio"},
     free_pci |-> {"pci"}, free_priv |-> {"priv"}]

\* destroy_workqueue, srng_deinit, pci_iounmap, release and disable, kfree.
Loss ==
    [free_workqueue |-> {"workqueue"}, free_hal |-> {"hal"}, unmap |-> {"mmio"},
     free_pci |-> {"regions", "pci"}, free_priv |-> {"priv"}]

Then ==
    [free_workqueue |-> "deinit", free_hal |-> "unmap", unmap |-> "free_pci",
     free_pci |-> "free_priv", free_priv |-> "removed"]

\* Mutant: the workqueue is not drained.
ReleaseAtOnce ==
    /\ pc \in DOMAIN Loss
    /\ held' = held \ Loss[pc] /\ pc' = Then[pc]
    /\ UNCHANGED <<drvdata, hw, config, tasklets, device, calls, bottom, lock, fault>>

\* destroy_workqueue waits for the work that is queued or runs.
Release ==
    /\ pc \in DOMAIN Loss /\ (pc = "free_workqueue" => ~work)
    /\ held' = held \ Loss[pc] /\ pc' = Then[pc]
    /\ UNCHANGED <<drvdata, hw, config, tasklets, device, calls, bottom, lock, fault>>

\* The driver is bound again, after a remove or a probe that has given back its
\* regions (otherwise the next one fails at pci_request_regions).  priv is new and
\* the device is as it was: nobody has disabled its rings.  A timer that outlives
\* the remove is a fault of its own, after which nothing is said.
Reprobe ==
    /\ pc \in {"removed", "failed"} /\ "regions" \notin held
    /\ fault = {} /\ ~armed /\ timer = "idle"
    /\ pc' = "assign" /\ held' = {"priv"} /\ drvdata' = FALSE
    /\ hw' = "null" /\ config' = "null" /\ tasklets' = FALSE
    /\ stale' = rings_enabled /\ shared' = FALSE
    /\ UNCHANGED <<irq_enable, rings_enabled, status, calls, bottom, lock, fault>>
-----------------------------------------------------------------------------
(***************************************************************************)
(* The device and the other contexts.                                      *)
(***************************************************************************)
\* An enabled ring fills a buffer and the device sets its status; it interrupts
\* when it may (external).
DevInterrupt ==
    /\ rings_enabled /\ "pci" \in held
    /\ status' = TRUE /\ irq' = (irq \/ (irq_enable /\ "irq" \in held))
    /\ UNCHANGED <<main, irq_enable, rings_enabled, stale, shared, work, bottom, lock,
                   fault>>

\* Another device on the line interrupts (external).
LineInterrupt ==
    /\ shared /\ "irq" \in held /\ irq' = TRUE
    /\ UNCHANGED <<main, device, work, bottom, lock, fault>>

\* wireless_simu_irq_handler: it reads the status through priv, schedules the
\* tasklet when it is 1, and clears it.
IrqHandler ==
    /\ irq /\ irq' = FALSE
    /\ status' = (status /\ ~drvdata)
    /\ sched' = (sched \/ (drvdata /\ status /\ tasklets))
    /\ fault' = fault
         \union (IF ~drvdata THEN {"no_priv"} ELSE {})
         \union (IF drvdata /\ status /\ ~tasklets THEN {"no_tasklet"} ELSE {})
    /\ UNCHANGED <<main, irq_enable, rings_enabled, stale, shared, work, tasklet, armed,
                   timer, blocked, lock>>

\* mac80211 passes a management frame to tx, which queues mgmt_tx_work.
MgmtQueue ==
    /\ pc = "bound" /\ hw = "registered" /\ work' = TRUE
    /\ UNCHANGED <<main, device, irq, bottom, lock, fault>>

\* The worker may give a frame back to priv->hw.
MgmtWork ==
    /\ work /\ work' = FALSE
    /\ fault' = IF "hw" \in held THEN fault ELSE fault \union {"worker"}
    /\ UNCHANGED <<main, device, irq, bottom, lock>>

\* What a user of the rings may find missing, in the tasklet or in the timer.
Missing ==
    ({"priv", "rings", "hal", "mmio"} \ held)
        \union (IF pc = "init_rings" THEN {"init_ring"} ELSE {})
Use(who) == fault' = IF Missing = {} THEN fault ELSE fault \union {who}

TaskletStart ==
    /\ sched /\ tasklet = "idle"
    /\ sched' = FALSE /\ tasklet' = "spin"
    /\ UNCHANGED <<main, device, calls, armed, timer, blocked, lock, fault>>

TaskletLock ==
    /\ tasklet = "spin" /\ lock = "none"
    /\ tasklet' = "locked" /\ lock' = "tasklet" /\ Use("tasklet")
    /\ UNCHANGED <<main, device, calls, sched, armed, timer, blocked>>

\* The lock is taken once for each recv_next and once for post_pipe, whose
\* failure arms the timer when the lock is free again.
TaskletUnlock ==
    /\ tasklet = "locked" /\ lock' = "none"
    /\ \/ tasklet' \in {"spin", "idle"}
       \/ "post" \in Failing /\ tasklet' = "arm"
    /\ UNCHANGED <<main, device, calls, sched, armed, timer, blocked, fault>>

TaskletArm ==
    /\ tasklet = "arm" /\ tasklet' = "idle" /\ armed' = TRUE
    /\ UNCHANGED <<main, device, calls, sched, timer, blocked, lock, fault>>

\* rx_replenish_retry reads priv, and the rings of the pipe without the lock.
\* Deinit takes the lock without disabling softirqs, so that the timer may
\* interrupt it on its own CPU and spin there.
TimerStart ==
    /\ armed /\ timer = "idle" /\ armed' = FALSE
    /\ timer' = IF "rings" \in held THEN "spin" ELSE "idle"
    /\ blocked' \in {FALSE, lock = "main" /\ "rings" \in held}
    /\ fault' = IF "priv" \in held THEN fault ELSE fault \union {"timer"}
    /\ UNCHANGED <<main, device, calls, sched, tasklet, lock>>

TimerLock ==
    /\ timer = "spin" /\ lock = "none"
    /\ timer' = "locked" /\ lock' = "timer" /\ Use("timer")
    /\ UNCHANGED <<main, device, calls, sched, tasklet, armed, blocked>>

TimerUnlock ==
    /\ timer = "locked" /\ lock' = "none"
    /\ \/ timer' = "idle"
       \/ "post" \in Failing /\ timer' = "arm"
    /\ UNCHANGED <<main, device, calls, sched, tasklet, armed, blocked, fault>>

TimerArm ==
    /\ timer = "arm" /\ timer' = "idle" /\ armed' = TRUE
    /\ UNCHANGED <<main, device, calls, sched, tasklet, blocked, lock, fault>>
-----------------------------------------------------------------------------
Probe ==
    \/ Acquire \/ ClaimFails \/ IrqVectors \/ IrqInitFails \/ RequestFails
    \/ SetDrvdata \/ IrqEnable \/ ProbeFails \/ DstConfig \/ DstTasklets \/ DstRings
    \/ DstInitRings \/ DstPost \/ CoreAlloc \/ CoreChannels \/ CoreRegister

Remove == FreeIrq \/ DeinitLock \/ Kill \/ FreeRings \/ Release

Tasklet == TaskletStart \/ TaskletLock \/ TaskletUnlock \/ TaskletArm
Timer == TimerStart \/ TimerLock \/ TimerUnlock \/ TimerArm

Next ==
    \/ Probe \/ CoreRemove \/ Remove \/ Reprobe
    \/ DevInterrupt \/ LineInterrupt \/ IrqHandler \/ MgmtQueue \/ MgmtWork
    \/ Tasklet \/ Timer

Spec == Init /\ [][Next]_vars

\* Threads, tasklets and timers run; the spin lock is a queue.  Nobody has to
\* remove the device or bind it again, and the device has to do nothing.
FairSpec ==
    /\ Spec /\ WF_vars(Probe) /\ WF_vars(Remove) /\ SF_vars(DeinitLock)
    /\ WF_vars(IrqHandler) /\ WF_vars(MgmtWork)
    /\ WF_vars(Tasklet) /\ SF_vars(TaskletLock) /\ WF_vars(Timer) /\ SF_vars(TimerLock)
-----------------------------------------------------------------------------
Resources ==
    {"priv", "pci", "regions", "mmio", "vectors", "irq", "hal", "rings",
     "workqueue", "hw", "channels"}

\* The steps of the thread: before drvdata is set, before the rings are enabled,
\* the rest of the probe, and the remove up to and after the free of the rings.
Early ==
    {"assign", "enable", "regions", "mask", "iomap", "vectors", "msi_desc", "request",
     "drvdata"}
Setup == {"irq_enable", "hal", "config", "tasklets", "rings", "init_rings"}
Late == {"post", "test", "workqueue", "hw", "channels", "register", "bound"}
Quiet == {"free_workqueue", "deinit", "kill"}
Freed == {"free_hal", "unmap", "free_pci", "free_priv", "removed"}
Labels ==
    Early \union Setup \union Late \union {"free_irq"} \union Quiet
        \union {"free_rings"} \union Freed \union {"failed"}

\* Type invariant; the lock is held by the context that says so.
TypeOK ==
    /\ pc \in Labels /\ held \subseteq Resources
    /\ {drvdata, tasklets, rings_enabled, stale, status, shared, work, blocked}
         \subseteq BOOLEAN
    /\ hw \in {"null", "allocated", "registered"}
    /\ config \in {"null", "live", "freed"}
    /\ {tasklet, timer} \subseteq {"idle", "spin", "locked", "arm"}
    /\ (lock = "tasklet") <=> (tasklet = "locked")
    /\ (lock = "timer") <=> (timer = "locked")
    /\ (lock = "main") <=> (pc \in {"kill", "free_rings"})

\* A fault that this step adds.
Meets(f) == f \in fault' \ fault

\* The rings of this probe are enabled.
Live == rings_enabled /\ ~stale

\* The handler is registered before drvdata is set, and interrupts are enabled
\* before the probe is done.  It runs without priv in two cases only: on a shared
\* line, between request_irq and pci_set_drvdata, when another device interrupts;
\* and after a late failure of the probe, which leaves it behind.  The device's own
\* interrupts do not come before IRQ_ENABLE, on any probe.
HandlerFindsPriv ==
    [][Meets("no_priv") => pc = "failed" \/ (shared /\ pc = "drvdata")]_vars

\* The handler schedules a tasklet that is not set up only when rings that an
\* earlier probe enabled report a buffer: the rings of this probe are enabled after
\* tasklet_setup.
HandlerFindsTasklet == [][Meets("no_tasklet") => stale]_vars

\* The tasklet runs while the rings, the registers and priv exist: the order of the
\* remove (free_irq, tasklet_kill, rings, registers, priv) leaves it no ring that is
\* gone.  Only for rings that an earlier probe enabled it may run before there are
\* new ones.  (The timer, which nobody deletes, has no such promise.)
TaskletFindsRings == [][Meets("tasklet") => stale]_vars

\* The management worker uses a freed hw only between ieee80211_free_hw and
\* destroy_workqueue, which the remove calls later: it never finds the hw missing
\* while the driver is bound, and never runs once the workqueue is destroyed.
WorkerFindsHw == [][Meets("worker") => pc \in {"free_irq", "free_workqueue"}]_vars

\* The probe is not disturbed: no interrupt finds priv or the tasklet missing while
\* the driver initialises.
ProbeUndisturbed == pc # "failed" => {"no_priv", "no_tasklet"} \intersect fault = {}

\* The remove never touches a hw that core_probe has freed; it unregisters an
\* unregistered hw only when the channels could not be copied, and frees
\* host_config a second time only when the rings could not be allocated.
RemoveFreesOnce ==
    /\ "freed_hw" \notin fault
    /\ "unregister" \in fault => "channels" \notin held
    /\ "double_free" \in fault => ~Live

\* A probe that fails before it enables interrupts gives the device and its regions
\* back; the mapping of the registers and priv it keeps.
EarlyFailureUnwound ==
    pc = "failed" /\ ~irq_enable => held \subseteq {"priv", "mmio"}

\* The remove undoes the probe, except that nobody frees the channels.
RemoveReleases == pc = "removed" => held \subseteq {"channels"}

\* What the first steps of the probe have acquired at most.
Claimed ==
    [assign |-> {"priv"}, enable |-> {"priv"}, regions |-> {"priv", "pci"},
     mask |-> {"priv", "pci", "regions"}, iomap |-> {"priv", "pci", "regions"},
     vectors |-> {"priv", "pci", "regions", "mmio"},
     msi_desc |-> {"priv", "pci", "regions", "mmio", "vectors"},
     request |-> {"priv", "pci", "regions", "mmio", "vectors"}]

\* What the remove has at most left at each of its steps.
Left ==
    [free_irq |-> Resources \ {"hw"},
     free_workqueue |-> Resources \ {"hw", "irq", "vectors"},
     deinit |-> {"priv", "pci", "regions", "mmio", "hal", "rings", "channels"},
     kill |-> {"priv", "pci", "regions", "mmio", "hal", "rings", "channels"},
     free_rings |-> {"priv", "pci", "regions", "mmio", "hal", "rings", "channels"},
     free_hal |-> {"priv", "pci", "regions", "mmio", "hal", "channels"},
     unmap |-> {"priv", "pci", "regions", "mmio", "channels"},
     free_pci |-> {"priv", "pci", "regions", "channels"},
     free_priv |-> {"priv", "channels"}, removed |-> {"channels"}]

\* Once the registers are mapped the probe has them, and its regions, to its end.
Mapped ==
    \/ pc \in {"vectors", "msi_desc", "request", "drvdata"} \union Setup \union Late
    \/ pc = "failed" /\ irq_enable

\* While the rings are enabled and not freed, what they need is there.
Served ==
    Live /\ pc \in Late \union {"free_irq"} \union Quiet \union {"failed"}

\* The tasklet can be scheduled: it is set up and not yet killed.
Schedulable ==
    /\ tasklets
    /\ pc \in {"rings", "init_rings", "free_irq", "failed"} \union Late \union Quiet

\* What is acquired at each step, at least and at most; a probe that fails before
\* the interrupts are enabled has given back what it had.
InvHeld ==
    /\ pc \in DOMAIN Claimed => held \subseteq Claimed[pc]
    /\ pc \in DOMAIN Left => held \subseteq Left[pc]
    /\ pc # "removed" => "priv" \in held
    /\ pc \in {"mask", "iomap"} => "regions" \in held
    /\ Mapped => {"regions", "mmio"} \subseteq held
    /\ pc \in {"config", "tasklets", "rings", "init_rings"} => "hal" \in held
    /\ pc = "init_rings" => "rings" \in held
    /\ Served => {"rings", "hal", "mmio"} \subseteq held
    /\ EarlyFailureUnwound

\* priv->hw points to a hw that exists, until core_remove; the work is queued only
\* for a registered one.
InvHw ==
    /\ pc \in Early \union Setup \union {"post", "test", "workqueue", "hw"} =>
         hw = "null" /\ "hw" \notin held /\ "channels" \notin held
    /\ pc \in {"channels", "register"} => hw = "allocated" /\ "hw" \in held
    /\ pc = "channels" => "channels" \notin held
    /\ pc = "bound" => /\ hw = "null" <=> "hw" \notin held
                       /\ hw = "allocated" => "channels" \notin held
    /\ work => \/ pc = "bound" /\ hw = "registered"
               \/ pc \in {"free_irq", "free_workqueue"}
    /\ "freed_hw" \notin fault
    /\ "unregister" \in fault => pc \in DOMAIN Left /\ "channels" \notin held

\* host_config lives as long as the rings.
InvConfig ==
    /\ pc \in {"tasklets", "rings", "init_rings"} => config = "live"
    /\ Live /\ pc \notin Freed => config = "live"
    /\ "double_free" \in fault => ~Live /\ pc \in Freed

\* What the handler relies on: when there is drvdata and a tasklet, and when the
\* device may interrupt; rings enabled earlier are those of an earlier probe.
InvHandler ==
    /\ pc \notin Early \union {"failed"} => drvdata
    /\ pc \in {"rings", "init_rings"} \/ Live => tasklets
    /\ pc \in (Early \union Setup) \ {"rings", "init_rings"} => ~tasklets
    /\ pc = "failed" /\ ~irq_enable => ~tasklets
    /\ pc \in Early \union Setup => ~Live
    /\ pc \in (Setup \ {"irq_enable"}) \union Late => irq_enable
    /\ pc \in Early \union {"irq_enable", "free_rings"} \union Quiet \union Freed =>
         ~irq_enable

\* An interrupt is for a handler that is registered, and before IRQ_ENABLE it comes
\* over a shared line; only enabled rings report a buffer, and nobody else
\* schedules the tasklet.
InvBottom ==
    /\ irq => "irq" \in held /\ (irq_enable \/ shared)
    /\ status => rings_enabled
    /\ sched \/ tasklet # "idle" => Schedulable /\ rings_enabled

\* The inductive invariant: what exists, by where the thread is.
IInv == TypeOK /\ InvHeld /\ InvHw /\ InvConfig /\ InvHandler /\ InvBottom

\* If the tasklet is idle and the timer neither armed nor about to be when deinit
\* takes the lock, the remove returns: after free_irq nobody schedules the tasklet
\* again, and a callback of the timer that waits for the lock does so on another
\* CPU.
QuietRemoveReturns ==
    (pc = "kill" /\ ~sched /\ tasklet = "idle" /\ ~armed /\ timer # "arm"
         /\ ~blocked)
        ~> (pc = "removed")

\* Deinit ends the bottom halves and the remove returns.
RemoveReturns == (pc = "deinit") ~> (pc = "removed")
=============================================================================
