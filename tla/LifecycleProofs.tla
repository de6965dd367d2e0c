-------------------------- MODULE LifecycleProofs ---------------------------
(***************************************************************************)
(* Theorems about Lifecycle, for every set of steps that may fail.         *)
(***************************************************************************)
EXTENDS Lifecycle, TLAPS

\* What a step of the probe that acquires one thing gains, and what follows.
LEMMA Gains ==
    /\ DOMAIN Gain = {"assign", "enable", "regions", "mask", "iomap", "msi_desc",
                      "request", "hal", "test", "workqueue"}
    /\ Gain["assign"] = {} /\ After["assign"] = "enable"
    /\ Gain["enable"] = {"pci"} /\ After["enable"] = "regions"
    /\ Gain["regions"] = {"regions"} /\ After["regions"] = "mask"
    /\ Gain["mask"] = {} /\ After["mask"] = "iomap"
    /\ Gain["iomap"] = {"mmio"} /\ After["iomap"] = "vectors"
    /\ Gain["msi_desc"] = {} /\ After["msi_desc"] = "request"
    /\ Gain["request"] = {"irq"} /\ After["request"] = "drvdata"
    /\ Gain["hal"] = {"hal"} /\ After["hal"] = "config"
    /\ Gain["test"] = {} /\ After["test"] = "workqueue"
    /\ Gain["workqueue"] = {"workqueue"} /\ After["workqueue"] = "hw"
BY DEF Gain, After

\* What the remove releases at a step, and what follows.
LEMMA Losses ==
    /\ DOMAIN Loss = {"free_workqueue", "free_hal", "unmap", "free_pci", "free_priv"}
    /\ Loss["free_workqueue"] = {"workqueue"} /\ Then["free_workqueue"] = "deinit"
    /\ Loss["free_hal"] = {"hal"} /\ Then["free_hal"] = "unmap"
    /\ Loss["unmap"] = {"mmio"} /\ Then["unmap"] = "free_pci"
    /\ Loss["free_pci"] = {"regions", "pci"} /\ Then["free_pci"] = "free_priv"
    /\ Loss["free_priv"] = {"priv"} /\ Then["free_priv"] = "removed"
BY DEF Loss, Then

\* The bounds of InvHeld, step by step.
LEMMA Claims ==
    /\ DOMAIN Claimed = {"assign", "enable", "regions", "mask", "iomap", "vectors",
                         "msi_desc", "request"}
    /\ Claimed["assign"] = {"priv"} /\ Claimed["enable"] = {"priv"}
    /\ Claimed["regions"] = {"priv", "pci"}
    /\ Claimed["mask"] = {"priv", "pci", "regions"}
    /\ Claimed["iomap"] = {"priv", "pci", "regions"}
    /\ Claimed["vectors"] = {"priv", "pci", "regions", "mmio"}
    /\ Claimed["msi_desc"] = {"priv", "pci", "regions", "mmio", "vectors"}
    /\ Claimed["request"] = Claimed["msi_desc"]
BY DEF Claimed

\* What the remove has at most left at each of its steps.
LEMMA Lefts ==
    /\ DOMAIN Left = {"free_irq", "free_rings"} \union Quiet \union Freed
    /\ Left["free_irq"] = Resources \ {"hw"}
    /\ Left["free_workqueue"] = Resources \ {"hw", "irq", "vectors"}
    /\ Left["deinit"] = {"priv", "pci", "regions", "mmio", "hal", "rings", "channels"}
    /\ Left["kill"] = Left["deinit"] /\ Left["free_rings"] = Left["deinit"]
    /\ Left["free_hal"] = {"priv", "pci", "regions", "mmio", "hal", "channels"}
    /\ Left["unmap"] = {"priv", "pci", "regions", "mmio", "channels"}
    /\ Left["free_pci"] = {"priv", "pci", "regions", "channels"}
    /\ Left["free_priv"] = {"priv", "channels"} /\ Left["removed"] = {"channels"}
BY DEF Left, Quiet, Freed

\* The invariant holds when the probe starts.
THEOREM InitIInv == Init => IInv
<1> SUFFICES ASSUME Init PROVE IInv OBVIOUS
<1> USE DEF Init
<1>1. TypeOK BY DEF TypeOK, Labels, Early, Resources
<1>2. InvHeld BY Claims, Lefts DEF InvHeld, Setup, Served, Live, Mapped, Quiet, Freed,
                                  Late, EarlyFailureUnwound
<1>3. InvHw BY DEF InvHw
<1>4. InvConfig /\ InvHandler /\ InvBottom
  BY DEF InvConfig, InvHandler, InvBottom, Schedulable, Live, Early, Setup, Late, Quiet,
         Freed
<1> QED BY <1>1, <1>2, <1>3, <1>4 DEF IInv

\* The steps of the probe that acquire one thing.
LEMMA StepAcquire == ASSUME IInv, Acquire PROVE IInv'
<1>0. TypeOK /\ InvHeld /\ InvHw /\ InvConfig /\ InvHandler /\ InvBottom BY DEF IInv
<1>a. \/ pc = "assign" /\ pc' = "enable" /\ held' = held
      \/ pc = "enable" /\ pc' = "regions" /\ held' = held \union {"pci"}
      \/ pc = "regions" /\ pc' = "mask" /\ held' = held \union {"regions"}
      \/ pc = "mask" /\ pc' = "iomap" /\ held' = held
      \/ pc = "iomap" /\ pc' = "vectors" /\ held' = held \union {"mmio"}
      \/ pc = "msi_desc" /\ pc' = "request" /\ held' = held
      \/ pc = "request" /\ pc' = "drvdata" /\ held' = held \union {"irq"}
      \/ pc = "hal" /\ pc' = "config" /\ held' = held \union {"hal"}
      \/ pc = "test" /\ pc' = "workqueue" /\ held' = held
      \/ pc = "workqueue" /\ pc' = "hw" /\ held' = held \union {"workqueue"}
  BY Gains DEF Acquire
<1>b. UNCHANGED <<drvdata, hw, config, tasklets, irq_enable, rings_enabled, stale,
                status, shared, irq, work, fault>>
  BY DEF Acquire, device, calls
<1>c. UNCHANGED <<sched, tasklet, armed, timer, blocked, lock>>
  BY DEF Acquire, bottom
<1>1. TypeOK'
  <2>1. pc' \in Labels BY <1>a DEF Labels, Early, Setup, Late
  <2>2. held' \subseteq Resources BY <1>0, <1>a DEF TypeOK, Resources
  <2>3. pc \notin {"kill", "free_rings"} /\ pc' \notin {"kill", "free_rings"}
    BY <1>a
  <2> QED BY <1>0, <1>b, <1>c, <2>1, <2>2, <2>3 DEF TypeOK
<1>2. InvHeld'
  <2>1. pc' \in DOMAIN Claimed => held' \subseteq Claimed[pc']
    BY <1>0, <1>a, Claims DEF InvHeld
  <2>2. pc' \notin DOMAIN Left BY <1>a, Lefts DEF Quiet, Freed
  <2>3. "priv" \in held' BY <1>0, <1>a DEF InvHeld
  <2>4. Mapped' => {"regions", "mmio"} \subseteq held'
    BY <1>0, <1>a, <1>b DEF InvHeld, Mapped, Setup, Late
  <2>5. pc' \in {"config", "tasklets", "rings", "init_rings"} => "hal" \in held'
    BY <1>0, <1>a DEF InvHeld
  <2>6. pc' # "init_rings" BY <1>a
  <2>7. Served' => {"rings", "hal", "mmio"} \subseteq held'
    BY <1>0, <1>a, <1>b DEF InvHeld, InvHandler, Served, Live, Early, Setup, Late, Quiet
  <2>8. EarlyFailureUnwound' BY <1>a DEF EarlyFailureUnwound
  <2>9. pc' \in {"mask", "iomap"} => "regions" \in held' BY <1>0, <1>a DEF InvHeld
  <2> QED BY <2>1, <2>2, <2>3, <2>4, <2>5, <2>6, <2>7, <2>8, <2>9 DEF InvHeld
<1>3. InvHw'
  BY <1>0, <1>a, <1>b, Lefts DEF InvHw, Early, Setup, Quiet, Freed
<1>4. InvConfig' BY <1>0, <1>a, <1>b DEF InvConfig, Live, Freed
<1>5. InvHandler'
  BY <1>0, <1>a, <1>b DEF InvHandler, Live, Early, Setup, Late, Quiet, Freed
<1>6. InvBottom'
  BY <1>0, <1>a, <1>b, <1>c
     DEF InvBottom, Schedulable, Early, Setup, Late, Quiet
<1> QED BY <1>1, <1>2, <1>3, <1>4, <1>5, <1>6 DEF IInv

\* pci_alloc_irq_vectors: before IRQ_ENABLE, and before there is a handler.
LEMMA StepIrqVectors == ASSUME IInv, IrqVectors PROVE IInv'
<1>0. TypeOK /\ InvHeld /\ InvHw /\ InvConfig /\ InvHandler /\ InvBottom BY DEF IInv
<1>a. /\ pc = "vectors" /\ pc' \in {"msi_desc", "request"}
      /\ held' = held \union {"vectors"} /\ shared' \in BOOLEAN
  BY DEF IrqVectors
<1>b. UNCHANGED <<drvdata, hw, config, tasklets, irq_enable, rings_enabled, stale,
                status, irq, work, fault>>
  BY DEF IrqVectors, calls
<1>c. UNCHANGED <<sched, tasklet, armed, timer, blocked, lock>>
  BY DEF IrqVectors, bottom
<1>1. TypeOK'
  <2>1. pc' \in Labels BY <1>a DEF Labels, Early
  <2>2. held' \subseteq Resources BY <1>0, <1>a DEF TypeOK, Resources
  <2>3. pc \notin {"kill", "free_rings"} /\ pc' \notin {"kill", "free_rings"} BY <1>a
  <2> QED BY <1>0, <1>a, <1>b, <1>c, <2>1, <2>2, <2>3 DEF TypeOK
<1>2. InvHeld'
  <2>1. held' \subseteq Claimed[pc'] BY <1>0, <1>a, Claims DEF InvHeld
  <2>2. pc' \notin DOMAIN Left BY <1>a, Lefts DEF Quiet, Freed
  <2>3. {"priv", "regions", "mmio"} \subseteq held' BY <1>0, <1>a DEF InvHeld, Mapped
  <2>4. ~Served' BY <1>a DEF Served, Late, Quiet
  <2>5. EarlyFailureUnwound' BY <1>a DEF EarlyFailureUnwound
  <2> QED BY <1>a, <2>1, <2>2, <2>3, <2>4, <2>5 DEF InvHeld
<1>3. InvHw' BY <1>0, <1>a, <1>b, Lefts DEF InvHw, Early, Setup, Quiet, Freed
<1>4. InvConfig' BY <1>0, <1>a, <1>b DEF InvConfig, Live, Freed
<1>5. InvHandler'
  BY <1>0, <1>a, <1>b DEF InvHandler, Live, Early, Setup, Late, Quiet, Freed
<1>6. InvBottom'
  <2>1. ~irq BY <1>0, <1>a, Claims DEF InvBottom, InvHeld
  <2>2. ~tasklets BY <1>0, <1>a DEF InvHandler, Early
  <2> QED BY <1>0, <1>b, <1>c, <2>1, <2>2 DEF InvBottom, Schedulable
<1> QED BY <1>1, <1>2, <1>3, <1>4, <1>5, <1>6 DEF IInv

\* A step fails: pci_claim and irq_init release what they have, later steps
\* release nothing.
LEMMA StepFails == ASSUME IInv, ClaimFails \/ IrqInitFails \/ ProbeFails PROVE IInv'
<1>0. TypeOK /\ InvHeld /\ InvHw /\ InvConfig /\ InvHandler /\ InvBottom BY DEF IInv
<1>a. /\ pc' = "failed"
      /\ \/ /\ pc \in {"assign", "enable", "regions", "mask", "iomap"}
            /\ held' = held \ {"pci", "regions"}
         \/ /\ pc \in {"vectors", "msi_desc"}
            /\ held' = held \ {"vectors", "pci", "regions"}
         \/ pc \in {"hal", "workqueue"} /\ held' = held
  BY DEF ClaimFails, IrqInitFails, ProbeFails
<1>b. UNCHANGED <<hw, config, tasklets, irq_enable, rings_enabled, stale,
                status, shared, irq, work, fault>>
  BY DEF ClaimFails, IrqInitFails, ProbeFails, device, calls
<1>c. UNCHANGED <<sched, tasklet, armed, timer, blocked, lock>>
  BY DEF ClaimFails, IrqInitFails, ProbeFails, bottom
<1>d. drvdata' \in BOOLEAN BY <1>0 DEF TypeOK, ClaimFails, IrqInitFails, ProbeFails
<1>1. TypeOK'
  <2>1. pc' \in Labels BY <1>a DEF Labels
  <2>2. held' \subseteq Resources BY <1>0, <1>a DEF TypeOK
  <2>3. pc \notin {"kill", "free_rings"} /\ pc' \notin {"kill", "free_rings"} BY <1>a
  <2> QED BY <1>0, <1>b, <1>c, <1>d, <2>1, <2>2, <2>3 DEF TypeOK
<1>2. InvHeld'
  <2>1. pc' \notin DOMAIN Claimed /\ pc' \notin DOMAIN Left
    BY <1>a, Claims, Lefts DEF Quiet, Freed
  <2>2. "priv" \in held' BY <1>0, <1>a DEF InvHeld
  <2>3. pc' \notin Setup BY <1>a DEF Setup
  <2>4. Served' => {"rings", "hal", "mmio"} \subseteq held'
    BY <1>0, <1>a, <1>b DEF InvHeld, InvHandler, Served, Live, Early, Setup, Late
  <2>5. EarlyFailureUnwound'
    <3>1. /\ pc \in {"assign", "enable", "regions", "mask", "iomap"}
               => held \subseteq {"priv", "pci", "regions"}
          /\ pc \in {"vectors", "msi_desc"}
               => held \subseteq {"priv", "pci", "regions", "mmio", "vectors"}
      BY <1>0, Claims DEF InvHeld
    <3>2. pc \in {"hal", "workqueue"} => irq_enable BY <1>0 DEF InvHandler, Setup, Late
    <3> QED BY <1>a, <1>b, <3>1, <3>2 DEF EarlyFailureUnwound
  <2>m. Mapped' => {"regions", "mmio"} \subseteq held'
    BY <1>0, <1>a, <1>b DEF InvHeld, InvHandler, Mapped, Early, Setup, Late, Quiet, Freed
  <2> QED BY <2>m, <1>a, <2>1, <2>2, <2>3, <2>4, <2>5 DEF InvHeld
<1>3. InvHw' BY <1>0, <1>a, <1>b, Lefts DEF InvHw, Early, Setup, Quiet, Freed
<1>4. InvConfig' BY <1>0, <1>a, <1>b DEF InvConfig, Live, Freed
<1>5. InvHandler'
  BY <1>0, <1>a, <1>b DEF InvHandler, Live, Early, Setup, Late, Quiet, Freed
<1>6. InvBottom'
  BY <1>0, <1>a, <1>b, <1>c DEF InvBottom, Schedulable, Early, Setup, Late, Quiet
<1> QED BY <1>1, <1>2, <1>3, <1>4, <1>5, <1>6 DEF IInv

\* request_irq that fails unnoticed, pci_set_drvdata, the interrupt register.
LEMMA StepIrq == ASSUME IInv, RequestFails \/ SetDrvdata \/ IrqEnable PROVE IInv'
<1>0. TypeOK /\ InvHeld /\ InvHw /\ InvConfig /\ InvHandler /\ InvBottom BY DEF IInv
<1>a. \/ pc = "request" /\ pc' = "drvdata" /\ UNCHANGED <<drvdata, irq_enable>>
      \/ pc = "drvdata" /\ pc' = "irq_enable" /\ drvdata' = TRUE /\ UNCHANGED irq_enable
      \/ pc = "irq_enable" /\ pc' = "hal" /\ irq_enable' = TRUE /\ UNCHANGED drvdata
  BY DEF RequestFails, SetDrvdata, IrqEnable, device, calls
<1>b. UNCHANGED <<held, hw, config, tasklets, rings_enabled, stale, status, shared,
                irq, work, fault>>
  BY DEF RequestFails, SetDrvdata, IrqEnable, device, calls
<1>c. UNCHANGED <<sched, tasklet, armed, timer, blocked, lock>>
  BY DEF RequestFails, SetDrvdata, IrqEnable, bottom
<1>1. TypeOK'
  <2>1. pc' \in Labels BY <1>a DEF Labels, Early, Setup
  <2>2. pc \notin {"kill", "free_rings"} /\ pc' \notin {"kill", "free_rings"} BY <1>a
  <2>3. drvdata' \in BOOLEAN BY <1>0, <1>a DEF TypeOK
  <2> QED BY <1>0, <1>b, <1>c, <2>1, <2>2, <2>3 DEF TypeOK
<1>2. InvHeld'
  <2>1. pc' \notin DOMAIN Claimed /\ pc' \notin DOMAIN Left
    BY <1>a, Claims, Lefts DEF Quiet, Freed
  <2>2. "priv" \in held' BY <1>0, <1>a, <1>b DEF InvHeld
  <2>3. ~Served' BY <1>0, <1>a, <1>b DEF InvHandler, Served, Live, Early, Setup
  <2>4. EarlyFailureUnwound' BY <1>a DEF EarlyFailureUnwound
  <2>m. Mapped' => {"regions", "mmio"} \subseteq held'
    BY <1>0, <1>a, <1>b DEF InvHeld, InvHandler, Mapped, Early, Setup, Late, Quiet, Freed
  <2> QED BY <2>m, <1>a, <2>1, <2>2, <2>3, <2>4 DEF InvHeld
<1>3. InvHw' BY <1>0, <1>a, <1>b, Lefts DEF InvHw, Early, Setup, Quiet, Freed
<1>4. InvConfig' BY <1>0, <1>a, <1>b DEF InvConfig, Live, Freed
<1>5. InvHandler'
  BY <1>0, <1>a, <1>b DEF InvHandler, Live, Early, Setup, Late, Quiet, Freed
<1>6. InvBottom'
  BY <1>0, <1>a, <1>b, <1>c DEF InvBottom, Schedulable, Early, Setup, Late, Quiet
<1> QED BY <1>1, <1>2, <1>3, <1>4, <1>5, <1>6 DEF IInv

\* The steps of dst_test_init up to the allocation of the rings.
LEMMA StepDstAlloc == ASSUME IInv, DstConfig \/ DstTasklets \/ DstRings PROVE IInv'
<1>0. TypeOK /\ InvHeld /\ InvHw /\ InvConfig /\ InvHandler /\ InvBottom BY DEF IInv
<1>a. \/ /\ pc = "config" /\ pc' \in {"tasklets", "test"} /\ UNCHANGED <<held, tasklets>>
         /\ pc' = "tasklets" => config' = "live" /\ config' \in {config, "live"}
         /\ pc' = "test" => config' = config
      \/ /\ pc = "tasklets" /\ pc' = "rings"
         /\ UNCHANGED <<held, config>> /\ tasklets' = TRUE
      \/ /\ pc = "rings" /\ pc' = "init_rings" /\ held' = held \union {"rings"}
         /\ UNCHANGED <<config, tasklets>>
      \/ pc = "rings" /\ pc' = "test" /\ config' = "freed" /\ UNCHANGED <<held, tasklets>>
  BY DEF DstConfig, DstTasklets, DstRings
<1>b. UNCHANGED <<drvdata, hw, irq_enable, rings_enabled, stale,
                status, shared, irq, work, fault>>
  BY DEF DstConfig, DstTasklets, DstRings, device, calls
<1>c. UNCHANGED <<sched, tasklet, armed, timer, blocked, lock>>
  BY DEF DstConfig, DstTasklets, DstRings, bottom
<1>d. ~Live /\ ~Live' BY <1>0, <1>a, <1>b DEF InvHandler, Setup, Live
<1>1. TypeOK'
  <2>1. pc' \in Labels BY <1>a DEF Labels, Setup, Late
  <2>2. pc \notin {"kill", "free_rings"} /\ pc' \notin {"kill", "free_rings"} BY <1>a
  <2>3. tasklets' \in BOOLEAN BY <1>0, <1>a DEF TypeOK
  <2>4. held' \subseteq Resources /\ config' \in {"null", "live", "freed"}
    BY <1>0, <1>a DEF TypeOK, Resources
  <2> QED BY <1>0, <1>b, <1>c, <2>1, <2>2, <2>3, <2>4 DEF TypeOK
<1>2. InvHeld'
  <2>1. pc' \notin DOMAIN Claimed /\ pc' \notin DOMAIN Left
    BY <1>a, Claims, Lefts DEF Quiet, Freed
  <2>2. "priv" \in held' /\ "hal" \in held' BY <1>0, <1>a DEF InvHeld
  <2>3. pc' = "init_rings" => "rings" \in held' BY <1>a
  <2>4. ~Served' BY <1>d DEF Served
  <2>5. EarlyFailureUnwound' BY <1>a DEF EarlyFailureUnwound
  <2>m. Mapped' => {"regions", "mmio"} \subseteq held'
    BY <1>0, <1>a, <1>b DEF InvHeld, InvHandler, Mapped, Early, Setup, Late, Quiet, Freed
  <2> QED BY <2>m, <1>a, <2>1, <2>2, <2>3, <2>4, <2>5 DEF InvHeld
<1>3. InvHw' BY <1>0, <1>a, <1>b, Lefts DEF InvHw, Early, Setup, Quiet, Freed
<1>4. InvConfig' BY <1>0, <1>a, <1>b, <1>d DEF InvConfig, Freed
<1>5. InvHandler'
  BY <1>0, <1>a, <1>b, <1>d DEF InvHandler, Early, Setup, Late, Quiet, Freed
<1>6. InvBottom'
  BY <1>0, <1>a, <1>b, <1>c DEF InvBottom, Schedulable, Early, Setup, Late, Quiet
<1> QED BY <1>1, <1>2, <1>3, <1>4, <1>5, <1>6 DEF IInv

\* init_ring enables the rings, post_buf may arm the timer.
LEMMA StepDstRun == ASSUME IInv, DstInitRings \/ DstPost PROVE IInv'
<1>0. TypeOK /\ InvHeld /\ InvHw /\ InvConfig /\ InvHandler /\ InvBottom BY DEF IInv
<1>a. /\ \/ pc = "init_rings" /\ pc' = "post"
         \/ pc = "post" /\ pc' = "test"
      /\ Live' <=> Live \/ pc = "init_rings"
      /\ {rings_enabled', stale'} \subseteq BOOLEAN
      /\ rings_enabled => rings_enabled'
  <2>1. CASE DstInitRings BY <2>1 DEF DstInitRings, Live
  <2>2. CASE DstPost BY <1>0, <2>2 DEF DstPost, device, Live, TypeOK
  <2> QED BY <2>1, <2>2
<1>b. UNCHANGED <<held, drvdata, hw, config, tasklets, irq_enable, status, shared, irq,
                work, fault>>
  BY DEF DstInitRings, DstPost, device, calls
<1>c. UNCHANGED <<sched, tasklet, timer, blocked, lock>>
  BY DEF DstInitRings, DstPost, bottom
<1>1. TypeOK'
  <2>1. pc' \in Labels BY <1>a DEF Labels, Late
  <2>2. pc \notin {"kill", "free_rings"} /\ pc' \notin {"kill", "free_rings"} BY <1>a
  <2> QED BY <1>0, <1>a, <1>b, <1>c, <2>1, <2>2 DEF TypeOK
<1>2. InvHeld'
  <2>1. pc' \notin DOMAIN Claimed /\ pc' \notin DOMAIN Left
    BY <1>a, Claims, Lefts DEF Quiet, Freed
  <2>2. "priv" \in held' BY <1>0, <1>a, <1>b DEF InvHeld
  <2>3. Served' => {"rings", "hal", "mmio"} \subseteq held'
    BY <1>0, <1>a, <1>b DEF InvHeld, Served, Mapped, Setup, Late
  <2>4. EarlyFailureUnwound' BY <1>a DEF EarlyFailureUnwound
  <2>m. Mapped' => {"regions", "mmio"} \subseteq held'
    BY <1>0, <1>a, <1>b DEF InvHeld, InvHandler, Mapped, Early, Setup, Late, Quiet, Freed
  <2> QED BY <2>m, <1>a, <2>1, <2>2, <2>3, <2>4 DEF InvHeld, Setup
<1>3. InvHw' BY <1>0, <1>a, <1>b, Lefts DEF InvHw, Early, Setup, Quiet, Freed
<1>4. InvConfig' BY <1>0, <1>a, <1>b DEF InvConfig, Freed
<1>5. InvHandler'
  BY <1>0, <1>a, <1>b DEF InvHandler, Early, Setup, Late, Quiet, Freed
<1>6. InvBottom'
  BY <1>0, <1>a, <1>b, <1>c DEF InvBottom, Schedulable, Early, Setup, Late, Quiet
<1> QED BY <1>1, <1>2, <1>3, <1>4, <1>5, <1>6 DEF IInv

\* The steps of core_probe: priv->hw is set when the hw exists, and reset when it
\* is freed.
LEMMA StepCore == ASSUME IInv, CoreAlloc \/ CoreChannels \/ CoreRegister PROVE IInv'
<1>0. TypeOK /\ InvHeld /\ InvHw /\ InvConfig /\ InvHandler /\ InvBottom BY DEF IInv
<1>a. \/ /\ pc = "hw" /\ pc' = "channels" /\ hw' = "allocated"
         /\ held' = held \union {"hw"}
      \/ pc = "hw" /\ pc' = "bound" /\ UNCHANGED <<hw, held>>
      \/ /\ pc = "channels" /\ pc' = "register" /\ hw' = hw
         /\ held' = held \union {"channels"}
      \/ pc = "channels" /\ pc' = "bound" /\ UNCHANGED <<hw, held>>
      \/ pc = "register" /\ pc' = "bound" /\ hw' = "registered" /\ held' = held
      \/ /\ pc = "register" /\ pc' = "bound" /\ hw' = "null"
         /\ held' = held \ {"hw", "channels"}
  BY DEF CoreAlloc, CoreChannels, CoreRegister
<1>b. UNCHANGED <<drvdata, config, tasklets, irq_enable, rings_enabled, stale,
                status, shared, irq, work, fault>>
  BY DEF CoreAlloc, CoreChannels, CoreRegister, device, calls
<1>c. UNCHANGED <<sched, tasklet, armed, timer, blocked, lock>>
  BY DEF CoreAlloc, CoreChannels, CoreRegister, bottom
<1>1. TypeOK'
  <2>1. pc' \in Labels BY <1>a DEF Labels, Late
  <2>2. pc \notin {"kill", "free_rings"} /\ pc' \notin {"kill", "free_rings"} BY <1>a
  <2>3. held' \subseteq Resources /\ hw' \in {"null", "allocated", "registered"}
    BY <1>0, <1>a DEF TypeOK, Resources
  <2> QED BY <1>0, <1>b, <1>c, <2>1, <2>2, <2>3 DEF TypeOK
<1>2. InvHeld'
  <2>1. pc' \notin DOMAIN Claimed /\ pc' \notin DOMAIN Left
    BY <1>a, Claims, Lefts DEF Quiet, Freed
  <2>2. "priv" \in held' BY <1>0, <1>a DEF InvHeld
  <2>3. Served' => {"rings", "hal", "mmio"} \subseteq held'
    BY <1>0, <1>a, <1>b DEF InvHeld, Served, Live, Late
  <2>4. EarlyFailureUnwound' BY <1>a DEF EarlyFailureUnwound
  <2>m. Mapped' => {"regions", "mmio"} \subseteq held'
    BY <1>0, <1>a, <1>b DEF InvHeld, InvHandler, Mapped, Early, Setup, Late, Quiet, Freed
  <2> QED BY <2>m, <1>a, <2>1, <2>2, <2>3, <2>4 DEF InvHeld, Setup
<1>3. InvHw' BY <1>0, <1>a, <1>b, Lefts DEF InvHw, Early, Setup, Quiet, Freed
<1>4. InvConfig' BY <1>0, <1>a, <1>b DEF InvConfig, Live, Freed
<1>5. InvHandler'
  BY <1>0, <1>a, <1>b DEF InvHandler, Live, Early, Setup, Late, Quiet, Freed
<1>6. InvBottom'
  BY <1>0, <1>a, <1>b, <1>c DEF InvBottom, Schedulable, Early, Setup, Late, Quiet
<1> QED BY <1>1, <1>2, <1>3, <1>4, <1>5, <1>6 DEF IInv

\* core_remove unregisters and frees the hw.
LEMMA StepCoreRemove == ASSUME IInv, CoreRemove PROVE IInv'
<1>0. TypeOK /\ InvHeld /\ InvHw /\ InvConfig /\ InvHandler /\ InvBottom BY DEF IInv
<1>a. /\ pc = "bound" /\ pc' = "free_irq"
      /\ held' = IF hw = "null" THEN held ELSE held \ {"hw"}
  BY DEF CoreRemove
<1>b. UNCHANGED <<drvdata, hw, config, tasklets, irq_enable, rings_enabled, stale,
                status, shared, irq, work>>
  BY DEF CoreRemove, device, calls
<1>c. UNCHANGED <<sched, tasklet, armed, timer, blocked, lock>> BY DEF CoreRemove, bottom
<1>d. fault' = IF hw = "allocated" THEN fault \union {"unregister"} ELSE fault
  <2>1. hw # "null" => "hw" \in held BY <1>0, <1>a DEF InvHw
  <2> QED BY <2>1 DEF CoreRemove
<1>e. held' \subseteq held \ {"hw"} /\ held \ {"hw"} \subseteq held'
  BY <1>0, <1>a DEF InvHw
<1>1. TypeOK'
  <2>1. pc' \in Labels BY <1>a DEF Labels
  <2>2. pc \notin {"kill", "free_rings"} /\ pc' \notin {"kill", "free_rings"} BY <1>a
  <2>3. held' \subseteq Resources BY <1>0, <1>e DEF TypeOK
  <2> QED BY <1>0, <1>b, <1>c, <2>1, <2>2, <2>3 DEF TypeOK
<1>2. InvHeld'
  <2>1. pc' \notin DOMAIN Claimed BY <1>a, Claims
  <2>2. held' \subseteq Left[pc'] BY <1>0, <1>a, <1>e, Lefts DEF TypeOK
  <2>3. "priv" \in held' BY <1>0, <1>a, <1>e DEF InvHeld
  <2>4. Served' => {"rings", "hal", "mmio"} \subseteq held'
    BY <1>0, <1>a, <1>b, <1>e DEF InvHeld, Served, Live, Late
  <2>5. EarlyFailureUnwound' BY <1>a DEF EarlyFailureUnwound
  <2>m. Mapped' => {"regions", "mmio"} \subseteq held'
    BY <1>0, <1>a, <1>b DEF InvHeld, InvHandler, Mapped, Early, Setup, Late, Quiet, Freed
  <2> QED BY <2>m, <1>a, <2>1, <2>2, <2>3, <2>4, <2>5 DEF InvHeld, Setup
<1>3. InvHw' BY <1>0, <1>a, <1>b, <1>d, <1>e, Lefts DEF InvHw, Early, Setup, Quiet, Freed
<1>4. InvConfig' BY <1>0, <1>a, <1>b, <1>d DEF InvConfig, Live, Freed
<1>5. InvHandler'
  BY <1>0, <1>a, <1>b, <1>d DEF InvHandler, Live, Early, Setup, Late, Quiet, Freed
<1>6. InvBottom'
  BY <1>0, <1>a, <1>b, <1>c, <1>d DEF InvBottom, Schedulable, Early, Setup, Late, Quiet
<1> QED BY <1>1, <1>2, <1>3, <1>4, <1>5, <1>6 DEF IInv

\* free_irq: no handler runs any more and none will.
LEMMA StepFreeIrq == ASSUME IInv, FreeIrq PROVE IInv'
<1>0. TypeOK /\ InvHeld /\ InvHw /\ InvConfig /\ InvHandler /\ InvBottom BY DEF IInv
<1>a. /\ pc = "free_irq" /\ pc' = "free_workqueue" /\ held' = held \ {"irq", "vectors"}
      /\ ~irq' /\ ~irq_enable'
  BY DEF FreeIrq
<1>b. UNCHANGED <<drvdata, hw, config, tasklets, rings_enabled, stale, status, shared,
                work, fault>>
  BY DEF FreeIrq
<1>c. UNCHANGED <<sched, tasklet, armed, timer, blocked, lock>> BY DEF FreeIrq, bottom
<1>1. TypeOK'
  <2>1. pc' \in Labels BY <1>a DEF Labels, Quiet
  <2>2. pc \notin {"kill", "free_rings"} /\ pc' \notin {"kill", "free_rings"} BY <1>a
  <2>3. held' \subseteq Resources BY <1>0, <1>a DEF TypeOK
  <2> QED BY <1>0, <1>b, <1>c, <2>1, <2>2, <2>3 DEF TypeOK
<1>2. InvHeld'
  <2>1. pc' \notin DOMAIN Claimed BY <1>a, Claims
  <2>2. held' \subseteq Left[pc'] BY <1>0, <1>a, Lefts DEF InvHeld
  <2>3. "priv" \in held' BY <1>0, <1>a DEF InvHeld
  <2>4. Served' => {"rings", "hal", "mmio"} \subseteq held'
    BY <1>0, <1>a, <1>b DEF InvHeld, Served, Live, Quiet
  <2>5. EarlyFailureUnwound' BY <1>a DEF EarlyFailureUnwound
  <2>m. Mapped' => {"regions", "mmio"} \subseteq held'
    BY <1>0, <1>a, <1>b DEF InvHeld, InvHandler, Mapped, Early, Setup, Late, Quiet, Freed
  <2> QED BY <2>m, <1>a, <2>1, <2>2, <2>3, <2>4, <2>5 DEF InvHeld, Setup
<1>3. InvHw' BY <1>0, <1>a, <1>b, Lefts DEF InvHw, Early, Setup, Quiet, Freed
<1>4. InvConfig' BY <1>0, <1>a, <1>b DEF InvConfig, Live, Freed
<1>5. InvHandler'
  BY <1>0, <1>a, <1>b DEF InvHandler, Live, Early, Setup, Late, Quiet, Freed
<1>6. InvBottom'
  BY <1>0, <1>a, <1>b, <1>c DEF InvBottom, Schedulable, Early, Setup, Late, Quiet
<1> QED BY <1>1, <1>2, <1>3, <1>4, <1>5, <1>6 DEF IInv

\* Deinit takes the lock, then tasklet_kill: it returns when the tasklet is neither
\* scheduled nor running, and nobody can schedule it again.
LEMMA StepKill == ASSUME IInv, DeinitLock \/ Kill PROVE IInv'
<1>0. TypeOK /\ InvHeld /\ InvHw /\ InvConfig /\ InvHandler /\ InvBottom BY DEF IInv
<1>a. \/ pc = "deinit" /\ pc' = "kill" /\ lock = "none" /\ lock' = "main"
      \/ pc = "kill" /\ pc' = "free_rings" /\ lock' = lock
  BY DEF DeinitLock, Kill
<1>b. UNCHANGED <<held, drvdata, hw, config, tasklets, irq_enable, rings_enabled, stale,
                status, shared, irq, work, fault>>
  BY DEF DeinitLock, Kill, device, calls
<1>c. UNCHANGED <<sched, tasklet, armed, timer, blocked>> BY DEF DeinitLock, Kill, bottom
<1>d. pc = "kill" /\ tasklets => ~sched /\ tasklet = "idle" BY DEF DeinitLock, Kill
<1>1. TypeOK'
  <2>1. pc' \in Labels BY <1>a DEF Labels, Quiet
  <2>2. /\ lock' = "tasklet" <=> tasklet' = "locked"
        /\ lock' = "timer" <=> timer' = "locked"
        /\ lock' = "main" <=> pc' \in {"kill", "free_rings"}
    BY <1>0, <1>a, <1>c DEF TypeOK
  <2> QED BY <1>0, <1>b, <1>c, <2>1, <2>2 DEF TypeOK
<1>2. InvHeld'
  <2>1. pc' \notin DOMAIN Claimed BY <1>a, Claims
  <2>2. held' \subseteq Left[pc'] BY <1>0, <1>a, <1>b, Lefts DEF InvHeld, Quiet
  <2>3. "priv" \in held' BY <1>0, <1>a, <1>b DEF InvHeld
  <2>4. Served' => {"rings", "hal", "mmio"} \subseteq held'
    BY <1>0, <1>a, <1>b DEF InvHeld, Served, Live, Quiet, Late
  <2>5. EarlyFailureUnwound' BY <1>a DEF EarlyFailureUnwound
  <2>m. Mapped' => {"regions", "mmio"} \subseteq held'
    BY <1>0, <1>a, <1>b DEF InvHeld, InvHandler, Mapped, Early, Setup, Late, Quiet, Freed
  <2> QED BY <2>m, <1>a, <2>1, <2>2, <2>3, <2>4, <2>5 DEF InvHeld, Setup
<1>3. InvHw' BY <1>0, <1>a, <1>b, Lefts DEF InvHw, Early, Setup, Quiet, Freed
<1>4. InvConfig' BY <1>0, <1>a, <1>b DEF InvConfig, Live, Freed
<1>5. InvHandler'
  BY <1>0, <1>a, <1>b DEF InvHandler, Live, Early, Setup, Late, Quiet, Freed
<1>6. InvBottom'
  <2>1. pc = "kill" => ~sched /\ tasklet = "idle"
    BY <1>0, <1>d DEF InvBottom, Schedulable
  <2> QED
    BY <1>0, <1>a, <1>b, <1>c, <2>1 DEF InvBottom, Schedulable, Early, Setup, Late, Quiet
<1> QED BY <1>1, <1>2, <1>3, <1>4, <1>5, <1>6 DEF IInv

\* The rings and host_config are freed and the lock is given back.
LEMMA StepFreeRings == ASSUME IInv, FreeRings PROVE IInv'
<1>0. TypeOK /\ InvHeld /\ InvHw /\ InvConfig /\ InvHandler /\ InvBottom BY DEF IInv
<1>a. /\ pc = "free_rings" /\ pc' = "free_hal" /\ held' = held \ {"rings"}
      /\ lock' = "none" /\ config' \in {"null", "freed"}
  BY DEF FreeRings
<1>b. UNCHANGED <<drvdata, hw, tasklets, irq_enable, rings_enabled, stale,
                status, shared, irq, work>>
  BY DEF FreeRings, device, calls
<1>c. UNCHANGED <<sched, tasklet, armed, timer, blocked>> BY DEF FreeRings, bottom
<1>d. fault' = IF config = "freed" THEN fault \union {"double_free"} ELSE fault
  BY DEF FreeRings
<1>1. TypeOK'
  <2>1. pc' \in Labels BY <1>a DEF Labels, Freed
  <2>2. /\ lock' = "tasklet" <=> tasklet' = "locked"
        /\ lock' = "timer" <=> timer' = "locked"
        /\ lock' = "main" <=> pc' \in {"kill", "free_rings"}
    BY <1>0, <1>a, <1>c DEF TypeOK
  <2>3. held' \subseteq Resources BY <1>0, <1>a DEF TypeOK
  <2> QED BY <1>0, <1>a, <1>b, <1>c, <2>1, <2>2, <2>3 DEF TypeOK
<1>2. InvHeld'
  <2>1. pc' \notin DOMAIN Claimed BY <1>a, Claims
  <2>2. held' \subseteq Left[pc'] BY <1>0, <1>a, Lefts DEF InvHeld
  <2>3. "priv" \in held' BY <1>0, <1>a DEF InvHeld
  <2>4. ~Served' BY <1>a DEF Served, Live, Late, Quiet
  <2>5. EarlyFailureUnwound' BY <1>a DEF EarlyFailureUnwound
  <2>m. Mapped' => {"regions", "mmio"} \subseteq held'
    BY <1>0, <1>a, <1>b DEF InvHeld, InvHandler, Mapped, Early, Setup, Late, Quiet, Freed
  <2> QED BY <2>m, <1>a, <2>1, <2>2, <2>3, <2>4, <2>5 DEF InvHeld, Setup
<1>3. InvHw' BY <1>0, <1>a, <1>b, <1>d, Lefts DEF InvHw, Early, Setup, Quiet, Freed
<1>4. InvConfig' BY <1>0, <1>a, <1>b, <1>d DEF InvConfig, Live, Freed
<1>5. InvHandler'
  BY <1>0, <1>a, <1>b, <1>d DEF InvHandler, Live, Early, Setup, Late, Quiet, Freed
<1>6. InvBottom'
  BY <1>0, <1>a, <1>b, <1>c, <1>d DEF InvBottom, Schedulable, Early, Setup, Late, Quiet
<1> QED BY <1>1, <1>2, <1>3, <1>4, <1>5, <1>6 DEF IInv

\* The other steps of the remove release one thing after the other.
LEMMA StepRelease == ASSUME IInv, Release PROVE IInv'
<1>0. TypeOK /\ InvHeld /\ InvHw /\ InvConfig /\ InvHandler /\ InvBottom BY DEF IInv
<1>a. \/ pc = "free_workqueue" /\ pc' = "deinit" /\ held' = held \ {"workqueue"}
      \/ pc = "free_hal" /\ pc' = "unmap" /\ held' = held \ {"hal"}
      \/ pc = "unmap" /\ pc' = "free_pci" /\ held' = held \ {"mmio"}
      \/ pc = "free_pci" /\ pc' = "free_priv" /\ held' = held \ {"regions", "pci"}
      \/ pc = "free_priv" /\ pc' = "removed" /\ held' = held \ {"priv"}
  BY Losses DEF Release
<1>d. pc = "free_workqueue" => ~work BY DEF Release
<1>b. UNCHANGED <<drvdata, hw, config, tasklets, irq_enable, rings_enabled, stale,
                status, shared, irq, work, fault>>
  BY DEF Release, device, calls
<1>c. UNCHANGED <<sched, tasklet, armed, timer, blocked, lock>> BY DEF Release, bottom
<1>1. TypeOK'
  <2>1. pc' \in Labels BY <1>a DEF Labels, Quiet, Freed
  <2>2. pc \notin {"kill", "free_rings"} /\ pc' \notin {"kill", "free_rings"} BY <1>a
  <2>3. held' \subseteq Resources BY <1>0, <1>a DEF TypeOK
  <2> QED BY <1>0, <1>b, <1>c, <2>1, <2>2, <2>3 DEF TypeOK
<1>2. InvHeld'
  <2>1. pc' \notin DOMAIN Claimed BY <1>a, Claims
  <2>2. held' \subseteq Left[pc']
    BY <1>0, <1>a, Lefts DEF InvHeld, Quiet, Freed, Resources
  <2>3. pc' # "removed" => "priv" \in held' BY <1>0, <1>a DEF InvHeld
  <2>4. Served' => {"rings", "hal", "mmio"} \subseteq held'
    BY <1>0, <1>a, <1>b DEF InvHeld, Served, Live, Quiet, Late
  <2>5. EarlyFailureUnwound' BY <1>a DEF EarlyFailureUnwound
  <2>m. Mapped' => {"regions", "mmio"} \subseteq held'
    BY <1>0, <1>a, <1>b DEF InvHeld, InvHandler, Mapped, Early, Setup, Late, Quiet, Freed
  <2> QED BY <2>m, <1>a, <2>1, <2>2, <2>3, <2>4, <2>5 DEF InvHeld, Setup
<1>3. InvHw' BY <1>0, <1>a, <1>b, <1>d, Lefts DEF InvHw, Early, Setup, Quiet, Freed
<1>4. InvConfig' BY <1>0, <1>a, <1>b DEF InvConfig, Live, Freed
<1>5. InvHandler'
  BY <1>0, <1>a, <1>b DEF InvHandler, Live, Early, Setup, Late, Quiet, Freed
<1>6. InvBottom'
  BY <1>0, <1>a, <1>b, <1>c DEF InvBottom, Schedulable, Early, Setup, Late, Quiet
<1> QED BY <1>1, <1>2, <1>3, <1>4, <1>5, <1>6 DEF IInv

\* A step of another context leaves the thread and the rings alone, and cannot
\* disturb what the invariant says of them.
LEMMA MainStill ==
    ASSUME IInv, UNCHANGED <<main, irq_enable, rings_enabled, stale>>, work' => work,
           NEW F, fault' = fault \union F,
           F \subseteq {"no_priv", "no_tasklet", "tasklet", "timer", "worker"}
    PROVE  InvHeld' /\ InvHw' /\ InvConfig' /\ InvHandler'
<1>0. InvHeld /\ InvHw /\ InvConfig /\ InvHandler BY DEF IInv
<1>a. UNCHANGED <<pc, held, drvdata, hw, config, tasklets>> BY DEF main
<1>b. Live' = Live BY DEF Live
<1>1. InvHeld' BY <1>0, <1>a, <1>b DEF InvHeld, Served, Mapped, EarlyFailureUnwound
<1>2. InvHw' BY <1>0, <1>a DEF InvHw
<1>3. InvConfig' BY <1>0, <1>a, <1>b DEF InvConfig
<1>4. InvHandler' BY <1>0, <1>a, <1>b DEF InvHandler
<1> QED BY <1>1, <1>2, <1>3, <1>4

\* A ring reports a buffer, or another device interrupts, while the handler is
\* registered.
LEMMA StepInterrupt == ASSUME IInv, DevInterrupt \/ LineInterrupt PROVE IInv'
<1>0. TypeOK /\ InvBottom BY DEF IInv
<1>a. UNCHANGED <<main, irq_enable, rings_enabled, stale, shared, work, fault>>
  BY DEF DevInterrupt, LineInterrupt, device
<1>b. UNCHANGED <<sched, tasklet, armed, timer, blocked, lock>>
  BY DEF DevInterrupt, LineInterrupt, bottom
<1>c. irq' => irq \/ ("irq" \in held /\ (irq_enable \/ shared))
  BY DEF DevInterrupt, LineInterrupt
<1>d. status' \in BOOLEAN /\ (status' => status \/ rings_enabled)
  <2>1. CASE DevInterrupt BY <2>1 DEF DevInterrupt
  <2>2. CASE LineInterrupt BY <1>0, <2>2 DEF LineInterrupt, device, TypeOK
  <2> QED BY <2>1, <2>2
<1>e. UNCHANGED <<pc, held, drvdata, hw, config, tasklets>> BY <1>a DEF main
<1>1. TypeOK' BY <1>0, <1>a, <1>b, <1>d, <1>e DEF TypeOK
<1>2. InvHeld' /\ InvHw' /\ InvConfig' /\ InvHandler'
  <2>1. fault' = fault \union {} BY <1>a
  <2> QED BY <1>a, <2>1, MainStill
<1>3. InvBottom' BY <1>0, <1>a, <1>b, <1>c, <1>d, <1>e DEF InvBottom, Schedulable
<1> QED BY <1>1, <1>2, <1>3 DEF IInv

\* The handler runs: with drvdata and a tasklet it schedules the tasklet, which
\* nobody has killed yet.
LEMMA StepIrqHandler == ASSUME IInv, IrqHandler PROVE IInv'
<1>0. TypeOK /\ InvHeld /\ InvHandler /\ InvBottom BY DEF IInv
<1>a. UNCHANGED <<main, irq_enable, rings_enabled, stale, shared, work>> BY DEF IrqHandler
<1>b. UNCHANGED <<tasklet, armed, timer, blocked, lock>> /\ irq /\ ~irq'
  BY DEF IrqHandler
<1>c. /\ status' \in BOOLEAN /\ (status' => status)
      /\ sched' => sched \/ (tasklets /\ status)
  BY <1>0 DEF IrqHandler, TypeOK
<1>d. PICK F : fault' = fault \union F /\ F \subseteq {"no_priv", "no_tasklet"}
  <2> DEFINE F == (IF ~drvdata THEN {"no_priv"} ELSE {})
                    \union (IF drvdata /\ status /\ ~tasklets THEN {"no_tasklet"} ELSE {})
  <2>1. fault' = fault \union F BY DEF IrqHandler
  <2>2. F \subseteq {"no_priv", "no_tasklet"} OBVIOUS
  <2> QED BY <2>1, <2>2
<1>e. UNCHANGED <<pc, held, drvdata, hw, config, tasklets>> BY <1>a DEF main
<1>1. TypeOK' BY <1>0, <1>a, <1>b, <1>c, <1>e DEF TypeOK
<1>2. InvHeld' /\ InvHw' /\ InvConfig' /\ InvHandler' BY <1>a, <1>d, MainStill
<1>3. tasklets => Schedulable
  <2>1. "irq" \in held BY <1>0, <1>b DEF InvBottom
  <2>2. pc \notin Quiet \union {"free_rings"} \union Freed
    BY <1>0, <2>1, Lefts DEF InvHeld, Quiet, Freed, Resources
  <2>3. tasklets => pc \notin (Early \union Setup) \ {"rings", "init_rings"}
    BY <1>0 DEF InvHandler
  <2> QED BY <1>0, <2>2, <2>3 DEF TypeOK, Labels, Schedulable
<1>4. InvBottom' BY <1>0, <1>a, <1>b, <1>c, <1>e, <1>3 DEF InvBottom, Schedulable
<1> QED BY <1>1, <1>2, <1>4 DEF IInv

\* mac80211 queues the work of the management worker for a registered hw.
LEMMA StepMgmtQueue == ASSUME IInv, MgmtQueue PROVE IInv'
<1>0. TypeOK /\ InvHeld /\ InvHw /\ InvConfig /\ InvHandler /\ InvBottom BY DEF IInv
<1>a. pc = "bound" /\ hw = "registered" /\ work' = TRUE BY DEF MgmtQueue
<1>b. UNCHANGED <<pc, held, drvdata, hw, config, tasklets, irq, fault>>
  BY DEF MgmtQueue, main
<1>c. UNCHANGED <<irq_enable, rings_enabled, stale, status, shared>>
  BY DEF MgmtQueue, device
<1>d. UNCHANGED <<sched, tasklet, armed, timer, blocked, lock>> BY DEF MgmtQueue, bottom
<1>1. TypeOK' BY <1>0, <1>a, <1>b, <1>c, <1>d DEF TypeOK
<1>2. InvHeld'
  BY <1>0, <1>b, <1>c DEF InvHeld, Served, Live, Mapped, EarlyFailureUnwound
<1>3. InvHw' BY <1>0, <1>a, <1>b DEF InvHw
<1>4. InvConfig' /\ InvHandler' BY <1>0, <1>b, <1>c DEF InvConfig, InvHandler, Live
<1>5. InvBottom' BY <1>0, <1>b, <1>c, <1>d DEF InvBottom, Schedulable
<1> QED BY <1>1, <1>2, <1>3, <1>4, <1>5 DEF IInv

\* The worker may find the hw freed, but breaks nothing else.
LEMMA StepMgmtWork == ASSUME IInv, MgmtWork PROVE IInv'
<1>0. TypeOK /\ InvBottom BY DEF IInv
<1>a. UNCHANGED <<main, irq_enable, rings_enabled, stale, status, shared, irq>>
  BY DEF MgmtWork, device
<1>b. UNCHANGED <<sched, tasklet, armed, timer, blocked, lock>> BY DEF MgmtWork, bottom
<1>c. work /\ work' = FALSE BY DEF MgmtWork
<1>d. fault' = fault \union {} \/ fault' = fault \union {"worker"} BY DEF MgmtWork
<1>e. UNCHANGED <<pc, held, drvdata, hw, config, tasklets>> BY <1>a DEF main
<1>1. TypeOK' BY <1>0, <1>a, <1>b, <1>c, <1>e DEF TypeOK
<1>2. InvHeld' /\ InvHw' /\ InvConfig' /\ InvHandler' BY <1>a, <1>c, <1>d, MainStill
<1>3. InvBottom' BY <1>0, <1>a, <1>b, <1>e DEF InvBottom, Schedulable
<1> QED BY <1>1, <1>2, <1>3 DEF IInv

\* The tasklet takes the lock; rings of an earlier probe may have called it too
\* early.
LEMMA StepTasklet == ASSUME IInv, Tasklet PROVE IInv'
<1>0. TypeOK /\ InvBottom BY DEF IInv
<1>a. UNCHANGED <<main, irq_enable, rings_enabled, stale, status, shared, irq, work>>
  BY DEF Tasklet, TaskletStart, TaskletLock, TaskletUnlock, TaskletArm, device, calls
<1>b. UNCHANGED <<timer, blocked>>
  BY DEF Tasklet, TaskletStart, TaskletLock, TaskletUnlock, TaskletArm
<1>c. \/ sched /\ tasklet = "idle" /\ tasklet' = "spin" /\ lock' = lock
      \/ tasklet = "spin" /\ lock = "none" /\ tasklet' = "locked" /\ lock' = "tasklet"
      \/ tasklet = "locked" /\ tasklet' \in {"spin", "idle", "arm"} /\ lock' = "none"
      \/ tasklet = "arm" /\ tasklet' = "idle" /\ lock' = lock
  BY DEF Tasklet, TaskletStart, TaskletLock, TaskletUnlock, TaskletArm
<1>d. fault' = fault \union {} \/ fault' = fault \union {"tasklet"}
  BY DEF Tasklet, TaskletStart, TaskletLock, TaskletUnlock, TaskletArm, Use
<1>e. UNCHANGED <<pc, held, drvdata, hw, config, tasklets>> BY <1>a DEF main
<1>1. TypeOK'
  <2>1. /\ lock' = "tasklet" <=> tasklet' = "locked"
        /\ lock' = "timer" <=> timer' = "locked"
        /\ lock' = "main" <=> pc' \in {"kill", "free_rings"}
    BY <1>0, <1>b, <1>c, <1>e DEF TypeOK
  <2>2. tasklet' \in {"idle", "spin", "locked", "arm"} BY <1>c
  <2> QED BY <1>0, <1>a, <1>b, <1>e, <2>1, <2>2 DEF TypeOK
<1>2. InvHeld' /\ InvHw' /\ InvConfig' /\ InvHandler' BY <1>a, <1>d, MainStill
<1>3. Schedulable /\ rings_enabled BY <1>0, <1>c DEF InvBottom
<1>4. InvBottom' BY <1>0, <1>a, <1>e, <1>3 DEF InvBottom, Schedulable
<1> QED BY <1>1, <1>2, <1>4 DEF IInv

\* The timer may find anything, but breaks nothing else.
LEMMA StepTimer == ASSUME IInv, Timer PROVE IInv'
<1>0. TypeOK /\ InvBottom BY DEF IInv
<1>a. UNCHANGED <<main, irq_enable, rings_enabled, stale, status, shared, irq, work>>
  BY DEF Timer, TimerStart, TimerLock, TimerUnlock, TimerArm, device, calls
<1>b. UNCHANGED <<sched, tasklet>>
  BY DEF Timer, TimerStart, TimerLock, TimerUnlock, TimerArm
<1>c. \/ timer = "idle" /\ timer' \in {"spin", "idle"} /\ lock' = lock
      \/ timer = "spin" /\ lock = "none" /\ timer' = "locked" /\ lock' = "timer"
      \/ timer = "locked" /\ timer' \in {"idle", "arm"} /\ lock' = "none"
      \/ timer = "arm" /\ timer' = "idle" /\ lock' = lock
  BY DEF Timer, TimerStart, TimerLock, TimerUnlock, TimerArm
<1>d. fault' = fault \union {} \/ fault' = fault \union {"timer"}
  BY DEF Timer, TimerStart, TimerLock, TimerUnlock, TimerArm, Use
<1>e. UNCHANGED <<pc, held, drvdata, hw, config, tasklets>> BY <1>a DEF main
<1>f. blocked' \in BOOLEAN
  BY <1>0 DEF Timer, TimerStart, TimerLock, TimerUnlock, TimerArm, TypeOK
<1>1. TypeOK'
  <2>1. /\ lock' = "tasklet" <=> tasklet' = "locked"
        /\ lock' = "timer" <=> timer' = "locked"
        /\ lock' = "main" <=> pc' \in {"kill", "free_rings"}
    BY <1>0, <1>b, <1>c, <1>e DEF TypeOK
  <2>2. timer' \in {"idle", "spin", "locked", "arm"} BY <1>c
  <2> QED BY <1>0, <1>a, <1>b, <1>e, <1>f, <2>1, <2>2 DEF TypeOK
<1>2. InvHeld' /\ InvHw' /\ InvConfig' /\ InvHandler' BY <1>a, <1>d, MainStill
<1>3. InvBottom' BY <1>0, <1>a, <1>b, <1>e DEF InvBottom, Schedulable
<1> QED BY <1>1, <1>2, <1>3 DEF IInv

\* The next probe: a new priv, and a device whose rings may be enabled.
LEMMA StepReprobe == ASSUME IInv, Reprobe PROVE IInv'
<1>0. TypeOK /\ InvHeld /\ InvHw /\ InvConfig /\ InvHandler /\ InvBottom BY DEF IInv
<1>a. /\ pc \in {"removed", "failed"} /\ "regions" \notin held /\ fault = {}
      /\ pc' = "assign" /\ held' = {"priv"} /\ drvdata' = FALSE
      /\ hw' = "null" /\ config' = "null" /\ tasklets' = FALSE
      /\ stale' = rings_enabled /\ shared' = FALSE
  BY DEF Reprobe
<1>b. UNCHANGED <<irq_enable, rings_enabled, status, irq, work, fault>>
  BY DEF Reprobe, calls
<1>c. UNCHANGED <<sched, tasklet, armed, timer, blocked, lock>> BY DEF Reprobe, bottom
<1>1. TypeOK'
  <2>1. pc' \in Labels BY <1>a DEF Labels, Early
  <2>2. held' \subseteq Resources BY <1>a DEF Resources
  <2>3. pc \notin {"kill", "free_rings"} /\ pc' \notin {"kill", "free_rings"} BY <1>a
  <2>4. rings_enabled \in BOOLEAN BY <1>0 DEF TypeOK
  <2> QED BY <1>0, <1>a, <1>b, <1>c, <2>1, <2>2, <2>3, <2>4 DEF TypeOK
<1>2. ~irq_enable
  <2>1. pc = "failed" /\ irq_enable => "regions" \in held BY <1>0 DEF InvHeld, Mapped
  <2>2. pc = "removed" => ~irq_enable BY <1>0 DEF InvHandler, Freed
  <2> QED BY <1>a, <2>1, <2>2
<1>3. ~Live' BY <1>a, <1>b DEF Live
<1>4. InvHeld'
  <2>1. held' \subseteq Claimed[pc'] BY <1>a, Claims
  <2>2. pc' \notin DOMAIN Left BY <1>a, Lefts DEF Quiet, Freed
  <2>3. ~Mapped' BY <1>a DEF Mapped, Setup, Late
  <2> QED BY <1>a, <1>3, <2>1, <2>2, <2>3 DEF InvHeld, Served, EarlyFailureUnwound
<1>5. InvHw'
  <2>1. ~work BY <1>0, <1>a DEF InvHw
  <2> QED BY <1>a, <1>b, <2>1 DEF InvHw
<1>6. InvConfig' BY <1>a, <1>b, <1>3 DEF InvConfig
<1>7. InvHandler' BY <1>a, <1>b, <1>2, <1>3 DEF InvHandler, Early, Setup, Late
<1>8. InvBottom'
  <2>1. "irq" \notin held
    BY <1>0, <1>a, <1>2, Lefts DEF InvHeld, EarlyFailureUnwound, Freed
  <2>2. ~Schedulable BY <1>0, <1>a, <1>2 DEF Schedulable, InvHandler, Late, Quiet
  <2> QED BY <1>0, <1>b, <1>c, <2>1, <2>2 DEF InvBottom
<1> QED BY <1>1, <1>4, <1>5, <1>6, <1>7, <1>8 DEF IInv

\* Every step of the thread, the device and the other contexts preserves the
\* invariant.
THEOREM NextIInv == ASSUME IInv, [Next]_vars PROVE IInv'
<1>1. CASE Probe
  BY <1>1, StepAcquire, StepIrqVectors, StepFails, StepIrq, StepDstAlloc, StepDstRun,
     StepCore DEF Probe
<1>2. CASE Remove
  BY <1>2, StepFreeIrq, StepKill, StepFreeRings, StepRelease DEF Remove
<1>3. CASE UNCHANGED vars
  <2>0. TypeOK /\ InvBottom BY DEF IInv
  <2>1. UNCHANGED <<main, device, irq, work>> /\ fault' = fault \union {}
    BY <1>3 DEF vars, calls
  <2>2. UNCHANGED <<irq_enable, rings_enabled, stale, status, shared>> BY <2>1 DEF device
  <2>3. UNCHANGED <<pc, held, drvdata, hw, config, tasklets>> BY <2>1 DEF main
  <2>4. UNCHANGED <<sched, tasklet, timer, blocked, lock>> BY <1>3 DEF vars, bottom
  <2>5. InvHeld' /\ InvHw' /\ InvConfig' /\ InvHandler' BY <2>1, <2>2, MainStill
  <2>6. TypeOK' BY <2>0, <2>1, <2>2, <2>3, <2>4 DEF TypeOK
  <2>7. InvBottom' BY <2>0, <2>1, <2>2, <2>3, <2>4 DEF InvBottom, Schedulable
  <2> QED BY <2>5, <2>6, <2>7 DEF IInv
<1> QED BY <1>1, <1>2, <1>3, StepCoreRemove, StepReprobe, StepInterrupt, StepIrqHandler,
           StepMgmtQueue, StepMgmtWork, StepTasklet, StepTimer DEF Next

\* The invariant holds in every reachable state.
THEOREM SpecIInv == Spec => []IInv
BY InitIInv, NextIInv, PTL DEF Spec

\* The values have their types, and srng_test_lock is held by exactly the context
\* that is between its lock and its unlock.
THEOREM TypeCorrect == Spec => []TypeOK
<1>1. IInv => TypeOK BY DEF IInv
<1> QED BY <1>1, SpecIInv, PTL

\* Which step may meet which fault: nobody but the handler, the tasklet and the
\* worker reports theirs.
LEMMA Blame ==
    ASSUME [Next]_vars
    PROVE  /\ Meets("no_priv") \/ Meets("no_tasklet") => IrqHandler
           /\ Meets("tasklet") => TaskletLock
           /\ Meets("worker") => MgmtWork
<1>1. Probe => fault' = fault
  BY DEF Probe, Acquire, ClaimFails, IrqVectors, IrqInitFails, RequestFails, SetDrvdata,
         IrqEnable, ProbeFails, DstConfig, DstTasklets, DstRings, DstInitRings, DstPost,
         CoreAlloc, CoreChannels, CoreRegister
<1>2. CoreRemove \/ Remove =>
        fault' \ fault \subseteq {"freed_hw", "unregister", "double_free"}
  BY DEF CoreRemove, Remove, FreeIrq, DeinitLock, Kill, FreeRings, Release
<1>3. Reprobe \/ DevInterrupt \/ LineInterrupt \/ MgmtQueue \/ UNCHANGED vars =>
        fault' = fault
  BY DEF Reprobe, DevInterrupt, LineInterrupt, MgmtQueue, vars
<1>4. IrqHandler => fault' \ fault \subseteq {"no_priv", "no_tasklet"} BY DEF IrqHandler
<1>5. MgmtWork => fault' \ fault \subseteq {"worker"} BY DEF MgmtWork
<1>6. Tasklet => fault' = fault \/ (TaskletLock /\ fault' \ fault \subseteq {"tasklet"})
  BY DEF Tasklet, TaskletStart, TaskletLock, TaskletUnlock, TaskletArm, Use
<1>7. Timer => fault' \ fault \subseteq {"timer"}
  BY DEF Timer, TimerStart, TimerLock, TimerUnlock, TimerArm, Use
<1> QED BY <1>1, <1>2, <1>3, <1>4, <1>5, <1>6, <1>7 DEF Next, Meets

\* The handler, registered before drvdata is set, runs without priv only on a
\* shared line in the steps between the two, or after a late failure of the probe;
\* on any probe, whatever the last remove left in the device.
THEOREM HandlerPriv == Spec => HandlerFindsPriv
<1>1. ASSUME IInv, [Next]_vars
      PROVE  Meets("no_priv") => pc = "failed" \/ (shared /\ pc = "drvdata")
  <2>0. TypeOK /\ InvHeld /\ InvHandler /\ InvBottom BY <1>1 DEF IInv
  <2> SUFFICES ASSUME Meets("no_priv"), pc # "failed" PROVE shared /\ pc = "drvdata"
    OBVIOUS
  <2>1. IrqHandler BY <1>1, Blame
  <2>2. irq /\ ~drvdata BY <2>1 DEF IrqHandler, Meets
  <2>3. pc \in Early BY <2>0, <2>2 DEF InvHandler
  <2>4. "irq" \in held /\ shared BY <2>0, <2>2, <2>3 DEF InvBottom, InvHandler
  <2>5. pc \notin DOMAIN Claimed BY <2>0, <2>4, Claims DEF InvHeld
  <2> QED BY <2>3, <2>4, <2>5, Claims DEF Early
<1> QED BY <1>1, SpecIInv, PTL DEF Spec, HandlerFindsPriv

\* The handler schedules a tasklet that is not set up only for rings that an earlier
\* probe enabled and that nobody has set up anew.
THEOREM HandlerTasklet == Spec => HandlerFindsTasklet
<1>1. ASSUME IInv, [Next]_vars PROVE Meets("no_tasklet") => stale
  <2> SUFFICES ASSUME Meets("no_tasklet") PROVE stale OBVIOUS
  <2>1. IrqHandler BY <1>1, Blame
  <2>2. drvdata /\ status /\ ~tasklets BY <2>1 DEF IrqHandler, Meets
  <2> QED BY <1>1, <2>2 DEF IInv, InvHandler, InvBottom, Live
<1> QED BY <1>1, SpecIInv, PTL DEF Spec, HandlerFindsTasklet

\* The tasklet finds the rings, the registers and priv, except for rings that an
\* earlier probe enabled: tasklet_kill comes before the rings are freed, and after
\* free_irq nobody schedules it again.
THEOREM TaskletRings == Spec => TaskletFindsRings
<1>1. ASSUME IInv, [Next]_vars PROVE Meets("tasklet") => stale
  <2>0. TypeOK /\ InvHeld /\ InvHandler /\ InvBottom BY <1>1 DEF IInv
  <2> SUFFICES ASSUME Meets("tasklet"), ~stale PROVE FALSE BY <2>0 DEF TypeOK
  <2>1. TaskletLock BY <1>1, Blame
  <2>2. tasklet = "spin" /\ Missing # {} BY <2>1 DEF TaskletLock, Use, Meets
  <2>3. Schedulable /\ Live BY <2>0, <2>2 DEF InvBottom, Live
  <2>4. pc \in Late \union {"free_irq", "failed"} \union Quiet
    BY <2>0, <2>3 DEF Schedulable, InvHandler, Setup
  <2>5. {"priv", "rings", "hal", "mmio"} \subseteq held
    BY <2>0, <2>3, <2>4 DEF InvHeld, Served, Late, Quiet
  <2>6. pc # "init_rings" BY <2>4 DEF Late, Quiet
  <2> QED BY <2>2, <2>5, <2>6 DEF Missing
<1> QED BY <1>1, SpecIInv, PTL DEF Spec, TaskletFindsRings

\* The management worker finds the hw freed only in the remove, after core_remove
\* and before destroy_workqueue returns.
THEOREM WorkerHw == Spec => WorkerFindsHw
<1>1. ASSUME IInv, [Next]_vars
      PROVE  Meets("worker") => pc \in {"free_irq", "free_workqueue"}
  <2>0. InvHw BY <1>1 DEF IInv
  <2> SUFFICES ASSUME Meets("worker") PROVE pc \in {"free_irq", "free_workqueue"}
    OBVIOUS
  <2>1. MgmtWork BY <1>1, Blame
  <2>2. work /\ "hw" \notin held BY <2>1 DEF MgmtWork, Meets
  <2> QED BY <2>0, <2>2 DEF InvHw
<1> QED BY <1>1, SpecIInv, PTL DEF Spec, WorkerFindsHw

\* The remove frees no hw a second time, and errs only after two failures of the
\* probe.
THEOREM FreedOnce == Spec => []RemoveFreesOnce
<1>1. IInv => RemoveFreesOnce BY DEF IInv, InvHw, InvConfig, RemoveFreesOnce
<1> QED BY <1>1, SpecIInv, PTL

\* A probe that fails before the interrupts are enabled gives back the device and
\* its regions.
THEOREM FailureUnwound == Spec => []EarlyFailureUnwound
<1>1. IInv => EarlyFailureUnwound BY DEF IInv, InvHeld
<1> QED BY <1>1, SpecIInv, PTL

\* The remove leaves nothing but the channels.
THEOREM RemoveComplete == Spec => []RemoveReleases
<1>1. IInv => RemoveReleases
  BY Lefts DEF IInv, InvHeld, RemoveReleases, Freed
<1> QED BY <1>1, SpecIInv, PTL
=============================================================================
