--------------------------- MODULE RxPostProofs ----------------------------
(***************************************************************************)
(* Preservation of the invariant of RxPipe by the steps of post_pipe and    *)
(* enqueue_pipe that get a buffer, hand it to the ring and publish it, or   *)
(* give it back when the ring has no entry for it.                          *)
(***************************************************************************)
EXTENDS RxInvariantProofs

\* post_pipe gets and maps an skb, and reads the tail the device wrote back.
LEMMA StepPostAlloc == ASSUME NEW c \in Ctx, IInv, PostAlloc(c) PROVE IInv'
<1>P. PositionFacts BY Positions
<1>0. PICK b \in Bufs : /\ own[b] = "free"
                        /\ own' = [own EXCEPT ![b] = "cpu"]
                        /\ mapped' = mapped \union {b}
                        /\ cur' = [cur EXCEPT ![c] = b]
  <2> DEFINE free == {b \in Bufs : own[b] = "free"}
  <2>1. Allocatable \subseteq free BY DEF Allocatable
  <2> QED BY Zenon, <2>1 DEF PostAlloc
<1>1. TypeOK'
  BY <1>0, RingAssumption, ConfigAssumption
  DEF PostAlloc, Goto, pipe, shared, device, irq, IInv, TypeOK, TypeRings,
      TypePipe, TypeFlags, TypeContext, TypeBuffers, Ctx
<1>2. InvLock'
  BY DEF PostAlloc, At, Goto, IInv, TypeOK, TypeContext, InvLock, Ctx,
         Critical, TaskletOnly
<1>3. pc[c] = "alloc" /\ \A d \in Ctx : pc'[d] = IF d = c THEN "fill" ELSE pc[d]
  BY DEF PostAlloc, At, Goto, IInv, TypeOK, TypeContext
<1>4. InvNeeded' BY <1>3 DEF PostAlloc, pipe, IInv, InvNeeded
<1>5. InvHeld'
  BY <1>0, <1>3, ConfigAssumption
  DEF PostAlloc, IInv, TypeOK, TypeContext, TypeBuffers, InvHeld, Holds, Ctx
<1>6. Still
  <2>1. /\ Publishing' = Publishing
        /\ pc["tasklet"] \in {"took", "stop", "got"} \/ pc'["tasklet"] \in {"took", "got"}
               => pc'["tasklet"] = pc["tasklet"]
        /\ pc'["tasklet"] = "take" => pc["tasklet"] = "take"
    BY <1>3 DEF Publishing, Ctx
  <2>2. HpReg' = HpReg /\ TailKnown'
    BY <2>1, TailStays
    DEF PostAlloc, HpReg, PrevIndex, pipe, shared, IInv, InvPointers
  <2>3. \A b1 \in Bufs : Writable(b1) => Writable(b1)'
    BY <1>0 DEF Writable, IInv, TypeOK, TypeBuffers
  <2>4. pc["tasklet"] \in {"took", "got"} => cur'["tasklet"] = cur["tasklet"]
    BY <1>0, <1>3 DEF IInv, TypeOK, TypeContext, Ctx
  <2> QED
    BY <2>1, <2>2, <2>3, <2>4 DEF PostAlloc, Still, IInv, InvPointers, pipe, shared,
       device
<1>7. InvPlaces' BY <1>6, StillFrame
<1>8. InvTail'
  <2>1. /\ StatusHead' = StatusHead /\ Posted' = Posted
        /\ \A i \in Index : Span(i)' = Span(i)
        /\ dev_tp' = dev_tp /\ d_tp_mem' = d_tp_mem /\ d_cached_tp' = d_tp_mem
    BY DEF PostAlloc, pipe, shared, device, StatusHead, Posted, Span
  <2>2. ASSUME PromptTp
        PROVE  \E j \in Index : d_tp_mem = DstES * j /\ Span(j) <= Posted
    <3>1. d_tp_mem = DstES * StatusHead \/ d_tp_mem = DstES * DevTail
      BY <2>2 DEF IInv, InvTail, InvPointers
    <3>2. Span(StatusHead) <= Posted /\ Span(DevTail) <= Posted
      BY <1>P, RingAssumption DEF PositionFacts
    <3> QED BY <3>1, <3>2, <1>P DEF PositionFacts
  <2> QED BY <1>3, <2>1, <2>2 DEF IInv, InvTail
<1> QED BY <1>1, <1>2, <1>4, <1>5, <1>7, <1>8 DEF IInv, InvPlaces

\* access_end of enqueue_pipe publishes the head of the dst ring.
LEMMA StepEnqueueEnd == ASSUME NEW c \in Ctx, IInv, EnqueueEnd(c) PROVE IInv'
<1>1. TypeOK'
  BY RingAssumption, ConfigAssumption
  DEF EnqueueEnd, Goto, hostRings, pipe, shared, device, irq, buffers, IInv, TypeOK,
      TypeRings, TypePipe, TypeFlags, TypeContext, TypeBuffers, Ctx
<1>2. InvLock'
  BY DEF EnqueueEnd, At, Goto, IInv, TypeOK, TypeContext, InvLock, Ctx,
         Critical, TaskletOnly
<1>3. PICK l \in {"idle", "alloc"} :
          /\ \A d \in Ctx : pc'[d] = IF d = c THEN l ELSE pc[d]
          /\ l = "alloc" => rx_buf_needed > 0
  BY DEF EnqueueEnd, Goto, IInv, TypeOK, TypePipe, TypeContext
<1>4. pc[c] = "end" BY DEF EnqueueEnd, At
<1>5. InvNeeded' BY <1>3 DEF EnqueueEnd, pipe, IInv, InvNeeded
<1>6. InvHeld'
  BY <1>3, <1>4 DEF EnqueueEnd, buffers, IInv, InvHeld, Holds, Ctx
<1>7. Still
  <2>1. \A d \in Ctx : pc[d] = "end" => d = c
    BY <1>4, OnePublisher DEF Critical
  <2>2. /\ Publishing /\ ~Publishing'
        /\ pc["tasklet"] \in {"took", "stop", "got"} \/ pc'["tasklet"] \in {"took", "got"}
               => pc'["tasklet"] = pc["tasklet"]
        /\ pc'["tasklet"] = "take" => pc["tasklet"] = "take"
    BY <1>3, <1>4, <2>1 DEF Publishing, Ctx
  <2>3. HpReg' = write_index /\ TailKnown'
    BY <2>2, TailStays
    DEF EnqueueEnd, HpReg, PrevIndex, pipe, hostRings, IInv, InvPointers
  <2>4. \A b \in Bufs : Writable(b) => Writable(b)'
    BY DEF EnqueueEnd, Writable, buffers
  <2> QED
    BY <2>2, <2>3, <2>4 DEF EnqueueEnd, Still, IInv, InvPointers, hostRings,
       pipe, device, buffers
<1>8. InvPlaces' BY <1>7, StillFrame
<1>9. InvTail' BY <1>3, <1>7, TailFrame DEF EnqueueEnd, hostRings
<1> QED BY <1>1, <1>2, <1>5, <1>6, <1>8, <1>9 DEF IInv, InvPlaces

\* enqueue_pipe writes the descriptor and the skb of the entry it takes, the lock
\* held and the head not yet published.
LEMMA StepEnqueueFill == ASSUME NEW c \in Ctx, IInv, EnqueueFill(c) PROVE IInv'
<1>P. PositionFacts BY Positions
<1> USE RingAssumption, ConfigAssumption
<1>t. /\ pc[c] = "fill" /\ pc' = [pc EXCEPT ![c] = "end"]
      /\ cur' = [cur EXCEPT ![c] = NoBuf]
      /\ own' = [own EXCEPT ![cur[c]] = "ring"]
      /\ UNCHANGED <<lock, nbytes, mapped, fill>>
  BY DEF EnqueueFill, At, Goto
<1>u. /\ d_hp' = SrcNext(d_hp, DstES, DstRS)
      /\ d_desc' = [d_desc EXCEPT ![d_hp] = cur[c]]
      /\ UNCHANGED <<s_tp, s_cached_hp, d_hp_reg, d_tp_mem, s_hp_mem, s_tp_reg,
                     s_desc, dev_tp, dev_buf>>
  BY DEF EnqueueFill, device
<1>v. /\ skb' = [skb EXCEPT ![write_index] = cur[c]]
      /\ write_index' = NextIndex(write_index, NEntries)
      /\ rx_buf_needed' = rx_buf_needed - 1
      /\ UNCHANGED sw_index
  BY DEF EnqueueFill
<1> DEFINE b == cur[c]
<1>a. /\ b \in Bufs /\ own[b] = "cpu" /\ b \in mapped
      /\ \A d \in Ctx : cur[d] = b => d = c
  BY <1>t DEF IInv, InvHeld, Holds, TypeOK, TypeBuffers
<1>c. \A d \in Ctx : pc[d] \in Critical => d = c 
  BY Zenon, <1>t, OnePublisher DEF Critical
<1>d. \A d \in Ctx : pc'[d] = IF d = c THEN "end" ELSE pc[d]
  BY <1>t DEF IInv, TypeOK, TypeContext
<1>e. Posted' = Posted + 1 /\ Posted <= NEntries - 3
  BY <1>t, <1>v DEF Posted, IInv, TypeOK, TypePipe, InvNeeded
<1>f. \A i \in Index : Span(i)' = Span(i) BY <1>v DEF Span
<1>g. /\ write_index' \in Index /\ PrevIndex(write_index') = write_index
      /\ Span(write_index') = Posted + 1
  <2>1. Span(write_index) = Posted BY <1>P DEF PositionFacts
  <2>2. /\ write_index \in Index /\ sw_index \in 0 .. NEntries - 1
        /\ Posted \in Nat /\ NEntries \in Nat
    BY <1>P, RingAssumption DEF PositionFacts, Index
  <2>3. /\ write_index' \in Index /\ PrevIndex(write_index') = write_index
    BY <1>v, <2>2, IndexNext
  <2>4. Dist(sw_index, write_index, NEntries) < NEntries - 1
    BY <1>e, <2>1, <2>2 DEF Span
  <2>5. Span(write_index') = Span(write_index) + 1
    BY <1>v, <2>2, <2>4, DistNext DEF Index, Span
  <2> QED BY <2>1, <2>3, <2>5
<1>h. d_hp = DstES * write_index /\ d_hp' = DstES * write_index'
  <2>1. d_hp = DstES * write_index BY DEF IInv, InvPointers
  <2> QED BY <2>1, <1>u, <1>v, <1>P, DstOffset DEF PositionFacts
<1>i. ~Publishing /\ Publishing' /\ HpReg = write_index /\ HpReg' = write_index
  <2>1. ~Publishing BY <1>c, <1>t DEF Publishing, Critical
  <2>2. Publishing' BY <1>d DEF Publishing
  <2> QED BY <2>1, <2>2, <1>g DEF HpReg, PrevIndex
<1>j. /\ StatusTail' = StatusTail /\ StatusHead' = StatusHead
      /\ DevTail' = DevTail /\ TailKnown'
  <2>1. pc["tasklet"] \in {"took", "stop"} => pc'["tasklet"] \in {"took", "stop"}
    BY <1>d, <1>t DEF Ctx
  <2>2. TailKnown' BY <2>1, <1>u, TailStays DEF IInv, InvPointers
  <2> QED BY <2>2, <1>u, <1>v DEF StatusTail, StatusHead, DevTail
<1>k. /\ Span(StatusTail)' = Span(StatusTail) /\ Span(StatusHead)' = Span(StatusHead)
      /\ Span(DevTail)' = Span(DevTail)
  BY Zenon, <1>f, <1>j, <1>v, <1>P DEF PositionFacts, Span
<1>l. \A i \in Index : skb'[i] = IF i = write_index THEN b ELSE skb[i]
  BY Zenon, <1>v, <1>P DEF PositionFacts, IInv, TypeOK, TypePipe
<1>m. \A i \in Index : i = write_index <=> Span(i) = Posted
  BY <1>P DEF PositionFacts
<1>n. own'[b] = "ring" /\ \A x \in Bufs : x # b => own'[x] = own[x]
  BY <1>a, <1>t DEF IInv, TypeOK, TypeBuffers
<1>1. TypeOK'
  <2>1. d_hp' \in DstOffsets BY <1>g, <1>h DEF DstOffsets
  <2>2. TypeRings'
    BY <2>1, <1>a, <1>u, Zenon DEF EnqueueFill, IInv, TypeOK, TypeRings
  <2>3. rx_buf_needed' \in 0 .. NEntries - 2
    BY <1>e, <1>v DEF IInv, TypeOK, TypePipe, Posted
  <2>4. TypePipe' BY <2>3, <1>a, <1>g, <1>v DEF IInv, TypeOK, TypePipe
  <2>5. TypeContext' BY <1>t DEF IInv, TypeOK, TypeContext
  <2>6. TypeBuffers' BY Zenon, <1>t DEF EnqueueFill, IInv, TypeOK, TypeBuffers
  <2>7. TypeFlags' BY DEF EnqueueFill, device, irq, IInv, TypeOK, TypeFlags
  <2> QED BY <2>2, <2>4, <2>5, <2>6, <2>7 DEF TypeOK
<1>2. InvLock'
  BY <1>d, <1>t DEF IInv, InvLock, Critical, TaskletOnly
<1>3. InvNeeded' BY <1>c, <1>d DEF InvNeeded, Critical
<1>4. InvHeld'
  <2>1. \A d \in Ctx : cur'[d] = IF d = c THEN NoBuf ELSE cur[d]
    BY Zenon, <1>t DEF IInv, TypeOK, TypeContext
  <2>2. \A d \in Ctx : cur'[d] \in Bufs => cur'[d] # b /\ own'[cur'[d]] = own[cur'[d]]
    BY <2>1, <1>a, <1>n
  <2>3. mapped \subseteq Bufs BY DEF IInv, TypeOK, TypeBuffers
  <2>4. \A d \in Ctx : /\ Holds(d)' <=> d # c /\ Holds(d)
                       /\ d # c => cur'[d] = cur[d]
                       /\ d = c => cur'[d] = NoBuf
    BY <2>1, <1>d DEF Holds
  <2>5. \A d \in Ctx : d # c /\ Holds(d) => cur[d] \in mapped /\ own'[cur[d]] = "cpu"
    BY <2>2, <2>3, <2>4 DEF IInv, InvHeld
  <2>6. \A d \in Ctx : IF Holds(d)' THEN cur'[d] \in mapped /\ own'[cur'[d]] = "cpu"
                                   ELSE cur'[d] = NoBuf
    BY <2>4, <2>5 DEF IInv, InvHeld
  <2>7. \A d, e \in Ctx : Holds(d)' /\ cur'[d] = cur'[e] => d = e
    BY <2>3, <2>4, <2>5 DEF IInv, InvHeld
  <2> QED BY <2>6, <2>7, <1>t DEF InvHeld
<1>8. InvPointers' BY <1>u, <1>v, <1>h, <1>i, <1>j DEF IInv, InvPointers
<1>9. InvOrder'
  <2>1. /\ Span(write_index)' = Posted + 1
        /\ Span(HpReg)' = Posted
    BY Zenon, <1>u, <1>v, <1>f, <1>g, <1>i, <1>P DEF PositionFacts, Span
  <2>2. pc'["tasklet"] = "take" => pc["tasklet"] = "take"
    BY <1>d DEF Ctx
  <2>3. Span(StatusHead)' + (IF dev_buf' = NoBuf THEN 0 ELSE 1) <= Span(HpReg)'
    BY <2>1, <1>u, <1>i, <1>k, <1>P DEF PositionFacts
  <2>4. pc'["tasklet"] = "take" =>
            \E j \in Index : /\ s_cached_hp' = StatusES * j
                             /\ Span(StatusTail)' <= Span(j)'
                             /\ Span(j)' <= Span(StatusHead)'
    BY <2>2, <1>u, <1>f, <1>k DEF IInv, InvOrder
  <2> QED BY <2>1, <2>3, <2>4, <1>e, <1>k, <1>P DEF PositionFacts, InvOrder
<1>10. InvTail' BY <1>u, <1>c, <1>d, <1>j DEF IInv, InvTail, Critical
<1>11. InvSkb'
  <2>1. \A i \in Index : Span(i)' >= Posted' => skb'[i] = NoBuf
    BY <1>e, <1>f, <1>l, <1>m, <1>P DEF PositionFacts, IInv, InvSkb
  <2>2. ASSUME NEW i \in Index, Span(i)' < Posted'
        PROVE  skb'[i] \in Bufs /\ own'[skb'[i]] = "ring" /\ skb'[i] \in mapped'
    <3>1. CASE i = write_index BY <3>1, <1>a, <1>l, <1>n, <1>t
    <3>2. CASE i # write_index
      <4>1. Span(i) < Posted BY <3>2, <2>2, <1>e, <1>f, <1>m, <1>P DEF PositionFacts
      <4>2. Writable(skb[i]) BY <4>1 DEF IInv, InvSkb
      <4>3. skb[i] # b BY <4>2, <1>a DEF Writable
      <4> QED BY <3>2, <4>2, <4>3, <1>l, <1>n, <1>t DEF Writable
    <3> QED BY <3>1, <3>2
  <2>3. \A i \in Index : skb[i] # b
    <3>1. SUFFICES ASSUME NEW i \in Index, skb[i] = b PROVE FALSE OBVIOUS
    <3>2. CASE Span(i) < Posted BY <3>1, <3>2, <1>a DEF IInv, InvSkb, Writable
    <3>3. CASE Span(i) >= Posted BY <3>1, <3>3, <1>a DEF IInv, InvSkb
    <3> QED BY <3>2, <3>3, <1>P DEF PositionFacts
  <2>4. \A i, j \in Index : skb'[i] = skb'[j] /\ skb'[i] # NoBuf => i = j
    BY <1>l, <2>3 DEF IInv, InvSkb
  <2> QED BY <2>1, <2>2, <2>4 DEF InvSkb, Writable
<1>12. InvEntries'
  <2>1. ASSUME NEW i \in Index, Span(DevTail) <= Span(i), Span(i) <= Posted
        PROVE  d_desc'[DstES * i] = skb'[i]
    <3>1. DstES * i \in 0 .. DstRS - 1 BY DstOffset
    <3>2. CASE i = write_index
      BY <3>1, <3>2, <1>h, <1>l, <1>u DEF IInv, TypeOK, TypeRings
    <3>3. CASE i # write_index
      <4>1. DstES * i # d_hp
        BY <3>3, <1>h, <1>P, DstOffset DEF PositionFacts
      <4>2. d_desc[DstES * i] = skb[i]
        BY <3>3, <2>1, <1>m, <1>P DEF PositionFacts, IInv, InvEntries
      <4> QED BY <3>1, <3>3, <4>1, <4>2, <1>l, <1>u DEF IInv, TypeOK, TypeRings
    <3> QED BY <3>2, <3>3
  <2>4. dev_buf # NoBuf => StatusHead # write_index
    BY <1>m, <1>P DEF PositionFacts
  <2>5. dev_buf # NoBuf => dev_buf = skb'[StatusHead]
    BY <2>4, <1>l, <1>P DEF PositionFacts, IInv, InvEntries
  <2>6. \A i \in Index : Span(DevTail)' <= Span(i)' /\ Span(i)' < Posted'
                             => d_desc'[DstES * i] = skb'[i]
    BY <2>1, <1>e, <1>f, <1>k, <1>P DEF PositionFacts
  <2>7. dev_buf' = dev_buf /\ StatusHead' = StatusHead BY <1>u, <1>j
  <2> QED BY <2>5, <2>6, <2>7 DEF InvEntries
<1>13. InvMatch'
  <2>1. Span(StatusHead) <= Posted BY <1>P DEF PositionFacts
  <2>2. \A i \in Index : Span(i) < Span(StatusHead) => i # write_index
    BY <2>1, <1>m, <1>P DEF PositionFacts
  <2>3. NoZeroLength => \A i \in Index : Span(i) < Span(StatusHead) =>
            s_desc[StatusES * i] = fill[skb'[i]] /\ s_desc[StatusES * i] # "zero"
    BY <2>2, <1>l DEF IInv, InvMatch
  <2>4. pc'["tasklet"] \in {"took", "got"} =>
            /\ pc["tasklet"] \in {"took", "got"}
            /\ fill'[cur'["tasklet"]] = fill[cur["tasklet"]]
    BY <1>d, <1>t DEF IInv, TypeOK, TypeContext, Ctx
  <2> QED BY <2>3, <2>4, <1>t, <1>u, <1>v, <1>f, <1>j, <1>k DEF IInv, InvMatch
<1> QED
  BY <1>1, <1>2, <1>3, <1>4, <1>8, <1>9, <1>10, <1>11, <1>12, <1>13 DEF IInv

\* enqueue_pipe finds no free entry.
LEMMA StepEnqueueFull == ASSUME NEW c \in Ctx, IInv, EnqueueFull(c) PROVE IInv'
<1>0. /\ pc[c] = "fill" /\ pc' = [pc EXCEPT ![c] = "nospc"]
      /\ UNCHANGED <<hostRings, pipe, shared, device, irq, tq_sched, timer_armed>>
      /\ UNCHANGED <<lock, cur, nbytes, buffers, fails>>
  BY DEF EnqueueFull, At, Goto
<1>1. TypeOK'
  BY <1>0, RingAssumption, ConfigAssumption
  DEF hostRings, pipe, shared, device, irq, buffers, IInv, TypeOK,
      TypeRings, TypePipe, TypeFlags, TypeContext, TypeBuffers, Ctx
<1>2. InvLock'
  BY <1>0 DEF IInv, TypeOK, TypeContext, InvLock, Ctx, Critical, TaskletOnly
<1>3. \A d \in Ctx : pc'[d] = IF d = c THEN "nospc" ELSE pc[d]
  BY <1>0 DEF IInv, TypeOK, TypeContext
<1>4. InvNeeded' BY <1>0, <1>3 DEF pipe, IInv, InvNeeded
<1>5. InvHeld'
  <2>1. UNCHANGED <<cur, mapped, own>> BY <1>0 DEF buffers
  <2>2. \A d \in Ctx : Holds(d)' = Holds(d) BY <1>0, <1>3 DEF Holds
  <2> QED BY <2>1, <2>2 DEF IInv, InvHeld
<1>6. Still
  <2>1. /\ Publishing' = Publishing
        /\ pc["tasklet"] \in {"took", "stop", "got"} \/ pc'["tasklet"] \in {"took", "got"}
               => pc'["tasklet"] = pc["tasklet"]
        /\ pc'["tasklet"] = "take" => pc["tasklet"] = "take"
    BY <1>0, <1>3 DEF Publishing, Ctx
  <2>2. HpReg' = HpReg /\ TailKnown'
    BY <1>0, <2>1, TailStays
    DEF HpReg, PrevIndex, pipe, hostRings, shared, IInv, InvPointers
  <2>3. \A b \in Bufs : Writable(b) => Writable(b)'
    BY <1>0 DEF Writable, buffers
  <2> QED
    BY <1>0, <2>1, <2>2, <2>3 DEF Still, IInv, InvPointers, hostRings,
       pipe, shared, device, buffers
<1>7. InvPlaces' BY <1>6, StillFrame
<1>8. ~PromptTp BY <1>0, RoomForBuffer DEF EnqueueFull
<1>9. InvTail' BY <1>8 DEF InvTail
<1> QED BY <1>1, <1>2, <1>4, <1>5, <1>7, <1>9 DEF IInv, InvPlaces

\* post_pipe gives the skb up that found no entry.
LEMMA StepEnqueueFullEnd ==
    ASSUME NEW c \in Ctx, IInv, EnqueueFullEnd(c) PROVE IInv'
<1>1. TypeOK'
  BY RingAssumption, ConfigAssumption
  DEF EnqueueFullEnd, Goto, hostRings, pipe, shared, device, irq, IInv, TypeOK,
      TypeRings, TypePipe, TypeFlags, TypeContext, TypeBuffers, Ctx
<1>2. InvLock'
  BY DEF EnqueueFullEnd, At, Goto, IInv, TypeOK, TypeContext, InvLock, Ctx,
         Critical, TaskletOnly
<1>3. pc[c] = "nospc" /\ \A d \in Ctx : pc'[d] = IF d = c THEN "idle" ELSE pc[d]
  BY DEF EnqueueFullEnd, At, Goto, IInv, TypeOK, TypeContext
<1>4. cur[c] \in Bufs /\ own[cur[c]] = "cpu"
  BY <1>3 DEF IInv, InvHeld, Holds, TypeOK, TypeBuffers
<1>5. InvNeeded' BY <1>3 DEF EnqueueFullEnd, pipe, IInv, InvNeeded
<1>6. InvHeld'
  <2>1. \A d \in Ctx : Holds(d)' <=> d # c /\ Holds(d) BY <1>3 DEF Holds
  <2>2. \A d \in Ctx : d # c /\ Holds(d) =>
            cur[d] # cur[c] /\ cur[d] \in mapped /\ cur[d] \in Bufs
    BY <1>3 DEF IInv, InvHeld, Holds, TypeOK, TypeBuffers
  <2>3. \A d \in Ctx : cur'[d] = IF d = c THEN NoBuf ELSE cur[d]
    BY DEF EnqueueFullEnd, IInv, TypeOK, TypeContext
  <2>4. \A d \in Ctx : IF Holds(d)'
            THEN cur'[d] \in mapped' /\ own'[cur'[d]] = "cpu"
            ELSE cur'[d] = NoBuf
    BY <2>1, <2>2, <2>3 DEF EnqueueFullEnd, IInv, TypeOK, TypeBuffers, InvHeld
  <2>5. \A d, e \in Ctx : Holds(d) /\ cur[d] = cur[e] => d = e BY DEF IInv, InvHeld
  <2>6. ASSUME NEW d \in Ctx, NEW e \in Ctx, Holds(d)', cur'[d] = cur'[e]
        PROVE  d = e
    <3>1. d # c /\ Holds(d) /\ cur'[d] = cur[d] /\ cur[d] \in Bufs
      BY <2>1, <2>2, <2>3, <2>6
    <3>2. e # c BY <3>1, <2>3, <2>6, ConfigAssumption
    <3> QED BY <3>1, <3>2, <2>3, <2>5, <2>6
  <2> QED BY <2>4, <2>6 DEF InvHeld
<1>7. Still
  <2>1. ~Publishing BY <1>3, OnePublisher DEF Publishing, Critical
  <2>2. /\ ~Publishing'
        /\ pc["tasklet"] \in {"took", "stop", "got"} \/ pc'["tasklet"] \in {"took", "got"}
               => pc'["tasklet"] = pc["tasklet"]
        /\ pc'["tasklet"] = "take" => pc["tasklet"] = "take"
    BY <1>3, <2>1 DEF Publishing, Ctx
  <2>3. HpReg' = write_index /\ TailKnown'
    BY <2>2, TailStays
    DEF EnqueueFullEnd, HpReg, PrevIndex, pipe, hostRings, IInv, InvPointers
  <2>4. \A b \in Bufs : Writable(b) => Writable(b)'
    BY <1>4 DEF EnqueueFullEnd, Writable, IInv, TypeOK, TypeBuffers
  <2>5. pc["tasklet"] \in {"took", "got"} => cur'["tasklet"] = cur["tasklet"]
    BY <1>3 DEF EnqueueFullEnd, IInv, TypeOK, TypeContext, Ctx
  <2> QED
    BY <2>2, <2>3, <2>4, <2>5 DEF EnqueueFullEnd, Still, IInv, InvPointers, hostRings,
       pipe, device
<1>8. InvPlaces' BY <1>7, StillFrame
<1>9. InvTail' BY <1>3, <1>7, TailFrame DEF EnqueueFullEnd, hostRings
<1> QED BY <1>1, <1>2, <1>5, <1>6, <1>8, <1>9 DEF IInv, InvPlaces
=============================================================================
