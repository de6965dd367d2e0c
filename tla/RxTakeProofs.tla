--------------------------- MODULE RxTakeProofs ----------------------------
(***************************************************************************)
(* Preservation of the invariant of RxPipe by the steps of recv_next that   *)
(* consume a status entry, with its skb or, when it is empty, without, by   *)
(* the tasklet that keeps the skb, and by the steps of the device that      *)
(* fetch a buffer and announce it.                                          *)
(***************************************************************************)
EXTENDS RxInvariantProofs

\* recv_next consumes the next status entry and takes the oldest posted skb.
LEMMA StepRecvTake == ASSUME IInv, RecvTake PROVE IInv'
<1>P. PositionFacts BY Positions
<1> USE RingAssumption, ConfigAssumption
<1> DEFINE b == skb[sw_index]
<1>t. /\ pc["tasklet"] = "take" /\ s_tp # s_cached_hp /\ nbytes' = s_desc[s_tp]
      /\ pc' = [pc EXCEPT !["tasklet"] = "took"]
      /\ cur' = [cur EXCEPT !["tasklet"] = b]
  BY DEF RecvTake, At, Goto
<1>v. /\ s_tp' = DstNext(s_tp, StatusES, StatusRS)
      /\ sw_index' = NextIndex(sw_index, NEntries)
      /\ rx_buf_needed' = rx_buf_needed + 1
      /\ skb' = [skb EXCEPT ![sw_index] = NoBuf]
      /\ own' = [own EXCEPT ![b] = "cpu"]
  BY DEF RecvTake
<1>u. UNCHANGED <<d_hp, d_cached_tp, s_cached_hp, write_index, shared, dev_tp,
                  dev_buf, mapped, fill, lock>>
  BY DEF RecvTake, device
<1>a. /\ Span(StatusTail) < Span(StatusHead) /\ Posted >= 1
      /\ s_tp = StatusES * StatusTail
      /\ b \in Bufs /\ own[b] = "ring" /\ b \in mapped
      /\ NoZeroLength => StatusTail = sw_index /\ s_desc[s_tp] = fill[b]
  BY <1>t, AnnouncedSkb DEF Writable
<1>b. "tasklet" \in Ctx BY DEF Ctx
<1>c. \A d \in Ctx : pc[d] \in Critical => d = "tasklet"
  BY <1>b, <1>t, OnePublisher DEF Critical
<1>d. \A d \in Ctx : pc'[d] = IF d = "tasklet" THEN "took" ELSE pc[d]
  BY <1>b, <1>t DEF IInv, TypeOK, TypeContext
<1>e. sw_index' \in Index /\ sw_index' = NextIndex(sw_index, NEntries)
  BY <1>P, <1>v, IndexNext DEF PositionFacts
<1>f. /\ s_tp' = StatusES * StatusTail' /\ StatusTail' \in Index
      /\ StatusTail' = NextIndex(StatusTail, NEntries)
  <2>1. /\ s_tp' = StatusES * NextIndex(StatusTail, NEntries)
        /\ NextIndex(StatusTail, NEntries) \in Index
    BY <1>a, <1>P, <1>v, StatusOffset, IndexNext DEF PositionFacts
  <2>2. StatusTail' = NextIndex(StatusTail, NEntries)
    BY <2>1, StatusOffset DEF StatusTail
  <2> QED BY <2>1, <2>2
<1>g. Posted' = Posted - 1 BY <1>v DEF Posted, IInv, TypeOK, TypePipe
<1>h. \A i \in Index : Span(i)' = IF i = sw_index THEN NEntries - 1 ELSE Span(i) - 1
  <2>1. sw_index \in 0 .. NEntries - 1 BY <1>P DEF PositionFacts, Index
  <2> QED BY <2>1, <1>e, DistNext DEF Span, Index
<1>i. ~Publishing /\ ~Publishing' BY <1>c, <1>d, <1>t DEF Publishing, Critical
<1>j. HpReg = write_index /\ HpReg' = write_index BY <1>i, <1>u DEF HpReg
<1>k. StatusHead' = StatusHead /\ DevTail' = DevTail BY <1>u DEF StatusHead, DevTail, shared
<1>l. StatusHead # sw_index /\ DevTail # sw_index /\ write_index # sw_index
  BY <1>a, <1>P DEF PositionFacts
<1>m. /\ Span(StatusHead)' = Span(StatusHead) - 1
      /\ Span(DevTail)' = Span(DevTail) - 1
      /\ Span(write_index)' = Span(write_index) - 1
  BY <1>h, <1>k, <1>l, <1>u, <1>P DEF PositionFacts, Span
<1>n. Span(StatusTail)' = Span(StatusTail)
  <2>1. /\ StatusTail \in 0 .. NEntries - 1 /\ sw_index \in 0 .. NEntries - 1
        /\ Span(StatusTail) < NEntries - 1
    BY <1>a, <1>P DEF PositionFacts, Index
  <2>2. Span(StatusTail') = Span(StatusTail) + 1
    BY <2>1, <1>f, DistNext DEF Span
  <2>3. StatusTail' # sw_index BY <2>2, <1>P DEF PositionFacts
  <2>4. Span(StatusTail)' = Span(StatusTail') - 1 BY <2>3, <1>f, <1>h DEF Span
  <2> QED BY <2>2, <2>4, <1>P DEF PositionFacts
<1>o. own'[b] = "cpu" /\ \A x \in Bufs : x # b => own'[x] = own[x]
  BY <1>a, <1>v DEF IInv, TypeOK, TypeBuffers
<1>p. \A i \in Index : skb'[i] = IF i = sw_index THEN NoBuf ELSE skb[i]
  BY <1>v, <1>P DEF PositionFacts, IInv, TypeOK, TypePipe
<1>1. TypeOK'
  <2>1. s_tp' \in StatusOffsets BY <1>f DEF StatusOffsets
  <2>2. TypeRings' BY <2>1, <1>u, Zenon DEF IInv, TypeOK, TypeRings, shared
  <2>3. rx_buf_needed' \in 0 .. NEntries - 2
    BY <1>a, <1>v DEF IInv, TypeOK, TypePipe, Posted
  <2>4. TypePipe' BY <2>3, <1>e, <1>u, <1>v DEF IInv, TypeOK, TypePipe
  <2>5. s_desc[s_tp] \in Lengths
    <3>1. s_tp \in 0 .. StatusRS - 1
      BY <1>a, <1>P, StatusOffset DEF PositionFacts
    <3> QED BY <3>1 DEF IInv, TypeOK, TypeRings
  <2>6. TypeContext' BY <1>a, <1>b, <1>t, <1>u, <2>5, Zenon DEF IInv, TypeOK, TypeContext
  <2>7. TypeBuffers' BY <1>u, <1>v, Zenon DEF RecvTake, IInv, TypeOK, TypeBuffers
  <2>8. TypeFlags' BY DEF RecvTake, irq, device, IInv, TypeOK, TypeFlags
  <2> QED BY <2>2, <2>4, <2>6, <2>7, <2>8 DEF TypeOK
<1>2. InvLock'
  BY <1>d, <1>t, <1>u DEF IInv, InvLock, Critical, TaskletOnly
<1>3. InvNeeded' BY <1>c, <1>d DEF InvNeeded, Critical
<1>4. InvHeld'
  <2>1. \A d \in Ctx : cur'[d] = IF d = "tasklet" THEN b ELSE cur[d]
    BY <1>b, <1>t DEF IInv, TypeOK, TypeContext
  <2>2. \A d \in Ctx : d # "tasklet" => cur[d] # b
    BY <1>a DEF IInv, InvHeld
  <2>3. \A d \in Ctx : Holds(d)' <=> d = "tasklet" \/ Holds(d)
    BY <1>d DEF Holds
  <2>4. \A d \in Ctx : d # "tasklet" /\ Holds(d) =>
            cur[d] \in mapped /\ own'[cur[d]] = "cpu"
    BY <2>2, <1>o DEF IInv, InvHeld, TypeOK, TypeBuffers
  <2>5. \A d \in Ctx : IF Holds(d)' THEN cur'[d] \in mapped' /\ own'[cur'[d]] = "cpu"
                                   ELSE cur'[d] = NoBuf
    BY <2>1, <2>3, <2>4, <1>a, <1>o, <1>u DEF IInv, InvHeld
  <2>6. \A d, e \in Ctx : Holds(d)' /\ cur'[d] = cur'[e] => d = e
    BY <2>1, <2>2, <2>3 DEF IInv, InvHeld
  <2> QED BY <2>5, <2>6 DEF InvHeld
<1>5. InvMatch'
  <2>1. fill'[cur'["tasklet"]] = fill[b]
    BY <1>b, <1>t, <1>u DEF IInv, TypeOK, TypeContext
  <2>2. NoZeroLength => StatusTail' = sw_index' BY <1>a, <1>e, <1>f
  <2>3. NoZeroLength => \A i \in Index : Span(i) < Span(StatusHead) =>
            s_desc[StatusES * i] = fill[skb[i]] /\ s_desc[StatusES * i] # "zero"
    BY DEF IInv, InvMatch
  <2>4. \A i \in Index : Span(i)' < Span(StatusHead)' =>
            i # sw_index /\ Span(i) < Span(StatusHead)
    BY <1>h, <1>m, <1>P DEF PositionFacts
  <2> QED
    BY <2>1, <2>2, <2>3, <2>4, <1>a, <1>p, <1>t, <1>u DEF InvMatch, NoZeroLength, shared
<1> HIDE DEF b
<1>8. InvPointers'
  <2>1. s_tp_reg = s_tp BY <1>t DEF IInv, InvPointers, TailKnown
  <2>2. PrevIndex(StatusTail') = StatusTail BY <1>f, <1>P, IndexNext DEF PositionFacts
  <2>3. TailKnown'
    BY <2>1, <2>2, <1>a, <1>b, <1>d, <1>u DEF TailKnown, PrevIndex, shared
  <2> QED BY <1>u, <1>f, <1>j, <1>k, <2>3 DEF IInv, InvPointers, shared
<1>9. InvOrder'
  <2>1. Span(HpReg)' = Posted - 1 BY <1>u, <1>j, <1>m, <1>P DEF PositionFacts, Span
  <2> QED
    BY <2>1, <1>a, <1>t, <1>u, <1>b, <1>d, <1>g, <1>i, <1>j, <1>m, <1>n, <1>P
       DEF PositionFacts, IInv, InvOrder
<1>10. InvTail'
  <2>1. \A d \in Ctx : pc'[d] # "fill" /\ (pc'[d] = "nospc" => pc[d] = "nospc")
    BY <1>c, <1>d DEF Critical
  <2> QED BY <1>u, <1>k, <2>1 DEF IInv, InvTail, shared
<1>11. InvSkb'
  <2>3. \A i \in Index : Span(i)' >= Posted' => skb'[i] = NoBuf
    BY <1>g, <1>h, <1>p, <1>P DEF PositionFacts, IInv, InvSkb
  <2>4. ASSUME NEW i \in Index, Span(i)' < Posted' 
        PROVE  skb'[i] \in Bufs /\ own'[skb'[i]] = "ring" /\ skb'[i] \in mapped'
    <3>1. i # sw_index /\ Span(i) < Posted BY <2>4, <1>g, <1>h, <1>P DEF PositionFacts
    <3>2. Writable(skb[i]) BY <3>1 DEF IInv, InvSkb
    <3>3. skb[i] # b
        BY <3>1, <3>2, <1>P, ConfigAssumption DEF PositionFacts, IInv, InvSkb, Writable, b
    <3>4. skb'[i] = skb[i] BY <3>1, <1>p
    <3> QED BY <1>u, <3>2, <3>3, <3>4, <1>o DEF Writable
  <2>5. \A i, j \in Index : skb'[i] = skb'[j] /\ skb'[i] # NoBuf => i = j
    BY <1>p DEF IInv, InvSkb
  <2> QED BY <2>3, <2>4, <2>5 DEF InvSkb, Writable
<1>12. InvEntries'
  <2>2. \A i \in Index : Span(i)' < Posted' => i # sw_index
    BY <1>g, <1>h, <1>P DEF PositionFacts
  <2>4. \A i \in Index : Span(DevTail)' <= Span(i)' /\ Span(i)' < Posted'
            => d_desc[DstES * i] = skb'[i]
    BY <2>2, <1>g, <1>h, <1>m, <1>p, <1>P DEF PositionFacts, IInv, InvEntries
  <2>6. dev_buf # NoBuf => dev_buf = skb'[StatusHead]
    BY <1>l, <1>p, <1>P DEF PositionFacts, IInv, InvEntries
  <2> QED BY <1>u, <2>4, <2>6, <1>k DEF InvEntries, shared
<1> QED
  BY <1>1, <1>2, <1>3, <1>4, <1>5, <1>8, <1>9, <1>10, <1>11, <1>12 DEF IInv

\* The device fetching a dst entry preserves the invariant.
LEMMA StepDevFetch == ASSUME IInv, DevFetch PROVE IInv'
<1>P. PositionFacts BY Positions
<1> USE RingAssumption, ConfigAssumption
<1>t. /\ dev_buf = NoBuf /\ dev_tp # d_hp_reg
      /\ dev_buf' = d_desc[dev_tp]
      /\ dev_tp' = SrcNext(dev_tp, DstES, DstRS)
  BY DEF DevFetch
<1>u. /\ d_desc' = [d_desc EXCEPT ![dev_tp] = NoBuf]
      /\ UNCHANGED <<hostRings, pipe, d_hp_reg, d_tp_mem, s_hp_mem, s_tp_reg,
                     s_desc, context, buffers>>
  BY DEF DevFetch
<1>a. dev_tp = DstES * StatusHead /\ d_hp_reg = DstES * HpReg
  BY <1>t DEF IInv, InvPointers, DevTail
<1>b. Span(StatusHead) < Span(HpReg) /\ Span(HpReg) <= Posted
  <2>1. StatusHead # HpReg BY <1>a, <1>t
  <2>2. Span(StatusHead) # Span(HpReg)
    BY <2>1, <1>P DEF PositionFacts
  <2> QED BY <2>2, <1>P DEF PositionFacts
<1>c. dev_buf' = skb[StatusHead] /\ Writable(dev_buf')
  BY <1>a, <1>b, <1>t, <1>P
  DEF PositionFacts, IInv, InvEntries, InvSkb, DevTail
<1>d. dev_buf' \in Bufs /\ dev_buf' # NoBuf BY <1>c DEF Writable
<1>e. dev_tp' = DstES * NextIndex(StatusHead, NEntries)
  BY <1>a, <1>t, <1>P, DstOffset DEF PositionFacts
<1>f. StatusHead' = StatusHead BY <1>u DEF StatusHead
<1>5. /\ Posted' = Posted /\ HpReg' = HpReg /\ StatusTail' = StatusTail
      /\ Publishing' = Publishing /\ \A i \in Index : Span(i)' = Span(i)
  BY <1>u DEF Posted, HpReg, StatusTail, Publishing, Span, pipe, context, hostRings
<1>6. TailKnown' BY <1>u, TailStays DEF IInv, InvPointers, hostRings, context
<1>g. DevTail' = NextIndex(StatusHead, NEntries) BY <1>d, <1>f DEF DevTail
<1>h. /\ DevTail' \in Index
      /\ Span(DevTail') = Span(StatusHead) + 1
  <2>1. /\ StatusHead \in 0 .. NEntries - 1 /\ sw_index \in 0 .. NEntries - 1
        /\ Span(StatusHead) < NEntries - 1
    BY <1>b, <1>P DEF PositionFacts, Index
  <2>2. /\ NextIndex(StatusHead, NEntries) \in 0 .. NEntries - 1
        /\ Dist(sw_index, NextIndex(StatusHead, NEntries), NEntries)
               = Dist(sw_index, StatusHead, NEntries) + 1
    BY <2>1, DistNext DEF Span
  <2> QED BY <1>g, <2>2 DEF Span, Index
<1>1. TypeOK'
  <2>1. dev_tp' \in DstOffsets BY <1>e, <1>g, <1>h DEF DstOffsets
  <2>2. TypeRings'
    BY <1>d, <1>u, <2>1, Zenon DEF IInv, TypeOK, TypeRings, hostRings
  <2>3. TypePipe' /\ TypeContext'
    BY <1>u DEF IInv, TypeOK, TypePipe, TypeContext, pipe, context
  <2>4. TypeFlags' BY DEF DevFetch, irq, IInv, TypeOK, TypeFlags
  <2>5. TypeBuffers' BY DEF DevFetch, buffers, IInv, TypeOK, TypeBuffers
  <2> QED BY <2>2, <2>3, <2>4, <2>5 DEF TypeOK
<1>2. InvLock' BY <1>u DEF IInv, InvLock, context
<1>3. InvNeeded' BY <1>u DEF IInv, InvNeeded, context, pipe
<1>4. InvHeld' BY <1>u DEF IInv, InvHeld, Holds, context, buffers
<1>8. InvPointers' 
  BY <1>u, <1>5, <1>6, <1>e, <1>f, <1>g DEF IInv, InvPointers, hostRings, pipe
<1>9. InvOrder'
  <2>1. /\ Span(StatusTail)' = Span(StatusTail)
        /\ Span(StatusHead)' = Span(StatusHead) /\ Span(HpReg)' = Span(HpReg)
        /\ Span(write_index)' = Span(write_index)
    BY <1>u, <1>5, <1>f DEF Span, pipe
  <2>2. Span(StatusHead) + 1 <= Span(HpReg) BY <1>b, <1>P DEF PositionFacts
  <2> QED
    BY <1>u, <1>5, <1>d, <2>1, <2>2 DEF IInv, InvOrder, context, hostRings
<1>10. InvTail' 
  BY <1>u, <1>5, <1>a, <1>f DEF IInv, InvTail, context, hostRings
<1>11. InvSkb' BY <1>u, <1>5 DEF IInv, InvSkb, Writable, pipe, buffers
<1>12. InvEntries'
  <2>1. ASSUME NEW i \in Index, Span(DevTail') <= Span(i), Span(i) < Posted
        PROVE  d_desc'[DstES * i] = skb[i]
    <3>1. i # StatusHead BY <2>1, <1>h, <1>P DEF PositionFacts
    <3>2. DstES * i # dev_tp
      BY <3>1, <1>a, <1>P, DstOffset DEF PositionFacts
    <3>3. d_desc[DstES * i] = skb[i]
      BY <2>1, <1>t, <1>h, <1>P DEF PositionFacts, IInv, InvEntries, DevTail
    <3>4. DstES * i \in 0 .. DstRS - 1 BY DstOffset
    <3> QED BY <1>u, <3>2, <3>3, <3>4 DEF IInv, TypeOK, TypeRings
  <2>2. Span(DevTail)' = Span(DevTail') BY <1>u DEF Span, pipe
  <2> QED
    BY <1>u, <1>5, <1>c, <1>f, <2>1, <2>2 DEF IInv, InvEntries, pipe, buffers
<1>13. InvMatch'
  <2>1. Span(StatusHead)' = Span(StatusHead) BY <1>u, <1>f DEF Span, pipe
  <2> QED
    BY <2>1, <1>u, <1>5 DEF IInv, InvMatch, pipe, context, buffers
<1> QED
  BY <1>1, <1>2, <1>3, <1>4, <1>8, <1>9, <1>10, <1>11, <1>12, <1>13 DEF IInv

\* The device announcing a filled buffer preserves the invariant.
LEMMA StepDevComplete == ASSUME IInv, DevComplete PROVE IInv'
<1>P. PositionFacts BY Positions
<1> USE RingAssumption, ConfigAssumption
<1>u. /\ UNCHANGED <<hostRings, pipe, d_hp_reg, d_tp_mem, s_tp_reg, d_desc, dev_tp,
                     context, own, mapped>>
      /\ dev_buf' = NoBuf /\ dev_buf # NoBuf /\ (PromptTp => d_tp_mem = dev_tp)
      /\ s_hp_mem' = SrcNext(s_hp_mem, StatusES, StatusRS)
  BY DEF DevComplete
<1>a. PICK len \in DevLens :
          /\ s_desc' = [s_desc EXCEPT ![s_hp_mem] = len]
          /\ fill' = [fill EXCEPT ![dev_buf] = len]
  BY Zenon DEF DevComplete
<1>b. len \in Lengths /\ (NoZeroLength => len # "zero") BY DEF NoZeroLength
<1>c. s_hp_mem = StatusES * StatusHead BY DEF IInv, InvPointers
<1>d. s_hp_mem' = StatusES * DevTail
  BY <1>c, <1>u, <1>P, StatusOffset DEF PositionFacts, DevTail
<1>e. StatusHead' = DevTail /\ DevTail' = DevTail
  <2>1. StatusHead' = DevTail
    BY <1>d, <1>P, StatusOffset DEF PositionFacts, StatusHead
  <2> QED BY <2>1, <1>u DEF DevTail
<1>f. /\ dev_buf = skb[StatusHead] /\ Writable(dev_buf)
      /\ Span(DevTail) = Span(StatusHead) + 1 /\ Span(DevTail) <= Posted
  <2>1. Span(DevTail) = Span(StatusHead) + 1 /\ Span(DevTail) <= Posted
    BY <1>u, <1>P DEF PositionFacts
  <2>2. dev_buf = skb[StatusHead] BY <1>u DEF IInv, InvEntries
  <2>3. StatusHead \in Index /\ Span(StatusHead) < Posted
    BY <2>1, <1>P DEF PositionFacts
  <2>4. Writable(skb[StatusHead]) BY <2>3 DEF IInv, InvSkb
  <2> QED BY <2>1, <2>2, <2>4
<1>5. /\ Posted' = Posted /\ HpReg' = HpReg /\ StatusTail' = StatusTail
      /\ Publishing' = Publishing /\ \A i \in Index : Span(i)' = Span(i)
  BY <1>u DEF Posted, HpReg, StatusTail, Publishing, Span, pipe, context, hostRings
<1>6. TailKnown' BY <1>u, TailStays DEF IInv, InvPointers, hostRings, context
<1>g. Span(StatusHead)' = Span(DevTail) BY <1>e, <1>5, <1>P DEF PositionFacts, Span
<1>h. Span(DevTail)' = Span(DevTail) BY <1>e, <1>5, <1>P DEF PositionFacts, Span
<1>1. TypeOK'
  <2>1. s_hp_mem' \in StatusOffsets BY <1>d, <1>P DEF PositionFacts, StatusOffsets
  <2>2. TypeRings' 
    BY <2>1, <1>a, <1>b, <1>u, Zenon DEF IInv, TypeOK, TypeRings, hostRings
  <2>3. TypeBuffers'
    BY <1>a, <1>b, <1>u, Zenon DEF DevComplete, IInv, TypeOK, TypeBuffers
  <2>4. TypePipe' /\ TypeContext'
    BY <1>u DEF IInv, TypeOK, TypePipe, TypeContext, pipe, context
  <2>5. TypeFlags' BY DEF DevComplete, irq, IInv, TypeOK, TypeFlags
  <2> QED BY <2>2, <2>3, <2>4, <2>5 DEF TypeOK
<1>2. InvLock' BY <1>u DEF IInv, InvLock, context
<1>3. InvNeeded' BY <1>u DEF IInv, InvNeeded, context, pipe
<1>4. InvHeld' BY <1>u DEF IInv, InvHeld, Holds, context
<1>8. InvPointers' 
  BY <1>u, <1>5, <1>6, <1>d, <1>e, <1>P
  DEF PositionFacts, IInv, InvPointers, hostRings, pipe
<1>9. InvOrder'
  <2>1. pc["tasklet"] = "take" =>
            \E j \in Index : /\ s_cached_hp = StatusES * j
                             /\ Span(StatusTail) <= Span(j) /\ Span(j) <= Span(DevTail)
    BY <1>f, <1>P DEF PositionFacts, IInv, InvOrder
  <2>2. /\ Span(HpReg)' = Span(HpReg) /\ Span(write_index)' = Span(write_index)
        /\ Span(StatusTail)' = Span(StatusTail)
        /\ Span(StatusTail) <= Span(DevTail)
    <3>1. /\ Span(StatusTail) <= Span(StatusHead)
          /\ Span(StatusTail) \in Int /\ Span(StatusHead) \in Int
      BY <1>P DEF PositionFacts
    <3>2. Span(DevTail) = Span(StatusHead) + 1 BY <1>f
    <3>3. Span(StatusTail) <= Span(DevTail) BY <3>1, <3>2
    <3> QED BY <3>3, <1>u, <1>5 DEF Span, pipe
  <2>3. /\ dev_buf' = NoBuf /\ pc' = pc /\ s_cached_hp' = s_cached_hp
        /\ Publishing => Posted >= 1
    BY <1>u DEF IInv, InvOrder, context, hostRings
  <2>4. /\ Span(write_index) = Posted /\ Span(DevTail) <= Span(HpReg)
        /\ Span(DevTail) \in Nat
    BY <1>P DEF PositionFacts
  <2>5. /\ Span(StatusTail)' <= Span(StatusHead)'
        /\ Span(StatusHead)' + 0 <= Span(HpReg)'
    BY <2>2, <2>4, <1>g
  <2>6. pc'["tasklet"] = "take" =>
            \E j \in Index : /\ s_cached_hp' = StatusES * j
                             /\ Span(StatusTail)' <= Span(j)'
                             /\ Span(j)' <= Span(StatusHead)'
    BY <2>1, <2>2, <2>3, <1>5, <1>g
  <2>7. Span(write_index)' = Posted' /\ (Publishing' => Posted' >= 1)
    BY <2>2, <2>3, <2>4, <1>5
  <2> QED BY <2>3, <2>5, <2>6, <2>7 DEF InvOrder
<1>10. InvTail' 
  BY <1>u, <1>5, <1>e DEF IInv, InvTail, InvPointers, context, hostRings
<1>11. InvSkb' BY <1>u, <1>5 DEF IInv, InvSkb, Writable, pipe
<1>12. InvEntries' BY <1>u, <1>5, <1>h DEF IInv, InvEntries, pipe
<1>13. InvMatch'
  <2>1. ASSUME NoZeroLength, NEW i \in Index, Span(i) < Span(DevTail)
        PROVE  s_desc'[StatusES * i] = fill'[skb[i]] /\ s_desc'[StatusES * i] # "zero"
    <3>1. StatusES * i \in 0 .. StatusRS - 1 BY StatusOffset
    <3>2. CASE i = StatusHead
      BY <2>1, <3>1, <3>2, <1>a, <1>b, <1>c, <1>f
         DEF IInv, TypeOK, TypeRings, TypeBuffers, Writable
    <3>3. CASE i # StatusHead
      <4>1. StatusES * i # s_hp_mem
        BY <3>3, <1>c, <1>P, StatusOffset DEF PositionFacts
      <4>2. Span(i) < Span(StatusHead)
        BY <3>3, <2>1, <1>f, <1>P DEF PositionFacts
      <4>3. skb[i] \in Bufs /\ skb[i] # dev_buf
        BY <3>3, <2>1, <1>f, <1>P DEF PositionFacts, IInv, InvSkb, Writable
      <4> QED
        BY <2>1, <4>1, <4>2, <4>3, <3>1, <1>a
           DEF IInv, InvMatch, TypeOK, TypeRings, TypeBuffers
    <3> QED BY <3>2, <3>3
  <2>2. pc["tasklet"] \in {"took", "got"} =>
            cur["tasklet"] # dev_buf /\ cur["tasklet"] \in Bufs
    BY <1>f DEF IInv, InvHeld, Holds, Ctx, Writable, TypeOK, TypeBuffers
  <2>3. pc["tasklet"] \in {"took", "got"} =>
            fill'[cur["tasklet"]] = fill[cur["tasklet"]]
    BY <1>a, <2>2 DEF IInv, TypeOK, TypeBuffers
  <2> QED
    BY <1>u, <1>5, <1>g, <2>1, <2>3 DEF IInv, InvMatch, NoZeroLength, pipe, context
<1> QED
  BY <1>1, <1>2, <1>3, <1>4, <1>8, <1>9, <1>10, <1>11, <1>12, <1>13 DEF IInv

\* recv_next consumes a status entry of length 0 and leaves its skb on the ring.
LEMMA StepRecvZero == ASSUME IInv, RecvZero PROVE IInv'
<1>P. PositionFacts BY Positions
<1> USE RingAssumption, ConfigAssumption
<1>t. /\ pc["tasklet"] = "take" /\ s_tp # s_cached_hp /\ s_desc[s_tp] = "zero"
      /\ pc' = [pc EXCEPT !["tasklet"] = "stop"]
      /\ s_tp' = DstNext(s_tp, StatusES, StatusRS)
  BY DEF RecvZero, At, Goto
<1>u. /\ UNCHANGED <<d_hp, d_cached_tp, s_cached_hp, pipe, shared, device>>
      /\ UNCHANGED <<irq, tq_sched, timer_armed, lock, cur, nbytes, buffers, fails>>
  BY DEF RecvZero
<1>a. /\ Span(StatusTail) < Span(StatusHead) /\ s_tp = StatusES * StatusTail
      /\ ~NoZeroLength
  BY <1>t, AnnouncedSkb
<1>b. "tasklet" \in Ctx BY DEF Ctx
<1>d. \A d \in Ctx : pc'[d] = IF d = "tasklet" THEN "stop" ELSE pc[d]
  BY <1>b, <1>t DEF IInv, TypeOK, TypeContext
<1>e. /\ s_tp' = StatusES * NextIndex(StatusTail, NEntries)
      /\ NextIndex(StatusTail, NEntries) \in Index
  BY <1>a, <1>t, <1>P, StatusOffset, IndexNext DEF PositionFacts
<1>f. StatusTail' = NextIndex(StatusTail, NEntries)
  BY <1>e, StatusOffset DEF StatusTail
<1>g. /\ Posted' = Posted /\ StatusHead' = StatusHead /\ DevTail' = DevTail
      /\ \A i \in Index : Span(i)' = Span(i)
  BY <1>u DEF Posted, StatusHead, DevTail, Span, pipe, shared, device
<1>h. Publishing' = Publishing /\ HpReg' = HpReg
  <2>1. Publishing' = Publishing BY <1>d, <1>t DEF Publishing
  <2> QED BY <2>1, <1>u DEF HpReg, PrevIndex, pipe
<1>i. Span(StatusTail)' = Span(StatusTail) + 1
  <2>1. /\ StatusTail \in 0 .. NEntries - 1 /\ sw_index \in 0 .. NEntries - 1
        /\ Span(StatusTail) < NEntries - 1
    BY <1>a, <1>P DEF PositionFacts, Index
  <2>2. Span(NextIndex(StatusTail, NEntries)) = Span(StatusTail) + 1
    BY <2>1, DistNext DEF Span
  <2> QED BY <2>2, <1>f, <1>u DEF Span, pipe
<1>1. TypeOK'
  <2>1. s_tp' \in StatusOffsets BY <1>e DEF StatusOffsets
  <2>2. TypeRings' BY <2>1, <1>u, Zenon DEF IInv, TypeOK, TypeRings, shared, device
  <2>3. TypePipe' /\ TypeFlags'
    BY <1>u DEF IInv, TypeOK, TypePipe, TypeFlags, pipe, irq, device
  <2>4. TypeContext' BY <1>b, <1>t, <1>u DEF IInv, TypeOK, TypeContext
  <2>5. TypeBuffers' BY <1>u DEF IInv, TypeOK, TypeBuffers, buffers
  <2> QED BY <2>2, <2>3, <2>4, <2>5 DEF TypeOK
<1>2. InvLock' BY <1>d, <1>t, <1>u DEF IInv, InvLock, Critical, TaskletOnly
<1>3. InvNeeded' BY <1>d, <1>u DEF IInv, InvNeeded, pipe
<1>4. InvHeld' BY <1>d, <1>t, <1>u DEF IInv, InvHeld, Holds, buffers
<1>5. InvPointers'
  <2>1. s_tp_reg = s_tp BY <1>t DEF IInv, InvPointers, TailKnown
  <2>2. PrevIndex(StatusTail') = StatusTail BY <1>f, <1>P, IndexNext DEF PositionFacts
  <2>3. TailKnown'
    BY <2>1, <2>2, <1>a, <1>b, <1>d, <1>u DEF TailKnown, PrevIndex, shared
  <2> QED
    BY <2>3, <1>e, <1>f, <1>g, <1>h, <1>u DEF IInv, InvPointers, pipe, shared, device
<1>6. InvOrder'
  <2>1. /\ Span(StatusHead)' = Span(StatusHead) /\ Span(HpReg)' = Span(HpReg)
        /\ Span(write_index)' = Span(write_index)
    BY <1>g, <1>h, <1>u DEF Span, pipe
  <2>2. Span(StatusTail)' <= Span(StatusHead) BY <1>a, <1>i, <1>P DEF PositionFacts
  <2>3. pc'["tasklet"] # "take" BY <1>b, <1>d
  <2> QED BY <2>1, <2>2, <2>3, <1>g, <1>h, <1>u DEF IInv, InvOrder, device
<1>7. InvTail'
  BY <1>d, <1>g, <1>u DEF IInv, InvTail, shared, device
<1>8. InvSkb' BY <1>g, <1>u DEF IInv, InvSkb, Writable, pipe, buffers
<1>9. InvEntries'
  <2>1. Span(DevTail)' = Span(DevTail) BY <1>g, <1>u DEF Span, pipe
  <2> QED BY <2>1, <1>g, <1>u DEF IInv, InvEntries, pipe, shared, device
<1>10. InvMatch' BY <1>a DEF InvMatch, NoZeroLength
<1> QED
  BY <1>1, <1>2, <1>3, <1>4, <1>5, <1>6, <1>7, <1>8, <1>9, <1>10 DEF IInv

\* The tasklet unmaps the skb it took and queues it on its list.
LEMMA StepTaskletQueue == ASSUME IInv, TaskletQueue PROVE IInv'
<1>0. cur["tasklet"] \in Bufs /\ own[cur["tasklet"]] = "cpu"
  BY DEF TaskletQueue, At, IInv, InvHeld, Holds, Ctx, TypeOK, TypeBuffers
<1>1. TypeOK'
  BY <1>0, RingAssumption, ConfigAssumption
  DEF TaskletQueue, Goto, hostRings, pipe, shared, device, irq, IInv, TypeOK,
      TypeRings, TypePipe, TypeFlags, TypeContext, TypeBuffers, Ctx, Lengths
<1>2. InvLock'
  BY DEF TaskletQueue, At, Goto, IInv, TypeOK, TypeContext, InvLock, Ctx,
         Critical, TaskletOnly
<1>3. /\ pc["tasklet"] = "got"
      /\ \A d \in Ctx : pc'[d] = IF d = "tasklet" THEN "recv" ELSE pc[d]
  BY DEF TaskletQueue, At, Goto, IInv, TypeOK, TypeContext
<1>4. InvNeeded' BY <1>3 DEF TaskletQueue, pipe, IInv, InvNeeded
<1>5. InvHeld'
  <2>1. \A d \in Ctx : Holds(d)' <=> d # "tasklet" /\ Holds(d)
    BY <1>3 DEF Holds
  <2>2. \A d \in Ctx : d # "tasklet" /\ Holds(d) =>
            /\ cur[d] # cur["tasklet"] /\ cur[d] \in mapped /\ cur[d] \in Bufs
            /\ own[cur[d]] = "cpu"
    BY <1>3 DEF IInv, InvHeld, Holds, TypeOK, TypeBuffers, Ctx
  <2>3. \A d \in Ctx : cur'[d] = IF d = "tasklet" THEN NoBuf ELSE cur[d]
    BY DEF TaskletQueue, IInv, TypeOK, TypeContext
  <2>4. \A d \in Ctx : IF Holds(d)'
            THEN cur'[d] \in mapped' /\ own'[cur'[d]] = "cpu"
            ELSE cur'[d] = NoBuf
    BY <2>1, <2>2, <2>3 DEF TaskletQueue, IInv, TypeOK, TypeBuffers, InvHeld
  <2>5. \A d, e \in Ctx : Holds(d) /\ cur[d] = cur[e] => d = e BY DEF IInv, InvHeld
  <2>6. ASSUME NEW d \in Ctx, NEW e \in Ctx, Holds(d)', cur'[d] = cur'[e]
        PROVE  d = e
    <3>1. d # "tasklet" /\ Holds(d) /\ cur'[d] = cur[d] /\ cur[d] \in Bufs
      BY <2>1, <2>2, <2>3, <2>6
    <3>2. e # "tasklet" BY <3>1, <2>3, <2>6, ConfigAssumption
    <3> QED BY <3>1, <3>2, <2>3, <2>5, <2>6
  <2> QED BY <2>4, <2>6 DEF InvHeld
<1>6. Still
  <2>1. Publishing' = Publishing /\ pc'["tasklet"] = "recv"
    BY <1>3 DEF Publishing, Ctx
  <2>2. HpReg' = HpReg /\ TailKnown'
    BY <1>3, <2>1, TailStays
    DEF TaskletQueue, HpReg, PrevIndex, pipe, hostRings, shared, IInv, InvPointers
  <2>3. \A b \in Bufs : Writable(b) => Writable(b)' /\ fill'[b] = fill[b]
    BY <1>0 DEF TaskletQueue, Writable, IInv, TypeOK, TypeBuffers
  <2> QED
    BY <2>1, <2>2, <2>3 DEF TaskletQueue, Still, IInv, InvPointers, hostRings,
       pipe, shared, device
<1>7. InvPlaces' BY <1>6, StillFrame
<1>8. InvTail' BY <1>3, <1>6, TailFrame DEF TaskletQueue, hostRings, shared
<1> QED BY <1>1, <1>2, <1>4, <1>5, <1>7, <1>8 DEF IInv, InvPlaces
=============================================================================
