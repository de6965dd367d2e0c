---------------------------- MODULE RxPipeProofs ----------------------------
(***************************************************************************)
(* Theorems about RxPipe, for every ring size, every entry size, every set *)
(* of buffers and every number of failures.                                *)
(***************************************************************************)
EXTENDS RxPostProofs, RxTakeProofs, RxFifoProofs, FiniteSetTheorems

\* Distances along the ring add up: what lies between a and h lies at least as
\* far from s as a.
LEMMA DistBetween ==
    ASSUME NEW n \in Nat, NEW s \in 0 .. n - 1, NEW a \in 0 .. n - 1,
           NEW h \in 0 .. n - 1, NEW i \in 0 .. n - 1,
           Dist(s, a, n) <= Dist(s, h, n), Dist(a, i, n) < Dist(a, h, n)
    PROVE  Dist(s, a, n) <= Dist(s, i, n) /\ Dist(s, i, n) < Dist(s, h, n)
BY DEF Dist

\* The entries the device has yet to fetch, in entry numbers.
LEMMA UnfetchedEntry ==
    ASSUME IInv, NEW i \in Index
    PROVE  Unfetched(DstES * i)
               <=> Dist(DevTail, i, NEntries) < Dist(DevTail, HpReg, NEntries)
<1>P. PositionFacts BY Positions
<1> USE RingAssumption
<1>1. dev_tp = DstES * DevTail /\ d_hp_reg = DstES * HpReg
  BY DEF IInv, InvPointers
<1>2. /\ DevTail \in 0 .. NEntries - 1 /\ HpReg \in 0 .. NEntries - 1
      /\ i \in 0 .. NEntries - 1
  BY <1>P DEF PositionFacts, Index
<1>3. /\ Dist(dev_tp, DstES * i, DstRS) = DstES * Dist(DevTail, i, NEntries)
      /\ Dist(dev_tp, d_hp_reg, DstRS) = DstES * Dist(DevTail, HpReg, NEntries)
  BY <1>1, <1>2, DistOffset DEF DstRS
<1>4. Dist(DevTail, i, NEntries) \in Int /\ Dist(DevTail, HpReg, NEntries) \in Int
  BY <1>2, DistType
<1> QED BY <1>3, <1>4, OffsetLess DEF Unfetched

\* The invariant keeps every buffer that the device may write mapped.
LEMMA IInvDmaSafe == IInv => DmaSafe
<1> SUFFICES ASSUME IInv PROVE DmaSafe OBVIOUS
<1>P. PositionFacts BY Positions
<1> USE RingAssumption
<1>1. dev_buf # NoBuf => Writable(dev_buf)
  <2>1. dev_buf # NoBuf => Span(StatusHead) < Posted BY <1>P DEF PositionFacts
  <2> QED BY <2>1, <1>P DEF PositionFacts, IInv, InvSkb, InvEntries
<1>2. ASSUME NEW i \in Index, Unfetched(DstES * i)
      PROVE  Writable(d_desc[DstES * i])
  <2>1. Dist(DevTail, i, NEntries) < Dist(DevTail, HpReg, NEntries)
    BY <1>2, UnfetchedEntry
  <2>2. Span(DevTail) <= Span(HpReg) BY <1>P DEF PositionFacts
  <2>3. Span(DevTail) <= Span(i) /\ Span(i) < Span(HpReg)
    BY <2>1, <2>2, <1>P, DistBetween DEF PositionFacts, Span, Index
  <2>4. Span(i) < Posted BY <2>3, <1>P DEF PositionFacts
  <2> QED BY <2>3, <2>4 DEF IInv, InvEntries, InvSkb
<1> QED BY <1>1, <1>2 DEF DmaSafe, DstOffsets

\* The invariant leaves room on the status ring for every buffer held.
LEMMA IInvStatusHasRoom == IInv => StatusHasRoom
<1> SUFFICES ASSUME IInv, dev_buf # NoBuf
             PROVE  HasNextEntry(s_hp_mem, s_tp_reg, StatusES, StatusRS)
  BY DEF StatusHasRoom
<1>P. PositionFacts BY Positions
<1> USE RingAssumption
<1>1. s_hp_mem = StatusES * StatusHead BY DEF IInv, InvPointers
<1>2. SrcNext(s_hp_mem, StatusES, StatusRS) = StatusES * DevTail
  BY <1>1, <1>P, StatusOffset DEF PositionFacts, DevTail
<1>3. Span(StatusTail) < Span(DevTail) /\ Span(DevTail) <= NEntries - 2
  BY <1>P DEF PositionFacts
<1>4. PICK t \in {StatusTail, PrevIndex(StatusTail)} : s_tp_reg = StatusES * t
  BY DEF IInv, InvPointers, TailKnown
<1>5. t \in Index /\ (Span(t) <= Span(StatusTail) \/ Span(t) = NEntries - 1)
  BY <1>P DEF PositionFacts, PrevIndex, Span, Dist, Index
<1>6. DevTail # t BY <1>3, <1>5, <1>P DEF PositionFacts
<1> QED BY <1>2, <1>4, <1>5, <1>6, <1>P, StatusOffset DEF PositionFacts, HasNextEntry

-----------------------------------------------------------------------------
\* The device is past an entry once it has fetched it.
LEMMA FetchedIsPast ==
    ASSUME IInv, DevFetch, NEW o, o = dev_tp PROVE ~Unfetched(o)'
<1>P. PositionFacts BY Positions
<1> USE RingAssumption
<1> DEFINE a == NextIndex(DevTail, NEntries)
<1>1. dev_tp = DstES * DevTail /\ d_hp_reg = DstES * HpReg /\ d_hp_reg' = d_hp_reg
  BY DEF IInv, InvPointers, DevFetch
<1>2. DevTail \in 0 .. NEntries - 1 /\ HpReg \in 0 .. NEntries - 1
  BY <1>P DEF PositionFacts, Index
<1>3. dev_tp' = DstES * a BY <1>1, <1>2, SrcNextOffset DEF DevFetch, DstRS
<1>4. a \in 0 .. NEntries - 1 /\ Dist(a, DevTail, NEntries) = NEntries - 1
  BY <1>2, DistNext
<1>5. Dist(a, HpReg, NEntries) \in 0 .. NEntries - 1 BY <1>2, <1>4, DistType
<1> HIDE DEF a
<1>6. Dist(dev_tp', o, DstRS) = DstES * (NEntries - 1)
  <2>1. Dist(DstES * a, DstES * DevTail, DstES * NEntries)
            = DstES * Dist(a, DevTail, NEntries)
    BY <1>2, <1>4, DistOffset
  <2> QED BY <2>1, <1>1, <1>3, <1>4 DEF DstRS
<1>7. Dist(dev_tp', d_hp_reg', DstRS) = DstES * Dist(a, HpReg, NEntries)
  <2>1. Dist(DstES * a, DstES * HpReg, DstES * NEntries)
            = DstES * Dist(a, HpReg, NEntries)
    BY <1>2, <1>4, DistOffset
  <2> QED BY <2>1, <1>1, <1>3 DEF DstRS
<1>8. ~(DstES * (NEntries - 1) < DstES * Dist(a, HpReg, NEntries))
  BY <1>5, OffsetLess
<1> QED BY <1>6, <1>7, <1>8 DEF Unfetched

\* enqueue_pipe writes the entry just past the published head, and the device
\* moves on from the entry it fetches: no step rewrites an entry that is still
\* to be fetched.
LEMMA StepUnfetched ==
    ASSUME IInv, [Next]_vars, NEW o \in DstOffsets, Unfetched(o)
    PROVE  d_desc'[o] = d_desc[o] \/ ~Unfetched(o)'
<1>P. PositionFacts BY Positions
<1> USE RingAssumption
<1>1. PICK i \in Index : o = DstES * i BY DEF DstOffsets
<1>2. Dist(DevTail, i, NEntries) < Dist(DevTail, HpReg, NEntries)
  BY <1>1, UnfetchedEntry
<1>3. o \in 0 .. DstRS - 1 BY <1>1, DstOffset
<1>4. ASSUME NEW c \in Ctx, EnqueueFill(c) PROVE d_desc'[o] = d_desc[o]
  <2>1. ~Publishing
    BY <1>4, OnePublisher DEF EnqueueFill, At, Publishing, Critical
  <2>2. i # write_index
    BY <2>1, <1>2, <1>P, DistType DEF PositionFacts, HpReg, Index
  <2>3. o # d_hp
    <3>1. d_hp = DstES * write_index BY DEF IInv, InvPointers
    <3>2. DstES * i = DstES * write_index <=> i = write_index
      BY <1>P, DstOffset DEF PositionFacts
    <3> QED BY <1>1, <2>2, <3>1, <3>2
  <2> QED BY <1>3, <1>4, <2>3 DEF EnqueueFill, IInv, TypeOK, TypeRings
<1>5. CASE DevFetch
  <2>1. CASE o # dev_tp
    BY <1>3, <1>5, <2>1 DEF DevFetch, IInv, TypeOK, TypeRings
  <2>2. CASE o = dev_tp BY <1>5, <2>2, FetchedIsPast
  <2> QED BY <2>1, <2>2
<1>6. \/ UNCHANGED d_desc
      \/ \E c \in Ctx : EnqueueFill(c)
      \/ DevFetch
  <2> USE DEF shared, vars
  <2>1. ASSUME NEW c \in Ctx, Post(c) PROVE EnqueueFill(c) \/ UNCHANGED d_desc
    BY <2>1 DEF Post, PostBegin, PostAlloc, PostNoMem, PostMapError, EnqueueFull,
                EnqueueEnd, EnqueueFullEnd
  <2>2. CASE Tasklet
    BY <2>2 DEF Tasklet, TaskletRun, RecvBegin, RecvEmpty, RecvZero, RecvTake,
                RecvEnd, TaskletQueue, TaskletDrain
  <2>3. CASE Irq \/ TimerFire BY <2>3 DEF Irq, IrqDispatch, IrqClear, TimerFire
  <2>4. CASE Device
    BY <2>4 DEF Device, DevFetch, DevWriteTp, DevComplete, DevRaise
  <2> QED BY <2>1, <2>2, <2>3, <2>4 DEF Next
<1> QED BY <1>4, <1>5, <1>6

-----------------------------------------------------------------------------
\* The slots of dst_ring->skb that hold a buffer.
Filled == {i \in Index : skb[i] # NoBuf}

\* One buffer more on the ring is one fewer to post, and the other way round.
LEMMA StepCounted ==
    ASSUME IInv, BuffersCounted, [Next]_vars PROVE BuffersCounted'
<1>P. PositionFacts BY Positions
<1> USE RingAssumption, ConfigAssumption
<1>1. IsFiniteSet(Index)
  <2>1. 0 \in Int /\ NEntries - 1 \in Int OBVIOUS
  <2> QED BY <2>1, FS_Interval DEF Index
<1>2. IsFiniteSet(Filled)
  <2>1. Filled \in SUBSET Index BY DEF Filled
  <2> QED BY <1>1, <2>1, FS_Subset
<1>t. skb \in [Index -> Bufs \union {NoBuf}] /\ rx_buf_needed \in Int
  BY DEF IInv, TypeOK, TypePipe
<1>n. Cardinality(Filled) \in Nat BY <1>2, FS_CardinalityType
<1>3. ASSUME NEW c \in Ctx, EnqueueFill(c) PROVE BuffersCounted'
  <2>1. /\ skb' = [skb EXCEPT ![write_index] = cur[c]]
        /\ rx_buf_needed' = rx_buf_needed - 1 /\ pc[c] = "fill"
    BY <1>3 DEF EnqueueFill, At
  <2>2. cur[c] # NoBuf
    BY <2>1 DEF IInv, InvHeld, Holds, TypeOK, TypeBuffers
  <2>3. write_index \in Index /\ write_index \notin Filled
    BY <1>P DEF PositionFacts, Filled, IInv, InvSkb
  <2>4. Filled' = Filled \union {write_index}
    BY <1>t, <2>1, <2>2, <2>3 DEF Filled
  <2>5. Cardinality(Filled') = Cardinality(Filled) + 1
    BY <1>2, <2>3, <2>4, FS_AddElement
  <2> QED BY <1>t, <1>n, <2>1, <2>5 DEF BuffersCounted, Filled
<1>4. CASE RecvTake
  <2>1. /\ skb' = [skb EXCEPT ![sw_index] = NoBuf]
        /\ rx_buf_needed' = rx_buf_needed + 1
        /\ pc["tasklet"] = "take" /\ s_tp # s_cached_hp
    BY <1>4 DEF RecvTake, At
  <2>2. sw_index \in Filled
    BY <2>1, <1>P, AnnouncedSkb DEF PositionFacts, Filled, Writable
  <2>3. Filled' = Filled \ {sw_index} BY <1>t, <2>1, <2>2 DEF Filled
  <2>4. Cardinality(Filled') = Cardinality(Filled) - 1
    BY <1>2, <2>2, <2>3, FS_RemoveElement
  <2> QED BY <1>t, <1>n, <2>1, <2>4 DEF BuffersCounted, Filled
<1>5. CASE UNCHANGED <<skb, rx_buf_needed>> BY <1>5 DEF BuffersCounted
<1>6. \/ UNCHANGED <<skb, rx_buf_needed>>
      \/ \E c \in Ctx : EnqueueFill(c)
      \/ RecvTake
  <2> USE DEF pipe, vars
  <2>1. ASSUME NEW c \in Ctx, Post(c)
        PROVE  EnqueueFill(c) \/ UNCHANGED <<skb, rx_buf_needed>>
    BY <2>1 DEF Post, PostBegin, PostAlloc, PostNoMem, PostMapError, EnqueueFull,
                EnqueueEnd, EnqueueFullEnd
  <2>2. CASE Tasklet
    BY <2>2 DEF Tasklet, TaskletRun, RecvBegin, RecvEmpty, RecvZero, RecvTake,
                RecvEnd, TaskletQueue, TaskletDrain
  <2>3. CASE Irq \/ TimerFire BY <2>3 DEF Irq, IrqDispatch, IrqClear, TimerFire
  <2>4. CASE Device
    BY <2>4 DEF Device, DevFetch, DevWriteTp, DevComplete, DevRaise
  <2> QED BY <2>1, <2>2, <2>3, <2>4 DEF Next
<1> QED BY <1>3, <1>4, <1>5, <1>6

-----------------------------------------------------------------------------
\* A buffer that belongs to the ring is in dst_ring->skb, one that belongs to a
\* context is that context's, and no other buffer is mapped.
Owned ==
    /\ \A b \in Bufs : own[b] = "ring" => \E i \in Index : skb[i] = b
    /\ \A b \in Bufs : own[b] = "cpu" => \E c \in Ctx : cur[c] = b
    /\ \A b \in mapped : own[b] \in {"ring", "cpu"}

\* As many buffers are lost as mappings have failed.
LostCounted == IsFiniteSet(Lost) /\ Cardinality(Lost) = leaked

\* Nobody holds two buffers or the same one, so existence is all that
\* BuffersAccounted adds to the invariant, with the count of what was lost.
LEMMA AccountedIsOwned ==
    ASSUME IInv PROVE BuffersAccounted <=> Owned /\ Cardinality(Lost) = leaked
<1>P. PositionFacts BY Positions
<1> USE ConfigAssumption
<1>t. /\ skb \in [Index -> Bufs \union {NoBuf}] /\ cur \in [Ctx -> Bufs \union {NoBuf}]
      /\ mapped \in SUBSET Bufs
  BY DEF IInv, TypeOK, TypePipe, TypeContext, TypeBuffers
<1>1. \A i \in Index : skb[i] # NoBuf => Writable(skb[i])
  <2>1. \A i \in Index : Span(i) < Posted \/ Span(i) >= Posted
    BY <1>P DEF PositionFacts
  <2> QED BY <2>1 DEF IInv, InvSkb
<1>2. \A c \in Ctx : cur[c] # NoBuf => own[cur[c]] = "cpu" /\ cur[c] \in mapped
  BY DEF IInv, InvHeld
<1>3. ASSUME NEW b \in Bufs
      PROVE  Cardinality({i \in Index : skb[i] = b}) = 1
                 <=> \E i \in Index : skb[i] = b
  <2>1. ASSUME NEW i \in Index, skb[i] = b PROVE {j \in Index : skb[j] = b} = {i}
    BY <2>1 DEF IInv, InvSkb
  <2>2. \A i : Cardinality({i}) = 1 BY FS_Singleton
  <2>3. CASE \E i \in Index : skb[i] = b BY <2>1, <2>2, <2>3
  <2>4. CASE ~ \E i \in Index : skb[i] = b
    <3>1. {j \in Index : skb[j] = b} = {} BY <2>4
    <3>2. Cardinality({}) = 0 BY FS_EmptySet
    <3> QED BY <2>4, <3>1, <3>2
  <2> QED BY <2>3, <2>4
<1>4. ASSUME NEW b \in Bufs
      PROVE  Cardinality({c \in Ctx : cur[c] = b}) = 1 <=> \E c \in Ctx : cur[c] = b
  <2>1. ASSUME NEW c \in Ctx, cur[c] = b PROVE {d \in Ctx : cur[d] = b} = {c}
    BY <2>1 DEF IInv, InvHeld
  <2>2. \A c : Cardinality({c}) = 1 BY FS_Singleton
  <2>3. CASE \E c \in Ctx : cur[c] = b BY <2>1, <2>2, <2>3
  <2>4. CASE ~ \E c \in Ctx : cur[c] = b
    <3>1. {d \in Ctx : cur[d] = b} = {} BY <2>4
    <3>2. Cardinality({}) = 0 BY FS_EmptySet
    <3> QED BY <2>4, <3>1, <3>2
  <2> QED BY <2>3, <2>4
<1>5. \A b \in Bufs : (\E i \in Index : skb[i] = b) => own[b] = "ring" /\ b \in mapped
  BY <1>1 DEF Writable
<1>6. \A b \in Bufs : (\E c \in Ctx : cur[c] = b) => own[b] = "cpu" /\ b \in mapped
  BY <1>2
<1>7. BuffersAccounted <=>
          /\ \A b \in Bufs : /\ own[b] = "ring" <=> \E i \in Index : skb[i] = b
                             /\ own[b] = "cpu" <=> \E c \in Ctx : cur[c] = b
                             /\ b \in mapped <=> own[b] \in {"ring", "cpu"}
          /\ Cardinality(Lost) = leaked
  BY <1>3, <1>4, Zenon DEF BuffersAccounted
<1> QED BY <1>t, <1>5, <1>6, <1>7 DEF Owned

\* No step drops the last reference to a buffer that is still owned or mapped.
LEMMA StepOwned == ASSUME IInv, Owned, [Next]_vars PROVE Owned'
<1>P. PositionFacts BY Positions
<1> USE ConfigAssumption
<1>t. /\ skb \in [Index -> Bufs \union {NoBuf}] /\ cur \in [Ctx -> Bufs \union {NoBuf}]
      /\ mapped \in SUBSET Bufs
      /\ own \in [Bufs -> {"free", "cpu", "ring", "list", "lost"}]
  BY DEF IInv, TypeOK, TypePipe, TypeContext, TypeBuffers
<1>h. \A c \in Ctx : IF Holds(c) THEN cur[c] \in mapped ELSE cur[c] = NoBuf
  BY DEF IInv, InvHeld
<1>1. ASSUME NEW c \in Ctx, PostAlloc(c) PROVE Owned'
  <2>1. PICK b \in Bufs : /\ own' = [own EXCEPT ![b] = "cpu"]
                          /\ mapped' = mapped \union {b}
                          /\ cur' = [cur EXCEPT ![c] = b]
    BY <1>1 DEF PostAlloc, Allocatable
  <2>2. skb' = skb /\ cur[c] = NoBuf BY <1>1, <1>h DEF PostAlloc, At, Holds, pipe
  <2> QED BY <1>t, <2>1, <2>2 DEF Owned
<1>2. ASSUME NEW c \in Ctx, EnqueueFill(c) PROVE Owned'
  <2>1. /\ skb' = [skb EXCEPT ![write_index] = cur[c]] /\ mapped' = mapped
        /\ own' = [own EXCEPT ![cur[c]] = "ring"]
        /\ cur' = [cur EXCEPT ![c] = NoBuf]
    BY <1>2 DEF EnqueueFill
  <2>2. cur[c] \in Bufs BY <1>2, <1>h, <1>t DEF EnqueueFill, At, Holds
  <2>3. write_index \in Index /\ skb[write_index] = NoBuf
    <3>1. /\ write_index \in Index /\ Span(write_index) = Posted
          /\ Posted \in 0 .. NEntries - 2
      BY <1>P DEF PositionFacts
    <3>2. Span(write_index) >= Posted BY <3>1
    <3> QED BY <3>1, <3>2 DEF IInv, InvSkb
  <2>4. \A b \in Bufs : own'[b] = "ring" => \E i \in Index : skb'[i] = b
    <3>1. skb'[write_index] = cur[c] BY <1>t, <2>1, <2>3
    <3>2. \A i \in Index : skb[i] \in Bufs => skb'[i] = skb[i] BY <1>t, <2>1, <2>3
    <3> QED BY <1>t, <2>1, <2>2, <2>3, <3>1, <3>2 DEF Owned
  <2>5. \A b \in Bufs : own'[b] = "cpu" => b # cur[c] /\ own[b] = "cpu"
    BY <1>t, <2>1, <2>2
  <2>6. \A b \in Bufs : own'[b] = "cpu" => \E d \in Ctx : cur'[d] = b
    BY <1>t, <2>1, <2>5 DEF Owned
  <2>7. \A b \in mapped' : own'[b] \in {"ring", "cpu"}
    BY <1>t, <2>1, <2>2 DEF Owned
  <2> QED BY <2>4, <2>6, <2>7 DEF Owned
<1>3. ASSUME NEW c \in Ctx, EnqueueFullEnd(c) PROVE Owned'
  <2>1. /\ skb' = skb /\ mapped' = mapped \ {cur[c]}
        /\ own' = [own EXCEPT ![cur[c]] = "free"]
        /\ cur' = [cur EXCEPT ![c] = NoBuf]
    BY <1>3 DEF EnqueueFullEnd, pipe
  <2>2. cur[c] \in Bufs BY <1>3, <1>h, <1>t DEF EnqueueFullEnd, At, Holds
  <2> QED BY <1>t, <2>1, <2>2 DEF Owned
<1>4. CASE RecvTake
  <2>1. /\ skb' = [skb EXCEPT ![sw_index] = NoBuf] /\ mapped' = mapped
        /\ own' = [own EXCEPT ![skb[sw_index]] = "cpu"]
        /\ cur' = [cur EXCEPT !["tasklet"] = skb[sw_index]]
    BY <1>4 DEF RecvTake
  <2>2. sw_index \in Index /\ skb[sw_index] \in Bufs
    BY <1>4, <1>P, AnnouncedSkb DEF PositionFacts, Writable, RecvTake, At
  <2>3. "tasklet" \in Ctx /\ cur["tasklet"] = NoBuf
    BY <1>4, <1>h DEF RecvTake, At, Holds, Ctx
  <2> QED BY <1>t, <2>1, <2>2, <2>3 DEF Owned
<1>5. CASE TaskletQueue
  <2>1. /\ skb' = skb /\ mapped' = mapped \ {cur["tasklet"]}
        /\ own' = [own EXCEPT ![cur["tasklet"]] =
                       IF nbytes = "over" THEN "free" ELSE "list"]
        /\ cur' = [cur EXCEPT !["tasklet"] = NoBuf]
    BY <1>5 DEF TaskletQueue, pipe
  <2>2. "tasklet" \in Ctx BY DEF Ctx
  <2>3. cur["tasklet"] \in Bufs BY <1>5, <1>h, <1>t, <2>2 DEF TaskletQueue, At, Holds
  <2> QED BY <1>t, <2>1, <2>2, <2>3 DEF Owned
<1>6. CASE TaskletDrain
  <2>1. /\ UNCHANGED <<skb, cur, mapped>>
        /\ own' = [b \in Bufs |-> IF own[b] = "list" THEN "free" ELSE own[b]]
    BY <1>6 DEF TaskletDrain, pipe
  <2> QED BY <1>t, <2>1 DEF Owned
<1>7. CASE UNCHANGED <<skb, cur, own, mapped>> BY <1>7 DEF Owned
<1>8. ASSUME NEW c \in Ctx, PostMapError(c) PROVE Owned'
  <2>1. PICK b \in Bufs : own[b] = "free" /\ own' = [own EXCEPT ![b] = "lost"]
    BY <1>8 DEF PostMapError, Allocatable
  <2>2. UNCHANGED <<skb, cur, mapped>> BY <1>8 DEF PostMapError, pipe
  <2> QED BY <1>t, <2>1, <2>2 DEF Owned
<1>9. \/ UNCHANGED <<skb, cur, own, mapped>>
      \/ \E c \in Ctx : \/ PostAlloc(c) \/ PostMapError(c)
                      \/ EnqueueFill(c) \/ EnqueueFullEnd(c)
      \/ RecvTake \/ TaskletQueue \/ TaskletDrain
  <2> USE DEF pipe, buffers, context, vars
  <2>1. ASSUME NEW c \in Ctx, Post(c)
        PROVE  \/ PostAlloc(c) \/ PostMapError(c)
               \/ EnqueueFill(c) \/ EnqueueFullEnd(c)
               \/ UNCHANGED <<skb, cur, own, mapped>>
    BY <2>1 DEF Post, PostBegin, PostNoMem, EnqueueFull, EnqueueEnd
  <2>2. CASE Tasklet
    BY <2>2 DEF Tasklet, TaskletRun, RecvBegin, RecvEmpty, RecvZero, RecvEnd
  <2>3. CASE Irq \/ TimerFire BY <2>3 DEF Irq, IrqDispatch, IrqClear, TimerFire
  <2>4. CASE Device
    BY <2>4 DEF Device, DevFetch, DevWriteTp, DevComplete, DevRaise
  <2> QED BY <2>1, <2>2, <2>3, <2>4 DEF Next
<1> QED BY <1>1, <1>2, <1>3, <1>4, <1>5, <1>6, <1>7, <1>8, <1>9

\* A buffer is lost by a failed mapping and by nothing else.
LEMMA StepLost == ASSUME IInv, LostCounted, [Next]_vars PROVE LostCounted'
<1>t. /\ own \in [Bufs -> {"free", "cpu", "ring", "list", "lost"}] /\ leaked \in Nat
      /\ cur \in [Ctx -> Bufs \union {NoBuf}]
  BY ConfigAssumption DEF IInv, TypeOK, TypeContext, TypeBuffers
<1>h. \A c \in Ctx : IF Holds(c) THEN own[cur[c]] = "cpu" ELSE cur[c] = NoBuf
  BY DEF IInv, InvHeld
<1>1. ASSUME NEW c \in Ctx, PostMapError(c) PROVE LostCounted'
  <2>1. PICK b \in Bufs : own[b] = "free" /\ own' = [own EXCEPT ![b] = "lost"]
    BY <1>1 DEF PostMapError, Allocatable
  <2>2. Lost' = Lost \union {b} /\ b \notin Lost BY <1>t, <2>1 DEF Lost
  <2>3. IsFiniteSet(Lost') /\ Cardinality(Lost') = Cardinality(Lost) + 1
    BY <2>2, FS_AddElement DEF LostCounted
  <2>4. leaked' = leaked + 1 BY <1>1 DEF PostMapError
  <2> QED BY <2>3, <2>4 DEF LostCounted
<1>2. ASSUME leaked' = leaked, NEW b, NEW o, own' = [own EXCEPT ![b] = o],
             o # "lost", b \in Bufs => own[b] # "lost"
      PROVE  LostCounted'
  <2>1. Lost' = Lost BY <1>t, <1>2 DEF Lost
  <2> QED BY <1>2, <2>1 DEF LostCounted
<1>3. ASSUME NEW c \in Ctx, PostAlloc(c) PROVE LostCounted'
  <2>1. PICK b \in Bufs : own[b] = "free" /\ own' = [own EXCEPT ![b] = "cpu"]
    BY <1>3 DEF PostAlloc, Allocatable
  <2> QED BY <1>2, <1>3, <2>1 DEF PostAlloc
<1>4. ASSUME NEW c \in Ctx, EnqueueFill(c) \/ EnqueueFullEnd(c) PROVE LostCounted'
  <2>1. own[cur[c]] = "cpu" BY <1>4, <1>h DEF EnqueueFill, EnqueueFullEnd, At, Holds
  <2> QED BY <1>2, <1>4, <2>1 DEF EnqueueFill, EnqueueFullEnd
<1>5. CASE RecvTake
  <2>1. own[skb[sw_index]] = "ring"
    BY <1>5, AnnouncedSkb DEF Writable, RecvTake, At
  <2> QED BY <1>2, <1>5, <2>1 DEF RecvTake
<1>6. CASE TaskletQueue
  <2>1. own[cur["tasklet"]] = "cpu"
    BY <1>6, <1>h DEF TaskletQueue, At, Holds, Ctx
  <2> QED BY <1>2, <1>6, <2>1 DEF TaskletQueue
<1>7. CASE TaskletDrain
  <2>1. Lost' = Lost BY <1>t, <1>7 DEF TaskletDrain, Lost
  <2> QED BY <1>7, <2>1 DEF TaskletDrain, LostCounted
<1>8. CASE UNCHANGED <<own, leaked>> BY <1>8 DEF LostCounted, Lost
<1>9. \/ UNCHANGED <<own, leaked>>
      \/ \E c \in Ctx : \/ PostAlloc(c) \/ PostMapError(c)
                      \/ EnqueueFill(c) \/ EnqueueFullEnd(c)
      \/ RecvTake \/ TaskletQueue \/ TaskletDrain
  <2> USE DEF buffers, vars
  <2>1. ASSUME NEW c \in Ctx, Post(c)
        PROVE  \/ PostAlloc(c) \/ PostMapError(c)
               \/ EnqueueFill(c) \/ EnqueueFullEnd(c)
               \/ UNCHANGED <<own, leaked>>
    BY <2>1 DEF Post, PostBegin, PostNoMem, EnqueueFull, EnqueueEnd
  <2>2. CASE Tasklet
    BY <2>2 DEF Tasklet, TaskletRun, RecvBegin, RecvEmpty, RecvZero, RecvEnd
  <2>3. CASE Irq \/ TimerFire BY <2>3 DEF Irq, IrqDispatch, IrqClear, TimerFire
  <2>4. CASE Device
    BY <2>4 DEF Device, DevFetch, DevWriteTp, DevComplete, DevRaise
  <2> QED BY <2>1, <2>2, <2>3, <2>4 DEF Next
<1> QED BY <1>1, <1>3, <1>4, <1>5, <1>6, <1>7, <1>8, <1>9

-----------------------------------------------------------------------------
(***************************************************************************)
(* The inductive invariant and what follows from it.                       *)
(***************************************************************************)
\* Every step of the driver and of the device preserves the invariant.
THEOREM NextIInv == ASSUME IInv, [Next]_vars PROVE IInv'
<1>1. ASSUME NEW c \in Ctx, Post(c) PROVE IInv'
  BY <1>1, StepPostBegin, StepPostAlloc, StepPostNoMem, StepPostMapError,
     StepEnqueueFill, StepEnqueueFull, StepEnqueueEnd, StepEnqueueFullEnd
  DEF Post
<1>2. CASE Tasklet
  BY <1>2, StepTaskletRun, StepRecvBegin, StepRecvEmpty, StepRecvZero,
     StepRecvTake, StepRecvEnd, StepTaskletQueue, StepTaskletDrain DEF Tasklet
<1>3. CASE TimerFire BY <1>3, StepTimerFire
<1>4. CASE Irq BY <1>4, StepInterrupt DEF Irq
<1>5. CASE Device
  BY <1>5, StepDevFetch, StepDevWriteTp, StepDevComplete, StepInterrupt DEF Device
<1>6. CASE UNCHANGED vars
  <2>1. UNCHANGED <<hostRings, pipe, shared, device, irq, tq_sched, timer_armed,
                    context, buffers, fails>>
    BY <1>6 DEF vars
  <2>2. TypeOK'
    BY <2>1 DEF IInv, TypeOK, TypeRings, TypePipe, TypeFlags, TypeContext,
       TypeBuffers, hostRings, pipe, shared, device, irq, context, buffers
  <2>0. TailKnown' BY <2>1, TailStays DEF IInv, InvPointers, hostRings, shared, context
  <2>3. Still
    BY <2>0, <2>1 DEF Still, IInv, InvPointers, Publishing, HpReg, PrevIndex,
       Writable, hostRings, pipe, shared, device, context, buffers
  <2>4. InvPlaces' BY <2>3, StillFrame
  <2>5. InvTail' BY <2>1, <2>3, TailFrame DEF hostRings, shared, context
  <2>6. InvLock' BY <2>1 DEF IInv, InvLock, context
  <2>7. InvNeeded' BY <2>1 DEF IInv, InvNeeded, context, pipe
  <2>8. InvHeld' BY <2>1 DEF IInv, InvHeld, Holds, context, buffers
  <2> QED BY <2>2, <2>4, <2>5, <2>6, <2>7, <2>8 DEF IInv, InvPlaces
<1> QED BY <1>1, <1>2, <1>3, <1>4, <1>5, <1>6 DEF Next

\* The invariant holds in every state, whatever lengths the device reports.
THEOREM SpecIInv == Spec => []IInv
<1>1. Init => IInv BY InitIInv
<1>2. IInv /\ [Next]_vars => IInv' BY NextIInv
<1> QED BY <1>1, <1>2, PTL DEF Spec

\* Type correctness: pointers never leave the entry boundaries of their ring and
\* rx_buf_needed never leaves 0 .. nentries - 2.
THEOREM TypeCorrect == Spec => []TypeOK
<1>1. IInv => TypeOK BY DEF IInv
<1>2. Spec => []IInv BY SpecIInv
<1> QED BY <1>1, <1>2, PTL

\* The driver never unmaps, frees or reuses a buffer that the device may write,
\* for every ring and entry size and every interleaving.
THEOREM DmaSafety == Spec => []DmaSafe
<1>1. IInv => DmaSafe BY IInvDmaSafe
<1>2. Spec => []IInv BY SpecIInv
<1> QED BY <1>1, <1>2, PTL

\* recv_next always takes the skb that the device filled for the status entry.
THEOREM TakenSkbIsFilled == ASSUME NoZeroLength PROVE Spec => []TakenIsFilled
<1>1. IInv => TakenIsFilled
  <2>1. IInv /\ pc["tasklet"] \in {"took", "got"} => cur["tasklet"] # NoBuf
    BY ConfigAssumption DEF IInv, InvHeld, Holds, Ctx, TypeOK, TypeBuffers
  <2> QED BY <2>1 DEF IInv, InvMatch, TakenIsFilled
<1>2. Spec => []IInv BY SpecIInv
<1> QED BY <1>1, <1>2, PTL

\* enqueue_pipe always writes into an empty slot of dst_ring->skb.
THEOREM SlotIsEmpty == Spec => []NoSkbOverwritten
<1>1. IInv => NoSkbOverwritten
  BY Positions, RingAssumption DEF PositionFacts, IInv, InvSkb, NoSkbOverwritten
<1>2. Spec => []IInv BY SpecIInv
<1> QED BY <1>1, <1>2, PTL

\* The device always finds room on the status ring for a buffer that it holds.
THEOREM StatusRoom == Spec => []StatusHasRoom
<1>1. IInv => StatusHasRoom BY IInvStatusHasRoom
<1>2. Spec => []IInv BY SpecIInv
<1> QED BY <1>1, <1>2, PTL

\* With a device that writes its tail pointer back before it announces a buffer,
\* post_pipe never meets -ENOSPC: why rx_buf_needed starts at nentries - 2.
THEOREM NoSpaceNever == ASSUME PromptTp PROVE Spec => []NeverNoSpace
<1>1. IInv => NeverNoSpace BY DEF IInv, InvTail, NeverNoSpace
<1>2. Spec => []IInv BY SpecIInv
<1> QED BY <1>1, <1>2, PTL

\* The host never rewrites an entry of the dst ring that the device has yet to
\* fetch.
THEOREM EntriesStable == Spec => UnfetchedStable
<1>1. IInv /\ [Next]_vars =>
          [\A o \in DstOffsets : Unfetched(o) => d_desc'[o] = d_desc[o]
                                              \/ ~Unfetched(o)']_vars
  BY StepUnfetched
<1>2. Spec => []IInv BY SpecIInv
<1> QED BY <1>1, <1>2, PTL DEF Spec, UnfetchedStable

\* rx_buf_needed is exact: no interleaving of the tasklet, the timer and the
\* probe loses or doubles a missing buffer.
THEOREM CountExact == Spec => []BuffersCounted
<1>1. Init => BuffersCounted
  <2> SUFFICES ASSUME Init PROVE BuffersCounted OBVIOUS
  <2>1. {i \in Index : skb[i] # NoBuf} = {} BY DEF Init
  <2>2. Cardinality({i \in Index : skb[i] # NoBuf}) = 0 BY <2>1, FS_EmptySet
  <2> QED BY <2>2, RingAssumption DEF Init, InitialNeeded, BuffersCounted
<1>2. IInv /\ BuffersCounted /\ [Next]_vars => BuffersCounted' BY StepCounted
<1>3. Spec => []IInv BY SpecIInv
<1> QED BY <1>1, <1>2, <1>3, PTL DEF Spec

\* Every buffer is accounted for: no path of post_pipe, recv_next or the tasklet
\* loses a buffer that is mapped or holds one twice, and a mapping that fails in
\* post_pipe, which loses one each time, is the only one that loses any.
THEOREM BuffersKept == Spec => []BuffersAccounted
<1>1. Init => Owned BY DEF Init, Owned
<1>2. Init => LostCounted
  <2>1. Init => Lost = {} /\ leaked = 0 BY DEF Init, Lost
  <2> QED BY <2>1, FS_EmptySet DEF LostCounted
<1>3. IInv /\ Owned /\ [Next]_vars => Owned' BY StepOwned
<1>4. IInv /\ LostCounted /\ [Next]_vars => LostCounted' BY StepLost
<1>5. IInv /\ Owned /\ LostCounted => BuffersAccounted
  BY AccountedIsOwned DEF LostCounted
<1>6. Spec => []IInv BY SpecIInv
<1> QED BY <1>1, <1>2, <1>3, <1>4, <1>5, <1>6, PTL DEF Spec

\* The rings, pointers, descriptors, locks and interrupts together behave as one
\* queue of at most nentries - 2 buffers: every buffer is received once, in the
\* order in which post_pipe handed it to the device.
THEOREM FifoImplemented == Spec => RefinesFifo
<1>1. Init => Fifo!Init BY InitRefines
<1>2. IInv /\ IInv' /\ [Next]_vars => [Fifo!Next]_(Fifo!vars) BY StepRefines
<1>3. Spec => []IInv BY SpecIInv
<1> QED BY <1>1, <1>2, <1>3, PTL DEF Spec, RefinesFifo, Fifo!Spec
=============================================================================
