------------------------- MODULE RxInvariantProofs --------------------------
(***************************************************************************)
(* The inductive invariant of RxPipe: it holds initially, what it says      *)
(* about the positions on the ring, and its preservation by the steps that  *)
(* move no buffer on or off the ring.  For every ring size, every entry     *)
(* size, every set of buffers and every number of failures.                 *)
(***************************************************************************)
EXTENDS RxPipe, TLAPS

(***************************************************************************)
(* The pointer arithmetic of HalSrng, for every entry size and every       *)
(* number of entries: on entry boundaries, word offsets behave like entry  *)
(* numbers.                                                                *)
(***************************************************************************)
\* Advancing an index with nentries_mask resets it at the end of the ring.
LEMMA NextIndexCases ==
    ASSUME NEW n \in Nat, n >= 1, NEW i \in 0 .. n - 1
    PROVE  NextIndex(i, n) = IF i + 1 = n THEN 0 ELSE i + 1
BY DEF NextIndex

\* Different entries of a ring start at different offsets.
LEMMA OffsetInjective ==
    ASSUME NEW es \in Nat \ {0}, NEW i \in Int, NEW j \in Int
    PROVE  es * i = es * j <=> i = j
<1>1. CASE i < j
  <2>1. es * (j - i) > 0 BY <1>1
  <2> QED BY <2>1, <1>1
<1>2. CASE j < i
  <2>1. es * (i - j) > 0 BY <1>2
  <2> QED BY <2>1, <1>2
<1> QED BY <1>1, <1>2

\* Word offsets order the entries of a ring as entry numbers do.
LEMMA OffsetLess ==
    ASSUME NEW es \in Nat \ {0}, NEW i \in Int, NEW j \in Int
    PROVE  es * i < es * j <=> i < j
<1>1. CASE i < j
  <2>1. es * (j - i) > 0 BY <1>1
  <2> QED BY <2>1, <1>1
<1>2. CASE j <= i
  <2>1. es * (i - j) >= 0 BY <1>2
  <2> QED BY <2>1, <1>2
<1> QED BY <1>1, <1>2

\* Dividing a word offset by the entry size gives back the entry number.
LEMMA OffsetDiv ==
    ASSUME NEW es \in Nat \ {0}, NEW i \in Int
    PROVE  (es * i) \div es = i
OBVIOUS

\* The first word of every entry lies inside the ring.
LEMMA OffsetInRing ==
    ASSUME NEW es \in Nat \ {0}, NEW n \in Nat, NEW i \in 0 .. n - 1
    PROVE  es * i \in 0 .. es * n - 1 /\ es * n \in Nat
<1>1. es * i < es * n BY OffsetLess
<1>2. es * i \in Nat /\ es * n \in Nat OBVIOUS
<1> QED BY <1>1, <1>2

\* src_get_next_entry moves from one entry to the next and wraps with %.
LEMMA SrcNextOffset ==
    ASSUME NEW es \in Nat \ {0}, NEW n \in Nat, NEW i \in 0 .. n - 1
    PROVE  SrcNext(es * i, es, es * n) = es * NextIndex(i, n)
<1>1. es * i + es = es * (i + 1) OBVIOUS
<1>2. CASE i + 1 = n
  <2>1. (es * n) % (es * n) = 0 OBVIOUS
  <2>2. NextIndex(i, n) = 0 BY <1>2, NextIndexCases
  <2>3. SrcNext(es * i, es, es * n) = (es * n) % (es * n)
    BY <1>1, <1>2 DEF SrcNext
  <2> QED BY <2>1, <2>2, <2>3
<1>3. CASE i + 1 < n
  <2>1. es * (i + 1) \in 0 .. es * n - 1 BY <1>3, OffsetInRing
  <2>2. es * n \in Nat OBVIOUS
  <2>3. (es * (i + 1)) % (es * n) = es * (i + 1)
    <3> DEFINE x == es * (i + 1)
               y == es * n
    <3> HIDE DEF x, y
    <3>1. x \in 0 .. y - 1 /\ y \in Nat BY <2>1, <2>2 DEF x, y
    <3>2. x % y = x BY <3>1
    <3> QED BY <3>2 DEF x, y
  <2> QED BY <1>1, <1>3, <2>3, NextIndexCases DEF SrcNext
<1> QED BY <1>2, <1>3

\* dst_get_next_entry moves from one entry to the next and wraps by comparison.
LEMMA DstNextOffset ==
    ASSUME NEW es \in Nat \ {0}, NEW n \in Nat, NEW i \in 0 .. n - 1
    PROVE  DstNext(es * i, es, es * n) = es * NextIndex(i, n)
<1>1. es * i + es = es * (i + 1) OBVIOUS
<1>2. es * (i + 1) = es * n <=> i + 1 = n BY OffsetInjective
<1> QED BY <1>1, <1>2, NextIndexCases DEF DstNext

\* src_num_free counts entries: one entry always stays unused.
LEMMA NumFreeOffset ==
    ASSUME NEW es \in Nat \ {0}, NEW n \in Nat,
           NEW i \in 0 .. n - 1, NEW j \in 0 .. n - 1
    PROVE  NumFree(es * i, es * j, es, es * n) =
               IF j > i THEN j - i - 1 ELSE n - i + j - 1
<1>1. es * j > es * i <=> j > i BY OffsetLess
<1>2. es * j - es * i = es * (j - i) OBVIOUS
<1>3. es * n - es * i + es * j = es * (n - i + j) OBVIOUS
<1>4. (es * (j - i)) \div es = j - i BY OffsetDiv
<1>5. (es * (n - i + j)) \div es = n - i + j BY OffsetDiv
<1>6. CASE j > i BY <1>1, <1>2, <1>4, <1>6 DEF NumFree
<1>7. CASE ~(j > i) BY <1>1, <1>3, <1>5, <1>7 DEF NumFree
<1> QED BY <1>6, <1>7

\* src_num_free and src_get_next_entry agree: the second test for room in
\* test_send and enqueue_pipe (desc == NULL) never succeeds after the first.
THEOREM NumFreeExact ==
    ASSUME NEW es \in Nat \ {0}, NEW n \in Nat,
           NEW i \in 0 .. n - 1, NEW j \in 0 .. n - 1
    PROVE  NumFree(es * i, es * j, es, es * n) >= 1
               <=> HasNextEntry(es * i, es * j, es, es * n)
<1>1. HasNextEntry(es * i, es * j, es, es * n) <=> NextIndex(i, n) # j
  <2>1. SrcNext(es * i, es, es * n) = es * NextIndex(i, n) BY SrcNextOffset
  <2>2. NextIndex(i, n) \in Int BY NextIndexCases
  <2> QED BY <2>1, <2>2, OffsetInjective DEF HasNextEntry
<1>2. NumFree(es * i, es * j, es, es * n) =
          IF j > i THEN j - i - 1 ELSE n - i + j - 1
  BY NumFreeOffset
<1>3. NextIndex(i, n) = IF i + 1 = n THEN 0 ELSE i + 1 BY NextIndexCases
<1> QED BY <1>1, <1>2, <1>3
-----------------------------------------------------------------------------
(***************************************************************************)
(* Distances along a ring.                                                 *)
(***************************************************************************)
\* A distance along the ring is shorter than the ring.
LEMMA DistType ==
    ASSUME NEW n \in Nat, NEW a \in 0 .. n - 1, NEW i \in 0 .. n - 1
    PROVE  Dist(a, i, n) \in 0 .. n - 1
BY DEF Dist

\* Two entries at the same distance from an entry are the same entry.
LEMMA DistInjective ==
    ASSUME NEW n \in Nat, NEW a \in 0 .. n - 1,
           NEW i \in 0 .. n - 1, NEW j \in 0 .. n - 1
    PROVE  Dist(a, i, n) = Dist(a, j, n) <=> i = j
BY DEF Dist

\* Moving the far end one entry on adds one step, except past the near end.
LEMMA DistNext ==
    ASSUME NEW n \in Nat, NEW a \in 0 .. n - 1, NEW i \in 0 .. n - 1
    PROVE  /\ NextIndex(i, n) \in 0 .. n - 1
           /\ Dist(a, i, n) < n - 1
                => Dist(a, NextIndex(i, n), n) = Dist(a, i, n) + 1
           /\ i # a => Dist(NextIndex(a, n), i, n) = Dist(a, i, n) - 1
           /\ Dist(NextIndex(a, n), a, n) = n - 1
BY NextIndexCases DEF Dist

\* Distances in words order the entries as distances in entries do.
LEMMA DistOffset ==
    ASSUME NEW es \in Nat \ {0}, NEW n \in Nat,
           NEW a \in 0 .. n - 1, NEW i \in 0 .. n - 1
    PROVE  Dist(es * a, es * i, es * n) = es * Dist(a, i, n)
<1>1. es * i < es * a <=> i < a BY OffsetLess
<1>2. /\ es * i - es * a = es * (i - a)
      /\ es * i - es * a + es * n = es * (i - a + n)
  OBVIOUS
<1>3. es * i \in Int /\ es * a \in Int OBVIOUS
<1> QED BY <1>1, <1>2, <1>3 DEF Dist

-----------------------------------------------------------------------------
\* The pipe that dst_init has just set up satisfies the invariant.
THEOREM InitIInv == Init => IInv
<1> SUFFICES ASSUME Init PROVE IInv OBVIOUS
<1> USE RingAssumption, ConfigAssumption DEF Init, InitialNeeded
<1>1. 0 \in Index BY DEF Index
<1>2. DstES * 0 = 0 /\ StatusES * 0 = 0 OBVIOUS
<1>3. StatusHead = 0 /\ StatusTail = 0 BY DEF StatusHead, StatusTail
<1>4. TypeOK
  <2>1. {d_hp, d_cached_tp, d_hp_reg, d_tp_mem, dev_tp} \subseteq DstOffsets
    BY <1>1, <1>2 DEF DstOffsets
  <2>2. {s_tp, s_cached_hp, s_hp_mem, s_tp_reg} \subseteq StatusOffsets
    BY <1>1, <1>2 DEF StatusOffsets
  <2>3. TypeRings BY <2>1, <2>2 DEF TypeRings, Lengths
  <2>4. TypePipe BY <1>1 DEF TypePipe
  <2>5. TypeFlags BY DEF TypeFlags
  <2>6. TypeContext BY DEF TypeContext, Ctx, Lengths
  <2>7. TypeBuffers BY DEF TypeBuffers
  <2> QED BY <2>3, <2>4, <2>5, <2>6, <2>7 DEF TypeOK
<1>5. InvLock BY DEF InvLock, Ctx, Critical, TaskletOnly
<1>6. ~Publishing /\ HpReg = 0 /\ DevTail = 0
  BY <1>3 DEF Publishing, HpReg, DevTail, Ctx
<1>7. InvPointers BY <1>1, <1>2, <1>3, <1>6 DEF InvPointers, TailKnown
<1>8. Posted = 0 BY DEF Posted
<1>9. Span(0) = 0 BY DEF Span, Dist
<1>10. InvOrder BY <1>3, <1>6, <1>8, <1>9 DEF InvOrder, Ctx
<1>11. InvTail BY <1>2, <1>3, <1>6 DEF InvTail, Ctx
<1>12. InvNeeded BY DEF InvNeeded, Ctx
<1>13. \A i \in Index : Span(i) \in 0 .. NEntries - 1 BY <1>1, DistType DEF Span, Index
<1>14. InvSkb BY <1>8, <1>13 DEF InvSkb
<1>15. InvEntries BY <1>3, <1>6, <1>8, <1>9, <1>13 DEF InvEntries
<1>16. InvHeld BY DEF InvHeld, Holds, Ctx
<1>17. InvMatch BY <1>3, <1>9, <1>13 DEF InvMatch, Ctx
<1> QED
  BY <1>4, <1>5, <1>7, <1>10, <1>11, <1>12, <1>14, <1>15, <1>16, <1>17 DEF IInv

-----------------------------------------------------------------------------
(***************************************************************************)
(* Consequences of the invariant.                                          *)
(***************************************************************************)
\* Advancing an index stays on the ring, and going back undoes it.
LEMMA IndexNext ==
    \A i \in Index : /\ NextIndex(i, NEntries) \in Index
                     /\ PrevIndex(NextIndex(i, NEntries)) = i
BY RingAssumption, NextIndexCases DEF PrevIndex, Index

\* Entry numbers and word offsets of the dst ring correspond.
LEMMA DstOffset ==
    \A i \in Index :
        /\ DstES * i \in 0 .. DstRS - 1
        /\ SrcNext(DstES * i, DstES, DstRS) = DstES * NextIndex(i, NEntries)
        /\ \A j \in Index : DstES * i = DstES * j => i = j
<1> TAKE i \in Index
<1> USE RingAssumption DEF Index, DstRS
<1>1. DstES * i \in 0 .. DstES * NEntries - 1 BY OffsetInRing
<1>2. SrcNext(DstES * i, DstES, DstES * NEntries) = DstES * NextIndex(i, NEntries)
  BY SrcNextOffset
<1>3. \A j \in Index : DstES * i = DstES * j => i = j BY OffsetInjective
<1> QED BY <1>1, <1>2, <1>3

\* Entry numbers and word offsets of the status ring correspond.
LEMMA StatusOffset ==
    \A i \in Index :
        /\ StatusES * i \in 0 .. StatusRS - 1
        /\ SrcNext(StatusES * i, StatusES, StatusRS) = StatusES * NextIndex(i, NEntries)
        /\ DstNext(StatusES * i, StatusES, StatusRS) = StatusES * NextIndex(i, NEntries)
        /\ (StatusES * i) \div StatusES = i
        /\ \A j \in Index : StatusES * i = StatusES * j => i = j
<1> TAKE i \in Index
<1> USE RingAssumption DEF Index, StatusRS
<1>1. StatusES * i \in 0 .. StatusES * NEntries - 1 BY OffsetInRing
<1>2. SrcNext(StatusES * i, StatusES, StatusES * NEntries)
          = StatusES * NextIndex(i, NEntries)
  BY SrcNextOffset
<1>3. DstNext(StatusES * i, StatusES, StatusES * NEntries)
          = StatusES * NextIndex(i, NEntries)
  BY DstNextOffset
<1>4. (StatusES * i) \div StatusES = i BY OffsetDiv
<1>5. \A j \in Index : StatusES * i = StatusES * j => i = j BY OffsetInjective
<1> QED BY <1>1, <1>2, <1>3, <1>4, <1>5

\* The entry before another one is a step nearer to the origin.
LEMMA DistPrev ==
    ASSUME NEW a \in Index, NEW i \in Index
    PROVE  /\ PrevIndex(i) \in Index
           /\ i # a => Dist(a, PrevIndex(i), NEntries) = Dist(a, i, NEntries) - 1
BY RingAssumption, NextIndexCases DEF PrevIndex, Dist, Index

\* Where the pointers are, in steps from sw_index.
PositionFacts ==
    /\ write_index \in Index /\ sw_index \in Index
    /\ StatusTail \in Index /\ StatusHead \in Index
    /\ DevTail \in Index /\ HpReg \in Index
    /\ Posted \in 0 .. NEntries - 2
    /\ \A i \in Index : Span(i) \in 0 .. NEntries - 1
    /\ \A i, j \in Index : Span(i) = Span(j) => i = j
    /\ Span(sw_index) = 0
    /\ Span(write_index) = Posted
    /\ Span(HpReg) = IF Publishing THEN Posted - 1 ELSE Posted
    /\ Span(DevTail) = Span(StatusHead) + (IF dev_buf = NoBuf THEN 0 ELSE 1)
    /\ Span(DevTail) <= Span(HpReg)
    /\ Span(StatusTail) <= Span(StatusHead)

\* The invariant fixes the order of the pointers around the ring.
LEMMA Positions == ASSUME IInv PROVE PositionFacts
<1> USE RingAssumption DEF IInv
<1>1. write_index \in Index /\ sw_index \in Index BY DEF TypeOK, TypePipe
<1>2. StatusHead \in Index /\ StatusTail \in Index BY DEF InvPointers
<1>3. Posted \in 0 .. NEntries - 2 BY DEF TypeOK, TypePipe, Posted
<1>4. \A i \in Index : Span(i) \in 0 .. NEntries - 1
  BY <1>1, DistType DEF Span, Index
<1>5. Span(sw_index) = 0 BY <1>1 DEF Span, Dist, Index
<1>6. Span(write_index) = Posted BY DEF InvOrder
<1>7. HpReg \in Index /\ Span(HpReg) = IF Publishing THEN Posted - 1 ELSE Posted
  <2>1. CASE Publishing
    <3>1. Posted >= 1 BY <2>1 DEF InvOrder
    <3>2. write_index # sw_index BY <3>1, <1>5, <1>6
    <3> QED BY <1>1, <1>6, <2>1, <3>2, DistPrev DEF HpReg, Span
  <2>2. CASE ~Publishing BY <2>2, <1>1, <1>6 DEF HpReg
  <2> QED BY <2>1, <2>2
<1>8. Span(StatusHead) + (IF dev_buf = NoBuf THEN 0 ELSE 1) <= Span(HpReg)
  BY DEF InvOrder
<1>9. /\ DevTail \in Index
      /\ Span(DevTail) = Span(StatusHead) + (IF dev_buf = NoBuf THEN 0 ELSE 1)
  <2>1. CASE dev_buf = NoBuf BY <2>1, <1>2, <1>4 DEF DevTail
  <2>2. CASE dev_buf # NoBuf
    <3>1. Span(StatusHead) < NEntries - 1 BY <2>2, <1>2, <1>3, <1>4, <1>7, <1>8
    <3> QED BY <2>2, <3>1, <1>1, <1>2, DistNext DEF DevTail, Span, Index
  <2> QED BY <2>1, <2>2
<1>10. \A i, j \in Index : Span(i) = Span(j) => i = j
  BY <1>1, DistInjective DEF Span, Index
<1>11. Span(StatusTail) <= Span(StatusHead) BY DEF InvOrder
<1> QED
  BY <1>1, <1>2, <1>3, <1>4, <1>5, <1>6, <1>7, <1>8, <1>9, <1>10, <1>11
  DEF PositionFacts

\* At most one context publishes, and it is the one that holds the lock.
LEMMA OnePublisher ==
    ASSUME IInv, NEW c \in Ctx, NEW d \in Ctx,
           pc[c] \in Critical, pc[d] \in Critical
    PROVE  c = d
BY DEF IInv, InvLock

\* With a prompt device the ring always has room for a missing buffer.
LEMMA RoomForBuffer ==
    ASSUME IInv, PromptTp, NEW c \in Ctx, pc[c] = "fill"
    PROVE  /\ NumFree(d_hp, d_cached_tp, DstES, DstRS) \in Nat \ {0}
           /\ HasNextEntry(d_hp, d_cached_tp, DstES, DstRS)
<1> USE RingAssumption
<1>P. PositionFacts BY Positions
<1>1. PICK j \in Index : d_cached_tp = DstES * j /\ Span(j) <= Posted
  BY DEF IInv, InvTail
<1>2. Posted <= NEntries - 3
  BY DEF IInv, InvNeeded, Posted, TypeOK, TypePipe
<1>3. d_hp = DstES * write_index BY DEF IInv, InvPointers
<1>4. NumFree(d_hp, d_cached_tp, DstES, DstRS) =
          IF j > write_index THEN j - write_index - 1
                             ELSE NEntries - write_index + j - 1
  <2>1. write_index \in 0 .. NEntries - 1 /\ j \in 0 .. NEntries - 1
    BY <1>P DEF PositionFacts, Index
  <2>2. NumFree(DstES * write_index, DstES * j, DstES, DstES * NEntries) =
          IF j > write_index THEN j - write_index - 1
                             ELSE NEntries - write_index + j - 1
    BY <2>1, NumFreeOffset
  <2> QED BY <1>1, <1>3, <2>2 DEF DstRS
<1>5. NumFree(d_hp, d_cached_tp, DstES, DstRS) \in Nat \ {0}
  BY <1>1, <1>2, <1>4, <1>P DEF PositionFacts, Span, Dist, Index
<1>6. HasNextEntry(d_hp, d_cached_tp, DstES, DstRS)
  <2>1. write_index \in 0 .. NEntries - 1 /\ j \in 0 .. NEntries - 1
    BY <1>P DEF PositionFacts, Index
  <2>2. NumFree(DstES * write_index, DstES * j, DstES, DstES * NEntries) >= 1
            <=> HasNextEntry(DstES * write_index, DstES * j, DstES,
                             DstES * NEntries)
    BY <2>1, NumFreeExact
  <2> QED BY <1>1, <1>3, <1>5, <2>2 DEF DstRS
<1> QED BY <1>5, <1>6

\* The tasklet that finds a status entry finds an skb at sw_index; without
\* empty buffers, it is the one that the device announced with this entry.
LEMMA AnnouncedSkb ==
    ASSUME IInv, pc["tasklet"] = "take", s_tp # s_cached_hp
    PROVE  /\ Span(StatusTail) < Span(StatusHead) /\ Posted >= 1
           /\ s_tp = StatusES * StatusTail
           /\ Writable(skb[sw_index])
           /\ NoZeroLength => /\ StatusTail = sw_index
                              /\ s_desc[s_tp] = fill[skb[sw_index]]
                              /\ s_desc[s_tp] # "zero"
<1> USE RingAssumption
<1>P. PositionFacts BY Positions
<1>1. PICK j \in Index : /\ s_cached_hp = StatusES * j
                         /\ Span(StatusTail) <= Span(j) /\ Span(j) <= Span(StatusHead)
  BY DEF IInv, InvOrder
<1>2. s_tp = StatusES * StatusTail BY DEF IInv, InvPointers
<1>3. j # StatusTail BY <1>1, <1>2
<1>4. Span(j) # Span(StatusTail) BY <1>3, <1>P DEF PositionFacts
<1>5. Span(StatusTail) < Span(StatusHead) /\ Posted >= 1
  BY <1>1, <1>4, <1>P DEF PositionFacts
<1>6. Span(sw_index) < Posted /\ Span(sw_index) < Span(StatusHead)
  BY <1>5, <1>P DEF PositionFacts
<1>7. Writable(skb[sw_index]) BY <1>6, <1>P DEF PositionFacts, IInv, InvSkb
<1>8. NoZeroLength => /\ StatusTail = sw_index
                      /\ s_desc[s_tp] = fill[skb[sw_index]]
                      /\ s_desc[s_tp] # "zero"
  BY <1>2, <1>6, <1>P DEF PositionFacts, IInv, InvMatch
<1> QED BY <1>2, <1>5, <1>7, <1>8
-----------------------------------------------------------------------------
(***************************************************************************)
(* Steps that move no place of the ring.                                   *)
(***************************************************************************)
\* No place of the ring moves: the pipe and the entries stay, no context starts
\* to publish, and the buffers the device may write stay writable.
Still ==
    /\ UNCHANGED <<d_hp, s_tp, skb, write_index, sw_index, rx_buf_needed>>
    /\ UNCHANGED <<s_hp_mem, d_desc, s_desc, dev_tp, dev_buf>>
    /\ Publishing' => Publishing
    /\ d_hp_reg' = DstES * HpReg'
    /\ TailKnown'
    /\ pc'["tasklet"] = "take" =>
           \/ s_cached_hp' = s_hp_mem
           \/ pc["tasklet"] = "take" /\ UNCHANGED s_cached_hp
    /\ pc'["tasklet"] \in {"took", "got"} =>
           /\ pc["tasklet"] \in {"took", "got"} /\ UNCHANGED nbytes
           /\ fill'[cur'["tasklet"]] = fill[cur["tasklet"]]
    /\ \A b \in Bufs : Writable(b) => Writable(b)' /\ fill'[b] = fill[b]

\* The part of the invariant about the places on the ring.
InvPlaces == InvPointers /\ InvOrder /\ InvSkb /\ InvEntries /\ InvMatch

\* What the device knows of the status tail changes with the tail only.
LEMMA TailStays ==
    ASSUME TailKnown, UNCHANGED <<s_tp, s_tp_reg>>,
           pc["tasklet"] \in {"took", "stop"} => pc'["tasklet"] \in {"took", "stop"}
    PROVE  TailKnown'
BY DEF TailKnown, StatusTail, PrevIndex

\* A step that moves no place of the ring keeps what is said about places.
LEMMA StillFrame == ASSUME IInv, Still PROVE InvPlaces'
<1>P. PositionFacts BY Positions
<1>1. /\ StatusTail' = StatusTail /\ StatusHead' = StatusHead
      /\ DevTail' = DevTail /\ Posted' = Posted
      /\ \A i \in Index : Span(i)' = Span(i)
  BY DEF Still, StatusTail, StatusHead, DevTail, Posted, Span
<1>2. /\ Span(StatusTail)' = Span(StatusTail)
      /\ Span(StatusHead)' = Span(StatusHead)
      /\ Span(DevTail)' = Span(DevTail)
      /\ Span(write_index)' = Span(write_index)
  BY <1>1 DEF Still, Span
<1>3. Span(HpReg)' \in Int /\ Span(HpReg) <= Span(HpReg)'
  <2>1. HpReg' \in {HpReg, write_index} BY DEF Still, HpReg, PrevIndex
  <2>2. Span(HpReg)' = Span(HpReg) \/ Span(HpReg)' = Posted
    BY <2>1, <1>P DEF Still, Span, PositionFacts
  <2> QED BY <2>2, <1>P, RingAssumption DEF PositionFacts
<1>4. InvPointers' BY <1>1 DEF Still, IInv, InvPointers
<1>5. InvOrder'
  <2>1. Span(StatusHead) + (IF dev_buf = NoBuf THEN 0 ELSE 1) <= Span(HpReg)'
    BY <1>3, <1>P DEF PositionFacts
  <2>2. pc'["tasklet"] = "take" =>
            \E j \in Index : /\ s_cached_hp' = StatusES * j
                             /\ Span(StatusTail) <= Span(j)
                             /\ Span(j) <= Span(StatusHead)
    <3>1. s_hp_mem = StatusES * StatusHead /\ Span(StatusHead) <= Span(StatusHead)
      BY <1>P DEF IInv, InvPointers, PositionFacts
    <3> QED BY <3>1, <1>P DEF Still, IInv, InvOrder, PositionFacts
  <2> QED BY <1>1, <1>2, <2>1, <2>2 DEF Still, IInv, InvOrder
<1>6. InvSkb' BY <1>1 DEF Still, IInv, InvSkb, Writable
<1>7. InvEntries' BY <1>1, <1>2 DEF Still, IInv, InvEntries
<1>8. InvMatch'
  <2>1. \A i \in Index : Span(i) < Span(StatusHead) => fill'[skb[i]] = fill[skb[i]]
    BY <1>P DEF Still, IInv, InvSkb, Writable, PositionFacts
  <2> QED BY <1>1, <1>2, <2>1 DEF Still, IInv, InvMatch
<1> QED BY <1>4, <1>5, <1>6, <1>7, <1>8 DEF InvPlaces

\* Neither does it disturb what the tail of a prompt device gives, when nobody
\* starts to fill an entry.
LEMMA TailFrame ==
    ASSUME IInv, Still, UNCHANGED <<d_tp_mem, d_cached_tp>>,
           \A c \in Ctx : pc'[c] \in {"fill", "nospc"} => pc[c] = pc'[c]
    PROVE  InvTail'
<1>1. /\ StatusHead' = StatusHead /\ Posted' = Posted
      /\ \A i \in Index : Span(i)' = Span(i)
  BY DEF Still, StatusHead, Posted, Span
<1> QED BY <1>1 DEF Still, IInv, InvTail

\* A context that goes on without an skb in hand, and leaves the rings alone,
\* keeps every conjunct but the lock and the types of what it may change.
LEMMA QuietMove ==
    ASSUME NEW c \in Ctx, NEW l, IInv, Goto(c, l),
           pc[c] \notin {"end", "took", "stop", "fill", "nospc", "got"},
           l \notin {"end", "took", "take", "fill", "nospc", "got"},
           l = "alloc" => rx_buf_needed > 0,
           UNCHANGED <<hostRings, pipe, shared, dev_tp, dev_buf>>,
           UNCHANGED <<cur, nbytes, mapped, fill>>,
           \A b \in Bufs : own[b] \in {"ring", "cpu"} => own'[b] = own[b]
    PROVE  /\ TypeRings' /\ TypePipe'
           /\ InvPlaces' /\ InvTail' /\ InvNeeded' /\ InvHeld'
<1>1. \A d \in Ctx : pc'[d] = IF d = c THEN l ELSE pc[d]
  BY DEF IInv, TypeOK, TypeContext, Goto
<1>2. Still
  <2>1. /\ Publishing' = Publishing
        /\ pc["tasklet"] \in {"took", "stop"} => pc'["tasklet"] = pc["tasklet"]
        /\ pc'["tasklet"] \in {"took", "got"} => pc["tasklet"] = pc'["tasklet"]
        /\ pc'["tasklet"] = "take" => pc["tasklet"] = "take"
    BY <1>1 DEF Publishing, Ctx
  <2>2. HpReg' = HpReg /\ TailKnown'
    BY <2>1, TailStays DEF HpReg, PrevIndex, pipe, hostRings, shared, IInv, InvPointers
  <2>3. \A b \in Bufs : Writable(b) => Writable(b)' BY DEF Writable
  <2> QED
    BY <2>1, <2>2, <2>3 DEF Still, IInv, InvPointers, hostRings, pipe, shared
<1>3. InvPlaces' BY <1>2, StillFrame
<1>4. InvTail' BY <1>1, <1>2, TailFrame DEF hostRings, shared
<1>5. InvNeeded' BY <1>1 DEF IInv, InvNeeded, pipe
<1>6. InvHeld'
  <2>1. \A d \in Ctx : Holds(d)' <=> Holds(d) BY <1>1 DEF Holds
  <2>2. \A d \in Ctx : IF Holds(d)'
            THEN cur[d] \in mapped /\ own'[cur[d]] = "cpu"
            ELSE cur[d] = NoBuf
    BY <2>1 DEF IInv, TypeOK, TypeBuffers, InvHeld
  <2> QED BY <2>1, <2>2 DEF IInv, InvHeld
<1>7. TypeRings' BY Zenon DEF IInv, TypeOK, TypeRings, hostRings, shared
<1>8. TypePipe' BY Zenon DEF IInv, TypeOK, TypePipe, pipe
<1> QED BY <1>3, <1>4, <1>5, <1>6, <1>7, <1>8

\* post_pipe entering its critical section preserves the invariant.
LEMMA StepPostBegin == ASSUME NEW c \in Ctx, IInv, PostBegin(c) PROVE IInv'
<1>1. TypeContext'
  BY DEF PostBegin, Goto, IInv, TypeOK, TypeContext, Ctx
<1>4. TypeFlags' BY DEF PostBegin, irq, device, IInv, TypeOK, TypeFlags
<1>5. TypeBuffers'
  BY DEF PostBegin, buffers, IInv, TypeOK, TypeBuffers
<1>2. InvLock'
  BY DEF PostBegin, At, Goto, IInv, TypeOK, TypeContext, InvLock, Ctx,
         Critical, TaskletOnly
<1>3. /\ TypeRings' /\ TypePipe'
      /\ InvPlaces' /\ InvTail' /\ InvNeeded' /\ InvHeld'
  <2>1. PICK l \in {"idle", "alloc"} :
            Goto(c, l) /\ (l = "alloc" => rx_buf_needed > 0)
    BY DEF PostBegin, IInv, TypeOK, TypePipe
  <2>2. pc[c] = "post" BY DEF PostBegin, At
  <2>3. UNCHANGED <<hostRings, pipe, shared, dev_tp, dev_buf>>
        /\ UNCHANGED <<cur, nbytes, own, mapped, fill>>
    BY DEF PostBegin, device, buffers
  <2> QED BY <2>1, <2>2, <2>3, QuietMove
<1> QED BY <1>1, <1>2, <1>3, <1>4, <1>5 DEF IInv, TypeOK, InvPlaces

\* post_pipe without memory for a buffer preserves the invariant.
LEMMA StepPostNoMem == ASSUME NEW c \in Ctx, IInv, PostNoMem(c) PROVE IInv'
<1>1. TypeContext'
  BY DEF PostNoMem, PostFails, Goto, IInv, TypeOK, TypeContext, Ctx
<1>4. TypeFlags' BY DEF PostNoMem, PostFails, irq, device, IInv, TypeOK, TypeFlags
<1>5. TypeBuffers'
  BY ConfigAssumption DEF PostNoMem, PostFails, buffers, IInv, TypeOK, TypeBuffers
<1>2. InvLock'
  BY DEF PostNoMem, PostFails, At, Goto, IInv, TypeOK, TypeContext, InvLock, Ctx,
         Critical, TaskletOnly
<1>3. /\ TypeRings' /\ TypePipe'
      /\ InvPlaces' /\ InvTail' /\ InvNeeded' /\ InvHeld'
  <2>1. At(c, "alloc") /\ Goto(c, "idle") BY DEF PostNoMem, PostFails
  <2>2. UNCHANGED <<hostRings, pipe, shared, dev_tp, dev_buf>>
        /\ UNCHANGED <<cur, nbytes, own, mapped, fill>>
    BY DEF PostNoMem, PostFails, device, buffers
  <2> QED BY <2>1, <2>2, QuietMove DEF At, Ctx
<1> QED BY <1>1, <1>2, <1>3, <1>4, <1>5 DEF IInv, TypeOK, InvPlaces

\* post_pipe whose DMA mapping fails preserves the invariant.
LEMMA StepPostMapError == ASSUME NEW c \in Ctx, IInv, PostMapError(c) PROVE IInv'
<1>b. PICK b \in Bufs : own[b] = "free" /\ own' = [own EXCEPT ![b] = "lost"]
  BY DEF PostMapError, Allocatable
<1>1. TypeContext'
  BY DEF PostMapError, PostFails, Goto, IInv, TypeOK, TypeContext, Ctx
<1>4. TypeFlags' BY DEF PostMapError, PostFails, irq, device, IInv, TypeOK, TypeFlags
<1>5. TypeBuffers'
  <2>1. /\ fails \in 0 .. MaxFails /\ leaked \in 0 .. fails
        /\ fails < MaxFails /\ fails' = fails + 1 /\ leaked' = leaked + 1
    BY DEF PostMapError, PostFails, IInv, TypeOK, TypeBuffers
  <2>2. fails' \in 0 .. MaxFails /\ leaked' \in 0 .. fails' BY <2>1, ConfigAssumption
  <2>3. own' \in [Bufs -> {"free", "cpu", "ring", "list", "lost"}]
    BY <1>b DEF IInv, TypeOK, TypeBuffers
  <2> QED BY <2>2, <2>3, Zenon DEF PostMapError, IInv, TypeOK, TypeBuffers
<1>2. InvLock'
  BY DEF PostMapError, PostFails, At, Goto, IInv, TypeOK, TypeContext, InvLock, Ctx,
         Critical, TaskletOnly
<1>3. /\ TypeRings' /\ TypePipe'
      /\ InvPlaces' /\ InvTail' /\ InvNeeded' /\ InvHeld'
  <2>1. At(c, "alloc") /\ Goto(c, "idle") BY DEF PostMapError, PostFails
  <2>2. UNCHANGED <<hostRings, pipe, shared, dev_tp, dev_buf>>
        /\ UNCHANGED <<cur, nbytes, mapped, fill>>
    BY DEF PostMapError, PostFails, device
  <2>3. \A d \in Bufs : own[d] \in {"ring", "cpu"} => own'[d] = own[d]
    BY <1>b DEF IInv, TypeOK, TypeBuffers
  <2> QED BY <2>1, <2>2, <2>3, QuietMove DEF At, Ctx
<1> QED BY <1>1, <1>2, <1>3, <1>4, <1>5 DEF IInv, TypeOK, InvPlaces

\* Starting the tasklet preserves the invariant.
LEMMA StepTaskletRun == ASSUME IInv, TaskletRun PROVE IInv'
<1>1. TypeContext'
  BY DEF TaskletRun, Goto, IInv, TypeOK, TypeContext, Ctx
<1>4. TypeFlags' BY DEF TaskletRun, irq, device, IInv, TypeOK, TypeFlags
<1>5. TypeBuffers'
  BY DEF TaskletRun, buffers, IInv, TypeOK, TypeBuffers
<1>2. InvLock'
  BY DEF TaskletRun, At, Goto, IInv, TypeOK, TypeContext, InvLock, Ctx,
         Critical, TaskletOnly
<1>3. /\ TypeRings' /\ TypePipe'
      /\ InvPlaces' /\ InvTail' /\ InvNeeded' /\ InvHeld'
  <2>1. At("tasklet", "idle") /\ Goto("tasklet", "recv") BY DEF TaskletRun
  <2>2. UNCHANGED <<hostRings, pipe, shared, dev_tp, dev_buf>>
        /\ UNCHANGED <<cur, nbytes, own, mapped, fill>>
    BY DEF TaskletRun, device, buffers
  <2> QED BY <2>1, <2>2, QuietMove DEF At, Ctx
<1> QED BY <1>1, <1>2, <1>3, <1>4, <1>5 DEF IInv, TypeOK, InvPlaces

\* recv_next finding no status entry preserves the invariant.
LEMMA StepRecvEmpty == ASSUME IInv, RecvEmpty PROVE IInv'
<1>1. TypeContext'
  BY DEF RecvEmpty, Goto, IInv, TypeOK, TypeContext, Ctx
<1>4. TypeFlags' BY DEF RecvEmpty, irq, device, IInv, TypeOK, TypeFlags
<1>5. TypeBuffers'
  BY DEF RecvEmpty, buffers, IInv, TypeOK, TypeBuffers
<1>2. InvLock'
  BY DEF RecvEmpty, At, Goto, IInv, TypeOK, TypeContext, InvLock, Ctx,
         Critical, TaskletOnly
<1>3. /\ TypeRings' /\ TypePipe'
      /\ InvPlaces' /\ InvTail' /\ InvNeeded' /\ InvHeld'
  <2>1. At("tasklet", "take") /\ Goto("tasklet", "stop") BY DEF RecvEmpty
  <2>2. UNCHANGED <<hostRings, pipe, shared, dev_tp, dev_buf>>
        /\ UNCHANGED <<cur, nbytes, own, mapped, fill>>
    BY DEF RecvEmpty, device, buffers
  <2> QED BY <2>1, <2>2, QuietMove DEF At, Ctx
<1> QED BY <1>1, <1>2, <1>3, <1>4, <1>5 DEF IInv, TypeOK, InvPlaces

\* Handing on the received frames preserves the invariant.
LEMMA StepTaskletDrain == ASSUME IInv, TaskletDrain PROVE IInv'
<1>1. TypeContext'
  BY DEF TaskletDrain, Goto, IInv, TypeOK, TypeContext, Ctx
<1>4. TypeFlags' BY DEF TaskletDrain, irq, device, IInv, TypeOK, TypeFlags
<1>5. TypeBuffers'
  BY DEF TaskletDrain, IInv, TypeOK, TypeBuffers
<1>2. InvLock'
  BY DEF TaskletDrain, At, Goto, IInv, TypeOK, TypeContext, InvLock, Ctx,
         Critical, TaskletOnly
<1>3. /\ TypeRings' /\ TypePipe'
      /\ InvPlaces' /\ InvTail' /\ InvNeeded' /\ InvHeld'
  <2>1. At("tasklet", "drain") /\ Goto("tasklet", "post") BY DEF TaskletDrain
  <2>2. UNCHANGED <<hostRings, pipe, shared, dev_tp, dev_buf>>
        /\ UNCHANGED <<cur, nbytes, mapped, fill>>
    BY DEF TaskletDrain, device, buffers
  <2>3. \A b \in Bufs : own[b] \in {"ring", "cpu"} => own'[b] = own[b]
    BY DEF TaskletDrain
  <2> QED BY <2>1, <2>2, <2>3, QuietMove DEF At, Ctx
<1> QED BY <1>1, <1>2, <1>3, <1>4, <1>5 DEF IInv, TypeOK, InvPlaces

\* The replenish timer firing preserves the invariant.
LEMMA StepTimerFire == ASSUME IInv, TimerFire PROVE IInv'
<1>1. TypeContext'
  BY DEF TimerFire, Goto, IInv, TypeOK, TypeContext, Ctx
<1>4. TypeFlags' BY DEF TimerFire, irq, device, IInv, TypeOK, TypeFlags
<1>5. TypeBuffers'
  BY DEF TimerFire, buffers, IInv, TypeOK, TypeBuffers
<1>2. InvLock'
  BY DEF TimerFire, At, Goto, IInv, TypeOK, TypeContext, InvLock, Ctx,
         Critical, TaskletOnly
<1>3. /\ TypeRings' /\ TypePipe'
      /\ InvPlaces' /\ InvTail' /\ InvNeeded' /\ InvHeld'
  <2>1. At("timer", "idle") /\ Goto("timer", "post") BY DEF TimerFire
  <2>2. UNCHANGED <<hostRings, pipe, shared, dev_tp, dev_buf>>
        /\ UNCHANGED <<cur, nbytes, own, mapped, fill>>
    BY DEF TimerFire, device, buffers
  <2> QED BY <2>1, <2>2, QuietMove DEF At, Ctx
<1> QED BY <1>1, <1>2, <1>3, <1>4, <1>5 DEF IInv, TypeOK, InvPlaces

\* The interrupt handler, and the device raising an interrupt, touch nothing
\* that the invariant is about but the types of the flags.
LEMMA StepInterrupt ==
    ASSUME IInv, IrqDispatch \/ IrqClear \/ DevRaise PROVE IInv'
<1>1. UNCHANGED <<hostRings, pipe, shared, dev_tp, dev_buf, timer_armed,
                  context, buffers, fails>>
  BY DEF IrqDispatch, IrqClear, DevRaise, device
<1>2. TypeFlags'
  BY ConfigAssumption DEF IInv, TypeOK, TypeFlags, IrqDispatch, IrqClear,
     DevRaise, device, irq
<1>3. TypeOK'
  BY <1>1, <1>2 DEF IInv, TypeOK, TypeRings, TypePipe, TypeContext, TypeBuffers,
     hostRings, pipe, shared, context, buffers
<1>4. Still
  BY <1>1, TailStays DEF Still, IInv, InvPointers, Publishing, HpReg, PrevIndex,
     Writable, hostRings, pipe, shared, context, buffers
<1>8. InvPlaces' BY <1>4, StillFrame
<1>9. InvTail'
  BY <1>1, <1>4, TailFrame DEF hostRings, shared, context
<1>5. InvLock' BY <1>1 DEF IInv, InvLock, context
<1>6. InvNeeded' BY <1>1 DEF IInv, InvNeeded, context, pipe
<1>7. InvHeld' BY <1>1 DEF IInv, InvHeld, Holds, context, buffers
<1> QED BY <1>3, <1>5, <1>6, <1>7, <1>8, <1>9 DEF IInv, InvPlaces

\* access_begin of recv_next reads the head the device announced.
LEMMA StepRecvBegin == ASSUME IInv, RecvBegin PROVE IInv'
<1>1. TypeOK'
  <2>1. TypeRings'
    BY DEF RecvBegin, shared, device, IInv, TypeOK, TypeRings
  <2>2. TypePipe' /\ TypeFlags'
    BY DEF RecvBegin, pipe, device, irq, IInv, TypeOK, TypePipe, TypeFlags
  <2>3. TypeContext' BY DEF RecvBegin, Goto, IInv, TypeOK, TypeContext, Ctx
  <2>4. TypeBuffers' BY DEF RecvBegin, buffers, IInv, TypeOK, TypeBuffers
  <2> QED BY <2>1, <2>2, <2>3, <2>4 DEF TypeOK
<1>2. InvLock'
  BY DEF RecvBegin, At, Goto, IInv, TypeOK, TypeContext, InvLock, Ctx,
         Critical, TaskletOnly
<1>3. /\ pc["tasklet"] = "recv"
      /\ \A d \in Ctx : pc'[d] = IF d = "tasklet" THEN "take" ELSE pc[d]
  BY DEF RecvBegin, At, Goto, IInv, TypeOK, TypeContext
<1>4. InvNeeded' BY <1>3 DEF RecvBegin, pipe, IInv, InvNeeded
<1>5. InvHeld' BY <1>3 DEF RecvBegin, buffers, IInv, InvHeld, Holds, Ctx
<1>6. Still
  <2>1. Publishing' = Publishing /\ pc'["tasklet"] = "take"
    BY <1>3 DEF Publishing, Ctx
  <2>2. HpReg' = HpReg /\ TailKnown'
    BY <1>3, <2>1, TailStays
    DEF RecvBegin, HpReg, PrevIndex, pipe, shared, IInv, InvPointers
  <2>3. \A b \in Bufs : Writable(b) => Writable(b)'
    BY DEF RecvBegin, Writable, buffers
  <2> QED
    BY <2>1, <2>2, <2>3 DEF RecvBegin, Still, IInv, InvPointers, pipe, shared,
       device, buffers
<1>7. InvPlaces' BY <1>6, StillFrame
<1>8. InvTail' BY <1>3, <1>6, TailFrame DEF RecvBegin, shared
<1> QED BY <1>1, <1>2, <1>4, <1>5, <1>7, <1>8 DEF IInv, InvPlaces

\* access_end of recv_next publishes the tail of the status ring.
LEMMA StepRecvEnd == ASSUME IInv, RecvEnd PROVE IInv'
<1>1. TypeOK'
  <2>1. TypeRings'
    BY DEF RecvEnd, hostRings, device, IInv, TypeOK, TypeRings
  <2>2. TypePipe' /\ TypeFlags'
    BY DEF RecvEnd, pipe, device, irq, IInv, TypeOK, TypePipe, TypeFlags
  <2>3. TypeContext' BY DEF RecvEnd, Goto, IInv, TypeOK, TypeContext, Ctx
  <2>4. TypeBuffers' BY DEF RecvEnd, buffers, IInv, TypeOK, TypeBuffers
  <2> QED BY <2>1, <2>2, <2>3, <2>4 DEF TypeOK
<1>2. InvLock'
  BY DEF RecvEnd, At, Goto, IInv, TypeOK, TypeContext, InvLock, Ctx,
         Critical, TaskletOnly
<1>3. PICK l \in {"got", "drain"} :
          /\ \A d \in Ctx : pc'[d] = IF d = "tasklet" THEN l ELSE pc[d]
          /\ pc["tasklet"] = IF l = "got" THEN "took" ELSE "stop"
  BY DEF RecvEnd, At, Goto, IInv, TypeOK, TypeContext
<1>4. InvNeeded' BY <1>3 DEF RecvEnd, pipe, IInv, InvNeeded
<1>5. InvHeld' BY <1>3 DEF RecvEnd, buffers, IInv, InvHeld, Holds, Ctx
<1>6. Still
  <2>1. /\ Publishing' = Publishing /\ pc'["tasklet"] \notin {"took", "take"}
        /\ pc'["tasklet"] = "got" => pc["tasklet"] = "took"
    BY <1>3 DEF Publishing, Ctx
  <2>2. HpReg' = HpReg /\ TailKnown'
    BY <2>1 DEF RecvEnd, HpReg, TailKnown, PrevIndex, pipe, hostRings
  <2>3. \A b \in Bufs : Writable(b) => Writable(b)'
    BY DEF RecvEnd, Writable, buffers
  <2> QED
    BY <2>1, <2>2, <2>3 DEF RecvEnd, Still, IInv, InvPointers, hostRings, pipe,
       device, buffers
<1>7. InvPlaces' BY <1>6, StillFrame
<1>8. InvTail' BY <1>3, <1>6, TailFrame DEF RecvEnd, hostRings
<1> QED BY <1>1, <1>2, <1>4, <1>5, <1>7, <1>8 DEF IInv, InvPlaces

\* The device writes its tail pointer back.
LEMMA StepDevWriteTp == ASSUME IInv, DevWriteTp PROVE IInv'
<1>1. TypeOK'
  <2>1. TypeRings'
    BY DEF DevWriteTp, hostRings, device, IInv, TypeOK, TypeRings
  <2>2. TypePipe' /\ TypeFlags'
    BY DEF DevWriteTp, pipe, device, irq, IInv, TypeOK, TypePipe, TypeFlags
  <2>3. TypeContext' /\ TypeBuffers'
    BY DEF DevWriteTp, context, buffers, IInv, TypeOK, TypeContext, TypeBuffers
  <2> QED BY <2>1, <2>2, <2>3 DEF TypeOK
<1>2. InvLock' BY DEF DevWriteTp, context, IInv, InvLock
<1>3. InvNeeded' BY DEF DevWriteTp, context, pipe, IInv, InvNeeded
<1>4. InvHeld' BY DEF DevWriteTp, context, buffers, IInv, InvHeld, Holds
<1>5. Still
  BY TailStays DEF DevWriteTp, Still, IInv, InvPointers, Publishing, HpReg,
     PrevIndex, Writable, hostRings, pipe, device, context, buffers
<1>6. InvPlaces' BY <1>5, StillFrame
<1>7. InvTail'
  <2>1. /\ StatusHead' = StatusHead /\ Posted' = Posted
        /\ \A i \in Index : Span(i)' = Span(i)
    BY <1>5 DEF Still, StatusHead, Posted, Span
  <2> QED BY <1>5, <2>1 DEF DevWriteTp, Still, hostRings, context, IInv, InvTail
<1> QED BY <1>1, <1>2, <1>3, <1>4, <1>6, <1>7 DEF IInv, InvPlaces
=============================================================================
