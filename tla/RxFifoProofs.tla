---------------------------- MODULE RxFifoProofs ----------------------------
(***************************************************************************)
(* RxPipe implements RxFifo, for every ring size, every entry size, every  *)
(* set of buffers and every number of failures.                            *)
(***************************************************************************)
EXTENDS RxInvariantProofs, RxRefinement

\* The entry k steps on from sw_index.
Place(k) ==
    IF sw_index + k < NEntries THEN sw_index + k ELSE sw_index + k - NEntries

\* The buffers of n consecutive places of dst_ring->skb, from the k-th on.
Window(k, n) == [j \in 1 .. n |-> skb[Place(k + j - 1)]]

\* Places are counted in steps from sw_index.
LEMMA Places ==
    ASSUME sw_index \in Index
    PROVE  /\ \A k \in 0 .. NEntries - 1 : /\ Place(k) \in Index
                                           /\ Span(Place(k)) = k
                                           /\ (sw_index + k) % NEntries = Place(k)
           /\ \A i \in Index : Place(Span(i)) = i
<1> USE RingAssumption DEF Index
<1>1. \A k \in 0 .. NEntries - 1 : Place(k) \in Index /\ Span(Place(k)) = k
  BY DEF Place, Span, Dist
<1>2. ASSUME NEW k \in 0 .. NEntries - 1
      PROVE  (sw_index + k) % NEntries = Place(k)
  BY DEF Place
<1>3. \A i \in Index : Place(Span(i)) = i BY DEF Place, Span, Dist
<1> QED BY <1>1, <1>2, <1>3

\* Word offsets wrap around the ring as entry numbers do.
LEMMA OffsetWraps ==
    ASSUME NEW es \in Nat \ {0}, NEW n \in Nat \ {0}, NEW x \in 0 .. 2 * n - 1
    PROVE  (es * x) % (es * n) = es * (IF x < n THEN x ELSE x - n)
<1> DEFINE y == IF x < n THEN x ELSE x - n
           q == IF x < n THEN 0 ELSE 1
           m == es * n
           r == es * y
<1>1. y \in 0 .. n - 1 OBVIOUS
<1>2. r \in 0 .. m - 1 /\ m \in Nat BY <1>1, OffsetInRing
<1>3. es * x = m * q + r
  <2>1. CASE x < n BY <2>1
  <2>2. CASE ~(x < n) BY <2>2
  <2> QED BY <2>1, <2>2
<1>4. q \in {0, 1} OBVIOUS
<1> HIDE DEF m, r, q
<1>5. (m * q + r) % m = r
  <2>1. CASE q = 0 BY <1>2, <2>1
  <2>2. CASE q = 1 
    <3>1. (m + r) % m = r BY <1>2
    <3> QED BY <1>2, <2>2, <3>1
  <2> QED BY <1>4, <2>1, <2>2
<1> QED BY <1>3, <1>5 DEF m, r

\* The status ring announces the first places of dst_ring->skb.
LEMMA AnnouncedWindow == IInv => Announced = Window(0, Span(StatusHead))
<1> SUFFICES ASSUME IInv PROVE Announced = Window(0, Span(StatusHead)) OBVIOUS
<1> USE RingAssumption
<1>P. PositionFacts BY Positions
<1>1. sw_index \in 0 .. NEntries - 1 /\ Span(StatusHead) \in 0 .. NEntries - 1
  BY <1>P DEF PositionFacts, Index
<1>2. \A k \in 1 .. Span(StatusHead) :
          (sw_index + k - 1) % NEntries = Place(0 + k - 1)
  <2> TAKE k \in 1 .. Span(StatusHead)
  <2>1. k - 1 \in 0 .. NEntries - 1 BY <1>1
  <2>2. (sw_index + (k - 1)) % NEntries = Place(k - 1)
    BY <2>1, <1>P, Places DEF PositionFacts
  <2>3. sw_index + k - 1 = sw_index + (k - 1) /\ 0 + k - 1 = k - 1 BY <1>1
  <2> QED BY <2>2, <2>3
<1> QED BY <1>2 DEF Announced, Window

\* The entries of the dst ring from the device's tail on hold the skbs of the
\* same places.
LEMMA EntryIsSkb ==
    ASSUME IInv, NEW k \in Nat, Span(DevTail) + k < Span(HpReg)
    PROVE  d_desc[(dev_tp + DstES * k) % DstRS] = skb[Place(Span(DevTail) + k)]
<1> USE RingAssumption
<1>P. PositionFacts BY Positions
<1> DEFINE i == Place(Span(DevTail) + k)
<1>1. /\ Span(DevTail) \in 0 .. NEntries - 1 /\ Span(HpReg) \in 0 .. NEntries - 1
      /\ Span(HpReg) <= Posted /\ Posted \in 0 .. NEntries - 2
      /\ DevTail \in 0 .. NEntries - 1 /\ sw_index \in 0 .. NEntries - 1
      /\ Place(Span(DevTail)) = DevTail
  BY <1>P, Places DEF PositionFacts, Index
<1>2. /\ i \in Index /\ Span(i) = Span(DevTail) + k
  BY <1>1, <1>P, Places DEF PositionFacts
<1>3. d_desc[DstES * i] = skb[i]
  BY <1>1, <1>2 DEF IInv, InvEntries
<1>4. DevTail + k \in 0 .. 2 * NEntries - 1 BY <1>1
<1>5. i = IF DevTail + k < NEntries THEN DevTail + k ELSE DevTail + k - NEntries
  BY <1>1 DEF Place
<1> HIDE DEF i
<1>6. (DstES * (DevTail + k)) % (DstES * NEntries) = DstES * i
  <2> DEFINE x == DevTail + k
             y == IF x < NEntries THEN x ELSE x - NEntries
  <2>1. x \in 0 .. 2 * NEntries - 1 /\ NEntries \in Nat \ {0} BY <1>4
  <2>2. i = y BY <1>1, <1>5
  <2> HIDE DEF x
  <2>3. (DstES * x) % (DstES * NEntries) = DstES * y BY <2>1, OffsetWraps
  <2> HIDE DEF y
  <2>4. (DstES * x) % (DstES * NEntries) = DstES * i BY <2>2, <2>3
  <2> QED BY <2>4 DEF x
<1>7. dev_tp + DstES * k = DstES * (DevTail + k)
  BY <1>1 DEF IInv, InvPointers
<1> QED BY <1>3, <1>6, <1>7 DEF DstRS, i

\* The device fills the places that follow the announced ones, up to the
\* published head.
LEMMA PostedWindow ==
    IInv => PostedToDevice
                = Window(Span(StatusHead), Span(HpReg) - Span(StatusHead))
<1> SUFFICES ASSUME IInv
             PROVE  PostedToDevice
                        = Window(Span(StatusHead), Span(HpReg) - Span(StatusHead))
  OBVIOUS
<1> USE RingAssumption
<1>P. PositionFacts BY Positions
<1> DEFINE n == Span(HpReg) - Span(DevTail)
           f == [k \in 1 .. n |-> d_desc[(dev_tp + DstES * (k - 1)) % DstRS]]
<1>1. /\ Span(DevTail) \in 0 .. NEntries - 1 /\ Span(HpReg) \in 0 .. NEntries - 1
      /\ Span(StatusHead) \in 0 .. NEntries - 1 /\ Span(DevTail) <= Span(HpReg)
      /\ Span(DevTail) = Span(StatusHead) + (IF dev_buf = NoBuf THEN 0 ELSE 1)
      /\ DevTail \in 0 .. NEntries - 1 /\ HpReg \in 0 .. NEntries - 1
      /\ Place(Span(StatusHead)) = StatusHead
  BY <1>P, Places DEF PositionFacts, Index
<1>2. Dist(DevTail, HpReg, NEntries) = n
  BY <1>1, <1>P DEF PositionFacts, Span, Dist, Index
<1>3. Dist(dev_tp, d_hp_reg, DstRS) \div DstES = n
  <2>1. dev_tp = DstES * DevTail /\ d_hp_reg = DstES * HpReg
    BY DEF IInv, InvPointers
  <2>2. Dist(dev_tp, d_hp_reg, DstRS) = DstES * n
    BY <1>1, <1>2, <2>1, DistOffset DEF DstRS
  <2>3. n \in Int BY <1>1
  <2> QED BY <2>2, <2>3, OffsetDiv
<1>4. f = Window(Span(DevTail), n)
  <2>1. \A k \in 1 .. n : d_desc[(dev_tp + DstES * (k - 1)) % DstRS]
                              = skb[Place(Span(DevTail) + k - 1)]
    <3> TAKE k \in 1 .. n
    <3>1. k - 1 \in Nat /\ Span(DevTail) + (k - 1) < Span(HpReg)
          /\ Span(DevTail) + k - 1 = Span(DevTail) + (k - 1)
      BY <1>1
    <3> QED BY <3>1, EntryIsSkb
  <2> QED BY <2>1 DEF Window
<1>5. n \in Nat BY <1>1
<1>6. PostedToDevice = (IF dev_buf = NoBuf THEN <<>> ELSE <<dev_buf>>) \o f
  BY <1>3 DEF PostedToDevice
<1>7. CASE dev_buf = NoBuf
  <2>1. <<>> \o f = f BY <1>5
  <2> QED BY <1>1, <1>4, <1>6, <1>7, <2>1
<1>8. CASE dev_buf # NoBuf
  <2> DEFINE g == Window(Span(StatusHead), n + 1)
  <2>1. dev_buf = skb[StatusHead] BY <1>8 DEF IInv, InvEntries
  <2>2. Span(HpReg) - Span(StatusHead) = n + 1 BY <1>1, <1>8
  <2>3. <<dev_buf>> \o f = [j \in 1 .. n + 1 |-> IF j = 1 THEN dev_buf ELSE f[j - 1]]
    <3> HIDE DEF n
    <3>1. Len(f) = n /\ DOMAIN f = 1 .. n BY <1>5
    <3> HIDE DEF f
    <3> QED BY <1>5, <3>1
  <2>4. \A j \in 1 .. n + 1 : (IF j = 1 THEN dev_buf ELSE f[j - 1])
                                  = skb[Place(Span(StatusHead) + j - 1)]
    <3> TAKE j \in 1 .. n + 1
    <3>1. CASE j = 1
      <4>1. Span(StatusHead) + j - 1 = Span(StatusHead) BY <1>1, <3>1
      <4> QED BY <1>1, <2>1, <3>1, <4>1
    <3>2. CASE j # 1
      <4>1. j - 1 \in 1 .. n
            /\ Span(DevTail) + (j - 1) - 1 = Span(StatusHead) + j - 1
        BY <1>1, <1>5, <1>8, <3>2
      <4>2. f[j - 1] = skb[Place(Span(DevTail) + (j - 1) - 1)]
        BY <1>4, <4>1 DEF Window
      <4> QED BY <3>2, <4>1, <4>2
    <3> QED BY <3>1, <3>2
  <2>5. g = [j \in 1 .. n + 1 |-> IF j = 1 THEN dev_buf ELSE f[j - 1]]
    BY <2>4 DEF Window
  <2> QED BY <1>6, <1>8, <2>2, <2>3, <2>5
<1> QED BY <1>7, <1>8

\* The two queues of the abstract specification are windows of dst_ring->skb.
QueueFacts ==
    /\ Announced = Window(0, Span(StatusHead))
    /\ PostedToDevice = Window(Span(StatusHead), Span(HpReg) - Span(StatusHead))

\* The invariant fixes the queues and the places.
LEMMA Queues == IInv => QueueFacts /\ PositionFacts
<1>1. IInv => PositionFacts BY Positions
<1> QED BY <1>1, AnnouncedWindow, PostedWindow DEF QueueFacts

\* The same in the next state.
LEMMA QueuesNext == IInv' => QueueFacts' /\ PositionFacts'
BY Queues, PTL

\* A window of places that hold a buffer, which are all different.
LEMMA WindowType ==
    ASSUME IInv, NEW k \in Nat, NEW n \in Nat, k + n <= Posted
    PROVE  /\ Window(k, n) \in [1 .. n -> Bufs]
           /\ \A p \in 0 .. NEntries - 1 :
                  skb[Place(p)] \in Fifo!Range(Window(k, n)) => p \in k .. k + n - 1
<1> USE RingAssumption, ConfigAssumption
<1>P. PositionFacts BY Positions
<1>1. /\ Posted \in 0 .. NEntries - 2
      /\ \A p \in 0 .. NEntries - 1 : Place(p) \in Index /\ Span(Place(p)) = p
  BY <1>P, Places DEF PositionFacts
<1>2. ASSUME NEW j \in 1 .. n
      PROVE  /\ k + j - 1 \in 0 .. NEntries - 1 /\ k + j - 1 \in k .. k + n - 1
             /\ skb[Place(k + j - 1)] \in Bufs
  <2>1. k + j - 1 \in 0 .. NEntries - 1 /\ k + j - 1 < Posted
        /\ k + j - 1 \in k .. k + n - 1
    BY <1>1
  <2>2. Writable(skb[Place(k + j - 1)]) BY <1>1, <2>1 DEF IInv, InvSkb
  <2> QED BY <2>1, <2>2 DEF Writable
<1>3. ASSUME NEW p \in 0 .. NEntries - 1, skb[Place(p)] \in Fifo!Range(Window(k, n))
      PROVE  p \in k .. k + n - 1
  <2>1. PICK j \in 1 .. n : skb[Place(p)] = skb[Place(k + j - 1)]
    BY <1>3 DEF Fifo!Range, Window
  <2>2. Place(p) = Place(k + j - 1)
    BY <1>1, <1>2, <2>1 DEF IInv, InvSkb
  <2>3. p = k + j - 1 BY <1>1, <1>2, <2>2
  <2> QED BY <1>2, <2>3
<1>4. Window(k, n) \in [1 .. n -> Bufs] BY <1>2 DEF Window
<1> QED BY <1>3, <1>4

\* A step that moves neither sw_index nor the ends of the two queues, nor an skb
\* between them, leaves the queues as they are.
LEMMA QueuesStay ==
    ASSUME IInv, IInv', UNCHANGED sw_index,
           StatusHead' = StatusHead, HpReg' = HpReg,
           \A i \in Index : Span(i) < Span(HpReg) => skb'[i] = skb[i]
    PROVE  UNCHANGED <<PostedToDevice, Announced>>
<1> USE RingAssumption
<1>P. PositionFacts BY Positions
<1> DEFINE s == Span(StatusHead)
           h == Span(HpReg)
<1>1. Span(StatusHead)' = s /\ Span(HpReg)' = h BY DEF Span
<1>2. \A k : Place(k)' = Place(k) BY DEF Place
<1>3. s \in 0 .. NEntries - 1 /\ h \in 0 .. NEntries - 1 /\ s <= h
  BY <1>P DEF PositionFacts
<1>4. \A k \in 0 .. NEntries - 1 : k < h => skb'[Place(k)] = skb[Place(k)]
  BY <1>P, Places DEF PositionFacts
<1> HIDE DEF s, h
<1>5. Announced' = Announced
  <2>1. Announced = Window(0, s) BY Queues DEF QueueFacts, s
  <2>2. Announced' = [j \in 1 .. s |-> skb'[Place(0 + j - 1)]]
    BY <1>1, <1>2, QueuesNext DEF QueueFacts, Window
  <2>3. \A j \in 1 .. s : skb'[Place(0 + j - 1)] = skb[Place(0 + j - 1)]
    BY <1>3, <1>4
  <2> QED BY <2>1, <2>2, <2>3 DEF Window
<1>6. PostedToDevice' = PostedToDevice
  <2>1. PostedToDevice = Window(s, h - s) BY Queues DEF QueueFacts, s, h
  <2>2. PostedToDevice' = [j \in 1 .. h - s |-> skb'[Place(s + j - 1)]]
    BY <1>1, <1>2, QueuesNext DEF QueueFacts, Window
  <2>3. \A j \in 1 .. h - s : skb'[Place(s + j - 1)] = skb[Place(s + j - 1)]
    BY <1>3, <1>4
  <2> QED BY <2>1, <2>2, <2>3 DEF Window
<1> QED BY <1>5, <1>6

\* Appending to a sequence that is given as a function.
LEMMA SeqGrows ==
    ASSUME NEW n \in Nat, NEW f \in [1 .. n -> Bufs], NEW x \in Bufs
    PROVE  /\ Len(f) = n
           /\ Append(f, x) = [j \in 1 .. n + 1 |-> IF j = n + 1 THEN x ELSE f[j]]
<1>1. f \in Seq(Bufs) /\ Len(f) = n OBVIOUS
<1> DEFINE g == Append(f, x)
<1>2. /\ g \in Seq(Bufs) /\ Len(g) = n + 1 /\ g[n + 1] = x
      /\ \A j \in 1 .. n : g[j] = f[j]
  BY <1>1
<1> HIDE DEF g
<1>3. g \in [1 .. n + 1 -> Bufs] BY <1>2
<1>4. g = [j \in 1 .. n + 1 |-> IF j = n + 1 THEN x ELSE f[j]] BY <1>2, <1>3
<1> QED BY <1>1, <1>4 DEF g

\* Head and tail of a sequence that is given as a function.
LEMMA SeqShrinks ==
    ASSUME NEW n \in Nat \ {0}, NEW f \in [1 .. n -> Bufs]
    PROVE  /\ f # <<>> /\ Head(f) = f[1]
           /\ Tail(f) = [j \in 1 .. n - 1 |-> f[j + 1]]
<1>1. f \in Seq(Bufs) /\ Len(f) = n OBVIOUS
<1>2. f # <<>> /\ Head(f) = f[1] BY <1>1
<1> DEFINE g == Tail(f)
<1>3. /\ g \in Seq(Bufs) /\ Len(g) = n - 1
      /\ \A j \in 1 .. n - 1 : g[j] = f[j + 1]
  BY <1>1, <1>2
<1> HIDE DEF g
<1>4. g \in [1 .. n - 1 -> Bufs] BY <1>3
<1>5. g = [j \in 1 .. n - 1 |-> f[j + 1]] BY <1>3, <1>4
<1> QED BY <1>2, <1>5 DEF g

-----------------------------------------------------------------------------
(***************************************************************************)
(* The steps that move a buffer from one queue to the other.               *)
(***************************************************************************)
\* Where the skb that the tasklet has taken comes from.
LEMMA TakenIsApart == ASSUME IInv PROVE Taken = NoBuf \/ own[Taken] = "cpu"
BY DEF IInv, InvHeld, Holds, Taken, Ctx

\* access_end of enqueue_pipe posts the buffer at the new head.
LEMMA StepPosts ==
    ASSUME IInv, IInv', NEW c \in Ctx, EnqueueEnd(c) PROVE Fifo!PostBuf
<1> USE RingAssumption, ConfigAssumption
<1>P. PositionFacts /\ QueueFacts /\ PositionFacts' /\ QueueFacts'
  BY Queues, QueuesNext
<1> DEFINE s == Span(StatusHead)
           h == Span(HpReg)
           b == skb[Place(h)]
<1>1. /\ pc[c] = "end" /\ pc'[c] \in {"idle", "alloc"}
      /\ \A d \in Ctx : d # c => pc'[d] = pc[d]
      /\ UNCHANGED <<skb, sw_index, write_index, rx_buf_needed, s_hp_mem, cur>>
  BY DEF EnqueueEnd, At, Goto, pipe, IInv, TypeOK, TypeContext
<1>2. Publishing BY <1>1 DEF Publishing
<1>3. ~Publishing'
  <2>1. \A d \in Ctx : d # c => pc[d] # "end"
    BY <1>1, OnePublisher DEF Critical
  <2> QED BY <1>1, <2>1 DEF Publishing
<1>4. Taken' = Taken BY <1>1 DEF Taken, Ctx
<1>5. StatusHead' = StatusHead /\ Posted' = Posted
  BY <1>1 DEF StatusHead, Posted
<1>p. \A k : Place(k)' = Place(k) BY <1>1 DEF Place
<1>6. /\ s \in 0 .. NEntries - 1 /\ h \in 0 .. NEntries - 1 /\ s <= h
      /\ h + 1 = Posted /\ Posted \in 0 .. NEntries - 2
  BY <1>P, <1>2 DEF PositionFacts
<1>7. Span(StatusHead)' = s /\ Span(HpReg)' = h + 1
  BY <1>P, <1>1, <1>3, <1>5, <1>6 DEF PositionFacts, Span
<1> HIDE DEF s, h
<1>8. Announced = Window(0, s) /\ PostedToDevice = Window(s, h - s)
  BY <1>P DEF QueueFacts, s, h
<1>9. Announced' = Window(0, s) /\ PostedToDevice' = Window(s, h + 1 - s)
  <2>1. /\ Announced' = Window(0, Span(StatusHead))'
        /\ PostedToDevice'
               = Window(Span(StatusHead), Span(HpReg) - Span(StatusHead))'
    BY <1>P DEF QueueFacts
  <2>2. Announced' = [j \in 1 .. s |-> skb'[Place(0 + j - 1)]]
    BY <2>1, <1>p, <1>7 DEF Window
  <2>3. PostedToDevice' = [j \in 1 .. h + 1 - s |-> skb'[Place(s + j - 1)]]
    <3>1. (Span(HpReg) - Span(StatusHead))' = h + 1 - s BY <1>6, <1>7
    <3> QED BY <2>1, <3>1, <1>p, <1>7 DEF Window
  <2> QED BY <1>1, <2>2, <2>3 DEF Window
<1>10. Writable(b)
  <2>1. Place(h) \in Index /\ Span(Place(h)) = h BY <1>6, <1>P, Places DEF PositionFacts
  <2> QED BY <1>6, <2>1 DEF IInv, InvSkb
<1>11. /\ Window(0, s) \in [1 .. s -> Bufs] /\ b \notin Fifo!Range(Window(0, s))
       /\ Window(s, h - s) \in [1 .. h - s -> Bufs]
       /\ b \notin Fifo!Range(Window(s, h - s))
  <2>1. 0 \in Nat /\ s \in Nat /\ h - s \in Nat /\ h \in 0 .. NEntries - 1
        /\ 0 + s <= Posted /\ s + (h - s) <= Posted
        /\ h \notin 0 .. 0 + s - 1 /\ h \notin s .. s + (h - s) - 1
    BY <1>6
  <2>2. /\ Window(0, s) \in [1 .. s -> Bufs]
        /\ skb[Place(h)] \in Fifo!Range(Window(0, s)) => h \in 0 .. 0 + s - 1
    BY <2>1, WindowType
  <2>3. /\ Window(s, h - s) \in [1 .. h - s -> Bufs]
        /\ skb[Place(h)] \in Fifo!Range(Window(s, h - s))
               => h \in s .. s + (h - s) - 1
    BY <2>1, WindowType
  <2> QED BY <2>1, <2>2, <2>3
<1>12. b # Taken BY <1>10, TakenIsApart DEF Writable
<1>13. Len(PostedToDevice) + Len(Announced) < NEntries - 2
  BY <1>6, <1>8, <1>11, <1>10, SeqGrows DEF Writable
<1>14. PostedToDevice' = Append(PostedToDevice, b)
  <2>1. Append(Window(s, h - s), b)
            = [j \in 1 .. h - s + 1 |-> IF j = h - s + 1 THEN b
                                        ELSE Window(s, h - s)[j]]
    BY <1>6, <1>10, <1>11, SeqGrows DEF Writable
  <2>2. \A j \in 1 .. h + 1 - s : skb[Place(s + j - 1)]
            = IF j = h - s + 1 THEN b ELSE Window(s, h - s)[j]
    <3> TAKE j \in 1 .. h + 1 - s
    <3>1. CASE j = h - s + 1
      <4>1. s + j - 1 = h BY <1>6, <3>1
      <4> QED BY <3>1, <4>1
    <3>2. CASE j # h - s + 1
      <4>1. j \in 1 .. h - s BY <1>6, <3>2
      <4> QED BY <3>2, <4>1 DEF Window
    <3> QED BY <3>1, <3>2
  <2>3. h - s + 1 = h + 1 - s BY <1>6
  <2> QED BY <1>8, <1>9, <2>1, <2>2, <2>3 DEF Window
<1>15. b \in Bufs \ (Fifo!Range(PostedToDevice) \union Fifo!Range(Announced)
                         \union {Taken})
  BY <1>8, <1>10, <1>11, <1>12 DEF Writable
<1> QED BY <1>4, <1>8, <1>9, <1>13, <1>14, <1>15 DEF Fifo!PostBuf

\* The device that announces a buffer fills the oldest one.
LEMMA StepFills ==
    ASSUME IInv, IInv', DevComplete PROVE Fifo!Fill
<1> USE RingAssumption
<1>P. PositionFacts /\ QueueFacts /\ PositionFacts' /\ QueueFacts'
  BY Queues, QueuesNext
<1> DEFINE s == Span(StatusHead)
           h == Span(HpReg)
<1>1. /\ UNCHANGED <<skb, sw_index, write_index, pc, cur>> /\ dev_buf # NoBuf
      /\ s_hp_mem' = SrcNext(s_hp_mem, StatusES, StatusRS)
  BY DEF DevComplete, pipe, context
<1>2. HpReg' = HpReg /\ Taken' = Taken
  BY <1>1 DEF HpReg, Publishing, PrevIndex, Taken
<1>3. \A k : Place(k)' = Place(k) BY <1>1 DEF Place
<1>4. /\ s \in 0 .. NEntries - 1 /\ h \in 0 .. NEntries - 1 /\ s + 1 <= h
      /\ h <= Posted /\ Posted \in 0 .. NEntries - 2
  BY <1>P, <1>1 DEF PositionFacts
<1>5. StatusHead' = NextIndex(StatusHead, NEntries)
  <2>1. StatusHead \in Index /\ NextIndex(StatusHead, NEntries) \in Index
    BY <1>P, IndexNext DEF PositionFacts
  <2>2. s_hp_mem' = StatusES * NextIndex(StatusHead, NEntries)
    BY <1>1, <2>1, StatusOffset DEF IInv, InvPointers
  <2> QED BY <2>1, <2>2, StatusOffset DEF StatusHead
<1>6. Span(StatusHead)' = s + 1 /\ Span(HpReg)' = h
  <2>1. Span(HpReg)' = h BY <1>1, <1>2 DEF Span
  <2>2. Dist(sw_index, NextIndex(StatusHead, NEntries), NEntries) = s + 1
    <3>1. /\ sw_index \in 0 .. NEntries - 1 /\ StatusHead \in 0 .. NEntries - 1
          /\ s < NEntries - 1
      BY <1>P, <1>4 DEF PositionFacts, Index
    <3>2. Dist(sw_index, StatusHead, NEntries) = s BY DEF Span
    <3> HIDE DEF s
    <3> QED BY <3>1, <3>2, DistNext
  <2> QED BY <1>1, <1>5, <2>1, <2>2 DEF Span
<1>7. /\ Window(0, s) \in [1 .. s -> Bufs]
      /\ Window(s, h - s) \in [1 .. h - s -> Bufs]
  <2>1. s \in Nat /\ h - s \in Nat /\ 0 + s <= Posted /\ s + (h - s) <= Posted
    BY <1>4
  <2> QED BY <2>1, WindowType
<1> HIDE DEF s, h
<1>8. Announced = Window(0, s) /\ PostedToDevice = Window(s, h - s)
  BY <1>P DEF QueueFacts, s, h
<1>9. /\ Announced' = [j \in 1 .. s + 1 |-> skb[Place(0 + j - 1)]]
      /\ PostedToDevice' = [j \in 1 .. h - s - 1 |-> skb[Place(s + 1 + j - 1)]]
  <2>1. /\ Announced' = Window(0, Span(StatusHead))'
        /\ PostedToDevice'
               = Window(Span(StatusHead), Span(HpReg) - Span(StatusHead))'
    BY <1>P DEF QueueFacts
  <2>2. Announced' = [j \in 1 .. s + 1 |-> skb'[Place(0 + j - 1)]]
    BY <2>1, <1>3, <1>6 DEF Window
  <2>3. PostedToDevice' = [j \in 1 .. h - s - 1 |-> skb'[Place(s + 1 + j - 1)]]
    <3>1. (Span(HpReg) - Span(StatusHead))' = h - s - 1 BY <1>4, <1>6
    <3> QED BY <2>1, <3>1, <1>3, <1>6 DEF Window
  <2> QED BY <1>1, <2>2, <2>3
<1>10. h - s \in Nat \ {0} /\ s \in Nat BY <1>4
<1>11. /\ PostedToDevice # <<>>
       /\ Head(PostedToDevice) = skb[Place(s)] /\ skb[Place(s)] \in Bufs
       /\ Tail(PostedToDevice)
              = [j \in 1 .. h - s - 1 |-> Window(s, h - s)[j + 1]]
  <2>1. Window(s, h - s)[1] = skb[Place(s)]
    <3>1. s + 1 - 1 = s /\ 1 \in 1 .. h - s BY <1>4
    <3> QED BY <3>1 DEF Window
  <2> QED BY <1>7, <1>8, <1>10, <2>1, SeqShrinks
<1>12. PostedToDevice' = Tail(PostedToDevice)
  <2>1. \A j \in 1 .. h - s - 1 :
            Window(s, h - s)[j + 1] = skb[Place(s + 1 + j - 1)]
    <3> TAKE j \in 1 .. h - s - 1
    <3>1. j + 1 \in 1 .. h - s /\ s + (j + 1) - 1 = s + 1 + j - 1 BY <1>4
    <3> QED BY <3>1 DEF Window
  <2> QED BY <1>9, <1>11, <2>1
<1>13. Announced' = Append(Announced, skb[Place(s)])
  <2>1. Append(Window(0, s), skb[Place(s)])
            = [j \in 1 .. s + 1 |-> IF j = s + 1 THEN skb[Place(s)]
                                    ELSE Window(0, s)[j]]
    BY <1>7, <1>10, <1>11, SeqGrows
  <2>2. \A j \in 1 .. s + 1 : skb[Place(0 + j - 1)]
            = IF j = s + 1 THEN skb[Place(s)] ELSE Window(0, s)[j]
    <3> TAKE j \in 1 .. s + 1
    <3>1. CASE j = s + 1
      <4>1. 0 + j - 1 = s BY <1>4, <3>1
      <4> QED BY <3>1, <4>1
    <3>2. CASE j # s + 1
      <4>1. j \in 1 .. s BY <1>4, <3>2
      <4> QED BY <3>2, <4>1 DEF Window
    <3> QED BY <3>1, <3>2
  <2> QED BY <1>8, <1>9, <2>1, <2>2
<1> QED BY <1>2, <1>11, <1>12, <1>13 DEF Fifo!Fill

\* recv_next receives the oldest announced buffer.
LEMMA StepReceives ==
    ASSUME IInv, IInv', RecvTake PROVE Fifo!Receive
<1> USE RingAssumption
<1>P. PositionFacts /\ QueueFacts /\ PositionFacts' /\ QueueFacts'
  BY Queues, QueuesNext
<1> DEFINE s == Span(StatusHead)
           h == Span(HpReg)
           Moved(k) == IF sw_index' + k < NEntries THEN sw_index' + k
                                                   ELSE sw_index' + k - NEntries
<1>1. /\ pc["tasklet"] = "take" /\ pc'["tasklet"] = "took"
      /\ \A d \in Ctx : d # "tasklet" => pc'[d] = pc[d]
      /\ UNCHANGED <<write_index, s_hp_mem>>
      /\ s_tp # s_cached_hp
      /\ cur'["tasklet"] = skb[sw_index]
      /\ skb' = [skb EXCEPT ![sw_index] = NoBuf]
      /\ sw_index' = NextIndex(sw_index, NEntries)
  BY DEF RecvTake, At, Goto, shared, IInv, TypeOK, TypeContext, Ctx
<1>2. Publishing' <=> Publishing BY <1>1 DEF Publishing
<1>3. StatusHead' = StatusHead /\ HpReg' = HpReg
  BY <1>1, <1>2 DEF StatusHead, HpReg, PrevIndex
<1>4. Taken = NoBuf /\ Taken' = skb[sw_index] BY <1>1 DEF Taken
<1>5. /\ s \in 1 .. NEntries - 1 /\ h \in 0 .. NEntries - 1 /\ s <= h
      /\ h <= Posted /\ Posted \in 0 .. NEntries - 2
  <2>1. Span(StatusTail) < s BY <1>1, AnnouncedSkb
  <2>2. Span(StatusTail) \in 0 .. NEntries - 1 BY <1>P DEF PositionFacts
  <2> QED BY <1>P, <2>1, <2>2 DEF PositionFacts
<1>6. /\ sw_index \in 0 .. NEntries - 1 /\ Place(0) = sw_index
      /\ skb \in [Index -> Bufs \union {NoBuf}]
      /\ \A k \in 0 .. NEntries - 1 : Place(k) \in Index /\ Span(Place(k)) = k
  BY <1>P, Places DEF PositionFacts, Index, Place, IInv, TypeOK, TypePipe
<1>7. \A i \in Index : i # sw_index => Span(i)' = Span(i) - 1
  BY <1>1, <1>6, DistNext DEF Span, Index
<1>8. \A k \in 0 .. NEntries - 2 : Moved(k) = Place(k + 1)
  BY <1>1, <1>6, NextIndexCases DEF Place
<1>9. Span(StatusHead)' = s - 1 /\ Span(HpReg)' = h - 1
  <2>1. /\ StatusHead \in Index /\ StatusHead # sw_index
        /\ HpReg \in Index /\ HpReg # sw_index
    BY <1>P, <1>5 DEF PositionFacts
  <2> QED BY <1>3, <1>7, <2>1 DEF Span
<1>10. \A k \in 1 .. NEntries - 1 : skb'[Place(k)] = skb[Place(k)]
  <2> TAKE k \in 1 .. NEntries - 1
  <2>1. Place(k) # sw_index BY <1>6
  <2> QED BY <1>1, <1>6, <2>1
<1>11. /\ Window(0, s) \in [1 .. s -> Bufs] /\ s \in Nat \ {0}
  <2>1. s \in Nat \ {0} /\ 0 + s <= Posted BY <1>5
  <2>2. Window(0, s) \in [1 .. s -> Bufs]
    <3> HIDE DEF s
    <3> QED BY <2>1, WindowType
  <2> QED BY <2>1, <2>2
<1> HIDE DEF s, h, Moved
<1>12. Announced = Window(0, s) /\ PostedToDevice = Window(s, h - s)
  BY <1>P DEF QueueFacts, s, h
<1>13. /\ Announced' = [j \in 1 .. s - 1 |-> skb[Place(j)]]
       /\ PostedToDevice' = [j \in 1 .. h - s |-> skb[Place(s + j - 1)]]
  <2>1. /\ Announced' = Window(0, Span(StatusHead))'
        /\ PostedToDevice'
               = Window(Span(StatusHead), Span(HpReg) - Span(StatusHead))'
    BY <1>P DEF QueueFacts
  <2>2. Announced' = [j \in 1 .. s - 1 |-> skb'[Moved(0 + j - 1)]]
    BY <2>1, <1>9 DEF Window, Place, Moved
  <2>3. PostedToDevice' = [j \in 1 .. h - s |-> skb'[Moved(s - 1 + j - 1)]]
    <3>1. (Span(HpReg) - Span(StatusHead))' = h - s BY <1>5, <1>9
    <3> QED BY <2>1, <3>1, <1>9 DEF Window, Place, Moved
  <2>4. \A j \in 1 .. s - 1 : skb'[Moved(0 + j - 1)] = skb[Place(j)]
    <3> TAKE j \in 1 .. s - 1
    <3>1. 0 + j - 1 \in 0 .. NEntries - 2 /\ (0 + j - 1) + 1 = j
          /\ j \in 1 .. NEntries - 1
      BY <1>5
    <3>2. Moved(0 + j - 1) = Place(j) BY <1>8, <3>1
    <3> QED BY <1>10, <3>1, <3>2
  <2>5. \A j \in 1 .. h - s : skb'[Moved(s - 1 + j - 1)] = skb[Place(s + j - 1)]
    <3> TAKE j \in 1 .. h - s
    <3>1. s - 1 + j - 1 \in 0 .. NEntries - 2 /\ (s - 1 + j - 1) + 1 = s + j - 1
          /\ s + j - 1 \in 1 .. NEntries - 1
      BY <1>5
    <3>2. Moved(s - 1 + j - 1) = Place(s + j - 1) BY <1>8, <3>1
    <3> QED BY <1>10, <3>1, <3>2
  <2> QED BY <2>2, <2>3, <2>4, <2>5
<1>14. PostedToDevice' = PostedToDevice BY <1>12, <1>13 DEF Window
<1>15. /\ Announced # <<>> /\ Head(Announced) = skb[sw_index]
       /\ Tail(Announced) = [j \in 1 .. s - 1 |-> Window(0, s)[j + 1]]
  <2>1. Window(0, s)[1] = skb[sw_index]
    <3>1. 1 \in 1 .. s /\ 0 + 1 - 1 = 0 BY <1>5
    <3> QED BY <1>6, <3>1 DEF Window
  <2> QED BY <1>11, <1>12, <2>1, SeqShrinks
<1>16. Announced' = Tail(Announced)
  <2>1. \A j \in 1 .. s - 1 : Window(0, s)[j + 1] = skb[Place(j)]
    <3> TAKE j \in 1 .. s - 1
    <3>1. j + 1 \in 1 .. s /\ 0 + (j + 1) - 1 = j BY <1>5
    <3> QED BY <3>1 DEF Window
  <2> QED BY <1>13, <1>15, <2>1
<1> QED BY <1>4, <1>14, <1>15, <1>16 DEF Fifo!Receive

-----------------------------------------------------------------------------
(***************************************************************************)
(* The other steps.                                                        *)
(***************************************************************************)
\* The tasklet passes on what it has received.
LEMMA StepHandles ==
    ASSUME IInv, IInv', TaskletQueue PROVE Fifo!Handled
<1>1. /\ pc["tasklet"] = "got" /\ pc'["tasklet"] = "recv"
      /\ \A d \in Ctx : d # "tasklet" => pc'[d] = pc[d]
      /\ UNCHANGED <<skb, sw_index, write_index, s_hp_mem>>
  BY DEF TaskletQueue, At, Goto, pipe, shared, IInv, TypeOK, TypeContext, Ctx
<1>2. Publishing' <=> Publishing BY <1>1 DEF Publishing
<1>3. StatusHead' = StatusHead /\ HpReg' = HpReg
  BY <1>1, <1>2 DEF StatusHead, HpReg, PrevIndex
<1>4. UNCHANGED <<PostedToDevice, Announced>> BY <1>1, <1>3, QueuesStay
<1>5. Taken # NoBuf /\ Taken' = NoBuf
  BY <1>1, ConfigAssumption
  DEF Taken, IInv, InvHeld, Holds, Ctx, TypeOK, TypeBuffers
<1> QED BY <1>4, <1>5 DEF Fifo!Handled

\* A step that moves neither the pipe nor the status head, and starts or ends
\* neither a publication nor a reception, is not seen.
LEMMA StepUnseen ==
    ASSUME IInv, IInv', UNCHANGED <<skb, sw_index, write_index, s_hp_mem>>,
           Publishing' <=> Publishing, Taken' = Taken
    PROVE  UNCHANGED Fifo!vars
<1>1. StatusHead' = StatusHead /\ HpReg' = HpReg BY DEF StatusHead, HpReg, PrevIndex
<1>2. UNCHANGED <<PostedToDevice, Announced>> BY <1>1, QueuesStay
<1> QED BY <1>2 DEF Fifo!vars

\* So is the step of a context that neither publishes nor receives.
LEMMA GotoUnseen ==
    ASSUME IInv, IInv', UNCHANGED <<skb, sw_index, write_index, s_hp_mem>>,
           NEW c \in Ctx, NEW l, Goto(c, l),
           pc[c] \notin {"end", "took", "got"}, l \notin {"end", "took", "got"},
           c # "tasklet" => cur'["tasklet"] = cur["tasklet"]
    PROVE  UNCHANGED Fifo!vars
<1>1. pc'[c] = l /\ \A d \in Ctx : d # c => pc'[d] = pc[d]
  BY DEF Goto, IInv, TypeOK, TypeContext
<1>2. Publishing' <=> Publishing BY <1>1 DEF Publishing
<1>3. Taken' = Taken BY <1>1 DEF Taken, Ctx
<1> QED BY <1>2, <1>3, StepUnseen

\* A descriptor that is written but not published is not seen.
LEMMA FillUnseen ==
    ASSUME IInv, IInv', NEW c \in Ctx, EnqueueFill(c)
    PROVE  UNCHANGED Fifo!vars
<1> USE RingAssumption
<1>P. PositionFacts BY Positions
<1>1. /\ pc[c] = "fill" /\ pc'[c] = "end"
      /\ \A d \in Ctx : d # c => pc'[d] = pc[d] /\ cur'[d] = cur[d]
      /\ UNCHANGED <<sw_index, s_hp_mem>>
      /\ skb' = [skb EXCEPT ![write_index] = cur[c]]
      /\ write_index' = NextIndex(write_index, NEntries)
  BY DEF EnqueueFill, At, Goto, IInv, TypeOK, TypeContext
<1>2. ~Publishing /\ Publishing'
  BY <1>1, OnePublisher DEF Publishing, Critical
<1>3. StatusHead' = StatusHead BY <1>1 DEF StatusHead
<1>4. HpReg' = HpReg
  <2>1. PrevIndex(NextIndex(write_index, NEntries)) = write_index
    BY <1>P, IndexNext DEF PositionFacts
  <2> QED BY <1>1, <1>2, <2>1 DEF HpReg, PrevIndex
<1>5. \A i \in Index : Span(i) < Span(HpReg) => skb'[i] = skb[i]
  <2> SUFFICES ASSUME NEW i \in Index, Span(i) < Span(HpReg)
               PROVE  skb'[i] = skb[i]
    OBVIOUS
  <2>1. i # write_index BY <1>2, <1>P DEF HpReg, PositionFacts
  <2> QED BY <1>1, <2>1 DEF IInv, TypeOK, TypePipe
<1>6. UNCHANGED <<PostedToDevice, Announced>> BY <1>1, <1>3, <1>4, <1>5, QueuesStay
<1>7. Taken' = Taken BY <1>1 DEF Taken, Ctx
<1> QED BY <1>6, <1>7 DEF Fifo!vars

\* The end of recv_next publishes the tail, which the queues do not show.
LEMMA RecvEndUnseen ==
    ASSUME IInv, IInv', RecvEnd PROVE UNCHANGED Fifo!vars
<1>1. /\ \/ pc["tasklet"] = "took" /\ pc'["tasklet"] = "got"
         \/ pc["tasklet"] = "stop" /\ pc'["tasklet"] = "drain"
      /\ \A d \in Ctx : d # "tasklet" => pc'[d] = pc[d]
      /\ UNCHANGED <<skb, sw_index, write_index, s_hp_mem, cur>>
  BY DEF RecvEnd, At, Goto, pipe, IInv, TypeOK, TypeContext, Ctx
<1>2. Publishing' <=> Publishing BY <1>1 DEF Publishing
<1>3. Taken' = Taken BY <1>1 DEF Taken
<1> QED BY <1>1, <1>2, <1>3, StepUnseen

\* Every step of the receive path is a step of the queue or is not seen there.
THEOREM StepRefines ==
    ASSUME IInv, IInv', [Next]_vars PROVE [Fifo!Next]_(Fifo!vars)
<1>1. ASSUME NEW c \in Ctx, Post(c) PROVE Fifo!PostBuf \/ UNCHANGED Fifo!vars
  <2>1. CASE PostBegin(c)
    <3>1. /\ pc[c] = "post" /\ (Goto(c, "idle") \/ Goto(c, "alloc"))
          /\ UNCHANGED <<skb, sw_index, write_index, s_hp_mem, cur>>
      BY <2>1 DEF PostBegin, At, pipe, shared
    <3> QED BY <3>1, GotoUnseen
  <2>2. CASE PostAlloc(c)
    <3>1. /\ pc[c] = "alloc" /\ Goto(c, "fill")
          /\ UNCHANGED <<skb, sw_index, write_index, s_hp_mem>>
          /\ c # "tasklet" => cur'["tasklet"] = cur["tasklet"]
      BY <2>2 DEF PostAlloc, At, pipe, shared, IInv, TypeOK, TypeContext, Ctx
    <3> QED BY <3>1, GotoUnseen
  <2>3. CASE PostNoMem(c) \/ PostMapError(c)
    <3>1. /\ pc[c] = "alloc" /\ Goto(c, "idle")
          /\ UNCHANGED <<skb, sw_index, write_index, s_hp_mem, cur>>
      BY <2>3 DEF PostNoMem, PostMapError, PostFails, At, pipe, shared
    <3> QED BY <3>1, GotoUnseen
  <2>4. CASE EnqueueFill(c) BY <2>4, FillUnseen
  <2>5. CASE EnqueueFull(c)
    <3>1. /\ pc[c] = "fill" /\ Goto(c, "nospc")
          /\ UNCHANGED <<skb, sw_index, write_index, s_hp_mem, cur>>
      BY <2>5 DEF EnqueueFull, At, pipe, shared
    <3> QED BY <3>1, GotoUnseen
  <2>6. CASE EnqueueEnd(c) BY <2>6, StepPosts
  <2>7. CASE EnqueueFullEnd(c)
    <3>1. /\ pc[c] = "nospc" /\ Goto(c, "idle")
          /\ UNCHANGED <<skb, sw_index, write_index, s_hp_mem>>
          /\ c # "tasklet" => cur'["tasklet"] = cur["tasklet"]
      BY <2>7 DEF EnqueueFullEnd, At, pipe, IInv, TypeOK, TypeContext, Ctx
    <3> QED BY <3>1, GotoUnseen
  <2> QED BY <1>1, <2>1, <2>2, <2>3, <2>4, <2>5, <2>6, <2>7 DEF Post
<1>2. CASE Tasklet
  <2> USE DEF Ctx
  <2>1. CASE RecvTake BY <2>1, StepReceives DEF Fifo!Next
  <2>2. CASE TaskletQueue BY <2>2, StepHandles DEF Fifo!Next
  <2>3. CASE RecvEnd BY <2>3, RecvEndUnseen
  <2>4. CASE TaskletRun \/ RecvBegin \/ RecvEmpty \/ RecvZero \/ TaskletDrain
    <3>1. /\ pc["tasklet"] \in {"idle", "recv", "take", "drain"}
          /\ \E l \in {"recv", "take", "stop", "post"} : Goto("tasklet", l)
          /\ UNCHANGED <<skb, sw_index, write_index, s_hp_mem>>
      BY <2>4 DEF TaskletRun, RecvBegin, RecvEmpty, RecvZero, TaskletDrain, At,
         pipe, shared
    <3> QED BY <3>1, GotoUnseen
  <2> QED BY <1>2, <2>1, <2>2, <2>3, <2>4 DEF Tasklet
<1>3. CASE TimerFire
  <2>1. /\ pc["timer"] = "idle" /\ Goto("timer", "post")
        /\ UNCHANGED <<skb, sw_index, write_index, s_hp_mem, cur>>
    BY <1>3 DEF TimerFire, At, pipe, shared
  <2> QED BY <2>1, GotoUnseen DEF Ctx
<1>4. CASE DevComplete BY <1>4, StepFills DEF Fifo!Next
<1>5. CASE Irq \/ DevFetch \/ DevWriteTp \/ DevRaise \/ UNCHANGED vars
  <2>1. UNCHANGED <<skb, sw_index, write_index, s_hp_mem, pc, cur>>
    BY <1>5 DEF Irq, IrqDispatch, IrqClear, DevFetch, DevWriteTp, DevRaise, vars,
       pipe, shared, context
  <2> QED BY <2>1, StepUnseen DEF Publishing, Taken
<1> QED BY <1>1, <1>2, <1>3, <1>4, <1>5 DEF Next, Device, Fifo!Next

\* The queues are empty at first.
LEMMA InitRefines == Init => Fifo!Init
<1> SUFFICES ASSUME Init PROVE Fifo!Init OBVIOUS
<1>1. IInv BY InitIInv
<1>2. QueueFacts BY <1>1, Queues
<1> USE RingAssumption DEF Init
<1>3. StatusHead = 0 /\ HpReg = 0 /\ Taken = NoBuf
  BY DEF StatusHead, HpReg, Publishing, Taken, Ctx
<1>4. Span(StatusHead) = 0 /\ Span(HpReg) = 0 BY <1>3 DEF Span, Dist
<1>5. \A k, n : n = 0 => Window(k, n) = <<>> BY DEF Window
<1> QED BY <1>2, <1>3, <1>4, <1>5 DEF QueueFacts, Fifo!Init
=============================================================================
