---------------------------- MODULE MgmtTxProofs ----------------------------
(***************************************************************************)
(* Theorems about MgmtTx, for every set of frames, every finite set of     *)
(* callers, every size of the id table and every threshold.                *)
(***************************************************************************)
EXTENDS MgmtTx, FiniteSetTheorems, TLAPS

\* Appending a frame that is not in the queue keeps the frames of the queue
\* apart.
LEMMA AppendFrame ==
    ASSUME NEW q \in Seq(Frames), NEW f \in Frames
    PROVE  /\ Append(q, f) \in Seq(Frames) /\ Len(Append(q, f)) = Len(q) + 1
           /\ Range(Append(q, f)) = Range(q) \union {f}
           /\ f \notin Range(q) /\ (\A j, k \in DOMAIN q : q[j] = q[k] => j = k)
                => \A j, k \in DOMAIN Append(q, f) :
                       Append(q, f)[j] = Append(q, f)[k] => j = k
<1> DEFINE r == Append(q, f)
<1>1. /\ r \in Seq(Frames) /\ Len(r) = Len(q) + 1
      /\ \A i \in 1 .. Len(q) : r[i] = q[i]
      /\ r[Len(q) + 1] = f
  OBVIOUS
<1>2. DOMAIN q = 1 .. Len(q) /\ DOMAIN r = 1 .. Len(q) + 1 /\ Len(q) \in Nat
  BY <1>1
<1> HIDE DEF r
<1>3. Range(r) = Range(q) \union {f} BY <1>1, <1>2 DEF Range
<1>4. ASSUME f \notin Range(q), \A j, k \in DOMAIN q : q[j] = q[k] => j = k
      PROVE  \A j, k \in DOMAIN r : r[j] = r[k] => j = k
  BY <1>1, <1>2, <1>4 DEF Range
<1> QED BY <1>1, <1>3, <1>4 DEF r

\* The head of the queue is a frame that the rest of the queue does not hold.
LEMMA HeadFrame ==
    ASSUME NEW q \in Seq(Frames), q # <<>>
    PROVE  /\ Head(q) \in Frames /\ Tail(q) \in Seq(Frames)
           /\ Len(Tail(q)) = Len(q) - 1 /\ Len(q) >= 1
           /\ Range(q) = Range(Tail(q)) \union {Head(q)}
           /\ (\A j, k \in DOMAIN q : q[j] = q[k] => j = k)
                => /\ Head(q) \notin Range(Tail(q))
                   /\ \A j, k \in DOMAIN Tail(q) : Tail(q)[j] = Tail(q)[k] => j = k
<1> DEFINE r == Tail(q)
<1>1. /\ Head(q) \in Frames /\ r \in Seq(Frames) /\ Len(r) = Len(q) - 1
      /\ \A i \in 1 .. Len(r) : r[i] = q[i + 1]
  OBVIOUS
<1>2. Len(q) \in Nat \ {0} /\ Head(q) = q[1] OBVIOUS
<1>3. DOMAIN q = 1 .. Len(q) /\ DOMAIN r = 1 .. Len(q) - 1 BY <1>1
<1> HIDE DEF r
<1>4. Range(q) = Range(r) \union {Head(q)}
  <2>1. \A k \in DOMAIN q : q[k] \in Range(r) \union {Head(q)}
    <3> TAKE k \in DOMAIN q
    <3>1. CASE k = 1 BY <3>1, <1>2
    <3>2. CASE k # 1
      <4>1. k - 1 \in DOMAIN r /\ r[k - 1] = q[k] BY <3>2, <1>1, <1>2, <1>3
      <4> QED BY <4>1 DEF Range
    <3> QED BY <3>1, <3>2
  <2>2. \A k \in DOMAIN r : k + 1 \in DOMAIN q /\ r[k] = q[k + 1]
    BY <1>1, <1>2, <1>3
  <2>3. 1 \in DOMAIN q BY <1>2, <1>3
  <2> QED BY <2>1, <2>2, <2>3, <1>2 DEF Range
<1>5. ASSUME \A j, k \in DOMAIN q : q[j] = q[k] => j = k
      PROVE  /\ Head(q) \notin Range(r)
             /\ \A j, k \in DOMAIN r : r[j] = r[k] => j = k
  <2>1. \A k \in DOMAIN r : k \in Int /\ k + 1 \in DOMAIN q /\ k + 1 # 1 /\ r[k] = q[k + 1]
    BY <1>1, <1>2, <1>3
  <2>2. 1 \in DOMAIN q BY <1>2, <1>3
  <2> QED BY <2>1, <2>2, <1>2, <1>5 DEF Range
<1> QED BY <1>1, <1>2, <1>4, <1>5 DEF r

\* When one caller goes from one label to another, the number of callers at a
\* label changes by one or not at all.
LEMMA CountGoto ==
    ASSUME TypeOK, NEW c \in Callers, NEW m \in CLabels, CGoto(c, m), NEW l \in CLabels
    PROVE  Cardinality(At(l)') = Cardinality(At(l)) + (IF m = l THEN 1 ELSE 0)
                                                    - (IF cpc[c] = l THEN 1 ELSE 0)
<1>1. IsFiniteSet(At(l)) BY MgmtAssumption, FS_Subset DEF At
<1>2. Cardinality(At(l)) \in Nat BY <1>1, FS_CardinalityType
<1>3. At(l)' = IF m = l THEN At(l) \union {c} ELSE At(l) \ {c}
  BY DEF At, CGoto, TypeOK
<1>4. c \in At(l) <=> cpc[c] = l BY DEF At
<1>5. /\ Cardinality(At(l) \union {c})
           = IF c \in At(l) THEN Cardinality(At(l)) ELSE Cardinality(At(l)) + 1
      /\ Cardinality(At(l) \ {c})
           = IF c \in At(l) THEN Cardinality(At(l)) - 1 ELSE Cardinality(At(l))
  BY <1>1, FS_AddElement, FS_RemoveElement
<1>6. CASE m = l BY <1>2, <1>3, <1>4, <1>5, <1>6
<1>7. CASE m # l BY <1>2, <1>3, <1>4, <1>5, <1>7
<1> QED BY <1>6, <1>7

\* No two places share a frame: FrameInOnePlace, place by place.
Apart ==
    /\ \A c \in Callers : cframe[c] # NoFrame =>
         /\ cframe[c] \notin Range(queue) /\ cframe[c] \notin Allocated
         /\ cframe[c] \notin freed /\ cframe[c] \notin lost /\ cframe[c] # wframe
    /\ \A f \in Range(queue) :
         f \notin Allocated /\ f \notin freed /\ f \notin lost /\ f # wframe
    /\ \A f \in Allocated : f \notin freed /\ f \notin lost
    /\ wframe \notin freed /\ wframe \notin lost /\ freed \intersect lost = {}

\* No place has a frame twice.
Single ==
    /\ \A c, d \in Callers : cframe[c] = cframe[d] /\ cframe[c] # NoFrame => c = d
    /\ \A j, k \in DOMAIN queue : queue[j] = queue[k] => j = k
    /\ \A i, j \in Ids : idr[i] = idr[j] /\ idr[i] # NoFrame => i = j

\* The frames of the queue are frames.
LEMMA QueueFrames == ASSUME NEW q \in Seq(Frames) PROVE Range(q) \subseteq Frames
BY DEF Range

\* Apart and Single say what FrameInOnePlace says.
LEMMA PlacesApart == TypeOK => (FrameInOnePlace <=> Apart /\ Single)
<1> SUFFICES ASSUME TypeOK PROVE FrameInOnePlace <=> Apart /\ Single OBVIOUS
<1>1. /\ DOMAIN Places = {"caller", "queue", "worker", "firmware", "freed", "lost"}
      /\ Places["caller"] = {cframe[c] : c \in Callers} \ {NoFrame}
      /\ Places["queue"] = Range(queue)
      /\ Places["worker"] = {wframe} \ {NoFrame}
      /\ Places["firmware"] = Allocated \ {wframe}
      /\ Places["freed"] = freed /\ Places["lost"] = lost
  BY DEF Places, InFirmware
<1>2. /\ NoFrame \notin Range(queue) /\ NoFrame \notin freed /\ NoFrame \notin lost
      /\ NoFrame \notin Allocated
  BY MgmtAssumption, QueueFrames DEF TypeOK, Allocated
<1>3. (\A p, q \in DOMAIN Places : p # q => Places[p] \intersect Places[q] = {}) <=> Apart
  <2>1. ASSUME \A p, q \in DOMAIN Places : p # q => Places[p] \intersect Places[q] = {}
        PROVE  Apart
    <3>1. /\ Places["caller"] \intersect Places["queue"] = {}
          /\ Places["caller"] \intersect Places["worker"] = {}
          /\ Places["caller"] \intersect Places["firmware"] = {}
          /\ Places["caller"] \intersect Places["freed"] = {}
          /\ Places["caller"] \intersect Places["lost"] = {}
          /\ Places["queue"] \intersect Places["worker"] = {}
          /\ Places["queue"] \intersect Places["firmware"] = {}
          /\ Places["queue"] \intersect Places["freed"] = {}
          /\ Places["queue"] \intersect Places["lost"] = {}
          /\ Places["worker"] \intersect Places["freed"] = {}
          /\ Places["worker"] \intersect Places["lost"] = {}
          /\ Places["firmware"] \intersect Places["freed"] = {}
          /\ Places["firmware"] \intersect Places["lost"] = {}
          /\ Places["freed"] \intersect Places["lost"] = {}
      BY <2>1, <1>1
    <3> QED BY <3>1, <1>1, <1>2 DEF Apart
  <2>2. ASSUME Apart, NEW p \in DOMAIN Places, NEW q \in DOMAIN Places, p # q
        PROVE  Places[p] \intersect Places[q] = {}
    BY <2>2, <1>1, <1>2 DEF Apart
  <2> QED BY <2>1, <2>2
<1> QED BY <1>3 DEF FrameInOnePlace, Single

\* A frame put under a free id is the only frame that Allocated gains.
LEMMA IdTaken ==
    ASSUME TypeOK, Single, NEW i \in Ids, idr[i] = NoFrame, wframe # NoFrame,
           wframe \notin Allocated, idr' = [idr EXCEPT ![i] = wframe]
    PROVE  /\ Allocated' = Allocated \union {wframe}
           /\ \A j, k \in Ids : idr'[j] = idr'[k] /\ idr'[j] # NoFrame => j = k
<1>1. \A j \in Ids : idr'[j] = IF j = i THEN wframe ELSE idr[j] BY DEF TypeOK
<1>2. \A j \in Ids : idr[j] # wframe BY DEF Allocated
<1>3. Allocated' = {idr'[j] : j \in Ids} \ {NoFrame} BY DEF Allocated
<1>4. Allocated' = Allocated \union {wframe} BY <1>1, <1>3 DEF Allocated
<1> QED BY <1>1, <1>2, <1>4 DEF Single

\* A released id is the only one under which its frame was.
LEMMA IdReleased ==
    ASSUME TypeOK, Single, NEW i \in Ids, idr[i] # NoFrame,
           idr' = [idr EXCEPT ![i] = NoFrame]
    PROVE  /\ Allocated' = Allocated \ {idr[i]}
           /\ \A j, k \in Ids : idr'[j] = idr'[k] /\ idr'[j] # NoFrame => j = k
<1>1. \A j \in Ids : idr'[j] = IF j = i THEN NoFrame ELSE idr[j] BY DEF TypeOK
<1>2. \A j \in Ids : idr[j] = idr[i] => j = i BY DEF Single
<1>3. Allocated' = {idr'[j] : j \in Ids} \ {NoFrame} BY DEF Allocated
<1>4. Allocated' = Allocated \ {idr[i]} BY <1>1, <1>2, <1>3 DEF Allocated
<1> QED BY <1>1, <1>4 DEF Single

\* The numbers in PendingExact and InvRoom are natural numbers.
LEMMA Counts ==
    ASSUME TypeOK, InvLost
    PROVE  /\ Cardinality(Forgotten) \in Nat /\ Cardinality(InFirmware) \in Nat
           /\ IsFiniteSet(InFirmware) /\ Len(queue) \in Nat
           /\ Cardinality(Callers) \in Nat
           /\ \A l : Cardinality(At(l)) \in 0 .. Cardinality(Callers)
<1>1. IsFiniteSet(Ids) BY MgmtAssumption, FS_Interval DEF Ids
<1>2. IsFiniteSet({idr[i] : i \in Ids})
  <2> DEFINE T == {idr[i] : i \in Ids}
  <2>1. idr \in Surjection(Ids, T) BY DEF Surjection, TypeOK
  <2> QED BY <1>1, <2>1, FS_Surjection
<1>3. IsFiniteSet(InFirmware)
  BY <1>2, FS_Subset DEF InFirmware, Allocated
<1>4. \A l : /\ IsFiniteSet(At(l))
             /\ Cardinality(At(l)) <= Cardinality(Callers)
  BY MgmtAssumption, FS_Subset DEF At
<1> QED BY <1>3, <1>4, MgmtAssumption, FS_CardinalityType DEF TypeOK, InvLost
-----------------------------------------------------------------------------
\* The invariant holds before the first frame is sent.
THEOREM InitIInv == Init => IInv
<1> SUFFICES ASSUME Init PROVE IInv OBVIOUS
<1> USE MgmtAssumption DEF Init
<1>1. TypeOK
  <2>1. buf_id \in Ids BY DEF Ids
  <2>2. queue \in Seq(Frames) OBVIOUS
  <2> QED BY <2>1, <2>2 DEF TypeOK, CLabels, WLabels
<1>2. Allocated = {} /\ InFirmware = {} /\ Range(queue) = {}
  BY DEF Allocated, InFirmware, Range
<1>3. InvLost /\ Cardinality(Forgotten) = 0 /\ Cardinality(InFirmware) = 0
  BY <1>2, FS_EmptySet DEF InvLost, Forgotten
<1>4. InvHolders /\ InvIds BY <1>2 DEF InvHolders, InvIds
<1>5. FrameInOnePlace BY <1>1, <1>2, PlacesApart DEF Apart, Single, Ids
<1>6. At("inc") = {} /\ At("tail") = {} /\ Cardinality(Callers) \in Nat
  BY FS_CardinalityType DEF At
<1>7. Cardinality({}) = 0 /\ Len(queue) = 0 BY FS_EmptySet
<1>8. InvRoom
  <2>1. Cardinality(At("tail")) = 0 BY <1>6, <1>7
  <2> QED BY <2>1, <1>6, <1>7 DEF InvRoom
<1>9. PendingExact
  <2>1. Cardinality(At("inc")) = 0 BY <1>6, <1>7
  <2>2. Waiting = 0 BY <1>7 DEF Waiting
  <2> QED BY <2>1, <2>2, <1>3 DEF PendingExact, Lagging
<1> QED BY <1>1, <1>3, <1>4, <1>5, <1>8, <1>9 DEF IInv

\* What the invariant says about a state, with the places apart.
LEMMA IInvFacts ==
    IInv => /\ TypeOK /\ InvLost /\ InvHolders /\ InvIds /\ InvRoom
            /\ PendingExact /\ Apart /\ Single
BY PlacesApart DEF IInv

\* The same in the next state.
LEMMA PlacesApartNext == TypeOK' => (FrameInOnePlace' <=> Apart' /\ Single')
BY PlacesApart, PTL

\* The invariant is proved for the next state with the places apart.
LEMMA IInvPrime ==
    ASSUME TypeOK', InvLost', InvHolders', InvIds', InvRoom', PendingExact',
           Apart', Single'
    PROVE  IInv'
BY PlacesApartNext DEF IInv

\* What a step of a caller leaves alone: the worker and the ids.
LEMMA WorkerStill ==
    ASSUME InvIds, UNCHANGED <<wpc, wframe, buf_id, idr, mapped>>
    PROVE  Allocated' = Allocated /\ InFirmware' = InFirmware /\ InvIds'
<1>1. Allocated' = Allocated /\ InFirmware' = InFirmware BY DEF Allocated, InFirmware
<1> QED BY <1>1 DEF InvIds

\* What a step of the worker leaves alone: where the callers are.
LEMMA CallersStill ==
    ASSUME UNCHANGED cpc
    PROVE  At("inc")' = At("inc") /\ At("tail")' = At("tail") /\ Lagging' = Lagging
BY DEF At, Lagging

\* What a step that moves no frame leaves alone.
LEMMA PlacesStill ==
    ASSUME Apart, Single, UNCHANGED <<cframe, queue, wframe, idr, freed, lost>>
    PROVE  Apart' /\ Single'
<1>1. Allocated' = Allocated BY DEF Allocated
<1>2. Apart' BY <1>1 DEF Apart
<1>3. Single' BY DEF Single
<1> QED BY <1>2, <1>3

\* A step that loses no frame.
LEMMA LostStill ==
    ASSUME InvLost, UNCHANGED <<data, lost>>
    PROVE  Forgotten' = Forgotten /\ InvLost'
<1>1. Forgotten' = Forgotten BY DEF Forgotten
<1> QED BY <1>1 DEF InvLost

\* A frame that mac80211 passes to tx is nowhere in the driver.
LEMMA FreshFrame ==
    ASSUME NEW f \in Fresh
    PROVE  /\ f \in Frames /\ f # wframe /\ f \notin Range(queue) /\ f \notin Allocated
           /\ f \notin freed /\ f \notin lost /\ \A c \in Callers : cframe[c] # f
BY DEF Fresh, Used, InFirmware

\* A caller takes a frame.
LEMMA StepTx == ASSUME NEW c \in Callers, IInv, Tx(c) PROVE IInv'
<1>0. /\ TypeOK /\ InvLost /\ InvHolders /\ InvIds /\ InvRoom
      /\ PendingExact /\ Apart /\ Single
  BY IInvFacts
<1> USE MgmtAssumption
<1>a. UNCHANGED <<wpc, wframe, buf_id, idr, mapped>> BY DEF Tx, worker, frames
<1>b. UNCHANGED <<data, queue, num_pending, freed, lost, warned>> BY DEF Tx, frames
<1>c. cpc[c] = "idle" /\ CGoto(c, "admit") /\ UNCHANGED <<work, mutex>> BY DEF Tx
<1>l. Forgotten' = Forgotten /\ InvLost' BY <1>0, <1>b, LostStill
<1>1. PICK f \in Fresh : /\ cframe' = [cframe EXCEPT ![c] = f]
                         /\ prb' \subseteq prb \union {f}
                         /\ vifless' \subseteq vifless \union {f}
  BY DEF Tx
<1>2. /\ f \in Frames /\ f # wframe /\ f \notin Range(queue) /\ f \notin Allocated
      /\ f \notin freed /\ f \notin lost /\ \A d \in Callers : cframe[d] # f
  BY FreshFrame
<1>3. \A d \in Callers : cframe'[d] = IF d = c THEN f ELSE cframe[d]
  BY <1>0, <1>1 DEF TypeOK
<1>4. TypeOK' BY <1>0, <1>a, <1>b, <1>c, <1>1, <1>2 DEF TypeOK, CLabels, CGoto
<1>5. Allocated' = Allocated /\ InFirmware' = InFirmware /\ InvIds'
  BY <1>0, <1>a, WorkerStill
<1>6. InvHolders' BY <1>0, <1>a, <1>c, <1>2, <1>3 DEF InvHolders, CGoto, TypeOK
<1>7. /\ Cardinality(At("inc")') = Cardinality(At("inc"))
      /\ Cardinality(At("tail")') = Cardinality(At("tail"))
  BY <1>0, <1>c, CountGoto, Counts DEF CLabels
<1>8. InvRoom' BY <1>0, <1>b, <1>7 DEF InvRoom
<1>9. PendingExact'
  BY <1>l, <1>0, <1>a, <1>b, <1>5, <1>7 DEF PendingExact, Waiting, Lagging
<1>10. Apart' BY <1>0, <1>a, <1>b, <1>2, <1>3, <1>5 DEF Apart
<1>11. Single' BY <1>0, <1>a, <1>b, <1>2, <1>3 DEF Single
<1> QED BY <1>l, <1>4, <1>5, <1>6, <1>8, <1>9, <1>10, <1>11, IInvPrime

\* A frame that is no management frame is lost.
LEMMA StepTxData == ASSUME NEW c \in Callers, IInv, TxData(c) PROVE IInv'
<1>0. /\ TypeOK /\ InvLost /\ InvHolders /\ InvIds /\ InvRoom
      /\ PendingExact /\ Apart /\ Single
  BY IInvFacts
<1> USE MgmtAssumption
<1>a. UNCHANGED <<wpc, wframe, buf_id, idr, mapped>> BY DEF TxData, worker
<1>b. UNCHANGED <<queue, num_pending, freed, warned>> BY DEF TxData
<1>c. UNCHANGED <<cpc, cframe, prb, vifless, work, mutex>> BY DEF TxData, caller
<1>1. PICK f \in Fresh : lost' = lost \union {f} /\ data' = data \union {f}
  BY DEF TxData
<1>2. /\ f \in Frames /\ f # wframe /\ f \notin Range(queue) /\ f \notin Allocated
      /\ f \notin freed /\ f \notin lost /\ \A d \in Callers : cframe[d] # f
  BY FreshFrame
<1>3. TypeOK' BY <1>0, <1>a, <1>b, <1>c, <1>1, <1>2 DEF TypeOK
<1>4. Allocated' = Allocated /\ InFirmware' = InFirmware /\ InvIds'
  BY <1>0, <1>a, WorkerStill
<1>5. InvLost' /\ Forgotten' = Forgotten
  <2>1. Forgotten' = Forgotten BY <1>1, <1>2 DEF Forgotten
  <2> QED BY <1>0, <1>1, <2>1 DEF InvLost
<1>6. InvHolders' BY <1>0, <1>a, <1>c DEF InvHolders
<1>7. InvRoom' BY <1>0, <1>b, <1>c, CallersStill DEF InvRoom
<1>8. PendingExact'
  <2>1. Waiting' = Waiting /\ Waiting \in Nat BY <1>0, <1>a, <1>b, Counts DEF Waiting
  <2>2. Lagging' = Lagging /\ Lagging \in Nat
    BY <1>0, <1>c, CallersStill, Counts DEF Lagging
  <2>3. warned \in Nat /\ num_pending \in Nat BY <1>0 DEF TypeOK
  <2>4. Cardinality(InFirmware) \in Nat /\ Cardinality(Forgotten) \in Nat BY <1>0, Counts
  <2> QED BY <1>0, <1>b, <1>4, <1>5, <2>1, <2>2, <2>3, <2>4 DEF PendingExact
<1>9. Apart'
  <2>1. UNCHANGED <<cframe, queue, wframe, freed>> BY <1>a, <1>b, <1>c
  <2> QED BY <1>0, <1>1, <1>2, <1>4, <2>1 DEF Apart
<1>10. Single' BY <1>0, <1>a, <1>b, <1>c DEF Single
<1> QED BY <1>3, <1>4, <1>5, <1>6, <1>7, <1>8, <1>9, <1>10, IInvPrime

\* A caller gives its frame back to mac80211, at either of the two tests.
LEMMA StepTxFrees ==
    ASSUME NEW c \in Callers, IInv,
           TxRefuse(c) \/ (TxLength(c) /\ Len(queue) >= PendingMax)
    PROVE  IInv'
<1>0. /\ TypeOK /\ InvLost /\ InvHolders /\ InvIds /\ InvRoom
      /\ PendingExact /\ Apart /\ Single
  BY IInvFacts
<1> USE MgmtAssumption
<1>a. UNCHANGED <<wpc, wframe, buf_id, idr, mapped>> BY DEF TxRefuse, TxLength, worker
<1>b. UNCHANGED <<queue, num_pending, lost, warned>> BY DEF TxRefuse, TxLength
<1>c. /\ cpc[c] \in {"admit", "length"} /\ CGoto(c, "idle") /\ Drop(c)
      /\ UNCHANGED <<prb, vifless, data, work, mutex>>
  BY DEF TxRefuse, TxLength
<1>d. freed' = freed \union {cframe[c]} BY DEF TxRefuse, TxLength
<1>l. Forgotten' = Forgotten /\ InvLost' BY <1>0, <1>b, <1>c, LostStill
<1>1. cframe[c] \in Frames BY <1>0, <1>c DEF InvHolders, TypeOK
<1>2. \A d \in Callers : cframe'[d] = IF d = c THEN NoFrame ELSE cframe[d]
  BY <1>0, <1>c DEF TypeOK, Drop
<1>3. TypeOK'
  BY <1>0, <1>a, <1>b, <1>c, <1>d, <1>1 DEF TypeOK, CLabels, CGoto, Drop
<1>4. Allocated' = Allocated /\ InFirmware' = InFirmware /\ InvIds'
  BY <1>0, <1>a, WorkerStill
<1>5. InvHolders' BY <1>0, <1>a, <1>c, <1>2 DEF InvHolders, CGoto, TypeOK
<1>6. /\ Cardinality(At("inc")') = Cardinality(At("inc"))
      /\ Cardinality(At("tail")') = Cardinality(At("tail"))
  BY <1>0, <1>c, CountGoto, Counts DEF CLabels
<1>7. InvRoom' BY <1>0, <1>b, <1>6 DEF InvRoom
<1>8. PendingExact'
  BY <1>l, <1>0, <1>a, <1>b, <1>4, <1>6 DEF PendingExact, Waiting, Lagging
<1>9. Apart'
  <2>1. \A d \in Callers : d # c /\ cframe[d] # NoFrame => cframe[d] # cframe[c]
    BY <1>0 DEF Single
  <2> QED BY <1>0, <1>a, <1>b, <1>d, <1>1, <1>2, <1>4, <2>1 DEF Apart
<1>10. Single' BY <1>0, <1>a, <1>b, <1>2 DEF Single
<1> QED BY <1>l, <1>3, <1>4, <1>5, <1>7, <1>8, <1>9, <1>10, IInvPrime

\* A caller goes on with its frame: from the threshold to the length, or with
\* room in the queue to its tail.
LEMMA StepTxGoesOn ==
    ASSUME NEW c \in Callers, IInv,
           TxAdmit(c) \/ (TxLength(c) /\ ~(Len(queue) >= PendingMax))
    PROVE  IInv'
<1>0. /\ TypeOK /\ InvLost /\ InvHolders /\ InvIds /\ InvRoom
      /\ PendingExact /\ Apart /\ Single
  BY IInvFacts
<1> USE MgmtAssumption
<1>a. UNCHANGED <<wpc, wframe, buf_id, idr, mapped>>
  BY DEF TxAdmit, TxLength, worker, frames
<1>b. UNCHANGED <<cframe, queue, num_pending, freed, lost, warned>>
  BY DEF TxAdmit, TxLength, frames
<1>c. UNCHANGED <<prb, vifless, data, work, mutex>> BY DEF TxAdmit, TxLength
<1>d. PICK m \in {"length", "tail"} :
        /\ cpc[c] = (IF m = "length" THEN "admit" ELSE "length") /\ CGoto(c, m)
        /\ m = "tail" => Len(queue) < PendingMax
  BY <1>0 DEF TxAdmit, TxLength, TypeOK
<1>l. Forgotten' = Forgotten /\ InvLost' BY <1>0, <1>b, <1>c, LostStill
<1>1. TypeOK' BY <1>0, <1>a, <1>b, <1>c, <1>d DEF TypeOK, CLabels, CGoto
<1>2. Allocated' = Allocated /\ InFirmware' = InFirmware /\ InvIds'
  BY <1>0, <1>a, WorkerStill
<1>3. InvHolders' BY <1>0, <1>a, <1>b, <1>c, <1>d DEF InvHolders, CGoto, TypeOK
<1>4. /\ Cardinality(At("inc")') = Cardinality(At("inc"))
      /\ Cardinality(At("tail")')
           = Cardinality(At("tail")) + (IF m = "tail" THEN 1 ELSE 0)
  <2>1. m \in CLabels /\ m # "inc" /\ cpc[c] \notin {"inc", "tail"}
    BY <1>d DEF CLabels
  <2>2. \A l \in CLabels :
            Cardinality(At(l)') = Cardinality(At(l)) + (IF m = l THEN 1 ELSE 0)
                                                     - (IF cpc[c] = l THEN 1 ELSE 0)
    BY <1>0, <1>d, <2>1, CountGoto
  <2>3. \A l : Cardinality(At(l)) \in Nat BY <1>0, Counts
  <2>4. "inc" \in CLabels /\ "tail" \in CLabels BY DEF CLabels
  <2> QED BY <2>1, <2>2, <2>3, <2>4
<1>5. Cardinality(At("tail")') <= Cardinality(Callers)
  <2>1. At("tail")' \subseteq Callers BY DEF At
  <2> QED BY <2>1, FS_Subset
<1>6. InvRoom' BY <1>0, <1>b, <1>d, <1>4, <1>5, Counts DEF InvRoom
<1>7. PendingExact'
  BY <1>l, <1>0, <1>a, <1>b, <1>2, <1>4 DEF PendingExact, Waiting, Lagging
<1>8. Apart' /\ Single' BY <1>0, <1>a, <1>b, PlacesStill
<1> QED BY <1>l, <1>1, <1>2, <1>3, <1>6, <1>7, <1>8, IInvPrime

\* skb_queue_tail moves a frame from its caller to the queue.
LEMMA StepTxTail == ASSUME NEW c \in Callers, IInv, TxTail(c) PROVE IInv'
<1>0. /\ TypeOK /\ InvLost /\ InvHolders /\ InvIds /\ InvRoom
      /\ PendingExact /\ Apart /\ Single
  BY IInvFacts
<1> USE MgmtAssumption
<1>a. UNCHANGED <<wpc, wframe, buf_id, idr, mapped>> BY DEF TxTail, worker, frames
<1>b. UNCHANGED <<num_pending, freed, lost, warned>> BY DEF TxTail, frames
<1>c. /\ cpc[c] = "tail" /\ CGoto(c, "inc") /\ Drop(c)
      /\ UNCHANGED <<prb, vifless, data, work, mutex>>
  BY DEF TxTail
<1>d. queue' = Append(queue, cframe[c]) BY DEF TxTail
<1>l. Forgotten' = Forgotten /\ InvLost' BY <1>0, <1>b, <1>c, LostStill
<1>1. cframe[c] \in Frames BY <1>0, <1>c DEF InvHolders, TypeOK
<1>2. \A d \in Callers : cframe'[d] = IF d = c THEN NoFrame ELSE cframe[d]
  BY <1>0, <1>c DEF TypeOK, Drop
<1>3. /\ queue' \in Seq(Frames) /\ Len(queue') = Len(queue) + 1
      /\ Range(queue') = Range(queue) \union {cframe[c]}
      /\ \A j, k \in DOMAIN queue' : queue'[j] = queue'[k] => j = k
  <2>1. queue \in Seq(Frames) BY <1>0 DEF TypeOK
  <2>2. cframe[c] \notin Range(queue) BY <1>0, <1>1 DEF Apart
  <2>3. \A j, k \in DOMAIN queue : queue[j] = queue[k] => j = k BY <1>0 DEF Single
  <2> QED BY <1>d, <1>1, <2>1, <2>2, <2>3, AppendFrame
<1>4. TypeOK' BY <1>0, <1>a, <1>b, <1>c, <1>3 DEF TypeOK, CLabels, CGoto, Drop
<1>5. Allocated' = Allocated /\ InFirmware' = InFirmware /\ InvIds'
  BY <1>0, <1>a, WorkerStill
<1>6. InvHolders' BY <1>0, <1>a, <1>c, <1>2 DEF InvHolders, CGoto, TypeOK
<1>7. /\ Cardinality(At("inc")') = Cardinality(At("inc")) + 1
      /\ Cardinality(At("tail")') = Cardinality(At("tail")) - 1
  BY <1>0, <1>c, CountGoto, Counts DEF CLabels
<1>8. InvRoom' BY <1>0, <1>3, <1>7, Counts DEF InvRoom
<1>9. PendingExact'
  <2>1. Waiting' = Waiting + 1 /\ Waiting \in Nat
    BY <1>0, <1>a, <1>3, Counts DEF Waiting
  <2>2. Lagging' = Lagging + 1 /\ Lagging \in Nat BY <1>0, <1>7, Counts DEF Lagging
  <2>3. warned \in Nat /\ num_pending \in Nat BY <1>0 DEF TypeOK
  <2>4. Cardinality(InFirmware) \in Nat /\ Cardinality(Forgotten) \in Nat BY <1>0, Counts
  <2>5. PendingExact BY <1>0
  <2>6. /\ Cardinality(InFirmware') = Cardinality(InFirmware)
        /\ Cardinality(Forgotten') = Cardinality(Forgotten)
        /\ num_pending' = num_pending /\ warned' = warned
    BY <1>b, <1>l, <1>5
  <2>7. num_pending + (Lagging + 1)
          = (Waiting + 1) + Cardinality(InFirmware) + Cardinality(Forgotten) + warned
    <3> DEFINE i == Cardinality(InFirmware) f == Cardinality(Forgotten)
    <3>1. i \in Nat /\ f \in Nat BY <2>4
    <3>2. num_pending + Lagging = Waiting + i + f + warned BY <2>5 DEF PendingExact
    <3> HIDE DEF i, f
    <3>3. num_pending + (Lagging + 1) = (Waiting + 1) + i + f + warned
      BY <2>1, <2>2, <2>3, <3>1, <3>2
    <3> QED BY <3>3 DEF i, f
  <2> QED BY <2>1, <2>2, <2>6, <2>7 DEF PendingExact
<1>10. Single' BY <1>0, <1>a, <1>2, <1>3 DEF Single
<1>11. Apart'
  <2>1. \A d \in Callers : d # c /\ cframe[d] # NoFrame => cframe[d] # cframe[c]
    BY <1>0 DEF Single
  <2> QED BY <1>0, <1>a, <1>b, <1>1, <1>2, <1>3, <1>5, <2>1 DEF Apart
<1> QED BY <1>l, <1>4, <1>5, <1>6, <1>8, <1>9, <1>10, <1>11, IInvPrime

\* A caller counts its frame, which is in the queue or further already, or
\* schedules the work and returns.
LEMMA StepTxEnd == ASSUME NEW c \in Callers, IInv, TxInc(c) \/ TxWork(c) PROVE IInv'
<1>0. /\ TypeOK /\ InvLost /\ InvHolders /\ InvIds /\ InvRoom
      /\ PendingExact /\ Apart /\ Single
  BY IInvFacts
<1> USE MgmtAssumption
<1>a. UNCHANGED <<wpc, wframe, buf_id, idr, mapped>>
  BY DEF TxInc, TxWork, worker, frames
<1>b. UNCHANGED <<cframe, queue, freed, lost, warned>> BY DEF TxInc, TxWork, frames
<1>c. PICK l \in {"work", "idle"} :
        /\ cpc[c] = (IF l = "work" THEN "inc" ELSE "work") /\ CGoto(c, l)
        /\ num_pending' = num_pending + (IF l = "work" THEN 1 ELSE 0)
  <2>1. CASE TxInc(c) BY <2>1 DEF TxInc
  <2>2. CASE TxWork(c) BY <2>2, <1>0 DEF TxWork, TypeOK
  <2> QED BY <2>1, <2>2
<1>d. UNCHANGED <<prb, vifless, data, mutex>> /\ work' \in BOOLEAN
  BY <1>0 DEF TxInc, TxWork, TypeOK
<1>l. Forgotten' = Forgotten /\ InvLost' BY <1>0, <1>b, <1>d, LostStill
<1>1. TypeOK'
  <2>1. cpc' \in [Callers -> CLabels] /\ num_pending' \in Nat
    BY <1>0, <1>c DEF TypeOK, CLabels, CGoto
  <2> QED BY <1>0, <1>a, <1>b, <1>d, <2>1 DEF TypeOK
<1>2. Allocated' = Allocated /\ InFirmware' = InFirmware /\ InvIds'
  BY <1>0, <1>a, WorkerStill
<1>3. InvHolders' BY <1>0, <1>a, <1>b, <1>c, <1>d DEF InvHolders, CGoto, TypeOK
<1>4. /\ Cardinality(At("inc")') = Cardinality(At("inc")) - (IF l = "work" THEN 1 ELSE 0)
      /\ Cardinality(At("tail")') = Cardinality(At("tail"))
  BY <1>0, <1>c, CountGoto, Counts DEF CLabels
<1>5. InvRoom' BY <1>0, <1>b, <1>4 DEF InvRoom
<1>6. PendingExact'
  <2>1. Waiting' = Waiting /\ Waiting \in Nat BY <1>0, <1>a, <1>b, Counts DEF Waiting
  <2>2. Lagging' = Lagging - (IF l = "work" THEN 1 ELSE 0) /\ Lagging \in Nat
    BY <1>0, <1>4, Counts DEF Lagging
  <2>3. warned \in Nat /\ num_pending \in Nat BY <1>0 DEF TypeOK
  <2>4. Cardinality(InFirmware) \in Nat /\ Cardinality(Forgotten) \in Nat BY <1>0, Counts
  <2> QED BY <1>l, <1>0, <1>b, <1>c, <1>2, <2>1, <2>2, <2>3, <2>4 DEF PendingExact
<1>7. Apart' /\ Single' BY <1>0, <1>a, <1>b, PlacesStill
<1> QED BY <1>l, <1>1, <1>2, <1>3, <1>5, <1>6, <1>7, IInvPrime
-----------------------------------------------------------------------------
\* The worker starts, takes the mutex or maps its frame, or a configuration
\* callback takes or gives back the mutex: no frame changes its place.
LEMMA StepNoMove ==
    ASSUME IInv, WorkStart \/ WorkLock \/ WorkMap \/ ConfLock \/ ConfUnlock
                 \/ ConfBusy
    PROVE  IInv'
<1>0. /\ TypeOK /\ InvLost /\ InvHolders /\ InvIds /\ InvRoom
      /\ PendingExact /\ Apart /\ Single
  BY IInvFacts
<1> USE MgmtAssumption
<1>a. UNCHANGED <<cpc, cframe, prb, vifless, data, queue, num_pending, warned>>
  BY DEF WorkStart, WorkLock, WorkMap, ConfLock, ConfUnlock, ConfBusy, caller
<1>b. UNCHANGED <<wframe, buf_id, idr, freed, lost>>
  BY DEF WorkStart, WorkLock, WorkMap, ConfLock, ConfUnlock, ConfBusy, worker, frames
<1>c. /\ \/ wpc = "idle" /\ wpc' = "next" /\ mutex' = mutex
         \/ wpc = "lock" /\ wpc' = "idr" /\ mutex' = "worker" /\ mutex = "none"
         \/ wpc = "map" /\ wpc' = "send" /\ mutex' = mutex
         \/ wpc' = wpc /\ mutex' \in {"none", "conf", "kept"}
            /\ mutex \in {"none", "conf"}
      /\ work' \in BOOLEAN
      /\ mapped' = IF wpc = "map" /\ wpc' = "send" THEN mapped \union {wframe} ELSE mapped
  BY <1>0 DEF WorkStart, WorkLock, WorkMap, ConfLock, ConfUnlock, ConfBusy, worker,
              frames, TypeOK
<1>l. Forgotten' = Forgotten /\ InvLost' BY <1>0, <1>a, <1>b, LostStill
<1>1. wpc = "map" => wframe \in Frames /\ wframe \in Allocated
  BY <1>0 DEF InvIds, InvHolders, TypeOK, Allocated
<1>2. TypeOK' BY <1>0, <1>a, <1>b, <1>c, <1>1 DEF TypeOK, WLabels
<1>3. Allocated' = Allocated /\ InFirmware' = InFirmware
  BY <1>b DEF Allocated, InFirmware
<1>4. InvHolders' BY <1>0, <1>a, <1>b, <1>c DEF InvHolders
<1>5. InvIds' BY <1>0, <1>b, <1>c, <1>1, <1>3 DEF InvIds
<1>6. InvRoom' BY <1>0, <1>a, CallersStill DEF InvRoom
<1>7. PendingExact'
  BY <1>l, <1>0, <1>a, <1>b, <1>3, CallersStill DEF PendingExact, Waiting
<1>8. Apart' /\ Single' BY <1>0, <1>a, <1>b, PlacesStill
<1> QED BY <1>l, <1>2, <1>4, <1>5, <1>6, <1>7, <1>8, IInvPrime

\* skb_dequeue moves a frame from the queue to the worker, or finds none.
LEMMA StepWorkNext == ASSUME IInv, WorkNext PROVE IInv'
<1>0. /\ TypeOK /\ InvLost /\ InvHolders /\ InvIds /\ InvRoom
      /\ PendingExact /\ Apart /\ Single
  BY IInvFacts
<1> USE MgmtAssumption
<1>a. UNCHANGED <<cpc, cframe, prb, vifless, data, num_pending, work, mutex, warned>>
  BY DEF WorkNext, caller
<1>b. UNCHANGED <<buf_id, idr, mapped, freed, lost>> BY DEF WorkNext, frames
<1>l. Forgotten' = Forgotten /\ InvLost' BY <1>0, <1>a, <1>b, LostStill
<1>1. Allocated' = Allocated BY <1>b DEF Allocated
<1>2. wpc = "next" /\ wframe = NoFrame BY <1>0 DEF InvHolders, WorkNext
<1>3. CASE queue = <<>>
  <2>1. UNCHANGED <<queue, wframe>> /\ wpc' = "idle" BY <1>3 DEF WorkNext
  <2>2. TypeOK' BY <1>0, <1>a, <1>b, <2>1 DEF TypeOK, WLabels
  <2>3. InvHolders' BY <1>0, <1>a, <1>2, <2>1 DEF InvHolders
  <2>4. InFirmware' = InFirmware BY <2>1, <1>1 DEF InFirmware
  <2>5. InvIds' BY <1>0, <1>b, <1>1, <1>2, <2>1 DEF InvIds
  <2>6. InvRoom' BY <1>0, <1>a, <2>1, CallersStill DEF InvRoom
  <2>7. PendingExact'
    BY <1>l, <1>0, <1>a, <1>b, <2>1, <2>4, CallersStill DEF PendingExact, Waiting
  <2>8. Apart' /\ Single' BY <1>0, <1>a, <1>b, <2>1, PlacesStill
  <2> QED BY <1>l, <2>2, <2>3, <2>5, <2>6, <2>7, <2>8, IInvPrime
<1>4. CASE queue # <<>>
  <2>1. /\ wframe' = Head(queue) /\ queue' = Tail(queue) /\ wpc' \in {"drop", "lock"}
    BY <1>4 DEF WorkNext
  <2>2. /\ wframe' \in Frames /\ queue' \in Seq(Frames)
        /\ Len(queue') = Len(queue) - 1 /\ Len(queue) >= 1
        /\ Range(queue) = Range(queue') \union {wframe'} /\ wframe' \notin Range(queue')
        /\ \A j, k \in DOMAIN queue' : queue'[j] = queue'[k] => j = k
    <3>1. queue \in Seq(Frames) BY <1>0 DEF TypeOK
    <3>2. \A j, k \in DOMAIN queue : queue[j] = queue[k] => j = k BY <1>0 DEF Single
    <3> QED BY <1>4, <2>1, <3>1, <3>2, HeadFrame
  <2>3. TypeOK' BY SMTT(20), <1>0, <1>a, <1>b, <2>1, <2>2 DEF TypeOK, WLabels
  <2>4. InvHolders' BY <1>0, <1>a, <1>2, <2>1, <2>2 DEF InvHolders
  <2>5. wframe' \notin Allocated /\ NoFrame \notin Allocated
    BY <1>0, <2>2 DEF Apart, Allocated
  <2>6. InFirmware' = InFirmware BY <1>1, <1>2, <2>5 DEF InFirmware
  <2>7. InvIds' BY <1>0, <1>b, <1>1, <1>2, <2>1, <2>5 DEF InvIds
  <2>8. InvRoom' BY <1>0, <1>a, <2>2, CallersStill, Counts DEF InvRoom
  <2>9. PendingExact'
    <3>1. Waiting' = Waiting BY <1>0, <1>2, <2>2, Counts DEF Waiting
    <3> QED BY <1>l, <1>0, <1>a, <1>b, <2>6, <3>1, CallersStill DEF PendingExact
  <2>10. Single' BY SMTT(20), <1>0, <1>a, <1>b, <2>2 DEF Single
  <2>11. Apart' BY <1>0, <1>a, <1>b, <1>1, <2>2 DEF Apart
  <2> QED BY <1>l, <2>3, <2>4, <2>7, <2>8, <2>9, <2>10, <2>11, IInvPrime
<1> QED BY <1>3, <1>4

\* The worker is done with its frame, which goes to freed or lost: what its id
\* and its counter do not decide.
LEMMA WorkerDone ==
    ASSUME IInv, NEW F, NEW L, wframe \in Frames, wframe' = NoFrame, wpc' = "next",
           UNCHANGED <<cpc, cframe, queue>>, freed' = freed \union F,
           lost' = lost \union L, F \union L = {wframe}, F \intersect L = {},
           Allocated' = Allocated \ {wframe},
           \A j, k \in Ids : idr'[j] = idr'[k] /\ idr'[j] # NoFrame => j = k
    PROVE  /\ InvRoom' /\ Apart' /\ Single'
           /\ InFirmware' = InFirmware /\ Waiting' = Waiting - 1 /\ Waiting \in Nat
           /\ Lagging' = Lagging /\ Lagging \in Nat
           /\ num_pending \in Nat /\ warned \in Nat
<1>0. /\ TypeOK /\ InvLost /\ InvHolders /\ InvIds /\ InvRoom
      /\ PendingExact /\ Apart /\ Single
  BY IInvFacts
<1> USE MgmtAssumption
<1>1. NoFrame \notin Allocated /\ NoFrame \notin Range(queue)
  BY <1>0, QueueFrames DEF TypeOK, Allocated
<1>2. InFirmware' = InFirmware BY <1>1 DEF InFirmware
<1>3. InvRoom' BY <1>0, CallersStill DEF InvRoom
<1>4. Single' BY <1>0 DEF Single
<1>5. NoFrame \notin freed' /\ NoFrame \notin lost' BY SMTT(20), <1>0 DEF TypeOK
<1>6. Apart' BY <1>0, <1>1, <1>5 DEF Apart
<1>7. Waiting' = Waiting - 1 /\ Waiting \in Nat BY <1>0, Counts DEF Waiting
<1>8. Lagging' = Lagging /\ Lagging \in Nat BY <1>0, CallersStill, Counts DEF Lagging
<1> QED BY <1>0, <1>2, <1>3, <1>4, <1>6, <1>7, <1>8 DEF TypeOK

\* A dropped frame is freed, and counted down or warned about.
LEMMA StepWorkDrop == ASSUME IInv, WorkDrop PROVE IInv'
<1>0. /\ TypeOK /\ InvLost /\ InvHolders /\ InvIds /\ InvRoom
      /\ PendingExact /\ Apart /\ Single
  BY IInvFacts
<1> USE MgmtAssumption
<1>a. UNCHANGED <<cpc, cframe, prb, vifless, data, queue, work, mutex>>
  BY DEF WorkDrop, caller
<1>b. UNCHANGED <<buf_id, idr, mapped, lost>> BY DEF WorkDrop
<1>c. /\ wpc = "drop" /\ wpc' = "next"
      /\ freed' = freed \union {wframe} /\ wframe' = NoFrame
  BY DEF WorkDrop
<1>l. Forgotten' = Forgotten /\ InvLost' BY <1>0, <1>a, <1>b, LostStill
<1>1. \/ num_pending > 0 /\ num_pending' = num_pending - 1 /\ warned' = warned
      \/ num_pending = 0 /\ num_pending' = num_pending /\ warned' = warned + 1
  BY <1>0 DEF WorkDrop, TypeOK
<1>2. wframe \in Frames /\ wframe \notin Allocated
  BY <1>0, <1>c DEF InvHolders, InvIds, TypeOK
<1>3. Allocated' = Allocated BY <1>b DEF Allocated
<1>4. /\ InvRoom' /\ Apart' /\ Single'
      /\ InFirmware' = InFirmware /\ Waiting' = Waiting - 1 /\ Waiting \in Nat
      /\ Lagging' = Lagging /\ Lagging \in Nat
      /\ num_pending \in Nat /\ warned \in Nat
  <2>1. Allocated' = Allocated \ {wframe} BY <1>2, <1>3
  <2>2. \A j, k \in Ids : idr'[j] = idr'[k] /\ idr'[j] # NoFrame => j = k
    BY <1>0, <1>b DEF Single
  <2>3. lost' = lost \union {} /\ {wframe} \union {} = {wframe}
        /\ {wframe} \intersect {} = {}
    BY <1>b
  <2> QED BY <1>a, <1>c, <1>2, <2>1, <2>2, <2>3, WorkerDone
<1>5. TypeOK' BY SMTT(20), <1>0, <1>a, <1>b, <1>c, <1>1, <1>2 DEF TypeOK, WLabels
<1>6. InvHolders' BY <1>0, <1>a, <1>c DEF InvHolders
<1>7. InvIds' BY <1>0, <1>b, <1>c, <1>2, <1>3 DEF InvIds, Allocated
<1>8. PendingExact'
  <2>1. /\ Cardinality(InFirmware') = Cardinality(InFirmware)
        /\ Cardinality(InFirmware) \in Nat /\ Cardinality(Forgotten) \in Nat
    BY <1>0, <1>4, Counts
  <2> QED BY <1>l, <1>0, <1>1, <1>4, <2>1 DEF PendingExact
<1> QED BY <1>l, <1>4, <1>5, <1>6, <1>7, <1>8, IInvPrime

\* idr_alloc: the id stands for the worker's frame.
LEMMA StepWorkIdr == ASSUME IInv, WorkIdr PROVE IInv'
<1>0. /\ TypeOK /\ InvLost /\ InvHolders /\ InvIds /\ InvRoom
      /\ PendingExact /\ Apart /\ Single
  BY IInvFacts
<1> USE MgmtAssumption
<1>a. UNCHANGED <<cpc, cframe, prb, vifless, data, queue, num_pending, work, mutex,
                  warned>>
  BY DEF WorkIdr, caller
<1>b. /\ UNCHANGED <<wframe, mapped, freed, lost>> /\ wpc = "idr" /\ wpc' = "map"
  BY DEF WorkIdr
<1>l. Forgotten' = Forgotten /\ InvLost' BY <1>0, <1>a, <1>b, LostStill
<1>1. PICK i \in Ids : idr[i] = NoFrame /\ idr' = [idr EXCEPT ![i] = wframe] /\ buf_id' = i
  BY DEF WorkIdr
<1>2. wframe \in Frames /\ wframe \notin Allocated
  BY <1>0, <1>b DEF InvHolders, InvIds, TypeOK
<1>3. /\ Allocated' = Allocated \union {wframe}
      /\ \A j, k \in Ids : idr'[j] = idr'[k] /\ idr'[j] # NoFrame => j = k
  BY ZenonT(30), <1>0, <1>1, <1>2, IdTaken
<1>4. InFirmware' = InFirmware BY <1>b, <1>2, <1>3 DEF InFirmware
<1>5. TypeOK' BY <1>0, <1>a, <1>b, <1>1, <1>2 DEF TypeOK, WLabels
<1>6. InvHolders' BY <1>0, <1>a, <1>b DEF InvHolders
<1>7. InvIds'
  <2>1. idr'[buf_id'] = wframe BY <1>0, <1>1 DEF TypeOK
  <2> QED BY <1>0, <1>b, <1>2, <1>3, <2>1 DEF InvIds
<1>8. InvRoom' BY <1>0, <1>a, CallersStill DEF InvRoom
<1>9. PendingExact'
  BY SMTT(20), <1>l, <1>0, <1>a, <1>b, <1>4, CallersStill DEF PendingExact, Waiting
<1>10. Single' BY SMTT(20), <1>0, <1>a, <1>3 DEF Single
<1>11. Apart' BY SMTT(20), <1>0, <1>a, <1>b, <1>2, <1>3 DEF Apart
<1> QED BY <1>l, <1>5, <1>6, <1>7, <1>8, <1>9, <1>10, <1>11, IInvPrime

\* An error of mgmt_tx_wmi, before or after idr_alloc and the mapping: the frame
\* is lost, the id and the mapping are undone.
LEMMA StepWorkFails ==
    ASSUME IInv, WorkNoId \/ WorkMapError \/ WorkSendError PROVE IInv'
<1>0. /\ TypeOK /\ InvLost /\ InvHolders /\ InvIds /\ InvRoom
      /\ PendingExact /\ Apart /\ Single
  BY IInvFacts
<1> USE MgmtAssumption
<1>a. UNCHANGED <<cpc, cframe, prb, vifless, data, queue, num_pending, work, buf_id,
                warned>>
  BY DEF WorkNoId, WorkMapError, WorkSendError, caller
<1>b. /\ lost' = lost \union {wframe} /\ wframe' = NoFrame /\ wpc' = "next"
      /\ mutex' = "none" /\ freed' = freed
  BY DEF WorkNoId, WorkMapError, WorkSendError, Forget
<1>c. \/ wpc = "idr" /\ UNCHANGED <<idr, mapped>>
      \/ /\ wpc \in {"map", "send"} /\ idr' = [idr EXCEPT ![buf_id] = NoFrame]
         /\ mapped' = IF wpc = "send" THEN mapped \ {wframe} ELSE mapped
  BY DEF WorkNoId, WorkMapError, WorkSendError
<1>1. wframe \in Frames /\ NoFrame \notin Allocated
  BY <1>0, <1>c DEF InvHolders, TypeOK, Allocated
<1>2. /\ Allocated' = Allocated \ {wframe} /\ idr' \in [Ids -> Frames \union {NoFrame}]
      /\ \A j, k \in Ids : idr'[j] = idr'[k] /\ idr'[j] # NoFrame => j = k
  <2>1. CASE wpc = "idr"
    <3>1. wframe \notin Allocated /\ idr' = idr BY SMTT(20), <1>0, <1>c, <2>1 DEF InvIds
    <3>2. Allocated' = Allocated BY <3>1 DEF Allocated
    <3> QED BY <1>0, <3>1, <3>2 DEF Single, TypeOK
  <2>2. CASE wpc \in {"map", "send"}
    <3>1. buf_id \in Ids /\ idr[buf_id] = wframe BY <1>0, <2>2 DEF InvIds, TypeOK
    <3>2. idr' = [idr EXCEPT ![buf_id] = NoFrame] BY <1>c, <2>2
    <3>3. idr' \in [Ids -> Frames \union {NoFrame}] BY <1>0, <3>2 DEF TypeOK
    <3> QED BY <1>0, <1>1, <3>1, <3>2, <3>3, IdReleased
  <2> QED BY <1>c, <2>1, <2>2
<1>3. /\ InvRoom' /\ Apart' /\ Single'
      /\ InFirmware' = InFirmware /\ Waiting' = Waiting - 1 /\ Waiting \in Nat
      /\ Lagging' = Lagging /\ Lagging \in Nat
      /\ num_pending \in Nat /\ warned \in Nat
  <2>1. freed' = freed \union {} /\ {} \union {wframe} = {wframe}
        /\ {} \intersect {wframe} = {}
    BY <1>b
  <2> QED BY <1>a, <1>b, <1>1, <1>2, <2>1, WorkerDone
<1>4. mapped' = Allocated' BY <1>0, <1>c, <1>2 DEF InvIds
<1>5. mapped' \subseteq Frames BY <1>0, <1>c DEF TypeOK
<1>6. TypeOK' BY <1>0, <1>a, <1>b, <1>1, <1>2, <1>5 DEF TypeOK, WLabels
<1>7. InvHolders' BY <1>0, <1>a, <1>b DEF InvHolders
<1>8. InvIds' BY SMTT(20), <1>b, <1>1, <1>2, <1>4 DEF InvIds
<1>9. InvLost' /\ Cardinality(Forgotten') = Cardinality(Forgotten) + 1
  <2>1. wframe \notin lost BY <1>0, <1>1 DEF Apart
  <2>2. Forgotten' = Forgotten \union {wframe} /\ wframe \notin Forgotten
    BY <1>0, <1>a, <1>b, <2>1 DEF Forgotten, InvLost
  <2>3. IsFiniteSet(Forgotten) BY <1>0 DEF InvLost
  <2>4. /\ IsFiniteSet(Forgotten')
        /\ Cardinality(Forgotten') = Cardinality(Forgotten) + 1
    BY <2>2, <2>3, FS_AddElement
  <2> QED BY <1>0, <1>a, <1>b, <2>4 DEF InvLost
<1>10. PendingExact'
  <2>1. /\ Cardinality(InFirmware') = Cardinality(InFirmware)
        /\ Cardinality(InFirmware) \in Nat /\ Cardinality(Forgotten) \in Nat
    BY <1>0, <1>3, Counts
  <2> QED BY <1>0, <1>a, <1>3, <1>9, <2>1 DEF PendingExact
<1> QED BY <1>3, <1>6, <1>7, <1>8, <1>9, <1>10, IInvPrime

\* ce_send: the frame stays with the firmware, under its id.
LEMMA StepWorkSend == ASSUME IInv, WorkSend PROVE IInv'
<1>0. /\ TypeOK /\ InvLost /\ InvHolders /\ InvIds /\ InvRoom
      /\ PendingExact /\ Apart /\ Single
  BY IInvFacts
<1> USE MgmtAssumption
<1>a. UNCHANGED <<cpc, cframe, prb, vifless, data, queue, num_pending, work, buf_id,
                warned>>
  BY DEF WorkSend, caller
<1>b. UNCHANGED <<idr, mapped, freed, lost>> BY DEF WorkSend, frames
<1>c. wpc = "send" /\ wpc' = "next" /\ wframe' = NoFrame /\ mutex' = "none"
  BY DEF WorkSend
<1>l. Forgotten' = Forgotten /\ InvLost' BY <1>0, <1>a, <1>b, LostStill
<1>1. Allocated' = Allocated BY <1>b DEF Allocated
<1>2. /\ wframe \in Frames /\ NoFrame \notin Allocated /\ wframe \in Allocated
      /\ NoFrame \notin Range(queue)
  BY <1>0, <1>c, QueueFrames DEF InvHolders, InvIds, TypeOK, Allocated
<1>3. InFirmware' = InFirmware \union {wframe} /\ wframe \notin InFirmware
  BY <1>c, <1>1, <1>2 DEF InFirmware
<1>4. Cardinality(InFirmware') = Cardinality(InFirmware) + 1
  BY <1>0, <1>3, Counts, FS_AddElement
<1>5. TypeOK' BY <1>0, <1>a, <1>b, <1>c DEF TypeOK, WLabels
<1>6. InvHolders' BY <1>0, <1>a, <1>c DEF InvHolders
<1>7. InvIds' BY <1>0, <1>b, <1>c, <1>1, <1>2 DEF InvIds
<1>8. InvRoom' BY <1>0, <1>a, CallersStill DEF InvRoom
<1>9. PendingExact'
  <2>1. Waiting' = Waiting - 1 /\ Waiting \in Nat
    BY <1>0, <1>a, <1>c, <1>2, Counts DEF Waiting
  <2>2. Lagging' = Lagging /\ Lagging \in Nat
    BY <1>0, <1>a, CallersStill, Counts DEF Lagging
  <2>3. warned \in Nat /\ num_pending \in Nat BY <1>0 DEF TypeOK
  <2>4. Cardinality(InFirmware) \in Nat /\ Cardinality(Forgotten) \in Nat BY <1>0, Counts
  <2> QED BY <1>l, <1>0, <1>a, <1>b, <1>4, <2>1, <2>2, <2>3, <2>4 DEF PendingExact
<1>10. Single' BY <1>0, <1>a, <1>b DEF Single
<1>11. NoFrame \notin freed /\ NoFrame \notin lost BY SMTT(20), <1>0 DEF TypeOK
<1>12. Apart' BY <1>0, <1>a, <1>b, <1>c, <1>1, <1>2, <1>11 DEF Apart
<1> QED BY <1>l, <1>5, <1>6, <1>7, <1>8, <1>9, <1>10, <1>12, IInvPrime

\* Every step of the callers, the worker and the callbacks preserves the
\* invariant.
THEOREM NextIInv == ASSUME IInv, [Next]_vars PROVE IInv'
<1>1. ASSUME NEW c \in Callers, Caller(c) PROVE IInv'
  BY <1>1, StepTxFrees, StepTxGoesOn, StepTxTail, StepTxEnd DEF Caller
<1>2. CASE Worker
  BY <1>2, StepNoMove, StepWorkNext, StepWorkDrop, StepWorkIdr, StepWorkFails,
     StepWorkSend DEF Worker
<1>3. CASE UNCHANGED vars
  <2>1. UNCHANGED <<cpc, cframe, prb, vifless, data, queue, num_pending, work, mutex,
                  warned>>
    BY <1>3 DEF vars, caller
  <2>2. UNCHANGED <<wpc, wframe, buf_id, idr, mapped, freed, lost>>
    BY <1>3 DEF vars, worker, frames
  <2>3. /\ TypeOK /\ InvLost /\ InvHolders /\ InvIds /\ InvRoom
        /\ PendingExact /\ Apart /\ Single
    BY IInvFacts
  <2>l. Forgotten' = Forgotten /\ InvLost' BY <2>1, <2>2, <2>3, LostStill
  <2>4. TypeOK' BY <2>1, <2>2, <2>3 DEF TypeOK
  <2>5. Allocated' = Allocated /\ InFirmware' = InFirmware /\ InvIds'
    BY <2>2, <2>3, WorkerStill
  <2>6. InvHolders' BY <2>1, <2>2, <2>3 DEF InvHolders
  <2>7. InvRoom' BY <2>1, <2>3, CallersStill DEF InvRoom
  <2>8. PendingExact'
    BY <2>l, <2>1, <2>2, <2>3, <2>5, CallersStill DEF PendingExact, Waiting
  <2>9. Apart' /\ Single' BY <2>1, <2>2, <2>3, PlacesStill
  <2> QED BY <2>l, <2>4, <2>5, <2>6, <2>7, <2>8, <2>9, IInvPrime
<1> QED BY <1>1, <1>2, <1>3, StepTx, StepTxData, StepNoMove DEF Next

\* The invariant holds in every reachable state.
THEOREM SpecIInv == Spec => []IInv
BY InitIInv, NextIInv, PTL DEF Spec

\* Values keep their types; in particular num_pending_mgmt_tx is never negative.
THEOREM TypeCorrect == Spec => []TypeOK
<1>1. IInv => TypeOK BY DEF IInv
<1> QED BY <1>1, SpecIInv, PTL

\* However many callers pass the lockless test of the queue's length together,
\* the queue exceeds its limit by less than their number.
THEOREM QueueLimit == Spec => []QueueBounded
<1>1. IInv => QueueBounded BY Counts, MgmtAssumption DEF IInv, InvRoom, QueueBounded
<1> QED BY <1>1, SpecIInv, PTL

\* No error path and no interleaving of tx with the worker puts a frame in two
\* places: nothing is sent, freed or lost twice.
THEOREM FramesApart == Spec => []FrameInOnePlace
<1>1. IInv => FrameInOnePlace BY DEF IInv
<1> QED BY <1>1, SpecIInv, PTL

\* The error paths of mgmt_tx_wmi undo the id and the mapping together.
THEOREM IdsMapped == Spec => []IdsAreMapped
<1>1. IInv => IdsAreMapped BY DEF IInv, InvIds, IdsAreMapped
<1> QED BY <1>1, SpecIInv, PTL

\* num_pending_mgmt_tx is off by the frames that the firmware keeps or that
\* were forgotten, and by the callers that have not counted yet.
THEOREM PendingCount == Spec => []PendingExact
<1>1. IInv => PendingExact BY DEF IInv
<1> QED BY <1>1, SpecIInv, PTL
=============================================================================
