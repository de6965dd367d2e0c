---------------------------- MODULE TxTestProofs ----------------------------
(***************************************************************************)
(* Theorems about TxTest, for every ring size, entry size and number of    *)
(* packets.                                                                *)
(***************************************************************************)
EXTENDS TxTest, SequenceTheorems, TLAPS

-----------------------------------------------------------------------------
(***************************************************************************)
(* The ring of the test in entry numbers.                                  *)
(***************************************************************************)
\* Different entries of the ring start at different offsets.
LEMMA OffsetInjective ==
    ASSUME NEW i \in Int, NEW j \in Int PROVE ES * i = ES * j <=> i = j
<1> USE TxAssumption
<1>1. CASE i < j
  <2>1. ES * (j - i) > 0 BY <1>1
  <2> QED BY <2>1, <1>1
<1>2. CASE j < i
  <2>1. ES * (i - j) > 0 BY <1>2
  <2> QED BY <2>1, <1>2
<1> QED BY <1>1, <1>2

\* The next entry, reset at the end of the ring.
LEMMA IndexNext ==
    ASSUME NEW i \in Index
    PROVE  /\ NextIndex(i, NEntries) \in Index
           /\ NextIndex(i, NEntries) = IF i + 1 = NEntries THEN 0 ELSE i + 1
BY TxAssumption DEF NextIndex, Index

\* An offset stands for its entry, and src_get_next_entry moves to the next.
LEMMA EntryOffset ==
    ASSUME NEW i \in Index
    PROVE  /\ ES * i \in Offsets /\ (ES * i) \div ES = i
           /\ SrcNext(ES * i, ES, RS) = ES * NextIndex(i, NEntries)
<1> USE TxAssumption
<1>1. ES * i \in Offsets BY DEF Offsets
<1>2. (ES * i) \div ES = i BY DEF Index
<1>3. ES * i + ES = ES * (i + 1) BY DEF Index
<1>4. CASE i + 1 = NEntries
  <2>1. (ES * NEntries) % (ES * NEntries) = 0 OBVIOUS
  <2>2. NextIndex(i, NEntries) = 0 BY <1>4, IndexNext
  <2> QED BY <1>1, <1>2, <1>3, <1>4, <2>1, <2>2 DEF SrcNext, RS
<1>5. CASE i + 1 # NEntries
  <2>1. ES * (NEntries - (i + 1)) > 0 BY <1>5 DEF Index
  <2>2. ES * (i + 1) \in Nat /\ ES * NEntries \in Nat BY DEF Index
  <2>3. ES * (i + 1) \in 0 .. ES * NEntries - 1 BY <2>1, <2>2 DEF Index
  <2>4. (ES * (i + 1)) % (ES * NEntries) = ES * (i + 1)
    <3> DEFINE x == ES * (i + 1)
               y == ES * NEntries
    <3> HIDE DEF x, y
    <3>1. x \in 0 .. y - 1 /\ y \in Nat BY <2>2, <2>3 DEF x, y
    <3>2. x % y = x BY <3>1
    <3> QED BY <3>2 DEF x, y
  <2> QED BY <1>1, <1>2, <1>3, <1>5, <2>4, IndexNext DEF SrcNext, RS
<1> QED BY <1>4, <1>5
-----------------------------------------------------------------------------
(***************************************************************************)
(* What the test holds.                                                    *)
(***************************************************************************)
\* A prefix of the resources grows by the next of them and shrinks to a
\* prefix again.
LEMMA HeldPrefix ==
    ASSUME NEW n \in 0 .. 5
    PROVE  /\ IsPrefix(SubSeq(Resources, 1, n), Resources)
           /\ n = 0 <=> SubSeq(Resources, 1, n) = <<>>
           /\ n < 5 => Append(SubSeq(Resources, 1, n), Resources[n + 1])
                           = SubSeq(Resources, 1, n + 1)
           /\ n > 0 => Front(SubSeq(Resources, 1, n)) = SubSeq(Resources, 1, n - 1)
<1> DEFINE S == {"config", "ring", "data", "skb", "map"}
<1>1. Resources \in Seq(S) /\ Len(Resources) = 5 BY DEF Resources
<1>0. \A i \in 1 .. 5 : Resources[i] \in S BY DEF Resources
<1> HIDE DEF S, Resources
<1>2. SubSeq(Resources, 1, n) \in Seq(S) /\ Len(SubSeq(Resources, 1, n)) = n
  <2>1. \A i \in 1 .. n : Resources[i] \in S BY <1>0
  <2>2. 1 \in Int /\ n \in Int OBVIOUS
  <2>3. /\ SubSeq(Resources, 1, n) \in Seq(S)
        /\ Len(SubSeq(Resources, 1, n)) = IF 1 <= n THEN n - 1 + 1 ELSE 0
    BY ONLY <2>1, <2>2, SubSeqProperties
  <2> QED BY <2>3
<1>3. IsPrefix(SubSeq(Resources, 1, n), Resources) BY <1>1, <1>2 DEF IsPrefix
<1>4. n = 0 <=> SubSeq(Resources, 1, n) = <<>>
  <2>1. SubSeq(Resources, 1, 0) = <<>>
    <3>1. 1 \in Int /\ 0 \in Int /\ 0 < 1 OBVIOUS
    <3> QED BY <3>1, SubSeqEmpty, Zenon
  <2> QED BY <1>2, <2>1
<1>5. n < 5 => Append(SubSeq(Resources, 1, n), Resources[n + 1])
                   = SubSeq(Resources, 1, n + 1)
  BY <1>1, <1>2
<1>6. n > 0 => Front(SubSeq(Resources, 1, n)) = SubSeq(Resources, 1, n - 1)
  BY <1>1, <1>2 DEF Front
<1> QED BY <1>3, <1>4, <1>5, <1>6

\* The resources of the test, and how many of them each label holds.
LEMMA LabelHolds ==
    /\ ToSet(Resources) = {"config", "ring", "data", "skb", "map"}
    /\ \A r \in ToSet(Resources) :
         /\ Depth(r) \in 0 .. 4 /\ Resources[Depth(r) + 1] = r
         /\ Depth(After(r)) = Depth(r) + 1
         /\ After(r) \in {"ring", "setup", "skb", "map", "write"}
         /\ r # "ring" => After(r) # "setup"
         /\ r # "config" => After(r) # "ring"
<1>1. ToSet(Resources) = {"config", "ring", "data", "skb", "map"}
  <2>1. \A i \in 1 .. 5 : i = 1 \/ i = 2 \/ i = 3 \/ i = 4 \/ i = 5 OBVIOUS
  <2> QED BY <2>1 DEF ToSet, Resources
<1>2. ASSUME NEW r \in ToSet(Resources)
      PROVE  /\ Depth(r) \in 0 .. 4 /\ Resources[Depth(r) + 1] = r
             /\ Depth(After(r)) = Depth(r) + 1
             /\ After(r) \in {"ring", "setup", "skb", "map", "write"}
             /\ r # "ring" => After(r) # "setup"
             /\ r # "config" => After(r) # "ring"
  <2>1. CASE r = "config" BY <2>1 DEF Depth, After, Resources
  <2>2. CASE r = "ring" BY <2>2 DEF Depth, After, Resources
  <2>3. CASE r = "data" BY <2>3 DEF Depth, After, Resources
  <2>4. CASE r = "skb" BY <2>4 DEF Depth, After, Resources
  <2>5. CASE r = "map" BY <2>5 DEF Depth, After, Resources
  <2> QED BY <1>1, <2>1, <2>2, <2>3, <2>4, <2>5
<1> QED BY <1>1, <1>2
-----------------------------------------------------------------------------
(***************************************************************************)
(* The steps.                                                              *)
(***************************************************************************)
\* A step that moves no pointer and sends nothing keeps what the invariant
\* says of the ring.
LEMMA RingKept ==
    ASSUME InvPointers, InvOrder, InvEntries, Filled' = Filled,
           UNCHANGED <<hp, cached_tp, write_index, desc, hp_reg, tp_mem, dev_tp,
                       fetched, test_count>>
    PROVE  InvPointers' /\ InvOrder' /\ InvEntries'
<1>1. UNCHANGED <<Cached, Back, DevIndex, Published>>
  BY DEF Cached, Back, DevIndex, Published
<1>2. InvPointers' BY <1>1 DEF InvPointers
<1>3. InvOrder' BY <1>1 DEF InvOrder
<1>4. InvEntries' BY <1>1 DEF InvEntries
<1> QED BY <1>2, <1>3, <1>4

\* What the test acquires is the next of the resources.
LEMMA StepAcquire ==
    ASSUME IInv, Acquire PROVE IInv'
<1> USE DEF IInv
<1>1. PICK r \in ToSet(Resources) :
        /\ pc = r
        /\ \/ held' = Append(held, r) /\ pc' = After(r)
           \/ pc' = "release" /\ UNCHANGED held
  BY DEF Acquire
<1>2. UNCHANGED <<test_count, first_word, ring, enabled, hp_reg, tp_mem, device>>
  BY DEF Acquire
<1>3. pc \in {"config", "ring", "data", "skb", "map"} BY <1>1, LabelHolds
<1>4. held = SubSeq(Resources, 1, Depth(pc)) BY <1>3 DEF InvTest
<1>5. \/ pc' = After(r) /\ held' = SubSeq(Resources, 1, Depth(pc'))
      \/ pc' = "release" /\ UNCHANGED held
  <2>1. Depth(r) \in 0 .. 5 /\ Depth(r) < 5 BY LabelHolds
  <2>2. Append(SubSeq(Resources, 1, Depth(r)), Resources[Depth(r) + 1])
            = SubSeq(Resources, 1, Depth(r) + 1)
    BY <2>1, HeldPrefix
  <2> QED BY <1>1, <1>4, <2>2, LabelHolds
<1>6. pc' \in {"ring", "setup", "skb", "map", "write", "release"}
  BY <1>5, LabelHolds
<1>7. \E n \in 0 .. 5 : held' = SubSeq(Resources, 1, n)
  <2>1. Depth(r) + 1 \in 0 .. 5 /\ Depth(After(r)) = Depth(r) + 1 BY LabelHolds
  <2> QED BY <1>5, <2>1 DEF InvTest
<1>8. InvTest'
  <2>1. pc' \in {"ring", "setup"} => pc \in {"config", "ring"}
    BY <1>1, <1>5, LabelHolds
  <2>2. test_count = 0 BY <1>3 DEF InvTest
  <2>3. pc' \in {"ring", "setup"} => ~enabled' /\ fetched' = 0
    BY <1>2, <2>1 DEF InvTest, device
  <2> QED BY <1>2, <1>5, <1>6, <1>7, <2>2, <2>3 DEF InvTest
<1>9. TypeOK'
  <2>1. IsPrefix(held', Resources) BY <1>7, HeldPrefix
  <2> QED BY <1>2, <2>1 DEF TypeOK, ring, device
<1>10. Filled' = Filled BY <1>2, <1>3, <1>6 DEF Filled
<1>11. InvPointers' /\ InvOrder' /\ InvEntries'
  BY <1>2, <1>10, RingKept DEF ring, device
<1>12. InvWord' BY <1>2, <1>6 DEF InvWord
<1>13. FetchedInOrder' /\ NeverOlderData'
  BY <1>2 DEF FetchedInOrder, NeverOlderData, device
<1> QED BY <1>8, <1>9, <1>11, <1>12, <1>13

\* The ring is set up empty, before the device knows of it.
LEMMA StepSetup ==
    ASSUME IInv, Setup PROVE IInv'
<1> USE DEF IInv
<1>1. /\ pc = "setup" /\ pc' = "data" /\ enabled' = TRUE
      /\ hp' = 0 /\ cached_tp' = 0 /\ write_index' = 0 /\ hp_reg' = 0
      /\ tp_mem' = 0 /\ dev_tp' = 0 /\ desc' = [o \in Offsets |-> 0]
      /\ UNCHANGED <<held, test_count, first_word, skb, dev_desc, fetched, dev_data>>
  BY DEF Setup
<1>2. test_count = 0 /\ fetched = 0 BY <1>1 DEF InvTest
<1>3. 0 \in Index BY TxAssumption DEF Index
<1>4. ES * 0 = 0 BY TxAssumption
<1>5. 0 \in Offsets /\ 0 \div ES = 0 BY <1>3, <1>4, EntryOffset
<1>6. /\ Cached' = 0 /\ Back' = 0 /\ DevIndex' = 0 /\ Published' = 0
  BY <1>1, <1>5 DEF Cached, Back, DevIndex, Published
<1>7. Filled' = 0 BY <1>1, <1>2 DEF Filled
<1>8. TypeOK'
  <2>1. desc' \in [Offsets -> 0 .. Count] BY <1>1, TxAssumption
  <2> QED BY <1>1, <1>3, <1>5, <2>1 DEF TypeOK
<1>9. InvTest'
  <2>1. Depth("setup") = 2 /\ Depth("data") = 2 BY DEF Depth
  <2>2. held = SubSeq(Resources, 1, 2) BY <1>1, <2>1 DEF InvTest
  <2> QED BY <1>1, <1>2, <2>1, <2>2 DEF InvTest
<1>10. InvPointers' BY <1>1, <1>3, <1>4, <1>6 DEF InvPointers
<1>11. InvOrder'
  <2>1. Dist(0, 0, NEntries) = 0 BY DEF Dist
  <2> QED BY <1>1, <1>2, <1>6, <1>7, <2>1 DEF InvOrder
<1>12. InvEntries'
  <2>1. \A i \in Index : ~(0 + Dist(0, i, NEntries) < 0) BY DEF Index, Dist
  <2> QED BY <1>1, <1>2, <1>6, <1>7, <2>1 DEF InvEntries
<1>13. InvWord' BY <1>1 DEF InvWord
<1>14. FetchedInOrder' /\ NeverOlderData'
  BY <1>1 DEF FetchedInOrder, NeverOlderData
<1> QED BY <1>8, <1>9, <1>10, <1>11, <1>12, <1>13, <1>14

\* The number of the packet is written once its predecessor was sent.
LEMMA StepWrite ==
    ASSUME IInv, Write PROVE IInv'
<1> USE DEF IInv
<1>1. /\ pc = "write" /\ pc' = IF test_count = Count THEN "sleep" ELSE "begin"
      /\ first_word' = IF test_count = Count THEN first_word ELSE test_count
  BY DEF Write
<1>2. UNCHANGED <<held, test_count, ring, enabled, hp_reg, tp_mem, device>>
  BY DEF Write
<1>3. TypeOK' BY <1>1, <1>2 DEF TypeOK, ring, device
<1>4. InvTest'
  <2>1. Depth("write") = 5 /\ Depth("sleep") = 5 /\ Depth("begin") = 5 BY DEF Depth
  <2>2. held = SubSeq(Resources, 1, 5) BY <1>1, <2>1 DEF InvTest
  <2>3. pc' = "begin" => test_count < Count BY <1>1, TxAssumption DEF TypeOK
  <2> QED BY <1>1, <1>2, <2>1, <2>2, <2>3 DEF InvTest
<1>5. Filled' = Filled BY <1>1, <1>2 DEF Filled
<1>6. InvPointers' /\ InvOrder' /\ InvEntries'
  BY <1>2, <1>5, RingKept DEF ring, device
<1>7. InvWord' BY <1>1, <1>2, TxAssumption DEF InvWord, TypeOK
<1>8. FetchedInOrder' /\ NeverOlderData'
  BY <1>2 DEF FetchedInOrder, NeverOlderData, device
<1> QED BY <1>3, <1>4, <1>6, <1>7, <1>8

\* Reading the tail brings the cached one up to the tail written back.
LEMMA StepSendBegin ==
    ASSUME IInv, SendBegin PROVE IInv'
<1> USE DEF IInv
<1>1. /\ pc = "begin" /\ pc' = "fill" /\ cached_tp' = tp_mem
      /\ UNCHANGED <<held, test_count, first_word, hp, write_index, skb, desc,
                     enabled, hp_reg, tp_mem, device>>
  BY DEF SendBegin
<1>2. Cached' = Back /\ UNCHANGED <<Back, DevIndex, Published>>
  BY <1>1 DEF Cached, Back, DevIndex, Published, device
<1>3. Filled' = Filled BY <1>1 DEF Filled
<1>4. TypeOK' BY <1>1 DEF TypeOK, device
<1>5. InvTest'
  <2>1. Depth("begin") = 5 /\ Depth("fill") = 5 BY DEF Depth
  <2>2. held = SubSeq(Resources, 1, 5) BY <1>1, <2>1 DEF InvTest
  <2> QED BY <1>1, <2>1, <2>2 DEF InvTest
<1>6. InvPointers' BY <1>1, <1>2 DEF InvPointers, device
<1>7. InvOrder'
  <2>1. /\ {Cached, Back, DevIndex, Published} \subseteq Index
        /\ write_index \in Index
    BY DEF InvPointers, TypeOK
  <2>2. /\ Dist(Cached, Back, NEntries) <= Dist(Cached, DevIndex, NEntries)
        /\ Dist(Cached, DevIndex, NEntries) <= Dist(Cached, write_index, NEntries)
    BY DEF InvOrder
  <2>3. /\ Dist(Back, Back, NEntries) <= Dist(Back, DevIndex, NEntries)
        /\ Dist(Back, DevIndex, NEntries) <= Dist(Back, write_index, NEntries)
    BY <2>1, <2>2, TxAssumption DEF Dist, Index
  <2> QED BY <1>1, <1>2, <1>3, <2>3 DEF InvOrder, device
<1>8. InvEntries' BY <1>1, <1>2, <1>3 DEF InvEntries, device
<1>9. InvWord' BY <1>1 DEF InvWord
<1>10. FetchedInOrder' /\ NeverOlderData'
  BY <1>1 DEF FetchedInOrder, NeverOlderData, device
<1> QED BY <1>4, <1>5, <1>6, <1>7, <1>8, <1>9, <1>10

\* The entry that is filled lies behind the tails of the device, even as the
\* host last saw them: no entry that is yet to be fetched is written again.
LEMMA StepSendFill ==
    ASSUME IInv, SendFill PROVE IInv'
<1> USE DEF IInv
<1>1. /\ pc = "fill" /\ pc' = "sent" /\ HasNextEntry(hp, cached_tp, ES, RS)
      /\ desc' = [desc EXCEPT ![hp] = test_count] /\ hp' = SrcNext(hp, ES, RS)
      /\ skb' = skb \union {write_index}
      /\ write_index' = NextIndex(write_index, NEntries)
      /\ UNCHANGED <<held, test_count, first_word, cached_tp, enabled, hp_reg,
                     tp_mem, device>>
  BY DEF SendFill
<1> DEFINE w == write_index
<1>2. w \in Index /\ {Cached, Back, DevIndex, Published} \subseteq Index
  BY DEF TypeOK, InvPointers
<1>3. hp = ES * w /\ cached_tp = ES * Cached BY DEF InvPointers
<1>4. /\ write_index' \in Index
      /\ write_index' = IF w + 1 = NEntries THEN 0 ELSE w + 1
  BY <1>1, <1>2, IndexNext
<1>5. hp' = ES * write_index' /\ hp' \in Offsets
  BY <1>1, <1>2, <1>3, <1>4, EntryOffset
<1>6. write_index' # Cached BY <1>1, <1>3, <1>5 DEF HasNextEntry
<1>7. UNCHANGED <<Cached, Back, DevIndex, Published>>
  BY <1>1 DEF Cached, Back, DevIndex, Published, device
<1>8. test_count \in Nat /\ Filled = test_count /\ Filled' = test_count + 1
  BY <1>1, TxAssumption DEF Filled, TypeOK
<1>9. /\ Dist(Cached, Back, NEntries) <= Dist(Cached, DevIndex, NEntries)
      /\ Dist(Cached, DevIndex, NEntries) <= Dist(Cached, w, NEntries)
      /\ fetched + Dist(DevIndex, Published, NEntries) = test_count
      /\ fetched + Dist(DevIndex, w, NEntries) = test_count
  BY <1>8 DEF InvOrder
<1>10. fetched \in Nat BY TxAssumption DEF TypeOK
<1>11. TypeOK'
  <2>1. desc' \in [Offsets -> 0 .. Count] BY <1>1 DEF TypeOK
  <2> QED BY <1>1, <1>2, <1>4, <1>5, <2>1 DEF TypeOK, device
<1>12. InvTest'
  <2>1. Depth("fill") = 5 /\ Depth("sent") = 5 BY DEF Depth
  <2>2. held = SubSeq(Resources, 1, 5) BY <1>1, <2>1 DEF InvTest
  <2> QED BY <1>1, <2>1, <2>2 DEF InvTest
<1>13. InvPointers' BY <1>1, <1>5, <1>7 DEF InvPointers, device
<1>14. InvOrder'
  <2> HIDE DEF w
  <2>1. /\ Dist(Cached, DevIndex, NEntries) <= Dist(Cached, write_index', NEntries)
        /\ fetched + Dist(DevIndex, write_index', NEntries) = test_count + 1
    BY <1>2, <1>4, <1>6, <1>8, <1>9, <1>10, TxAssumption DEF Dist, Index
  <2> QED BY <1>1, <1>7, <1>8, <1>9, <2>1 DEF InvOrder, device
<1>15. InvEntries'
  <2> SUFFICES ASSUME NEW i \in Index,
                      fetched + Dist(DevIndex, i, NEntries) < test_count + 1
               PROVE  desc'[ES * i] = fetched + Dist(DevIndex, i, NEntries)
    BY <1>1, <1>7, <1>8 DEF InvEntries, device
  <2>1. ES * i \in Offsets BY EntryOffset
  <2>2. i = w <=> ES * i = hp BY <1>2, <1>3, OffsetInjective DEF Index
  <2>3. CASE i = w BY <1>1, <1>9, <2>1, <2>2, <2>3 DEF TypeOK
  <2>4. CASE i # w
    <3>1. fetched + Dist(DevIndex, i, NEntries) < Filled
      BY <1>2, <1>8, <1>9, <1>10, <2>4, TxAssumption DEF Dist, Index
    <3> QED BY <1>1, <2>1, <2>2, <2>4, <3>1 DEF InvEntries, TypeOK
  <2> QED BY <2>3, <2>4
<1>16. InvWord' BY <1>1 DEF InvWord
<1>17. FetchedInOrder' /\ NeverOlderData'
  BY <1>1 DEF FetchedInOrder, NeverOlderData, device
<1> QED BY <1>11, <1>12, <1>13, <1>14, <1>15, <1>16, <1>17

\* A full ring leaves everything as it is.
LEMMA StepSendFull ==
    ASSUME IInv, SendFull PROVE IInv'
<1> USE DEF IInv
<1>1. /\ pc = "fill" /\ pc' = "full"
      /\ UNCHANGED <<held, test_count, first_word, ring, enabled, hp_reg, tp_mem,
                     device>>
  BY DEF SendFull
<1>2. TypeOK' BY <1>1 DEF TypeOK, ring, device
<1>3. InvTest'
  <2>1. Depth("fill") = 5 /\ Depth("full") = 5 BY DEF Depth
  <2>2. held = SubSeq(Resources, 1, 5) BY <1>1, <2>1 DEF InvTest
  <2> QED BY <1>1, <2>1, <2>2 DEF InvTest
<1>4. Filled' = Filled BY <1>1 DEF Filled
<1>5. InvPointers' /\ InvOrder' /\ InvEntries'
  BY <1>1, <1>4, RingKept DEF ring, device
<1>6. InvWord' BY <1>1 DEF InvWord
<1>7. FetchedInOrder' /\ NeverOlderData'
  BY <1>1 DEF FetchedInOrder, NeverOlderData, device
<1> QED BY <1>2, <1>3, <1>5, <1>6, <1>7

\* The head is published and the packet counted as sent, in one step.
LEMMA StepSendEnd ==
    ASSUME IInv, SendEnd PROVE IInv'
<1> USE DEF IInv
<1>1. /\ \/ pc = "sent" /\ pc' = "write" /\ test_count' = test_count + 1
         \/ pc = "full" /\ pc' = "release" /\ UNCHANGED test_count
      /\ hp_reg' = hp
      /\ UNCHANGED <<held, first_word, ring, enabled, tp_mem, device>>
  BY DEF SendEnd
<1>2. test_count \in Nat /\ test_count < Count
  BY <1>1, TxAssumption DEF InvTest, TypeOK
<1>3. Filled' = Filled /\ test_count' = Filled BY <1>1, <1>2 DEF Filled
<1>4. test_count' \in 0 .. Count BY <1>1, <1>2, TxAssumption
<1>5. write_index \in Index /\ hp = ES * write_index BY DEF TypeOK, InvPointers
<1>6. UNCHANGED <<Cached, Back, DevIndex>>
  BY <1>1 DEF Cached, Back, DevIndex, ring, device
<1>7. Published' = write_index BY <1>1, <1>5, EntryOffset DEF Published
<1>8. TypeOK' BY <1>1, <1>4 DEF TypeOK, ring, device
<1>9. InvTest'
  <2>1. Depth("sent") = 5 /\ Depth("full") = 5 /\ Depth("write") = 5 BY DEF Depth
  <2>2. held = SubSeq(Resources, 1, 5) BY <1>1, <2>1 DEF InvTest
  <2> QED BY <1>1, <2>1, <2>2 DEF InvTest
<1>10. InvPointers' BY <1>1, <1>5, <1>6, <1>7 DEF InvPointers, ring, device
<1>11. InvOrder' BY <1>1, <1>3, <1>6, <1>7 DEF InvOrder, ring, device
<1>12. InvEntries' BY <1>1, <1>3, <1>6 DEF InvEntries, ring, device
<1>13. InvWord' BY <1>1, <1>2 DEF InvWord, TypeOK
<1>14. FetchedInOrder' BY <1>1 DEF FetchedInOrder, device
<1>15. NeverOlderData'
  <2>1. dev_data[2] \in Int BY DEF TypeOK
  <2> QED BY <1>1, <1>2, <2>1 DEF NeverOlderData, device
<1> QED BY <1>8, <1>9, <1>10, <1>11, <1>12, <1>13, <1>14, <1>15

\* The test sleeps with everything in its hands.
LEMMA StepSleep ==
    ASSUME IInv, Sleep PROVE IInv'
<1> USE DEF IInv
<1>1. /\ pc = "sleep" /\ pc' = "release"
      /\ UNCHANGED <<held, test_count, first_word, ring, enabled, hp_reg, tp_mem,
                     device>>
  BY DEF Sleep
<1>2. TypeOK' BY <1>1 DEF TypeOK, ring, device
<1>3. InvTest' BY <1>1 DEF InvTest
<1>4. Filled' = Filled BY <1>1 DEF Filled
<1>5. InvPointers' /\ InvOrder' /\ InvEntries'
  BY <1>1, <1>4, RingKept DEF ring, device
<1>6. InvWord' BY <1>1 DEF InvWord
<1>7. FetchedInOrder' /\ NeverOlderData'
  BY <1>1 DEF FetchedInOrder, NeverOlderData, device
<1> QED BY <1>2, <1>3, <1>5, <1>6, <1>7

\* What was acquired last is released first.
LEMMA StepRelease ==
    ASSUME IInv, Release PROVE IInv'
<1> USE DEF IInv
<1>1. /\ pc = "release" /\ pc' \in {"release", "done"}
      /\ held' = IF held = <<>> THEN held ELSE Front(held)
      /\ UNCHANGED <<test_count, first_word, ring, enabled, hp_reg, tp_mem, device>>
  BY DEF Release
<1>2. \E n \in 0 .. 5 : held' = SubSeq(Resources, 1, n)
  <2>1. PICK n \in 0 .. 5 : held = SubSeq(Resources, 1, n) BY DEF InvTest
  <2>2. CASE held = <<>> BY <1>1, <2>1, <2>2
  <2>3. CASE held # <<>>
    <3>1. n > 0 BY <2>1, <2>3, HeldPrefix
    <3>2. held' = SubSeq(Resources, 1, n - 1) BY <1>1, <2>1, <2>3, <3>1, HeldPrefix
    <3>3. n - 1 \in 0 .. 5 BY <3>1
    <3> QED BY <3>2, <3>3
  <2> QED BY <2>2, <2>3
<1>3. TypeOK'
  <2>1. IsPrefix(held', Resources) BY <1>2, HeldPrefix
  <2> QED BY <1>1, <2>1 DEF TypeOK, ring, device
<1>4. InvTest' BY <1>1, <1>2 DEF InvTest
<1>5. Filled' = Filled BY <1>1 DEF Filled
<1>6. InvPointers' /\ InvOrder' /\ InvEntries'
  BY <1>1, <1>5, RingKept DEF ring, device
<1>7. InvWord' BY <1>1 DEF InvWord
<1>8. FetchedInOrder' /\ NeverOlderData'
  BY <1>1 DEF FetchedInOrder, NeverOlderData, device
<1> QED BY <1>3, <1>4, <1>6, <1>7, <1>8

\* The device fetches the oldest descriptor that it has not fetched.
LEMMA StepDevFetch ==
    ASSUME IInv, DevFetch PROVE IInv'
<1> USE DEF IInv
<1>1. /\ enabled /\ dev_tp # hp_reg
      /\ dev_desc' = IF Holding("ring") THEN desc[dev_tp] ELSE Garbage
      /\ dev_tp' = SrcNext(dev_tp, ES, RS) /\ fetched' = fetched + 1
      /\ UNCHANGED <<test, ring, enabled, hp_reg, tp_mem, dev_data>>
  BY DEF DevFetch
<1>2. write_index \in Index /\ {Cached, Back, DevIndex, Published} \subseteq Index
  BY DEF TypeOK, InvPointers
<1>3. dev_tp = ES * DevIndex /\ hp_reg = ES * Published BY DEF InvPointers
<1>4. DevIndex # Published BY <1>1, <1>3
<1>5. dev_tp' = ES * NextIndex(DevIndex, NEntries) BY <1>1, <1>2, <1>3, EntryOffset
<1>6. /\ DevIndex' = NextIndex(DevIndex, NEntries) /\ DevIndex' \in Index
      /\ DevIndex' = IF DevIndex + 1 = NEntries THEN 0 ELSE DevIndex + 1
  BY <1>2, <1>5, IndexNext, EntryOffset DEF DevIndex
<1>7. dev_tp' = ES * DevIndex' /\ dev_tp' \in Offsets BY <1>5, <1>6, EntryOffset
<1>8. UNCHANGED <<Cached, Back, Published>>
  BY <1>1 DEF Cached, Back, Published, ring
<1>9. /\ fetched \in Nat /\ test_count \in Nat /\ Filled \in Nat
      /\ test_count <= Filled /\ test_count <= Count
  BY TxAssumption DEF TypeOK, Filled
<1>10. Filled' = Filled BY <1>1 DEF Filled, test
<1>11. /\ Dist(Cached, Back, NEntries) <= Dist(Cached, DevIndex, NEntries)
       /\ Dist(Cached, DevIndex, NEntries) <= Dist(Cached, write_index, NEntries)
       /\ fetched + Dist(DevIndex, Published, NEntries) = test_count
       /\ fetched + Dist(DevIndex, write_index, NEntries) = Filled
  BY DEF InvOrder
<1>12. fetched < test_count
  <2>1. Dist(DevIndex, Published, NEntries) \in Nat \ {0}
    BY <1>2, <1>4, TxAssumption DEF Dist, Index
  <2> QED BY <1>9, <1>11, <2>1
<1>13. desc[dev_tp] = fetched
  <2>1. Dist(DevIndex, DevIndex, NEntries) = 0 BY <1>2 DEF Dist, Index
  <2>2. fetched + 0 < Filled BY <1>9, <1>12
  <2>3. desc[ES * DevIndex] = fetched + 0 BY <1>2, <2>1, <2>2 DEF InvEntries
  <2> QED BY <1>3, <1>9, <2>3
<1>14. dev_desc' \in {fetched, Garbage} BY <1>1, <1>13
<1>15. TypeOK'
  <2>1. fetched' \in 0 .. Count BY <1>1, <1>9, <1>12, TxAssumption
  <2>2. dev_desc' \in {Idle, Garbage} \union 0 .. Count
    BY <1>9, <1>12, <1>14, TxAssumption
  <2> QED BY <1>1, <1>7, <2>1, <2>2 DEF TypeOK, test, ring
<1>16. InvTest' BY <1>1 DEF InvTest, test
<1>17. InvPointers' BY <1>1, <1>6, <1>7, <1>8 DEF InvPointers, ring
<1>18. InvOrder'
  <2>1. /\ Dist(Cached, DevIndex', NEntries) = Dist(Cached, DevIndex, NEntries) + 1
        /\ Dist(Cached, DevIndex', NEntries) <= Dist(Cached, write_index, NEntries)
    <3>1. DevIndex # write_index
      <4>1. Dist(DevIndex, DevIndex, NEntries) = 0 BY <1>2 DEF Dist, Index
      <4> QED BY <1>9, <1>11, <1>12, <4>1
    <3> QED BY <1>2, <1>6, <1>11, <3>1, TxAssumption DEF Dist, Index
  <2>2. Dist(DevIndex', Published, NEntries) = Dist(DevIndex, Published, NEntries) - 1
    BY <1>2, <1>4, <1>6, TxAssumption DEF Dist, Index
  <2>3. Dist(DevIndex', write_index, NEntries)
          = Dist(DevIndex, write_index, NEntries) - 1
    <3>1. Dist(DevIndex, write_index, NEntries) > 0
      BY <1>2, <1>9, <1>11, <1>12, TxAssumption DEF Dist, Index
    <3> QED BY <1>2, <1>6, <3>1, TxAssumption DEF Dist, Index
  <2>4. /\ Dist(Cached, Back, NEntries) \in Int
        /\ Dist(Cached, DevIndex, NEntries) \in Int
        /\ Dist(DevIndex, Published, NEntries) \in Int
        /\ Dist(DevIndex, write_index, NEntries) \in Int
    BY <1>2, TxAssumption DEF Dist, Index
  <2>5. /\ Dist(Cached, Back, NEntries) <= Dist(Cached, DevIndex', NEntries)
        /\ fetched + 1 + Dist(DevIndex', Published, NEntries) = test_count
        /\ fetched + 1 + Dist(DevIndex', write_index, NEntries) = Filled
    BY <1>9, <1>11, <2>1, <2>4, <2>2, <2>3
  <2> QED BY <1>1, <1>8, <1>10, <2>1, <2>5 DEF InvOrder, ring, test
<1>19. InvEntries'
  <2> SUFFICES ASSUME NEW i \in Index,
                      fetched + 1 + Dist(DevIndex', i, NEntries) < Filled
               PROVE  desc[ES * i] = fetched + 1 + Dist(DevIndex', i, NEntries)
    BY <1>1, <1>10 DEF InvEntries, ring
  <2>1. Dist(DevIndex', i, NEntries) + 1 = Dist(DevIndex, i, NEntries)
    BY <1>2, <1>6, <1>9, <1>11, TxAssumption DEF Dist, Index
  <2>2. Dist(DevIndex', i, NEntries) \in Int BY <1>6, TxAssumption DEF Dist, Index
  <2>3. fetched + Dist(DevIndex, i, NEntries) < Filled BY <1>9, <2>1, <2>2
  <2>4. desc[ES * i] = fetched + Dist(DevIndex, i, NEntries) BY <2>3 DEF InvEntries
  <2> QED BY <1>9, <2>1, <2>2, <2>4
<1>20. InvWord' BY <1>1 DEF InvWord, test
<1>21. FetchedInOrder' BY <1>1, <1>9, <1>14 DEF FetchedInOrder, Garbage
<1>22. NeverOlderData' BY <1>1 DEF NeverOlderData, test
<1> QED BY <1>15, <1>16, <1>17, <1>18, <1>19, <1>20, <1>21, <1>22

\* The buffer holds the number of the packet that was fetched, or a later one.
LEMMA StepDevRead ==
    ASSUME IInv, DevRead PROVE IInv'
<1> USE DEF IInv
<1>1. /\ dev_desc # Idle /\ dev_desc' = Idle
      /\ dev_data' = IF Holding("map") /\ dev_desc # Garbage
                       THEN <<dev_desc, first_word>> ELSE dev_data
      /\ UNCHANGED <<test, ring, enabled, hp_reg, tp_mem, dev_tp, fetched>>
  BY DEF DevRead
<1>2. \/ UNCHANGED dev_data
      \/ dev_desc \in 0 .. Count /\ dev_data' = <<dev_desc, first_word>>
  BY <1>1 DEF TypeOK
<1>3. TypeOK' BY <1>1, <1>2 DEF TypeOK, test, ring
<1>4. InvTest' BY <1>1 DEF InvTest, test
<1>5. Filled' = Filled BY <1>1 DEF Filled, test
<1>6. InvPointers' /\ InvOrder' /\ InvEntries' BY <1>1, <1>5, RingKept DEF ring, test
<1>7. InvWord' BY <1>1 DEF InvWord, test
<1>8. FetchedInOrder' BY <1>1 DEF FetchedInOrder, Idle
<1>9. NeverOlderData'
  <2>1. CASE UNCHANGED dev_data BY <1>1, <2>1 DEF NeverOlderData, test
  <2>2. CASE dev_desc \in 0 .. Count /\ dev_data' = <<dev_desc, first_word>>
    <3>1. dev_desc = fetched - 1 BY <2>2 DEF FetchedInOrder
    <3>2. fetched <= test_count
      <4>1. Dist(DevIndex, Published, NEntries) \in Nat
        BY TxAssumption DEF Dist, Index, InvPointers
      <4> QED BY <4>1, TxAssumption DEF InvOrder, TypeOK
    <3>3. dev_desc <= first_word /\ first_word <= test_count
      BY <3>1, <3>2, TxAssumption DEF InvWord, TypeOK
    <3> QED BY <1>1, <2>2, <3>3 DEF NeverOlderData, test
  <2> QED BY <1>2, <2>1, <2>2
<1> QED BY <1>3, <1>4, <1>6, <1>7, <1>8, <1>9

\* The tail that is written back catches up with the device's.
LEMMA StepDevWriteTp ==
    ASSUME IInv, DevWriteTp PROVE IInv'
<1> USE DEF IInv
<1>1. tp_mem' = dev_tp /\ UNCHANGED <<test, ring, enabled, hp_reg, device>>
  BY DEF DevWriteTp
<1>2. Back' = DevIndex /\ UNCHANGED <<Cached, DevIndex, Published>>
  BY <1>1 DEF Cached, Back, DevIndex, Published, ring, device
<1>3. Filled' = Filled BY <1>1 DEF Filled, test
<1>4. TypeOK' BY <1>1 DEF TypeOK, test, ring, device
<1>5. InvTest' BY <1>1 DEF InvTest, test, device
<1>6. InvPointers' BY <1>1, <1>2 DEF InvPointers, ring, device
<1>7. InvOrder'
  <2>1. Dist(Cached, DevIndex, NEntries) <= Dist(Cached, DevIndex, NEntries)
    BY TxAssumption DEF Dist, Index, InvPointers
  <2> QED BY <1>1, <1>2, <1>3, <2>1 DEF InvOrder, test, ring, device
<1>8. InvEntries' BY <1>1, <1>2, <1>3 DEF InvEntries, ring, device
<1>9. InvWord' BY <1>1 DEF InvWord, test
<1>10. FetchedInOrder' /\ NeverOlderData'
  BY <1>1 DEF FetchedInOrder, NeverOlderData, test, device
<1> QED BY <1>4, <1>5, <1>6, <1>7, <1>8, <1>9, <1>10
-----------------------------------------------------------------------------
(***************************************************************************)
(* The theorems.                                                           *)
(***************************************************************************)
\* Before the test has acquired anything the invariant holds.
LEMMA InitIInv == Init => IInv
<1> SUFFICES ASSUME Init PROVE IInv OBVIOUS
<1>1. /\ pc = "config" /\ held = <<>> /\ test_count = 0 /\ first_word = 0
      /\ hp = 0 /\ cached_tp = 0 /\ write_index = 0 /\ skb = {}
      /\ desc = [o \in Offsets |-> 0]
      /\ enabled = FALSE /\ hp_reg = 0 /\ tp_mem = 0
      /\ dev_tp = 0 /\ dev_desc = Idle /\ fetched = 0 /\ dev_data = <<0, 0>>
  BY DEF Init
<1>2. 0 \in Index BY TxAssumption DEF Index
<1>3. ES * 0 = 0 BY TxAssumption
<1>4. 0 \in Offsets /\ 0 \div ES = 0 BY <1>2, <1>3, EntryOffset
<1>5. /\ Cached = 0 /\ Back = 0 /\ DevIndex = 0 /\ Published = 0
  BY <1>1, <1>4 DEF Cached, Back, DevIndex, Published
<1>6. Filled = 0 BY <1>1 DEF Filled
<1>7. held = SubSeq(Resources, 1, 0) /\ IsPrefix(held, Resources)
  <2>1. 0 \in 0 .. 5 OBVIOUS
  <2>2. /\ IsPrefix(SubSeq(Resources, 1, 0), Resources)
        /\ 0 = 0 <=> SubSeq(Resources, 1, 0) = <<>>
    BY <2>1, HeldPrefix, Zenon
  <2> QED BY <1>1, <2>2, Zenon
<1>8. TypeOK
  <2>1. desc \in [Offsets -> 0 .. Count] BY <1>1, TxAssumption
  <2>2. dev_data \in (0 .. Count) \X (0 .. Count) BY <1>1, TxAssumption
  <2> QED BY <1>1, <1>2, <1>4, <1>7, <2>1, <2>2, TxAssumption DEF TypeOK
<1>9. InvTest
  <2>1. Depth("config") = 0 BY DEF Depth
  <2> QED BY <1>1, <1>7, <2>1 DEF InvTest
<1>10. InvPointers BY <1>1, <1>2, <1>3, <1>5 DEF InvPointers
<1>11. InvOrder BY <1>1, <1>5, <1>6 DEF InvOrder, Dist
<1>12. InvEntries
  <2>1. \A i \in Index : ~(0 + Dist(0, i, NEntries) < 0) BY DEF Index, Dist
  <2> QED BY <1>1, <1>5, <1>6, <2>1 DEF InvEntries
<1>13. InvWord BY <1>1 DEF InvWord
<1>14. FetchedInOrder /\ NeverOlderData
  BY <1>1 DEF FetchedInOrder, NeverOlderData, Idle
<1> QED BY <1>8, <1>9, <1>10, <1>11, <1>12, <1>13, <1>14 DEF IInv

\* Every step of the test and of the device preserves the invariant.
LEMMA NextIInv == IInv /\ [Next]_vars => IInv'
<1> SUFFICES ASSUME IInv, [Next]_vars PROVE IInv' OBVIOUS
<1>1. CASE Test
  BY <1>1, StepAcquire, StepSetup, StepWrite, StepSendBegin, StepSendFill,
     StepSendFull, StepSendEnd, StepSleep, StepRelease DEF Test
<1>2. CASE Device BY <1>2, StepDevFetch, StepDevRead, StepDevWriteTp DEF Device
<1>3. CASE UNCHANGED vars
  <2>1. UNCHANGED <<test, ring, enabled, hp_reg, tp_mem, device>> BY <1>3 DEF vars
  <2>2. Filled' = Filled BY <2>1 DEF Filled, test
  <2>3. InvPointers' /\ InvOrder' /\ InvEntries'
    BY <2>1, <2>2, RingKept DEF IInv, test, ring, device
  <2>4. TypeOK' BY <2>1 DEF IInv, TypeOK, test, ring, device
  <2>5. InvTest' BY <2>1 DEF IInv, InvTest, test, device
  <2>6. InvWord' BY <2>1 DEF IInv, InvWord, test
  <2>7. FetchedInOrder' /\ NeverOlderData'
    BY <2>1 DEF IInv, FetchedInOrder, NeverOlderData, test, device
  <2> QED BY <2>3, <2>4, <2>5, <2>6, <2>7 DEF IInv
<1> QED BY <1>1, <1>2, <1>3 DEF Next

\* The inductive invariant holds in every reachable state: round the ring lie
\* the cached tail, the tail written back, the device's tail, the published
\* head and the entry to fill, and the entries between hold their packets.
THEOREM SpecIInv == Spec => []IInv
<1> QED BY InitIInv, NextIInv, PTL DEF Spec

\* The pointers of srng_test_ring stay on entry boundaries and what the test
\* holds is a prefix of what it acquires.
THEOREM TypeCorrect == Spec => []TypeOK
<1>1. IInv => TypeOK BY DEF IInv
<1> QED BY <1>1, SpecIInv, PTL

\* The device fetches the descriptors in the order of the test_send calls,
\* none twice, none skipped and none overwritten, for every ring size.
THEOREM DescriptorsInOrder == Spec => []FetchedInOrder
<1>1. IInv => FetchedInOrder BY DEF IInv
<1> QED BY <1>1, SpecIInv, PTL

\* The one buffer that all packets share never shows the device the number
\* of a packet before the one whose descriptor it fetched.
THEOREM NoOlderData == Spec => []NeverOlderData
<1>1. IInv => NeverOlderData BY DEF IInv
<1> QED BY <1>1, SpecIInv, PTL
=============================================================================
