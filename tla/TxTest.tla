------------------------------- MODULE TxTest -------------------------------
(***************************************************************************)
(* wireless_simu_hal_srng_test: the transmit self test that the probe      *)
(* runs.  It sets up one SRC ring, sends the same socket buffer Count      *)
(* times with a running number in its first word, sleeps, and gives        *)
(* everything back.  The device fetches descriptors and reads the buffer   *)
(* concurrently.                                                           *)
(*                                                                         *)
(* The test is the only user of its srng_test_lock, so the lock is left    *)
(* out; a call of test_send is cut where it reads the tail pointer and     *)
(* where it publishes the head.                                            *)
(***************************************************************************)
EXTENDS HalSrng, Sequences, SequencesExt

CONSTANTS
    NEntries,   \* entries of the ring (32 in srng_test_configs)
    ES,         \* words of an entry, struct hal_test_sw2hw (5)
    Count       \* packets that the test sends (50)

ASSUME TxAssumption ==
    /\ NEntries \in Nat /\ NEntries >= 2
    /\ ES \in Nat \ {0} /\ Count \in Nat

RS == ES * NEntries
Index == 0 .. NEntries - 1
Offsets == {ES * i : i \in Index}

\* What the test acquires, in this order; the goto labels at its end release
\* what is held in the opposite order.
Resources == <<"config", "ring", "data", "skb", "map">>

Idle == -1      \* the device has no descriptor
Garbage == -2   \* what it gets from memory that was given back

VARIABLES
    pc, held,              \* the test: where it is, what it has acquired
    test_count,            \* the packet being sent
    first_word,            \* the first word of the buffer
    hp, cached_tp,         \* struct hal_srng, host side
    write_index, skb,      \* struct srng_test_ring: slots that hold the skb
    desc,                  \* entry offset -> number of the packet it stands for
    enabled, hp_reg,       \* the device's registers of the ring
    tp_mem,                \* the tail that the device writes back
    dev_tp, dev_desc,      \* its tail, and the descriptor it works on
    fetched, dev_data      \* descriptors fetched, the last word read

test == <<pc, held, test_count, first_word>>
ring == <<hp, cached_tp, write_index, skb, desc>>
device == <<dev_tp, dev_desc, fetched, dev_data>>
vars == <<test, ring, enabled, hp_reg, tp_mem, device>>

Holding(r) == Contains(held, r)

Init ==
    /\ pc = "config" /\ held = <<>> /\ test_count = 0 /\ first_word = 0
    /\ hp = 0 /\ cached_tp = 0 /\ write_index = 0 /\ skb = {}
    /\ desc = [o \in Offsets |-> 0]
    /\ enabled = FALSE /\ hp_reg = 0 /\ tp_mem = 0
    /\ dev_tp = 0 /\ dev_desc = Idle /\ fetched = 0 /\ dev_data = <<0, 0>>
-----------------------------------------------------------------------------
\* Where the test goes once it has acquired resource r.
After(r) ==
    CASE r = "config" -> "ring"
      [] r = "ring"   -> "setup"
      [] r = "data"   -> "skb"
      [] r = "skb"    -> "map"
      [] r = "map"    -> "write"

\* kmemdup of the configuration, alloc_pipe, kzalloc of the data, dev_alloc_skb
\* and dma_map_single, which succeed, or fail and start the release.
Acquire ==
    /\ \E r \in ToSet(Resources) :
         /\ pc = r
         /\ \/ held' = Append(held, r) /\ pc' = After(r)
            \/ pc' = "release" /\ UNCHANGED held
    /\ UNCHANGED <<test_count, first_word, ring, enabled, hp_reg, tp_mem, device>>

\* init_ring: srng_setup clears the pointers and enables the ring last.
Setup ==
    /\ pc = "setup" /\ pc' = "data"
    /\ hp' = 0 /\ cached_tp' = 0 /\ write_index' = 0
    /\ desc' = [o \in Offsets |-> 0]
    /\ hp_reg' = 0 /\ tp_mem' = 0 /\ dev_tp' = 0
    /\ enabled' = TRUE
    /\ UNCHANGED <<held, test_count, first_word, skb, dev_desc, fetched, dev_data>>

\* Mutant: the number is only written once the packet is sent.
WriteLate ==
    /\ pc = "write"
    /\ pc' = IF test_count = Count THEN "sleep" ELSE "begin"
    /\ first_word' = IF test_count = 0 THEN 0 ELSE test_count - 1
    /\ UNCHANGED <<held, test_count, ring, enabled, hp_reg, tp_mem, device>>

\* The loop of the test: put the number of the packet into the buffer.
Write ==
    /\ pc = "write"
    /\ pc' = IF test_count = Count THEN "sleep" ELSE "begin"
    /\ first_word' = IF test_count = Count THEN first_word ELSE test_count
    /\ UNCHANGED <<held, test_count, ring, enabled, hp_reg, tp_mem, device>>

\* test_send: access_begin reads the tail.
SendBegin ==
    /\ pc = "begin" /\ pc' = "fill"
    /\ cached_tp' = tp_mem
    /\ UNCHANGED <<held, test_count, first_word, hp, write_index, skb, desc,
                   enabled, hp_reg, tp_mem, device>>

\* Mutant: the slot is written without looking for room.
SendFillUnchecked ==
    /\ pc = "fill" /\ pc' = "sent"
    /\ desc' = [desc EXCEPT ![hp] = test_count]
    /\ hp' = SrcNext(hp, ES, RS)
    /\ skb' = skb \union {write_index}
    /\ write_index' = NextIndex(write_index, NEntries)
    /\ UNCHANGED <<held, test_count, first_word, cached_tp, enabled, hp_reg,
                   tp_mem, device>>

\* test_send: there is room, the descriptor and the skb slot are written.
SendFill ==
    /\ pc = "fill" /\ pc' = "sent"
    /\ NumFree(hp, cached_tp, ES, RS) >= 1
    /\ HasNextEntry(hp, cached_tp, ES, RS)
    /\ desc' = [desc EXCEPT ![hp] = test_count]
    /\ hp' = SrcNext(hp, ES, RS)
    /\ skb' = skb \union {write_index}
    /\ write_index' = NextIndex(write_index, NEntries)
    /\ UNCHANGED <<held, test_count, first_word, cached_tp, enabled, hp_reg,
                   tp_mem, device>>

\* Mutant: the test tries a full ring again instead of giving up.
SendFullRetry ==
    /\ pc = "fill"
    /\ \/ NumFree(hp, cached_tp, ES, RS) < 1
       \/ ~HasNextEntry(hp, cached_tp, ES, RS)
    /\ pc' = "begin"
    /\ UNCHANGED <<held, test_count, first_word, ring, enabled, hp_reg, tp_mem,
                   device>>

\* test_send: no room, -ENOBUFS.
SendFull ==
    /\ pc = "fill"
    /\ \/ NumFree(hp, cached_tp, ES, RS) < 1
       \/ ~HasNextEntry(hp, cached_tp, ES, RS)
    /\ pc' = "full"
    /\ UNCHANGED <<held, test_count, first_word, ring, enabled, hp_reg, tp_mem,
                   device>>

\* access_end publishes the head; the loop goes on, or ends after -ENOBUFS.
SendEnd ==
    /\ \/ pc = "sent" /\ pc' = "write" /\ test_count' = test_count + 1
       \/ pc = "full" /\ pc' = "release" /\ UNCHANGED test_count
    /\ hp_reg' = hp
    /\ UNCHANGED <<held, first_word, ring, enabled, tp_mem, device>>

\* msleep(100): the device may be done when it returns, or not.
Sleep ==
    /\ pc = "sleep" /\ pc' = "release"
    /\ UNCHANGED <<held, test_count, first_word, ring, enabled, hp_reg, tp_mem,
                   device>>

\* The labels err_free_dma, err_free_skb, err_free_data, err_clear_pipes and
\* err_clear_config: one after the other, down to the return.
Release ==
    /\ pc = "release"
    /\ IF held = <<>> THEN pc' = "done" /\ UNCHANGED held
                      ELSE held' = Front(held) /\ UNCHANGED pc
    /\ UNCHANGED <<test_count, first_word, ring, enabled, hp_reg, tp_mem, device>>
-----------------------------------------------------------------------------
(***************************************************************************)
(* The device (external): fetch a descriptor, read the buffer, write the   *)
(* tail back.                                                              *)
(***************************************************************************)
DevFetch ==
    /\ enabled /\ dev_desc = Idle /\ dev_tp # hp_reg
    /\ dev_desc' = IF Holding("ring") THEN desc[dev_tp] ELSE Garbage
    /\ dev_tp' = SrcNext(dev_tp, ES, RS)
    /\ fetched' = fetched + 1
    /\ UNCHANGED <<test, ring, enabled, hp_reg, tp_mem, dev_data>>

DevRead ==
    /\ dev_desc # Idle /\ dev_desc' = Idle
    /\ dev_data' = IF Holding("map") /\ dev_desc # Garbage
                     THEN <<dev_desc, first_word>> ELSE dev_data
    /\ UNCHANGED <<test, ring, enabled, hp_reg, tp_mem, dev_tp, fetched>>

DevWriteTp ==
    /\ enabled /\ tp_mem # dev_tp
    /\ tp_mem' = dev_tp
    /\ UNCHANGED <<test, ring, enabled, hp_reg, device>>

Test ==
    \/ Acquire \/ Setup \/ Write \/ SendBegin \/ SendFill \/ SendFull \/ SendEnd
    \/ Sleep \/ Release

Device == DevFetch \/ DevRead \/ DevWriteTp

Next == Test \/ Device

Spec == Init /\ [][Next]_vars

\* The thread that runs the probe goes on; nothing is asked of the device.
FairSpec == Spec /\ WF_vars(Test)
-----------------------------------------------------------------------------
\* Type invariant: pointers on entry boundaries, the resources a prefix of the
\* order in which they are acquired.
TypeOK ==
    /\ {hp, cached_tp, hp_reg, tp_mem, dev_tp} \subseteq Offsets
    /\ desc \in [Offsets -> 0 .. Count]
    /\ write_index \in Index /\ skb \subseteq Index
    /\ IsPrefix(held, Resources)
    /\ test_count \in 0 .. Count /\ first_word \in 0 .. Count
    /\ dev_desc \in {Idle, Garbage} \union 0 .. Count
    /\ fetched \in 0 .. Count /\ dev_data \in (0 .. Count) \X (0 .. Count)

\* The device fetches the descriptors in the order of the test_send calls, each
\* once: num_free and get_next_entry together keep the host from rewriting an
\* entry that the device has yet to fetch, however stale its cached tail is.
FetchedInOrder == dev_desc >= 0 => dev_desc = fetched - 1

\* All packets share one buffer, so that the device may read the number of a
\* later packet, but never of an earlier one.
NeverOlderData ==
    dev_data[1] <= dev_data[2] /\ dev_data[2] <= test_count

\* The test returns and the probe goes on, even when the device never takes a
\* descriptor: a full ring ends the test.
Returns == <>(pc = "done")
-----------------------------------------------------------------------------
(***************************************************************************)
(* The inductive invariant, in entry numbers.  Going round the ring from   *)
(* the tail that the host has cached one meets the tail that the device    *)
(* wrote back last, its own tail, the head it was told, and write_index.   *)
(* The counters of packets measure the distances between the last three.   *)
(***************************************************************************)
Cached == cached_tp \div ES
Back == tp_mem \div ES
DevIndex == dev_tp \div ES
Published == hp_reg \div ES

\* Descriptors that test_send has written.
Filled == test_count + (IF pc = "sent" THEN 1 ELSE 0)

\* What the test holds on its way to label l.
Depth(l) ==
    CASE l = "config" -> 0 [] l = "ring" -> 1 [] l \in {"setup", "data"} -> 2
      [] l = "skb" -> 3 [] l = "map" -> 4 [] OTHER -> 5

InvTest ==
    /\ pc \in {"config", "ring", "setup", "data", "skb", "map", "write", "begin",
              "fill", "sent", "full", "sleep", "release", "done"}
    /\ pc \in {"config", "ring", "setup"} => ~enabled /\ fetched = 0
    /\ pc \in {"config", "ring", "setup", "data", "skb", "map"} => test_count = 0
    /\ pc \in {"begin", "fill", "sent", "full"} => test_count < Count
    /\ \E n \in 0 .. 5 : held = SubSeq(Resources, 1, n)
    /\ pc \in {"release", "done"} \/ held = SubSeq(Resources, 1, Depth(pc))

InvPointers ==
    /\ hp = ES * write_index
    /\ {Cached, Back, DevIndex, Published} \subseteq Index
    /\ cached_tp = ES * Cached /\ tp_mem = ES * Back
    /\ dev_tp = ES * DevIndex /\ hp_reg = ES * Published

InvOrder ==
    /\ Dist(Cached, Back, NEntries) <= Dist(Cached, DevIndex, NEntries)
    /\ Dist(Cached, DevIndex, NEntries) <= Dist(Cached, write_index, NEntries)
    /\ fetched + Dist(DevIndex, Published, NEntries) = test_count
    /\ fetched + Dist(DevIndex, write_index, NEntries) = Filled

InvEntries ==
    \A i \in Index :
        LET k == Dist(DevIndex, i, NEntries)
        IN  fetched + k < Filled => desc[ES * i] = fetched + k

\* The number in the buffer is that of the packet, or of the one before it
\* until the loop writes it.
InvWord ==
    /\ test_count <= first_word + 1 /\ first_word <= test_count
    /\ pc \in {"begin", "fill", "sent", "full"} => first_word = test_count

IInv ==
    /\ TypeOK /\ InvTest /\ InvPointers /\ InvOrder /\ InvEntries /\ InvWord
    /\ FetchedInOrder /\ NeverOlderData
=============================================================================
