------------------------------ MODULE HalSrng ------------------------------
(***************************************************************************)
(* Pointer arithmetic of the "srng" shared rings of wireless_hal.c.        *)
(*                                                                         *)
(* A ring is an array of entries of es 32-bit words, rs = es * nentries    *)
(* words long.  The head pointer hp and the tail pointer tp are word       *)
(* offsets into it.  A SRC ring is filled by the host (hp) and drained by  *)
(* the device (tp); a DST ring the other way round.                        *)
(***************************************************************************)
EXTENDS Integers

\* Mutant: the end of the ring is missed.
SrcNextUnwrapped(hp, es, rs) == hp + es

\* Where src_get_next_entry moves hp: the next entry, modulo the ring.
SrcNext(hp, es, rs) == (hp + es) % rs

\* Mutant: the end of the ring is missed.
DstNextUnwrapped(tp, es, rs) == tp + es

\* Where dst_get_next_entry moves tp: the next entry, reset at the end.
DstNext(tp, es, rs) == IF tp + es = rs THEN 0 ELSE tp + es

\* wireless_simu_hal_srng_src_num_free: the entries the host may still fill.
\* One entry always stays empty, so that hp = tp means an empty ring.
NumFree(hp, tp, es, rs) ==
    IF tp > hp THEN ((tp - hp) \div es) - 1
               ELSE ((rs - hp + tp) \div es) - 1

\* src_get_next_entry finds an entry unless the next one is the cached tail.
HasNextEntry(hp, tp, es, rs) == SrcNext(hp, es, rs) # tp

\* (i + 1) & nentries_mask.  alloc_pipe rounds nentries up to a power of two,
\* so that the mask is the remainder.
NextIndex(i, nentries) == (i + 1) % nentries

\* Steps forward from a to b around a ring of n.
Dist(a, b, n) == IF b >= a THEN b - a ELSE b - a + n
=============================================================================
