------------------------------- MODULE RxFifo -------------------------------
(***************************************************************************)
(* What the receive path promises, without rings, pointers, descriptors,   *)
(* locks or interrupts: buffers go round a queue.  The driver posts empty   *)
(* buffers, the device fills them in the order they were posted, and the    *)
(* driver receives them in that order, each exactly once.                   *)
(***************************************************************************)
EXTENDS Naturals, Sequences, Functions

CONSTANTS
    Bufs,      \* the socket buffers
    NoBuf,     \* no buffer
    Capacity   \* buffers that may be on the rings at a time

VARIABLES
    empty,     \* posted, in the order the device will fill them
    full,      \* filled, in the order they will be received
    out        \* the buffer the driver is receiving

vars == <<empty, full, out>>

Init == empty = <<>> /\ full = <<>> /\ out = NoBuf

\* The driver posts a buffer that is nowhere else.
PostBuf ==
    /\ Len(empty) + Len(full) < Capacity
    /\ \E b \in Bufs \ (Range(empty) \union Range(full) \union {out}) :
           empty' = Append(empty, b)
    /\ UNCHANGED <<full, out>>

\* The device fills the oldest buffer.
Fill ==
    /\ empty # <<>>
    /\ full' = Append(full, Head(empty))
    /\ empty' = Tail(empty)
    /\ UNCHANGED out

\* The driver takes the oldest filled buffer.
Receive ==
    /\ full # <<>> /\ out = NoBuf
    /\ out' = Head(full)
    /\ full' = Tail(full)
    /\ UNCHANGED empty

\* It has passed the frame on, or dropped it.
Handled ==
    /\ out # NoBuf
    /\ out' = NoBuf
    /\ UNCHANGED <<empty, full>>

Next == PostBuf \/ Fill \/ Receive \/ Handled

Spec == Init /\ [][Next]_vars
=============================================================================
