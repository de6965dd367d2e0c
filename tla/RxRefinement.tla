---------------------------- MODULE RxRefinement ----------------------------
(***************************************************************************)
(* The refinement mapping from RxPipe to RxFifo.                           *)
(***************************************************************************)
EXTENDS RxPipe, Sequences

\* What the device can still fill: the buffer it holds, then the entries of
\* the dst ring from its tail to the head it was told.
PostedToDevice ==
    (IF dev_buf = NoBuf THEN <<>> ELSE <<dev_buf>>)
    \o [k \in 1 .. Dist(dev_tp, d_hp_reg, DstRS) \div DstES |->
            d_desc[(dev_tp + DstES * (k - 1)) % DstRS]]

\* What the device has announced and recv_next has not taken: the skbs from
\* sw_index to the head of the status ring.
Announced ==
    [k \in 1 .. Span(StatusHead) |-> skb[(sw_index + k - 1) % NEntries]]

\* The skb that the tasklet has taken and not yet passed on.
Taken == IF pc["tasklet"] \in {"took", "got"} THEN cur["tasklet"] ELSE NoBuf

Fifo == INSTANCE RxFifo WITH
    empty <- PostedToDevice,
    full <- Announced,
    out <- Taken,
    Capacity <- NEntries - 2

\* The rings, the pointers, the descriptors and the skb table together behave
\* as one queue of at most nentries - 2 buffers: the driver receives every
\* buffer once, in the order in which post_pipe handed them to the device.
RefinesFifo == Fifo!Spec
=============================================================================
