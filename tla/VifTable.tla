------------------------------ MODULE VifTable ------------------------------
(***************************************************************************)
(* The mac80211 callbacks start, stop, add_interface and configure_filter: *)
(* the table of interfaces and the mutex they share.                       *)
(*                                                                         *)
(* Their caller is mac80211 (external).  It opens and closes interfaces    *)
(* one at a time: start before the first, add_interface unless the         *)
(* interface is a passive monitor, stop when the last one is gone or when  *)
(* the first one cannot be added.  The filter is configured from a work    *)
(* item of its own.                                                        *)
(***************************************************************************)
EXTENDS Naturals, FiniteSets

CONSTANTS
    Stations, APs,   \* interfaces by type, the two that an add_interface sees
    Monitors,        \* passive monitors, opened without add_interface
    NoVif,
    MaxVif,          \* WIRELESS_MAX_NUM_VIF (4)
    MaxRefused       \* bound: openings that fail between a start and a stop

ASSUME VifAssumption == MaxVif \in Nat \ {0} /\ MaxRefused \in Nat

Ifaces == Stations \union APs \union Monitors
Slots == 0 .. MaxVif - 1

VARIABLES
    vif,          \* priv->vif
    mutex,        \* who holds mac_conf_mutex
    pc, cur,      \* mac80211 opening or closing interface cur
    up,           \* open interfaces
    filter,       \* the work that configures the filter is pending
    refused,      \* openings that failed since start
    busy          \* some add_interface has returned -EBUSY

vars == <<vif, mutex, pc, cur, up, filter, refused, busy>>

Init ==
    /\ vif = [s \in Slots |-> NoVif] /\ mutex = "none"
    /\ pc = "idle" /\ cur = NoVif /\ up = {}
    /\ filter = FALSE /\ refused = 0 /\ busy = FALSE

\* Mutant: the table is not cleared.
TableKept == vif

\* The loop of start and of stop over the table.
TableCleared == [s \in Slots |-> NoVif]

\* The test of add_interface on the type of the interface, as it is written.
Unsupported(i) == i \notin Stations \/ i \notin APs \/ i \notin Monitors
-----------------------------------------------------------------------------
\* mac80211 opens an interface.
Open ==
    /\ pc = "idle"
    /\ \E i \in Ifaces \ up :
         /\ i \notin Monitors => refused < MaxRefused
         /\ cur' = i
         /\ pc' = IF up = {} THEN "start" ELSE IF i \in Monitors THEN "opened" ELSE "add"
    /\ UNCHANGED <<vif, mutex, up, filter, refused, busy>>

\* wireless_mac80211_start.
Start ==
    /\ pc = "start" /\ pc' = IF cur \in Monitors THEN "opened" ELSE "add"
    /\ vif' = TableCleared
    /\ UNCHANGED <<mutex, cur, up, filter, refused, busy>>

Opened ==
    /\ pc = "opened" /\ pc' = "idle"
    /\ up' = up \union {cur} /\ cur' = NoVif /\ filter' = TRUE
    /\ UNCHANGED <<vif, mutex, refused, busy>>

\* wireless_mac80211_add_interface.
AddLock ==
    /\ pc = "add" /\ mutex = "none"
    /\ mutex' = "add" /\ pc' = "scan"
    /\ UNCHANGED <<vif, cur, up, filter, refused, busy>>

\* Mutant: an interface is stored and the mutex not given back.
AddStoreLocked ==
    /\ pc = "scan"
    /\ \E s \in Slots :
         /\ vif[s] = NoVif /\ \A r \in Slots : r < s => vif[r] # NoVif
         /\ vif' = [vif EXCEPT ![s] = cur]
    /\ pc' = IF Unsupported(cur) THEN "refused" ELSE "opened"
    /\ UNCHANGED <<mutex, cur, up, filter, refused, busy>>

\* The first free slot is taken before the type is looked at.
AddStore ==
    /\ pc = "scan"
    /\ \E s \in Slots :
         /\ vif[s] = NoVif /\ \A r \in Slots : r < s => vif[r] # NoVif
         /\ vif' = [vif EXCEPT ![s] = cur]
    /\ mutex' = "none"
    /\ pc' = IF Unsupported(cur) THEN "refused" ELSE "opened"
    /\ UNCHANGED <<cur, up, filter, refused, busy>>

\* Mutant: the search for a slot runs past the end of the table.
AddBusyPastEnd ==
    /\ pc = "scan" /\ \A s \in Slots : vif[s] # NoVif
    /\ vif' = [s \in 0 .. MaxVif |-> IF s = MaxVif THEN cur ELSE vif[s]]
    /\ mutex' = "none" /\ pc' = "refused"
    /\ UNCHANGED <<cur, up, filter, refused, busy>>

\* No slot is free: -EBUSY, and the mutex stays held.
AddBusy ==
    /\ pc = "scan" /\ \A s \in Slots : vif[s] # NoVif
    /\ pc' = "refused" /\ busy' = TRUE
    /\ UNCHANGED <<vif, mutex, cur, up, filter, refused>>

\* mac80211 reports the error, and stops a device that nobody uses.
Refused ==
    /\ pc = "refused" /\ pc' = IF up = {} THEN "stop" ELSE "idle"
    /\ cur' = NoVif /\ refused' = refused + 1
    /\ UNCHANGED <<vif, mutex, up, filter, busy>>

Close ==
    /\ pc = "idle"
    /\ \E i \in up : up' = up \ {i}
    /\ filter' = TRUE
    /\ pc' = IF up' = {} THEN "stop" ELSE "idle"
    /\ UNCHANGED <<vif, mutex, cur, refused, busy>>

\* wireless_mac80211_stop.
Stop ==
    /\ pc = "stop" /\ pc' = "idle"
    /\ vif' = TableCleared /\ refused' = 0
    /\ UNCHANGED <<mutex, cur, up, filter, busy>>

\* wireless_mac80211_configure_filter.
FilterLock ==
    /\ filter /\ mutex = "none"
    /\ filter' = FALSE /\ mutex' = "filter"
    /\ UNCHANGED <<vif, pc, cur, up, refused, busy>>

FilterUnlock ==
    /\ mutex = "filter" /\ mutex' = "none"
    /\ UNCHANGED <<vif, pc, cur, up, filter, refused, busy>>

Callback ==
    \/ Start \/ Opened \/ AddLock \/ AddStore \/ AddBusy \/ Refused \/ Stop

Next == Open \/ Callback \/ Close \/ FilterLock \/ FilterUnlock

\* The kernel's threads go on and its mutex is a queue.  Nobody has to open or
\* close an interface.
Spec ==
    /\ Init /\ [][Next]_vars
    /\ WF_vars(Callback) /\ SF_vars(AddLock)
    /\ SF_vars(FilterLock) /\ WF_vars(FilterUnlock)
-----------------------------------------------------------------------------
\* Type invariant.
TypeOK ==
    /\ vif \in [Slots -> Ifaces \union {NoVif}]
    /\ mutex \in {"none", "add", "filter"}
    /\ pc \in {"idle", "start", "opened", "add", "scan", "refused", "stop"}
    /\ cur \in Ifaces \union {NoVif} /\ up \subseteq Ifaces
    /\ filter \in BOOLEAN /\ busy \in BOOLEAN
    /\ refused \in 0 .. MaxRefused

Occupied == {s \in Slots : vif[s] # NoVif}

\* add_interface keeps the slot of every interface it refuses: with the refusals
\* since start the table fills up to its end, and only start and stop empty it, so
\* that it is empty when the last interface is gone.
SlotPerRefusal ==
    LET n == refused + (IF pc = "refused" THEN 1 ELSE 0)
    IN  /\ Cardinality(Occupied) = IF n < MaxVif THEN n ELSE MaxVif
        /\ pc = "idle" /\ up = {} => Occupied = {}

\* Every opening and closing comes to an end, until add_interface has returned
\* -EBUSY: that path keeps the mutex, which the next opening waits for.
OpeningEnds == (pc # "idle") ~> (pc = "idle" \/ busy)

\* A queued change of the filter is made: but for -EBUSY, add_interface gives
\* the mutex back, and the work that waits for it gets it.
FilterConfigured == filter ~> (mutex = "filter" \/ busy)
=============================================================================
