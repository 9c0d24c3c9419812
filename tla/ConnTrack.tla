----------------------------- MODULE ConnTrack -----------------------------
(***************************************************************************)
(* internal/engine/conntrack.go: the table that leases one loopback port   *)
(* to every hijacked TCP flow.                                             *)
(*                                                                         *)
(* The keys of ct.entries and ct.active are ("127.0.0.1", port) for every  *)
(* caller that can find an entry, so a key is a port here.  A flow is the  *)
(* original four-tuple.  Every public method is one critical section of    *)
(* ct.mu and one action below.                                             *)
(***************************************************************************)
EXTENDS Integers

CONSTANTS
    Flows,         \* original four-tuples (OrigFlowKey)
    NoFlow,        \* an absent entry
    MinPort,       \* mappedPortMin
    MaxPort,       \* mappedPortMax
    ReservedPort   \* ct.reservedPort, the port the TProxy listens on

ASSUME TrackerAssumption ==
    /\ NoFlow \notin Flows
    /\ MinPort \in Nat \ {0}
    /\ MaxPort \in Nat
    /\ MinPort <= MaxPort
    /\ ReservedPort \in Nat

NoPort == 0
Ports == MinPort .. MaxPort
Allocatable == Ports \ {ReservedPort}

VARIABLES
    entries,    \* port -> the flow it is leased to
    orig,       \* flow -> the port leased to it (the reverse index)
    active,     \* ports a TProxy handler has activated
    expired,    \* leased ports whose CreatedAt is more than ttl ago
    nextPort,   \* the allocation cursor
    lessee      \* history: the first flow ever to lease a port

trackerVars == <<entries, orig, active, expired, nextPort, lessee>>

TrackerTypeOK ==
    /\ entries \in [Ports -> Flows \cup {NoFlow}]
    /\ orig \in [Flows -> Ports \cup {NoPort}]
    /\ active \subseteq Ports
    /\ expired \subseteq Ports
    /\ nextPort \in Ports
    /\ lessee \in [Ports -> Flows \cup {NoFlow}]

TrackerInit ==
    /\ entries = [p \in Ports |-> NoFlow]
    /\ orig = [f \in Flows |-> NoPort]
    /\ active = {}
    /\ expired = {}
    /\ nextPort = MinPort
    /\ lessee = [p \in Ports |-> NoFlow]

HasMapped(p) == p \in Ports /\ entries[p] # NoFlow

(***************************************************************************)
(* Set: reuse the port of a flow that has one, otherwise take the first    *)
(* free port at or after the cursor, otherwise report exhaustion.          *)
(***************************************************************************)
Registered(f) == orig[f] # NoPort /\ entries[orig[f]] # NoFlow

Free == {p \in Allocatable : entries[p] = NoFlow}

\* How many ports the search loop tries before it reaches p.
Distance(p) ==
    IF p >= nextPort THEN p - nextPort ELSE p - nextPort + (MaxPort - MinPort + 1)

\* MISTAKE: the search starts at the bottom of the pool, not at the cursor.
LowestFree(p) == p \in Free /\ \A q \in Free : p <= q

FirstFree(p) == p \in Free /\ \A q \in Free : Distance(p) <= Distance(q)

\* MISTAKE: the cursor runs off the end of the pool, or never moves on.
AfterUnwrapped(p) == p + 1
AfterRewound(p) == MinPort

After(p) == IF p = MaxPort THEN MinPort ELSE p + 1

Reuse(f, p) ==
    /\ Registered(f)
    /\ p = orig[f]
    /\ UNCHANGED trackerVars

Lease(f, p) ==
    /\ ~Registered(f)
    /\ FirstFree(p)
    /\ entries' = [entries EXCEPT ![p] = f]
    /\ orig' = [orig EXCEPT ![f] = p]
    /\ expired' = expired \ {p}
    /\ nextPort' = After(p)
    /\ lessee' = [lessee EXCEPT ![p] = IF @ = NoFlow THEN f ELSE @]
    /\ UNCHANGED active

\* The whole circle was tried: the cursor is back where it was.
Exhausted(f, p) ==
    /\ ~Registered(f)
    /\ Free = {}
    /\ p = NoPort
    /\ orig' = [orig EXCEPT ![f] = NoPort]
    /\ UNCHANGED <<entries, active, expired, nextPort, lessee>>

\* ct.Set(f) returns p; NoPort stands for (0, false).
Set(f, p) == Reuse(f, p) \/ Lease(f, p) \/ Exhausted(f, p)

Activate(p) ==
    /\ active' = IF entries[p] # NoFlow THEN active \cup {p} ELSE active
    /\ UNCHANGED <<entries, orig, expired, nextPort, lessee>>

\* MISTAKE: the index records of removed entries are left behind.
DropKeepsIndex(S) ==
    /\ entries' = [p \in Ports |-> IF p \in S THEN NoFlow ELSE entries[p]]
    /\ expired' = expired \ S
    /\ UNCHANGED <<orig, nextPort, lessee>>

\* Remove the entries of S and the index records that point back at them.
Drop(S) ==
    /\ entries' = [p \in Ports |-> IF p \in S THEN NoFlow ELSE entries[p]]
    /\ orig' = [f \in Flows |->
                  IF orig[f] \in S /\ entries[orig[f]] = f THEN NoPort ELSE orig[f]]
    /\ expired' = expired \ S
    /\ UNCHANGED <<nextPort, lessee>>

\* MISTAKE: Delete forgets ct.active.
DeleteKeepsPin(p) ==
    /\ Drop({p})
    /\ UNCHANGED active

Delete(p) ==
    /\ Drop({p})
    /\ active' = active \ {p}

\* MISTAKE: the collector ignores ct.active.
CollectableWhenPinned == {p \in Ports : entries[p] # NoFlow /\ p \in expired}

\* The ports one tick of startGC removes.
Collectable == {p \in Ports : entries[p] # NoFlow /\ p \in expired /\ p \notin active}

GC ==
    /\ Collectable # {}
    /\ Drop(Collectable)
    /\ UNCHANGED active

\* Time: the entry of p becomes older than the TTL.
Expire(p) ==
    /\ entries[p] # NoFlow
    /\ p \notin expired
    /\ expired' = expired \cup {p}
    /\ UNCHANGED <<entries, orig, active, nextPort, lessee>>

TrackerNext ==
    \/ \E f \in Flows, p \in Ports \cup {NoPort} : Set(f, p)
    \/ \E p \in Ports : Activate(p) \/ Delete(p) \/ Expire(p)
    \/ GC

TrackerSpec == TrackerInit /\ [][TrackerNext]_trackerVars

-----------------------------------------------------------------------------
(***************************************************************************)
(* Properties                                                              *)
(***************************************************************************)

(* The two indexes describe one relation: a flow has a port exactly when   *)
(* that port is leased to the flow, so no flow ever holds two ports and no *)
(* index record outlives its entry, whatever mix of Set, Delete and GC ran *)
(* (the delete-if-it-is-still-mine tests of Delete and startGC).           *)
IndexAgrees ==
    \A f \in Flows, p \in Ports : orig[f] = p <=> entries[p] = f

(* Only leased ports are pinned, and the listener's own port is never      *)
(* leased: a pin left behind by Delete would shield the port's next tenant *)
(* from the collector.                                                     *)
PinsAreLeased ==
    /\ \A p \in active : entries[p] # NoFlow
    /\ ReservedPort \in Ports => entries[ReservedPort] = NoFlow

(* Some allocatable port has never been leased. *)
FirstLap == \E p \in Allocatable : lessee[p] = NoFlow

(* The cursor keeps a released port out of use for as long as it can: as   *)
(* long as some port has never been used, every leased port is held by its *)
(* first tenant.  The policy table caches ports without their flow, so a   *)
(* second tenant is what makes a cached port dangerous.                    *)
NoEarlyRecycling ==
    FirstLap => \A p \in Ports : entries[p] \in {NoFlow, lessee[p]}

(* The tracker keeps the promises of PortLease under the mapping that      *)
(* reads the lease of a flow in ct.orig and the pins in ct.active: a pinned *)
(* lease ends only by Delete, and the collector's work is a lapse.         *)
Leases == INSTANCE PortLease WITH lease <- orig, pinned <- active
ImplementsLeases == Leases!Spec

=============================================================================
