-------------------------- MODULE ConnTrackProofs --------------------------
(***************************************************************************)
(* What conntrack.go keeps true for every pool, listener port and set of   *)
(* flows.  The proofs are about TrackerNext alone, so they carry over to   *)
(* every module whose steps refine it.                                     *)
(***************************************************************************)
EXTENDS ConnTrack, TLAPS

(***************************************************************************)
(* The inductive invariant.  Before the first wrap the cursor divides the  *)
(* pool: what is below it has had a tenant, what is above it has not.      *)
(***************************************************************************)
CursorDivides ==
    FirstLap => \A q \in Allocatable : lessee[q] = NoFlow <=> q >= nextPort

TenantsRecorded == \A p \in Ports : entries[p] # NoFlow => lessee[p] # NoFlow

TrackerInv ==
    /\ TrackerTypeOK
    /\ IndexAgrees
    /\ PinsAreLeased
    /\ CursorDivides
    /\ TenantsRecorded
    /\ NoEarlyRecycling

-----------------------------------------------------------------------------
(* The search of Set.                                                      *)

\* Below the wrap, the first free port is at or after the cursor, and
\* nothing free lies between.
LEMMA FirstFreeAhead ==
    ASSUME TrackerTypeOK,
           NEW p \in Ports, FirstFree(p),
           NEW q \in Free, q >= nextPort
    PROVE  /\ nextPort <= p /\ p <= q
           /\ \A r \in Free : r >= nextPort => p <= r
<1>1. p \in Nat /\ q \in Nat /\ nextPort \in Nat /\ q <= MaxPort /\ MinPort <= p
  BY TrackerAssumption DEF TrackerTypeOK, Free, Allocatable, Ports
<1>2. \A r \in Free : r \in Int /\ Distance(p) <= Distance(r)
  BY TrackerAssumption DEF FirstFree, Free, Allocatable, Ports
<1>3. \A r \in Free : r >= nextPort => Distance(r) = r - nextPort
  BY DEF Distance
<1>4. p >= nextPort
  <2>1. SUFFICES ASSUME p < nextPort PROVE FALSE
    BY <1>1
  <2>2. Distance(p) = p - nextPort + (MaxPort - MinPort + 1)
    BY <1>1, <2>1 DEF Distance
  <2> QED
    BY <1>1, <1>2, <1>3, <2>2, TrackerAssumption
<1>5. Distance(p) = p - nextPort
  BY <1>4 DEF Distance
<1> QED
  BY <1>1, <1>2, <1>3, <1>4, <1>5

-----------------------------------------------------------------------------
(* One lemma per operation.                                                *)

LEMMA InitInv == TrackerInit => TrackerInv
BY TrackerAssumption DEF TrackerInit, TrackerInv, TrackerTypeOK, IndexAgrees, PinsAreLeased,
   CursorDivides, TenantsRecorded, NoEarlyRecycling, FirstLap, Allocatable, Ports, NoPort

LEMMA LeaseInv ==
    ASSUME TrackerInv, NEW f \in Flows, NEW p \in Ports, Lease(f, p)
    PROVE  TrackerInv'
<1> USE DEF TrackerInv
<1>1. p \in Allocatable /\ entries[p] = NoFlow
  BY DEF Lease, FirstFree, Free
<1>2. p # NoPort
  BY TrackerAssumption DEF Ports, NoPort
<1>3. TrackerTypeOK'
  BY TrackerAssumption DEF TrackerTypeOK, Lease, After, Ports
<1>4. orig[f] = NoPort /\ \A q \in Ports : entries[q] # f
  <2>1. orig[f] \in Ports => entries[orig[f]] = f
    BY DEF IndexAgrees
  <2>2. orig[f] = NoPort
    BY <2>1, TrackerAssumption DEF Lease, Registered, TrackerTypeOK
  <2> QED
    BY <2>2, TrackerAssumption DEF IndexAgrees, Ports, NoPort
<1>5. IndexAgrees'
  <2>1. /\ entries' = [entries EXCEPT ![p] = f]
        /\ orig' = [orig EXCEPT ![f] = p]
    BY DEF Lease
  <2>2. ASSUME NEW g \in Flows, NEW q \in Ports
        PROVE  orig'[g] = q <=> entries'[q] = g
    <3>1. CASE g = f
      BY <1>4, <2>1, <3>1 DEF TrackerTypeOK
    <3>2. CASE g # f
      <4>1. orig[g] # p
        BY <1>1, TrackerAssumption DEF IndexAgrees
      <4> QED
        BY <2>1, <3>2, <4>1 DEF TrackerTypeOK, IndexAgrees
    <3> QED
      BY <3>1, <3>2
  <2> QED
    BY <2>2 DEF IndexAgrees
<1>6. PinsAreLeased'
  BY <1>1, TrackerAssumption DEF PinsAreLeased, TrackerTypeOK, Lease, Allocatable
<1>7. TenantsRecorded'
  BY TrackerAssumption DEF TenantsRecorded, TrackerTypeOK, Lease
<1>8. ASSUME FirstLap'
      PROVE  /\ \A q \in Allocatable : (lessee[q] = NoFlow <=> q >= nextPort)'
             /\ \A q \in Ports : (entries[q] \in {NoFlow, lessee[q]})'
  <2>1. PICK q \in Allocatable : lessee'[q] = NoFlow
    BY <1>8 DEF FirstLap
  <2>2. lessee' = [lessee EXCEPT ![p] = IF @ = NoFlow THEN f ELSE @] /\ lessee'[p] # NoFlow
    BY TrackerAssumption DEF Lease, TrackerTypeOK
  <2>3. q # p /\ lessee[q] = NoFlow /\ q \in Ports
    BY <2>1, <2>2 DEF TrackerTypeOK, Allocatable
  <2>4. FirstLap
    BY <2>1, <2>3 DEF FirstLap
  <2>5. \A r \in Allocatable : lessee[r] = NoFlow <=> r >= nextPort
    BY <2>4 DEF CursorDivides
  <2>6. \A r \in Allocatable : r >= nextPort => r \in Free
    BY <2>5 DEF TenantsRecorded, Free, Allocatable
  <2>7. /\ nextPort <= p /\ p <= q
        /\ \A r \in Free : r >= nextPort => p <= r
    <3>1. q \in Free /\ q >= nextPort
      BY <2>1, <2>3, <2>5, <2>6
    <3>2. FirstFree(p)
      BY DEF Lease
    <3> QED
      BY <3>1, <3>2, FirstFreeAhead
  <2>8. nextPort' = p + 1
    BY <2>3, <2>7, TrackerAssumption DEF Lease, After, Ports
  <2>9. lessee[p] = NoFlow
    BY <1>1, <2>5, <2>7
  <2>10. ASSUME NEW r \in Allocatable
         PROVE  lessee'[r] = NoFlow <=> r >= p + 1
    <3>1. r \in Ports /\ r \in Int /\ p \in Int /\ nextPort \in Int
      BY TrackerAssumption DEF Allocatable, Ports, TrackerTypeOK
    <3>2. CASE r = p
      BY <2>2, <3>1, <3>2
    <3>3. CASE r # p
      <4>1. lessee'[r] = lessee[r]
        BY <2>2, <3>1, <3>3 DEF TrackerTypeOK
      <4>2. r >= nextPort <=> r >= p + 1
        BY <2>6, <2>7, <3>1, <3>3
      <4> QED
        BY <2>5, <4>1, <4>2
    <3> QED
      BY <3>2, <3>3
  <2>11. \A r \in Ports : entries'[r] \in {NoFlow, lessee'[r]}
    BY <2>2, <2>4, <2>9 DEF NoEarlyRecycling, TrackerTypeOK, Lease
  <2> QED
    BY <2>8, <2>10, <2>11
<1>9. CursorDivides' /\ NoEarlyRecycling'
  BY <1>8 DEF CursorDivides, NoEarlyRecycling, Allocatable, Ports
<1> QED
  BY <1>3, <1>5, <1>6, <1>7, <1>9

LEMMA ExhaustedInv ==
    ASSUME TrackerInv, NEW f \in Flows, NEW p, Exhausted(f, p)
    PROVE  TrackerInv'
<1> USE DEF TrackerInv
<1>1. \A q \in Ports : q # NoPort
  BY TrackerAssumption DEF Ports, NoPort
<1>2. \A q \in Ports : entries[q] # f
  BY <1>1, TrackerAssumption DEF Exhausted, Registered, IndexAgrees
<1>3. TrackerTypeOK'
  BY DEF TrackerTypeOK, Exhausted
<1>4. IndexAgrees'
  BY <1>1, <1>2 DEF IndexAgrees, TrackerTypeOK, Exhausted
<1> QED
  BY <1>3, <1>4 DEF Exhausted, PinsAreLeased, CursorDivides, TenantsRecorded,
     NoEarlyRecycling, FirstLap, Allocatable

LEMMA ActivateInv ==
    ASSUME TrackerInv, NEW p \in Ports, Activate(p)
    PROVE  TrackerInv'
BY DEF TrackerInv, Activate, TrackerTypeOK, IndexAgrees, PinsAreLeased, CursorDivides,
   TenantsRecorded, NoEarlyRecycling, FirstLap, Allocatable

\* Delete and the collector: entries go, and nothing pinned loses its entry.
LEMMA DropInv ==
    ASSUME TrackerInv, NEW S \in SUBSET Ports, Drop(S),
           active' \subseteq active, active' \cap S = {}
    PROVE  TrackerInv'
<1> USE DEF TrackerInv
<1>1. \A q \in Ports : q # NoPort
  BY TrackerAssumption DEF Ports, NoPort
<1>2. TrackerTypeOK'
  BY DEF TrackerTypeOK, Drop
<1>3. IndexAgrees'
  BY <1>1, TrackerAssumption DEF IndexAgrees, TrackerTypeOK, Drop
<1>4. PinsAreLeased'
  BY DEF PinsAreLeased, TrackerTypeOK, Drop
<1>5. CursorDivides' /\ TenantsRecorded' /\ NoEarlyRecycling'
  BY DEF CursorDivides, TenantsRecorded, NoEarlyRecycling, FirstLap, Allocatable,
     TrackerTypeOK, Drop
<1> QED
  BY <1>2, <1>3, <1>4, <1>5

LEMMA ExpireInv ==
    ASSUME TrackerInv, NEW p \in Ports, Expire(p)
    PROVE  TrackerInv'
BY DEF TrackerInv, Expire, TrackerTypeOK, IndexAgrees, PinsAreLeased, CursorDivides,
   TenantsRecorded, NoEarlyRecycling, FirstLap, Allocatable

LEMMA StutterInv ==
    ASSUME TrackerInv, UNCHANGED trackerVars
    PROVE  TrackerInv'
BY DEF TrackerInv, trackerVars, TrackerTypeOK, IndexAgrees, PinsAreLeased, CursorDivides,
   TenantsRecorded, NoEarlyRecycling, FirstLap, Allocatable

LEMMA NextInv == TrackerInv /\ [TrackerNext]_trackerVars => TrackerInv'
<1> SUFFICES ASSUME TrackerInv, [TrackerNext]_trackerVars
             PROVE  TrackerInv'
  OBVIOUS
<1>1. ASSUME NEW f \in Flows, NEW p \in Ports \cup {NoPort}, Set(f, p)
      PROVE  TrackerInv'
  <2>1. CASE Reuse(f, p)
    BY <2>1, StutterInv DEF Reuse
  <2>2. CASE Lease(f, p)
    <3>1. p \in Ports
      BY <2>2 DEF Lease, FirstFree, Free, Allocatable
    <3> QED
      BY <2>2, <3>1, LeaseInv
  <2>3. CASE Exhausted(f, p)
    BY <2>3, ExhaustedInv
  <2> QED
    BY <1>1, <2>1, <2>2, <2>3 DEF Set
<1>2. ASSUME NEW p \in Ports, Activate(p)
      PROVE  TrackerInv'
  BY <1>2, ActivateInv
<1>3. ASSUME NEW p \in Ports, Delete(p)
      PROVE  TrackerInv'
  BY <1>3, DropInv DEF Delete
<1>4. ASSUME NEW p \in Ports, Expire(p)
      PROVE  TrackerInv'
  BY <1>4, ExpireInv
<1>5. CASE GC
  <2>1. Collectable \in SUBSET Ports /\ Collectable \cap active = {}
    BY DEF Collectable
  <2> QED
    BY <1>5, <2>1, DropInv DEF GC
<1>6. CASE UNCHANGED trackerVars
  BY <1>6, StutterInv
<1> QED
  BY <1>1, <1>2, <1>3, <1>4, <1>5, <1>6 DEF TrackerNext

THEOREM TrackerInvariant == TrackerSpec => []TrackerInv
BY InitInv, NextInv, PTL DEF TrackerSpec

-----------------------------------------------------------------------------
(* The theorems.                                                           *)

(* Every table has its type, in every reachable state. *)
THEOREM TrackerTypeCorrect == TrackerSpec => []TrackerTypeOK
<1>1. TrackerInv => TrackerTypeOK
  BY DEF TrackerInv
<1> QED
  BY <1>1, TrackerInvariant, PTL

(* ct.orig and ct.entries are one relation under every order of Set,       *)
(* Activate, Delete and the collector.                                     *)
THEOREM OneLeasePerFlow == TrackerSpec => []IndexAgrees
<1>1. TrackerInv => IndexAgrees
  BY DEF TrackerInv
<1> QED
  BY <1>1, TrackerInvariant, PTL

(* No pin is left on a free port, and the listener's port is never leased. *)
THEOREM NoStrayPin == TrackerSpec => []PinsAreLeased
<1>1. TrackerInv => PinsAreLeased
  BY DEF TrackerInv
<1> QED
  BY <1>1, TrackerInvariant, PTL

(* No port has a second tenant before every port has had a first. *)
THEOREM RoundRobin == TrackerSpec => []NoEarlyRecycling
<1>1. TrackerInv => NoEarlyRecycling
  BY DEF TrackerInv
<1> QED
  BY <1>1, TrackerInvariant, PTL

-----------------------------------------------------------------------------
(* The refinement of PortLease.                                            *)

LEMMA HeldIsLeased ==
    ASSUME TrackerInv, NEW p \in Ports
    PROVE  Leases!Held(p) <=> entries[p] # NoFlow
BY TrackerAssumption DEF TrackerInv, IndexAgrees, TrackerTypeOK, Leases!Held

LEMMA DropEndsLeases ==
    ASSUME TrackerInv, NEW S \in SUBSET Ports, Drop(S)
    PROVE  Leases!End(S)
<1>1. \A f \in Flows : orig[f] \in S => entries[orig[f]] = f
  BY DEF TrackerInv, IndexAgrees
<1> QED
  BY <1>1 DEF Drop, Leases!End

LEMMA StepImplements ==
    TrackerInv /\ [TrackerNext]_trackerVars => [Leases!Next]_(Leases!leaseVars)
<1> SUFFICES ASSUME TrackerInv, [TrackerNext]_trackerVars
             PROVE  Leases!Next \/ UNCHANGED <<orig, active>>
  BY DEF Leases!leaseVars
<1>1. ASSUME NEW f \in Flows, NEW p \in Ports \cup {NoPort}, Set(f, p)
      PROVE  Leases!Next \/ UNCHANGED <<orig, active>>
  <2>1. CASE Reuse(f, p)
    BY <2>1 DEF Reuse, trackerVars
  <2>2. CASE Lease(f, p)
    <3>1. p \in Ports /\ p # ReservedPort /\ entries[p] = NoFlow
      BY <2>2 DEF Lease, FirstFree, Free, Allocatable
    <3>2. orig[f] = NoPort
      BY <2>2, TrackerAssumption DEF Lease, Registered, TrackerInv, TrackerTypeOK, IndexAgrees
    <3>3. ~Leases!Held(p)
      BY <3>1, HeldIsLeased
    <3>4. Leases!Grant(f, p)
      BY <2>2, <3>1, <3>2, <3>3 DEF Leases!Grant, Lease
    <3> QED
      BY <3>1, <3>4 DEF Leases!Next
  <2>3. CASE Exhausted(f, p)
    <3>1. orig[f] = NoPort
      BY <2>3, TrackerAssumption DEF Exhausted, Registered, TrackerInv, TrackerTypeOK, IndexAgrees
    <3> QED
      BY <2>3, <3>1 DEF Exhausted, TrackerInv, TrackerTypeOK
  <2> QED
    BY <1>1, <2>1, <2>2, <2>3 DEF Set
<1>2. ASSUME NEW p \in Ports, Activate(p)
      PROVE  Leases!Next \/ UNCHANGED <<orig, active>>
  <2>1. CASE entries[p] = NoFlow
    BY <1>2, <2>1 DEF Activate
  <2>2. CASE entries[p] # NoFlow
    <3>1. Leases!Pin(p)
      BY <1>2, <2>2, HeldIsLeased DEF Activate, Leases!Pin
    <3> QED
      BY <3>1 DEF Leases!Next
  <2> QED
    BY <2>1, <2>2
<1>3. ASSUME NEW p \in Ports, Delete(p)
      PROVE  Leases!Next \/ UNCHANGED <<orig, active>>
  <2>1. Leases!Release(p)
    BY <1>3, DropEndsLeases DEF Delete, Leases!Release
  <2> QED
    BY <2>1 DEF Leases!Next
<1>4. ASSUME NEW p \in Ports, Expire(p)
      PROVE  Leases!Next \/ UNCHANGED <<orig, active>>
  BY <1>4 DEF Expire
<1>5. CASE GC
  <2>1. Collectable \in SUBSET Ports /\ Collectable \cap active = {}
    BY DEF Collectable
  <2>2. Leases!Lapse(Collectable)
    BY <1>5, <2>1, DropEndsLeases DEF GC, Leases!Lapse
  <2> QED
    BY <2>1, <2>2 DEF Leases!Next
<1>6. CASE UNCHANGED trackerVars
  BY <1>6 DEF trackerVars
<1> QED
  BY <1>1, <1>2, <1>3, <1>4, <1>5, <1>6 DEF TrackerNext

(* The tracker implements the lease service of PortLease: whatever is      *)
(* true of leases and pins there is true of ct.orig and ct.active.         *)
THEOREM TrackerImplementsLeases == TrackerSpec => ImplementsLeases
<1>1. TrackerInit => Leases!Init
  BY DEF TrackerInit, Leases!Init
<1> QED
  BY <1>1, StepImplements, TrackerInvariant, PTL DEF TrackerSpec, ImplementsLeases, Leases!Spec

=============================================================================
