---------------------------- MODULE MCContention ----------------------------
(* Two clients compete for the mapped ports.  Bounded: connections opened  *)
(* in one behaviour, and leases, of which the first lap of the pool has    *)
(* one fewer than ports; and decisions without a port, which redirect      *)
(* nothing, do not grow old.                                               *)
EXTENDS MCPacketPath, FiniteSets

CONSTANT MaxOpens

VARIABLE opened

Opened == {f \in Flows : conn[f] = Closed /\ conn'[f] # Closed}

BoundedInit == Init /\ opened = 0

BoundedNext ==
    /\ Next
    /\ opened' = opened + Cardinality(Opened)
    /\ opened' <= MaxOpens
    /\ FirstLap'
    /\ dated' = {}

BoundedSpec == BoundedInit /\ [][BoundedNext]_<<vars, opened>>

=============================================================================
