----------------------------- MODULE PortLease -----------------------------
(***************************************************************************)
(* What the connection tracker promises its callers, without its tables,   *)
(* cursor or clock: every flow holds at most one port, no port is held by  *)
(* two flows, the reserved port is never handed out, and a pinned lease    *)
(* ends only when it is released by name.                                  *)
(***************************************************************************)
CONSTANTS Flows, Ports, ReservedPort, NoPort

VARIABLES
    lease,   \* flow -> the port it holds, or NoPort
    pinned   \* the held ports that do not lapse

leaseVars == <<lease, pinned>>

Held(p) == \E f \in Flows : lease[f] = p

Init == lease = [f \in Flows |-> NoPort] /\ pinned = {}

Grant(f, p) ==
    /\ lease[f] = NoPort
    /\ p # ReservedPort
    /\ ~Held(p)
    /\ lease' = [lease EXCEPT ![f] = p]
    /\ UNCHANGED pinned

Pin(p) ==
    /\ Held(p)
    /\ pinned' = pinned \cup {p}
    /\ UNCHANGED lease

\* The leases of the ports in S end.
End(S) == lease' = [f \in Flows |-> IF lease[f] \in S THEN NoPort ELSE lease[f]]

Release(p) == End({p}) /\ pinned' = pinned \ {p}

Lapse(S) == S \cap pinned = {} /\ End(S) /\ UNCHANGED pinned

Next ==
    \/ \E f \in Flows, p \in Ports : Grant(f, p)
    \/ \E p \in Ports : Pin(p) \/ Release(p)
    \/ \E S \in SUBSET Ports : Lapse(S)

Spec == Init /\ [][Next]_leaseVars

=============================================================================
