------------------------------- MODULE TProxy -------------------------------
(***************************************************************************)
(* internal/engine/tproxy.go: the listener that hijacked packets are       *)
(* redirected to and the goroutine that serves each accepted connection,   *)
(* as far as they touch the connection tracker.  What is copied between    *)
(* the two sockets of a relay is left out; that it ends, and how, is not.  *)
(***************************************************************************)
EXTENDS ConnTrack

CONSTANT Handlers   \* goroutines that run handleConn

VARIABLES
    listen,    \* port -> what the kernel holds for a connection from that port
    hpc,       \* handler -> where it is in handleConn
    hport,     \* handler -> srcPort, the mapped port of its connection
    htarget    \* handler -> target, the flow tracker.Get returned

tproxyVars == <<listen, hpc, hport, htarget>>

TProxyTypeOK ==
    /\ listen \in [Ports -> {"none", "syn", "ready"}]
    /\ hpc \in [Handlers -> {"idle", "accepted", "found", "running", "broken", "closing"}]
    /\ hport \in [Handlers -> Ports \cup {NoPort}]
    /\ htarget \in [Handlers -> Flows \cup {NoFlow}]

TProxyInit ==
    /\ listen = [p \in Ports |-> "none"]
    /\ hpc = [h \in Handlers |-> "idle"]
    /\ hport = [h \in Handlers |-> NoPort]
    /\ htarget = [h \in Handlers |-> NoFlow]

\* The accepted socket is open until conn.Close: a relay error closes it
\* before the deferred calls run, every other return after them.
Connected(p) ==
    \E h \in Handlers : hport[h] = p /\ hpc[h] \in {"accepted", "found", "running", "closing"}

\* A segment redirected to the listener from p, as the kernel's TCP sees it.
Deliver(p, seg) ==
    listen' = [listen EXCEPT ![p] =
        IF Connected(p) THEN @
        ELSE IF seg = "syn" /\ @ = "none" THEN "syn"
        ELSE IF seg # "syn" /\ @ = "syn" THEN "ready" ELSE @]

\* The handshake with the listener times out or is reset.
Abandon(p) ==
    /\ listen[p] = "syn"
    /\ listen' = [listen EXCEPT ![p] = "none"]
    /\ UNCHANGED <<hpc, hport, htarget, trackerVars>>

Accept(h, p) ==
    /\ hpc[h] = "idle"
    /\ listen[p] = "ready"
    /\ listen' = [listen EXCEPT ![p] = "none"]
    /\ hpc' = [hpc EXCEPT ![h] = "accepted"]
    /\ hport' = [hport EXCEPT ![h] = p]
    /\ UNCHANGED <<htarget, trackerVars>>

\* handleConn: tracker.Get
LookupTarget(h) ==
    /\ hpc[h] = "accepted"
    /\ htarget' = [htarget EXCEPT ![h] = entries[hport[h]]]
    /\ hpc' = [hpc EXCEPT ![h] = IF HasMapped(hport[h]) THEN "found" ELSE "closing"]
    /\ UNCHANGED <<listen, hport, trackerVars>>

\* handleConn: tracker.Activate; the deferred Delete is now certain to run.
PinTarget(h) ==
    /\ hpc[h] = "found"
    /\ Activate(hport[h])
    /\ hpc' = [hpc EXCEPT ![h] = "running"]
    /\ UNCHANGED <<listen, hport, htarget>>

\* MISTAKE: after a relay error the deferred tracker.Delete is missing.
RelayErrorKeepsLease(h) ==
    /\ hpc[h] = "running"
    /\ hpc' = [hpc EXCEPT ![h] = "closing"]
    /\ UNCHANGED <<listen, hport, htarget, trackerVars>>

\* An error of either relay: both sockets are closed on the spot.
RelayError(h) ==
    /\ hpc[h] = "running"
    /\ hpc' = [hpc EXCEPT ![h] = "broken"]
    /\ UNCHANGED <<listen, hport, htarget, trackerVars>>

\* No upstream, a failed replay, or both directions at EOF: the deferred
\* tracker.Delete runs first, the deferred conn.Close after it.
Return(h) ==
    /\ hpc[h] = "running"
    /\ Delete(hport[h])
    /\ hpc' = [hpc EXCEPT ![h] = "closing"]
    /\ UNCHANGED <<listen, hport, htarget>>

Done(h) ==
    /\ hpc' = [hpc EXCEPT ![h] = "idle"]
    /\ hport' = [hport EXCEPT ![h] = NoPort]
    /\ htarget' = [htarget EXCEPT ![h] = NoFlow]
    /\ UNCHANGED listen

Unwind(h) ==
    /\ hpc[h] = "broken"
    /\ Delete(hport[h])
    /\ Done(h)

CloseConn(h) ==
    /\ hpc[h] = "closing"
    /\ Done(h)
    /\ UNCHANGED trackerVars

\* The steps a handler takes by itself; a relay ends when its peers end it.
Progress(h) == LookupTarget(h) \/ PinTarget(h) \/ Unwind(h) \/ CloseConn(h)

TProxyNext ==
    \/ \E p \in Ports : Abandon(p)
    \/ \E h \in Handlers, p \in Ports : Accept(h, p)
    \/ \E h \in Handlers : Progress(h) \/ RelayError(h) \/ Return(h)

-----------------------------------------------------------------------------
(* Properties                                                              *)

(* Every pin has a handler that will remove it: the collector skips active *)
(* ports, so a pin without one would hold its port forever.                *)
NoOrphanPin ==
    \A p \in active : \E h \in Handlers : hport[h] = p /\ hpc[h] \in {"running", "broken"}

=============================================================================
