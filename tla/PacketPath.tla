----------------------------- MODULE PacketPath -----------------------------
(***************************************************************************)
(* internal/engine/windivert.go: the packet loop of the interceptor, and   *)
(* the composition of everything that runs beside it.                      *)
(*                                                                         *)
(* One goroutine receives the outbound TCP packets of this host, decides   *)
(* for each whether it goes to the network as it is, to the TProxy under a *)
(* mapped port, or nowhere.  Beside it run the tracker's collector, the    *)
(* policy sweep, the TProxy's handlers, and the settings handlers that     *)
(* replace the whitelist and the upstream address.  A packet is abstracted *)
(* to its flow and the flags the loop reads.                               *)
(***************************************************************************)
EXTENDS FlowPolicies, TProxy

CONSTANTS
    V6,           \* the flows that are IPv6
    Procs,        \* process names
    Unknown,      \* the answer of a process lookup that failed
    Whitelists,   \* the whitelists the settings page may submit
    Exemptions,   \* the sets of flows an upstream address may exempt
    Filtered      \* those the driver's filter, built once at the start, leaves out

ASSUME PathAssumption ==
    /\ V6 \subseteq Flows
    /\ Unknown \notin Procs
    /\ Whitelists # {} /\ \A W \in Whitelists : W \subseteq Procs
    /\ \A E \in Exemptions : E \subseteq Flows
    /\ Filtered \in Exemptions

VARIABLES
    rl,          \* the receive loop: where it is and the packet in hand
    out,         \* the packet this step re-injected
    whitelist,   \* Interceptor.whitelist
    exempt,      \* flows whose destination is Interceptor.proxy4
    conn         \* flow -> the client's TCP connection on that four-tuple

pathVars == <<rl, out, whitelist, exempt, conn>>
vars == <<trackerVars, policyVars, tproxyVars, pathVars>>

Segs == {"syn", "seg", "fin"}   \* pure SYN, neither SYN nor FIN/RST, FIN or RST

\* A route is a mapped port, or the packet as it is.
Direct == NoPort
Routes == Ports \cup {Direct}

Idle == [pc |-> "idle", flow |-> NoFlow, seg |-> "syn", port |-> NoPort]
Nothing == [flow |-> NoFlow, seg |-> "syn", via |-> Direct]

(***************************************************************************)
(* A client's connection.  reach: the routes its SYNs have taken; route:   *)
(* the one its handshake completed on; settled: a later segment of it has  *)
(* been sent as it is, by decision or before the interceptor started.      *)
(***************************************************************************)
Closed == [phase |-> "closed", owner |-> Unknown, reach |-> {}, route |-> Direct,
           settled |-> FALSE]

\* A connection older than the interceptor.
Earlier(p) ==
    [Closed EXCEPT !.phase = "open", !.owner = p, !.settled = TRUE]

Connections ==
    [phase : {"closed", "syn", "open", "closing"}, owner : Procs \cup {Unknown},
     reach : SUBSET Routes, route : Routes, settled : BOOLEAN]

PathTypeOK ==
    /\ rl \in [pc : {"idle", "decide", "register", "send"}, flow : Flows \cup {NoFlow},
               seg : Segs, port : Routes]
    /\ out \in [flow : Flows \cup {NoFlow}, seg : Segs \cup {"reply"}, via : Routes]
    /\ whitelist \subseteq Procs
    /\ exempt \subseteq Flows
    /\ conn \in [Flows -> Connections]

TypeOK == TrackerTypeOK /\ PolicyTypeOK /\ TProxyTypeOK /\ PathTypeOK

Init ==
    /\ TrackerInit /\ PolicyInit /\ TProxyInit
    /\ rl = Idle
    /\ out = Nothing
    /\ whitelist \in Whitelists
    /\ exempt = Filtered
    /\ conn \in [Flows -> {Closed} \cup {Earlier(p) : p \in Procs}]

-----------------------------------------------------------------------------
(* What becomes of the packet in hand.                                     *)

Sent(c, s, r) ==
    IF c.phase = "closed" THEN c
    ELSE [c EXCEPT !.phase = IF s = "fin" THEN "closing" ELSE @,
                   !.reach = IF s = "syn" THEN @ \cup {r} ELSE @]

Established(c, r) == [c EXCEPT !.phase = "open", !.route = r, !.reach = {}]

Settle(c, s, r) ==
    IF c.phase = "closed" THEN c
    ELSE [c EXCEPT !.settled = @ \/ (s # "syn" /\ r = Direct)]

\* Queue the packet for re-injection on route r, as the flow's decision has it.
Forward(f, s, r) ==
    /\ out' = [flow |-> f, seg |-> s, via |-> r]
    /\ conn' = [conn EXCEPT ![f] = Settle(Sent(@, s, r), s, r)]
    /\ IF r = Direct THEN UNCHANGED listen ELSE Deliver(r, s)

Discard == out' = Nothing /\ UNCHANGED <<conn, listen>>

Hold(pc, f, s, p) == rl' = [pc |-> pc, flow |-> f, seg |-> s, port |-> p]
Finish == rl' = Idle

Settings == <<whitelist, exempt>>
Goroutines == <<hpc, hport, htarget>>

-----------------------------------------------------------------------------
(***************************************************************************)
(* handlePacket: one packet of f with flags s, up to the point where it is *)
(* sent or the next shared structure is consulted.                         *)
(***************************************************************************)
Sends(f, s) ==
    IF s = "syn" THEN conn[f].phase = "syn" ELSE conn[f].phase \in {"open", "closing"}

Arrives(f, s) ==
    /\ rl = Idle
    /\ Sends(f, s)
    /\ UNCHANGED <<trackerVars, Goroutines, Settings>>

Known(f) == policy[f] # NoPolicy
Retry(f, s) == policy[f] = Undecided /\ s = "syn"
Exempt(f) == f \in (exempt \cup Filtered) \ V6

\* To the upstream proxy itself, or to the one of the start, which the filter
\* does not even capture: no decision is read or made.
ReceiveExempt(f, s) ==
    /\ Arrives(f, s)
    /\ Exempt(f)
    /\ out' = [flow |-> f, seg |-> s, via |-> Direct]
    /\ conn' = [conn EXCEPT ![f] = Sent(@, s, Direct)]
    /\ Finish
    /\ UNCHANGED <<policyVars, listen>>

\* A FIN or RST ends the decision and is itself sent as it is.
ReceiveFin(f) ==
    /\ Arrives(f, "fin")
    /\ ~Exempt(f)
    /\ PolicyDelete(f)
    /\ Forward(f, "fin", Direct)
    /\ Finish

\* The flow has a decision that this packet does not reopen.
ReceiveKnown(f, s) ==
    /\ Arrives(f, s)
    /\ ~Exempt(f)
    /\ s # "fin" /\ Known(f) /\ ~Retry(f, s)
    /\ \/ /\ policy[f].kind # "intercept"
          /\ Forward(f, s, Direct)
          /\ Finish
       \/ /\ policy[f].kind = "intercept" /\ f \in V6
          /\ Discard
          /\ Finish
       \/ /\ policy[f].kind = "intercept" /\ f \notin V6
          /\ HasMapped(policy[f].port)
          /\ Forward(f, s, policy[f].port) \/ Discard   \* calcAndSend may fail
          /\ Finish
       \/ /\ policy[f].kind = "intercept" /\ f \notin V6
          /\ ~HasMapped(policy[f].port)
          /\ Discard
          /\ Hold("register", f, s, NoPort)
    /\ UNCHANGED policyVars

\* The start of a connection, seen for the first time or retried.
ReceiveStart(f) ==
    /\ Arrives(f, "syn")
    /\ ~Exempt(f)
    /\ ~Known(f) \/ Retry(f, "syn")
    /\ IF Known(f) THEN PolicyDelete(f) ELSE UNCHANGED policyVars
    /\ Discard
    /\ Hold("decide", f, "syn", NoPort)

\* MISTAKE: any packet without a decision is taken for a start.
MidstreamDecides(f) ==
    /\ Arrives(f, "seg")
    /\ ~Exempt(f)
    /\ ~Known(f)
    /\ Discard
    /\ Hold("decide", f, "seg", NoPort)
    /\ UNCHANGED policyVars

\* Not a start and not known: the connection is older than the interceptor.
ReceiveMidstream(f) ==
    /\ Arrives(f, "seg")
    /\ ~Exempt(f)
    /\ ~Known(f)
    /\ PolicySet(f, Pass)
    /\ Forward(f, "seg", Direct)
    /\ Finish

Receive(f) ==
    \/ \E s \in Segs : ReceiveExempt(f, s) \/ ReceiveKnown(f, s)
    \/ ReceiveFin(f) \/ ReceiveStart(f) \/ ReceiveMidstream(f)

(***************************************************************************)
(* decideNewFlow: the owner of the four-tuple, if the table lookup and its *)
(* forced refresh find it, against the whitelist of this moment.           *)
(***************************************************************************)
Verdict(name) ==
    IF name = Unknown THEN Undecided
    ELSE IF name \in whitelist THEN Block ELSE Pass

Decide ==
    /\ rl.pc = "decide"
    /\ \E name \in {conn[rl.flow].owner, Unknown} :
          \/ /\ Verdict(name).kind = "intercept" /\ rl.flow \notin V6
             /\ Hold("register", rl.flow, rl.seg, NoPort)
             /\ Discard
             /\ UNCHANGED policyVars
          \/ /\ Verdict(name).kind = "intercept" /\ rl.flow \in V6
             /\ PolicySet(rl.flow, Block)
             /\ Discard
             /\ Finish
          \/ /\ Verdict(name).kind # "intercept"
             /\ PolicySet(rl.flow, Verdict(name))
             /\ Forward(rl.flow, rl.seg, Direct)
             /\ Finish
    /\ UNCHANGED <<trackerVars, Goroutines, Settings>>

\* hijackTCP: tracker.Set; an exhausted pool locks the flow to the direct route.
Register ==
    /\ rl.pc = "register"
    /\ \E p \in Routes :
          /\ Set(rl.flow, p)
          /\ \/ /\ p # NoPort
                /\ Hold("send", rl.flow, rl.seg, p)
                /\ Discard
                /\ UNCHANGED policyVars
             \/ /\ p = NoPort
                /\ PolicySet(rl.flow, Pass)
                /\ Forward(rl.flow, rl.seg, Direct)
                /\ Finish
    /\ UNCHANGED <<Goroutines, Settings>>

\* hijackTCP: calcAndSend and the decision the caller records.
Inject ==
    /\ rl.pc = "send"
    /\ Forward(rl.flow, rl.seg, rl.port)
    /\ PolicySet(rl.flow, Intercept(rl.port))
    /\ Finish
    /\ UNCHANGED <<trackerVars, Goroutines, Settings>>

InjectFails ==
    /\ rl.pc = "send"
    /\ Delete(rl.port)
    /\ PolicySet(rl.flow, Pass)
    /\ Discard
    /\ Finish
    /\ UNCHANGED <<Goroutines, Settings>>

\* reverseNAT: a reply of the listener's socket to mapped port p goes to the
\* client of whatever flow holds p now.  The first one completes a handshake.
ReverseNAT(p) ==
    /\ rl = Idle
    /\ Connected(p) \/ listen[p] # "none"
    /\ HasMapped(p)
    /\ LET f == entries[p] IN
       /\ out' = [flow |-> f, seg |-> "reply", via |-> p]
       /\ conn' = [conn EXCEPT ![f] =
             IF listen[p] = "syn" /\ @.phase = "syn" /\ p \in @.reach
             THEN Established(@, p) ELSE @]
    /\ UNCHANGED <<trackerVars, policyVars, tproxyVars, rl, Settings>>

RecvLoop ==
    \/ \E f \in Flows : Receive(f)
    \/ Decide \/ Register \/ Inject \/ InjectFails
    \/ \E p \in Ports : ReverseNAT(p)

-----------------------------------------------------------------------------
(* The clients and their peers.                                            *)

ClientStep ==
    /\ out' = Nothing
    /\ UNCHANGED <<trackerVars, policyVars, tproxyVars, rl, Settings>>

\* A four-tuple is not opened again while its last packet is in hand.
Open(f, p) ==
    /\ conn[f].phase = "closed"
    /\ rl.flow # f
    /\ conn' = [conn EXCEPT ![f] = [Closed EXCEPT !.phase = "syn", !.owner = p]]
    /\ ClientStep

\* The peer answers a SYN that reached it as it was sent.
PeerAccepts(f) ==
    /\ conn[f].phase = "syn"
    /\ Direct \in conn[f].reach
    /\ conn' = [conn EXCEPT ![f] = Established(@, Direct)]
    /\ ClientStep

\* The peer resets it, it times out, or its last FIN is acknowledged: the
\* filter is outbound, so the interceptor sees none of this.
Vanish(f) ==
    /\ conn[f].phase # "closed"
    /\ conn' = [conn EXCEPT ![f] = Closed]
    /\ ClientStep

Clients ==
    \E f \in Flows : (\E p \in Procs : Open(f, p)) \/ PeerAccepts(f) \/ Vanish(f)

-----------------------------------------------------------------------------
(* Everything that runs beside the receive loop.                           *)

Beside == out' = Nothing /\ UNCHANGED <<rl, conn>>

TrackerTick == UNCHANGED <<policyVars, tproxyVars, Settings>> /\ Beside
Collect == GC /\ TrackerTick
LeaseExpires(p) == Expire(p) /\ TrackerTick

PolicyTick == UNCHANGED <<trackerVars, tproxyVars, Settings>> /\ Beside
Forget(f) == Sweep(f) /\ PolicyTick
DecisionAges(f) == Age(f) /\ PolicyTick

Background ==
    \/ Collect \/ (\E p \in Ports : LeaseExpires(p))
    \/ \E f \in Flows : Forget(f) \/ DecisionAges(f)

HandlerFrame == UNCHANGED <<policyVars, Settings>> /\ Beside
HandlerStep == TProxyNext /\ HandlerFrame

SetWhitelist(W) ==
    /\ W # whitelist
    /\ whitelist' = W
    /\ Beside
    /\ UNCHANGED <<trackerVars, policyVars, tproxyVars, exempt>>

SetProxyAddr(E) ==
    /\ E # exempt
    /\ exempt' = E
    /\ Beside
    /\ UNCHANGED <<trackerVars, policyVars, tproxyVars, whitelist>>

SettingsStep ==
    (\E W \in Whitelists : SetWhitelist(W)) \/ (\E E \in Exemptions : SetProxyAddr(E))

Next == RecvLoop \/ Clients \/ Background \/ HandlerStep \/ SettingsStep

Spec == Init /\ [][Next]_vars

(***************************************************************************)
(* What the scheduler and the clock owe: the two tickers keep firing and   *)
(* time passes, a goroutine that waits for nobody runs on, and the loop    *)
(* finishes the packet in hand.  Nothing is owed by clients, peers or      *)
(* relays: no connection need ever open, answer or end.                    *)
(***************************************************************************)
Fairness ==
    /\ WF_vars(Collect) /\ \A p \in Ports : WF_vars(LeaseExpires(p))
    /\ \A f \in Flows : WF_vars(Forget(f)) /\ WF_vars(DecisionAges(f))
    /\ \A h \in Handlers : WF_vars(Progress(h) /\ HandlerFrame)
    /\ WF_vars(Decide) /\ WF_vars(Register) /\ WF_vars(Inject)

FairSpec == Spec /\ Fairness

-----------------------------------------------------------------------------
(***************************************************************************)
(* Properties                                                              *)
(***************************************************************************)

(* "A connection once routed is never rerouted" (flowpolicy.go), towards   *)
(* the proxy: after the interceptor has let any later segment of a         *)
(* connection go as it is, nothing of that connection is ever redirected,  *)
(* whatever the whitelist, the sweeps, the port pool and late process      *)
(* lookups do meanwhile.                                                   *)
NoMidstreamHijack ==
    out.seg # "reply" /\ out.via # Direct => ~conn[out.flow].settled

(* The same, away from the proxy: while the lease on which an open         *)
(* connection completed its handshake is still its own, every segment it   *)
(* sends (FIN, RST and exempted destinations apart) goes to that port.     *)
ProxiedStaysProxied ==
    \A f \in Flows :
        /\ out.flow = f /\ out.seg = "seg" /\ ~Exempt(f)
        /\ conn[f].phase = "open" /\ conn[f].route # Direct
        /\ entries[conn[f].route] = f
        => out.via = conn[f].route

(* No packet is injected under a port leased to another flow.  Decisions   *)
(* cache ports without their flow, so this rests on the cursor: it is      *)
(* claimed until the pool has wrapped once.                                *)
NoCrossTalk ==
    FirstLap /\ out.seg # "reply" /\ out.via # Direct
        => entries[out.via] \in {out.flow, NoFlow}

(* The port of a running handler is leased to the flow it dialled for, or  *)
(* to nobody: its replies cannot reach another client (until the wrap).    *)
ReplyIsolation ==
    FirstLap => \A h \in Handlers :
        hpc[h] \in {"running", "broken"} => entries[hport[h]] \in {htarget[h], NoFlow}

(* No lease outlives its use: again and again, a mapped port is free or a  *)
(* relay is running on it.  The tracker's collector frees what no handler  *)
(* took, the deferred Delete what one did.                                 *)
LeasesEnd ==
    \A p \in Ports : []<>(\/ entries[p] = NoFlow
                          \/ \E h \in Handlers : hport[h] = p /\ hpc[h] = "running")

(* No decision is kept for good: again and again, a flow has none or the   *)
(* port it names is leased.  FIN and RST clear it early; a blocked IPv6    *)
(* flow, which never sends one, relies on the sweep.                       *)
DecisionsEnd ==
    \A f \in Flows : []<>(policy[f] = NoPolicy \/ HasMapped(policy[f].port))

-----------------------------------------------------------------------------
(* What the sources say of the interceptor and its packet loop does not do. *)

(* README.md: only whitelisted programs are hijacked.                      *)
OnlyWhitelistedHijacked ==
    out.seg = "syn" /\ out.via # Direct /\ conn[out.flow].phase = "syn"
        => conn[out.flow].owner \in whitelist

(* flowpolicy.go: once routed, a connection is never rerouted, here an     *)
(* open connection through the proxy, up to and including its FIN.         *)
RoutedToTheEnd ==
    \A f \in Flows :
        /\ out.flow = f /\ out.seg \in {"seg", "fin"} /\ ~Exempt(f)
        /\ conn[f].phase \in {"open", "closing"} /\ conn[f].route # Direct
        /\ entries[conn[f].route] = f
        => out.via = conn[f].route

=============================================================================
