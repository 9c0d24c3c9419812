--------------------------- MODULE RoutingProofs ---------------------------
(***************************************************************************)
(* Why a connection that was established through the proxy keeps its route *)
(* while the lease it was established on is its own: for every pool, set   *)
(* of flows, programs and settings, and also after the pool has wrapped.   *)
(***************************************************************************)
EXTENDS PacketPathProofs

(***************************************************************************)
(* A connection goes through port p if it was established on it, or may    *)
(* still be.  While it holds p, its decision names p, or the packet in     *)
(* hand has just been given p and is about to record it.                   *)
(***************************************************************************)
Through(f, p) ==
    \/ conn[f].phase = "open" /\ conn[f].route = p
    \/ conn[f].phase = "syn" /\ p \in conn[f].reach

OnRecord(f, p) == policy[f].kind = "intercept" /\ policy[f].port = p
Given(f, p) == rl.pc = "send" /\ rl.flow = f /\ rl.port = p

RouteInv ==
    \A f \in Flows, p \in Ports :
        entries[p] = f /\ Through(f, p) => OnRecord(f, p) \/ Given(f, p)

(* What is decided is a SYN without a hijack on record.                    *)
DecideInv == rl.pc = "decide" => rl.seg = "syn" /\ policy[rl.flow].kind # "intercept"

(* A packet that was given a port has no other.                            *)
SendInv == rl.pc = "send" => \A p \in Ports : entries[p] = rl.flow => p = rl.port

StickyInv == RouteInv /\ DecideInv /\ SendInv /\ ProxiedStaysProxied

-----------------------------------------------------------------------------
(* What a step leaves alone.                                               *)

LEMMA PathTypes ==
    ASSUME PathInv
    PROVE  /\ policy \in [Flows -> Decisions] /\ conn \in [Flows -> Connections]
           /\ entries \in [Ports -> Flows \cup {NoFlow}] /\ orig \in [Flows -> Ports \cup {NoPort}]
           /\ NoFlow \notin Flows /\ IndexAgrees
           /\ rl.pc # "idle" => rl.flow \in Flows /\ rl.seg \in Segs /\ rl.port \in Routes
           /\ rl.pc = "idle" <=> rl = Idle
BY TrackerAssumption DEF PathInv, TypeOK, PolicyTypeOK, PathTypeOK, TrackerTypeOK, TrackerInv,
   LoopInv, Idle

LEMMA DropShrinks ==
    ASSUME NEW S \in SUBSET Ports, Drop(S)
    PROVE  \A p \in Ports : entries'[p] \in {entries[p], NoFlow}
BY DEF Drop

\* Only Register leases a port.
LEMMA LeasesShrink ==
    ASSUME PathInv, [Next]_vars, ~Register
    PROVE  \A p \in Ports : entries'[p] \in {entries[p], NoFlow}
<1>1. CASE RecvLoop
  <2>1. CASE InjectFails
    <3>1. rl.port \in Ports /\ Drop({rl.port})
      BY <2>1 DEF InjectFails, Delete, PathInv, LoopInv
    <3> QED
      BY <3>1, DropShrinks
  <2>2. CASE ~InjectFails
    BY <1>1, <2>2 DEF RecvLoop, Receive, ReceiveExempt, ReceiveKnown, ReceiveFin, ReceiveStart,
       ReceiveMidstream, Arrives, Decide, Inject, ReverseNAT, trackerVars
  <2> QED
    BY <2>1, <2>2
<1>2. CASE Background
  <2>1. CASE Collect
    <3>1. Collectable \in SUBSET Ports /\ Drop(Collectable)
      BY <2>1 DEF Collect, GC, Collectable
    <3> QED
      BY <3>1, DropShrinks
  <2>2. CASE ~Collect
    BY <1>2, <2>2 DEF Background, LeaseExpires, Expire, Forget, DecisionAges, PolicyTick, trackerVars
  <2> QED
    BY <2>1, <2>2
<1>3. CASE HandlerStep
  <2>1. ASSUME NEW h \in Handlers, Return(h) \/ Unwind(h)
        PROVE  \A p \in Ports : entries'[p] \in {entries[p], NoFlow}
    <3>1. hport[h] \in Ports /\ Drop({hport[h]})
      BY <2>1 DEF Return, Unwind, Delete, PathInv, HandlerInv
    <3> QED
      BY <3>1, DropShrinks
  <2>2. ASSUME NEW h \in Handlers, LookupTarget(h) \/ PinTarget(h) \/ RelayError(h) \/ CloseConn(h)
        PROVE  entries' = entries
    BY <2>2 DEF LookupTarget, PinTarget, Activate, RelayError, CloseConn, trackerVars
  <2>3. ASSUME NEW h \in Handlers, NEW p \in Ports, Abandon(p) \/ Accept(h, p)
        PROVE  entries' = entries
    BY <2>3 DEF Abandon, Accept, trackerVars
  <2>4. CASE \E p \in Ports : Abandon(p)
    BY <2>4 DEF Abandon, trackerVars
  <2> QED
    BY <1>3, <2>1, <2>2, <2>3, <2>4 DEF HandlerStep, TProxyNext, Progress
<1>4. CASE Clients \/ SettingsStep \/ UNCHANGED vars
  BY <1>4 DEF Clients, Open, PeerAccepts, Vanish, ClientStep, SettingsStep, SetWhitelist,
     SetProxyAddr, vars, trackerVars
<1> QED
  BY <1>1, <1>2, <1>3, <1>4 DEF Next

\* A step of the loop that concerns one flow.
LEMMA OneFlow ==
    ASSUME PathInv, RouteInv, NEW f \in Flows, rl.pc # "idle" => rl.flow = f,
           \A g \in Flows \ {f} : conn'[g] = conn[g] /\ policy'[g] = policy[g],
           \A p \in Ports : entries'[p] \in {entries[p], NoFlow, f},
           \A p \in Ports : entries'[p] = f /\ Through(f, p)' => OnRecord(f, p)' \/ Given(f, p)'
    PROVE  RouteInv'
<1> SUFFICES ASSUME NEW g \in Flows, NEW p \in Ports, entries'[p] = g, Through(g, p)', g # f
             PROVE  OnRecord(g, p)'
  BY DEF RouteInv
<1>1. entries[p] = g
  BY PathTypes
<1>2. Through(g, p)
  BY DEF Through
<1>3. ~Given(g, p)
  BY DEF Given
<1>4. OnRecord(g, p)
  BY <1>1, <1>2, <1>3 DEF RouteInv
<1> QED
  BY <1>4 DEF OnRecord

\* What a packet of f that takes route r does to f's connection.
LEMMA ForwardConn ==
    ASSUME PathInv, NEW f \in Flows, NEW s \in Segs, NEW r \in Routes, Forward(f, s, r)
    PROVE  /\ out' = [flow |-> f, seg |-> s, via |-> r]
           /\ \A g \in Flows \ {f} : conn'[g] = conn[g]
           /\ conn'[f].route = conn[f].route
           /\ conn'[f].phase \in {conn[f].phase, "closing"}
           /\ s # "syn" => conn'[f].reach = conn[f].reach
           /\ conn'[f].reach \subseteq conn[f].reach \cup {r}
<1>1. conn[f] \in Connections /\ conn \in [Flows -> Connections]
  BY PathTypes
<1>2. conn' = [conn EXCEPT ![f] = Settle(Sent(conn[f], s, r), s, r)]
  BY DEF Forward
<1> DEFINE c == Sent(conn[f], s, r)
<1>3. /\ c \in Connections /\ c.route = conn[f].route /\ c.phase \in {conn[f].phase, "closing"}
      /\ s # "syn" => c.reach = conn[f].reach
      /\ c.reach \subseteq conn[f].reach \cup {r}
  BY <1>1 DEF Sent, Connections
<1> HIDE DEF c
<1>4. Settle(c, s, r).route = c.route /\ Settle(c, s, r).phase = c.phase
      /\ Settle(c, s, r).reach = c.reach
  BY <1>3 DEF Settle, Connections
<1>5. conn'[f] = Settle(c, s, r) /\ \A g \in Flows \ {f} : conn'[g] = conn[g]
  BY <1>1, <1>2 DEF c
<1> QED
  BY <1>3, <1>4, <1>5 DEF Forward

\* A packet follows the only port its connection goes through, or goes
\* directly when there is none; then both the record and the route hold.
LEMMA ForwardSticks ==
    ASSUME PathInv, NEW f \in Flows, NEW s \in Segs, NEW r \in Routes, Forward(f, s, r),
           \A p \in Ports : entries'[p] = f /\ Through(f, p) => p = r,
           r # Direct => OnRecord(f, r)'
    PROVE  /\ \A p \in Ports : entries'[p] = f /\ Through(f, p)' => OnRecord(f, p)'
           /\ ProxiedStaysProxied'
<1>1. /\ out' = [flow |-> f, seg |-> s, via |-> r]
      /\ conn'[f].route = conn[f].route
      /\ conn'[f].phase \in {conn[f].phase, "closing"}
      /\ s # "syn" => conn'[f].reach = conn[f].reach
      /\ conn'[f].reach \subseteq conn[f].reach \cup {r}
  BY ForwardConn
<1>2. \A p \in Ports : p # Direct
  BY RouteTypes
<1>3. \A p \in Ports : Through(f, p)' => Through(f, p) \/ p = r
  BY <1>1 DEF Through
<1>4. \A p \in Ports : entries'[p] = f /\ Through(f, p)' => OnRecord(f, p)'
  BY <1>2, <1>3
<1>5. ASSUME conn'[f].phase = "open", conn'[f].route # Direct, entries'[conn'[f].route] = f
      PROVE  r = conn'[f].route
  <2>1. conn[f] \in Connections
    BY PathTypes
  <2>2. conn'[f].route \in Ports
    BY <1>1, <1>5, <2>1 DEF Connections, Routes
  <2>3. Through(f, conn'[f].route)
    BY <1>1, <1>5 DEF Through
  <2> QED
    BY <1>5, <2>2, <2>3
<1>6. ProxiedStaysProxied'
  BY <1>1, <1>5 DEF ProxiedStaysProxied
<1> QED
  BY <1>4, <1>6

LEMMA SilentSticks ==
    ASSUME PathInv, out' = Nothing \/ out'.seg # "seg" PROVE ProxiedStaysProxied'
BY PathTypes DEF ProxiedStaysProxied, Nothing

-----------------------------------------------------------------------------
(* The packet in hand.                                                     *)

\* Outside the loop a decision can only be forgotten.
LEMMA PolicyBeside ==
    ASSUME PathInv, [Next]_vars, ~RecvLoop
    PROVE  /\ rl' = rl
           /\ \A f \in Flows : \/ policy'[f] = policy[f]
                               \/ policy'[f] = NoPolicy /\ Outdated(f) /\ UNCHANGED trackerVars
<1>1. policy \in [Flows -> Decisions]
  BY PathTypes
<1>2. CASE \E f \in Flows : Forget(f)
  BY <1>1, <1>2 DEF Forget, Sweep, PolicyDelete, PolicySet, PolicyTick, Beside
<1>3. CASE Background /\ ~\E f \in Flows : Forget(f)
  BY <1>3 DEF Background, Collect, LeaseExpires, DecisionAges, Age, TrackerTick, PolicyTick,
     Beside, policyVars
<1>4. CASE Clients \/ HandlerStep \/ SettingsStep \/ UNCHANGED vars
  BY <1>4 DEF Clients, Open, PeerAccepts, Vanish, ClientStep, HandlerStep, HandlerFrame, Beside,
     SettingsStep, SetWhitelist, SetProxyAddr, vars, policyVars, pathVars
<1> QED
  BY <1>2, <1>3, <1>4 DEF Next

LEMMA DecideInvStep == ASSUME PathInv, DecideInv, [Next]_vars PROVE DecideInv'
<1>1. CASE ~RecvLoop
  <2>1. rl.pc = "decide" => rl.flow \in Flows
    BY PathTypes
  <2> QED
    BY <1>1, <2>1, PolicyBeside DEF DecideInv, NoPolicy
<1>2. ASSUME NEW f \in Flows, ReceiveStart(f) PROVE DecideInv'
  <2>1. rl'.flow = f /\ rl'.seg = "syn"
    BY <1>2 DEF ReceiveStart, Hold
  <2>2. policy'[f].kind # "intercept"
    <3>1. CASE Known(f)
      BY <1>2, <3>1, PathTypes DEF ReceiveStart, PolicyDelete, PolicySet, NoPolicy
    <3>2. CASE ~Known(f)
      BY <1>2, <3>2 DEF ReceiveStart, Known, NoPolicy, policyVars
    <3> QED
      BY <3>1, <3>2
  <2> QED
    BY <2>1, <2>2 DEF DecideInv
<1>3. CASE RecvLoop /\ ~\E f \in Flows : ReceiveStart(f)
  <2>1. rl'.pc # "decide"
    BY <1>3 DEF RecvLoop, Receive, ReceiveExempt, ReceiveKnown, ReceiveFin, ReceiveMidstream,
       Decide, Register, Inject, InjectFails, ReverseNAT, Finish, Hold, Idle
  <2> QED
    BY <2>1 DEF DecideInv
<1> QED
  BY <1>1, <1>2, <1>3

LEMMA SendInvStep == ASSUME PathInv, PathInv', SendInv, [Next]_vars PROVE SendInv'
<1>1. CASE Register
  <2>1. rl.flow \in Flows
    BY <1>1, PathTypes DEF Register
  <2>2. PICK p \in Routes : Set(rl.flow, p) /\ (rl'.pc = "send" => p # NoPort /\ rl'.port = p /\ rl'.flow = rl.flow)
    BY <1>1 DEF Register, Hold, Finish, Idle
  <2>3. ASSUME rl'.pc = "send", NEW q \in Ports, entries'[q] = rl.flow PROVE q = p
    <3>1. p \in Ports
      BY <2>2, <2>3 DEF Routes, Direct
    <3>2. entries'[p] = rl.flow
      BY <2>1, <2>2, <3>1, SetGrants DEF PathInv
    <3>3. IndexAgrees'
      BY DEF PathInv, TrackerInv
    <3> QED
      BY <2>1, <2>3, <3>1, <3>2, <3>3 DEF IndexAgrees
  <2> QED
    BY <2>2, <2>3 DEF SendInv
<1>2. CASE ~Register
  <2>1. rl' = rl \/ rl'.pc # "send"
    <3>1. CASE RecvLoop
      BY <1>2, <3>1 DEF RecvLoop, Receive, ReceiveExempt, ReceiveKnown, ReceiveFin, ReceiveStart,
         ReceiveMidstream, Decide, Inject, InjectFails, ReverseNAT, Finish, Hold, Idle
    <3> QED
      BY <3>1, PolicyBeside
  <2>2. rl.pc # "idle" => rl.flow \in Flows
    BY PathTypes
  <2> QED
    BY <1>2, <2>1, <2>2, LeasesShrink, PathTypes DEF SendInv
<1> QED
  BY <1>1, <1>2

-----------------------------------------------------------------------------
(* The loop.                                                               *)

LEMMA ReceiveSticks ==
    ASSUME PathInv, RouteInv, NEW f \in Flows, Receive(f)
    PROVE  RouteInv' /\ ProxiedStaysProxied'
<1>1. /\ policy \in [Flows -> Decisions] /\ conn \in [Flows -> Connections] /\ NoFlow \notin Flows
      /\ conn[f] \in Connections
  BY PathTypes
<1>2. rl = Idle /\ entries' = entries
  BY DEF Receive, ReceiveExempt, ReceiveKnown, ReceiveFin, ReceiveStart, ReceiveMidstream, Arrives,
     trackerVars
<1>3. rl.pc = "idle"
  BY <1>2 DEF Idle
<1>4. \A p \in Ports : entries'[p] \in {entries[p], NoFlow, f}
  BY <1>2
<1>5. \A p \in Ports : entries[p] = f /\ Through(f, p) => OnRecord(f, p)
  BY <1>3 DEF RouteInv, Given
<1>6. ASSUME NEW s \in Segs, ReceiveExempt(f, s) PROVE RouteInv' /\ ProxiedStaysProxied'
  <2> DEFINE c == Sent(conn[f], s, Direct)
  <2>1. c.route = conn[f].route /\ c.phase \in {conn[f].phase, "closing"}
        /\ c.reach \subseteq conn[f].reach \cup {Direct}
    BY <1>1, RouteTypes DEF Sent, Connections
  <2>2. conn' = [conn EXCEPT ![f] = c] /\ policy' = policy /\ exempt' = exempt
        /\ out' = [flow |-> f, seg |-> s, via |-> Direct]
    BY <1>6 DEF ReceiveExempt, policyVars, Arrives, Settings
  <2> HIDE DEF c
  <2>3. conn'[f] = c /\ \A g \in Flows \ {f} : conn'[g] = conn[g]
    BY <1>1, <2>2
  <2>4. \A p \in Ports : Through(f, p)' => Through(f, p)
    BY <2>1, <2>3, RouteTypes DEF Through
  <2>5. \A p \in Ports : entries'[p] = f /\ Through(f, p)' => OnRecord(f, p)'
    BY <1>2, <1>5, <2>2, <2>4 DEF OnRecord
  <2>6. RouteInv'
    BY <1>3, <1>4, <2>2, <2>3, <2>5, OneFlow
  <2>7. Exempt(f)'
    BY <1>6, <2>2 DEF ReceiveExempt, Exempt
  <2> QED
    BY <2>2, <2>6, <2>7 DEF ProxiedStaysProxied
<1>7. CASE ReceiveFin(f)
  <2>1. Forward(f, "fin", Direct) /\ PolicySet(f, NoPolicy) /\ "fin" \in Segs
    BY <1>7 DEF ReceiveFin, PolicyDelete, Segs
  <2>2. conn[f].phase \in {"open", "closing"}
    BY <1>7 DEF ReceiveFin, Arrives, Sends
  <2>3. conn'[f].phase = "closing" /\ (\A g \in Flows \ {f} : conn'[g] = conn[g]) /\ out'.seg = "fin"
    BY <1>1, <2>1, <2>2 DEF Forward, Sent, Settle, Connections
  <2>4. \A g \in Flows \ {f} : policy'[g] = policy[g]
    BY <1>1, <2>1 DEF PolicySet
  <2>5. \A p : ~Through(f, p)'
    BY <2>3 DEF Through
  <2>6. RouteInv'
    BY <1>3, <1>4, <2>3, <2>4, <2>5, OneFlow
  <2> QED
    BY <2>3, <2>6, SilentSticks
<1>8. ASSUME NEW s \in Segs, ReceiveKnown(f, s) PROVE RouteInv' /\ ProxiedStaysProxied'
  <2>1. policy' = policy
    BY <1>8 DEF ReceiveKnown, policyVars
  <2>2. ASSUME NEW r \in Routes, Forward(f, s, r),
               \/ r = Direct /\ policy[f].kind # "intercept"
               \/ r = policy[f].port /\ policy[f].kind = "intercept"
        PROVE  RouteInv' /\ ProxiedStaysProxied'
    <3>1. \A p \in Ports : entries'[p] = f /\ Through(f, p) => p = r
      BY <1>2, <1>5, <2>2 DEF OnRecord
    <3>2. r # Direct => OnRecord(f, r)'
      BY <2>1, <2>2 DEF OnRecord
    <3>3. (\A p \in Ports : entries'[p] = f /\ Through(f, p)' => OnRecord(f, p)') /\ ProxiedStaysProxied'
      BY <2>2, <3>1, <3>2, ForwardSticks
    <3>4. \A g \in Flows \ {f} : conn'[g] = conn[g]
      BY <2>2, ForwardConn
    <3> QED
      BY <1>3, <1>4, <2>1, <3>3, <3>4, OneFlow
  <2>3. CASE Discard
    <3>1. conn' = conn /\ out' = Nothing
      BY <2>3 DEF Discard
    <3>2. \A p \in Ports : entries'[p] = f /\ Through(f, p)' => OnRecord(f, p)'
      BY <1>2, <1>5, <2>1, <3>1 DEF Through, OnRecord
    <3> QED
      BY <1>3, <1>4, <2>1, <3>1, <3>2, OneFlow, SilentSticks
  <2>4. policy[f].port \in Routes
    BY <1>1 DEF Decisions, Routes, Direct
  <2> QED
    BY <1>8, <2>2, <2>3, <2>4, RouteTypes DEF ReceiveKnown
<1>9. CASE ReceiveStart(f)
  <2>1. conn' = conn /\ out' = Nothing
    BY <1>9 DEF ReceiveStart, Discard
  <2>2. policy[f].kind # "intercept"
    BY <1>9 DEF ReceiveStart, Known, Retry, NoPolicy, Undecided
  <2>3. \A g \in Flows \ {f} : policy'[g] = policy[g]
    BY <1>1, <1>9 DEF ReceiveStart, PolicyDelete, PolicySet, policyVars
  <2>4. \A p \in Ports : ~(entries'[p] = f /\ Through(f, p)')
    BY <1>2, <1>5, <2>1, <2>2 DEF Through, OnRecord
  <2> QED
    BY <1>3, <1>4, <2>1, <2>3, <2>4, OneFlow, SilentSticks
<1>10. CASE ReceiveMidstream(f)
  <2>1. Forward(f, "seg", Direct) /\ PolicySet(f, Pass) /\ "seg" \in Segs
    BY <1>10 DEF ReceiveMidstream, Segs
  <2>2. policy[f].kind # "intercept"
    BY <1>10 DEF ReceiveMidstream, Known, NoPolicy
  <2>3. \A p \in Ports : entries'[p] = f /\ Through(f, p) => p = Direct
    BY <1>2, <1>5, <2>2 DEF OnRecord
  <2>4. (\A p \in Ports : entries'[p] = f /\ Through(f, p)' => OnRecord(f, p)') /\ ProxiedStaysProxied'
    BY <2>1, <2>3, RouteTypes, ForwardSticks
  <2>5. \A g \in Flows \ {f} : conn'[g] = conn[g] /\ policy'[g] = policy[g]
    BY <1>1, <2>1, ForwardConn, RouteTypes DEF PolicySet
  <2> QED
    BY <1>3, <1>4, <2>4, <2>5, OneFlow
<1> QED
  BY <1>6, <1>7, <1>8, <1>9, <1>10 DEF Receive

LEMMA DecideSticks ==
    ASSUME PathInv, RouteInv, DecideInv, Decide
    PROVE  RouteInv' /\ ProxiedStaysProxied'
<1>0. PICK f \in Flows : f = rl.flow
  BY PathTypes DEF Decide, Register
<1>1. /\ policy \in [Flows -> Decisions] /\ conn \in [Flows -> Connections] /\ NoFlow \notin Flows
      /\ f \in Flows /\ rl.pc = "decide" /\ rl.seg = "syn" /\ entries' = entries
  BY <1>0, PathTypes DEF Decide, DecideInv, trackerVars
<1>2. \A p \in Ports : entries[p] = f => ~Through(f, p)
  BY <1>0, <1>1 DEF RouteInv, DecideInv, OnRecord, Given
<1>3. \A p \in Ports : entries'[p] \in {entries[p], NoFlow, f}
  BY <1>0, <1>1
<1>4. PICK name :
        \/ Discard /\ UNCHANGED policyVars
        \/ Discard /\ PolicySet(f, Block)
        \/ PolicySet(f, Verdict(name)) /\ Forward(f, rl.seg, Direct)
  BY <1>0 DEF Decide
<1>5. \A g \in Flows \ {f} : policy'[g] = policy[g]
  BY <1>0, <1>1, <1>4 DEF PolicySet, policyVars
<1>6. CASE Discard
  <2>1. conn' = conn /\ out' = Nothing
    BY <1>0, <1>6 DEF Discard
  <2>2. \A p \in Ports : ~(entries'[p] = f /\ Through(f, p)')
    BY <1>0, <1>1, <1>2, <2>1 DEF Through
  <2> QED
    BY <1>0, <1>1, <1>3, <1>5, <2>1, <2>2, OneFlow, SilentSticks
<1>7. CASE Forward(f, rl.seg, Direct)
  <2>1. "syn" \in Segs /\ Forward(f, "syn", Direct)
    BY <1>0, <1>1, <1>7 DEF Segs
  <2>2. \A p \in Ports : entries'[p] = f /\ Through(f, p) => p = Direct
    BY <1>0, <1>1, <1>2
  <2>3. (\A p \in Ports : entries'[p] = f /\ Through(f, p)' => OnRecord(f, p)') /\ ProxiedStaysProxied'
    BY <1>0, <1>1, <2>1, <2>2, RouteTypes, ForwardSticks
  <2>4. \A g \in Flows \ {f} : conn'[g] = conn[g]
    BY <1>0, <1>1, <2>1, RouteTypes, ForwardConn
  <2> QED
    BY <1>0, <1>1, <1>3, <1>5, <2>3, <2>4, OneFlow
<1> QED
  BY <1>0, <1>4, <1>6, <1>7

LEMMA SetLeases ==
    ASSUME TrackerInv, NEW f \in Flows, NEW p \in Routes, Set(f, p)
    PROVE  /\ \A q \in Ports : entries'[q] \in {entries[q], NoFlow, f}
           /\ p = NoPort => \A q \in Ports : entries'[q] # f
<1>1. CASE Reuse(f, p)
  BY <1>1 DEF Reuse, Registered, trackerVars
<1>2. CASE Lease(f, p)
  <2>1. p \in Ports /\ entries \in [Ports -> Flows \cup {NoFlow}]
    BY <1>2 DEF Lease, FirstFree, Free, Allocatable, TrackerInv, TrackerTypeOK
  <2>2. p # NoPort
    BY <2>1, RouteTypes
  <2> QED
    BY <1>2, <2>1, <2>2 DEF Lease
<1>3. CASE Exhausted(f, p)
  <2>1. \A q \in Ports : entries[q] # f
    <3> SUFFICES ASSUME NEW q \in Ports, entries[q] = f PROVE FALSE
      OBVIOUS
    <3>1. orig[f] = q /\ q # NoPort /\ f # NoFlow
      BY RouteTypes, TrackerAssumption DEF TrackerInv, IndexAgrees
    <3> QED
      BY <1>3, <3>1 DEF Exhausted, Registered
  <2> QED
    BY <1>3, <2>1 DEF Exhausted
<1> QED
  BY <1>1, <1>2, <1>3 DEF Set

LEMMA RegisterSticks ==
    ASSUME PathInv, PathInv', RouteInv, Register
    PROVE  RouteInv' /\ ProxiedStaysProxied'
<1>0. PICK f \in Flows : f = rl.flow
  BY PathTypes DEF Decide, Register
<1>1. /\ policy \in [Flows -> Decisions] /\ conn \in [Flows -> Connections] /\ NoFlow \notin Flows
      /\ f \in Flows /\ rl.pc = "register" /\ rl.seg \in Segs
  BY <1>0, PathTypes DEF Register
<1>2. PICK p \in Routes :
        /\ Set(f, p)
        /\ \/ p # NoPort /\ Hold("send", f, rl.seg, p) /\ Discard /\ UNCHANGED policyVars
           \/ p = NoPort /\ PolicySet(f, Pass) /\ Forward(f, rl.seg, Direct) /\ Finish
  BY <1>0 DEF Register
<1>3. /\ \A q \in Ports : entries'[q] \in {entries[q], NoFlow, f}
      /\ p = NoPort => \A q \in Ports : entries'[q] # f
  BY <1>0, <1>1, <1>2, SetLeases DEF PathInv
<1>4. \A g \in Flows \ {f} : policy'[g] = policy[g]
  BY <1>0, <1>1, <1>2 DEF PolicySet, policyVars
<1>5. CASE p # NoPort
  <2>1. conn' = conn /\ out' = Nothing /\ rl'.pc = "send" /\ rl'.flow = f /\ rl'.port = p
    BY <1>0, <1>2, <1>5 DEF Discard, Hold
  <2>2. p \in Ports
    BY <1>0, <1>5 DEF Routes, Direct
  <2>3. entries'[p] = f
    BY <1>0, <1>1, <1>2, <2>2, SetGrants DEF PathInv
  <2>4. \A q \in Ports : entries'[q] = f => q = p
    <3>1. IndexAgrees'
      BY <1>0 DEF PathInv, TrackerInv
    <3> QED
      BY <1>0, <1>1, <2>2, <2>3, <3>1 DEF IndexAgrees
  <2>5. \A q \in Ports : entries'[q] = f /\ Through(f, q)' => Given(f, q)'
    BY <1>0, <2>1, <2>4 DEF Given
  <2> QED
    BY <1>0, <1>1, <1>3, <1>4, <2>1, <2>5, OneFlow, SilentSticks
<1>6. CASE p = NoPort
  <2>1. Forward(f, rl.seg, Direct) /\ \A q \in Ports : entries'[q] # f
    BY <1>0, <1>2, <1>3, <1>6
  <2>2. ProxiedStaysProxied'
    BY <1>0, <1>1, <2>1, RouteTypes, ForwardSticks
  <2>3. \A g \in Flows \ {f} : conn'[g] = conn[g]
    BY <1>0, <1>1, <2>1, RouteTypes, ForwardConn
  <2> QED
    BY <1>0, <1>1, <1>3, <1>4, <2>1, <2>2, <2>3, OneFlow
<1> QED
  BY <1>0, <1>5, <1>6

LEMMA SendSticks ==
    ASSUME PathInv, RouteInv, SendInv, Inject \/ InjectFails
    PROVE  RouteInv' /\ ProxiedStaysProxied'
<1>0. PICK f \in Flows, r \in Ports : f = rl.flow /\ r = rl.port
  BY PathTypes DEF Inject, InjectFails, PathInv, LoopInv
<1>1. /\ policy \in [Flows -> Decisions] /\ conn \in [Flows -> Connections] /\ NoFlow \notin Flows
      /\ f \in Flows /\ rl.pc = "send" /\ rl.seg \in Segs /\ r \in Ports
  BY <1>0, PathTypes DEF Inject, InjectFails, PathInv, LoopInv
<1>2. \A p \in Ports : entries[p] = f => p = r
  BY <1>0, <1>1 DEF SendInv
<1>3. CASE Inject
  <2>1. Forward(f, rl.seg, r) /\ PolicySet(f, Intercept(r)) /\ entries' = entries
    BY <1>0, <1>3 DEF Inject, trackerVars
  <2>2. OnRecord(f, r)' /\ \A g \in Flows \ {f} : policy'[g] = policy[g]
    <3>1. policy' = [policy EXCEPT ![f] = Intercept(r)]
      BY <1>0, <2>1 DEF PolicySet
    <3>2. policy'[f] = Intercept(r) /\ \A g \in Flows \ {f} : policy'[g] = policy[g]
      BY <1>0, <1>1, <3>1
    <3> QED
      BY <1>0, <3>2 DEF OnRecord, Intercept
  <2>3. /\ \A p \in Ports : entries'[p] = f /\ Through(f, p)' => OnRecord(f, p)'
        /\ ProxiedStaysProxied'
    BY <1>0, <1>1, <1>2, <2>1, <2>2, RouteTypes, ForwardSticks
  <2>4. \A g \in Flows \ {f} : conn'[g] = conn[g]
    BY <1>0, <1>1, <2>1, RouteTypes, ForwardConn
  <2> QED
    BY <1>0, <1>1, <2>1, <2>2, <2>3, <2>4, OneFlow
<1>4. CASE InjectFails
  <2>1. Drop({r}) /\ PolicySet(f, Pass) /\ conn' = conn /\ out' = Nothing
    BY <1>0, <1>4 DEF InjectFails, Delete, Discard
  <2>2. \A p \in Ports : entries'[p] # f /\ entries'[p] \in {entries[p], NoFlow, f}
    BY <1>0, <1>1, <1>2, <2>1 DEF Drop
  <2>3. \A g \in Flows \ {f} : policy'[g] = policy[g]
    BY <1>0, <1>1, <2>1 DEF PolicySet
  <2> QED
    BY <1>0, <1>1, <2>1, <2>2, <2>3, OneFlow, SilentSticks
<1> QED
  BY <1>0, <1>3, <1>4

\* A handshake completes on the port on record.
LEMMA ReplySticks ==
    ASSUME PathInv, RouteInv, NEW p \in Ports, ReverseNAT(p)
    PROVE  RouteInv' /\ ProxiedStaysProxied'
<1>0. PICK f \in Flows : f = entries[p]
  BY PathTypes DEF ReverseNAT, HasMapped
<1>1. /\ f \in Flows /\ rl = Idle /\ rl.pc = "idle" /\ entries' = entries /\ policy' = policy
      /\ out'.seg = "reply"
  BY <1>0, PathTypes DEF ReverseNAT, HasMapped, trackerVars, policyVars
<1>2. conn' = [conn EXCEPT ![f] =
         IF listen[p] = "syn" /\ conn[f].phase = "syn" /\ p \in conn[f].reach
         THEN Established(conn[f], p) ELSE conn[f]]
  BY <1>0 DEF ReverseNAT
<1>3. conn \in [Flows -> Connections] /\ conn[f] \in Connections
  BY <1>0, <1>1, PathTypes
<1>4. \A q \in Ports : Through(f, q)' => Through(f, q)
  <2>1. CASE listen[p] = "syn" /\ conn[f].phase = "syn" /\ p \in conn[f].reach
    <3>1. conn'[f] = Established(conn[f], p)
      BY <1>0, <1>1, <1>2, <1>3, <2>1
    <3>2. conn'[f].phase = "open" /\ conn'[f].route = p
      BY <1>0, <1>3, <3>1 DEF Established, Connections
    <3> QED
      BY <1>0, <2>1, <3>2 DEF Through
  <2>2. CASE ~(listen[p] = "syn" /\ conn[f].phase = "syn" /\ p \in conn[f].reach)
    BY <1>0, <1>1, <1>2, <1>3, <2>2 DEF Through
  <2> QED
    BY <1>0, <2>1, <2>2
<1>5. \A g \in Flows \ {f} : conn'[g] = conn[g]
  BY <1>0, <1>1, <1>2, <1>3
<1>6. \A q \in Ports : entries'[q] = f /\ Through(f, q)' => OnRecord(f, q)'
  BY <1>0, <1>1, <1>4 DEF RouteInv, Given, OnRecord
<1> QED
  BY <1>0, <1>1, <1>5, <1>6, OneFlow, SilentSticks

-----------------------------------------------------------------------------
(* The clients, and what runs beside the loop.                             *)

LEMMA ClientsStick ==
    ASSUME PathInv, RouteInv, Clients
    PROVE  RouteInv' /\ ProxiedStaysProxied'
<1>1. PICK f \in Flows : (\E p \in Procs : Open(f, p)) \/ PeerAccepts(f) \/ Vanish(f)
  BY DEF Clients
<1>2. /\ entries' = entries /\ policy' = policy /\ rl' = rl /\ out' = Nothing
      /\ conn \in [Flows -> Connections] /\ conn[f] \in Connections
  BY <1>1, PathTypes DEF Open, PeerAccepts, Vanish, ClientStep, trackerVars, policyVars
<1>3. PICK c : conn' = [conn EXCEPT ![f] = c] /\ \A p \in Ports :
        ~(c.phase = "open" /\ c.route = p) /\ ~(c.phase = "syn" /\ p \in c.reach)
  <2>1. CASE \E p \in Procs : Open(f, p)
    <3>1. PICK p \in Procs : conn' = [conn EXCEPT ![f] = [Closed EXCEPT !.phase = "syn", !.owner = p]]
      BY <2>1 DEF Open
    <3>2. /\ [Closed EXCEPT !.phase = "syn", !.owner = p].phase = "syn"
          /\ [Closed EXCEPT !.phase = "syn", !.owner = p].reach = {}
      BY DEF Closed
    <3> QED
      BY <3>1, <3>2
  <2>2. CASE PeerAccepts(f)
    <3>1. Established(conn[f], Direct).phase = "open" /\ Established(conn[f], Direct).route = Direct
      BY <1>2 DEF Established, Connections
    <3> QED
      BY <2>2, <3>1, RouteTypes DEF PeerAccepts
  <2>3. CASE Vanish(f)
    <3>1. Closed.phase = "closed"
      BY DEF Closed
    <3> QED
      BY <2>3, <3>1 DEF Vanish
  <2> QED
    BY <1>1, <2>1, <2>2, <2>3
<1>4. \A g \in Flows, p \in Ports : Through(g, p)' => Through(g, p)
  <2> SUFFICES ASSUME NEW g \in Flows, NEW p \in Ports, Through(g, p)' PROVE Through(g, p)
    OBVIOUS
  <2>1. CASE g = f
    BY <1>2, <1>3, <2>1 DEF Through
  <2>2. CASE g # f
    BY <1>2, <1>3, <2>2 DEF Through
  <2> QED
    BY <2>1, <2>2
<1>5. RouteInv'
  BY <1>2, <1>4 DEF RouteInv, OnRecord, Given
<1> QED
  BY <1>2, <1>5, SilentSticks

\* The sweep forgets a hijack only when its port is free.
LEMMA BesideSticks ==
    ASSUME PathInv, RouteInv, Background \/ HandlerStep \/ SettingsStep
    PROVE  RouteInv' /\ ProxiedStaysProxied'
<1>1. Beside
  BY DEF Background, Collect, LeaseExpires, Forget, DecisionAges, TrackerTick,
     PolicyTick, HandlerStep, HandlerFrame, SettingsStep, SetWhitelist, SetProxyAddr
<1>2. conn' = conn /\ rl' = rl /\ out' = Nothing
  BY <1>1 DEF Beside
<1>3. \A f \in Flows : \/ policy'[f] = policy[f]
                       \/ policy'[f] = NoPolicy /\ Outdated(f) /\ UNCHANGED trackerVars
  <2>1. CASE \E f \in Flows : Forget(f)
    BY <2>1, PathTypes DEF Forget, Sweep, PolicyDelete, PolicySet, PolicyTick
  <2>2. CASE ~\E f \in Flows : Forget(f)
    BY <2>2 DEF Background, Collect, LeaseExpires, DecisionAges, Age, TrackerTick, PolicyTick,
       HandlerStep, HandlerFrame, SettingsStep, SetWhitelist, SetProxyAddr, policyVars
  <2> QED
    BY <2>1, <2>2
<1>4. \A p \in Ports : entries'[p] \in {entries[p], NoFlow}
  <2>1. CASE Register
    BY <2>1, <1>2, <1>1 DEF Register, Hold, Finish, Idle, Beside
  <2>2. CASE ~Register
    BY <2>2, LeasesShrink DEF Next
  <2> QED
    BY <2>1, <2>2
<1>5. ASSUME NEW f \in Flows, NEW p \in Ports, entries'[p] = f, Through(f, p)'
      PROVE  OnRecord(f, p)' \/ Given(f, p)'
  <2>1. entries[p] = f /\ Through(f, p)
    BY <1>2, <1>4, <1>5, PathTypes DEF Through
  <2>2. CASE Given(f, p)
    BY <1>2, <2>2 DEF Given
  <2>3. CASE OnRecord(f, p)
    <3>1. ~Outdated(f)
      BY <2>1, <2>3, PathTypes, RouteTypes DEF Outdated, Leased, HasMapped, OnRecord
    <3> QED
      BY <1>3, <2>3, <3>1 DEF OnRecord
  <2> QED
    BY <2>1, <2>2, <2>3 DEF RouteInv
<1>6. RouteInv'
  BY <1>5 DEF RouteInv
<1> QED
  BY <1>2, <1>6, SilentSticks

-----------------------------------------------------------------------------
(* The theorem.                                                            *)

LEMMA InitSticks == Init => StickyInv
<1> SUFFICES ASSUME Init PROVE StickyInv
  OBVIOUS
<1>1. \A f \in Flows, p \in Ports : entries[p] # f
  BY TrackerAssumption DEF Init, TrackerInit
<1>2. rl.pc = "idle" /\ out = Nothing
  BY DEF Init, Idle
<1>3. ProxiedStaysProxied
  BY <1>2, TrackerAssumption DEF ProxiedStaysProxied, Nothing
<1> QED
  BY <1>1, <1>2, <1>3 DEF StickyInv, RouteInv, DecideInv, SendInv

LEMMA NextSticks == PathInv /\ PathInv' /\ StickyInv /\ [Next]_vars => StickyInv'
<1> SUFFICES ASSUME PathInv, PathInv', StickyInv, [Next]_vars PROVE StickyInv'
  OBVIOUS
<1>1. RouteInv /\ DecideInv /\ SendInv /\ ProxiedStaysProxied
  BY DEF StickyInv
<1>2. RouteInv' /\ ProxiedStaysProxied'
  <2>1. CASE RecvLoop
    BY <1>1, <2>1, ReceiveSticks, DecideSticks, RegisterSticks, SendSticks, ReplySticks DEF RecvLoop
  <2>2. CASE Background \/ HandlerStep \/ SettingsStep
    BY <1>1, <2>2, BesideSticks
  <2>3. CASE UNCHANGED vars
    <3>1. UNCHANGED <<entries, conn, policy, rl, out, exempt>>
      BY <2>3 DEF vars, trackerVars, policyVars, pathVars
    <3> QED
      BY <1>1, <3>1 DEF RouteInv, Through, OnRecord, Given, ProxiedStaysProxied, Exempt
  <2> QED
    BY <1>1, <2>1, <2>2, <2>3, ClientsStick DEF Next
<1> QED
  BY <1>1, <1>2, DecideInvStep, SendInvStep DEF StickyInv

THEOREM RoutingInvariant == Spec => [](PathInv /\ StickyInv)
<1>1. Init => PathInv /\ StickyInv
  BY InitPathInv, InitSticks
<1>2. PathInv /\ StickyInv /\ [Next]_vars => (PathInv /\ StickyInv)'
  BY NextPathInv, NextSticks
<1> QED
  BY <1>1, <1>2, PTL DEF Spec

(* A connection that was established on a port is never sent elsewhere     *)
(* while that lease is its own, through the sweep, retries, lost leases of *)
(* others, changed settings and a pool that has wrapped.                   *)
THEOREM ProxiedToTheEndOfItsLease == Spec => []ProxiedStaysProxied
<1>1. StickyInv => ProxiedStaysProxied
  BY DEF StickyInv
<1> QED
  BY <1>1, RoutingInvariant, PTL

=============================================================================
