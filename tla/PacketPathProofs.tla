-------------------------- MODULE PacketPathProofs --------------------------
(***************************************************************************)
(* What the packet path keeps true for every pool, set of flows, handlers, *)
(* programs, whitelists and upstream addresses.                            *)
(***************************************************************************)
EXTENDS PacketPath, ConnTrackProofs

(* The packet in hand is a real one, a redirected one has a port. *)
LoopInv ==
    /\ rl.pc = "idle" => rl = Idle
    /\ rl.pc # "idle" => rl.flow \in Flows
    /\ rl.pc = "send" => rl.port \in Ports

(* A handler past Accept has a port, and past Get a target. *)
HandlerInv ==
    \A h \in Handlers : hpc[h] # "idle" => hport[h] \in Ports

(* A settled connection is open, has no hijack on record, and none of its  *)
(* packets is on its way to the pool.                                      *)
SettledInv ==
    \A f \in Flows : conn[f].settled =>
        /\ conn[f].phase \in {"open", "closing"}
        /\ policy[f].kind # "intercept"
        /\ rl.flow # f

\* A packet in hand that is no SYN has not been overtaken by a new connection.
HandInv == rl.pc # "idle" /\ rl.seg # "syn" => conn[rl.flow].phase # "syn"

PathInv ==
    /\ TypeOK
    /\ TrackerInv
    /\ LoopInv
    /\ HandlerInv
    /\ HandInv
    /\ SettledInv
    /\ NoMidstreamHijack
    /\ NoOrphanPin

-----------------------------------------------------------------------------
(* Types.                                                                  *)

LEMMA RouteTypes == /\ Direct \in Routes /\ NoPort \in Routes /\ Ports \subseteq Routes
                    /\ Direct \notin Ports /\ NoPort \notin Ports
BY TrackerAssumption DEF Direct, NoPort, Routes, Ports

LEMMA DecisionTypes ==
    /\ NoPolicy \in Decisions /\ Pass \in Decisions /\ Undecided \in Decisions
    /\ \A p \in Routes : Intercept(p) \in Decisions
    /\ \A name : Verdict(name) \in Decisions
BY DEF NoPolicy, Pass, Undecided, Intercept, Block, Decisions, Kinds, Verdict, Routes, Direct

LEMMA ConnectionTypes ==
    ASSUME NEW c \in Connections, NEW s \in Segs, NEW r \in Routes
    PROVE  /\ Sent(c, s, r) \in Connections
           /\ Settle(c, s, r) \in Connections
           /\ Established(c, r) \in Connections
           /\ Closed \in Connections
           /\ \A p \in Procs : [Closed EXCEPT !.phase = "syn", !.owner = p] \in Connections
<1>1. Closed \in Connections
  BY RouteTypes DEF Closed, Connections
<1>2. \A p \in Procs : [Closed EXCEPT !.phase = "syn", !.owner = p] \in Connections
  BY RouteTypes DEF Closed, Connections
<1>3. Sent(c, s, r) \in Connections
  BY DEF Sent, Connections
<1>4. Settle(c, s, r) \in Connections
  BY DEF Settle, Connections
<1>5. Established(c, r) \in Connections
  BY DEF Established, Connections
<1> QED
  BY <1>1, <1>2, <1>3, <1>4, <1>5

LEMMA DeliverType ==
    ASSUME TProxyTypeOK, NEW p \in Ports, NEW s, Deliver(p, s)
    PROVE  listen' \in [Ports -> {"none", "syn", "ready"}]
BY DEF Deliver, TProxyTypeOK

LEMMA PolicySetType ==
    ASSUME PolicyTypeOK, NEW f \in Flows, NEW d \in Decisions, PolicySet(f, d)
    PROVE  PolicyTypeOK'
BY DEF PolicyTypeOK, PolicySet

LEMMA ForwardType ==
    ASSUME PathTypeOK, TProxyTypeOK, NEW f \in Flows, NEW s \in Segs, NEW r \in Routes,
           Forward(f, s, r)
    PROVE  /\ conn' \in [Flows -> Connections]
           /\ out' \in [flow : Flows \cup {NoFlow}, seg : Segs \cup {"reply"}, via : Routes]
           /\ listen' \in [Ports -> {"none", "syn", "ready"}]
<1>1. Settle(Sent(conn[f], s, r), s, r) \in Connections
  BY ConnectionTypes DEF PathTypeOK
<1>2. conn' \in [Flows -> Connections]
  BY <1>1 DEF Forward, PathTypeOK
<1>3. listen' \in [Ports -> {"none", "syn", "ready"}]
  BY DeliverType DEF Forward, TProxyTypeOK, Routes
<1> QED
  BY <1>2, <1>3 DEF Forward

LEMMA DiscardType ==
    ASSUME PathTypeOK, TProxyTypeOK, Discard
    PROVE  /\ conn' \in [Flows -> Connections]
           /\ out' \in [flow : Flows \cup {NoFlow}, seg : Segs \cup {"reply"}, via : Routes]
           /\ listen' \in [Ports -> {"none", "syn", "ready"}]
BY RouteTypes DEF Discard, PathTypeOK, TProxyTypeOK, Nothing, Segs

LEMMA LoopTypes ==
    /\ Idle \in [pc : {"idle", "decide", "register", "send"}, flow : Flows \cup {NoFlow},
                 seg : Segs, port : Routes]
    /\ \A pc \in {"decide", "register", "send"}, f \in Flows, s \in Segs, p \in Routes :
          Hold(pc, f, s, p) =>
             rl' \in [pc : {"idle", "decide", "register", "send"}, flow : Flows \cup {NoFlow},
                      seg : Segs, port : Routes]
BY RouteTypes DEF Idle, Hold, Segs

-----------------------------------------------------------------------------
(* Every step of the packet path is a step of the tracker, or none of its. *)

LEMMA TrackerStep ==
    ASSUME TypeOK, LoopInv, HandlerInv, [Next]_vars
    PROVE  [TrackerNext]_trackerVars
<1>1. CASE UNCHANGED vars
  BY <1>1 DEF vars
<1>2. CASE RecvLoop
  <2>1. ASSUME NEW f \in Flows, Receive(f)
        PROVE  UNCHANGED trackerVars
    BY <2>1 DEF Receive, ReceiveExempt, ReceiveKnown, ReceiveFin, ReceiveStart,
       ReceiveMidstream, Arrives
  <2>2. CASE Decide
    BY <2>2 DEF Decide
  <2>3. CASE Register
    <3>1. rl.flow \in Flows
      BY <2>3 DEF Register, LoopInv
    <3>2. PICK p \in Routes : Set(rl.flow, p)
      BY <2>3 DEF Register
    <3> QED
      BY <3>1, <3>2 DEF TrackerNext, Routes, Direct
  <2>4. CASE Inject
    BY <2>4 DEF Inject
  <2>5. CASE InjectFails
    <3>1. rl.port \in Ports
      BY <2>5 DEF InjectFails, LoopInv
    <3> QED
      BY <2>5, <3>1 DEF InjectFails, TrackerNext
  <2>6. ASSUME NEW p \in Ports, ReverseNAT(p)
        PROVE  UNCHANGED trackerVars
    BY <2>6 DEF ReverseNAT
  <2> QED
    BY <1>2, <2>1, <2>2, <2>3, <2>4, <2>5, <2>6 DEF RecvLoop
<1>3. CASE Clients
  BY <1>3 DEF Clients, Open, PeerAccepts, Vanish, ClientStep
<1>4. CASE Background
  BY <1>4 DEF Background, Collect, LeaseExpires, Forget, DecisionAges, PolicyTick, TrackerNext
<1>5. CASE HandlerStep
  <2>1. CASE \E p \in Ports : Abandon(p)
    BY <2>1 DEF Abandon
  <2>2. CASE \E h \in Handlers, p \in Ports : Accept(h, p)
    BY <2>2 DEF Accept
  <2>3. ASSUME NEW h \in Handlers,
               LookupTarget(h) \/ RelayError(h) \/ CloseConn(h)
        PROVE  UNCHANGED trackerVars
    BY <2>3 DEF LookupTarget, RelayError, CloseConn
  <2>4. ASSUME NEW h \in Handlers, PinTarget(h) \/ Return(h) \/ Unwind(h)
        PROVE  TrackerNext
    <3>1. hport[h] \in Ports
      BY <2>4 DEF PinTarget, Return, Unwind, HandlerInv
    <3> QED
      BY <2>4, <3>1 DEF PinTarget, Return, Unwind, TrackerNext
  <2> QED
    BY <1>5, <2>1, <2>2, <2>3, <2>4 DEF HandlerStep, TProxyNext, Progress
<1>6. CASE SettingsStep
  BY <1>6 DEF SettingsStep, SetWhitelist, SetProxyAddr
<1> QED
  BY <1>1, <1>2, <1>3, <1>4, <1>5, <1>6 DEF Next

-----------------------------------------------------------------------------
(* Type correctness.                                                       *)

RestTypeOK == PolicyTypeOK /\ TProxyTypeOK /\ PathTypeOK

\* The handlers and the settings stand still while the receive loop works.
LEMMA LoopFrame ==
    ASSUME RestTypeOK, UNCHANGED <<Goroutines, Settings>>, PolicyTypeOK',
           listen' \in [Ports -> {"none", "syn", "ready"}],
           conn' \in [Flows -> Connections],
           out' \in [flow : Flows \cup {NoFlow}, seg : Segs \cup {"reply"}, via : Routes],
           rl' \in [pc : {"idle", "decide", "register", "send"}, flow : Flows \cup {NoFlow},
                    seg : Segs, port : Routes]
    PROVE  RestTypeOK'
BY DEF RestTypeOK, TProxyTypeOK, PathTypeOK, Goroutines, Settings

LEMMA ReceiveType ==
    ASSUME RestTypeOK, NEW f \in Flows, Receive(f)
    PROVE  RestTypeOK'
<1> USE DEF RestTypeOK
<1>1. ASSUME NEW s \in Segs, ReceiveExempt(f, s)
      PROVE  RestTypeOK'
  <2>1. Sent(conn[f], s, Direct) \in Connections
    BY ConnectionTypes, RouteTypes DEF PathTypeOK
  <2>2. conn' \in [Flows -> Connections]
    BY <1>1, <2>1 DEF ReceiveExempt, PathTypeOK
  <2>3. out' \in [flow : Flows \cup {NoFlow}, seg : Segs \cup {"reply"}, via : Routes]
    BY <1>1, RouteTypes DEF ReceiveExempt
  <2>4. listen' \in [Ports -> {"none", "syn", "ready"}] /\ PolicyTypeOK'
    BY <1>1 DEF ReceiveExempt, TProxyTypeOK, PolicyTypeOK, policyVars
  <2> QED
    BY <1>1, <2>2, <2>3, <2>4, LoopTypes, LoopFrame DEF ReceiveExempt, Arrives, Finish
<1>2. CASE ReceiveFin(f)
  <2>1. "fin" \in Segs /\ Direct \in Routes
    BY RouteTypes DEF Segs
  <2>2. PolicyTypeOK'
    BY <1>2, PolicySetType, DecisionTypes DEF ReceiveFin, PolicyDelete
  <2> QED
    BY <1>2, <2>1, <2>2, ForwardType, LoopTypes, LoopFrame DEF ReceiveFin, Arrives, Finish
<1>3. ASSUME NEW s \in Segs, ReceiveKnown(f, s)
      PROVE  RestTypeOK'
  <2>1. PolicyTypeOK' /\ policy[f].port \in Routes /\ Direct \in Routes
    BY <1>3, RouteTypes DEF ReceiveKnown, PolicyTypeOK, policyVars, Decisions, Routes, Direct
  <2>2. \E r \in Routes : Forward(f, s, r) \/ Discard
    BY <1>3, <2>1 DEF ReceiveKnown
  <2>3. Finish \/ Hold("register", f, s, NoPort)
    BY <1>3 DEF ReceiveKnown
  <2> QED
    BY <1>3, <2>1, <2>2, <2>3, RouteTypes, ForwardType, DiscardType, LoopTypes, LoopFrame
    DEF ReceiveKnown, Arrives, Finish
<1>4. CASE ReceiveStart(f)
  <2>1. PolicyTypeOK'
    BY <1>4, PolicySetType, DecisionTypes
    DEF ReceiveStart, PolicyDelete, PolicyTypeOK, policyVars
  <2>2. "syn" \in Segs
    BY DEF Segs
  <2> QED
    BY <1>4, <2>1, <2>2, RouteTypes, DiscardType, LoopTypes, LoopFrame
    DEF ReceiveStart, Arrives
<1>5. CASE ReceiveMidstream(f)
  <2>1. "seg" \in Segs /\ Direct \in Routes
    BY RouteTypes DEF Segs
  <2>2. PolicyTypeOK'
    BY <1>5, PolicySetType, DecisionTypes DEF ReceiveMidstream
  <2> QED
    BY <1>5, <2>1, <2>2, ForwardType, LoopTypes, LoopFrame
    DEF ReceiveMidstream, Arrives, Finish
<1> QED
  BY <1>1, <1>2, <1>3, <1>4, <1>5 DEF Receive

LEMMA RestOfLoopType ==
    ASSUME TrackerTypeOK, RestTypeOK, LoopInv, RecvLoop
    PROVE  RestTypeOK'
<1> USE DEF RestTypeOK
<1>1. ASSUME NEW f \in Flows, Receive(f)
      PROVE  RestTypeOK'
  BY <1>1, ReceiveType
<1>2. rl.pc # "idle" => rl.flow \in Flows /\ rl.seg \in Segs /\ rl.port \in Routes
  BY DEF LoopInv, PathTypeOK
<1>3. CASE Decide
  <2>1. PICK name \in {conn[rl.flow].owner, Unknown} :
          \/ /\ Hold("register", rl.flow, rl.seg, NoPort)
             /\ Discard
             /\ UNCHANGED policyVars
          \/ PolicySet(rl.flow, Block) /\ Discard /\ Finish
          \/ /\ PolicySet(rl.flow, Verdict(name))
             /\ Forward(rl.flow, rl.seg, Direct)
             /\ Finish
    BY <1>3 DEF Decide
  <2>2. PolicyTypeOK'
    BY <1>2, <1>3, <2>1, PolicySetType, DecisionTypes, RouteTypes
    DEF Decide, Block, PolicyTypeOK, policyVars
  <2>3. UNCHANGED <<Goroutines, Settings>>
    BY <1>3 DEF Decide
  <2>4. rl.flow \in Flows /\ rl.seg \in Segs
    BY <1>2, <1>3 DEF Decide
  <2> QED
    BY <2>1, <2>2, <2>3, <2>4, RouteTypes, ForwardType, DiscardType, LoopTypes, LoopFrame
    DEF Finish
<1>4. CASE Register
  <2>1. PICK p \in Routes :
          \/ /\ Hold("send", rl.flow, rl.seg, p)
             /\ Discard
             /\ UNCHANGED policyVars
          \/ /\ PolicySet(rl.flow, Pass)
             /\ Forward(rl.flow, rl.seg, Direct)
             /\ Finish
    BY <1>4 DEF Register
  <2>2. rl.flow \in Flows /\ rl.seg \in Segs
    BY <1>2, <1>4 DEF Register
  <2>3. PolicyTypeOK'
    BY <2>1, <2>2, PolicySetType, DecisionTypes DEF PolicyTypeOK, policyVars
  <2>4. UNCHANGED <<Goroutines, Settings>>
    BY <1>4 DEF Register
  <2> QED
    BY <2>1, <2>2, <2>3, <2>4, RouteTypes, ForwardType, DiscardType, LoopTypes, LoopFrame
    DEF Finish
<1>5. CASE Inject
  <2>1. rl.flow \in Flows /\ rl.seg \in Segs /\ rl.port \in Routes
    BY <1>2, <1>5 DEF Inject
  <2>2. PolicyTypeOK'
    BY <1>5, <2>1, PolicySetType, DecisionTypes DEF Inject
  <2> QED
    BY <1>5, <2>1, <2>2, ForwardType, LoopTypes, LoopFrame DEF Inject, Finish
<1>6. CASE InjectFails
  <2>1. rl.flow \in Flows
    BY <1>2, <1>6 DEF InjectFails
  <2>2. PolicyTypeOK'
    BY <1>6, <2>1, PolicySetType, DecisionTypes DEF InjectFails
  <2> QED
    BY <1>6, <2>2, DiscardType, LoopTypes, LoopFrame DEF InjectFails, Finish
<1>7. ASSUME NEW p \in Ports, ReverseNAT(p)
      PROVE  RestTypeOK'
  <2>1. entries[p] \in Flows
    BY <1>7 DEF ReverseNAT, HasMapped, TrackerTypeOK
  <2>2. Established(conn[entries[p]], p) \in Connections
    BY <2>1, ConnectionTypes, RouteTypes DEF PathTypeOK, Segs
  <2>3. conn' \in [Flows -> Connections]
    BY <1>7, <2>1, <2>2 DEF ReverseNAT, PathTypeOK
  <2>4. out' \in [flow : Flows \cup {NoFlow}, seg : Segs \cup {"reply"}, via : Routes]
    BY <1>7, <2>1, RouteTypes DEF ReverseNAT
  <2> QED
    BY <1>7, <2>3, <2>4
    DEF ReverseNAT, PolicyTypeOK, TProxyTypeOK, PathTypeOK, policyVars, tproxyVars, Settings
<1> QED
  BY <1>1, <1>3, <1>4, <1>5, <1>6, <1>7 DEF RecvLoop

LEMMA ClientsType ==
    ASSUME RestTypeOK, Clients
    PROVE  RestTypeOK'
<1> USE DEF RestTypeOK
<1>1. PICK f \in Flows : (\E p \in Procs : Open(f, p)) \/ PeerAccepts(f) \/ Vanish(f)
  BY DEF Clients
<1>2. ClientStep
  BY <1>1 DEF Open, PeerAccepts, Vanish
<1>3. "syn" \in Segs /\ conn[f] \in Connections
  BY DEF Segs, PathTypeOK
<1>4. \E c \in Connections : conn' = [conn EXCEPT ![f] = c]
  BY <1>1, <1>3, ConnectionTypes, RouteTypes DEF Open, PeerAccepts, Vanish
<1>5. conn' \in [Flows -> Connections]
  BY <1>4 DEF PathTypeOK
<1>6. out' \in [flow : Flows \cup {NoFlow}, seg : Segs \cup {"reply"}, via : Routes]
  BY <1>2, RouteTypes DEF ClientStep, Nothing, Segs
<1> QED
  BY <1>2, <1>5, <1>6
  DEF ClientStep, PolicyTypeOK, TProxyTypeOK, PathTypeOK, policyVars, tproxyVars, Settings

LEMMA BesideType ==
    ASSUME PathTypeOK, Beside, whitelist' \subseteq Procs, exempt' \subseteq Flows
    PROVE  PathTypeOK'
BY RouteTypes DEF PathTypeOK, Beside, Nothing, Segs

LEMMA BackgroundType ==
    ASSUME RestTypeOK, Background
    PROVE  RestTypeOK'
<1> USE DEF RestTypeOK
<1>1. Beside /\ UNCHANGED <<tproxyVars, Settings>>
  BY DEF Background, Collect, LeaseExpires, Forget, DecisionAges, TrackerTick, PolicyTick
<1>2. PolicyTypeOK'
  <2>1. CASE \E f \in Flows : Forget(f)
    BY <2>1, DecisionTypes DEF Forget, Sweep, PolicyDelete, PolicySet, PolicyTypeOK
  <2>2. CASE \E f \in Flows : DecisionAges(f)
    BY <2>2 DEF DecisionAges, Age, PolicyTypeOK
  <2>3. CASE UNCHANGED policyVars
    BY <2>3 DEF PolicyTypeOK, policyVars
  <2> QED
    BY <2>1, <2>2, <2>3 DEF Background, Collect, LeaseExpires, TrackerTick
<1>3. whitelist' \subseteq Procs /\ exempt' \subseteq Flows
  BY <1>1 DEF PathTypeOK, Settings
<1> QED
  BY <1>1, <1>2, <1>3, BesideType DEF TProxyTypeOK, tproxyVars

LEMMA HandlerType ==
    ASSUME TrackerTypeOK, RestTypeOK, HandlerInv, HandlerStep
    PROVE  RestTypeOK' /\ HandlerInv'
<1> USE DEF RestTypeOK
<1>1. Beside /\ UNCHANGED <<policyVars, Settings>>
  BY DEF HandlerStep, HandlerFrame
<1>2. TProxyTypeOK' /\ HandlerInv'
  <2>1. CASE \E p \in Ports : Abandon(p)
    BY <2>1 DEF Abandon, TProxyTypeOK, HandlerInv
  <2>2. CASE \E h \in Handlers, p \in Ports : Accept(h, p)
    BY <2>2 DEF Accept, TProxyTypeOK, HandlerInv
  <2>3. ASSUME NEW h \in Handlers, LookupTarget(h)
        PROVE  TProxyTypeOK' /\ HandlerInv'
    <3>1. entries[hport[h]] \in Flows \cup {NoFlow}
      BY <2>3 DEF LookupTarget, HandlerInv, TrackerTypeOK
    <3> QED
      BY <2>3, <3>1 DEF LookupTarget, TProxyTypeOK, HandlerInv
  <2>4. ASSUME NEW h \in Handlers, PinTarget(h) \/ RelayError(h) \/ Return(h)
        PROVE  TProxyTypeOK' /\ HandlerInv'
    BY <2>4 DEF PinTarget, RelayError, Return, TProxyTypeOK, HandlerInv
  <2>5. ASSUME NEW h \in Handlers, Unwind(h) \/ CloseConn(h)
        PROVE  TProxyTypeOK' /\ HandlerInv'
    BY <2>5, RouteTypes DEF Unwind, CloseConn, Done, TProxyTypeOK, HandlerInv
  <2> QED
    BY <2>1, <2>2, <2>3, <2>4, <2>5 DEF HandlerStep, TProxyNext, Progress
<1>3. whitelist' \subseteq Procs /\ exempt' \subseteq Flows
  BY <1>1 DEF PathTypeOK, Settings
<1> QED
  BY <1>1, <1>2, <1>3, BesideType DEF PolicyTypeOK, policyVars

LEMMA SettingsType ==
    ASSUME RestTypeOK, SettingsStep
    PROVE  RestTypeOK'
<1> USE DEF RestTypeOK
<1>1. Beside /\ UNCHANGED <<policyVars, tproxyVars>>
  BY DEF SettingsStep, SetWhitelist, SetProxyAddr
<1>2. whitelist' \subseteq Procs /\ exempt' \subseteq Flows
  BY PathAssumption DEF SettingsStep, SetWhitelist, SetProxyAddr, PathTypeOK
<1> QED
  BY <1>1, <1>2, BesideType DEF PolicyTypeOK, TProxyTypeOK, policyVars, tproxyVars

LEMMA RestType ==
    ASSUME TypeOK, LoopInv, HandlerInv, [Next]_vars
    PROVE  RestTypeOK'
<1>1. TrackerTypeOK /\ RestTypeOK
  BY DEF TypeOK, RestTypeOK
<1>2. CASE UNCHANGED vars
  BY <1>1, <1>2 DEF vars, RestTypeOK, PolicyTypeOK, TProxyTypeOK, PathTypeOK,
     policyVars, tproxyVars, pathVars
<1> QED
  BY <1>1, <1>2, RestOfLoopType, ClientsType, BackgroundType, HandlerType, SettingsType DEF Next

-----------------------------------------------------------------------------
(* The receive loop and the handlers.                                      *)

LEMMA LoopStep ==
    ASSUME TypeOK, LoopInv, [Next]_vars
    PROVE  LoopInv'
<1>1. CASE RecvLoop
  <2>1. ASSUME NEW f \in Flows, Receive(f)
        PROVE  LoopInv'
    BY <2>1 DEF Receive, ReceiveExempt, ReceiveKnown, ReceiveFin, ReceiveStart,
       ReceiveMidstream, Finish, Hold, Idle, LoopInv
  <2>2. CASE Decide
    BY <2>2 DEF Decide, Finish, Hold, Idle, LoopInv
  <2>3. CASE Register
    BY <2>3 DEF Register, Finish, Hold, Idle, LoopInv, Routes, Direct
  <2>4. CASE Inject \/ InjectFails
    BY <2>4 DEF Inject, InjectFails, Finish, Idle, LoopInv
  <2>5. ASSUME NEW p \in Ports, ReverseNAT(p)
        PROVE  LoopInv'
    BY <2>5 DEF ReverseNAT, LoopInv
  <2> QED
    BY <1>1, <2>1, <2>2, <2>3, <2>4, <2>5 DEF RecvLoop
<1>2. CASE UNCHANGED rl
  BY <1>2 DEF LoopInv
<1> QED
  BY <1>1, <1>2 DEF Next, vars, pathVars, Clients, Open, PeerAccepts, Vanish, ClientStep,
     Background, Collect, LeaseExpires, Forget, DecisionAges, TrackerTick, PolicyTick,
     HandlerStep, HandlerFrame, SettingsStep, SetWhitelist, SetProxyAddr, Beside

LEMMA HandlerInvStep ==
    ASSUME TypeOK, LoopInv, HandlerInv, [Next]_vars
    PROVE  HandlerInv'
<1>1. CASE HandlerStep
  BY <1>1, HandlerType DEF TypeOK, RestTypeOK
<1>2. CASE UNCHANGED Goroutines
  BY <1>2 DEF HandlerInv, Goroutines
<1>3. HandlerStep \/ UNCHANGED Goroutines
  <2>1. ASSUME RecvLoop PROVE UNCHANGED Goroutines
    BY <2>1 DEF RecvLoop, Receive, ReceiveExempt, ReceiveKnown, ReceiveFin, ReceiveStart,
       ReceiveMidstream, Arrives, Decide, Register, Inject, InjectFails, ReverseNAT,
       tproxyVars, Goroutines
  <2> QED
    BY <2>1 DEF Next, vars, Clients, Open, PeerAccepts, Vanish, ClientStep,
       Background, Collect, LeaseExpires, Forget, DecisionAges, TrackerTick, PolicyTick,
       SettingsStep, SetWhitelist, SetProxyAddr, tproxyVars, Goroutines
<1> QED
  BY <1>1, <1>2, <1>3

LEMMA PinStep ==
    ASSUME TypeOK, HandlerInv, NoOrphanPin, [Next]_vars
    PROVE  NoOrphanPin'
<1> USE DEF NoOrphanPin
<1>1. CASE HandlerStep
  <2>1. CASE \E p \in Ports : Abandon(p)
    BY <2>1 DEF Abandon, trackerVars
  <2>2. ASSUME NEW h \in Handlers, NEW p \in Ports, Accept(h, p)
        PROVE  NoOrphanPin'
    BY <2>2 DEF Accept, trackerVars, TypeOK, TProxyTypeOK
  <2>3. ASSUME NEW h \in Handlers,
               LookupTarget(h) \/ RelayError(h) \/ CloseConn(h)
        PROVE  NoOrphanPin'
    BY <2>3 DEF LookupTarget, RelayError, CloseConn, Done, trackerVars, TypeOK, TProxyTypeOK
  <2>4. ASSUME NEW h \in Handlers, PinTarget(h)
        PROVE  NoOrphanPin'
    BY <2>4 DEF PinTarget, Activate, TypeOK, TProxyTypeOK
  <2>5. ASSUME NEW h \in Handlers, Return(h) \/ Unwind(h)
        PROVE  NoOrphanPin'
    <3>1. active' = active \ {hport[h]}
      BY <2>5 DEF Return, Unwind, Delete
    <3>2. \A k \in Handlers \ {h} : hport'[k] = hport[k] /\ hpc'[k] = hpc[k]
      BY <2>5 DEF Return, Unwind, Done, TypeOK, TProxyTypeOK
    <3> QED
      BY <3>1, <3>2
  <2> QED
    BY <1>1, <2>1, <2>2, <2>3, <2>4, <2>5 DEF HandlerStep, TProxyNext, Progress
<1>2. CASE active' \subseteq active /\ UNCHANGED Goroutines
  BY <1>2 DEF Goroutines
<1>3. HandlerStep \/ (active' \subseteq active /\ UNCHANGED Goroutines)
  <2>1. ASSUME RecvLoop PROVE active' \subseteq active /\ UNCHANGED Goroutines
    <3>1. ASSUME NEW f \in Flows, Receive(f)
          PROVE  UNCHANGED active /\ UNCHANGED Goroutines
      BY <3>1 DEF Receive, ReceiveExempt, ReceiveKnown, ReceiveFin, ReceiveStart,
         ReceiveMidstream, Arrives, trackerVars
    <3>2. CASE Decide \/ Inject
      BY <3>2 DEF Decide, Inject, trackerVars
    <3>3. CASE Register
      BY <3>3 DEF Register, Set, Reuse, Lease, Exhausted, trackerVars
    <3>4. CASE InjectFails
      BY <3>4 DEF InjectFails, Delete
    <3>5. CASE \E p \in Ports : ReverseNAT(p)
      BY <3>5 DEF ReverseNAT, trackerVars, tproxyVars, Goroutines
    <3> QED
      BY <2>1, <3>1, <3>2, <3>3, <3>4, <3>5 DEF RecvLoop
  <2>2. ASSUME Background PROVE UNCHANGED active /\ UNCHANGED Goroutines
    BY <2>2 DEF Background, Collect, LeaseExpires, Forget, DecisionAges, TrackerTick,
       PolicyTick, GC, Expire, trackerVars, tproxyVars, Goroutines
  <2>3. ASSUME Clients \/ SettingsStep \/ UNCHANGED vars
        PROVE  UNCHANGED active /\ UNCHANGED Goroutines
    BY <2>3 DEF Clients, Open, PeerAccepts, Vanish, ClientStep, SettingsStep, SetWhitelist,
       SetProxyAddr, vars, trackerVars, tproxyVars, Goroutines
  <2> QED
    BY <2>1, <2>2, <2>3 DEF Next
<1> QED
  BY <1>1, <1>2, <1>3

-----------------------------------------------------------------------------
(* Settled connections.                                                    *)

SettledOK == SettledInv /\ NoMidstreamHijack

\* A packet goes out as decided: directly with no hijack on record, or to a
\* port from a flow that has not settled.
LEMMA ForwardSettles ==
    ASSUME TypeOK, SettledInv,
           NEW f \in Flows, NEW s \in Segs, NEW r \in Routes, Forward(f, s, r), Finish,
           conn[f].phase = "syn" => s = "syn",
           IF r = Direct THEN policy'[f].kind # "intercept" ELSE ~conn[f].settled,
           \A g \in Flows \ {f} : policy'[g] = policy[g]
    PROVE  SettledOK'
<1> DEFINE c == Settle(Sent(conn[f], s, r), s, r)
<1>1. conn' = [conn EXCEPT ![f] = c] /\ rl' = Idle
      /\ out' = [flow |-> f, seg |-> s, via |-> r]
  BY DEF Forward, Finish
<1>2. conn[f] \in Connections
  BY DEF TypeOK, PathTypeOK
<1>3. c.settled => \/ conn[f].settled
                   \/ s # "syn" /\ r = Direct /\ conn[f].phase # "closed"
  BY <1>2 DEF Settle, Sent, Connections
<1>4. c.settled => c.phase \in {"open", "closing"}
  <2>1. conn[f].settled => conn[f].phase \in {"open", "closing"}
    BY DEF SettledInv
  <2>2. c.phase = conn[f].phase \/ c.phase = "closing"
    BY <1>2 DEF Settle, Sent, Connections
  <2> QED
    BY <1>2, <1>3, <2>1, <2>2 DEF Connections
<1>5. NoFlow \notin Flows
  BY TrackerAssumption
<1>6. conn'[f] = c /\ \A g \in Flows \ {f} : conn'[g] = conn[g]
  BY <1>1 DEF TypeOK, PathTypeOK
<1>7. SettledInv'
  <2>1. ASSUME NEW g \in Flows, conn'[g].settled
        PROVE  /\ conn'[g].phase \in {"open", "closing"}
               /\ policy'[g].kind # "intercept"
               /\ rl'.flow # g
    <3>1. rl'.flow # g
      BY <1>1, <1>5 DEF Idle
    <3>2. CASE g = f
      <4>1. c.settled => r = Direct
        BY <1>3
      <4> QED
        BY <1>4, <1>6, <2>1, <3>1, <3>2, <4>1
    <3>3. CASE g # f
      BY <1>6, <2>1, <3>1, <3>3 DEF SettledInv
    <3> QED
      BY <3>2, <3>3
  <2> QED
    BY <2>1 DEF SettledInv
<1>8. NoMidstreamHijack'
  BY <1>1, <1>3, <1>6 DEF NoMidstreamHijack
<1> QED
  BY <1>7, <1>8 DEF SettledOK

\* A step that injects nothing, settles nothing and records no new hijack
\* against a settled connection.
LEMMA QuietSettles ==
    ASSUME SettledInv, out' = Nothing,
           \A f \in Flows : conn'[f].settled => conn'[f] = conn[f] /\ rl'.flow # f,
           \A f \in Flows : conn[f].settled =>
               policy'[f].kind = policy[f].kind \/ policy'[f].kind # "intercept"
    PROVE  SettledOK'
BY DEF SettledOK, SettledInv, NoMidstreamHijack, Nothing, Direct

LEMMA ReceiveSettles ==
    ASSUME TypeOK, SettledInv, NEW f \in Flows, Receive(f)
    PROVE  SettledOK'
<1>1. /\ policy \in [Flows -> Decisions]
      /\ conn \in [Flows -> Connections]
      /\ NoFlow \notin Flows
  BY TrackerAssumption DEF TypeOK, PolicyTypeOK, PathTypeOK
<1>2. ASSUME NEW s \in Segs, ReceiveExempt(f, s)
      PROVE  SettledOK'
  <2>1. Sent(conn[f], s, Direct).settled = conn[f].settled
    BY <1>1 DEF Sent, Connections
  <2>2. conn[f].phase \in {"open", "closing"}
        => Sent(conn[f], s, Direct).phase \in {"open", "closing"}
    BY <1>1 DEF Sent, Connections
  <2>3. conn'[f] = Sent(conn[f], s, Direct) /\ \A g \in Flows \ {f} : conn'[g] = conn[g]
    BY <1>1, <1>2 DEF ReceiveExempt
  <2>4. out'.via = Direct /\ rl'.flow = NoFlow /\ policy' = policy
    BY <1>2 DEF ReceiveExempt, Finish, Idle, policyVars
  <2> QED
    BY <1>1, <2>1, <2>2, <2>3, <2>4 DEF SettledOK, SettledInv, NoMidstreamHijack
<1>3. CASE ReceiveFin(f)
  <2>1. policy' = [policy EXCEPT ![f] = NoPolicy]
    BY <1>3 DEF ReceiveFin, PolicyDelete, PolicySet
  <2>2. conn[f].phase # "syn"
    BY <1>3 DEF ReceiveFin, Arrives, Sends
  <2> QED
    BY <1>1, <1>3, <2>1, <2>2, ForwardSettles, RouteTypes DEF ReceiveFin, NoPolicy, Segs
<1>4. ASSUME NEW s \in Segs, ReceiveKnown(f, s)
      PROVE  SettledOK'
  <2>1. policy' = policy /\ (conn[f].phase = "syn" => s = "syn")
    BY <1>4 DEF ReceiveKnown, Arrives, Sends, policyVars
  <2>2. CASE policy[f].kind # "intercept" /\ Forward(f, s, Direct) /\ Finish
    BY <2>1, <2>2, ForwardSettles, RouteTypes
  <2>3. CASE policy[f].kind = "intercept" /\ HasMapped(policy[f].port)
             /\ Forward(f, s, policy[f].port) /\ Finish
    <3>1. policy[f].port \in Routes /\ policy[f].port # Direct
      BY <2>3, RouteTypes DEF HasMapped
    <3>2. ~conn[f].settled
      BY <2>3 DEF SettledInv
    <3> QED
      BY <2>1, <2>3, <3>1, <3>2, ForwardSettles
  <2>4. CASE Discard /\ (Finish \/ (policy[f].kind = "intercept" /\ Hold("register", f, s, NoPort)))
    <3>1. conn' = conn /\ out' = Nothing
      BY <2>4 DEF Discard
    <3>2. \A g \in Flows : conn[g].settled => rl'.flow # g
      BY <1>1, <2>4 DEF Finish, Idle, Hold, SettledInv
    <3> QED
      BY <2>1, <3>1, <3>2, QuietSettles
  <2> QED
    BY <1>4, <2>2, <2>3, <2>4 DEF ReceiveKnown
<1>5. CASE ReceiveStart(f)
  <2>1. conn' = conn /\ out' = Nothing /\ rl'.flow = f /\ ~conn[f].settled
    BY <1>5 DEF ReceiveStart, Discard, Hold, Arrives, Sends, SettledInv
  <2>2. \A g \in Flows : policy'[g] = policy[g] \/ policy'[g] = NoPolicy
    BY <1>1, <1>5 DEF ReceiveStart, PolicyDelete, PolicySet, policyVars
  <2> QED
    BY <2>1, <2>2, QuietSettles DEF NoPolicy
<1>6. CASE ReceiveMidstream(f)
  <2>1. policy' = [policy EXCEPT ![f] = Pass]
    BY <1>6 DEF ReceiveMidstream, PolicySet
  <2>2. conn[f].phase # "syn"
    BY <1>6 DEF ReceiveMidstream, Arrives, Sends
  <2> QED
    BY <1>1, <1>6, <2>1, <2>2, ForwardSettles, RouteTypes DEF ReceiveMidstream, Pass, Segs
<1> QED
  BY <1>2, <1>3, <1>4, <1>5, <1>6 DEF Receive

LEMMA HandStep ==
    ASSUME TypeOK, LoopInv, HandInv, [Next]_vars
    PROVE  HandInv'
<1>1. conn \in [Flows -> Connections]
  BY DEF TypeOK, PathTypeOK
<1>2. CASE RecvLoop
  <2>1. ASSUME NEW f \in Flows, Receive(f)
        PROVE  HandInv'
    <3>1. ASSUME NEW s \in Segs, ReceiveKnown(f, s)
          PROVE  HandInv'
      BY <3>1 DEF ReceiveKnown, Arrives, Sends, Discard, Finish, Hold, Idle, HandInv
    <3>2. ASSUME NEW s \in Segs, ReceiveExempt(f, s)
          PROVE  HandInv'
      BY <3>2 DEF ReceiveExempt, Finish, Idle, HandInv
    <3>3. CASE ReceiveFin(f) \/ ReceiveStart(f) \/ ReceiveMidstream(f)
      BY <3>3 DEF ReceiveFin, ReceiveStart, ReceiveMidstream, Finish, Hold, Idle, HandInv
    <3> QED
      BY <2>1, <3>1, <3>2, <3>3 DEF Receive
  <2>2. CASE Decide
    BY <2>2 DEF Decide, Discard, Finish, Hold, Idle, HandInv
  <2>3. CASE Register
    BY <2>3 DEF Register, Discard, Finish, Hold, Idle, HandInv
  <2>4. CASE Inject \/ InjectFails
    BY <2>4 DEF Inject, InjectFails, Finish, Idle, HandInv
  <2>5. CASE \E p \in Ports : ReverseNAT(p)
    BY <2>5 DEF ReverseNAT, Idle, HandInv
  <2> QED
    BY <1>2, <2>1, <2>2, <2>3, <2>4, <2>5 DEF RecvLoop
<1>3. CASE Clients
  <2>1. PICK f \in Flows : (\E p \in Procs : Open(f, p)) \/ PeerAccepts(f) \/ Vanish(f)
    BY <1>3 DEF Clients
  <2>2. rl' = rl
    BY <2>1 DEF Open, PeerAccepts, Vanish, ClientStep
  <2>3. CASE \E p \in Procs : Open(f, p)
    BY <1>1, <2>2, <2>3 DEF Open, HandInv
  <2>4. CASE PeerAccepts(f) \/ Vanish(f)
    <3>1. \E c \in {Closed, Established(conn[f], Direct)} : conn' = [conn EXCEPT ![f] = c]
      BY <2>4 DEF PeerAccepts, Vanish
    <3>2. conn[f] \in Connections
      BY <1>1
    <3>3. Closed.phase # "syn" /\ Established(conn[f], Direct).phase # "syn"
      BY <3>2 DEF Established, Closed, Connections
    <3>4. conn'[f].phase # "syn" /\ \A g \in Flows \ {f} : conn'[g] = conn[g]
      BY <1>1, <3>1, <3>3
    <3> QED
      BY <2>2, <3>4 DEF HandInv, LoopInv
  <2> QED
    BY <2>1, <2>3, <2>4
<1>4. CASE UNCHANGED <<rl, conn>>
  BY <1>4 DEF HandInv
<1> QED
  BY <1>2, <1>3, <1>4 DEF Next, vars, pathVars, Background, Collect, LeaseExpires, Forget,
     DecisionAges, TrackerTick, PolicyTick, HandlerStep, HandlerFrame, SettingsStep,
     SetWhitelist, SetProxyAddr, Beside

LEMMA SettleStep ==
    ASSUME TypeOK, LoopInv, HandInv, SettledInv, NoMidstreamHijack, [Next]_vars
    PROVE  SettledOK'
<1>1. /\ policy \in [Flows -> Decisions]
      /\ conn \in [Flows -> Connections]
      /\ NoFlow \notin Flows
  BY TrackerAssumption DEF TypeOK, PolicyTypeOK, PathTypeOK
<1>2. rl.pc # "idle" => /\ rl.flow \in Flows /\ rl.seg \in Segs
                        /\ conn[rl.flow].phase = "syn" => rl.seg = "syn"
                        /\ ~conn[rl.flow].settled
  BY DEF LoopInv, HandInv, SettledInv, TypeOK, PathTypeOK
<1>3. CASE RecvLoop
  <2>1. ASSUME NEW f \in Flows, Receive(f)
        PROVE  SettledOK'
    BY <2>1, ReceiveSettles
  <2>2. CASE Decide
    <3>0. rl.pc # "idle"
      BY <2>2 DEF Decide
    <3>1. PICK name :
            \/ /\ Hold("register", rl.flow, rl.seg, NoPort)
               /\ Discard
               /\ UNCHANGED policyVars
            \/ PolicySet(rl.flow, Block) /\ Discard /\ Finish
            \/ /\ Verdict(name).kind # "intercept"
               /\ PolicySet(rl.flow, Verdict(name))
               /\ Forward(rl.flow, rl.seg, Direct)
               /\ Finish
      BY <2>2 DEF Decide
    <3>2. CASE /\ Hold("register", rl.flow, rl.seg, NoPort)
               /\ Discard
               /\ UNCHANGED policyVars
      BY <1>2, <3>0, <3>2, QuietSettles DEF Hold, Discard, policyVars
    <3>3. CASE PolicySet(rl.flow, Block) /\ Discard /\ Finish
      <4>1. \A f \in Flows : conn[f].settled => policy'[f] = policy[f]
        BY <1>1, <1>2, <3>0, <3>3 DEF PolicySet
      <4> QED
        BY <1>1, <3>3, <4>1, QuietSettles DEF Discard, Finish, Idle
    <3>4. CASE /\ Verdict(name).kind # "intercept"
               /\ PolicySet(rl.flow, Verdict(name))
               /\ Forward(rl.flow, rl.seg, Direct)
               /\ Finish
      <4>1. /\ policy'[rl.flow].kind # "intercept"
            /\ \A g \in Flows \ {rl.flow} : policy'[g] = policy[g]
        BY <1>1, <1>2, <3>0, <3>4 DEF PolicySet
      <4> QED
        BY <1>2, <3>0, <3>4, <4>1, ForwardSettles, RouteTypes
    <3> QED
      BY <3>1, <3>2, <3>3, <3>4
  <2>3. CASE Register
    <3>0. rl.pc # "idle"
      BY <2>3 DEF Register
    <3>1. CASE \E p : Hold("send", rl.flow, rl.seg, p) /\ Discard /\ UNCHANGED policyVars
      BY <1>2, <3>0, <3>1, QuietSettles DEF Hold, Discard, policyVars
    <3>2. CASE PolicySet(rl.flow, Pass) /\ Forward(rl.flow, rl.seg, Direct) /\ Finish
      <4>1. /\ policy'[rl.flow].kind # "intercept"
            /\ \A g \in Flows \ {rl.flow} : policy'[g] = policy[g]
        BY <1>1, <1>2, <3>0, <3>2 DEF PolicySet, Pass
      <4> QED
        BY <1>2, <3>0, <3>2, <4>1, ForwardSettles, RouteTypes
    <3> QED
      BY <2>3, <3>1, <3>2 DEF Register
  <2>4. CASE Inject
    <3>1. rl.pc # "idle" /\ rl.port \in Routes /\ rl.port # Direct
      BY <2>4, RouteTypes DEF Inject, LoopInv
    <3>2. \A g \in Flows \ {rl.flow} : policy'[g] = policy[g]
      BY <1>1, <2>4 DEF Inject, PolicySet
    <3> QED
      BY <1>2, <2>4, <3>1, <3>2, ForwardSettles DEF Inject
  <2>5. CASE InjectFails
    <3>1. \A f \in Flows : policy'[f].kind = policy[f].kind \/ policy'[f].kind # "intercept"
      BY <1>1, <1>2, <2>5 DEF InjectFails, PolicySet, Pass
    <3> QED
      BY <1>1, <2>5, <3>1, QuietSettles DEF InjectFails, Discard, Finish, Idle
  <2>6. ASSUME NEW p \in Ports, ReverseNAT(p)
        PROVE  SettledOK'
    <3>1. entries[p] \in Flows
      BY <2>6 DEF ReverseNAT, HasMapped, TypeOK, TrackerTypeOK
    <3>2. \A f \in Flows : /\ conn'[f].settled = conn[f].settled
                           /\ conn'[f].phase = conn[f].phase \/ conn'[f].phase = "open"
      BY <1>1, <2>6, <3>1 DEF ReverseNAT, Established, Connections
    <3>3. policy' = policy /\ rl' = rl /\ out'.seg = "reply"
      BY <2>6 DEF ReverseNAT, policyVars
    <3>4. SettledInv'
      BY <3>2, <3>3 DEF SettledInv
    <3> QED
      BY <3>3, <3>4 DEF SettledOK, NoMidstreamHijack
  <2> QED
    BY <1>3, <2>1, <2>2, <2>3, <2>4, <2>5, <2>6 DEF RecvLoop
<1>4. CASE Clients
  <2>1. PICK f \in Flows : (\E p \in Procs : Open(f, p)) \/ PeerAccepts(f) \/ Vanish(f)
    BY <1>4 DEF Clients
  <2>2. ClientStep
    BY <2>1 DEF Open, PeerAccepts, Vanish
  <2>3. ~conn'[f].settled /\ \A g \in Flows \ {f} : conn'[g] = conn[g]
    <3>1. CASE \E p \in Procs : Open(f, p)
      BY <1>1, <3>1 DEF Open, Closed
    <3>2. CASE PeerAccepts(f)
      <4>1. ~conn[f].settled /\ conn[f] \in Connections
        BY <1>1, <3>2 DEF PeerAccepts, SettledInv
      <4>2. ~Established(conn[f], Direct).settled
        BY <4>1 DEF Established, Connections
      <4> QED
        BY <1>1, <3>2, <4>2 DEF PeerAccepts
    <3>3. CASE Vanish(f)
      BY <1>1, <3>3 DEF Vanish, Closed
    <3> QED
      BY <2>1, <3>1, <3>2, <3>3
  <2> QED
    BY <1>1, <2>2, <2>3, QuietSettles DEF ClientStep, policyVars, SettledInv
<1>5. CASE Background \/ HandlerStep \/ SettingsStep
  <2>1. Beside
    BY <1>5 DEF Background, Collect, LeaseExpires, Forget, DecisionAges, TrackerTick,
       PolicyTick, HandlerStep, HandlerFrame, SettingsStep, SetWhitelist, SetProxyAddr
  <2>2. \A f \in Flows : policy'[f] = policy[f] \/ policy'[f] = NoPolicy
    BY <1>1, <1>5 DEF Background, Collect, LeaseExpires, Forget, DecisionAges, TrackerTick,
       Sweep, PolicyDelete, PolicySet, Age, HandlerStep, HandlerFrame, SettingsStep,
       SetWhitelist, SetProxyAddr, policyVars
  <2> QED
    BY <2>1, <2>2, QuietSettles DEF Beside, NoPolicy, SettledInv
<1>6. CASE UNCHANGED vars
  BY <1>6 DEF vars, policyVars, pathVars, SettledOK, SettledInv, NoMidstreamHijack
<1> QED
  BY <1>3, <1>4, <1>5, <1>6 DEF Next

-----------------------------------------------------------------------------
(* Ports and their tenants.                                                *)

(* Until the pool wraps, a port that a decision, the packet in hand or a   *)
(* handler remembers is remembered by its one and only tenant.             *)
PolicyPorts == \A f \in Flows : Leased(f) => lessee[policy[f].port] = f
LoopPort == rl.pc = "send" => lessee[rl.port] = rl.flow
HandlerPorts ==
    \A h \in Handlers : hpc[h] \in {"found", "running", "broken"} =>
        htarget[h] # NoFlow /\ lessee[hport[h]] = htarget[h]

PortInv == FirstLap => PolicyPorts /\ LoopPort /\ HandlerPorts

LEMMA TenantStays ==
    ASSUME TrackerTypeOK, [TrackerNext]_trackerVars
    PROVE  /\ \A p \in Ports : lessee[p] # NoFlow => lessee'[p] = lessee[p]
           /\ FirstLap' => FirstLap
<1>1. UNCHANGED lessee \/ \E f \in Flows, p \in Ports : Lease(f, p)
  <2>1. ASSUME NEW f \in Flows, NEW p \in Ports \cup {NoPort}, Set(f, p)
        PROVE  UNCHANGED lessee \/ \E g \in Flows, q \in Ports : Lease(g, q)
    BY <2>1 DEF Set, Reuse, Lease, Exhausted, FirstFree, Free, Allocatable, trackerVars
  <2>2. ASSUME NEW p \in Ports, Activate(p) \/ Delete(p) \/ Expire(p)
        PROVE  UNCHANGED lessee
    BY <2>2 DEF Activate, Delete, Drop, Expire
  <2>3. GC => UNCHANGED lessee
    BY DEF GC, Drop
  <2> QED
    BY <2>1, <2>2, <2>3 DEF TrackerNext, trackerVars
<1>2. \A p \in Ports : lessee[p] # NoFlow => lessee'[p] = lessee[p]
  BY <1>1 DEF Lease, TrackerTypeOK
<1>3. Allocatable \subseteq Ports /\ Allocatable' = Allocatable
  BY DEF Allocatable
<1> QED
  BY <1>2, <1>3 DEF FirstLap

LEMMA SetGrants ==
    ASSUME TrackerInv, NEW f \in Flows, NEW p \in Ports, Set(f, p)
    PROVE  entries'[p] = f
<1>1. p # NoPort
  BY RouteTypes
<1>2. CASE Reuse(f, p)
  BY <1>2 DEF Reuse, Registered, trackerVars, TrackerInv, IndexAgrees
<1>3. CASE Lease(f, p)
  BY <1>3 DEF Lease, TrackerInv, TrackerTypeOK
<1> QED
  BY <1>1, <1>2, <1>3 DEF Set, Exhausted

LEMMA PolicyPortsStep ==
    ASSUME PathInv, PolicyPorts, LoopPort, [Next]_vars, [TrackerNext]_trackerVars
    PROVE  PolicyPorts'
<1>1. /\ policy \in [Flows -> Decisions]
      /\ \A f \in Flows : Leased(f) => policy[f].port \in Ports
      /\ TrackerTypeOK /\ NoFlow \notin Flows
  BY TrackerAssumption DEF PathInv, TypeOK, PolicyTypeOK, Decisions, Leased
<1>2. ASSUME \A f \in Flows : \/ policy'[f] = policy[f]
                              \/ policy'[f].kind # "intercept"
                              \/ policy'[f].port = NoPort
      PROVE  PolicyPorts'
  BY <1>1, <1>2, TenantStays DEF PolicyPorts, Leased
<1>3. CASE Inject
  <2>1. rl.flow \in Flows /\ rl.port \in Ports /\ lessee[rl.port] = rl.flow
    BY <1>3 DEF Inject, PathInv, LoopInv, LoopPort
  <2>2. lessee' = lessee /\ policy' = [policy EXCEPT ![rl.flow] = Intercept(rl.port)]
    BY <1>3 DEF Inject, PolicySet, trackerVars
  <2>3. policy'[rl.flow].port = rl.port /\ \A f \in Flows \ {rl.flow} : policy'[f] = policy[f]
    BY <1>1, <2>1, <2>2 DEF Intercept
  <2> QED
    BY <2>1, <2>2, <2>3 DEF PolicyPorts, Leased
<1>4. CASE Decide \/ Register \/ InjectFails
  <2>1. rl.flow \in Flows
    BY <1>4 DEF Decide, Register, InjectFails, PathInv, LoopInv
  <2>2. policy' = policy \/ \E d \in {Pass, Block} \cup {Verdict(name) : name \in Procs \cup {Unknown}} :
                              PolicySet(rl.flow, d)
    <3>1. conn[rl.flow].owner \in Procs \cup {Unknown}
      BY <2>1 DEF PathInv, TypeOK, PathTypeOK, Connections
    <3> QED
      BY <1>4, <3>1 DEF Decide, Register, InjectFails, policyVars
  <2>3. \A d \in {Pass, Block} \cup {Verdict(name) : name \in Procs \cup {Unknown}} :
            d.port = NoPort
    BY DEF Pass, Block, Intercept, Undecided, Verdict
  <2> QED
    BY <1>1, <1>2, <2>1, <2>2, <2>3 DEF PolicySet
<1>5. ASSUME NEW f \in Flows, Receive(f)
      PROVE  PolicyPorts'
  <2>1. policy' = policy \/ \E d \in {NoPolicy, Pass} : PolicySet(f, d)
    BY <1>5 DEF Receive, ReceiveExempt, ReceiveFin, ReceiveKnown, ReceiveStart,
       ReceiveMidstream, PolicyDelete, policyVars
  <2> QED
    BY <1>1, <1>2, <2>1 DEF PolicySet, NoPolicy, Pass
<1>6. CASE Background
  BY <1>1, <1>2, <1>6 DEF Background, Collect, LeaseExpires, Forget, DecisionAges,
     TrackerTick, Sweep, PolicyDelete, PolicySet, Age, policyVars, NoPolicy
<1>7. ASSUME UNCHANGED policyVars PROVE PolicyPorts'
  BY <1>2, <1>7 DEF policyVars
<1> QED
  BY <1>3, <1>4, <1>5, <1>6, <1>7 DEF Next, RecvLoop, ReverseNAT, Clients, Open, PeerAccepts,
     Vanish, ClientStep, HandlerStep, HandlerFrame, SettingsStep, SetWhitelist, SetProxyAddr, vars

LEMMA LoopPortStep ==
    ASSUME PathInv, LoopPort, [Next]_vars, [TrackerNext]_trackerVars, TrackerInv', FirstLap'
    PROVE  LoopPort'
<1>1. CASE Register
  <2>1. PICK p \in Routes : Set(rl.flow, p) /\ (rl'.pc = "send" => p # NoPort /\ rl'.port = p)
    BY <1>1 DEF Register, Hold, Finish, Idle
  <2>2. rl.flow \in Flows /\ (rl'.pc = "send" => rl'.flow = rl.flow)
    BY <1>1 DEF Register, PathInv, LoopInv, Hold, Finish, Idle
  <2>3. ASSUME rl'.pc = "send"
        PROVE  lessee'[p] = rl.flow
    <3>1. p \in Ports
      BY <2>1, <2>3 DEF Routes, Direct
    <3>2. entries'[p] = rl.flow
      BY <2>1, <2>2, <3>1, SetGrants DEF PathInv
    <3> QED
      BY <2>2, <3>1, <3>2, TrackerAssumption DEF TrackerInv, NoEarlyRecycling
  <2> QED
    BY <2>1, <2>2, <2>3 DEF LoopPort
<1>2. CASE UNCHANGED rl
  <2>1. rl.pc = "send" => rl.flow \in Flows /\ rl.port \in Ports
    BY DEF PathInv, LoopInv
  <2> QED
    BY <1>2, <2>1, TenantStays, TrackerAssumption DEF LoopPort, PathInv, TrackerInv
<1>3. CASE rl'.pc # "send"
  BY <1>3 DEF LoopPort
<1>4. Register \/ UNCHANGED rl \/ rl'.pc # "send"
  <2>1. ASSUME RecvLoop, ~Register PROVE UNCHANGED rl \/ rl'.pc # "send"
    BY <2>1 DEF RecvLoop, Receive, ReceiveExempt, ReceiveKnown, ReceiveFin, ReceiveStart,
       ReceiveMidstream, Decide, Inject, InjectFails, ReverseNAT, Finish, Hold, Idle
  <2> QED
    BY <2>1 DEF Next, vars, pathVars, Clients, Open, PeerAccepts, Vanish, ClientStep,
     Background, Collect, LeaseExpires, Forget, DecisionAges, TrackerTick, PolicyTick,
     HandlerStep, HandlerFrame, SettingsStep, SetWhitelist, SetProxyAddr, Beside
<1> QED
  BY <1>1, <1>2, <1>3, <1>4

LEMMA HandlerPortsStep ==
    ASSUME PathInv, HandlerPorts, [Next]_vars, [TrackerNext]_trackerVars, FirstLap
    PROVE  HandlerPorts'
<1>1. /\ TProxyTypeOK /\ TrackerTypeOK /\ TrackerInv
      /\ \A h \in Handlers : hpc[h] # "idle" => hport[h] \in Ports
  BY DEF PathInv, TypeOK, HandlerInv
<1>2. \A p \in Ports : lessee[p] # NoFlow => lessee'[p] = lessee[p]
  BY <1>1, TenantStays
<1>3. CASE UNCHANGED Goroutines
  BY <1>1, <1>2, <1>3 DEF HandlerPorts, Goroutines
<1>4. CASE HandlerStep
  <2>1. CASE \E p \in Ports : Abandon(p)
    BY <1>1, <1>2, <2>1 DEF Abandon, HandlerPorts
  <2>2. CASE \E h \in Handlers, p \in Ports : Accept(h, p)
    BY <1>1, <1>2, <2>2 DEF Accept, HandlerPorts, TProxyTypeOK
  <2>3. ASSUME NEW h \in Handlers, LookupTarget(h)
        PROVE  HandlerPorts'
    <3>1. hport[h] \in Ports /\ lessee' = lessee
      BY <1>1, <2>3 DEF LookupTarget, trackerVars
    <3>2. hpc'[h] = "found" => entries[hport[h]] # NoFlow
      BY <2>3 DEF LookupTarget, HasMapped, TProxyTypeOK
    <3>3. entries[hport[h]] # NoFlow => lessee[hport[h]] = entries[hport[h]]
      BY <1>1, <3>1 DEF TrackerInv, NoEarlyRecycling
    <3>4. hpc'[h] \in {"found", "closing"}
      BY <1>1, <2>3 DEF LookupTarget, TProxyTypeOK
    <3> QED
      BY <1>1, <2>3, <3>1, <3>2, <3>3, <3>4 DEF LookupTarget, HandlerPorts, TProxyTypeOK
  <2>4. ASSUME NEW h \in Handlers, PinTarget(h) \/ RelayError(h) \/ Return(h)
        PROVE  HandlerPorts'
    BY <1>1, <1>2, <2>4 DEF PinTarget, RelayError, Return, HandlerPorts, TProxyTypeOK
  <2>5. ASSUME NEW h \in Handlers, Unwind(h) \/ CloseConn(h)
        PROVE  HandlerPorts'
    BY <1>1, <1>2, <2>5 DEF Unwind, CloseConn, Done, HandlerPorts, TProxyTypeOK
  <2> QED
    BY <1>4, <2>1, <2>2, <2>3, <2>4, <2>5 DEF HandlerStep, TProxyNext, Progress
<1>5. HandlerStep \/ UNCHANGED Goroutines
  <2>1. ASSUME RecvLoop PROVE UNCHANGED Goroutines
    BY <2>1 DEF RecvLoop, Receive, ReceiveExempt, ReceiveFin, ReceiveKnown, ReceiveStart,
       ReceiveMidstream, Arrives, Decide, Register, Inject, InjectFails, ReverseNAT,
       tproxyVars, Goroutines
  <2> QED
    BY <2>1 DEF Next, vars, Clients, Open, PeerAccepts, Vanish, ClientStep,
       Background, Collect, LeaseExpires, Forget, DecisionAges, TrackerTick, PolicyTick,
       SettingsStep, SetWhitelist, SetProxyAddr, tproxyVars, Goroutines
<1> QED
  BY <1>3, <1>4, <1>5

LEMMA PortStep == PathInv /\ PortInv /\ [Next]_vars => PortInv'
<1> SUFFICES ASSUME PathInv, PortInv, [Next]_vars, FirstLap'
             PROVE  (PolicyPorts /\ LoopPort /\ HandlerPorts)'
  BY DEF PortInv
<1>1. [TrackerNext]_trackerVars
  BY TrackerStep DEF PathInv
<1>2. FirstLap
  BY <1>1, TenantStays DEF PathInv, TrackerInv
<1>3. TrackerInv'
  BY <1>1, NextInv DEF PathInv
<1> QED
  BY <1>1, <1>2, <1>3, PolicyPortsStep, LoopPortStep, HandlerPortsStep DEF PortInv

\* The only packets under a port that are no replies: a known hijack, and
\* the packet that has just been given its port.
LEMMA CrossTalkStep ==
    ASSUME PathInv, PortInv, NoCrossTalk, [Next]_vars
    PROVE  NoCrossTalk'
<1>1. CASE UNCHANGED vars
  BY <1>1 DEF vars, pathVars, trackerVars, NoCrossTalk, FirstLap, Allocatable
<1>2. CASE out'.via = Direct \/ out'.seg = "reply"
  BY <1>2 DEF NoCrossTalk
<1>3. ASSUME NEW f \in Flows, NEW p \in Ports, UNCHANGED trackerVars,
             out'.flow = f, out'.via = p, FirstLap => lessee[p] = f
      PROVE  NoCrossTalk'
  BY <1>3 DEF NoCrossTalk, FirstLap, Allocatable, trackerVars, PathInv, TrackerInv, NoEarlyRecycling
<1>4. CASE Inject
  BY <1>3, <1>4 DEF Inject, Forward, PathInv, LoopInv, PortInv, LoopPort
<1>5. ASSUME NEW f \in Flows, NEW s \in Segs, ReceiveKnown(f, s), out'.via # Direct
      PROVE  NoCrossTalk'
  <2>1. out' = [flow |-> f, seg |-> s, via |-> policy[f].port] /\ HasMapped(policy[f].port)
        /\ policy[f].kind = "intercept"
    BY <1>5 DEF ReceiveKnown, Forward, Discard, Nothing
  <2>2. policy[f].port \in Ports /\ policy[f].port # NoPort
    BY <2>1, RouteTypes DEF HasMapped
  <2>3. FirstLap => lessee[policy[f].port] = f
    BY <2>1, <2>2 DEF PortInv, PolicyPorts, Leased
  <2> QED
    BY <1>3, <1>5, <2>1, <2>2, <2>3 DEF ReceiveKnown, Arrives
<1>6. \/ UNCHANGED vars \/ out'.via = Direct \/ out'.seg = "reply" \/ Inject
      \/ \E f \in Flows, s \in Segs : ReceiveKnown(f, s)
  <2>1. ASSUME RecvLoop
        PROVE  \/ out'.via = Direct \/ out'.seg = "reply" \/ Inject
               \/ \E f \in Flows, s \in Segs : ReceiveKnown(f, s)
    BY <2>1 DEF RecvLoop, Receive, ReceiveExempt, ReceiveFin, ReceiveStart, ReceiveMidstream,
       Decide, Register, InjectFails, ReverseNAT, Forward, Discard, Nothing
  <2>2. ASSUME Next, ~RecvLoop PROVE out'.via = Direct
    <3>1. out' = Nothing
      BY <2>2 DEF Next, Clients, Open, PeerAccepts, Vanish, ClientStep,
         Background, Collect, LeaseExpires, Forget, DecisionAges, TrackerTick, PolicyTick,
         HandlerStep, HandlerFrame, SettingsStep, SetWhitelist, SetProxyAddr, Beside
    <3> QED
      BY <3>1 DEF Nothing
  <2> QED
    BY <2>1, <2>2
<1> QED
  BY <1>1, <1>2, <1>4, <1>5, <1>6

-----------------------------------------------------------------------------
(* The theorems.                                                           *)

LEMMA InitPathInv == Init => PathInv
<1> SUFFICES ASSUME Init PROVE PathInv
  OBVIOUS
<1>1. TrackerInv
  BY InitInv DEF Init
<1>2. TypeOK
  <2>1. {Closed} \cup {Earlier(p) : p \in Procs} \subseteq Connections
    <3>1. Closed \in Connections
      BY RouteTypes DEF Closed, Connections
    <3>2. ASSUME NEW p \in Procs PROVE Earlier(p) \in Connections
      BY RouteTypes DEF Closed, Earlier, Connections
    <3> QED
      BY <3>1, <3>2
  <2>2. conn \in [Flows -> Connections]
    BY <2>1 DEF Init
  <2>3. PathTypeOK
    BY <2>2, LoopTypes, RouteTypes, PathAssumption DEF Init, PathTypeOK, Nothing, Segs
  <2>4. PolicyTypeOK /\ TProxyTypeOK
    BY DecisionTypes, RouteTypes DEF Init, PolicyInit, TProxyInit, PolicyTypeOK, TProxyTypeOK
  <2> QED
    BY <1>1, <2>3, <2>4 DEF TypeOK, TrackerInv
<1>3. LoopInv /\ HandInv /\ HandlerInv
  BY DEF Init, TProxyInit, Idle, LoopInv, HandInv, HandlerInv
<1>4. SettledInv
  <2> SUFFICES ASSUME NEW f \in Flows, conn[f].settled
               PROVE  conn[f].phase = "open" /\ policy[f].kind # "intercept" /\ rl.flow # f
    BY DEF SettledInv
  <2>1. conn[f] # Closed
    BY DEF Closed
  <2>2. PICK p \in Procs : conn[f] = Earlier(p)
    BY <2>1 DEF Init
  <2>3. conn[f].phase = "open"
    BY <2>2 DEF Earlier, Closed
  <2> QED
    BY <2>3, TrackerAssumption DEF Init, PolicyInit, NoPolicy, Idle
<1>5. NoMidstreamHijack /\ NoOrphanPin
  BY DEF Init, TrackerInit, Nothing, NoMidstreamHijack, NoOrphanPin
<1> QED
  BY <1>1, <1>2, <1>3, <1>4, <1>5 DEF PathInv

LEMMA NextPathInv == PathInv /\ [Next]_vars => PathInv'
<1> SUFFICES ASSUME PathInv, [Next]_vars PROVE PathInv'
  OBVIOUS
<1> USE DEF PathInv
<1>1. TrackerInv'
  BY TrackerStep, NextInv
<1>2. TypeOK'
  BY <1>1, RestType DEF TrackerInv, TypeOK, RestTypeOK
<1> QED
  BY <1>1, <1>2, LoopStep, HandlerInvStep, HandStep, SettleStep, PinStep DEF SettledOK

THEOREM PathInvariant == Spec => []PathInv
BY InitPathInv, NextPathInv, PTL DEF Spec

(* Every structure the goroutines share keeps its type. *)
THEOREM TypeCorrect == Spec => []TypeOK
<1>1. PathInv => TypeOK
  BY DEF PathInv
<1> QED
  BY <1>1, PathInvariant, PTL

(* A connection the interceptor has let settle on the direct route is      *)
(* never hijacked, whatever lookups, settings, sweeps and ports do.        *)
THEOREM NeverHijackedMidstream == Spec => []NoMidstreamHijack
<1>1. PathInv => NoMidstreamHijack
  BY DEF PathInv
<1> QED
  BY <1>1, PathInvariant, PTL

(* Whatever handlers come and go, a pinned port has one that unpins it. *)
THEOREM EveryPinHasAHandler == Spec => []NoOrphanPin
<1>1. PathInv => NoOrphanPin
  BY DEF PathInv
<1> QED
  BY <1>1, PathInvariant, PTL

(* Inside the packet path the tracker is used as its specification allows: *)
(* so its theorems hold here, for the calls the goroutines really make.    *)
THEOREM PathUsesTracker == Spec => TrackerSpec
<1>1. Init => TrackerInit
  BY DEF Init
<1>2. PathInv /\ [Next]_vars => [TrackerNext]_trackerVars
  BY TrackerStep DEF PathInv
<1> QED
  BY <1>1, <1>2, PathInvariant, PTL DEF Spec, TrackerSpec

THEOREM TenancyInvariant == Spec => [](PathInv /\ PortInv /\ NoCrossTalk)
<1>1. Init => PathInv /\ PortInv /\ NoCrossTalk
  <2>1. Init => PortInv
    BY DEF Init, PolicyInit, TProxyInit, NoPolicy, Idle, PortInv, PolicyPorts, LoopPort,
       HandlerPorts, Leased
  <2>2. Init => NoCrossTalk
    BY DEF Init, Nothing, NoCrossTalk
  <2> QED
    BY <2>1, <2>2, InitPathInv
<1>2. PathInv /\ PortInv /\ NoCrossTalk /\ [Next]_vars => (PathInv /\ PortInv /\ NoCrossTalk)'
  BY NextPathInv, PortStep, CrossTalkStep
<1> QED
  BY <1>1, <1>2, PTL DEF Spec

(* Before the pool of ports has wrapped, no packet is injected under a     *)
(* port that is leased to another flow, however stale its decision is.     *)
THEOREM NoCrossTalkBeforeWrap == Spec => []NoCrossTalk
BY TenancyInvariant, PTL

(* Before the pool has wrapped, a running handler's port belongs to the    *)
(* flow it dialled for or to nobody, even if its lease was collected       *)
(* between tracker.Get and tracker.Activate.                               *)
THEOREM RepliesStayWithTheirFlow == Spec => []ReplyIsolation
<1>1. PathInv /\ PortInv => ReplyIsolation
  BY DEF PathInv, PortInv, TrackerInv, NoEarlyRecycling, HandlerInv, HandlerPorts, ReplyIsolation
<1> QED
  BY <1>1, TenancyInvariant, PTL

=============================================================================
