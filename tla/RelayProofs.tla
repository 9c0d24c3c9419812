---------------------------- MODULE RelayProofs ----------------------------
(***************************************************************************)
(* What tproxy.go, upstream.go and httpproxy.go keep true for any number   *)
(* of handlers, upstreams, ports and hellos: which configuration a call    *)
(* dials, what the two ends of a relay have received, the count of active  *)
(* connections, how the tracker is used, the types, the name that is asked *)
(* for, and that a handler gets nearer to its end.                         *)
(***************************************************************************)
EXTENDS Relay, ConnTrackProofs, SNIProofs, FiniteSetTheorems, TLAPS

(***************************************************************************)
(* The dialer.  The cached dialer was built from its key, a call that has  *)
(* not looked yet began no later than the current configuration, and what  *)
(* a call copied was current since it began.                               *)
(***************************************************************************)
DialInv ==
    /\ UpstreamTypeOK
    /\ cached = cachedKey
    /\ \A d \in Dialers :
          /\ call[d].pc = "lookup" => current \in call[d].during
          /\ call[d].pc \in {"build", "dialing"} => call[d].proxy \in call[d].during

UpstreamMoves ==
    \/ \E p \in Proxies : Update(p)
    \/ \E d \in Dialers : Call(d) \/ Lookup(d) \/ Build(d) \/ Dialed(d)
    \/ UNCHANGED upstreamVars

LEMMA UpdateDials == ASSUME DialInv, NEW p \in Proxies, Update(p) PROVE DialInv'
<1>1. call' = [d \in Dialers |->
        IF call[d] = NoCall THEN NoCall ELSE [call[d] EXCEPT !.during = @ \cup {p}]]
  BY DEF Update, Witness
<1>2. call' \in [Dialers -> [pc : {"idle", "lookup", "build", "dialing"},
                             proxy : Proxies \cup {NoProxy}, during : SUBSET Proxies]]
  BY <1>1 DEF DialInv, UpstreamTypeOK, NoCall
<1>3. UpstreamTypeOK' /\ cached' = cachedKey' /\ current' = p
  BY <1>2 DEF Update, UpstreamTypeOK
<1>4. ASSUME NEW d \in Dialers
      PROVE  /\ call'[d].pc = "lookup" => current' \in call'[d].during
             /\ call'[d].pc \in {"build", "dialing"} => call'[d].proxy \in call'[d].during
  <2>1. CASE call[d] = NoCall
    BY <1>1, <2>1 DEF NoCall
  <2>2. CASE call[d] # NoCall
    <3>1. call'[d] = [call[d] EXCEPT !.during = @ \cup {p}]
      BY <1>1, <2>2
    <3>2. call[d] \in [pc : {"idle", "lookup", "build", "dialing"},
                       proxy : Proxies \cup {NoProxy}, during : SUBSET Proxies]
      BY DEF DialInv, UpstreamTypeOK
    <3>3. call'[d].pc = call[d].pc /\ call'[d].proxy = call[d].proxy
          /\ call'[d].during = call[d].during \cup {p}
      BY <3>1, <3>2
    <3> QED
      BY <1>3, <3>3 DEF DialInv
  <2> QED
    BY <2>1, <2>2
<1> QED
  BY <1>3, <1>4 DEF DialInv

LEMMA CallDials ==
    ASSUME DialInv, NEW d \in Dialers, Call(d) \/ Lookup(d) \/ Build(d) \/ Dialed(d)
    PROVE  DialInv'
<1>1. current' = current /\ current \in Proxies
  BY DEF DialInv, UpstreamTypeOK, Call, Lookup, Build, Dialed
<1>2. CASE Call(d)
  BY <1>1, <1>2, UpstreamAssumption DEF DialInv, UpstreamTypeOK, Call
<1>3. CASE Lookup(d)
  BY <1>1, <1>3, UpstreamAssumption DEF DialInv, UpstreamTypeOK, Lookup
<1>4. CASE Build(d)
  <2>1. call[d].pc = "build" /\ call[d].proxy \in call[d].during /\ call[d].during \subseteq Proxies
    BY <1>4 DEF Build, DialInv, UpstreamTypeOK
  <2>2. /\ call' = [call EXCEPT ![d] = [call[d] EXCEPT !.pc = "dialing"]]
        /\ cached' = cachedKey' /\ cached' \in Proxies \cup {NoProxy}
    <3>1. CASE cached # NoProxy /\ cachedKey = call[d].proxy
      <4>1. call' = [call EXCEPT ![d] = [call[d] EXCEPT !.pc = "dialing", !.proxy = cached]]
            /\ UNCHANGED <<cached, cachedKey>>
        BY <1>4, <3>1 DEF Build
      <4>2. cached = call[d].proxy
        BY <3>1 DEF DialInv
      <4> QED
        BY <4>1, <4>2 DEF DialInv, UpstreamTypeOK
    <3>2. CASE ~(cached # NoProxy /\ cachedKey = call[d].proxy)
      BY <1>4, <2>1, <3>2 DEF Build
    <3> QED
      BY <3>1, <3>2
  <2>3. call' \in [Dialers -> [pc : {"idle", "lookup", "build", "dialing"},
                               proxy : Proxies \cup {NoProxy}, during : SUBSET Proxies]]
    BY <2>2 DEF DialInv, UpstreamTypeOK
  <2> QED
    BY <1>1, <2>1, <2>2, <2>3 DEF DialInv, UpstreamTypeOK
<1>5. CASE Dialed(d)
  BY <1>1, <1>5 DEF DialInv, UpstreamTypeOK, Dialed, NoCall
<1> QED
  BY <1>2, <1>3, <1>4, <1>5

LEMMA MovesDial == DialInv /\ UpstreamMoves => DialInv'
<1>1. ASSUME DialInv, UNCHANGED upstreamVars PROVE DialInv'
  BY <1>1 DEF DialInv, UpstreamTypeOK, upstreamVars
<1> QED
  BY <1>1, UpdateDials, CallDials DEF UpstreamMoves

\* Nobody touches the dialer but by its own operations.
LEMMA RelayMovesUpstream == [Next]_vars => UpstreamMoves
<1> USE RelayAssumption
<1>1. ASSUME NEW f \in Flows, Packet(f) PROVE UpstreamMoves
  BY <1>1 DEF Packet, UpstreamMoves
<1>2. ASSUME Listener PROVE UpstreamMoves
  BY <1>2 DEF Listener, UpstreamMoves
<1>3. ASSUME SwitchUpstream PROVE UpstreamMoves
  BY <1>3 DEF SwitchUpstream, UpstreamMoves
<1>4. ASSUME NEW h \in Handlers, ClientStep(h) \/ ServerStep(h) PROVE UpstreamMoves
  BY <1>4 DEF ClientStep, ServerStep, UpstreamMoves
<1>5. ASSUME NEW h \in Handlers, Answer(h) PROVE UpstreamMoves
  BY <1>5 DEF Answer, ConnectedHTTP, DialFails, UpstreamMoves
<1>6. ASSUME NEW h \in Handlers, Work(h) PROVE UpstreamMoves
  <2>1. CASE ChooseDialer(h)
    BY <2>1 DEF ChooseDialer, UpstreamMoves
  <2>2. CASE Refused(h) \/ NoAnswer(h)
    BY <2>2 DEF Refused, NoAnswer, DialFails, UpstreamMoves
  <2>3. CASE Enter(h)
    BY <2>3 DEF Enter, UpstreamMoves
  <2>4. CASE Sniff(h)
    BY <2>4 DEF Sniff, UpstreamMoves
  <2>5. CASE Connect(h) \/ Replay(h) \/ Count(h)
    BY <2>5 DEF Connect, Replay, Count, UpstreamMoves
  <2>6. CASE \/ CopyUp(h) \/ UpEnds(h) \/ CopyDown(h) \/ DownEnds(h)
             \/ CopyFails(h, "up") \/ CopyFails(h, "down")
             \/ CloseBoth(h) \/ Uncount(h) \/ Release(h)
    BY <2>6 DEF CopyUp, UpEnds, CopyDown, DownEnds, CopyFails, CloseBoth, Uncount, Release,
       UpstreamMoves
  <2> QED
    BY <1>6, <2>1, <2>2, <2>3, <2>4, <2>5, <2>6 DEF Work
<1>7. ASSUME UNCHANGED vars PROVE UpstreamMoves
  BY <1>7 DEF vars, UpstreamMoves
<1> QED
  BY <1>1, <1>2, <1>3, <1>4, <1>5, <1>6, <1>7 DEF Next

(* Dialer and Dial of upstream.go: a connection is dialled with what was   *)
(* configured at some moment of its call, for any number of handlers.      *)
THEOREM DialsWhatWasCurrent == Spec => []DialsCurrent
<1>1. Init => DialInv
  BY DEF Init, UpstreamInit, DialInv, UpstreamTypeOK, NoCall
<1>2. DialInv /\ [Next]_vars => DialInv'
  BY MovesDial, RelayMovesUpstream
<1>3. DialInv => DialsCurrent
  BY DEF DialInv, DialsCurrent
<1> QED
  BY <1>1, <1>2, <1>3, PTL DEF Spec

-----------------------------------------------------------------------------
(***************************************************************************)
(* The relay.  Sound says of one handler how far its stage, its sockets    *)
(* and its position in handleConn have come together: what is sniffed and  *)
(* not replayed, and what the CONNECT has read ahead and not copied, is    *)
(* what an end has not received of what was read from the other.           *)
(***************************************************************************)
Prologue == {"sniff", "dial", "handshake"}
Stages == {"none", "sniff", "dial", "handshake", "replay", "count", "relay", "release"}

JobType ==
    [stage : Stages, hello : Hellos \cup {NoHello}, host : Hosts \cup {NoHost}, peek : Nat,
     early : Nat, wrapped : BOOLEAN, read : Nat, taken : Nat,
     up : {"copying", "eof", "error"}, down : {"copying", "eof", "error"}]

EndType == [sent : Nat, end : {"open", "fin", "reset"}, got : Seq(Nat), eof : BOOLEAN]

Typed ==
    /\ job \in [Handlers -> JobType]
    /\ client \in [Handlers -> EndType] /\ server \in [Handlers -> EndType]
    /\ hpc \in [Handlers -> {"idle", "accepted", "found", "running", "broken", "closing"}]
    /\ hport \in [Handlers -> Ports \cup {NoPort}]

Copied(j, c, s) ==
    /\ j.peek <= j.read /\ j.read <= c.sent /\ s.got = Prefix(j.read - j.peek)
    /\ j.early <= j.taken /\ j.taken <= s.sent /\ c.got = Prefix(j.taken - j.early)
    /\ j.early \in {0, 1} /\ (j.early = 1 => j.taken = 1)
    /\ j.up = "eof" => c.end = "fin" /\ j.read = c.sent
    /\ j.down = "eof" => s.end = "fin" /\ j.early = 0 /\ j.taken = s.sent

Sound(j, c, s, pc) ==
    /\ j.stage # "none" => pc \in {"running", "broken"}
    /\ pc = "broken" => j.stage \in {"relay", "release"}
    /\ j.stage \in {"none", "release"} => c = Peer /\ s = Peer
    /\ j.stage \notin {"none", "release"} /\ pc = "running" => Copied(j, c, s)
    /\ j.stage = "sniff" => j.read = 0 /\ j.peek = 0 /\ j.hello \in Hellos
    /\ j.stage \in Prologue => s.sent = 0 /\ j.peek = j.read /\ j.taken = 0 /\ j.early = 0
    /\ j.stage = "replay" => j.peek = j.read
    /\ j.stage \in {"count", "relay"} => j.peek = 0
    /\ j.stage \notin {"none", "release", "relay"} => j.up = "copying" /\ j.down = "copying"

SoundAt(h) == Sound(job[h], client[h], server[h], hpc[h])

\* The listed ports are of connections that are relayed.
Listing == \A p \in counted : \E h \in Handlers : hport[h] = p /\ job[h].stage = "relay"

RelayInv ==
    /\ Typed
    /\ \A h \in Handlers : SoundAt(h)
    /\ IsFiniteSet(counted) /\ connections = Cardinality(counted)
    /\ Listing

LEMMA PrefixProperties ==
    /\ Prefix(0) = <<>>
    /\ \A n \in Nat : Prefix(n) \in Seq(Nat) /\ Append(Prefix(n), n + 1) = Prefix(n + 1)
<1>1. Prefix(0) = <<>>
  BY DEF Prefix
<1>2. ASSUME NEW n \in Nat PROVE Prefix(n) \in Seq(Nat) /\ Len(Prefix(n)) = n
  BY DEF Prefix
<1>3. ASSUME NEW n \in Nat PROVE Append(Prefix(n), n + 1) = Prefix(n + 1)
  <2>1. /\ Append(Prefix(n), n + 1) \in Seq(Nat) /\ Len(Append(Prefix(n), n + 1)) = n + 1
        /\ Prefix(n + 1) \in Seq(Nat) /\ Len(Prefix(n + 1)) = n + 1
    BY <1>2
  <2>2. ASSUME NEW i \in 1 .. n + 1 PROVE Append(Prefix(n), n + 1)[i] = Prefix(n + 1)[i]
    BY <1>2 DEF Prefix
  <2> QED
    BY <2>1, <2>2
<1> QED
  BY <1>1, <1>2, <1>3

-----------------------------------------------------------------------------
(* A step of one handler leaves the others as they are.                    *)

Only(h) ==
    \A g \in Handlers \ {h} :
        /\ job'[g] = job[g] /\ client'[g] = client[g] /\ server'[g] = server[g]
        /\ hpc'[g] = hpc[g] /\ hport'[g] = hport[g]

LEMMA OthersSound ==
    ASSUME RelayInv, NEW h \in Handlers, Only(h), SoundAt(h)'
    PROVE  \A g \in Handlers : SoundAt(g)'
<1>1. ASSUME NEW g \in Handlers, g # h PROVE SoundAt(g)'
  <2>1. SoundAt(g)
    BY DEF RelayInv
  <2> QED
    BY <1>1, <2>1 DEF Only, SoundAt
<1> QED
  BY <1>1

LEMMA StatsStand ==
    ASSUME RelayInv, NEW h \in Handlers, Only(h), UNCHANGED stats,
           job[h].stage = "relay" => job'[h].stage = "relay" /\ hport'[h] = hport[h]
    PROVE  /\ IsFiniteSet(counted') /\ connections' = Cardinality(counted')
           /\ Listing'
<1>1. counted' = counted /\ connections' = connections
  BY DEF stats
<1>2. ASSUME NEW p \in counted'
      PROVE  \E g \in Handlers : hport'[g] = p /\ job'[g].stage = "relay"
  <2>1. PICK g \in Handlers : hport[g] = p /\ job[g].stage = "relay"
    BY <1>1 DEF RelayInv, Listing
  <2> QED
    BY <2>1 DEF Only
<1> QED
  BY <1>1, <1>2 DEF RelayInv, Listing

\* All that is left to show of most steps.
LEMMA OneMoves ==
    ASSUME RelayInv, NEW h \in Handlers, Typed', Only(h), SoundAt(h)', UNCHANGED stats,
           job[h].stage = "relay" => job'[h].stage = "relay" /\ hport'[h] = hport[h]
    PROVE  RelayInv'
BY OthersSound, StatsStand DEF RelayInv

\* How Sound is read at a handler.
LEMMA AtHandler ==
    ASSUME RelayInv, NEW h \in Handlers
    PROVE  /\ job[h] \in JobType /\ client[h] \in EndType /\ server[h] \in EndType
           /\ Sound(job[h], client[h], server[h], hpc[h])
BY DEF RelayInv, Typed, SoundAt

LEMMA PeersTyped == Peer \in EndType /\ NoJob \in JobType
BY DEF Peer, NoJob, EndType, JobType, Stages

-----------------------------------------------------------------------------
(* The peers.                                                              *)

LEMMA PeerMoves ==
    ASSUME NEW e \in EndType, NEW d,
           \/ d = [e EXCEPT !.sent = e.sent + 1]
           \/ \E how \in {"fin", "reset"} : d = [e EXCEPT !.end = how]
    PROVE  d \in EndType /\ d.sent >= e.sent /\ d.got = e.got
<1>1. e.sent \in Nat
  BY DEF EndType
<1>2. CASE d = [e EXCEPT !.sent = e.sent + 1]
  <2>1. d \in EndType /\ d.sent = e.sent + 1 /\ d.got = e.got
    BY <1>1, <1>2 DEF EndType
  <2> QED
    BY <1>1, <2>1
<1>3. ASSUME NEW how \in {"fin", "reset"}, d = [e EXCEPT !.end = how]
      PROVE  d \in EndType /\ d.sent >= e.sent /\ d.got = e.got
  <2>1. d \in EndType /\ d.sent = e.sent /\ d.got = e.got
    BY <1>3 DEF EndType
  <2> QED
    BY <1>1, <2>1
<1> QED
  BY <1>2, <1>3

LEMMA ClientStepSound == ASSUME RelayInv, NEW h \in Handlers, ClientStep(h) PROVE RelayInv'
<1>0. /\ job[h] \in JobType /\ client[h] \in EndType /\ server[h] \in EndType
      /\ Sound(job[h], client[h], server[h], hpc[h])
  BY AtHandler
<1>1. /\ Served(h) /\ client[h].end = "open"
      /\ UNCHANGED <<job, server, hpc, hport, stats>>
  BY DEF ClientStep, PeerStep, outside, tproxyVars
<1>2. PICK c \in EndType :
          /\ client' = [client EXCEPT ![h] = c]
          /\ c.sent >= client[h].sent /\ c.got = client[h].got
  <2>1. PICK d :
          /\ client' = [client EXCEPT ![h] = d]
          /\ \/ d = [client[h] EXCEPT !.sent = client[h].sent + 1]
             \/ \E how \in {"fin", "reset"} : d = [client[h] EXCEPT !.end = how]
    BY DEF ClientStep, PeerStep
  <2> QED
    BY <1>0, <2>1, PeerMoves
<1>3. Typed' /\ Only(h) /\ client'[h] = c
  BY <1>1, <1>2 DEF RelayInv, Typed, Only
<1>4. SoundAt(h)'
  BY <1>0, <1>1, <1>2, <1>3 DEF SoundAt, Sound, Copied, Served, EndType, JobType
<1> QED
  BY <1>1, <1>3, <1>4, OneMoves

LEMMA ServerStepSound == ASSUME RelayInv, NEW h \in Handlers, ServerStep(h) PROVE RelayInv'
<1>0. /\ job[h] \in JobType /\ client[h] \in EndType /\ server[h] \in EndType
      /\ Sound(job[h], client[h], server[h], hpc[h])
  BY AtHandler
<1>1. /\ Dialled(h) /\ server[h].end = "open"
      /\ UNCHANGED <<job, client, hpc, hport, stats>>
  BY DEF ServerStep, PeerStep, outside, tproxyVars
<1>2. PICK s \in EndType :
          /\ server' = [server EXCEPT ![h] = s]
          /\ s.sent >= server[h].sent /\ s.got = server[h].got
          /\ job[h].stage = "handshake" => s.sent = server[h].sent
  <2>1. PICK d :
          /\ server' = [server EXCEPT ![h] = d]
          /\ \/ /\ server[h].sent < IF job[h].stage = "handshake" THEN 0 ELSE 1
                /\ d = [server[h] EXCEPT !.sent = server[h].sent + 1]
             \/ \E how \in {"fin", "reset"} : d = [server[h] EXCEPT !.end = how]
    BY DEF ServerStep, PeerStep
  <2>2. d \in EndType /\ d.sent >= server[h].sent /\ d.got = server[h].got
    BY <1>0, <2>1, PeerMoves
  <2>3. job[h].stage = "handshake" => d.sent = server[h].sent
    BY <1>0, <2>1 DEF EndType
  <2> QED
    BY <2>1, <2>2, <2>3
<1>3. Typed' /\ Only(h) /\ server'[h] = s
  BY <1>1, <1>2 DEF RelayInv, Typed, Only
<1>4. SoundAt(h)'
  <2>1. /\ hpc[h] = "running" /\ job[h].stage \in {"handshake", "replay", "count", "relay"}
        /\ Copied(job[h], client[h], server[h])
    BY <1>0, <1>1 DEF Dialled, Served, Sound
  <2>2. Copied(job[h], client[h], s)
    BY <1>0, <1>1, <1>2, <2>1 DEF Copied, EndType, JobType
  <2>3. Sound(job[h], client[h], s, hpc[h])
    BY <1>0, <1>2, <2>1, <2>2 DEF Sound, Prologue
  <2> QED
    BY <1>1, <1>3, <2>3 DEF SoundAt
<1> QED
  BY <1>1, <1>3, <1>4, OneMoves

-----------------------------------------------------------------------------
(* The handler, up to the dialled connection.                              *)

PCs == {"idle", "accepted", "found", "running", "broken", "closing"}

LEMMA HandlerMoves ==
    ASSUME RelayInv, NEW h \in Handlers,
           NEW j \in JobType, NEW c \in EndType, NEW s \in EndType, NEW pc \in PCs,
           job' = [job EXCEPT ![h] = j],
           client' = [client EXCEPT ![h] = c], server' = [server EXCEPT ![h] = s],
           hpc' = [hpc EXCEPT ![h] = pc], hport' = hport, UNCHANGED stats,
           job[h].stage = "relay" => j.stage = "relay",
           Sound(j, c, s, pc)
    PROVE  RelayInv'
<1>1. Typed' /\ Only(h)
  BY DEF RelayInv, Typed, Only, PCs
<1>2. job'[h] = j /\ client'[h] = c /\ server'[h] = s /\ hpc'[h] = pc
  BY DEF RelayInv, Typed
<1>3. SoundAt(h)'
  BY <1>2 DEF SoundAt
<1> QED
  BY <1>1, <1>2, <1>3, OneMoves

LEMMA Standing ==
    ASSUME RelayInv, NEW h \in Handlers
    PROVE  /\ client = [client EXCEPT ![h] = client[h]]
           /\ server = [server EXCEPT ![h] = server[h]]
           /\ hpc = [hpc EXCEPT ![h] = hpc[h]] /\ hpc[h] \in PCs
           /\ job = [job EXCEPT ![h] = job[h]]
BY DEF RelayInv, Typed, PCs

LEMMA EnterSound == ASSUME RelayInv, NEW h \in Handlers, Enter(h) PROVE RelayInv'
<1>0. /\ job[h] \in JobType /\ client[h] \in EndType /\ server[h] \in EndType
      /\ Sound(job[h], client[h], server[h], hpc[h])
  BY AtHandler
<1>1. UNCHANGED <<client, server, stats>>
  BY DEF Enter, ends
<1>2. CASE LookupTarget(h) /\ UNCHANGED job
  <2>1. PICK pc \in {"found", "closing"} : hpc' = [hpc EXCEPT ![h] = pc]
    BY <1>2 DEF LookupTarget
  <2>2. Sound(job[h], client[h], server[h], pc)
    BY <1>0, <1>2, <2>1 DEF Sound, LookupTarget
  <2>3. pc \in PCs /\ hport' = hport
    BY <1>2 DEF PCs, LookupTarget
  <2>4. /\ job' = [job EXCEPT ![h] = job[h]] /\ client' = [client EXCEPT ![h] = client[h]]
        /\ server' = [server EXCEPT ![h] = server[h]]
    BY <1>1, <1>2, Standing
  <2> QED
    BY <1>0, <1>1, <2>1, <2>2, <2>3, <2>4, HandlerMoves
<1>3. CASE CloseConn(h) /\ UNCHANGED job
  <2>1. Typed' /\ Only(h) /\ hpc'[h] = "idle"
    BY <1>1, <1>3 DEF RelayInv, Typed, Only, CloseConn, Done
  <2>2. job[h].stage = "none"
    BY <1>0, <1>3 DEF Sound, CloseConn
  <2>3. SoundAt(h)'
    BY <1>0, <1>1, <1>3, <2>1, <2>2 DEF SoundAt, Sound, Prologue
  <2> QED
    BY <1>1, <2>1, <2>2, <2>3, OneMoves
<1>4. CASE /\ PinTarget(h)
           /\ IF htarget[h] \in https
              THEN \E hello \in Hellos : Stage(h, "none", "sniff", [NoJob EXCEPT !.hello = hello])
              ELSE Stage(h, "none", "dial", NoJob)
  <2>1. PICK j \in JobType :
           /\ job[h].stage = "none" /\ job' = [job EXCEPT ![h] = j]
           /\ j.stage \in {"sniff", "dial"} /\ (j.stage = "sniff" => j.hello \in Hellos)
           /\ j.peek = 0 /\ j.early = 0 /\ j.read = 0 /\ j.taken = 0
           /\ j.up = "copying" /\ j.down = "copying"
    <3>1. CASE htarget[h] \in https
      <4>1. PICK hello \in Hellos :
               /\ job[h].stage = "none"
               /\ job' = [job EXCEPT ![h] = [NoJob EXCEPT !.hello = hello, !.stage = "sniff"]]
        BY <1>4, <3>1 DEF Stage
      <4> DEFINE j == [NoJob EXCEPT !.hello = hello, !.stage = "sniff"]
      <4>2. j \in JobType /\ j.stage = "sniff" /\ j.hello = hello
            /\ j.peek = 0 /\ j.early = 0 /\ j.read = 0 /\ j.taken = 0
            /\ j.up = "copying" /\ j.down = "copying"
        BY DEF NoJob, JobType, Stages
      <4> QED
        BY <4>1, <4>2
    <3>2. CASE htarget[h] \notin https
      <4> DEFINE j == [NoJob EXCEPT !.stage = "dial"]
      <4>1. job[h].stage = "none" /\ job' = [job EXCEPT ![h] = j]
        BY <1>4, <3>2 DEF Stage
      <4>2. j \in JobType /\ j.stage = "dial"
            /\ j.peek = 0 /\ j.early = 0 /\ j.read = 0 /\ j.taken = 0
            /\ j.up = "copying" /\ j.down = "copying"
        BY DEF NoJob, JobType, Stages
      <4> QED
        BY <4>1, <4>2
    <3> QED
      BY <3>1, <3>2
  <2>3. Copied(j, Peer, Peer)
    BY <2>1, PrefixProperties DEF Copied, Peer
  <2>4. Sound(j, Peer, Peer, "running")
    BY <2>1, <2>3 DEF Sound, Peer, Prologue
  <2>5. client[h] = Peer /\ server[h] = Peer
    BY <1>0, <2>1 DEF Sound
  <2>6. hpc' = [hpc EXCEPT ![h] = "running"] /\ hport' = hport
    BY <1>4 DEF PinTarget
  <2>7. "running" \in PCs
    BY DEF PCs
  <2>8. client' = [client EXCEPT ![h] = Peer] /\ server' = [server EXCEPT ![h] = Peer]
    BY <1>1, <2>5, Standing
  <2> QED
    BY <1>1, <2>1, <2>4, <2>6, <2>7, <2>8, PeersTyped, HandlerMoves
<1> QED
  BY <1>2, <1>3, <1>4 DEF Enter

LEMMA LimitBounds == ASSUME NEW hello PROVE SniffLimit(hello) \in {1, 2}
BY DEF SniffLimit

LEMMA SniffSound == ASSUME RelayInv, NEW h \in Handlers, Sniff(h) PROVE RelayInv'
<1>0. /\ job[h] \in JobType /\ client[h] \in EndType /\ server[h] \in EndType
      /\ Sound(job[h], client[h], server[h], hpc[h])
  BY AtHandler
<1>1. UNCHANGED <<client, server, hpc, hport, stats>>
  BY DEF Sniff, outside, tproxyVars, ends
<1>2. PICK n \in 0 .. SniffLimit(job[h].hello) :
          /\ n <= client[h].sent
          /\ Stage(h, "sniff", "dial", Sniffed(job[h], n))
  <2>1. SniffLimit(job[h].hello) \in {1, 2}
    BY LimitBounds
  <2> QED
    BY <1>0, <2>1 DEF Sniff, EndType
<1>3. n \in Nat
  <2>1. SniffLimit(job[h].hello) \in {1, 2}
    BY LimitBounds
  <2> QED
    BY <2>1
<1> DEFINE j == [Sniffed(job[h], n) EXCEPT !.stage = "dial"]
<1>4. /\ job[h].stage = "sniff" /\ job' = [job EXCEPT ![h] = j]
  BY <1>2 DEF Stage
<1>5. hpc[h] = "running"
  BY <1>0, <1>4 DEF Sound
<1>6. (IF n = 2 THEN ExtractSNI(job[h].hello) ELSE NoHost) \in Hosts \cup {NoHost}
  <2>1. job[h].hello \in HelloType(Hosts)
    BY <1>0, <1>4, RelayAssumption DEF Sound
  <2>2. ExtractSNI(job[h].hello) \in Hosts \cup {NoHost}
    BY <2>1, FindsHost, RelayAssumption
  <2> QED
    BY <2>2
<1>7. /\ j \in JobType
      /\ j.stage = "dial" /\ j.read = n /\ j.peek = n /\ j.taken = job[h].taken
      /\ j.early = job[h].early /\ j.up = job[h].up /\ j.down = job[h].down
  BY <1>0, <1>3, <1>6 DEF Sniffed, JobType, Stages
<1> HIDE DEF j
<1>8. Copied(job[h], client[h], server[h]) /\ Prefix(job[h].read - job[h].peek) = Prefix(0)
  BY <1>0, <1>4, <1>5 DEF Sound
<1>9. Copied(j, client[h], server[h])
  BY <1>0, <1>2, <1>3, <1>4, <1>7, <1>8 DEF Copied, Sound, JobType
<1>10. Sound(j, client[h], server[h], hpc[h])
  BY <1>0, <1>4, <1>5, <1>7, <1>9 DEF Sound, Prologue
<1>11. /\ client' = [client EXCEPT ![h] = client[h]] /\ server' = [server EXCEPT ![h] = server[h]]
       /\ hpc' = [hpc EXCEPT ![h] = hpc[h]] /\ hpc[h] \in PCs /\ hport' = hport
       /\ UNCHANGED stats
  BY <1>1, Standing
<1>12. job' = [job EXCEPT ![h] = j] /\ (job[h].stage = "relay" => j.stage = "relay")
  BY <1>4
<1> QED
  BY <1>0, <1>7, <1>10, <1>11, <1>12, HandlerMoves

LEMMA StandsSound ==
    ASSUME RelayInv, UNCHANGED <<job, client, server, hpc, hport, stats>>
    PROVE  RelayInv'
<1>1. UNCHANGED <<counted, connections>>
  BY DEF stats
<1> QED
  BY <1>1 DEF RelayInv, Typed, SoundAt, Listing

LEMMA ConnectSound == ASSUME RelayInv, NEW h \in Handlers, Connect(h) PROVE RelayInv'
<1>0. /\ job[h] \in JobType /\ client[h] \in EndType /\ server[h] \in EndType
      /\ Sound(job[h], client[h], server[h], hpc[h])
  BY AtHandler
<1> DEFINE j == [job[h] EXCEPT !.stage = "handshake"]
<1>1. job[h].stage = "dial" /\ job' = [job EXCEPT ![h] = j]
  BY DEF Connect, Stage
<1>2. /\ j \in JobType
      /\ j.stage = "handshake" /\ j.read = job[h].read /\ j.peek = job[h].peek
      /\ j.taken = job[h].taken /\ j.early = job[h].early
      /\ j.up = job[h].up /\ j.down = job[h].down
  BY <1>0 DEF JobType, Stages
<1> HIDE DEF j
<1>3. Sound(j, client[h], server[h], hpc[h])
  BY <1>0, <1>1, <1>2 DEF Sound, Copied, Prologue
<1>4. /\ client' = [client EXCEPT ![h] = client[h]] /\ server' = [server EXCEPT ![h] = server[h]]
      /\ hpc' = [hpc EXCEPT ![h] = hpc[h]] /\ hpc[h] \in PCs /\ hport' = hport
      /\ UNCHANGED stats
  BY Standing DEF Connect, ends, outside, tproxyVars
<1>5. job[h].stage = "relay" => j.stage = "relay"
  BY <1>1
<1> QED
  BY <1>0, <1>1, <1>2, <1>3, <1>4, <1>5, HandlerMoves

\* Every return of handleConn before the relay.
LEMMA LeaveSound ==
    ASSUME RelayInv, NEW h \in Handlers, Leave(h), UNCHANGED <<hpc, hport, stats>>,
           job[h].stage \in Stages \ {"none", "release", "relay"}
    PROVE  RelayInv'
<1>0. /\ job[h] \in JobType /\ client[h] \in EndType /\ server[h] \in EndType
      /\ Sound(job[h], client[h], server[h], hpc[h])
  BY AtHandler
<1> DEFINE j == [NoJob EXCEPT !.stage = "release"]
<1>1. /\ job' = [job EXCEPT ![h] = j]
      /\ client' = [client EXCEPT ![h] = Peer] /\ server' = [server EXCEPT ![h] = Peer]
  BY DEF Leave, Forget
<1>2. j \in JobType /\ j.stage = "release"
  BY DEF NoJob, JobType, Stages
<1> HIDE DEF j
<1>3. Sound(j, Peer, Peer, hpc[h])
  BY <1>0, <1>2 DEF Sound, Prologue
<1>4. hpc' = [hpc EXCEPT ![h] = hpc[h]] /\ hpc[h] \in PCs /\ hport' = hport /\ UNCHANGED stats
  BY Standing
<1> QED
  BY <1>1, <1>2, <1>3, <1>4, PeersTyped, HandlerMoves

LEMMA DialFailsSound ==
    ASSUME RelayInv, NEW h \in Handlers, DialFails(h), job[h].stage \in {"dial", "handshake"}
    PROVE  RelayInv'
<1>1. Leave(h) /\ UNCHANGED <<hpc, hport, stats>>
  BY DEF DialFails, outside, tproxyVars
<1>2. job[h].stage \in Stages \ {"none", "release", "relay"}
  BY DEF Stages
<1> QED
  BY <1>1, <1>2, LeaveSound

LEMMA AnswerSound == ASSUME RelayInv, NEW h \in Handlers, Answer(h) PROVE RelayInv'
<1>0. /\ job[h] \in JobType /\ client[h] \in EndType /\ server[h] \in EndType
      /\ Sound(job[h], client[h], server[h], hpc[h])
  BY AtHandler
<1>1. ASSUME NEW ahead \in 0 .. 1, ConnectedHTTP(h, ahead) PROVE RelayInv'
  <2>0. ahead \in Nat
    OBVIOUS
  <2> DEFINE w == ahead > 0
  <2>0b. w \in BOOLEAN
    OBVIOUS
  <2> HIDE DEF w
  <2> DEFINE j == [job[h] EXCEPT !.taken = ahead, !.early = ahead, !.wrapped = w,
                                 !.stage = "replay"]
             s == [server[h] EXCEPT !.sent = ahead]
  <2>1. /\ job[h].stage = "handshake" /\ job' = [job EXCEPT ![h] = j]
        /\ server' = [server EXCEPT ![h] = s]
    BY <1>1 DEF ConnectedHTTP, Speaks, Stage, w
  <2>2. /\ j \in JobType
        /\ j.stage = "replay" /\ j.read = job[h].read /\ j.peek = job[h].peek
        /\ j.taken = ahead /\ j.early = ahead
        /\ j.up = job[h].up /\ j.down = job[h].down
    BY <1>0, <2>0, <2>0b DEF JobType, Stages
  <2>3. s \in EndType /\ s.sent = ahead /\ s.got = server[h].got
    BY <1>0, <2>0 DEF EndType
  <2> HIDE DEF j, s
  <2>4. hpc[h] = "running" /\ Copied(job[h], client[h], server[h])
        /\ job[h].peek = job[h].read /\ job[h].taken = 0 /\ job[h].early = 0
        /\ job[h].up = "copying" /\ job[h].down = "copying"
    BY <1>0, <2>1 DEF Sound, Prologue
  <2>5. Copied(j, client[h], s)
    BY <1>0, <2>2, <2>3, <2>4 DEF Copied, JobType
  <2>6. Sound(j, client[h], s, hpc[h])
    BY <1>0, <2>2, <2>4, <2>5 DEF Sound, Prologue
  <2>7. /\ client' = [client EXCEPT ![h] = client[h]]
        /\ hpc' = [hpc EXCEPT ![h] = hpc[h]] /\ hpc[h] \in PCs /\ hport' = hport
        /\ UNCHANGED stats
    BY <1>1, Standing DEF ConnectedHTTP, outside, tproxyVars
  <2>8. job[h].stage = "relay" => j.stage = "relay"
    BY <2>1
  <2> QED
    BY <1>0, <2>1, <2>2, <2>3, <2>6, <2>7, <2>8, HandlerMoves
<1>2. ASSUME Stage(h, "handshake", "replay", job[h]), UNCHANGED <<outside, ends, stats>>
      PROVE  RelayInv'
  <2> DEFINE j == [job[h] EXCEPT !.stage = "replay"]
  <2>1. job[h].stage = "handshake" /\ job' = [job EXCEPT ![h] = j]
    BY <1>2 DEF Stage
  <2>2. /\ j \in JobType
        /\ j.stage = "replay" /\ j.read = job[h].read /\ j.peek = job[h].peek
        /\ j.taken = job[h].taken /\ j.early = job[h].early
        /\ j.up = job[h].up /\ j.down = job[h].down
    BY <1>0 DEF JobType, Stages
  <2> HIDE DEF j
  <2>3. Sound(j, client[h], server[h], hpc[h])
    BY <1>0, <2>1, <2>2 DEF Sound, Copied, Prologue
  <2>4. /\ client' = [client EXCEPT ![h] = client[h]] /\ server' = [server EXCEPT ![h] = server[h]]
        /\ hpc' = [hpc EXCEPT ![h] = hpc[h]] /\ hpc[h] \in PCs /\ hport' = hport
        /\ UNCHANGED stats
    BY <1>2, Standing DEF ends, outside, tproxyVars
  <2>5. job[h].stage = "relay" => j.stage = "relay"
    BY <2>1
  <2> QED
    BY <1>0, <2>1, <2>2, <2>3, <2>4, <2>5, HandlerMoves
<1>3. ASSUME Speaks(h, Proxies) /\ DialFails(h) PROVE RelayInv'
  BY <1>3, DialFailsSound DEF Speaks
<1> QED
  BY <1>1, <1>2, <1>3 DEF Answer

-----------------------------------------------------------------------------
(* The handler, from the dialled connection on.                            *)

LEMMA ReplaySound == ASSUME RelayInv, NEW h \in Handlers, Replay(h) PROVE RelayInv'
<1>0. /\ job[h] \in JobType /\ client[h] \in EndType /\ server[h] \in EndType
      /\ Sound(job[h], client[h], server[h], hpc[h])
  BY AtHandler
<1>0a. UNCHANGED <<hpc, hport, stats>>
  BY DEF Replay, outside, tproxyVars
<1>1. CASE Leave(h) /\ job[h].stage = "replay"
  BY <1>0a, <1>1, LeaveSound DEF Stages
<1>2. CASE /\ Stage(h, "replay", "count", [job[h] EXCEPT !.peek = 0, !.host = NoHost])
           /\ server' = [server EXCEPT ![h].got = [i \in 1 .. job[h].peek |-> i]]
           /\ UNCHANGED client
  <2> DEFINE j == [job[h] EXCEPT !.peek = 0, !.host = NoHost, !.stage = "count"]
             s == [server[h] EXCEPT !.got = Prefix(job[h].peek)]
  <2>1. /\ job[h].stage = "replay" /\ job' = [job EXCEPT ![h] = j]
        /\ server' = [server EXCEPT ![h] = s]
    BY <1>2 DEF Stage, Prefix
  <2>2. /\ j \in JobType
        /\ j.stage = "count" /\ j.read = job[h].read /\ j.peek = 0
        /\ j.taken = job[h].taken /\ j.early = job[h].early
        /\ j.up = job[h].up /\ j.down = job[h].down
    BY <1>0 DEF JobType, Stages
  <2>3. job[h].peek \in Nat /\ Prefix(job[h].peek) \in Seq(Nat)
    BY <1>0, PrefixProperties DEF JobType
  <2>4. s \in EndType /\ s.sent = server[h].sent /\ s.got = Prefix(job[h].peek)
        /\ s.end = server[h].end
    BY <1>0, <2>3 DEF EndType
  <2> HIDE DEF j, s
  <2>5. hpc[h] = "running" /\ Copied(job[h], client[h], server[h]) /\ job[h].peek = job[h].read
    BY <1>0, <2>1 DEF Sound
  <2>6. Copied(j, client[h], s)
    BY <1>0, <2>2, <2>4, <2>5 DEF Copied, JobType
  <2>7. Sound(j, client[h], s, hpc[h])
    BY <1>0, <2>1, <2>2, <2>5, <2>6 DEF Sound, Prologue
  <2>8. /\ client' = [client EXCEPT ![h] = client[h]]
        /\ hpc' = [hpc EXCEPT ![h] = hpc[h]] /\ hpc[h] \in PCs /\ hport' = hport
        /\ UNCHANGED stats
    BY <1>0a, <1>2, Standing
  <2>9. job[h].stage = "relay" => j.stage = "relay"
    BY <2>1
  <2> QED
    BY <1>0, <2>1, <2>2, <2>4, <2>7, <2>8, <2>9, HandlerMoves
<1> QED
  BY <1>1, <1>2 DEF Replay

LEMMA AddedOne ==
    ASSUME NEW S, NEW x, IsFiniteSet(S), x \notin S
    PROVE  IsFiniteSet(S \cup {x}) /\ Cardinality(S \cup {x}) = Cardinality(S) + 1
<1>1. /\ IsFiniteSet(S \cup {x})
      /\ Cardinality(S \cup {x}) = IF x \in S THEN Cardinality(S) ELSE Cardinality(S)+1
  BY FS_AddElement
<1> QED
  BY <1>1

LEMMA RemovedOne ==
    ASSUME NEW S, NEW x, IsFiniteSet(S), x \in S
    PROVE  /\ IsFiniteSet(S \ {x}) /\ Cardinality(S \ {x}) = Cardinality(S) - 1
           /\ Cardinality(S) \in Nat /\ Cardinality(S) > 0
<1>1. /\ IsFiniteSet(S \ {x})
      /\ Cardinality(S \ {x}) = IF x \in S THEN Cardinality(S)-1 ELSE Cardinality(S)
  BY FS_RemoveElement
<1>2. Cardinality(S) \in Nat /\ Cardinality(S \ {x}) \in Nat
  BY <1>1, FS_CardinalityType
<1>3. Cardinality(S) - 1 \in Nat
  BY <1>1, <1>2
<1> QED
  BY <1>1, <1>2, <1>3

LEMMA CountSound == ASSUME RelayInv, NEW h \in Handlers, Count(h) PROVE RelayInv'
<1>0. /\ job[h] \in JobType /\ client[h] \in EndType /\ server[h] \in EndType
      /\ Sound(job[h], client[h], server[h], hpc[h])
  BY AtHandler
<1> DEFINE j == [job[h] EXCEPT !.stage = "relay"]
<1>1. /\ job[h].stage = "count" /\ job' = [job EXCEPT ![h] = j]
      /\ UNCHANGED <<client, server, hpc, hport>>
  BY DEF Count, Stage, ends, outside, tproxyVars
<1>2. /\ j \in JobType
      /\ j.stage = "relay" /\ j.read = job[h].read /\ j.peek = job[h].peek
      /\ j.taken = job[h].taken /\ j.early = job[h].early
      /\ j.up = job[h].up /\ j.down = job[h].down
  BY <1>0 DEF JobType, Stages
<1> HIDE DEF j
<1>3. Sound(j, client[h], server[h], hpc[h])
  BY <1>0, <1>1, <1>2 DEF Sound, Copied, Prologue
<1>4. Typed' /\ Only(h) /\ job'[h] = j
  BY <1>1, <1>2 DEF RelayInv, Typed, Only
<1>5. SoundAt(h)'
  BY <1>1, <1>3, <1>4 DEF SoundAt
<1>6. IsFiniteSet(counted') /\ connections' = Cardinality(counted')
  <2>1. counted' = counted \cup {hport[h]}
        /\ connections' = IF hport[h] \in counted THEN connections ELSE connections + 1
    BY DEF Count
  <2>2. IsFiniteSet(counted) /\ connections = Cardinality(counted)
    BY DEF RelayInv
  <2>3. CASE hport[h] \in counted
    <3>1. counted' = counted /\ connections' = connections
      BY <2>1, <2>3
    <3> QED
      BY <2>2, <3>1
  <2>4. CASE hport[h] \notin counted
    <3>1. /\ IsFiniteSet(counted \cup {hport[h]})
          /\ Cardinality(counted \cup {hport[h]}) = Cardinality(counted) + 1
      BY <2>2, <2>4, AddedOne
    <3> QED
      BY <2>1, <2>2, <2>4, <3>1
  <2> QED
    BY <2>3, <2>4
<1>7. Listing'
  <2>1. ASSUME NEW p \in counted' PROVE \E g \in Handlers : hport'[g] = p /\ job'[g].stage = "relay"
    <3>1. CASE p = hport[h]
      BY <1>1, <1>2, <1>4, <3>1
    <3>2. CASE p # hport[h]
      <4>1. p \in counted
        BY <3>2 DEF Count
      <4>2. PICK g \in Handlers : hport[g] = p /\ job[g].stage = "relay"
        BY <4>1 DEF RelayInv, Listing
      <4> QED
        BY <1>1, <1>2, <1>4, <4>2 DEF Only
    <3> QED
      BY <3>1, <3>2
  <2> QED
    BY <2>1 DEF Listing
<1> QED
  BY <1>4, <1>5, <1>6, <1>7, OthersSound DEF RelayInv

\* A step of a copying goroutine.
LEMMA CopySound ==
    ASSUME RelayInv, NEW h \in Handlers,
           NEW j \in JobType, NEW c \in EndType, NEW s \in EndType,
           UNCHANGED <<outside, stats>>,
           job' = [job EXCEPT ![h] = j],
           client' = [client EXCEPT ![h] = c], server' = [server EXCEPT ![h] = s],
           job[h].stage = "relay", j.stage = "relay", j.peek = 0,
           hpc[h] = "running" => Copied(j, c, s)
    PROVE  RelayInv'
<1>0. /\ job[h] \in JobType /\ client[h] \in EndType /\ server[h] \in EndType
      /\ Sound(job[h], client[h], server[h], hpc[h])
  BY AtHandler
<1>1. hpc' = [hpc EXCEPT ![h] = hpc[h]] /\ hpc[h] \in PCs /\ hport' = hport /\ UNCHANGED stats
  BY Standing DEF outside, tproxyVars
<1>2. Sound(j, c, s, hpc[h])
  BY <1>0 DEF Sound, Prologue
<1> QED
  BY <1>1, <1>2, HandlerMoves

LEMMA CopyUpSound == ASSUME RelayInv, NEW h \in Handlers, CopyUp(h) PROVE RelayInv'
<1>0. /\ job[h] \in JobType /\ client[h] \in EndType /\ server[h] \in EndType
      /\ Sound(job[h], client[h], server[h], hpc[h])
  BY AtHandler
<1>1. /\ job[h].stage = "relay" /\ hpc[h] = "running" /\ job[h].up = "copying"
      /\ job[h].read < client[h].sent /\ UNCHANGED <<outside, client, stats>>
  BY DEF CopyUp, Copying, Relaying
<1>2. Copied(job[h], client[h], server[h]) /\ job[h].peek = 0
  BY <1>0, <1>1 DEF Sound
<1>3. job[h].read \in Nat /\ client[h].sent \in Nat /\ server[h].got \in Seq(Nat)
  BY <1>0 DEF JobType, EndType
<1> DEFINE n == job[h].read + 1
           q == Append(server[h].got, n)
<1>3a. n \in Nat /\ q \in Seq(Nat)
  BY <1>3
<1>3b. q = Prefix(n)
  <2>1. job[h].read - job[h].peek = job[h].read
    BY <1>2, <1>3
  <2>2. server[h].got = Prefix(job[h].read)
    BY <1>2, <2>1 DEF Copied
  <2> QED
    BY <1>3, <2>2, PrefixProperties
<1>3c. n <= client[h].sent
  BY <1>1, <1>3
<1> DEFINE j == [job[h] EXCEPT !.read = n]
           s == [server[h] EXCEPT !.got = q]
<1>4. job' = [job EXCEPT ![h] = j] /\ server' = [server EXCEPT ![h] = s]
  BY DEF CopyUp
<1> HIDE DEF n, q
<1>5. /\ j \in JobType
      /\ j.stage = job[h].stage /\ j.read = n /\ j.peek = job[h].peek
      /\ j.taken = job[h].taken /\ j.early = job[h].early
      /\ j.up = job[h].up /\ j.down = job[h].down
  BY <1>0, <1>3a DEF JobType
<1>6. s \in EndType /\ s.sent = server[h].sent /\ s.end = server[h].end /\ s.got = q
  BY <1>0, <1>3a DEF EndType
<1> HIDE DEF j, s
<1>7. j.read - j.peek = n /\ j.peek <= j.read
  BY <1>2, <1>3a, <1>5
<1>8. Copied(j, client[h], s)
  BY <1>1, <1>2, <1>3b, <1>3c, <1>5, <1>6, <1>7 DEF Copied
<1>9. client' = [client EXCEPT ![h] = client[h]]
  BY <1>1, Standing
<1>11. UNCHANGED <<outside, stats>> /\ job[h].stage = "relay"
  BY <1>1
<1>12. j.stage = "relay" /\ j.peek = 0
  BY <1>1, <1>2, <1>4, <1>5
<1> QED
  BY <1>0, <1>4, <1>5, <1>6, <1>8, <1>9, <1>11, <1>12, CopySound

LEMMA UpEndsSound == ASSUME RelayInv, NEW h \in Handlers, UpEnds(h) PROVE RelayInv'
<1>0. /\ job[h] \in JobType /\ client[h] \in EndType /\ server[h] \in EndType
      /\ Sound(job[h], client[h], server[h], hpc[h])
  BY AtHandler
<1>1. /\ job[h].stage = "relay" /\ hpc[h] = "running"
      /\ client[h].end = "fin" /\ job[h].read = client[h].sent
      /\ UNCHANGED <<outside, client, stats>>
  BY DEF UpEnds, Copying, Relaying
<1>2. Copied(job[h], client[h], server[h]) /\ job[h].peek = 0
  BY <1>0, <1>1 DEF Sound
<1> DEFINE w == ~job[h].wrapped
<1>3. w \in BOOLEAN
  BY <1>0 DEF JobType
<1> DEFINE j == [job[h] EXCEPT !.up = "eof"]
           s == [server[h] EXCEPT !.eof = w]
<1>4. job' = [job EXCEPT ![h] = j] /\ server' = [server EXCEPT ![h] = s]
  BY DEF UpEnds
<1> HIDE DEF w
<1>5. /\ j \in JobType
      /\ j.stage = job[h].stage /\ j.read = job[h].read /\ j.peek = job[h].peek
      /\ j.taken = job[h].taken /\ j.early = job[h].early /\ j.down = job[h].down
  BY <1>0 DEF JobType
<1>6. s \in EndType /\ s.sent = server[h].sent /\ s.end = server[h].end /\ s.got = server[h].got
  BY <1>0, <1>3 DEF EndType
<1> HIDE DEF j, s
<1>7. Copied(j, client[h], s)
  BY <1>1, <1>2, <1>5, <1>6 DEF Copied
<1>8. client' = [client EXCEPT ![h] = client[h]]
  BY <1>1, Standing
<1>11. UNCHANGED <<outside, stats>> /\ job[h].stage = "relay"
  BY <1>1
<1>12. j.stage = "relay" /\ j.peek = 0
  BY <1>1, <1>2, <1>4, <1>5
<1> QED
  BY <1>0, <1>4, <1>5, <1>6, <1>7, <1>8, <1>11, <1>12, CopySound

LEMMA CopyDownSound == ASSUME RelayInv, NEW h \in Handlers, CopyDown(h) PROVE RelayInv'
<1>0. /\ job[h] \in JobType /\ client[h] \in EndType /\ server[h] \in EndType
      /\ Sound(job[h], client[h], server[h], hpc[h])
  BY AtHandler
<1>1. /\ job[h].stage = "relay" /\ hpc[h] = "running" /\ job[h].down = "copying"
      /\ UNCHANGED <<outside, server, stats>>
  BY DEF CopyDown, Copying, Relaying
<1>2. Copied(job[h], client[h], server[h]) /\ job[h].peek = 0
  BY <1>0, <1>1 DEF Sound
<1>3. job[h].taken \in Nat /\ job[h].early \in Nat /\ server[h].sent \in Nat
      /\ client[h].got \in Seq(Nat)
  BY <1>0 DEF JobType, EndType
<1>4. PICK j \in JobType, n \in Nat :
         /\ job' = [job EXCEPT ![h] = j]
         /\ client' = [client EXCEPT ![h].got = Append(client[h].got, n + 1)]
         /\ j.stage = job[h].stage /\ j.read = job[h].read /\ j.peek = job[h].peek
         /\ j.up = job[h].up /\ j.down = job[h].down
         /\ n = job[h].taken - job[h].early
         /\ j.early = 0 /\ j.taken = n + 1 /\ j.taken <= server[h].sent
  <2>1. CASE /\ job[h].early > 0
             /\ job' = [job EXCEPT ![h].early = 0]
             /\ client' = [client EXCEPT ![h].got = Append(@, job[h].taken)]
    <3>1. job[h].early = 1 /\ job[h].taken = 1 /\ 1 <= server[h].sent
      BY <1>2, <1>3, <2>1 DEF Copied
    <3> DEFINE j == [job[h] EXCEPT !.early = 0]
    <3>2. /\ j \in JobType /\ j.stage = job[h].stage /\ j.read = job[h].read
          /\ j.peek = job[h].peek /\ j.up = job[h].up /\ j.down = job[h].down
          /\ j.early = 0 /\ j.taken = job[h].taken
      BY <1>0 DEF JobType
    <3>3. job' = [job EXCEPT ![h] = j]
      BY <2>1
    <3> HIDE DEF j
    <3>4. client' = [client EXCEPT ![h].got = Append(client[h].got, 0 + 1)]
      BY <2>1, <3>1
    <3>5. 0 = job[h].taken - job[h].early /\ j.taken = 0 + 1 /\ j.taken <= server[h].sent
      BY <3>1, <3>2
    <3> QED
      BY <3>2, <3>3, <3>4, <3>5
  <2>2. CASE /\ job[h].early = 0 /\ job[h].taken < server[h].sent
             /\ job' = [job EXCEPT ![h].taken = @ + 1]
             /\ client' = [client EXCEPT ![h].got = Append(@, job[h].taken + 1)]
    <3> DEFINE j == [job[h] EXCEPT !.taken = job[h].taken + 1]
    <3>1. /\ j \in JobType /\ j.stage = job[h].stage /\ j.read = job[h].read
          /\ j.peek = job[h].peek /\ j.up = job[h].up /\ j.down = job[h].down
          /\ j.early = job[h].early /\ j.taken = job[h].taken + 1
      BY <1>0, <1>3 DEF JobType
    <3>2. job' = [job EXCEPT ![h] = j]
      BY <2>2
    <3> HIDE DEF j
    <3>3. job[h].taken = job[h].taken - job[h].early /\ j.taken <= server[h].sent
      BY <1>3, <2>2, <3>1
    <3> QED
      BY <1>3, <2>2, <3>1, <3>2, <3>3
  <2> QED
    BY <2>1, <2>2 DEF CopyDown
<1> DEFINE q == Append(client[h].got, n + 1)
<1>4a. q \in Seq(Nat)
  BY <1>3
<1>4b. q = Prefix(j.taken)
  BY <1>2, <1>4, PrefixProperties DEF Copied
<1> DEFINE c == [client[h] EXCEPT !.got = q]
<1>5. client' = [client EXCEPT ![h] = c]
  BY <1>4
<1> HIDE DEF q
<1>6. c \in EndType /\ c.sent = client[h].sent /\ c.end = client[h].end /\ c.got = q
  BY <1>0, <1>4a DEF EndType
<1> HIDE DEF c
<1>7. c.got = Prefix(j.taken)
  BY <1>4b, <1>6
<1>8. j.taken \in Nat /\ j.taken - 0 = j.taken
  BY <1>4 DEF JobType
<1>9. Copied(j, c, server[h])
  BY <1>1, <1>2, <1>4, <1>6, <1>7, <1>8 DEF Copied
<1>10. server' = [server EXCEPT ![h] = server[h]]
  BY <1>1, Standing
<1>11. UNCHANGED <<outside, stats>> /\ job[h].stage = "relay"
  BY <1>1
<1>12. j.stage = "relay" /\ j.peek = 0
  BY <1>1, <1>2, <1>4, <1>5
<1> QED
  <2>1. job' = [job EXCEPT ![h] = j] /\ (hpc[h] = "running" => Copied(j, c, server[h]))
    BY <1>4, <1>9
  <2> QED
    BY <1>0, <1>5, <1>6, <1>10, <1>11, <1>12, <2>1, CopySound

LEMMA DownEndsSound == ASSUME RelayInv, NEW h \in Handlers, DownEnds(h) PROVE RelayInv'
<1>0. /\ job[h] \in JobType /\ client[h] \in EndType /\ server[h] \in EndType
      /\ Sound(job[h], client[h], server[h], hpc[h])
  BY AtHandler
<1>1. /\ job[h].stage = "relay" /\ hpc[h] = "running"
      /\ server[h].end = "fin" /\ job[h].early = 0 /\ job[h].taken = server[h].sent
      /\ UNCHANGED <<outside, server, stats>>
  BY DEF DownEnds, Copying, Relaying
<1>2. Copied(job[h], client[h], server[h]) /\ job[h].peek = 0
  BY <1>0, <1>1 DEF Sound
<1> DEFINE j == [job[h] EXCEPT !.down = "eof"]
           c == [client[h] EXCEPT !.eof = TRUE]
<1>3. job' = [job EXCEPT ![h] = j] /\ client' = [client EXCEPT ![h] = c]
  BY DEF DownEnds
<1>4. /\ j \in JobType
      /\ j.stage = job[h].stage /\ j.read = job[h].read /\ j.peek = job[h].peek
      /\ j.taken = job[h].taken /\ j.early = job[h].early /\ j.up = job[h].up
  BY <1>0 DEF JobType
<1>5. c \in EndType /\ c.sent = client[h].sent /\ c.end = client[h].end /\ c.got = client[h].got
  BY <1>0 DEF EndType
<1> HIDE DEF j, c
<1>6. Copied(j, c, server[h])
  BY <1>1, <1>2, <1>4, <1>5 DEF Copied
<1>7. server' = [server EXCEPT ![h] = server[h]]
  BY <1>1, Standing
<1>11. UNCHANGED <<outside, stats>> /\ job[h].stage = "relay"
  BY <1>1
<1>12. j.stage = "relay" /\ j.peek = 0
  BY <1>1, <1>2, <1>4, <1>5
<1> QED
  BY <1>0, <1>3, <1>4, <1>5, <1>6, <1>7, <1>11, <1>12, CopySound

LEMMA CopyFailsSound ==
    ASSUME RelayInv, NEW h \in Handlers, CopyFails(h, "up") \/ CopyFails(h, "down")
    PROVE  RelayInv'
<1>0. /\ job[h] \in JobType /\ client[h] \in EndType /\ server[h] \in EndType
      /\ Sound(job[h], client[h], server[h], hpc[h])
  BY AtHandler
<1>1. job[h].stage = "relay" /\ UNCHANGED <<outside, client, server, stats>>
  BY DEF CopyFails, Copying, Relaying, ends
<1>2. PICK j \in JobType :
         /\ job' = [job EXCEPT ![h] = j]
         /\ j.stage = job[h].stage /\ j.read = job[h].read /\ j.peek = job[h].peek
         /\ j.taken = job[h].taken /\ j.early = job[h].early
         /\ j.up \in {job[h].up, "error"} /\ j.down \in {job[h].down, "error"}
  <2>1. CASE CopyFails(h, "up")
    <3> DEFINE j == [job[h] EXCEPT !.up = "error"]
    <3>1. job' = [job EXCEPT ![h] = j]
      BY <2>1 DEF CopyFails
    <3>2. /\ j \in JobType
          /\ j.stage = job[h].stage /\ j.read = job[h].read /\ j.peek = job[h].peek
          /\ j.taken = job[h].taken /\ j.early = job[h].early
          /\ j.up = "error" /\ j.down = job[h].down
      BY <1>0 DEF JobType
    <3> QED
      BY <3>1, <3>2
  <2>2. CASE CopyFails(h, "down")
    <3> DEFINE j == [job[h] EXCEPT !.down = "error"]
    <3>1. job' = [job EXCEPT ![h] = j]
      BY <2>2 DEF CopyFails
    <3>2. /\ j \in JobType
          /\ j.stage = job[h].stage /\ j.read = job[h].read /\ j.peek = job[h].peek
          /\ j.taken = job[h].taken /\ j.early = job[h].early
          /\ j.up = job[h].up /\ j.down = "error"
      BY <1>0 DEF JobType
    <3> QED
      BY <3>1, <3>2
  <2> QED
    BY <2>1, <2>2
<1>3. hpc[h] = "running" => Copied(j, client[h], server[h])
  BY <1>0, <1>1, <1>2 DEF Sound, Copied
<1>4. j.peek = 0
  BY <1>0, <1>1, <1>2 DEF Sound
<1>5. client' = [client EXCEPT ![h] = client[h]] /\ server' = [server EXCEPT ![h] = server[h]]
  BY <1>1, Standing
<1>11. UNCHANGED <<outside, stats>> /\ job[h].stage = "relay"
  BY <1>1
<1>12. j.stage = "relay" /\ j.peek = 0
  BY <1>1, <1>2, <1>4, <1>5
<1> QED
  <2>1. job' = [job EXCEPT ![h] = j]
    BY <1>2
  <2> QED
    BY <1>0, <1>3, <1>5, <1>11, <1>12, <2>1, CopySound

\* The relay error: what the peers do no longer reaches the handler.
LEMMA CloseBothSound == ASSUME RelayInv, NEW h \in Handlers, CloseBoth(h) PROVE RelayInv'
<1>0. /\ job[h] \in JobType /\ client[h] \in EndType /\ server[h] \in EndType
      /\ Sound(job[h], client[h], server[h], hpc[h])
  BY AtHandler
<1> DEFINE up == job[h].up
           down == job[h].down
           j == [NoJob EXCEPT !.up = up, !.down = down, !.stage = "relay"]
           c == [Peer EXCEPT !.end = "reset"]
<1>1. /\ job[h].stage = "relay" /\ job' = [job EXCEPT ![h] = j]
      /\ client' = [client EXCEPT ![h] = c] /\ server' = [server EXCEPT ![h] = c]
  BY DEF CloseBoth, Stage, Forget
<1>1a. up \in {"copying", "eof", "error"} /\ down \in {"copying", "eof", "error"}
  BY <1>0 DEF JobType
<1> HIDE DEF up, down
<1>2. j \in JobType /\ j.stage = "relay" /\ j.peek = 0
  BY <1>1a DEF NoJob, JobType, Stages
<1>3. c \in EndType
  BY PeersTyped DEF EndType
<1> HIDE DEF j, c
<1>4. Sound(j, c, c, "broken")
  BY <1>2 DEF Sound, Prologue
<1>5. hpc' = [hpc EXCEPT ![h] = "broken"] /\ hport' = hport /\ UNCHANGED stats
  BY DEF CloseBoth, RelayError
<1>6. "broken" \in PCs
  BY DEF PCs
<1>7. job[h].stage = "relay" => j.stage = "relay"
  BY <1>2
<1> QED
  BY <1>1, <1>2, <1>3, <1>4, <1>5, <1>6, <1>7, HandlerMoves

LEMMA UncountSound == ASSUME RelayInv, NEW h \in Handlers, Uncount(h) PROVE RelayInv'
<1>0. /\ job[h] \in JobType /\ client[h] \in EndType /\ server[h] \in EndType
      /\ Sound(job[h], client[h], server[h], hpc[h])
  BY AtHandler
<1> DEFINE j == [NoJob EXCEPT !.stage = "release"]
<1>1. /\ job[h].stage = "relay" /\ job' = [job EXCEPT ![h] = j]
      /\ client' = [client EXCEPT ![h] = Peer] /\ server' = [server EXCEPT ![h] = Peer]
      /\ UNCHANGED <<hpc, hport>>
  BY DEF Uncount, Relaying, Leave, Forget, outside, tproxyVars
<1>2. j \in JobType /\ j.stage = "release"
  BY DEF NoJob, JobType, Stages
<1> HIDE DEF j
<1>3. Sound(j, Peer, Peer, hpc[h])
  BY <1>0, <1>1, <1>2 DEF Sound, Prologue
<1>4. /\ Typed' /\ Only(h) /\ job'[h] = j /\ client'[h] = Peer /\ server'[h] = Peer
  BY <1>1, <1>2, PeersTyped DEF RelayInv, Typed, Only
<1>5. SoundAt(h)'
  BY <1>1, <1>3, <1>4 DEF SoundAt
<1>6. IsFiniteSet(counted) /\ connections = Cardinality(counted)
  BY DEF RelayInv
<1>7. /\ counted' = counted \ {hport[h]}
      /\ connections' = IF hport[h] \in counted /\ connections > 0 THEN connections - 1
                        ELSE connections
  BY DEF Uncount
<1>8. IsFiniteSet(counted') /\ connections' = Cardinality(counted')
  <2>1. CASE hport[h] \in counted
    <3>1. /\ IsFiniteSet(counted \ {hport[h]})
          /\ Cardinality(counted \ {hport[h]}) = Cardinality(counted) - 1
          /\ Cardinality(counted) > 0
      BY <1>6, <2>1, RemovedOne
    <3> QED
      BY <1>6, <1>7, <2>1, <3>1
  <2>2. CASE hport[h] \notin counted
    <3>1. counted' = counted /\ connections' = connections
      BY <1>7, <2>2
    <3> QED
      BY <1>6, <3>1
  <2> QED
    BY <2>1, <2>2
<1>9. Listing'
  <2>1. ASSUME NEW p \in counted' PROVE \E g \in Handlers : hport'[g] = p /\ job'[g].stage = "relay"
    <3>1. p \in counted /\ p # hport[h]
      BY <1>7
    <3>2. PICK g \in Handlers : hport[g] = p /\ job[g].stage = "relay"
      BY <3>1 DEF RelayInv, Listing
    <3>3. g \in Handlers \ {h}
      BY <3>1, <3>2
    <3> QED
      BY <1>4, <3>2, <3>3 DEF Only
  <2> QED
    BY <2>1 DEF Listing
<1> QED
  BY <1>4, <1>5, <1>8, <1>9, OthersSound DEF RelayInv

LEMMA ReleaseSound == ASSUME RelayInv, NEW h \in Handlers, Release(h) PROVE RelayInv'
<1>0. /\ job[h] \in JobType /\ client[h] \in EndType /\ server[h] \in EndType
      /\ Sound(job[h], client[h], server[h], hpc[h])
  BY AtHandler
<1> DEFINE j == [NoJob EXCEPT !.stage = "none"]
<1>1. /\ job[h].stage = "release" /\ job' = [job EXCEPT ![h] = j]
      /\ UNCHANGED <<client, server, stats>>
  BY DEF Release, Stage, ends
<1>2. j \in JobType /\ j.stage = "none"
  BY DEF NoJob, JobType, Stages
<1> HIDE DEF j
<1>3. client[h] = Peer /\ server[h] = Peer
  BY <1>0, <1>1 DEF Sound
<1>4. ASSUME NEW pc \in PCs \ {"broken"} PROVE Sound(j, Peer, Peer, pc)
  BY <1>2, <1>4 DEF Sound, Prologue
<1>5. CASE Return(h)
  <2>1. hpc' = [hpc EXCEPT ![h] = "closing"] /\ hport' = hport
    BY <1>5 DEF Return
  <2>2. client' = [client EXCEPT ![h] = Peer] /\ server' = [server EXCEPT ![h] = Peer]
    BY <1>1, <1>3, Standing
  <2>3. "closing" \in PCs /\ Sound(j, Peer, Peer, "closing")
    BY <1>4 DEF PCs
  <2>4. job[h].stage = "relay" => j.stage = "relay"
    BY <1>1
  <2> QED
    BY <1>1, <1>2, <2>1, <2>2, <2>3, <2>4, PeersTyped, HandlerMoves
<1>6. CASE Unwind(h)
  <2>1. hpc' = [hpc EXCEPT ![h] = "idle"] /\ hport' = [hport EXCEPT ![h] = NoPort]
    BY <1>6 DEF Unwind, Done
  <2>2. Typed' /\ Only(h) /\ job'[h] = j /\ hpc'[h] = "idle"
    BY <1>1, <1>2, <2>1 DEF RelayInv, Typed, Only
  <2>3. SoundAt(h)'
    <3>1. Sound(j, Peer, Peer, "idle")
      BY <1>4 DEF PCs
    <3> QED
      BY <1>1, <1>3, <2>2, <3>1 DEF SoundAt
  <2>4. job[h].stage = "relay" => job'[h].stage = "relay" /\ hport'[h] = hport[h]
    BY <1>1
  <2> QED
    BY <1>1, <2>2, <2>3, <2>4, OneMoves
<1> QED
  BY <1>5, <1>6 DEF Release

\* A handler that accepts has nothing of an earlier connection left.
LEMMA ListenerSound == ASSUME RelayInv, Listener PROVE RelayInv'
<1>1. UNCHANGED <<job, client, server, stats>>
  BY DEF Listener, relayVars, ends
<1>2. ASSUME NEW p \in Ports, Abandon(p) PROVE RelayInv'
  <2>1. UNCHANGED <<hpc, hport>>
    BY <1>2 DEF Abandon
  <2> QED
    BY <1>1, <2>1, StandsSound
<1>3. ASSUME NEW h \in Handlers, NEW p \in Ports, Accept(h, p) PROVE RelayInv'
  <2>0. Sound(job[h], client[h], server[h], hpc[h])
    BY AtHandler
  <2>1. /\ hpc[h] = "idle" /\ hpc' = [hpc EXCEPT ![h] = "accepted"]
        /\ hport' = [hport EXCEPT ![h] = p]
    BY <1>3 DEF Accept
  <2>2. Typed' /\ Only(h) /\ hpc'[h] = "accepted"
    BY <1>1, <2>1 DEF RelayInv, Typed, Only
  <2>3. job[h].stage = "none" /\ client[h] = Peer /\ server[h] = Peer
    BY <2>0, <2>1 DEF Sound
  <2>4. SoundAt(h)'
    BY <1>1, <2>2, <2>3 DEF SoundAt, Sound, Prologue
  <2> QED
    BY <1>1, <2>2, <2>3, <2>4, OneMoves
<1> QED
  BY <1>2, <1>3 DEF Listener

-----------------------------------------------------------------------------
(* All steps together.                                                     *)

LEMMA WorkSound == ASSUME RelayInv, NEW h \in Handlers, Work(h) PROVE RelayInv'
<1>1. CASE ChooseDialer(h)
  BY <1>1, StandsSound DEF ChooseDialer, tproxyVars, relayVars, ends
<1>2. CASE Refused(h)
  BY <1>2, DialFailsSound DEF Refused
<1>3. CASE NoAnswer(h)
  BY <1>3, DialFailsSound DEF NoAnswer, Speaks
<1> QED
  BY <1>1, <1>2, <1>3, EnterSound, SniffSound, ConnectSound, ReplaySound, CountSound,
     CopyUpSound, UpEndsSound, CopyDownSound, DownEndsSound, CopyFailsSound,
     CloseBothSound, UncountSound, ReleaseSound DEF Work

LEMMA NextSound == RelayInv /\ [Next]_vars => RelayInv'
<1> SUFFICES ASSUME RelayInv, [Next]_vars PROVE RelayInv'
  OBVIOUS
<1>1. ASSUME NEW f \in Flows, Packet(f) PROVE RelayInv'
  BY <1>1, StandsSound DEF Packet, relayVars, ends
<1>2. CASE SwitchUpstream
  BY <1>2, StandsSound DEF SwitchUpstream, tproxyVars, relayVars, ends
<1>3. CASE UNCHANGED vars
  BY <1>3, StandsSound DEF vars, tproxyVars, relayVars, ends
<1> QED
  BY <1>1, <1>2, <1>3, ListenerSound, WorkSound, AnswerSound, ClientStepSound, ServerStepSound
  DEF Next

LEMMA InitSound == Init => RelayInv
<1> SUFFICES ASSUME Init PROVE RelayInv
  OBVIOUS
<1>1. /\ job = [h \in Handlers |-> NoJob] /\ client = [h \in Handlers |-> Peer]
      /\ server = [h \in Handlers |-> Peer]
      /\ hpc = [h \in Handlers |-> "idle"] /\ hport = [h \in Handlers |-> NoPort]
      /\ counted = {} /\ connections = 0
  BY DEF Init, TProxyInit
<1>2. Typed
  BY <1>1, PeersTyped DEF Typed
<1>3. \A h \in Handlers : SoundAt(h)
  BY <1>1 DEF SoundAt, Sound, NoJob, Prologue
<1>4. IsFiniteSet(counted) /\ connections = Cardinality(counted)
  BY <1>1, FS_EmptySet
<1> QED
  BY <1>1, <1>2, <1>3, <1>4 DEF RelayInv, Listing

\* What Sound means for a handler that relays.
LEMMA RelayedIsWhole ==
    ASSUME RelayInv, NEW h \in Handlers, Relaying(h), hpc[h] = "running"
    PROVE  /\ server[h].got = Prefix(job[h].read)
           /\ job[h].up = "eof" => job[h].read = client[h].sent
           /\ client[h].got = Prefix(job[h].taken - job[h].early)
           /\ job[h].down = "eof" => client[h].got = Prefix(server[h].sent)
<1>1. /\ Copied(job[h], client[h], server[h]) /\ job[h].peek = 0
      /\ job[h] \in JobType
  BY AtHandler DEF Sound, Relaying
<1>2. job[h].read - job[h].peek = job[h].read /\ job[h].taken - 0 = job[h].taken
  BY <1>1 DEF JobType
<1> QED
  BY <1>1, <1>2 DEF Copied

(* tproxy.go: an upstream has received, in order and without a gap, all    *)
(* that was read from its client, the sniffed hello included; when the     *)
(* copying ends without an error that is everything the client sent.       *)
THEOREM UpstreamReceivesAll == Spec => []UpstreamGetsAll
<1>1. RelayInv => UpstreamGetsAll
  BY RelayedIsWhole DEF UpstreamGetsAll
<1> QED
  BY <1>1, InitSound, NextSound, PTL DEF Spec

(* httpproxy.go: a client has received, in order and without a gap, all    *)
(* that was taken from its upstream but for what the reader of the CONNECT *)
(* still holds; when the copying ends without an error that is everything. *)
THEOREM ClientReceivesAll == Spec => []ClientGetsAll
<1>1. RelayInv => ClientGetsAll
  BY RelayedIsWhole DEF ClientGetsAll
<1> QED
  BY <1>1, InitSound, NextSound, PTL DEF Spec

(* AddActiveConn and RemoveActiveConn of engine.go: the number of          *)
(* connections is that of the listed ports, each of them of a handler that *)
(* is still relaying, for any number of handlers and ports.                *)
THEOREM StatisticsAgree == Spec => []StatsAgree
<1>1. RelayInv => StatsAgree
  BY DEF RelayInv, Listing, StatsAgree, Relaying
<1> QED
  BY <1>1, InitSound, NextSound, PTL DEF Spec

-----------------------------------------------------------------------------
(***************************************************************************)
(* What a relay shares with the other handlers: the connection tracker and *)
(* the listener.  It touches them as TProxy says, and a hijacked packet as *)
(* the packet loop does.                                                   *)
(***************************************************************************)
shared == <<trackerVars, tproxyVars>>

Arrival ==
    /\ \E f \in Flows, p \in Ports :
          /\ Set(f, p) \/ UNCHANGED trackerVars
          /\ \E seg \in {"syn", "data"} : Deliver(p, seg)
    /\ UNCHANGED <<hpc, hport, htarget>>

LEMMA RelayMovesShared == [Next]_vars => [TProxyNext \/ Arrival]_shared
<1> SUFFICES ASSUME [Next]_vars PROVE TProxyNext \/ Arrival \/ UNCHANGED shared
  OBVIOUS
<1>1. ASSUME NEW f \in Flows, Packet(f) PROVE Arrival
  BY <1>1 DEF Packet, Arrival
<1>2. ASSUME Listener PROVE TProxyNext
  BY <1>2 DEF Listener, TProxyNext
<1>3. ASSUME SwitchUpstream \/ UNCHANGED vars PROVE UNCHANGED shared
  BY <1>3 DEF SwitchUpstream, vars, shared
<1>4. ASSUME NEW h \in Handlers, ClientStep(h) \/ ServerStep(h) PROVE UNCHANGED shared
  BY <1>4 DEF ClientStep, ServerStep, outside, shared
<1>5. ASSUME NEW h \in Handlers, Answer(h) PROVE UNCHANGED shared
  BY <1>5 DEF Answer, ConnectedHTTP, DialFails, outside, shared
<1>6. ASSUME NEW h \in Handlers, Work(h) PROVE TProxyNext \/ UNCHANGED shared
  <2>1. CASE Enter(h)
    BY <2>1 DEF Enter, TProxyNext, Progress
  <2>2. CASE CloseBoth(h)
    BY <2>2 DEF CloseBoth, TProxyNext
  <2>3. CASE Release(h)
    BY <2>3 DEF Release, TProxyNext, Progress
  <2>4. CASE Refused(h) \/ NoAnswer(h)
    BY <2>4 DEF Refused, NoAnswer, DialFails, outside, shared
  <2>5. CASE Sniff(h) \/ ChooseDialer(h) \/ Connect(h) \/ Replay(h) \/ Count(h)
    BY <2>5 DEF Sniff, ChooseDialer, Connect, Replay, Count, outside, shared
  <2>6. CASE \/ CopyUp(h) \/ UpEnds(h) \/ CopyDown(h) \/ DownEnds(h)
             \/ CopyFails(h, "up") \/ CopyFails(h, "down") \/ Uncount(h)
    BY <2>6 DEF CopyUp, UpEnds, CopyDown, DownEnds, CopyFails, Uncount, outside, shared
  <2> QED
    BY <1>6, <2>1, <2>2, <2>3, <2>4, <2>5, <2>6 DEF Work
<1> QED
  BY <1>1, <1>2, <1>3, <1>4, <1>5, <1>6 DEF Next

\* A handler that is not idle serves a mapped port.
Serving == \A h \in Handlers : hpc[h] # "idle" => hport[h] \in Ports

SharedInv == TrackerInv /\ TProxyTypeOK /\ Serving

\* The listener and the handlers, as TProxy has them.
LEMMA TProxySteps ==
    ASSUME SharedInv, TProxyNext
    PROVE  [TrackerNext]_trackerVars /\ TProxyTypeOK' /\ Serving'
<1> USE DEF SharedInv, TProxyTypeOK, Serving
<1>1. ASSUME NEW p \in Ports, Abandon(p)
      PROVE  UNCHANGED trackerVars /\ TProxyTypeOK' /\ Serving'
  BY <1>1 DEF Abandon
<1>2. ASSUME NEW h \in Handlers, NEW p \in Ports, Accept(h, p)
      PROVE  UNCHANGED trackerVars /\ TProxyTypeOK' /\ Serving'
  BY <1>2 DEF Accept
<1>3. ASSUME NEW h \in Handlers, LookupTarget(h)
      PROVE  UNCHANGED trackerVars /\ TProxyTypeOK' /\ Serving'
  <2>1. hport[h] \in Ports
    BY <1>3 DEF LookupTarget
  <2>2. entries[hport[h]] \in Flows \cup {NoFlow}
    BY <2>1 DEF TrackerInv, TrackerTypeOK
  <2> QED
    BY <1>3, <2>2 DEF LookupTarget
<1>4. ASSUME NEW h \in Handlers, PinTarget(h)
      PROVE  TrackerNext /\ TProxyTypeOK' /\ Serving'
  <2>1. hport[h] \in Ports
    BY <1>4 DEF PinTarget
  <2>2. Activate(hport[h])
    BY <1>4 DEF PinTarget
  <2>3. TProxyTypeOK' /\ Serving'
    BY <1>4 DEF PinTarget
  <2> QED
    BY <2>1, <2>2, <2>3 DEF TrackerNext
<1>5. ASSUME NEW h \in Handlers, RelayError(h)
      PROVE  UNCHANGED trackerVars /\ TProxyTypeOK' /\ Serving'
  BY <1>5 DEF RelayError
<1>6. ASSUME NEW h \in Handlers, Return(h) \/ Unwind(h)
      PROVE  TrackerNext /\ TProxyTypeOK' /\ Serving'
  <2>1. hport[h] \in Ports
    BY <1>6 DEF Return, Unwind
  <2>2. Delete(hport[h])
    BY <1>6 DEF Return, Unwind
  <2>3. TProxyTypeOK' /\ Serving'
    BY <1>6 DEF Return, Unwind, Done
  <2> QED
    BY <2>1, <2>2, <2>3 DEF TrackerNext
<1>7. ASSUME NEW h \in Handlers, CloseConn(h)
      PROVE  UNCHANGED trackerVars /\ TProxyTypeOK' /\ Serving'
  BY <1>7 DEF CloseConn, Done
<1> QED
  BY <1>1, <1>2, <1>3, <1>4, <1>5, <1>6, <1>7 DEF TProxyNext, Progress

LEMMA ArrivalKeeps ==
    ASSUME SharedInv, Arrival
    PROVE  [TrackerNext]_trackerVars /\ TProxyTypeOK' /\ Serving'
<1>1. [TrackerNext]_trackerVars
  BY DEF Arrival, TrackerNext
<1>2. PICK p \in Ports, seg \in {"syn", "data"} : Deliver(p, seg)
  BY DEF Arrival
<1>3. listen' \in [Ports -> {"none", "syn", "ready"}]
  BY <1>2 DEF Deliver, SharedInv, TProxyTypeOK
<1> QED
  BY <1>1, <1>3 DEF Arrival, SharedInv, TProxyTypeOK, Serving

LEMMA SharedStep ==
    ASSUME SharedInv, [Next]_vars
    PROVE  SharedInv' /\ [TrackerNext]_trackerVars
<1>1. CASE UNCHANGED shared
  BY <1>1, StutterInv DEF shared, SharedInv, TProxyTypeOK, Serving, tproxyVars
<1>2. CASE TProxyNext \/ Arrival
  <2>1. [TrackerNext]_trackerVars /\ TProxyTypeOK' /\ Serving'
    BY <1>2, TProxySteps, ArrivalKeeps
  <2> QED
    BY <2>1, NextInv DEF SharedInv
<1> QED
  BY <1>1, <1>2, RelayMovesShared

LEMMA SharedInit == Init => SharedInv
<1> SUFFICES ASSUME Init PROVE SharedInv
  OBVIOUS
<1>1. TrackerInv
  BY InitInv DEF Init
<1> QED
  BY <1>1 DEF Init, TProxyInit, SharedInv, TProxyTypeOK, Serving

(* tproxy.go uses the tracker through its methods alone, whatever becomes  *)
(* of the connections: what is proved of the tracker holds beneath them.   *)
THEOREM RelayUsesTracker == Spec => TrackerSpec
<1>1. Init => TrackerInit
  BY DEF Init
<1> QED
  BY <1>1, SharedInit, SharedStep, PTL DEF Spec, TrackerSpec

(* So a relay holds its leases as PortLease promises: what is pinned while *)
(* a handler serves it ends by that handler's Delete and by nothing else.  *)
THEOREM RelayImplementsLeases == Spec => ImplementsLeases
BY RelayUsesTracker, TrackerImplementsLeases

(* A handler that relays keeps to what TProxy allows it with the listener  *)
(* and the tracker, in every step.                                         *)
THEOREM RelayKeepsToTProxy == Spec => [][TProxyNext \/ Arrival]_shared
BY RelayMovesShared, PTL DEF Spec

\* A pin is set and removed by the same handler.
LEMMA PinsKept ==
    ASSUME SharedInv, NoOrphanPin, TProxyNext \/ Arrival
    PROVE  NoOrphanPin'
<1> USE DEF NoOrphanPin
<1>0. TrackerTypeOK /\ TProxyTypeOK
  BY DEF SharedInv, TrackerInv
<1>1. CASE \E p \in Ports : Abandon(p)
  BY <1>1 DEF Abandon, trackerVars
<1>2. ASSUME NEW h \in Handlers, NEW p \in Ports, Accept(h, p) PROVE NoOrphanPin'
  BY <1>0, <1>2 DEF Accept, trackerVars, TProxyTypeOK
<1>3. ASSUME NEW h \in Handlers, LookupTarget(h) \/ RelayError(h) \/ CloseConn(h)
      PROVE  NoOrphanPin'
  BY <1>0, <1>3 DEF LookupTarget, RelayError, CloseConn, Done, trackerVars, TProxyTypeOK
<1>4. ASSUME NEW h \in Handlers, PinTarget(h) PROVE NoOrphanPin'
  BY <1>0, <1>4 DEF PinTarget, Activate, TProxyTypeOK
<1>5. ASSUME NEW h \in Handlers, Return(h) \/ Unwind(h) PROVE NoOrphanPin'
  <2>1. active' = active \ {hport[h]}
    BY <1>5 DEF Return, Unwind, Delete
  <2>2. \A k \in Handlers \ {h} : hport'[k] = hport[k] /\ hpc'[k] = hpc[k]
    BY <1>0, <1>5 DEF Return, Unwind, Done, TProxyTypeOK
  <2> QED
    BY <2>1, <2>2
<1>6. CASE Arrival
  BY <1>6 DEF Arrival, Set, Reuse, Lease, Exhausted, trackerVars
<1> QED
  BY <1>1, <1>2, <1>3, <1>4, <1>5, <1>6 DEF TProxyNext, Progress

(* What PacketPath claims of its handlers holds of the detailed ones:      *)
(* whichever way handleConn ends, and at whatever stage it is, a pinned    *)
(* port has a handler whose deferred Delete is still to come.              *)
THEOREM RelayPinsHaveHandlers == Spec => []NoOrphanPin
<1>1. Init => NoOrphanPin
  BY DEF Init, TrackerInit, NoOrphanPin
<1>2. SharedInv /\ NoOrphanPin /\ [TProxyNext \/ Arrival]_shared => NoOrphanPin'
  <2>1. UNCHANGED shared /\ NoOrphanPin => NoOrphanPin'
    BY DEF shared, trackerVars, tproxyVars, NoOrphanPin
  <2> QED
    BY <2>1, PinsKept
<1>3. SharedInv /\ NoOrphanPin /\ [Next]_vars => NoOrphanPin'
  BY <1>2, RelayMovesShared
<1> QED
  BY <1>1, <1>3, SharedInit, SharedStep, PTL DEF Spec

-----------------------------------------------------------------------------
(***************************************************************************)
(* How much there is of everything: what a peer has sent is bounded, and   *)
(* nothing is left of a connection when its handler is done with it.       *)
(***************************************************************************)
Clear(j, c, s) ==
    /\ j.read = 0 /\ j.peek = 0 /\ j.taken = 0 /\ j.early = 0
    /\ c.got = <<>> /\ s.got = <<>>

Sized(j, c, s, pc) ==
    /\ c.sent <= Pieces /\ s.sent <= 1
    /\ pc = "broken" \/ j.stage \in {"none", "release"} => Clear(j, c, s)

SizedAt(h) == Sized(job[h], client[h], server[h], hpc[h])

SizedInv == \A h \in Handlers : SizedAt(h)

LEMMA OthersSized ==
    ASSUME SizedInv, NEW h \in Handlers, Only(h), SizedAt(h)'
    PROVE  SizedInv'
BY DEF SizedInv, SizedAt, Only

LEMMA AtSized ==
    ASSUME RelayInv, SizedInv, NEW h \in Handlers
    PROVE  /\ job[h] \in JobType /\ client[h] \in EndType /\ server[h] \in EndType
           /\ Sized(job[h], client[h], server[h], hpc[h])
           /\ job[h].stage \notin {"none", "release", "relay"} => hpc[h] = "running"
           /\ hpc[h] \notin {"running", "broken"} => job[h].stage = "none"
BY AtHandler DEF SizedInv, SizedAt, Sound

\* A connection that is left, and one that goes on.
LEMMA LeftSized ==
    ASSUME RelayInv, NEW h \in Handlers, Leave(h), UNCHANGED <<hpc, hport>>
    PROVE  Only(h) /\ SizedAt(h)'
<1>1. /\ job' = [job EXCEPT ![h] = [NoJob EXCEPT !.stage = "release"]]
      /\ client' = [client EXCEPT ![h] = Peer] /\ server' = [server EXCEPT ![h] = Peer]
  BY DEF Leave, Forget
<1>2. Only(h) /\ job'[h] = [NoJob EXCEPT !.stage = "release"]
      /\ client'[h] = Peer /\ server'[h] = Peer
  BY <1>1 DEF RelayInv, Typed, Only
<1> QED
  BY <1>2 DEF SizedAt, Sized, Clear, NoJob, Peer, Pieces

LEMMA GoesOnSized ==
    ASSUME RelayInv, SizedInv, NEW h \in Handlers, NEW j, NEW c, NEW s,
           job' = [job EXCEPT ![h] = j],
           client' = [client EXCEPT ![h] = c], server' = [server EXCEPT ![h] = s],
           hpc' = [hpc EXCEPT ![h] = "running"], hport' = hport,
           j.stage \notin {"none", "release"}, c.sent <= Pieces, s.sent <= 1
    PROVE  Only(h) /\ SizedAt(h)'
<1>1. Only(h) /\ job'[h] = j /\ client'[h] = c /\ server'[h] = s /\ hpc'[h] = "running"
  BY DEF RelayInv, Typed, Only
<1> QED
  BY <1>1 DEF SizedAt, Sized

\* Of such a step often neither socket is a part.
LEMMA JobSized ==
    ASSUME RelayInv, SizedInv, NEW h \in Handlers, NEW j,
           job' = [job EXCEPT ![h] = j], j.stage \notin {"none", "release"},
           hpc[h] = "running", UNCHANGED <<client, server, hpc, hport>>
    PROVE  Only(h) /\ SizedAt(h)'
<1>1. client[h].sent <= Pieces /\ server[h].sent <= 1
  BY DEF SizedInv, SizedAt, Sized
<1>2. /\ client' = [client EXCEPT ![h] = client[h]] /\ server' = [server EXCEPT ![h] = server[h]]
      /\ hpc' = [hpc EXCEPT ![h] = "running"] /\ hport' = hport
  BY Standing
<1> QED
  BY <1>1, <1>2, GoesOnSized

\* Nor is the handler's work.
LEMMA StandsSized ==
    ASSUME RelayInv, SizedInv, NEW h \in Handlers,
           UNCHANGED <<job, client, server, hpc, hport>>
    PROVE  Only(h) /\ SizedAt(h)'
BY DEF Only, SizedInv, SizedAt

LEMMA PeersSized ==
    ASSUME RelayInv, SizedInv, NEW h \in Handlers, ClientStep(h) \/ ServerStep(h)
    PROVE  Only(h) /\ SizedAt(h)'
<1>0. /\ client[h] \in EndType /\ server[h] \in EndType
      /\ Sized(job[h], client[h], server[h], hpc[h])
  BY AtSized
<1>1. /\ hpc[h] = "running" /\ job[h].stage \notin {"none", "release"}
      /\ UNCHANGED <<job, hpc, hport>>
      /\ job' = [job EXCEPT ![h] = job[h]] /\ hpc' = [hpc EXCEPT ![h] = "running"]
  BY Standing DEF ClientStep, ServerStep, Dialled, Served, outside, tproxyVars
<1>2. CASE ClientStep(h)
  <2>1. PICK c : client' = [client EXCEPT ![h] = c] /\ c.sent <= Pieces
    <3>1. PICK c :
            /\ client' = [client EXCEPT ![h] = c]
            /\ \/ client[h].sent < Pieces /\ c = [client[h] EXCEPT !.sent = client[h].sent + 1]
               \/ \E how \in {"fin", "reset"} : c = [client[h] EXCEPT !.end = how]
      BY <1>2 DEF ClientStep, PeerStep
    <3>2. c.sent <= Pieces
      BY <1>0, <3>1 DEF EndType, Sized, Pieces
    <3> QED
      BY <3>1, <3>2
  <2>2. server' = [server EXCEPT ![h] = server[h]] /\ server[h].sent <= 1
    BY <1>0, <1>2, Standing DEF ClientStep, Sized
  <2> QED
    BY <1>1, <2>1, <2>2, GoesOnSized
<1>3. CASE ServerStep(h)
  <2>1. PICK s : server' = [server EXCEPT ![h] = s] /\ s.sent <= 1
    <3>1. PICK s :
            /\ server' = [server EXCEPT ![h] = s]
            /\ \/ /\ server[h].sent < IF job[h].stage = "handshake" THEN 0 ELSE 1
                  /\ s = [server[h] EXCEPT !.sent = server[h].sent + 1]
               \/ \E how \in {"fin", "reset"} : s = [server[h] EXCEPT !.end = how]
      BY <1>3 DEF ServerStep, PeerStep
    <3>2. s.sent <= 1
      BY <1>0, <3>1 DEF EndType, Sized
    <3> QED
      BY <3>1, <3>2
  <2>2. client' = [client EXCEPT ![h] = client[h]] /\ client[h].sent <= Pieces
    BY <1>0, <1>3, Standing DEF ServerStep, Sized
  <2> QED
    BY <1>1, <2>1, <2>2, GoesOnSized
<1> QED
  BY <1>2, <1>3

LEMMA EnterSized ==
    ASSUME RelayInv, SizedInv, NEW h \in Handlers, Enter(h)
    PROVE  Only(h) /\ SizedAt(h)'
<1>0. /\ Sized(job[h], client[h], server[h], hpc[h])
      /\ hpc[h] \notin {"running", "broken"} => job[h].stage = "none"
  BY AtSized
<1>1. UNCHANGED <<client, server>>
  BY DEF Enter, ends
<1>2. CASE (LookupTarget(h) \/ CloseConn(h)) /\ UNCHANGED job
  <2>1. Only(h) /\ job'[h] = job[h] /\ job[h].stage = "none"
    BY <1>0, <1>1, <1>2 DEF RelayInv, Typed, Only, LookupTarget, CloseConn, Done
  <2> QED
    BY <1>0, <1>1, <2>1 DEF SizedAt, Sized
<1>3. ASSUME NEW j, PinTarget(h), job' = [job EXCEPT ![h] = j], j.stage \in {"sniff", "dial"}
      PROVE  Only(h) /\ SizedAt(h)'
  <2>1. hpc' = [hpc EXCEPT ![h] = "running"] /\ hport' = hport
    BY <1>3 DEF PinTarget
  <2>2. /\ client' = [client EXCEPT ![h] = client[h]] /\ server' = [server EXCEPT ![h] = server[h]]
        /\ client[h].sent <= Pieces /\ server[h].sent <= 1
    BY <1>0, <1>1, Standing DEF Sized
  <2> QED
    BY <1>3, <2>1, <2>2, GoesOnSized
<1>4. CASE /\ PinTarget(h)
           /\ IF htarget[h] \in https
              THEN \E hello \in Hellos : Stage(h, "none", "sniff", [NoJob EXCEPT !.hello = hello])
              ELSE Stage(h, "none", "dial", NoJob)
  <2>1. ASSUME NEW hello, Stage(h, "none", "sniff", [NoJob EXCEPT !.hello = hello])
        PROVE  Only(h) /\ SizedAt(h)'
    <3> DEFINE j == [NoJob EXCEPT !.hello = hello, !.stage = "sniff"]
    <3>1. job' = [job EXCEPT ![h] = j] /\ j.stage = "sniff"
      BY <2>1 DEF Stage, NoJob
    <3> HIDE DEF j
    <3> QED
      BY <1>3, <1>4, <3>1
  <2>2. ASSUME Stage(h, "none", "dial", NoJob) PROVE Only(h) /\ SizedAt(h)'
    <3> DEFINE j == [NoJob EXCEPT !.stage = "dial"]
    <3>1. job' = [job EXCEPT ![h] = j] /\ j.stage = "dial"
      BY <2>2 DEF Stage, NoJob
    <3> HIDE DEF j
    <3> QED
      BY <1>3, <1>4, <3>1
  <2> QED
    BY <1>4, <2>1, <2>2
<1> QED
  BY <1>2, <1>4 DEF Enter

LEMMA ConnectSized ==
    ASSUME RelayInv, SizedInv, NEW h \in Handlers,
           Sniff(h) \/ ChooseDialer(h) \/ Connect(h) \/ Count(h)
    PROVE  Only(h) /\ SizedAt(h)'
<1>0. /\ job[h] \in JobType
      /\ job[h].stage \notin {"none", "release", "relay"} => hpc[h] = "running"
  BY AtSized
<1>1. UNCHANGED <<client, server, hpc, hport>>
  BY DEF Sniff, ChooseDialer, Connect, Count, outside, tproxyVars, ends, relayVars
<1>2. CASE Sniff(h)
  <2>1. PICK n : Stage(h, "sniff", "dial", Sniffed(job[h], n))
    BY <1>2 DEF Sniff
  <2> DEFINE j == [Sniffed(job[h], n) EXCEPT !.stage = "dial"]
  <2>2. job' = [job EXCEPT ![h] = j] /\ job[h].stage = "sniff"
    BY <2>1 DEF Stage
  <2>3. j.stage = "dial"
    BY <1>0 DEF Sniffed, JobType
  <2> HIDE DEF j
  <2> QED
    BY <1>0, <1>1, <2>2, <2>3, JobSized
<1>3. CASE ChooseDialer(h)
  <2>1. UNCHANGED job
    BY <1>3 DEF ChooseDialer, relayVars
  <2> QED
    BY <1>1, <2>1, StandsSized
<1>4. ASSUME NEW from \in {"dial", "count"}, NEW to \in {"handshake", "relay"},
             Stage(h, from, to, job[h])
      PROVE  Only(h) /\ SizedAt(h)'
  <2> DEFINE j == [job[h] EXCEPT !.stage = to]
  <2>1. job' = [job EXCEPT ![h] = j] /\ hpc[h] = "running"
    BY <1>0, <1>4 DEF Stage
  <2>2. j.stage = to
    BY <1>0 DEF JobType
  <2> HIDE DEF j
  <2> QED
    BY <1>1, <2>1, <2>2, JobSized
<1>5. CASE Connect(h)
  BY <1>4, <1>5 DEF Connect
<1>6. CASE Count(h)
  BY <1>4, <1>6 DEF Count
<1> QED
  BY <1>2, <1>3, <1>5, <1>6

LEMMA FailsSized ==
    ASSUME RelayInv, SizedInv, NEW h \in Handlers, DialFails(h)
    PROVE  Only(h) /\ SizedAt(h)'
BY LeftSized DEF DialFails, outside, tproxyVars

LEMMA AnswerSized ==
    ASSUME RelayInv, SizedInv, NEW h \in Handlers, Answer(h)
    PROVE  Only(h) /\ SizedAt(h)'
<1>0. /\ job[h] \in JobType /\ server[h] \in EndType
      /\ Sized(job[h], client[h], server[h], hpc[h])
      /\ job[h].stage \notin {"none", "release", "relay"} => hpc[h] = "running"
  BY AtSized
<1>1. ASSUME NEW ahead \in 0 .. 1, ConnectedHTTP(h, ahead) PROVE Only(h) /\ SizedAt(h)'
  <2> DEFINE j == [job[h] EXCEPT !.taken = ahead, !.early = ahead, !.wrapped = ahead > 0,
                                 !.stage = "replay"]
             s == [server[h] EXCEPT !.sent = ahead]
  <2>1. /\ job' = [job EXCEPT ![h] = j] /\ server' = [server EXCEPT ![h] = s]
        /\ job[h].stage = "handshake"
    BY <1>1 DEF ConnectedHTTP, Stage
  <2>2. /\ hpc' = [hpc EXCEPT ![h] = "running"] /\ hport' = hport
        /\ client' = [client EXCEPT ![h] = client[h]]
    BY <1>0, <1>1, <2>1, Standing DEF ConnectedHTTP, outside, tproxyVars
  <2>3. j.stage = "replay" /\ s.sent <= 1 /\ client[h].sent <= Pieces
    BY <1>0 DEF JobType, EndType, Sized
  <2> HIDE DEF j, s
  <2> QED
    BY <2>1, <2>2, <2>3, GoesOnSized
<1>2. ASSUME Stage(h, "handshake", "replay", job[h]), UNCHANGED <<outside, ends, stats>>
      PROVE  Only(h) /\ SizedAt(h)'
  <2> DEFINE j == [job[h] EXCEPT !.stage = "replay"]
  <2>1. job' = [job EXCEPT ![h] = j] /\ hpc[h] = "running"
    BY <1>0, <1>2 DEF Stage
  <2>2. j.stage = "replay"
    BY <1>0 DEF JobType
  <2>3. UNCHANGED <<client, server, hpc, hport>>
    BY <1>2 DEF outside, tproxyVars, ends
  <2> HIDE DEF j
  <2> QED
    BY <2>1, <2>2, <2>3, JobSized
<1> QED
  BY <1>1, <1>2, FailsSized DEF Answer

LEMMA ReplaySized ==
    ASSUME RelayInv, SizedInv, NEW h \in Handlers, Replay(h)
    PROVE  Only(h) /\ SizedAt(h)'
<1>0. /\ job[h] \in JobType /\ server[h] \in EndType
      /\ Sized(job[h], client[h], server[h], hpc[h])
      /\ job[h].stage \notin {"none", "release", "relay"} => hpc[h] = "running"
  BY AtSized
<1>1. UNCHANGED <<hpc, hport>>
  BY DEF Replay, outside, tproxyVars
<1>2. CASE Leave(h)
  BY <1>1, <1>2, LeftSized
<1>3. CASE /\ Stage(h, "replay", "count", [job[h] EXCEPT !.peek = 0, !.host = NoHost])
           /\ server' = [server EXCEPT ![h].got = [i \in 1 .. job[h].peek |-> i]]
           /\ UNCHANGED client
  <2> DEFINE j == [job[h] EXCEPT !.peek = 0, !.host = NoHost, !.stage = "count"]
             s == [server[h] EXCEPT !.got = [i \in 1 .. job[h].peek |-> i]]
  <2>1. /\ job' = [job EXCEPT ![h] = j] /\ server' = [server EXCEPT ![h] = s]
        /\ job[h].stage = "replay"
    BY <1>3 DEF Stage
  <2>2. /\ hpc' = [hpc EXCEPT ![h] = "running"] /\ hport' = hport
        /\ client' = [client EXCEPT ![h] = client[h]]
    BY <1>0, <1>1, <1>3, <2>1, Standing
  <2>3. j.stage = "count" /\ s.sent <= 1 /\ client[h].sent <= Pieces
    BY <1>0 DEF JobType, EndType, Sized
  <2> HIDE DEF j, s
  <2> QED
    BY <2>1, <2>2, <2>3, GoesOnSized
<1> QED
  BY <1>2, <1>3 DEF Replay

\* What the copying goroutines do to the two ends leaves what was sent.
LEMMA CopySized ==
    ASSUME RelayInv, SizedInv, NEW h \in Handlers,
           CopyUp(h) \/ UpEnds(h) \/ CopyDown(h) \/ DownEnds(h)
    PROVE  Only(h) /\ SizedAt(h)'
<1>0. /\ job[h] \in JobType /\ client[h] \in EndType /\ server[h] \in EndType
      /\ client[h].sent <= Pieces /\ server[h].sent <= 1
  BY AtSized DEF Sized
<1>1. /\ hpc' = [hpc EXCEPT ![h] = "running"] /\ hport' = hport /\ job[h].stage = "relay"
  BY Standing DEF CopyUp, UpEnds, CopyDown, DownEnds, Copying, Relaying, outside, tproxyVars
<1>2. ASSUME NEW j, NEW c, NEW s, j.stage = "relay",
             c.sent = client[h].sent, s.sent = server[h].sent,
             job' = [job EXCEPT ![h] = j],
             client' = [client EXCEPT ![h] = c], server' = [server EXCEPT ![h] = s]
      PROVE  Only(h) /\ SizedAt(h)'
  BY <1>0, <1>1, <1>2, GoesOnSized
<1>3. \A got, eof :
         /\ [client[h] EXCEPT !.got = got].sent = client[h].sent
         /\ [client[h] EXCEPT !.eof = eof].sent = client[h].sent
         /\ [server[h] EXCEPT !.got = got].sent = server[h].sent
         /\ [server[h] EXCEPT !.eof = eof].sent = server[h].sent
  BY <1>0 DEF EndType
<1>4. \A n : /\ [job[h] EXCEPT !.read = n].stage = "relay" /\ [job[h] EXCEPT !.taken = n].stage = "relay"
             /\ [job[h] EXCEPT !.early = n].stage = "relay" /\ [job[h] EXCEPT !.up = n].stage = "relay"
             /\ [job[h] EXCEPT !.down = n].stage = "relay"
  BY <1>0, <1>1 DEF JobType
<1>5. client = [client EXCEPT ![h] = client[h]] /\ server = [server EXCEPT ![h] = server[h]]
  BY Standing
<1>6. CASE CopyUp(h)
  <2>1. /\ job' = [job EXCEPT ![h] = [job[h] EXCEPT !.read = job[h].read + 1]]
        /\ server' = [server EXCEPT ![h] = [server[h] EXCEPT !.got = Append(server[h].got, job[h].read + 1)]]
        /\ client' = client
    BY <1>6 DEF CopyUp
  <2> QED
    BY <1>2, <1>3, <1>4, <1>5, <2>1
<1>7. CASE UpEnds(h)
  <2>1. /\ job' = [job EXCEPT ![h] = [job[h] EXCEPT !.up = "eof"]]
        /\ server' = [server EXCEPT ![h] = [server[h] EXCEPT !.eof = ~job[h].wrapped]]
        /\ client' = client
    BY <1>7 DEF UpEnds
  <2> QED
    BY <1>2, <1>3, <1>4, <1>5, <2>1
<1>8. CASE CopyDown(h)
  <2>1. CASE /\ job' = [job EXCEPT ![h] = [job[h] EXCEPT !.early = 0]]
             /\ client' = [client EXCEPT ![h] = [client[h] EXCEPT !.got = Append(client[h].got, job[h].taken)]]
             /\ server' = server
    BY <1>2, <1>3, <1>4, <1>5, <2>1
  <2>2. CASE /\ job' = [job EXCEPT ![h] = [job[h] EXCEPT !.taken = job[h].taken + 1]]
             /\ client' = [client EXCEPT ![h] = [client[h] EXCEPT !.got = Append(client[h].got, job[h].taken + 1)]]
             /\ server' = server
    BY <1>2, <1>3, <1>4, <1>5, <2>2
  <2> QED
    BY <1>8, <2>1, <2>2 DEF CopyDown
<1>9. CASE DownEnds(h)
  <2>1. /\ job' = [job EXCEPT ![h] = [job[h] EXCEPT !.down = "eof"]]
        /\ client' = [client EXCEPT ![h] = [client[h] EXCEPT !.eof = TRUE]]
        /\ server' = server
    BY <1>9 DEF DownEnds
  <2> QED
    BY <1>2, <1>3, <1>4, <1>5, <2>1
<1> QED
  BY <1>6, <1>7, <1>8, <1>9

LEMMA EndingSized ==
    ASSUME RelayInv, SizedInv, NEW h \in Handlers,
           CopyFails(h, "up") \/ CopyFails(h, "down") \/ CloseBoth(h) \/ Uncount(h) \/ Release(h)
    PROVE  Only(h) /\ SizedAt(h)'
<1>0. /\ job[h] \in JobType /\ client[h] \in EndType /\ server[h] \in EndType
      /\ Sized(job[h], client[h], server[h], hpc[h])
  BY AtSized
<1>1. ASSUME NEW way \in {"up", "down"}, CopyFails(h, way) PROVE Only(h) /\ SizedAt(h)'
  <2>1. UNCHANGED <<client, server, hpc, hport>> /\ job[h].stage = "relay"
    BY <1>1 DEF CopyFails, Copying, Relaying, outside, tproxyVars, ends
  <2>2. job' = [job EXCEPT ![h] = [job[h] EXCEPT ![way] = "error"]]
    BY <1>1 DEF CopyFails
  <2>3. Only(h) /\ job'[h] = [job[h] EXCEPT ![way] = "error"]
    BY <2>1, <2>2 DEF RelayInv, Typed, Only
  <2>4. /\ job'[h].stage = job[h].stage /\ job'[h].read = job[h].read
        /\ job'[h].peek = job[h].peek /\ job'[h].taken = job[h].taken
        /\ job'[h].early = job[h].early
    BY <1>0, <2>3 DEF JobType
  <2> QED
    BY <1>0, <2>1, <2>3, <2>4 DEF SizedAt, Sized, Clear
<1>2. CASE CloseBoth(h)
  <2> DEFINE j == [NoJob EXCEPT !.up = job[h].up, !.down = job[h].down, !.stage = "relay"]
             peer == [Peer EXCEPT !.end = "reset"]
  <2>1. /\ job' = [job EXCEPT ![h] = j] /\ hport' = hport
        /\ client' = [client EXCEPT ![h] = peer] /\ server' = [server EXCEPT ![h] = peer]
        /\ hpc' = [hpc EXCEPT ![h] = "broken"]
    BY <1>2 DEF CloseBoth, Stage, Forget, RelayError
  <2>2. Clear(j, peer, peer) /\ peer.sent = 0
    BY DEF Clear, NoJob, Peer
  <2> HIDE DEF j, peer
  <2>3. Only(h) /\ job'[h] = j /\ client'[h] = peer /\ server'[h] = peer
    BY <2>1 DEF RelayInv, Typed, Only
  <2> QED
    BY <2>2, <2>3 DEF SizedAt, Sized, Pieces
<1>3. CASE Uncount(h)
  <2>1. Leave(h) /\ UNCHANGED <<hpc, hport>>
    BY <1>3 DEF Uncount, outside, tproxyVars
  <2> QED
    BY <2>1, LeftSized
<1>4. CASE Release(h)
  <2> DEFINE j == [NoJob EXCEPT !.stage = "none"]
  <2>1. /\ job' = [job EXCEPT ![h] = j] /\ job[h].stage = "release"
        /\ UNCHANGED <<client, server>>
    BY <1>4 DEF Release, Stage, ends
  <2>2. \A g \in Handlers \ {h} : hpc'[g] = hpc[g] /\ hport'[g] = hport[g]
    BY <1>4 DEF Release, Return, Unwind, Done, RelayInv, Typed
  <2>3. Only(h) /\ job'[h] = j
    BY <2>1, <2>2 DEF RelayInv, Typed, Only
  <2>4. j.read = 0 /\ j.peek = 0 /\ j.taken = 0 /\ j.early = 0
    BY DEF NoJob
  <2> HIDE DEF j
  <2> QED
    BY <1>0, <2>1, <2>3, <2>4 DEF SizedAt, Sized, Clear
<1> QED
  BY <1>1, <1>2, <1>3, <1>4


LEMMA HandlerSized ==
    ASSUME RelayInv, SizedInv, NEW h \in Handlers,
           Work(h) \/ Answer(h) \/ ClientStep(h) \/ ServerStep(h)
    PROVE  Only(h) /\ SizedAt(h)'
<1>1. CASE Work(h)
  <2>1. CASE Refused(h) \/ NoAnswer(h)
    BY <2>1, FailsSized DEF Refused, NoAnswer
  <2> QED
    BY <1>1, <2>1, EnterSized, ConnectSized, ReplaySized, CopySized, EndingSized DEF Work
<1> QED
  BY <1>1, AnswerSized, PeersSized

LEMMA SizedStep ==
    ASSUME RelayInv, SizedInv, [Next]_vars
    PROVE  SizedInv'
<1>1. ASSUME NEW h \in Handlers, Work(h) \/ Answer(h) \/ ClientStep(h) \/ ServerStep(h)
      PROVE  SizedInv'
  <2>1. Only(h) /\ SizedAt(h)'
    BY <1>1, HandlerSized
  <2> QED
    BY <2>1, OthersSized
<1>2. CASE Listener
  <2>1. UNCHANGED <<job, client, server>>
    BY <1>2 DEF Listener, relayVars, ends
  <2>2. CASE \E p \in Ports : Abandon(p)
    BY <2>1, <2>2 DEF Abandon, SizedInv, SizedAt
  <2>3. ASSUME NEW h \in Handlers, NEW p \in Ports, Accept(h, p) PROVE SizedInv'
    <3>1. /\ hpc[h] = "idle" /\ hpc' = [hpc EXCEPT ![h] = "accepted"]
          /\ hport' = [hport EXCEPT ![h] = p]
      BY <2>3 DEF Accept
    <3>2. Only(h) /\ hpc'[h] = "accepted"
      BY <2>1, <3>1 DEF RelayInv, Typed, Only
    <3>3. SizedAt(h)'
      BY <2>1, <3>2 DEF SizedInv, SizedAt, Sized
    <3> QED
      BY <3>2, <3>3, OthersSized
  <2> QED
    BY <1>2, <2>2, <2>3 DEF Listener
<1>3. ASSUME UNCHANGED <<job, client, server, hpc>> PROVE SizedInv'
  BY <1>3 DEF SizedInv, SizedAt
<1>4. ASSUME NEW f \in Flows, Packet(f) PROVE SizedInv'
  BY <1>3, <1>4 DEF Packet, relayVars, ends
<1>5. CASE SwitchUpstream \/ UNCHANGED vars
  BY <1>3, <1>5 DEF SwitchUpstream, vars, tproxyVars, relayVars, ends
<1> QED
  BY <1>1, <1>2, <1>4, <1>5 DEF Next

LEMMA SizedStart == Init => SizedInv
<1> SUFFICES ASSUME Init PROVE SizedInv
  OBVIOUS
<1>1. /\ job = [h \in Handlers |-> NoJob] /\ client = [h \in Handlers |-> Peer]
      /\ server = [h \in Handlers |-> Peer]
  BY DEF Init
<1>2. Clear(NoJob, Peer, Peer) /\ Peer.sent = 0
  BY DEF Clear, NoJob, Peer
<1> QED
  BY <1>1, <1>2 DEF SizedInv, SizedAt, Sized, Pieces

-----------------------------------------------------------------------------
(* The types.                                                              *)

\* Whatever has been received is a prefix of no more than was sent.
LEMMA PrefixTyped ==
    ASSUME NEW n \in 0 .. Pieces
    PROVE  Prefix(n) \in UNION {[1 .. k -> 1 .. Pieces] : k \in 0 .. Pieces}
<1>1. Prefix(n) \in [1 .. n -> 1 .. Pieces]
  BY DEF Prefix, Pieces
<1> QED
  BY <1>1

LEMMA EndsTyped ==
    ASSUME RelayInv, SizedInv, NEW h \in Handlers
    PROVE  /\ client[h] \in PeerType(Pieces) /\ server[h] \in PeerType(1)
           /\ job[h].peek \in 0 .. Pieces /\ job[h].early \in 0 .. 1
           /\ job[h].read \in 0 .. Pieces /\ job[h].taken \in 0 .. 1
<1> DEFINE j == job[h]  c == client[h]  s == server[h]
<1>0. j \in JobType /\ c \in EndType /\ s \in EndType
      /\ Sized(j, c, s, hpc[h]) /\ Sound(j, c, s, hpc[h])
  BY AtSized, AtHandler
<1>1. /\ j.peek \in Nat /\ j.early \in Nat /\ j.read \in Nat /\ j.taken \in Nat
      /\ c.sent \in 0 .. Pieces /\ s.sent \in 0 .. 1
  <2> HIDE DEF j, c, s
  <2>1. j.peek \in Nat /\ j.early \in Nat /\ j.read \in Nat /\ j.taken \in Nat
    BY <1>0 DEF JobType
  <2>2. c.sent \in Nat /\ s.sent \in Nat
    BY <1>0 DEF EndType
  <2>3. c.sent <= Pieces /\ s.sent <= 1
    BY <1>0 DEF Sized
  <2> QED
    BY <2>1, <2>2, <2>3 DEF Pieces
<1>2. /\ c = [sent |-> c.sent, end |-> c.end, got |-> c.got, eof |-> c.eof]
      /\ s = [sent |-> s.sent, end |-> s.end, got |-> s.got, eof |-> s.eof]
      /\ c.end \in {"open", "fin", "reset"} /\ s.end \in {"open", "fin", "reset"}
      /\ c.eof \in BOOLEAN /\ s.eof \in BOOLEAN
  BY <1>0 DEF EndType
<1>3. Clear(j, c, s) \/ Copied(j, c, s)
  BY <1>0 DEF Sized, Sound
<1> HIDE DEF j, c, s
<1>4. /\ j.peek \in 0 .. Pieces /\ j.early \in 0 .. 1
      /\ j.read \in 0 .. Pieces /\ j.taken \in 0 .. 1
      /\ \E n, m \in 0 .. Pieces : s.got = Prefix(n) /\ c.got = Prefix(m)
  <2>1. CASE Clear(j, c, s)
    <3>1. 0 \in 0 .. Pieces /\ 0 \in 0 .. 1
      BY DEF Pieces
    <3>2. s.got = Prefix(0) /\ c.got = Prefix(0)
      BY <2>1, PrefixProperties DEF Clear
    <3> QED
      BY <2>1, <3>1, <3>2 DEF Clear
  <2>2. CASE Copied(j, c, s)
    <3>1. /\ j.peek \in 0 .. Pieces /\ j.early \in 0 .. 1
          /\ j.read \in 0 .. Pieces /\ j.taken \in 0 .. 1
      BY <1>1, <2>2 DEF Copied, Pieces
    <3>2. j.read - j.peek \in 0 .. Pieces /\ j.taken - j.early \in 0 .. Pieces
      BY <1>1, <2>2, <3>1 DEF Copied, Pieces
    <3>3. s.got = Prefix(j.read - j.peek) /\ c.got = Prefix(j.taken - j.early)
      BY <2>2 DEF Copied
    <3> QED
      BY <3>1, <3>2, <3>3
  <2> QED
    BY <1>3, <2>1, <2>2
<1>5. /\ s.got \in UNION {[1 .. k -> 1 .. Pieces] : k \in 0 .. Pieces}
      /\ c.got \in UNION {[1 .. k -> 1 .. Pieces] : k \in 0 .. Pieces}
  BY <1>4, PrefixTyped
<1>6. c \in PeerType(Pieces) /\ s \in PeerType(1)
  <2> DEFINE Got == UNION {[1 .. k -> 1 .. Pieces] : k \in 0 .. Pieces}
  <2>1. s.got \in Got /\ c.got \in Got
    BY <1>5
  <2>2. \A n : PeerType(n) = [sent : 0 .. n, end : {"open", "fin", "reset"}, eof : BOOLEAN, got : Got]
    BY DEF PeerType
  <2> HIDE DEF Got
  <2> QED
    BY <1>1, <1>2, <2>1, <2>2
<1> QED
  BY <1>4, <1>6 DEF j, c, s

\* There are no more connections than handlers.
LEMMA CountBounded ==
    ASSUME RelayInv, SharedInv
    PROVE  counted \subseteq Ports /\ connections \in 0 .. Cardinality(Handlers)
<1>1. ASSUME NEW p \in counted PROVE p \in Ports
  <2>1. PICK h \in Handlers : hport[h] = p /\ job[h].stage = "relay"
    BY DEF RelayInv, Listing
  <2>2. hpc[h] # "idle"
    BY <2>1, AtHandler DEF Sound
  <2> QED
    BY <2>1, <2>2 DEF SharedInv, Serving
<1>2. PICK f \in [counted -> Handlers] : \A p \in counted : hport[f[p]] = p
  <2>1. \A p \in counted : \E h \in Handlers : hport[h] = p
    BY DEF RelayInv, Listing
  <2> DEFINE g == [p \in counted |-> CHOOSE h \in Handlers : hport[h] = p]
  <2>2. g \in [counted -> Handlers] /\ \A p \in counted : hport[g[p]] = p
    BY <2>1
  <2> QED
    BY <2>2
<1>3. f \in Injection(counted, Handlers)
  <2>1. \A p, q \in counted : f[p] = f[q] => p = q
    BY <1>2
  <2> QED
    BY <2>1 DEF Injection, IsInjective
<1>4. Cardinality(counted) <= Cardinality(Handlers)
  BY <1>3, FS_Injection, RelayAssumption
<1>5. Cardinality(Handlers) \in Nat /\ Cardinality(counted) \in Nat
  BY FS_CardinalityType, RelayAssumption DEF RelayInv
<1> QED
  BY <1>1, <1>4, <1>5 DEF RelayInv

LEMMA HttpsStays == [Next]_vars => https' = https
<1> SUFFICES ASSUME [Next]_vars PROVE https' = https
  OBVIOUS
<1>1. ASSUME NEW f \in Flows, Packet(f) PROVE https' = https
  BY <1>1 DEF Packet, relayVars
<1>2. CASE Listener \/ SwitchUpstream \/ UNCHANGED vars
  BY <1>2 DEF Listener, SwitchUpstream, vars, relayVars
<1>3. ASSUME NEW h \in Handlers, Work(h) \/ Answer(h) \/ ClientStep(h) \/ ServerStep(h)
      PROVE  https' = https
  <2>1. CASE Work(h)
    BY <2>1 DEF Work, Enter, Sniff, ChooseDialer, Connect, Refused, NoAnswer, DialFails,
       Replay, Count, CopyUp, UpEnds, CopyDown, DownEnds, CopyFails, CloseBoth, Uncount,
       Release, outside, relayVars
  <2>2. CASE Answer(h)
    BY <2>2 DEF Answer, ConnectedHTTP, DialFails, outside
  <2>3. CASE ClientStep(h) \/ ServerStep(h)
    BY <2>3 DEF ClientStep, ServerStep, outside
  <2> QED
    BY <1>3, <2>1, <2>2, <2>3
<1> QED
  BY <1>1, <1>2, <1>3 DEF Next

AllInv == RelayInv /\ DialInv /\ SharedInv /\ SizedInv /\ https \subseteq Flows

LEMMA AllTyped == AllInv => RelayTypeOK
<1> SUFFICES ASSUME AllInv PROVE RelayTypeOK
  OBVIOUS
<1>1. TrackerTypeOK /\ TProxyTypeOK /\ UpstreamTypeOK /\ https \subseteq Flows
  BY DEF AllInv, SharedInv, TrackerInv, DialInv
<1>2. counted \subseteq Ports /\ connections \in 0 .. Cardinality(Handlers)
  BY CountBounded DEF AllInv
<1>3. job \in [Handlers -> JobType] /\ DOMAIN client = Handlers /\ DOMAIN server = Handlers
      /\ client = [h \in Handlers |-> client[h]] /\ server = [h \in Handlers |-> server[h]]
  BY DEF AllInv, RelayInv, Typed
<1>4. \A h \in Handlers :
         /\ client[h] \in PeerType(Pieces) /\ server[h] \in PeerType(1)
         /\ job[h].peek \in 0 .. Pieces /\ job[h].early \in 0 .. 1
         /\ job[h].read \in 0 .. Pieces /\ job[h].taken \in 0 .. 1
  BY EndsTyped DEF AllInv
<1>5. client \in [Handlers -> PeerType(Pieces)] /\ server \in [Handlers -> PeerType(1)]
  BY <1>3, <1>4
<1>6. job \in [Handlers ->
          [stage : {"none", "sniff", "dial", "handshake", "replay", "count", "relay", "release"},
           hello : Hellos \cup {NoHello}, host : Hosts \cup {NoHost}, peek : 0 .. Pieces,
           early : 0 .. 1, wrapped : BOOLEAN, read : 0 .. Pieces, taken : 0 .. 1,
           up : {"copying", "eof", "error"}, down : {"copying", "eof", "error"}]]
  <2> SUFFICES ASSUME NEW h \in Handlers
               PROVE  job[h] \in
                        [stage : {"none", "sniff", "dial", "handshake", "replay", "count", "relay", "release"},
                         hello : Hellos \cup {NoHello}, host : Hosts \cup {NoHost}, peek : 0 .. Pieces,
                         early : 0 .. 1, wrapped : BOOLEAN, read : 0 .. Pieces, taken : 0 .. 1,
                         up : {"copying", "eof", "error"}, down : {"copying", "eof", "error"}]
    BY <1>3
  <2>1. job[h] \in JobType
    BY <1>3
  <2> QED
    BY <1>4, <2>1 DEF JobType, Stages
<1> QED
  BY <1>1, <1>2, <1>5, <1>6 DEF RelayTypeOK

LEMMA AllStart == Init => AllInv
<1>1. Init => DialInv /\ https \subseteq Flows
  BY DEF Init, UpstreamInit, DialInv, UpstreamTypeOK, NoCall
<1> QED
  BY <1>1, InitSound, SharedInit, SizedStart DEF AllInv

LEMMA AllStep == AllInv /\ [Next]_vars => AllInv'
<1>1. DialInv /\ [Next]_vars => DialInv'
  BY MovesDial, RelayMovesUpstream
<1> QED
  BY <1>1, NextSound, SharedStep, SizedStep, HttpsStays DEF AllInv

THEOREM RelayInvariant == Spec => []AllInv
BY AllStart, AllStep, PTL DEF Spec

(* Every variable of the relay and of what it shares has its type; no more *)
(* connections are counted than there are handlers, and what a peer sends  *)
(* or receives stays within what the two ends exchange.                    *)
THEOREM RelayTypes == Spec => []RelayTypeOK
BY RelayInvariant, AllTyped, PTL


-----------------------------------------------------------------------------
(* The name that is asked for.                                             *)

\* Only the sniffing takes a handler on to the dialling.
LEMMA OnlySniffs ==
    ASSUME Typed, [Next]_vars, NEW h \in Handlers,
           job[h].stage = "sniff", job'[h].stage = "dial"
    PROVE  Sniff(h)
<1>0. job'[h] # job[h]
  OBVIOUS
<1>1. ASSUME NEW g \in Handlers, g # h, NEW j, job' = [job EXCEPT ![g] = j] PROVE FALSE
  BY <1>0, <1>1 DEF Typed
<1>2. ~UNCHANGED job
  BY <1>0
<1>3. ASSUME NEW g \in Handlers, Work(g) PROVE Sniff(h)
  <2>1. CASE g = h
    <3>1. CASE Enter(h)
      BY <1>2, <3>1 DEF Enter, Stage
    <3>2. CASE ChooseDialer(h) \/ Connect(h) \/ Replay(h) \/ Count(h) \/ Release(h)
      BY <3>2 DEF ChooseDialer, Connect, Replay, Count, Release, Stage
    <3>3. CASE Refused(h) \/ NoAnswer(h)
      BY <3>3 DEF Refused, NoAnswer, Speaks
    <3>4. CASE \/ CopyUp(h) \/ UpEnds(h) \/ CopyDown(h) \/ DownEnds(h)
               \/ CopyFails(h, "up") \/ CopyFails(h, "down")
      BY <3>4 DEF CopyUp, UpEnds, CopyDown, DownEnds, CopyFails, Copying, Relaying
    <3>5. CASE CloseBoth(h) \/ Uncount(h)
      BY <3>5 DEF CloseBoth, Uncount, Stage, Relaying
    <3> QED
      BY <1>3, <2>1, <3>1, <3>2, <3>3, <3>4, <3>5 DEF Work
  <2>2. CASE g # h
    <3>1. \/ UNCHANGED job
          \/ \E j : job' = [job EXCEPT ![g] = j]
      <4>1. CASE Enter(g) \/ Sniff(g) \/ ChooseDialer(g) \/ Connect(g)
        BY <4>1 DEF Enter, Sniff, ChooseDialer, Connect, Stage, relayVars
      <4>2. CASE Refused(g) \/ NoAnswer(g) \/ Replay(g) \/ Count(g)
        BY <4>2 DEF Refused, NoAnswer, DialFails, Leave, Replay, Count, Stage
      <4>3. CASE \/ CopyUp(g) \/ UpEnds(g) \/ CopyDown(g) \/ DownEnds(g)
                 \/ CopyFails(g, "up") \/ CopyFails(g, "down")
        BY <4>3 DEF CopyUp, UpEnds, CopyDown, DownEnds, CopyFails
      <4>4. CASE CloseBoth(g) \/ Uncount(g) \/ Release(g)
        BY <4>4 DEF CloseBoth, Uncount, Release, Leave, Stage
      <4> QED
        BY <1>3, <4>1, <4>2, <4>3, <4>4 DEF Work
    <3> QED
      BY <1>1, <1>2, <2>2, <3>1
  <2> QED
    BY <2>1, <2>2
<1>4. ASSUME NEW g \in Handlers, Answer(g) PROVE FALSE
  <2>1. CASE g = h
    BY <1>4, <2>1 DEF Answer, ConnectedHTTP, Speaks
  <2>2. CASE g # h
    <3>1. \E j : job' = [job EXCEPT ![g] = j]
      BY <1>4 DEF Answer, ConnectedHTTP, DialFails, Leave, Stage
    <3> QED
      BY <1>1, <2>2, <3>1
  <2> QED
    BY <2>1, <2>2
<1>5. ASSUME NEW g \in Handlers, ClientStep(g) \/ ServerStep(g) PROVE FALSE
  BY <1>2, <1>5 DEF ClientStep, ServerStep
<1>6. ASSUME NEW f \in Flows, Packet(f) PROVE FALSE
  BY <1>2, <1>6 DEF Packet, relayVars
<1>7. CASE Listener \/ SwitchUpstream \/ UNCHANGED vars
  BY <1>2, <1>7 DEF Listener, SwitchUpstream, vars, relayVars
<1> QED
  BY <1>3, <1>4, <1>5, <1>6, <1>7 DEF Next

LEMMA LimitReached ==
    ASSUME NEW hello, hello.handshake, hello.record \in 1 .. MaxRecord
    PROVE  SniffLimit(hello) = 2
BY DEF SniffLimit

LEMMA LimitNeeds ==
    ASSUME NEW hello, SniffLimit(hello) = 2
    PROVE  hello.record \in 1 .. MaxRecord
BY DEF SniffLimit

LEMMA RecordIsLong == MaxRecord \in Nat
BY DEF MaxRecord

\* What is not the record of a handshake, or an empty one, names no host.
LEMMA UnreadNamesNone ==
    ASSUME NEW hello \in HelloType(Hosts), SniffLimit(hello) # 2, hello.record <= MaxRecord
    PROVE  NamedHost(hello) = NoHost
<1>1. hello.record \in Nat /\ hello.message \in Nat
  BY DEF HelloType
<1>2. ~hello.handshake \/ hello.record = 0
  <2>1. CASE hello.record \in 1 .. MaxRecord
    BY <2>1, LimitReached
  <2>2. CASE hello.record \notin 1 .. MaxRecord
    BY <1>1, <2>2, RecordIsLong
  <2> QED
    BY <2>1, <2>2
<1>3. ~WellFormed(hello)
  BY <1>1, <1>2 DEF WellFormed, Fixed
<1> QED
  BY <1>3 DEF NamedHost

LEMMA SniffNames ==
    ASSUME AllInv, NEW h \in Handlers, Sniff(h)
    PROVE  job'[h].host = IF client[h].sent = Pieces /\ job[h].hello.record <= MaxRecord
                          THEN NamedHost(job[h].hello) ELSE NoHost
<1> DEFINE hello == job[h].hello  sent == client[h].sent
<1>1. /\ job[h] \in JobType /\ job[h].stage = "sniff" /\ hello \in HelloType(Hosts)
      /\ sent \in 0 .. 2
  <2>1. /\ job[h] \in JobType /\ client[h] \in EndType
        /\ Sized(job[h], client[h], server[h], hpc[h])
        /\ Sound(job[h], client[h], server[h], hpc[h])
    BY AtSized, AtHandler DEF AllInv
  <2>2. job[h].stage = "sniff"
    BY DEF Sniff
  <2>3. hello \in Hellos
    BY <2>1, <2>2 DEF Sound
  <2>4. sent \in Nat /\ sent <= 2
    BY <2>1 DEF EndType, Sized, Pieces
  <2> QED
    BY <2>1, <2>2, <2>3, <2>4, RelayAssumption
<1>2. PICK n \in 0 .. SniffLimit(hello) :
          /\ n = sent \/ (n < sent /\ n = SniffLimit(hello))
          /\ Stage(h, "sniff", "dial", Sniffed(job[h], n))
  BY DEF Sniff
<1>3. job'[h].host = IF n = 2 THEN ExtractSNI(hello) ELSE NoHost
  <2>1. job'[h] = [Sniffed(job[h], n) EXCEPT !.stage = "dial"]
    BY <1>2 DEF Stage, AllInv, RelayInv, Typed
  <2>2. job'[h].host = Sniffed(job[h], n).host
    BY <1>1, <2>1 DEF Sniffed, JobType
  <2> QED
    BY <1>1, <2>2 DEF Sniffed, JobType
<1>4. ExtractSNI(hello) = NamedHost(hello)
  BY <1>1, FindsNamedHost, RelayAssumption
<1>5. hello.record \in Nat
  BY <1>1 DEF HelloType
<1> HIDE DEF hello, sent
<1>6. CASE n = 2
  <2>1. SniffLimit(hello) = 2 /\ sent = 2
    BY <1>1, <1>2, <1>6, LimitBounds
  <2>2. hello.record <= MaxRecord
    <3>1. hello.record \in 1 .. MaxRecord
      BY <2>1, LimitNeeds
    <3> QED
      BY <1>5, <3>1, RecordIsLong
  <2> QED
    BY <1>3, <1>4, <1>6, <2>1, <2>2 DEF hello, sent, Pieces
<1>7. CASE n # 2
  <2>1. CASE sent # 2
    BY <1>3, <1>7, <2>1 DEF hello, sent, Pieces
  <2>2. CASE sent = 2
    <3>1. SniffLimit(hello) # 2
      BY <1>2, <1>7, <2>2
    <3>2. hello.record <= MaxRecord => NamedHost(hello) = NoHost
      BY <1>1, <3>1, UnreadNamesNone
    <3> QED
      BY <1>3, <1>7, <3>2 DEF hello, sent, Pieces
  <2> QED
    BY <2>1, <2>2
<1> QED
  BY <1>6, <1>7

(* sniffTLS and extractSNI: the upstream is asked for the host that the    *)
(* hello names, whatever hello that is, and for the intercepted address if *)
(* the hello names none, is longer than a record may be, or is not all     *)
(* there when the sniffing ends.                                           *)
THEOREM AskedForNamedHost == Spec => TargetAsNamed
<1> DEFINE Named == \A h \in Handlers : (job[h].stage = "sniff" /\ job'[h].stage = "dial") =>
          job'[h].host = IF client[h].sent = Pieces /\ job[h].hello.record <= MaxRecord
                         THEN NamedHost(job[h].hello) ELSE NoHost
<1>1. AllInv /\ [Next]_vars => Named
  BY OnlySniffs, SniffNames DEF AllInv, RelayInv
<1>2. AllInv /\ [Next]_vars => [Named]_vars
  BY <1>1
<1> HIDE DEF Named
<1>3. Spec => [][Named]_vars
  BY <1>2, RelayInvariant, PTL DEF Spec
<1> QED
  BY <1>3 DEF TargetAsNamed, Named

-----------------------------------------------------------------------------
(***************************************************************************)
(* How far a handler is from the end of its connection.                    *)
(***************************************************************************)
DialPCs == {"idle", "lookup", "build", "dialing"}

\* A handler at work, with what AllInv says of it that counts here.
AtWork(j, pc, dial) ==
    /\ j \in JobType /\ pc \in {"running", "broken"} /\ dial \in DialPCs
    /\ j.read \in 0 .. 2 /\ j.taken \in 0 .. 1 /\ j.early \in 0 .. 1
    /\ j.stage \in Prologue => j.taken = 0 /\ j.early = 0
    /\ j.stage = "sniff" => j.read = 0
    /\ j.stage \notin {"none", "release", "relay"} => pc = "running"

LEMMA IsAtWork ==
    ASSUME AllInv, NEW h \in Handlers
    PROVE  /\ job[h] \in JobType /\ hpc[h] \in PCs /\ call[h].pc \in DialPCs
           /\ hpc[h] \in {"running", "broken"} => AtWork(job[h], hpc[h], call[h].pc)
<1>1. job[h] \in JobType /\ Sound(job[h], client[h], server[h], hpc[h])
  BY AtHandler DEF AllInv
<1>2. call[h].pc \in DialPCs
  BY RelayAssumption DEF AllInv, DialInv, UpstreamTypeOK, DialPCs
<1>3. job[h].early \in 0 .. 1 /\ job[h].read \in 0 .. 2 /\ job[h].taken \in 0 .. 1
  BY EndsTyped DEF AllInv, Pieces
<1>4. hpc[h] \in PCs
  BY DEF AllInv, RelayInv, Typed, PCs
<1> QED
  BY <1>1, <1>2, <1>3, <1>4 DEF AtWork, Sound, Prologue

LEMMA LeftToCopy ==
    ASSUME NEW j, NEW pc, NEW dial, AtWork(j, pc, dial)
    PROVE  CopiesLeft(j, pc) \in Nat
<1>1. j.read \in 0 .. 2 /\ j.taken \in 0 .. 1 /\ j.early \in 0 .. 1
  BY DEF AtWork
<1> QED
  BY <1>1 DEF CopiesLeft, Pieces

LEMMA LeftAtWork ==
    ASSUME NEW j, NEW pc \in {"running", "broken"}, NEW dial
    PROVE  StepsLeft(j, pc, dial) =
              IF j.stage = "release" THEN 2 ELSE CopiesLeft(j, pc) + StagesLeft(j.stage, dial)
BY DEF StepsLeft

LEMMA LeftOfStages ==
    ASSUME NEW stage \in Stages \ {"release"}, NEW dial \in DialPCs
    PROVE  /\ StagesLeft(stage, dial) \in 0 .. 11
           /\ stage = "dial" => StagesLeft(stage, dial) \in 7 .. 10
           /\ stage # "none" => StagesLeft(stage, dial) >= 3
           /\ stage = "sniff" => StagesLeft(stage, dial) = 11
           /\ stage = "handshake" => StagesLeft(stage, dial) = 6
           /\ stage = "replay" => StagesLeft(stage, dial) = 5
           /\ stage = "count" => StagesLeft(stage, dial) = 4
           /\ stage = "relay" => StagesLeft(stage, dial) = 3
<1>1. CASE stage = "dial"
  BY <1>1 DEF StagesLeft, DialPCs
<1>2. CASE stage # "dial"
  BY <1>2 DEF StagesLeft, Stages
<1> QED
  BY <1>1, <1>2

\* The dialing counts down.
LEMMA LeftOfDialing ==
    /\ StagesLeft("dial", "idle") = 10 /\ StagesLeft("dial", "lookup") = 9
    /\ StagesLeft("dial", "build") = 8 /\ StagesLeft("dial", "dialing") = 7
BY DEF StagesLeft

Nearer(h) == StepsLeft(job'[h], hpc'[h], call'[h].pc) < StepsLeft(job[h], hpc[h], call[h].pc)

\* A step at the handler's work, and one that leaves the connection.
LEMMA GoesOnNearer ==
    ASSUME NEW h, NEW k, hpc[h] = "running", hpc'[h] = "running", job'[h] = k,
           job[h].stage # "release", k.stage # "release",
           CopiesLeft(k, "running") + StagesLeft(k.stage, call'[h].pc)
             < CopiesLeft(job[h], "running") + StagesLeft(job[h].stage, call[h].pc)
    PROVE  Nearer(h)
<1>1. StepsLeft(job'[h], hpc'[h], call'[h].pc)
        = CopiesLeft(k, "running") + StagesLeft(k.stage, call'[h].pc)
  BY LeftAtWork
<1>2. StepsLeft(job[h], hpc[h], call[h].pc)
        = CopiesLeft(job[h], "running") + StagesLeft(job[h].stage, call[h].pc)
  BY LeftAtWork
<1> QED
  BY <1>1, <1>2 DEF Nearer

LEMMA LeavesNearer ==
    ASSUME AllInv, NEW h \in Handlers, Leave(h), hpc' = hpc,
           job[h].stage \in {"dial", "handshake", "replay", "relay"}
    PROVE  Nearer(h)
<1>1. job'[h] = [NoJob EXCEPT !.stage = "release"]
  BY DEF Leave, AllInv, RelayInv, Typed
<1>2. job'[h].stage = "release"
  BY <1>1 DEF NoJob
<1>3. hpc[h] \in {"running", "broken"} /\ AtWork(job[h], hpc[h], call[h].pc)
  BY IsAtWork, AtHandler DEF AllInv, Sound
<1>4. CopiesLeft(job[h], hpc[h]) \in Nat
  BY <1>3, LeftToCopy
<1>5. StagesLeft(job[h].stage, call[h].pc) \in 0 .. 11 /\ StagesLeft(job[h].stage, call[h].pc) >= 3
  BY <1>3, LeftOfStages DEF AtWork, Stages
<1>6. /\ StepsLeft(job'[h], hpc'[h], call'[h].pc) = 2
      /\ StepsLeft(job[h], hpc[h], call[h].pc)
           = CopiesLeft(job[h], hpc[h]) + StagesLeft(job[h].stage, call[h].pc)
  BY <1>2, <1>3, LeftAtWork
<1> QED
  BY <1>4, <1>5, <1>6 DEF Nearer

\* Of the connection: to the target, to the sniffing or the dialling, and back.
LEMMA EnterNearer == ASSUME AllInv, NEW h \in Handlers, Enter(h) PROVE Nearer(h)
<1>0. call[h].pc \in DialPCs /\ call'[h].pc = call[h].pc
  BY IsAtWork DEF Enter, upstreamVars
<1>1. CASE LookupTarget(h)
  <2>1. hpc[h] = "accepted" /\ hpc'[h] \in {"found", "closing"}
    BY <1>1 DEF LookupTarget, AllInv, RelayInv, Typed
  <2> QED
    BY <2>1 DEF Nearer, StepsLeft
<1>2. CASE CloseConn(h)
  <2>1. hpc[h] = "closing" /\ hpc'[h] = "idle"
    BY <1>2 DEF CloseConn, Done, AllInv, RelayInv, Typed
  <2> QED
    BY <2>1 DEF Nearer, StepsLeft
<1>3. ASSUME PinTarget(h), NEW j \in {"sniff", "dial"}, NEW hello,
             Stage(h, "none", j, [NoJob EXCEPT !.hello = hello])
      PROVE  Nearer(h)
  <2> DEFINE k == [[NoJob EXCEPT !.hello = hello] EXCEPT !.stage = j]
  <2>1. hpc[h] = "found" /\ hpc'[h] = "running"
    BY <1>3 DEF PinTarget, AllInv, RelayInv, Typed
  <2>2. job'[h] = k
    BY <1>3 DEF Stage, AllInv, RelayInv, Typed
  <2>3. k.stage = j /\ CopiesLeft(k, "running") = 6
    BY DEF NoJob, CopiesLeft, Pieces
  <2> HIDE DEF k
  <2>4. StagesLeft(j, call[h].pc) \in 0 .. 11
    BY <1>0, LeftOfStages DEF Stages
  <2>5. StepsLeft(k, "running", call'[h].pc) = 6 + StagesLeft(j, call[h].pc)
    BY <1>0, <1>3, <2>3, LeftAtWork
  <2>6. StepsLeft(job[h], hpc[h], call[h].pc) = 18
    BY <2>1 DEF StepsLeft
  <2>7. 6 + StagesLeft(j, call[h].pc) < 18
    BY <2>4
  <2>8. StepsLeft(k, "running", call'[h].pc) < StepsLeft(job[h], hpc[h], call[h].pc)
    BY <2>5, <2>6, <2>7
  <2>9. StepsLeft(job'[h], hpc'[h], call'[h].pc) = StepsLeft(k, "running", call'[h].pc)
    BY <2>1, <2>2
  <2> QED
    BY <2>8, <2>9 DEF Nearer
<1>4. CASE PinTarget(h) /\ Stage(h, "none", "dial", NoJob)
  <2>1. NoJob = [NoJob EXCEPT !.hello = NoHello]
    <3>1. NoJob = [NoJob EXCEPT !.hello = NoJob.hello] /\ NoJob.hello = NoHello
      BY PeersTyped DEF JobType, NoJob
    <3> QED
      BY <3>1
  <2>2. Stage(h, "none", "dial", [NoJob EXCEPT !.hello = NoHello])
    BY <1>4, <2>1
  <2> QED
    BY <1>3, <1>4, <2>2
<1> QED
  BY <1>1, <1>2, <1>3, <1>4 DEF Enter

LEMMA SniffNearer == ASSUME AllInv, NEW h \in Handlers, Sniff(h) PROVE Nearer(h)
<1>1. PICK n \in 0 .. 2 : Stage(h, "sniff", "dial", Sniffed(job[h], n))
  <2>1. SniffLimit(job[h].hello) \in {1, 2}
    BY LimitBounds
  <2> QED
    BY <2>1 DEF Sniff
<1> DEFINE k == [Sniffed(job[h], n) EXCEPT !.stage = "dial"]  j == job[h]
<1>2. /\ j.stage = "sniff" /\ job' = [job EXCEPT ![h] = k]
      /\ UNCHANGED <<hpc, call>>
  BY <1>1 DEF Sniff, Stage, outside, tproxyVars, upstreamVars
<1>3. hpc[h] = "running" /\ AtWork(j, hpc[h], call[h].pc) /\ j \in JobType
  BY <1>2, IsAtWork, AtHandler DEF AllInv, Sound, AtWork
<1>4. k.stage = "dial" /\ k.read = n /\ k.taken = j.taken /\ k.early = j.early
      /\ k.up = j.up /\ k.down = j.down
  BY <1>3 DEF Sniffed, JobType
<1>5. StagesLeft("dial", call[h].pc) \in 0 .. 10 /\ StagesLeft("sniff", call[h].pc) = 11
  BY <1>3, LeftOfStages DEF Stages, AtWork
<1>6. j.read = 0 /\ j.taken \in 0 .. 1 /\ j.early \in 0 .. 1
  BY <1>2, <1>3 DEF AtWork
<1> HIDE DEF j, k
<1>7. CopiesLeft(k, "running") \in Int /\ CopiesLeft(j, "running") \in Int
      /\ CopiesLeft(k, "running") <= CopiesLeft(j, "running")
  BY <1>4, <1>6 DEF CopiesLeft, Pieces
<1>8. CopiesLeft(k, "running") + StagesLeft(k.stage, call[h].pc)
        < CopiesLeft(j, "running") + StagesLeft(j.stage, call[h].pc)
  BY <1>2, <1>4, <1>5, <1>7
<1>9. /\ hpc[h] = "running" /\ hpc'[h] = "running" /\ job'[h] = k
      /\ job[h].stage # "release" /\ k.stage # "release"
  BY <1>2, <1>3, <1>4 DEF j, AllInv, RelayInv, Typed
<1>10. CopiesLeft(k, "running") + StagesLeft(k.stage, call'[h].pc)
        < CopiesLeft(job[h], "running") + StagesLeft(job[h].stage, call[h].pc)
  BY <1>2, <1>3, <1>8 DEF j
<1> QED
  BY <1>9, <1>10, GoesOnNearer

LEMMA DialNearer ==
    ASSUME AllInv, NEW h \in Handlers, ChooseDialer(h) \/ Connect(h)
    PROVE  Nearer(h)
<1>1. /\ job[h].stage = "dial" /\ hpc'[h] = "running" /\ hpc[h] = "running"
      /\ AtWork(job[h], "running", call[h].pc)
  <2>1. job[h].stage = "dial" /\ hpc'[h] = hpc[h]
    BY DEF ChooseDialer, Connect, Stage, relayVars, outside, tproxyVars
  <2>2. hpc[h] = "running"
    BY <2>1, AtHandler DEF AllInv, Sound
  <2> QED
    BY <2>1, <2>2, IsAtWork
<1>2. CopiesLeft(job[h], "running") \in Nat
  BY <1>1, LeftToCopy
<1>3. CASE ChooseDialer(h)
  <2>1. job'[h] = job[h]
    BY <1>3 DEF ChooseDialer, relayVars
  <2>2. call[h] \in [pc : DialPCs, proxy : Proxies \cup {NoProxy}, during : SUBSET Proxies]
        /\ DOMAIN call = Dialers /\ h \in Dialers
    BY RelayAssumption DEF AllInv, DialInv, UpstreamTypeOK, DialPCs
  <2>3. \/ call[h].pc = "idle" /\ call'[h].pc = "lookup"
        \/ call[h].pc = "lookup" /\ call'[h].pc \in {"build", "dialing"}
        \/ call[h].pc = "build" /\ call'[h].pc = "dialing"
    <3>1. CASE Call(h)
      BY <2>2, <3>1 DEF Call
    <3>2. CASE Lookup(h)
      <4>1. call[h].pc = "lookup"
            /\ \/ call'[h] = [call[h] EXCEPT !.pc = "dialing", !.proxy = cached]
               \/ call'[h] = [call[h] EXCEPT !.pc = "build", !.proxy = current]
        BY <2>2, <3>2 DEF Lookup
      <4> QED
        BY <2>2, <4>1
    <3>3. CASE Build(h)
      <4>1. call[h].pc = "build"
            /\ \/ call'[h] = [call[h] EXCEPT !.pc = "dialing", !.proxy = cached]
               \/ call'[h] = [call[h] EXCEPT !.pc = "dialing"]
        BY <2>2, <3>3 DEF Build
      <4> QED
        BY <2>2, <4>1
    <3> QED
      BY <1>3, <3>1, <3>2, <3>3 DEF ChooseDialer
  <2>4. /\ StagesLeft("dial", call'[h].pc) < StagesLeft("dial", call[h].pc)
        /\ StagesLeft("dial", call'[h].pc) \in Int /\ StagesLeft("dial", call[h].pc) \in Int
    BY <2>3, LeftOfDialing
  <2>5. CopiesLeft(job[h], "running") + StagesLeft(job[h].stage, call'[h].pc)
          < CopiesLeft(job[h], "running") + StagesLeft(job[h].stage, call[h].pc)
    BY <1>1, <1>2, <2>4
  <2>6. job[h].stage # "release"
    BY <1>1
  <2> QED
    BY <1>1, <2>1, <2>5, <2>6, GoesOnNearer
<1>4. CASE Connect(h)
  <2> DEFINE k == [job[h] EXCEPT !.stage = "handshake"]
  <2>1. job'[h] = k /\ call[h].pc = "dialing" /\ call' = call
    BY <1>4 DEF Connect, Stage, upstreamVars, AllInv, RelayInv, Typed
  <2>2. k.stage = "handshake" /\ CopiesLeft(k, "running") = CopiesLeft(job[h], "running")
    BY <1>1 DEF AtWork, JobType, CopiesLeft
  <2> HIDE DEF k
  <2>3. StagesLeft("handshake", "dialing") = 6 /\ StagesLeft("dial", "dialing") = 7
    BY LeftOfDialing, LeftOfStages DEF Stages, DialPCs
  <2>4. CopiesLeft(k, "running") + StagesLeft(k.stage, call'[h].pc)
          < CopiesLeft(job[h], "running") + StagesLeft(job[h].stage, call[h].pc)
    BY <1>1, <1>2, <2>1, <2>2, <2>3
  <2>5. job[h].stage # "release" /\ k.stage # "release"
    BY <1>1, <2>2
  <2> QED
    BY <1>1, <2>1, <2>4, <2>5, GoesOnNearer
<1> QED
  BY <1>3, <1>4

LEMMA FailsNearer ==
    ASSUME AllInv, NEW h \in Handlers, Refused(h) \/ NoAnswer(h)
    PROVE  Nearer(h)
<1>1. Leave(h) /\ hpc' = hpc /\ job[h].stage \in {"dial", "handshake"}
  BY DEF Refused, NoAnswer, DialFails, Speaks, outside, tproxyVars
<1> QED
  BY <1>1, LeavesNearer

\* The next stage, with nothing more to copy than before.
LEMMA StageNearer ==
    ASSUME AllInv, NEW h \in Handlers, NEW k,
           job'[h] = k, hpc' = hpc,
           \/ job[h].stage = "handshake" /\ k.stage = "replay"
           \/ job[h].stage = "replay" /\ k.stage = "count"
           \/ job[h].stage = "count" /\ k.stage = "relay",
           CopiesLeft(k, "running") = CopiesLeft(job[h], "running")
    PROVE  Nearer(h)
<1>1. hpc[h] = "running" /\ hpc'[h] = "running" /\ AtWork(job[h], "running", call[h].pc)
  <2>1. hpc[h] = "running"
    BY AtHandler DEF AllInv, Sound
  <2> QED
    BY <2>1, IsAtWork
<1>2. CopiesLeft(job[h], "running") \in Nat
  BY <1>1, LeftToCopy
<1>3. /\ \A dial : StagesLeft("handshake", dial) = 6 /\ StagesLeft("replay", dial) = 5
                   /\ StagesLeft("count", dial) = 4 /\ StagesLeft("relay", dial) = 3
  BY DEF StagesLeft
<1>4. /\ StagesLeft(k.stage, call'[h].pc) \in Int /\ StagesLeft(job[h].stage, call[h].pc) \in Int
      /\ StagesLeft(k.stage, call'[h].pc) < StagesLeft(job[h].stage, call[h].pc)
  BY <1>3
<1>5. CopiesLeft(k, "running") + StagesLeft(k.stage, call'[h].pc)
        < CopiesLeft(job[h], "running") + StagesLeft(job[h].stage, call[h].pc)
  BY <1>2, <1>4
<1>6. job[h].stage # "release" /\ k.stage # "release"
  OBVIOUS
<1> QED
  BY <1>1, <1>5, <1>6, GoesOnNearer

LEMMA AnswerNearer == ASSUME AllInv, NEW h \in Handlers, Answer(h) PROVE Nearer(h)
<1>1. /\ job[h] \in JobType /\ hpc' = hpc
      /\ job[h].stage = "handshake" /\ job[h].taken = 0 /\ job[h].early = 0
  <2>1. job[h].stage = "handshake" /\ hpc' = hpc
    BY DEF Answer, ConnectedHTTP, DialFails, Speaks, outside, tproxyVars
  <2> QED
    BY <2>1, AtHandler DEF AllInv, Sound, Prologue
<1>2. ASSUME NEW ahead \in 0 .. 1, ConnectedHTTP(h, ahead) PROVE Nearer(h)
  <2> DEFINE k == [[job[h] EXCEPT !.taken = ahead, !.early = ahead, !.wrapped = ahead > 0]
                     EXCEPT !.stage = "replay"]
  <2>1. job'[h] = k
    BY <1>2 DEF ConnectedHTTP, Stage, AllInv, RelayInv, Typed
  <2>2. /\ k.stage = "replay" /\ k.read = job[h].read /\ k.taken = ahead /\ k.early = ahead
        /\ k.up = job[h].up /\ k.down = job[h].down
    BY <1>1 DEF JobType
  <2>3. job[h].read \in Nat
    BY <1>1 DEF JobType
  <2> HIDE DEF k
  <2>4. CopiesLeft(k, "running") = CopiesLeft(job[h], "running")
    BY <1>1, <2>2, <2>3 DEF CopiesLeft, Pieces
  <2> QED
    BY <1>1, <2>1, <2>2, <2>4, StageNearer
<1>3. CASE Stage(h, "handshake", "replay", job[h])
  <2> DEFINE k == [job[h] EXCEPT !.stage = "replay"]
  <2>1. job'[h] = k
    BY <1>3 DEF Stage, AllInv, RelayInv, Typed
  <2>2. k.stage = "replay" /\ CopiesLeft(k, "running") = CopiesLeft(job[h], "running")
    BY <1>1 DEF JobType, CopiesLeft
  <2> HIDE DEF k
  <2> QED
    BY <1>1, <2>1, <2>2, StageNearer
<1>4. CASE DialFails(h)
  BY <1>1, <1>4, LeavesNearer DEF DialFails
<1> QED
  BY <1>2, <1>3, <1>4 DEF Answer

LEMMA ReplayNearer ==
    ASSUME AllInv, NEW h \in Handlers, Replay(h) \/ Count(h)
    PROVE  Nearer(h)
<1>1. job[h] \in JobType /\ hpc' = hpc
  BY IsAtWork DEF Replay, Count, outside, tproxyVars
<1>2. CASE Stage(h, "replay", "count", [job[h] EXCEPT !.peek = 0, !.host = NoHost])
  <2> DEFINE k == [[job[h] EXCEPT !.peek = 0, !.host = NoHost] EXCEPT !.stage = "count"]
  <2>1. job'[h] = k /\ job[h].stage = "replay"
    BY <1>2 DEF Stage, AllInv, RelayInv, Typed
  <2>2. k.stage = "count" /\ CopiesLeft(k, "running") = CopiesLeft(job[h], "running")
    BY <1>1 DEF JobType, CopiesLeft
  <2> HIDE DEF k
  <2> QED
    BY <1>1, <2>1, <2>2, StageNearer
<1>3. CASE Leave(h) /\ job[h].stage = "replay"
  BY <1>1, <1>3, LeavesNearer
<1>4. CASE Stage(h, "count", "relay", job[h])
  <2> DEFINE k == [job[h] EXCEPT !.stage = "relay"]
  <2>1. job'[h] = k /\ job[h].stage = "count"
    BY <1>4 DEF Stage, AllInv, RelayInv, Typed
  <2>2. k.stage = "relay" /\ CopiesLeft(k, "running") = CopiesLeft(job[h], "running")
    BY <1>1 DEF JobType, CopiesLeft
  <2> HIDE DEF k
  <2> QED
    BY <1>1, <2>1, <2>2, StageNearer
<1> QED
  BY <1>2, <1>3, <1>4 DEF Replay, Count

\* Within the relay every step leaves less to copy.
LEMMA RelayNearer ==
    ASSUME AllInv, NEW h \in Handlers, NEW k, NEW pc \in {"running", "broken"},
           NEW qc \in {"running", "broken"}, hpc[h] = pc, hpc'[h] = qc, job'[h] = k,
           job[h].stage = "relay", k.stage = "relay",
           CopiesLeft(k, qc) \in Int, CopiesLeft(k, qc) < CopiesLeft(job[h], pc)
    PROVE  Nearer(h)
<1>1. CopiesLeft(job[h], pc) \in Int
  BY IsAtWork, LeftToCopy
<1>2. \A dial : StagesLeft("relay", dial) = 3
  BY DEF StagesLeft
<1>3. StepsLeft(job'[h], hpc'[h], call'[h].pc) = CopiesLeft(k, qc) + 3
  BY <1>2, LeftAtWork
<1>4. StepsLeft(job[h], hpc[h], call[h].pc) = CopiesLeft(job[h], pc) + 3
  BY <1>2, LeftAtWork
<1> QED
  BY <1>1, <1>3, <1>4 DEF Nearer

LEMMA CopyNearer ==
    ASSUME AllInv, NEW h \in Handlers,
           CopyUp(h) \/ UpEnds(h) \/ CopyDown(h) \/ DownEnds(h)
    PROVE  Nearer(h)
<1>1. /\ job[h].stage = "relay" /\ hpc[h] = "running" /\ hpc' = hpc
      /\ AtWork(job[h], "running", call[h].pc)
  <2>1. job[h].stage = "relay" /\ hpc[h] = "running" /\ hpc' = hpc
    BY DEF CopyUp, UpEnds, CopyDown, DownEnds, Copying, Relaying, outside, tproxyVars
  <2> QED
    BY <2>1, IsAtWork
<1>2. /\ job[h] \in JobType /\ job[h].read \in Nat /\ job[h].taken \in Nat /\ job[h].early \in Nat
  BY <1>1 DEF AtWork
<1>3. CASE CopyUp(h)
  <2> DEFINE k == [job[h] EXCEPT !.read = job[h].read + 1]
  <2>1. job'[h] = k
    BY <1>3 DEF CopyUp, AllInv, RelayInv, Typed
  <2>2. k.stage = "relay" /\ k.read = job[h].read + 1 /\ k.taken = job[h].taken
        /\ k.early = job[h].early /\ k.up = job[h].up /\ k.down = job[h].down
    BY <1>1, <1>2 DEF JobType
  <2> HIDE DEF k
  <2>3. CopiesLeft(k, "running") \in Int
        /\ CopiesLeft(k, "running") < CopiesLeft(job[h], "running")
    BY <1>2, <2>2 DEF CopiesLeft, Pieces
  <2> QED
    BY <1>1, <2>1, <2>2, <2>3, RelayNearer
<1>4. CASE UpEnds(h)
  <2> DEFINE k == [job[h] EXCEPT !.up = "eof"]
  <2>1. job'[h] = k /\ job[h].up = "copying"
    BY <1>4 DEF UpEnds, Copying, AllInv, RelayInv, Typed
  <2>2. k.stage = "relay" /\ k.read = job[h].read /\ k.taken = job[h].taken
        /\ k.early = job[h].early /\ k.up = "eof" /\ k.down = job[h].down
    BY <1>1, <1>2 DEF JobType
  <2> HIDE DEF k
  <2>3. CopiesLeft(k, "running") \in Int
        /\ CopiesLeft(k, "running") < CopiesLeft(job[h], "running")
    BY <1>2, <2>1, <2>2 DEF CopiesLeft, Pieces
  <2> QED
    BY <1>1, <2>1, <2>2, <2>3, RelayNearer
<1>5. CASE CopyDown(h)
  <2>1. PICK k : /\ job'[h] = k
                 /\ \/ job[h].early > 0 /\ k = [job[h] EXCEPT !.early = 0]
                    \/ k = [job[h] EXCEPT !.taken = job[h].taken + 1]
    BY <1>5 DEF CopyDown, AllInv, RelayInv, Typed
  <2>2. /\ k.stage = "relay" /\ k.read = job[h].read /\ k.up = job[h].up /\ k.down = job[h].down
        /\ \/ job[h].early > 0 /\ k.early = 0 /\ k.taken = job[h].taken
           \/ k.early = job[h].early /\ k.taken = job[h].taken + 1
    BY <1>1, <1>2, <2>1 DEF JobType
  <2>3. CopiesLeft(k, "running") \in Int
        /\ CopiesLeft(k, "running") < CopiesLeft(job[h], "running")
    BY <1>2, <2>2 DEF CopiesLeft, Pieces
  <2> QED
    BY <1>1, <2>1, <2>2, <2>3, RelayNearer
<1>6. CASE DownEnds(h)
  <2> DEFINE k == [job[h] EXCEPT !.down = "eof"]
  <2>1. job'[h] = k /\ job[h].down = "copying"
    BY <1>6 DEF DownEnds, Copying, AllInv, RelayInv, Typed
  <2>2. k.stage = "relay" /\ k.read = job[h].read /\ k.taken = job[h].taken
        /\ k.early = job[h].early /\ k.up = job[h].up /\ k.down = "eof"
    BY <1>1, <1>2 DEF JobType
  <2> HIDE DEF k
  <2>3. CopiesLeft(k, "running") \in Int
        /\ CopiesLeft(k, "running") < CopiesLeft(job[h], "running")
    BY <1>2, <2>1, <2>2 DEF CopiesLeft, Pieces
  <2> QED
    BY <1>1, <2>1, <2>2, <2>3, RelayNearer
<1> QED
  BY <1>3, <1>4, <1>5, <1>6

LEMMA CopyFailsNearer ==
    ASSUME AllInv, NEW h \in Handlers, NEW way \in {"up", "down"}, CopyFails(h, way)
    PROVE  Nearer(h)
<1> DEFINE pc == hpc[h]  k == [job[h] EXCEPT ![way] = "error"]
<1>1. /\ job[h].stage = "relay" /\ job[h][way] = "copying" /\ hpc' = hpc
      /\ job'[h] = k /\ job[h] \in JobType /\ pc \in {"running", "broken"}
  <2>1. job[h].stage = "relay" /\ job[h][way] = "copying" /\ hpc' = hpc
    BY DEF CopyFails, Copying, Relaying, outside, tproxyVars
  <2>2. job' = [job EXCEPT ![h] = k]
    BY DEF CopyFails
  <2>3. job'[h] = k
    BY <2>2 DEF AllInv, RelayInv, Typed
  <2> QED
    BY <2>1, <2>3, AtHandler DEF AllInv, Sound
<1>2. AtWork(job[h], pc, call[h].pc)
  BY <1>1, IsAtWork
<1>3. /\ k.stage = "relay" /\ k.read = job[h].read /\ k.taken = job[h].taken
      /\ k.early = job[h].early
      /\ \/ job[h].up = "copying" /\ k.up = "error" /\ k.down = job[h].down
         \/ job[h].down = "copying" /\ k.down = "error" /\ k.up = job[h].up
  <2>1. CASE way = "up"
    BY <1>1, <2>1 DEF JobType
  <2>2. CASE way = "down"
    BY <1>1, <2>2 DEF JobType
  <2> QED
    BY <2>1, <2>2
<1> HIDE DEF k, pc
<1>4. job[h].read \in Nat /\ job[h].taken \in Nat /\ job[h].early \in Nat
  BY <1>2 DEF AtWork
<1>5. CopiesLeft(k, pc) \in Int /\ CopiesLeft(k, pc) < CopiesLeft(job[h], pc)
  BY <1>1, <1>3, <1>4 DEF CopiesLeft, Pieces
<1>6. hpc[h] = pc /\ hpc'[h] = pc
  BY <1>1 DEF pc
<1> QED
  BY <1>1, <1>3, <1>5, <1>6, RelayNearer

LEMMA EndingNearer ==
    ASSUME AllInv, NEW h \in Handlers, CloseBoth(h) \/ Uncount(h) \/ Release(h)
    PROVE  Nearer(h)
<1>1. CASE CloseBoth(h)
  <2> DEFINE k == [[NoJob EXCEPT !.up = job[h].up, !.down = job[h].down] EXCEPT !.stage = "relay"]
  <2>1. job' = [job EXCEPT ![h] = k] /\ job[h].stage = "relay"
    BY <1>1 DEF CloseBoth, Stage
  <2>2. hpc[h] = "running" /\ hpc'[h] = "broken"
    BY <1>1 DEF CloseBoth, RelayError, AllInv, RelayInv, Typed
  <2>3. job'[h] = k
    BY <2>1 DEF AllInv, RelayInv, Typed
  <2>4. k.stage = "relay" /\ k.up = job[h].up /\ k.down = job[h].down
    BY DEF NoJob
  <2> HIDE DEF k
  <2>5. AtWork(job[h], "running", call[h].pc)
    BY <2>2, IsAtWork
  <2>6. job[h].read \in 0 .. 2 /\ job[h].taken \in 0 .. 1 /\ job[h].early \in 0 .. 1
    BY <2>5 DEF AtWork
  <2>7. CopiesLeft(k, "broken") \in Int /\ CopiesLeft(k, "broken") < CopiesLeft(job[h], "running")
    BY <2>4, <2>6 DEF CopiesLeft, Pieces
  <2> QED
    BY <2>1, <2>2, <2>3, <2>4, <2>7, RelayNearer
<1>2. CASE Uncount(h)
  <2>1. Leave(h) /\ hpc' = hpc /\ job[h].stage = "relay"
    BY <1>2 DEF Uncount, Relaying, outside, tproxyVars
  <2> QED
    BY <2>1, LeavesNearer
<1>3. CASE Release(h)
  <2>1. job[h].stage = "release"
    BY <1>3 DEF Release, Stage
  <2>2. hpc[h] \in {"running", "broken"} /\ hpc'[h] \in {"idle", "closing"}
    BY <1>3 DEF Release, Return, Unwind, Done, AllInv, RelayInv, Typed
  <2>3. StepsLeft(job[h], hpc[h], call[h].pc) = 2
    BY <2>1, <2>2, LeftAtWork
  <2>4. StepsLeft(job'[h], hpc'[h], call'[h].pc) \in {0, 1}
    BY <2>2 DEF StepsLeft
  <2> QED
    BY <2>3, <2>4 DEF Nearer
<1> QED
  BY <1>1, <1>2, <1>3

-----------------------------------------------------------------------------
\* What happens elsewhere.

Stays(h) == job'[h] = job[h] /\ hpc'[h] = hpc[h] /\ call'[h].pc = call[h].pc

LEMMA OthersCalls ==
    ASSUME AllInv, NEW g \in Handlers, NEW h \in Handlers \ {g}, Work(g) \/ Answer(g)
    PROVE  call'[h] = call[h]
<1>1. DOMAIN call = Dialers /\ call = [d \in Dialers |-> call[d]]
  BY DEF AllInv, DialInv, UpstreamTypeOK
<1>2. \/ UNCHANGED call
      \/ \E c : call' = [call EXCEPT ![g] = c]
  <2>1. CASE Refused(g) \/ NoAnswer(g) \/ Answer(g)
    BY <2>1 DEF Refused, NoAnswer, Answer, ConnectedHTTP, DialFails, Dialed
  <2>2. CASE ChooseDialer(g)
    BY <2>2 DEF ChooseDialer, Call, Lookup, Build
  <2>3. CASE Enter(g) \/ Sniff(g) \/ Connect(g) \/ Replay(g) \/ Count(g)
    BY <2>3 DEF Enter, Sniff, Connect, Replay, Count, upstreamVars
  <2>4. CASE \/ CopyUp(g) \/ UpEnds(g) \/ CopyDown(g) \/ DownEnds(g)
             \/ CopyFails(g, "up") \/ CopyFails(g, "down")
             \/ CloseBoth(g) \/ Uncount(g) \/ Release(g)
    BY <2>4 DEF CopyUp, UpEnds, CopyDown, DownEnds, CopyFails, CloseBoth, Uncount, Release,
       upstreamVars
  <2> QED
    BY <2>1, <2>2, <2>3, <2>4 DEF Work
<1>3. h \in Dialers /\ h # g
  BY RelayAssumption
<1> QED
  BY <1>1, <1>2, <1>3

LEMMA SwitchStays == ASSUME AllInv, NEW h \in Handlers, SwitchUpstream PROVE Stays(h)
<1>1. UNCHANGED <<job, hpc>>
  BY DEF SwitchUpstream, tproxyVars, relayVars
<1>2. PICK p \in Proxies : Witness(p)
  BY DEF SwitchUpstream, Update
<1>3. call'[h] = IF call[h] = NoCall THEN NoCall ELSE [call[h] EXCEPT !.during = @ \cup {p}]
  BY <1>2, RelayAssumption DEF Witness
<1>4. call[h] \in [pc : DialPCs, proxy : Proxies \cup {NoProxy}, during : SUBSET Proxies]
  BY RelayAssumption DEF AllInv, DialInv, UpstreamTypeOK, DialPCs
<1>5. call'[h].pc = call[h].pc
  BY <1>3, <1>4
<1> QED
  BY <1>1, <1>5 DEF Stays

LEMMA WorkNearer == ASSUME AllInv, NEW h \in Handlers, Work(h) \/ Answer(h) PROVE Nearer(h)
BY EnterNearer, SniffNearer, DialNearer, FailsNearer, AnswerNearer, ReplayNearer, CopyNearer,
   CopyFailsNearer, EndingNearer DEF Work

LEMMA StepsNearer ==
    ASSUME AllInv, [Next]_vars, NEW h \in Handlers
    PROVE  hpc[h] = "idle" \/ Stays(h) \/ Nearer(h)
<1>1. ASSUME NEW g \in Handlers, Work(g) \/ Answer(g) PROVE Stays(h) \/ Nearer(h)
  <2>1. CASE g = h
    BY <1>1, <2>1, WorkNearer
  <2>2. CASE g # h
    <3>1. Only(g)
      BY <1>1, HandlerSized DEF AllInv
    <3>2. call'[h] = call[h]
      BY <1>1, <2>2, OthersCalls
    <3> QED
      BY <2>2, <3>1, <3>2 DEF Only, Stays
  <2> QED
    BY <2>1, <2>2
<1>2. ASSUME NEW g \in Handlers, ClientStep(g) \/ ServerStep(g) PROVE Stays(h)
  BY <1>2 DEF ClientStep, ServerStep, outside, tproxyVars, upstreamVars, Stays
<1>3. ASSUME NEW f \in Flows, Packet(f) PROVE Stays(h)
  BY <1>3 DEF Packet, upstreamVars, relayVars, Stays
<1>4. CASE Listener
  <2>1. job' = job /\ call' = call
    BY <1>4 DEF Listener, upstreamVars, relayVars
  <2>2. hpc'[h] = hpc[h] \/ hpc[h] = "idle"
    BY <1>4 DEF Listener, Abandon, Accept, AllInv, RelayInv, Typed
  <2> QED
    BY <2>1, <2>2 DEF Stays
<1>5. CASE UNCHANGED vars
  BY <1>5 DEF vars, tproxyVars, upstreamVars, relayVars, Stays
<1> QED
  BY <1>1, <1>2, <1>3, <1>4, <1>5, SwitchStays DEF Next

\* How many steps that can be.
FewStepsLeft == \A h \in Handlers : StepsLeft(job[h], hpc[h], call[h].pc) \in 0 .. 19

LEMMA AllFew == AllInv => FewStepsLeft
<1> SUFFICES ASSUME AllInv, NEW h \in Handlers
             PROVE  StepsLeft(job[h], hpc[h], call[h].pc) \in 0 .. 19
  BY DEF FewStepsLeft
<1> DEFINE j == job[h]  pc == hpc[h]  dial == call[h].pc
<1>1. pc \in PCs
  BY IsAtWork
<1>2. CASE pc \in {"running", "broken"}
  <2>1. AtWork(j, pc, dial)
    BY <1>2, IsAtWork
  <2>2. StepsLeft(j, pc, dial) =
           IF j.stage = "release" THEN 2 ELSE CopiesLeft(j, pc) + StagesLeft(j.stage, dial)
    BY <1>2, LeftAtWork
  <2> HIDE DEF j, pc, dial
  <2>3. j.read \in 0 .. 2 /\ j.taken \in 0 .. 1 /\ j.early \in 0 .. 1
    BY <2>1 DEF AtWork
  <2>4. CopiesLeft(j, pc) \in 0 .. 7
    BY <2>3 DEF CopiesLeft, Pieces
  <2>5. j.stage # "release" => StagesLeft(j.stage, dial) \in 0 .. 11
    BY <2>1, LeftOfStages DEF AtWork, JobType
  <2>6. StepsLeft(j, pc, dial) \in 0 .. 19
    BY <2>2, <2>4, <2>5
  <2> QED
    BY <2>6 DEF j, pc, dial
<1>3. CASE pc \notin {"running", "broken"}
  BY <1>1, <1>3 DEF PCs, StepsLeft
<1> QED
  BY <1>2, <1>3

(* handleConn: a handler that serves a connection has at most nineteen     *)
(* steps left, whatever it is doing.                                       *)
THEOREM HandlersBounded == Spec => []FewStepsLeft
BY RelayInvariant, AllFew, PTL

(* handleConn: no step of anybody ever takes a handler back to something   *)
(* it has done, whatever the other handlers, the peers and the settings    *)
(* page do meanwhile: with HandlersBounded, its connection is over after   *)
(* at most nineteen steps of its own.                                      *)
THEOREM HandlersAdvance == Spec => HandlersOnlyAdvance
<1> DEFINE Forward == \A h \in Handlers :
          \/ hpc[h] = "idle"
          \/ UNCHANGED <<job[h], hpc[h], call[h].pc>>
          \/ StepsLeft(job'[h], hpc'[h], call'[h].pc) < StepsLeft(job[h], hpc[h], call[h].pc)
<1>1. AllInv /\ [Next]_vars => Forward
  BY StepsNearer DEF Stays, Nearer
<1>2. AllInv /\ [Next]_vars => [Forward]_vars
  BY <1>1
<1> HIDE DEF Forward
<1>3. Spec => [][Forward]_vars
  BY <1>2, RelayInvariant, PTL DEF Spec
<1> QED
  BY <1>3 DEF HandlersOnlyAdvance, Forward

=============================================================================
