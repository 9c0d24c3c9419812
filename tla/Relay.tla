------------------------------- MODULE Relay -------------------------------
(***************************************************************************)
(* internal/engine/tproxy.go, upstream.go, httpproxy.go and the counters   *)
(* of engine.go: a TProxy handler between its two sockets, from the first  *)
(* byte of the client to the close of the upstream connection.             *)
(*                                                                         *)
(* TProxy tells how handlers share the connection tracker, Upstream how    *)
(* they share the dialer; what a handler does while hpc is "running" or    *)
(* "broken" is added here.  Bytes come in pieces: of a client of port 443, *)
(* piece 1 is the header of its first record and piece 2 what follows.     *)
(***************************************************************************)
EXTENDS TProxy, Upstream, SNI, FiniteSets

CONSTANTS
    Http,      \* the upstreams that speak HTTP CONNECT; the others speak SOCKS5
    Hellos,    \* what a client of port 443 may begin with
    NoHello,
    Hosts      \* the host names in them

Pieces == 2      \* bound: the pieces a client sends; an upstream sends one

ASSUME RelayAssumption ==
    /\ Dialers = Handlers
    /\ Http \subseteq Proxies
    /\ NoHost \notin Hosts
    /\ NoHello \notin Hellos
    /\ Hellos \subseteq HelloType(Hosts)
    /\ IsFiniteSet(Handlers)

VARIABLES
    https,        \* the flows to port 443, chosen once and for all
    job,          \* handler -> how far it is with its connection
    client,       \* handler -> the program's end of the accepted connection
    server,       \* handler -> the upstream's end of the dialled connection
    counted,      \* Stats.active: the ports of the connections that count
    connections   \* Stats.Connections

stats == <<counted, connections>>
ends == <<client, server>>
outside == <<https, trackerVars, tproxyVars>>
relayVars == <<https, job, ends, stats>>
vars == <<trackerVars, tproxyVars, upstreamVars, relayVars>>

(***************************************************************************)
(* stage: the part of handleConn that is next.  hello: what will be        *)
(* sniffed; host: the name found; peek: pieces sniffed and not replayed;   *)
(* early: pieces in the bufio.Reader of the CONNECT; wrapped: the remote   *)
(* is a BufferedConn; read: the client's pieces read so far; taken: the    *)
(* upstream's; up, down: the two copying goroutines.                       *)
(***************************************************************************)
NoJob == [stage |-> "none", hello |-> NoHello, host |-> NoHost, peek |-> 0, early |-> 0,
          wrapped |-> FALSE, read |-> 0, taken |-> 0, up |-> "copying", down |-> "copying"]

\* sent: pieces sent; end: how its sending ended; got: pieces received;
\* eof: it was told that no more will come.
Peer == [sent |-> 0, end |-> "open", got |-> <<>>, eof |-> FALSE]

PeerType(n) ==
    [sent : 0 .. n, end : {"open", "fin", "reset"}, eof : BOOLEAN,
     got : UNION {[1 .. k -> 1 .. Pieces] : k \in 0 .. Pieces}]

RelayTypeOK ==
    /\ TrackerTypeOK /\ TProxyTypeOK /\ UpstreamTypeOK
    /\ job \in [Handlers ->
          [stage : {"none", "sniff", "dial", "handshake", "replay", "count", "relay", "release"},
           hello : Hellos \cup {NoHello}, host : Hosts \cup {NoHost}, peek : 0 .. Pieces,
           early : 0 .. 1, wrapped : BOOLEAN, read : 0 .. Pieces, taken : 0 .. 1,
           up : {"copying", "eof", "error"}, down : {"copying", "eof", "error"}]]
    /\ https \subseteq Flows
    /\ client \in [Handlers -> PeerType(Pieces)]
    /\ server \in [Handlers -> PeerType(1)]
    /\ counted \subseteq Ports
    /\ connections \in 0 .. Cardinality(Handlers)

Init ==
    /\ TrackerInit /\ TProxyInit
    /\ \E p \in Proxies : UpstreamInit(p)
    /\ https \in SUBSET Flows
    /\ job = [h \in Handlers |-> NoJob]
    /\ client = [h \in Handlers |-> Peer]
    /\ server = [h \in Handlers |-> Peer]
    /\ counted = {} /\ connections = 0

-----------------------------------------------------------------------------
(* Around the handlers: the packets of hijacked flows, the peers of the    *)
(* two sockets, and the settings page.  The collector is left out: it does *)
(* not touch a connection that is served, and a lease that is gone before  *)
(* tracker.Get is met here when another handler deletes it.                *)

Packet(f) ==
    \E p \in Ports :
        /\ \/ Set(f, p) /\ Deliver(p, "syn")
           \/ orig[f] = p /\ Deliver(p, "data") /\ UNCHANGED trackerVars
        /\ UNCHANGED <<hpc, hport, htarget, upstreamVars, relayVars>>

Listener ==
    /\ \/ \E p \in Ports : Abandon(p)
       \/ \E h \in Handlers, p \in Ports : Accept(h, p)
    /\ UNCHANGED <<upstreamVars, relayVars>>

SwitchUpstream ==
    /\ \E p \in Proxies : Update(p)
    /\ UNCHANGED <<trackerVars, tproxyVars, relayVars>>

Served(h) == hpc[h] = "running" /\ job[h].stage \notin {"none", "release"}
Dialled(h) == Served(h) /\ job[h].stage \in {"handshake", "replay", "count", "relay"}

PeerStep(peer, h, n) ==
    /\ peer[h].end = "open"
    /\ \/ peer[h].sent < n /\ peer' = [peer EXCEPT ![h].sent = @ + 1]
       \/ \E how \in {"fin", "reset"} : peer' = [peer EXCEPT ![h].end = how]

ClientStep(h) ==
    /\ Served(h)
    /\ PeerStep(client, h, Pieces)
    /\ UNCHANGED <<outside, upstreamVars, job, server, stats>>

\* Before its answer a SOCKS5 or HTTP proxy sends nothing of the server's.
ServerStep(h) ==
    /\ Dialled(h)
    /\ PeerStep(server, h, IF job[h].stage = "handshake" THEN 0 ELSE 1)
    /\ UNCHANGED <<outside, upstreamVars, job, client, stats>>

-----------------------------------------------------------------------------
(* handleConn, up to the dialled connection.                               *)

Stage(h, from, to, j) ==
    /\ job[h].stage = from
    /\ job' = [job EXCEPT ![h] = [j EXCEPT !.stage = to]]

\* What the peers do from now on no longer reaches the handler.
Forget(h, peer) ==
    /\ client' = [client EXCEPT ![h] = peer]
    /\ server' = [server EXCEPT ![h] = peer]

\* The deferred calls are next.
Leave(h) ==
    /\ job' = [job EXCEPT ![h] = [NoJob EXCEPT !.stage = "release"]]
    /\ Forget(h, Peer)

\* Before the sniffing: tracker.Get and tracker.Activate; after the last of
\* the deferred calls: conn.Close.
Enter(h) ==
    /\ \/ LookupTarget(h) /\ UNCHANGED job
       \/ CloseConn(h) /\ UNCHANGED job
       \/ /\ PinTarget(h)
          /\ IF htarget[h] \in https
             THEN \E hello \in Hellos : Stage(h, "none", "sniff", [NoJob EXCEPT !.hello = hello])
             ELSE Stage(h, "none", "dial", NoJob)
    /\ UNCHANGED <<https, upstreamVars, ends, stats>>

MaxRecord == 16384   \* the longest record that is read

\* readTLSClientHello reads at most the header of anything but a TLS record,
\* and at most the first record.
SniffLimit(hello) == IF hello.handshake /\ hello.record \in 1 .. MaxRecord THEN 2 ELSE 1

\* After n pieces: they are kept for the upstream, with the name in them.
Sniffed(j, n) ==
    [j EXCEPT !.hello = NoHello, !.read = n, !.peek = n,
              !.host = IF n = 2 THEN ExtractSNI(j.hello) ELSE NoHost]

\* It ends at its limit, or after two seconds with what there is by then.
Sniff(h) ==
    /\ job[h].stage = "sniff"
    /\ \E n \in 0 .. SniffLimit(job[h].hello) :
          /\ n = client[h].sent \/ (n < client[h].sent /\ n = SniffLimit(job[h].hello))
          /\ Stage(h, "sniff", "dial", Sniffed(job[h], n))
    /\ UNCHANGED <<outside, upstreamVars, ends, stats>>

ChooseDialer(h) ==
    /\ job[h].stage = "dial"
    /\ Call(h) \/ Lookup(h) \/ Build(h)
    /\ UNCHANGED <<trackerVars, tproxyVars, relayVars>>

\* forward.Dial: the TCP connection to the proxy, or an error in ten seconds.
Connect(h) ==
    /\ call[h].pc = "dialing"
    /\ Stage(h, "dial", "handshake", job[h])
    /\ UNCHANGED <<outside, upstreamVars, ends, stats>>

DialFails(h) ==
    /\ Dialed(h)
    /\ Leave(h)
    /\ UNCHANGED <<outside, stats>>

Refused(h) == job[h].stage = "dial" /\ DialFails(h)

Speaks(h, S) == job[h].stage = "handshake" /\ call[h].proxy \in S

\* MISTAKE: no deadline is set for the CONNECT.
NoAnswerWithoutDeadline(h) ==
    /\ job[h].stage = "handshake"
    /\ server[h].end # "open"
    /\ DialFails(h)

\* MISTAKE: a handshake that fails is tried again on a new connection.
NoAnswerRedials(h) ==
    /\ Speaks(h, Http) \/ (job[h].stage = "handshake" /\ server[h].end # "open")
    /\ Dialed(h)
    /\ Stage(h, "handshake", "dial", job[h])
    /\ server' = [server EXCEPT ![h] = Peer]
    /\ UNCHANGED <<outside, client, stats>>

\* The upstream ends the connection, or the deadline of the CONNECT passes;
\* the SOCKS5 client waits as long as it takes.
NoAnswer(h) ==
    /\ Speaks(h, Http) \/ (job[h].stage = "handshake" /\ server[h].end # "open")
    /\ DialFails(h)

\* MISTAKE: the plain connection is returned, whatever br has read ahead.
ConnectedPlain(h, ahead) ==
    /\ Speaks(h, Http)
    /\ Dialed(h)
    /\ server' = [server EXCEPT ![h].sent = ahead]
    /\ Stage(h, "handshake", "replay", [job[h] EXCEPT !.taken = ahead])
    /\ UNCHANGED <<outside, client, stats>>

\* HTTPProxyDialer.Dial: status 200; br may have read ahead of the answer.
ConnectedHTTP(h, ahead) ==
    /\ Speaks(h, Http)
    /\ Dialed(h)
    /\ server' = [server EXCEPT ![h].sent = ahead]
    /\ Stage(h, "handshake", "replay",
             [job[h] EXCEPT !.taken = ahead, !.early = ahead, !.wrapped = ahead > 0])
    /\ UNCHANGED <<outside, client, stats>>

\* The upstream's answer, if it gives one.  SOCKS5 reads not a byte more.
Answer(h) ==
    /\ server[h].end = "open"
    /\ \/ \E ahead \in 0 .. 1 : ConnectedHTTP(h, ahead)
       \/ /\ Speaks(h, Proxies \ Http)
          /\ Dialed(h)
          /\ Stage(h, "handshake", "replay", job[h])
          /\ UNCHANGED <<outside, ends, stats>>
       \/ Speaks(h, Proxies) /\ DialFails(h)

-----------------------------------------------------------------------------
(* handleConn, from the dialled connection on.                             *)

\* MISTAKE: what was sniffed is not written to the upstream.
ReplayForgotten(h) ==
    /\ Stage(h, "replay", "count", [job[h] EXCEPT !.peek = 0, !.host = NoHost])
    /\ UNCHANGED <<outside, upstreamVars, ends, stats>>

Replay(h) ==
    /\ \/ /\ Stage(h, "replay", "count", [job[h] EXCEPT !.peek = 0, !.host = NoHost])
          /\ server' = [server EXCEPT ![h].got = [i \in 1 .. job[h].peek |-> i]]
          /\ UNCHANGED client
       \/ /\ job[h].stage = "replay" /\ job[h].peek > 0 /\ server[h].end = "reset"
          /\ Leave(h)
    /\ UNCHANGED <<outside, upstreamVars, stats>>

\* MISTAKE: every connection counts, also under an id that is listed.
CountAgain(h) ==
    /\ Stage(h, "count", "relay", job[h])
    /\ counted' = counted \cup {hport[h]}
    /\ connections' = connections + 1
    /\ UNCHANGED <<outside, upstreamVars, ends>>

\* Stats.AddActiveConn, under the mapped address and port.
Count(h) ==
    /\ Stage(h, "count", "relay", job[h])
    /\ counted' = counted \cup {hport[h]}
    /\ connections' = IF hport[h] \in counted THEN connections ELSE connections + 1
    /\ UNCHANGED <<outside, upstreamVars, ends>>

Relaying(h) == job[h].stage = "relay"
Copying(h, way) == Relaying(h) /\ job[h][way] = "copying"

\* relay(conn, remote): a piece, the end, or an error of either socket.
CopyUp(h) ==
    /\ Copying(h, "up") /\ hpc[h] = "running"
    /\ job[h].read < client[h].sent
    /\ job' = [job EXCEPT ![h].read = @ + 1]
    /\ server' = [server EXCEPT ![h].got = Append(@, job[h].read + 1)]
    /\ UNCHANGED <<outside, upstreamVars, client, stats>>

\* MISTAKE: the end of the client's data is not passed on.
UpEndsSilently(h) ==
    /\ Copying(h, "up") /\ hpc[h] = "running"
    /\ client[h].end = "fin" /\ job[h].read = client[h].sent
    /\ job' = [job EXCEPT ![h].up = "eof"]
    /\ UNCHANGED <<outside, upstreamVars, ends, stats>>

\* CloseWrite, which a BufferedConn does not have.
UpEnds(h) ==
    /\ Copying(h, "up") /\ hpc[h] = "running"
    /\ client[h].end = "fin" /\ job[h].read = client[h].sent
    /\ job' = [job EXCEPT ![h].up = "eof"]
    /\ server' = [server EXCEPT ![h].eof = ~job[h].wrapped]
    /\ UNCHANGED <<outside, upstreamVars, client, stats>>

\* relay(remote, conn): first what br holds, then what the socket brings.
CopyDown(h) ==
    /\ Copying(h, "down") /\ hpc[h] = "running"
    /\ \/ /\ job[h].early > 0
          /\ job' = [job EXCEPT ![h].early = 0]
          /\ client' = [client EXCEPT ![h].got = Append(@, job[h].taken)]
       \/ /\ job[h].early = 0 /\ job[h].taken < server[h].sent
          /\ job' = [job EXCEPT ![h].taken = @ + 1]
          /\ client' = [client EXCEPT ![h].got = Append(@, job[h].taken + 1)]
    /\ UNCHANGED <<outside, upstreamVars, server, stats>>

DownEnds(h) ==
    /\ Copying(h, "down") /\ hpc[h] = "running"
    /\ server[h].end = "fin" /\ job[h].early = 0 /\ job[h].taken = server[h].sent
    /\ job' = [job EXCEPT ![h].down = "eof"]
    /\ client' = [client EXCEPT ![h].eof = TRUE]
    /\ UNCHANGED <<outside, upstreamVars, server, stats>>

\* A read or a write fails: a peer has reset its connection, or both
\* sockets were closed after the other direction's error.
CopyFails(h, way) ==
    /\ Copying(h, way)
    /\ client[h].end = "reset" \/ server[h].end = "reset" \/ hpc[h] = "broken"
    /\ job' = [job EXCEPT ![h][way] = "error"]
    /\ UNCHANGED <<outside, upstreamVars, ends, stats>>

\* The first or the second result is an error: both sockets are closed.
CloseBoth(h) ==
    /\ "error" \in {job[h].up, job[h].down}
    /\ RelayError(h)
    /\ Stage(h, "relay", "relay", [NoJob EXCEPT !.up = job[h].up, !.down = job[h].down])
    /\ Forget(h, [Peer EXCEPT !.end = "reset"])
    /\ UNCHANGED <<https, upstreamVars, stats>>

\* Both results are in: Stats.RemoveActiveConn.
Uncount(h) ==
    /\ "copying" \notin {job[h].up, job[h].down}
    /\ "error" \in {job[h].up, job[h].down} => hpc[h] = "broken"
    /\ Relaying(h)
    /\ Leave(h)
    /\ counted' = counted \ {hport[h]}
    /\ connections' = IF hport[h] \in counted /\ connections > 0 THEN connections - 1
                      ELSE connections
    /\ UNCHANGED <<outside, upstreamVars>>

\* remote.Close and tracker.Delete; the relay error has closed conn before.
Release(h) ==
    /\ Stage(h, "release", "none", NoJob)
    /\ Return(h) \/ Unwind(h)
    /\ UNCHANGED <<https, upstreamVars, ends, stats>>

-----------------------------------------------------------------------------
Work(h) ==
    \/ Enter(h) \/ Sniff(h) \/ ChooseDialer(h) \/ Connect(h) \/ Refused(h) \/ NoAnswer(h)
    \/ Replay(h) \/ Count(h)
    \/ CopyUp(h) \/ UpEnds(h) \/ CopyDown(h) \/ DownEnds(h)
    \/ CopyFails(h, "up") \/ CopyFails(h, "down")
    \/ CloseBoth(h) \/ Uncount(h) \/ Release(h)

Next ==
    \/ \E f \in Flows : Packet(f)
    \/ Listener \/ SwitchUpstream
    \/ \E h \in Handlers : Work(h) \/ Answer(h) \/ ClientStep(h) \/ ServerStep(h)

Spec == Init /\ [][Next]_vars

\* A goroutine that can run runs, and deadlines pass; no peer need ever act.
FairSpec == Spec /\ \A h \in Handlers : WF_vars(Work(h))

-----------------------------------------------------------------------------
(***************************************************************************)
(* Properties                                                              *)
(***************************************************************************)

Prefix(n) == [i \in 1 .. n |-> i]

(* The upstream receives what the client sent, in order and without a gap, *)
(* although the first pieces are read before there is an upstream; what it *)
(* has when it is told of the end is everything.                           *)
UpstreamGetsAll ==
    \A h \in Handlers : Relaying(h) /\ hpc[h] = "running" =>
        /\ server[h].got = Prefix(job[h].read)
        /\ job[h].up = "eof" => job[h].read = client[h].sent

(* The client receives what the upstream sent, also the part that arrived  *)
(* together with the proxy's answer and lies in a buffer of the dialer.    *)
ClientGetsAll ==
    \A h \in Handlers : Relaying(h) /\ hpc[h] = "running" =>
        /\ client[h].got = Prefix(job[h].taken - job[h].early)
        /\ job[h].down = "eof" => client[h].got = Prefix(server[h].sent)

(* The upstream is asked for the host that the hello names, and for the    *)
(* intercepted address if it names none or is not all there in time.       *)
TargetAsNamed ==
    [][\A h \in Handlers : (job[h].stage = "sniff" /\ job'[h].stage = "dial") =>
          job'[h].host = IF client[h].sent = Pieces /\ job[h].hello.record <= MaxRecord
                         THEN NamedHost(job[h].hello) ELSE NoHost]_vars

(* The number of connections is that of the listed ones, and what is       *)
(* listed is being relayed or about to be removed: nothing is counted      *)
(* twice or for ever, although a port may be leased again, and its next    *)
(* connection counted, before the last one is removed.                     *)
StatsAgree ==
    /\ connections = Cardinality(counted)
    /\ \A p \in counted : \E h \in Handlers : hport[h] = p /\ Relaying(h)

\* What is left of the copying, and of the way there.
CopiesLeft(j, pc) ==
    (IF j.up = "copying" THEN 1 ELSE 0) + (IF j.down = "copying" THEN 1 ELSE 0)
      + IF pc = "running" THEN 1 + (Pieces - j.read) + (1 - j.taken) + j.early ELSE 0

StagesLeft(stage, dial) ==
    IF stage = "dial"
    THEN [idle |-> 10, lookup |-> 9, build |-> 8, dialing |-> 7][dial]
    ELSE [none |-> 0, relay |-> 3, count |-> 4, replay |-> 5, handshake |-> 6, sniff |-> 11][stage]

\* At most how many steps a handler has left, whatever its peers still send.
StepsLeft(j, pc, dial) ==
    IF pc \notin {"running", "broken"}
    THEN [idle |-> 0, closing |-> 1, found |-> 18, accepted |-> 19][pc]
    ELSE IF j.stage = "release" THEN 2
    ELSE CopiesLeft(j, pc) + StagesLeft(j.stage, dial)

(* No handler goes round in a circle: with every change of its own state   *)
(* it comes nearer to the end of its connection, and nothing that happens  *)
(* elsewhere throws it back, a new upstream included.  What must happen    *)
(* for the next step is the matter of HandlersMoveOn.                      *)
HandlersOnlyAdvance ==
    [][\A h \in Handlers :
          \/ hpc[h] = "idle"
          \/ UNCHANGED <<job[h], hpc[h], call[h].pc>>
          \/ StepsLeft(job'[h], hpc'[h], call'[h].pc) < StepsLeft(job[h], hpc[h], call[h].pc)]_vars

(* The upstream learns that the client has finished, unless the connection *)
(* ends or bytes came with the answer to the CONNECT.                      *)
EofPassedOn ==
    \A h \in Handlers :
        (Relaying(h) /\ client[h].end = "fin") ~>
            (server[h].eof \/ ~Relaying(h) \/ hpc[h] = "broken" \/ job[h].wrapped)

\* All that the handler waits for is a peer that has not ended its part.
AtPeersMercy(h) ==
    \/ Speaks(h, Proxies \ Http) /\ server[h].end = "open"
    \/ /\ Relaying(h) /\ hpc[h] = "running"
       /\ \/ job[h].up = "copying" /\ client[h].end = "open"
          \/ job[h].down = "copying" /\ server[h].end = "open"

(* A handler that no peer holds up ends: an upstream that is not reached,  *)
(* does not answer a CONNECT or breaks off, and a client that goes away,   *)
(* each leave the handler free to release its port.                        *)
HandlersMoveOn == \A h \in Handlers : []<>(hpc[h] = "idle" \/ AtPeersMercy(h))

=============================================================================
