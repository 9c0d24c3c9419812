---------------------------- MODULE Interceptor ----------------------------
(***************************************************************************)
(* internal/engine/windivert.go and batch.go: the life of the interceptor. *)
(* Start receives packets in batches, decides each one and sends those     *)
(* that go on in one batch; Engine.Stop ends it from another goroutine.    *)
(*                                                                         *)
(* What is decided of a packet, and why, is told in PacketPath; here a     *)
(* packet is what becomes of it: "pass" (sendPass), "nat" (calcAndSend:    *)
(* hijacked or answered by the TProxy), "drop" (blocked, or not a packet   *)
(* the handlers know) and "bad" (its length cannot be told).               *)
(***************************************************************************)
EXTENDS Integers, Sequences

CONSTANTS
    BatchMax,    \* batchPackets
    Room,        \* packets that fit in the buffer of the send queue
    FailLimit    \* receive errors in a row before the state says so

ASSUME InterceptorAssumption ==
    /\ BatchMax \in Nat \ {0} /\ FailLimit \in Nat \ {0}
    /\ Room = BatchMax   \* recvBufSize, for both buffers

Kinds == {"pass", "nat", "drop", "bad"}
Batches == UNION {[1 .. n -> Kinds] : n \in 1 .. BatchMax}

\* Goroutines beside the loop, and what tells each to end.
Threads == {"refreshLoop", "policySweep", "Accept", "startGC"}
Channels == {"stopCh", "policies", "listener", "tracker"}
Channel(t) == CASE t = "refreshLoop" -> "stopCh" [] t = "policySweep" -> "policies"
                [] t = "Accept" -> "listener" [] t = "startGC" -> "tracker"

VARIABLES
    pc,        \* where Start is
    handle,    \* i.handle is set
    driver,    \* the WinDivert handle in the kernel: none, open, closed
    state,     \* i.state
    fails, errored,
    batch,     \* what was received
    at,        \* how many packets of it are done
    queue,     \* the send queue: places in the batch
    stop,      \* where Engine.Stop is
    closed,    \* the channels (and the listener) closed so far
    threads,   \* the goroutines beside the loop
    sent,      \* history: what was sent of this batch
    excused    \* history: the driver or Stop has got in the way of it

packets == <<batch, at, queue, sent, excused>>
report == <<state, fails, errored>>
stopping == <<stop, closed>>
vars == <<pc, handle, driver, report, packets, stopping, threads>>

TypeOK ==
    /\ pc \in {"open", "store", "announce", "refresh", "top", "receive", "process",
               "lost", "count", "ended", "failed"}
    /\ handle \in BOOLEAN
    /\ driver \in {"none", "open", "closed"}
    /\ state \in {"stopped", "running", "error"}
    /\ fails \in 0 .. FailLimit /\ errored \in BOOLEAN
    /\ batch \in Batches \cup {<<>>} /\ at \in 0 .. Len(batch)
    /\ queue \in Seq(1 .. BatchMax) /\ sent \in Seq(1 .. BatchMax)
    /\ stop \in {"no", "state", "policies", "take", "close", "listener", "tracker", "done"}
    /\ closed \subseteq Channels
    /\ threads \subseteq Threads
    /\ excused \in BOOLEAN

Init ==
    /\ pc = "open" /\ handle = FALSE /\ driver = "none"
    /\ state = "stopped" /\ fails = 0 /\ errored = FALSE
    /\ batch = <<>> /\ at = 0 /\ queue = <<>> /\ sent = <<>> /\ excused = FALSE
    /\ stop = "no" /\ closed = {}
    /\ threads = Threads \ {"refreshLoop"}

Stopped == "stopCh" \in closed

-----------------------------------------------------------------------------
(* Start, up to its loop.                                                  *)

Open ==
    /\ pc = "open"
    /\ \/ pc' = "store" /\ driver' = "open" /\ UNCHANGED state
       \/ pc' = "failed" /\ state' = "error" /\ UNCHANGED driver
    /\ UNCHANGED <<handle, fails, errored, packets, stopping, threads>>

Store ==
    /\ pc = "store" /\ pc' = "announce"
    /\ handle' = TRUE
    /\ UNCHANGED <<driver, report, packets, stopping, threads>>

Announce ==
    /\ pc = "announce" /\ pc' = "refresh"
    /\ state' = "running"
    /\ UNCHANGED <<handle, driver, fails, errored, packets, stopping, threads>>

\* The first refresh of the resolvers is over: go i.refreshLoop().
Refreshed ==
    /\ pc = "refresh" /\ pc' = "top"
    /\ threads' = threads \cup {"refreshLoop"}
    /\ UNCHANGED <<handle, driver, report, packets, stopping>>

-----------------------------------------------------------------------------
(* The loop.                                                               *)

\* What SendBatch may say.
Sends == IF handle /\ driver = "open" THEN BOOLEAN ELSE {FALSE}

\* MISTAKE: when the packets cannot be sent, the queue is left as it is.
FlushKeepsUnsent(ok) ==
    /\ sent' = IF ok THEN sent \o queue ELSE sent
    /\ excused' = (excused \/ (~ok /\ queue # <<>>))
    /\ queue' = IF ok THEN <<>> ELSE queue

\* flushQueue: in the order of the queue, which is empty afterwards in any case.
Flush(ok) ==
    /\ sent' = IF ok THEN sent \o queue ELSE sent
    /\ excused' = (excused \/ (~ok /\ queue # <<>>))
    /\ queue' = <<>>

Return ==
    /\ pc' = "ended" /\ state' = "stopped"
    /\ UNCHANGED <<handle, driver, fails, errored, batch, at, stopping, threads>>

\* The top of the loop: stopCh, then the handle.
Quit ==
    /\ pc = "top"
    /\ IF Stopped THEN \E ok \in Sends : Flush(ok)
       ELSE ~handle /\ UNCHANGED <<queue, sent, excused>>
    /\ Return

Turn ==
    /\ pc = "top" /\ ~Stopped /\ handle
    /\ pc' = "receive"
    /\ UNCHANGED <<handle, driver, report, packets, stopping, threads>>

\* MISTAKE: that the error was reported is not forgotten.
ReceivedAfterReport(b) ==
    /\ pc = "receive" /\ driver = "open"
    /\ pc' = "process"
    /\ batch' = b /\ at' = 0 /\ sent' = <<>> /\ excused' = FALSE
    /\ fails' = 0
    /\ state' = IF errored THEN "running" ELSE state
    /\ UNCHANGED <<handle, driver, errored, queue, stopping, threads>>

\* MISTAKE: the offset in the last batch is not reset.
ReceivedFurtherOn(b) ==
    /\ pc = "receive" /\ driver = "open"
    /\ pc' = "process"
    /\ batch' = b /\ sent' = <<>> /\ excused' = FALSE
    /\ fails' = 0 /\ errored' = FALSE
    /\ state' = IF errored THEN "running" ELSE state
    /\ UNCHANGED <<handle, driver, at, queue, stopping, threads>>

\* RecvBatch returns a batch: the interceptor is well again.
Received(b) ==
    /\ pc = "receive" /\ driver = "open"
    /\ pc' = "process"
    /\ batch' = b /\ at' = 0 /\ sent' = <<>> /\ excused' = FALSE
    /\ fails' = 0 /\ errored' = FALSE
    /\ state' = IF errored THEN "running" ELSE state
    /\ UNCHANGED <<handle, driver, queue, stopping, threads>>

\* RecvBatch returns an error, as it does on a closed handle.
ReceiveFails ==
    /\ pc = "receive" /\ pc' = "lost"
    /\ UNCHANGED <<handle, driver, report, packets, stopping, threads>>

QuitAfterError == pc = "lost" /\ Stopped /\ UNCHANGED <<queue, sent, excused>> /\ Return

GoOn ==
    /\ pc = "lost" /\ ~Stopped
    /\ pc' = "count"
    /\ UNCHANGED <<handle, driver, report, packets, stopping, threads>>

\* Counted up to the limit and reported once; after a pause, the next try.
Retry ==
    /\ pc = "count" /\ pc' = "top"
    /\ fails' = IF fails < FailLimit THEN fails + 1 ELSE fails
    /\ errored' = (errored \/ fails' = FailLimit)
    /\ state' = IF errored' /\ ~errored THEN "error" ELSE state
    /\ UNCHANGED <<handle, driver, packets, stopping, threads>>

Packet(kind) ==
    /\ pc = "process" /\ at < Len(batch) /\ batch[at + 1] = kind
    /\ at' = at + 1
    /\ UNCHANGED <<pc, handle, driver, report, batch, stopping, threads>>

\* sendPass: the queue is sent before it would have to grow.
Pass ==
    /\ Packet("pass")
    /\ \E ok \in Sends :
          LET full == Len(queue) = Room IN
          /\ queue' = Append(IF full THEN <<>> ELSE queue, at + 1)
          /\ sent' = IF full /\ ok THEN sent \o queue ELSE sent
          /\ excused' = (excused \/ (full /\ ~ok))

\* calcAndSend: nothing is queued without a handle or without a checksum.
Translate ==
    /\ Packet("nat")
    /\ \/ handle /\ queue' = Append(queue, at + 1) /\ UNCHANGED excused
       \/ excused' = TRUE /\ UNCHANGED queue
    /\ UNCHANGED sent

Drop == Packet("drop") /\ UNCHANGED <<queue, sent, excused>>

Split == at < Len(batch) => batch[at + 1] = "bad"

\* MISTAKE: what was queued before a packet that cannot be split stays there.
FlushIfSplit ==
    /\ pc = "process" /\ Split
    /\ pc' = "top"
    /\ IF at = Len(batch) THEN \E ok \in Sends : Flush(ok) ELSE UNCHANGED <<sent, excused, queue>>
    /\ UNCHANGED <<handle, driver, report, batch, at, stopping, threads>>

\* processBatch is over, or gives up at a packet; what it queued is sent.
FlushBatch ==
    /\ pc = "process" /\ Split
    /\ pc' = "top"
    /\ \E ok \in Sends : Flush(ok)
    /\ UNCHANGED <<handle, driver, report, batch, at, stopping, threads>>

-----------------------------------------------------------------------------
(* Engine.Stop, and the goroutines that end with it.                       *)

Shut(from, to, channel) ==
    /\ stop = from /\ stop' = to
    /\ closed' = closed \cup {channel}
    /\ UNCHANGED <<pc, handle, driver, report, packets, threads>>

RequestStop == Shut("no", "state", "stopCh")

SetStopped ==
    /\ stop = "state" /\ stop' = "policies"
    /\ state' = "stopped"
    /\ UNCHANGED <<pc, handle, driver, fails, errored, packets, closed, threads>>

TakeHandle ==
    /\ stop = "take" /\ stop' = IF handle THEN "close" ELSE "listener"
    /\ handle' = FALSE
    /\ UNCHANGED <<pc, driver, report, packets, closed, threads>>

\* MISTAKE: the handle is taken away and not closed.
HandleLeftOpen ==
    /\ stop = "close" /\ stop' = "listener"
    /\ UNCHANGED <<pc, handle, driver, report, packets, closed, threads>>

\* WinDivertClose, which also ends a pending RecvBatch.
CloseHandle ==
    /\ stop = "close" /\ stop' = "listener"
    /\ driver' = "closed"
    /\ UNCHANGED <<pc, handle, report, packets, closed, threads>>

Close ==
    \/ SetStopped \/ Shut("policies", "take", "policies") \/ TakeHandle \/ CloseHandle
    \/ Shut("listener", "tracker", "listener") \/ Shut("tracker", "done", "tracker")

End(t) ==
    /\ t \in threads /\ Channel(t) \in closed
    /\ threads' = threads \ {t}
    /\ UNCHANGED <<pc, handle, driver, report, packets, stopping>>

-----------------------------------------------------------------------------
Begin == Open \/ Store \/ Announce \/ Refreshed
Loop ==
    \/ Quit \/ Turn \/ QuitAfterError \/ GoOn \/ Retry
    \/ Pass \/ Translate \/ Drop \/ FlushBatch

Next ==
    \/ Begin \/ Loop \/ ReceiveFails \/ RequestStop \/ Close
    \/ \E b \in Batches : Received(b)
    \/ \E t \in Threads : End(t)

Spec == Init /\ [][Next]_vars

\* Everybody runs on; only RecvBatch waits, for a packet or for Close.
FairSpec ==
    /\ Spec
    /\ WF_vars(Begin \/ Loop) /\ WF_vars(driver = "closed" /\ ReceiveFails)
    /\ WF_vars(Close) /\ \A t \in Threads : WF_vars(End(t))

-----------------------------------------------------------------------------
(***************************************************************************)
(* Properties                                                              *)
(***************************************************************************)

Goes(i) == batch[i] \in {"pass", "nat"} /\ \A j \in 1 .. i : batch[j] # "bad"

Places(s) == {s[k] : k \in DOMAIN s}
InOrder(s) == \A k, n \in DOMAIN s : k < n => s[k] < s[n]

(* When the loop comes back for more, everything that was decided to go on *)
(* has been sent, once and in the order of its arrival, also of a batch    *)
(* that could not be split to its end; nothing of it is left to be sent    *)
(* with a later batch.  Only the driver and Stop excuse it.                *)
BatchIsSent ==
    pc = "top" /\ ~excused =>
        InOrder(sent) /\ Places(sent) = {i \in 1 .. Len(batch) : Goes(i)}

(* The queue never has to grow or to be sent half-way: one batch fits, and *)
(* no batch leaves anything behind for the next, however sending fails.    *)
QueueFits == Len(queue) <= IF pc = "process" THEN at ELSE 0

(* The reported state is what is going on: "error" exactly while the       *)
(* receive errors have reached the limit, "running" until then, and never  *)
(* "running" once Start has returned, whichever of Start and Stop wrote    *)
(* the state last.                                                         *)
StatusHonest ==
    /\ pc \in {"top", "receive", "process"} /\ ~Stopped =>
          state = IF fails = FailLimit THEN "error" ELSE "running"
    /\ pc = "ended" => state = "stopped"
    /\ pc = "failed" => state # "running"

(* After Engine.Stop everything ends: the loop, though it may be waiting   *)
(* for a packet that never comes, and each goroutine beside it.            *)
StopEndsAll == Stopped ~> (pc \in {"ended", "failed"} /\ threads = {})

=============================================================================
