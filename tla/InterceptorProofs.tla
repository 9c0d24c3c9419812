------------------------- MODULE InterceptorProofs -------------------------
(***************************************************************************)
(* What windivert.go and batch.go keep true for batches of any size and    *)
(* any limit of receive errors: the reported state, and what is sent.      *)
(***************************************************************************)
EXTENDS Interceptor, SequenceTheorems, TLAPS

Looping == pc \in {"top", "receive", "process", "lost", "count"}

(***************************************************************************)
(* The report.  That an error was reported is remembered exactly while the *)
(* count is at its limit; Stop writes the state only after stopCh is       *)
(* closed, so until then Start's own writes are all there is.              *)
(***************************************************************************)
ReportInv ==
    /\ errored <=> fails = FailLimit
    /\ stop # "no" => Stopped
    /\ pc \in {"open", "store", "announce", "refresh"} => fails = 0
    /\ pc = "refresh" /\ ~Stopped => state = "running"
    /\ Looping /\ ~Stopped => state = IF fails = FailLimit THEN "error" ELSE "running"
    /\ pc = "ended" => state = "stopped"
    /\ pc = "failed" => state # "running"

(***************************************************************************)
(* The queue.  It holds at most one place for each packet that is done, in *)
(* order, and all of those that go on unless one was excused; so it is     *)
(* never full before the batch is over and nothing is sent until then.     *)
(***************************************************************************)
Queued ==
    /\ sent = <<>>
    /\ Len(queue) <= at
    /\ InOrder(queue)
    /\ Places(queue) \subseteq 1 .. at
    /\ \A j \in 1 .. at : batch[j] # "bad"
    /\ ~excused => \A j \in 1 .. at : batch[j] \in {"pass", "nat"} => j \in Places(queue)
    /\ \A j \in Places(queue) : batch[j] \in {"pass", "nat"}

AllSent == InOrder(sent) /\ Places(sent) = {i \in 1 .. Len(batch) : Goes(i)}

QueueInv ==
    /\ pc = "process" => Queued
    /\ pc # "process" => queue = <<>>
    /\ pc \notin {"process", "ended"} /\ ~excused => AllSent

IInv == TypeOK /\ ReportInv /\ QueueInv

-----------------------------------------------------------------------------
(* Types.                                                                  *)

\* A batch has a length, and the empty one has no place.
LEMMA BatchLengths ==
    ASSUME NEW b \in Batches \cup {<<>>}
    PROVE  Len(b) \in 0 .. BatchMax /\ DOMAIN b = 1 .. Len(b) /\ \A i \in 1 .. Len(b) : b[i] \in Kinds
<1>1. CASE b = <<>>
  BY <1>1, InterceptorAssumption
<1>2. CASE b \in Batches
  <2>1. PICK n \in 1 .. BatchMax : b \in [1 .. n -> Kinds]
    BY <1>2 DEF Batches
  <2>2. Len(b) = n
    BY <2>1, InterceptorAssumption
  <2> QED
    BY <2>1, <2>2, InterceptorAssumption
<1> QED
  BY <1>1, <1>2

LEMMA InitTypes == Init => TypeOK
<1> SUFFICES ASSUME Init PROVE TypeOK
  OBVIOUS
<1>1. batch \in Batches \cup {<<>>} /\ at \in 0 .. Len(batch)
  BY DEF Init
<1>2. queue \in Seq(1 .. BatchMax) /\ sent \in Seq(1 .. BatchMax)
  BY DEF Init
<1>3. fails \in 0 .. FailLimit /\ closed \subseteq Channels /\ threads \subseteq Threads
  BY InterceptorAssumption DEF Init
<1>4. handle \in BOOLEAN /\ errored \in BOOLEAN /\ excused \in BOOLEAN
  BY DEF Init
<1> QED
  BY <1>1, <1>2, <1>3, <1>4 DEF Init, TypeOK

\* Sending the queue leaves sequences of places.
LEMMA FlushTypes ==
    ASSUME TypeOK, NEW ok \in BOOLEAN, Flush(ok)
    PROVE  sent' \in Seq(1 .. BatchMax) /\ queue' \in Seq(1 .. BatchMax) /\ excused' \in BOOLEAN
<1>1. sent \o queue \in Seq(1 .. BatchMax)
  BY ConcatProperties DEF TypeOK
<1>2. excused' \in BOOLEAN
  BY Zenon DEF Flush
<1>3. sent' = sent \/ sent' = sent \o queue
  BY DEF Flush
<1>4. queue' = <<>> /\ <<>> \in Seq(1 .. BatchMax) /\ sent \in Seq(1 .. BatchMax)
  BY EmptySeq DEF TypeOK, Flush
<1> QED
  BY <1>1, <1>2, <1>3, <1>4

LEMMA SendsAreBooleans == Sends \subseteq BOOLEAN
BY DEF Sends

\* Steps that leave the packets of the batch alone.
LEMMA OtherTypes ==
    ASSUME TypeOK, UNCHANGED packets,
           \/ Begin \/ Turn \/ ReceiveFails \/ QuitAfterError \/ GoOn \/ Retry
           \/ RequestStop \/ Close \/ (\E t \in Threads : End(t))
    PROVE  TypeOK'
<1>0. batch' = batch /\ at' = at /\ queue' = queue /\ sent' = sent /\ excused' = excused
  BY DEF packets
<1>1. CASE Begin
  <2>1. CASE Open
    BY <1>0, <2>1 DEF TypeOK, Open, stopping
  <2>2. CASE Store
    BY <1>0, <2>2 DEF TypeOK, Store, report, stopping
  <2>3. CASE Announce
    BY <1>0, <2>3 DEF TypeOK, Announce, stopping
  <2>4. CASE Refreshed
    BY <1>0, <2>4 DEF TypeOK, Refreshed, report, stopping, Threads
  <2> QED
    BY <1>1, <2>1, <2>2, <2>3, <2>4 DEF Begin
<1>2. CASE Turn \/ ReceiveFails \/ QuitAfterError \/ GoOn
  BY <1>0, <1>2 DEF TypeOK, Turn, ReceiveFails, QuitAfterError, GoOn, Return, report, stopping
<1>3. CASE Retry
  <2>1. fails' \in 0 .. FailLimit /\ errored' \in BOOLEAN /\ state' \in {"stopped", "running", "error"}
    BY <1>3, InterceptorAssumption DEF TypeOK, Retry
  <2> QED
    BY <1>0, <1>3, <2>1 DEF TypeOK, Retry, stopping
<1>4. CASE RequestStop \/ Close
  <2>1. ASSUME NEW from, NEW to, NEW channel \in Channels, Shut(from, to, channel),
               to \in {"state", "take", "tracker", "done"}
        PROVE  TypeOK'
    <3>1. closed' \subseteq Channels
      BY <2>1 DEF TypeOK, Shut
    <3> QED
      BY <1>0, <2>1, <3>1 DEF TypeOK, Shut, report
  <2>2. CASE RequestStop
    BY <2>1, <2>2 DEF RequestStop, Channels
  <2>3. CASE SetStopped \/ TakeHandle \/ CloseHandle
    BY <1>0, <2>3 DEF TypeOK, SetStopped, TakeHandle, CloseHandle, report
  <2> QED
    BY <1>4, <2>1, <2>2, <2>3 DEF Close, Channels
<1>5. CASE \E t \in Threads : End(t)
  BY <1>0, <1>5 DEF TypeOK, End, report, stopping
<1> QED
  BY <1>1, <1>2, <1>3, <1>4, <1>5

\* Steps that move on within a batch or past it.
LEMMA PacketTypes ==
    ASSUME TypeOK, NEW kind, Packet(kind)
    PROVE  /\ at' \in 0 .. Len(batch) /\ batch' = batch /\ at + 1 \in 1 .. BatchMax /\ at' = at + 1
           /\ pc = "process" /\ pc' = pc /\ state' = state /\ fails' = fails /\ errored' = errored
           /\ handle' = handle /\ driver' = driver /\ stop' = stop /\ closed' = closed
           /\ threads' = threads /\ batch[at + 1] = kind
<1>1. Len(batch) \in 0 .. BatchMax
  BY BatchLengths DEF TypeOK
<1> QED
  BY <1>1, InterceptorAssumption DEF TypeOK, Packet, report, stopping

LEMMA BatchTypes ==
    ASSUME TypeOK, Quit \/ Pass \/ Translate \/ Drop \/ FlushBatch \/ \E b \in Batches : Received(b)
    PROVE  TypeOK'
<1>1. CASE Quit
  <2>1. sent' \in Seq(1 .. BatchMax) /\ queue' \in Seq(1 .. BatchMax) /\ excused' \in BOOLEAN
    BY <1>1, FlushTypes, SendsAreBooleans DEF Quit, TypeOK
  <2> QED
    BY <1>1, <2>1 DEF TypeOK, Quit, Return, stopping
<1>2. CASE FlushBatch
  <2>1. sent' \in Seq(1 .. BatchMax) /\ queue' \in Seq(1 .. BatchMax) /\ excused' \in BOOLEAN
    BY <1>2, FlushTypes, SendsAreBooleans DEF FlushBatch, TypeOK
  <2> QED
    BY <1>2, <2>1 DEF TypeOK, FlushBatch, report, stopping
<1>3. CASE Pass
  <2>1. sent \o queue \in Seq(1 .. BatchMax)
    BY ConcatProperties DEF TypeOK
  <2>2. at + 1 \in 1 .. BatchMax
    BY <1>3, PacketTypes DEF Pass
  <2>3. sent' \in Seq(1 .. BatchMax) /\ queue' \in Seq(1 .. BatchMax)
    <3>1. (sent' = sent \/ sent' = sent \o queue)
          /\ (queue' = Append(queue, at + 1) \/ queue' = Append(<<>>, at + 1))
      BY <1>3 DEF Pass
    <3>2. \A q \in Seq(1 .. BatchMax) : Append(q, at + 1) \in Seq(1 .. BatchMax)
      BY <2>2
    <3>3. queue \in Seq(1 .. BatchMax) /\ sent \in Seq(1 .. BatchMax) /\ <<>> \in Seq(1 .. BatchMax)
      BY EmptySeq DEF TypeOK
    <3> QED
      BY <2>1, <3>1, <3>2, <3>3
  <2>4. excused' \in BOOLEAN
    BY <1>3, Zenon DEF Pass
  <2> QED
    BY <1>3, <2>3, <2>4, PacketTypes DEF TypeOK, Pass
<1>4. CASE Translate
  <2>1. at + 1 \in 1 .. BatchMax
    BY <1>4, PacketTypes DEF Translate
  <2>2. sent' \in Seq(1 .. BatchMax) /\ queue' \in Seq(1 .. BatchMax)
    <3>1. sent' = sent /\ (queue' = Append(queue, at + 1) \/ queue' = queue)
      BY <1>4 DEF Translate
    <3>2. \A q \in Seq(1 .. BatchMax) : Append(q, at + 1) \in Seq(1 .. BatchMax)
      BY <2>1
    <3>3. queue \in Seq(1 .. BatchMax) /\ sent \in Seq(1 .. BatchMax)
      BY DEF TypeOK
    <3> QED
      BY <3>1, <3>2, <3>3
  <2>3. excused' \in BOOLEAN
    BY <1>4 DEF Translate, TypeOK
  <2> QED
    BY <1>4, <2>2, <2>3, PacketTypes DEF TypeOK, Translate
<1>5. CASE Drop
  BY <1>5, PacketTypes DEF TypeOK, Drop
<1>6. ASSUME NEW b \in Batches, Received(b) PROVE TypeOK'
  <2>1. Len(b) \in 0 .. BatchMax
    BY BatchLengths
  <2>2. at' \in 0 .. Len(batch') /\ batch' \in Batches \cup {<<>>}
    BY <1>6, <2>1, InterceptorAssumption DEF Received
  <2>3. sent' \in Seq(1 .. BatchMax) /\ fails' \in 0 .. FailLimit
    BY <1>6, InterceptorAssumption DEF Received
  <2> QED
    BY <1>6, <2>2, <2>3 DEF TypeOK, Received, stopping
<1> QED
  BY <1>1, <1>2, <1>3, <1>4, <1>5, <1>6

\* What Next is made of, by what it does to the packets.
LEMMA StepKinds ==
    ASSUME Next
    PROVE  \/ /\ UNCHANGED packets
              /\ \/ Begin \/ Turn \/ ReceiveFails \/ QuitAfterError \/ GoOn \/ Retry
                 \/ RequestStop \/ Close \/ (\E t \in Threads : End(t))
           \/ Quit \/ Pass \/ Translate \/ Drop \/ FlushBatch \/ \E b \in Batches : Received(b)
<1>1. Begin => UNCHANGED packets
  BY DEF Begin, Open, Store, Announce, Refreshed, packets
<1>2. Turn \/ ReceiveFails \/ QuitAfterError \/ GoOn \/ Retry => UNCHANGED packets
  BY DEF Turn, ReceiveFails, QuitAfterError, GoOn, Retry, Return, packets
<1>3. RequestStop \/ Close => UNCHANGED packets
  BY DEF RequestStop, Close, Shut, SetStopped, TakeHandle, CloseHandle, packets
<1>4. (\E t \in Threads : End(t)) => UNCHANGED packets
  BY DEF End, packets
<1> QED
  BY <1>1, <1>2, <1>3, <1>4 DEF Next, Loop

LEMMA TypesStep == TypeOK /\ [Next]_vars => TypeOK'
<1> SUFFICES ASSUME TypeOK, [Next]_vars PROVE TypeOK'
  OBVIOUS
<1>1. CASE UNCHANGED vars
  BY <1>1 DEF TypeOK, vars, report, packets, stopping
<1>2. CASE Next
  BY <1>2, StepKinds, OtherTypes, BatchTypes
<1> QED
  BY <1>1, <1>2

-----------------------------------------------------------------------------
(* The report.                                                             *)

\* Nobody but Stop closes stopCh, and nobody opens it again.
LEMMA StoppedStays == ASSUME TypeOK, ReportInv, [Next]_vars PROVE (stop' # "no" => Stopped') /\ (Stopped => Stopped')
<1>1. CASE UNCHANGED <<stop, closed>>
  BY <1>1 DEF ReportInv, Stopped
<1>2. ASSUME NEW from, NEW to, NEW channel, Shut(from, to, channel),
             from = "no" => channel = "stopCh"
      PROVE  (stop' # "no" => Stopped') /\ (Stopped => Stopped')
  BY <1>2 DEF Shut, ReportInv, Stopped
<1>3. CASE Close \/ RequestStop
  <2>1. CASE SetStopped \/ TakeHandle \/ CloseHandle
    BY <2>1 DEF SetStopped, TakeHandle, CloseHandle, ReportInv, Stopped
  <2> QED
    BY <1>2, <1>3, <2>1 DEF Close, RequestStop
<1>4. CASE UNCHANGED vars
  BY <1>1, <1>4 DEF vars, stopping
<1>5. CASE Begin \/ Loop \/ ReceiveFails \/ (\E b \in Batches : Received(b)) \/ (\E t \in Threads : End(t))
  BY <1>1, <1>5
  DEF Begin, Open, Store, Announce, Refreshed, Loop, Quit, Turn, QuitAfterError, GoOn, Retry, Pass,
      Translate, Drop, Packet, FlushBatch, Return, ReceiveFails, Received, End, stopping
<1> QED
  BY <1>3, <1>4, <1>5 DEF Next

\* Steps of Start that leave the count and the reported state alone.
LEMMA QuietReport ==
    ASSUME ReportInv, UNCHANGED <<report, stopping>>,
           \/ pc = "open" /\ pc' = "store"
           \/ pc = "store" /\ pc' = "announce"
           \/ pc = "refresh" /\ pc' = "top"
           \/ pc \in {"top", "receive", "process", "lost", "count"}
                /\ pc' \in {"top", "receive", "process", "lost", "count"}
           \/ pc' = pc
    PROVE  ReportInv'
<1>1. state' = state /\ fails' = fails /\ (errored' <=> errored) /\ stop' = stop /\ closed' = closed
  BY DEF report, stopping
<1>2. (stop' # "no" => Stopped') /\ (Stopped' <=> Stopped) /\ (errored' <=> fails' = FailLimit)
  BY <1>1 DEF ReportInv, Stopped
<1>3. pc = "refresh" /\ ~Stopped => state = IF fails = FailLimit THEN "error" ELSE "running"
  BY InterceptorAssumption DEF ReportInv
<1> QED
  BY <1>1, <1>2, <1>3 DEF ReportInv, Looping

LEMMA ReportStep == ASSUME TypeOK, ReportInv, [Next]_vars PROVE ReportInv'
<1>0. (stop' # "no" => Stopped') /\ (Stopped => Stopped')
  BY StoppedStays
<1>1. CASE UNCHANGED vars
  BY <1>1, QuietReport DEF vars
<1>2. CASE Open
  <2>1. CASE pc' = "store"
    BY <1>2, <2>1, QuietReport DEF Open, report
  <2>2. CASE pc' = "failed"
    <3>1. state' = "error" /\ fails' = fails /\ (errored' <=> errored)
      BY <1>2, <2>2 DEF Open
    <3> QED
      BY <1>0, <2>2, <3>1 DEF ReportInv, Looping
  <2> QED
    BY <1>2, <2>1, <2>2 DEF Open
<1>3. CASE Store \/ Refreshed \/ Turn \/ ReceiveFails \/ GoOn
  BY <1>3, QuietReport DEF Store, Refreshed, Turn, ReceiveFails, GoOn
<1>4. CASE Announce
  <2>1. state' = "running" /\ fails' = fails /\ (errored' <=> errored) /\ fails = 0 /\ pc' = "refresh"
    BY <1>4 DEF Announce, ReportInv
  <2> QED
    BY <1>0, <2>1 DEF ReportInv, Looping
<1>5. CASE Quit \/ QuitAfterError
  <2>1. state' = "stopped" /\ fails' = fails /\ (errored' <=> errored) /\ pc' = "ended"
    BY <1>5 DEF Quit, QuitAfterError, Return
  <2> QED
    BY <1>0, <2>1 DEF ReportInv, Looping
<1>6. CASE Retry
  <2>1. pc = "count" /\ pc' = "top" /\ closed' = closed
        /\ fails' = (IF fails < FailLimit THEN fails + 1 ELSE fails)
        /\ state' = IF errored' /\ ~errored THEN "error" ELSE state
    BY <1>6 DEF Retry, stopping
  <2>2. errored' <=> errored \/ fails' = FailLimit
    BY <1>6 DEF Retry
  <2>3. fails = FailLimit => fails' = FailLimit
    BY <2>1, InterceptorAssumption
  <2>4. errored' <=> fails' = FailLimit
    BY <2>2, <2>3 DEF ReportInv
  <2>5. Stopped' <=> Stopped
    BY <2>1 DEF Stopped
  <2>6. ~Stopped => state' = IF fails' = FailLimit THEN "error" ELSE "running"
    <3>1. ~Stopped => state = IF fails = FailLimit THEN "error" ELSE "running"
      BY <2>1 DEF ReportInv, Looping
    <3>2. CASE errored
      BY <2>1, <2>2, <2>3, <3>1, <3>2 DEF ReportInv
    <3>3. CASE ~errored
      BY <2>1, <2>4, <3>1, <3>3 DEF ReportInv
    <3> QED
      BY <3>2, <3>3
  <2> QED
    BY <1>0, <2>1, <2>4, <2>5, <2>6 DEF ReportInv, Looping
<1>7. CASE Pass \/ Translate \/ Drop \/ FlushBatch
  BY <1>7, QuietReport DEF Pass, Translate, Drop, Packet, FlushBatch
<1>8. ASSUME NEW b \in Batches, Received(b) PROVE ReportInv'
  <2>1. pc = "receive" /\ pc' = "process" /\ fails' = 0 /\ ~errored' /\ closed' = closed
        /\ state' = IF errored THEN "running" ELSE state
    BY <1>8 DEF Received, stopping
  <2>2. ~Stopped => state' = "running"
    BY <2>1 DEF ReportInv, Looping
  <2>3. Stopped' <=> Stopped
    BY <2>1 DEF Stopped
  <2> QED
    BY <1>0, <2>1, <2>2, <2>3, InterceptorAssumption DEF ReportInv, Looping
<1>9. CASE SetStopped
  <2>1. state' = "stopped" /\ pc' = pc /\ fails' = fails /\ (errored' <=> errored) /\ stop # "no"
    BY <1>9 DEF SetStopped
  <2>2. Stopped'
    BY <1>0, <2>1 DEF ReportInv
  <2> QED
    BY <1>0, <2>1, <2>2 DEF ReportInv, Looping
<1>10. ASSUME pc' = pc, UNCHANGED report PROVE ReportInv'
  <2>1. state' = state /\ fails' = fails /\ (errored' <=> errored)
    BY <1>10 DEF report
  <2> QED
    BY <1>0, <1>10, <2>1 DEF ReportInv, Looping
<1>11. CASE RequestStop \/ Close \/ \E t \in Threads : End(t)
  BY <1>9, <1>10, <1>11 DEF RequestStop, Close, Shut, TakeHandle, CloseHandle, End
<1> QED
  BY <1>1, <1>2, <1>3, <1>4, <1>5, <1>6, <1>7, <1>8, <1>11 DEF Next, Begin, Loop

-----------------------------------------------------------------------------
(* The queue.                                                              *)

\* Steps outside the batch.
LEMMA OtherQueue ==
    ASSUME QueueInv, UNCHANGED packets,
           \/ pc' = pc
           \/ pc # "process" /\ pc' # "process" /\ (pc # "ended" \/ pc' = "ended")
    PROVE  QueueInv'
<1>1. batch' = batch /\ at' = at /\ queue' = queue /\ sent' = sent /\ (excused' <=> excused)
  BY DEF packets
<1>2. AllSent' <=> AllSent
  BY <1>1 DEF AllSent, InOrder, Places, Goes
<1>3. Queued' <=> Queued
  BY <1>1 DEF Queued, InOrder, Places
<1> QED
  BY <1>1, <1>2, <1>3 DEF QueueInv

LEMMA AppendLonger == ASSUME NEW S, NEW s \in Seq(S), NEW e PROVE Append(s, e) # s
<1>1. Len(Append(s, e)) = Len(s) + 1 /\ Len(s) \in Nat
  BY LenProperties
<1> QED
  BY <1>1

\* One more packet is done, and queued or not.
LEMMA PlaceQueued ==
    ASSUME TypeOK, Queued, at' = at + 1, batch' = batch, sent' = sent, at < Len(batch),
           batch[at + 1] # "bad",
           \/ queue' = Append(queue, at + 1) /\ batch[at + 1] \in {"pass", "nat"} /\ (excused' <=> excused)
           \/ queue' = queue /\ batch[at + 1] \notin {"pass", "nat"} /\ (excused' <=> excused)
           \/ queue' = queue /\ excused'
    PROVE  Queued'
<1>1. at \in Nat /\ queue \in Seq(1 .. BatchMax) /\ Len(queue) \in Nat
  <2>1. Len(batch) \in 0 .. BatchMax
    BY BatchLengths DEF TypeOK
  <2> QED
    BY <2>1, LenProperties, InterceptorAssumption DEF TypeOK
<1>2. DOMAIN queue = 1 .. Len(queue)
  BY <1>1, LenProperties
<1>3. \A j \in 1 .. at' : batch'[j] # "bad"
  BY <1>1 DEF Queued
<1>4. CASE queue' = queue
  <2>1. InOrder(queue') /\ Places(queue') = Places(queue) /\ Len(queue') <= at'
    BY <1>1, <1>4 DEF Queued, InOrder, Places
  <2>2. Places(queue') \subseteq 1 .. at'
    BY <1>1, <2>1 DEF Queued
  <2>3. \A j \in Places(queue') : batch'[j] \in {"pass", "nat"}
    BY <2>1 DEF Queued
  <2>4. ~excused' => \A j \in 1 .. at' : batch'[j] \in {"pass", "nat"} => j \in Places(queue')
    <3> SUFFICES ASSUME ~excused', NEW j \in 1 .. at', batch[j] \in {"pass", "nat"}
                 PROVE  j \in Places(queue)
      BY <2>1
    <3>1. ~excused /\ j # at + 1
      BY <1>1, <1>4, AppendLonger
    <3> QED
      BY <1>1, <3>1 DEF Queued
  <2> QED
    BY <1>3, <2>1, <2>2, <2>3, <2>4 DEF Queued
<1>5. CASE queue' = Append(queue, at + 1) /\ batch[at + 1] \in {"pass", "nat"} /\ (excused' <=> excused)
  <2>1. DOMAIN queue' = 1 .. Len(queue) + 1 /\ Len(queue') = Len(queue) + 1
    BY <1>1, <1>5
  <2>2. /\ \A k \in 1 .. Len(queue) : queue'[k] = queue[k]
        /\ queue'[Len(queue) + 1] = at + 1
    BY <1>1, <1>5
  <2>3. \A k \in 1 .. Len(queue) : queue[k] \in 1 .. at
    BY <1>2 DEF Queued, Places
  <2>4. InOrder(queue')
    <3> SUFFICES ASSUME NEW k \in 1 .. Len(queue) + 1, NEW n \in 1 .. Len(queue) + 1, k < n
                 PROVE  queue'[k] < queue'[n]
      BY <2>1 DEF InOrder
    <3>1. k \in 1 .. Len(queue)
      BY <1>1
    <3>2. CASE n = Len(queue) + 1
      BY <1>1, <2>2, <2>3, <3>1, <3>2
    <3>3. CASE n # Len(queue) + 1
      <4>1. n \in 1 .. Len(queue)
        BY <1>1, <3>3
      <4>2. queue'[k] = queue[k] /\ queue'[n] = queue[n] /\ queue[k] < queue[n]
        BY <1>2, <2>2, <3>1, <4>1 DEF Queued, InOrder
      <4> QED
        BY <4>2
    <3> QED
      BY <3>2, <3>3
  <2>5. Places(queue') = Places(queue) \cup {at + 1}
    <3>1. ASSUME NEW k \in 1 .. Len(queue) + 1 PROVE queue'[k] \in Places(queue) \cup {at + 1}
      BY <1>1, <1>2, <2>2 DEF Places
    <3>2. ASSUME NEW k \in 1 .. Len(queue) PROVE queue[k] \in Places(queue')
      BY <1>1, <2>1, <2>2 DEF Places
    <3>3. at + 1 \in Places(queue')
      BY <1>1, <2>1, <2>2 DEF Places
    <3> QED
      BY <1>2, <2>1, <3>1, <3>2, <3>3 DEF Places
  <2>6. Places(queue') \subseteq 1 .. at' /\ Len(queue') <= at'
    BY <1>1, <2>1, <2>5 DEF Queued
  <2>7. \A j \in Places(queue') : batch'[j] \in {"pass", "nat"}
    BY <1>5, <2>5 DEF Queued
  <2>8. ~excused' => \A j \in 1 .. at' : batch'[j] \in {"pass", "nat"} => j \in Places(queue')
    BY <1>1, <1>5, <2>5 DEF Queued
  <2> QED
    BY <1>3, <2>4, <2>6, <2>7, <2>8 DEF Queued
<1> QED
  BY <1>4, <1>5

\* A packet is queued or left out.  The queue is never full here.
LEMMA PacketQueue == ASSUME TypeOK, QueueInv, Pass \/ Translate \/ Drop PROVE QueueInv'
<1>1. PICK kind \in {"pass", "nat", "drop"} : Packet(kind)
  BY DEF Pass, Translate, Drop
<1>2. at' = at + 1 /\ batch' = batch /\ pc = "process" /\ pc' = "process" /\ batch[at + 1] = kind
  BY <1>1, PacketTypes
<1>3. at < Len(batch) /\ Len(batch) \in 0 .. BatchMax /\ at \in Nat
  BY <1>1, BatchLengths, InterceptorAssumption DEF Packet, TypeOK
<1>4. Queued
  BY <1>2 DEF QueueInv
<1>5. Len(queue) # Room
  BY <1>3, <1>4, InterceptorAssumption DEF Queued
<1>6. CASE Pass
  <2>1. queue' = Append(queue, at + 1) /\ sent' = sent /\ (excused' <=> excused)
    BY <1>5, <1>6 DEF Pass
  <2>2. batch[at + 1] = "pass"
    BY <1>6, PacketTypes DEF Pass
  <2>3. Queued'
    BY <1>2, <1>3, <1>4, <2>1, <2>2, PlaceQueued
  <2> QED
    BY <1>2, <2>3 DEF QueueInv
<1>7. CASE Translate
  <2>1. sent' = sent
    BY <1>7 DEF Translate
  <2>2. batch[at + 1] = "nat"
    BY <1>7, PacketTypes DEF Translate
  <2>3. \/ queue' = Append(queue, at + 1) /\ UNCHANGED excused
        \/ queue' = queue /\ excused' = TRUE
    BY <1>7, Zenon DEF Translate
  <2>4. CASE queue' = Append(queue, at + 1) /\ UNCHANGED excused
    <3>1. Queued'
      BY <1>2, <1>3, <1>4, <2>1, <2>2, <2>4, PlaceQueued
    <3> QED
      BY <1>2, <3>1 DEF QueueInv
  <2>5. CASE queue' = queue /\ excused' = TRUE
    <3>1. Queued'
      BY <1>2, <1>3, <1>4, <2>1, <2>2, <2>5, PlaceQueued
    <3> QED
      BY <1>2, <3>1 DEF QueueInv
  <2> QED
    BY <2>3, <2>4, <2>5
<1>8. CASE Drop
  <2>1. sent' = sent /\ queue' = queue /\ (excused' <=> excused)
    BY <1>8 DEF Drop
  <2>2. batch[at + 1] = "drop"
    BY <1>8, PacketTypes DEF Drop
  <2>3. Queued'
    BY <1>2, <1>3, <1>4, <2>1, <2>2, PlaceQueued
  <2> QED
    BY <1>2, <2>3 DEF QueueInv
<1> QED
  BY <1>6, <1>7, <1>8

LEMMA ReceivedQueue == ASSUME TypeOK, QueueInv, NEW b \in Batches, Received(b) PROVE QueueInv'
<1>1. pc' = "process" /\ at' = 0 /\ sent' = <<>> /\ ~excused' /\ queue' = <<>>
  BY DEF Received, QueueInv
<1>2. Len(queue') <= at' /\ InOrder(queue') /\ Places(queue') = {}
  BY <1>1 DEF InOrder, Places
<1>3. Queued'
  BY <1>1, <1>2 DEF Queued
<1> QED
  BY <1>1, <1>3 DEF QueueInv

\* At the end of a batch the queue is all that goes on, and it is sent.
LEMMA FlushQueue == ASSUME TypeOK, QueueInv, FlushBatch PROVE QueueInv'
<1>1. pc = "process" /\ pc' = "top" /\ queue' = <<>> /\ batch' = batch /\ at' = at /\ Split
  BY DEF FlushBatch, Flush
<1>2. Queued
  BY <1>1 DEF QueueInv
<1>3. PICK ok \in Sends : Flush(ok)
  BY DEF FlushBatch
<1>4. queue \in Seq(1 .. BatchMax) /\ sent = <<>> /\ <<>> \o queue = queue
  BY <1>2, ConcatEmptySeq DEF TypeOK, Queued
<1>5. at \in 0 .. Len(batch) /\ Len(batch) \in Nat
  BY BatchLengths, InterceptorAssumption DEF TypeOK
<1>6. ASSUME ~excused' PROVE AllSent'
  <2>1. ~excused /\ (ok \/ queue = <<>>)
    BY <1>3, <1>6 DEF Flush
  <2>2. sent' = queue
    BY <1>3, <1>4, <2>1 DEF Flush
  <2>3. InOrder(sent')
    BY <1>2, <2>2 DEF Queued
  <2>4. ASSUME NEW i \in 1 .. Len(batch) PROVE i \in Places(queue) <=> Goes(i)
    <3>1. CASE i <= at
      <4>1. i \in 1 .. at /\ 1 .. i \subseteq 1 .. at
        BY <1>5, <3>1
      <4>2. \A j \in 1 .. i : batch[j] # "bad"
        BY <1>2, <4>1 DEF Queued
      <4>3. i \in Places(queue) <=> batch[i] \in {"pass", "nat"}
        BY <1>2, <2>1, <4>1 DEF Queued
      <4> QED
        BY <4>2, <4>3 DEF Goes
    <3>2. CASE i > at
      <4>1. i \notin Places(queue)
        BY <1>2, <1>5, <3>2 DEF Queued
      <4>2. batch[at + 1] = "bad" /\ at + 1 \in 1 .. i
        BY <1>1, <1>5, <3>2 DEF Split
      <4> QED
        BY <4>1, <4>2 DEF Goes
    <3> QED
      BY <1>5, <3>1, <3>2
  <2>5. Places(queue) \subseteq 1 .. Len(batch)
    BY <1>2, <1>5 DEF Queued
  <2>6. Places(queue) = {i \in 1 .. Len(batch) : Goes(i)}
    BY <2>4, <2>5
  <2>7. Places(sent') = Places(queue) /\ {i \in 1 .. Len(batch') : Goes(i)'} = {i \in 1 .. Len(batch) : Goes(i)}
    BY <1>1, <2>2 DEF Goes
  <2> QED
    BY <2>3, <2>6, <2>7 DEF AllSent
<1> QED
  BY <1>1, <1>6 DEF QueueInv

LEMMA QueueStep == ASSUME TypeOK, QueueInv, [Next]_vars PROVE QueueInv'
<1>1. CASE UNCHANGED vars
  BY <1>1, OtherQueue DEF vars
<1>2. CASE Pass \/ Translate \/ Drop
  BY <1>2, PacketQueue
<1>3. CASE FlushBatch
  BY <1>3, FlushQueue
<1>4. CASE \E b \in Batches : Received(b)
  BY <1>4, ReceivedQueue
<1>5. CASE Quit
  <2>1. pc = "top" /\ pc' = "ended"
    BY <1>5 DEF Quit, Return
  <2>2. queue' = <<>>
    BY <1>5, <2>1 DEF Quit, Flush, QueueInv
  <2> QED
    BY <2>1, <2>2 DEF QueueInv
<1>6. CASE /\ UNCHANGED packets
           /\ Begin \/ Turn \/ ReceiveFails \/ QuitAfterError \/ GoOn \/ Retry
  <2>1. pc # "process" /\ pc' # "process" /\ pc # "ended"
    BY <1>6 DEF Begin, Open, Store, Announce, Refreshed, Turn, ReceiveFails, QuitAfterError, GoOn, Retry, Return
  <2> QED
    BY <1>6, <2>1, OtherQueue
<1>7. CASE UNCHANGED packets /\ (RequestStop \/ Close \/ \E t \in Threads : End(t))
  <2>1. pc' = pc
    BY <1>7 DEF RequestStop, Close, Shut, SetStopped, TakeHandle, CloseHandle, End
  <2> QED
    BY <1>7, <2>1, OtherQueue
<1> QED
  BY <1>1, <1>2, <1>3, <1>4, <1>5, <1>6, <1>7, StepKinds

-----------------------------------------------------------------------------
(* The theorems.                                                           *)

LEMMA InitInv == Init => IInv
<1> SUFFICES ASSUME Init PROVE IInv
  OBVIOUS
<1>1. ReportInv
  BY InterceptorAssumption DEF Init, ReportInv, Looping
<1>2. AllSent
  BY DEF Init, AllSent, InOrder, Places
<1>3. QueueInv
  BY <1>2 DEF Init, QueueInv
<1> QED
  BY <1>1, <1>3, InitTypes DEF IInv

(* The inductive invariant: types, the report and the queue.               *)
THEOREM InterceptorInvariant == Spec => []IInv
<1>1. IInv /\ [Next]_vars => IInv'
  BY TypesStep, ReportStep, QueueStep DEF IInv
<1> QED
  BY <1>1, InitInv, PTL DEF Spec

(* Every variable keeps its type: also the place in a batch never passes   *)
(* its end, for batches of any size.                                       *)
THEOREM InterceptorTypes == Spec => []TypeOK
<1>1. IInv => TypeOK
  BY DEF IInv
<1> QED
  BY <1>1, InterceptorInvariant, PTL

(* The state that the page shows is what the loop is doing, whatever the   *)
(* limit of errors and wherever Stop gets in between.                      *)
THEOREM StatusIsTrue == Spec => []StatusHonest
<1>1. IInv => StatusHonest
  BY DEF IInv, ReportInv, StatusHonest, Looping
<1> QED
  BY <1>1, InterceptorInvariant, PTL

(* A queue with room for a batch never grows and is empty between batches. *)
THEOREM QueueNeverGrows == Spec => []QueueFits
<1>1. IInv => QueueFits
  BY DEF IInv, QueueInv, Queued, QueueFits
<1> QED
  BY <1>1, InterceptorInvariant, PTL

(* Whatever a batch holds, all of it that goes on has been sent once and   *)
(* in order when the next one is received.                                 *)
THEOREM EveryBatchIsSent == Spec => []BatchIsSent
<1>1. IInv => BatchIsSent
  BY DEF IInv, QueueInv, AllSent, BatchIsSent
<1> QED
  BY <1>1, InterceptorInvariant, PTL

=============================================================================
