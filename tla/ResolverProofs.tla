--------------------------- MODULE ResolverProofs ---------------------------
(***************************************************************************)
(* What internal/process keeps true of every table, for any number of      *)
(* sockets, processes and names: the gate lets in one refresh at a time,   *)
(* and a forced refresh finds the socket that asked.                       *)
(***************************************************************************)
EXTENDS Resolver, TLAPS

Owners == Pids \cup {Zero, Nobody}

TaskType ==
    [pc : {"idle", "look", "gate", "query", "rows", "remember", "again"},
     snap : [Keys -> Pids \cup {Zero, Nobody}], todo : SUBSET Keys,
     build : [Keys -> Entries \cup {Nobody}],
     row : Keys \cup {Nobody}, name : Names, behind : BOOLEAN]

AskType ==
    [key : Keys \cup {Nobody}, steady : BOOLEAN,
     refresh : {"none", "done", "skipped", "failed"}, lost : BOOLEAN, blank : BOOLEAN]

Translating(r) == r.pc \in {"rows", "remember"}

\* The translation so far is that of the rows that are not to do.
BuildOK(r) ==
    \A k \in Keys :
        IF k \in r.todo \/ r.snap[k] = Nobody THEN r.build[k] = Nobody
        ELSE r.build[k] # Nobody /\ r.build[k].pid = r.snap[k]

(***************************************************************************)
(* One refresh.  Only rows are to do, and the row that is being named is   *)
(* one of them; only a refresh that has its rows can fall behind.          *)
(***************************************************************************)
RefreshOK(r) ==
    /\ r.behind => Translating(r)
    /\ \A k \in r.todo : r.snap[k] # Nobody
    /\ r.pc = "remember" => r.row \in r.todo /\ r.snap[r.row] \in Pids
    /\ Translating(r) => BuildOK(r)

RefreshInv == \A t \in Threads : RefreshOK(task[t])

(***************************************************************************)
(* The lookup.  While its socket stays, the rows of its own refresh have   *)
(* it, and so do those of a refresh that began after its own was           *)
(* committed; one that began before is behind.                             *)
(***************************************************************************)
Answered == task["loop"].pc = "again" /\ ask.steady /\ ask.refresh = "done"

Found ==
    (IPv6 \/ ~ask.lost) =>
        \/ entry[ask.key] # Nobody /\ entry[ask.key].pid = owner[ask.key]
        \/ IPv6 /\ ask.blank

AskInv ==
    /\ ask.steady => ask.key \in Keys /\ owner[ask.key] \in Pids
    /\ ask.steady /\ Translating(task["loop"]) => task["loop"].snap[ask.key] = owner[ask.key]
    /\ Answered => Found
    /\ Answered /\ Translating(task["refresher"]) /\ ~task["refresher"].behind
          => task["refresher"].snap[ask.key] = owner[ask.key]

IInv == TypeOK /\ RefreshInv /\ GateSerializes /\ AskInv

-----------------------------------------------------------------------------
(* Types and refreshes.                                                    *)

LEMMA IdleFine ==
    /\ Idle \in TaskType /\ RefreshOK(Idle)
    /\ \A t \in Threads : Rest(t) \in TaskType /\ RefreshOK(Rest(t)) /\ ~Rest(t).behind
    /\ \A t \in Threads : Rest(t).pc = IF t = "loop" THEN "again" ELSE "idle"
<1>1. Idle \in TaskType
  BY DEF Idle, TaskType, NoBuild, Names
<1>2. Idle.pc = "idle" /\ Idle.behind = FALSE /\ Idle.todo = {}
  BY DEF Idle
<1>3. RefreshOK(Idle)
  BY <1>2 DEF RefreshOK, Translating
<1>4. ASSUME NEW t \in Threads
      PROVE  /\ Rest(t) \in TaskType /\ RefreshOK(Rest(t)) /\ ~Rest(t).behind
             /\ Rest(t).pc = IF t = "loop" THEN "again" ELSE "idle"
  <2>1. Rest(t) \in TaskType
    BY <1>1 DEF Rest, TaskType
  <2>2. Rest(t).pc = (IF t = "loop" THEN "again" ELSE "idle") /\ Rest(t).behind = FALSE /\ Rest(t).todo = {}
    BY <1>1, <1>2 DEF Rest, TaskType
  <2> QED
    BY <2>1, <2>2 DEF RefreshOK, Translating
<1> QED
  BY <1>1, <1>3, <1>4

\* A step that changes one thread's refresh.
LEMMA OneTask ==
    ASSUME task \in [Threads -> TaskType], RefreshInv, NEW t \in Threads,
           NEW r \in TaskType, RefreshOK(r), task' = [task EXCEPT ![t] = r]
    PROVE  task' \in [Threads -> TaskType] /\ RefreshInv'
<1>1. task' \in [Threads -> TaskType] /\ \A u \in Threads : task'[u] = IF u = t THEN r ELSE task[u]
  OBVIOUS
<1>2. ASSUME NEW u \in Threads PROVE RefreshOK(task'[u])
  BY <1>1 DEF RefreshInv
<1> QED
  BY <1>1, <1>2 DEF RefreshInv

\* A step of a thread to another place, outside the translation.
LEMMA Places ==
    ASSUME task \in [Threads -> TaskType], RefreshInv, NEW t \in Threads, NEW from, NEW to,
           Goes(t, from, to), from \notin {"rows", "remember"},
           to \in {"idle", "look", "gate", "query", "again"}
    PROVE  /\ task' \in [Threads -> TaskType] /\ RefreshInv'
           /\ task'[t].pc = to /\ ~task'[t].behind
           /\ \A u \in Threads : u # t => task'[u] = task[u]
<1> DEFINE r == [task[t] EXCEPT !.pc = to]
<1>1. task[t] \in TaskType /\ task[t].pc = from /\ RefreshOK(task[t])
  BY DEF Goes, RefreshInv
<1>2. r \in TaskType /\ r.pc = to /\ r.behind = task[t].behind /\ r.todo = task[t].todo /\ r.snap = task[t].snap
  BY <1>1 DEF TaskType
<1>3. ~r.behind
  BY <1>1, <1>2 DEF RefreshOK, Translating
<1>4. RefreshOK(r)
  BY <1>1, <1>2, <1>3 DEF RefreshOK, Translating
<1>5. task' = [task EXCEPT ![t] = r]
  BY DEF Goes
<1> HIDE DEF r
<1> QED
  BY <1>2, <1>3, <1>4, <1>5, OneTask

LEMMA Resting ==
    ASSUME task \in [Threads -> TaskType], RefreshInv, NEW t \in Threads,
           task' = [task EXCEPT ![t] = Rest(t)]
    PROVE  task' \in [Threads -> TaskType] /\ RefreshInv' /\ task'[t] = Rest(t)
BY IdleFine, OneTask

LEMMA Querying ==
    ASSUME task \in [Threads -> TaskType], RefreshInv, owner \in [Keys -> Owners],
           NEW t \in Threads, Query(t)
    PROVE  /\ task' \in [Threads -> TaskType] /\ RefreshInv'
           /\ task'[t].pc = "rows" /\ ~task'[t].behind /\ task'[t].snap = owner
           /\ \A u \in Threads : u # t => task'[u] = task[u]
<1> DEFINE r == [Idle EXCEPT !.pc = "rows", !.snap = owner, !.todo = Rows]
<1>1. r \in TaskType
  BY IdleFine DEF TaskType, Owners, Rows
<1>2. r.pc = "rows" /\ r.snap = owner /\ r.todo = Rows /\ r.behind = FALSE /\ r.build = NoBuild
  BY DEF Idle
<1>3. BuildOK(r)
  BY <1>2 DEF BuildOK, Rows, NoBuild
<1>4. RefreshOK(r)
  BY <1>2, <1>3 DEF RefreshOK, Translating, Rows
<1>5. task' = [task EXCEPT ![t] = r]
  BY DEF Query
<1> HIDE DEF r
<1> QED
  BY <1>1, <1>2, <1>4, <1>5, OneTask

\* A row is translated.
LEMMA Translating1 ==
    ASSUME task \in [Threads -> TaskType], RefreshInv, NEW t \in Threads,
           Translating(task[t]), NEW k \in task[t].todo, NEW name \in Names,
           Translated(t, k, name)
    PROVE  /\ task' \in [Threads -> TaskType] /\ RefreshInv'
           /\ Translating(task'[t]) /\ task'[t].behind = task[t].behind /\ task'[t].snap = task[t].snap
           /\ \A u \in Threads : u # t => task'[u] = task[u]
<1> DEFINE q == task[t]
           e == [pid |-> q.snap[k], name |-> name]
           r == [q EXCEPT !.pc = "rows", !.todo = q.todo \ {k}, !.row = Nobody, !.name = Blank,
                          !.build = [q.build EXCEPT ![k] = e]]
<1>7. task' = [task EXCEPT ![t] = r]
  BY DEF Translated
<1>1. q \in TaskType /\ RefreshOK(q) /\ k \in Keys
  BY DEF RefreshInv, TaskType
<1>2. q.snap \in [Keys -> Pids \cup {Zero, Nobody}] /\ q.build \in [Keys -> Entries \cup {Nobody}]
      /\ q.todo \subseteq Keys
  BY <1>1 DEF TaskType
<1>3. e \in Entries
  BY <1>1, <1>2 DEF Entries, RefreshOK
<1>4. e # Nobody /\ e.pid = q.snap[k]
  BY <1>3, ResolverAssumption
<1> HIDE DEF e
<1>5. r.pc = "rows" /\ r.todo = q.todo \ {k} /\ r.snap = q.snap /\ r.behind = q.behind
      /\ r.build = [q.build EXCEPT ![k] = e]
  BY <1>1 DEF TaskType
<1>6. r \in TaskType
  BY <1>1, <1>2, <1>3 DEF TaskType, Names
<1> HIDE DEF r
<1>8. ASSUME NEW n \in Keys
      PROVE  IF n \in r.todo \/ r.snap[n] = Nobody THEN r.build[n] = Nobody
             ELSE r.build[n] # Nobody /\ r.build[n].pid = r.snap[n]
  <2>1. BuildOK(q) /\ q.snap[k] # Nobody
    BY <1>1 DEF RefreshOK
  <2>2. CASE n = k
    BY <1>2, <1>4, <1>5, <2>1, <2>2
  <2>3. CASE n # k
    <3>1. r.build[n] = q.build[n] /\ (n \in r.todo <=> n \in q.todo)
      BY <1>2, <1>5, <2>3
    <3> QED
      BY <1>5, <2>1, <3>1 DEF BuildOK
  <2> QED
    BY <2>2, <2>3
<1>9. RefreshOK(r)
  BY <1>1, <1>5, <1>8 DEF RefreshOK, Translating, BuildOK
<1>10. task' \in [Threads -> TaskType] /\ RefreshInv'
  BY <1>6, <1>7, <1>9, OneTask
<1>11. task'[t] = r /\ \A u \in Threads : u # t => task'[u] = task[u]
  BY <1>7
<1> QED
  BY <1>5, <1>10, <1>11 DEF Translating

LEMMA Resolving ==
    ASSUME TypeOK, task \in [Threads -> TaskType], RefreshInv, NEW t \in Threads,
           NEW k \in Keys, Resolve(t, k)
    PROVE  /\ task' \in [Threads -> TaskType] /\ RefreshInv'
           /\ Translating(task'[t]) /\ task'[t].behind = task[t].behind /\ task'[t].snap = task[t].snap
           /\ \A u \in Threads : u # t => task'[u] = task[u]
<1> DEFINE q == task[t]
           p == q.snap[k]
           r == [q EXCEPT !.pc = "remember", !.row = k, !.name = program[p]]
<1>1. q \in TaskType /\ RefreshOK(q) /\ q.pc = "rows" /\ k \in q.todo
  BY DEF RefreshInv, Resolve
<1>2. p # Zero /\ p # Nobody /\ p \in Pids
  BY <1>1 DEF Resolve, Known, RefreshOK, TaskType
<1>3. program[p] \in Names
  BY <1>2 DEF TypeOK
<1>4. r \in TaskType
  BY <1>1, <1>3 DEF TaskType
<1>5. r.pc = "remember" /\ r.row = k /\ r.todo = q.todo /\ r.snap = q.snap /\ r.behind = q.behind
      /\ r.build = q.build
  BY <1>1 DEF TaskType
<1>6. task' = [task EXCEPT ![t] = r]
  BY DEF Resolve
<1> HIDE DEF r
<1>7. BuildOK(r)
  BY <1>1, <1>5 DEF RefreshOK, Translating, BuildOK
<1>8. RefreshOK(r)
  BY <1>1, <1>2, <1>5, <1>7 DEF RefreshOK, Translating
<1>9. task' \in [Threads -> TaskType] /\ RefreshInv'
  BY <1>4, <1>6, <1>8, OneTask
<1>10. task'[t] = r /\ \A u \in Threads : u # t => task'[u] = task[u]
  BY <1>6
<1> QED
  BY <1>5, <1>9, <1>10 DEF Translating

\* The other thread falls behind, if it has its rows.
LEMMA Committing ==
    ASSUME task \in [Threads -> TaskType], RefreshInv, NEW t \in Threads, Commit(t)
    PROVE  /\ task' \in [Threads -> TaskType] /\ RefreshInv'
           /\ task'[t] = Rest(t)
           /\ \A u \in Threads : u # t =>
                 /\ task'[u].pc = task[u].pc /\ task'[u].snap = task[u].snap
                 /\ task'[u].behind <=> Translating(task[u])
<1>1. task' = [u \in Threads |->
          IF u = t THEN Rest(t)
          ELSE [task[u] EXCEPT !.behind = task[u].pc \in {"rows", "remember"}]]
  BY DEF Commit
<1>2. ASSUME NEW u \in Threads, u # t
      PROVE  /\ task'[u] \in TaskType /\ RefreshOK(task'[u])
             /\ task'[u].pc = task[u].pc /\ task'[u].snap = task[u].snap
             /\ task'[u].behind <=> Translating(task[u])
  <2> DEFINE q == task[u]
             b == q.pc \in {"rows", "remember"}
             r == [q EXCEPT !.behind = b]
  <2>1. q \in TaskType /\ RefreshOK(q) /\ b \in BOOLEAN
    BY DEF RefreshInv
  <2>2. task'[u] = r
    BY <1>1, <1>2
  <2>3. b <=> Translating(q)
    BY DEF Translating
  <2> HIDE DEF b
  <2>4. r \in TaskType /\ r.pc = q.pc /\ r.snap = q.snap /\ r.todo = q.todo /\ r.build = q.build
        /\ r.row = q.row /\ r.behind = b
    BY <2>1 DEF TaskType
  <2> HIDE DEF r
  <2>5. BuildOK(r) <=> BuildOK(q)
    BY <2>4 DEF BuildOK
  <2>6. Translating(r) <=> Translating(q)
    BY <2>4 DEF Translating
  <2>7. RefreshOK(r)
    BY <2>1, <2>3, <2>4, <2>5, <2>6 DEF RefreshOK
  <2> QED
    BY <2>2, <2>3, <2>4, <2>7
<1>3. task'[t] = Rest(t)
  BY <1>1
<1>4. \A u \in Threads : task'[u] \in TaskType /\ RefreshOK(task'[u])
  BY <1>2, <1>3, IdleFine
<1>5. task' \in [Threads -> TaskType] /\ RefreshInv'
  <2>1. task' = [u \in Threads |-> task'[u]]
    BY <1>1
  <2> QED
    BY <1>4, <2>1 DEF RefreshInv
<1> QED
  BY <1>2, <1>3, <1>5

\* What a thread does, by what becomes of its refresh.
ThreadStep(t) ==
    Enter(t) \/ Query(t) \/ QueryFails(t) \/ Translate(t)
LoopStep == Tick \/ Look \/ Again \/ \E k \in Keys : Ask(k)
SystemStep ==
    \/ \E k \in Keys : OpenSocket(k) \/ CloseSocket(k)
    \/ \E p \in Pids : ReusePid(p) \/ Expire(p) \/ Sibling(p)
    \/ Settle \/ WindowPasses

LEMMA Steps == ASSUME Next PROVE SystemStep \/ LoopStep \/ \E t \in Threads : ThreadStep(t)
BY DEF Next, SystemStep, LoopStep, ThreadStep

LEMMA SystemTasks == ASSUME SystemStep PROVE task' = task /\ table' = table /\ entry' = entry /\ op' = op
BY DEF SystemStep, OpenSocket, CloseSocket, Owns, ReusePid, Expire, Sibling, Settle, WindowPasses,
       system, names, gate

\* A step on a row, by either of the two ways.
LEMMA RowStep ==
    ASSUME TypeOK, RefreshInv, NEW t \in Threads,
           (\E k \in Keys : Recall(t, k) \/ Resolve(t, k)) \/ Remember(t)
    PROVE  /\ task' \in [Threads -> TaskType] /\ RefreshInv'
           /\ Translating(task'[t]) /\ task'[t].behind = task[t].behind /\ task'[t].snap = task[t].snap
           /\ \A u \in Threads : u # t => task'[u] = task[u]
<1> DEFINE G == /\ task' \in [Threads -> TaskType] /\ RefreshInv'
                /\ Translating(task'[t]) /\ task'[t].behind = task[t].behind /\ task'[t].snap = task[t].snap
                /\ \A u \in Threads : u # t => task'[u] = task[u]
<1>1. task \in [Threads -> TaskType]
  BY DEF TypeOK, TaskType
<1>4. ASSUME NEW k \in Keys, Recall(t, k) PROVE G
  <2> DEFINE p == task[t].snap[k]
             name == IF p = Zero THEN Blank ELSE cache[p]
  <2>1. k \in task[t].todo /\ Translating(task[t]) /\ Known(p) /\ Translated(t, k, name)
    BY <1>4 DEF Recall, Translating
  <2>2. name \in Names
    BY <1>1, <2>1 DEF Known, Names, TypeOK, RefreshInv, RefreshOK, TaskType
  <2> HIDE DEF name
  <2> QED
    BY <1>1, <2>1, <2>2, Translating1
<1>5. ASSUME NEW k \in Keys, Resolve(t, k) PROVE G
  BY <1>1, <1>5, Resolving
<1>6. CASE Remember(t)
  <2>1. task[t].row \in task[t].todo /\ Translating(task[t]) /\ Translated(t, task[t].row, task[t].name)
    BY <1>6 DEF Remember, RefreshInv, RefreshOK, Translating
  <2>2. task[t].name \in Names
    BY <1>1 DEF TaskType
  <2> QED
    BY <1>1, <2>1, <2>2, Translating1
<1> QED
  BY <1>4, <1>5, <1>6

LEMMA RefreshStep ==
    ASSUME TypeOK, RefreshInv, [Next]_vars
    PROVE  task' \in [Threads -> TaskType] /\ RefreshInv'
<1>1. task \in [Threads -> TaskType] /\ owner \in [Keys -> Owners]
  BY DEF TypeOK, TaskType, Owners
<1>2. CASE task' = task
  BY <1>1, <1>2 DEF RefreshInv
<1>3. CASE LoopStep
  <2>1. "loop" \in Threads /\ "refresher" \in Threads
    BY DEF Threads
  <2>2. CASE Tick
    BY <1>1, <2>1, <2>2, Places DEF Tick
  <2>3. CASE \E k \in Keys : Ask(k)
    BY <1>1, <2>1, <2>3, Places DEF Ask
  <2>4. CASE Again
    BY <1>1, <2>1, <2>4, Places DEF Again
  <2>5. CASE Look
    <3>1. Goes("loop", "look", "idle") \/ Goes("loop", "look", "gate")
      BY <2>5 DEF Look, Goes
    <3> QED
      BY <1>1, <2>1, <3>1, Places
  <2> QED
    BY <1>3, <2>2, <2>3, <2>4, <2>5 DEF LoopStep
<1>4. ASSUME NEW t \in Threads, ThreadStep(t) PROVE task' \in [Threads -> TaskType] /\ RefreshInv'
  <2>1. CASE Pass(t)
    BY <1>1, <2>1, Places DEF Pass
  <2>2. CASE Skip(t) \/ QueryFails(t)
    BY <1>1, <2>2, Resting DEF Skip, QueryFails
  <2>3. CASE Query(t)
    BY <1>1, <2>3, Querying
  <2>4. CASE (\E k \in Keys : Recall(t, k) \/ Resolve(t, k)) \/ Remember(t)
    BY <2>4, RowStep
  <2>7. CASE Commit(t)
    BY <1>1, <2>7, Committing
  <2> QED
    BY <1>4, <2>1, <2>2, <2>3, <2>4, <2>7 DEF ThreadStep, Enter, Translate
<1> QED
  BY <1>2, <1>3, <1>4, Steps, SystemTasks DEF vars

-----------------------------------------------------------------------------
(* The types of everything else.                                           *)

\* The rest of TypeOK: the system, the map, the names, the gate, the lookup.
SystemTypes ==
    /\ table \in Tables /\ settled \in BOOLEAN
    /\ owner \in [Keys -> Owners] /\ program \in [Pids -> Names]
MapTypes ==
    /\ entry \in [Keys -> Entries \cup {Nobody}]
    /\ IPv6 => \A k \in Keys : entry[k] # Nobody => entry[k].name # Blank
CacheTypes == cache \in [Pids -> Names \cup {Uncached}] /\ old \subseteq Pids
GateTypes == op \in Threads \cup {NoThread} /\ recent \in BOOLEAN

LEMMA TypesAre ==
    TypeOK <=> /\ SystemTypes /\ MapTypes /\ CacheTypes /\ GateTypes
               /\ task \in [Threads -> TaskType] /\ ask \in AskType
BY DEF TypeOK, SystemTypes, MapTypes, CacheTypes, GateTypes, TaskType, AskType, Owners

LEMMA NoBuildTypes == NoBuild \in [Keys -> Entries \cup {Nobody}] /\ \A k \in Keys : NoBuild[k] = Nobody
BY DEF NoBuild

\* What is translated may be put in the map.
LEMMA KeptTypes ==
    ASSUME NEW build \in [Keys -> Entries \cup {Nobody}]
    PROVE  /\ Kept(build) \in [Keys -> Entries \cup {Nobody}]
           /\ \A k \in Keys : Kept(build)[k] = IF IPv6 /\ k \in Nameless(build) THEN Nobody ELSE build[k]
           /\ IPv6 => \A k \in Keys : Kept(build)[k] # Nobody => Kept(build)[k].name # Blank
BY DEF Kept, Nameless

LEMMA SystemTypesStep == ASSUME TypeOK, [Next]_vars PROVE SystemTypes'
<1>0. SystemTypes
  BY TypesAre
<1>1. CASE UNCHANGED system
  BY <1>0, <1>1 DEF system, SystemTypes
<1>2. ASSUME NEW k \in Keys, NEW p \in Owners, Owns(k, p) PROVE SystemTypes'
  BY <1>0, <1>2 DEF Owns, SystemTypes
<1>3. CASE \E k \in Keys : OpenSocket(k) \/ CloseSocket(k)
  BY <1>2, <1>3 DEF OpenSocket, CloseSocket, Owners
<1>4. ASSUME NEW p \in Pids, ReusePid(p) PROVE SystemTypes'
  BY <1>0, <1>4 DEF ReusePid, SystemTypes
<1>5. CASE Settle
  BY <1>0, <1>5 DEF Settle, SystemTypes
<1>6. CASE (\E p \in Pids : Expire(p) \/ Sibling(p)) \/ WindowPasses
  BY <1>1, <1>6 DEF Expire, Sibling, WindowPasses
<1>7. CASE LoopStep
  BY <1>1, <1>7 DEF LoopStep, Tick, Look, Again, Ask
<1>8. CASE \E t \in Threads : ThreadStep(t)
  BY <1>1, <1>8 DEF ThreadStep, Enter, Pass, Skip, Query, QueryFails, Translate, Recall, Resolve, Remember, Commit
<1>9. CASE UNCHANGED vars
  BY <1>1, <1>9 DEF vars
<1> QED
  BY <1>3, <1>4, <1>5, <1>6, <1>7, <1>8, <1>9, Steps DEF SystemStep

LEMMA TableStays == ASSUME [Next]_vars PROVE table' = table /\ (IPv6' <=> IPv6)
<1>1. table' = table
  <2>1. CASE SystemStep
    BY <2>1, SystemTasks
  <2>2. CASE LoopStep
    BY <2>2 DEF LoopStep, Tick, Look, Again, Ask, system
  <2>3. CASE \E t \in Threads : ThreadStep(t)
    BY <2>3 DEF ThreadStep, Enter, Pass, Skip, Query, QueryFails, Translate, Recall, Resolve, Remember, Commit, system
  <2>4. CASE UNCHANGED vars
    BY <2>4 DEF vars, system
  <2> QED
    BY <2>1, <2>2, <2>3, <2>4, Steps
<1> QED
  BY <1>1 DEF IPv6

LEMMA MapTypesStep == ASSUME TypeOK, [Next]_vars PROVE MapTypes'
<1>0. MapTypes /\ (IPv6' <=> IPv6) /\ task \in [Threads -> TaskType]
  BY TableStays, TypesAre
<1>1. CASE UNCHANGED entry
  BY <1>0, <1>1 DEF MapTypes
<1>2. ASSUME NEW t \in Threads, QueryFails(t) PROVE MapTypes'
  <2>1. entry' = entry \/ entry' = NoBuild
    BY <1>2 DEF QueryFails
  <2> QED
    BY <1>0, <1>1, <2>1, NoBuildTypes DEF MapTypes
<1>3. ASSUME NEW t \in Threads, Commit(t) PROVE MapTypes'
  <2>1. entry' = Kept(task[t].build)
    BY <1>3 DEF Commit
  <2>2. task[t].build \in [Keys -> Entries \cup {Nobody}]
    BY <1>0 DEF TaskType
  <2> QED
    BY <1>0, <2>1, <2>2, KeptTypes DEF MapTypes
<1>4. CASE SystemStep
  BY <1>1, <1>4, SystemTasks
<1>5. CASE LoopStep
  BY <1>1, <1>5 DEF LoopStep, Tick, Look, Again, Ask
<1>6. ASSUME NEW t \in Threads, Enter(t) \/ Query(t) \/ Remember(t)
                                  \/ \E k \in Keys : Recall(t, k) \/ Resolve(t, k)
      PROVE  MapTypes'
  BY <1>1, <1>6 DEF Enter, Pass, Skip, Query, Recall, Resolve, Remember
<1>7. CASE UNCHANGED vars
  BY <1>1, <1>7 DEF vars
<1> QED
  BY <1>2, <1>3, <1>4, <1>5, <1>6, <1>7, Steps DEF ThreadStep, Translate

LEMMA CacheTypesStep == ASSUME TypeOK, RefreshInv, [Next]_vars PROVE CacheTypes'
<1>0. CacheTypes /\ SystemTypes /\ task \in [Threads -> TaskType]
  BY TypesAre
<1>1. CASE UNCHANGED names
  BY <1>0, <1>1 DEF names, CacheTypes
<1>2. ASSUME NEW p \in Pids, Expire(p) \/ Sibling(p) PROVE CacheTypes'
  BY <1>0, <1>2 DEF Expire, Sibling, CacheTypes, SystemTypes
<1>3. ASSUME NEW t \in Threads, Query(t) PROVE CacheTypes'
  BY <1>0, <1>3 DEF Query, CacheTypes
<1>4. ASSUME NEW t \in Threads, Remember(t) PROVE CacheTypes'
  <2>1. task[t] \in TaskType /\ task[t].row \in task[t].todo /\ task[t].snap[task[t].row] \in Pids
    BY <1>0, <1>4 DEF Remember, RefreshInv, RefreshOK
  <2>2. task[t].name \in Names
    BY <2>1 DEF TaskType
  <2> QED
    BY <1>0, <1>4, <2>1, <2>2 DEF Remember, CacheTypes
<1>5. ASSUME NEW t \in Threads, Commit(t) PROVE CacheTypes'
  <2>1. PICK seen : /\ cache' = [p \in Pids |-> IF table = "tcp4" /\ p \notin seen THEN Uncached ELSE cache[p]]
                    /\ old' = IF table = "tcp4" THEN old \cap seen ELSE old
    BY <1>5 DEF Commit
  <2> QED
    BY <1>0, <2>1 DEF CacheTypes
<1>6. CASE (\E k \in Keys : OpenSocket(k) \/ CloseSocket(k)) \/ (\E p \in Pids : ReusePid(p))
           \/ Settle \/ WindowPasses \/ LoopStep
  BY <1>1, <1>6 DEF OpenSocket, CloseSocket, Owns, ReusePid, Settle, WindowPasses, LoopStep, Tick, Look, Again, Ask
<1>7. ASSUME NEW t \in Threads, Enter(t) \/ QueryFails(t) \/ \E k \in Keys : Recall(t, k) \/ Resolve(t, k)
      PROVE  CacheTypes'
  BY <1>1, <1>7 DEF Enter, Pass, Skip, QueryFails, Recall, Resolve
<1>8. CASE UNCHANGED vars
  BY <1>1, <1>8 DEF vars
<1> QED
  BY <1>2, <1>3, <1>4, <1>5, <1>6, <1>7, <1>8, Steps DEF SystemStep, ThreadStep, Translate

LEMMA GateTypesStep == ASSUME TypeOK, [Next]_vars PROVE GateTypes'
<1>0. GateTypes
  BY TypesAre
<1>1. CASE UNCHANGED gate
  BY <1>0, <1>1 DEF gate, GateTypes
<1>2. CASE WindowPasses
  BY <1>0, <1>2 DEF WindowPasses, GateTypes
<1>3. ASSUME NEW t \in Threads, Pass(t) \/ QueryFails(t) PROVE GateTypes'
  BY <1>0, <1>3 DEF Pass, QueryFails, GateTypes
<1>4. ASSUME NEW t \in Threads, Commit(t) PROVE GateTypes'
  <2>1. recent' \in BOOLEAN
    <3>1. recent' = IPv6 /\ IPv6 \in BOOLEAN
      BY <1>4 DEF Commit, IPv6
    <3> QED
      BY <3>1
  <2> QED
    BY <1>0, <1>4, <2>1 DEF Commit, GateTypes
<1>5. CASE (\E k \in Keys : OpenSocket(k) \/ CloseSocket(k))
           \/ (\E p \in Pids : ReusePid(p) \/ Expire(p) \/ Sibling(p)) \/ Settle \/ LoopStep
  BY <1>1, <1>5 DEF OpenSocket, CloseSocket, Owns, ReusePid, Expire, Sibling, Settle, LoopStep, Tick, Look, Again, Ask
<1>6. ASSUME NEW t \in Threads, Skip(t) \/ Query(t) \/ Remember(t) \/ \E k \in Keys : Recall(t, k) \/ Resolve(t, k)
      PROVE  GateTypes'
  BY <1>1, <1>6 DEF Skip, Query, Recall, Resolve, Remember
<1>7. CASE UNCHANGED vars
  BY <1>1, <1>7 DEF vars
<1> QED
  BY <1>2, <1>3, <1>4, <1>5, <1>6, <1>7, Steps DEF SystemStep, ThreadStep, Enter, Translate

LEMMA AskTypesStep == ASSUME TypeOK, [Next]_vars PROVE ask' \in AskType
<1>0. ask \in AskType /\ task \in [Threads -> TaskType]
  BY TypesAre
<1>1. CASE UNCHANGED ask
  BY <1>0, <1>1
<1>2. NoAsk \in AskType
  BY DEF NoAsk, AskType
<1>3. CASE \E k \in Keys : OpenSocket(k) \/ CloseSocket(k)
  <2>1. PICK k \in Keys : ask' = [ask EXCEPT !.steady = @ /\ ask.key # k]
    BY <1>3 DEF OpenSocket, CloseSocket, Owns
  <2>2. (ask.steady /\ ask.key # k) \in BOOLEAN
    OBVIOUS
  <2> QED
    BY <1>0, <2>1, <2>2 DEF AskType
<1>4. CASE LoopStep
  <2>1. CASE \E k \in Keys : Ask(k)
    BY <1>2, <2>1 DEF Ask, AskType
  <2> QED
    BY <1>0, <1>2, <1>4, <2>1 DEF LoopStep, Tick, Look, Again
<1>5. ASSUME NEW t \in Threads, Skip(t) PROVE ask' \in AskType
  BY <1>0, <1>5 DEF Skip, Ends, AskType
<1>6. ASSUME NEW t \in Threads, QueryFails(t) PROVE ask' \in AskType
  <2>1. Ends(t, "done") \/ Ends(t, "failed")
    BY <1>6 DEF QueryFails
  <2> QED
    BY <1>0, <2>1 DEF Ends, AskType
<1>7. ASSUME NEW t \in Threads, Commit(t) PROVE ask' \in AskType
  <2> DEFINE lost == t # "loop" /\ task[t].behind
             blank == ask.blank \/ ask.key \in Nameless(task[t].build)
             how == IF t = "loop" THEN "done" ELSE ask.refresh
  <2>1. ask' = [ask EXCEPT !.refresh = how, !.lost = lost, !.blank = blank]
    BY <1>7 DEF Commit
  <2>2. lost \in BOOLEAN /\ blank \in BOOLEAN
    OBVIOUS
  <2>3. how \in {"none", "done", "skipped", "failed"}
    BY <1>0 DEF AskType
  <2> HIDE DEF lost, blank, how
  <2> QED
    BY <1>0, <2>1, <2>2, <2>3 DEF AskType
<1>8. CASE (\E p \in Pids : ReusePid(p) \/ Expire(p) \/ Sibling(p)) \/ Settle \/ WindowPasses
  BY <1>1, <1>8 DEF ReusePid, Expire, Sibling, Settle, WindowPasses
<1>9. ASSUME NEW t \in Threads, Pass(t) \/ Query(t) \/ Remember(t) \/ \E k \in Keys : Recall(t, k) \/ Resolve(t, k)
      PROVE  ask' \in AskType
  BY <1>1, <1>9 DEF Pass, Query, Recall, Resolve, Remember
<1>10. CASE UNCHANGED vars
  BY <1>1, <1>10 DEF vars
<1> QED
  BY <1>3, <1>4, <1>5, <1>6, <1>7, <1>8, <1>9, <1>10, Steps DEF SystemStep, ThreadStep, Enter, Translate

LEMMA TypesStep == ASSUME TypeOK, RefreshInv, [Next]_vars PROVE TypeOK' /\ RefreshInv'
<1>1. /\ SystemTypes' /\ MapTypes' /\ CacheTypes' /\ GateTypes'
      /\ task' \in [Threads -> TaskType] /\ ask' \in AskType /\ RefreshInv'
  BY SystemTypesStep, MapTypesStep, CacheTypesStep, GateTypesStep, RefreshStep, AskTypesStep
<1> QED
  BY <1>1 DEF TypeOK, SystemTypes, MapTypes, CacheTypes, GateTypes, TaskType, AskType, Owners

-----------------------------------------------------------------------------
(* The gate.                                                               *)

Inside(r) == r.pc \in {"query", "rows", "remember"}

\* A thread goes on inside, or leaves with the lock.
LEMMA GateKept ==
    ASSUME GateSerializes, IPv6' <=> IPv6, op' = op,
           \A t \in Threads : Inside(task'[t]) => Inside(task[t]) /\ (task'[t].behind => task[t].behind)
    PROVE  GateSerializes'
BY DEF GateSerializes, Inside

LEMMA GateStep ==
    ASSUME TypeOK, RefreshInv, GateSerializes, [Next]_vars
    PROVE  GateSerializes'
<1>0. (IPv6' <=> IPv6) /\ task \in [Threads -> TaskType] /\ owner \in [Keys -> Owners]
  BY TableStays, TypesAre DEF SystemTypes
<1>1. CASE task' = task /\ op' = op
  BY <1>0, <1>1, GateKept
<1>2. CASE LoopStep
  <2>1. op' = op /\ \E t \in Threads : \E from, to \in {"idle", "look", "gate", "again"} : Goes(t, from, to)
    BY <1>2 DEF LoopStep, Tick, Look, Again, Ask, Goes, gate, Threads
  <2>2. PICK t \in Threads : \E from, to \in {"idle", "look", "gate", "again"} : Goes(t, from, to)
    BY <2>1
  <2>3. ~Inside(task'[t]) /\ \A u \in Threads : u # t => task'[u] = task[u]
    BY <1>0, <2>2, Places DEF Inside
  <2> QED
    BY <1>0, <2>1, <2>3, GateKept
<1>3. ASSUME NEW t \in Threads, Pass(t) PROVE GateSerializes'
  <2>1. task'[t].pc = "query" /\ ~task'[t].behind /\ \A u \in Threads : u # t => task'[u] = task[u]
    BY <1>0, <1>3, Places DEF Pass
  <2>2. ASSUME IPv6 PROVE op = NoThread /\ op' = t
    BY <1>3, <2>2 DEF Pass
  <2>3. ASSUME IPv6, NEW u \in Threads, Inside(task'[u]) PROVE op' = u /\ ~task'[u].behind
    BY <2>1, <2>2, <2>3, ResolverAssumption DEF GateSerializes, Inside
  <2> QED
    BY <1>0, <2>3 DEF GateSerializes, Inside
<1>4. ASSUME NEW t \in Threads, Skip(t) PROVE GateSerializes'
  <2>1. ~Inside(task'[t]) /\ (\A u \in Threads : u # t => task'[u] = task[u]) /\ op' = op
    BY <1>0, <1>4, IdleFine DEF Skip, Inside, gate
  <2> QED
    BY <1>0, <2>1, GateKept
<1>5. ASSUME NEW t \in Threads, QueryFails(t) PROVE GateSerializes'
  <2>1. ~Inside(task'[t]) /\ (\A u \in Threads : u # t => task'[u] = task[u])
        /\ Inside(task[t]) /\ op' = (IF op = t THEN NoThread ELSE op)
    BY <1>0, <1>5, IdleFine DEF QueryFails, Inside
  <2>2. GateSerializes' \/ ~IPv6
    BY <1>0, <2>1 DEF GateSerializes, Inside
  <2> QED
    BY <1>0, <2>2 DEF GateSerializes
<1>6. ASSUME NEW t \in Threads, Query(t) PROVE GateSerializes'
  <2>1. op' = op /\ Inside(task[t]) /\ ~task'[t].behind /\ (\A u \in Threads : u # t => task'[u] = task[u])
    BY <1>0, <1>6, Querying DEF Query, Inside, gate
  <2> QED
    BY <1>0, <2>1, GateKept
<1>7. ASSUME NEW t \in Threads, Translating(task[t]), op' = op, task'[t].behind = task[t].behind,
             \A u \in Threads : u # t => task'[u] = task[u]
      PROVE  GateSerializes'
  <2>1. Inside(task[t])
    BY <1>7 DEF Translating, Inside
  <2> QED
    BY <1>0, <1>7, <2>1, GateKept
<1>8. ASSUME NEW t \in Threads, (\E k \in Keys : Recall(t, k) \/ Resolve(t, k)) \/ Remember(t)
      PROVE  GateSerializes'
  <2>1. Translating(task[t]) /\ op' = op
    BY <1>8 DEF Recall, Resolve, Remember, Translating, gate
  <2>2. task'[t].behind = task[t].behind /\ \A u \in Threads : u # t => task'[u] = task[u]
    BY <1>8, <1>0, RowStep
  <2> QED
    BY <1>7, <2>1, <2>2
<1>9. ASSUME NEW t \in Threads, Commit(t) PROVE GateSerializes'
  <2>1. ~Inside(task'[t]) /\ Inside(task[t]) /\ (\A u \in Threads : u # t => task'[u].pc = task[u].pc)
        /\ op' = (IF op = t THEN NoThread ELSE op)
    BY <1>0, <1>9, Committing, IdleFine DEF Commit, Inside
  <2>2. ASSUME IPv6, NEW u \in Threads, u # t, Inside(task[u]) PROVE FALSE
    BY <2>1, <2>2 DEF GateSerializes, Inside
  <2> QED
    BY <1>0, <2>1, <2>2 DEF GateSerializes, Inside
<1>10. CASE SystemStep \/ UNCHANGED vars
  BY <1>1, <1>10, SystemTasks DEF vars, gate
<1> QED
  BY <1>2, <1>3, <1>4, <1>5, <1>6, <1>8, <1>9, <1>10, Steps DEF ThreadStep, Enter, Translate

-----------------------------------------------------------------------------
(* The lookup.                                                             *)

\* Nothing is promised once the socket has changed.
LEMMA Unsteady == ASSUME ~ask'.steady PROVE AskInv'
BY DEF AskInv, Answered

\* Steps that do not touch the lookup, and bring a thread no other rows than
\* those it has or those that there are.
LEMMA AskKept ==
    ASSUME AskInv, IPv6' <=> IPv6, owner' = owner, entry' = entry, ask' = ask,
           task'["loop"].pc = "again" => task["loop"].pc = "again",
           Translating(task'["loop"]) =>
              \/ Translating(task["loop"]) /\ task'["loop"].snap = task["loop"].snap
              \/ task'["loop"].snap = owner,
           Translating(task'["refresher"]) =>
              \/ /\ Translating(task["refresher"])
                 /\ task'["refresher"].snap = task["refresher"].snap
                 /\ task["refresher"].behind => task'["refresher"].behind
              \/ task'["refresher"].snap = owner
    PROVE  AskInv'
<1>1. Answered' => Answered
  BY DEF Answered
<1>2. Found => Found'
  BY DEF Found
<1> QED
  BY <1>1, <1>2 DEF AskInv

\* The socket of the lookup changes, or that of another.
LEMMA AskOwns ==
    ASSUME AskInv, ask \in AskType, owner \in [Keys -> Owners], NEW k \in Keys, NEW p, Owns(k, p)
    PROVE  AskInv'
<1>1. task' = task /\ entry' = entry /\ table' = table /\ owner' = [owner EXCEPT ![k] = p]
      /\ ask' = [ask EXCEPT !.steady = @ /\ ask.key # k]
  BY DEF Owns
<1>2. CASE ask.key = k \/ ~ask.steady
  <2>1. ~ask'.steady
    BY <1>1, <1>2 DEF AskType
  <2> QED
    BY <2>1, Unsteady
<1>3. CASE ask.key # k /\ ask.steady
  <2>1. ask'.key = ask.key /\ ask'.steady /\ ask'.refresh = ask.refresh /\ ask'.lost = ask.lost
        /\ ask'.blank = ask.blank
    BY <1>1, <1>3 DEF AskType
  <2>2. ask.key \in Keys /\ owner'[ask.key] = owner[ask.key]
    BY <1>1, <1>3 DEF AskInv
  <2>3. Answered' <=> Answered
    BY <1>1, <1>3, <2>1 DEF Answered
  <2>4. Found => Found'
    BY <1>1, <2>1, <2>2 DEF Found, IPv6
  <2> QED
    BY <1>1, <1>3, <2>1, <2>2, <2>3, <2>4 DEF AskInv
<1> QED
  BY <1>2, <1>3

\* The map is replaced by the loop's own refresh.
LEMMA AskCommit ==
    ASSUME TypeOK, RefreshInv, AskInv, Commit("loop")
    PROVE  AskInv'
<1> DEFINE q == task["loop"]
           build == q.build
<1>1. "loop" \in Threads /\ "refresher" \in Threads /\ task \in [Threads -> TaskType] /\ ask \in AskType
  BY TypesAre DEF Threads
<1>2. q \in TaskType /\ q.pc = "rows" /\ q.todo = {} /\ RefreshOK(q)
  BY <1>1 DEF Commit, RefreshInv
<1>3. BuildOK(q) /\ build \in [Keys -> Entries \cup {Nobody}]
  BY <1>2 DEF RefreshOK, Translating, TaskType
<1>4. entry' = Kept(build) /\ owner' = owner /\ table' = table
      /\ ask'.key = ask.key /\ ask'.steady = ask.steady
      /\ (ask'.blank <=> ask.blank \/ ask.key \in Nameless(build))
  BY <1>1 DEF Commit, system, AskType
<1>5. SUFFICES ASSUME ask.steady PROVE AskInv'
  BY <1>4, Unsteady
<1>6. ask.key \in Keys /\ owner[ask.key] \in Pids /\ q.snap[ask.key] = owner[ask.key]
  BY <1>2, <1>5 DEF AskInv, Translating
<1>7. build[ask.key] # Nobody /\ build[ask.key].pid = owner[ask.key]
  BY <1>2, <1>3, <1>6, ResolverAssumption DEF BuildOK
<1>8. Kept(build)[ask.key] = IF IPv6 /\ ask.key \in Nameless(build) THEN Nobody ELSE build[ask.key]
  BY <1>3, <1>6, KeptTypes
<1>9. Found'
  BY <1>4, <1>6, <1>7, <1>8 DEF Found, IPv6
<1>10. task'["loop"].pc = "again"
  BY <1>1, Committing, IdleFine
<1>11. Translating(task'["refresher"]) => task'["refresher"].behind
  BY <1>1, Committing DEF Translating
<1> QED
  BY <1>4, <1>6, <1>9, <1>10, <1>11 DEF AskInv, Translating

\* The map is replaced by the refresher's.
LEMMA AskOverwritten ==
    ASSUME TypeOK, RefreshInv, GateSerializes, AskInv, Commit("refresher")
    PROVE  AskInv'
<1> DEFINE q == task["refresher"]
           build == q.build
<1>1. "loop" \in Threads /\ "refresher" \in Threads /\ "loop" # "refresher"
      /\ task \in [Threads -> TaskType] /\ ask \in AskType
  BY TypesAre DEF Threads
<1>2. q \in TaskType /\ q.pc = "rows" /\ q.todo = {} /\ RefreshOK(q)
  BY <1>1 DEF Commit, RefreshInv
<1>3. BuildOK(q) /\ build \in [Keys -> Entries \cup {Nobody}]
  BY <1>2 DEF RefreshOK, Translating, TaskType
<1>4. entry' = Kept(build) /\ owner' = owner /\ table' = table
      /\ ask'.key = ask.key /\ ask'.steady = ask.steady /\ ask'.refresh = ask.refresh
      /\ (ask'.lost <=> q.behind)
      /\ (ask'.blank <=> ask.blank \/ ask.key \in Nameless(build))
  BY <1>1 DEF Commit, system, AskType
<1>5. SUFFICES ASSUME ask.steady PROVE AskInv'
  BY <1>4, Unsteady
<1>6. ask.key \in Keys /\ owner[ask.key] \in Pids
  BY <1>5 DEF AskInv
<1>7. task'["loop"].pc = task["loop"].pc /\ task'["loop"].snap = task["loop"].snap
      /\ ~Translating(task'["refresher"])
  BY <1>1, Committing, IdleFine DEF Translating
<1>8. ASSUME Answered PROVE Found'
  <2>1. CASE q.behind
    <3>1. ~IPv6
      BY <1>1, <1>2, <2>1 DEF GateSerializes
    <3> QED
      BY <1>4, <2>1, <3>1 DEF Found, IPv6
  <2>2. CASE ~q.behind
    <3>1. q.snap[ask.key] = owner[ask.key]
      BY <1>2, <1>8, <2>2 DEF AskInv, Translating
    <3>2. build[ask.key] # Nobody /\ build[ask.key].pid = owner[ask.key]
      BY <1>2, <1>3, <1>6, <3>1, ResolverAssumption DEF BuildOK
    <3>3. Kept(build)[ask.key] = IF IPv6 /\ ask.key \in Nameless(build) THEN Nobody ELSE build[ask.key]
      BY <1>3, <1>6, KeptTypes
    <3> QED
      BY <1>4, <1>6, <3>2, <3>3 DEF Found, IPv6
  <2> QED
    BY <2>1, <2>2
<1>9. Answered' <=> Answered
  BY <1>4, <1>7 DEF Answered
<1> QED
  BY <1>4, <1>5, <1>6, <1>7, <1>8, <1>9 DEF AskInv, Translating

LEMMA AskStep ==
    ASSUME TypeOK, RefreshInv, GateSerializes, AskInv, [Next]_vars
    PROVE  AskInv'
<1>0. /\ IPv6' <=> IPv6
      /\ task \in [Threads -> TaskType] /\ owner \in [Keys -> Owners] /\ ask \in AskType
      /\ Threads = {"loop", "refresher"} /\ "loop" # "refresher"
  BY TableStays, TypesAre DEF SystemTypes, Threads
<1>1. CASE UNCHANGED <<owner, entry, ask, task>>
  BY <1>0, <1>1, AskKept
<1>2. CASE UNCHANGED vars \/ (\E p \in Pids : ReusePid(p) \/ Expire(p) \/ Sibling(p)) \/ Settle \/ WindowPasses
  BY <1>1, <1>2 DEF vars, system, ReusePid, Expire, Sibling, Settle, WindowPasses
<1>3. CASE \E k \in Keys : OpenSocket(k) \/ CloseSocket(k)
  BY <1>0, <1>3, AskOwns DEF OpenSocket, CloseSocket
<1>4. CASE LoopStep
  <2>1. CASE Tick
    <3>1. UNCHANGED <<owner, entry, ask>> /\ task'["refresher"].pc = "gate" /\ task'["loop"] = task["loop"]
      BY <1>0, <2>1, Places DEF Tick, system
    <3> QED
      BY <1>0, <3>1, AskKept DEF Translating
  <2>2. ASSUME NEW k \in Keys, Ask(k) PROVE AskInv'
    <3>1. owner' = owner /\ owner[k] \in Pids /\ ask'.key = k /\ task'["loop"].pc = "look"
      BY <1>0, <2>2, Places DEF Ask, NoAsk, system
    <3> QED
      BY <3>1 DEF AskInv, Answered, Translating
  <2>3. CASE Look \/ Again
    <3>1. CASE ask' = NoAsk
      BY <3>1, Unsteady DEF NoAsk
    <3>2. CASE ask' # NoAsk
      <4>1. Look /\ UNCHANGED <<owner, entry, ask>> /\ Goes("loop", "look", "gate")
        BY <2>3, <3>2 DEF Look, Again, Goes, system
      <4>2. task'["loop"].pc = "gate" /\ task'["refresher"] = task["refresher"]
        BY <1>0, <4>1, Places
      <4> QED
        BY <1>0, <4>1, <4>2, AskKept DEF Translating
    <3> QED
      BY <3>1, <3>2
  <2> QED
    BY <1>4, <2>1, <2>2, <2>3 DEF LoopStep
<1>5. ASSUME NEW t \in Threads, Pass(t) PROVE AskInv'
  <2>1. UNCHANGED <<owner, entry, ask>> /\ task'[t].pc = "query" /\ \A u \in Threads : u # t => task'[u] = task[u]
    BY <1>0, <1>5, Places DEF Pass, system
  <2> QED
    BY <1>0, <2>1, AskKept DEF Translating
<1>6. ASSUME NEW t \in Threads, Skip(t) PROVE AskInv'
  <2>1. UNCHANGED <<owner, entry>> /\ task'[t].pc = (IF t = "loop" THEN "again" ELSE "idle")
        /\ \A u \in Threads : u # t => task'[u] = task[u]
    BY <1>0, <1>6, IdleFine DEF Skip, system
  <2>2. CASE t = "loop"
    <3>1. ask'.key = ask.key /\ ask'.steady = ask.steady /\ ask'.refresh = "skipped"
      BY <1>0, <1>6, <2>2 DEF Skip, Ends, AskType
    <3> QED
      BY <2>1, <2>2, <3>1 DEF AskInv, Answered, Translating
  <2>3. CASE t = "refresher"
    <3>1. ask' = ask
      BY <1>0, <1>6, <2>3 DEF Skip, Ends
    <3> QED
      BY <1>0, <2>1, <2>3, <3>1, AskKept DEF Translating
  <2> QED
    BY <1>0, <2>2, <2>3
<1>7. ASSUME NEW t \in Threads, Query(t) PROVE AskInv'
  <2>1. UNCHANGED <<owner, entry, ask>> /\ task'[t].pc = "rows" /\ task'[t].snap = owner
        /\ \A u \in Threads : u # t => task'[u] = task[u]
    BY <1>0, <1>7, Querying DEF Query, system
  <2> QED
    BY <1>0, <2>1, AskKept DEF Translating
<1>8. ASSUME NEW t \in Threads, QueryFails(t) PROVE AskInv'
  <2>1. owner' = owner /\ task'[t].pc = (IF t = "loop" THEN "again" ELSE "idle")
        /\ \A u \in Threads : u # t => task'[u] = task[u]
    BY <1>0, <1>8, IdleFine DEF QueryFails, system
  <2>2. PICK nil \in BOOLEAN : /\ nil => Rows = {}
                               /\ entry' = IF nil /\ ~IPv6 THEN NoBuild ELSE entry
                               /\ Ends(t, IF nil /\ ~IPv6 THEN "done" ELSE "failed")
    BY <1>8 DEF QueryFails
  <2>3. ask'.steady = ask.steady /\ ask'.key = ask.key
    BY <1>0, <2>2 DEF Ends, AskType
  <2>4. CASE nil
    <3>1. ~ask.steady
      BY <2>2, <2>4, ResolverAssumption DEF AskInv, Rows
    <3> QED
      BY <2>3, <3>1, Unsteady
  <2>5. CASE ~nil /\ t = "loop"
    <3>1. entry' = entry /\ ask'.refresh = "failed"
      BY <1>0, <2>2, <2>5 DEF Ends, AskType
    <3> QED
      BY <2>1, <2>3, <2>5, <3>1 DEF AskInv, Answered, Translating
  <2>6. CASE ~nil /\ t = "refresher"
    <3>1. entry' = entry /\ ask' = ask
      BY <1>0, <2>2, <2>6 DEF Ends
    <3> QED
      BY <1>0, <2>1, <2>6, <3>1, AskKept DEF Translating
  <2> QED
    BY <1>0, <2>4, <2>5, <2>6
<1>9. ASSUME NEW t \in Threads, (\E k \in Keys : Recall(t, k) \/ Resolve(t, k)) \/ Remember(t)
      PROVE  AskInv'
  <2>1. UNCHANGED <<owner, entry, ask>> /\ Translating(task[t])
    BY <1>9 DEF Recall, Resolve, Remember, Translating, system
  <2>2. Translating(task'[t]) /\ task'[t].behind = task[t].behind /\ task'[t].snap = task[t].snap
        /\ \A u \in Threads : u # t => task'[u] = task[u]
    BY <1>9, RowStep
  <2> QED
    BY <1>0, <2>1, <2>2, AskKept DEF Translating
<1>10. ASSUME NEW t \in Threads, Commit(t) PROVE AskInv'
  BY <1>0, <1>10, AskCommit, AskOverwritten
<1> QED
  BY <1>2, <1>3, <1>4, <1>5, <1>6, <1>7, <1>8, <1>9, <1>10, Steps
  DEF SystemStep, ThreadStep, Enter, Translate

-----------------------------------------------------------------------------
(* The theorems.                                                           *)

LEMMA InitInv == Init => IInv
<1> SUFFICES ASSUME Init PROVE IInv
  OBVIOUS
<1>1. task \in [Threads -> TaskType] /\ RefreshInv
  BY IdleFine DEF Init, RefreshInv
<1>2. SystemTypes /\ GateTypes /\ CacheTypes
  BY DEF Init, SystemTypes, GateTypes, CacheTypes, Owners
<1>3. MapTypes
  BY NoBuildTypes DEF Init, MapTypes
<1>4. ask \in AskType /\ ~ask.steady
  BY DEF Init, NoAsk, AskType
<1>5. GateSerializes
  BY DEF Init, GateSerializes, Idle
<1>6. AskInv
  BY <1>4 DEF AskInv, Answered
<1> QED
  BY <1>1, <1>2, <1>3, <1>4, <1>5, <1>6, TypesAre DEF IInv

(* The inductive invariant: types, the state of each refresh, the gate and *)
(* the lookup.                                                             *)
THEOREM ResolverInvariant == Spec => []IInv
<1>1. IInv /\ [Next]_vars => IInv'
  BY TypesStep, GateStep, AskStep DEF IInv
<1> QED
  BY <1>1, InitInv, PTL DEF Spec

(* Every variable keeps its type; no entry of an IPv6 map is nameless.     *)
THEOREM ResolverTypes == Spec => []TypeOK
<1>1. IInv => TypeOK
  BY DEF IInv
<1> QED
  BY <1>1, ResolverInvariant, PTL

(* One IPv6 refresh at a time: no older table is ever committed over a     *)
(* newer one.                                                              *)
THEOREM OneRefreshAtATime == Spec => []GateSerializes
<1>1. IInv => GateSerializes
  BY DEF IInv
<1> QED
  BY <1>1, ResolverInvariant, PTL

(* A forced refresh finds the socket that asked, however many sockets and  *)
(* processes come and go meanwhile.                                        *)
THEOREM ForcedRefreshFinds == Spec => []MissIsResolved
<1>1. IInv => MissIsResolved
  BY DEF IInv, AskInv, Answered, Found, MissIsResolved
<1> QED
  BY <1>1, ResolverInvariant, PTL

=============================================================================
