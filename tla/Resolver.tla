------------------------------ MODULE Resolver ------------------------------
(***************************************************************************)
(* internal/process: from the local end of a packet to the program that    *)
(* sent it, by way of the system's socket table and a cache of names.      *)
(*                                                                         *)
(* Each of the four tables (TCP and UDP, IPv4 and IPv6) is read into a map *)
(* by two goroutines: the packet loop, when a packet's socket is not in    *)
(* the map, and refreshLoop, once a second.  The tables do not share maps; *)
(* a behaviour is about one of them.  The IPv6 maps have a gate that lets  *)
(* one refresh in at a time, and none within 200 ms of the last.           *)
(***************************************************************************)
EXTENDS Naturals

CONSTANTS
    Keys,        \* what a table and its map are looked up by
    Pids,        \* process identifiers, which the system uses again
    Programs,    \* names of programs
    Blank,       \* "", for a process whose name cannot be had
    Zero,        \* pid 0: a connection that no process owns any more
    Nobody,      \* no row, or no entry
    Uncached,    \* no name in the cache
    NoThread

Threads == {"loop", "refresher"}
Tables == {"tcp4", "udp4", "tcp6", "udp6"}
Names == Programs \cup {Blank}
Entries == [pid : Pids \cup {Zero}, name : Names]

ASSUME ResolverAssumption ==
    /\ Zero \notin Pids /\ Nobody \notin Pids \cup {Zero}
    /\ Blank \notin Programs /\ Uncached \notin Names
    /\ Nobody \notin Entries
    /\ NoThread \notin Threads

VARIABLES
    table,      \* the table this behaviour is about
    owner,      \* key -> the pid in the system's table, or Nobody
    program,    \* pid -> the name of its program, if it can be had
    settled,    \* the system has stopped changing
    entry,      \* key -> r.flows, r.udpFlows or r.m
    cache,      \* pid -> name in the cache of names
    old,        \* cached names that are past pidNameCacheTTL
    op,         \* the holder of the gate's lock
    recent,     \* the last refresh is less than ipv6RefreshMinInterval ago
    task,       \* thread -> its refresh
    ask         \* the packet loop's lookup

system == <<table, owner, program, settled>>
names == <<cache, old>>
gate == <<op, recent>>
vars == <<system, entry, names, gate, task, ask>>

IPv6 == table \in {"tcp6", "udp6"}

(***************************************************************************)
(* A refresh.  snap: the rows it was given; todo: those not yet translated *)
(* and build: the translation; row, name: the row whose name was asked of  *)
(* the system; behind (history): another refresh was committed meanwhile.  *)
(***************************************************************************)
NoBuild == [k \in Keys |-> Nobody]
Idle == [pc |-> "idle", snap |-> NoBuild, todo |-> {}, build |-> NoBuild,
         row |-> Nobody, name |-> Blank, behind |-> FALSE]

(***************************************************************************)
(* A lookup.  steady: its socket is what it was at the first look; then    *)
(* how the forced refresh ended: done, not made, or failed; lost           *)
(* (history): an older refresh was committed over it; blank: a refresh     *)
(* found the socket, and no name for it.                                   *)
(***************************************************************************)
NoAsk == [key |-> Nobody, steady |-> FALSE, refresh |-> "none", lost |-> FALSE, blank |-> FALSE]

TypeOK ==
    /\ table \in Tables
    /\ owner \in [Keys -> Pids \cup {Zero, Nobody}]
    /\ program \in [Pids -> Names]
    /\ settled \in BOOLEAN
    /\ entry \in [Keys -> Entries \cup {Nobody}]
    /\ IPv6 => \A k \in Keys : entry[k] # Nobody => entry[k].name # Blank
    /\ cache \in [Pids -> Names \cup {Uncached}] /\ old \subseteq Pids
    /\ op \in Threads \cup {NoThread} /\ recent \in BOOLEAN
    /\ task \in [Threads -> [pc : {"idle", "look", "gate", "query", "rows", "remember", "again"},
                             snap : [Keys -> Pids \cup {Zero, Nobody}], todo : SUBSET Keys,
                             build : [Keys -> Entries \cup {Nobody}],
                             row : Keys \cup {Nobody}, name : Names, behind : BOOLEAN]]
    /\ ask \in [key : Keys \cup {Nobody}, steady : BOOLEAN,
                refresh : {"none", "done", "skipped", "failed"}, lost : BOOLEAN, blank : BOOLEAN]

Init ==
    /\ table \in Tables
    /\ owner \in [Keys -> Pids \cup {Nobody}]
    /\ program \in [Pids -> Names]
    /\ settled = FALSE
    /\ entry = NoBuild
    /\ cache = [p \in Pids |-> Uncached] /\ old = {}
    /\ op = NoThread /\ recent = FALSE
    /\ task = [t \in Threads |-> Idle]
    /\ ask = NoAsk

-----------------------------------------------------------------------------
(* The system, and time.                                                   *)

Owns(k, p) ==
    /\ owner' = [owner EXCEPT ![k] = p]
    /\ ask' = [ask EXCEPT !.steady = @ /\ ask.key # k]
    /\ UNCHANGED <<table, program, settled, entry, names, gate, task>>

OpenSocket(k) == ~settled /\ owner[k] = Nobody /\ \E p \in Pids : Owns(k, p)

\* A TCP connection lingers, without its process.
CloseSocket(k) ==
    /\ ~settled /\ owner[k] # Nobody
    /\ \/ Owns(k, Nobody)
       \/ owner[k] \in Pids /\ table \in {"tcp4", "tcp6"} /\ Owns(k, Zero)

\* The process is gone and its pid is given to another one.
ReusePid(p) ==
    /\ ~settled
    /\ \A k \in Keys : owner[k] # p
    /\ \E name \in Names \ {program[p]} : program' = [program EXCEPT ![p] = name]
    /\ UNCHANGED <<table, owner, settled, entry, names, gate, task, ask>>

Settle ==
    /\ ~settled /\ settled' = TRUE
    /\ UNCHANGED <<table, owner, program, entry, names, gate, task, ask>>

Expire(p) ==
    /\ cache[p] # Uncached /\ p \notin old
    /\ old' = old \cup {p}
    /\ UNCHANGED <<system, entry, cache, gate, task, ask>>

WindowPasses ==
    /\ recent /\ recent' = FALSE
    /\ UNCHANGED <<system, entry, names, op, task, ask>>

-----------------------------------------------------------------------------
(* A refresh, by either thread.                                            *)

Goes(t, from, to) == task[t].pc = from /\ task' = [task EXCEPT ![t].pc = to]

\* The thread after its refresh: the loop looks again.
Rest(t) == [Idle EXCEPT !.pc = IF t = "loop" THEN "again" ELSE "idle"]

Ends(t, how) == ask' = IF t = "loop" THEN [ask EXCEPT !.refresh = how] ELSE ask

\* MISTAKE: the time of the last refresh is compared without the lock.
PassUnlocked(t) ==
    /\ ~(IPv6 /\ recent)
    /\ Goes(t, "gate", "query")
    /\ UNCHANGED <<system, entry, names, gate, ask>>

\* refreshGate.run, up to work(); the IPv4 tables have no gate.
Pass(t) ==
    /\ IPv6 => op = NoThread /\ ~recent
    /\ Goes(t, "gate", "query")
    /\ op' = IF IPv6 THEN t ELSE op
    /\ UNCHANGED <<system, entry, names, recent, ask>>

Skip(t) ==
    /\ IPv6 /\ op = NoThread /\ recent
    /\ task[t].pc = "gate"
    /\ task' = [task EXCEPT ![t] = Rest(t)]
    /\ Ends(t, "skipped")
    /\ UNCHANGED <<system, entry, names, gate>>

Rows == {k \in Keys : owner[k] # Nobody}

\* queryWinTable succeeds.  The IPv6 refreshes sweep the cache of names.
Query(t) ==
    /\ task[t].pc = "query"
    /\ task' = [task EXCEPT ![t] = [Idle EXCEPT !.pc = "rows", !.snap = owner, !.todo = Rows]]
    /\ cache' = [p \in Pids |-> IF IPv6 /\ p \in old THEN Uncached ELSE cache[p]]
    /\ old' = IF IPv6 THEN {} ELSE old
    /\ UNCHANGED <<system, entry, gate, ask>>

\* An error, or no buffer at all for an empty table.  The window stays open.
QueryFails(t) ==
    /\ task[t].pc = "query"
    /\ \E nil \in BOOLEAN :
          /\ nil => Rows = {}
          /\ entry' = IF nil /\ ~IPv6 THEN NoBuild ELSE entry
          /\ Ends(t, IF nil /\ ~IPv6 THEN "done" ELSE "failed")
    /\ task' = [task EXCEPT ![t] = Rest(t)]
    /\ op' = IF op = t THEN NoThread ELSE op
    /\ UNCHANGED <<system, names, recent>>

\* The names are shared with the sibling table, TCP with UDP: its refresh
\* finds p's name, forgets a process without TCP rows, or sweeps.
Sibling(p) ==
    /\ \/ /\ cache[p] = Uncached \/ p \in old
          /\ cache' = [cache EXCEPT ![p] = program[p]]
       \/ /\ cache[p] # Uncached
          /\ table = "udp4" \/ (IPv6 /\ p \in old)
          /\ cache' = [cache EXCEPT ![p] = Uncached]
    /\ old' = old \ {p}
    /\ UNCHANGED <<system, entry, gate, task, ask>>

Translated(t, k, name) ==
    LET r == task[t]
        entryOf == [pid |-> r.snap[k], name |-> name]
    IN  task' = [task EXCEPT ![t] =
            [r EXCEPT !.pc = "rows", !.todo = r.todo \ {k}, !.row = Nobody, !.name = Blank,
                      !.build = [r.build EXCEPT ![k] = entryOf]]]

\* MISTAKE: a cached name is good for ever.
KnownForEver(p) == p # Zero => cache[p] # Uncached

Known(p) == p # Zero => cache[p] # Uncached /\ p \notin old

\* cachedProcessName, pidNameCache.get: a name from the cache, none for pid 0.
Recall(t, k) ==
    /\ task[t].pc = "rows" /\ k \in task[t].todo
    /\ LET p == task[t].snap[k] IN Known(p) /\ Translated(t, k, IF p = Zero THEN Blank ELSE cache[p])
    /\ UNCHANGED <<system, entry, names, gate, ask>>

\* processName, without any lock.
Resolve(t, k) ==
    /\ task[t].pc = "rows" /\ k \in task[t].todo
    /\ LET p == task[t].snap[k] IN
       /\ ~Known(p)
       /\ task' = [task EXCEPT ![t] = [@ EXCEPT !.pc = "remember", !.row = k, !.name = program[p]]]
    /\ UNCHANGED <<system, entry, names, gate, ask>>

Remember(t) ==
    /\ task[t].pc = "remember"
    /\ LET p == task[t].snap[task[t].row] IN
       /\ cache' = [cache EXCEPT ![p] = task[t].name]
       /\ old' = old \ {p}
    /\ Translated(t, task[t].row, task[t].name)
    /\ UNCHANGED <<system, entry, gate, ask>>

Nameless(build) == {k \in Keys : build[k] # Nobody /\ build[k].name = Blank}

\* MISTAKE: rows without a name are entries of the IPv6 maps.
KeptNameless(build) == build

\* Rows without a name are left out of the IPv6 maps.
Kept(build) == [k \in Keys |-> IF IPv6 /\ k \in Nameless(build) THEN Nobody ELSE build[k]]

\* The map is replaced; the IPv4 TCP refresh forgets the names of processes
\* it has not seen.
Commit(t) ==
    /\ task[t].pc = "rows" /\ task[t].todo = {}
    /\ LET build == task[t].build
           seen == {task[t].snap[k] : k \in Keys}
       IN  /\ entry' = Kept(build)
           /\ cache' = [p \in Pids |-> IF table = "tcp4" /\ p \notin seen THEN Uncached ELSE cache[p]]
           /\ old' = IF table = "tcp4" THEN old \cap seen ELSE old
           /\ ask' = [ask EXCEPT !.refresh = IF t = "loop" THEN "done" ELSE @,
                                 !.lost = t # "loop" /\ task[t].behind,
                                 !.blank = @ \/ ask.key \in Nameless(build)]
    /\ task' = [u \in Threads |->
          IF u = t THEN Rest(t)
          ELSE [task[u] EXCEPT !.behind = task[u].pc \in {"rows", "remember"}]]
    /\ recent' = IPv6
    /\ op' = IF op = t THEN NoThread ELSE op
    /\ UNCHANGED system

-----------------------------------------------------------------------------
(* Who refreshes.                                                          *)

Tick ==
    /\ Goes("refresher", "idle", "gate")
    /\ UNCHANGED <<system, entry, names, gate, ask>>

\* The first packet of a socket comes by: LookupWithRefresh and its kin.
Ask(k) ==
    /\ owner[k] \in Pids
    /\ Goes("loop", "idle", "look")
    /\ ask' = [NoAsk EXCEPT !.key = k, !.steady = TRUE]
    /\ UNCHANGED <<system, entry, names, gate>>

\* MISTAKE: after a miss the refresh is left to refreshLoop.
LookOnly ==
    /\ task["loop"].pc = "look"
    /\ task' = [task EXCEPT !["loop"].pc = IF entry[ask.key] # Nobody THEN "idle" ELSE "again"]
    /\ ask' = IF entry[ask.key] # Nobody THEN NoAsk ELSE [ask EXCEPT !.refresh = "done"]
    /\ UNCHANGED <<system, entry, names, gate>>

\* A hit answers at once; a miss forces a refresh.
Look ==
    /\ task["loop"].pc = "look"
    /\ task' = [task EXCEPT !["loop"].pc = IF entry[ask.key] # Nobody THEN "idle" ELSE "gate"]
    /\ ask' = IF entry[ask.key] # Nobody THEN NoAsk ELSE ask
    /\ UNCHANGED <<system, entry, names, gate>>

\* The last look answers, with an entry or with none.
Again ==
    /\ Goes("loop", "again", "idle")
    /\ ask' = NoAsk
    /\ UNCHANGED <<system, entry, names, gate>>

-----------------------------------------------------------------------------
Translate(t) ==
    \/ \E k \in Keys : Recall(t, k) \/ Resolve(t, k)
    \/ Remember(t) \/ Commit(t)
Enter(t) == Pass(t) \/ Skip(t)

Next ==
    \/ \E k \in Keys : OpenSocket(k) \/ CloseSocket(k) \/ Ask(k)
    \/ \E p \in Pids : ReusePid(p) \/ Expire(p) \/ Sibling(p)
    \/ Settle \/ WindowPasses \/ Tick \/ Look \/ Again
    \/ \E t \in Threads : Enter(t) \/ Query(t) \/ QueryFails(t) \/ Translate(t)

Spec == Init /\ [][Next]_vars

(***************************************************************************)
(* The ticker ticks and time passes; goroutines run on, and sync.Mutex     *)
(* starves nobody; a query that is tried again and again succeeds.         *)
(***************************************************************************)
FairSpec ==
    /\ Spec
    /\ WF_vars(Tick) /\ WF_vars(WindowPasses) /\ WF_vars(Look \/ Again)
    /\ \A p \in Pids : WF_vars(Expire(p))
    /\ \A t \in Threads : SF_vars(Enter(t)) /\ SF_vars(Query(t)) /\ WF_vars(Translate(t))

-----------------------------------------------------------------------------
(***************************************************************************)
(* Properties                                                              *)
(***************************************************************************)

(* The IPv6 maps never go back: no refresh is under way beside another, so *)
(* none is committed over a newer one, and the gate's lock is held by the  *)
(* thread that refreshes and by no other.                                  *)
GateSerializes ==
    IPv6 => \A t \in Threads :
        task[t].pc \in {"query", "rows", "remember"} => op = t /\ ~task[t].behind

(* The answer after a forced refresh knows the socket that asked, with its *)
(* process: a socket is there before its first packet is.  What excuses    *)
(* the resolver is a failed query, the gate's window and, for IPv4, an     *)
(* older refresh of the other goroutine that was committed just now.       *)
MissIsResolved ==
    task["loop"].pc = "again" /\ ask.steady /\ ask.refresh = "done" /\ (IPv6 \/ ~ask.lost)
        => \/ entry[ask.key] # Nobody /\ entry[ask.key].pid = owner[ask.key]
           \/ IPv6 /\ ask.blank

Right(k) ==
    LET truth == [pid |-> owner[k],
                  name |-> IF owner[k] \in Pids THEN program[owner[k]] ELSE Blank]
    IN  entry[k] = IF owner[k] = Nobody \/ (IPv6 /\ truth.name = Blank) THEN Nobody ELSE truth

(* What is wrong in a map does not stay: once the system rests, each entry *)
(* comes to name the program that has the socket, although names are       *)
(* cached, pids are used again and refreshes overtake each other.          *)
ComesRight == settled ~> [](\A k \in Keys : Right(k))

=============================================================================
