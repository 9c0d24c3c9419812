----------------------------- MODULE Settings -----------------------------
(***************************************************************************)
(* The settings page's side of GoPass: the request handlers of             *)
(* internal/api/api.go, the engine methods they call (engine.go), the file *)
(* they save to (config/config.go) and the start that reads it back        *)
(* (cmd/gopass/main.go).                                                   *)
(*                                                                         *)
(* Handlers run concurrently.  Each changes the configuration under cfgMu, *)
(* hands its change to the running system without a lock, and saves the    *)
(* whole configuration under cfgMu's read lock and saveMu.  The process    *)
(* may die between any two steps; the two files are all that is left.      *)
(* The order of the whitelist and the case of its names are left out.      *)
(***************************************************************************)
EXTENDS Upstream

CONSTANTS
    Names,        \* process names
    Buffers,      \* relay buffer sizes, after ClampBufferSize
    Default,      \* config.DefaultConfig()
    Workers,      \* goroutines of the API server
    NoWorker,
    Changes,      \* the requests a page may send
    Missing,      \* no file
    Unreadable    \* a file that is not valid JSON

Configs == [whitelist : SUBSET Names, upstream : Proxies, buffer : Buffers]
Files == Configs \cup {Missing, Unreadable}

Ops == {"add", "delete", "upstream", "buffer"}
AllChanges ==
    [op : {"add", "delete"}, arg : Names] \cup [op : {"upstream"}, arg : Proxies]
        \cup [op : {"buffer"}, arg : Buffers]

ASSUME SettingsAssumption ==
    /\ Default \in Configs
    /\ Changes \subseteq AllChanges
    /\ NoWorker \notin Workers
    /\ Missing \notin Configs \cup {Unreadable} /\ Unreadable \notin Configs

VARIABLES
    phase,      \* the process: down, starting up, or serving
    cfg,        \* Engine.cfg
    writer,     \* the holder of cfgMu, or NoWorker
    readers,    \* the holders of cfgMu's read lock
    saver,      \* the holder of saveMu, or NoWorker
    data,       \* what the last save has marshalled
    live,       \* what the running parts use: whitelist, buffer size, exempted proxy
    file,       \* config.json
    backup,     \* config.json.corrupt
    req,        \* worker -> its request
    promised,   \* history: names whose addition was answered, saved, and not undone
    insync      \* history: the last save succeeded

locks == <<writer, readers, saver>>
disk == <<file, backup>>
history == <<promised, insync>>
settingsVars == <<phase, cfg, locks, data, live, disk, req, history>>
vars == <<settingsVars, upstreamVars>>

(***************************************************************************)
(* A request.  op, arg: what is asked; doing: the operation of the engine  *)
(* call it is in; clean: the whitelist its last call left; kept (history): *)
(* it is an addition, saved so far, of a name that nobody deletes.         *)
(***************************************************************************)
Request(c) ==
    [pc |-> "lock", op |-> c.op, arg |-> c.arg, clean |-> {}, kept |-> c.op = "add",
     doing |-> IF c.op = "delete" THEN "add" ELSE c.op]

NoRequest == [Request([op |-> "add", arg |-> NoWorker]) EXCEPT !.pc = "idle", !.kept = FALSE]

SettingsTypeOK ==
    /\ phase \in {"down", "aside", "seed", "start", "up"}
    /\ cfg \in Configs /\ data \in Configs
    /\ writer \in Workers \cup {NoWorker}
    /\ readers \subseteq Workers
    /\ saver \in Workers \cup {NoWorker}
    /\ live \in [whitelist : SUBSET Names, buffer : Buffers, exempt : Proxies]
    /\ file \in Files /\ backup \in Files
    /\ req \in [Workers -> [pc : {"idle", "lock", "unlock", "apply", "exempt", "rlock",
                                  "marshal", "write", "reply"},
                            op : Ops, arg : Names \cup Proxies \cup Buffers \cup {NoWorker},
                            doing : Ops, clean : SUBSET Names, kept : BOOLEAN]]
    /\ promised \subseteq Names
    /\ insync \in BOOLEAN

TypeOK == UpstreamTypeOK /\ SettingsTypeOK

LiveFrom(c) == [whitelist |-> c.whitelist, buffer |-> c.buffer, exempt |-> c.upstream]

Init ==
    /\ phase = "down"
    /\ cfg = Default /\ data = Default /\ live = LiveFrom(Default)
    /\ writer = NoWorker /\ readers = {} /\ saver = NoWorker
    /\ file \in Files
    /\ backup = Missing
    /\ req = [w \in Workers |-> NoRequest]
    /\ promised = {}
    /\ insync = FALSE
    /\ UpstreamInit(Default.upstream)

-----------------------------------------------------------------------------
(* The start of the process (main), and its end.                           *)

\* MISTAKE: the error of config.Load is ignored.
LoadUnchecked ==
    /\ phase = "down"
    /\ file # Missing
    /\ cfg' = file /\ phase' = "start"
    /\ insync' = TRUE
    /\ UNCHANGED <<locks, data, live, disk, req, promised, upstreamVars>>

Load ==
    /\ phase = "down"
    /\ \/ file \in Configs /\ cfg' = file /\ phase' = "start"
       \/ file = Missing /\ cfg' = Default /\ phase' = "seed"
       \/ file = Unreadable /\ cfg' = Default /\ phase' = "aside"
    /\ insync' = (file \in Configs)
    /\ UNCHANGED <<locks, data, live, disk, req, promised, upstreamVars>>

\* An unreadable file is renamed, so that the defaults do not overwrite it.
SetAside ==
    /\ phase = "aside"
    /\ \/ backup' = file /\ file' = Missing /\ phase' = "seed"
       \/ UNCHANGED disk /\ phase' = "start"
    /\ UNCHANGED <<cfg, locks, data, live, req, history, upstreamVars>>

Seed ==
    /\ phase = "seed"
    /\ \/ file' = cfg /\ insync' = TRUE
       \/ UNCHANGED <<file, insync>>
    /\ phase' = "start"
    /\ UNCHANGED <<cfg, locks, data, live, backup, req, promised, upstreamVars>>

\* Engine.Start hands the configuration to the TProxy and the interceptor.
StartEngine ==
    /\ phase = "start"
    /\ phase' = "up"
    /\ live' = LiveFrom(cfg)
    /\ Update(cfg.upstream)
    /\ UNCHANGED <<cfg, locks, data, disk, req, history>>

\* The process is killed, or stops with requests in flight.
Crash ==
    /\ phase # "down"
    /\ phase' = "down"
    /\ cfg' = Default /\ data' = Default /\ live' = LiveFrom(Default)
    /\ writer' = NoWorker /\ readers' = {} /\ saver' = NoWorker
    /\ req' = [w \in Workers |-> NoRequest]
    /\ call' = [d \in Dialers |-> NoCall]
    /\ current' = Default.upstream /\ cached' = NoProxy /\ cachedKey' = NoProxy
    /\ insync' = FALSE
    /\ UNCHANGED <<disk, promised>>

-----------------------------------------------------------------------------
(* A request: from the handler to the engine, and to the running parts.    *)

\* The request of w moves on, and stands otherwise as r.
Goes(w, from, to, r) ==
    /\ req[w].pc = from
    /\ req' = [req EXCEPT ![w] = [r EXCEPT !.pc = to]]
    /\ UNCHANGED phase

Deletes(w, n) == req[w].pc # "idle" /\ req[w].op = "delete" /\ req[w].arg = n

\* handleProcessWhitelist calls AddProcess for POST and DELETE alike.
Receive(w, c) ==
    /\ phase = "up"
    /\ req[w].pc = "idle"
    /\ req' = [v \in Workers |->
          IF v = w
          THEN [Request(c) EXCEPT !.kept = @ /\ \A x \in Workers : ~Deletes(x, c.arg)]
          ELSE [req[v] EXCEPT !.kept = @ /\ ~(c.op = "delete" /\ req[v].arg = c.arg)]]
    /\ promised' = IF c.op = "delete" THEN promised \ {c.arg} ELSE promised
    /\ UNCHANGED <<phase, cfg, locks, data, live, disk, insync, upstreamVars>>

Edited(c, op, arg) ==
    CASE op = "add" -> [c EXCEPT !.whitelist = @ \cup {arg}]
      [] op = "delete" -> [c EXCEPT !.whitelist = @ \ {arg}]
      [] op = "upstream" -> [c EXCEPT !.upstream = arg]
      [] op = "buffer" -> [c EXCEPT !.buffer = arg]

\* MISTAKE: RemoveProcess edits the list that AddProcess returned.
ChangeFromCopy(w) ==
    /\ writer = NoWorker /\ readers = {}
    /\ writer' = w
    /\ LET r == req[w] IN
       /\ cfg' = Edited(IF r.doing = "delete" THEN [cfg EXCEPT !.whitelist = r.clean] ELSE cfg,
                        r.doing, r.arg)
       /\ Goes(w, "lock", "unlock", [r EXCEPT !.clean = cfg'.whitelist])
    /\ UNCHANGED <<readers, saver, data, live, disk, history, upstreamVars>>

\* mutateWhitelist, UpdateUpstream, UpdatePerformance: read, modify and write
\* under cfgMu.
Change(w) ==
    /\ writer = NoWorker /\ readers = {}
    /\ writer' = w
    /\ cfg' = Edited(cfg, req[w].doing, req[w].arg)
    /\ Goes(w, "lock", "unlock", [req[w] EXCEPT !.clean = cfg'.whitelist])
    /\ UNCHANGED <<readers, saver, data, live, disk, history, upstreamVars>>

\* MISTAKE: cfgMu is kept until the handler returns.
UnlockForgotten(w) ==
    /\ Goes(w, "unlock", "apply", req[w])
    /\ UNCHANGED <<cfg, locks, data, live, disk, history, upstreamVars>>

Unlock(w) ==
    /\ Goes(w, "unlock", "apply", req[w])
    /\ writer' = NoWorker
    /\ UNCHANGED <<cfg, readers, saver, data, live, disk, history, upstreamVars>>

\* Interceptor.SetWhitelist or TProxy.UpdatePerformance.
Apply(w) ==
    /\ req[w].doing # "upstream"
    /\ Goes(w, "apply", "rlock", req[w])
    /\ live' = IF req[w].doing = "buffer" THEN [live EXCEPT !.buffer = req[w].arg]
               ELSE [live EXCEPT !.whitelist = req[w].clean]
    /\ UNCHANGED <<cfg, locks, data, disk, history, upstreamVars>>

\* UpdateUpstream: first the TProxy's dialer, then the interceptor's exemption.
Redirect(w) ==
    /\ req[w].doing = "upstream"
    /\ Goes(w, "apply", "exempt", req[w])
    /\ Update(req[w].arg)
    /\ UNCHANGED <<cfg, locks, data, live, disk, history>>

ApplyExempt(w) ==
    /\ Goes(w, "exempt", "rlock", req[w])
    /\ live' = [live EXCEPT !.exempt = req[w].arg]
    /\ UNCHANGED <<cfg, locks, data, disk, history, upstreamVars>>

-----------------------------------------------------------------------------
(* SaveConfig, and the answer.                                             *)

ReadLock(w) ==
    /\ Goes(w, "rlock", "marshal", req[w])
    /\ writer = NoWorker
    /\ readers' = readers \cup {w}
    /\ UNCHANGED <<cfg, writer, saver, data, live, disk, history, upstreamVars>>

\* MISTAKE: the configuration is written over config.json itself.
MarshalInPlace(w) ==
    /\ Goes(w, "marshal", "write", req[w])
    /\ saver = NoWorker
    /\ saver' = w
    /\ data' = cfg
    /\ file' = Unreadable
    /\ UNCHANGED <<cfg, writer, readers, live, backup, history, upstreamVars>>

\* MISTAKE: a request saves the whitelist that its own change left.
MarshalOwnList(w) ==
    /\ Goes(w, "marshal", "write", req[w])
    /\ saver = NoWorker
    /\ saver' = w
    /\ data' = [cfg EXCEPT !.whitelist = req[w].clean]
    /\ UNCHANGED <<cfg, writer, readers, live, disk, history, upstreamVars>>

\* Save takes saveMu and marshals the configuration.
Marshal(w) ==
    /\ Goes(w, "marshal", "write", req[w])
    /\ saver = NoWorker
    /\ saver' = w
    /\ data' = cfg
    /\ UNCHANGED <<cfg, writer, readers, live, disk, history, upstreamVars>>

\* Save returns and both locks are released.  A DELETE goes on to RemoveProcess.
SaveEnds(w, ok) ==
    /\ LET r == [req[w] EXCEPT !.kept = @ /\ ok] IN
       IF r.op = "delete" /\ r.doing = "add"
       THEN Goes(w, "write", "lock", [r EXCEPT !.doing = "delete"])
       ELSE Goes(w, "write", "reply", r)
    /\ saver' = NoWorker
    /\ readers' = readers \ {w}
    /\ insync' = ok
    /\ UNCHANGED <<cfg, writer, data, live, backup, promised, upstreamVars>>

\* The temporary file is written and renamed to config.json.
Written(w) == SaveEnds(w, TRUE) /\ file' = data

\* Any step of it fails: the temporary file is removed.
WriteFails(w) == SaveEnds(w, FALSE) /\ UNCHANGED file

\* A failed save is reported by handlePerformance only; the others answer "ok".
Reply(w) ==
    /\ Goes(w, "reply", "idle", NoRequest)
    /\ promised' = IF req[w].kept THEN promised \cup {req[w].arg} ELSE promised
    /\ UNCHANGED <<cfg, locks, data, live, disk, insync, upstreamVars>>

-----------------------------------------------------------------------------
Boot == Load \/ SetAside \/ Seed \/ StartEngine

Handle(w) ==
    \/ Change(w) \/ Unlock(w) \/ Apply(w) \/ Redirect(w) \/ ApplyExempt(w)
    \/ ReadLock(w) \/ Marshal(w) \/ Written(w) \/ WriteFails(w) \/ Reply(w)

Next ==
    \/ Boot \/ Crash
    \/ \E w \in Workers : Handle(w) \/ \E c \in Changes : Receive(w, c)

Spec == Init /\ [][Next]_vars

(***************************************************************************)
(* A handler that waits for nobody runs on, and Go's locks starve nobody:  *)
(* a pending Lock holds back new readers, and a mutex goes to its longest  *)
(* waiter.  No request need ever come.                                     *)
(***************************************************************************)
Fairness == \A w \in Workers : SF_vars(Handle(w))

FairSpec == Spec /\ Fairness

-----------------------------------------------------------------------------
(***************************************************************************)
(* Properties                                                              *)
(***************************************************************************)

(* An addition that was answered after a save that succeeded is in the     *)
(* file until somebody deletes the name, whatever other requests, failed   *)
(* saves, deaths and restarts come after it.                               *)
AckedIsDurable ==
    promised # {} => file \in Configs /\ promised \subseteq file.whitelist

(* With no change under way and the last save not failed, the file says    *)
(* what the engine does: no save ever puts an older configuration over a   *)
(* newer one.                                                              *)
SavedIsCurrent ==
    phase = "up" /\ insync /\ (\A w \in Workers : req[w].pc \in {"idle", "lock", "reply"})
        => file = cfg

(* Once whole, config.json is whole at every moment, so also at the moment *)
(* the process dies.                                                       *)
FileStaysWhole == [][(file \in Configs) => (file' \in Configs)]_vars

(* Every request is answered, or dies with the process: the lock order     *)
(* cfgMu before saveMu leaves no cycle, and a handler that saves holds no  *)
(* write lock of its own.                                                  *)
RequestsAnswered == \A w \in Workers : []<>(req[w].pc = "idle")

-----------------------------------------------------------------------------
(* What the sources say of the settings and the handlers do not do.        *)

(* CHANGELOG.md: a change updates the file and the running whitelist.      *)
RunningWhitelistFollows ==
    phase = "up" /\ (\A w \in Workers : req[w].pc = "idle") => live.whitelist = cfg.whitelist

(* engine.go: deleting a name that is not listed leaves the list as it is. *)
DeleteNeverAdds ==
    [][\A w \in Workers : (req[w].op = "delete" /\ req[w].pc = "lock" /\ req'[w].pc = "unlock")
            => (cfg'.whitelist \subseteq cfg.whitelist)]_vars

=============================================================================
