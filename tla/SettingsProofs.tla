--------------------------- MODULE SettingsProofs ---------------------------
(***************************************************************************)
(* What engine.go, api.go, config.go and main.go keep true for any number  *)
(* of requests at a time, names, upstreams and buffer sizes: the file is   *)
(* whole, it is never behind, and what was promised is in it.              *)
(***************************************************************************)
EXTENDS Settings, TLAPS

ReqType ==
    [pc : {"idle", "lock", "unlock", "apply", "exempt", "rlock", "marshal", "write", "reply"},
     op : Ops, arg : Names \cup Proxies \cup Buffers \cup {NoWorker},
     doing : Ops, clean : SUBSET Names, kept : BOOLEAN]

(***************************************************************************)
(* One request: its argument fits its operation, a DELETE begins as an     *)
(* addition, and only an addition can make a promise.                      *)
(***************************************************************************)
ReqOK(r) ==
    /\ r.pc # "idle" =>
          /\ r.op \in {"add", "delete"} => r.arg \in Names
          /\ r.op = "upstream" => r.arg \in Proxies
          /\ r.op = "buffer" => r.arg \in Buffers
    /\ r.doing = r.op \/ (r.op = "delete" /\ r.doing = "add")
    /\ r.pc = "exempt" => r.op = "upstream"
    /\ r.kept => r.op = "add" /\ r.pc # "idle"

(***************************************************************************)
(* The locks: who holds which follows from where the requests are, and a   *)
(* reader keeps writers out.                                               *)
(***************************************************************************)
Reading(w) == req[w].pc \in {"marshal", "write"}

LockInv ==
    /\ \A w \in Workers : /\ req[w].pc = "unlock" <=> writer = w
                          /\ Reading(w) <=> w \in readers
                          /\ req[w].pc = "write" <=> saver = w
    /\ readers # {} => writer = NoWorker
    /\ phase # "up" => \A w \in Workers : req[w].pc = "idle"

(***************************************************************************)
(* The file: what is written is the configuration as it is, since nobody   *)
(* can change it meanwhile; and if the last save succeeded but the file is *)
(* not current, some request is still going to save.                       *)
(***************************************************************************)
OnItsWay(w) == req[w].pc \in {"unlock", "apply", "exempt", "rlock", "marshal", "write"}

FileInv ==
    /\ \A w \in Workers : req[w].pc = "write" => data = cfg
    /\ insync => file = cfg \/ \E w \in Workers : OnItsWay(w)
    /\ phase = "aside" => file = Unreadable

(***************************************************************************)
(* The promises: they are in the file and in the configuration, and nobody *)
(* is deleting them; nor what an addition is still going to promise, which *)
(* is in the configuration once it is made and in the file once it is      *)
(* saved.                                                                  *)
(***************************************************************************)
InFile(n) == file \in Configs /\ n \in file.whitelist

PromiseInv ==
    /\ \A n \in promised : InFile(n)
    /\ phase # "down" => \A n \in promised : n \in cfg.whitelist
    /\ \A w \in Workers, n \in promised : ~Deletes(w, n)
    /\ \A w \in Workers : req[w].kept =>
          /\ \A x \in Workers : ~Deletes(x, req[w].arg)
          /\ req[w].pc # "lock" => req[w].arg \in cfg.whitelist
          /\ req[w].pc = "reply" => InFile(req[w].arg)

ReqInv == \A w \in Workers : ReqOK(req[w])

IInv == TypeOK /\ ReqInv /\ LockInv /\ FileInv /\ PromiseInv

-----------------------------------------------------------------------------
(* Requests.                                                               *)

LEMMA NoRequestFine ==
    NoRequest \in ReqType /\ ReqOK(NoRequest) /\ NoRequest.pc = "idle" /\ ~NoRequest.kept
<1>1. NoRequest \in ReqType
  BY DEF NoRequest, Request, ReqType, Ops
<1>2. NoRequest.pc = "idle" /\ NoRequest.kept = FALSE /\ NoRequest.op = "add" /\ NoRequest.doing = "add"
  BY DEF NoRequest, Request
<1> QED
  BY <1>1, <1>2 DEF ReqOK

\* A request moves on.
LEMMA Moves ==
    ASSUME req \in [Workers -> ReqType], NEW w \in Workers, NEW r \in ReqType, NEW from,
           NEW to \in {"idle", "lock", "unlock", "apply", "exempt", "rlock", "marshal", "write", "reply"},
           Goes(w, from, to, r)
    PROVE  /\ req' \in [Workers -> ReqType]
           /\ req[w].pc = from /\ req'[w].pc = to
           /\ req'[w].op = r.op /\ req'[w].arg = r.arg /\ req'[w].doing = r.doing
           /\ req'[w].clean = r.clean /\ req'[w].kept = r.kept
           /\ \A v \in Workers : v # w => req'[v] = req[v]
           /\ phase' = phase
<1> DEFINE q == [r EXCEPT !.pc = to]
<1>1. q \in ReqType /\ q.pc = to /\ q.op = r.op /\ q.arg = r.arg /\ q.doing = r.doing
      /\ q.clean = r.clean /\ q.kept = r.kept
  BY DEF ReqType
<1>2. req' = [req EXCEPT ![w] = q] /\ req[w].pc = from /\ phase' = phase
  BY DEF Goes
<1> HIDE DEF q
<1> QED
  BY <1>1, <1>2

\* It keeps what ReqOK says when it asks for the same thing.
LEMMA StaysOK ==
    ASSUME ReqInv, NEW w \in Workers, req[w].pc # "idle",
           req'[w].op = req[w].op, req'[w].arg = req[w].arg, req'[w].pc # "idle",
           req'[w].doing = req[w].doing \/ req'[w].doing = req[w].op,
           req'[w].pc = "exempt" => req[w].op = "upstream",
           req'[w].kept => req[w].kept,
           \A v \in Workers : v # w => req'[v] = req[v]
    PROVE  ReqInv'
<1>1. ReqOK(req[w])
  BY DEF ReqInv
<1>2. ReqOK(req'[w])
  BY <1>1 DEF ReqOK
<1>3. \A v \in Workers : ReqOK(req'[v])
  BY <1>2 DEF ReqInv
<1> QED
  BY <1>3 DEF ReqInv

\* The deletions under way are the same.
LEMMA DeletesSame ==
    ASSUME NEW w \in Workers, req[w].pc # "idle", req'[w].pc # "idle",
           req'[w].op = req[w].op, req'[w].arg = req[w].arg,
           \A v \in Workers : v # w => req'[v] = req[v]
    PROVE  \A x \in Workers : \A n : Deletes(x, n)' <=> Deletes(x, n)
<1> SUFFICES ASSUME NEW x \in Workers, NEW n PROVE Deletes(x, n)' <=> Deletes(x, n)
  OBVIOUS
<1>1. CASE x = w
  BY <1>1 DEF Deletes
<1>2. CASE x # w
  BY <1>2 DEF Deletes
<1> QED
  BY <1>1, <1>2

LEMMA EditedTypes ==
    ASSUME NEW c \in Configs, NEW r \in ReqType, ReqOK(r), r.pc # "idle",
           NEW e, e = Edited(c, r.doing, r.arg)
    PROVE  /\ e \in Configs
           /\ r.doing # "delete" => c.whitelist \subseteq e.whitelist
           /\ r.doing = "add" => r.arg \in e.whitelist
           /\ \A n \in c.whitelist : n \in e.whitelist \/ (r.doing = "delete" /\ n = r.arg)
<1>1. r.doing \in {"add", "delete", "upstream", "buffer"}
  BY DEF ReqType, Ops
<1>2. CASE r.doing = "add" \/ r.doing = "delete"
  <2>1. r.arg \in Names
    BY <1>2 DEF ReqOK
  <2>2. CASE r.doing = "add"
    <3>1. e = [c EXCEPT !.whitelist = c.whitelist \cup {r.arg}]
      BY <2>2 DEF Edited
    <3> QED
      BY <2>1, <2>2, <3>1 DEF Configs
  <2>3. CASE r.doing = "delete"
    <3>1. e = [c EXCEPT !.whitelist = c.whitelist \ {r.arg}]
      BY <2>3 DEF Edited
    <3> QED
      BY <2>1, <2>3, <3>1 DEF Configs
  <2> QED
    BY <1>2, <2>2, <2>3
<1>3. CASE r.doing = "upstream"
  <2>1. r.arg \in Proxies /\ e = [c EXCEPT !.upstream = r.arg]
    BY <1>3 DEF ReqOK, Edited
  <2> QED
    BY <1>3, <2>1 DEF Configs
<1>4. CASE r.doing = "buffer"
  <2>1. r.arg \in Buffers /\ e = [c EXCEPT !.buffer = r.arg]
    BY <1>4 DEF ReqOK, Edited
  <2> QED
    BY <1>4, <2>1 DEF Configs
<1> QED
  BY <1>1, <1>2, <1>3, <1>4

-----------------------------------------------------------------------------
(* Types.                                                                  *)

LiveType == [whitelist : SUBSET Names, buffer : Buffers, exempt : Proxies]

LEMMA TypesAre ==
    TypeOK <=> /\ UpstreamTypeOK /\ req \in [Workers -> ReqType]
               /\ phase \in {"down", "aside", "seed", "start", "up"}
               /\ cfg \in Configs /\ data \in Configs
               /\ writer \in Workers \cup {NoWorker} /\ readers \subseteq Workers
               /\ saver \in Workers \cup {NoWorker}
               /\ live \in LiveType /\ file \in Files /\ backup \in Files
               /\ promised \subseteq Names /\ insync \in BOOLEAN
BY DEF TypeOK, SettingsTypeOK, ReqType, LiveType

LEMMA UpdateTypes == ASSUME UpstreamTypeOK, NEW p \in Proxies, Update(p) PROVE UpstreamTypeOK'
<1>1. call' = [d \in Dialers |->
        IF call[d] = NoCall THEN NoCall ELSE [call[d] EXCEPT !.during = @ \cup {p}]]
  BY DEF Update, Witness
<1>2. call' \in [Dialers -> [pc : {"idle", "lookup", "build", "dialing"},
                             proxy : Proxies \cup {NoProxy}, during : SUBSET Proxies]]
  BY <1>1 DEF UpstreamTypeOK, NoCall
<1> QED
  BY <1>2 DEF Update, UpstreamTypeOK

LEMMA UpstreamSame == ASSUME UpstreamTypeOK, UNCHANGED upstreamVars PROVE UpstreamTypeOK'
BY DEF UpstreamTypeOK, upstreamVars

\* What a step of a request moves on with.
LEMMA RequestTypes ==
    ASSUME TypeOK, NEW w \in Workers
    PROVE  /\ req[w] \in ReqType
           /\ \A s \in SUBSET Names : [req[w] EXCEPT !.clean = s] \in ReqType
           /\ \A ok \in BOOLEAN : /\ [req[w] EXCEPT !.kept = @ /\ ok] \in ReqType
                                  /\ [[req[w] EXCEPT !.kept = @ /\ ok] EXCEPT !.doing = "delete"] \in ReqType
<1>1. req[w] \in ReqType
  BY TypesAre
<1>2. \A ok \in BOOLEAN : [req[w] EXCEPT !.kept = @ /\ ok] \in ReqType
  <2> SUFFICES ASSUME NEW ok \in BOOLEAN PROVE [req[w] EXCEPT !.kept = @ /\ ok] \in ReqType
    OBVIOUS
  <2>1. (req[w].kept /\ ok) \in BOOLEAN
    OBVIOUS
  <2> QED
    BY <1>1, <2>1 DEF ReqType
<1>3. \A r \in ReqType : [r EXCEPT !.doing = "delete"] \in ReqType
  BY DEF ReqType, Ops
<1>4. \A s \in SUBSET Names : [req[w] EXCEPT !.clean = s] \in ReqType
  BY <1>1 DEF ReqType
<1> QED
  BY <1>1, <1>2, <1>3, <1>4

-----------------------------------------------------------------------------
(* Steps of a request that save nothing and change no configuration.       *)

\* What the promises need of a step between the change and the answer.
LEMMA PromisesKept ==
    ASSUME PromiseInv, phase = "up",
           NEW w \in Workers, req[w].pc \notin {"idle", "lock"}, req'[w].pc # "idle",
           req'[w].op = req[w].op, req'[w].arg = req[w].arg, req'[w].kept => req[w].kept,
           req'[w].kept /\ req'[w].pc = "reply" => InFile(req[w].arg)',
           \A v \in Workers : v # w => req'[v] = req[v],
           cfg' = cfg, promised' = promised, phase' = phase,
           \A n \in cfg.whitelist : InFile(n) => InFile(n)'
    PROVE  PromiseInv'
<1>0. \A x \in Workers : \A n : Deletes(x, n)' <=> Deletes(x, n)
  BY DeletesSame
<1>1. \A n \in promised' : InFile(n)'
  BY DEF PromiseInv
<1>2. ASSUME NEW v \in Workers, req'[v].kept
      PROVE  /\ \A x \in Workers : ~Deletes(x, req[v].arg)'
             /\ req'[v].pc # "lock" => req'[v].arg \in cfg'.whitelist
             /\ req'[v].pc = "reply" => InFile(req[v].arg)'
  <2>1. req[v].kept /\ req'[v].arg = req[v].arg
    BY <1>2
  <2>2. \A x \in Workers : ~Deletes(x, req[v].arg)
    BY <2>1 DEF PromiseInv
  <2>3. \A x \in Workers : ~Deletes(x, req[v].arg)'
    BY <1>0, <2>1, <2>2 DEF Deletes
  <2>4. CASE v = w
    <3>1. req[v].arg \in cfg.whitelist
      BY <2>1, <2>4 DEF PromiseInv
    <3>2. req'[v].pc = "reply" => InFile(req[v].arg)'
      BY <1>2, <2>1, <2>4 DEF InFile
    <3> QED
      BY <2>1, <2>3, <3>1, <3>2
  <2>5. CASE v # w
    <3>1. req'[v] = req[v]
      BY <2>5
    <3>2. req[v].pc # "lock" => req[v].arg \in cfg.whitelist
      BY <2>1 DEF PromiseInv
    <3>3. req[v].pc = "reply" => InFile(req[v].arg) /\ req[v].arg \in cfg.whitelist
      BY <2>1, <3>2 DEF PromiseInv
    <3>4. req[v].pc = "reply" => InFile(req[v].arg)'
      BY <2>1, <3>3 DEF InFile
    <3> QED
      BY <2>3, <3>1, <3>2, <3>4
  <2> QED
    BY <2>4, <2>5
<1>3. phase' # "down" => \A n \in promised' : n \in cfg'.whitelist
  BY DEF PromiseInv
<1>4. \A x \in Workers, n \in promised' : ~Deletes(x, n)'
  BY <1>0 DEF PromiseInv, Deletes
<1> QED
  BY <1>1, <1>2, <1>3, <1>4 DEF PromiseInv

\* And what the file needs of one that does not write it.
LEMMA FileKept ==
    ASSUME FileInv, NEW w \in Workers, \A v \in Workers : v # w => req'[v] = req[v],
           OnItsWay(w)' \/ (~OnItsWay(w) /\ req'[w].pc # "write"),
           req'[w].pc = "write" => data' = cfg, data' = data \/ data' = cfg,
           cfg' = cfg, file' = file, insync' = insync, phase' = phase
    PROVE  FileInv'
<1>1. \A v \in Workers : req'[v].pc = "write" => data' = cfg'
  BY DEF FileInv
<1>2. insync' => file' = cfg' \/ \E v \in Workers : OnItsWay(v)'
  <2>1. ASSUME NEW v \in Workers, OnItsWay(v) PROVE \E x \in Workers : OnItsWay(x)'
    <3>1. CASE v = w
      BY <2>1, <3>1
    <3>2. CASE v # w
      <4>1. OnItsWay(v)'
        BY <2>1, <3>2 DEF OnItsWay
      <4> QED
        BY <4>1
    <3> QED
      BY <3>1, <3>2
  <2> QED
    BY <2>1 DEF FileInv
<1> QED
  BY <1>1, <1>2 DEF FileInv

\* The steps between the change and the save.
Middle(w) == Unlock(w) \/ Apply(w) \/ Redirect(w) \/ ApplyExempt(w) \/ ReadLock(w) \/ Marshal(w)

LEMMA MiddleFrame ==
    ASSUME TypeOK, NEW w \in Workers, Middle(w)
    PROVE  /\ req' \in [Workers -> ReqType]
           /\ req'[w].op = req[w].op /\ req'[w].arg = req[w].arg /\ req'[w].doing = req[w].doing
           /\ req'[w].kept = req[w].kept
           /\ \A v \in Workers : v # w => req'[v] = req[v]
           /\ OnItsWay(w) /\ OnItsWay(w)'
           /\ cfg' = cfg /\ file' = file /\ backup' = backup /\ promised' = promised
           /\ insync' = insync /\ phase' = phase
<1>1. PICK from, to \in {"unlock", "apply", "exempt", "rlock", "marshal", "write"} : Goes(w, from, to, req[w])
  BY DEF Middle, Unlock, Apply, Redirect, ApplyExempt, ReadLock, Marshal
<1>2. req[w] \in ReqType /\ req \in [Workers -> ReqType]
  BY TypesAre
<1>3. req' \in [Workers -> ReqType] /\ req[w].pc = from /\ req'[w].pc = to
      /\ req'[w].op = req[w].op /\ req'[w].arg = req[w].arg /\ req'[w].doing = req[w].doing
      /\ req'[w].kept = req[w].kept /\ (\A v \in Workers : v # w => req'[v] = req[v]) /\ phase' = phase
  BY <1>1, <1>2, Moves
<1>4. cfg' = cfg /\ file' = file /\ backup' = backup /\ promised' = promised /\ insync' = insync
  BY DEF Middle, Unlock, Apply, Redirect, ApplyExempt, ReadLock, Marshal, disk, history
<1> QED
  BY <1>3, <1>4 DEF OnItsWay

LEMMA MiddleTypes == ASSUME TypeOK, ReqInv, NEW w \in Workers, Middle(w) PROVE TypeOK'
<1>1. TypeOK /\ ReqOK(req[w]) /\ req[w] \in ReqType
  BY TypesAre DEF ReqInv
<1>2. /\ req' \in [Workers -> ReqType] /\ cfg' = cfg /\ file' = file /\ backup' = backup
      /\ promised' = promised /\ insync' = insync /\ phase' = phase /\ OnItsWay(w)
  BY MiddleFrame
<1>3. req[w].pc # "idle" /\ req[w].doing \in Ops
  BY <1>1, <1>2 DEF OnItsWay, ReqType
<1>4. writer' \in Workers \cup {NoWorker} /\ readers' \subseteq Workers /\ saver' \in Workers \cup {NoWorker}
      /\ data' \in Configs
  BY <1>1, TypesAre DEF Middle, Unlock, Apply, Redirect, ApplyExempt, ReadLock, Marshal, locks
<1>5. live' \in LiveType
  <2>0. live \in LiveType
    BY TypesAre
  <2>1. CASE Unlock(w) \/ Redirect(w) \/ ReadLock(w) \/ Marshal(w)
    BY <2>0, <2>1 DEF Unlock, Redirect, ReadLock, Marshal
  <2>2. CASE Apply(w)
    <3>1. CASE req[w].doing = "buffer"
      <4>1. req[w].arg \in Buffers
        BY <1>1, <1>3, <3>1 DEF ReqOK
      <4> QED
        BY <2>0, <2>2, <3>1, <4>1 DEF Apply, LiveType
    <3>2. CASE req[w].doing # "buffer"
      <4>1. req[w].clean \subseteq Names
        BY <1>1 DEF ReqType
      <4> QED
        BY <2>0, <2>2, <3>2, <4>1 DEF Apply, LiveType
    <3> QED
      BY <3>1, <3>2
  <2>3. CASE ApplyExempt(w)
    <3>1. req[w].arg \in Proxies
      BY <1>1, <2>3 DEF ReqOK, ApplyExempt, Goes
    <3> QED
      BY <2>0, <2>3, <3>1 DEF ApplyExempt, LiveType
  <2> QED
    BY <2>1, <2>2, <2>3 DEF Middle
<1>6. UpstreamTypeOK'
  <2>1. CASE Redirect(w)
    <3>1. req[w].arg \in Proxies /\ Update(req[w].arg)
      BY <1>1, <1>3, <2>1 DEF Redirect, ReqOK
    <3> QED
      BY <3>1, UpdateTypes, TypesAre
  <2>2. CASE ~Redirect(w)
    BY <2>2, UpstreamSame, TypesAre DEF Middle, Unlock, Apply, ApplyExempt, ReadLock, Marshal
  <2> QED
    BY <2>1, <2>2
<1> QED
  BY <1>2, <1>4, <1>5, <1>6, TypesAre DEF TypeOK, SettingsTypeOK, ReqType, LiveType

\* Locks are taken when they are free, and given back.
LEMMA MiddleLocks == ASSUME TypeOK, LockInv, NEW w \in Workers, Middle(w) PROVE LockInv'
<1>1. /\ req' \in [Workers -> ReqType] /\ OnItsWay(w) /\ phase' = phase
      /\ \A v \in Workers : v # w => req'[v] = req[v]
  BY MiddleFrame
<1>2. req[w] \in ReqType /\ req \in [Workers -> ReqType] /\ readers \subseteq Workers
  BY TypesAre
<1>3. phase = "up"
  BY <1>1 DEF LockInv, OnItsWay
<1>4. CASE Unlock(w)
  <2>1. req[w].pc = "unlock" /\ req'[w].pc = "apply"
    BY <1>2, <1>4, Moves DEF Unlock
  <2>2. writer' = NoWorker /\ readers' = readers /\ saver' = saver /\ writer = w
    BY <1>4, <2>1 DEF Unlock, LockInv
  <2> QED
    BY <1>1, <1>3, <2>1, <2>2, SettingsAssumption DEF LockInv, Reading
<1>5. CASE Apply(w) \/ Redirect(w) \/ ApplyExempt(w)
  <2>1. PICK from \in {"apply", "exempt"}, to \in {"exempt", "rlock"} : Goes(w, from, to, req[w])
    BY <1>5 DEF Apply, Redirect, ApplyExempt
  <2>2. req[w].pc = from /\ req'[w].pc = to
    BY <1>2, <2>1, Moves
  <2>3. writer' = writer /\ readers' = readers /\ saver' = saver
    BY <1>5 DEF Apply, Redirect, ApplyExempt, locks
  <2> QED
    BY <1>1, <1>3, <2>2, <2>3 DEF LockInv, Reading
<1>6. CASE ReadLock(w)
  <2>1. req[w].pc = "rlock" /\ req'[w].pc = "marshal"
    BY <1>2, <1>6, Moves DEF ReadLock
  <2>2. writer = NoWorker /\ writer' = writer /\ readers' = readers \cup {w} /\ saver' = saver
    BY <1>6 DEF ReadLock
  <2> QED
    BY <1>1, <1>3, <2>1, <2>2 DEF LockInv, Reading
<1>7. CASE Marshal(w)
  <2>1. req[w].pc = "marshal" /\ req'[w].pc = "write"
    BY <1>2, <1>7, Moves DEF Marshal
  <2>2. writer' = writer /\ readers' = readers /\ saver = NoWorker /\ saver' = w
    BY <1>7 DEF Marshal
  <2> QED
    BY <1>1, <1>3, <2>1, <2>2, SettingsAssumption DEF LockInv, Reading
<1> QED
  BY <1>4, <1>5, <1>6, <1>7 DEF Middle

LEMMA MiddleStep == ASSUME IInv, NEW w \in Workers, Middle(w) PROVE IInv'
<1>1. TypeOK /\ ReqInv /\ LockInv /\ FileInv /\ PromiseInv
  BY DEF IInv
<1>2. /\ req' \in [Workers -> ReqType]
      /\ req'[w].op = req[w].op /\ req'[w].arg = req[w].arg /\ req'[w].doing = req[w].doing
      /\ req'[w].kept = req[w].kept /\ (\A v \in Workers : v # w => req'[v] = req[v])
      /\ OnItsWay(w) /\ OnItsWay(w)' /\ cfg' = cfg /\ file' = file /\ promised' = promised
      /\ insync' = insync /\ phase' = phase
  BY <1>1, MiddleFrame
<1>3. req[w].pc \notin {"idle", "lock"} /\ req'[w].pc \notin {"idle", "lock", "reply"}
  BY <1>2 DEF OnItsWay
<1>4. phase = "up"
  BY <1>1, <1>3 DEF LockInv
<1>5. ReqInv'
  <2>1. req'[w].pc = "exempt" => req[w].op = "upstream"
    <3>1. ASSUME req'[w].pc = "exempt" PROVE req[w].doing = "upstream"
      <4>1. req \in [Workers -> ReqType] /\ req[w] \in ReqType
        BY <1>1, TypesAre
      <4>2. Redirect(w)
        BY <3>1, <4>1, Moves DEF Middle, Unlock, Apply, ApplyExempt, ReadLock, Marshal
      <4> QED
        BY <4>2 DEF Redirect
    <3> QED
      BY <1>1, <3>1 DEF ReqInv, ReqOK
  <2> QED
    BY <1>1, <1>2, <1>3, <2>1, StaysOK
<1>6. FileInv'
  <2>1. req \in [Workers -> ReqType] /\ req[w] \in ReqType
    BY <1>1, TypesAre
  <2>2. data' = data \/ data' = cfg
    BY DEF Middle, Unlock, Apply, Redirect, ApplyExempt, ReadLock, Marshal
  <2>3. req'[w].pc = "write" => data' = cfg
    BY <2>1, Moves DEF Middle, Unlock, Apply, Redirect, ApplyExempt, ReadLock, Marshal
  <2> QED
    BY <1>1, <1>2, <2>2, <2>3, FileKept
<1>7. PromiseInv'
  <2>1. \A n \in cfg.whitelist : InFile(n) => InFile(n)'
    BY <1>2 DEF InFile
  <2>2. /\ req[w].pc \notin {"idle", "lock"} /\ req'[w].pc # "idle"
        /\ (req'[w].kept => req[w].kept)
        /\ (req'[w].kept /\ req'[w].pc = "reply" => InFile(req[w].arg)')
    BY <1>2, <1>3
  <2> QED
    BY <1>1, <1>2, <1>4, <2>1, <2>2, PromisesKept
<1>8. TypeOK' /\ LockInv'
  BY <1>1, MiddleTypes, MiddleLocks
<1> QED
  BY <1>5, <1>6, <1>7, <1>8 DEF IInv

-----------------------------------------------------------------------------
(* The change itself.                                                      *)

LEMMA ChangeFrame ==
    ASSUME IInv, NEW w \in Workers, Change(w)
    PROVE  /\ req' \in [Workers -> ReqType] /\ cfg' \in Configs /\ cfg \in Configs
           /\ req[w].pc = "lock" /\ req'[w].pc = "unlock"
           /\ req'[w].op = req[w].op /\ req'[w].arg = req[w].arg /\ req'[w].doing = req[w].doing
           /\ req'[w].kept = req[w].kept
           /\ \A v \in Workers : v # w => req'[v] = req[v]
           /\ phase = "up" /\ phase' = phase /\ file' = file /\ promised' = promised /\ insync' = insync
           /\ writer = NoWorker /\ writer' = w /\ readers = {} /\ readers' = {} /\ saver' = saver
           /\ data' = data
<1>1. /\ req[w] \in ReqType /\ req \in [Workers -> ReqType] /\ cfg \in Configs /\ ReqOK(req[w])
      /\ LockInv
  BY TypesAre DEF IInv, ReqInv
<1>2. Goes(w, "lock", "unlock", [req[w] EXCEPT !.clean = cfg'.whitelist])
      /\ cfg' = Edited(cfg, req[w].doing, req[w].arg) /\ writer = NoWorker /\ readers = {} /\ writer' = w
      /\ readers' = readers /\ saver' = saver /\ data' = data /\ file' = file /\ promised' = promised
      /\ insync' = insync
  BY DEF Change, disk, history
<1>3. req[w].pc = "lock" /\ phase' = phase
  BY <1>2 DEF Goes
<1>4. cfg' \in Configs
  BY <1>1, <1>2, <1>3, EditedTypes
<1>5. cfg'.whitelist \subseteq Names
  BY <1>4 DEF Configs
<1> DEFINE r == [req[w] EXCEPT !.clean = cfg'.whitelist]
<1>6. r \in ReqType /\ r.op = req[w].op /\ r.arg = req[w].arg /\ r.doing = req[w].doing
      /\ r.kept = req[w].kept
  BY <1>1, <1>5 DEF ReqType
<1> HIDE DEF r
<1>7. Goes(w, "lock", "unlock", r)
  BY <1>2 DEF r
<1>8. phase = "up"
  BY <1>1, <1>3 DEF LockInv
<1> QED
  BY <1>1, <1>2, <1>3, <1>4, <1>6, <1>7, <1>8, Moves

LEMMA ChangeStep == ASSUME IInv, NEW w \in Workers, Change(w) PROVE IInv'
<1>1. TypeOK /\ ReqInv /\ LockInv /\ FileInv /\ PromiseInv
  BY DEF IInv
<1>2. /\ req' \in [Workers -> ReqType] /\ cfg' \in Configs /\ cfg \in Configs
      /\ req[w].pc = "lock" /\ req'[w].pc = "unlock"
      /\ req'[w].op = req[w].op /\ req'[w].arg = req[w].arg /\ req'[w].doing = req[w].doing
      /\ req'[w].kept = req[w].kept
      /\ (\A v \in Workers : v # w => req'[v] = req[v])
      /\ phase = "up" /\ phase' = phase /\ file' = file /\ promised' = promised /\ insync' = insync
      /\ writer = NoWorker /\ writer' = w /\ readers = {} /\ readers' = {} /\ saver' = saver
      /\ data' = data
  BY ChangeFrame
<1>3. TypeOK'
  <2>1. UpstreamTypeOK'
    BY UpstreamSame, TypesAre, <1>1 DEF Change
  <2>2. live' = live /\ backup' = backup
    BY DEF Change, disk
  <2> QED
    BY <1>1, <1>2, <2>1, <2>2, TypesAre DEF TypeOK, SettingsTypeOK, ReqType, LiveType
<1>4. ReqInv'
  BY <1>1, <1>2, StaysOK
<1>5. LockInv'
  BY <1>1, <1>2, SettingsAssumption DEF LockInv, Reading
<1>6. FileInv'
  <2>1. OnItsWay(w)'
    BY <1>2 DEF OnItsWay
  <2>2. \A v \in Workers : req'[v].pc # "write"
    BY <1>1, <1>2 DEF LockInv, Reading
  <2> QED
    BY <1>2, <2>1, <2>2 DEF FileInv
<1>7. PromiseInv'
  <2>1. /\ \A n \in cfg.whitelist : n \in cfg'.whitelist \/ (req[w].doing = "delete" /\ n = req[w].arg)
        /\ req[w].doing = "add" => req[w].arg \in cfg'.whitelist
    <3>1. req[w] \in ReqType /\ ReqOK(req[w]) /\ cfg' = Edited(cfg, req[w].doing, req[w].arg)
      BY <1>1, TypesAre DEF ReqInv, Change
    <3> QED
      BY <1>2, <3>1, EditedTypes
  <2>2. \A x \in Workers : \A n : Deletes(x, n)' <=> Deletes(x, n)
    BY <1>2, DeletesSame
  <2>3. \A n \in cfg.whitelist : n \in cfg'.whitelist \/ Deletes(w, n)
    <3>1. req[w].doing = "delete" => req[w].op = "delete"
      BY <1>1 DEF ReqInv, ReqOK
    <3> QED
      BY <1>2, <2>1, <3>1 DEF Deletes
  <2>4. \A n : InFile(n)' <=> InFile(n)
    BY <1>2 DEF InFile
  <2>5. \A n \in promised' : InFile(n)' /\ n \in cfg'.whitelist /\ \A x \in Workers : ~Deletes(x, n)'
    <3> SUFFICES ASSUME NEW n \in promised
                 PROVE  InFile(n)' /\ n \in cfg'.whitelist /\ \A x \in Workers : ~Deletes(x, n)'
      BY <1>2
    <3>1. InFile(n) /\ n \in cfg.whitelist /\ \A x \in Workers : ~Deletes(x, n)
      BY <1>1, <1>2 DEF PromiseInv
    <3>2. InFile(n)' /\ \A x \in Workers : ~Deletes(x, n)'
      BY <2>2, <2>4, <3>1
    <3> QED
      BY <2>3, <3>1, <3>2
  <2>6. ASSUME NEW v \in Workers, req'[v].kept
        PROVE  /\ \A x \in Workers : ~Deletes(x, req[v].arg)'
               /\ req'[v].pc # "lock" => req[v].arg \in cfg'.whitelist
               /\ req'[v].pc = "reply" => InFile(req[v].arg)'
    <3>1. req[v].kept
      BY <1>2, <2>6
    <3>2. /\ \A x \in Workers : ~Deletes(x, req[v].arg)
          /\ req[v].pc # "lock" => req[v].arg \in cfg.whitelist
          /\ req[v].pc = "reply" => InFile(req[v].arg)
      BY <1>1, <3>1 DEF PromiseInv
    <3>3. \A x \in Workers : ~Deletes(x, req[v].arg)'
      <4>1. req'[v].arg = req[v].arg
        BY <1>2
      <4> QED
        BY <2>2, <3>2, <4>1 DEF Deletes
    <3>4. CASE v = w
      <4>1. req[w].op = "add" /\ req[w].doing = "add"
        BY <1>1, <3>1, <3>4 DEF ReqInv, ReqOK
      <4> QED
        BY <1>2, <2>1, <3>3, <3>4, <4>1
    <3>5. CASE v # w
      <4>1. req'[v] = req[v]
        BY <1>2, <3>5
      <4> QED
        BY <2>3, <2>4, <3>2, <3>3, <4>1
    <3> QED
      BY <3>4, <3>5
  <2>7. \A v \in Workers : req'[v].arg = req[v].arg
    BY <1>2
  <2> QED
    BY <2>5, <2>6, <2>7 DEF PromiseInv
<1> QED
  BY <1>3, <1>4, <1>5, <1>6, <1>7 DEF IInv

-----------------------------------------------------------------------------
(* The save ends, and the answer.                                          *)

\* The save of w ends, well or not, and w goes on to the next one.
LEMMA SaveFrame ==
    ASSUME TypeOK, ReqInv, NEW w \in Workers, NEW ok \in BOOLEAN, SaveEnds(w, ok)
    PROVE  /\ req' \in [Workers -> ReqType]
           /\ req[w].pc = "write"
           /\ \/ req'[w].pc = "lock" /\ req'[w].doing = req[w].op
              \/ req'[w].pc = "reply" /\ req'[w].doing = req[w].doing
           /\ req'[w].op = req[w].op /\ req'[w].arg = req[w].arg
           /\ req'[w].kept = (req[w].kept /\ ok)
           /\ \A v \in Workers : v # w => req'[v] = req[v]
           /\ phase' = phase /\ cfg' = cfg /\ data' = data /\ promised' = promised
           /\ writer' = writer /\ saver' = NoWorker /\ readers' = readers \ {w} /\ insync' = ok
<1>1. req[w] \in ReqType /\ req \in [Workers -> ReqType]
  BY TypesAre
<1> DEFINE r == [req[w] EXCEPT !.kept = @ /\ ok]
           d == [r EXCEPT !.doing = "delete"]
<1>2. r \in ReqType /\ d \in ReqType
  BY RequestTypes
<1>3. /\ r.op = req[w].op /\ r.arg = req[w].arg /\ r.doing = req[w].doing
      /\ r.kept = (req[w].kept /\ ok)
      /\ d.op = req[w].op /\ d.arg = req[w].arg /\ d.doing = "delete"
      /\ d.kept = (req[w].kept /\ ok)
  BY <1>1 DEF ReqType
<1>4. IF r.op = "delete" /\ r.doing = "add" THEN Goes(w, "write", "lock", d) ELSE Goes(w, "write", "reply", r)
  BY DEF SaveEnds
<1> HIDE DEF r, d
<1>5. CASE r.op = "delete" /\ r.doing = "add"
  <2>1. Goes(w, "write", "lock", d)
    BY <1>4, <1>5
  <2>2. /\ req' \in [Workers -> ReqType] /\ req[w].pc = "write" /\ req'[w].pc = "lock"
        /\ req'[w].op = d.op /\ req'[w].arg = d.arg /\ req'[w].doing = d.doing /\ req'[w].kept = d.kept
        /\ (\A v \in Workers : v # w => req'[v] = req[v]) /\ phase' = phase
    BY <1>1, <1>2, <2>1, Moves
  <2> QED
    BY <1>3, <1>5, <2>2 DEF SaveEnds
<1>6. CASE ~(r.op = "delete" /\ r.doing = "add")
  <2>1. Goes(w, "write", "reply", r)
    BY <1>4, <1>6
  <2>2. /\ req' \in [Workers -> ReqType] /\ req[w].pc = "write" /\ req'[w].pc = "reply"
        /\ req'[w].op = r.op /\ req'[w].arg = r.arg /\ req'[w].doing = r.doing /\ req'[w].kept = r.kept
        /\ (\A v \in Workers : v # w => req'[v] = req[v]) /\ phase' = phase
    BY <1>1, <1>2, <2>1, Moves
  <2> QED
    BY <1>3, <2>2 DEF SaveEnds
<1> QED
  BY <1>5, <1>6

\* What is written is the configuration, which holds all that was promised.
LEMMA SaveStep ==
    ASSUME IInv, NEW w \in Workers, NEW ok \in BOOLEAN, SaveEnds(w, ok),
           file' = IF ok THEN data ELSE file
    PROVE  IInv'
<1>1. TypeOK /\ ReqInv /\ LockInv /\ FileInv /\ PromiseInv
  BY DEF IInv
<1>2. /\ req' \in [Workers -> ReqType]
      /\ req[w].pc = "write"
      /\ (\/ req'[w].pc = "lock" /\ req'[w].doing = req[w].op
          \/ req'[w].pc = "reply" /\ req'[w].doing = req[w].doing)
      /\ req'[w].op = req[w].op /\ req'[w].arg = req[w].arg
      /\ req'[w].kept = (req[w].kept /\ ok)
      /\ (\A v \in Workers : v # w => req'[v] = req[v])
      /\ phase' = phase /\ cfg' = cfg /\ data' = data /\ promised' = promised
      /\ writer' = writer /\ saver' = NoWorker /\ readers' = readers \ {w} /\ insync' = ok
  BY <1>1, SaveFrame
<1>3. data = cfg /\ cfg \in Configs /\ file \in Files
  BY <1>1, <1>2, TypesAre DEF FileInv
<1>4. TypeOK'
  <2>1. UpstreamTypeOK'
    BY UpstreamSame, TypesAre, <1>1 DEF SaveEnds
  <2>2. live' = live /\ backup' = backup
    BY DEF SaveEnds
  <2>3. file' \in Files
    BY <1>3 DEF Files
  <2>4. /\ promised' \subseteq Names /\ insync' \in BOOLEAN /\ writer' \in Workers \cup {NoWorker}
        /\ readers' \subseteq Workers /\ phase' \in {"down", "aside", "seed", "start", "up"}
    BY <1>1, <1>2, TypesAre
  <2>5. live' \in LiveType /\ backup' \in Files /\ data' \in Configs /\ cfg' \in Configs
    BY <1>1, <1>2, <2>2, TypesAre
  <2> QED
    BY <1>2, <2>1, <2>3, <2>4, <2>5 DEF TypeOK, SettingsTypeOK, ReqType, LiveType
<1>5. ReqInv'
  <2>1. req'[w].doing = req[w].doing \/ req'[w].doing = req[w].op
    BY <1>2
  <2> QED
    BY <1>1, <1>2, <2>1, StaysOK
<1>6. phase = "up"
  BY <1>1, <1>2 DEF LockInv
<1>7. LockInv'
  BY <1>1, <1>2, <1>6, SettingsAssumption DEF LockInv, Reading
<1>8. FileInv'
  <2>1. \A v \in Workers : req'[v].pc # "write"
    BY <1>1, <1>2 DEF LockInv
  <2>2. insync' => file' = cfg'
    BY <1>2, <1>3
  <2> QED
    BY <1>2, <1>6, <2>1, <2>2 DEF FileInv
<1>9. PromiseInv'
  <2>1. \A n \in cfg.whitelist : InFile(n) => InFile(n)'
    BY <1>3 DEF InFile
  <2>2. req'[w].kept /\ req'[w].pc = "reply" => InFile(req[w].arg)'
    <3>1. ASSUME req'[w].kept PROVE req[w].arg \in cfg.whitelist /\ ok
      BY <1>1, <1>2, <3>1 DEF PromiseInv
    <3> QED
      BY <1>2, <1>3, <3>1 DEF InFile
  <2>3. req[w].pc \notin {"idle", "lock"} /\ req'[w].pc # "idle" /\ (req'[w].kept => req[w].kept)
    BY <1>2
  <2> QED
    BY <1>1, <1>2, <1>6, <2>1, <2>2, <2>3, PromisesKept
<1> QED
  BY <1>4, <1>5, <1>7, <1>8, <1>9 DEF IInv

LEMMA ReplyStep == ASSUME IInv, NEW w \in Workers, Reply(w) PROVE IInv'
<1>1. TypeOK /\ ReqInv /\ LockInv /\ FileInv /\ PromiseInv /\ req \in [Workers -> ReqType]
  BY TypesAre DEF IInv
<1>2. /\ req' \in [Workers -> ReqType] /\ req[w].pc = "reply" /\ req'[w].pc = "idle"
      /\ ~req'[w].kept /\ (\A v \in Workers : v # w => req'[v] = req[v]) /\ phase' = phase
      /\ req'[w].op = NoRequest.op /\ req'[w].doing = NoRequest.doing /\ req'[w].kept = NoRequest.kept
  BY <1>1, NoRequestFine, Moves DEF Reply
<1>3. /\ cfg' = cfg /\ data' = data /\ live' = live /\ file' = file /\ backup' = backup
      /\ writer' = writer /\ readers' = readers /\ saver' = saver /\ insync' = insync
      /\ promised' = IF req[w].kept THEN promised \cup {req[w].arg} ELSE promised
  BY DEF Reply, locks, disk
<1>4. TypeOK'
  <2>1. UpstreamTypeOK'
    BY UpstreamSame, TypesAre, <1>1 DEF Reply
  <2>2. req[w].kept => req[w].arg \in Names
    BY <1>1, <1>2 DEF ReqInv, ReqOK
  <2>3. promised' \subseteq Names
    BY <1>1, <1>3, <2>2, TypesAre
  <2> QED
    BY <1>1, <1>2, <1>3, <2>1, <2>3, TypesAre DEF TypeOK, SettingsTypeOK, ReqType, LiveType
<1>5. ReqInv'
  <2>1. ReqOK(req'[w])
    BY <1>2, NoRequestFine DEF ReqOK
  <2> QED
    BY <1>1, <1>2, <2>1 DEF ReqInv
<1>6. LockInv'
  BY <1>1, <1>2, <1>3 DEF LockInv, Reading
<1>7. FileInv'
  <2>1. ~OnItsWay(w)
    BY <1>2 DEF OnItsWay
  <2> QED
    BY <1>1, <1>2, <1>3, <2>1, FileKept
<1>8. PromiseInv'
  <2>0. phase = "up"
    BY <1>1, <1>2 DEF LockInv
  <2>1. \A n : InFile(n)' <=> InFile(n)
    BY <1>3 DEF InFile
  <2>2. \A x \in Workers : \A n : Deletes(x, n)' => Deletes(x, n)
    BY <1>2 DEF Deletes
  <2>3. req[w].kept => InFile(req[w].arg) /\ req[w].arg \in cfg.whitelist
                       /\ \A x \in Workers : ~Deletes(x, req[w].arg)
    BY <1>1, <1>2 DEF PromiseInv
  <2>4. \A n \in promised' : InFile(n) /\ n \in cfg.whitelist /\ \A x \in Workers : ~Deletes(x, n)
    BY <1>1, <1>3, <2>0, <2>3 DEF PromiseInv
  <2>5. \A n \in promised' : InFile(n)' /\ n \in cfg'.whitelist /\ \A x \in Workers : ~Deletes(x, n)'
    BY <1>3, <2>1, <2>2, <2>4
  <2>6. ASSUME NEW v \in Workers, req'[v].kept
        PROVE  /\ \A x \in Workers : ~Deletes(x, req[v].arg)'
               /\ req'[v].pc # "lock" => req[v].arg \in cfg'.whitelist
               /\ req'[v].pc = "reply" => InFile(req[v].arg)'
               /\ req'[v].arg = req[v].arg
    <3>1. v # w /\ req'[v] = req[v] /\ req[v].kept
      BY <1>2, <2>6
    <3>2. /\ \A x \in Workers : ~Deletes(x, req[v].arg)
          /\ req[v].pc # "lock" => req[v].arg \in cfg.whitelist
          /\ req[v].pc = "reply" => InFile(req[v].arg)
      BY <1>1, <3>1 DEF PromiseInv
    <3>3. \A x \in Workers : ~Deletes(x, req[v].arg)'
      BY <2>2, <3>1, <3>2 DEF Deletes
    <3>4. req[v].pc = "reply" => InFile(req[v].arg)'
      BY <2>1, <3>1, <3>2 DEF InFile
    <3> QED
      BY <1>3, <3>1, <3>2, <3>3, <3>4
  <2> QED
    BY <2>5, <2>6 DEF PromiseInv
<1> QED
  BY <1>4, <1>5, <1>6, <1>7, <1>8 DEF IInv

-----------------------------------------------------------------------------
(* A request comes.                                                        *)

LEMMA ReceiveFrame ==
    ASSUME IInv, NEW w \in Workers, NEW c \in Changes, Receive(w, c)
    PROVE  /\ req' \in [Workers -> ReqType]
           /\ req[w].pc = "idle" /\ req'[w].pc = "lock"
           /\ req'[w].op = c.op /\ req'[w].arg = c.arg /\ ReqOK(req'[w])
           /\ req'[w].kept => c.op = "add" /\ \A x \in Workers : ~Deletes(x, c.arg)
           /\ \A v \in Workers : v # w =>
                 /\ req'[v].pc = req[v].pc /\ req'[v].op = req[v].op /\ req'[v].arg = req[v].arg
                 /\ req'[v].doing = req[v].doing
                 /\ req'[v].kept => req[v].kept /\ ~(c.op = "delete" /\ req[v].arg = c.arg)
<1>1. req \in [Workers -> ReqType] /\ c \in AllChanges
  BY TypesAre, SettingsAssumption DEF IInv
<1>2. /\ c.op \in Ops /\ c.arg \in Names \cup Proxies \cup Buffers
      /\ c.op \in {"add", "delete"} => c.arg \in Names
      /\ c.op = "upstream" => c.arg \in Proxies
      /\ c.op = "buffer" => c.arg \in Buffers
  BY <1>1 DEF AllChanges, Ops
<1> DEFINE free == \A x \in Workers : ~Deletes(x, c.arg)
           first == [Request(c) EXCEPT !.kept = @ /\ free]
           rest(v) == [req[v] EXCEPT !.kept = @ /\ ~(c.op = "delete" /\ req[v].arg = c.arg)]
<1>3. /\ first.pc = "lock" /\ first.op = c.op /\ first.arg = c.arg /\ first.clean = {}
      /\ first.doing = (IF c.op = "delete" THEN "add" ELSE c.op)
      /\ first.kept = (c.op = "add" /\ free)
      /\ first \in ReqType
  BY <1>2 DEF Request, ReqType, Ops
<1>4. ASSUME NEW v \in Workers
      PROVE  /\ rest(v) \in ReqType
             /\ rest(v).pc = req[v].pc /\ rest(v).op = req[v].op /\ rest(v).arg = req[v].arg
             /\ rest(v).doing = req[v].doing
             /\ rest(v).kept = (req[v].kept /\ ~(c.op = "delete" /\ req[v].arg = c.arg))
  <2>1. req[v] \in ReqType
    BY <1>1
  <2> QED
    BY <2>1 DEF ReqType
<1>5. req' = [v \in Workers |-> IF v = w THEN first ELSE rest(v)]
  BY DEF Receive
<1>6. ReqOK(first)
  BY <1>2, <1>3 DEF ReqOK, Ops
<1> HIDE DEF first, rest
<1>7. req'[w] = first /\ \A v \in Workers : v # w => req'[v] = rest(v)
  BY <1>5
<1>8. req' \in [Workers -> ReqType]
  BY <1>3, <1>4, <1>5
<1>9. req[w].pc = "idle"
  BY DEF Receive
<1>10. /\ req'[w].pc = "lock" /\ req'[w].op = c.op /\ req'[w].arg = c.arg /\ ReqOK(req'[w])
       /\ req'[w].kept => c.op = "add" /\ \A x \in Workers : ~Deletes(x, c.arg)
  BY <1>3, <1>6, <1>7
<1>11. ASSUME NEW v \in Workers, v # w
       PROVE  /\ req'[v].pc = req[v].pc /\ req'[v].op = req[v].op /\ req'[v].arg = req[v].arg
              /\ req'[v].doing = req[v].doing
              /\ req'[v].kept => req[v].kept /\ ~(c.op = "delete" /\ req[v].arg = c.arg)
  <2>1. req'[v] = rest(v)
    BY <1>7, <1>11
  <2> QED
    BY <1>4, <2>1
<1> QED
  BY <1>8, <1>9, <1>10, <1>11

LEMMA ReceiveStep == ASSUME IInv, NEW w \in Workers, NEW c \in Changes, Receive(w, c) PROVE IInv'
<1>1. TypeOK /\ ReqInv /\ LockInv /\ FileInv /\ PromiseInv
  BY DEF IInv
<1>2. /\ req' \in [Workers -> ReqType]
      /\ req[w].pc = "idle" /\ req'[w].pc = "lock"
      /\ req'[w].op = c.op /\ req'[w].arg = c.arg /\ ReqOK(req'[w])
      /\ (req'[w].kept => c.op = "add" /\ \A x \in Workers : ~Deletes(x, c.arg))
      /\ \A v \in Workers : v # w =>
            /\ req'[v].pc = req[v].pc /\ req'[v].op = req[v].op /\ req'[v].arg = req[v].arg
            /\ req'[v].doing = req[v].doing
            /\ req'[v].kept => req[v].kept /\ ~(c.op = "delete" /\ req[v].arg = c.arg)
  BY ReceiveFrame
<1>3. /\ phase = "up" /\ phase' = phase /\ cfg' = cfg /\ data' = data /\ live' = live /\ file' = file
      /\ backup' = backup /\ writer' = writer /\ readers' = readers /\ saver' = saver
      /\ insync' = insync /\ promised' = IF c.op = "delete" THEN promised \ {c.arg} ELSE promised
  BY DEF Receive, locks, disk
<1>4. TypeOK'
  <2>1. UpstreamTypeOK'
    BY UpstreamSame, TypesAre, <1>1 DEF Receive
  <2>2. promised' \subseteq Names
    BY <1>1, <1>3, TypesAre
  <2> QED
    BY <1>1, <1>2, <1>3, <2>1, <2>2, TypesAre DEF TypeOK, SettingsTypeOK, ReqType, LiveType
<1>5. ReqInv'
  <2>1. \A v \in Workers : v # w => ReqOK(req'[v])
    BY <1>1, <1>2 DEF ReqInv, ReqOK
  <2> QED
    BY <1>2, <2>1 DEF ReqInv
<1>6. LockInv'
  BY <1>1, <1>2, <1>3 DEF LockInv, Reading
<1>7. FileInv'
  <2>1. \A v \in Workers : OnItsWay(v)' <=> OnItsWay(v)
    BY <1>2 DEF OnItsWay
  <2>2. \A v \in Workers : req'[v].pc = "write" => req[v].pc = "write"
    BY <1>2
  <2> QED
    BY <1>1, <1>3, <2>1, <2>2 DEF FileInv
<1>8. PromiseInv'
  <2>1. \A n : InFile(n)' <=> InFile(n)
    BY <1>3 DEF InFile
  <2>2. \A x \in Workers : \A n : Deletes(x, n)' => Deletes(x, n) \/ (c.op = "delete" /\ n = c.arg)
    <3> SUFFICES ASSUME NEW x \in Workers, NEW n, Deletes(x, n)'
                 PROVE  Deletes(x, n) \/ (c.op = "delete" /\ n = c.arg)
      OBVIOUS
    <3>1. CASE x = w
      BY <1>2, <3>1 DEF Deletes
    <3>2. CASE x # w
      BY <1>2, <3>2 DEF Deletes
    <3> QED
      BY <3>1, <3>2
  <2>3. \A n \in promised' : n \in promised /\ ~(c.op = "delete" /\ n = c.arg)
    BY <1>3
  <2>4. \A n \in promised' : InFile(n) /\ n \in cfg.whitelist /\ \A x \in Workers : ~Deletes(x, n)
    BY <1>1, <1>3, <2>3 DEF PromiseInv
  <2>5. \A n \in promised' : InFile(n)' /\ n \in cfg'.whitelist /\ \A x \in Workers : ~Deletes(x, n)'
    BY <1>3, <2>1, <2>2, <2>3, <2>4
  <2>6. ASSUME NEW v \in Workers, req'[v].kept
        PROVE  /\ \A x \in Workers : ~Deletes(x, req[v].arg)'
               /\ req'[v].pc # "lock" => req'[v].arg \in cfg'.whitelist
               /\ req'[v].pc = "reply" => InFile(req[v].arg)'
    <3>1. CASE v = w
      <4>1. c.op = "add" /\ \A x \in Workers : ~Deletes(x, req'[v].arg)
        BY <1>2, <2>6, <3>1
      <4> QED
        BY <1>2, <2>2, <3>1, <4>1 DEF Deletes
    <3>2. CASE v # w
      <4>1. req[v].kept /\ req'[v].arg = req[v].arg /\ req'[v].pc = req[v].pc
            /\ ~(c.op = "delete" /\ req[v].arg = c.arg)
        BY <1>2, <2>6, <3>2
      <4>2. /\ \A x \in Workers : ~Deletes(x, req[v].arg)
            /\ req[v].pc # "lock" => req[v].arg \in cfg.whitelist
            /\ req[v].pc = "reply" => InFile(req[v].arg)
        BY <1>1, <4>1 DEF PromiseInv
      <4>3. \A x \in Workers : ~Deletes(x, req[v].arg)'
        BY <2>2, <4>1, <4>2 DEF Deletes
      <4>4. req[v].pc = "reply" => InFile(req[v].arg)'
        BY <2>1, <4>1, <4>2 DEF InFile
      <4> QED
        BY <1>3, <4>1, <4>2, <4>3, <4>4
    <3> QED
      BY <3>1, <3>2
  <2> QED
    BY <2>5, <2>6 DEF PromiseInv
<1> QED
  BY <1>4, <1>5, <1>6, <1>7, <1>8 DEF IInv

-----------------------------------------------------------------------------
(* The start and the end of the process.                                   *)

LEMMA LiveFromTypes == \A c \in Configs : LiveFrom(c) \in LiveType /\ c.upstream \in Proxies
BY DEF LiveFrom, LiveType, Configs

\* While the process starts nobody asks for anything.
LEMMA StartKeeps ==
    ASSUME IInv, UNCHANGED <<locks, data, req, promised>>, UpstreamTypeOK',
           phase # "up", phase' \in {"aside", "seed", "start", "up"},
           cfg' \in Configs, live' \in LiveType, file' \in Files, backup' \in Files, insync' \in BOOLEAN,
           insync' => file' = cfg', phase' = "aside" => file' = Unreadable,
           \A n \in promised : InFile(n) => InFile(n)' /\ n \in cfg'.whitelist
    PROVE  IInv'
<1>1. TypeOK /\ ReqInv /\ LockInv /\ FileInv /\ PromiseInv
  BY DEF IInv
<1>2. /\ writer' = writer /\ readers' = readers /\ saver' = saver /\ data' = data /\ req' = req
      /\ promised' = promised
  BY DEF locks
<1>3. TypeOK'
  BY <1>1, <1>2, TypesAre DEF TypeOK, SettingsTypeOK, ReqType, LiveType
<1>4. \A w \in Workers : req[w].pc = "idle" /\ ~req[w].kept
  BY <1>1 DEF LockInv, ReqInv, ReqOK
<1>5. ReqInv' /\ LockInv'
  BY <1>1, <1>2, <1>4 DEF ReqInv, LockInv, Reading
<1>6. FileInv'
  BY <1>2, <1>4 DEF FileInv
<1>7. PromiseInv'
  <2>1. \A n \in promised' : InFile(n)' /\ n \in cfg'.whitelist
    BY <1>1, <1>2 DEF PromiseInv
  <2>2. \A x \in Workers : \A n : ~Deletes(x, n)'
    BY <1>2, <1>4 DEF Deletes
  <2> QED
    BY <1>2, <1>4, <2>1, <2>2 DEF PromiseInv
<1> QED
  BY <1>3, <1>5, <1>6, <1>7 DEF IInv

LEMMA LoadStep == ASSUME IInv, Load PROVE IInv'
<1>1. TypeOK /\ file \in Files /\ backup \in Files /\ live \in LiveType /\ Default \in Configs
  BY TypesAre, SettingsAssumption DEF IInv
<1>2. /\ phase = "down" /\ live' = live /\ file' = file /\ backup' = backup
      /\ insync' = (file \in Configs) /\ UNCHANGED <<locks, data, req, promised, upstreamVars>>
      /\ \/ file \in Configs /\ cfg' = file /\ phase' = "start"
         \/ file = Missing /\ cfg' = Default /\ phase' = "seed"
         \/ file = Unreadable /\ cfg' = Default /\ phase' = "aside"
  BY DEF Load, disk
<1>3. UpstreamTypeOK'
  BY <1>1, <1>2, UpstreamSame DEF TypeOK
<1>4. insync' \in BOOLEAN
  BY <1>2
<1>5. insync' => file' = cfg'
  BY <1>2, SettingsAssumption
<1>6. cfg' \in Configs /\ (phase' = "aside" => file' = Unreadable)
      /\ phase' \in {"aside", "seed", "start", "up"}
  BY <1>1, <1>2
<1>7. \A n \in promised : InFile(n) => InFile(n)' /\ n \in cfg'.whitelist
  BY <1>2, SettingsAssumption DEF InFile
<1> QED
  BY <1>1, <1>2, <1>3, <1>4, <1>5, <1>6, <1>7, StartKeeps

LEMMA SetAsideStep == ASSUME IInv, SetAside PROVE IInv'
<1>1. /\ TypeOK /\ FileInv /\ file \in Files /\ backup \in Files /\ live \in LiveType /\ cfg \in Configs
      /\ insync \in BOOLEAN
  BY TypesAre DEF IInv
<1>2. /\ phase = "aside" /\ cfg' = cfg /\ live' = live /\ insync' = insync
      /\ UNCHANGED <<locks, data, req, promised, upstreamVars>>
      /\ \/ backup' = file /\ file' = Missing /\ phase' = "seed"
         \/ backup' = backup /\ file' = file /\ phase' = "start"
  BY DEF SetAside, history, disk
<1>3. UpstreamTypeOK'
  BY <1>1, <1>2, UpstreamSame DEF TypeOK
<1>4. file = Unreadable /\ file # cfg
  BY <1>1, <1>2, SettingsAssumption DEF FileInv
<1>5. ~insync
  <2>1. \A w \in Workers : ~OnItsWay(w)
    BY <1>2 DEF IInv, LockInv, OnItsWay
  <2> QED
    BY <1>1, <1>4, <2>1 DEF FileInv
<1>6. file' \in Files /\ backup' \in Files /\ phase' \in {"seed", "start"}
  BY <1>1, <1>2 DEF Files
<1>7. \A n : ~InFile(n)
  BY <1>4, SettingsAssumption DEF InFile
<1> QED
  BY <1>1, <1>2, <1>3, <1>5, <1>6, <1>7, StartKeeps

LEMMA SeedStep == ASSUME IInv, Seed PROVE IInv'
<1>1. /\ TypeOK /\ FileInv /\ PromiseInv /\ file \in Files /\ backup \in Files /\ live \in LiveType
      /\ cfg \in Configs /\ insync \in BOOLEAN
  BY TypesAre DEF IInv
<1>2. /\ phase = "seed" /\ phase' = "start" /\ cfg' = cfg /\ live' = live /\ backup' = backup
      /\ UNCHANGED <<locks, data, req, promised, upstreamVars>>
      /\ \/ file' = cfg /\ insync' = TRUE
         \/ file' = file /\ insync' = insync
  BY DEF Seed
<1>3. UpstreamTypeOK'
  BY <1>1, <1>2, UpstreamSame DEF TypeOK
<1>4. insync => file = cfg
  <2>1. \A w \in Workers : ~OnItsWay(w)
    BY <1>2 DEF IInv, LockInv, OnItsWay
  <2> QED
    BY <1>1, <2>1 DEF FileInv
<1>5. file' \in Files /\ (insync' => file' = cfg')
  BY <1>1, <1>2, <1>4 DEF Files
<1>7. insync' \in BOOLEAN
  BY <1>1, <1>2
<1>6. \A n \in promised : InFile(n) => InFile(n)' /\ n \in cfg'.whitelist
  BY <1>1, <1>2 DEF InFile, PromiseInv
<1> QED
  BY <1>1, <1>2, <1>3, <1>5, <1>6, <1>7, StartKeeps

LEMMA StartEngineStep == ASSUME IInv, StartEngine PROVE IInv'
<1>1. /\ TypeOK /\ FileInv /\ PromiseInv /\ file \in Files /\ backup \in Files
      /\ cfg \in Configs /\ insync \in BOOLEAN
  BY TypesAre DEF IInv
<1>2. /\ phase = "start" /\ phase' = "up" /\ cfg' = cfg /\ live' = LiveFrom(cfg) /\ file' = file
      /\ backup' = backup /\ insync' = insync
      /\ UNCHANGED <<locks, data, req, promised>> /\ Update(cfg.upstream)
  BY DEF StartEngine, disk, history
<1>3. UpstreamTypeOK' /\ live' \in LiveType
  BY <1>1, <1>2, LiveFromTypes, UpdateTypes DEF TypeOK
<1>4. insync => file = cfg
  <2>1. \A w \in Workers : ~OnItsWay(w)
    BY <1>2 DEF IInv, LockInv, OnItsWay
  <2> QED
    BY <1>1, <2>1 DEF FileInv
<1>5. \A n \in promised : InFile(n) => InFile(n)' /\ n \in cfg'.whitelist
  BY <1>1, <1>2 DEF InFile, PromiseInv
<1> QED
  BY <1>1, <1>2, <1>3, <1>4, <1>5, StartKeeps

\* What is left are the files.
LEMMA CrashStep == ASSUME IInv, Crash PROVE IInv'
<1>1. /\ TypeOK /\ PromiseInv /\ file \in Files /\ backup \in Files /\ promised \subseteq Names
      /\ Default \in Configs /\ LiveFrom(Default) \in LiveType /\ Default.upstream \in Proxies
  BY TypesAre, SettingsAssumption, LiveFromTypes DEF IInv
<1>2. /\ phase' = "down" /\ cfg' = Default /\ data' = Default /\ live' = LiveFrom(Default)
      /\ writer' = NoWorker /\ readers' = {} /\ saver' = NoWorker
      /\ req' = [w \in Workers |-> NoRequest] /\ insync' = FALSE
      /\ file' = file /\ backup' = backup /\ promised' = promised
  BY DEF Crash, disk
<1>3. \A w \in Workers : req'[w] = NoRequest
  BY <1>2
<1>4. req' \in [Workers -> ReqType]
  BY <1>2, NoRequestFine
<1>5. UpstreamTypeOK'
  BY <1>1 DEF Crash, UpstreamTypeOK, NoCall
<1>6. TypeOK'
  BY <1>1, <1>2, <1>4, <1>5 DEF TypeOK, SettingsTypeOK, ReqType, LiveType
<1>7. ReqInv'
  BY <1>3, NoRequestFine DEF ReqInv
<1>8. LockInv' /\ FileInv'
  BY <1>2, <1>3, NoRequestFine, SettingsAssumption DEF LockInv, Reading, FileInv
<1>9. PromiseInv'
  <2>1. \A n : InFile(n)' <=> InFile(n)
    BY <1>2 DEF InFile
  <2>2. \A n \in promised' : InFile(n)'
    BY <1>1, <1>2, <2>1 DEF PromiseInv
  <2>3. \A x \in Workers : \A n : ~Deletes(x, n)'
    BY <1>3, NoRequestFine DEF Deletes
  <2> QED
    BY <1>2, <1>3, <2>2, <2>3, NoRequestFine DEF PromiseInv
<1> QED
  BY <1>6, <1>7, <1>8, <1>9 DEF IInv

-----------------------------------------------------------------------------
(* Every step, and what follows.                                           *)

LEMMA InitInv == Init => IInv
<1> SUFFICES ASSUME Init PROVE IInv
  OBVIOUS
<1>1. /\ phase = "down" /\ cfg = Default /\ data = Default /\ live = LiveFrom(Default)
      /\ writer = NoWorker /\ readers = {} /\ saver = NoWorker /\ file \in Files /\ backup = Missing
      /\ req = [w \in Workers |-> NoRequest] /\ promised = {} /\ insync = FALSE
  BY DEF Init
<1>2. Default \in Configs /\ LiveFrom(Default) \in LiveType /\ Default.upstream \in Proxies
  BY SettingsAssumption, LiveFromTypes
<1>3. \A w \in Workers : req[w] = NoRequest
  BY <1>1
<1>4. req \in [Workers -> ReqType]
  BY <1>1, NoRequestFine
<1>5. UpstreamTypeOK
  BY <1>2 DEF Init, UpstreamInit, UpstreamTypeOK, NoCall
<1>6. TypeOK
  BY <1>1, <1>2, <1>4, <1>5 DEF TypeOK, SettingsTypeOK, ReqType, LiveType, Files
<1>7. ReqInv
  BY <1>3, NoRequestFine DEF ReqInv
<1>8. LockInv /\ FileInv
  BY <1>1, <1>3, NoRequestFine, SettingsAssumption DEF LockInv, Reading, FileInv
<1>9. PromiseInv
  BY <1>1, <1>3, NoRequestFine DEF PromiseInv
<1> QED
  BY <1>6, <1>7, <1>8, <1>9 DEF IInv

LEMMA Stutter == ASSUME IInv, UNCHANGED vars PROVE IInv'
<1>1. UNCHANGED <<phase, cfg, writer, readers, saver, data, live, file, backup, req, promised, insync>>
      /\ UNCHANGED upstreamVars
  BY DEF vars, settingsVars, locks, disk, history
<1>2. TypeOK'
  BY <1>1, UpstreamSame DEF IInv, TypeOK, SettingsTypeOK
<1>3. ReqInv' /\ LockInv' /\ FileInv'
  BY <1>1 DEF IInv, ReqInv, LockInv, Reading, FileInv, OnItsWay
<1>4. PromiseInv'
  BY <1>1 DEF IInv, PromiseInv, InFile, Deletes
<1> QED
  BY <1>2, <1>3, <1>4 DEF IInv

LEMMA HandleStep == ASSUME IInv, NEW w \in Workers, Handle(w) PROVE IInv'
<1>1. CASE Middle(w)
  BY <1>1, MiddleStep
<1>2. CASE Written(w)
  <2>1. SaveEnds(w, TRUE) /\ file' = data
    BY <1>2 DEF Written
  <2> QED
    BY <2>1, SaveStep
<1>3. CASE WriteFails(w)
  <2>1. SaveEnds(w, FALSE) /\ file' = file
    BY <1>3 DEF WriteFails
  <2> QED
    BY <2>1, SaveStep
<1> QED
  BY <1>1, <1>2, <1>3, ChangeStep, ReplyStep DEF Handle, Middle

LEMMA NextStep == IInv /\ [Next]_vars => IInv'
<1> SUFFICES ASSUME IInv, [Next]_vars PROVE IInv'
  OBVIOUS
<1>1. CASE Boot
  BY <1>1, LoadStep, SetAsideStep, SeedStep, StartEngineStep DEF Boot
<1>2. CASE \E w \in Workers : Handle(w) \/ \E c \in Changes : Receive(w, c)
  BY <1>2, HandleStep, ReceiveStep
<1> QED
  BY <1>1, <1>2, CrashStep, Stutter DEF Next

(* The invariant: every lock is held by whom the requests say, what is     *)
(* written is the configuration, and what was promised is never deleted.   *)
THEOREM SettingsInvariant == Spec => []IInv
BY InitInv, NextStep, PTL DEF Spec

(* Every variable keeps its type.                                          *)
THEOREM SettingsTypes == Spec => []TypeOK
<1>1. IInv => TypeOK
  BY DEF IInv
<1> QED
  BY <1>1, SettingsInvariant, PTL

(* An answered addition stays in config.json until somebody deletes the    *)
(* name, through concurrent requests, failed saves, deaths and restarts.   *)
THEOREM AcknowledgedIsDurable == Spec => []AckedIsDurable
<1>1. IInv => AckedIsDurable
  BY DEF IInv, PromiseInv, InFile, AckedIsDurable
<1> QED
  BY <1>1, SettingsInvariant, PTL

(* When no change is under way and the last save succeeded, config.json is *)
(* the configuration of the engine: concurrent saves never end in an older *)
(* one.                                                                    *)
THEOREM WhatIsSavedIsCurrent == Spec => []SavedIsCurrent
<1>1. IInv => SavedIsCurrent
  BY DEF IInv, FileInv, OnItsWay, SavedIsCurrent
<1> QED
  BY <1>1, SettingsInvariant, PTL

\* Only three steps touch the file, and each leaves it whole if it was.
LEMMA WholeStep == IInv /\ [Next]_vars => [(file \in Configs) => (file' \in Configs)]_vars
<1> SUFFICES ASSUME IInv, Next, file \in Configs PROVE file' \in Configs
  BY DEF vars, settingsVars, disk
<1>0. cfg \in Configs /\ data \in Configs
  BY TypesAre DEF IInv
<1>1. CASE Boot
  <2>1. ~SetAside
    BY SettingsAssumption DEF IInv, FileInv, SetAside
  <2> QED
    BY <1>0, <1>1, <2>1 DEF Boot, Load, Seed, StartEngine, disk
<1>2. CASE Crash
  BY <1>2 DEF Crash, disk
<1>3. ASSUME NEW w \in Workers, Handle(w) PROVE file' \in Configs
  <2>1. CASE Change(w) \/ Unlock(w) \/ Apply(w) \/ Redirect(w) \/ ApplyExempt(w)
    BY <2>1 DEF Change, Unlock, Apply, Redirect, ApplyExempt, disk
  <2>2. CASE ReadLock(w) \/ Marshal(w) \/ Reply(w)
    BY <2>2 DEF ReadLock, Marshal, Reply, disk
  <2>3. CASE Written(w) \/ WriteFails(w)
    BY <1>0, <2>3 DEF Written, WriteFails
  <2> QED
    BY <1>3, <2>1, <2>2, <2>3 DEF Handle
<1>4. ASSUME NEW w \in Workers, NEW c \in Changes, Receive(w, c) PROVE file' \in Configs
  BY <1>4 DEF Receive, disk
<1> QED
  BY <1>1, <1>2, <1>3, <1>4 DEF Next

(* Once config.json is whole no step of any request, start or death leaves *)
(* it missing or cut short.                                                *)
THEOREM FileIsAlwaysWhole == Spec => FileStaysWhole
BY SettingsInvariant, WholeStep, PTL DEF Spec, FileStaysWhole

=============================================================================
