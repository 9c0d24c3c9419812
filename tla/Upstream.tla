------------------------------ MODULE Upstream ------------------------------
(***************************************************************************)
(* internal/engine/upstream.go: the configuration of the upstream proxy    *)
(* and the dialer built from it, shared by every TProxy handler and        *)
(* replaced by the settings page while they dial.                          *)
(*                                                                         *)
(* A proxy stands for its type, address and credentials; upstreamCacheKey  *)
(* tells any two apart, so a key is the proxy it was computed from.        *)
(***************************************************************************)
CONSTANTS
    Proxies,    \* upstream configurations
    NoProxy,    \* no dialer in the cache
    Dialers     \* goroutines that dial

ASSUME UpstreamAssumption == NoProxy \notin Proxies

VARIABLES
    current,    \* u.pType, u.pAddr, u.username, u.password
    cached,     \* the configuration u.cached was built from
    cachedKey,  \* u.cachedKey
    call        \* goroutine -> its call of Dial

upstreamVars == <<current, cached, cachedKey, call>>

(***************************************************************************)
(* A call.  proxy: the configuration it copied, then the one it dials;     *)
(* during (history): all that was current since the call began.            *)
(***************************************************************************)
NoCall == [pc |-> "idle", proxy |-> NoProxy, during |-> {}]

UpstreamTypeOK ==
    /\ current \in Proxies
    /\ cached \in Proxies \cup {NoProxy}
    /\ cachedKey \in Proxies \cup {NoProxy}
    /\ call \in [Dialers -> [pc : {"idle", "lookup", "build", "dialing"},
                             proxy : Proxies \cup {NoProxy}, during : SUBSET Proxies]]

UpstreamInit(p) ==
    /\ current = p
    /\ cached = NoProxy /\ cachedKey = NoProxy
    /\ call = [d \in Dialers |-> NoCall]

Witness(p) ==
    call' = [d \in Dialers |->
        IF call[d] = NoCall THEN NoCall ELSE [call[d] EXCEPT !.during = @ \cup {p}]]

\* Update drops the dialer.
Update(p) ==
    /\ current' = p
    /\ cached' = NoProxy /\ cachedKey' = NoProxy
    /\ Witness(p)

\* A handler calls Dial.
Call(d) ==
    /\ call[d].pc = "idle"
    /\ call' = [call EXCEPT ![d] = [pc |-> "lookup", proxy |-> NoProxy, during |-> {current}]]
    /\ UNCHANGED <<current, cached, cachedKey>>

\* Under u.mu.RLock: the cached dialer if its key is current, or a copy of
\* the configuration to build one from.
Lookup(d) ==
    /\ call[d].pc = "lookup"
    /\ call' = [call EXCEPT ![d] =
          IF cached # NoProxy /\ cachedKey = current
          THEN [@ EXCEPT !.pc = "dialing", !.proxy = cached]
          ELSE [@ EXCEPT !.pc = "build", !.proxy = current]]
    /\ UNCHANGED <<current, cached, cachedKey>>

\* MISTAKE: the new dialer is stored under the key that is current by now.
BuildUnderCurrentKey(d) ==
    /\ call[d].pc = "build"
    /\ call' = [call EXCEPT ![d].pc = "dialing"]
    /\ cached' = call[d].proxy /\ cachedKey' = current
    /\ UNCHANGED current

\* Under u.mu.Lock: somebody else's dialer for the same key, or a new one,
\* built from the copy and cached under the copy's key.
Build(d) ==
    /\ call[d].pc = "build"
    /\ \/ /\ cached # NoProxy /\ cachedKey = call[d].proxy
          /\ call' = [call EXCEPT ![d] = [@ EXCEPT !.pc = "dialing", !.proxy = cached]]
          /\ UNCHANGED <<cached, cachedKey>>
       \/ /\ cached = NoProxy \/ cachedKey # call[d].proxy
          /\ call' = [call EXCEPT ![d].pc = "dialing"]
          /\ cached' = call[d].proxy /\ cachedKey' = call[d].proxy
    /\ UNCHANGED current

\* d.Dial has returned, with a connection or an error.
Dialed(d) ==
    /\ call[d].pc = "dialing"
    /\ call' = [call EXCEPT ![d] = NoCall]
    /\ UNCHANGED <<current, cached, cachedKey>>

-----------------------------------------------------------------------------
(* Properties                                                              *)

(* Every connection is dialled through a proxy that was configured at some *)
(* moment of the call: a change takes effect with the next call, however   *)
(* many goroutines are still building dialers for the old configuration.   *)
DialsCurrent ==
    \A d \in Dialers : call[d].pc = "dialing" => call[d].proxy \in call[d].during

=============================================================================
