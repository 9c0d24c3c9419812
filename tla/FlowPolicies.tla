--------------------------- MODULE FlowPolicies ---------------------------
(***************************************************************************)
(* internal/engine/flowpolicy.go: the routing decision of every TCP flow   *)
(* the interceptor has seen, and the sweep that forgets decisions.         *)
(*                                                                         *)
(* A decision remembers the mapped port but not whose lease it was: it is  *)
(* tied to the tracker only by "some flow holds this port".                *)
(***************************************************************************)
EXTENDS ConnTrack

VARIABLES
    policy,   \* flow -> its decision (flowPolicies.entries)
    dated     \* flows whose decision is older than the TTL of its kind

policyVars == <<policy, dated>>

Kinds == {"none", "pass", "intercept", "undecided"}
Decisions == [kind : Kinds, port : Ports \cup {NoPort}]

NoPolicy == [kind |-> "none", port |-> NoPort]
Pass == [kind |-> "pass", port |-> NoPort]
Undecided == [kind |-> "undecided", port |-> NoPort]
Intercept(p) == [kind |-> "intercept", port |-> p]
Block == Intercept(NoPort)

PolicyTypeOK ==
    /\ policy \in [Flows -> Decisions]
    /\ dated \subseteq Flows

PolicyInit ==
    /\ policy = [f \in Flows |-> NoPolicy]
    /\ dated = {}

\* flowPolicies.Set and Delete: createdAt starts afresh, and is never renewed.
PolicySet(f, d) ==
    /\ policy' = [policy EXCEPT ![f] = d]
    /\ dated' = dated \ {f}

PolicyDelete(f) == PolicySet(f, NoPolicy)

\* A hijack: its record lives as long as the port's lease, not by age.
Leased(f) == policy[f].kind = "intercept" /\ policy[f].port # NoPort

\* Time: the decision of f becomes older than its TTL, if it has one.
Age(f) ==
    /\ policy[f] # NoPolicy /\ ~Leased(f)
    /\ f \notin dated
    /\ dated' = dated \cup {f}
    /\ UNCHANGED policy

\* MISTAKE: a hijack is kept only once its handler has activated the port.
OutdatedUnlessPinned(f) ==
    /\ policy[f] # NoPolicy
    /\ IF Leased(f) THEN policy[f].port \notin active ELSE f \in dated

\* MISTAKE: a blocked flow waits for a FIN or RST that it never sends.
OutdatedExceptBlocked(f) ==
    /\ policy[f] # NoPolicy
    /\ IF Leased(f) THEN ~HasMapped(policy[f].port)
       ELSE f \in dated /\ policy[f] # Block

Outdated(f) ==
    /\ policy[f] # NoPolicy
    /\ IF Leased(f)
       THEN ~HasMapped(policy[f].port)
       ELSE f \in dated

\* sweep comes to the entry of f.  A pass holds p.mu from its first entry to
\* its last, but takes ct.mu anew for each, so the tracker moves in between.
Sweep(f) ==
    /\ Outdated(f)
    /\ PolicyDelete(f)

=============================================================================
