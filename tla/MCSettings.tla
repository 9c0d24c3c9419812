----------------------------- MODULE MCSettings -----------------------------
(* Two requests at a time, of those that the settings page can send.       *)
EXTENDS Settings, TLC

CONSTANTS w1, w2, a, b, p1, p2, small

TwoWorkers == {w1, w2}
OneName == {a}
TwoNames == {a, b}
TwoProxies == {p1, p2}
OneBuffer == {small}
NoDialer == {}

DefaultConfig == [whitelist |-> {}, upstream |-> p1, buffer |-> small]

Add(n) == [op |-> "add", arg |-> n]
Del(n) == [op |-> "delete", arg |-> n]
Use(p) == [op |-> "upstream", arg |-> p]

Resize == [op |-> "buffer", arg |-> small]

Edits == {Add(a), Add(b), Del(a), Use(p2), Resize}
Removal == {Del(a)}

WorkerSymmetry == Permutations(TwoWorkers)

=============================================================================
