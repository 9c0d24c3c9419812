------------------------------ MODULE MCRelay ------------------------------
(* Two handlers, one port to lease, two upstreams, and hellos whose        *)
(* declared lengths fit and do not fit.                                    *)
EXTENDS Relay

CONSTANTS f1, h1, h2, http, socks, example, other

OneFlow == {f1}
TwoHandlers == {h1, h2}
TwoProxies == {http, socks}
HttpProxy == {http}
TwoHosts == {example, other}

Named(type, len, host) == [type |-> type, len |-> len, host |-> host]
Ext(type, len, list, names) == [type |-> type, len |-> len, list |-> list, names |-> names]

\* Server name lists: nine bytes that hold two names, three that hold an empty one.
Lists ==
    { Ext(type, 11, list, <<Named(kind, 2, other), Named(0, len, example)>>) :
        type \in {0, 16}, list \in {8, 9, 10}, kind \in {0, 1}, len \in {0, 1, 2} }
    \cup { Ext(0, 5, 3, <<Named(0, 0, other)>>), Ext(43, 0, 0, <<>>), Ext(0, 1, 0, <<>>) }

\* The extensions lie in twenty bytes and the record holds ninety, or it is cut short.
Hello(record, exts) ==
    [handshake |-> TRUE, kind |-> 1, record |-> record, message |-> record - 4,
     session |-> 16, suites |-> 4, methods |-> 1, block |-> 20, extensions |-> exts]

SomeHellos ==
    { Hello(85, <<e>>) : e \in Lists }
    \cup { Hello(85, <<Ext(0, 5, 3, <<Named(0, 0, other)>>), e>>) : e \in Lists }
    \cup { Hello(84, <<Ext(0, 7, 5, <<Named(0, 2, example)>>)>>), [Hello(3, <<>>) EXCEPT !.message = 0],
           [Hello(85, <<Ext(0, 7, 5, <<Named(0, 2, example)>>)>>) EXCEPT !.handshake = FALSE],
           [Hello(85, <<Ext(0, 7, 5, <<Named(0, 2, example)>>)>>) EXCEPT !.kind = 2] }

\* Bound: the peers of the second handler connect and end, and send nothing.
Mute(h) == client'[h].sent = 0 /\ server'[h].sent = 0

RelaySpec == Init /\ [][Next /\ Mute(h2)]_vars /\ \A h \in Handlers : WF_vars(Work(h))

=============================================================================
