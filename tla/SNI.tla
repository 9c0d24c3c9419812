-------------------------------- MODULE SNI --------------------------------
(***************************************************************************)
(* internal/engine/sni.go: which host name a TLS ClientHello asks for.     *)
(*                                                                         *)
(* The parser walks over declared lengths, and where it reads next depends *)
(* on nothing else; a hello is therefore what the parser meets on its way: *)
(*   handshake   whether the record is a handshake record (byte 22)        *)
(*   record      the length the record declares, all of it received        *)
(*   kind        the type of its handshake message                         *)
(*   message     the length that the message declares                      *)
(*   session, suites, methods, block                                       *)
(*               the declared lengths of the session ID, the cipher        *)
(*               suites, the compression methods and the extensions        *)
(*   extensions  sequence of [type, len, list, names], list and names the  *)
(*               length and the content of the server name list in it      *)
(* and a name is [type, len, host].                                        *)
(***************************************************************************)
EXTENDS Integers, Sequences

Indices == INSTANCE FiniteSetsExt

CONSTANT NoHost   \* no host name: the intercepted address is dialled

\* Hellos that name members of hosts.
HelloType(hosts) ==
    LET Names == Seq([type : Nat, len : Nat, host : hosts]) IN
    [handshake : BOOLEAN, record : Nat, kind : Nat, message : Nat,
     session : Nat, suites : Nat, methods : Nat, block : Nat,
     extensions : Seq([type : Nat, len : Nat, list : Nat, names : Names])]

HandshakeHeader == 4 + 2 + 32   \* message header, version and random
Fixed == 34                     \* the least a ClientHello declares

\* The length-prefixed fields between the random and the extensions' end.
Prefixed(hello) == <<1 + hello.session, 2 + hello.suites, 1 + hello.methods, 2 + hello.block>>

\* Where a cursor is after n of what it passes, from where it starts.
Cursor(start, sizes) ==
    LET at[n \in 0 .. Len(sizes)] == IF n = 0 THEN start ELSE at[n - 1] + sizes[n] IN at

FieldsFit(hello) == Cursor(HandshakeHeader, Prefixed(hello))[4] <= hello.record

(***************************************************************************)
(* A loop over items with a header of the given width, in room bytes.      *)
(* item.is says what the item yields: a host ends the parse, and so does a *)
(* declared length that does not fit.                                      *)
(***************************************************************************)
Nothing == [host |-> NoHost, bad |-> FALSE]

Advance(s, width, item) ==
    IF s.is # Nothing \/ s.left < width THEN s
    ELSE IF item.len > s.left - width THEN [s EXCEPT !.is = [Nothing EXCEPT !.bad = TRUE]]
    ELSE [left |-> s.left - width - item.len, is |-> item.is]

Scan(width, room, items) ==
    LET state[n \in 0 .. Len(items)] ==
            IF n = 0 THEN [left |-> room, is |-> Nothing] ELSE Advance(state[n - 1], width, items[n])
    IN  state[Len(items)].is

\* MISTAKE: any entry of the server name list is taken for a host name.
NameOfAnyType(n) == IF n.len > 0 THEN [Nothing EXCEPT !.host = n.host] ELSE Nothing

Name(n) == IF n.type = 0 /\ n.len > 0 THEN [Nothing EXCEPT !.host = n.host] ELSE Nothing

Carries(e) == e.type = 0 /\ e.len >= 2 /\ e.list <= e.len - 2

Extension(e) ==
    IF Carries(e)
    THEN Scan(3, e.list, [k \in DOMAIN e.names |-> [len |-> e.names[k].len, is |-> Name(e.names[k])]])
    ELSE Nothing

\* The handler goes on with the intercepted address whatever the error.
ExtractSNI(hello) ==
    IF /\ hello.handshake /\ hello.record >= 4 /\ hello.kind = 1
       /\ hello.message >= Fixed /\ 4 + hello.message <= hello.record
       /\ FieldsFit(hello)
    THEN LET exts == hello.extensions IN
         Scan(4, hello.block,
              [i \in DOMAIN exts |-> [len |-> exts[i].len, is |-> Extension(exts[i])]]).host
    ELSE NoHost

-----------------------------------------------------------------------------
(***************************************************************************)
(* The reference: the first host name of the server name lists, provided   *)
(* that no declared length before it points past the end of what holds it. *)
(***************************************************************************)
WellFormed(hello) ==
    /\ hello.handshake /\ hello.kind = 1
    /\ Fixed <= hello.message /\ hello.message <= hello.record - 4
    /\ HandshakeHeader + 1 + hello.session + 2 + hello.suites + 1 + hello.methods
         + 2 + hello.block <= hello.record

\* Items 1 to i lie within room bytes; item i + 1 starts there but does not end there.
Fits(items, width, room, i) ==
    Cursor(0, [j \in 1 .. Len(items) |-> width + items[j].len])[i] <= room

Torn(items, width, room, i) ==
    /\ Fits(items, width, room, i) /\ ~Fits(items, width, room, i + 1)
    /\ Fits(items, width, room - width, i)

HostNames(e) ==
    {k \in DOMAIN e.names : Carries(e) /\ Fits(e.names, 3, e.list, k)
                             /\ e.names[k].type = 0 /\ e.names[k].len > 0}

Listed(hello) ==
    {i \in DOMAIN hello.extensions :
        Fits(hello.extensions, 4, hello.block, i) /\ HostNames(hello.extensions[i]) # {}}

NamedHost(hello) ==
    LET first == Indices!Min(Listed(hello)) IN
    IF /\ WellFormed(hello)
       /\ Listed(hello) # {}
       /\ \A i \in 1 .. first - 1 : LET e == hello.extensions[i] IN
             Carries(e) => \A k \in 0 .. Len(e.names) - 1 : ~Torn(e.names, 3, e.list, k)
    THEN hello.extensions[first].names[Indices!Min(HostNames(hello.extensions[first]))].host
    ELSE NoHost

=============================================================================
