---------------------------- MODULE MCPacketPath ----------------------------
(* The packet path on a small host.                                        *)
EXTENDS PacketPath, TLC

CONSTANTS f1, f2, h1, h2, alice, bob

OneFlow == {f1}
TwoFlows == {f1, f2}
OneHandler == {h1}
TwoHandlers == {h1, h2}
Alice == {alice}
AliceAndBob == {alice, bob}

ToggledWhitelist == {{}, {alice}}
FixedWhitelist == {{alice}}
NoExemption == {{}}
ToggledExemption == {{}, {f1}}

FlowSymmetry == Permutations(TwoFlows)
HandlerSymmetry == Permutations(TwoHandlers)

=============================================================================
