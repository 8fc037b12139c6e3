------------------------- MODULE MCMappingProtocols -------------------------
(* Instances of MappingProtocols for TLC. *)
EXTENDS MappingProtocols, TLC

PcpGateway == {{"pcp"}}
OtherGateways == {{"nat_pmp"}, {"upnp"}}
AnyGateway == {{"pcp"}, {"nat_pmp"}, {"upnp"}}
Unreliable == {"lose", "delay", "duplicate", "reorder", "reuse", "offline"}

\* The calls of UPnP have no timeout of their own, so nothing bounds how late the
\* answer may be; time passes between its attempts only.
PromptUpnp == ~(supported = {"upnp"} /\ ~Quiet /\ Tick)

\* Only compared for equality.
Symmetry == Permutations(Ports) \cup Permutations(Exts) \cup Permutations(Nonces)
              \cup Permutations(Socks)
=============================================================================
