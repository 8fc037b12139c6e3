---------------------------- MODULE MCPortMapper ----------------------------
(* Instances of PortMapper for TLC. *)
EXTENDS PortMapper, TLC

\* UPnP alone, NAT-PMP alone and the default: with {"pcp"} of TwoConfigs,
\* get_mapping takes every branch.
MixedConfigs == {{"upnp"}, {"nat_pmp"}, Protocols}
\* The configurations in which get_mapping always has a protocol to try.
UpnpConfigs == {c \in SUBSET Protocols : "upnp" \in c}
\* The default configuration and one without the fallback.
TwoConfigs == {Protocols, {"pcp"}}
AnyNetwork == {"v4", "v6", "none"}
FlakyNetwork == {"v4", "none"}
GoodNetwork == {"v4"}

\* Ports, addresses and requests are only compared for equality.
Symmetry == Permutations(Ports) \cup Permutations(Addrs) \cup Permutations(Requests)
=============================================================================
