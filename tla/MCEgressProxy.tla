---------------------------- MODULE MCEgressProxy ----------------------------
(***************************************************************************)
(* TLC instances of EgressProxy.                                           *)
(***************************************************************************)
EXTENDS EgressProxy

CONSTANTS c1, c2
OneConn == {c1}
TwoConns == {c1, c2}
TwoAddresses == {1, 2}
ThreeAddresses == {1, 2, 3}
OneSize == {1}
TwoSizes == {1, 2}
V4Addresses == {1, 3}
OneName == {"host"}
TwoNames == {"host", "alias"}
=============================================================================
