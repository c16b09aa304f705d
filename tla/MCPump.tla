------------------------------- MODULE MCPump -------------------------------
(* Pump on small instances.                                                *)
EXTENDS Pump

AllPeerTypes == {"wireguard", "proxy_v1", "proxy_v2"}
DtlsPeerTypes == {"proxy_v1", "proxy_v2"}
=============================================================================
