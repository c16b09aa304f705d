------------------------------ MODULE MCTunnel ------------------------------
(* Tunnel on small instances: the callers are model values.                *)
EXTENDS Tunnel
=============================================================================
