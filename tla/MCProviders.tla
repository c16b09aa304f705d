------------------------------ MODULE MCProviders -----------------------------
(* Providers on a small instance: Chrome first and the terminal after it,    *)
(* an order the documentation of ChainSolver suggests.                      *)
EXTENDS Providers
MCSolvers == <<"cdp", "stdio">>
=============================================================================
