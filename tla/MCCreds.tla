------------------------------ MODULE MCCreds ------------------------------
(* Creds on small instances: two links in turn for the credential groups.  *)
EXTENDS Creds

MCHints == <<"link1", "link2">>
=============================================================================
