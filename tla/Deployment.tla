----------------------------- MODULE Deployment -----------------------------
(* The command line at both ends: operators add and revoke peers on the      *)
(* server (Admin), and a client host connects (Client), with a URL one of    *)
(* them has printed or with a configuration file of its own.                 *)
EXTENDS Admin, Client

CONSTANT MaxKeys  \* bound: key pairs generated, the last of them with no client running

Init == AdminInit /\ ClientInit

Next ==
    \/ /\ AdminNext
       /\ keys' < MaxKeys \/ (keys' = MaxKeys /\ step = "idle")
       /\ UNCHANGED clientvars
    \/ /\ (Run /\ keys < MaxKeys) \/ ClientStep \/ Signal \/ Kill
       /\ UNCHANGED adminvars

\* Every step of a client's start has a timeout or is a local call, so it is over in time;
\* the operators promise nothing.
Spec ==
    /\ Init /\ [][Next]_<<adminvars, clientvars>>
    /\ WF_clientvars(ClientStep)
=============================================================================
