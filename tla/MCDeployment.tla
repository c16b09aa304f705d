---------------------------- MODULE MCDeployment ----------------------------
(* Deployment on small instances.  The server starts from a file with one    *)
(* peer of its own; from one with a peer without addresses, a site-to-site   *)
(* peer, a section at the end and one free address; or from one of two that  *)
(* readState refuses.  Keys from elsewhere are negative, those generated     *)
(* here are counted from 1.                                                  *)
EXTENDS Deployment

Interface == <<Line("section", 0), Line("private", 0), Blank>>
OnePeer == Interface \o <<Line("peer", 0), Line("key", -1), Line("ips", {2}), Blank>>
NearlyFull ==
    Interface \o <<Line("peer", 0), Line("key", -1), Blank,
                   Line("peer", 0), Line("ips", {2, 4, 5, 6}), Line("key", -2),
                   Line("section", 1), Blank>>
NoPrivateKey == <<Line("section", 0), Blank>>
BadAddresses == Interface \o <<Line("peer", 0), Line("key", -1), Line("bad", 0)>>

MCConfs == {OnePeer, NearlyFull, NoPrivateKey, BadAddresses}
=============================================================================
