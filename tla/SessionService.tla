--------------------------- MODULE SessionService ---------------------------
(***************************************************************************)
(* What backend.go promises of the session demultiplexer: Backend.Open is  *)
(* called once per session, the connection it returns belongs to that      *)
(* session until it is closed, and a client session id has at most one     *)
(* backend connection open at a time (a second one would give WireGuard    *)
(* two source addresses for one client).                                   *)
(***************************************************************************)
CONSTANTS Sids, Sess

VARIABLES
    open,  \* pairs <<session id, session>> whose backend connection is open
    used   \* sessions that were given a backend connection

Init == open = {} /\ used = {}

Open(i, s) ==
    /\ \A t \in Sess : <<i, t>> \notin open
    /\ s \notin used
    /\ open' = open \cup {<<i, s>>}
    /\ used' = used \cup {s}

Close(i, s) ==
    /\ <<i, s>> \in open
    /\ open' = open \ {<<i, s>>}
    /\ UNCHANGED used

Next == \E i \in Sids, s \in Sess : Open(i, s) \/ Close(i, s)

Spec == Init /\ [][Next]_<<open, used>>
=============================================================================
