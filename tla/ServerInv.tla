----------------------------- MODULE ServerInv ------------------------------
(***************************************************************************)
(* The inductive invariant of Server.  Each conjunct of IInv says what one *)
(* piece of the code relies on; ServerProofs proves that every step keeps  *)
(* it and draws the theorems from it.                                      *)
(***************************************************************************)
EXTENDS Server

\* The program counters at which a handler has a session in hand.
HasSess == {"spawn", "check", "insert", "evict", "run", "terminating", "remove", "drained",
            "lastTerminate"}

\* The program counters at which a handler may own a slot of its session.
MayHoldSlot == {"evict", "run", "terminating", "remove"}

\* The slot of a handler.
SlotOf(c) == [id |-> local[c].stream, conn |-> c]

\* sessMu is held exactly by the handler that is inside Backend.Open, and the
\* id it opens is not in the map meanwhile.
LockInv ==
    /\ \A c \in Conns : pc[c] = "opening" <=> sessMu = c
    /\ \A c \in Conns : pc[c] = "opening" =>
          local[c].sid \in Sids /\ local[c].stream \in StreamIds /\ sessions[local[c].sid] = NoSess

\* A handler that has a session has its ids, and the session was opened.
LocalInv ==
    /\ \A c \in Conns : pc[c] \in HasSess =>
          /\ local[c].sess \in Sess /\ local[c].stream \in StreamIds
          /\ phase[local[c].sess] # "unborn"
    /\ \A c \in Conns : pc[c] = "evict" => local[c].displaced \in Conns
    /\ \A c \in Conns : pc[c] \notin HasSess => local[c].sess = NoSess

\* A session that was opened has an id; one that was not has no streams.
SessionInv ==
    /\ \A s \in Sess : phase[s] # "unborn" => sid[s] \in Sids
    /\ \A s \in Sess : phase[s] = "unborn" => streams[s] = {} /\ backendPc[s] = "off"

\* A handler about to start runBackend is the only one to do so for its session.
SpawnInv ==
    \A c \in Conns : pc[c] = "spawn" =>
        /\ backendPc[local[c].sess] = "off"
        /\ \A d \in Conns : pc[d] = "spawn" /\ local[d].sess = local[c].sess => d = c

\* Every entry is the slot of a handler of that session.
EntryInv ==
    \A s \in Sess : \A e \in streams[s] :
        /\ pc[e.conn] \in MayHoldSlot
        /\ local[e.conn].sess = s
        /\ e = SlotOf(e.conn)

\* session.addStream: a stream id has at most one slot in a session.
SlotInv == \A s \in Sess : \A e, f \in streams[s] : e.id = f.id => e = f

\* ReaderRegistered, from the moment the slot is taken.
ReaderInv ==
    \A c \in Conns : pc[c] \in {"evict", "run"} =>
        \/ SlotOf(c) \in streams[local[c].sess]
        \/ closed[c]
        \/ \E d \in Conns : pc[d] = "evict" /\ local[d].displaced = c

\* Whoever is inside terminate() won its CompareAndSwap.
ClaimInv ==
    /\ \A c \in Conns : pc[c] \in {"terminating", "lastTerminate"} => phase[local[c].sess] # "live"
    /\ \A s \in Sess : backendPc[s] = "terminating" => phase[s] \notin {"unborn", "live"}
    /\ stopPc = "terminating" => stopCur \in Sess /\ phase[stopCur] \notin {"unborn", "live"}

\* An unfinished terminate() has a goroutine that is inside it.
BusyInv ==
    \A s \in Sess : phase[s] \in {"claimed", "closed", "removed"} =>
        \/ \E c \in Conns : pc[c] \in {"terminating", "lastTerminate"} /\ local[c].sess = s
        \/ backendPc[s] = "terminating"
        \/ stopPc = "terminating" /\ stopCur = s

\* wg counts the running goroutines.
WgInv ==
    /\ wg.accept = 1 <=> acceptPc = "accept"
    /\ \A c \in Conns : c \in wg.conns <=> pc[c] \notin {"none", "done"}
    /\ \A s \in Sess : s \in wg.backends <=> backendPc[s] \in {"read", "terminating"}

\* A handler past its run has closed its connection.
ClosedInv == \A c \in Conns : pc[c] \in {"remove", "drained", "lastTerminate", "done"} => closed[c]

\* Stop runs only after Start, with the context cancelled; once it has copied
\* the sessions no UDP dial is under way.
StopInv ==
    /\ acceptPc = "off" => state = "new"
    /\ stopPc # "idle" => state = "stopped" /\ loopCtx = "cancelled"
    /\ backend = "udp" /\ stopPc \in {"walk", "terminating", "returned"} => sessMu = NoConn
    /\ stopPc = "returned" => wg.accept = 0 /\ wg.conns = {} /\ wg.backends = {}

IInv ==
    /\ TypeOK /\ LockInv /\ LocalInv /\ SessionInv /\ SpawnInv /\ RegistryExact /\ EntryInv 
    /\ SlotInv /\ ReaderInv /\ LiveSessionOwned /\ ClaimInv /\ BusyInv /\ WgInv /\ ClosedInv /\ StopInv
    /\ StopCoversSessions
=============================================================================
