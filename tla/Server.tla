------------------------------- MODULE Server -------------------------------
(***************************************************************************)
(* pkg/wgturnsrv: the session demultiplexer (server.go, session.go) over a *)
(* Backend (backend.go, backend_kernel.go).  One goroutine accepts DTLS    *)
(* connections, one handler goroutine serves each of them, one goroutine   *)
(* per session reads its backend, and Stop runs in a goroutine of the      *)
(* caller.  A step is what happens between two points where another        *)
(* goroutine can be scheduled: a lock is an explicit holder only when it   *)
(* is kept across a call that may block (sessMu over Backend.Open);        *)
(* session.mu guards single steps.                                         *)
(*                                                                         *)
(* Packets change none of this state, so only the outcomes of reads and    *)
(* writes appear.                                                          *)
(***************************************************************************)
EXTENDS Naturals, FiniteSets

CONSTANTS
    Conns,      \* DTLS connections a listener can hand out
    Sids,       \* session identifiers clients present
    StreamIds,  \* stream identifiers clients present
    Sess,       \* *session objects
    Backends,   \* the Backend implementations considered
    NoConn, NoSess, NoSid, NoStream  \* nil

ASSUME ServerConstants ==
    /\ NoConn \notin Conns /\ NoSess \notin Sess
    /\ NoSid \notin Sids /\ NoStream \notin StreamIds
    /\ Backends \subseteq {"udp", "kernel"}

VARIABLES
    backend,    \* Config.Backend, fixed by New
    state,      \* Server.state
    loopCtx,    \* "live" or "cancelled"
    listener,   \* "none", "open", "closed"
    acceptPc,   \* acceptLoop
    wg,         \* Server.wg: the goroutines counted
    sessMu,     \* handler that holds Server.sessMu across Backend.Open
    sessions,   \* Server.sessions
    sid,        \* session.id
    phase,      \* session.terminated and how far its terminate() has come
    streams,    \* session.streams
    backendPc,  \* runBackend of each session
    pc,         \* handleConn of each connection
    local,      \* handleConn's sidHex, streamID, sess and displaced
    closed,     \* connections closed on this side
    stopPc, toStop, stopCur  \* Stop: position, sessions left, session in hand

lifeVars == <<backend, state, loopCtx, listener, acceptPc>>
mapVars == <<sessMu, sessions, sid>>
sessVars == <<phase, streams, backendPc>>
connVars == <<pc, local, closed>>
stopVars == <<stopPc, toStop, stopCur>>
vars == <<lifeVars, wg, mapVars, sessVars, connVars, stopVars>>

Entry == [id : StreamIds, conn : Conns]
Phases == {"unborn", "live", "claimed", "closed", "removed", "done"}
HandlerPcs == {"none", "handshake", "opening", "spawn", "check", "insert", "evict", "run",
               "terminating", "remove", "drained", "lastTerminate", "done"}
Locals == [sid : Sids \cup {NoSid}, stream : StreamIds \cup {NoStream},
           sess : Sess \cup {NoSess}, displaced : Conns \cup {NoConn}]
NoLocals == [sid |-> NoSid, stream |-> NoStream, sess |-> NoSess, displaced |-> NoConn]

\* The types of the fields and locals of server.go and session.go; toStop never
\* holds a nil *session, which Stop would call terminate() on.
TypeOK ==
    /\ backend \in Backends
    /\ state \in {"new", "started", "stopped"}
    /\ loopCtx \in {"live", "cancelled"}
    /\ listener \in {"none", "open", "closed"}
    /\ acceptPc \in {"off", "accept", "done"}
    /\ wg \in [accept : {0, 1}, conns : SUBSET Conns, backends : SUBSET Sess]
    /\ sessMu \in Conns \cup {NoConn}
    /\ sessions \in [Sids -> Sess \cup {NoSess}]
    /\ sid \in [Sess -> Sids \cup {NoSid}]
    /\ phase \in [Sess -> Phases]
    /\ streams \in [Sess -> SUBSET Entry]
    /\ backendPc \in [Sess -> {"off", "read", "terminating", "done"}]
    /\ pc \in [Conns -> HandlerPcs]
    /\ local \in [Conns -> Locals]
    /\ closed \in [Conns -> BOOLEAN]
    /\ stopPc \in {"idle", "snapshot", "walk", "terminating", "returned"}
    /\ toStop \in SUBSET Sess
    /\ stopCur \in Sess \cup {NoSess}

\* New.
Init ==
    /\ backend \in Backends
    /\ state = "new" /\ loopCtx = "live" /\ listener = "none" /\ acceptPc = "off"
    /\ wg = [accept |-> 0, conns |-> {}, backends |-> {}]
    /\ sessMu = NoConn
    /\ sessions = [i \in Sids |-> NoSess]
    /\ sid = [s \in Sess |-> NoSid]
    /\ phase = [s \in Sess |-> "unborn"]
    /\ streams = [s \in Sess |-> {}]
    /\ backendPc = [s \in Sess |-> "off"]
    /\ pc = [c \in Conns |-> "none"]
    /\ local = [c \in Conns |-> NoLocals]
    /\ closed = [c \in Conns |-> FALSE]
    /\ stopPc = "idle" /\ toStop = {} /\ stopCur = NoSess

-----------------------------------------------------------------------------
(* Server lifecycle: Start, the context it is given, acceptLoop. *)

\* A Start that fails to resolve or to listen returns with the state still new.
Start ==
    /\ state = "new"
    /\ state' = "started" /\ listener' = "open" /\ acceptPc' = "accept"
    /\ wg' = [wg EXCEPT !.accept = 1]
    /\ UNCHANGED <<backend, loopCtx, mapVars, sessVars, connVars, stopVars>>

\* The caller cancels the context given to Start; loopCtx is its child.
CtxCancel ==
    /\ state # "new" /\ loopCtx = "live"
    /\ loopCtx' = "cancelled"
    /\ UNCHANGED <<backend, state, listener, acceptPc, wg, mapVars, sessVars, connVars, stopVars>>

\* context.AfterFunc(loopCtx): a goroutine of its own, not counted by wg.
CloseListener ==
    /\ loopCtx = "cancelled" /\ listener = "open"
    /\ listener' = "closed"
    /\ UNCHANGED <<backend, state, loopCtx, acceptPc, wg, mapVars, sessVars, connVars, stopVars>>

\* acceptLoop hands a connection to a new handler goroutine.
Accept(c) ==
    /\ acceptPc = "accept" /\ listener = "open" /\ pc[c] = "none"
    /\ wg' = [wg EXCEPT !.conns = @ \cup {c}]
    /\ pc' = [pc EXCEPT ![c] = "handshake"]
    /\ UNCHANGED <<lifeVars, mapVars, sessVars, local, closed, stopVars>>

\* Accept fails: the loop ends for good, whatever the error was.
AcceptLoopEnd ==
    /\ acceptPc = "accept"
    /\ acceptPc' = "done"
    /\ wg' = [wg EXCEPT !.accept = 0]
    /\ UNCHANGED <<backend, state, loopCtx, listener, mapVars, sessVars, connVars, stopVars>>

-----------------------------------------------------------------------------
(* session.terminate: the winner of the CompareAndSwap takes these three  *)
(* steps; whoever loses it returns at once.                                *)

\* Faulty variant: terminate() without the CompareAndSwap runs again.
ClaimableAgain(s) == phase[s] \in {"live", "done"}

\* session.terminated.CompareAndSwap(false, true) succeeds.
Claimable(s) == phase[s] = "live"

\* s.backend.Close(); for the kernel backend this also re-arms Open.
CloseBackend(s) ==
    /\ phase[s] = "claimed"
    /\ phase' = [phase EXCEPT ![s] = "closed"]
    /\ UNCHANGED <<lifeVars, wg, mapVars, streams, backendPc, connVars, stopVars>>

\* Faulty variant: Stop walks the map with sessMu held, and terminate() needs it.
RemoveSessionLockedOut(s) ==
    /\ phase[s] = "closed" /\ sessMu = NoConn /\ stopPc \notin {"walk", "terminating"}
    /\ phase' = [phase EXCEPT ![s] = "removed"]
    /\ sessions' = [sessions EXCEPT ![sid[s]] = NoSess]
    /\ UNCHANGED <<lifeVars, wg, sessMu, sid, streams, backendPc, connVars, stopVars>>

\* onTerminate = removeSession: delete by key, under sessMu.
RemoveSession(s) ==
    /\ phase[s] = "closed" /\ sessMu = NoConn
    /\ phase' = [phase EXCEPT ![s] = "removed"]
    /\ sessions' = [sessions EXCEPT ![sid[s]] = NoSess]
    /\ UNCHANGED <<lifeVars, wg, sessMu, sid, streams, backendPc, connVars, stopVars>>

\* Faulty variant: removeStream calls terminate() with session.mu held.
CloseStreamsLockedOut(s) ==
    /\ phase[s] = "removed"
    /\ \A c \in Conns : ~(pc[c] = "lastTerminate" /\ local[c].sess = s)
    /\ phase' = [phase EXCEPT ![s] = "done"]
    /\ closed' = [c \in Conns |-> closed[c] \/ \E e \in streams[s] : e.conn = c]
    /\ streams' = [streams EXCEPT ![s] = {}]
    /\ UNCHANGED <<lifeVars, wg, mapVars, backendPc, pc, local, stopVars>>

\* The rest of terminate, under session.mu: close every registered stream.
CloseStreams(s) ==
    /\ phase[s] = "removed"
    /\ phase' = [phase EXCEPT ![s] = "done"]
    /\ closed' = [c \in Conns |-> closed[c] \/ \E e \in streams[s] : e.conn = c]
    /\ streams' = [streams EXCEPT ![s] = {}]
    /\ UNCHANGED <<lifeVars, wg, mapVars, backendPc, pc, local, stopVars>>

-----------------------------------------------------------------------------
(* handleConn, one goroutine per connection. *)

\* A handler returns: its locals are gone, wg.Done().
Return(c) ==
    /\ pc' = [pc EXCEPT ![c] = "done"]
    /\ local' = [local EXCEPT ![c] = NoLocals]
    /\ wg' = [wg EXCEPT !.conns = @ \ {c}]

\* A handler drops its connection and returns.
Drop(c) == Return(c) /\ closed' = [closed EXCEPT ![c] = TRUE]

\* ReadHandshake fails: short read, peer gone, or HandshakeTimeout.
HandshakeFails(c) ==
    /\ pc[c] = "handshake"
    /\ Drop(c)
    /\ UNCHANGED <<lifeVars, mapVars, sessVars, stopVars>>

\* ReadHandshake yields ids i and k; getOrCreateSession finds the session.
LookupHit(c, i, k) ==
    /\ pc[c] = "handshake" /\ sessMu = NoConn
    /\ sessions[i] # NoSess
    /\ local' = [local EXCEPT ![c] = [sid |-> i, stream |-> k, sess |-> sessions[i],
                                     displaced |-> NoConn]]
    /\ pc' = [pc EXCEPT ![c] = "check"]
    /\ UNCHANGED <<lifeVars, wg, mapVars, sessVars, closed, stopVars>>

\* Faulty variant: a UDPBackend that dials without its context.
OpenNeverRefused == FALSE

\* UDPBackend.Open dials with loopCtx, which fails when that is cancelled;
\* WGKernelBackend.Open ignores its context.
OpenRefused == backend = "udp" /\ loopCtx = "cancelled"

\* getOrCreateSession misses and Backend.Open fails at once.
LookupRefused(c, i) ==
    /\ pc[c] = "handshake" /\ sessMu = NoConn
    /\ sessions[i] = NoSess /\ OpenRefused
    /\ Drop(c)
    /\ UNCHANGED <<lifeVars, mapVars, sessVars, stopVars>>

\* Faulty variant: sessMu released before Backend.Open.
LookupMissUnlocked(c, i, k) ==
    /\ pc[c] = "handshake" /\ sessMu = NoConn
    /\ sessions[i] = NoSess /\ ~OpenRefused
    /\ local' = [local EXCEPT ![c] = [sid |-> i, stream |-> k, sess |-> NoSess,
                                     displaced |-> NoConn]]
    /\ pc' = [pc EXCEPT ![c] = "opening"]
    /\ UNCHANGED <<lifeVars, wg, mapVars, sessVars, closed, stopVars>>

\* getOrCreateSession misses and calls Backend.Open with sessMu held.
LookupMiss(c, i, k) ==
    /\ pc[c] = "handshake" /\ sessMu = NoConn
    /\ sessions[i] = NoSess /\ ~OpenRefused
    /\ sessMu' = c
    /\ local' = [local EXCEPT ![c] = [sid |-> i, stream |-> k, sess |-> NoSess,
                                     displaced |-> NoConn]]
    /\ pc' = [pc EXCEPT ![c] = "opening"]
    /\ UNCHANGED <<lifeVars, wg, sessions, sid, sessVars, closed, stopVars>>

\* WGKernelBackend serves one session at a time; UDPBackend dials a socket each.
CanOpen == backend = "kernel" => \A s \in Sess : phase[s] \notin {"live", "claimed"}

\* Open succeeds: the session enters the map and sessMu is released.
OpenSession(c) ==
    /\ pc[c] = "opening" /\ CanOpen
    /\ \E s \in Sess :
        /\ phase[s] = "unborn"
        /\ phase' = [phase EXCEPT ![s] = "live"]
        /\ sid' = [sid EXCEPT ![s] = local[c].sid]
        /\ sessions' = [sessions EXCEPT ![local[c].sid] = s]
        /\ local' = [local EXCEPT ![c].sess = s]
    /\ sessMu' = NoConn
    /\ pc' = [pc EXCEPT ![c] = "spawn"]
    /\ UNCHANGED <<lifeVars, wg, streams, backendPc, closed, stopVars>>

\* Open fails: sessMu is released and the connection dropped.
OpenFails(c) ==
    /\ pc[c] = "opening"
    /\ sessMu' = NoConn
    /\ Drop(c)
    /\ UNCHANGED <<lifeVars, sessions, sid, sessVars, stopVars>>

\* Faulty variant: the backend reader is not counted by wg.
SpawnBackendUncounted(c) ==
    /\ pc[c] = "spawn"
    /\ backendPc' = [backendPc EXCEPT ![local[c].sess] = "read"]
    /\ pc' = [pc EXCEPT ![c] = "check"]
    /\ UNCHANGED <<lifeVars, wg, mapVars, phase, streams, local, closed, stopVars>>

\* After sessMu is released: wg.Add(1) and go runBackend.
SpawnBackend(c) ==
    /\ pc[c] = "spawn"
    /\ wg' = [wg EXCEPT !.backends = @ \cup {local[c].sess}]
    /\ backendPc' = [backendPc EXCEPT ![local[c].sess] = "read"]
    /\ pc' = [pc EXCEPT ![c] = "check"]
    /\ UNCHANGED <<lifeVars, mapVars, phase, streams, local, closed, stopVars>>

\* addStream reads terminated before it takes session.mu: not terminated.
AddStreamCheck(c) ==
    /\ pc[c] = "check" /\ Claimable(local[c].sess)
    /\ pc' = [pc EXCEPT ![c] = "insert"]
    /\ UNCHANGED <<lifeVars, wg, mapVars, sessVars, local, closed, stopVars>>

\* addStream reports the session terminated: the connection is dropped.
AddStreamRefused(c) ==
    /\ pc[c] = "check" /\ ~Claimable(local[c].sess)
    /\ Drop(c)
    /\ UNCHANGED <<lifeVars, mapVars, sessVars, stopVars>>

\* addStream's scan finds no entry with this stream id.
SlotFree(c) == \A e \in streams[local[c].sess] : e.id # local[c].stream

\* addStream under session.mu, slot free.
AddStream(c) ==
    LET s == local[c].sess IN
    /\ pc[c] = "insert" /\ SlotFree(c)
    /\ streams' = [streams EXCEPT ![s] = @ \cup {[id |-> local[c].stream, conn |-> c]}]
    /\ pc' = [pc EXCEPT ![c] = "run"]
    /\ UNCHANGED <<lifeVars, wg, mapVars, phase, backendPc, local, closed, stopVars>>

\* addStream under session.mu, slot taken: its connection is displaced.
AddStreamDisplace(c) ==
    LET s == local[c].sess IN
    /\ pc[c] = "insert"
    /\ \E e \in streams[s] :
        /\ e.id = local[c].stream
        /\ streams' = [streams EXCEPT ![s] =
                         (@ \ {e}) \cup {[id |-> local[c].stream, conn |-> c]}]
        /\ local' = [local EXCEPT ![c].displaced = e.conn]
    /\ pc' = [pc EXCEPT ![c] = "evict"]
    /\ UNCHANGED <<lifeVars, wg, mapVars, phase, backendPc, closed, stopVars>>

\* displaced.Close(), with no lock held.
Evict(c) ==
    /\ pc[c] = "evict"
    /\ closed' = [closed EXCEPT ![local[c].displaced] = TRUE]
    /\ local' = [local EXCEPT ![c].displaced = NoConn]
    /\ pc' = [pc EXCEPT ![c] = "run"]
    /\ UNCHANGED <<lifeVars, wg, mapVars, sessVars, stopVars>>

\* runStream returned: the deferred conn.Close().
LeaveRun(c) ==
    /\ closed' = [closed EXCEPT ![c] = TRUE]
    /\ pc' = [pc EXCEPT ![c] = "remove"]

\* runStream: Read fails (closed on this side, peer gone, StreamReadTimeout).
ReadFails(c) ==
    /\ pc[c] = "run"
    /\ LeaveRun(c)
    /\ UNCHANGED <<lifeVars, wg, mapVars, sessVars, local, stopVars>>

\* runStream: a packet is read and the write to the backend fails; terminate.
WriteFails(c) ==
    LET s == local[c].sess IN
    /\ pc[c] = "run"
    /\ IF Claimable(s)
       THEN /\ phase' = [phase EXCEPT ![s] = "claimed"]
            /\ pc' = [pc EXCEPT ![c] = "terminating"]
            /\ UNCHANGED closed
       ELSE LeaveRun(c) /\ UNCHANGED phase
    /\ UNCHANGED <<lifeVars, wg, mapVars, streams, backendPc, local, stopVars>>

\* terminate returns to runStream, and runStream to handleConn.
TerminateReturns(c) ==
    /\ pc[c] = "terminating" /\ phase[local[c].sess] = "done"
    /\ LeaveRun(c)
    /\ UNCHANGED <<lifeVars, wg, mapVars, sessVars, local, stopVars>>

\* Faulty variant: the slot is cleared whoever holds it.
RemainingById(c) == {e \in streams[local[c].sess] : e.id # local[c].stream}

\* removeStream deletes the entry only if it still holds this connection.
Remaining(c) == streams[local[c].sess] \ {[id |-> local[c].stream, conn |-> c]}

\* Faulty variant: emptiness is read before the entry is deleted.
DrainedBefore(c) == streams[local[c].sess] = {}

\* removeStream's result: the slice is empty.
Drained(c) == Remaining(c) = {}

\* removeStream, under session.mu.
RemoveStream(c) ==
    /\ pc[c] = "remove"
    /\ streams' = [streams EXCEPT ![local[c].sess] = Remaining(c)]
    /\ IF Drained(c)
       THEN pc' = [pc EXCEPT ![c] = "drained"] /\ UNCHANGED <<local, wg>>
       ELSE Return(c)
    /\ UNCHANGED <<lifeVars, mapVars, phase, backendPc, closed, stopVars>>

\* The handler that drained the session calls terminate, after session.mu is free.
DrainedTerminate(c) ==
    LET s == local[c].sess IN
    /\ pc[c] = "drained"
    /\ IF Claimable(s)
       THEN /\ phase' = [phase EXCEPT ![s] = "claimed"]
            /\ pc' = [pc EXCEPT ![c] = "lastTerminate"]
            /\ UNCHANGED <<local, wg>>
       ELSE Return(c) /\ UNCHANGED phase
    /\ UNCHANGED <<lifeVars, mapVars, streams, backendPc, closed, stopVars>>

\* terminate returns to the deferred function, which returns.
DrainedReturns(c) ==
    /\ pc[c] = "lastTerminate" /\ phase[local[c].sess] = "done"
    /\ Return(c)
    /\ UNCHANGED <<lifeVars, mapVars, sessVars, closed, stopVars>>

-----------------------------------------------------------------------------
(* runBackend, one goroutine per session. *)

\* The read fails (closed, StreamReadTimeout, socket error); deferred terminate.
BackendReadFails(s) ==
    /\ backendPc[s] = "read"
    /\ IF Claimable(s)
       THEN /\ phase' = [phase EXCEPT ![s] = "claimed"]
            /\ backendPc' = [backendPc EXCEPT ![s] = "terminating"]
            /\ UNCHANGED wg
       ELSE /\ backendPc' = [backendPc EXCEPT ![s] = "done"]
            /\ wg' = [wg EXCEPT !.backends = @ \ {s}]
            /\ UNCHANGED phase
    /\ UNCHANGED <<lifeVars, mapVars, streams, connVars, stopVars>>

\* terminate returns; wg.Done().
BackendReturns(s) ==
    /\ backendPc[s] = "terminating" /\ phase[s] = "done"
    /\ backendPc' = [backendPc EXCEPT ![s] = "done"]
    /\ wg' = [wg EXCEPT !.backends = @ \ {s}]
    /\ UNCHANGED <<lifeVars, mapVars, phase, streams, connVars, stopVars>>

-----------------------------------------------------------------------------
(* Stop; a second call, or one before Start, returns at once. *)

\* Faulty variant: the accept context is not cancelled.
StopCallNoCancel ==
    /\ state = "started"
    /\ state' = "stopped" /\ stopPc' = "snapshot"
    /\ UNCHANGED <<backend, loopCtx, listener, acceptPc, wg, mapVars, sessVars, connVars, toStop, stopCur>>

\* Mark the server stopped and cancel loopCtx.
StopCall ==
    /\ state = "started"
    /\ state' = "stopped" /\ loopCtx' = "cancelled" /\ stopPc' = "snapshot"
    /\ UNCHANGED <<backend, listener, acceptPc, wg, mapVars, sessVars, connVars, toStop, stopCur>>

\* The session set is copied under sessMu.
StopSnapshot ==
    /\ stopPc = "snapshot" /\ sessMu = NoConn
    /\ toStop' = {s \in Sess : \E i \in Sids : sessions[i] = s}
    /\ stopPc' = "walk"
    /\ UNCHANGED <<lifeVars, wg, mapVars, sessVars, connVars, stopCur>>

\* sess.terminate() for the next session of the copy.
StopTerminate(s) ==
    /\ stopPc = "walk" /\ s \in toStop
    /\ toStop' = toStop \ {s}
    /\ IF Claimable(s)
       THEN /\ phase' = [phase EXCEPT ![s] = "claimed"]
            /\ stopPc' = "terminating" /\ stopCur' = s
       ELSE UNCHANGED <<phase, stopPc, stopCur>>
    /\ UNCHANGED <<lifeVars, wg, mapVars, streams, backendPc, connVars>>

\* terminate returns to Stop.
StopTerminateReturns ==
    /\ stopPc = "terminating" /\ phase[stopCur] = "done"
    /\ stopPc' = "walk" /\ stopCur' = NoSess
    /\ UNCHANGED <<lifeVars, wg, mapVars, sessVars, connVars, toStop>>

\* wg.Wait() returns when the counter is zero.
StopWaits ==
    /\ stopPc = "walk" /\ toStop = {}
    /\ wg.accept = 0 /\ wg.conns = {} /\ wg.backends = {}
    /\ stopPc' = "returned"
    /\ UNCHANGED <<lifeVars, wg, mapVars, sessVars, connVars, toStop, stopCur>>

-----------------------------------------------------------------------------
ServerStep == Start \/ CtxCancel \/ CloseListener \/ AcceptLoopEnd

TerminateStep(s) == CloseBackend(s) \/ RemoveSession(s) \/ CloseStreams(s)

ConnectStep(c) ==
    \/ Accept(c) \/ HandshakeFails(c)
    \/ \E i \in Sids, k \in StreamIds : LookupHit(c, i, k) \/ LookupMiss(c, i, k)
    \/ \E i \in Sids : LookupRefused(c, i)

OpenStep(c) == OpenSession(c) \/ OpenFails(c) \/ SpawnBackend(c)

RegisterStep(c) ==
    \/ AddStreamCheck(c) \/ AddStreamRefused(c) \/ AddStream(c) \/ AddStreamDisplace(c)
    \/ Evict(c)

RunStep(c) == ReadFails(c) \/ WriteFails(c) \/ TerminateReturns(c)

LeaveStep(c) == RemoveStream(c) \/ DrainedTerminate(c) \/ DrainedReturns(c)

HandlerStep(c) ==
    ConnectStep(c) \/ OpenStep(c) \/ RegisterStep(c) \/ RunStep(c) \/ LeaveStep(c)

BackendStep(s) == BackendReadFails(s) \/ BackendReturns(s)

StopStep ==
    \/ StopCall \/ StopSnapshot \/ (\E s \in Sess : StopTerminate(s))
    \/ StopTerminateReturns \/ StopWaits

Next ==
    \/ ServerStep
    \/ \E c \in Conns : HandlerStep(c)
    \/ \E s \in Sess : TerminateStep(s) \/ BackendStep(s)
    \/ StopStep

Spec == Init /\ [][Next]_vars
-----------------------------------------------------------------------------
(* Fairness: goroutines that can run do; a blocked call returns when its     *)
(* object is closed or its deadline passes.  Clients are not made to leave:  *)
(* a stream of a live session may go on for ever.                            *)

\* runStream cannot continue: its connection is closed, or its backend is and
\* the next packet fails to be written, or none comes before StreamReadTimeout.
ReadMustEnd(c) == closed[c] \/ ~Claimable(local[c].sess)

\* The handler's own steps; ReadHandshake ends by HandshakeTimeout.
HandlerMoves(c) ==
    \/ HandlerStep(c) /\ pc[c] \notin {"none", "run"}
    \/ (ReadFails(c) \/ WriteFails(c)) /\ ReadMustEnd(c)

\* runBackend cannot continue once its connection is closed.
BackendMoves(s) ==
    BackendReturns(s) \/ (BackendReadFails(s) /\ phase[s] \notin {"live", "claimed"})

\* Steps that are bound to be taken.  No step is ever undone, so fairness of
\* their disjunction is as strong as fairness of each goroutine.
Progress ==
    \/ CloseListener
    \/ AcceptLoopEnd /\ listener = "closed"
    \/ \E c \in Conns : HandlerMoves(c)
    \/ \E s \in Sess : TerminateStep(s) \/ BackendMoves(s)
    \/ StopStep /\ stopPc # "idle"

FairSpec == Spec /\ WF_vars(Progress)

-----------------------------------------------------------------------------
(* Safety *)

\* session.go terminate / server.go removeSession: the map holds exactly the
\* sessions whose terminate() has not yet removed them, each under its own id,
\* so that delete-by-key never takes out a successor with the same id.
RegistryExact ==
    /\ \A s \in Sess : phase[s] \in {"live", "claimed", "closed"} => sessions[sid[s]] = s
    /\ \A i \in Sids : sessions[i] # NoSess =>
          sid[sessions[i]] = i /\ phase[sessions[i]] \in {"live", "claimed", "closed"}

\* session.go addStream: a stream id has one slot in a session and a connection
\* has one slot in the whole server.
OneSlotPerStream ==
    /\ \A s \in Sess : \A e, f \in streams[s] : e.id = f.id => e = f
    /\ \A s, t \in Sess : \A e \in streams[s], f \in streams[t] : e.conn = f.conn => s = t

\* session.go removeStream: a handler that is still reading holds its slot, or
\* its connection is closed, or a handler that displaced it is about to close
\* it: the loser of an eviction never rips out the winner's slot.
ReaderRegistered ==
    \A c \in Conns : pc[c] = "run" =>
        \/ [id |-> local[c].stream, conn |-> c] \in streams[local[c].sess]
        \/ closed[c]
        \/ \E d \in Conns : pc[d] = "evict" /\ local[d].displaced = c

\* Handler c will register with session s, is registered, or will terminate it.
Owns(c, s) ==
    /\ local[c].sess = s
    /\ \/ pc[c] \in {"spawn", "check", "insert", "drained"}
       \/ /\ pc[c] \in {"evict", "run", "remove"}
          /\ [id |-> local[c].stream, conn |-> c] \in streams[s]

\* server.go handleConn: a live session always has a handler that will register
\* with it, is registered, or is about to terminate it; sessions do not leak.
LiveSessionOwned == \A s \in Sess : phase[s] = "live" => \E c \in Conns : Owns(c, s)

\* server.go Stop: when Stop returns no goroutine of the server is left, the map
\* is empty, every session ran its terminate() to the end and every accepted
\* connection is closed.
StopLeavesNothing ==
    stopPc = "returned" =>
        /\ acceptPc = "done"
        /\ \A c \in Conns : pc[c] \in {"none", "done"} /\ (pc[c] = "done" => closed[c])
        /\ \A s \in Sess : phase[s] \in {"unborn", "done"} /\ backendPc[s] \in {"off", "done"}
        /\ \A i \in Sids : sessions[i] = NoSess

\* server.go Stop with UDPBackend: after the copy of the session set is taken
\* no session is live that the walk does not still have to terminate, because a
\* dial with the cancelled context fails.
StopCoversSessions ==
    backend = "udp" /\ stopPc \in {"walk", "terminating", "returned"} =>
        \A s \in Sess : phase[s] = "live" => s \in toStop

\* backend.go Backend as SessionService promises it: the connection is open from
\* Open until terminate() closes it, before the id can be opened again.
Service == INSTANCE SessionService WITH
    open <- {<<sid[s], s>> : s \in {t \in Sess : phase[t] \in {"live", "claimed"}}},
    used <- {s \in Sess : phase[s] # "unborn"}

\* The demultiplexer implements SessionService: one backend connection per
\* client id at a time, each opened once.
OneBackendPerClient == Service!Spec

(* Liveness *)

\* server.go Stop: Stop returns once called.
StopReturns == stopPc = "snapshot" ~> stopPc = "returned"

\* server.go handleConn: a connection closed on this side (evicted, or its
\* session terminated) loses its handler.
ClosedConnsEnd == \A c \in Conns : closed[c] ~> pc[c] = "done"

\* session.go terminate: once begun it finishes, and the backend reader ends.
TerminateFinishes == \A s \in Sess : phase[s] = "claimed" ~> phase[s] = "done" /\ backendPc[s] = "done"
=============================================================================
