---------------------------- MODULE ServerProofs ----------------------------
(***************************************************************************)
(* Theorems about Server for every set of connections, session ids, stream *)
(* ids and session objects: its safety properties, and that it implements  *)
(* SessionService.                                                         *)
(***************************************************************************)
EXTENDS ServerInv, TLAPS

\* The provers a leaf that names none is tried with, in this order.
USE SMT, Zenon, Z3T(30)
-----------------------------------------------------------------------------
(* Every step keeps the types, and what the session map and its lock         *)
(* (server.go getOrCreateSession, removeSession) rely on.                    *)

\* A handler's return keeps the types of what it assigns.
LEMMA ReturnTypes ==
    ASSUME TypeOK, NEW c \in Conns, Return(c)
    PROVE  /\ pc' \in [Conns -> HandlerPcs] /\ local' \in [Conns -> Locals]
           /\ wg' \in [accept : {0, 1}, conns : SUBSET Conns, backends : SUBSET Sess]
<1>1. pc' \in [Conns -> HandlerPcs]
  BY DEF TypeOK, Return, HandlerPcs
<1>2. local' \in [Conns -> Locals]
  BY DEF TypeOK, Return, Locals, NoLocals
<1>3. wg' \in [accept : {0, 1}, conns : SUBSET Conns, backends : SUBSET Sess]
  BY DEF TypeOK, Return
<1> QED BY <1>1, <1>2, <1>3

\* The end of a handler's run keeps the types of what it assigns.
LEMMA LeaveRunTypes ==
    ASSUME TypeOK, NEW c \in Conns, LeaveRun(c)
    PROVE  pc' \in [Conns -> HandlerPcs] /\ closed' \in [Conns -> BOOLEAN]
BY DEF TypeOK, LeaveRun, HandlerPcs

\* A dropped connection keeps the types of what it assigns.
LEMMA DropTypes ==
    ASSUME TypeOK, NEW c \in Conns, Drop(c)
    PROVE  /\ pc' \in [Conns -> HandlerPcs] /\ local' \in [Conns -> Locals]
           /\ wg' \in [accept : {0, 1}, conns : SUBSET Conns, backends : SUBSET Sess]
           /\ closed' \in [Conns -> BOOLEAN]
<1>1. closed' \in [Conns -> BOOLEAN]
  BY DEF TypeOK, Drop
<1> QED BY <1>1, ReturnTypes DEF Drop

\* What AddStreamDisplace assigns, field by field. It is used at every leaf below: beside a
\* record update tlapm translates a leaf for SMT without inferring its types, which is
\* several times faster.
LEMMA LocalsUpdate ==
    ASSUME NEW l \in Locals, NEW d
    PROVE  [l EXCEPT !.displaced = d] =
               [sid |-> l.sid, stream |-> l.stream, sess |-> l.sess, displaced |-> d]
BY SMTT(30), Z3T(30) DEF Locals

USE LocalsUpdate

\* Every step keeps the types.
LEMMA TypePreserved ==
    TypeOK /\ LockInv /\ LocalInv /\ SessionInv /\ [Next]_vars => TypeOK'
<1> SUFFICES ASSUME TypeOK, LockInv, LocalInv, SessionInv, [Next]_vars PROVE TypeOK'
  OBVIOUS
<1> USE ServerConstants DEF TypeOK, SessionInv, Phases, HandlerPcs, Entry, Locals,
        NoLocals, lifeVars, mapVars, sessVars, connVars, stopVars
<1>1. CASE ServerStep
  <2>1. CASE Start
    BY <2>1 DEF Start
  <2>2. CASE CtxCancel
    BY <2>2 DEF CtxCancel
  <2>3. CASE CloseListener
    BY <2>3 DEF CloseListener
  <2>4. CASE AcceptLoopEnd
    BY <2>4 DEF AcceptLoopEnd
  <2> QED BY <1>1, <2>1, <2>2, <2>3, <2>4 DEF ServerStep
<1>2. CASE StopStep
  <2>1. CASE StopCall
    BY <2>1 DEF StopCall
  <2>2. CASE StopSnapshot
    BY <2>2 DEF StopSnapshot
  <2>3. ASSUME NEW s \in Sess, StopTerminate(s) PROVE TypeOK'
    BY <2>3 DEF StopTerminate, Claimable
  <2>4. CASE StopTerminateReturns
    BY <2>4 DEF StopTerminateReturns
  <2>5. CASE StopWaits
    BY <2>5 DEF StopWaits
  <2> QED BY <1>2, <2>1, <2>2, <2>3, <2>4, <2>5 DEF StopStep
<1>3. ASSUME NEW s \in Sess, TerminateStep(s) PROVE TypeOK'
  <2>1. CASE CloseBackend(s)
    BY <2>1 DEF CloseBackend
  <2>2. CASE RemoveSession(s)
    BY <2>2 DEF RemoveSession
  <2>3. CASE CloseStreams(s)
    BY <2>3 DEF CloseStreams
  <2> QED BY <1>3, <2>1, <2>2, <2>3 DEF TerminateStep
<1>4. ASSUME NEW s \in Sess, BackendStep(s) PROVE TypeOK'
  BY <1>4 DEF BackendStep, BackendReadFails, BackendReturns, Claimable
<1>5. ASSUME NEW c \in Conns, ConnectStep(c) PROVE TypeOK'
  <2>1. CASE Accept(c)
    BY <2>1 DEF Accept
  <2>2. CASE HandshakeFails(c)
    BY <2>2, DropTypes DEF HandshakeFails
  <2>3. ASSUME NEW i \in Sids, NEW k \in StreamIds, LookupHit(c, i, k) PROVE TypeOK'
    <3>1. local' \in [Conns -> Locals]
      BY <2>3 DEF LookupHit
    <3>2. pc' \in [Conns -> HandlerPcs]
      BY <2>3 DEF LookupHit
    <3> QED BY <2>3, <3>1, <3>2 DEF LookupHit
  <2>4. ASSUME NEW i \in Sids, NEW k \in StreamIds, LookupMiss(c, i, k) PROVE TypeOK'
    <3>1. local' \in [Conns -> Locals]
      BY <2>4 DEF LookupMiss
    <3>2. pc' \in [Conns -> HandlerPcs]
      BY <2>4 DEF LookupMiss
    <3> QED BY <2>4, <3>1, <3>2 DEF LookupMiss
  <2>5. ASSUME NEW i \in Sids, LookupRefused(c, i) PROVE TypeOK'
    BY <2>5, DropTypes DEF LookupRefused
  <2> QED BY <1>5, <2>1, <2>2, <2>3, <2>4, <2>5 DEF ConnectStep
<1>6. ASSUME NEW c \in Conns, OpenStep(c) PROVE TypeOK'
  <2>1. CASE OpenSession(c)
    <3>1. PICK s \in Sess :
             /\ phase' = [phase EXCEPT ![s] = "live"]
             /\ sid' = [sid EXCEPT ![s] = local[c].sid]
             /\ sessions' = [sessions EXCEPT ![local[c].sid] = s]
             /\ local' = [local EXCEPT ![c].sess = s]
      BY <2>1, Zenon DEF OpenSession
    <3>2. phase' \in [Sess -> Phases] /\ sid' \in [Sess -> Sids \cup {NoSid}]
      BY <3>1
    <3>3. sessions' \in [Sids -> Sess \cup {NoSess}]
      BY <2>1, <3>1 DEF OpenSession, LockInv
    <3>4. local' \in [Conns -> Locals]
      BY <3>1
    <3> QED BY <2>1, <3>2, <3>3, <3>4 DEF OpenSession
  <2>2. CASE OpenFails(c)
    BY <2>2, DropTypes DEF OpenFails
  <2>3. CASE SpawnBackend(c)
    BY <2>3 DEF SpawnBackend, LocalInv, HasSess
  <2> QED BY <1>6, <2>1, <2>2, <2>3 DEF OpenStep
<1>7. ASSUME NEW c \in Conns, RegisterStep(c) PROVE TypeOK'
  <2>1. CASE AddStreamCheck(c)
    BY <2>1 DEF AddStreamCheck, Claimable
  <2>2. CASE AddStreamRefused(c)
    BY <2>2, DropTypes DEF AddStreamRefused
  <2>3. CASE AddStream(c)
    BY <2>3 DEF AddStream, LocalInv, HasSess
  <2>4. CASE AddStreamDisplace(c)
    <3>1. PICK e \in streams[local[c].sess] :
             /\ streams' = [streams EXCEPT ![local[c].sess] =
                              (@ \ {e}) \cup {[id |-> local[c].stream, conn |-> c]}]
             /\ local' = [local EXCEPT ![c].displaced = e.conn]
      BY <2>4, Zenon DEF AddStreamDisplace
    <3>2. local[c].sess \in Sess /\ local[c].stream \in StreamIds /\ e.conn \in Conns
      BY <2>4, <3>1 DEF AddStreamDisplace, LocalInv, HasSess
    <3>3. streams' \in [Sess -> SUBSET Entry]
      BY <3>1, <3>2
    <3>4. local' \in [Conns -> Locals]
      BY <3>1, <3>2
    <3> QED BY <2>4, <3>3, <3>4 DEF AddStreamDisplace
  <2>5. CASE Evict(c)
    <3>1. closed' \in [Conns -> BOOLEAN]
      BY <2>5 DEF Evict, LocalInv
    <3>2. local' \in [Conns -> Locals]
      BY <2>5 DEF Evict
    <3> QED BY <2>5, <3>1, <3>2 DEF Evict
  <2> QED BY <1>7, <2>1, <2>2, <2>3, <2>4, <2>5 DEF RegisterStep
<1>8. ASSUME NEW c \in Conns, RunStep(c) PROVE TypeOK'
  <2>1. CASE ReadFails(c)
    BY <2>1 DEF ReadFails, LeaveRun
  <2>2. CASE WriteFails(c)
    <3>1. CASE Claimable(local[c].sess)
      BY <2>2, <3>1 DEF WriteFails
    <3>2. CASE ~Claimable(local[c].sess)
      BY <2>2, <3>2, LeaveRunTypes DEF WriteFails
    <3> QED BY <3>1, <3>2
  <2>3. CASE TerminateReturns(c)
    BY <2>3 DEF TerminateReturns, LeaveRun
  <2> QED BY <1>8, <2>1, <2>2, <2>3 DEF RunStep
<1>9. ASSUME NEW c \in Conns, LeaveStep(c) PROVE TypeOK'
  <2>1. CASE RemoveStream(c)
    <3>1. streams' \in [Sess -> SUBSET Entry]
      BY <2>1 DEF RemoveStream, Remaining, LocalInv, HasSess
    <3>2. CASE Drained(c)
      BY <2>1, <3>1, <3>2 DEF RemoveStream
    <3>3. CASE ~Drained(c)
      BY <2>1, <3>1, <3>3, ReturnTypes DEF RemoveStream
    <3> QED BY <3>2, <3>3
  <2>2. CASE DrainedTerminate(c)
    <3>1. CASE Claimable(local[c].sess)
      BY <2>2, <3>1 DEF DrainedTerminate
    <3>2. CASE ~Claimable(local[c].sess)
      BY <2>2, <3>2, ReturnTypes DEF DrainedTerminate
    <3> QED BY <3>1, <3>2
  <2>3. CASE DrainedReturns(c)
    BY <2>3, ReturnTypes DEF DrainedReturns
  <2> QED BY <1>9, <2>1, <2>2, <2>3 DEF LeaveStep
<1>10. CASE UNCHANGED vars
  BY <1>10 DEF vars
<1> QED BY <1>1, <1>2, <1>3, <1>4, <1>5, <1>6, <1>7, <1>8, <1>9, <1>10 DEF Next, HandlerStep

\* getOrCreateSession keeps sessMu over Backend.Open and lets go of it after.
LEMMA LockPreserved ==
    LockInv /\ TypeOK /\ [Next]_vars => LockInv'
<1> SUFFICES ASSUME LockInv, TypeOK, [Next]_vars PROVE LockInv'
  OBVIOUS
<1>t. /\ pc \in [Conns -> HandlerPcs] /\ local \in [Conns -> Locals]
      /\ sessions \in [Sids -> Sess \cup {NoSess}] /\ sid \in [Sess -> Sids \cup {NoSid}]
  BY DEF TypeOK
<1> USE <1>t, ServerConstants DEF LockInv, Locals, lifeVars, mapVars, sessVars, connVars, stopVars
<1>1. CASE ServerStep
  BY <1>1 DEF ServerStep, Start, CtxCancel, CloseListener, AcceptLoopEnd
<1>2. CASE StopStep
  BY <1>2 DEF StopStep, StopCall, StopSnapshot, StopTerminate, StopTerminateReturns, StopWaits,
     Claimable
<1>3. ASSUME NEW s \in Sess, TerminateStep(s) PROVE LockInv'
  BY <1>3 DEF TerminateStep, CloseBackend, RemoveSession, CloseStreams
<1>4. ASSUME NEW s \in Sess, BackendStep(s) PROVE LockInv'
  BY <1>4 DEF BackendStep, BackendReadFails, BackendReturns, Claimable
<1>5. ASSUME NEW c \in Conns, ConnectStep(c) PROVE LockInv'
  <2>1. CASE Accept(c)
    BY <2>1 DEF Accept
  <2>2. CASE HandshakeFails(c)
    BY <2>2 DEF HandshakeFails, Drop, Return
  <2>3. ASSUME NEW i \in Sids, NEW k \in StreamIds, LookupHit(c, i, k) PROVE LockInv'
    BY <2>3 DEF LookupHit
  <2>4. ASSUME NEW i \in Sids, NEW k \in StreamIds, LookupMiss(c, i, k) PROVE LockInv'
    BY <2>4 DEF LookupMiss, OpenRefused
  <2>5. ASSUME NEW i \in Sids, LookupRefused(c, i) PROVE LockInv'
    BY <2>5 DEF LookupRefused, OpenRefused, Drop, Return
  <2> QED BY <1>5, <2>1, <2>2, <2>3, <2>4, <2>5 DEF ConnectStep
<1>6. ASSUME NEW c \in Conns, OpenStep(c) PROVE LockInv'
  BY <1>6 DEF OpenStep, OpenSession, OpenFails, SpawnBackend, Drop, Return
<1>7. ASSUME NEW c \in Conns, RegisterStep(c) PROVE LockInv'
  BY <1>7 DEF RegisterStep, AddStreamCheck, AddStreamRefused, AddStream, AddStreamDisplace, Evict,
     Claimable, Drop, Return, SlotFree
<1>8. ASSUME NEW c \in Conns, RunStep(c) PROVE LockInv'
  BY <1>8 DEF RunStep, ReadFails, WriteFails, TerminateReturns, LeaveRun, Claimable
<1>9. ASSUME NEW c \in Conns, LeaveStep(c) PROVE LockInv'
  BY <1>9 DEF LeaveStep, RemoveStream, DrainedTerminate, DrainedReturns, Remaining, Drained,
     Return, Claimable
<1>10. CASE UNCHANGED vars
  BY <1>10 DEF vars
<1> QED BY <1>1, <1>2, <1>3, <1>4, <1>5, <1>6, <1>7, <1>8, <1>9, <1>10 DEF Next, HandlerStep

\* A handler's session is one that getOrCreateSession returned.
LEMMA LocalPreserved ==
    LocalInv /\ TypeOK /\ SessionInv /\ RegistryExact /\ LockInv /\ [Next]_vars => LocalInv'
<1> SUFFICES ASSUME LocalInv, TypeOK, SessionInv, RegistryExact, LockInv, [Next]_vars PROVE LocalInv'
  OBVIOUS
<1>t. /\ pc \in [Conns -> HandlerPcs] /\ local \in [Conns -> Locals] /\ phase \in [Sess -> Phases]
      /\ \A s \in Sess : \A e \in streams[s] : e.conn \in Conns
      /\ \A i \in Sids : sessions[i] # NoSess => sessions[i] \in Sess /\ phase[sessions[i]] # "unborn"
      /\ \A c \in Conns : pc[c] = "opening" => local[c].stream \in StreamIds
  BY DEF TypeOK, Entry, RegistryExact, LockInv
<1> USE <1>t DEF LocalInv, Locals, NoLocals, HasSess, lifeVars, mapVars, sessVars, connVars, stopVars
<1>1. CASE ServerStep
  BY <1>1 DEF ServerStep, Start, CtxCancel, CloseListener, AcceptLoopEnd
<1>2. CASE StopStep
  BY <1>2 DEF StopStep, StopCall, StopSnapshot, StopTerminate, StopTerminateReturns, StopWaits,
     Claimable
<1>3. ASSUME NEW s \in Sess, TerminateStep(s) PROVE LocalInv'
  BY <1>3 DEF TerminateStep, CloseBackend, RemoveSession, CloseStreams
<1>4. ASSUME NEW s \in Sess, BackendStep(s) PROVE LocalInv'
  BY <1>4 DEF BackendStep, BackendReadFails, BackendReturns, Claimable
<1>5. ASSUME NEW c \in Conns, ConnectStep(c) PROVE LocalInv'
  <2>1. CASE Accept(c)
    BY <2>1 DEF Accept
  <2>2. CASE HandshakeFails(c)
    BY <2>2 DEF HandshakeFails, Drop, Return
  <2>3. ASSUME NEW i \in Sids, NEW k \in StreamIds, LookupHit(c, i, k) PROVE LocalInv'
    BY <2>3 DEF LookupHit
  <2>4. ASSUME NEW i \in Sids, NEW k \in StreamIds, LookupMiss(c, i, k) PROVE LocalInv'
    BY <2>4 DEF LookupMiss, OpenRefused
  <2>5. ASSUME NEW i \in Sids, LookupRefused(c, i) PROVE LocalInv'
    BY <2>5 DEF LookupRefused, OpenRefused, Drop, Return
  <2> QED BY <1>5, <2>1, <2>2, <2>3, <2>4, <2>5 DEF ConnectStep
<1>6. ASSUME NEW c \in Conns, OpenStep(c) PROVE LocalInv'
  <2>1. CASE OpenSession(c)
    BY <2>1 DEF OpenSession
  <2>2. CASE OpenFails(c)
    BY <2>2 DEF OpenFails, Drop, Return
  <2>3. CASE SpawnBackend(c)
    BY <2>3 DEF SpawnBackend
  <2> QED BY <1>6, <2>1, <2>2, <2>3 DEF OpenStep
<1>7. ASSUME NEW c \in Conns, RegisterStep(c) PROVE LocalInv'
  <2>1. CASE AddStreamCheck(c)
    BY <2>1 DEF AddStreamCheck, Claimable
  <2>2. CASE AddStreamRefused(c)
    BY <2>2 DEF AddStreamRefused, Claimable, Drop, Return
  <2>3. CASE AddStream(c)
    BY <2>3 DEF AddStream, SlotFree
  <2>4. CASE AddStreamDisplace(c)
    BY <2>4 DEF AddStreamDisplace
  <2>5. CASE Evict(c)
    BY <2>5 DEF Evict
  <2> QED BY <1>7, <2>1, <2>2, <2>3, <2>4, <2>5 DEF RegisterStep
<1>8. ASSUME NEW c \in Conns, RunStep(c) PROVE LocalInv'
  BY <1>8 DEF RunStep, ReadFails, WriteFails, TerminateReturns, LeaveRun, Claimable
<1>9. ASSUME NEW c \in Conns, LeaveStep(c) PROVE LocalInv'
  <2>1. CASE RemoveStream(c)
    <3>1. /\ pc[c] = "remove" /\ phase' = phase
          /\ \/ pc' = [pc EXCEPT ![c] = "drained"] /\ local' = local
             \/ pc' = [pc EXCEPT ![c] = "done"] /\ local' = [local EXCEPT ![c] = NoLocals]
      BY <2>1, Zenon DEF RemoveStream, Return
    <3> QED BY <3>1
  <2>2. CASE DrainedTerminate(c)
    BY <2>2 DEF DrainedTerminate, Claimable, Return
  <2>3. CASE DrainedReturns(c)
    BY <2>3 DEF DrainedReturns, Return
  <2> QED BY <1>9, <2>1, <2>2, <2>3 DEF LeaveStep
<1>10. CASE UNCHANGED vars
  BY <1>10 DEF vars
<1> QED BY <1>1, <1>2, <1>3, <1>4, <1>5, <1>6, <1>7, <1>8, <1>9, <1>10, Zenon DEF Next, HandlerStep

\* newSession gives a session its id; nothing touches one before that.
LEMMA SessionPreserved ==
    SessionInv /\ TypeOK /\ LockInv /\ LocalInv /\ [Next]_vars => SessionInv'
<1> SUFFICES ASSUME SessionInv, TypeOK, LockInv, LocalInv, [Next]_vars PROVE SessionInv'
  OBVIOUS
<1>t. /\ phase \in [Sess -> Phases] /\ sid \in [Sess -> Sids \cup {NoSid}]
      /\ streams \in [Sess -> SUBSET Entry]
      /\ backendPc \in [Sess -> {"off", "read", "terminating", "done"}]
      /\ \A c \in Conns : pc[c] = "opening" => local[c].sid \in Sids
      /\ \A c \in Conns : pc[c] \in HasSess => local[c].sess \in Sess /\ phase[local[c].sess] # "unborn"
  BY DEF TypeOK, LockInv, LocalInv
<1> USE <1>t DEF SessionInv, HasSess, lifeVars, mapVars, sessVars, connVars, stopVars
<1>1. CASE ServerStep
  BY <1>1 DEF ServerStep, Start, CtxCancel, CloseListener, AcceptLoopEnd
<1>2. CASE StopStep
  BY <1>2 DEF StopStep, StopCall, StopSnapshot, StopTerminate, StopTerminateReturns, StopWaits,
     Claimable
<1>3. ASSUME NEW s \in Sess, TerminateStep(s) PROVE SessionInv'
  BY <1>3 DEF TerminateStep, CloseBackend, RemoveSession, CloseStreams
<1>4. ASSUME NEW s \in Sess, BackendStep(s) PROVE SessionInv'
  BY <1>4 DEF BackendStep, BackendReadFails, BackendReturns, Claimable
<1>5. ASSUME NEW c \in Conns, ConnectStep(c) PROVE SessionInv'
  <2>1. CASE Accept(c)
    BY <2>1 DEF Accept
  <2>2. CASE HandshakeFails(c)
    BY <2>2 DEF HandshakeFails, Drop, Return
  <2>3. ASSUME NEW i \in Sids, NEW k \in StreamIds, LookupHit(c, i, k) PROVE SessionInv'
    BY <2>3 DEF LookupHit
  <2>4. ASSUME NEW i \in Sids, NEW k \in StreamIds, LookupMiss(c, i, k) PROVE SessionInv'
    BY <2>4 DEF LookupMiss, OpenRefused
  <2>5. ASSUME NEW i \in Sids, LookupRefused(c, i) PROVE SessionInv'
    BY <2>5 DEF LookupRefused, OpenRefused, Drop, Return
  <2> QED BY <1>5, <2>1, <2>2, <2>3, <2>4, <2>5 DEF ConnectStep
<1>6. ASSUME NEW c \in Conns, OpenStep(c) PROVE SessionInv'
  BY <1>6 DEF OpenStep, OpenSession, OpenFails, SpawnBackend, Drop, Return
<1>7. ASSUME NEW c \in Conns, RegisterStep(c) PROVE SessionInv'
  BY <1>7 DEF RegisterStep, AddStreamCheck, AddStreamRefused, AddStream, AddStreamDisplace, Evict,
     Claimable, Drop, Return, SlotFree
<1>8. ASSUME NEW c \in Conns, RunStep(c) PROVE SessionInv'
  BY <1>8 DEF RunStep, ReadFails, WriteFails, TerminateReturns, LeaveRun, Claimable
<1>9. ASSUME NEW c \in Conns, LeaveStep(c) PROVE SessionInv'
  BY <1>9 DEF LeaveStep, RemoveStream, DrainedTerminate, DrainedReturns, Remaining, Drained,
     Return, Claimable
<1>10. CASE UNCHANGED vars
  BY <1>10 DEF vars
<1> QED BY <1>1, <1>2, <1>3, <1>4, <1>5, <1>6, <1>7, <1>8, <1>9, <1>10 DEF Next, HandlerStep

\* getOrCreateSession starts one runBackend per session.
LEMMA SpawnPreserved ==
    SpawnInv /\ TypeOK /\ LocalInv /\ SessionInv /\ [Next]_vars => SpawnInv'
<1> SUFFICES ASSUME SpawnInv, TypeOK, LocalInv, SessionInv, [Next]_vars PROVE SpawnInv'
  OBVIOUS
<1>t. /\ pc \in [Conns -> HandlerPcs] /\ local \in [Conns -> Locals]
      /\ backendPc \in [Sess -> {"off", "read", "terminating", "done"}]
      /\ \A s \in Sess : phase[s] = "unborn" => backendPc[s] = "off"
      /\ \A c \in Conns : pc[c] \in HasSess => local[c].sess \in Sess /\ phase[local[c].sess] # "unborn"
  BY DEF TypeOK, SessionInv, LocalInv
<1> USE <1>t DEF SpawnInv, Locals, HasSess, lifeVars, mapVars, sessVars, connVars, stopVars
<1>1. CASE ServerStep
  BY <1>1 DEF ServerStep, Start, CtxCancel, CloseListener, AcceptLoopEnd
<1>2. CASE StopStep
  BY <1>2 DEF StopStep, StopCall, StopSnapshot, StopTerminate, StopTerminateReturns, StopWaits,
     Claimable
<1>3. ASSUME NEW s \in Sess, TerminateStep(s) PROVE SpawnInv'
  BY <1>3 DEF TerminateStep, CloseBackend, RemoveSession, CloseStreams
<1>4. ASSUME NEW s \in Sess, BackendStep(s) PROVE SpawnInv'
  BY <1>4 DEF BackendStep, BackendReadFails, BackendReturns, Claimable
<1>5. ASSUME NEW c \in Conns, ConnectStep(c) PROVE SpawnInv'
  <2>1. CASE Accept(c)
    BY <2>1 DEF Accept
  <2>2. CASE HandshakeFails(c)
    BY <2>2 DEF HandshakeFails, Drop, Return
  <2>3. ASSUME NEW i \in Sids, NEW k \in StreamIds, LookupHit(c, i, k) PROVE SpawnInv'
    BY <2>3 DEF LookupHit
  <2>4. ASSUME NEW i \in Sids, NEW k \in StreamIds, LookupMiss(c, i, k) PROVE SpawnInv'
    BY <2>4 DEF LookupMiss, OpenRefused
  <2>5. ASSUME NEW i \in Sids, LookupRefused(c, i) PROVE SpawnInv'
    BY <2>5 DEF LookupRefused, OpenRefused, Drop, Return
  <2> QED BY <1>5, <2>1, <2>2, <2>3, <2>4, <2>5 DEF ConnectStep
<1>6. ASSUME NEW c \in Conns, OpenStep(c) PROVE SpawnInv'
  BY <1>6 DEF OpenStep, OpenSession, OpenFails, SpawnBackend, Drop, Return
<1>7. ASSUME NEW c \in Conns, RegisterStep(c) PROVE SpawnInv'
  BY <1>7 DEF RegisterStep, AddStreamCheck, AddStreamRefused, AddStream, AddStreamDisplace, Evict,
     Claimable, Drop, Return, SlotFree
<1>8. ASSUME NEW c \in Conns, RunStep(c) PROVE SpawnInv'
  BY <1>8 DEF RunStep, ReadFails, WriteFails, TerminateReturns, LeaveRun, Claimable
<1>9. ASSUME NEW c \in Conns, LeaveStep(c) PROVE SpawnInv'
  BY <1>9 DEF LeaveStep, RemoveStream, DrainedTerminate, DrainedReturns, Remaining, Drained,
     Return, Claimable
<1>10. CASE UNCHANGED vars
  BY <1>10 DEF vars
<1> QED BY <1>1, <1>2, <1>3, <1>4, <1>5, <1>6, <1>7, <1>8, <1>9, <1>10, Zenon DEF Next, HandlerStep

\* The map is changed by the insertion of getOrCreateSession, under the lock
\* that found the id free, and by the removeSession of the session's own terminate.
LEMMA RegistryPreserved ==
    RegistryExact /\ TypeOK /\ LockInv /\ SessionInv /\ [Next]_vars => RegistryExact'
<1> SUFFICES ASSUME RegistryExact, TypeOK, LockInv, SessionInv, [Next]_vars PROVE RegistryExact'
  OBVIOUS
<1>t. /\ sessions \in [Sids -> Sess \cup {NoSess}] /\ sid \in [Sess -> Sids \cup {NoSid}]
      /\ phase \in [Sess -> Phases] /\ \A s \in Sess : phase[s] # "unborn" => sid[s] \in Sids
      /\ \A c \in Conns : pc[c] = "opening" => local[c].sid \in Sids /\ sessions[local[c].sid] = NoSess
  BY DEF TypeOK, LockInv, SessionInv
<1> USE <1>t, ServerConstants DEF RegistryExact, lifeVars, mapVars, sessVars, connVars, stopVars
<1>1. CASE ServerStep
  BY <1>1 DEF ServerStep, Start, CtxCancel, CloseListener, AcceptLoopEnd
<1>2. CASE StopStep
  BY <1>2 DEF StopStep, StopCall, StopSnapshot, StopTerminate, StopTerminateReturns, StopWaits,
     Claimable
<1>3. ASSUME NEW s \in Sess, TerminateStep(s) PROVE RegistryExact'
  BY <1>3 DEF TerminateStep, CloseBackend, RemoveSession, CloseStreams
<1>4. ASSUME NEW s \in Sess, BackendStep(s) PROVE RegistryExact'
  BY <1>4 DEF BackendStep, BackendReadFails, BackendReturns, Claimable
<1>5. ASSUME NEW c \in Conns, ConnectStep(c) PROVE RegistryExact'
  <2>1. CASE Accept(c)
    BY <2>1 DEF Accept
  <2>2. CASE HandshakeFails(c)
    BY <2>2 DEF HandshakeFails, Drop, Return
  <2>3. ASSUME NEW i \in Sids, NEW k \in StreamIds, LookupHit(c, i, k) PROVE RegistryExact'
    BY <2>3 DEF LookupHit
  <2>4. ASSUME NEW i \in Sids, NEW k \in StreamIds, LookupMiss(c, i, k) PROVE RegistryExact'
    BY <2>4 DEF LookupMiss, OpenRefused
  <2>5. ASSUME NEW i \in Sids, LookupRefused(c, i) PROVE RegistryExact'
    BY <2>5 DEF LookupRefused, OpenRefused, Drop, Return
  <2> QED BY <1>5, <2>1, <2>2, <2>3, <2>4, <2>5, Zenon DEF ConnectStep
<1>6. ASSUME NEW c \in Conns, OpenStep(c) PROVE RegistryExact'
  BY <1>6 DEF OpenStep, OpenSession, OpenFails, SpawnBackend, Drop, Return
<1>7. ASSUME NEW c \in Conns, RegisterStep(c) PROVE RegistryExact'
  BY <1>7 DEF RegisterStep, AddStreamCheck, AddStreamRefused, AddStream, AddStreamDisplace, Evict,
     Claimable, Drop, Return, SlotFree
<1>8. ASSUME NEW c \in Conns, RunStep(c) PROVE RegistryExact'
  BY <1>8 DEF RunStep, ReadFails, WriteFails, TerminateReturns, LeaveRun, Claimable
<1>9. ASSUME NEW c \in Conns, LeaveStep(c) PROVE RegistryExact'
  BY <1>9 DEF LeaveStep, RemoveStream, DrainedTerminate, DrainedReturns, Remaining, Drained,
     Return, Claimable
<1>10. CASE UNCHANGED vars
  BY <1>10 DEF vars
<1> QED BY <1>1, <1>2, <1>3, <1>4, <1>5, <1>6, <1>7, <1>8, <1>9, <1>10, Zenon DEF Next, HandlerStep

-----------------------------------------------------------------------------
(* Every step keeps what the stream slots of a session (session.go           *)
(* addStream, removeStream; server.go handleConn) rely on.                   *)

\* addStream, removeStream and terminate leave only slots of running handlers.
LEMMA EntryPreserved ==
    EntryInv /\ TypeOK /\ LocalInv /\ [Next]_vars => EntryInv'
<1> SUFFICES ASSUME EntryInv, TypeOK, LocalInv, [Next]_vars PROVE EntryInv'
  OBVIOUS
<1>t. /\ pc \in [Conns -> HandlerPcs] /\ local \in [Conns -> Locals]
      /\ streams \in [Sess -> SUBSET Entry]
      /\ \A c \in Conns : pc[c] \in HasSess => local[c].sess \in Sess /\ local[c].stream \in StreamIds
  BY DEF TypeOK, LocalInv
<1> USE <1>t DEF EntryInv, Locals, NoLocals, HasSess, MayHoldSlot, SlotOf, Entry, lifeVars, mapVars,
        sessVars, connVars, stopVars
<1>1. CASE ServerStep
  BY <1>1 DEF ServerStep, Start, CtxCancel, CloseListener, AcceptLoopEnd
<1>2. CASE StopStep
  BY <1>2 DEF StopStep, StopCall, StopSnapshot, StopTerminate, StopTerminateReturns, StopWaits,
     Claimable
<1>3. ASSUME NEW s \in Sess, TerminateStep(s) PROVE EntryInv'
  BY <1>3 DEF TerminateStep, CloseBackend, RemoveSession, CloseStreams
<1>4. ASSUME NEW s \in Sess, BackendStep(s) PROVE EntryInv'
  BY <1>4 DEF BackendStep, BackendReadFails, BackendReturns, Claimable
<1>5. ASSUME NEW c \in Conns, ConnectStep(c) PROVE EntryInv'
  <2>1. CASE Accept(c)
    BY <2>1 DEF Accept
  <2>2. CASE HandshakeFails(c)
    BY <2>2 DEF HandshakeFails, Drop, Return
  <2>3. ASSUME NEW i \in Sids, NEW k \in StreamIds, LookupHit(c, i, k) PROVE EntryInv'
    BY <2>3 DEF LookupHit
  <2>4. ASSUME NEW i \in Sids, NEW k \in StreamIds, LookupMiss(c, i, k) PROVE EntryInv'
    BY <2>4 DEF LookupMiss, OpenRefused
  <2>5. ASSUME NEW i \in Sids, LookupRefused(c, i) PROVE EntryInv'
    BY <2>5 DEF LookupRefused, OpenRefused, Drop, Return
  <2> QED BY <1>5, <2>1, <2>2, <2>3, <2>4, <2>5 DEF ConnectStep
<1>6. ASSUME NEW c \in Conns, OpenStep(c) PROVE EntryInv'
  BY <1>6 DEF OpenStep, OpenSession, OpenFails, SpawnBackend, Drop, Return
<1>7. ASSUME NEW c \in Conns, RegisterStep(c) PROVE EntryInv'
  <2>1. CASE AddStreamCheck(c)
    BY <2>1 DEF AddStreamCheck, Claimable
  <2>2. CASE AddStreamRefused(c)
    BY <2>2 DEF AddStreamRefused, Claimable, Drop, Return
  <2>3. CASE AddStream(c)
    BY <2>3 DEF AddStream, SlotFree
  <2>4. CASE AddStreamDisplace(c)
    BY <2>4 DEF AddStreamDisplace
  <2>5. CASE Evict(c)
    BY <2>5 DEF Evict
  <2> QED BY <1>7, <2>1, <2>2, <2>3, <2>4, <2>5 DEF RegisterStep
<1>8. ASSUME NEW c \in Conns, RunStep(c) PROVE EntryInv'
  BY <1>8 DEF RunStep, ReadFails, WriteFails, TerminateReturns, LeaveRun, Claimable
<1>9. ASSUME NEW c \in Conns, LeaveStep(c) PROVE EntryInv'
  <2>1. CASE RemoveStream(c)
    BY <2>1 DEF RemoveStream, Remaining, Drained, Return
  <2>2. CASE DrainedTerminate(c)
    BY <2>2 DEF DrainedTerminate, Claimable, Return
  <2>3. CASE DrainedReturns(c)
    BY <2>3 DEF DrainedReturns, Return
  <2> QED BY <1>9, <2>1, <2>2, <2>3 DEF LeaveStep
<1>10. CASE UNCHANGED vars
  BY <1>10 DEF vars
<1> QED BY <1>1, <1>2, <1>3, <1>4, <1>5, <1>6, <1>7, <1>8, <1>9, <1>10 DEF Next, HandlerStep

\* addStream replaces the entry with its id and appends only when there is none.
LEMMA SlotPreserved ==
    SlotInv /\ TypeOK /\ LocalInv /\ EntryInv /\ [Next]_vars => SlotInv'
<1> SUFFICES ASSUME SlotInv, TypeOK, LocalInv, EntryInv, [Next]_vars PROVE SlotInv'
  OBVIOUS
<1>t. /\ streams \in [Sess -> SUBSET Entry]
      /\ \A c \in Conns : pc[c] \in HasSess => local[c].sess \in Sess
  BY DEF TypeOK, LocalInv
<1> USE <1>t DEF SlotInv, HasSess, lifeVars, mapVars, sessVars, connVars, stopVars
<1>1. CASE ServerStep
  BY <1>1 DEF ServerStep, Start, CtxCancel, CloseListener, AcceptLoopEnd
<1>2. CASE StopStep
  BY <1>2 DEF StopStep, StopCall, StopSnapshot, StopTerminate, StopTerminateReturns, StopWaits,
     Claimable
<1>3. ASSUME NEW s \in Sess, TerminateStep(s) PROVE SlotInv'
  BY <1>3 DEF TerminateStep, CloseBackend, RemoveSession, CloseStreams
<1>4. ASSUME NEW s \in Sess, BackendStep(s) PROVE SlotInv'
  BY <1>4 DEF BackendStep, BackendReadFails, BackendReturns, Claimable
<1>5. ASSUME NEW c \in Conns, ConnectStep(c) PROVE SlotInv'
  <2>1. CASE Accept(c)
    BY <2>1 DEF Accept
  <2>2. CASE HandshakeFails(c)
    BY <2>2 DEF HandshakeFails, Drop, Return
  <2>3. ASSUME NEW i \in Sids, NEW k \in StreamIds, LookupHit(c, i, k) PROVE SlotInv'
    BY <2>3 DEF LookupHit
  <2>4. ASSUME NEW i \in Sids, NEW k \in StreamIds, LookupMiss(c, i, k) PROVE SlotInv'
    BY <2>4 DEF LookupMiss, OpenRefused
  <2>5. ASSUME NEW i \in Sids, LookupRefused(c, i) PROVE SlotInv'
    BY <2>5 DEF LookupRefused, OpenRefused, Drop, Return
  <2> QED BY <1>5, <2>1, <2>2, <2>3, <2>4, <2>5, Zenon DEF ConnectStep
<1>6. ASSUME NEW c \in Conns, OpenStep(c) PROVE SlotInv'
  BY <1>6 DEF OpenStep, OpenSession, OpenFails, SpawnBackend, Drop, Return
<1>7. ASSUME NEW c \in Conns, RegisterStep(c) PROVE SlotInv'
  BY <1>7 DEF RegisterStep, AddStreamCheck, AddStreamRefused, AddStream, AddStreamDisplace, Evict,
     Claimable, Drop, Return, SlotFree
<1>8. ASSUME NEW c \in Conns, RunStep(c) PROVE SlotInv'
  BY <1>8 DEF RunStep, ReadFails, WriteFails, TerminateReturns, LeaveRun, Claimable
<1>9. ASSUME NEW c \in Conns, LeaveStep(c) PROVE SlotInv'
  BY <1>9 DEF LeaveStep, RemoveStream, DrainedTerminate, DrainedReturns, Remaining, Drained,
     Return, Claimable
<1>10. CASE UNCHANGED vars
  BY <1>10 DEF vars
<1> QED BY <1>1, <1>2, <1>3, <1>4, <1>5, <1>6, <1>7, <1>8, <1>9, <1>10 DEF Next, HandlerStep

\* A slot is lost by displacement, whose author closes the connection, or by
\* terminate, which closes it at once.
LEMMA ReaderPreserved ==
    ReaderInv /\ TypeOK /\ LocalInv /\ EntryInv /\ SlotInv /\ [Next]_vars => ReaderInv'
<1> SUFFICES ASSUME ReaderInv, TypeOK, LocalInv, EntryInv, SlotInv, [Next]_vars PROVE ReaderInv'
  OBVIOUS
<1>t. /\ pc \in [Conns -> HandlerPcs] /\ local \in [Conns -> Locals]
      /\ streams \in [Sess -> SUBSET Entry] /\ closed \in [Conns -> BOOLEAN]
      /\ \A c \in Conns : pc[c] \in HasSess => local[c].sess \in Sess
      /\ \A c \in Conns : pc[c] = "evict" => local[c].displaced \in Conns
  BY DEF TypeOK, LocalInv
<1> USE <1>t DEF ReaderInv, EntryInv, SlotInv, Locals, NoLocals, HasSess, MayHoldSlot, SlotOf, Entry,
        lifeVars, mapVars, sessVars, connVars, stopVars
<1>1. CASE ServerStep
  BY <1>1 DEF ServerStep, Start, CtxCancel, CloseListener, AcceptLoopEnd
<1>2. CASE StopStep
  BY <1>2 DEF StopStep, StopCall, StopSnapshot, StopTerminate, StopTerminateReturns, StopWaits,
     Claimable
<1>3. ASSUME NEW s \in Sess, TerminateStep(s) PROVE ReaderInv'
  <2>1. CASE CloseBackend(s)
    BY <2>1 DEF CloseBackend
  <2>2. CASE RemoveSession(s)
    BY <2>2 DEF RemoveSession
  <2>3. CASE CloseStreams(s)
    <3> SUFFICES ASSUME NEW c \in Conns, pc[c] \in {"evict", "run"},
                        SlotOf(c) \in streams[local[c].sess], ~closed'[c]
                 PROVE  SlotOf(c)' \in streams'[local'[c].sess]
      BY <2>3 DEF CloseStreams
    <3>1. ~\E e \in streams[s] : e.conn = c
      BY <2>3, Zenon DEF CloseStreams
    <3>a. SlotOf(c).conn = c
      BY Zenon DEF SlotOf
    <3>2. local[c].sess # s
      BY <3>1, <3>a
    <3> QED BY <2>3, <3>2 DEF CloseStreams
  <2> QED BY <1>3, <2>1, <2>2, <2>3, Zenon DEF TerminateStep
<1>4. ASSUME NEW s \in Sess, BackendStep(s) PROVE ReaderInv'
  BY <1>4 DEF BackendStep, BackendReadFails, BackendReturns, Claimable
<1>5. ASSUME NEW c \in Conns, ConnectStep(c) PROVE ReaderInv'
  <2>1. CASE Accept(c)
    BY <2>1 DEF Accept
  <2>2. CASE HandshakeFails(c)
    BY <2>2 DEF HandshakeFails, Drop, Return
  <2>3. ASSUME NEW i \in Sids, NEW k \in StreamIds, LookupHit(c, i, k) PROVE ReaderInv'
    BY <2>3 DEF LookupHit
  <2>4. ASSUME NEW i \in Sids, NEW k \in StreamIds, LookupMiss(c, i, k) PROVE ReaderInv'
    BY <2>4 DEF LookupMiss, OpenRefused
  <2>5. ASSUME NEW i \in Sids, LookupRefused(c, i) PROVE ReaderInv'
    BY <2>5 DEF LookupRefused, OpenRefused, Drop, Return
  <2> QED BY <1>5, <2>1, <2>2, <2>3, <2>4, <2>5, Zenon DEF ConnectStep
<1>6. ASSUME NEW c \in Conns, OpenStep(c) PROVE ReaderInv'
  <2>1. CASE OpenSession(c)
    BY <2>1 DEF OpenSession
  <2>2. CASE OpenFails(c)
    BY <2>2 DEF OpenFails, Drop, Return
  <2>3. CASE SpawnBackend(c)
    BY <2>3 DEF SpawnBackend
  <2> QED BY <1>6, <2>1, <2>2, <2>3, Zenon DEF OpenStep
<1>7. ASSUME NEW c \in Conns, RegisterStep(c) PROVE ReaderInv'
  <2>1. CASE AddStreamCheck(c)
    BY <2>1 DEF AddStreamCheck, Claimable
  <2>2. CASE AddStreamRefused(c)
    BY <2>2 DEF AddStreamRefused, Claimable, Drop, Return
  <2>3. CASE AddStream(c)
    BY <2>3 DEF AddStream, SlotFree
  <2>4. CASE AddStreamDisplace(c)
    BY <2>4 DEF AddStreamDisplace
  <2>5. CASE Evict(c)
    BY <2>5 DEF Evict
  <2> QED BY <1>7, <2>1, <2>2, <2>3, <2>4, <2>5, Zenon DEF RegisterStep
<1>8. ASSUME NEW c \in Conns, RunStep(c) PROVE ReaderInv'
  BY <1>8 DEF RunStep, ReadFails, WriteFails, TerminateReturns, LeaveRun, Claimable
<1>9. ASSUME NEW c \in Conns, LeaveStep(c) PROVE ReaderInv'
  <2>1. CASE RemoveStream(c)
    BY <2>1, SMTT(30), Z3T(60) DEF RemoveStream, Remaining, Drained, Return
  <2>2. CASE DrainedTerminate(c)
    BY <2>2 DEF DrainedTerminate, Claimable, Return
  <2>3. CASE DrainedReturns(c)
    BY <2>3 DEF DrainedReturns, Return
  <2> QED BY <1>9, <2>1, <2>2, <2>3, Zenon DEF LeaveStep
<1>10. CASE UNCHANGED vars
  BY <1>10 DEF vars
<1> QED BY <1>1, <1>2, <1>3, <1>4, <1>5, <1>6, <1>7, <1>8, <1>9, <1>10, Zenon DEF Next, HandlerStep

\* Ownership survives steps that leave the handler and its slot alone.
LEMMA OwnsFrame ==
    ASSUME NEW d \in Conns, NEW s \in Sess, Owns(d, s), pc'[d] = pc[d], local'[d] = local[d],
           streams'[s] = streams[s] \/ SlotOf(d) \in streams'[s]
    PROVE  Owns(d, s)'
BY Zenon DEF Owns, SlotOf

\* The last owner of a session leaves it drained, hands its slot to the handler
\* that displaced it, or leaves another registered handler behind.
LEMMA OwnedPreserved ==
    LiveSessionOwned /\ TypeOK /\ LocalInv /\ EntryInv /\ ClaimInv /\ [Next]_vars
        => LiveSessionOwned'
<1> SUFFICES ASSUME LiveSessionOwned, TypeOK, LocalInv, EntryInv, ClaimInv, [Next]_vars,
                    NEW s \in Sess, phase'[s] = "live"
             PROVE  \E c \in Conns : Owns(c, s)'
  BY DEF LiveSessionOwned
<1> USE DEF lifeVars, mapVars, sessVars, connVars, stopVars
<1>1. ASSUME phase[s] = "live", UNCHANGED <<pc, local>>, streams'[s] = streams[s]
      PROVE  \E c \in Conns : Owns(c, s)'
  BY <1>1, OwnsFrame DEF LiveSessionOwned
<1>2. CASE ServerStep
  BY <1>1, <1>2 DEF ServerStep, Start, CtxCancel, CloseListener, AcceptLoopEnd
<1>3. CASE StopStep
  <2>1. phase[s] = "live" /\ UNCHANGED <<pc, local, streams>>
    BY <1>3 DEF StopStep, StopCall, StopSnapshot, StopTerminate, StopTerminateReturns, StopWaits,
       TypeOK
  <2> QED BY <1>1, <2>1
<1>4. ASSUME NEW t \in Sess, TerminateStep(t) PROVE \E c \in Conns : Owns(c, s)'
  <2>1. phase[s] = "live" /\ UNCHANGED <<pc, local>> /\ streams'[s] = streams[s]
    BY <1>4 DEF TerminateStep, CloseBackend, RemoveSession, CloseStreams, TypeOK
  <2> QED BY <1>1, <2>1
<1>5. ASSUME NEW t \in Sess, BackendStep(t) PROVE \E c \in Conns : Owns(c, s)'
  <2>1. phase[s] = "live" /\ UNCHANGED <<pc, local, streams>>
    BY <1>5 DEF BackendStep, BackendReadFails, BackendReturns, TypeOK
  <2> QED BY <1>1, <2>1
<1>6. ASSUME NEW c \in Conns, OpenSession(c), phase[s] # "live" PROVE Owns(c, s)'
  BY <1>6 DEF OpenSession, Owns, TypeOK, Locals
<1>7. ASSUME NEW c \in Conns, HandlerStep(c), phase[s] = "live", NEW d \in Conns, d # c, Owns(d, s)
      PROVE  \E x \in Conns : Owns(x, s)'
  <2>1. pc'[d] = pc[d] /\ local'[d] = local[d]
    <3>1. CASE ConnectStep(c) \/ OpenStep(c)
      BY <1>7, <3>1 DEF ConnectStep, Accept, HandshakeFails, LookupHit, LookupMiss, LookupRefused,
         OpenStep, OpenSession, OpenFails, SpawnBackend, Drop, Return, TypeOK
    <3>2. CASE RegisterStep(c)
      BY <1>7, <3>2 DEF RegisterStep, AddStreamCheck, AddStreamRefused, AddStream,
         AddStreamDisplace, Evict, Drop, Return, TypeOK
    <3>3. CASE RunStep(c) \/ LeaveStep(c)
      BY <1>7, <3>3 DEF RunStep, ReadFails, WriteFails, TerminateReturns, LeaveRun, LeaveStep,
         RemoveStream, DrainedTerminate, DrainedReturns, Return, TypeOK
    <3> QED BY <1>7, <3>1, <3>2, <3>3 DEF HandlerStep
  <2>2. CASE UNCHANGED streams
    BY <1>7, <2>1, <2>2, OwnsFrame
  <2>3. CASE AddStream(c)
    <3>1. SlotOf(d) \in streams[s] => SlotOf(d) \in streams'[s]
      BY <2>3 DEF AddStream, TypeOK
    <3> QED BY <1>7, <2>1, <3>1 DEF Owns, SlotOf
  <2>4. CASE AddStreamDisplace(c)
    <3>1. CASE local[c].sess = s
      BY <2>4, <3>1 DEF AddStreamDisplace, Owns, TypeOK, Locals
    <3>2. CASE local[c].sess # s
      <4>1. streams'[s] = streams[s]
        BY <2>4, <3>2 DEF AddStreamDisplace, TypeOK
      <4> QED BY <1>7, <2>1, <4>1, OwnsFrame, Zenon
    <3> QED BY <3>1, <3>2
  <2>5. CASE RemoveStream(c)
    <3>1. SlotOf(d) \in streams[s] => SlotOf(d) \in streams'[s]
      BY <1>7, <2>5 DEF RemoveStream, Remaining, SlotOf, TypeOK
    <3> QED BY <1>7, <2>1, <3>1 DEF Owns, SlotOf
  <2>6. UNCHANGED streams \/ AddStream(c) \/ AddStreamDisplace(c) \/ RemoveStream(c)
    BY <1>7, Zenon DEF HandlerStep, ConnectStep, Accept, HandshakeFails, LookupHit, LookupMiss,
       LookupRefused, OpenStep, OpenSession, OpenFails, SpawnBackend, RegisterStep,
       AddStreamCheck, AddStreamRefused, Evict, RunStep, ReadFails, WriteFails, TerminateReturns,
       LeaveStep, DrainedTerminate, DrainedReturns
  <2> QED BY <2>2, <2>3, <2>4, <2>5, <2>6
<1>8. ASSUME NEW c \in Conns, HandlerStep(c), phase[s] = "live", Owns(c, s)
      PROVE  \E x \in Conns : Owns(x, s)'
  <2> USE <1>8 DEF Owns, TypeOK, Locals
  <2>1. CASE OpenStep(c)
    BY <2>1 DEF OpenStep, OpenSession, OpenFails, SpawnBackend
  <2>2. CASE RegisterStep(c)
    <3>1. CASE AddStreamCheck(c)
      BY <3>1 DEF AddStreamCheck
    <3>2. CASE AddStreamRefused(c)
      BY <3>2 DEF AddStreamRefused, Claimable
    <3>3. CASE AddStream(c)
      BY <3>3 DEF AddStream
    <3>4. CASE AddStreamDisplace(c)
      BY <3>4 DEF AddStreamDisplace
    <3>5. CASE Evict(c)
      BY <3>5 DEF Evict
    <3> QED BY <2>2, <3>1, <3>2, <3>3, <3>4, <3>5, Zenon DEF RegisterStep
  <2>3. CASE RunStep(c)
    BY <2>3 DEF RunStep, ReadFails, WriteFails, TerminateReturns, LeaveRun, Claimable
  <2>4. CASE RemoveStream(c)
    <3>1. CASE Drained(c)
      BY <2>4, <3>1 DEF RemoveStream
    <3>2. CASE ~Drained(c)
      <4>1. PICK e \in streams[s] : e # SlotOf(c)
        BY <2>4, <3>2 DEF Drained, Remaining, SlotOf
      <4>2. e = SlotOf(e.conn) /\ local[e.conn].sess = s /\ e.conn \in Conns
        BY <4>1 DEF EntryInv, Entry
      <4>3. pc[e.conn] \in {"evict", "run", "remove"}
        BY <4>1, <4>2 DEF EntryInv, ClaimInv, MayHoldSlot
      <4>4. e.conn # c
        BY <4>1, <4>2
      <4>5. e \in streams'[s]
        BY <2>4, <4>1 DEF RemoveStream, Remaining, SlotOf
      <4>6. pc'[e.conn] = pc[e.conn] /\ local'[e.conn] = local[e.conn]
        BY <2>4, <3>2, <4>2, <4>4 DEF RemoveStream, Return
      <4> QED BY <4>2, <4>3, <4>5, <4>6 DEF SlotOf
    <3> QED BY <3>1, <3>2, Zenon
  <2>5. ~ConnectStep(c) /\ ~DrainedTerminate(c) /\ ~DrainedReturns(c)
    BY DEF ConnectStep, Accept, HandshakeFails, LookupHit, LookupMiss, LookupRefused,
       DrainedTerminate, DrainedReturns, Claimable
  <2> QED BY <1>8, <2>1, <2>2, <2>3, <2>4, <2>5, Zenon DEF HandlerStep, LeaveStep
<1>9. ASSUME NEW c \in Conns, HandlerStep(c) PROVE \E x \in Conns : Owns(x, s)'
  <2>1. phase[s] = "live" \/ OpenSession(c)
    BY <1>9, Zenon DEF HandlerStep, ConnectStep, Accept, HandshakeFails, LookupHit, LookupMiss,
       LookupRefused, OpenStep, OpenFails, SpawnBackend, RegisterStep, AddStreamCheck,
       AddStreamRefused, AddStream, AddStreamDisplace, Evict, RunStep, ReadFails, WriteFails,
       TerminateReturns, LeaveStep, RemoveStream, DrainedTerminate, DrainedReturns, TypeOK
  <2> QED BY <1>6, <1>7, <1>8, <1>9, <2>1 DEF LiveSessionOwned
<1>10. CASE UNCHANGED vars
  BY <1>1, <1>10 DEF vars
<1> QED BY <1>2, <1>3, <1>4, <1>5, <1>9, <1>10 DEF Next
-----------------------------------------------------------------------------
(* Every step keeps what termination and Stop (session.go terminate;         *)
(* server.go Stop) rely on.                                                  *)

\* Handler c is inside terminate() of session s.
Terminating(c, s) == pc[c] \in {"terminating", "lastTerminate"} /\ local[c].sess = s

\* Stop is inside terminate() of session s.
StopTerminating(s) == stopPc = "terminating" /\ stopCur = s

\* Nobody enters terminate() of s.
NobodyEnters(s) ==
    /\ \A c \in Conns : Terminating(c, s)' => Terminating(c, s)
    /\ backendPc'[s] = "terminating" => backendPc[s] = "terminating"
    /\ StopTerminating(s)' => StopTerminating(s)

\* Nobody leaves terminate() of s.
NobodyLeaves(s) ==
    /\ \A c \in Conns : Terminating(c, s) => Terminating(c, s)'
    /\ backendPc[s] = "terminating" => backendPc'[s] = "terminating"
    /\ StopTerminating(s) => StopTerminating(s)'

\* The step opens s, or takes a step of terminate(), or does nothing to its phase.
PhaseKeeps(s) ==
    \/ phase'[s] = phase[s]
    \/ phase[s] = "unborn" /\ phase'[s] = "live"
    \/ phase[s] \in {"claimed", "closed", "removed"} /\ phase'[s] \in {"closed", "removed", "done"}

\* Nobody enters, and whoever leaves has finished.
Kept(s) == NobodyEnters(s) /\ PhaseKeeps(s) /\ (phase[s] = "done" \/ NobodyLeaves(s))

\* A live session's terminate() is entered by one goroutine.
OneEnters(s) ==
    /\ phase[s] = "live" /\ phase'[s] = "claimed"
    /\ \/ \E c \in Conns : /\ Terminating(c, s)'
                           /\ \A d \in Conns : Terminating(d, s)' => Terminating(d, s) \/ d = c
                           /\ backendPc' = backendPc /\ (StopTerminating(s)' => StopTerminating(s))
       \/ /\ backendPc'[s] = "terminating"
          /\ \A d \in Conns : Terminating(d, s)' => Terminating(d, s)
          /\ StopTerminating(s)' => StopTerminating(s)
       \/ /\ StopTerminating(s)'
          /\ \A d \in Conns : Terminating(d, s)' => Terminating(d, s)
          /\ backendPc' = backendPc

\* The CompareAndSwap lets one goroutine in, and it stays until it is done.
LEMMA Entering ==
    ASSUME TypeOK, LocalInv, SpawnInv, StopInv, [Next]_vars, NEW s \in Sess
    PROVE  Kept(s) \/ OneEnters(s)
<1> USE DEF Terminating, StopTerminating, lifeVars, mapVars, sessVars, connVars, stopVars
<1> DEFINE T == {"terminating", "lastTerminate"}
<1>1. CASE /\ pc' = pc /\ local' = local /\ backendPc' = backendPc /\ stopPc' = stopPc
           /\ stopCur' = stopCur /\ PhaseKeeps(s)
  BY <1>1, Zenon DEF NobodyEnters, NobodyLeaves, Kept
<1>2. CASE ServerStep \/ UNCHANGED vars
  BY <1>1, <1>2, Zenon DEF ServerStep, Start, CtxCancel, CloseListener, AcceptLoopEnd, vars, PhaseKeeps
<1>3. ASSUME NEW t \in Sess, TerminateStep(t) PROVE Kept(s) \/ OneEnters(s)
  <2>1. PhaseKeeps(s)
    BY <1>3 DEF TerminateStep, CloseBackend, RemoveSession, CloseStreams, PhaseKeeps, TypeOK
  <2> QED BY <1>1, <1>3, <2>1, Zenon DEF TerminateStep, CloseBackend, RemoveSession, CloseStreams
<1>4. ASSUME NEW t \in Sess, BackendStep(t) PROVE Kept(s) \/ OneEnters(s)
  <2> USE DEF Kept, NobodyEnters, NobodyLeaves, OneEnters, PhaseKeeps
  <2>1. CASE BackendReadFails(t)
    BY <2>1 DEF BackendReadFails, Claimable, TypeOK
  <2>2. CASE BackendReturns(t)
    BY <2>2 DEF BackendReturns, TypeOK
  <2> QED BY <1>4, <2>1, <2>2, Zenon DEF BackendStep
<1>5. CASE StopStep
  <2>1. CASE /\ pc' = pc /\ local' = local /\ backendPc' = backendPc /\ phase' = phase
             /\ stopPc # "terminating" /\ stopPc' # "terminating"
    BY <2>1, Zenon DEF NobodyEnters, NobodyLeaves, Kept, PhaseKeeps
  <2>2. CASE StopCall
    BY <2>1, <2>2 DEF StopCall, StopInv
  <2>3. CASE StopSnapshot
    BY <2>1, <2>3 DEF StopSnapshot
  <2>4. ASSUME NEW t \in Sess, StopTerminate(t) PROVE Kept(s) \/ OneEnters(s)
    <3>1. CASE Claimable(t)
      <4>1. CASE s = t
        BY <2>4, <3>1, <4>1 DEF StopTerminate, Claimable, OneEnters, TypeOK
      <4>2. CASE s # t
        BY <2>4, <3>1, <4>2 DEF StopTerminate, Kept, NobodyEnters, NobodyLeaves, PhaseKeeps, TypeOK
      <4> QED BY <4>1, <4>2
    <3>2. CASE ~Claimable(t)
      BY <2>1, <2>4, <3>2 DEF StopTerminate
    <3> QED BY <3>1, <3>2
  <2>5. CASE StopTerminateReturns
    BY <2>5 DEF StopTerminateReturns, Kept, NobodyEnters, NobodyLeaves, PhaseKeeps
  <2>6. CASE StopWaits
    BY <2>1, <2>6 DEF StopWaits
  <2> QED BY <1>5, <2>2, <2>3, <2>4, <2>5, <2>6, Zenon DEF StopStep
<1>6. ASSUME NEW c \in Conns, pc'[c] \notin T, pc[c] \notin T \/ phase[local[c].sess] = "done",
             \A d \in Conns \ {c} : pc'[d] = pc[d] /\ local'[d].sess = local[d].sess,
             \/ backendPc' = backendPc
             \/ \E t \in Sess : backendPc[t] = "off" /\ backendPc' = [backendPc EXCEPT ![t] = "read"],
             stopPc' = stopPc, stopCur' = stopCur, PhaseKeeps(s)
      PROVE  Kept(s)
  <2>1. \A d \in Conns : Terminating(d, s)' => Terminating(d, s)
    BY <1>6
  <2>2. phase[s] = "done" \/ \A d \in Conns : Terminating(d, s) => Terminating(d, s)'
    BY <1>6
  <2>3. backendPc'[s] = "terminating" <=> backendPc[s] = "terminating"
    BY <1>6 DEF TypeOK
  <2> QED BY <1>6, <2>1, <2>2, <2>3, Zenon DEF Kept, NobodyEnters, NobodyLeaves
<1>7. ASSUME NEW c \in Conns, Return(c), pc[c] \notin T \/ phase[local[c].sess] = "done",
             backendPc' = backendPc, stopPc' = stopPc, stopCur' = stopCur, phase' = phase
      PROVE  Kept(s)
  BY <1>6, <1>7 DEF Return, TypeOK, PhaseKeeps
<1>8. ASSUME NEW c \in Conns, ConnectStep(c) PROVE Kept(s)
  <2> USE DEF PhaseKeeps
  <2>1. CASE Accept(c)
    BY <1>6, <2>1 DEF Accept, TypeOK
  <2>2. CASE HandshakeFails(c)
    BY <1>7, <2>2, Zenon DEF HandshakeFails, Drop
  <2>3. ASSUME NEW i \in Sids, NEW k \in StreamIds, LookupHit(c, i, k) PROVE Kept(s)
    BY <1>6, <2>3 DEF LookupHit, TypeOK
  <2>4. ASSUME NEW i \in Sids, NEW k \in StreamIds, LookupMiss(c, i, k) PROVE Kept(s)
    BY <1>6, <2>4 DEF LookupMiss, TypeOK
  <2>5. ASSUME NEW i \in Sids, LookupRefused(c, i) PROVE Kept(s)
    BY <1>7, <2>5, Zenon DEF LookupRefused, Drop
  <2> QED BY <1>8, <2>1, <2>2, <2>3, <2>4, <2>5, Zenon DEF ConnectStep
<1>9. ASSUME NEW c \in Conns, OpenStep(c) PROVE Kept(s)
  <2>1. CASE OpenSession(c)
    <3>1. PhaseKeeps(s)
      BY <2>1 DEF OpenSession, PhaseKeeps, TypeOK
    <3> QED BY <1>6, <2>1, <3>1 DEF OpenSession, TypeOK
  <2>2. CASE OpenFails(c)
    BY <1>7, <2>2 DEF OpenFails, Drop
  <2>3. CASE SpawnBackend(c)
    <3>1. local[c].sess \in Sess /\ backendPc[local[c].sess] = "off"
      BY <2>3 DEF SpawnBackend, LocalInv, SpawnInv, HasSess
    <3> QED BY <1>6, <2>3, <3>1, Zenon DEF SpawnBackend, TypeOK, PhaseKeeps
  <2> QED BY <1>9, <2>1, <2>2, <2>3, Zenon DEF OpenStep
<1>10. ASSUME NEW c \in Conns, RegisterStep(c) PROVE Kept(s)
  <2> USE DEF PhaseKeeps
  <2>1. CASE AddStreamCheck(c)
    BY <1>6, <2>1 DEF AddStreamCheck, TypeOK
  <2>2. CASE AddStreamRefused(c)
    BY <1>7, <2>2, Zenon DEF AddStreamRefused, Drop
  <2>3. CASE AddStream(c)
    BY <1>6, <2>3 DEF AddStream, TypeOK
  <2>4. CASE AddStreamDisplace(c)
    BY <1>6, <2>4 DEF AddStreamDisplace, TypeOK
  <2>5. CASE Evict(c)
    BY <1>6, <2>5 DEF Evict, TypeOK
  <2> QED BY <1>10, <2>1, <2>2, <2>3, <2>4, <2>5, Zenon DEF RegisterStep
<1>11. ASSUME NEW c \in Conns, LeaveRun(c), pc[c] \notin T \/ phase[local[c].sess] = "done",
              UNCHANGED <<local, phase, backendPc, stopPc, stopCur>>
       PROVE  Kept(s)
  BY <1>6, <1>11 DEF LeaveRun, TypeOK, PhaseKeeps
<1>12. ASSUME NEW c \in Conns, NEW l \in T, Claimable(local[c].sess), pc[c] \notin T,
              phase' = [phase EXCEPT ![local[c].sess] = "claimed"],
              pc' = [pc EXCEPT ![c] = l], UNCHANGED <<local, backendPc, stopPc, stopCur>>
       PROVE  Kept(s) \/ OneEnters(s)
  <2>1. \A d \in Conns \ {c} : Terminating(d, s)' <=> Terminating(d, s)
    BY <1>12 DEF TypeOK
  <2>2. CASE s = local[c].sess
    <3>1. Terminating(c, s)'
      BY <1>12, <2>2 DEF TypeOK
    <3>2. phase[s] = "live" /\ phase'[s] = "claimed"
      BY <1>12, <2>2 DEF TypeOK, Claimable
    <3> QED BY <1>12, <2>1, <3>1, <3>2, Zenon DEF OneEnters
  <2>3. CASE s # local[c].sess
    <3>1. ~Terminating(c, s) /\ ~Terminating(c, s)'
      BY <1>12, <2>3
    <3>2. PhaseKeeps(s)
      BY <1>12, <2>3 DEF TypeOK, PhaseKeeps
    <3> QED BY <1>12, <2>1, <3>1, <3>2, Zenon DEF Kept, NobodyEnters, NobodyLeaves
  <2> QED BY <2>2, <2>3
<1>13. ASSUME NEW c \in Conns, RunStep(c) PROVE Kept(s) \/ OneEnters(s)
  <2>1. CASE ReadFails(c)
    BY <1>11, <2>1, Zenon DEF ReadFails
  <2>2. CASE WriteFails(c)
    BY <1>11, <1>12, <2>2 DEF WriteFails
  <2>3. CASE TerminateReturns(c)
    BY <1>11, <2>3, Zenon DEF TerminateReturns
  <2> QED BY <1>13, <2>1, <2>2, <2>3, Zenon DEF RunStep
<1>14. ASSUME NEW c \in Conns, LeaveStep(c) PROVE Kept(s) \/ OneEnters(s)
  <2>1. CASE RemoveStream(c)
    <3>1. CASE Drained(c)
      BY <1>6, <2>1, <3>1 DEF RemoveStream, TypeOK, PhaseKeeps
    <3>2. CASE ~Drained(c)
      BY <1>7, <2>1, <3>2, Zenon DEF RemoveStream
    <3> QED BY <3>1, <3>2
  <2>2. CASE DrainedTerminate(c)
    BY <1>7, <1>12, <2>2 DEF DrainedTerminate
  <2>3. CASE DrainedReturns(c)
    BY <1>7, <2>3 DEF DrainedReturns
  <2> QED BY <1>14, <2>1, <2>2, <2>3, Zenon DEF LeaveStep
<1> QED BY <1>2, <1>3, <1>4, <1>5, <1>8, <1>9, <1>10, <1>13, <1>14, Zenon DEF Next, HandlerStep

\* Only the winner of terminate's CompareAndSwap is inside it.
LEMMA ClaimPreserved ==
    ClaimInv /\ TypeOK /\ LocalInv /\ SpawnInv /\ StopInv /\ LocalInv' /\ TypeOK' /\ [Next]_vars => ClaimInv'
<1> SUFFICES ASSUME ClaimInv, TypeOK, LocalInv, SpawnInv, StopInv, LocalInv', TypeOK', [Next]_vars
             PROVE  ClaimInv'
  OBVIOUS
<1>1. ASSUME NEW s \in Sess, phase'[s] \in {"unborn", "live"}
      PROVE  /\ \A c \in Conns : ~Terminating(c, s)'
             /\ backendPc'[s] # "terminating" /\ ~StopTerminating(s)'
  <2>1. Kept(s)
    BY <1>1, Entering DEF OneEnters
  <2>2. phase[s] \in {"unborn", "live"}
    BY <1>1, <2>1 DEF Kept, PhaseKeeps
  <2>3. /\ \A c \in Conns : ~Terminating(c, s)
        /\ backendPc[s] # "terminating" /\ ~StopTerminating(s)
    BY <2>2 DEF ClaimInv, LocalInv, HasSess, Terminating, StopTerminating
  <2> QED BY <2>1, <2>3, Zenon DEF Kept, NobodyEnters
<1>2. stopPc' = "terminating" => stopCur' \in Sess
  <2>1. UNCHANGED stopVars \/ StopStep
    BY Zenon DEF Next, ServerStep, Start, CtxCancel, CloseListener, AcceptLoopEnd, TerminateStep,
       CloseBackend, RemoveSession, CloseStreams, HandlerStep, ConnectStep, Accept, HandshakeFails,
       LookupHit, LookupMiss, LookupRefused, OpenStep, OpenSession, OpenFails, SpawnBackend,
       RegisterStep, AddStreamCheck, AddStreamRefused, AddStream, AddStreamDisplace, Evict, RunStep,
       ReadFails, WriteFails, TerminateReturns, LeaveStep, RemoveStream, DrainedTerminate,
       DrainedReturns, BackendStep, BackendReadFails, BackendReturns, vars
  <2>2. CASE UNCHANGED stopVars
    BY <2>2 DEF stopVars, ClaimInv
  <2>3. CASE StopStep
    BY <2>3 DEF StopStep, StopCall, StopSnapshot, StopTerminate, StopTerminateReturns, StopWaits, ClaimInv
  <2> QED BY <2>1, <2>2, <2>3
<1>3. \A c \in Conns : pc'[c] \in {"terminating", "lastTerminate"} =>
        local'[c].sess \in Sess /\ phase'[local'[c].sess] # "live"
  BY <1>1, Zenon DEF LocalInv, HasSess, Terminating
<1>4. \A s \in Sess : backendPc'[s] = "terminating" => phase'[s] \notin {"unborn", "live"}
  BY <1>1
<1>5. stopPc' = "terminating" => phase'[stopCur'] \notin {"unborn", "live"}
  BY <1>1, <1>2 DEF StopTerminating
<1> QED BY <1>2, <1>3, <1>4, <1>5, Zenon DEF ClaimInv

\* The winner of the CompareAndSwap stays in terminate until it is done.
LEMMA BusyPreserved ==
    BusyInv /\ TypeOK /\ LocalInv /\ SpawnInv /\ StopInv /\ [Next]_vars => BusyInv'
<1> SUFFICES ASSUME BusyInv, TypeOK, LocalInv, SpawnInv, StopInv, [Next]_vars, NEW s \in Sess,
                    phase'[s] \in {"claimed", "closed", "removed"}
             PROVE  (\E c \in Conns : Terminating(c, s)') \/ backendPc'[s] = "terminating" \/ StopTerminating(s)'
  BY Zenon DEF BusyInv, Terminating, StopTerminating
<1>1. CASE OneEnters(s)
  BY <1>1, Zenon DEF OneEnters
<1>2. CASE Kept(s)
  <2>1. phase[s] \in {"claimed", "closed", "removed"}
    BY <1>2 DEF Kept, PhaseKeeps
  <2>2. (\E c \in Conns : Terminating(c, s)) \/ backendPc[s] = "terminating" \/ StopTerminating(s)
    BY <2>1, Zenon DEF BusyInv, Terminating, StopTerminating
  <2>3. NobodyLeaves(s)
    BY <1>2, <2>1 DEF Kept
  <2> QED BY <2>2, <2>3, Zenon DEF NobodyLeaves
<1> QED BY <1>1, <1>2, Entering

\* wg.Add precedes each goroutine, wg.Done is its last act.
LEMMA WgPreserved ==
    WgInv /\ TypeOK /\ LocalInv /\ SessionInv /\ [Next]_vars => WgInv'
<1> SUFFICES ASSUME WgInv, TypeOK, LocalInv, SessionInv, [Next]_vars PROVE WgInv'
  OBVIOUS
<1>t. /\ wg \in [accept : {0, 1}, conns : SUBSET Conns, backends : SUBSET Sess]
      /\ pc \in [Conns -> HandlerPcs]
      /\ backendPc \in [Sess -> {"off", "read", "terminating", "done"}]
      /\ \A c \in Conns : pc[c] = "spawn" => local[c].sess \in Sess
  BY DEF TypeOK, LocalInv, HasSess
<1> USE <1>t DEF WgInv, lifeVars, mapVars, sessVars, connVars, stopVars
<1>1. CASE ServerStep
  BY <1>1 DEF ServerStep, Start, CtxCancel, CloseListener, AcceptLoopEnd
<1>2. CASE StopStep
  BY <1>2, Zenon DEF StopStep, StopCall, StopSnapshot, StopTerminate, StopTerminateReturns, StopWaits,
     Claimable
<1>3. ASSUME NEW s \in Sess, TerminateStep(s) PROVE WgInv'
  BY <1>3, Zenon DEF TerminateStep, CloseBackend, RemoveSession, CloseStreams
<1>4. ASSUME NEW s \in Sess, BackendStep(s) PROVE WgInv'
  BY <1>4 DEF BackendStep, BackendReadFails, BackendReturns, Claimable
<1>5. ASSUME NEW c \in Conns, ConnectStep(c) PROVE WgInv'
  <2>1. CASE Accept(c)
    BY <2>1 DEF Accept
  <2>2. CASE HandshakeFails(c)
    BY <2>2 DEF HandshakeFails, Drop, Return
  <2>3. ASSUME NEW i \in Sids, NEW k \in StreamIds, LookupHit(c, i, k) PROVE WgInv'
    BY <2>3 DEF LookupHit
  <2>4. ASSUME NEW i \in Sids, NEW k \in StreamIds, LookupMiss(c, i, k) PROVE WgInv'
    BY <2>4 DEF LookupMiss, OpenRefused
  <2>5. ASSUME NEW i \in Sids, LookupRefused(c, i) PROVE WgInv'
    BY <2>5 DEF LookupRefused, OpenRefused, Drop, Return
  <2> QED BY <1>5, <2>1, <2>2, <2>3, <2>4, <2>5, Zenon DEF ConnectStep
<1>6. ASSUME NEW c \in Conns, OpenStep(c) PROVE WgInv'
  BY <1>6 DEF OpenStep, OpenSession, OpenFails, SpawnBackend, Drop, Return
<1>7. ASSUME NEW c \in Conns, RegisterStep(c) PROVE WgInv'
  BY <1>7 DEF RegisterStep, AddStreamCheck, AddStreamRefused, AddStream, AddStreamDisplace, Evict,
     Claimable, Drop, Return, SlotFree
<1>8. ASSUME NEW c \in Conns, RunStep(c) PROVE WgInv'
  BY <1>8 DEF RunStep, ReadFails, WriteFails, TerminateReturns, LeaveRun, Claimable
<1>9. ASSUME NEW c \in Conns, LeaveStep(c) PROVE WgInv'
  BY <1>9 DEF LeaveStep, RemoveStream, DrainedTerminate, DrainedReturns, Remaining, Drained,
     Return, Claimable
<1>10. CASE UNCHANGED vars
  BY <1>10 DEF vars
<1> QED BY <1>1, <1>2, <1>3, <1>4, <1>5, <1>6, <1>7, <1>8, <1>9, <1>10, Zenon DEF Next, HandlerStep

\* handleConn closes its connection before it unregisters or returns.
LEMMA ClosedPreserved ==
    ClosedInv /\ TypeOK /\ LocalInv /\ [Next]_vars => ClosedInv'
<1> SUFFICES ASSUME ClosedInv, TypeOK, LocalInv, [Next]_vars PROVE ClosedInv'
  OBVIOUS
<1>t. /\ pc \in [Conns -> HandlerPcs] /\ closed \in [Conns -> BOOLEAN]
      /\ \A c \in Conns : pc[c] = "evict" => local[c].displaced \in Conns
  BY DEF TypeOK, LocalInv
<1> USE <1>t DEF ClosedInv, lifeVars, mapVars, sessVars, connVars, stopVars
<1>1. CASE ServerStep
  BY <1>1 DEF ServerStep, Start, CtxCancel, CloseListener, AcceptLoopEnd
<1>2. CASE StopStep
  BY <1>2 DEF StopStep, StopCall, StopSnapshot, StopTerminate, StopTerminateReturns, StopWaits,
     Claimable
<1>3. ASSUME NEW s \in Sess, TerminateStep(s) PROVE ClosedInv'
  BY <1>3 DEF TerminateStep, CloseBackend, RemoveSession, CloseStreams
<1>4. ASSUME NEW s \in Sess, BackendStep(s) PROVE ClosedInv'
  BY <1>4 DEF BackendStep, BackendReadFails, BackendReturns, Claimable
<1>5. ASSUME NEW c \in Conns, ConnectStep(c) PROVE ClosedInv'
  <2>1. CASE Accept(c)
    BY <2>1 DEF Accept
  <2>2. CASE HandshakeFails(c)
    BY <2>2 DEF HandshakeFails, Drop, Return
  <2>3. ASSUME NEW i \in Sids, NEW k \in StreamIds, LookupHit(c, i, k) PROVE ClosedInv'
    BY <2>3 DEF LookupHit
  <2>4. ASSUME NEW i \in Sids, NEW k \in StreamIds, LookupMiss(c, i, k) PROVE ClosedInv'
    BY <2>4 DEF LookupMiss, OpenRefused
  <2>5. ASSUME NEW i \in Sids, LookupRefused(c, i) PROVE ClosedInv'
    BY <2>5 DEF LookupRefused, OpenRefused, Drop, Return
  <2> QED BY <1>5, <2>1, <2>2, <2>3, <2>4, <2>5, Zenon DEF ConnectStep
<1>6. ASSUME NEW c \in Conns, OpenStep(c) PROVE ClosedInv'
  BY <1>6 DEF OpenStep, OpenSession, OpenFails, SpawnBackend, Drop, Return
<1>7. ASSUME NEW c \in Conns, RegisterStep(c) PROVE ClosedInv'
  BY <1>7 DEF RegisterStep, AddStreamCheck, AddStreamRefused, AddStream, AddStreamDisplace, Evict,
     Claimable, Drop, Return, SlotFree
<1>8. ASSUME NEW c \in Conns, RunStep(c) PROVE ClosedInv'
  BY <1>8 DEF RunStep, ReadFails, WriteFails, TerminateReturns, LeaveRun, Claimable
<1>9. ASSUME NEW c \in Conns, LeaveStep(c) PROVE ClosedInv'
  BY <1>9 DEF LeaveStep, RemoveStream, DrainedTerminate, DrainedReturns, Remaining, Drained,
     Return, Claimable
<1>10. CASE UNCHANGED vars
  BY <1>10 DEF vars
<1> QED BY <1>1, <1>2, <1>3, <1>4, <1>5, <1>6, <1>7, <1>8, <1>9, <1>10, Zenon DEF Next, HandlerStep

\* Stop cancels before it copies, and waits for wg before it returns.
LEMMA StopPreserved ==
    StopInv /\ TypeOK /\ LockInv /\ WgInv /\ [Next]_vars => StopInv'
<1> SUFFICES ASSUME StopInv, TypeOK, LockInv, WgInv, [Next]_vars PROVE StopInv'
  OBVIOUS
<1>t. wg \in [accept : {0, 1}, conns : SUBSET Conns, backends : SUBSET Sess]
  BY DEF TypeOK
<1> USE <1>t DEF StopInv, WgInv, lifeVars, mapVars, sessVars, connVars, stopVars
<1>1. CASE ServerStep
  BY <1>1 DEF ServerStep, Start, CtxCancel, CloseListener, AcceptLoopEnd
<1>2. CASE StopStep
  BY <1>2 DEF StopStep, StopCall, StopSnapshot, StopTerminate, StopTerminateReturns, StopWaits,
     Claimable
<1>3. ASSUME NEW s \in Sess, TerminateStep(s) PROVE StopInv'
  BY <1>3, Zenon DEF TerminateStep, CloseBackend, RemoveSession, CloseStreams
<1>4. ASSUME NEW s \in Sess, BackendStep(s) PROVE StopInv'
  BY <1>4 DEF BackendStep, BackendReadFails, BackendReturns, Claimable
<1>5. ASSUME NEW c \in Conns, ConnectStep(c) PROVE StopInv'
  <2>1. CASE Accept(c)
    BY <2>1 DEF Accept
  <2>2. CASE HandshakeFails(c)
    BY <2>2 DEF HandshakeFails, Drop, Return
  <2>3. ASSUME NEW i \in Sids, NEW k \in StreamIds, LookupHit(c, i, k) PROVE StopInv'
    BY <2>3 DEF LookupHit
  <2>4. ASSUME NEW i \in Sids, NEW k \in StreamIds, LookupMiss(c, i, k) PROVE StopInv'
    BY <2>4 DEF LookupMiss, OpenRefused
  <2>5. ASSUME NEW i \in Sids, LookupRefused(c, i) PROVE StopInv'
    BY <2>5 DEF LookupRefused, OpenRefused, Drop, Return
  <2> QED BY <1>5, <2>1, <2>2, <2>3, <2>4, <2>5, Zenon DEF ConnectStep
<1>6. ASSUME NEW c \in Conns, OpenStep(c) PROVE StopInv'
  BY <1>6 DEF OpenStep, OpenSession, OpenFails, SpawnBackend, Drop, Return
<1>7. ASSUME NEW c \in Conns, RegisterStep(c) PROVE StopInv'
  BY <1>7 DEF RegisterStep, AddStreamCheck, AddStreamRefused, AddStream, AddStreamDisplace, Evict,
     Claimable, Drop, Return, SlotFree
<1>8. ASSUME NEW c \in Conns, RunStep(c) PROVE StopInv'
  BY <1>8 DEF RunStep, ReadFails, WriteFails, TerminateReturns, LeaveRun, Claimable
<1>9. ASSUME NEW c \in Conns, LeaveStep(c) PROVE StopInv'
  BY <1>9 DEF LeaveStep, RemoveStream, DrainedTerminate, DrainedReturns, Remaining, Drained,
     Return, Claimable
<1>10. CASE UNCHANGED vars
  BY <1>10 DEF vars
<1> QED BY <1>1, <1>2, <1>3, <1>4, <1>5, <1>6, <1>7, <1>8, <1>9, <1>10, Zenon DEF Next, HandlerStep

\* A session opened after Stop's copy would need a dial with a cancelled context.
LEMMA CoverPreserved ==
    StopCoversSessions /\ TypeOK /\ LockInv /\ SessionInv /\ RegistryExact /\ StopInv /\ [Next]_vars => StopCoversSessions'
<1> SUFFICES ASSUME StopCoversSessions, TypeOK, LockInv, SessionInv, RegistryExact, StopInv, [Next]_vars PROVE StopCoversSessions'
  OBVIOUS
<1>t. /\ phase \in [Sess -> Phases] /\ sessions \in [Sids -> Sess \cup {NoSess}]
      /\ \A c \in Conns : pc[c] = "opening" => sessMu = c
      /\ \A s \in Sess : phase[s] = "live" => sid[s] \in Sids /\ sessions[sid[s]] = s
      /\ backend = "udp" /\ stopPc \in {"walk", "terminating", "returned"} => sessMu = NoConn
  BY DEF TypeOK, LockInv, SessionInv, RegistryExact, StopInv
<1> USE <1>t, ServerConstants DEF StopCoversSessions, lifeVars, mapVars, sessVars, connVars, stopVars
<1>1. CASE ServerStep
  BY <1>1 DEF ServerStep, Start, CtxCancel, CloseListener, AcceptLoopEnd
<1>2. CASE StopStep
  <2>1. CASE StopCall
    BY <2>1 DEF StopCall
  <2>2. CASE StopSnapshot
    BY <2>2 DEF StopSnapshot
  <2>3. ASSUME NEW s \in Sess, StopTerminate(s) PROVE StopCoversSessions'
    BY <2>3 DEF StopTerminate, Claimable
  <2>4. CASE StopTerminateReturns
    BY <2>4 DEF StopTerminateReturns
  <2>5. CASE StopWaits
    BY <2>5 DEF StopWaits
  <2> QED BY <1>2, <2>1, <2>2, <2>3, <2>4, <2>5 DEF StopStep
<1>3. ASSUME NEW s \in Sess, TerminateStep(s) PROVE StopCoversSessions'
  <2>1. CASE CloseBackend(s)
    BY <2>1 DEF CloseBackend
  <2>2. CASE RemoveSession(s)
    BY <2>2 DEF RemoveSession
  <2>3. CASE CloseStreams(s)
    BY <2>3 DEF CloseStreams
  <2> QED BY <1>3, <2>1, <2>2, <2>3, Zenon DEF TerminateStep
<1>4. ASSUME NEW s \in Sess, BackendStep(s) PROVE StopCoversSessions'
  BY <1>4 DEF BackendStep, BackendReadFails, BackendReturns, Claimable
<1>5. ASSUME NEW c \in Conns, ConnectStep(c) PROVE StopCoversSessions'
  <2>1. CASE Accept(c)
    BY <2>1 DEF Accept
  <2>2. CASE HandshakeFails(c)
    BY <2>2 DEF HandshakeFails, Drop, Return
  <2>3. ASSUME NEW i \in Sids, NEW k \in StreamIds, LookupHit(c, i, k) PROVE StopCoversSessions'
    BY <2>3, Zenon DEF LookupHit
  <2>4. ASSUME NEW i \in Sids, NEW k \in StreamIds, LookupMiss(c, i, k) PROVE StopCoversSessions'
    BY <2>4, Zenon DEF LookupMiss, OpenRefused
  <2>5. ASSUME NEW i \in Sids, LookupRefused(c, i) PROVE StopCoversSessions'
    BY <2>5 DEF LookupRefused, OpenRefused, Drop, Return
  <2> QED BY <1>5, <2>1, <2>2, <2>3, <2>4, <2>5, Zenon DEF ConnectStep
<1>6. ASSUME NEW c \in Conns, OpenStep(c) PROVE StopCoversSessions'
  BY <1>6 DEF OpenStep, OpenSession, OpenFails, SpawnBackend, Drop, Return
<1>7. ASSUME NEW c \in Conns, RegisterStep(c) PROVE StopCoversSessions'
  BY <1>7 DEF RegisterStep, AddStreamCheck, AddStreamRefused, AddStream, AddStreamDisplace, Evict,
     Claimable, Drop, Return, SlotFree
<1>8. ASSUME NEW c \in Conns, RunStep(c) PROVE StopCoversSessions'
  BY <1>8 DEF RunStep, ReadFails, WriteFails, TerminateReturns, LeaveRun, Claimable
<1>9. ASSUME NEW c \in Conns, LeaveStep(c) PROVE StopCoversSessions'
  BY <1>9 DEF LeaveStep, RemoveStream, DrainedTerminate, DrainedReturns, Remaining, Drained,
     Return, Claimable
<1>10. CASE UNCHANGED vars
  BY <1>10 DEF vars
<1> QED BY <1>1, <1>2, <1>3, <1>4, <1>5, <1>6, <1>7, <1>8, <1>9, <1>10, Zenon DEF Next, HandlerStep
-----------------------------------------------------------------------------
(* The invariant, and what follows from it.                                  *)

\* A new server satisfies the invariant.
LEMMA InitInv == Init => IInv
<1> SUFFICES ASSUME Init PROVE IInv
  OBVIOUS
<1> USE ServerConstants DEF Init
<1>1. TypeOK
  BY Zenon DEF TypeOK, Phases, HandlerPcs, Locals, NoLocals
<1>2. LockInv /\ LocalInv /\ SessionInv /\ SpawnInv /\ ReaderInv /\ ClosedInv
  BY DEF LockInv, LocalInv, SessionInv, SpawnInv, ReaderInv, ClosedInv, HasSess, NoLocals
<1>3. RegistryExact /\ EntryInv /\ SlotInv /\ LiveSessionOwned /\ BusyInv
  BY Zenon DEF RegistryExact, EntryInv, SlotInv, LiveSessionOwned, BusyInv
<1>4. ClaimInv /\ WgInv /\ StopInv /\ StopCoversSessions
  BY DEF ClaimInv, WgInv, StopInv, StopCoversSessions
<1> QED BY <1>1, <1>2, <1>3, <1>4 DEF IInv

-----------------------------------------------------------------------------
\* The invariant is inductive.
LEMMA StepInv == IInv /\ [Next]_vars => IInv'
BY TypePreserved, LockPreserved, LocalPreserved, SessionPreserved, SpawnPreserved,
   RegistryPreserved, EntryPreserved, SlotPreserved, ReaderPreserved, OwnedPreserved,
   ClaimPreserved, BusyPreserved, WgPreserved, ClosedPreserved, StopPreserved, CoverPreserved
   DEF IInv

\* The inductive invariant holds throughout.
THEOREM Invariance == Spec => []IInv
BY InitInv, StepInv, PTL DEF Spec

\* The fields and locals of server.go and session.go keep their types; Stop never
\* calls terminate() on a nil session.
THEOREM TypeCorrect == Spec => []TypeOK
<1>1. IInv => TypeOK
  BY DEF IInv
<1> QED BY <1>1, Invariance, PTL

\* removeSession's delete-by-key never takes out a successor: the map holds exactly
\* the sessions that have not been removed, each under its own id.
THEOREM RegistryCorrect == Spec => []RegistryExact
<1>1. IInv => RegistryExact
  BY DEF IInv
<1> QED BY <1>1, Invariance, PTL

\* addStream and removeStream: one slot per stream id, one session per connection.
THEOREM SlotsUnique == Spec => []OneSlotPerStream
<1>1. SlotInv => \A s \in Sess : \A e, f \in streams[s] : e.id = f.id => e = f
  BY DEF SlotInv
<1>2. EntryInv => \A s, t \in Sess : \A e \in streams[s], f \in streams[t] : e.conn = f.conn => s = t
  BY DEF EntryInv
<1>3. IInv => OneSlotPerStream
  BY <1>1, <1>2 DEF IInv, OneSlotPerStream
<1> QED BY <1>3, Invariance, PTL

\* An evicted handler never rips out the winner's slot: a reading handler is
\* registered, closed, or about to be closed by the one that displaced it.
THEOREM ReadersRegistered == Spec => []ReaderRegistered
<1>1. IInv => ReaderRegistered
  BY Zenon DEF IInv, ReaderInv, SlotOf, ReaderRegistered
<1> QED BY <1>1, Invariance, PTL

\* handleConn leaks no session: a live one always has a handler bound to end it.
THEOREM SessionsOwned == Spec => []LiveSessionOwned
<1>1. IInv => LiveSessionOwned
  BY DEF IInv
<1> QED BY <1>1, Invariance, PTL

\* When Stop returns nothing is left: no goroutine, no session, no open connection.
THEOREM StopComplete == Spec => []StopLeavesNothing
<1>1. IInv => StopLeavesNothing
  <2> SUFFICES ASSUME IInv, stopPc = "returned" PROVE StopLeavesNothing
    BY DEF StopLeavesNothing
  <2>1. acceptPc = "done"
    BY DEF IInv, StopInv, WgInv, TypeOK
  <2>2. \A c \in Conns : pc[c] \in {"none", "done"} /\ (pc[c] = "done" => closed[c])
    BY DEF IInv, StopInv, WgInv, ClosedInv
  <2>3. \A s \in Sess : backendPc[s] \in {"off", "done"}
    BY DEF IInv, StopInv, WgInv, TypeOK
  <2>4. \A s \in Sess : phase[s] # "live"
    BY <2>2, Zenon DEF IInv, LiveSessionOwned, Owns
  <2>5. \A s \in Sess : phase[s] \in {"unborn", "done"}
    BY <2>2, <2>3, <2>4 DEF IInv, BusyInv, TypeOK, Phases
  <2>6. \A i \in Sids : sessions[i] = NoSess
    BY <2>5 DEF IInv, RegistryExact, TypeOK
  <2> QED BY <2>1, <2>2, <2>3, <2>5, <2>6, Zenon DEF StopLeavesNothing
<1> QED BY <1>1, Invariance, PTL

\* With UDPBackend, Stop's copy of the session set misses no live session.
THEOREM StopCovers == Spec => []StopCoversSessions
<1>1. IInv => StopCoversSessions
  BY DEF IInv
<1> QED BY <1>1, Invariance, PTL

-----------------------------------------------------------------------------
(* The refinement: Server implements SessionService. *)

\* The backend connections open under the mapping.
OpenPairs == {<<sid[s], s>> : s \in {t \in Sess : phase[t] \in {"live", "claimed"}}}

\* The sessions that were given a backend connection.
UsedSess == {s \in Sess : phase[s] # "unborn"}

\* A step that opens no backend and closes none is a stutter of SessionService.
LEMMA ServiceStutter ==
    ASSUME UNCHANGED sid,
           \A s \in Sess : phase'[s] \in {"live", "claimed"} <=> phase[s] \in {"live", "claimed"},
           \A s \in Sess : phase'[s] = "unborn" <=> phase[s] = "unborn"
    PROVE  UNCHANGED <<OpenPairs, UsedSess>>
BY DEF OpenPairs, UsedSess

\* getOrCreateSession's Open: the map had no session under this id, so by
\* RegistryExact no backend is open for it.
LEMMA ServiceOpen ==
    ASSUME IInv, NEW c \in Conns, OpenSession(c)
    PROVE  \E i \in Sids, s \in Sess : Service!Open(i, s)
<1> DEFINE i == local[c].sid
<1>1. PICK s \in Sess : /\ phase[s] = "unborn"
                        /\ phase' = [phase EXCEPT ![s] = "live"]
                        /\ sid' = [sid EXCEPT ![s] = i]
  BY Zenon DEF OpenSession
<1>2. i \in Sids /\ sessions[i] = NoSess
  BY DEF OpenSession, IInv, LockInv
<1>3. \A t \in Sess : <<i, t>> \notin OpenPairs
  <2> SUFFICES ASSUME NEW t \in Sess, <<i, t>> \in OpenPairs PROVE FALSE
    OBVIOUS
  <2>1. sid[t] = i /\ phase[t] \in {"live", "claimed"}
    BY DEF OpenPairs
  <2>2. sessions[i] = t
    BY <2>1 DEF IInv, RegistryExact
  <2> QED BY <1>2, <2>2, ServerConstants, Zenon
<1>4. OpenPairs' = OpenPairs \cup {<<i, s>>}
  <2>1. \A t \in Sess : t # s => phase'[t] = phase[t] /\ sid'[t] = sid[t]
    BY <1>1 DEF IInv, TypeOK
  <2>2. phase'[s] = "live" /\ sid'[s] = i
    BY <1>1 DEF IInv, TypeOK
  <2> QED BY <1>1, <2>1, <2>2 DEF OpenPairs
<1>5. s \notin UsedSess /\ UsedSess' = UsedSess \cup {s}
  BY <1>1 DEF UsedSess, IInv, TypeOK
<1>6. Service!Open(i, s)
  BY <1>3, <1>4, <1>5 DEF Service!Open, OpenPairs, UsedSess
<1> QED BY <1>2, <1>6, Zenon

\* terminate's backend.Close.
LEMMA ServiceClose ==
    ASSUME IInv, NEW s \in Sess, CloseBackend(s)
    PROVE  \E i \in Sids, t \in Sess : Service!Close(i, t)
<1>1. sid[s] \in Sids
  BY DEF CloseBackend, IInv, SessionInv
<1>2. <<sid[s], s>> \in OpenPairs
  BY DEF CloseBackend, OpenPairs
<1>3. OpenPairs' = OpenPairs \ {<<sid[s], s>>}
  <2>1. \A t \in Sess : t # s => phase'[t] = phase[t]
    BY DEF CloseBackend, IInv, TypeOK
  <2>2. phase'[s] = "closed" /\ sid' = sid
    BY DEF CloseBackend, IInv, TypeOK, mapVars
  <2> QED BY <2>1, <2>2 DEF OpenPairs
<1>4. UsedSess' = UsedSess
  BY DEF CloseBackend, UsedSess, IInv, TypeOK
<1>5. Service!Close(sid[s], s)
  BY <1>2, <1>3, <1>4 DEF Service!Close, OpenPairs, UsedSess
<1> QED BY <1>1, <1>5

\* Every step of Server is a step of SessionService or a stutter.
LEMMA ServiceStep == IInv /\ [Next]_vars => [Service!Next]_<<OpenPairs, UsedSess>>
<1> SUFFICES ASSUME IInv, [Next]_vars PROVE [Service!Next]_<<OpenPairs, UsedSess>>
  OBVIOUS
<1> USE DEF lifeVars, mapVars, sessVars, connVars, stopVars
<1>1. ASSUME NEW c \in Conns, OpenSession(c) PROVE Service!Next
  BY <1>1, ServiceOpen DEF Service!Next
<1>2. ASSUME NEW s \in Sess, CloseBackend(s) PROVE Service!Next
  BY <1>2, ServiceClose DEF Service!Next
<1>3. CASE UNCHANGED <<phase, sid>>
  BY <1>3, ServiceStutter
<1>4. ASSUME NEW s \in Sess, NEW p \in Phases, UNCHANGED sid, phase' = [phase EXCEPT ![s] = p],
             \/ phase[s] = "live" /\ p = "claimed"
             \/ phase[s] = "closed" /\ p = "removed"
             \/ phase[s] = "removed" /\ p = "done"
      PROVE  UNCHANGED <<OpenPairs, UsedSess>>
  BY <1>4, ServiceStutter DEF IInv, TypeOK
<1>5. CASE ServerStep
  BY <1>3, <1>5 DEF ServerStep, Start, CtxCancel, CloseListener, AcceptLoopEnd
<1>6. CASE StopStep
  BY <1>3, <1>4, <1>6, Zenon DEF StopStep, StopCall, StopSnapshot, StopTerminate, StopTerminateReturns,
     StopWaits, Claimable, Phases
<1>7. ASSUME NEW s \in Sess, TerminateStep(s) PROVE [Service!Next]_<<OpenPairs, UsedSess>>
  BY <1>2, <1>4, <1>7 DEF TerminateStep, RemoveSession, CloseStreams, Phases
<1>8. ASSUME NEW s \in Sess, BackendStep(s) PROVE [Service!Next]_<<OpenPairs, UsedSess>>
  BY <1>3, <1>4, <1>8 DEF BackendStep, BackendReadFails, BackendReturns, Claimable, Phases
<1>9. ASSUME NEW c \in Conns, HandlerStep(c) PROVE [Service!Next]_<<OpenPairs, UsedSess>>
  <2>1. CASE WriteFails(c)
    BY <1>3, <1>4, <2>1 DEF WriteFails, Claimable, Phases, IInv, LocalInv, HasSess
  <2>2. CASE DrainedTerminate(c)
    BY <1>3, <1>4, <2>2 DEF DrainedTerminate, Claimable, Phases, IInv, LocalInv, HasSess
  <2>3. OpenSession(c) \/ WriteFails(c) \/ DrainedTerminate(c) \/ UNCHANGED <<phase, sid>>
    BY <1>9, Zenon DEF HandlerStep, ConnectStep, Accept, HandshakeFails, LookupHit, LookupMiss,
       LookupRefused, OpenStep, OpenFails, SpawnBackend, RegisterStep, AddStreamCheck,
       AddStreamRefused, AddStream, AddStreamDisplace, Evict, RunStep, ReadFails,
       TerminateReturns, LeaveStep, RemoveStream, DrainedReturns
  <2> QED BY <1>1, <1>3, <2>1, <2>2, <2>3
<1>10. CASE UNCHANGED vars
  BY <1>3, <1>10 DEF vars
<1> QED BY <1>5, <1>6, <1>7, <1>8, <1>9, <1>10 DEF Next

\* The demultiplexer implements SessionService: at every moment a client id has at
\* most one backend connection open, and no session opens a second one.
THEOREM Refinement == Spec => OneBackendPerClient
<1>1. Init => Service!Init
  BY DEF Init, Service!Init
<1>2. IInv /\ [Next]_vars => [Service!Next]_<<OpenPairs, UsedSess>>
  BY ServiceStep
<1> QED BY <1>1, <1>2, Invariance, PTL DEF Spec, OneBackendPerClient, Service!Spec, OpenPairs, UsedSess
-----------------------------------------------------------------------------
(* Who is inside terminate(), what leaves session.streams, what Stop waits   *)
(* for.                                                                      *)

\* session.go terminate: of the handlers, the backend reader and Stop, at most one is inside
\* it, and as long as it is not done there is one.
OneTerminator ==
    \A s \in Sess :
        /\ \A c, d \in Conns : Terminating(c, s) /\ Terminating(d, s) => c = d
        /\ \A c \in Conns : Terminating(c, s) => backendPc[s] # "terminating" /\ ~StopTerminating(s)
        /\ backendPc[s] = "terminating" => ~StopTerminating(s)
        /\ phase[s] \in {"claimed", "closed", "removed"} =>
              (\E c \in Conns : Terminating(c, s)) \/ backendPc[s] = "terminating" \/ StopTerminating(s)

\* terminate(): the handlers, the backend reader and Stop race for it, one goroutine runs it,
\* and it is never abandoned half way (session.go:145): with fairness, TerminateFinishes.
THEOREM TerminatesOnce == Spec => []OneTerminator
<1>1. Init => OneTerminator
  BY DEF Init, OneTerminator, Terminating, StopTerminating
<1>2. IInv /\ IInv' /\ OneTerminator /\ [Next]_vars => OneTerminator'
  <2> SUFFICES ASSUME IInv, IInv', OneTerminator, [Next]_vars, NEW s \in Sess
               PROVE  /\ \A c, d \in Conns : Terminating(c, s)' /\ Terminating(d, s)' => c = d
                      /\ \A c \in Conns : Terminating(c, s)' =>
                            backendPc'[s] # "terminating" /\ ~StopTerminating(s)'
                      /\ backendPc'[s] = "terminating" => ~StopTerminating(s)'
                      /\ phase'[s] \in {"claimed", "closed", "removed"} =>
                            \/ \E c \in Conns : Terminating(c, s)'
                            \/ backendPc'[s] = "terminating"
                            \/ StopTerminating(s)'
    BY Zenon DEF OneTerminator
  <2>1. phase'[s] \in {"claimed", "closed", "removed"} =>
            \/ \E c \in Conns : Terminating(c, s)'
            \/ backendPc'[s] = "terminating"
            \/ StopTerminating(s)'
    BY Zenon DEF IInv, BusyInv, Terminating, StopTerminating
  <2>2. phase[s] = "live" => /\ \A c \in Conns : ~Terminating(c, s)
                             /\ backendPc[s] # "terminating" /\ ~StopTerminating(s)
    BY DEF IInv, ClaimInv, Terminating, StopTerminating
  <2>3. CASE Kept(s)
    BY <2>1, <2>3, Zenon DEF OneTerminator, Kept, NobodyEnters
  <2>4. CASE OneEnters(s)
    BY <2>1, <2>2, <2>4, Zenon DEF OneEnters
  <2>5. TypeOK /\ LocalInv /\ SpawnInv /\ StopInv
    BY DEF IInv
  <2> QED BY <2>3, <2>4, <2>5, Entering
<1> QED BY <1>1, <1>2, Invariance, PTL DEF Spec

\* session.go addStream, removeStream and terminate: a stream that leaves its session's
\* table is closed, or the handler that displaced it is about to close it.
LeavesClosed ==
    \A s \in Sess : \A e \in streams[s] \ streams'[s] :
        closed'[e.conn] \/ \E c \in Conns : pc'[c] = "evict" /\ local'[c].displaced = e.conn

\* No step of any goroutine drops an open connection from a session's table
\* (LeavesClosed; session.go:82, 105, 145): an evicted handler that returns late takes out its own
\* entry or none, never its successor's.
THEOREM NoStreamDropped == Spec => [][LeavesClosed]_vars
<1>1. IInv /\ [Next]_vars => [LeavesClosed]_vars
  <2> SUFFICES ASSUME IInv, Next PROVE LeavesClosed
    OBVIOUS
  <2> USE DEF lifeVars, mapVars, sessVars, connVars, stopVars
  <2>0. TypeOK /\ EntryInv
    BY DEF IInv
  <2>1. CASE streams' = streams
    BY <2>1 DEF LeavesClosed
  <2>2. ASSUME NEW t \in Sess, CloseStreams(t) PROVE LeavesClosed
    <3> SUFFICES ASSUME NEW s \in Sess, NEW e \in streams[s] \ streams'[s] PROVE closed'[e.conn]
      BY DEF LeavesClosed
    <3>1. s = t /\ e \in Entry
      BY <2>0, <2>2 DEF CloseStreams, TypeOK
    <3> QED BY <2>2, <3>1, Zenon DEF CloseStreams, Entry
  <2>3. ASSUME NEW c \in Conns, AddStream(c) PROVE LeavesClosed
    <3>1. local[c].sess \in Sess
      BY <2>3 DEF AddStream, IInv, LocalInv, HasSess
    <3> QED BY <2>0, <2>3, <3>1 DEF AddStream, TypeOK, LeavesClosed
  <2>4. ASSUME NEW c \in Conns, AddStreamDisplace(c) PROVE LeavesClosed
    <3>1. local[c].sess \in Sess
      BY <2>4 DEF AddStreamDisplace, IInv, LocalInv, HasSess
    <3>2. PICK e \in streams[local[c].sess] :
            /\ streams' = [streams EXCEPT ![local[c].sess] =
                             (@ \ {e}) \cup {[id |-> local[c].stream, conn |-> c]}]
            /\ local' = [local EXCEPT ![c].displaced = e.conn]
      BY <2>4, Zenon DEF AddStreamDisplace
    <3>3. pc'[c] = "evict" /\ local'[c].displaced = e.conn
      BY <2>0, <2>4, <3>2 DEF AddStreamDisplace, TypeOK, Locals
    <3>4. \A s \in Sess : streams[s] \ streams'[s] \subseteq {e}
      BY <2>0, <3>1, <3>2 DEF TypeOK
    <3> QED BY <3>3, <3>4, Zenon DEF LeavesClosed
  <2>5. ASSUME NEW c \in Conns, RemoveStream(c) PROVE LeavesClosed
    <3>1. local[c].sess \in Sess /\ closed[c] /\ closed' = closed
      BY <2>5, Zenon DEF RemoveStream, IInv, LocalInv, HasSess, ClosedInv
    <3>2. \A s \in Sess : streams[s] \ streams'[s] \subseteq {[id |-> local[c].stream, conn |-> c]}
      BY <2>0, <2>5, <3>1 DEF RemoveStream, Remaining, TypeOK
    <3> QED BY <3>1, <3>2 DEF LeavesClosed
  <2>6. \/ streams' = streams
        \/ \E t \in Sess : CloseStreams(t)
        \/ \E c \in Conns : AddStream(c) \/ AddStreamDisplace(c) \/ RemoveStream(c)
    BY Zenon DEF Next, ServerStep, Start, CtxCancel, CloseListener, AcceptLoopEnd, TerminateStep,
       CloseBackend, RemoveSession, HandlerStep, ConnectStep, Accept, HandshakeFails, LookupHit,
       LookupMiss, LookupRefused, OpenStep, OpenSession, OpenFails, SpawnBackend, RegisterStep,
       AddStreamCheck, AddStreamRefused, Evict, RunStep, ReadFails, WriteFails, TerminateReturns,
       LeaveStep, DrainedTerminate, DrainedReturns, BackendStep, BackendReadFails, BackendReturns,
       StopStep, StopCall, StopSnapshot, StopTerminate, StopTerminateReturns, StopWaits
  <2> QED BY <2>1, <2>2, <2>3, <2>4, <2>5, <2>6, Zenon
<1> QED BY <1>1, Invariance, PTL DEF Spec

\* server.go Stop with UDPBackend: when Stop waits for its goroutines, no dial is under way
\* and each stream and backend read that is still blocked is one that has to return.
StopWaitsForEnding ==
    backend = "udp" /\ stopPc \in {"walk", "returned"} /\ toStop = {} =>
        /\ \A c \in Conns : pc[c] # "opening" /\ (pc[c] = "run" => ReadMustEnd(c))
        /\ \A s \in Sess : phase[s] # "live"
        /\ \A s \in Sess : backendPc[s] = "read" /\ phase[s] = "claimed" =>
              \E c \in Conns : Terminating(c, s)

\* wg.Wait() in Stop waits for no stream of a live session (server.go:285): with
\* fairness, StopReturns.
THEOREM StopWaitEnds == Spec => []StopWaitsForEnding
<1>1. IInv => StopWaitsForEnding
  <2> SUFFICES ASSUME IInv, backend = "udp", stopPc \in {"walk", "returned"}, toStop = {}
               PROVE  /\ \A c \in Conns : pc[c] # "opening" /\ (pc[c] = "run" => ReadMustEnd(c))
                      /\ \A s \in Sess : phase[s] # "live"
                      /\ \A s \in Sess : backendPc[s] = "read" /\ phase[s] = "claimed" =>
                            \E c \in Conns : Terminating(c, s)
    BY DEF StopWaitsForEnding
  <2>1. \A s \in Sess : phase[s] # "live"
    BY DEF IInv, StopCoversSessions
  <2>2. \A c \in Conns : pc[c] # "opening"
    BY ServerConstants DEF IInv, StopInv, LockInv
  <2>3. \A c \in Conns : pc[c] = "run" => ReadMustEnd(c)
    BY <2>1 DEF IInv, LocalInv, HasSess, ReadMustEnd, Claimable
  <2>4. \A s \in Sess : backendPc[s] = "read" /\ phase[s] = "claimed" =>
            \E c \in Conns : Terminating(c, s)
    BY DEF IInv, BusyInv, Terminating
  <2> QED BY <2>1, <2>2, <2>3, <2>4, Zenon
<1> QED BY <1>1, Invariance, PTL
=============================================================================
