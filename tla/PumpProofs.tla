----------------------------- MODULE PumpProofs -----------------------------
(***************************************************************************)
(* Safety of Pump for any number of allocations.  PumpInv strengthens the  *)
(* two properties with where run is: a stream is ready only between Ready  *)
(* and Exit, and inside a pump its relay is open.                          *)
(***************************************************************************)
EXTENDS Pump, TLAPS

\* run is inside a pump.
InPump == {"pump", "handshake", "clear", "preamble", "ready", "spawn", "wait", "exit", "close"}

ReadyInv == ready => pc \in {"spawn", "wait", "exit"}

RelayInv == pc \in InPump => cur \in Pumps /\ "relay" \in open[cur]

ClientInv ==
    \A p \in Pumps, r \in {"tx", "rx"} :
        goroutine[p][r] = "running" => p = cur /\ (pc = "wait" \/ (pc = "ready" /\ Raw))

PumpInv == TypeOK /\ ReadyInv /\ RelayInv /\ ClientInv

-----------------------------------------------------------------------------
\* AfterFunc registers one deadline or three.
LEMMA AfterFuncLen ==
    /\ Len(AfterFuncConns) \in {1, 3}
    /\ \A i \in 1 .. Len(AfterFuncConns) : AfterFuncConns[i] \in Conns
  <1>1. CASE Raw
    <2>1. AfterFuncConns = <<"relay">>
      BY <1>1 DEF AfterFuncConns
    <2> QED BY <2>1 DEF Conns
  <1>2. CASE ~Raw
    <2>1. AfterFuncConns = <<"relay", "dtls", "c2">>
      BY <1>2 DEF AfterFuncConns
    <2> QED BY <2>1 DEF Conns
  <1> QED BY <1>1, <1>2

\* The state after Hub.Start satisfies PumpInv.
LEMMA InitPump == Init => PumpInv
  <1> SUFFICES ASSUME Init PROVE PumpInv
    OBVIOUS
  <1>1. TypeOK
    <2>1. fired \in [Pumps -> 0 .. Len(AfterFuncConns)]
      BY AfterFuncLen DEF Init
    <2>2. 0 \in 0 .. MaxPumps
      BY PumpConstants
    <2> QED BY <2>1, <2>2, Zenon DEF Init, TypeOK, Pcs, Roles, Conns
  <1>2. ReadyInv /\ RelayInv /\ ClientInv
    BY DEF Init, ReadyInv, RelayInv, ClientInv, InPump, Roles
  <1> QED BY <1>1, <1>2 DEF PumpInv

\* Go starts goroutines of the current pump only.
LEMMA GoTypes ==
    ASSUME TypeOK, cur \in Pumps, NEW R \in SUBSET Roles, Go(R)
    PROVE  /\ goroutine' \in [Pumps -> [Roles -> {"off", "running", "done"}]]
           /\ \A p \in Pumps, r \in Roles :
                 goroutine'[p][r] = "running" => goroutine[p][r] = "running" \/ (p = cur /\ r \in R)
  BY DEF TypeOK, Go

\* No step of the stream, of a pump's goroutines or of Stop leaves the types.
LEMMA TypeStep ==
    ASSUME PumpInv, [Next]_vars
    PROVE  TypeOK'
  <1> USE PumpConstants DEF PumpInv, TypeOK, Pcs, Pumps, Conns, Roles, Goto
  <1>1. CASE Loop \/ BackoffOver \/ BackoffCancelled \/ ClientFails \/ Handshake
             \/ HandshakeFails \/ Preamble \/ PreambleFails \/ Wait \/ Ready
    BY <1>1, Zenon DEF Loop, BackoffOver, BackoffCancelled, ClientFails, Handshake, HandshakeFails,
                Preamble, PreambleFails, Wait, Ready, pumpVars, AfterFuncConns, Raw
  <1>2. CASE ConnectFails \/ Close
    BY <1>2, Zenon DEF ConnectFails, Close, AfterError, pumpVars, AfterFuncConns, Raw
  <1>3. CASE Connect
    BY <1>3 DEF Connect, AfterFuncConns, Raw
  <1>4. CASE PumpRaw \/ PumpDTLS \/ Spawn
    <2>1. cur \in Pumps
      BY <1>4 DEF PumpRaw, PumpDTLS, Spawn, RelayInv, InPump
    <2>2. PICK R \in SUBSET Roles : Go(R)
      BY <1>4, Zenon DEF PumpRaw, PumpDTLS, Spawn
    <2>3. goroutine' \in [Pumps -> [Roles -> {"off", "running", "done"}]]
      BY <2>1, <2>2, GoTypes
    <2> QED BY <1>4, <2>1, <2>3 DEF PumpRaw, PumpDTLS, Spawn, AfterFuncConns, Raw
  <1>5. CASE ClearDeadline \/ Exit
    <2>1. CASE ClearDeadline
      BY <2>1, Zenon DEF ClearDeadline, AfterFuncConns, Raw
    <2>2. CASE Exit
      BY <2>2, Zenon DEF Exit, Cancelled, AfterFuncConns, Raw
    <2> QED BY <1>5, <2>1, <2>2
  <1>6. ASSUME NEW p \in Pumps, NEW r \in Roles, Return(p, r)
        PROVE  TypeOK'
    BY <1>6 DEF Return, Cancelled, runVars, AfterFuncConns, Raw
  <1>7. ASSUME NEW p \in Pumps, AfterFunc(p)
        PROVE  TypeOK'
    <2>1. fired[p] + 1 \in 1 .. Len(AfterFuncConns) /\ AfterFuncConns[fired[p] + 1] \in Conns
      BY <1>7, AfterFuncLen DEF AfterFunc
    <2> QED BY <1>7, <2>1 DEF AfterFunc, runVars, AfterFuncConns, Raw
  <1>8. CASE StopCall \/ StopReturn
    BY <1>8 DEF StopCall, StopReturn, pumpVars, AfterFuncConns, Raw
  <1>9. CASE UNCHANGED vars
    BY <1>9 DEF vars, runVars, pumpVars, AfterFuncConns, Raw
  <1> QED BY <1>1, <1>2, <1>3, <1>4, <1>5, <1>6, <1>7, <1>8, <1>9, Zenon
          DEF Next, RunStep, Interrupted, Fails

\* The deferred calls of a pump run in the order that keeps ready within it.
LEMMA ReadyStep ==
    ASSUME PumpInv, [Next]_vars
    PROVE  ReadyInv' /\ RelayInv'
  <1> USE DEF PumpInv, ReadyInv, RelayInv, InPump, Goto
  <1>1. CASE Loop \/ BackoffOver \/ BackoffCancelled \/ ClientFails \/ Handshake
             \/ HandshakeFails \/ Preamble \/ PreambleFails \/ Wait \/ Ready
    BY <1>1 DEF Loop, BackoffOver, BackoffCancelled, ClientFails, Handshake, HandshakeFails,
                Preamble, PreambleFails, Wait, Ready, pumpVars
  <1>2. CASE ConnectFails \/ Close
    BY <1>2, Zenon DEF ConnectFails, Close, AfterError, pumpVars
  <1>3. CASE Connect
    BY <1>3, PumpConstants DEF Connect, TypeOK, Pumps
  <1>4. CASE PumpRaw \/ PumpDTLS \/ Spawn \/ ClearDeadline \/ Exit
    BY <1>4 DEF PumpRaw, PumpDTLS, Spawn, ClearDeadline, Exit, TypeOK, Conns
  <1>5. ASSUME NEW p \in Pumps, NEW r \in Roles, Return(p, r)
        PROVE  ReadyInv' /\ RelayInv'
    BY <1>5 DEF Return, runVars
  <1>6. ASSUME NEW p \in Pumps, AfterFunc(p)
        PROVE  ReadyInv' /\ RelayInv'
    BY <1>6 DEF AfterFunc, runVars
  <1>7. CASE StopCall \/ StopReturn \/ UNCHANGED vars
    BY <1>7 DEF StopCall, StopReturn, vars, runVars, pumpVars
  <1> QED BY <1>1, <1>2, <1>3, <1>4, <1>5, <1>6, <1>7
          DEF Next, RunStep, Interrupted, Fails

\* tx and rx start in a pump that has none and are over when it is left.
LEMMA ClientStep ==
    ASSUME PumpInv, [Next]_vars
    PROVE  ClientInv'
  <1> USE DEF PumpInv, ClientInv, Raw, Goto
  <1>1. CASE Loop \/ BackoffOver \/ BackoffCancelled \/ ClientFails \/ Handshake
             \/ HandshakeFails \/ Preamble \/ PreambleFails \/ Ready
    BY <1>1 DEF Loop, BackoffOver, BackoffCancelled, ClientFails, Handshake, HandshakeFails,
                Preamble, PreambleFails, Ready, pumpVars
  <1>2. CASE ConnectFails \/ Close \/ Connect \/ ClearDeadline \/ Exit
    BY <1>2, Zenon DEF ConnectFails, Close, AfterError, Connect, ClearDeadline, Exit, pumpVars
  <1>3. CASE PumpRaw \/ PumpDTLS \/ Spawn
    <2>1. cur \in Pumps
      BY <1>3 DEF PumpRaw, PumpDTLS, Spawn, RelayInv, InPump
    <2>2. CASE PumpRaw \/ Spawn
      <3>1. Go({"tx", "rx"})
        BY <2>2 DEF PumpRaw, Spawn
      <3>2. \A p \in Pumps, r \in Roles :
               goroutine'[p][r] = "running" => goroutine[p][r] = "running" \/ p = cur
        BY <2>1, <3>1, GoTypes DEF Roles
      <3> QED BY <2>2, <3>2 DEF PumpRaw, Spawn, Roles
    <2>3. CASE PumpDTLS
      <3>1. \A p \in Pumps, r \in {"tx", "rx"} :
               goroutine'[p][r] = "running" => goroutine[p][r] = "running"
        BY <2>1, <2>3, GoTypes DEF PumpDTLS, Roles
      <3> QED BY <2>3, <3>1 DEF PumpDTLS
    <2> QED BY <1>3, <2>2, <2>3
  <1>4. CASE Wait
    BY <1>4 DEF Wait, PumpRoles, Roles, pumpVars
  <1>5. ASSUME NEW p \in Pumps, NEW r \in Roles, Return(p, r)
        PROVE  ClientInv'
    BY <1>5 DEF Return, runVars, TypeOK, Roles
  <1>6. ASSUME NEW p \in Pumps, AfterFunc(p)
        PROVE  ClientInv'
    BY <1>6 DEF AfterFunc, runVars
  <1>7. CASE StopCall \/ StopReturn \/ UNCHANGED vars
    BY <1>7 DEF StopCall, StopReturn, vars, runVars, pumpVars
  <1> QED BY <1>1, <1>2, <1>3, <1>4, <1>5, <1>6, <1>7
          DEF Next, RunStep, Interrupted, Fails

-----------------------------------------------------------------------------
\* PumpInv holds in every state of a stream.
THEOREM PumpInvariance == Spec => []PumpInv
  <1>1. PumpInv /\ [Next]_vars => PumpInv'
    BY TypeStep, ReadyStep, ClientStep DEF PumpInv
  <1> QED BY InitPump, <1>1, PTL DEF Spec

\* stream.ready: a stream that the scheduler may choose has its allocation, for
\* any number of reconnects.
THEOREM ReadyCorrect == Spec => []ReadyHasRelay
  <1>1. PumpInv => ReadyHasRelay
    BY PumpConstants DEF PumpInv, ReadyInv, RelayInv, InPump, ReadyHasRelay, Pumps
  <1> QED BY PumpInvariance, <1>1, PTL

\* pumpRaw, pumpDTLS: the tx and rx of two pumps never run side by side.
THEOREM ClientsTakeTurns == Spec => []OnePumpAtATime
  <1>1. PumpInv => OnePumpAtATime
    BY DEF PumpInv, ClientInv, OnePumpAtATime
  <1> QED BY PumpInvariance, <1>1, PTL

-----------------------------------------------------------------------------
(* The refinement: Pump implements StreamLife. *)

\* The tx goroutine of the current pump, under the mapping.
Tx == IF cur = 0 THEN "off" ELSE goroutine[cur]["tx"]

\* A pump has no tx before it starts one, and one that was ready is left only
\* when its tx is over.
TxInv ==
    /\ \A p \in Pumps : p > cur => goroutine[p]["tx"] = "off"
    /\ pc \in {"pump", "handshake", "clear", "preamble", "spawn"} => goroutine[cur]["tx"] = "off"
    /\ pc = "ready" /\ ~Raw => goroutine[cur]["tx"] = "off"
    /\ pc = "exit" /\ ready => goroutine[cur]["tx"] = "done"

\* Starting goroutines of the current pump leaves every other tx alone.
LEMMA GoTx ==
    ASSUME TypeOK, cur \in Pumps, NEW R \in SUBSET Roles, Go(R)
    PROVE  /\ \A p \in Pumps : p # cur => goroutine'[p]["tx"] = goroutine[p]["tx"]
           /\ "tx" \in R => goroutine'[cur]["tx"] = "running"
           /\ "tx" \notin R => goroutine'[cur]["tx"] = goroutine[cur]["tx"]
  BY DEF TypeOK, Go, Roles

\* Every step keeps TxInv.
LEMMA TxStep ==
    ASSUME PumpInv, TxInv, [Next]_vars
    PROVE  TxInv'
  <1> USE PumpConstants DEF PumpInv, TxInv, Raw, Goto
  <1>1. CASE Loop \/ BackoffOver \/ BackoffCancelled \/ ClientFails \/ Handshake
             \/ HandshakeFails \/ Preamble \/ PreambleFails \/ Ready
    BY <1>1 DEF Loop, BackoffOver, BackoffCancelled, ClientFails, Handshake, HandshakeFails,
                Preamble, PreambleFails, Ready, pumpVars, ReadyInv
  <1>2. CASE Wait
    BY <1>2 DEF Wait, PumpRoles, Roles, pumpVars
  <1>3. CASE ConnectFails \/ Close \/ ClearDeadline \/ Exit
    BY <1>3, Zenon DEF ConnectFails, Close, AfterError, ClearDeadline, Exit, pumpVars
  <1>4. CASE Connect
    BY <1>4 DEF Connect, TypeOK, Pumps
  <1>5. CASE PumpRaw \/ PumpDTLS \/ Spawn
    <2>1. cur \in Pumps
      BY <1>5 DEF PumpRaw, PumpDTLS, Spawn, RelayInv, InPump
    <2>2. \A p \in Pumps : p # cur => goroutine'[p]["tx"] = goroutine[p]["tx"]
      BY <1>5, <2>1, GoTx DEF PumpRaw, PumpDTLS, Spawn, Roles
    <2>3. PumpDTLS => goroutine'[cur]["tx"] = goroutine[cur]["tx"]
      BY <2>1, GoTx DEF PumpDTLS, Roles
    <2> QED BY <1>5, <2>1, <2>2, <2>3 DEF PumpRaw, PumpDTLS, Spawn, Pumps
  <1>6. ASSUME NEW p \in Pumps, NEW r \in Roles, Return(p, r)
        PROVE  TxInv'
    BY <1>6 DEF Return, runVars, TypeOK, Roles, RelayInv, InPump
  <1>7. ASSUME NEW p \in Pumps, AfterFunc(p)
        PROVE  TxInv'
    BY <1>7 DEF AfterFunc, runVars
  <1>8. CASE StopCall \/ StopReturn \/ UNCHANGED vars
    BY <1>8 DEF StopCall, StopReturn, vars, runVars, pumpVars
  <1> QED BY <1>1, <1>2, <1>3, <1>4, <1>5, <1>6, <1>7, <1>8
          DEF Next, RunStep, Interrupted, Fails

\* Every step of a stream is a step of StreamLife or a stutter.
LEMMA LifeStep ==
    ASSUME PumpInv, TxInv, [Next]_vars
    PROVE  [Life!Next]_<<ready, Tx>>
  <1> USE PumpConstants DEF PumpInv, Goto
  <1>1. CASE Loop \/ BackoffOver \/ BackoffCancelled \/ ClientFails \/ Handshake
             \/ HandshakeFails \/ Preamble \/ PreambleFails \/ Wait \/ ClearDeadline
    BY <1>1 DEF Loop, BackoffOver, BackoffCancelled, ClientFails, Handshake, HandshakeFails,
                Preamble, PreambleFails, Wait, ClearDeadline, pumpVars, Tx
  <1>2. CASE ConnectFails \/ Close
    <2>1. ready = FALSE /\ ready' = FALSE
      BY <1>2, Zenon DEF ConnectFails, Close, AfterError, ReadyInv, TypeOK
    <2> QED BY <1>2, <2>1, Zenon DEF ConnectFails, Close, AfterError, pumpVars, Tx
  <1>3. CASE Connect
    <2>1. ready = FALSE /\ ready' = FALSE
      BY <1>3 DEF Connect, ReadyInv, TypeOK
    <2>2. cur' \in Pumps /\ cur' = cur + 1 /\ Tx' = "off"
      BY <1>3 DEF Connect, TxInv, Tx, TypeOK, Pumps
    <2>3. Tx \in {"off", "done"}
      BY <1>3 DEF Connect, ClientInv, Tx, TypeOK, Pumps, Roles
    <2> QED BY <2>1, <2>2, <2>3, Zenon DEF Life!Next, Life!Again, Tx
  <1>4. CASE PumpRaw \/ Spawn
    <2>1. cur \in Pumps
      BY <1>4 DEF PumpRaw, Spawn, RelayInv, InPump
    <2>2. Tx = "off" /\ Tx' = "running" /\ ready' = ready
      BY <1>4, <2>1, GoTx DEF PumpRaw, Spawn, Tx, TxInv, Roles, Pumps
    <2> QED BY <2>2 DEF Life!Next, Life!TxStart, Tx
  <1>5. CASE PumpDTLS
    <2>1. cur \in Pumps
      BY <1>5 DEF PumpDTLS, RelayInv, InPump
    <2> QED BY <1>5, <2>1, GoTx DEF PumpDTLS, Tx, Roles
  <1>6. CASE Ready
    <2>1. ready = FALSE /\ ready' = TRUE /\ Tx' = Tx
      BY <1>6 DEF Ready, ReadyInv, TypeOK, pumpVars, Tx
    <2> QED BY <2>1, Zenon DEF Life!Next, Life!Up, Tx
  <1>7. CASE Exit
    <2>1. cur \in Pumps /\ Tx' = Tx /\ ready' = FALSE
      BY <1>7 DEF Exit, RelayInv, InPump, Tx
    <2>2. ready => Tx = "done"
      BY <1>7, <2>1 DEF Exit, TxInv, Tx, Pumps
    <2>3. CASE ready = TRUE
      BY <2>1, <2>2, <2>3, Zenon DEF Life!Next, Life!Down, Tx
    <2>4. CASE ready = FALSE
      BY <2>1, <2>4, Zenon DEF Tx
    <2> QED BY <2>3, <2>4, Zenon DEF TypeOK
  <1>8. ASSUME NEW p \in Pumps, NEW r \in Roles, Return(p, r)
        PROVE  [Life!Next]_<<ready, Tx>>
    <2>1. CASE r = "tx"
      <3>1. p = cur
        BY <1>8, <2>1 DEF Return, ClientInv
      <3>2. Tx = "running" /\ Tx' = "done" /\ ready' = ready
        BY <1>8, <2>1, <3>1 DEF Return, Tx, TypeOK, runVars, Pumps, Roles
      <3> QED BY <3>2 DEF Life!Next, Life!TxEnd, Tx
    <2>2. CASE r # "tx"
      BY <1>8, <2>2 DEF Return, Tx, TypeOK, runVars, Roles
    <2> QED BY <2>1, <2>2
  <1>9. ASSUME NEW p \in Pumps, AfterFunc(p)
        PROVE  [Life!Next]_<<ready, Tx>>
    BY <1>9 DEF AfterFunc, runVars, Tx
  <1>10. CASE StopCall \/ StopReturn \/ UNCHANGED vars
    BY <1>10 DEF StopCall, StopReturn, vars, runVars, pumpVars, Tx
  <1> QED BY <1>1, <1>2, <1>3, <1>4, <1>5, <1>6, <1>7, <1>8, <1>9, <1>10
          DEF Next, RunStep, Interrupted, Fails

\* stream.ready, stream.in: for any number of reconnects a stream goes through
\* the life that Hub gives its streams.
THEOREM LifeRefined == Spec => ImplementsLife
  <1>1. Init => Life!Init
    BY DEF Init, Life!Init
  <1>2. Init => TxInv
    BY PumpConstants DEF Init, TxInv, Roles, Pumps
  <1>3. PumpInv /\ TxInv /\ [Next]_vars => TxInv'
    BY TxStep
  <1>4. PumpInv /\ TxInv /\ [Next]_vars => [Life!Next]_<<ready, Tx>>
    BY LifeStep
  <1> QED BY PumpInvariance, <1>1, <1>2, <1>3, <1>4, PTL DEF Spec, ImplementsLife, Life!Spec, Tx
-----------------------------------------------------------------------------
(* What the deadlines of AfterFunc reach: the safety part of CarriersEnd,   *)
(* RawStopReturns and EstablishedEnds.                                      *)

\* The connections whose deadlines a pump's AfterFunc has set.
Fired(p) == {AfterFuncConns[i] : i \in 1 .. fired[p]}

\* A pump to come has nothing, and no deadline is set before the context is cancelled.
FutureInv ==
    /\ \A p \in Pumps : p > cur => pumpCtx[p] = "none" /\ \A r \in Roles : goroutine[p][r] = "off"
    /\ \A p \in Pumps : pumpCtx[p] # "cancelled" => fired[p] = 0

\* Only the deadline of the DTLS connection is ever taken back, and only a pump with DTLS
\* has carriers.
DeadlineInv ==
    \A p \in Pumps :
        /\ Fired(p) \ {"dtls"} \subseteq expired[p]
        /\ Raw => goroutine[p]["up"] = "off" /\ goroutine[p]["down"] = "off"

WakeInv == FutureInv /\ DeadlineInv

\* Once all deadlines of a cancelled pump are set, what goroutine r of it blocks on is over.
Woken(p, r) ==
    goroutine[p][r] = "running" /\ pumpCtx[p] = "cancelled" /\ fired[p] = Len(AfterFuncConns)
        => Unblocked(p, r)

\* What AfterFunc has set when it is through.
LEMMA AllFired ==
    ASSUME NEW p \in Pumps, fired[p] = Len(AfterFuncConns)
    PROVE  /\ "relay" \in Fired(p)
           /\ ~Raw => "dtls" \in Fired(p) /\ "c2" \in Fired(p)
<1>1. CASE Raw
  <2>1. AfterFuncConns = <<"relay">>
    BY <1>1 DEF AfterFuncConns
  <2>2. Len(AfterFuncConns) = 1 /\ AfterFuncConns[1] = "relay"
    BY <2>1
  <2>3. 1 \in 1 .. fired[p]
    BY <2>2
  <2> QED BY <1>1, <2>2, <2>3, Zenon DEF Fired
<1>2. CASE ~Raw
  <2>1. AfterFuncConns = <<"relay", "dtls", "c2">>
    BY <1>2 DEF AfterFuncConns
  <2>2. Len(AfterFuncConns) = 3 /\ AfterFuncConns[1] = "relay" /\ AfterFuncConns[2] = "dtls"
        /\ AfterFuncConns[3] = "c2"
    BY <2>1
  <2>3. 1 \in 1 .. fired[p] /\ 2 \in 1 .. fired[p] /\ 3 \in 1 .. fired[p]
    BY <2>2
  <2> QED BY <2>2, <2>3, Zenon DEF Fired
<1> QED BY <1>1, <1>2

\* The steps that set no deadline, start and cancel nothing.
Quiet ==
    UNCHANGED <<peerType, pumpCtx, fired, expired, goroutine>> /\ (cur' = cur)

\* Which steps do.
LEMMA WhoWakes ==
    ASSUME [Next]_vars
    PROVE  \/ Quiet \/ Connect \/ PumpRaw \/ PumpDTLS \/ ClearDeadline \/ Spawn \/ Exit \/ StopCall
           \/ \E p \in Pumps : AfterFunc(p) \/ \E r \in Roles : Return(p, r)
<1> USE DEF Quiet, Goto, pumpVars
<1>1. CASE Loop \/ ConnectFails \/ Close \/ BackoffOver \/ BackoffCancelled \/ ClientFails \/ Handshake
           \/ HandshakeFails \/ Preamble \/ PreambleFails \/ Ready \/ Wait \/ StopReturn
  BY <1>1, Zenon DEF Loop, ConnectFails, Close, AfterError, BackoffOver, BackoffCancelled, ClientFails,
     Handshake, HandshakeFails, Preamble, PreambleFails, Ready, Wait, StopReturn
<1>2. CASE UNCHANGED vars
  BY <1>2 DEF vars, runVars
<1> QED BY <1>1, <1>2, Zenon DEF Next, RunStep, Interrupted, Fails

\* Every step keeps what is known of pumps to come.
LEMMA FutureStep ==
    ASSUME PumpInv, FutureInv, [Next]_vars
    PROVE  FutureInv'
<1> USE PumpConstants DEF PumpInv, TypeOK, FutureInv, Goto
<1>1. CASE Quiet \/ ClearDeadline
  BY <1>1 DEF Quiet, ClearDeadline
<1>2. CASE Connect
  BY <1>2 DEF Connect, Pumps
<1>3. CASE PumpRaw \/ PumpDTLS \/ Spawn
  <2>1. cur \in Pumps
    BY <1>3 DEF PumpRaw, PumpDTLS, Spawn, RelayInv, InPump
  <2>2. \A p \in Pumps : p > cur => goroutine'[p] = goroutine[p]
    BY <1>3, <2>1 DEF PumpRaw, PumpDTLS, Spawn, Go, Pumps
  <2> QED BY <1>3, <2>2 DEF PumpRaw, PumpDTLS, Spawn
<1>4. CASE Exit
  <2>1. cur \in Pumps
    BY <1>4 DEF Exit, RelayInv, InPump
  <2> QED BY <1>4, <2>1 DEF Exit, Cancelled, Pumps
<1>5. CASE StopCall
  BY <1>5 DEF StopCall
<1>6. ASSUME NEW p \in Pumps, AfterFunc(p) PROVE FutureInv'
  BY <1>6 DEF AfterFunc, runVars
<1>7. ASSUME NEW p \in Pumps, NEW r \in Roles, Return(p, r) PROVE FutureInv'
  BY <1>7 DEF Return, Cancelled, runVars
<1> QED BY <1>1, <1>2, <1>3, <1>4, <1>5, <1>6, <1>7, WhoWakes, Zenon

\* Nothing takes a deadline back, except that pumpDTLS clears the one of its handshake.
LEMMA DeadlinesStay ==
    ASSUME PumpInv, [Next]_vars, NEW p \in Pumps, NEW F \in SUBSET Conns,
           Fired(p) \ F \subseteq expired[p], "dtls" \in F \/ ~(ClearDeadline /\ p = cur)
    PROVE  Fired(p)' \ F \subseteq expired'[p]
<1>0. AfterFuncConns' = AfterFuncConns
  <2>1. peerType' = peerType
    BY WhoWakes, Zenon DEF Quiet, Connect, PumpRaw, PumpDTLS, ClearDeadline, Spawn, Exit, StopCall,
       AfterFunc, Return, Goto, runVars
  <2> QED BY <2>1 DEF AfterFuncConns, Raw
<1>1. CASE fired' = fired /\ expired' = expired
  BY <1>0, <1>1 DEF Fired
<1>2. CASE ClearDeadline
  <2>1. fired' = fired /\ expired' = [expired EXCEPT ![cur] = @ \ {"dtls"}]
    BY <1>2 DEF ClearDeadline
  <2>2. Fired(p)' = Fired(p)
    BY <1>0, <2>1 DEF Fired
  <2>3. CASE p # cur
    <3>1. expired'[p] = expired[p]
      BY <2>1, <2>3 DEF PumpInv, TypeOK
    <3> QED BY <2>2, <3>1
  <2>4. CASE p = cur
    <3>1. expired'[p] = expired[p] \ {"dtls"} /\ "dtls" \in F
      BY <1>2, <2>1, <2>4 DEF PumpInv, TypeOK
    <3> QED BY <2>2, <3>1
  <2> QED BY <2>3, <2>4
<1>3. ASSUME NEW q \in Pumps, AfterFunc(q) PROVE Fired(p)' \ F \subseteq expired'[p]
  <2>1. CASE q # p
    <3>1. fired'[p] = fired[p] /\ expired'[p] = expired[p]
      BY <1>3, <2>1 DEF AfterFunc, PumpInv, TypeOK
    <3> QED BY <1>0, <3>1 DEF Fired
  <2>2. CASE q = p
    <3> DEFINE n == fired[p]
    <3>1. /\ n \in Nat /\ fired'[p] = n + 1
          /\ expired'[p] = expired[p] \cup {AfterFuncConns[n + 1]}
      BY <1>3, <2>2 DEF AfterFunc, PumpInv, TypeOK
    <3>2. 1 .. (n + 1) = 1 .. n \cup {n + 1}
      BY <3>1
    <3>3. Fired(p)' = Fired(p) \cup {AfterFuncConns[n + 1]}
      BY <1>0, <3>1, <3>2 DEF Fired
    <3> QED BY <3>1, <3>3
  <2> QED BY <2>1, <2>2
<1>4. ASSUME NEW q \in Pumps, NEW r \in Roles, Return(q, r) PROVE fired' = fired /\ expired' = expired
  BY <1>4 DEF Return
<1>5. CASE Quiet \/ Connect \/ PumpRaw \/ PumpDTLS \/ Spawn \/ Exit \/ StopCall
  BY <1>1, <1>5, Zenon DEF Quiet, Connect, PumpRaw, PumpDTLS, Spawn, Exit, StopCall
<1> QED BY <1>1, <1>2, <1>3, <1>4, <1>5, WhoWakes, Zenon

\* Every step keeps WakeInv.
LEMMA WakeStep ==
    ASSUME PumpInv, WakeInv, [Next]_vars
    PROVE  WakeInv'
<1>1. FutureInv'
  BY FutureStep DEF WakeInv
<1>2. ASSUME NEW p \in Pumps PROVE Fired(p)' \ {"dtls"} \subseteq expired'[p]
  <2>1. {"dtls"} \in SUBSET Conns
    BY DEF Conns
  <2>2. Fired(p) \ {"dtls"} \subseteq expired[p]
    BY DEF WakeInv, DeadlineInv
  <2> QED BY <2>1, <2>2, DeadlinesStay, Zenon
<1>3. ASSUME Raw', NEW p \in Pumps, NEW r \in {"up", "down"} PROVE goroutine'[p][r] = "off"
  <2>0. Raw /\ goroutine[p][r] = "off"
    <3>1. Raw
      BY <1>3, WhoWakes, Zenon DEF Raw, Quiet, Connect, PumpRaw, PumpDTLS, ClearDeadline, Spawn, Exit,
         StopCall, AfterFunc, Return, Goto, runVars
    <3> QED BY <1>3, <3>1 DEF WakeInv, DeadlineInv
  <2>1. CASE goroutine' = goroutine
    BY <2>0, <2>1
  <2>2. CASE PumpRaw \/ Spawn
    <3>1. cur \in Pumps /\ Go({"tx", "rx"})
      BY <2>2 DEF PumpRaw, Spawn, PumpInv, RelayInv, InPump
    <3> QED BY <1>3, <2>0, <3>1 DEF Go, PumpInv, TypeOK, Roles
  <2>3. ASSUME NEW q \in Pumps, NEW l \in Roles, Return(q, l) PROVE goroutine'[p][r] = "off"
    BY <1>3, <2>0, <2>3 DEF Return, PumpInv, TypeOK, Roles
  <2>4. ~PumpDTLS
    BY <2>0 DEF PumpDTLS
  <2>5. CASE Quiet \/ Connect \/ ClearDeadline \/ Exit \/ StopCall \/ \E q \in Pumps : AfterFunc(q)
    BY <2>1, <2>5, Zenon DEF Quiet, Connect, ClearDeadline, Exit, StopCall, AfterFunc
  <2> QED BY <2>2, <2>3, <2>4, <2>5, WhoWakes, Zenon
<1>4. DeadlineInv'
  BY <1>2, <1>3 DEF DeadlineInv
<1> QED BY <1>1, <1>4 DEF WakeInv

\* WakeInv holds in every state of a stream.
LEMMA WakeInvariance == Spec => []WakeInv
<1>1. Init => WakeInv
  <2> SUFFICES ASSUME Init PROVE WakeInv
    OBVIOUS
  <2>1. FutureInv
    BY DEF Init, FutureInv
  <2>2. \A p \in Pumps : Fired(p) = {}
    BY DEF Init, Fired
  <2>3. DeadlineInv
    BY <2>2 DEF Init, DeadlineInv, Roles
  <2> QED BY <2>1, <2>3 DEF WakeInv
<1>2. PumpInv /\ WakeInv /\ [Next]_vars => WakeInv'
  BY WakeStep
<1> QED BY <1>1, <1>2, PumpInvariance, PTL DEF Spec

\* What blocks a goroutine is among the connections of AfterFunc.
LEMMA FiredWakes ==
    ASSUME WakeInv, NEW p \in Pumps, NEW r \in Roles,
           Raw \/ r # "rx" \/ "dtls" \in expired[p]
    PROVE  Woken(p, r)
<1> SUFFICES ASSUME goroutine[p][r] = "running", pumpCtx[p] = "cancelled",
                    fired[p] = Len(AfterFuncConns)
             PROVE  Unblocked(p, r)
  BY DEF Woken
<1>1. "relay" \in expired[p] /\ (~Raw => "c2" \in expired[p])
  BY AllFired DEF WakeInv, DeadlineInv
<1>2. ~Raw \/ r \notin {"up", "down"}
  BY DEF WakeInv, DeadlineInv
<1>3. CASE r = "tx"
  BY <1>3 DEF Unblocked
<1>4. CASE r = "up"
  BY <1>1, <1>2, <1>4 DEF Unblocked, ReadsFrom
<1>5. CASE r = "down"
  BY <1>1, <1>2, <1>5 DEF Unblocked, ReadsFrom
<1>6. CASE r = "rx"
  BY <1>1, <1>6 DEF Unblocked, ReadsFrom
<1> QED BY <1>3, <1>4, <1>5, <1>6 DEF Roles

\* AfterFunc: when a cancelled pump's deadlines are set, nothing keeps a carrier or its tx
\* blocked, nor its rx if there is no DTLS, also after the pump has returned without waiting
\* for them, and whatever later pumps do.
CarriersWoken ==
    \A p \in Pumps, r \in Roles : Raw \/ r # "rx" => Woken(p, r)

\* The deadlines reach every goroutine of a pump but the reader of its DTLS connection
\* (CarriersWoken; stream.go:212, 305): with fairness, CarriersEnd and
\* RawStopReturns.
THEOREM DeadlinesReach == Spec => []CarriersWoken
<1>1. WakeInv => CarriersWoken
  BY FiredWakes DEF CarriersWoken
<1> QED BY <1>1, WakeInvariance, PTL

\* Pump p has cleared the deadline of its handshake, and those set since are in force.
Cleared(p) ==
    /\ p <= cur /\ (p = cur => pc \notin {"pump", "handshake", "clear"})
    /\ Fired(p) \subseteq expired[p]

\* From there on no step takes a deadline of p back.
LEMMA ClearedStays ==
    ASSUME PumpInv, [Next]_vars, NEW p \in Pumps, Cleared(p)
    PROVE  Cleared(p)'
<1>1. p <= cur' /\ (p = cur' => pc' \notin {"pump", "handshake", "clear"})
  <2> USE DEF PumpInv, TypeOK, Pumps, Cleared, Goto
  <2>1. CASE Connect
    BY <2>1 DEF Connect
  <2>2. CASE UNCHANGED <<pc, cur>>
    BY <2>2
  <2>3. CASE cur' = cur /\ pc' \notin {"pump", "handshake", "clear"}
    BY <2>3
  <2>4. CASE pc \in {"pump", "handshake", "clear"} /\ cur' = cur
    BY <2>4
  <2>5. Connect \/ UNCHANGED <<pc, cur>> \/ (cur' = cur /\ pc' \notin {"pump", "handshake", "clear"})
          \/ (pc \in {"pump", "handshake", "clear"} /\ cur' = cur)
    BY Zenon DEF Next, RunStep, Interrupted, Fails, Loop, ConnectFails, AfterError, Close, BackoffOver,
       BackoffCancelled, PumpRaw, PumpDTLS, ClientFails, Handshake, HandshakeFails, ClearDeadline,
       Preamble, PreambleFails, Spawn, Ready, Wait, Exit, StopCall, StopReturn, AfterFunc, Return,
       vars, runVars
  <2> QED BY <2>1, <2>2, <2>3, <2>4, <2>5, Zenon
<1>2. ~(ClearDeadline /\ p = cur)
  BY DEF Cleared, ClearDeadline
<1>3. Fired(p)' \ {} \subseteq expired'[p]
  <2>1. Fired(p) \ {} \subseteq expired[p] /\ {} \in SUBSET Conns
    BY DEF Cleared
  <2> QED BY <1>2, <2>1, DeadlinesStay, Zenon
<1> QED BY <1>1, <1>3 DEF Cleared

\* A pump waits for its goroutines with its context live.
Established(p) == pc = "wait" /\ cur = p /\ pumpCtx[p] = "live"

\* pumpRaw, pumpDTLS: once a pump waits with its context live, all its goroutines can be
\* interrupted for good: whenever it is cancelled and its deadlines are set, none of them
\* is blocked (stream.go:212, 305, 354).  With fairness this is EstablishedEnds; a Stop before that
\* point is what pump_stop_race shows.
THEOREM EstablishedIsWoken ==
    ASSUME NEW p \in Pumps
    PROVE  Spec => [](Established(p) => [](\A r \in Roles : Woken(p, r)))
<1>1. PumpInv /\ WakeInv /\ Established(p) => Cleared(p)
  <2> SUFFICES ASSUME PumpInv, WakeInv, Established(p) PROVE Cleared(p)
    OBVIOUS
  <2>1. fired[p] = 0
    BY DEF Established, WakeInv, FutureInv
  <2>2. Fired(p) = {}
    BY <2>1 DEF Fired
  <2> QED BY <2>2 DEF Established, Cleared, Pumps
<1>2. PumpInv /\ Cleared(p) /\ [Next]_vars => Cleared(p)'
  BY ClearedStays
<1>3. WakeInv /\ Cleared(p) => \A r \in Roles : Woken(p, r)
  <2> SUFFICES ASSUME WakeInv, Cleared(p), NEW r \in Roles PROVE Woken(p, r)
    OBVIOUS
  <2>1. CASE fired[p] = Len(AfterFuncConns)
    <3>1. Raw \/ "dtls" \in expired[p]
      BY <2>1, AllFired DEF Cleared
    <3> QED BY <3>1, FiredWakes
  <2>2. CASE fired[p] # Len(AfterFuncConns)
    BY <2>2 DEF Woken
  <2> QED BY <2>1, <2>2
<1> QED BY <1>1, <1>2, <1>3, PumpInvariance, WakeInvariance, PTL DEF Spec
=============================================================================
