---------------------------- MODULE TunnelProofs ----------------------------
(***************************************************************************)
(* Safety of the Tunnel's lifecycle for any number of callers and hubs:    *)
(* the call that holds Tunnel.mu and the fields of the Tunnel determine    *)
(* which hub, if any, has goroutines.                                      *)
(***************************************************************************)
EXTENDS Tunnel, TLAPS

\* A call that waits for a hub holds mu, and only such a call does.
Holding == {"starting", "giveUp", "stopping"}

MuHeld ==
    /\ \A c \in Callers : pc[c] \in Holding => mu = c
    /\ mu # Nobody => pc[mu] \in Holding

\* What a call under way knows of the Tunnel.
CallOK ==
    \A c \in Callers :
        /\ pc[c] \in {"starting", "giveUp"} => state = "new" /\ built \in Hubs
        /\ pc[c] = "stopping" => state = "stopped"

\* A hub with goroutines is the current one of a started Tunnel, or the one that
\* the holder of mu waits for.
Accounted(h) ==
    \/ state = "started" /\ hub = h
    \/ mu # Nobody /\ pc[mu] \in {"starting", "giveUp"} /\ h = built
    \/ mu # Nobody /\ pc[mu] = "stopping" /\ h = hub

RunOK == \A h \in Hubs : run[h] = "yes" => Accounted(h)

\* A hub not yet built has no goroutines.
Unbuilt == \A h \in Hubs : h > built => run[h] = "no"

TunnelInv == TypeOK /\ MuHeld /\ CallOK /\ RunOK /\ Unbuilt

\* A new Tunnel satisfies the invariant.
LEMMA InitTunnel == Init => TunnelInv
  <1> SUFFICES ASSUME Init PROVE TunnelInv
    OBVIOUS
  <1>1. TypeOK
    BY TunnelConstants DEF Init, TypeOK, Hubs, Pcs
  <1>2. MuHeld /\ CallOK /\ RunOK /\ Unbuilt
    BY DEF Init, MuHeld, CallOK, RunOK, Unbuilt, Holding
  <1> QED
    BY <1>1, <1>2 DEF TunnelInv

\* Every step keeps the types, and hub set exactly when the Tunnel was started.
LEMMA TypeStep == TunnelInv /\ [Next]_vars => TypeOK'
  <1> SUFFICES ASSUME TunnelInv, [Next]_vars PROVE TypeOK'
    OBVIOUS
  <1> USE TunnelConstants DEF TunnelInv
  <1>1. ASSUME NEW c \in Callers, StartCall(c) PROVE TypeOK'
    BY <1>1 DEF TypeOK, CallOK, Hubs, Pcs, StartCall, hubVars
  <1>2. ASSUME NEW c \in Callers, StartRefused(c) PROVE TypeOK'
    BY <1>2 DEF TypeOK, CallOK, Hubs, Pcs, StartRefused, hubVars
  <1>3. ASSUME NEW c \in Callers, HubStarts(c) PROVE TypeOK'
    BY <1>3 DEF TypeOK, CallOK, Hubs, Pcs, HubStarts, hubVars
  <1>4. ASSUME NEW c \in Callers, HubFails(c) PROVE TypeOK'
    BY <1>4 DEF TypeOK, CallOK, Hubs, Pcs, HubFails, hubVars
  <1>5. ASSUME NEW c \in Callers, StartReady(c) PROVE TypeOK'
    BY <1>5 DEF TypeOK, CallOK, Hubs, Pcs, StartReady, Return, hubVars
  <1>6. ASSUME NEW c \in Callers, StartGivesUp(c) PROVE TypeOK'
    BY <1>6 DEF TypeOK, CallOK, Hubs, Pcs, StartGivesUp, hubVars
  <1>7. ASSUME NEW c \in Callers, StartGivenUp(c) PROVE TypeOK'
    BY <1>7 DEF TypeOK, CallOK, Hubs, Pcs, StartGivenUp, Return, hubVars
  <1>8. ASSUME NEW c \in Callers, StopCall(c) PROVE TypeOK'
    BY <1>8 DEF TypeOK, CallOK, Hubs, Pcs, StopCall, hubVars
  <1>9. ASSUME NEW c \in Callers, StopNothing(c) PROVE TypeOK'
    BY <1>9 DEF TypeOK, CallOK, Hubs, Pcs, StopNothing, hubVars
  <1>10. ASSUME NEW c \in Callers, StopHub(c) PROVE TypeOK'
    BY <1>10 DEF TypeOK, CallOK, Hubs, Pcs, StopHub, hubVars
  <1>11. ASSUME NEW c \in Callers, StopDone(c) PROVE TypeOK'
    BY <1>11 DEF TypeOK, CallOK, Hubs, Pcs, StopDone, Return, hubVars
  <1>12. ASSUME NEW h \in Hubs, HubReady(h) PROVE TypeOK'
    BY <1>12 DEF TypeOK, CallOK, Hubs, Pcs, HubReady, hubVars
  <1>13. ASSUME NEW h \in Hubs, HubEnds(h) PROVE TypeOK'
    BY <1>13 DEF TypeOK, CallOK, Hubs, Pcs, HubEnds, hubVars
  <1>14. CASE UNCHANGED vars
    BY <1>14 DEF TypeOK, CallOK, Hubs, Pcs, vars, hubVars
  <1> QED
    BY <1>1, <1>2, <1>3, <1>4, <1>5, <1>6, <1>7, <1>8, <1>9, <1>10, <1>11, <1>12, <1>13, <1>14 DEF Next, StartStep, StopStep

\* Every step keeps what the calls know of mu and of the Tunnel's state.
LEMMA CallStep == TunnelInv /\ [Next]_vars => (MuHeld /\ CallOK)'
  <1> SUFFICES ASSUME TunnelInv, [Next]_vars PROVE (MuHeld /\ CallOK)'
    OBVIOUS
  <1> USE TunnelConstants DEF TunnelInv
  <1>1. ASSUME NEW c \in Callers, StartCall(c) PROVE (MuHeld /\ CallOK)'
    BY <1>1 DEF TypeOK, MuHeld, CallOK, Holding, Hubs, Pcs, StartCall, hubVars
  <1>2. ASSUME NEW c \in Callers, StartRefused(c) PROVE (MuHeld /\ CallOK)'
    BY <1>2 DEF TypeOK, MuHeld, CallOK, Holding, Hubs, Pcs, StartRefused, hubVars
  <1>3. ASSUME NEW c \in Callers, HubStarts(c) PROVE (MuHeld /\ CallOK)'
    BY <1>3 DEF TypeOK, MuHeld, CallOK, Holding, Hubs, Pcs, HubStarts, hubVars
  <1>4. ASSUME NEW c \in Callers, HubFails(c) PROVE (MuHeld /\ CallOK)'
    BY <1>4 DEF TypeOK, MuHeld, CallOK, Holding, Hubs, Pcs, HubFails, hubVars
  <1>5. ASSUME NEW c \in Callers, StartReady(c) PROVE (MuHeld /\ CallOK)'
    BY <1>5 DEF TypeOK, MuHeld, CallOK, Holding, Hubs, Pcs, StartReady, Return, hubVars
  <1>6. ASSUME NEW c \in Callers, StartGivesUp(c) PROVE (MuHeld /\ CallOK)'
    BY <1>6 DEF TypeOK, MuHeld, CallOK, Holding, Hubs, Pcs, StartGivesUp, hubVars
  <1>7. ASSUME NEW c \in Callers, StartGivenUp(c) PROVE (MuHeld /\ CallOK)'
    BY <1>7 DEF TypeOK, MuHeld, CallOK, Holding, Hubs, Pcs, StartGivenUp, Return, hubVars
  <1>8. ASSUME NEW c \in Callers, StopCall(c) PROVE (MuHeld /\ CallOK)'
    BY <1>8 DEF TypeOK, MuHeld, CallOK, Holding, Hubs, Pcs, StopCall, hubVars
  <1>9. ASSUME NEW c \in Callers, StopNothing(c) PROVE (MuHeld /\ CallOK)'
    BY <1>9 DEF TypeOK, MuHeld, CallOK, Holding, Hubs, Pcs, StopNothing, hubVars
  <1>10. ASSUME NEW c \in Callers, StopHub(c) PROVE (MuHeld /\ CallOK)'
    BY <1>10 DEF TypeOK, MuHeld, CallOK, Holding, Hubs, Pcs, StopHub, hubVars
  <1>11. ASSUME NEW c \in Callers, StopDone(c) PROVE (MuHeld /\ CallOK)'
    BY <1>11 DEF TypeOK, MuHeld, CallOK, Holding, Hubs, Pcs, StopDone, Return, hubVars
  <1>12. ASSUME NEW h \in Hubs, HubReady(h) PROVE (MuHeld /\ CallOK)'
    BY <1>12 DEF TypeOK, MuHeld, CallOK, Holding, Hubs, Pcs, HubReady, hubVars
  <1>13. ASSUME NEW h \in Hubs, HubEnds(h) PROVE (MuHeld /\ CallOK)'
    BY <1>13 DEF TypeOK, MuHeld, CallOK, Holding, Hubs, Pcs, HubEnds, hubVars
  <1>14. CASE UNCHANGED vars
    BY <1>14 DEF TypeOK, MuHeld, CallOK, Holding, Hubs, Pcs, vars, hubVars
  <1> QED
    BY <1>1, <1>2, <1>3, <1>4, <1>5, <1>6, <1>7, <1>8, <1>9, <1>10, <1>11, <1>12, <1>13, <1>14 DEF Next, StartStep, StopStep

\* Every step leaves every running hub accounted for.
LEMMA RunStep == TunnelInv /\ [Next]_vars => (RunOK /\ Unbuilt)'
  <1> SUFFICES ASSUME TunnelInv, [Next]_vars PROVE (RunOK /\ Unbuilt)'
    OBVIOUS
  <1> USE TunnelConstants DEF TunnelInv
  <1>1. ASSUME NEW c \in Callers, StartCall(c) PROVE (RunOK /\ Unbuilt)'
    BY <1>1 DEF TypeOK, MuHeld, CallOK, Holding, Hubs, RunOK, Unbuilt, Accounted, Pcs, StartCall, hubVars
  <1>2. ASSUME NEW c \in Callers, StartRefused(c) PROVE (RunOK /\ Unbuilt)'
    BY <1>2 DEF TypeOK, MuHeld, CallOK, Holding, Hubs, RunOK, Unbuilt, Accounted, Pcs, StartRefused, hubVars
  <1>3. ASSUME NEW c \in Callers, HubStarts(c) PROVE (RunOK /\ Unbuilt)'
    BY <1>3 DEF TypeOK, MuHeld, CallOK, Holding, Hubs, RunOK, Unbuilt, Accounted, Pcs, HubStarts, hubVars
  <1>4. ASSUME NEW c \in Callers, HubFails(c) PROVE (RunOK /\ Unbuilt)'
    BY <1>4 DEF TypeOK, MuHeld, CallOK, Holding, Hubs, RunOK, Unbuilt, Accounted, Pcs, HubFails, hubVars
  <1>5. ASSUME NEW c \in Callers, StartReady(c) PROVE (RunOK /\ Unbuilt)'
    BY <1>5 DEF TypeOK, MuHeld, CallOK, Holding, Hubs, RunOK, Unbuilt, Accounted, Pcs, StartReady, Return, hubVars
  <1>6. ASSUME NEW c \in Callers, StartGivesUp(c) PROVE (RunOK /\ Unbuilt)'
    BY <1>6 DEF TypeOK, MuHeld, CallOK, Holding, Hubs, RunOK, Unbuilt, Accounted, Pcs, StartGivesUp, hubVars
  <1>7. ASSUME NEW c \in Callers, StartGivenUp(c) PROVE (RunOK /\ Unbuilt)'
    BY <1>7 DEF TypeOK, MuHeld, CallOK, Holding, Hubs, RunOK, Unbuilt, Accounted, Pcs, StartGivenUp, Return, hubVars
  <1>8. ASSUME NEW c \in Callers, StopCall(c) PROVE (RunOK /\ Unbuilt)'
    BY <1>8 DEF TypeOK, MuHeld, CallOK, Holding, Hubs, RunOK, Unbuilt, Accounted, Pcs, StopCall, hubVars
  <1>9. ASSUME NEW c \in Callers, StopNothing(c) PROVE (RunOK /\ Unbuilt)'
    BY <1>9 DEF TypeOK, MuHeld, CallOK, Holding, Hubs, RunOK, Unbuilt, Accounted, Pcs, StopNothing, hubVars
  <1>10. ASSUME NEW c \in Callers, StopHub(c) PROVE (RunOK /\ Unbuilt)'
    BY <1>10 DEF TypeOK, MuHeld, CallOK, Holding, Hubs, RunOK, Unbuilt, Accounted, Pcs, StopHub, hubVars
  <1>11. ASSUME NEW c \in Callers, StopDone(c) PROVE (RunOK /\ Unbuilt)'
    BY <1>11 DEF TypeOK, MuHeld, CallOK, Holding, Hubs, RunOK, Unbuilt, Accounted, Pcs, StopDone, Return, hubVars
  <1>12. ASSUME NEW h \in Hubs, HubReady(h) PROVE (RunOK /\ Unbuilt)'
    BY <1>12 DEF TypeOK, MuHeld, CallOK, Holding, Hubs, RunOK, Unbuilt, Accounted, Pcs, HubReady, hubVars
  <1>13. ASSUME NEW h \in Hubs, HubEnds(h) PROVE (RunOK /\ Unbuilt)'
    BY <1>13 DEF TypeOK, MuHeld, CallOK, Holding, Hubs, RunOK, Unbuilt, Accounted, Pcs, HubEnds, hubVars
  <1>14. CASE UNCHANGED vars
    BY <1>14 DEF TypeOK, MuHeld, CallOK, Holding, Hubs, RunOK, Unbuilt, Accounted, Pcs, vars, hubVars
  <1> QED
    BY <1>1, <1>2, <1>3, <1>4, <1>5, <1>6, <1>7, <1>8, <1>9, <1>10, <1>11, <1>12, <1>13, <1>14 DEF Next, StartStep, StopStep

\* The invariant holds in every reachable state.
THEOREM TunnelInvariance == Spec => []TunnelInv
  <1>1. TunnelInv /\ [Next]_vars => TunnelInv'
    BY TypeStep, CallStep, RunStep DEF TunnelInv
  <1> QED
    BY InitTunnel, <1>1, PTL DEF Spec

\* New, Start, Stop: the fields keep their types, and Tunnel.hub is set exactly
\* when Start has succeeded, so Stop and Stats never meet a started Tunnel without
\* one.
THEOREM TunnelTypes == Spec => []TypeOK
  BY TunnelInvariance, PTL DEF TunnelInv

\* Start, Stop: with no call under way the only hub with goroutines is the one
\* that Stop would stop.
THEOREM NothingLeftBehind == Spec => []ActiveIsCurrent
  <1>1. TunnelInv => ActiveIsCurrent
    BY DEF TunnelInv, RunOK, Accounted, ActiveIsCurrent
  <1> QED
    BY TunnelInvariance, <1>1, PTL

\* Start, Stop: no two hubs ever have goroutines at the same time.
THEOREM HubsTakeTurns == Spec => []OneHubAtATime
  <1>1. TunnelInv => OneHubAtATime
    BY TunnelConstants DEF TunnelInv, TypeOK, MuHeld, CallOK, RunOK, Accounted, OneHubAtATime, Holding
  <1> QED
    BY TunnelInvariance, <1>1, PTL

\* Stop: a Tunnel once stopped starts no hub again.
THEOREM StoppedForGood == Spec => StopIsFinal
  <1>1. TunnelInv /\ [Next]_vars =>
          (state = "stopped" => \A h \in Hubs : run'[h] = "yes" => run[h] = "yes")
    BY DEF TunnelInv, TypeOK, Next, vars, hubVars, StartStep, StopStep, StartCall, StartRefused,
           HubStarts, HubFails, StartReady, StartGivesUp, StartGivenUp, StopCall,
           StopNothing, StopHub, StopDone, HubReady, HubEnds
  <1> QED
    BY TunnelInvariance, <1>1, PTL DEF StopIsFinal, Spec
-----------------------------------------------------------------------------
(* What the holder of Tunnel.mu waits for: the safety part of CallsReturn,  *)
(* and why a Stop from a Logger callback (tunnel_logger_stop) hangs.        *)

\* What a hub that somebody counts on is like.
Up(h) == run[h] = "yes" /\ hubCtx[h] = "live"
Down(h) == run[h] \in {"yes", "ended"} /\ hubCtx[h] = "cancelled"

\* A hub not yet built has a live context; a started Tunnel's hub is up and ready; the hub
\* that a call waits for is up while Start waits for it, and told to end in the other waits;
\* it has not ended when it is one of its own goroutines that waits.
WaitOK ==
    /\ \A h \in Hubs : h > built => hubCtx[h] = "live"
    /\ state = "started" => Up(hub) /\ hubReady[hub]
    /\ \A c \in Callers :
          /\ pc[c] = "starting" => Up(built)
          /\ pc[c] = "giveUp" => Down(built)
          /\ pc[c] = "stopping" => Down(hub) /\ (c \in LoggerCalls => run[hub] = "yes")

\* Every step keeps it.
LEMMA WaitStep == TunnelInv /\ WaitOK /\ [Next]_vars => WaitOK'
  <1> SUFFICES ASSUME TunnelInv, WaitOK, [Next]_vars PROVE WaitOK'
    OBVIOUS
  <1> USE TunnelConstants DEF TunnelInv, TypeOK, MuHeld, CallOK, Holding, Hubs, WaitOK, Up, Down
  <1>1. ASSUME NEW c \in Callers, StartCall(c) \/ StartRefused(c) \/ StopCall(c) \/ StopNothing(c)
        PROVE  WaitOK'
    BY <1>1 DEF StartCall, StartRefused, StopCall, StopNothing, hubVars
  <1>2. ASSUME NEW c \in Callers, HubStarts(c) PROVE WaitOK'
    BY <1>2 DEF Unbuilt, HubStarts
  <1>3. ASSUME NEW c \in Callers, HubFails(c) PROVE WaitOK'
    BY <1>3 DEF HubFails
  <1>4. ASSUME NEW c \in Callers, StartReady(c) PROVE WaitOK'
    BY <1>4 DEF StartReady, Return, hubVars
  <1>5. ASSUME NEW c \in Callers, StartGivesUp(c) PROVE WaitOK'
    BY <1>5 DEF StartGivesUp
  <1>6. ASSUME NEW c \in Callers, StartGivenUp(c) PROVE WaitOK'
    BY <1>6 DEF StartGivenUp, Return, hubVars
  <1>7. ASSUME NEW c \in Callers, StopHub(c) PROVE WaitOK'
    <2>1. hub \in Hubs /\ Up(hub)
      BY <1>7 DEF StopHub
    <2>2. \A d \in Callers : d # c => pc[d] \notin Holding /\ pc'[d] = pc[d]
      BY <1>7 DEF StopHub
    <2>3. Down(hub)' /\ run'[hub'] = "yes" /\ pc'[c] = "stopping" /\ state' = "stopped"
      BY <1>7, <2>1 DEF StopHub
    <2>4. \A h \in Hubs : h > built' => hubCtx'[h] = "live"
      BY <1>7, <2>1 DEF StopHub, RunOK, Unbuilt
    <2> QED BY <2>2, <2>3, <2>4
  <1>8. ASSUME NEW c \in Callers, StopDone(c) PROVE WaitOK'
    BY <1>8 DEF StopDone, Return, hubVars
  <1>9. ASSUME NEW h \in Hubs, HubReady(h) PROVE WaitOK'
    BY <1>9 DEF HubReady
  <1>10. ASSUME NEW h \in Hubs, HubEnds(h) PROVE WaitOK'
    BY <1>10 DEF HubEnds, Calling
  <1>11. CASE UNCHANGED vars
    BY <1>11 DEF vars, hubVars
  <1> QED
    BY <1>1, <1>2, <1>3, <1>4, <1>5, <1>6, <1>7, <1>8, <1>9, <1>10, <1>11 DEF Next, StartStep, StopStep

\* It holds in every reachable state.
LEMMA WaitInvariance == Spec => []WaitOK
  <1>1. Init => WaitOK
    BY DEF Init, WaitOK
  <1> QED
    BY <1>1, WaitStep, TunnelInvariance, PTL DEF Spec

\* Start, Stop: whoever holds mu is in a select that its timeout ends, or waits for a hub
\* whose context is cancelled; and a started Tunnel has a hub that is up.
HolderWaitsForEnding ==
    /\ mu # Nobody => \/ pc[mu] = "starting" /\ Up(built)
                      \/ pc[mu] = "giveUp" /\ Down(built)
                      \/ pc[mu] = "stopping" /\ Down(hub)
    /\ state = "started" => Up(hub) /\ hubReady[hub]

\* No call keeps Tunnel.mu for anything but a bounded select or the end of a cancelled hub
\* (tunnel.go Start, Stop): with fairness, CallsReturn.
THEOREM MuIsReleased == Spec => []HolderWaitsForEnding
  <1>1. TunnelInv /\ WaitOK => HolderWaitsForEnding
    BY TunnelConstants DEF TunnelInv, TypeOK, MuHeld, Holding, WaitOK, HolderWaitsForEnding
  <1> QED
    BY <1>1, TunnelInvariance, WaitInvariance, PTL

\* The call of c is inside Stop's wait for the hub.
InStop(c) == pc[c] = "stopping"

\* tunnel.go:121-123 promises that Stop may be called from a Logger callback.  A Stop made
\* there that finds the Tunnel started waits for the goroutine it runs on: it stays in that
\* wait, with mu held, for ever, whatever the number of callers and hubs.
THEOREM LoggerStopHangs ==
    ASSUME NEW c \in LoggerCalls
    PROVE  Spec => [](InStop(c) => [](InStop(c) /\ mu = c))
  <1>0. c \in Callers
    BY TunnelConstants
  <1>1. TunnelInv /\ WaitOK /\ InStop(c) /\ [Next]_vars => InStop(c)'
    <2> SUFFICES ASSUME TunnelInv, WaitOK, pc[c] = "stopping", [Next]_vars PROVE pc'[c] = "stopping"
      BY DEF InStop
    <2>1. run[hub] = "yes"
      BY <1>0 DEF WaitOK
    <2>2. ASSUME NEW d \in Callers, StartCall(d) \/ StopCall(d) \/ StartStep(d) \/ StopStep(d)
          PROVE  pc'[c] = "stopping"
      <3>1. ~StopDone(c)
        BY <2>1 DEF StopDone
      <3>2. d # c \/ pc'[c] = pc[c]
        BY <2>2, <3>1 DEF StartCall, StopCall, StartStep, StopStep, StartRefused, HubStarts, HubFails,
           StartReady, StartGivesUp, StartGivenUp, StopNothing, StopHub
      <3>3. \E l \in Pcs : pc' = [pc EXCEPT ![d] = l]
        BY <2>2 DEF StartCall, StopCall, StartStep, StopStep, StartRefused, HubStarts, HubFails,
           StartReady, StartGivesUp, StartGivenUp, StopNothing, StopHub, StopDone, Return, Pcs
      <3> QED BY <1>0, <3>2, <3>3 DEF TunnelInv, TypeOK
    <2>3. CASE pc' = pc
      BY <2>3
    <2> QED BY <2>2, <2>3, Zenon DEF Next, HubReady, HubEnds, vars
  <1>2. TunnelInv /\ InStop(c) => mu = c
    BY <1>0 DEF TunnelInv, MuHeld, Holding, InStop
  <1> QED
    BY <1>1, <1>2, TunnelInvariance, WaitInvariance, PTL DEF Spec
=============================================================================
