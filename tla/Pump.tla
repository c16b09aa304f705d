-------------------------------- MODULE Pump --------------------------------
(***************************************************************************)
(* internal/proxy/stream.go: one stream of a Hub.  Its goroutine (run)     *)
(* connects, pumps packets through a TURN relay until something fails, and *)
(* connects again.  A pump starts goroutines that share a context: "up"    *)
(* and "down" carry DTLS records between the pipe and the relay (pumpDTLS  *)
(* only), "tx" and "rx" carry the client's packets.  When the context is   *)
(* cancelled a function registered with AfterFunc moves the deadlines of   *)
(* the connections into the past, one after the other, so that blocked     *)
(* reads return.                                                           *)
(*                                                                         *)
(* pumpDTLS returns from a failed handshake without waiting for the        *)
(* carriers, so the goroutines of several pumps can be around at a time:   *)
(* pumps are numbered.  The packets themselves change none of this state.  *)
(***************************************************************************)
EXTENDS Naturals, Sequences

CONSTANTS
    PeerTypes,  \* values of HubConfig.PeerType considered
    MaxPumps    \* bound on the allocations that succeed

ASSUME PumpConstants ==
    /\ PeerTypes \subseteq {"wireguard", "proxy_v1", "proxy_v2"}
    /\ MaxPumps \in Nat

VARIABLES
    peerType,   \* HubConfig.PeerType, fixed
    hubCtx,     \* the context of Hub.Start
    stop,       \* Hub.Stop
    pc,         \* run, with runOnce and the pump it calls
    cur,        \* number of the pump run is in or was in last
    ready,      \* stream.ready
    pumpCtx,    \* pumpCtx of each pump
    fired,      \* deadlines that its AfterFunc has set so far
    expired,    \* connections whose read deadline is past
    open,       \* connections not closed
    goroutine   \* the goroutines of each pump

runVars == <<peerType, hubCtx, stop, pc, cur, ready>>
pumpVars == <<pumpCtx, fired, expired, open, goroutine>>
vars == <<runVars, pumpVars>>

Pumps == 1 .. MaxPumps
Roles == {"up", "down", "tx", "rx"}
Conns == {"relay", "dtls", "c2"}
Pcs == {"loop", "connect", "pump", "handshake", "clear", "preamble", "ready", "spawn",
        "wait", "exit", "close", "backoff", "returned"}

Raw == peerType = "wireguard"

\* Faulty variants: a connection is forgotten.
NoRelayConns == IF Raw THEN <<>> ELSE <<"dtls", "c2">>
NoDtlsConns == IF Raw THEN <<"relay">> ELSE <<"relay", "c2">>
NoPipeConns == IF Raw THEN <<"relay">> ELSE <<"relay", "dtls">>

\* The connections whose deadlines a pump's AfterFunc sets, in order.
AfterFuncConns == IF Raw THEN <<"relay">> ELSE <<"relay", "dtls", "c2">>

\* The fields of stream, the locals of run and of its pumps.
TypeOK ==
    /\ peerType \in PeerTypes
    /\ hubCtx \in {"live", "cancelled"} /\ stop \in {"no", "waiting", "returned"}
    /\ pc \in Pcs /\ cur \in 0 .. MaxPumps /\ ready \in BOOLEAN
    /\ pumpCtx \in [Pumps -> {"none", "live", "cancelled"}]
    /\ fired \in [Pumps -> 0 .. Len(AfterFuncConns)]
    /\ expired \in [Pumps -> SUBSET Conns] /\ open \in [Pumps -> SUBSET Conns]
    /\ goroutine \in [Pumps -> [Roles -> {"off", "running", "done"}]]

\* Hub.Start has started the goroutine of the stream.
Init ==
    /\ peerType \in PeerTypes
    /\ hubCtx = "live" /\ stop = "no"
    /\ pc = "loop" /\ cur = 0 /\ ready = FALSE
    /\ pumpCtx = [p \in Pumps |-> "none"]
    /\ fired = [p \in Pumps |-> 0]
    /\ expired = [p \in Pumps |-> {}] /\ open = [p \in Pumps |-> {}]
    /\ goroutine = [p \in Pumps |-> [r \in Roles |-> "off"]]

\* The goroutines of a pump that has started them all.
PumpRoles == IF Raw THEN {"tx", "rx"} ELSE Roles

\* The connection on which a goroutine blocks; tx waits for the context instead.
ReadsFrom(r) ==
    CASE r = "up" -> "c2"
      [] r = "down" -> "relay"
      [] r = "rx" -> IF Raw THEN "relay" ELSE "dtls"
      [] OTHER -> "none"

\* go func() for each of the roles R of the current pump.
Go(R) == goroutine' = [goroutine EXCEPT ![cur] = [r \in Roles |-> IF r \in R THEN "running" ELSE @[r]]]

\* cancel() of a pump's context; a no-op when it is cancelled already.
Cancelled(p) == [pumpCtx EXCEPT ![p] = "cancelled"]

-----------------------------------------------------------------------------
(* run and runOnce *)

Goto(l) == pc' = l /\ UNCHANGED <<peerType, hubCtx, stop, cur, ready>>

\* The top of run's loop.
Loop ==
    /\ pc = "loop"
    /\ Goto(IF hubCtx = "live" THEN "connect" ELSE "returned")
    /\ UNCHANGED pumpVars

\* run, after runOnce returned an error.
AfterError ==
    /\ pc' = IF hubCtx = "live" THEN "backoff" ELSE "loop"
    /\ ready' = IF hubCtx = "live" THEN FALSE ELSE ready
    /\ UNCHANGED <<peerType, hubCtx, stop, cur>>

\* runOnce fails before it has an allocation: no credentials, no connection to
\* the TURN server, Listen or Allocate refused.
ConnectFails == pc = "connect" /\ AfterError /\ UNCHANGED pumpVars

\* runOnce gets a relay and calls the pump, whose context is a child of hubCtx.
Connect ==
    /\ pc = "connect" /\ cur < MaxPumps
    /\ pc' = "pump" /\ cur' = cur + 1
    /\ pumpCtx' = [pumpCtx EXCEPT ![cur'] = hubCtx]
    /\ open' = [open EXCEPT ![cur'] = {"relay"}]
    /\ UNCHANGED <<peerType, hubCtx, stop, ready, fired, expired, goroutine>>

\* The deferred calls of runOnce, and run.
Close ==
    /\ pc = "close"
    /\ open' = [open EXCEPT ![cur] = {}]
    /\ AfterError
    /\ UNCHANGED <<pumpCtx, fired, expired, goroutine>>

\* The select of run's backoff: the timer.
BackoffOver == pc = "backoff" /\ Goto("loop") /\ UNCHANGED pumpVars

\* The select of run's backoff: the context.
BackoffCancelled ==
    /\ pc = "backoff" /\ hubCtx = "cancelled"
    /\ Goto("returned") /\ UNCHANGED pumpVars

-----------------------------------------------------------------------------
(* pumpRaw *)

\* AfterFunc is registered and both goroutines are started.
PumpRaw ==
    /\ pc = "pump" /\ Raw
    /\ Go({"tx", "rx"})
    /\ Goto("ready") /\ UNCHANGED <<pumpCtx, fired, expired, open>>

-----------------------------------------------------------------------------
(* pumpDTLS *)

\* Pipe, DTLS client, AfterFunc, carriers, and a deadline for the handshake.
PumpDTLS ==
    /\ pc = "pump" /\ ~Raw
    /\ open' = [open EXCEPT ![cur] = Conns]
    /\ Go({"up", "down"})
    /\ Goto("handshake") /\ UNCHANGED <<pumpCtx, fired, expired>>

\* dtls.Client fails.
ClientFails == pc = "pump" /\ ~Raw /\ Goto("exit") /\ UNCHANGED pumpVars

\* HandshakeContext completes; it fails when its context is cancelled.
Handshake ==
    /\ pc = "handshake" /\ pumpCtx[cur] = "live"
    /\ Goto("clear") /\ UNCHANGED pumpVars

\* HandshakeContext fails, at the latest when its deadline passes.
HandshakeFails == pc = "handshake" /\ Goto("exit") /\ UNCHANGED pumpVars

\* dtlsConn.SetDeadline(time.Time{})
ClearDeadline ==
    /\ pc = "clear"
    /\ expired' = [expired EXCEPT ![cur] = @ \ {"dtls"}]
    /\ Goto(IF peerType = "proxy_v2" THEN "preamble" ELSE "ready")
    /\ UNCHANGED <<pumpCtx, fired, open, goroutine>>

\* WriteHandshake: the session and stream ids.
Preamble == pc = "preamble" /\ Goto("ready") /\ UNCHANGED pumpVars

\* WriteHandshake fails.
PreambleFails == pc = "preamble" /\ Goto("exit") /\ UNCHANGED pumpVars

\* tx and rx are started.
Spawn ==
    /\ pc = "spawn"
    /\ Go({"tx", "rx"})
    /\ Goto("wait") /\ UNCHANGED <<pumpCtx, fired, expired, open>>

-----------------------------------------------------------------------------
(* Both pumps *)

\* ready.Store(true) and signalReady.
Ready ==
    /\ pc = "ready"
    /\ ready' = TRUE
    /\ pc' = IF Raw THEN "wait" ELSE "spawn"
    /\ UNCHANGED <<peerType, hubCtx, stop, cur, pumpVars>>

\* Faulty variant: wg.Wait is left out.
NoWait == pc = "wait" /\ Goto("exit") /\ UNCHANGED pumpVars

\* wg.Wait
Wait ==
    /\ pc = "wait"
    /\ \A r \in PumpRoles : goroutine[cur][r] = "done"
    /\ Goto("exit") /\ UNCHANGED pumpVars

\* The deferred calls of the pump: DTLS and pipe closed, ready cleared, cancel.
Exit ==
    /\ pc = "exit"
    /\ open' = [open EXCEPT ![cur] = {"relay"}]
    /\ ready' = FALSE
    /\ pumpCtx' = Cancelled(cur)
    /\ pc' = "close"
    /\ UNCHANGED <<peerType, hubCtx, stop, cur, fired, expired, goroutine>>

\* A goroutine of a pump returns, and its deferred cancel runs.
Return(p, r) ==
    /\ goroutine[p][r] = "running"
    /\ goroutine' = [goroutine EXCEPT ![p][r] = "done"]
    /\ pumpCtx' = Cancelled(p)
    /\ UNCHANGED <<runVars, fired, expired, open>>

\* Nothing can keep the goroutine blocked.
Unblocked(p, r) ==
    IF r = "tx" THEN pumpCtx[p] = "cancelled"
    ELSE ReadsFrom(r) \in expired[p] \/ ReadsFrom(r) \notin open[p]

\* It returns because its context or its connection is done.
Interrupted(p, r) == Unblocked(p, r) /\ Return(p, r)

\* It returns because a read or write fails, or because the watchdog of tx bites.
Fails(p, r) == ~Unblocked(p, r) /\ Return(p, r)

\* The function registered with AfterFunc sets the next deadline.
AfterFunc(p) ==
    /\ pumpCtx[p] = "cancelled" /\ goroutine[p] # [r \in Roles |-> "off"]
    /\ fired[p] < Len(AfterFuncConns)
    /\ fired' = [fired EXCEPT ![p] = @ + 1]
    /\ expired' = [expired EXCEPT ![p] = @ \cup {AfterFuncConns[fired[p] + 1]}]
    /\ UNCHANGED <<runVars, pumpCtx, open, goroutine>>

-----------------------------------------------------------------------------
(* Hub.Stop *)

\* Stop cancels hubCtx and with it the context of the pump under way.
StopCall ==
    /\ stop = "no"
    /\ stop' = "waiting" /\ hubCtx' = "cancelled"
    /\ pumpCtx' = [p \in Pumps |-> IF pumpCtx[p] = "live" THEN "cancelled" ELSE pumpCtx[p]]
    /\ UNCHANGED <<peerType, pc, cur, ready, fired, expired, open, goroutine>>

\* h.wg.Wait returns.
StopReturn ==
    /\ stop = "waiting" /\ pc = "returned"
    /\ stop' = "returned"
    /\ UNCHANGED <<peerType, hubCtx, pc, cur, ready, pumpVars>>

-----------------------------------------------------------------------------
RunStep ==
    \/ Loop \/ ConnectFails \/ Connect \/ Close \/ BackoffOver \/ BackoffCancelled
    \/ PumpRaw \/ PumpDTLS \/ ClientFails \/ Handshake \/ HandshakeFails
    \/ ClearDeadline \/ Preamble \/ PreambleFails \/ Spawn \/ Ready \/ Wait \/ Exit

Next ==
    \/ RunStep \/ StopCall \/ StopReturn
    \/ \E p \in Pumps : AfterFunc(p) \/ \E r \in Roles : Interrupted(p, r) \/ Fails(p, r)

Spec == Init /\ [][Next]_vars

\* Goroutines that can go on do; no read is bound to fail, no Stop to be called.
FairSpec ==
    /\ Spec
    /\ WF_vars(RunStep) /\ WF_vars(StopReturn)
    /\ \A p \in Pumps : WF_vars(AfterFunc(p))
    /\ \A p \in Pumps, r \in Roles : WF_vars(Interrupted(p, r))

-----------------------------------------------------------------------------
\* stream.ready: a stream that the scheduler may choose has its allocation: the
\* pump clears ready before runOnce closes the relay, on every way out.
ReadyHasRelay == ready => cur > 0 /\ "relay" \in open[cur]

\* pumpRaw, pumpDTLS: the queue of a stream and its client have one tx and one rx:
\* those of an earlier pump are gone before the next one is set up, although its
\* carriers may linger.
OnePumpAtATime ==
    \A p \in Pumps, r \in {"tx", "rx"} :
        goroutine[p][r] = "running" => p = cur /\ pc \in {"ready", "wait"}

\* The stream as the Hub sees it.
Life == INSTANCE StreamLife WITH
    tx <- IF cur = 0 THEN "off" ELSE goroutine[cur]["tx"]

\* stream.ready, stream.in: the stream goes through the life that the scheduler
\* relies on; in particular it is not ready without a tx that ran or will run.
ImplementsLife == Life!Spec

\* AfterFunc: the carriers of a cancelled pump end, also when the pump has
\* returned without waiting for them.
CarriersEnd ==
    \A p \in Pumps, r \in {"up", "down"} :
        pumpCtx[p] = "cancelled" ~> goroutine[p][r] # "running"

\* pumpRaw, pumpDTLS: once a pump waits with its context live, cancelling it (by
\* Stop or by the failure of any of its goroutines) brings all of them to an end.
EstablishedEnds ==
    \A p \in Pumps :
        (pc = "wait" /\ cur = p /\ pumpCtx[p] = "live") /\ <>(pumpCtx[p] = "cancelled")
            ~> \A r \in Roles : goroutine[p][r] # "running"

\* Hub.Stop returns.
StopReturns == stop = "waiting" ~> stop = "returned"

\* Hub.Stop of a hub whose streams carry packets without DTLS returns.
RawStopReturns == Raw /\ stop = "waiting" ~> stop = "returned"
=============================================================================
