------------------------------- MODULE Tunnel -------------------------------
(***************************************************************************)
(* pkg/wgturn/tunnel.go: the lifecycle of a Tunnel and of the Hubs it      *)
(* builds (internal/proxy/hub.go Start and Stop).  Embedder goroutines     *)
(* call Start and Stop at any time; a stream goroutine may call Stop too,  *)
(* from a Logger callback.  Tunnel.mu is held across both calls, while     *)
(* they wait for the hub's goroutines.                                     *)
(***************************************************************************)
EXTENDS Naturals, FiniteSets

CONSTANTS
    Callers,      \* goroutines of the embedder, each makes one call
    MaxHubs,      \* bound on the hubs built: enough for every caller
    LoggerCalls,  \* calls of Stop from a Logger callback: a set of callers
    Nobody

ASSUME TunnelConstants ==
    /\ IsFiniteSet(Callers) /\ MaxHubs \in Nat /\ Cardinality(Callers) <= MaxHubs
    /\ LoggerCalls \subseteq Callers /\ Nobody \notin Callers

VARIABLES
    state,    \* Tunnel.state
    mu,       \* Tunnel.mu: holder
    hub,      \* Tunnel.hub; 0 is nil
    built,    \* number of hubs built so far; the last one is Start's local hub
    run,      \* the goroutines of each hub
    hubCtx,   \* the context of each hub
    hubReady, \* Hub.ready is closed
    pc        \* the call of each caller

hubVars == <<built, run, hubCtx, hubReady>>
vars == <<state, mu, hub, hubVars, pc>>

Hubs == 1 .. MaxHubs
Pcs == {"idle", "start", "starting", "giveUp", "stop", "stopping", "returned", "failed"}

\* The fields of Tunnel, its hubs, and the calls under way; hub is set exactly
\* when the Tunnel has been started.
TypeOK ==
    /\ state \in {"new", "started", "stopped"}
    /\ mu \in Callers \cup {Nobody}
    /\ hub \in 0 .. MaxHubs /\ (hub = 0 <=> state = "new") /\ built \in 0 .. MaxHubs
    /\ run \in [Hubs -> {"no", "yes", "ended"}]
    /\ hubCtx \in [Hubs -> {"live", "cancelled"}] /\ hubReady \in [Hubs -> BOOLEAN]
    /\ pc \in [Callers -> Pcs]

\* New
Init ==
    /\ state = "new" /\ mu = Nobody /\ hub = 0 /\ built = 0
    /\ run = [h \in Hubs |-> "no"]
    /\ hubCtx = [h \in Hubs |-> "live"] /\ hubReady = [h \in Hubs |-> FALSE]
    /\ pc = [c \in Callers |-> "idle"]

\* The call of c ends and mu is released.
Return(c, how) == mu' = Nobody /\ pc' = [pc EXCEPT ![c] = how]

-----------------------------------------------------------------------------
(* Start *)

\* Start is called.
StartCall(c) ==
    /\ pc[c] = "idle" /\ c \notin LoggerCalls
    /\ pc' = [pc EXCEPT ![c] = "start"]
    /\ UNCHANGED <<state, mu, hub, hubVars>>

\* mu is locked and the Tunnel is not new: ErrAlreadyStarted.
StartRefused(c) ==
    /\ pc[c] = "start" /\ mu = Nobody /\ state # "new"
    /\ pc' = [pc EXCEPT ![c] = "failed"]
    /\ UNCHANGED <<state, mu, hub, hubVars>>

\* mu is locked, a hub is built with a context of its own, and started.
HubStarts(c) ==
    /\ pc[c] = "start" /\ mu = Nobody /\ state = "new" /\ built < MaxHubs
    /\ mu' = c
    /\ built' = built + 1
    /\ run' = [run EXCEPT ![built'] = "yes"]
    /\ pc' = [pc EXCEPT ![c] = "starting"]
    /\ UNCHANGED <<state, hub, hubCtx, hubReady>>

\* The hub's Start fails (its listener cannot be bound): its context is cancelled.
HubFails(c) ==
    /\ pc[c] = "start" /\ mu = Nobody /\ state = "new" /\ built < MaxHubs
    /\ built' = built + 1
    /\ hubCtx' = [hubCtx EXCEPT ![built'] = "cancelled"]
    /\ pc' = [pc EXCEPT ![c] = "failed"]
    /\ UNCHANGED <<state, mu, hub, run, hubReady>>

\* select: a stream is up.
StartReady(c) ==
    /\ pc[c] = "starting" /\ hubReady[built]
    /\ hub' = built /\ state' = "started"
    /\ Return(c, "returned")
    /\ UNCHANGED <<hubVars>>

\* Faulty variant: the hub is cancelled, but nobody waits for it.
StartGivesUpAtOnce(c) ==
    /\ pc[c] = "starting"
    /\ hubCtx' = [hubCtx EXCEPT ![built] = "cancelled"]
    /\ Return(c, "failed")
    /\ UNCHANGED <<state, hub, built, run, hubReady>>

\* select: the caller's context or StartTimeout is over; the hub's Stop is called.
StartGivesUp(c) ==
    /\ pc[c] = "starting"
    /\ hubCtx' = [hubCtx EXCEPT ![built] = "cancelled"]
    /\ pc' = [pc EXCEPT ![c] = "giveUp"]
    /\ UNCHANGED <<state, mu, hub, built, run, hubReady>>

\* The hub's Stop returns, and so does Start.
StartGivenUp(c) ==
    /\ pc[c] = "giveUp" /\ run[built] = "ended"
    /\ Return(c, "failed")
    /\ UNCHANGED <<state, hub, hubVars>>

-----------------------------------------------------------------------------
(* Stop *)

\* A stream goroutine is in a Logger callback that has called Stop.
Calling(c) == c \in LoggerCalls /\ pc[c] \in {"stop", "stopping"}

\* Stop is called; from a Logger callback only while a hub has goroutines.
StopCall(c) ==
    /\ pc[c] = "idle"
    /\ c \in LoggerCalls => \E h \in Hubs : run[h] = "yes"
    /\ pc' = [pc EXCEPT ![c] = "stop"]
    /\ UNCHANGED <<state, mu, hub, hubVars>>

\* Faulty variant: mu is not released.
StopNothingLocked(c) ==
    /\ pc[c] = "stop" /\ mu = Nobody /\ state # "started"
    /\ mu' = c /\ pc' = [pc EXCEPT ![c] = "returned"]
    /\ UNCHANGED <<state, hub, hubVars>>

\* mu is locked and the Tunnel is not started: a no-op.
StopNothing(c) ==
    /\ pc[c] = "stop" /\ mu = Nobody /\ state # "started"
    /\ pc' = [pc EXCEPT ![c] = "returned"]
    /\ UNCHANGED <<state, mu, hub, hubVars>>

\* Faulty variant: mu is not held over the wait.
StopUnlocked(c) ==
    /\ pc[c] = "stop" /\ mu = Nobody /\ state = "started"
    /\ state' = "stopped"
    /\ hubCtx' = [hubCtx EXCEPT ![hub] = "cancelled"]
    /\ pc' = [pc EXCEPT ![c] = "stopping"]
    /\ UNCHANGED <<mu, hub, built, run, hubReady>>

\* mu is locked, the context is cancelled and the hub's Stop is called.
StopHub(c) ==
    /\ pc[c] = "stop" /\ mu = Nobody /\ state = "started"
    /\ mu' = c /\ state' = "stopped"
    /\ hubCtx' = [hubCtx EXCEPT ![hub] = "cancelled"]
    /\ pc' = [pc EXCEPT ![c] = "stopping"]
    /\ UNCHANGED <<hub, built, run, hubReady>>

\* The hub's Stop returns.
StopDone(c) ==
    /\ pc[c] = "stopping" /\ run[hub] = "ended"
    /\ Return(c, "returned")
    /\ UNCHANGED <<state, hub, hubVars>>

-----------------------------------------------------------------------------
\* signalReady: the first stream of a hub is up.
HubReady(h) ==
    /\ run[h] = "yes" /\ ~hubReady[h]
    /\ hubReady' = [hubReady EXCEPT ![h] = TRUE]
    /\ UNCHANGED <<state, mu, hub, built, run, hubCtx, pc>>

\* The goroutines of a hub have ended: none is left in a Logger callback.
HubEnds(h) ==
    /\ run[h] = "yes" /\ hubCtx[h] = "cancelled"
    /\ \A c \in Callers : ~Calling(c)
    /\ run' = [run EXCEPT ![h] = "ended"]
    /\ UNCHANGED <<state, mu, hub, built, hubCtx, hubReady, pc>>

StartStep(c) ==
    \/ StartRefused(c) \/ HubStarts(c) \/ HubFails(c)
    \/ StartReady(c) \/ StartGivesUp(c) \/ StartGivenUp(c)

StopStep(c) == StopNothing(c) \/ StopHub(c) \/ StopDone(c)

Next ==
    \/ \E c \in Callers :
          StartCall(c) \/ StopCall(c) \/ StartStep(c) \/ StopStep(c)
    \/ \E h \in Hubs : HubReady(h) \/ HubEnds(h)

Spec == Init /\ [][Next]_vars

\* Calls that can go on do (a select by its timeout at the latest) and the
\* goroutines of a cancelled hub end.  No step is ever undone, so fairness of the
\* disjunction is as strong as fairness of each goroutine.
Progress ==
    \/ \E c \in Callers : StartStep(c) \/ StopStep(c)
    \/ \E h \in Hubs : HubEnds(h)

FairSpec == Spec /\ WF_vars(Progress)

-----------------------------------------------------------------------------
\* Start, Stop: between calls the only hub with goroutines is the one the Tunnel
\* would stop: a failed or timed-out Start leaves none behind, and neither does
\* Stop.
ActiveIsCurrent ==
    mu = Nobody => \A h \in Hubs : run[h] = "yes" => state = "started" /\ hub = h

\* Start, Stop: no two hubs ever have goroutines at the same time, although Start
\* may be called again after it failed.
OneHubAtATime ==
    \A h, g \in Hubs : run[h] = "yes" /\ run[g] = "yes" => h = g

\* Stop: a Tunnel once stopped has no goroutines again.
StopIsFinal ==
    [][state = "stopped" => \A h \in Hubs : run'[h] = "yes" => run[h] = "yes"]_vars

\* Start, Stop: every call returns, also when Stop comes during Start.
CallsReturn ==
    \A c \in Callers : pc[c] # "idle" ~> pc[c] \in {"returned", "failed"}

\* tunnel.go:121-123: "Stop is safe to call from any goroutine, including from
\* inside a Logger callback": it returns there as well.
StopReturns == \A c \in Callers : pc[c] = "stop" ~> pc[c] = "returned"
=============================================================================
