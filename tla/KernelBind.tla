----------------------------- MODULE KernelBind -----------------------------
(* The in-process bridge between the server and a userspace WireGuard       *)
(* device: WGKernelBackend and its conns (pkg/wgturnsrv/backend_kernel.go),  *)
(* the conn.Bind they share with the device, and the Kernel and MemoryTUN    *)
(* (pkg/wgkernel) that own the device.  The device itself is wireguard-go:   *)
(* external, modelled by the calls it makes on the bind and on the TUN.      *)
EXTENDS Integers, Sequences, FiniteSets

CONSTANTS Conns,     \* the conns Open hands out, one per session
          Depth,     \* kernelBindQueueDepth (256 in the code)
          MaxGens    \* bound: how often the device opens the bind

ASSUME BindAssumption == Depth \in Nat \ {0} /\ MaxGens \in Nat

VARIABLES opened,      \* WGKernelBackend.opened
          conn,        \* per conn: "none", "open" or "closed" (closed and closeC)
          closer,      \* per conn and closer: "idle", "won" (the swap) or "done"
          reader,      \* per conn, runBackend: "idle", "select" or "done"
          writing,     \* conns with a Write between its check and its select
          toKernel,    \* packets queued for the device
          fromKernel,  \* packets queued for the conns
          openGen,     \* the bind's current generation, 0 for nil
          closedGens,  \* generations whose channel is closed
          receiver,    \* per generation, the ReceiveFunc: "none", "running", "done"
          kernel,      \* Kernel.state and what Start and Stop are doing
          tun,         \* [closed, peerClosed, reader] of the MemoryTUN
          lateReads    \* history: packets a conn's Read returned once it was closed

convars == <<opened, conn, closer>>
devvars == <<openGen, closedGens, receiver, kernel, tun>>
vars == <<opened, conn, closer, reader, writing, toKernel, fromKernel,
          openGen, closedGens, receiver, kernel, tun, lateReads>>

Gens == 1..MaxGens

\* Who closes a conn: the deferred terminate of runBackend, and any other goroutine.
Closers == {"runBackend", "other"}

TypeOK ==
    /\ opened \in BOOLEAN
    /\ conn \in [Conns -> {"none", "open", "closed"}]
    /\ closer \in [Conns -> [Closers -> {"idle", "won", "done"}]]
    /\ reader \in [Conns -> {"idle", "select", "done"}]
    /\ writing \subseteq Conns
    /\ toKernel \in 0..Depth /\ fromKernel \in 0..Depth
    /\ openGen \in {0} \cup Gens /\ closedGens \subseteq Gens
    /\ receiver \in [Gens -> {"none", "running", "done"}]
    /\ kernel \in {"new", "starting", "started", "rebinding", "closing", "closed"}
    /\ tun \in [closed : BOOLEAN, peerClosed : BOOLEAN, reader : {"none", "running", "done"}]
    /\ lateReads \in [Conns -> Nat]

Init ==
    /\ opened = FALSE
    /\ conn = [c \in Conns |-> "none"]
    /\ closer = [c \in Conns |-> [k \in Closers |-> "idle"]]
    /\ reader = [c \in Conns |-> "idle"]
    /\ writing = {}
    /\ toKernel = 0 /\ fromKernel = 0
    /\ openGen = 0 /\ closedGens = {}
    /\ receiver = [g \in Gens |-> "none"]
    /\ kernel = "new"
    /\ tun = [closed |-> FALSE, peerClosed |-> FALSE, reader |-> "none"]
    /\ lateReads = [c \in Conns |-> 0]
-----------------------------------------------------------------------------
(* The backend and its conns.                                               *)

\* Open under b.mu; an Open that finds opened set returns an error and changes nothing.
Open(c) ==
    /\ conn[c] = "none" /\ ~opened
    /\ opened' = TRUE
    /\ conn' = [conn EXCEPT ![c] = "open"]
    /\ UNCHANGED <<closer, reader, writing, toKernel, fromKernel, lateReads>>
    /\ UNCHANGED devvars

\* A bug: Read goes to the select without a look at closed.
ReadCallUnchecked(c) ==
    /\ conn[c] # "none" /\ reader[c] = "idle"
    /\ reader' = [reader EXCEPT ![c] = "select"]
    /\ UNCHANGED <<convars, writing, toKernel, fromKernel, lateReads>>
    /\ UNCHANGED devvars

\* runBackend sets the deadline and calls Read, which looks at closed first.
ReadCall(c) ==
    /\ conn[c] # "none" /\ reader[c] = "idle"
    /\ reader' = [reader EXCEPT ![c] = IF conn[c] = "closed" THEN "done" ELSE "select"]
    /\ UNCHANGED <<convars, writing, toKernel, fromKernel, lateReads>>
    /\ UNCHANGED devvars

\* recvFromKernel: whichever of the ready cases the select picks.
ReadPacket(c) ==
    /\ reader[c] = "select" /\ fromKernel > 0
    /\ fromKernel' = fromKernel - 1
    /\ reader' = [reader EXCEPT ![c] = "idle"]
    /\ lateReads' = [lateReads EXCEPT ![c] = IF conn[c] = "closed" THEN @ + 1 ELSE @]
    /\ UNCHANGED <<convars, writing, toKernel>>
    /\ UNCHANGED devvars

\* A bug: closeC is only looked at once a packet has come.
ReadClosedOnPacket(c) ==
    /\ reader[c] = "select" /\ conn[c] = "closed" /\ fromKernel > 0
    /\ reader' = [reader EXCEPT ![c] = "done"]
    /\ UNCHANGED <<convars, writing, toKernel, fromKernel, lateReads>>
    /\ UNCHANGED devvars

ReadClosed(c) ==
    /\ reader[c] = "select" /\ conn[c] = "closed"
    /\ reader' = [reader EXCEPT ![c] = "done"]
    /\ UNCHANGED <<convars, writing, toKernel, fromKernel, lateReads>>
    /\ UNCHANGED devvars

\* runBackend sets a deadline before every Read, so the channel is never nil.
ReadTimesOut(c) ==
    /\ reader[c] = "select"
    /\ reader' = [reader EXCEPT ![c] = "done"]
    /\ UNCHANGED <<convars, writing, toKernel, fromKernel, lateReads>>
    /\ UNCHANGED devvars

\* Write: closed is looked at, then sendToKernel chooses among the ready cases
\* and drops the packet when the queue is full.
WriteCall(c) ==
    /\ conn[c] = "open" /\ c \notin writing
    /\ writing' = writing \cup {c}
    /\ UNCHANGED <<convars, reader, toKernel, fromKernel, lateReads>>
    /\ UNCHANGED devvars

WriteSelect(c) ==
    /\ c \in writing
    /\ writing' = writing \ {c}
    /\ \/ toKernel < Depth /\ toKernel' = toKernel + 1
       \/ (conn[c] = "closed" \/ toKernel = Depth) /\ UNCHANGED toKernel
    /\ UNCHANGED <<convars, reader, fromKernel, lateReads>>
    /\ UNCHANGED devvars

\* A bug: every Close releases the backend, not only the one that wins the swap.
CloseCallNoSwap(c, k) ==
    /\ conn[c] # "none" /\ closer[c][k] = "idle"
    /\ k = "runBackend" => reader[c] = "done"
    /\ closer' = [closer EXCEPT ![c][k] = "won"]
    /\ conn' = [conn EXCEPT ![c] = "closed"]
    /\ UNCHANGED <<opened, reader, writing, toKernel, fromKernel, lateReads>>
    /\ UNCHANGED devvars

\* Close: whoever wins the swap closes closeC and goes on to release the backend.
CloseCall(c, k) ==
    /\ conn[c] # "none" /\ closer[c][k] = "idle"
    /\ k = "runBackend" => reader[c] = "done"
    /\ closer' = [closer EXCEPT ![c][k] = IF conn[c] = "open" THEN "won" ELSE "done"]
    /\ conn' = [conn EXCEPT ![c] = "closed"]
    /\ UNCHANGED <<opened, reader, writing, toKernel, fromKernel, lateReads>>
    /\ UNCHANGED devvars

release(c, k) ==
    /\ closer[c][k] = "won"
    /\ closer' = [closer EXCEPT ![c][k] = "done"]
    /\ opened' = FALSE
    /\ UNCHANGED <<conn, reader, writing, toKernel, fromKernel, lateReads>>
    /\ UNCHANGED devvars
-----------------------------------------------------------------------------
(* The bind, as the device uses it.                                         *)

\* Open: a previous generation still open is closed, and the new one's ReceiveFunc
\* is started in a goroutine of the device.
BindOpen(g) ==
    /\ receiver[g] = "none" /\ \A h \in 1..(g - 1) : receiver[h] # "none"
    /\ openGen' = g
    /\ closedGens' = closedGens \cup ({openGen} \ {0})
    /\ receiver' = [receiver EXCEPT ![g] = "running"]

BindClose ==
    /\ openGen' = 0
    /\ closedGens' = closedGens \cup ({openGen} \ {0})
    /\ UNCHANGED receiver

\* One call of a ReceiveFunc: a packet, or the end once its generation is closed.
Receive(g) ==
    /\ receiver[g] = "running" /\ toKernel > 0
    /\ toKernel' = toKernel - 1
    /\ UNCHANGED <<convars, reader, writing, fromKernel, lateReads>>
    /\ UNCHANGED devvars

ReceiveEnds(g) ==
    /\ receiver[g] = "running" /\ g \in closedGens
    /\ receiver' = [receiver EXCEPT ![g] = "done"]
    /\ UNCHANGED <<convars, reader, writing, toKernel, fromKernel, lateReads>>
    /\ UNCHANGED <<openGen, closedGens, kernel, tun>>

\* Send: a full queue drops the packet, and nothing asks whether a conn is open.
Send ==
    /\ openGen # 0 /\ fromKernel < Depth
    /\ fromKernel' = fromKernel + 1
    /\ UNCHANGED <<convars, reader, writing, toKernel, lateReads>>
    /\ UNCHANGED devvars
-----------------------------------------------------------------------------
(* Kernel and its TUN.                                                      *)

datavars == <<convars, reader, writing, toKernel, fromKernel, lateReads>>
Idle == \A g \in Gens : receiver[g] # "running"

\* Start up to NewDevice; the earlier errors return with the state unchanged.
Start ==
    /\ kernel = "new" /\ ~tun.closed
    /\ kernel' = "starting"
    /\ tun' = [tun EXCEPT !.reader = "running"]
    /\ UNCHANGED <<openGen, closedGens, receiver>> /\ UNCHANGED datavars

\* dev.Up opens the bind; a later change of the device's configuration opens it again.
StartUp ==
    /\ \/ kernel \in {"starting", "started"}
       \/ kernel = "rebinding" /\ Idle
    /\ \E g \in Gens : BindOpen(g)
    /\ kernel' = "started"
    /\ UNCHANGED tun /\ UNCHANGED datavars

Rebind ==
    /\ kernel = "started" /\ \E g \in Gens : receiver[g] = "none"
    /\ BindClose
    /\ kernel' = "rebinding"
    /\ UNCHANGED tun /\ UNCHANGED datavars

\* dev.Close closes the TUN and the bind and waits for the goroutines that use them.
DeviceClose ==
    /\ BindClose
    /\ tun' = [tun EXCEPT !.closed = TRUE]
    /\ kernel' = "closing"
    /\ UNCHANGED datavars

StartFails == kernel = "starting" /\ DeviceClose
Stop == kernel = "started" /\ DeviceClose

DeviceClosed ==
    /\ kernel = "closing" /\ Idle /\ tun.reader # "running"
    /\ kernel' = "closed"
    /\ UNCHANGED <<openGen, closedGens, receiver, tun>> /\ UNCHANGED datavars

\* A bug: Read waits for the partner's queue alone, not for its own done channel.
TunReadEndsByPeer ==
    /\ tun.reader = "running" /\ tun.peerClosed
    /\ tun' = [tun EXCEPT !.reader = "done"]
    /\ UNCHANGED <<openGen, closedGens, receiver, kernel>> /\ UNCHANGED datavars

\* MemoryTUN.Read ends when the device's own side or the partner's is closed.
TunReadEnds ==
    /\ tun.reader = "running" /\ (tun.closed \/ (tun.peerClosed))
    /\ tun' = [tun EXCEPT !.reader = "done"]
    /\ UNCHANGED <<openGen, closedGens, receiver, kernel>> /\ UNCHANGED datavars

\* The partner of the pair closes its side.
PeerClose ==
    /\ ~tun.peerClosed
    /\ tun' = [tun EXCEPT !.peerClosed = TRUE]
    /\ UNCHANGED <<openGen, closedGens, receiver, kernel>> /\ UNCHANGED datavars
-----------------------------------------------------------------------------
ConnStep(c) ==
    \/ Open(c) \/ ReadCall(c) \/ ReadPacket(c) \/ ReadClosed(c) \/ ReadTimesOut(c)
    \/ WriteCall(c) \/ WriteSelect(c)
    \/ \E k \in Closers : CloseCall(c, k) \/ release(c, k)

DeviceStep ==
    \/ \E g \in Gens : Receive(g) \/ ReceiveEnds(g)
    \/ Send \/ Start \/ StartUp \/ Rebind \/ StartFails \/ Stop \/ DeviceClosed
    \/ TunReadEnds \/ PeerClose

Next == DeviceStep \/ \E c \in Conns : ConnStep(c)

\* Go picks among the ready cases of a select at random, so a case that stays
\* ready is picked in the end however often another one is: strong fairness for
\* the two ends.  Goroutines that can run do run: weak fairness for the rest.
Fairness ==
    /\ WF_vars(\E c \in Conns : conn[c] = "closed" /\ ReadCall(c))
    /\ SF_vars(\E c \in Conns : ReadClosed(c))
    /\ SF_vars(\E g \in Gens : ReceiveEnds(g))
    /\ WF_vars(DeviceClosed \/ TunReadEnds \/ \E c \in Conns, k \in Closers : release(c, k))

Spec == Init /\ [][Next]_vars /\ Fairness
-----------------------------------------------------------------------------
(* Properties.                                                              *)

\* A conn has the backend from Open until the winner of the swap in Close releases it.
Owns(c) == conn[c] = "open" \/ \E k \in Closers : closer[c][k] = "won"

\* The bridge as a backend with one client, in the terms of SessionService.
Bridge == INSTANCE SessionService WITH
    Sids <- {"bridge"}, Sess <- Conns,
    open <- {<<"bridge", c>> : c \in {d \in Conns : Owns(d)}},
    used <- {c \in Conns : conn[c] # "none"}

\* The bridge has one session at a time (backend_kernel.go:54-56): whatever the order of
\* Close calls and of a new Open, the backend belongs to one conn until its own Close
\* gives it back, and no conn gets it twice.
OneOwnerAtATime == Bridge!Spec

\* A Read that passed the check of closed may still take a packet meant for the next
\* session (lines 94-97), but at most one: the next Read sees closed.
LateReadOnce == \A c \in Conns : lateReads[c] <= 1

\* Every closed conn, in the end, has lost its reader and has given the backend back
\* (lines 86-90, 115-121): closeC unblocks a Read however much the device sends.
SessionsEnd ==
    []<>(\A c \in Conns : conn[c] = "closed" =>
            reader[c] = "done" /\ \A k \in Closers : closer[c][k] # "won")

\* Kernel.Stop, and a Start that fails, return: they wait for the ReceiveFuncs and
\* for the goroutine that reads the TUN (tun.go:103-109), under any traffic.
KernelStops == []<>(kernel # "closing")
=============================================================================
