-------------------------- MODULE KernelBindProofs --------------------------
(* Whatever the number of sessions, the depth of the queues and the number   *)
(* of times the device opens its bind: WGKernelBackend has one session at a  *)
(* time, a Read of a closed conn takes at most one packet, and Kernel.Stop   *)
(* leaves no goroutine of the device behind.                                *)
EXTENDS KernelBind, TLAPS

-----------------------------------------------------------------------------
(* The backend and its conns.                                               *)

ConnTypes ==
    /\ opened \in BOOLEAN
    /\ conn \in [Conns -> {"none", "open", "closed"}]
    /\ closer \in [Conns -> [Closers -> {"idle", "won", "done"}]]
    /\ reader \in [Conns -> {"idle", "select", "done"}]
    /\ lateReads \in [Conns -> Nat]

\* Who won the swap closed the conn, and nobody else won it.
SwapWon ==
    \A c \in Conns, k \in Closers : closer[c][k] = "won" =>
        /\ conn[c] = "closed"
        /\ \A l \in Closers : closer[c][l] = "won" => l = k

\* At most one conn has the backend, and while one has it Open refuses.
OneOwner ==
    /\ \A c, d \in Conns : Owns(c) /\ Owns(d) => c = d
    /\ \A c \in Conns : Owns(c) => opened

\* After its late packet the reader is on its way to the look at closed, or through.
LateIsLast ==
    \A c \in Conns :
        /\ lateReads[c] <= 1
        /\ lateReads[c] > 0 => conn[c] = "closed" /\ reader[c] # "select"

BindInv == ConnTypes /\ SwapWon /\ OneOwner /\ LateIsLast

\* Device, bind and TUN leave the conns alone (backend_kernel.go:193-320, kernel.go:111-176).
LEMMA DeviceLeavesConns ==
    DeviceStep => UNCHANGED <<opened, conn, closer, reader, lateReads>>
  BY DEF DeviceStep, Receive, ReceiveEnds, Send, Start, StartUp, Rebind, StartFails, Stop,
         DeviceClose, DeviceClosed, TunReadEnds, PeerClose, datavars, convars

\* The invariant holds before the first Open.
LEMMA BindInit == Init => BindInv
  <1> SUFFICES ASSUME Init PROVE BindInv
    OBVIOUS
  <1>1. ConnTypes
    BY Zenon DEF Init, ConnTypes
  <1>2. \A c \in Conns : conn[c] = "none" /\ \A k \in Closers : closer[c][k] = "idle"
    BY DEF Init
  <1>3. SwapWon /\ OneOwner
    BY <1>2 DEF SwapWon, OneOwner, Owns
  <1>4. LateIsLast
    BY DEF Init, LateIsLast
  <1> QED BY <1>1, <1>3, <1>4 DEF BindInv

\* A step that changes neither conns nor their reads keeps the invariant.
LEMMA BindStutter ==
    BindInv /\ UNCHANGED <<opened, conn, closer, reader, lateReads>> => BindInv'
  BY DEF BindInv, ConnTypes, SwapWon, Owns, OneOwner, LateIsLast

\* Every step of backend, conns, device and TUN keeps the invariant.
LEMMA BindNext == BindInv /\ [Next]_vars => BindInv'
  <1> SUFFICES ASSUME BindInv, [Next]_vars PROVE BindInv'
    OBVIOUS
  <1>1. CASE DeviceStep \/ UNCHANGED vars
    BY <1>1, DeviceLeavesConns, BindStutter DEF vars
  <1>2. ASSUME NEW c \in Conns, Open(c) PROVE BindInv'
    <2> USE <1>2 DEF Open, BindInv, ConnTypes
    <2>1. ConnTypes' /\ SwapWon'
      BY DEF SwapWon
    <2>2. OneOwner'
      BY DEF OneOwner, Owns, SwapWon
    <2>3. LateIsLast'
      BY DEF LateIsLast
    <2> QED BY <2>1, <2>2, <2>3
  <1>3. ASSUME NEW c \in Conns, ReadCall(c) \/ ReadClosed(c) \/ ReadTimesOut(c) PROVE BindInv'
    <2> USE <1>3 DEF ReadCall, ReadClosed, ReadTimesOut, convars, BindInv, ConnTypes
    <2>1. ConnTypes' /\ SwapWon'
      BY DEF SwapWon
    <2>2. OneOwner'
      BY DEF OneOwner, Owns
    <2>3. LateIsLast'
      BY DEF LateIsLast
    <2> QED BY <2>1, <2>2, <2>3
  <1>4. ASSUME NEW c \in Conns, ReadPacket(c) PROVE BindInv'
    <2> USE <1>4 DEF ReadPacket, convars, BindInv, ConnTypes
    <2>1. ConnTypes' /\ SwapWon'
      BY DEF SwapWon
    <2>2. OneOwner'
      BY DEF OneOwner, Owns
    <2>3. LateIsLast'
      BY DEF LateIsLast
    <2> QED BY <2>1, <2>2, <2>3
  <1>5. ASSUME NEW c \in Conns, WriteCall(c) \/ WriteSelect(c) PROVE BindInv'
    BY <1>5, BindStutter DEF WriteCall, WriteSelect, convars
  <1>6. ASSUME NEW c \in Conns, NEW k \in Closers, CloseCall(c, k) PROVE BindInv'
    <2> USE <1>6 DEF CloseCall, BindInv, ConnTypes
    <2>1. ConnTypes'
      OBVIOUS
    <2>2. SwapWon'
      BY DEF SwapWon
    <2>3. OneOwner'
      BY DEF OneOwner, Owns, SwapWon
    <2>4. LateIsLast'
      BY DEF LateIsLast
    <2> QED BY <2>1, <2>2, <2>3, <2>4
  <1>7. ASSUME NEW c \in Conns, NEW k \in Closers, release(c, k) PROVE BindInv'
    <2> USE <1>7 DEF release, BindInv, ConnTypes
    <2>1. ConnTypes'
      BY Zenon
    <2>2. SwapWon'
      BY DEF SwapWon
    <2>3. OneOwner'
      BY DEF OneOwner, Owns, SwapWon
    <2>4. LateIsLast'
      BY DEF LateIsLast
    <2> QED BY <2>1, <2>2, <2>3, <2>4
  <1> QED
    BY <1>1, <1>2, <1>3, <1>4, <1>5, <1>6, <1>7 DEF Next, ConnStep

\* The inductive invariant of the bridge: ownership of the backend passes from Open
\* through the swap of Close to release (backend_kernel.go:57-121).
THEOREM BindInvariance == Spec => []BindInv
  BY BindInit, BindNext, PTL DEF Spec

\* What SessionService sees of the bridge.
Owned == {<<"bridge", c>> : c \in {d \in Conns : Owns(d)}}
Used == {c \in Conns : conn[c] # "none"}

\* Open gives the backend, which nobody has, to a conn that never had it.
LEMMA BridgeOpen ==
    ASSUME BindInv, NEW c \in Conns, Open(c)
    PROVE  Bridge!Open("bridge", c)
<1>1. \A d \in Conns : ~Owns(d)
  BY DEF Open, BindInv, OneOwner
<1>2. \A d \in Conns : Owns(d)' <=> d = c
  <2>1. conn'[c] = "open" /\ \A d \in Conns : d # c => conn'[d] = conn[d]
    BY DEF Open, BindInv, ConnTypes
  <2>2. closer' = closer
    BY DEF Open
  <2> QED BY <1>1, <2>1, <2>2 DEF Owns
<1>3. Owned = {} /\ Owned' = {<<"bridge", c>>}
  BY <1>1, <1>2 DEF Owned
<1>4. c \notin Used /\ Used' = Used \cup {c}
  BY DEF Open, Used, BindInv, ConnTypes
<1> QED BY <1>3, <1>4, Zenon DEF Bridge!Open, Owned, Used

\* release, by the winner of the swap, takes the backend from its conn and no other.
LEMMA BridgeClose ==
    ASSUME BindInv, NEW c \in Conns, NEW k \in Closers, release(c, k)
    PROVE  Bridge!Close("bridge", c)
<1>1. conn[c] = "closed" /\ \A l \in Closers : closer[c][l] = "won" => l = k
  BY DEF release, BindInv, SwapWon
<1>2. closer'[c][k] = "done" /\ \A l \in Closers : l # k => closer'[c][l] = closer[c][l]
  BY DEF release, BindInv, ConnTypes
<1>3. \A d \in Conns : d # c => closer'[d] = closer[d]
  BY DEF release, BindInv, ConnTypes
<1>4. conn' = conn
  BY DEF release
<1>5. Owns(c) /\ ~Owns(c)' /\ \A d \in Conns : d # c => (Owns(d)' <=> Owns(d))
  BY <1>1, <1>2, <1>3, <1>4 DEF Owns, release
<1>6. <<"bridge", c>> \in Owned /\ Owned' = Owned \ {<<"bridge", c>>}
  BY <1>5 DEF Owned
<1>7. Used' = Used
  BY <1>4 DEF Used
<1> QED BY <1>6, <1>7 DEF Bridge!Close, Owned, Used

\* Close before the release: the conn is closed, and has the backend still.
LEMMA BridgeKeeps ==
    ASSUME BindInv, NEW c \in Conns, NEW k \in Closers, CloseCall(c, k)
    PROVE  UNCHANGED <<Owned, Used>>
<1>1. conn'[c] = "closed" /\ \A d \in Conns : d # c => conn'[d] = conn[d]
  BY DEF CloseCall, BindInv, ConnTypes
<1>2. closer'[c][k] = IF conn[c] = "open" THEN "won" ELSE "done"
  BY DEF CloseCall, BindInv, ConnTypes
<1>3. \A l \in Closers : l # k => closer'[c][l] = closer[c][l]
  BY DEF CloseCall, BindInv, ConnTypes
<1>4. \A d \in Conns : d # c => closer'[d] = closer[d]
  BY DEF CloseCall, BindInv, ConnTypes
<1>5. conn[c] # "none" /\ closer[c][k] = "idle"
  BY DEF CloseCall
<1>6. \A d \in Conns : Owns(d)' <=> Owns(d)
  BY <1>1, <1>2, <1>3, <1>4, <1>5 DEF Owns
<1>7. Owned' = Owned
  BY <1>6 DEF Owned
<1>8. Used' = Used
  BY <1>1, <1>5 DEF Used
<1> QED BY <1>7, <1>8

\* The bridge implements SessionService with one client (OneOwnerAtATime): the backend
\* belongs to one conn at a time, from Open until release, for any number of sessions and
\* any order of their Closes (backend_kernel.go:54-121).
THEOREM OneSession == Spec => OneOwnerAtATime
<1>1. Init => Bridge!Init
  BY DEF Init, Bridge!Init, Owns
<1>2. BindInv /\ [Next]_vars => [Bridge!Next]_<<Owned, Used>>
  <2> SUFFICES ASSUME BindInv, [Next]_vars PROVE [Bridge!Next]_<<Owned, Used>>
    OBVIOUS
  <2>1. CASE UNCHANGED <<conn, closer>>
    BY <2>1 DEF Owned, Used, Owns
  <2>2. CASE DeviceStep \/ UNCHANGED vars
    BY <2>1, <2>2, DeviceLeavesConns DEF vars
  <2>3. ASSUME NEW c \in Conns, Open(c) PROVE Bridge!Next
    BY <2>3, BridgeOpen, Zenon DEF Bridge!Next
  <2>4. ASSUME NEW c \in Conns, NEW k \in Closers, CloseCall(c, k) \/ release(c, k)
        PROVE  [Bridge!Next]_<<Owned, Used>>
    BY <2>4, BridgeClose, BridgeKeeps, Zenon DEF Bridge!Next
  <2>5. ASSUME NEW c \in Conns,
               \/ ReadCall(c) \/ ReadPacket(c) \/ ReadClosed(c) \/ ReadTimesOut(c)
               \/ WriteCall(c) \/ WriteSelect(c)
        PROVE  UNCHANGED <<conn, closer>>
    BY <2>5 DEF ReadCall, ReadPacket, ReadClosed, ReadTimesOut, WriteCall, WriteSelect, convars
  <2> QED BY <2>1, <2>2, <2>3, <2>4, <2>5, Zenon DEF Next, ConnStep
<1> QED BY <1>1, <1>2, BindInvariance, PTL DEF Spec, OneOwnerAtATime, Bridge!Spec, Owned, Used

\* A closed conn's Read takes at most one packet of its successor's, however deep the
\* queues are (backend_kernel.go:94-97).
THEOREM OneLateRead == Spec => []LateReadOnce
  <1>1. BindInv => LateReadOnce
    BY DEF BindInv, LateIsLast, LateReadOnce
  <1> QED BY <1>1, BindInvariance, PTL

-----------------------------------------------------------------------------
(* The device, its bind and its TUN.                                        *)

DeviceTypes ==
    /\ writing \subseteq Conns
    /\ toKernel \in 0..Depth /\ fromKernel \in 0..Depth
    /\ openGen \in {0} \cup Gens /\ closedGens \subseteq Gens
    /\ receiver \in [Gens -> {"none", "running", "done"}]
    /\ kernel \in {"new", "starting", "started", "rebinding", "closing", "closed"}
    /\ tun \in [closed : BOOLEAN, peerClosed : BOOLEAN, reader : {"none", "running", "done"}]

\* No ReceiveFunc is forgotten: its generation is the one that Close will close, or closed.
NoneForgotten ==
    \A g \in Gens : receiver[g] # "none" => g = openGen \/ g \in closedGens

\* While the device is being closed or bound again its bind is closed; a closed device has
\* a closed TUN, and when Close has returned nothing runs any more.
DownInv ==
    /\ kernel \in {"rebinding", "closing", "closed"} => openGen = 0
    /\ kernel \in {"closing", "closed"} => tun.closed
    /\ kernel = "closed" => Idle /\ tun.reader # "running"

DeviceInv == DeviceTypes /\ NoneForgotten /\ DownInv

\* A new Kernel has started nothing.
LEMMA DeviceInit == Init => DeviceInv
<1> SUFFICES ASSUME Init PROVE DeviceInv
  OBVIOUS
<1>1. DeviceTypes
  BY BindAssumption DEF Init, DeviceTypes
<1>2. NoneForgotten /\ DownInv
  BY DEF Init, NoneForgotten, DownInv
<1> QED BY <1>1, <1>2 DEF DeviceInv

\* Open of the bind closes the generation before, and Close the current one.
LEMMA BindKeepsTrack ==
    ASSUME DeviceTypes, NoneForgotten
    PROVE  /\ (\E g \in Gens : BindOpen(g)) =>
                 /\ NoneForgotten' /\ openGen' \in Gens /\ closedGens' \subseteq Gens
                 /\ receiver' \in [Gens -> {"none", "running", "done"}]
           /\ BindClose => NoneForgotten' /\ openGen' = 0 /\ closedGens' \subseteq Gens
<1>1. ASSUME NEW g \in Gens, BindOpen(g)
      PROVE  /\ NoneForgotten' /\ openGen' \in Gens /\ closedGens' \subseteq Gens
             /\ receiver' \in [Gens -> {"none", "running", "done"}]
  <2>1. openGen' = g /\ closedGens' = closedGens \cup ({openGen} \ {0})
    BY <1>1 DEF BindOpen
  <2>2. receiver' = [receiver EXCEPT ![g] = "running"]
    BY <1>1 DEF BindOpen
  <2>3. receiver' \in [Gens -> {"none", "running", "done"}]
    BY <2>2 DEF DeviceTypes
  <2>4. closedGens' \subseteq Gens
    BY <2>1 DEF DeviceTypes
  <2>5. \A h \in Gens : h # g => receiver'[h] = receiver[h]
    BY <2>2 DEF DeviceTypes
  <2>6. 0 \notin Gens
    BY DEF Gens
  <2>7. NoneForgotten'
    BY <2>1, <2>5, <2>6 DEF NoneForgotten
  <2> QED BY <2>1, <2>3, <2>4, <2>7
<1>2. ASSUME BindClose PROVE NoneForgotten' /\ openGen' = 0 /\ closedGens' \subseteq Gens
  <2>1. 0 \notin Gens
    BY DEF Gens
  <2> QED BY <1>2, <2>1 DEF BindClose, NoneForgotten, DeviceTypes
<1> QED BY <1>1, <1>2

\* Every step of device, bind, TUN and conns keeps the invariant.
LEMMA DeviceNext == DeviceInv /\ [Next]_vars => DeviceInv'
<1> SUFFICES ASSUME DeviceInv, [Next]_vars PROVE DeviceInv'
  OBVIOUS
<1>0. DeviceTypes /\ NoneForgotten /\ DownInv
  BY DEF DeviceInv
<1>1. ASSUME UNCHANGED devvars, writing' \subseteq Conns,
             toKernel' \in 0..Depth, fromKernel' \in 0..Depth
      PROVE  DeviceInv'
  BY <1>0, <1>1 DEF devvars, DeviceInv, DeviceTypes, NoneForgotten, DownInv, Idle
<1>2. ASSUME UNCHANGED datavars, DownInv', NoneForgotten', openGen' \in {0} \cup Gens,
             closedGens' \subseteq Gens, receiver' \in [Gens -> {"none", "running", "done"}],
             kernel' \in {"new", "starting", "started", "rebinding", "closing", "closed"},
             tun' \in [closed : BOOLEAN, peerClosed : BOOLEAN, reader : {"none", "running", "done"}]
      PROVE  DeviceInv'
  BY <1>0, <1>2 DEF datavars, DeviceInv, DeviceTypes
<1>3. ASSUME NEW c \in Conns, ConnStep(c) PROVE DeviceInv'
  <2>1. CASE Open(c) \/ ReadCall(c) \/ ReadClosed(c) \/ ReadTimesOut(c)
               \/ \E k \in Closers : CloseCall(c, k) \/ release(c, k)
    <3>1. UNCHANGED <<devvars, writing, toKernel, fromKernel>>
      BY <2>1 DEF Open, ReadCall, ReadClosed, ReadTimesOut, CloseCall, release
    <3> QED BY <1>0, <1>1, <3>1 DEF DeviceTypes
  <2>2. CASE ReadPacket(c)
    <3>1. UNCHANGED <<devvars, writing, toKernel>> /\ fromKernel > 0 /\ fromKernel' = fromKernel - 1
      BY <2>2 DEF ReadPacket
    <3>2. fromKernel' \in 0..Depth
      BY <1>0, <3>1, BindAssumption DEF DeviceTypes
    <3> QED BY <1>0, <1>1, <3>1, <3>2 DEF DeviceTypes
  <2>3. CASE WriteCall(c) \/ WriteSelect(c)
    <3>1. UNCHANGED <<devvars, fromKernel>> /\ writing' \subseteq Conns
      BY <1>0, <2>3 DEF WriteCall, WriteSelect, DeviceTypes
    <3>2. toKernel' = toKernel \/ (toKernel < Depth /\ toKernel' = toKernel + 1)
      BY <2>3 DEF WriteCall, WriteSelect
    <3>3. toKernel' \in 0..Depth
      BY <1>0, <3>2, BindAssumption DEF DeviceTypes
    <3> QED BY <1>0, <1>1, <3>1, <3>3 DEF DeviceTypes
  <2> QED BY <1>3, <2>1, <2>2, <2>3 DEF ConnStep
<1>4. ASSUME NEW g \in Gens, Receive(g) PROVE DeviceInv'
  <2>1. UNCHANGED <<devvars, writing, fromKernel>> /\ toKernel > 0 /\ toKernel' = toKernel - 1
    BY <1>4 DEF Receive
  <2>2. toKernel' \in 0..Depth
    BY <1>0, <2>1, BindAssumption DEF DeviceTypes
  <2> QED BY <1>0, <1>1, <2>1, <2>2 DEF DeviceTypes
<1>5. ASSUME Send PROVE DeviceInv'
  <2>1. UNCHANGED <<devvars, writing, toKernel>> /\ fromKernel < Depth /\ fromKernel' = fromKernel + 1
    BY <1>5 DEF Send
  <2>2. fromKernel' \in 0..Depth
    BY <1>0, <2>1, BindAssumption DEF DeviceTypes
  <2> QED BY <1>0, <1>1, <2>1, <2>2 DEF DeviceTypes
<1>6. ASSUME NEW g \in Gens, ReceiveEnds(g) PROVE DeviceInv'
  <2>1. UNCHANGED datavars /\ UNCHANGED <<openGen, closedGens, kernel, tun>>
    BY <1>6 DEF ReceiveEnds, datavars
  <2>2. /\ receiver' \in [Gens -> {"none", "running", "done"}]
        /\ \A h \in Gens : h # g => receiver'[h] = receiver[h]
        /\ receiver[g] = "running" /\ receiver'[g] = "done"
    BY <1>0, <1>6 DEF ReceiveEnds, DeviceTypes
  <2>3. NoneForgotten'
    BY <1>0, <2>1, <2>2 DEF NoneForgotten
  <2>4. DownInv'
    BY <1>0, <2>1, <2>2 DEF DownInv, Idle
  <2> QED BY <1>0, <1>2, <2>1, <2>2, <2>3, <2>4 DEF DeviceTypes
<1>7. ASSUME StartUp PROVE DeviceInv'
  <2>1. UNCHANGED datavars /\ kernel' = "started" /\ tun' = tun /\ \E g \in Gens : BindOpen(g)
    BY <1>7 DEF StartUp
  <2>2. /\ NoneForgotten' /\ openGen' \in Gens /\ closedGens' \subseteq Gens
        /\ receiver' \in [Gens -> {"none", "running", "done"}]
    BY <1>0, <2>1, BindKeepsTrack
  <2>3. DownInv'
    BY <2>1 DEF DownInv
  <2> QED BY <1>0, <1>2, <2>1, <2>2, <2>3 DEF DeviceTypes
<1>8. ASSUME Rebind \/ StartFails \/ Stop PROVE DeviceInv'
  <2>1. UNCHANGED datavars /\ BindClose /\ receiver' = receiver
    BY <1>8 DEF Rebind, StartFails, Stop, DeviceClose, BindClose
  <2>2. \/ kernel' = "rebinding" /\ tun' = tun
        \/ kernel' = "closing" /\ tun' = [tun EXCEPT !.closed = TRUE]
    BY <1>8 DEF Rebind, StartFails, Stop, DeviceClose
  <2>3. NoneForgotten' /\ openGen' = 0 /\ closedGens' \subseteq Gens
    BY <1>0, <2>1, BindKeepsTrack
  <2>4. /\ tun' \in [closed : BOOLEAN, peerClosed : BOOLEAN, reader : {"none", "running", "done"}]
        /\ kernel' = "closing" => tun'.closed
    BY <1>0, <2>2, Zenon DEF DeviceTypes
  <2>5. DownInv'
    BY <2>2, <2>3, <2>4 DEF DownInv
  <2> QED BY <1>0, <1>2, <2>1, <2>2, <2>3, <2>4, <2>5 DEF DeviceTypes
<1>9. ASSUME Start \/ DeviceClosed \/ TunReadEnds \/ PeerClose PROVE DeviceInv'
  <2>1. UNCHANGED datavars /\ UNCHANGED <<openGen, closedGens, receiver>>
    BY <1>9 DEF Start, DeviceClosed, TunReadEnds, PeerClose
  <2>2. \/ kernel = "new" /\ kernel' = "starting" /\ tun' = [tun EXCEPT !.reader = "running"]
        \/ kernel = "closing" /\ kernel' = "closed" /\ tun' = tun /\ Idle /\ tun.reader # "running"
        \/ kernel' = kernel /\ tun' = [tun EXCEPT !.reader = "done"]
        \/ kernel' = kernel /\ tun' = [tun EXCEPT !.peerClosed = TRUE]
    BY <1>9 DEF Start, DeviceClosed, TunReadEnds, PeerClose
  <2>3. /\ tun' \in [closed : BOOLEAN, peerClosed : BOOLEAN, reader : {"none", "running", "done"}]
        /\ kernel' \in {"new", "starting", "started", "rebinding", "closing", "closed"}
    BY <1>0, <2>2, Zenon DEF DeviceTypes
  <2>4. tun'.closed = tun.closed
    BY <1>0, <2>2 DEF DeviceTypes
  <2>5. kernel' = "closed" => tun'.reader # "running"
    BY <1>0, <2>2 DEF DeviceTypes, DownInv
  <2>6. DownInv'
    BY <1>0, <2>1, <2>2, <2>4, <2>5 DEF DownInv, Idle
  <2>7. NoneForgotten'
    BY <1>0, <2>1 DEF NoneForgotten
  <2> QED BY <1>0, <1>2, <2>1, <2>3, <2>6, <2>7 DEF DeviceTypes
<1>10. ASSUME UNCHANGED vars PROVE DeviceInv'
  BY <1>0, <1>1, <1>10 DEF vars, devvars, DeviceTypes
<1> QED BY <1>3, <1>4, <1>5, <1>6, <1>7, <1>8, <1>9, <1>10 DEF Next, DeviceStep

\* The inductive invariant of the device: which generation of the bind a ReceiveFunc
\* belongs to, and what is closed when (kernel.go:111-176, backend_kernel.go:193-320).
THEOREM DeviceInvariance == Spec => []DeviceInv
  BY DeviceInit, DeviceNext, PTL DEF Spec

\* The fields of backend, bind, Kernel and TUN keep their types, and neither queue ever
\* holds more than kernelBindQueueDepth packets: Write and Send drop instead.
THEOREM BridgeTypes == Spec => []TypeOK
<1>1. BindInv /\ DeviceInv => TypeOK
  BY DEF BindInv, ConnTypes, DeviceInv, DeviceTypes, TypeOK
<1> QED BY <1>1, BindInvariance, DeviceInvariance, PTL

\* What the device waits for in Close, and between two generations, has been told to end:
\* each ReceiveFunc by the channel of its own generation, however often the bind has been
\* opened, and the reader of the TUN by the TUN (kernel.go:155-176, tun.go:103-109).  It is
\* what KernelStops rests on, besides fairness.
ToldToEnd ==
    /\ kernel \in {"rebinding", "closing"} =>
          \A g \in Gens : receiver[g] = "running" => g \in closedGens
    /\ kernel = "closing" /\ tun.reader = "running" => tun.closed

\* Close of the device waits for nobody that has not been told to end (ToldToEnd).
THEOREM CloseTellsAll == Spec => []ToldToEnd
<1>1. DeviceInv => ToldToEnd
  <2>1. 0 \notin Gens
    BY DEF Gens
  <2> QED BY <2>1 DEF DeviceInv, NoneForgotten, DownInv, ToldToEnd
<1> QED BY <1>1, DeviceInvariance, PTL

\* A Kernel that has been stopped has no ReceiveFunc, no reader of its TUN and no open
\* bind, so that nothing the sessions still write is received (kernel.go:155-176).
StoppedIsQuiet ==
    kernel = "closed" => Idle /\ tun.reader # "running" /\ openGen = 0 /\ tun.closed

\* Kernel.Stop leaves no goroutine of the device behind (StoppedIsQuiet).
THEOREM StopLeavesNobody == Spec => []StoppedIsQuiet
<1>1. DeviceInv => StoppedIsQuiet
  BY DEF DeviceInv, DownInv, StoppedIsQuiet
<1> QED BY <1>1, DeviceInvariance, PTL
=============================================================================
