-------------------------------- MODULE Hub ---------------------------------
(***************************************************************************)
(* internal/proxy/hub.go: the scheduler of a started Hub.  One goroutine   *)
(* reads packets from the local listener and deals them out round-robin to *)
(* the queues of the ready streams; the tx goroutine of each stream sends  *)
(* them.  Packets travel in buffers of a pool (pool.go).  How streams      *)
(* become ready and stop being so is in Pump; here they go through         *)
(* StreamLife, which Pump implements.                                      *)
(***************************************************************************)
EXTENDS Integers, Sequences, FiniteSets

CONSTANTS
    N,        \* number of streams; their ids are 0 .. N - 1
    Cap,      \* capacity of stream.in
    Bufs,     \* buffers: a bound on how many are in use at a time
    Addrs,    \* addresses of local clients
    NoBuf, NoAddr  \* nil

ASSUME HubConstants ==
    /\ N \in Nat \ {0} /\ Cap \in Nat
    /\ NoBuf \notin Bufs /\ NoAddr \notin Addrs

VARIABLES
    ctx,      \* hubCtx
    conn,     \* localConn
    pool,     \* how many times each buffer is in packetPool, or new
    pc,       \* scheduleLoop
    buf, addr, lastUsed, i,  \* its locals
    in,       \* stream.in
    peer,     \* stream.peer
    ready,    \* stream.ready
    tx,       \* the tx goroutine of the stream's pump
    hand      \* the buffer it is sending

lifeVars == <<ctx, conn>>
schedVars == <<pc, buf, addr, lastUsed, i>>
streamVars == <<ready, tx>>
vars == <<lifeVars, pool, schedVars, in, peer, streamVars, hand>>

Streams == 0 .. N - 1

\* The fields of Hub and stream and the locals of scheduleLoop; a queue never
\* holds more than its capacity.
TypeOK ==
    /\ ctx \in {"live", "cancelled"} /\ conn \in {"open", "closed"}
    /\ pool \in [Bufs -> Nat]
    /\ pc \in {"top", "read", "scan", "handoff", "send", "done"}
    /\ buf \in Bufs \cup {NoBuf} /\ addr \in Addrs \cup {NoAddr}
    /\ lastUsed \in Streams /\ i \in Streams
    /\ in \in [Streams -> Seq(Bufs)] /\ \A s \in Streams : Len(in[s]) <= Cap
    /\ peer \in [Streams -> Addrs \cup {NoAddr}]
    /\ ready \in [Streams -> BOOLEAN] /\ tx \in [Streams -> {"off", "running", "done"}]
    /\ hand \in [Streams -> Bufs \cup {NoBuf}]

\* Start has bound the listener and started the streams and the scheduler.
Init ==
    /\ ctx = "live" /\ conn = "open"
    /\ pool = [b \in Bufs |-> 1]
    /\ pc = "top" /\ buf = NoBuf /\ addr = NoAddr /\ lastUsed = 0 /\ i = 0
    /\ in = [s \in Streams |-> <<>>]
    /\ peer = [s \in Streams |-> NoAddr]
    /\ ready = [s \in Streams |-> FALSE] /\ tx = [s \in Streams |-> "off"]
    /\ hand = [s \in Streams |-> NoBuf]

getBuf(b) == pool[b] > 0 /\ pool' = [pool EXCEPT ![b] = @ - 1]

putBuf(b) == pool' = [pool EXCEPT ![b] = @ + 1]

-----------------------------------------------------------------------------
(* scheduleLoop *)

\* The top of the loop: the context is tested and a buffer is taken.
Top ==
    /\ pc = "top" /\ ctx = "live"
    /\ \E b \in Bufs : getBuf(b) /\ buf' = b
    /\ pc' = "read"
    /\ UNCHANGED <<lifeVars, addr, lastUsed, i, in, peer, streamVars, hand>>

\* The context is cancelled.
TopDone ==
    /\ pc = "top" /\ ctx = "cancelled"
    /\ pc' = "done"
    /\ UNCHANGED <<lifeVars, pool, buf, addr, lastUsed, i, in, peer, streamVars, hand>>

\* Faulty variant: the search starts at the same stream every time.
AdvancedNot == lastUsed

\* Where the search for a ready stream starts.
Advanced == (lastUsed + 1) % N

\* ReadFrom returns a packet from a local client.
Read(a) ==
    /\ pc = "read" /\ conn = "open"
    /\ addr' = a /\ lastUsed' = Advanced /\ i' = 0
    /\ pc' = "scan"
    /\ UNCHANGED <<lifeVars, pool, buf, in, peer, streamVars, hand>>

\* ReadFrom fails, as it must when the listener is closed.
ReadFails ==
    /\ pc = "read"
    /\ putBuf(buf) /\ buf' = NoBuf
    /\ pc' = "done"
    /\ UNCHANGED <<lifeVars, addr, lastUsed, i, in, peer, streamVars, hand>>

\* The stream the search is at.
Candidate == (lastUsed + i) % N

\* It is ready: it is chosen.
ScanFound ==
    /\ pc = "scan" /\ ready[Candidate]
    /\ pc' = "handoff"
    /\ UNCHANGED <<lifeVars, pool, buf, addr, lastUsed, i, in, peer, streamVars, hand>>

\* It is not, and there are more.
ScanNext ==
    /\ pc = "scan" /\ ~ready[Candidate] /\ i < N - 1
    /\ i' = i + 1
    /\ UNCHANGED <<lifeVars, pool, pc, buf, addr, lastUsed, in, peer, streamVars, hand>>

\* The loop goes on without the buffer.
Again == pc' = "top" /\ buf' = NoBuf /\ addr' = NoAddr /\ i' = 0

\* No stream is ready: the packet is dropped.
ScanNone ==
    /\ pc = "scan" /\ ~ready[Candidate] /\ i = N - 1
    /\ putBuf(buf) /\ Again
    /\ UNCHANGED <<lifeVars, lastUsed, in, peer, streamVars, hand>>

\* Faulty variant: the return address is not remembered.
StorePeerNot ==
    /\ pc = "handoff"
    /\ pc' = "send"
    /\ UNCHANGED <<lifeVars, pool, buf, addr, lastUsed, i, in, peer, streamVars, hand>>

\* The return address is remembered.
StorePeer ==
    /\ pc = "handoff"
    /\ peer' = [peer EXCEPT ![Candidate] = addr]
    /\ pc' = "send"
    /\ UNCHANGED <<lifeVars, pool, buf, addr, lastUsed, i, in, streamVars, hand>>

\* The send on the chosen stream's queue.
Send ==
    /\ pc = "send" /\ Len(in[Candidate]) < Cap
    /\ in' = [in EXCEPT ![Candidate] = Append(@, buf)]
    /\ Again
    /\ UNCHANGED <<lifeVars, pool, lastUsed, peer, streamVars, hand>>

\* Faulty variant: there is no default case, the send blocks.
SendBlocks == FALSE /\ UNCHANGED vars

\* Faulty variant: the buffer of a dropped packet is forgotten.
SendDropsBuf ==
    /\ pc = "send" /\ Len(in[Candidate]) >= Cap
    /\ Again
    /\ UNCHANGED <<lifeVars, pool, lastUsed, in, peer, streamVars, hand>>

\* The default case: the queue is full and the packet is dropped.
SendDrops ==
    /\ pc = "send" /\ Len(in[Candidate]) >= Cap
    /\ putBuf(buf) /\ Again
    /\ UNCHANGED <<lifeVars, lastUsed, in, peer, streamVars, hand>>

-----------------------------------------------------------------------------
(* The tx goroutine of the pump of stream s *)

\* A packet is taken from the queue.
TxTake(s) ==
    /\ tx[s] = "running" /\ hand[s] = NoBuf /\ in[s] # <<>>
    /\ hand' = [hand EXCEPT ![s] = Head(in[s])]
    /\ in' = [in EXCEPT ![s] = Tail(@)]
    /\ UNCHANGED <<lifeVars, pool, schedVars, peer, streamVars>>

\* It is written, and its buffer goes back.
TxWrite(s) ==
    /\ tx[s] = "running" /\ hand[s] # NoBuf
    /\ putBuf(hand[s]) /\ hand' = [hand EXCEPT ![s] = NoBuf]
    /\ UNCHANGED <<lifeVars, schedVars, in, peer, streamVars>>

\* The write fails, or the watchdog finds that nothing came back for too long.
TxFails(s) ==
    /\ tx[s] = "running" /\ hand[s] # NoBuf
    /\ putBuf(hand[s]) /\ hand' = [hand EXCEPT ![s] = NoBuf]
    /\ tx' = [tx EXCEPT ![s] = "done"]
    /\ UNCHANGED <<lifeVars, schedVars, in, peer, ready>>

\* The pump's context is cancelled.
TxDone(s) ==
    /\ tx[s] = "running" /\ hand[s] = NoBuf
    /\ tx' = [tx EXCEPT ![s] = "done"]
    /\ UNCHANGED <<lifeVars, pool, schedVars, in, peer, ready, hand>>

\* The rest of StreamLife; packets left in the queue stay there.
StreamStep(s) ==
    /\ \/ tx[s] = "off" /\ tx' = [tx EXCEPT ![s] = "running"] /\ UNCHANGED ready
       \/ ~ready[s] /\ ready' = [ready EXCEPT ![s] = TRUE] /\ UNCHANGED tx
       \/ ready[s] /\ tx[s] = "done" /\ ready' = [ready EXCEPT ![s] = FALSE] /\ UNCHANGED tx
       \/ ~ready[s] /\ tx[s] = "done" /\ tx' = [tx EXCEPT ![s] = "off"] /\ UNCHANGED ready
    /\ UNCHANGED <<lifeVars, pool, schedVars, in, peer, hand>>

-----------------------------------------------------------------------------
\* Stop, or the cancellation of the context given to Start.
Cancel ==
    /\ ctx = "live" /\ ctx' = "cancelled"
    /\ UNCHANGED <<conn, pool, schedVars, in, peer, streamVars, hand>>

\* The function registered with AfterFunc closes the listener.
CloseConn ==
    /\ ctx = "cancelled" /\ conn = "open"
    /\ conn' = "closed"
    /\ UNCHANGED <<ctx, pool, schedVars, in, peer, streamVars, hand>>

\* The scheduler's own steps, other than receiving a packet.
SchedStep ==
    \/ Top \/ TopDone \/ ScanFound \/ ScanNext \/ ScanNone \/ StorePeer \/ Send \/ SendDrops

TxStep(s) == TxTake(s) \/ TxWrite(s) \/ TxFails(s) \/ TxDone(s)

Next ==
    \/ SchedStep \/ ReadFails \/ Cancel \/ CloseConn
    \/ \E a \in Addrs : Read(a)
    \/ \E s \in Streams : TxStep(s) \/ StreamStep(s)

Spec == Init /\ [][Next]_vars

-----------------------------------------------------------------------------
\* Places in the queue of stream s where buffer b is.
Queued(s, b) == {k \in DOMAIN in[s] : in[s][k] = b}

\* pool.go getBuf and putBuf: a buffer is held once or is in the pool once: it is
\* never put back twice, used after it was put back, or lost on a drop path.
BuffersOwned ==
    \A b \in Bufs :
        LET held == {s \in Streams : hand[s] = b}
            queued == {s \in Streams : Queued(s, b) # {}}
        IN  /\ pool[b] + Cardinality(held) + Cardinality(queued) = IF buf = b THEN 0 ELSE 1
            /\ \A s \in queued : Cardinality(Queued(s, b)) = 1

\* scheduleLoop, rx: a stream that has been given a packet knows where to send the
\* answer, so no answer is dropped for want of an address.
AnswersHaveAddress ==
    \A s \in Streams : in[s] # <<>> \/ hand[s] # NoBuf => peer[s] # NoAddr

\* scheduleLoop: with a packet in hand the scheduler can always go on, whatever the
\* streams do, so a wedged stream does not hold up the others, and once the
\* listener is closed it cannot stay in ReadFrom either.
SchedulerNeverWaits ==
    /\ pc \notin {"top", "read", "done"} => ENABLED SchedStep
    /\ pc = "read" /\ ctx = "cancelled" => ENABLED (CloseConn \/ (conn = "closed" /\ ReadFails))
=============================================================================
