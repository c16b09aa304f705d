------------------------------ MODULE HubProofs ------------------------------
(***************************************************************************)
(* Theorems about Hub for every number of streams, every capacity of their *)
(* queues, every set of buffers and every set of local clients.            *)
(***************************************************************************)
EXTENDS MCHub, FiniteSetTheorems, TLAPS

-----------------------------------------------------------------------------
(* The remainders in scheduleLoop.                                           *)

\* idx is the id of a stream: (lastUsed + i) % N of hub.go.
LEMMA Modulo == \A x \in Nat : x % N \in Streams
  BY HubConstants DEF Streams

\* Below N the remainder does nothing.
LEMMA ModuloSmall == \A x \in Streams : x % N = x
  BY HubConstants DEF Streams

\* The search that starts after the last stream starts at the first.
LEMMA ModuloWraps == N % N = 0
  BY HubConstants
-----------------------------------------------------------------------------
(* The inductive invariant.                                                  *)

\* Buffer b waits in the queue of a stream.
InQueue(b) == \E s \in Streams : \E k \in DOMAIN in[s] : in[s][k] = b

\* Every buffer has one place: the pool, the scheduler's local, the hand of one tx
\* goroutine, or one place of one queue.
OnePlace ==
    /\ \A b \in Bufs : pool[b] \in {0, 1}
    /\ buf = NoBuf <=> pc \in {"top", "done"}
    /\ buf # NoBuf => /\ pool[buf] = 0 /\ ~InQueue(buf)
                      /\ \A s \in Streams : hand[s] # buf
    /\ \A s \in Streams : hand[s] # NoBuf =>
          /\ pool[hand[s]] = 0 /\ ~InQueue(hand[s])
          /\ \A t \in Streams : hand[t] = hand[s] => t = s
    /\ \A s \in Streams : \A k \in DOMAIN in[s] :
          /\ pool[in[s][k]] = 0
          /\ \A t \in Streams : \A l \in DOMAIN in[t] : in[t][l] = in[s][k] => t = s /\ l = k
    /\ \A b \in Bufs : pool[b] = 0 =>
          buf = b \/ InQueue(b) \/ \E s \in Streams : hand[s] = b

\* A packet on its way to a stream has a sender, and the sender is stored before the
\* packet is queued.
SenderKnown ==
    /\ pc \in {"scan", "handoff", "send"} => addr # NoAddr
    /\ pc = "send" => peer[Candidate] # NoAddr
    /\ AnswersHaveAddress

IInv == TypeOK /\ OnePlace /\ SenderKnown

\* How far the search has moved on since the watched stream, which comes last, was
\* chosen or became ready; when the search starts at it, it is chosen at once.
PassedInv ==
    /\ passed \in Nat
    /\ passed > 0 => ready[Watched]
    /\ passed <= lastUsed + 1
    /\ passed > 0 /\ lastUsed = Watched => pc = "scan" /\ i = 0

\* A new hub satisfies the invariant.
LEMMA InitInv == Init => IInv
<1> SUFFICES ASSUME Init PROVE IInv
  OBVIOUS
<1>1. TypeOK
  BY HubConstants DEF Init, TypeOK, Streams
<1>2. OnePlace
  BY HubConstants DEF Init, OnePlace, InQueue
<1>3. SenderKnown
  BY DEF Init, SenderKnown, AnswersHaveAddress
<1> QED BY <1>1, <1>2, <1>3 DEF IInv

\* The search is at a stream.
LEMMA CandidateType == TypeOK => Candidate \in Streams /\ Advanced \in Streams
<1> SUFFICES ASSUME TypeOK PROVE Candidate \in Streams /\ Advanced \in Streams
  OBVIOUS
<1>1. lastUsed + i \in Nat /\ lastUsed + 1 \in Nat
  BY HubConstants DEF TypeOK, Streams
<1> QED BY <1>1, Modulo DEF Candidate, Advanced
-----------------------------------------------------------------------------
(* Every step keeps the types.                                               *)

\* The fields of Hub and stream and the locals of scheduleLoop keep their types.
LEMMA TypePreserved == IInv /\ [Next]_vars => TypeOK'
<1> SUFFICES ASSUME IInv, [Next]_vars PROVE TypeOK'
  OBVIOUS
<1> USE DEF lifeVars, schedVars, streamVars
<1>0. TypeOK /\ Candidate \in Streams /\ Advanced \in Streams /\ 0 \in Streams
  BY CandidateType, HubConstants DEF IInv, Streams
<1>1. CASE Top
  BY <1>0, <1>1 DEF TypeOK, Top, getBuf
<1>2. CASE TopDone
  BY <1>0, <1>2 DEF TypeOK, TopDone
<1>3. ASSUME NEW a \in Addrs, Read(a) PROVE TypeOK'
  BY <1>0, <1>3 DEF TypeOK, Read
<1>4. pc \notin {"top", "done"} => buf \in Bufs
  BY <1>0 DEF IInv, OnePlace, TypeOK
<1>5. ASSUME pc \notin {"top", "done"}, putBuf(buf) PROVE pool' \in [Bufs -> Nat]
  BY <1>0, <1>4, <1>5 DEF TypeOK, putBuf
<1>6. CASE ReadFails
  BY <1>0, <1>5, <1>6 DEF TypeOK, ReadFails
<1>7. CASE ScanFound
  BY <1>0, <1>7 DEF TypeOK, ScanFound
<1>8. CASE ScanNext
  <2>1. i' \in Streams
    BY <1>0, <1>8, HubConstants DEF TypeOK, ScanNext, Streams
  <2> QED BY <1>0, <1>8, <2>1 DEF TypeOK, ScanNext
<1>9. CASE ScanNone
  BY <1>0, <1>5, <1>9 DEF TypeOK, ScanNone, Again
<1>10. CASE StorePeer
  BY <1>0, <1>10 DEF TypeOK, StorePeer
<1>11. CASE Send
  <2>1. buf \in Bufs /\ in[Candidate] \in Seq(Bufs)
    BY <1>0, <1>4, <1>11 DEF TypeOK, Send
  <2>2. /\ in' = [in EXCEPT ![Candidate] = Append(in[Candidate], buf)]
        /\ Append(in[Candidate], buf) \in Seq(Bufs) /\ Len(Append(in[Candidate], buf)) <= Cap
    BY <1>11, <2>1, HubConstants DEF Send
  <2>3. in' \in [Streams -> Seq(Bufs)] /\ \A s \in Streams : Len(in'[s]) <= Cap
    BY <1>0, <2>2 DEF TypeOK
  <2> QED BY <1>0, <1>11, <2>3 DEF TypeOK, Send, Again
<1>12. CASE SendDrops
  BY <1>0, <1>5, <1>12 DEF TypeOK, SendDrops, Again
<1>13. ASSUME NEW s \in Streams, TxTake(s) PROVE TypeOK'
  <2>1. /\ Head(in[s]) \in Bufs /\ Tail(in[s]) \in Seq(Bufs) /\ Len(Tail(in[s])) <= Cap
        /\ hand' = [hand EXCEPT ![s] = Head(in[s])] /\ in' = [in EXCEPT ![s] = Tail(in[s])]
    BY <1>0, <1>13, HubConstants DEF TypeOK, TxTake
  <2>2. in' \in [Streams -> Seq(Bufs)] /\ \A t \in Streams : Len(in'[t]) <= Cap
    BY <1>0, <2>1 DEF TypeOK
  <2> QED BY <1>0, <1>13, <2>1, <2>2 DEF TypeOK, TxTake
<1>14. ASSUME NEW s \in Streams, hand[s] # NoBuf, putBuf(hand[s])
       PROVE  pool' \in [Bufs -> Nat]
  BY <1>0, <1>14 DEF TypeOK, putBuf
<1>15. ASSUME NEW s \in Streams, TxWrite(s) PROVE TypeOK'
  BY <1>0, <1>14, <1>15 DEF TypeOK, TxWrite
<1>16. ASSUME NEW s \in Streams, TxFails(s) PROVE TypeOK'
  BY <1>0, <1>14, <1>16 DEF TypeOK, TxFails
<1>17. ASSUME NEW s \in Streams, TxDone(s) PROVE TypeOK'
  BY <1>0, <1>17 DEF TypeOK, TxDone
<1>18. ASSUME NEW s \in Streams, StreamStep(s) PROVE TypeOK'
  BY <1>0, <1>18, Zenon DEF TypeOK, StreamStep
<1>19. CASE Cancel
  BY <1>0, <1>19 DEF TypeOK, Cancel
<1>20. CASE CloseConn
  BY <1>0, <1>20 DEF TypeOK, CloseConn
<1>21. CASE UNCHANGED vars
  BY <1>0, <1>21 DEF TypeOK, vars
<1> QED BY <1>1, <1>2, <1>3, <1>6, <1>7, <1>8, <1>9, <1>10, <1>11, <1>12, <1>13, <1>15,
           <1>16, <1>17, <1>18, <1>19, <1>20, <1>21 DEF Next, SchedStep, TxStep
-----------------------------------------------------------------------------
(* Every step keeps each buffer in one place.                                *)

\* A send on a channel of Go puts the value behind the others.
LEMMA AppendAt ==
    ASSUME NEW S, NEW q \in Seq(S), NEW e \in S
    PROVE  /\ DOMAIN q = 1 .. Len(q) /\ DOMAIN Append(q, e) = 1 .. Len(q) + 1 /\ Len(q) \in Nat
           /\ \A k \in DOMAIN q : Append(q, e)[k] = q[k]
           /\ Append(q, e)[Len(q) + 1] = e
  OBVIOUS

\* A receive takes the first value.
LEMMA TailAt ==
    ASSUME NEW S, NEW q \in Seq(S), q # <<>>
    PROVE  /\ DOMAIN q = 1 .. Len(q) /\ DOMAIN Tail(q) = 1 .. Len(q) - 1 /\ Len(q) \in Nat \ {0}
           /\ \A k \in DOMAIN Tail(q) : Tail(q)[k] = q[k + 1]
  OBVIOUS

\* The scheduler lets go of its buffer on a path that drops the packet: putBuf.
LEMMA DropKeepsPlace ==
    ASSUME TypeOK, OnePlace, pc \notin {"top", "done"}, pc' \in {"top", "done"},
           putBuf(buf), buf' = NoBuf, UNCHANGED <<in, hand>>
    PROVE  OnePlace'
<1>0. buf \in Bufs /\ pool[buf] = 0
  BY DEF TypeOK, OnePlace
<1>1. buf \in Bufs /\ pool' = [pool EXCEPT ![buf] = 1]
  BY <1>0 DEF putBuf
<1>2. \A b \in Bufs : pool'[b] = IF b = buf THEN 1 ELSE pool[b]
  BY <1>1 DEF TypeOK
<1>3. \A b \in Bufs : InQueue(b)' <=> InQueue(b)
  BY DEF InQueue
<1>4. \A s \in Streams : hand'[s] = hand[s] /\ in'[s] = in[s] /\ hand[s] \in Bufs \cup {NoBuf}
  BY DEF TypeOK
<1>5. \A s \in Streams : \A k \in DOMAIN in[s] : in[s][k] \in Bufs /\ in[s][k] # buf
  BY <1>1, HubConstants DEF OnePlace, TypeOK, InQueue
<1>6. \A s \in Streams : hand[s] # buf
  BY <1>1, HubConstants DEF OnePlace
<1> QED BY <1>1, <1>2, <1>3, <1>4, <1>5, <1>6, HubConstants DEF OnePlace

\* A tx goroutine is done with its buffer: putBuf.
LEMMA TxKeepsPlace ==
    ASSUME TypeOK, OnePlace, NEW s \in Streams, hand[s] # NoBuf, putBuf(hand[s]),
           hand' = [hand EXCEPT ![s] = NoBuf], UNCHANGED <<in, schedVars>>
    PROVE  OnePlace'
<1> DEFINE h == hand[s]
<1>0. h \in Bufs /\ pool[h] = 0 /\ hand[s] = h
  BY DEF TypeOK, OnePlace
<1>1. h \in Bufs /\ pool' = [pool EXCEPT ![h] = 1]
  BY <1>0 DEF putBuf
<1>2. \A b \in Bufs : pool'[b] = IF b = h THEN 1 ELSE pool[b]
  BY <1>1 DEF TypeOK
<1>3. \A b \in Bufs : InQueue(b)' <=> InQueue(b)
  BY DEF InQueue
<1>4. \A t \in Streams : hand'[t] = IF t = s THEN NoBuf ELSE hand[t]
  BY DEF TypeOK
<1>5. \A t \in Streams : hand[t] \in Bufs \cup {NoBuf} /\ in'[t] = in[t] /\ (hand[t] = h => t = s)
  BY DEF TypeOK, OnePlace
<1>6. \A t \in Streams : \A k \in DOMAIN in[t] : in[t][k] \in Bufs /\ in[t][k] # h
  BY <1>1, HubConstants DEF OnePlace, TypeOK, InQueue
<1>7. buf # h /\ buf' = buf /\ pc' = pc /\ buf \in Bufs \cup {NoBuf}
  BY <1>1, HubConstants DEF OnePlace, schedVars, TypeOK
<1> HIDE DEF h
<1>8. \A t \in Streams : \A k \in DOMAIN in'[t] :
          /\ pool'[in'[t][k]] = 0
          /\ \A u \in Streams : \A l \in DOMAIN in'[u] : in'[u][l] = in'[t][k] => u = t /\ l = k
  BY <1>2, <1>5, <1>6 DEF OnePlace
<1>9. \A t \in Streams : hand'[t] # NoBuf =>
          /\ pool'[hand'[t]] = 0 /\ ~InQueue(hand[t])'
          /\ \A u \in Streams : hand'[u] = hand'[t] => u = t
  BY <1>2, <1>3, <1>4, <1>5 DEF OnePlace
<1>10. buf' # NoBuf => /\ pool'[buf'] = 0 /\ ~InQueue(buf)'
                       /\ \A t \in Streams : hand'[t] # buf'
  BY <1>2, <1>3, <1>4, <1>7 DEF OnePlace
<1>11. \A b \in Bufs : pool'[b] = 0 =>
          buf' = b \/ InQueue(b)' \/ \E t \in Streams : hand'[t] = b
  BY <1>0, <1>2, <1>3, <1>4, <1>7 DEF OnePlace
<1>12. \A b \in Bufs : pool'[b] \in {0, 1}
  BY <1>2 DEF OnePlace
<1>13. buf' = NoBuf <=> pc' \in {"top", "done"}
  BY <1>7 DEF OnePlace
<1> QED BY <1>8, <1>9, <1>10, <1>11, <1>12, <1>13 DEF OnePlace

\* A packet goes from the scheduler into a queue.
LEMMA SendKeepsPlace ==
    ASSUME TypeOK, OnePlace, Send
    PROVE  OnePlace'
<1> DEFINE c == Candidate
<1>1. c \in Streams /\ buf \in Bufs /\ in[c] \in Seq(Bufs)
  BY CandidateType DEF TypeOK, OnePlace, Send
<1>2. /\ in' = [in EXCEPT ![c] = Append(in[c], buf)] /\ buf' = NoBuf /\ pc' = "top"
      /\ pool' = pool /\ hand' = hand
  BY DEF Send, Again
<1> HIDE DEF c
<1>3. \A t \in Streams : in'[t] = IF t = c THEN Append(in[c], buf) ELSE in[t]
  BY <1>1, <1>2 DEF TypeOK
<1>a. /\ DOMAIN in[c] = 1 .. Len(in[c]) /\ DOMAIN in'[c] = 1 .. Len(in[c]) + 1
      /\ Len(in[c]) \in Nat
      /\ \A k \in DOMAIN in[c] : in'[c][k] = in[c][k]
      /\ in'[c][Len(in[c]) + 1] = buf
  <2>1. in'[c] = Append(in[c], buf)
    BY <1>1, <1>3, Zenon
  <2> QED BY <1>1, <2>1, AppendAt
<1>4. \A t \in Streams : \A k \in DOMAIN in'[t] :
          \/ k \in DOMAIN in[t] /\ in'[t][k] = in[t][k] /\ in[t][k] # buf
          \/ t = c /\ k = Len(in[c]) + 1 /\ in'[t][k] = buf
  <2> SUFFICES ASSUME NEW t \in Streams, NEW k \in DOMAIN in'[t]
               PROVE  \/ k \in DOMAIN in[t] /\ in'[t][k] = in[t][k] /\ in[t][k] # buf
                      \/ t = c /\ k = Len(in[c]) + 1 /\ in'[t][k] = buf
    OBVIOUS
  <2>1. \A u \in Streams : \A l \in DOMAIN in[u] : in[u][l] # buf
    BY <1>1, HubConstants DEF OnePlace, InQueue
  <2>2. CASE t # c
    BY <1>3, <2>1, <2>2
  <2>3. CASE t = c
    BY <1>a, <2>1, <2>3
  <2> QED BY <2>2, <2>3
<1>5. \A t \in Streams : \A k \in DOMAIN in[t] : k \in DOMAIN in'[t] /\ in'[t][k] = in[t][k]
  <2> SUFFICES ASSUME NEW t \in Streams, NEW k \in DOMAIN in[t]
               PROVE  k \in DOMAIN in'[t] /\ in'[t][k] = in[t][k]
    OBVIOUS
  <2>1. CASE t # c
    BY <1>3, <2>1
  <2>2. CASE t = c
    BY <1>a, <2>2
  <2> QED BY <2>1, <2>2
<1>6. Len(in[c]) + 1 \in DOMAIN in'[c] /\ in'[c][Len(in[c]) + 1] = buf
  BY <1>a
<1>7. \A b \in Bufs : InQueue(b)' <=> InQueue(b) \/ b = buf
  BY <1>1, <1>4, <1>5, <1>6 DEF InQueue
<1>8. \A s \in Streams : hand[s] \in Bufs \cup {NoBuf} /\ hand[s] # buf
  BY <1>1, HubConstants DEF TypeOK, OnePlace
<1>9. \A s \in Streams : \A k \in DOMAIN in'[s] :
          /\ pool'[in'[s][k]] = 0
          /\ \A t \in Streams : \A l \in DOMAIN in'[t] : in'[t][l] = in'[s][k] => t = s /\ l = k
  BY <1>1, <1>2, <1>4, HubConstants DEF OnePlace
<1>10. \A s \in Streams : hand'[s] # NoBuf =>
          /\ pool'[hand'[s]] = 0 /\ ~InQueue(hand[s])'
          /\ \A t \in Streams : hand'[t] = hand'[s] => t = s
  BY <1>2, <1>7, <1>8 DEF OnePlace
<1>11. \A b \in Bufs : pool'[b] = 0 => InQueue(b)' \/ \E s \in Streams : hand'[s] = b
  BY <1>2, <1>7 DEF OnePlace
<1> QED BY <1>2, <1>9, <1>10, <1>11 DEF OnePlace, InQueue

\* A packet goes from a queue into the hand of the stream's tx goroutine.
LEMMA TakeKeepsPlace ==
    ASSUME TypeOK, OnePlace, NEW s \in Streams, TxTake(s)
    PROVE  OnePlace'
<1> DEFINE h == Head(in[s])
<1>1. in[s] \in Seq(Bufs) /\ in[s] # <<>> /\ h \in Bufs /\ hand[s] = NoBuf
  BY DEF TypeOK, TxTake
<1>2. /\ in' = [in EXCEPT ![s] = Tail(in[s])] /\ hand' = [hand EXCEPT ![s] = h]
      /\ buf' = buf /\ pc' = pc /\ pool' = pool
  BY DEF TxTake, schedVars
<1>3. 1 \in DOMAIN in[s] /\ in[s][1] = h
  BY <1>1
<1> HIDE DEF h
<1>4. \A t \in Streams : /\ in'[t] = IF t = s THEN Tail(in[s]) ELSE in[t]
                         /\ hand'[t] = IF t = s THEN h ELSE hand[t]
  BY <1>2 DEF TypeOK
<1>a. /\ DOMAIN in[s] = 1 .. Len(in[s]) /\ DOMAIN in'[s] = 1 .. Len(in[s]) - 1
      /\ Len(in[s]) \in Nat \ {0}
      /\ \A k \in DOMAIN in'[s] : in'[s][k] = in[s][k + 1]
  <2>1. in'[s] = Tail(in[s])
    BY <1>4
  <2> QED BY <1>1, <2>1, TailAt
<1>5. \A k \in DOMAIN in'[s] : k + 1 \in DOMAIN in[s] /\ k + 1 # 1 /\ in'[s][k] = in[s][k + 1]
  BY <1>a
<1>6. \A k \in DOMAIN in[s] : k # 1 => k - 1 \in DOMAIN in'[s] /\ in'[s][k - 1] = in[s][k]
  BY <1>a
<1>7. \A k, l \in DOMAIN in'[s] : k + 1 = l + 1 => k = l
  BY <1>a
<1>8. \A t \in Streams : \A k \in DOMAIN in'[t] : in'[t][k] # h
  BY <1>3, <1>4, <1>5 DEF OnePlace
<1>9. \A b : InQueue(b)' <=> InQueue(b) /\ b # h
  <2> SUFFICES ASSUME NEW b PROVE InQueue(b)' <=> InQueue(b) /\ b # h
    OBVIOUS
  <2>1. ASSUME InQueue(b)' PROVE InQueue(b) /\ b # h
    BY <1>4, <1>5, <1>8, <2>1 DEF InQueue
  <2>2. ASSUME InQueue(b), b # h PROVE InQueue(b)'
    BY <1>3, <1>4, <1>6, <2>2 DEF InQueue
  <2> QED BY <2>1, <2>2
<1>10. InQueue(h) /\ pool[h] = 0
  BY <1>3 DEF InQueue, OnePlace
<1>11. buf # h /\ \A t \in Streams : hand[t] # h
  BY <1>1, <1>10, HubConstants DEF OnePlace, TypeOK
<1>12. \A t \in Streams : \A k \in DOMAIN in'[t] :
          /\ pool'[in'[t][k]] = 0
          /\ \A u \in Streams : \A l \in DOMAIN in'[u] : in'[u][l] = in'[t][k] => u = t /\ l = k
  BY <1>2, <1>4, <1>5, <1>7 DEF OnePlace
<1>13. \A t \in Streams : hand'[t] # NoBuf =>
          /\ pool'[hand'[t]] = 0 /\ ~InQueue(hand[t])'
          /\ \A u \in Streams : hand'[u] = hand'[t] => u = t
  BY <1>2, <1>4, <1>9, <1>10, <1>11 DEF OnePlace
<1>14. buf' # NoBuf => /\ pool'[buf'] = 0 /\ ~InQueue(buf)'
                       /\ \A t \in Streams : hand'[t] # buf'
  BY <1>2, <1>4, <1>9, <1>11 DEF OnePlace
<1>15. \A b \in Bufs : pool'[b] = 0 =>
          buf' = b \/ InQueue(b)' \/ \E t \in Streams : hand'[t] = b
  BY <1>1, <1>2, <1>4, <1>9, HubConstants DEF OnePlace
<1> QED BY <1>2, <1>12, <1>13, <1>14, <1>15 DEF OnePlace, InQueue

\* No step loses a buffer or gives it a second place: getBuf takes it out of the pool,
\* and every path of scheduleLoop and of tx puts it back once or passes it on.
LEMMA PlacePreserved == IInv /\ [Next]_vars => OnePlace'
<1> SUFFICES ASSUME IInv, [Next]_vars PROVE OnePlace'
  OBVIOUS
<1> USE DEF lifeVars, schedVars, streamVars
<1>0. TypeOK /\ OnePlace
  BY DEF IInv
<1>1. CASE Top
  <2>1. PICK b \in Bufs : pool[b] > 0 /\ pool' = [pool EXCEPT ![b] = @ - 1] /\ buf' = b
    BY <1>1, Zenon DEF Top, getBuf
  <2>a. pool[b] \in {0, 1}
    BY <1>0, <2>1 DEF OnePlace
  <2>b. pool[b] = 1 /\ pool[b] - 1 = 0
    BY <2>1, <2>a
  <2>2. pool[b] = 1 /\ pool' = [pool EXCEPT ![b] = 0]
    BY <2>1, <2>b
  <2>3. \A c \in Bufs : pool'[c] = IF c = b THEN 0 ELSE pool[c]
    BY <1>0, <2>2 DEF TypeOK
  <2>4. /\ buf = NoBuf /\ pc' = "read" /\ in' = in /\ hand' = hand
        /\ \A c : InQueue(c)' <=> InQueue(c)
    BY <1>0, <1>1 DEF Top, OnePlace, InQueue
  <2>5. ~InQueue(b) /\ \A s \in Streams : hand[s] # b
    BY <1>0, <2>1, <2>2, HubConstants DEF OnePlace, InQueue
  <2>6. \A s \in Streams : \A k \in DOMAIN in[s] : in[s][k] \in Bufs
    BY <1>0 DEF TypeOK
  <2>7. \A s \in Streams : hand[s] \in Bufs \cup {NoBuf}
    BY <1>0 DEF TypeOK
  <2> QED BY <1>0, <2>1, <2>3, <2>4, <2>5, <2>6, <2>7, HubConstants DEF OnePlace
<1>2. CASE ReadFails
  BY <1>0, <1>2, DropKeepsPlace DEF ReadFails
<1>3. CASE ScanNone
  BY <1>0, <1>3, DropKeepsPlace DEF ScanNone, Again
<1>4. CASE SendDrops
  BY <1>0, <1>4, DropKeepsPlace DEF SendDrops, Again
<1>5. CASE Send
  BY <1>0, <1>5, SendKeepsPlace
<1>6. ASSUME NEW s \in Streams, TxTake(s) PROVE OnePlace'
  BY <1>0, <1>6, TakeKeepsPlace
<1>7. ASSUME NEW s \in Streams, TxWrite(s) \/ TxFails(s) PROVE OnePlace'
  BY <1>0, <1>7, TxKeepsPlace DEF TxWrite, TxFails
<1>8. ASSUME UNCHANGED <<pool, buf, in, hand>>,
             pc' \in {"top", "done"} <=> pc \in {"top", "done"}
      PROVE  OnePlace'
  BY <1>0, <1>8 DEF OnePlace, InQueue
<1>9. CASE TopDone \/ ScanFound \/ ScanNext \/ StorePeer \/ Cancel \/ CloseConn \/ UNCHANGED vars
  BY <1>8, <1>9 DEF TopDone, ScanFound, ScanNext, StorePeer, Cancel, CloseConn, vars
<1>10. ASSUME NEW a \in Addrs, Read(a) PROVE OnePlace'
  BY <1>8, <1>10 DEF Read
<1>11. ASSUME NEW s \in Streams, TxDone(s) \/ StreamStep(s) PROVE OnePlace'
  BY <1>8, <1>11 DEF TxDone, StreamStep
<1> QED BY <1>1, <1>2, <1>3, <1>4, <1>5, <1>6, <1>7, <1>9, <1>10, <1>11
        DEF Next, SchedStep, TxStep
-----------------------------------------------------------------------------
(* Every step keeps the addresses, and the search fair.                      *)

\* The address of the last packet is stored before the packet is queued, and an
\* address is only ever replaced by another.
LEMMA SenderPreserved == IInv /\ [Next]_vars => SenderKnown'
<1> SUFFICES ASSUME IInv, [Next]_vars PROVE SenderKnown'
  OBVIOUS
<1> USE DEF lifeVars, schedVars, streamVars
<1>0. TypeOK /\ SenderKnown /\ Candidate \in Streams
  BY CandidateType DEF IInv
<1>1. ASSUME UNCHANGED <<peer, addr, lastUsed, i>>, pc' = pc,
             \A s \in Streams : in'[s] # <<>> \/ hand'[s] # NoBuf =>
                in[s] # <<>> \/ hand[s] # NoBuf
      PROVE  SenderKnown'
  BY <1>0, <1>1 DEF SenderKnown, AnswersHaveAddress, Candidate
<1>2. ASSUME UNCHANGED <<peer, in, hand>>, pc' \in {"top", "read", "done"} \/ (pc' = "scan" /\ addr' # NoAddr)
      PROVE  SenderKnown'
  BY <1>0, <1>2 DEF SenderKnown, AnswersHaveAddress
<1>3. CASE Top \/ TopDone \/ ReadFails \/ ScanNone \/ SendDrops
  BY <1>2, <1>3 DEF Top, TopDone, ReadFails, ScanNone, SendDrops, Again
<1>4. ASSUME NEW a \in Addrs, Read(a) PROVE SenderKnown'
  BY <1>2, <1>4, HubConstants DEF Read
<1>5. CASE ScanNext
  BY <1>0, <1>2, <1>5 DEF ScanNext, SenderKnown
<1>6. CASE ScanFound
  BY <1>0, <1>6 DEF ScanFound, SenderKnown, AnswersHaveAddress
<1>7. CASE StorePeer
  <2>1. /\ peer' = [peer EXCEPT ![Candidate] = addr] /\ addr # NoAddr
        /\ pc' = "send" /\ UNCHANGED <<addr, lastUsed, i, in, hand>>
    BY <1>0, <1>7 DEF StorePeer, SenderKnown
  <2>2. Candidate' = Candidate
    BY <2>1 DEF Candidate
  <2>3. \A s \in Streams : peer'[s] = IF s = Candidate THEN addr ELSE peer[s]
    BY <1>0, <2>1 DEF TypeOK
  <2> QED BY <1>0, <2>1, <2>2, <2>3 DEF SenderKnown, AnswersHaveAddress
<1>8. CASE Send
  <2>1. /\ pc' = "top" /\ peer' = peer /\ hand' = hand /\ peer[Candidate] # NoAddr
        /\ in' = [in EXCEPT ![Candidate] = Append(@, buf)]
    BY <1>0, <1>8 DEF Send, Again, SenderKnown
  <2>2. \A s \in Streams : s # Candidate => in'[s] = in[s]
    BY <1>0, <2>1 DEF TypeOK
  <2> QED BY <1>0, <2>1, <2>2 DEF SenderKnown, AnswersHaveAddress
<1>9. ASSUME NEW s \in Streams, TxTake(s) PROVE SenderKnown'
  BY <1>0, <1>1, <1>9 DEF TxTake, TypeOK
<1>10. ASSUME NEW s \in Streams, TxWrite(s) \/ TxFails(s) PROVE SenderKnown'
  BY <1>0, <1>1, <1>10 DEF TxWrite, TxFails, TypeOK
<1>11. ASSUME NEW s \in Streams, TxDone(s) \/ StreamStep(s) PROVE SenderKnown'
  BY <1>1, <1>11 DEF TxDone, StreamStep
<1>12. CASE Cancel \/ CloseConn \/ UNCHANGED vars
  BY <1>1, <1>12 DEF Cancel, CloseConn, vars
<1> QED BY <1>3, <1>4, <1>5, <1>6, <1>7, <1>8, <1>9, <1>10, <1>11, <1>12
        DEF Next, SchedStep, TxStep

\* While the watched stream is ready, a packet that is read brings the start of the
\* search one stream nearer to it, and the search that starts at it ends there.
LEMMA PassedPreserved ==
    IInv /\ PassedInv /\ [PassedNext]_<<vars, passed>> => PassedInv'
<1> SUFFICES ASSUME IInv, PassedInv, [PassedNext]_<<vars, passed>> PROVE PassedInv'
  OBVIOUS
<1> USE DEF lifeVars, schedVars, streamVars
<1>0. /\ lastUsed \in 0 .. N - 1 /\ i \in 0 .. N - 1 /\ N \in Nat \ {0}
      /\ passed \in Nat /\ Watched = N - 1 /\ Watched \in Streams
  BY HubConstants DEF IInv, TypeOK, PassedInv, Streams, Watched
<1>1. CASE UNCHANGED <<vars, passed>>
  BY <1>1 DEF PassedInv, vars
<1> SUFFICES ASSUME PassedNext PROVE PassedInv'
  BY <1>1
<1>2. CASE passed' = 0
  <2>1. TypeOK'
    BY TypePreserved DEF PassedNext
  <2>2. lastUsed' \in Nat
    BY <2>1, HubConstants DEF TypeOK, Streams
  <2>3. \A x \in Nat : 0 \in Nat /\ ~(0 > 0) /\ 0 <= x + 1
    OBVIOUS
  <2>4. passed' \in Nat /\ ~(passed' > 0) /\ passed' <= lastUsed' + 1
    BY <1>2, <2>2, <2>3, Zenon
  <2> QED BY <2>4 DEF PassedInv
<1> SUFFICES ASSUME passed' # 0 PROVE PassedInv'
  BY <1>2
<1>3. /\ ready[Watched] /\ ready'[Watched]
      /\ ~(pc' = "handoff" /\ Candidate = Watched)
      /\ passed' = IF pc = "read" /\ pc' = "scan" THEN passed + 1 ELSE passed
  BY DEF PassedNext
<1>4. ASSUME UNCHANGED <<lastUsed, i, pc>> PROVE PassedInv'
  <2>1. passed' = passed
    BY <1>3, <1>4
  <2> QED BY <1>3, <1>4, <2>1 DEF PassedInv, Watched
<1>5. ASSUME UNCHANGED lastUsed, pc # "read", pc # "scan" PROVE PassedInv'
  <2>1. passed' = passed
    BY <1>3, <1>5
  <2> QED BY <1>0, <1>3, <1>5, <2>1 DEF PassedInv, Watched
<1>6. ASSUME NEW a \in Addrs, Read(a) PROVE PassedInv'
  <2>1. /\ pc = "read" /\ pc' = "scan" /\ i' = 0 /\ lastUsed' = (lastUsed + 1) % N
        /\ passed' = passed + 1
    BY <1>3, <1>6 DEF Read, Advanced
  <2>2. CASE lastUsed = N - 1
    <3>1. passed = 0
      BY <1>0, <2>1, <2>2 DEF PassedInv
    <3>2. lastUsed' = 0
      BY <1>0, <2>1, <2>2, ModuloWraps
    <3> QED BY <1>0, <1>3, <2>1, <3>1, <3>2 DEF PassedInv, Watched
  <2>3. CASE lastUsed # N - 1
    <3>1. lastUsed + 1 \in Streams
      BY <1>0, <2>3 DEF Streams
    <3>2. lastUsed' = lastUsed + 1
      BY <2>1, <3>1, ModuloSmall
    <3> QED BY <1>0, <1>3, <2>1, <3>2 DEF PassedInv, Watched
  <2> QED BY <2>2, <2>3
<1>7. ASSUME pc = "scan", lastUsed = Watched, passed > 0 PROVE Candidate = Watched
  <2>1. i = 0
    BY <1>7 DEF PassedInv
  <2>2. Candidate = Watched % N
    BY <1>0, <1>7, <2>1 DEF Candidate
  <2> QED BY <1>0, <2>2, ModuloSmall
<1>8. ASSUME ScanFound PROVE PassedInv'
  <2>1. pc = "scan" /\ pc' = "handoff" /\ lastUsed' = lastUsed /\ passed' = passed
    BY <1>3, <1>8 DEF ScanFound
  <2>2. ~(passed > 0 /\ lastUsed = Watched)
    BY <1>3, <1>7, <2>1
  <2> QED BY <1>0, <1>3, <2>1, <2>2 DEF PassedInv, Watched
<1>9. ASSUME ScanNext \/ ScanNone PROVE PassedInv'
  <2>1. pc = "scan" /\ ~ready[Candidate] /\ lastUsed' = lastUsed /\ passed' = passed
    BY <1>3, <1>9 DEF ScanNext, ScanNone
  <2>2. ~(passed > 0 /\ lastUsed = Watched)
    BY <1>3, <1>7, <2>1
  <2> QED BY <1>0, <1>3, <2>1, <2>2 DEF PassedInv, Watched
<1>10. ASSUME ReadFails PROVE PassedInv'
  <2>1. pc = "read" /\ pc' = "done" /\ lastUsed' = lastUsed /\ passed' = passed
    BY <1>3, <1>10 DEF ReadFails
  <2> QED BY <1>0, <1>3, <2>1 DEF PassedInv, Watched
<1>11. CASE Top \/ TopDone \/ StorePeer \/ Send \/ SendDrops
  BY <1>5, <1>11 DEF Top, TopDone, StorePeer, Send, SendDrops
<1>12. CASE Cancel \/ CloseConn
  BY <1>4, <1>12 DEF Cancel, CloseConn
<1>13. ASSUME NEW s \in Streams, TxStep(s) \/ StreamStep(s) PROVE PassedInv'
  BY <1>4, <1>13 DEF TxStep, TxTake, TxWrite, TxFails, TxDone, StreamStep
<1> QED BY <1>6, <1>8, <1>9, <1>10, <1>11, <1>12, <1>13 DEF PassedNext, Next, SchedStep
-----------------------------------------------------------------------------
(* The theorems.                                                             *)

\* The invariant holds in every reachable state of the hub.
THEOREM Invariance == Spec => []IInv
<1>1. IInv /\ [Next]_vars => IInv'
  BY TypePreserved, PlacePreserved, SenderPreserved DEF IInv
<1> QED BY InitInv, <1>1, PTL DEF Spec

\* One place each, said in numbers: what BuffersOwned counts.
LEMMA OnePlaceCounts == TypeOK /\ OnePlace => BuffersOwned
<1> SUFFICES ASSUME TypeOK, OnePlace, NEW b \in Bufs
             PROVE  LET held == {s \in Streams : hand[s] = b}
                        queued == {s \in Streams : Queued(s, b) # {}}
                    IN  /\ pool[b] + Cardinality(held) + Cardinality(queued)
                             = IF buf = b THEN 0 ELSE 1
                        /\ \A s \in queued : Cardinality(Queued(s, b)) = 1
  BY DEF BuffersOwned
<1> DEFINE held == {s \in Streams : hand[s] = b}
           queued == {s \in Streams : Queued(s, b) # {}}
<1>1. pool[b] \in {0, 1} /\ b # NoBuf
  BY HubConstants DEF OnePlace
<1>2. held = {} \/ \E s \in Streams : held = {s} /\ hand[s] = b
  BY <1>1 DEF OnePlace
<1>3. queued = {} \/ \E s \in Streams : queued = {s}
  BY DEF OnePlace, Queued
<1>4. InQueue(b) <=> queued # {}
  BY DEF InQueue, Queued
<1>5. \A s \in queued : \E k : Queued(s, b) = {k}
  BY DEF OnePlace, Queued
<1>6. Cardinality({}) = 0 /\ \A x : Cardinality({x}) = 1
  BY FS_EmptySet, FS_Singleton, Zenon
<1>7. (\E s \in Streams : hand[s] = b) <=> held # {}
  OBVIOUS
<1>8. buf = b => pool[b] = 0 /\ held = {} /\ queued = {}
  BY <1>1, <1>4, <1>7 DEF OnePlace
<1>9. held # {} => pool[b] = 0 /\ queued = {}
  BY <1>1, <1>2, <1>4 DEF OnePlace
<1>10. queued # {} => pool[b] = 0
  BY <1>4 DEF InQueue, OnePlace
<1>11. pool[b] = 0 => buf = b \/ queued # {} \/ held # {}
  BY <1>4, <1>7 DEF OnePlace
<1>12. /\ held = {} => Cardinality(held) = 0
       /\ held # {} => Cardinality(held) = 1
       /\ queued = {} => Cardinality(queued) = 0
       /\ queued # {} => Cardinality(queued) = 1
       /\ \A s \in queued : Cardinality(Queued(s, b)) = 1
  BY <1>2, <1>3, <1>5, <1>6, Zenon
<1> HIDE DEF held, queued
<1>13. pool[b] + Cardinality(held) + Cardinality(queued) = IF buf = b THEN 0 ELSE 1
  BY <1>1, <1>8, <1>9, <1>10, <1>11, <1>12
<1> QED BY <1>12, <1>13 DEF held, queued

\* A buffer of packetPool is held once or is in the pool once, on every path of
\* scheduleLoop and of tx, whatever the streams do and when they stop.
THEOREM BuffersAreOwned == Spec => []BuffersOwned
<1>1. IInv => BuffersOwned
  BY OnePlaceCounts DEF IInv
<1> QED BY <1>1, Invariance, PTL

\* A stream that was given a packet knows the address for the answers: scheduleLoop
\* stores it before the send, and rx finds it.
THEOREM AnswersAreAddressed == Spec => []AnswersHaveAddress
<1>1. IInv => AnswersHaveAddress
  BY DEF IInv, SenderKnown
<1> QED BY <1>1, Invariance, PTL

\* The round-robin of scheduleLoop starves no stream: with N streams, one that stays
\* ready is chosen at least once in N packets.
THEOREM RoundRobin == PassedSpec => []NoStarvation
<1>1. PassedInit => IInv /\ PassedInv
  BY InitInv, HubConstants DEF PassedInit, Init, PassedInv
<1>2. [PassedNext]_<<vars, passed>> => [Next]_vars
  BY DEF PassedNext
<1>3. IInv /\ PassedInv /\ [PassedNext]_<<vars, passed>> => IInv' /\ PassedInv'
  BY <1>2, TypePreserved, PlacePreserved, SenderPreserved, PassedPreserved DEF IInv
<1>4. IInv /\ PassedInv => NoStarvation
  BY HubConstants DEF IInv, TypeOK, Streams, PassedInv, NoStarvation
<1> QED BY <1>1, <1>3, <1>4, PTL DEF PassedSpec
-----------------------------------------------------------------------------
(* The streams of the hub go through StreamLife, which Pump implements.      *)

\* Stream s as the rest of the hub sees it.
Life(s) == INSTANCE StreamLife WITH ready <- ready[s], tx <- tx[s]

\* What the hub takes a stream to do is what StreamLife allows, whatever the scheduler
\* and the other streams do meanwhile (runStream and the pumps of stream.go, dtls.go).
THEOREM StreamsFollowLife ==
    ASSUME NEW s \in Streams PROVE Spec => Life(s)!Spec
<1>1. Init => Life(s)!Init
  BY DEF Init, Life!Init
<1>2. IInv /\ [Next]_vars => [Life(s)!Next]_<<ready[s], tx[s]>>
  <2> SUFFICES ASSUME IInv, [Next]_vars PROVE [Life(s)!Next]_<<ready[s], tx[s]>>
    OBVIOUS
  <2> USE DEF lifeVars, schedVars, streamVars
  <2>0. ready \in [Streams -> BOOLEAN] /\ tx \in [Streams -> {"off", "running", "done"}]
    BY DEF IInv, TypeOK
  <2>1. ASSUME UNCHANGED <<ready, tx>> PROVE UNCHANGED <<ready[s], tx[s]>>
    BY <2>1
  <2>2. CASE SchedStep \/ ReadFails \/ Cancel \/ CloseConn \/ UNCHANGED vars
    BY <2>1, <2>2 DEF SchedStep, Top, TopDone, ScanFound, ScanNext, ScanNone, StorePeer, Send,
                      SendDrops, ReadFails, Cancel, CloseConn, vars
  <2>3. ASSUME NEW a \in Addrs, Read(a) PROVE UNCHANGED <<ready[s], tx[s]>>
    BY <2>1, <2>3 DEF Read
  <2>4. ASSUME NEW t \in Streams, TxStep(t) PROVE [Life(s)!Next]_<<ready[s], tx[s]>>
    BY <2>0, <2>4 DEF TxStep, TxTake, TxWrite, TxFails, TxDone, Life!Next, Life!TxEnd
  <2>5. ASSUME NEW t \in Streams, StreamStep(t) PROVE [Life(s)!Next]_<<ready[s], tx[s]>>
    BY <2>0, <2>5 DEF StreamStep, Life!Next, Life!TxStart, Life!Up, Life!Down, Life!Again
  <2> QED BY <2>2, <2>3, <2>4, <2>5 DEF Next
<1> QED BY <1>1, <1>2, Invariance, PTL DEF Spec, Life!Spec
=============================================================================
