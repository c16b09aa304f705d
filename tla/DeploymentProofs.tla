-------------------------- MODULE DeploymentProofs --------------------------
(***************************************************************************)
(* Theorems about Deployment for every set of operators and names, every   *)
(* size of the subnet and every set of files to start from.                *)
(***************************************************************************)
EXTENDS Deployment, SequenceTheorems, WellFoundedInduction, TLAPS

\* The provers a leaf that names none is tried with, in this order.
USE SMT, Zenon, Z3T(30)

-----------------------------------------------------------------------------
(* The client: what is on the host and what is owed.                         *)

\* The deferred calls of a run in the order in which they are registered.
Deferred == <<"chrome", "tunnel", "tun", "kernel", "link", "addr", "route">>

\* The stack of a run that has come to the n-th of them, with a Chrome of its own
\* (b = 1) or without (b = 2).
Stack(b, n) == SubSeq(Deferred, b, n)

\* What such a run has on the host.
Brought(b, n) ==
    {Deferred[k] : k \in b .. n} \cup (IF b = 1 /\ n >= 1 THEN {"dataDir"} ELSE {})

\* How far a run is when it comes to a stage.
Reached(n) ==
    CASE step \in {"idle", "chrome", "wait", "tunnel"} -> n <= 1
      [] step = "tun" -> n = 2
      [] step = "kernel" -> n = 3
      [] step = "link" -> n = 4
      [] step = "addr" -> n = 5
      [] step = "route" -> n = 6
      [] step = "ready" -> n \in {4, 6, 7}
      [] OTHER -> step = "unwind"

\* The deferred calls owed and the things on the host go together, but for a Chrome that
\* has yet to answer and a TUN that a failed Kernel.Start has closed.
ClientInv ==
    \E b \in {1, 2}, n \in 0 .. 7 :
        /\ b <= n + 1 /\ undo = Stack(b, n) /\ Reached(n)
        /\ step \in {"idle", "chrome", "wait"} => n = b - 1
        /\ \/ step # "wait" /\ host = Brought(b, n)
           \/ step = "wait" /\ host = {"dataDir", "chrome"}
           \/ step = "unwind" /\ n = 3 /\ host = Brought(b, n) \ {"tun"}

\* The deferred calls by number.
LEMMA DeferredAt ==
    /\ Deferred \in Seq({Deferred[k] : k \in 1 .. 7}) /\ Len(Deferred) = 7
    /\ Deferred[1] = "chrome" /\ Deferred[2] = "tunnel" /\ Deferred[3] = "tun"
    /\ Deferred[4] = "kernel" /\ Deferred[5] = "link" /\ Deferred[6] = "addr"
    /\ Deferred[7] = "route"
<1>1. Len(Deferred) = 7 /\ DOMAIN Deferred = 1 .. 7
  BY DEF Deferred
<1>2. /\ Deferred[1] = "chrome" /\ Deferred[2] = "tunnel" /\ Deferred[3] = "tun"
      /\ Deferred[4] = "kernel" /\ Deferred[5] = "link" /\ Deferred[6] = "addr"
      /\ Deferred[7] = "route"
  BY DEF Deferred
<1>3. Deferred \in Seq({"chrome", "tunnel", "tun", "kernel", "link", "addr", "route"})
  BY DEF Deferred
<1>4. \A k \in 1 .. 7 : Deferred[k] \in {Deferred[j] : j \in 1 .. 7}
  OBVIOUS
<1>5. {"chrome", "tunnel", "tun", "kernel", "link", "addr", "route"}
         \subseteq {Deferred[k] : k \in 1 .. 7}
  BY <1>2, <1>4
<1>6. Deferred \in Seq({Deferred[k] : k \in 1 .. 7})
  BY <1>3, <1>5, SeqMonotonic
<1> QED BY <1>1, <1>2, <1>6

\* The stages of connect.go follow each other.
LEMMA StagesFollow ==
    /\ After("tunnel") = "tun" /\ After("tun") = "kernel" /\ After("kernel") = "link"
    /\ After("link") = "addr" /\ After("addr") = "route" /\ After("route") = "ready"
<1>1. /\ DOMAIN Stages = 1 .. 9
      /\ Stages[1] = "chrome" /\ Stages[2] = "wait" /\ Stages[3] = "tunnel"
      /\ Stages[4] = "tun" /\ Stages[5] = "kernel" /\ Stages[6] = "link"
      /\ Stages[7] = "addr" /\ Stages[8] = "route" /\ Stages[9] = "ready"
  BY DEF Stages
<1>2. /\ (CHOOSE k \in DOMAIN Stages : Stages[k] = "tunnel") = 3
      /\ (CHOOSE k \in DOMAIN Stages : Stages[k] = "tun") = 4
      /\ (CHOOSE k \in DOMAIN Stages : Stages[k] = "kernel") = 5
      /\ (CHOOSE k \in DOMAIN Stages : Stages[k] = "link") = 6
      /\ (CHOOSE k \in DOMAIN Stages : Stages[k] = "addr") = 7
      /\ (CHOOSE k \in DOMAIN Stages : Stages[k] = "route") = 8
  BY <1>1
<1> QED BY <1>1, <1>2 DEF After

\* Registering a deferred call.
LEMMA StackUp ==
    ASSUME NEW b \in {1, 2}, NEW n \in 0 .. 6, b <= n + 1
    PROVE  Append(Stack(b, n), Deferred[n + 1]) = Stack(b, n + 1)
  BY DeferredAt, SubSeqRecursiveSecond DEF Stack

\* Running the last one.
LEMMA StackPop ==
    ASSUME NEW b \in {1, 2}, NEW n \in 0 .. 7, b <= n + 1, Stack(b, n) # <<>>
    PROVE  /\ b <= n /\ Stack(b, n)[Len(Stack(b, n))] = Deferred[n]
           /\ SubSeq(Stack(b, n), 1, Len(Stack(b, n)) - 1) = Stack(b, n - 1)
  BY DeferredAt DEF Stack

\* A run that owes nothing is at the beginning.
LEMMA StackEmpty ==
    ASSUME NEW b \in {1, 2}, NEW n \in 0 .. 7, b <= n + 1
    PROVE  Stack(b, n) = <<>> <=> n = b - 1
<1>1. n = b - 1 => Stack(b, n) = <<>>
  BY DeferredAt, SubSeqEmpty DEF Stack
<1>2. \A k \in b .. n : Deferred[k] \in {Deferred[j] : j \in 1 .. 7}
  OBVIOUS
<1>3. n # b - 1 => Len(Stack(b, n)) = n - b + 1 /\ n - b + 1 # 0
  BY <1>2, SubSeqProperties DEF Stack
<1> QED BY <1>1, <1>3

\* The next stage is on the host.
LEMMA BroughtUp ==
    ASSUME NEW b \in {1, 2}, NEW n \in 1 .. 6, b <= n + 1
    PROVE  Brought(b, n) \cup {Deferred[n + 1]} = Brought(b, n + 1)
  BY DEF Brought

\* A deferred call takes one stage from the host; Kernel.Stop also closes the TUN.
LEMMA BroughtPop ==
    ASSUME NEW b \in {1, 2}, NEW n \in 1 .. 7, b <= n
    PROVE  IF n = 4 THEN Brought(b, n) \ Removes(Deferred[n]) = Brought(b, n - 1) \ {"tun"}
                    ELSE Brought(b, n) \ Removes(Deferred[n]) = Brought(b, n - 1)
  BY DeferredAt DEF Brought, Removes

\* Every step of a run keeps the stack and the host together: a stage that is up is
\* registered at once, and the calls run last in, first out.
LEMMA ClientPreserved ==
    ASSUME ClientInv, Run \/ ClientStep \/ Signal \/ Kill
    PROVE  ClientInv'
<1>0. PICK b \in {1, 2}, n \in 0 .. 7 :
        /\ b <= n + 1 /\ undo = Stack(b, n) /\ Reached(n)
        /\ step \in {"idle", "chrome", "wait"} => n = b - 1
        /\ \/ step # "wait" /\ host = Brought(b, n)
           \/ step = "wait" /\ host = {"dataDir", "chrome"}
           \/ step = "unwind" /\ n = 3 /\ host = Brought(b, n) \ {"tun"}
  BY DEF ClientInv
<1>e. Stack(2, 1) = <<>> /\ Brought(2, 1) = {}
  BY StackEmpty DEF Brought
<1>1. ASSUME NEW stage, Up(stage), n \in 1 .. 6, stage = Deferred[n + 1], n # 3 \/ step # "unwind",
             step # "wait", Reached(n + 1)', step' \notin {"idle", "chrome", "wait"}
      PROVE  ClientInv'
  <2>a. /\ undo' = Append(Stack(b, n), Deferred[n + 1])
        /\ host' = Brought(b, n) \cup {Deferred[n + 1]}
    BY <1>0, <1>1 DEF Up
  <2>b. n \in 0 .. 6 /\ n \in 1 .. 6
    BY <1>1
  <2>1. undo' = Stack(b, n + 1) /\ host' = Brought(b, n + 1)
    BY <1>0, <2>a, <2>b, StackUp, BroughtUp, Zenon
  <2>2. n + 1 \in 0 .. 7 /\ b <= n + 1 + 1
    BY <1>0, <1>1
  <2> QED BY <1>1, <2>1, <2>2 DEF ClientInv
<1>2. ASSUME UNCHANGED <<undo, host>>, step' = "unwind", step # "wait" PROVE ClientInv'
  BY <1>0, <1>2 DEF ClientInv, Reached
<1>3. CASE Run
  BY <1>0, <1>3 DEF Run, ClientInv, Reached
<1>4. CASE NoLaunch
  BY <1>0, <1>4 DEF NoLaunch, ClientInv, Reached
<1>5. CASE LaunchChrome
  BY <1>0, <1>2, <1>5, <1>e DEF LaunchChrome, Fails, ClientInv, Reached, Brought
<1>6. CASE WaitChrome
  <2>1. undo = <<>> /\ host = {"dataDir", "chrome"} /\ step = "wait"
    BY <1>0, <1>6, StackEmpty DEF WaitChrome
  <2>2. CASE step' = "tunnel" /\ undo' = Append(undo, "chrome") /\ UNCHANGED host
    <3>1. Stack(1, 0) = <<>> /\ Append(Stack(1, 0), Deferred[0 + 1]) = Stack(1, 0 + 1)
      BY StackEmpty, StackUp
    <3>2. undo' = Stack(1, 1)
      BY <2>1, <2>2, <3>1, DeferredAt
    <3>3. Brought(1, 1) = {"dataDir", "chrome"}
      BY DeferredAt DEF Brought
    <3> QED BY <2>1, <2>2, <3>2, <3>3 DEF ClientInv, Reached
  <2>3. CASE step' = "unwind" /\ host' = host \ {"dataDir", "chrome"} /\ UNCHANGED undo
    <3>1. undo' = Stack(2, 1) /\ host' = Brought(2, 1)
      BY <1>e, <2>1, <2>3
    <3> QED BY <2>3, <3>1 DEF ClientInv, Reached
  <2> QED BY <1>6, <2>2, <2>3 DEF WaitChrome
<1>7. CASE StartTunnel
  <2>1. step = "tunnel" => n <= 1
    BY <1>0 DEF Reached
  <2>2. CASE Up("tunnel")
    <3>1. CASE n = 1
      BY <1>1, <2>2, <3>1, StagesFollow, DeferredAt DEF Up, Reached
    <3>2. CASE n = 0
      <4>a. b = 1 /\ step = "tunnel"
        BY <1>0, <2>2, <3>2 DEF Up
      <4>b. Stack(1, 0) = <<>> /\ Brought(1, 0) = {}
        BY StackEmpty DEF Brought
      <4>c. undo = <<>> /\ host = {}
        BY <1>0, <3>2, <4>a, <4>b
      <4>1. undo' = Append(<<>>, "tunnel") /\ host' = {"tunnel"} /\ step' = "tun"
        BY <2>2, <4>c, StagesFollow DEF Up
      <4>2. Append(Stack(2, 1), Deferred[1 + 1]) = Stack(2, 1 + 1)
        BY StackUp
      <4>3. undo' = Stack(2, 2)
        BY <1>e, <4>1, <4>2, DeferredAt
      <4>4. Brought(2, 2) = {"tunnel"}
        BY DeferredAt DEF Brought
      <4> QED BY <4>1, <4>3, <4>4 DEF ClientInv, Reached
    <3> QED BY <2>1, <2>2, <3>1, <3>2 DEF Up
  <2> QED BY <1>2, <1>7, <2>2 DEF StartTunnel, Fails
<1>8. CASE OpenTUN
  BY <1>0, <1>1, <1>2, <1>8, StagesFollow, DeferredAt DEF OpenTUN, Up, Fails, Reached
<1>9. CASE StartKernel
  BY <1>0, <1>1, <1>2, <1>9, StagesFollow, DeferredAt DEF StartKernel, Up, Fails, Reached, ClientInv
<1>10. CASE LinkUp
  BY <1>0, <1>1, <1>2, <1>10, StagesFollow, DeferredAt DEF LinkUp, Up, Fails, Reached, ClientInv
<1>11. CASE AddAddress
  BY <1>0, <1>1, <1>2, <1>11, StagesFollow, DeferredAt DEF AddAddress, Up, Fails, Reached
<1>12. CASE AddRoute
  BY <1>0, <1>1, <1>2, <1>12, StagesFollow, DeferredAt DEF AddRoute, Up, Fails, Reached, ClientInv
<1>13. CASE Shutdown
  BY <1>2, <1>13 DEF Shutdown
<1>14. CASE Unwind
  <2>1. /\ step = "unwind" /\ step' = "unwind" /\ b <= n
        /\ host' = host \ Removes(Deferred[n]) /\ undo' = Stack(b, n - 1)
    BY <1>0, <1>14, StackPop, Zenon DEF Unwind
  <2>2. n \in 1 .. 7 /\ n - 1 \in 0 .. 7 /\ b <= n - 1 + 1
    BY <2>1
  <2>3. \/ host' = Brought(b, n - 1)
        \/ n - 1 = 3 /\ host' = Brought(b, n - 1) \ {"tun"}
    BY <1>0, <2>1, <2>2, BroughtPop, DeferredAt DEF Removes
  <2> QED BY <2>1, <2>2, <2>3 DEF ClientInv, Reached
<1>15. CASE Exit
  <2>1. n = b - 1 /\ step' = "idle" /\ UNCHANGED <<undo, host>> /\ step = "unwind"
    BY <1>0, <1>15, StackEmpty, Zenon DEF Exit
  <2>2. Brought(b, n) = {} /\ n <= 1
    BY <2>1 DEF Brought
  <2> QED BY <1>0, <2>1, <2>2 DEF ClientInv, Reached
<1>16. CASE Signal
  BY <1>0, <1>16 DEF Signal, ClientInv, Reached
<1>17. CASE Kill
  BY <1>17, <1>e DEF Kill, ClientInv, Reached
<1> QED BY <1>3, <1>4, <1>5, <1>6, <1>7, <1>8, <1>9, <1>10, <1>11, <1>12, <1>13, <1>14, <1>15,
           <1>16, <1>17 DEF ClientStep

\* What is in use is on the host.
LEMMA ClientInvImplies == ClientInv => TakenDownInOrder
<1> SUFFICES ASSUME ClientInv PROVE TakenDownInOrder
  OBVIOUS
<1>0. PICK b \in {1, 2}, n \in 0 .. 7 :
        /\ b <= n + 1 /\ undo = Stack(b, n) /\ Reached(n)
        /\ step \in {"idle", "chrome", "wait"} => n = b - 1
        /\ \/ step # "wait" /\ host = Brought(b, n)
           \/ step = "wait" /\ host = {"dataDir", "chrome"}
           \/ step = "unwind" /\ n = 3 /\ host = Brought(b, n) \ {"tun"}
  BY DEF ClientInv
<1>1. step = "idle" => host = {} /\ undo = <<>>
  BY <1>0, StackEmpty DEF Brought
<1>2. \A k \in 1 .. 7 : Deferred[k] \in host => \A j \in 2 .. k :
          Deferred[j] \in host \/ (j = 3 /\ k = 3)
  BY <1>0, DeferredAt DEF Brought
<1> QED BY <1>1, <1>2, DeferredAt DEF TakenDownInOrder

\* A run of the client takes down what it has brought up, in the reverse order, wherever
\* it failed, was interrupted or was killed.
THEOREM ClientTakesDown == Spec => []TakenDownInOrder
<1>1. Init => ClientInv
  <2>1. Stack(2, 1) = <<>> /\ Brought(2, 1) = {}
    BY StackEmpty DEF Brought
  <2> QED BY <2>1 DEF Init, ClientInit, ClientInv, Reached
<1>2. ClientInv /\ [Next]_<<adminvars, clientvars>> => ClientInv'
  <2>1. ASSUME ClientInv, UNCHANGED clientvars PROVE ClientInv'
    BY <2>1 DEF clientvars, ClientInv, Reached
  <2> QED BY <2>1, ClientPreserved DEF Next
<1> QED BY <1>1, <1>2, ClientInvImplies, PTL DEF Spec

-----------------------------------------------------------------------------
(* Induction, which the lemmas about files rest on, and the loop of parseConf.*)

\* Induction over the natural numbers, for sets.
LEMMA SetInduction ==
    ASSUME NEW S, 0 \in S, \A n \in Nat : n \in S => n + 1 \in S
    PROVE  Nat \subseteq S
<1> SUFFICES ASSUME Nat \ S # {} PROVE FALSE
  OBVIOUS
<1> DEFINE R == {ss \in Nat \X Nat : ss[1] < ss[2]}
           T == Nat \ S
<1>1. IsWellFoundedOn(R, Nat)
  BY NatLessThanWellFounded DEF OpToRel
<1>2. T \subseteq Nat /\ T # {}
  OBVIOUS
<1> HIDE DEF R, T
<1>3. \E x \in T : \A y \in T : ~(<<y, x>> \in R)
  BY <1>1, <1>2, WFMin, Zenon
<1> USE DEF R, T
<1>4. PICK x \in Nat \ S : \A y \in Nat \ S : ~(y < x)
  BY <1>3, Zenon
<1>5. x # 0 /\ x - 1 \in Nat
  BY <1>4
<1>6. x - 1 \in S
  BY <1>4, <1>5
<1> QED BY <1>4, <1>5, <1>6

\* Every sequence is built from the empty one with Append.
LEMMA SeqInduction ==
    ASSUME NEW L, NEW X, <<>> \in X,
           \A s \in Seq(L), e \in L : s \in X => Append(s, e) \in X
    PROVE  Seq(L) \subseteq X
<1> DEFINE S == {n \in Nat : \A s \in Seq(L) : Len(s) = n => s \in X}
<1>1. 0 \in S
  OBVIOUS
<1>2. ASSUME NEW n \in Nat, n \in S PROVE n + 1 \in S
  <2> SUFFICES ASSUME NEW s \in Seq(L), Len(s) = n + 1 PROVE s \in X
    OBVIOUS
  <2>1. PICK t \in Seq(L), e \in L : s = Append(t, e)
    BY SequenceEmptyOrAppend
  <2>2. Len(t) = n
    BY <2>1
  <2> QED BY <1>2, <2>1, <2>2
<1> HIDE DEF S
<1>3. Nat \subseteq S
  BY <1>1, <1>2, SetInduction
<1> QED BY <1>3 DEF S

\* The indices of a list of peer blocks are numbers: what the loop of Revoke
\* (wgadmin/server.go) compares when it takes the first match.
LEMMA IndicesAreNats ==
  ASSUME NEW S, NEW ps \in Seq(S)
  PROVE  DOMAIN ps \subseteq Nat
OBVIOUS

\* A nonempty set of natural numbers has a least element.
LEMMA Least ==
    ASSUME NEW T, T \subseteq Nat, T # {}
    PROVE  \E x \in T : \A y \in T : x <= y
<1> DEFINE S == {n \in Nat : \A y \in T : n <= y}
<1>1. 0 \in S
  OBVIOUS
<1>2. CASE \A n \in Nat : n \in S => n + 1 \in S
  <2> HIDE DEF S
  <2>1. Nat \subseteq S
    BY <1>1, <1>2, SetInduction
  <2>2. PICK y \in T : TRUE
    BY Zenon
  <2>3. y \in Nat /\ y + 1 \in S
    BY <2>1, <2>2
  <2> QED BY <2>2, <2>3 DEF S
<1>3. CASE \E n \in Nat : n \in S /\ n + 1 \notin S
  BY <1>3
<1> QED BY <1>2, <1>3

\* The state in which parseConf begins.
Start == [header |-> <<>>, peers |-> <<>>, open |-> FALSE]

\* The states of parseConf's loop over the lines of a file.
Loop(file, n, g) == g = [i \in 0 .. n |-> IF i = 0 THEN Start ELSE ParseLine(g[i - 1], file[i])]

\* The loop starts from nothing and takes one line at a time.
LEMMA LoopAt ==
    ASSUME NEW file, NEW n \in Nat, NEW g, Loop(file, n, g)
    PROVE  g[0] = Start /\ \A i \in 1 .. n : g[i] = ParseLine(g[i - 1], file[i])
<1>1. \A i \in 0 .. n : g[i] = IF i = 0 THEN Start ELSE ParseLine(g[i - 1], file[i])
  BY DEF Loop
<1>2. \A i \in 1 .. n : i \in 0 .. n /\ i # 0
  OBVIOUS
<1>3. 0 \in 0 .. n
  OBVIOUS
<1> QED BY <1>1, <1>2, <1>3

\* One turn of the loop.
LEMMA LoopNext ==
    ASSUME NEW file, NEW n \in Nat, NEW g, Loop(file, n, g), NEW k \in Nat, k + 1 <= n
    PROVE  g[k + 1] = ParseLine(g[k], file[k + 1])
<1>1. k + 1 \in 1 .. n /\ k + 1 - 1 = k
  OBVIOUS
<1>2. g[k + 1] = ParseLine(g[k + 1 - 1], file[k + 1])
  BY <1>1, LoopAt
<1> QED BY <1>1, <1>2

\* The recursion of parseConf is well founded: the states of its loop exist.
LEMMA LoopExists ==
    ASSUME NEW file, NEW n \in Nat
    PROVE  \E g : Loop(file, n, g)
<1> DEFINE S == {m \in Nat : \E g : Loop(file, m, g)}
<1>1. 0 \in S
  <2> DEFINE g == [i \in 0 .. 0 |-> Start]
  <2>1. g = [i \in 0 .. 0 |-> IF i = 0 THEN Start ELSE ParseLine(g[i - 1], file[i])]
    OBVIOUS
  <2>2. Loop(file, 0, g)
    BY <2>1 DEF Loop
  <2> QED BY <2>2
<1>2. ASSUME NEW m \in Nat, m \in S PROVE m + 1 \in S
  <2>1. PICK g : Loop(file, m, g)
    BY <1>2
  <2> DEFINE h == [i \in 0 .. m + 1 |-> IF i = m + 1 THEN ParseLine(g[m], file[m + 1]) ELSE g[i]]
  <2>2. \A i \in 0 .. m + 1 : h[i] = IF i = 0 THEN Start ELSE ParseLine(h[i - 1], file[i])
    <3> SUFFICES ASSUME NEW i \in 0 .. m + 1
                 PROVE h[i] = IF i = 0 THEN Start ELSE ParseLine(h[i - 1], file[i])
      OBVIOUS
    <3>1. CASE i = m + 1
      <4>1. h[m + 1] = ParseLine(g[m], file[m + 1]) /\ h[m] = g[m] /\ i # 0 /\ i - 1 = m
        BY <3>1
      <4> QED BY <3>1, <4>1
    <3>2. CASE i \in 0 .. m
      <4>1. h[i] = g[i] /\ (i # 0 => h[i - 1] = g[i - 1])
        BY <3>2
      <4>2. g[i] = IF i = 0 THEN Start ELSE ParseLine(g[i - 1], file[i])
        BY <2>1, <3>2 DEF Loop
      <4> QED BY <4>1, <4>2
    <3> QED BY <3>1, <3>2
  <2>3. h = [i \in 0 .. m + 1 |-> IF i = 0 THEN Start ELSE ParseLine(h[i - 1], file[i])]
    BY <2>2
  <2> HIDE DEF h
  <2>4. Loop(file, m + 1, h)
    BY <2>3 DEF Loop
  <2> QED BY <2>4
<1> HIDE DEF S
<1>3. Nat \subseteq S
  BY <1>1, <1>2, SetInduction
<1> QED BY <1>3 DEF S

\* parseConf returns the last state of its loop.
LEMMA ParseLoop ==
    ASSUME NEW file, Len(file) \in Nat
    PROVE  \E g : Loop(file, Len(file), g) /\ parseConf(file) = g[Len(file)]
<1> DEFINE r == CHOOSE g : g = [i \in 0 .. Len(file) |->
                                  IF i = 0 THEN Start ELSE ParseLine(g[i - 1], file[i])]
<1>1. r = [i \in 0 .. Len(file) |-> IF i = 0 THEN Start ELSE ParseLine(r[i - 1], file[i])]
  BY LoopExists, Zenon DEF Loop
<1>2. parseConf(file) = r[Len(file)]
  BY DEF parseConf, Start
<1> QED BY <1>1, <1>2, Zenon DEF Loop

\* The states depend on the lines read so far only.
LEMMA LoopUnique ==
    ASSUME NEW file, NEW n \in Nat, NEW g, Loop(file, n, g),
           NEW file2, NEW m \in Nat, n <= m, NEW h, Loop(file2, m, h),
           \A i \in 1 .. n : file[i] = file2[i]
    PROVE  g[n] = h[n]
<1> DEFINE S == {k \in Nat : k <= n => g[k] = h[k]}
<1>1. 0 \in S
  BY DEF Loop
<1>2. ASSUME NEW k \in Nat, k \in S PROVE k + 1 \in S
  <2> SUFFICES ASSUME k + 1 <= n PROVE g[k + 1] = h[k + 1]
    OBVIOUS
  <2>1. k + 1 \in 1 .. n /\ k + 1 <= m
    OBVIOUS
  <2>2. g[k + 1] = ParseLine(g[k], file[k + 1])
    BY <2>1, LoopNext
  <2>3. h[k + 1] = ParseLine(h[k], file2[k + 1])
    BY <2>1, LoopNext
  <2>4. g[k] = h[k]
    BY <1>2
  <2> QED BY <2>1, <2>2, <2>3, <2>4
<1> HIDE DEF S
<1>3. Nat \subseteq S
  BY <1>1, <1>2, SetInduction
<1> QED BY <1>3 DEF S

\* An empty file has no header line and no peer.
LEMMA ParseEmpty == parseConf(<<>>) = Start
<1>1. Len(<<>>) = 0
  OBVIOUS
<1>2. PICK g : Loop(<<>>, 0, g) /\ parseConf(<<>>) = g[0]
  BY <1>1, ParseLoop
<1> QED BY <1>2 DEF Loop

\* parseConf reads line by line: one more line at the end of the file is one more turn.
LEMMA ParseAppend ==
    ASSUME NEW L, NEW file \in Seq(L), NEW l \in L
    PROVE  parseConf(Append(file, l)) = ParseLine(parseConf(file), l)
<1> DEFINE n == Len(file)
           file2 == Append(file, l)
<1>1. n \in Nat /\ Len(file2) = n + 1 /\ file2[n + 1] = l /\ \A i \in 1 .. n : file[i] = file2[i]
  BY AppendProperties
<1> HIDE DEF n, file2
<1>2. PICK g : Loop(file, n, g) /\ parseConf(file) = g[n]
  BY <1>1, ParseLoop DEF n
<1>3. PICK h : Loop(file2, n + 1, h) /\ parseConf(file2) = h[n + 1]
  BY <1>1, ParseLoop
<1>4. g[n] = h[n]
  BY <1>1, <1>2, <1>3, LoopUnique
<1>5. n + 1 \in Nat /\ n + 1 <= n + 1
  BY <1>1
<1>6. h[n + 1] = ParseLine(h[n], file2[n + 1])
  BY <1>1, <1>3, <1>5, LoopNext, Zenon
<1> QED BY <1>1, <1>2, <1>3, <1>4, <1>5, <1>6 DEF file2

-----------------------------------------------------------------------------
(* What a line does, and what a file with one more peer says.              *)

\* A state of parseConf.
St(h, ps, o) == [header |-> h, peers |-> ps, open |-> o]

\* What a line does to the state.
LEMMA LineOpens ==
    ASSUME NEW h, NEW ps, NEW o, NEW l, l.k = "peer"
    PROVE  ParseLine(St(h, ps, o), l) = St(h, Append(ps, <<l>>), TRUE)
  BY Zenon DEF ParseLine, St

\* A section other than [Peer] ends the peer and goes to the header.
LEMMA LineCloses ==
    ASSUME NEW h, NEW ps, NEW o, NEW l, l.k = "section"
    PROVE  ParseLine(St(h, ps, o), l) = St(Append(h, l), ps, FALSE)
  BY Zenon DEF ParseLine, St

\* The last peer with one more line.
GrowLast(ps, l) == [ps EXCEPT ![Len(ps)] = Append(ps[Len(ps)], l)]

\* Any other line goes to the open peer,
LEMMA LineInPeer ==
    ASSUME NEW h, NEW ps, NEW l, l.k \notin {"peer", "section"}
    PROVE  ParseLine(St(h, ps, TRUE), l) = St(h, GrowLast(ps, l), TRUE)
  BY Zenon DEF ParseLine, St, GrowLast

\* or to the header when no peer is open.
LEMMA LineInHeader ==
    ASSUME NEW h, NEW ps, NEW l, l.k \notin {"peer", "section"}
    PROVE  ParseLine(St(h, ps, FALSE), l) = St(Append(h, l), ps, FALSE)
  BY Zenon DEF ParseLine, St

\* Lines that can stand in the header, and after the first line of a peer; peers.
HeaderLines(L) == {l \in L : l.k # "peer"}
InnerLines(L) == {l \in L : l.k \notin {"peer", "section"}}
PeerBlocks(L) == {p \in Seq(L) : \E l \in L, r \in Seq(InnerLines(L)) : l.k = "peer" /\ p = <<l>> \o r}

\* Header lines, inner lines and peers are made of lines of the file.
LEMMA LineSets ==
    ASSUME NEW L
    PROVE  /\ Seq(HeaderLines(L)) \subseteq Seq(L) /\ Seq(InnerLines(L)) \subseteq Seq(L)
           /\ Seq(PeerBlocks(L)) \subseteq Seq(Seq(L))
<1>1. HeaderLines(L) \subseteq L /\ InnerLines(L) \subseteq L /\ PeerBlocks(L) \subseteq Seq(L)
  BY DEF HeaderLines, InnerLines, PeerBlocks
<1> QED BY <1>1, SeqMonotonic

\* Appending to the second of two sequences.
LEMMA ConcatAppend ==
    ASSUME NEW L, NEW s \in Seq(L), NEW t \in Seq(L), NEW e \in L
    PROVE  s \o Append(t, e) = Append(s \o t, e)
<1>1. <<e>> \in Seq(L) /\ s \o t \in Seq(L)
  BY ConcatProperties
<1>2. s \o Append(t, e) = s \o (t \o <<e>>)
  BY AppendIsConcat, Zenon
<1>3. s \o (t \o <<e>>) = (s \o t) \o <<e>>
  BY <1>1, ConcatAssociative
<1>4. (s \o t) \o <<e>> = Append(s \o t, e)
  BY <1>1, AppendIsConcat
<1> QED BY <1>2, <1>3, <1>4

\* A file without [Peer] is a header.
LEMMA ParseHeader ==
    ASSUME NEW L, NEW h \in Seq(HeaderLines(L))
    PROVE  parseConf(h) = St(h, <<>>, FALSE)
<1> DEFINE H == HeaderLines(L)
           X == {g \in Seq(H) : parseConf(g) = St(g, <<>>, FALSE)}
<1>1. <<>> \in X
  BY ParseEmpty DEF St, Start
<1>2. ASSUME NEW s \in Seq(H), NEW e \in H, s \in X PROVE Append(s, e) \in X
  <2>1. parseConf(Append(s, e)) = ParseLine(St(s, <<>>, FALSE), e)
    BY <1>2, ParseAppend, Zenon
  <2>2. e.k # "peer"
    BY DEF HeaderLines
  <2>3. ParseLine(St(s, <<>>, FALSE), e) = St(Append(s, e), <<>>, FALSE)
    <3>1. CASE e.k = "section"
      BY <3>1, LineCloses, Zenon
    <3>2. CASE e.k \notin {"peer", "section"}
      BY <3>2, LineInHeader, Zenon
    <3> QED BY <2>2, <3>1, <3>2, Zenon
  <2>4. Append(s, e) \in Seq(H)
    BY AppendProperties
  <2> QED BY <2>1, <2>3, <2>4, Zenon
<1> HIDE DEF H, X
<1>3. Seq(H) \subseteq X
  BY <1>1, <1>2, SeqInduction
<1> QED BY <1>3, Zenon DEF H, X

\* Another line of the last peer.
LEMMA LastGrows ==
    ASSUME NEW L, NEW ps \in Seq(Seq(L)), NEW q \in Seq(L), NEW e \in L
    PROVE  GrowLast(Append(ps, q), e) = Append(ps, Append(q, e))
<1> DEFINE m == Len(ps) + 1
           z == Append(q, e)
           c == Append(ps, q)
           b == Append(ps, z)
<1>1. /\ c \in Seq(Seq(L)) /\ Len(c) = m /\ c[m] = q
      /\ \A j \in 1 .. Len(ps) : c[j] = ps[j]
  BY AppendProperties
<1>2. z \in Seq(L)
  BY AppendProperties
<1>3. /\ b \in Seq(Seq(L)) /\ Len(b) = m /\ b[m] = z
      /\ \A j \in 1 .. Len(ps) : b[j] = ps[j]
  BY <1>2, AppendProperties
<1>4. m \in Nat /\ m \in 1 .. m /\ \A j \in 1 .. m : j = m \/ j \in 1 .. Len(ps)
  OBVIOUS
<1>5. c \in [1 .. m -> Seq(L)] /\ b \in [1 .. m -> Seq(L)]
  BY <1>1, <1>3, LenProperties, Zenon
<1> HIDE DEF m, z, c, b
<1>6. [c EXCEPT ![m] = z] = b
  BY <1>1, <1>2, <1>3, <1>4, <1>5
<1>7. GrowLast(c, e) = [c EXCEPT ![m] = z]
  BY <1>1 DEF GrowLast, z
<1> QED BY <1>6, <1>7 DEF m, z, c, b

\* A state with an open peer.
Opened(h, ps) == St(h, ps, TRUE)

\* The lines of one more peer.
LEMMA ParsePeer ==
    ASSUME NEW L, NEW f \in Seq(L), NEW h, NEW ps \in Seq(Seq(L)), NEW o,
           parseConf(f) = St(h, ps, o), NEW p \in PeerBlocks(L)
    PROVE  parseConf(f \o p) = Opened(h, Append(ps, p))
<1>0. PICK l \in L, r \in Seq(InnerLines(L)) : l.k = "peer" /\ p = <<l>> \o r
  BY Zenon DEF PeerBlocks
<1> DEFINE I == InnerLines(L)
           X == {s \in Seq(I) : parseConf(Append(f, l) \o s) = St(h, Append(ps, <<l>> \o s), TRUE)}
<1>1. <<>> \in X
  <2>1. Append(f, l) \o <<>> = Append(f, l) /\ <<l>> \o <<>> = <<l>>
    OBVIOUS
  <2>2. parseConf(Append(f, l)) = ParseLine(St(h, ps, o), l)
    BY ParseAppend
  <2>3. ParseLine(St(h, ps, o), l) = St(h, Append(ps, <<l>>), TRUE)
    BY <1>0, LineOpens, Zenon
  <2>4. parseConf(Append(f, l) \o <<>>) = St(h, Append(ps, <<l>> \o <<>>), TRUE)
    BY <2>1, <2>2, <2>3, Zenon
  <2>5. <<>> \in Seq(I)
    OBVIOUS
  <2> QED BY <2>4, <2>5, Zenon
<1>2. ASSUME NEW s \in Seq(I), NEW e \in I, s \in X PROVE Append(s, e) \in X
  <2>0. s \in Seq(L) /\ e \in L /\ e.k \notin {"peer", "section"}
    BY LineSets DEF InnerLines
  <2> DEFINE g == Append(f, l) \o s
             q == <<l>> \o s
  <2>1. Append(f, l) \o Append(s, e) = Append(g, e) /\ <<l>> \o Append(s, e) = Append(q, e)
    <3>1. Append(f, l) \in Seq(L) /\ <<l>> \in Seq(L)
      BY AppendProperties
    <3> QED BY <2>0, <3>1, ConcatAppend
  <2>2. g \in Seq(L) /\ q \in Seq(L)
    BY <2>0
  <2>3. parseConf(g) = St(h, Append(ps, q), TRUE)
    BY <1>2, Zenon
  <2> HIDE DEF g, q
  <2>4. parseConf(Append(g, e)) = ParseLine(St(h, Append(ps, q), TRUE), e)
    BY <2>0, <2>2, <2>3, ParseAppend, Zenon
  <2>5. ParseLine(St(h, Append(ps, q), TRUE), e) = St(h, Append(ps, Append(q, e)), TRUE)
    <3>1. GrowLast(Append(ps, q), e) = Append(ps, Append(q, e))
      BY <2>0, <2>2, LastGrows
    <3>2. ParseLine(St(h, Append(ps, q), TRUE), e) = St(h, GrowLast(Append(ps, q), e), TRUE)
      BY <2>0, LineInPeer, Zenon
    <3> QED BY <3>1, <3>2, Zenon
  <2>6. Append(s, e) \in Seq(I)
    BY AppendProperties
  <2> QED BY <2>1, <2>4, <2>5, <2>6, Zenon
<1>3. Seq(I) \subseteq X
  <2> HIDE DEF I, X
  <2> QED BY <1>1, <1>2, SeqInduction
<1>4. parseConf(Append(f, l) \o r) = Opened(h, Append(ps, p))
  BY <1>0, <1>3, Zenon DEF Opened
<1>5. f \o p = Append(f, l) \o r
  BY <1>0, LineSets
<1> QED BY <1>4, <1>5

-----------------------------------------------------------------------------
(* The loop of writeConf.                                                  *)

\* Concatenation.
Join(s, t) == s \o t

\* What writeConf makes of a header and peers.
Written(h, ps) ==
    LET Sofar[i \in 0 .. Len(ps)] == IF i = 0 THEN h ELSE Sofar[i - 1] \o ps[i]
    IN  Sofar[Len(ps)]

\* The file during writeConf's loop over the peers.
WriteLoop(h, ps, n, g) == g = [i \in 0 .. n |-> IF i = 0 THEN h ELSE Join(g[i - 1], ps[i])]

\* The parts of a state.
LEMMA StParts ==
    ASSUME NEW h, NEW ps, NEW o
    PROVE  St(h, ps, o).header = h /\ St(h, ps, o).peers = ps
  BY DEF St

\* writeConf writes the header and the peers, whether a peer is open or not.
LEMMA WrittenIs ==
    ASSUME NEW h, NEW ps, NEW o
    PROVE  writeConf(St(h, ps, o)) = Written(h, ps)
<1>1. St(h, ps, o).header = h /\ St(h, ps, o).peers = ps
  BY StParts
<1> QED BY <1>1, Zenon DEF writeConf, Written

\* One turn of the loop.
LEMMA WriteLoopNext ==
    ASSUME NEW h, NEW ps, NEW n \in Nat, NEW g, WriteLoop(h, ps, n, g), NEW k \in Nat, k + 1 <= n
    PROVE  g[k + 1] = Join(g[k], ps[k + 1])
<1>1. k + 1 \in 0 .. n /\ k + 1 # 0 /\ k + 1 - 1 = k
  OBVIOUS
<1>2. g[k + 1] = Join(g[k + 1 - 1], ps[k + 1])
  BY <1>1 DEF WriteLoop
<1> QED BY <1>1, <1>2

\* The recursion of writeConf is well founded.
LEMMA WriteLoopExists ==
    ASSUME NEW h, NEW ps, NEW n \in Nat
    PROVE  \E g : WriteLoop(h, ps, n, g)
<1> DEFINE S == {m \in Nat : \E g : WriteLoop(h, ps, m, g)}
<1>1. 0 \in S
  <2> DEFINE g == [i \in 0 .. 0 |-> h]
  <2>1. g = [i \in 0 .. 0 |-> IF i = 0 THEN h ELSE Join(g[i - 1], ps[i])]
    OBVIOUS
  <2>2. WriteLoop(h, ps, 0, g)
    BY <2>1 DEF WriteLoop
  <2> QED BY <2>2
<1>2. ASSUME NEW m \in Nat, m \in S PROVE m + 1 \in S
  <2>1. PICK g : WriteLoop(h, ps, m, g)
    BY <1>2
  <2> DEFINE f == [i \in 0 .. m + 1 |-> IF i = m + 1 THEN Join(g[m], ps[m + 1]) ELSE g[i]]
  <2>2. \A i \in 0 .. m + 1 : f[i] = IF i = 0 THEN h ELSE Join(f[i - 1], ps[i])
    <3> SUFFICES ASSUME NEW i \in 0 .. m + 1
                 PROVE f[i] = IF i = 0 THEN h ELSE Join(f[i - 1], ps[i])
      OBVIOUS
    <3>1. CASE i = m + 1
      <4>1. f[m + 1] = Join(g[m], ps[m + 1]) /\ f[m] = g[m] /\ i # 0 /\ i - 1 = m
        BY <3>1
      <4> QED BY <3>1, <4>1
    <3>2. CASE i \in 0 .. m
      <4>1. f[i] = g[i] /\ (i # 0 => f[i - 1] = g[i - 1])
        BY <3>2
      <4>2. g[i] = IF i = 0 THEN h ELSE Join(g[i - 1], ps[i])
        BY <2>1, <3>2 DEF WriteLoop
      <4> QED BY <4>1, <4>2
    <3> QED BY <3>1, <3>2
  <2>3. f = [i \in 0 .. m + 1 |-> IF i = 0 THEN h ELSE Join(f[i - 1], ps[i])]
    BY <2>2
  <2> HIDE DEF f
  <2>4. WriteLoop(h, ps, m + 1, f)
    BY <2>3 DEF WriteLoop
  <2> QED BY <2>4
<1> HIDE DEF S
<1>3. Nat \subseteq S
  BY <1>1, <1>2, SetInduction
<1> QED BY <1>3 DEF S

\* writeConf returns the last state of its loop.
LEMMA WriteIsLoop ==
    ASSUME NEW h, NEW ps, Len(ps) \in Nat
    PROVE  \E g : WriteLoop(h, ps, Len(ps), g) /\ Written(h, ps) = g[Len(ps)]
<1> DEFINE r == CHOOSE g : g = [i \in 0 .. Len(ps) |-> IF i = 0 THEN h ELSE g[i - 1] \o ps[i]]
<1>1. r = [i \in 0 .. Len(ps) |-> IF i = 0 THEN h ELSE r[i - 1] \o ps[i]]
  <2>1. \E g : WriteLoop(h, ps, Len(ps), g)
    BY WriteLoopExists
  <2>2. \E g : g = [i \in 0 .. Len(ps) |-> IF i = 0 THEN h ELSE g[i - 1] \o ps[i]]
    BY <2>1, Zenon DEF WriteLoop, Join
  <2> QED BY <2>2, Zenon
<1>2. Written(h, ps) = r[Len(ps)]
  BY DEF Written
<1>3. WriteLoop(h, ps, Len(ps), r)
  BY <1>1, Zenon DEF WriteLoop, Join
<1> QED BY <1>2, <1>3, Zenon

\* The file depends on the peers written so far only.
LEMMA WriteLoopUnique ==
    ASSUME NEW h, NEW ps, NEW n \in Nat, NEW g, WriteLoop(h, ps, n, g),
           NEW qs, NEW m \in Nat, n <= m, NEW f, WriteLoop(h, qs, m, f),
           \A i \in 1 .. n : ps[i] = qs[i]
    PROVE  g[n] = f[n]
<1> DEFINE S == {k \in Nat : k <= n => g[k] = f[k]}
<1>1. 0 \in S
  BY DEF WriteLoop
<1>2. ASSUME NEW k \in Nat, k \in S PROVE k + 1 \in S
  <2> SUFFICES ASSUME k + 1 <= n PROVE g[k + 1] = f[k + 1]
    OBVIOUS
  <2>1. k + 1 \in 1 .. n /\ k + 1 <= m
    OBVIOUS
  <2>2. g[k + 1] = Join(g[k], ps[k + 1])
    BY <2>1, WriteLoopNext
  <2>3. f[k + 1] = Join(f[k], qs[k + 1])
    BY <2>1, WriteLoopNext
  <2>4. g[k] = f[k]
    BY <1>2
  <2> QED BY <2>1, <2>2, <2>3, <2>4
<1> HIDE DEF S
<1>3. Nat \subseteq S
  BY <1>1, <1>2, SetInduction
<1> QED BY <1>3 DEF S

\* Without peers the file is the header.
LEMMA WriteEmpty == ASSUME NEW h PROVE Written(h, <<>>) = h
<1>1. Len(<<>>) = 0
  OBVIOUS
<1>2. PICK g : WriteLoop(h, <<>>, 0, g) /\ Written(h, <<>>) = g[0]
  BY <1>1, WriteIsLoop
<1> QED BY <1>2 DEF WriteLoop

\* One more peer is written at the end.
LEMMA WriteAppend ==
    ASSUME NEW S, NEW h, NEW ps \in Seq(S), NEW p \in S
    PROVE  Written(h, Append(ps, p)) = Written(h, ps) \o p
<1> DEFINE n == Len(ps)
           qs == Append(ps, p)
<1>1. n \in Nat /\ Len(qs) = n + 1 /\ qs[n + 1] = p /\ \A i \in 1 .. n : ps[i] = qs[i]
  BY AppendProperties
<1> HIDE DEF n, qs
<1>2. PICK g : WriteLoop(h, ps, n, g) /\ Written(h, ps) = g[n]
  BY <1>1, WriteIsLoop DEF n
<1>3. PICK f : WriteLoop(h, qs, n + 1, f) /\ Written(h, qs) = f[n + 1]
  BY <1>1, WriteIsLoop
<1>4. n + 1 \in Nat /\ n <= n + 1 /\ n + 1 <= n + 1
  BY <1>1
<1>5. g[n] = f[n]
  BY <1>1, <1>2, <1>3, <1>4, WriteLoopUnique
<1>6. f[n + 1] = Join(f[n], qs[n + 1])
  <2> DEFINE m == n + 1
  <2>1. WriteLoop(h, qs, m, f) /\ m \in Nat /\ n + 1 <= m
    BY <1>3, <1>4
  <2> HIDE DEF m
  <2>2. \A k \in Nat : k + 1 <= m => f[k + 1] = Join(f[k], qs[k + 1])
    BY <2>1, WriteLoopNext
  <2> QED BY <1>1, <2>1, <2>2
<1> QED BY <1>1, <1>2, <1>3, <1>5, <1>6, Zenon DEF qs, Join

\* What is written consists of the lines of the header and of the peers.
LEMMA WriteType ==
    ASSUME NEW T, NEW h \in Seq(T), NEW ps \in Seq(Seq(T))
    PROVE  Written(h, ps) \in Seq(T)
<1> DEFINE P == Seq(T)
           X == {qs \in Seq(P) : Written(h, qs) \in P}
<1>1. <<>> \in X
  <2>1. <<>> \in Seq(P)
    OBVIOUS
  <2> QED BY <2>1, WriteEmpty, Zenon
<1>2. ASSUME NEW qs \in Seq(P), NEW p \in P, qs \in X PROVE Append(qs, p) \in X
  <2>1. Written(h, Append(qs, p)) = Written(h, qs) \o p
    BY WriteAppend
  <2>2. Written(h, qs) \o p \in Seq(T)
    BY <1>2, ConcatProperties
  <2>3. Append(qs, p) \in Seq(P)
    BY AppendProperties
  <2> QED BY <2>1, <2>2, <2>3, Zenon
<1> HIDE DEF P, X
<1>3. Seq(P) \subseteq X
  BY <1>1, <1>2, SeqInduction, Zenon
<1> QED BY <1>3 DEF P, X

-----------------------------------------------------------------------------
(* parseConf reads back what writeConf has written.                        *)

\* A peer with one more line is a peer.
LEMMA PeerGrows ==
    ASSUME NEW L, NEW p \in PeerBlocks(L), NEW e \in InnerLines(L)
    PROVE  Append(p, e) \in PeerBlocks(L)
<1>1. PICK l \in L, r \in Seq(InnerLines(L)) : l.k = "peer" /\ p = <<l>> \o r
  BY Zenon DEF PeerBlocks
<1>2. e \in L /\ r \in Seq(L) /\ <<l>> \in Seq(L) /\ p \in Seq(L)
  BY LineSets DEF InnerLines, PeerBlocks
<1>3. Append(p, e) = <<l>> \o Append(r, e)
  BY <1>1, <1>2, ConcatAppend
<1>4. Append(r, e) \in Seq(InnerLines(L)) /\ Append(p, e) \in Seq(L)
  BY <1>2, AppendProperties
<1> QED BY <1>1, <1>3, <1>4, Zenon DEF PeerBlocks

\* A peer that has its first line only.
LEMMA PeerOpens ==
    ASSUME NEW L, NEW e \in L, e.k = "peer"
    PROVE  <<e>> \in PeerBlocks(L)
<1>1. <<e>> \in Seq(L) /\ <<>> \in Seq(InnerLines(L)) /\ <<e>> = <<e>> \o <<>>
  OBVIOUS
<1> QED BY <1>1, Zenon DEF PeerBlocks

\* What parseConf makes of a file: a header and peers, and an open peer is the last one.
Shape(L, st) ==
    \E h \in Seq(HeaderLines(L)), ps \in Seq(PeerBlocks(L)) :
        st = St(h, ps, FALSE) \/ (st = St(h, ps, TRUE) /\ ps # <<>>)

\* A line leaves the state in that form.
LEMMA LineShape ==
    ASSUME NEW L, NEW st, Shape(L, st), NEW e \in L
    PROVE  Shape(L, ParseLine(st, e))
<1>1. PICK h \in Seq(HeaderLines(L)), ps \in Seq(PeerBlocks(L)) :
        st = St(h, ps, FALSE) \/ (st = St(h, ps, TRUE) /\ ps # <<>>)
  BY Zenon DEF Shape
<1>2. CASE e.k = "peer"
  <2>1. ParseLine(st, e) = St(h, Append(ps, <<e>>), TRUE)
    <3>1. \A o : ParseLine(St(h, ps, o), e) = St(h, Append(ps, <<e>>), TRUE)
      BY <1>2, LineOpens, Zenon
    <3> QED BY <1>1, <3>1, Zenon
  <2>2. Append(ps, <<e>>) \in Seq(PeerBlocks(L)) /\ Append(ps, <<e>>) # <<>>
    BY <1>2, PeerOpens, AppendProperties
  <2> QED BY <2>1, <2>2, Zenon DEF Shape
<1>3. CASE e.k # "peer"
  <2>0. e \in HeaderLines(L)
    BY <1>3 DEF HeaderLines
  <2>a. Append(h, e) \in Seq(HeaderLines(L))
    BY <2>0, AppendProperties
  <2>1. CASE e.k = "section"
    <3>1. ParseLine(st, e) = St(Append(h, e), ps, FALSE)
      BY <1>1, <2>1, LineCloses, Zenon
    <3> QED BY <2>a, <3>1, Zenon DEF Shape
  <2>2. CASE e.k # "section" /\ st = St(h, ps, FALSE)
    <3>0. e.k \notin {"peer", "section"}
      BY <1>3, <2>2, Zenon
    <3>1. ParseLine(st, e) = St(Append(h, e), ps, FALSE)
      BY <2>2, <3>0, LineInHeader, Zenon
    <3> QED BY <2>a, <3>1, Zenon DEF Shape
  <2>3. CASE e.k # "section" /\ st = St(h, ps, TRUE) /\ ps # <<>>
    <3>0. e.k \notin {"peer", "section"} /\ e \in InnerLines(L)
      BY <1>3, <2>3, Zenon DEF InnerLines
    <3>1. ParseLine(st, e) = St(h, GrowLast(ps, e), TRUE)
      BY <2>3, <3>0, LineInPeer, Zenon
    <3>a. ps # <<>>
      BY <2>3, Zenon
    <3>2. PICK qs \in Seq(PeerBlocks(L)), p \in PeerBlocks(L) : ps = Append(qs, p)
      BY <3>a, SequenceEmptyOrAppend
    <3>3. qs \in Seq(Seq(L)) /\ p \in Seq(L)
      BY LineSets DEF PeerBlocks
    <3>4. GrowLast(ps, e) = Append(qs, Append(p, e))
      BY <3>2, <3>3, LastGrows
    <3>5. Append(p, e) \in PeerBlocks(L)
      BY <3>0, PeerGrows
    <3> DEFINE p2 == Append(p, e)
    <3> HIDE DEF p2
    <3>5a. p2 \in PeerBlocks(L)
      BY <3>5 DEF p2
    <3>6. Append(qs, p2) \in Seq(PeerBlocks(L)) /\ Append(qs, p2) # <<>>
      BY <3>5a, AppendProperties
    <3> USE DEF p2
    <3> QED BY <3>1, <3>4, <3>6, Zenon DEF Shape
  <2> QED BY <1>1, <1>3, <2>1, <2>2, <2>3, Zenon
<1> QED BY <1>2, <1>3

\* parseConf returns a state of that form, whatever the file.
LEMMA ParseShape ==
    ASSUME NEW L, NEW f \in Seq(L)
    PROVE  Shape(L, parseConf(f))
<1> DEFINE X == {g \in Seq(L) : Shape(L, parseConf(g))}
<1>1. <<>> \in X
  <2>1. parseConf(<<>>) = St(<<>>, <<>>, FALSE)
    BY ParseEmpty, Zenon DEF Start, St
  <2>2. <<>> \in Seq(L) /\ <<>> \in Seq(HeaderLines(L)) /\ <<>> \in Seq(PeerBlocks(L))
    OBVIOUS
  <2> QED BY <2>1, <2>2, Zenon DEF Shape
<1>2. ASSUME NEW s \in Seq(L), NEW e \in L, s \in X PROVE Append(s, e) \in X
  <2>1. parseConf(Append(s, e)) = ParseLine(parseConf(s), e)
    BY ParseAppend
  <2>2. Shape(L, ParseLine(parseConf(s), e))
    BY <1>2, LineShape
  <2>3. Append(s, e) \in Seq(L)
    BY AppendProperties
  <2> QED BY <2>1, <2>2, <2>3
<1> HIDE DEF X
<1>3. Seq(L) \subseteq X
  BY <1>1, <1>2, SeqInduction
<1> QED BY <1>3 DEF X

\* parseConf reads back what writeConf has written.
LEMMA RoundTrip ==
    ASSUME NEW L, NEW h \in Seq(HeaderLines(L)), NEW ps \in Seq(PeerBlocks(L))
    PROVE  /\ Written(h, ps) \in Seq(L)
           /\ ps = <<>> => parseConf(Written(h, ps)) = St(h, ps, FALSE)
           /\ ps # <<>> => parseConf(Written(h, ps)) = St(h, ps, TRUE)
<1> DEFINE P == PeerBlocks(L)
           X == {qs \in Seq(P) : \/ qs = <<>> /\ parseConf(Written(h, qs)) = St(h, qs, FALSE)
                                 \/ qs # <<>> /\ parseConf(Written(h, qs)) = St(h, qs, TRUE)}
<1>0. h \in Seq(L) /\ \A qs \in Seq(P) : qs \in Seq(Seq(L)) /\ Written(h, qs) \in Seq(L)
  BY LineSets, WriteType
<1>1. <<>> \in X
  <2>1. Written(h, <<>>) = h
    BY WriteEmpty
  <2>2. parseConf(h) = St(h, <<>>, FALSE)
    BY ParseHeader, Zenon
  <2>3. <<>> \in Seq(P)
    OBVIOUS
  <2> QED BY <2>1, <2>2, <2>3, Zenon
<1>2. ASSUME NEW qs \in Seq(P), NEW p \in P, qs \in X PROVE Append(qs, p) \in X
  <2> DEFINE f == Written(h, qs)
  <2>0. p \in Seq(L) /\ qs \in Seq(Seq(L)) /\ f \in Seq(L)
    BY <1>0, Zenon DEF PeerBlocks
  <2>1. Written(h, Append(qs, p)) = f \o p
    BY <2>0, WriteAppend
  <2>2. PICK o : parseConf(f) = St(h, qs, o)
    BY <1>2, Zenon
  <2> HIDE DEF f
  <2>3. parseConf(f \o p) = St(h, Append(qs, p), TRUE)
    <3>1. p \in PeerBlocks(L)
      OBVIOUS
    <3> HIDE DEF P, X
    <3>2. parseConf(f \o p) = Opened(h, Append(qs, p))
      BY <2>0, <2>2, <3>1, ParsePeer
    <3> QED BY <3>2, Zenon DEF Opened
  <2>4. Append(qs, p) \in Seq(P) /\ Append(qs, p) # <<>>
    BY AppendProperties
  <2> QED BY <2>1, <2>3, <2>4, Zenon
<1>3. Seq(P) \subseteq X
  <2> HIDE DEF P, X
  <2> QED BY <1>1, <1>2, SeqInduction
<1>4. Written(h, ps) \in Seq(L)
  BY <1>0
<1> QED BY <1>3, <1>4, Zenon

-----------------------------------------------------------------------------
(* The fields of a peer and what formatPeer writes.                        *)

\* A nonempty set of numbers up to n has a greatest element.
LEMMA Greatest ==
    ASSUME NEW n \in Nat, NEW T, T \subseteq 1 .. n, T # {}
    PROVE  \E x \in T : \A y \in T : y <= x
<1> DEFINE R == {n - i : i \in T}
<1>0. PICK i \in T : TRUE
  BY Zenon
<1>1. R \subseteq Nat /\ n - i \in R
  OBVIOUS
<1>2. PICK z \in R : \A y \in R : z <= y
  BY <1>1, Least, Zenon
<1>3. PICK x \in T : z = n - x
  OBVIOUS
<1>4. ASSUME NEW y \in T PROVE y <= x
  <2>1. n - y \in R
    OBVIOUS
  <2>2. z <= n - y
    BY <1>2, <2>1
  <2> QED BY <1>3, <2>2
<1> QED BY <1>4

\* The lines of a kind.
Kind(p, k) == {i \in DOMAIN p : p[i].k = k}

\* A field has the value of its last line, or its default.
LEMMA FieldIs ==
    ASSUME NEW L, NEW p \in Seq(L), NEW k, NEW d
    PROVE  \/ Kind(p, k) = {} /\ Field(p, k, d) = d
           \/ \E m \in Kind(p, k) : /\ \A j \in Kind(p, k) : j <= m
                                    /\ Field(p, k, d) = p[m].v
<1>1. CASE Kind(p, k) = {}
  BY <1>1 DEF Kind, Field
<1>2. CASE Kind(p, k) # {}
  <2> DEFINE m == CHOOSE i \in Kind(p, k) : \A j \in Kind(p, k) : j <= i
  <2>1. Kind(p, k) \subseteq 1 .. Len(p) /\ Len(p) \in Nat
    BY DEF Kind
  <2>2. \E i \in Kind(p, k) : \A j \in Kind(p, k) : j <= i
    BY <1>2, <2>1, Greatest
  <2>3. m \in Kind(p, k) /\ \A j \in Kind(p, k) : j <= m
    BY <2>2
  <2>4. Field(p, k, d) = p[m].v
    BY <1>2 DEF Field, Kind
  <2> QED BY <2>3, <2>4, Zenon
<1> QED BY <1>1, <1>2

\* A line of another kind says nothing about a field.
LEMMA FieldSkips ==
    ASSUME NEW L, NEW p \in Seq(L), NEW l \in L, NEW k, l.k # k, NEW d
    PROVE  Field(Append(p, l), k, d) = Field(p, k, d)
<1> DEFINE q == Append(p, l)
<1>1. /\ q \in Seq(L) /\ DOMAIN p = 1 .. Len(p) /\ DOMAIN q = 1 .. Len(p) + 1 /\ Len(p) \in Nat
      /\ q[Len(p) + 1] = l /\ \A i \in 1 .. Len(p) : q[i] = p[i]
  BY AppendProperties
<1> HIDE DEF q
<1>2. \A i \in 1 .. Len(p) + 1 : i = Len(p) + 1 \/ i \in 1 .. Len(p)
  BY <1>1
<1>3. Kind(q, k) = Kind(p, k)
  BY <1>1, <1>2 DEF Kind
<1>4. \A i \in Kind(p, k) : q[i] = p[i] /\ i \in Int
  BY <1>1 DEF Kind
<1>5. CASE Kind(p, k) = {}
  BY <1>1, <1>3, <1>5, FieldIs, Zenon DEF q
<1>6. CASE Kind(p, k) # {}
  <2>1. PICK m \in Kind(p, k) : (\A j \in Kind(p, k) : j <= m) /\ Field(p, k, d) = p[m].v
    BY <1>6, FieldIs
  <2>2. PICK n \in Kind(p, k) : (\A j \in Kind(p, k) : j <= n) /\ Field(q, k, d) = q[n].v
    BY <1>1, <1>3, <1>6, FieldIs
  <2>3. m = n
    BY <1>4, <2>1, <2>2
  <2> QED BY <1>4, <2>1, <2>2, <2>3, Zenon DEF q
<1> QED BY <1>5, <1>6

\* A field with one line.
LEMMA FieldAt ==
    ASSUME NEW p, NEW k, NEW d, NEW i \in Nat, Kind(p, k) = {i}
    PROVE  Field(p, k, d) = p[i].v
<1>1. (CHOOSE m \in {i} : \A j \in {i} : j <= m) = i
  OBVIOUS
<1> QED BY <1>1 DEF Field, Kind

\* What formatPeer writes, without the blank line before.
Block(name, key, addr) ==
    <<Line("peer", 0), Line("name", name), Line("key", key), Line("ips", {addr})>>

\* What a peer written by formatPeer says when it is read without its blank line,
LEMMA BlockFields ==
    ASSUME NEW name, NEW key, NEW addr
    PROVE  /\ Name(Block(name, key, addr)) = name
           /\ Key(Block(name, key, addr)) = key
           /\ Ips(Block(name, key, addr)) = {addr}
<1> DEFINE b == Block(name, key, addr)
<1>1. /\ DOMAIN b = 1 .. 4
      /\ b[1] = Line("peer", 0) /\ b[2] = Line("name", name) /\ b[3] = Line("key", key)
      /\ b[4] = Line("ips", {addr})
  BY DEF Block
<1> HIDE DEF b
<1>2. /\ b[1].k = "peer" /\ b[2].k = "name" /\ b[3].k = "key" /\ b[4].k = "ips"
      /\ b[2].v = name /\ b[3].v = key /\ b[4].v = {addr}
  BY <1>1 DEF Line
<1>3. Kind(b, "name") = {2} /\ Kind(b, "key") = {3} /\ Kind(b, "ips") = {4}
  BY <1>1, <1>2 DEF Kind
<1>4. Name(b) = name /\ Key(b) = key /\ Ips(b) = {addr}
  BY <1>2, <1>3, FieldAt DEF Name, Key, Ips
<1> QED BY <1>4 DEF b

\* and with it.
LEMMA FormatFields ==
    ASSUME NEW name, NEW key, NEW addr
    PROVE  /\ Name(formatPeer(name, key, addr)) = name
           /\ Key(formatPeer(name, key, addr)) = key
           /\ Ips(formatPeer(name, key, addr)) = {addr}
<1> DEFINE b == formatPeer(name, key, addr)
<1>1. /\ DOMAIN b = 1 .. 5
      /\ b[1] = Blank /\ b[2] = Line("peer", 0) /\ b[3] = Line("name", name)
      /\ b[4] = Line("key", key) /\ b[5] = Line("ips", {addr})
  BY DEF formatPeer
<1> HIDE DEF b
<1>2. /\ b[1].k = "comment" /\ b[2].k = "peer" /\ b[3].k = "name" /\ b[4].k = "key" /\ b[5].k = "ips"
      /\ b[3].v = name /\ b[4].v = key /\ b[5].v = {addr}
  BY <1>1 DEF Line, Blank
<1>3. Kind(b, "name") = {3} /\ Kind(b, "key") = {4} /\ Kind(b, "ips") = {5}
  BY <1>1, <1>2 DEF Kind
<1>4. Name(b) = name /\ Key(b) = key /\ Ips(b) = {addr}
  BY <1>2, <1>3, FieldAt DEF Name, Key, Ips
<1> QED BY <1>4 DEF b

\* formatPeer writes a blank line and a peer.
LEMMA FormatBlock ==
    ASSUME NEW L, Blank \in L, Line("peer", 0) \in L, NEW name, Line("name", name) \in L,
           NEW key, Line("key", key) \in L, NEW addr, Line("ips", {addr}) \in L
    PROVE  /\ Block(name, key, addr) \in PeerBlocks(L)
           /\ formatPeer(name, key, addr) \in Seq(L)
           /\ formatPeer(name, key, addr) = <<Blank>> \o Block(name, key, addr)
<1> DEFINE i == <<Line("name", name), Line("key", key), Line("ips", {addr})>>
<1>1. /\ Line("name", name) \in InnerLines(L) /\ Line("key", key) \in InnerLines(L)
      /\ Line("ips", {addr}) \in InnerLines(L) /\ Line("peer", 0).k = "peer"
  BY DEF InnerLines, Line
<1>2. i \in Seq(InnerLines(L))
  BY <1>1
<1>3. Block(name, key, addr) = <<Line("peer", 0)>> \o i /\ Block(name, key, addr) \in Seq(L)
  BY DEF Block
<1>4. /\ formatPeer(name, key, addr) = <<Blank>> \o Block(name, key, addr)
      /\ formatPeer(name, key, addr) \in Seq(L)
  BY DEF formatPeer, Block
<1> QED BY <1>1, <1>2, <1>3, <1>4, Zenon DEF PeerBlocks

-----------------------------------------------------------------------------
(* Pick, the loop behind Said and Unnamed.                                 *)

\* One step of Pick.
Taking(s, I, t, i) == IF i \in I THEN Append(t, s[i]) ELSE t

\* The states of the loop of Pick.
PickLoop(s, I, n, g) == g = [i \in 0 .. n |-> IF i = 0 THEN <<>> ELSE Taking(s, I, g[i - 1], i)]

\* One turn of the loop.
LEMMA PickLoopNext ==
    ASSUME NEW s, NEW I, NEW n \in Nat, NEW g, PickLoop(s, I, n, g), NEW k \in Nat, k + 1 <= n
    PROVE  g[k + 1] = Taking(s, I, g[k], k + 1)
<1>1. k + 1 \in 0 .. n /\ k + 1 # 0 /\ k + 1 - 1 = k
  OBVIOUS
<1>2. g[k + 1] = Taking(s, I, g[k + 1 - 1], k + 1)
  BY <1>1 DEF PickLoop
<1> QED BY <1>1, <1>2

\* The recursion of Pick is well founded.
LEMMA PickLoopExists ==
    ASSUME NEW s, NEW I, NEW n \in Nat
    PROVE  \E g : PickLoop(s, I, n, g)
<1> DEFINE S == {m \in Nat : \E g : PickLoop(s, I, m, g)}
<1>1. 0 \in S
  <2> DEFINE g == [i \in 0 .. 0 |-> <<>>]
  <2>1. g = [i \in 0 .. 0 |-> IF i = 0 THEN <<>> ELSE Taking(s, I, g[i - 1], i)]
    OBVIOUS
  <2>2. PickLoop(s, I, 0, g)
    BY <2>1 DEF PickLoop
  <2> QED BY <2>2
<1>2. ASSUME NEW m \in Nat, m \in S PROVE m + 1 \in S
  <2>1. PICK g : PickLoop(s, I, m, g)
    BY <1>2
  <2> DEFINE h == [i \in 0 .. m + 1 |-> IF i = m + 1 THEN Taking(s, I, g[m], m + 1) ELSE g[i]]
  <2>2. \A i \in 0 .. m + 1 : h[i] = IF i = 0 THEN <<>> ELSE Taking(s, I, h[i - 1], i)
    <3> SUFFICES ASSUME NEW i \in 0 .. m + 1
                 PROVE h[i] = IF i = 0 THEN <<>> ELSE Taking(s, I, h[i - 1], i)
      OBVIOUS
    <3>1. CASE i = m + 1
      <4>1. h[m + 1] = Taking(s, I, g[m], m + 1) /\ h[m] = g[m] /\ i # 0 /\ i - 1 = m
        BY <3>1
      <4> QED BY <3>1, <4>1
    <3>2. CASE i \in 0 .. m
      <4>1. h[i] = g[i] /\ (i # 0 => h[i - 1] = g[i - 1])
        BY <3>2
      <4>2. g[i] = IF i = 0 THEN <<>> ELSE Taking(s, I, g[i - 1], i)
        BY <2>1, <3>2 DEF PickLoop
      <4> QED BY <4>1, <4>2
    <3> QED BY <3>1, <3>2
  <2>3. h = [i \in 0 .. m + 1 |-> IF i = 0 THEN <<>> ELSE Taking(s, I, h[i - 1], i)]
    BY <2>2
  <2> HIDE DEF h
  <2>4. PickLoop(s, I, m + 1, h)
    BY <2>3 DEF PickLoop
  <2> QED BY <2>4
<1> HIDE DEF S
<1>3. Nat \subseteq S
  BY <1>1, <1>2, SetInduction
<1> QED BY <1>3 DEF S

\* Pick returns the last state of its loop.
LEMMA PickIsLoop ==
    ASSUME NEW s, NEW I, Len(s) \in Nat
    PROVE  \E g : PickLoop(s, I, Len(s), g) /\ Pick(s, I) = g[Len(s)]
<1> DEFINE r == CHOOSE g : g = [i \in 0 .. Len(s) |->
                  IF i = 0 THEN <<>> ELSE IF i \in I THEN Append(g[i - 1], s[i]) ELSE g[i - 1]]
<1>1. r = [i \in 0 .. Len(s) |->
                  IF i = 0 THEN <<>> ELSE IF i \in I THEN Append(r[i - 1], s[i]) ELSE r[i - 1]]
  <2>1. \E g : PickLoop(s, I, Len(s), g)
    BY PickLoopExists
  <2>2. \E g : g = [i \in 0 .. Len(s) |->
                  IF i = 0 THEN <<>> ELSE IF i \in I THEN Append(g[i - 1], s[i]) ELSE g[i - 1]]
    BY <2>1, Zenon DEF PickLoop, Taking
  <2> QED BY <2>2, Zenon
<1>2. Pick(s, I) = r[Len(s)]
  BY DEF Pick
<1>3. PickLoop(s, I, Len(s), r)
  BY <1>1, Zenon DEF PickLoop, Taking
<1> QED BY <1>2, <1>3, Zenon

\* The states depend on the elements up to there only.
LEMMA PickLoopUnique ==
    ASSUME NEW s, NEW I, NEW n \in Nat, NEW g, PickLoop(s, I, n, g),
           NEW t, NEW J, NEW m \in Nat, n <= m, NEW h, PickLoop(t, J, m, h),
           \A i \in 1 .. n : s[i] = t[i] /\ (i \in I <=> i \in J)
    PROVE  g[n] = h[n]
<1> DEFINE S == {k \in Nat : k <= n => g[k] = h[k]}
<1>1. 0 \in S
  BY DEF PickLoop
<1>2. ASSUME NEW k \in Nat, k \in S PROVE k + 1 \in S
  <2> SUFFICES ASSUME k + 1 <= n PROVE g[k + 1] = h[k + 1]
    OBVIOUS
  <2>1. k + 1 \in 1 .. n /\ k + 1 <= m
    OBVIOUS
  <2>2. g[k + 1] = Taking(s, I, g[k], k + 1)
    BY <2>1, PickLoopNext
  <2>3. h[k + 1] = Taking(t, J, h[k], k + 1)
    BY <2>1, PickLoopNext
  <2>4. g[k] = h[k]
    BY <1>2
  <2> QED BY <2>1, <2>2, <2>3, <2>4 DEF Taking
<1> HIDE DEF S
<1>3. Nat \subseteq S
  BY <1>1, <1>2, SetInduction
<1> QED BY <1>3 DEF S

\* There is nothing to pick from the empty sequence.
LEMMA PickEmpty == ASSUME NEW I PROVE Pick(<<>>, I) = <<>>
<1>1. Len(<<>>) = 0
  OBVIOUS
<1>2. PICK g : PickLoop(<<>>, I, 0, g) /\ Pick(<<>>, I) = g[0]
  BY <1>1, PickIsLoop
<1> QED BY <1>2 DEF PickLoop

\* One more element is picked or it is not.
LEMMA PickAppend ==
    ASSUME NEW T, NEW s \in Seq(T), NEW e \in T, NEW I, NEW J,
           \A i \in 1 .. Len(s) : i \in I <=> i \in J
    PROVE  Pick(Append(s, e), J) =
              IF Len(s) + 1 \in J THEN Append(Pick(s, I), e) ELSE Pick(s, I)
<1> DEFINE n == Len(s)
           t == Append(s, e)
<1>1. n \in Nat /\ Len(t) = n + 1 /\ t[n + 1] = e /\ \A i \in 1 .. n : s[i] = t[i]
  BY AppendProperties
<1>a. \A i \in 1 .. n : i \in I <=> i \in J
  OBVIOUS
<1> HIDE DEF n, t
<1>2. PICK g : PickLoop(s, I, n, g) /\ Pick(s, I) = g[n]
  BY <1>1, PickIsLoop DEF n
<1>3. PICK h : PickLoop(t, J, n + 1, h) /\ Pick(t, J) = h[n + 1]
  BY <1>1, PickIsLoop
<1>b. n + 1 \in Nat /\ n <= n + 1 /\ n + 1 <= n + 1
  BY <1>1
<1>c. \A i \in 1 .. n : s[i] = t[i] /\ (i \in I <=> i \in J)
  BY <1>1, <1>a
<1>4. g[n] = h[n]
  BY <1>1, <1>2, <1>3, <1>b, <1>c, PickLoopUnique
<1>5. h[n + 1] = Taking(t, J, h[n], n + 1)
  <2>1. \A N \in Nat : PickLoop(t, J, N, h) => \A k \in Nat :
            k + 1 <= N => h[k + 1] = Taking(t, J, h[k], k + 1)
    BY PickLoopNext
  <2> QED BY <1>1, <1>3, <1>b, <2>1
<1>6. h[n + 1] = IF n + 1 \in J THEN Append(h[n], e) ELSE h[n]
  BY <1>1, <1>5 DEF Taking
<1> QED BY <1>2, <1>3, <1>4, <1>6 DEF t, n

-----------------------------------------------------------------------------
(* What is left alone when a blank line is added, and a peer added or removed.*)

\* A blank line is nothing said.
LEMMA SaidSkips ==
    ASSUME NEW L, Blank \in L, NEW p \in Seq(L)
    PROVE  Said(Append(p, Blank)) = Said(p)
<1> DEFINE q == Append(p, Blank)
           I == {i \in DOMAIN p : p[i].k # "comment"}
           J == {i \in DOMAIN q : q[i].k # "comment"}
<1>1. /\ Len(p) \in Nat /\ DOMAIN p = 1 .. Len(p) /\ DOMAIN q = 1 .. Len(p) + 1
      /\ q[Len(p) + 1] = Blank /\ \A i \in 1 .. Len(p) : q[i] = p[i]
  BY AppendProperties
<1>2. Blank.k = "comment"
  BY DEF Blank, Line
<1> HIDE DEF q
<1>3. Len(p) + 1 \notin J /\ \A i \in 1 .. Len(p) : i \in I <=> i \in J
  BY <1>1, <1>2
<1> HIDE DEF I, J
<1>4. Pick(q, J) = Pick(p, I)
  BY <1>3, PickAppend DEF q
<1> QED BY <1>4, Zenon DEF Said, I, J, q

\* One more peer.
LEMMA UnnamedAppend ==
    ASSUME NEW L, NEW ps \in Seq(Seq(L)), NEW p \in Seq(L)
    PROVE  Unnamed(Append(ps, p)) =
              IF Name(p) = Nobody THEN Append(Unnamed(ps), Said(p)) ELSE Unnamed(ps)
<1> DEFINE qs == Append(ps, p)
           T == {Said(x) : x \in Seq(L)}
           s == [i \in DOMAIN ps |-> Said(ps[i])]
           t == [i \in DOMAIN qs |-> Said(qs[i])]
           I == {i \in DOMAIN ps : Name(ps[i]) = Nobody}
           J == {i \in DOMAIN qs : Name(qs[i]) = Nobody}
           n == Len(ps)
<1>1. /\ n \in Nat /\ DOMAIN ps = 1 .. n /\ DOMAIN qs = 1 .. n + 1
      /\ qs[n + 1] = p /\ \A i \in 1 .. n : qs[i] = ps[i] /\ ps[i] \in Seq(L)
  BY AppendProperties
<1> HIDE DEF qs, n
<1>2. s \in Seq(T) /\ Len(s) = n /\ Said(p) \in T
  <2>1. Said(p) \in T /\ \A i \in 1 .. n : Said(ps[i]) \in T
    BY <1>1
  <2> HIDE DEF T
  <2>2. s \in [1 .. n -> T]
    BY <1>1, <2>1
  <2> HIDE DEF s
  <2> QED BY <1>1, <2>1, <2>2
<1>3. Append(s, Said(p)) = t
  <2>1. t \in Seq(T) /\ Len(t) = n + 1
    <3>1. \A i \in 1 .. n + 1 : i = n + 1 \/ i \in 1 .. n
      BY <1>1
    <3>2. \A i \in 1 .. n + 1 : Said(qs[i]) \in T
      BY <1>1, <3>1
    <3> HIDE DEF T
    <3>3. t \in [1 .. n + 1 -> T] /\ n + 1 \in Nat
      BY <1>1, <3>2
    <3> HIDE DEF t
    <3> QED BY <3>3
  <2>2. /\ Append(s, Said(p)) \in Seq(T) /\ Len(Append(s, Said(p))) = n + 1
        /\ Append(s, Said(p))[n + 1] = Said(p)
        /\ \A i \in 1 .. n : Append(s, Said(p))[i] = s[i]
    <3> HIDE DEF s, T
    <3> QED BY <1>2, AppendProperties
  <2>3. t[n + 1] = Said(p) /\ \A i \in 1 .. n : t[i] = Said(ps[i]) /\ s[i] = Said(ps[i])
    BY <1>1
  <2>4. \A i \in 1 .. n + 1 : i = n + 1 \/ i \in 1 .. n
    BY <1>1
  <2> HIDE DEF s, t, T
  <2>5. \A i \in 1 .. n + 1 : Append(s, Said(p))[i] = t[i]
    BY <2>2, <2>3, <2>4
  <2> QED BY <2>1, <2>2, <2>5, SeqEqual
<1>4. (\A i \in 1 .. n : i \in I <=> i \in J) /\ (n + 1 \in J <=> Name(p) = Nobody)
  BY <1>1
<1>5. Unnamed(ps) = Pick(s, I) /\ Unnamed(qs) = Pick(t, J)
  BY DEF Unnamed
<1> HIDE DEF s, t, I, J, T
<1>6. Pick(Append(s, Said(p)), J) = IF n + 1 \in J THEN Append(Pick(s, I), Said(p)) ELSE Pick(s, I)
  BY <1>2, <1>4, PickAppend
<1> QED BY <1>3, <1>4, <1>5, <1>6 DEF qs

\* A sequence without its i-th element.
Without(s, i) == SubSeq(s, 1, i - 1) \o SubSeq(s, i + 1, Len(s))

\* It is one shorter, and the elements after the i-th move down.
LEMMA WithoutIs ==
    ASSUME NEW S, NEW s \in Seq(S), NEW i \in 1 .. Len(s)
    PROVE  /\ Without(s, i) \in Seq(S) /\ Len(Without(s, i)) = Len(s) - 1
           /\ \A j \in 1 .. Len(s) - 1 : Without(s, i)[j] = IF j < i THEN s[j] ELSE s[j + 1]
<1> DEFINE u == SubSeq(s, 1, i - 1)
           v == SubSeq(s, i + 1, Len(s))
<1>1. /\ u \in Seq(S) /\ Len(u) = i - 1 /\ \A j \in 1 .. i - 1 : u[j] = s[j]
  <2>1. \A j \in 1 .. i - 1 : s[j] \in S
    OBVIOUS
  <2> QED BY <2>1, SubSeqProperties
<1>2. /\ v \in Seq(S) /\ Len(v) = Len(s) - i /\ \A j \in 1 .. Len(s) - i : v[j] = s[i + j]
  <2>1. \A j \in i + 1 .. Len(s) : s[j] \in S
    OBVIOUS
  <2> QED BY <2>1, SubSeqProperties
<1>3. Without(s, i) = u \o v
  BY DEF Without
<1> HIDE DEF u, v
<1>4. /\ u \o v \in Seq(S) /\ Len(u \o v) = Len(s) - 1
      /\ \A j \in 1 .. Len(s) - 1 : (u \o v)[j] = IF j <= i - 1 THEN u[j] ELSE v[j - (i - 1)]
  BY <1>1, <1>2, ConcatProperties
<1>5. \A j \in 1 .. Len(s) - 1 : ~(j < i) => v[j - (i - 1)] = s[j + 1]
  BY <1>2
<1>6. \A j \in 1 .. Len(s) - 1 : j < i => u[j] = s[j]
  BY <1>1
<1>7. \A j \in 1 .. Len(s) - 1 : j <= i - 1 <=> j < i
  OBVIOUS
<1> QED BY <1>3, <1>4, <1>5, <1>6, <1>7

\* Removing the element that was appended.
LEMMA RemoveLast ==
    ASSUME NEW S, NEW s \in Seq(S), NEW e \in S
    PROVE  Without(Append(s, e), Len(s) + 1) = s
<1> DEFINE t == Append(s, e)
           n == Len(s)
<1>1. t \in Seq(S) /\ Len(t) = n + 1 /\ n \in Nat /\ \A j \in 1 .. n : t[j] = s[j]
  BY AppendProperties
<1> HIDE DEF t
<1>a. n + 1 \in 1 .. Len(t)
  BY <1>1
<1>2. /\ Without(t, n + 1) \in Seq(S) /\ Len(Without(t, n + 1)) = Len(t) - 1
      /\ \A j \in 1 .. Len(t) - 1 : Without(t, n + 1)[j] = IF j < n + 1 THEN t[j] ELSE t[j + 1]
  BY <1>1, <1>a, WithoutIs, Zenon
<1>3. /\ Len(Without(t, n + 1)) = n /\ \A j \in 1 .. n : Without(t, n + 1)[j] = s[j]
  BY <1>1, <1>2
<1> QED BY <1>1, <1>2, <1>3, SeqEqual DEF t

\* Removing an element before it.
LEMMA RemoveBefore ==
    ASSUME NEW S, NEW s \in Seq(S), NEW e \in S, NEW i \in 1 .. Len(s)
    PROVE  Without(Append(s, e), i) = Append(Without(s, i), e)
<1> DEFINE t == Append(s, e)
           n == Len(s)
           r == Without(s, i)
           q == Without(t, i)
<1>1. /\ t \in Seq(S) /\ Len(t) = n + 1 /\ n \in Nat /\ t[n + 1] = e
      /\ \A j \in 1 .. n : t[j] = s[j]
  BY AppendProperties
<1> HIDE DEF t
<1>a. i \in 1 .. Len(t) /\ Len(t) - 1 = n
  BY <1>1
<1>2. /\ q \in Seq(S) /\ Len(q) = Len(t) - 1
      /\ \A j \in 1 .. Len(t) - 1 : q[j] = IF j < i THEN t[j] ELSE t[j + 1]
  BY <1>1, <1>a, WithoutIs, Zenon
<1>3. /\ r \in Seq(S) /\ Len(r) = n - 1
      /\ \A j \in 1 .. n - 1 : r[j] = IF j < i THEN s[j] ELSE s[j + 1]
  BY WithoutIs
<1> HIDE DEF q, r
<1>4. /\ Append(r, e) \in Seq(S) /\ Len(Append(r, e)) = n /\ Append(r, e)[n] = e
      /\ \A j \in 1 .. n - 1 : Append(r, e)[j] = r[j]
  BY <1>1, <1>3, AppendProperties
<1>5. ASSUME NEW j \in 1 .. n PROVE q[j] = Append(r, e)[j]
  <2>1. CASE j = n
    BY <1>1, <1>2, <1>4, <1>a, <2>1
  <2>2. CASE j \in 1 .. n - 1
    <3>1. Append(r, e)[j] = IF j < i THEN s[j] ELSE s[j + 1]
      BY <1>3, <1>4, <2>2
    <3>2. q[j] = IF j < i THEN t[j] ELSE t[j + 1]
      BY <1>2, <1>a, Zenon
    <3>3. t[j] = s[j] /\ t[j + 1] = s[j + 1]
      BY <1>1, <2>2
    <3> QED BY <3>1, <3>2, <3>3
  <2>3. j = n \/ j \in 1 .. n - 1
    OBVIOUS
  <2> QED BY <2>1, <2>2, <2>3, Zenon
<1>6. q = Append(r, e)
  <2>1. Len(q) = n
    BY <1>2, <1>a
  <2> DEFINE w == Append(r, e)
  <2>2. q \in Seq(S) /\ w \in Seq(S) /\ Len(w) = n /\ \A j \in 1 .. n : q[j] = w[j]
    BY <1>2, <1>4, <1>5
  <2> HIDE DEF w
  <2>3. q = w
    BY <2>1, <2>2, SeqEqual
  <2> QED BY <2>3 DEF w
<1> QED BY <1>6 DEF q, r, t

\* Removing a peer with a name leaves those without one.
LEMMA UnnamedRemove ==
    ASSUME NEW L, NEW ps \in Seq(Seq(L)), NEW i \in 1 .. Len(ps), Name(ps[i]) # Nobody
    PROVE  Unnamed(Without(ps, i)) = Unnamed(ps)
<1> DEFINE P == Seq(L)
           X == {qs \in Seq(P) : \A k \in 1 .. Len(qs) :
                    Name(qs[k]) # Nobody => Unnamed(Without(qs, k)) = Unnamed(qs)}
<1>1. <<>> \in X
  OBVIOUS
<1>2. ASSUME NEW qs \in Seq(P), NEW p \in P, qs \in X PROVE Append(qs, p) \in X
  <2> DEFINE rs == Append(qs, p)
  <2>1. /\ rs \in Seq(P) /\ Len(rs) = Len(qs) + 1 /\ rs[Len(qs) + 1] = p
        /\ \A k \in 1 .. Len(qs) : rs[k] = qs[k]
    BY AppendProperties
  <2>2. Unnamed(rs) = IF Name(p) = Nobody THEN Append(Unnamed(qs), Said(p)) ELSE Unnamed(qs)
    BY UnnamedAppend
  <2>3. ASSUME NEW k \in 1 .. Len(rs), Name(rs[k]) # Nobody
        PROVE  Unnamed(Without(rs, k)) = Unnamed(rs)
    <3>1. CASE k = Len(qs) + 1
      <4>1. Without(rs, k) = qs
        BY <3>1, RemoveLast
      <4>2. Name(p) # Nobody
        BY <2>1, <2>3, <3>1
      <4> QED BY <2>2, <4>1, <4>2
    <3>2. CASE k \in 1 .. Len(qs)
      <4>1. Without(rs, k) = Append(Without(qs, k), p)
        BY <3>2, RemoveBefore
      <4>2. Without(qs, k) \in Seq(P)
        BY <3>2, WithoutIs
      <4>3. Unnamed(Without(rs, k)) = IF Name(p) = Nobody
              THEN Append(Unnamed(Without(qs, k)), Said(p)) ELSE Unnamed(Without(qs, k))
        BY <4>1, <4>2, UnnamedAppend
      <4>4. Unnamed(Without(qs, k)) = Unnamed(qs)
        BY <1>2, <2>1, <2>3, <3>2
      <4> QED BY <2>2, <4>3, <4>4
    <3>3. k = Len(qs) + 1 \/ k \in 1 .. Len(qs)
      BY <2>1
    <3> QED BY <3>1, <3>2, <3>3
  <2> HIDE DEF rs
  <2> QED BY <2>1, <2>3, Zenon DEF rs
<1> HIDE DEF P, X
<1>3. Seq(P) \subseteq X
  BY <1>1, <1>2, SeqInduction, Zenon
<1> QED BY <1>3 DEF P, X

-----------------------------------------------------------------------------
(* The file that Provision and Revoke write.                               *)

\* Peers that say the same to strippedConf, existingPeerAddrs and Revoke.
Alike(p, q) == Name(p) = Name(q) /\ Key(p) = Key(q) /\ Ips(p) = Ips(q)
Same(ps, qs) == DOMAIN ps = DOMAIN qs /\ \A i \in DOMAIN ps : Alike(ps[i], qs[i])

\* Intervals that are equal have equal ends.
LEMMA IntervalEnds ==
    ASSUME NEW m \in Nat, NEW n \in Nat, 1 .. m = 1 .. n
    PROVE  m = n
<1>1. (m \in 1 .. m <=> m \in 1 .. n) /\ (n \in 1 .. m <=> n \in 1 .. n)
  OBVIOUS
<1>2. CASE m < n
  BY <1>1, <1>2
<1>3. CASE n < m
  BY <1>1, <1>3
<1> QED BY <1>2, <1>3

\* Concatenation is associative.
LEMMA JoinAssociative ==
    ASSUME NEW L, NEW s \in Seq(L), NEW t \in Seq(L), NEW u \in Seq(L)
    PROVE  Join(s, t) \in Seq(L) /\ Join(Join(s, t), u) = Join(s, Join(t, u))
  BY ConcatProperties, ConcatAssociative DEF Join

\* Peers that are alike, with one more pair of peers that are alike.
LEMMA SameAppend ==
    ASSUME NEW S, NEW ps \in Seq(S), NEW qs \in Seq(S), NEW p \in S, NEW q \in S,
           Same(ps, qs), Alike(p, q)
    PROVE  Same(Append(ps, p), Append(qs, q))
<1> DEFINE u == Append(ps, p)
           v == Append(qs, q)
           n == Len(ps)
<1>0. n \in Nat /\ DOMAIN ps = 1 .. n /\ DOMAIN qs = 1 .. Len(qs) /\ Len(qs) \in Nat
  OBVIOUS
<1>1. Len(qs) = n
  <2>1. 1 .. n = 1 .. Len(qs)
    BY <1>0, Zenon DEF Same
  <2> QED BY <1>0, <2>1, IntervalEnds, Zenon
<1>2. /\ DOMAIN u = 1 .. n + 1 /\ DOMAIN v = 1 .. n + 1 /\ u[n + 1] = p /\ v[n + 1] = q
      /\ \A i \in 1 .. n : u[i] = ps[i] /\ v[i] = qs[i]
  BY <1>1, AppendProperties
<1>3. \A i \in 1 .. n + 1 : i = n + 1 \/ i \in 1 .. n
  OBVIOUS
<1>4. \A i \in 1 .. n : Alike(ps[i], qs[i])
  BY <1>0 DEF Same
<1> HIDE DEF u, v, n
<1>5. \A i \in 1 .. n + 1 : Alike(u[i], v[i])
  BY <1>2, <1>3, <1>4
<1>6. Same(u, v)
  BY <1>2, <1>5 DEF Same
<1> QED BY <1>6 DEF u, v

\* A blank line changes nothing that a peer says.
LEMMA BlankAlike ==
    ASSUME NEW L, Blank \in L, NEW p \in Seq(L)
    PROVE  Alike(Append(p, Blank), p)
<1>1. Blank.k = "comment"
  BY DEF Blank, Line
<1>2. Blank.k # "name" /\ Blank.k # "key" /\ Blank.k # "ips"
  BY <1>1
<1> QED BY <1>2, FieldSkips DEF Alike, Name, Key, Ips

\* The parts of such a state.
LEMMA OpenedParts ==
    ASSUME NEW h, NEW ps
    PROVE  Opened(h, ps).header = h /\ Opened(h, ps).peers = ps
  BY StParts, Zenon DEF Opened

\* Writing a new peer: the file that is read next has it, the peers before say what they
\* said, and only a blank line has been added to them or to the header.
LEMMA ProvisionWrites ==
    ASSUME NEW L, NEW h \in Seq(HeaderLines(L)), NEW ps \in Seq(PeerBlocks(L)), NEW o,
           Blank \in L, Line("peer", 0) \in L, NEW name, Line("name", name) \in L,
           NEW key, Line("key", key) \in L, NEW addr, Line("ips", {addr}) \in L,
           name # Nobody,
           NEW g, g = writeConf(St(h, Append(ps, formatPeer(name, key, addr)), o))
    PROVE  /\ g \in Seq(L)
           /\ Same(parseConf(g).peers, Append(ps, formatPeer(name, key, addr)))
           /\ Said(parseConf(g).header) = Said(h)
           /\ Unnamed(parseConf(g).peers) = Unnamed(ps)
<1> DEFINE np == formatPeer(name, key, addr)
           b == Block(name, key, addr)
           f == Written(h, ps)
<1>1. b \in PeerBlocks(L) /\ b \in Seq(L) /\ np \in Seq(L) /\ np = <<Blank>> \o b
  <2>1. b \in PeerBlocks(L) /\ np \in Seq(L) /\ np = <<Blank>> \o b
    BY FormatBlock
  <2>2. b \in Seq(L)
    BY <2>1 DEF PeerBlocks
  <2> QED BY <2>1, <2>2
<1>2. Alike(b, np) /\ Name(b) # Nobody
  <2>1. Name(b) = name /\ Key(b) = key /\ Ips(b) = {addr}
    BY BlockFields
  <2>2. Name(np) = name /\ Key(np) = key /\ Ips(np) = {addr}
    BY FormatFields
  <2> QED BY <2>1, <2>2 DEF Alike
<1>3. h \in Seq(L) /\ ps \in Seq(Seq(L)) /\ f \in Seq(L) /\ <<Blank>> \in Seq(L)
  <2>1. h \in Seq(L) /\ ps \in Seq(Seq(L)) /\ <<Blank>> \in Seq(L)
    BY LineSets
  <2> HIDE DEF np, b
  <2> QED BY <2>1, WriteType
<1>4. g = Written(h, Append(ps, np))
  BY WrittenIs
<1>5. Written(h, Append(ps, np)) = f \o np
  <2> HIDE DEF np, b
  <2>1. np \in Seq(L)
    BY <1>1
  <2> QED BY <1>3, <2>1, WriteAppend
<1>a. ps = <<>> => parseConf(f) = St(h, ps, FALSE)
  BY RoundTrip, Zenon
<1>b. ps # <<>> => parseConf(f) = St(h, ps, TRUE)
  BY RoundTrip, Zenon
<1> HIDE DEF np, b, f
<1>6. f \o (<<Blank>> \o b) = (f \o <<Blank>>) \o b
  <2> DEFINE bl == <<Blank>>
  <2>1. f \in Seq(L) /\ bl \in Seq(L) /\ b \in Seq(L)
    BY <1>1, <1>3
  <2> HIDE DEF bl
  <2>2. Join(f, Join(bl, b)) = Join(Join(f, bl), b)
    BY <2>1, JoinAssociative
  <2> QED BY <2>2, Zenon DEF Join, bl
<1>8. f \o <<Blank>> = Append(f, Blank)
  BY <1>3, AppendIsConcat
<1>9. g = Append(f, Blank) \o b
  BY <1>1, <1>4, <1>5, <1>6, <1>8, Zenon
<1>10. Append(f, Blank) \in Seq(L) /\ g \in Seq(L)
  <2>1. Append(f, Blank) \in Seq(L)
    BY <1>3, AppendProperties
  <2> QED BY <1>1, <1>9, <2>1, ConcatProperties
<1>11. Blank.k \notin {"peer", "section"} /\ Blank \in InnerLines(L) /\ Blank \in HeaderLines(L)
  BY DEF Blank, Line, InnerLines, HeaderLines
<1>12. parseConf(Append(f, Blank)) = ParseLine(parseConf(f), Blank)
  BY <1>3, ParseAppend
<1>13. ASSUME NEW h2, NEW qs \in Seq(Seq(L)), NEW o2, parseConf(Append(f, Blank)) = St(h2, qs, o2)
       PROVE  parseConf(g).header = h2 /\ parseConf(g).peers = Append(qs, b)
  <2>1. parseConf(Append(f, Blank) \o b) = Opened(h2, Append(qs, b))
    <3> DEFINE f2 == Append(f, Blank)
    <3>1. f2 \in Seq(L) /\ b \in PeerBlocks(L) /\ parseConf(f2) = St(h2, qs, o2)
      BY <1>1, <1>10, <1>13
    <3> HIDE DEF f2
    <3>2. parseConf(f2 \o b) = Opened(h2, Append(qs, b))
      BY <3>1, ParsePeer
    <3> QED BY <3>2 DEF f2
  <2>2. parseConf(g) = Opened(h2, Append(qs, b))
    BY <1>9, <2>1, Zenon
  <2>3. /\ Opened(h2, Append(qs, b)).header = h2
        /\ Opened(h2, Append(qs, b)).peers = Append(qs, b)
    BY OpenedParts, Zenon
  <2> QED BY <2>2, <2>3, Zenon
<1>14. ASSUME NEW qs \in Seq(Seq(L)), parseConf(g).peers = Append(qs, b), Same(qs, ps), Unnamed(qs) = Unnamed(ps)
       PROVE  Same(parseConf(g).peers, Append(ps, np)) /\ Unnamed(parseConf(g).peers) = Unnamed(ps)
  <2>1. Same(Append(qs, b), Append(ps, np))
    BY <1>1, <1>2, <1>3, <1>14, SameAppend, Zenon
  <2>2. Unnamed(Append(qs, b)) = Unnamed(qs)
    BY <1>1, <1>2, UnnamedAppend
  <2> QED BY <1>14, <2>1, <2>2
<1>15. CASE ps = <<>>
  <2>1. parseConf(Append(f, Blank)) = St(Append(h, Blank), ps, FALSE)
    <3>1. ParseLine(St(h, ps, FALSE), Blank) = St(Append(h, Blank), ps, FALSE)
      BY <1>11, LineInHeader, Zenon
    <3> QED BY <1>a, <1>12, <1>15, <3>1, Zenon
  <2>2. \E o2 : parseConf(Append(f, Blank)) = St(Append(h, Blank), ps, o2)
    BY <2>1, Zenon
  <2>3. parseConf(g).header = Append(h, Blank) /\ parseConf(g).peers = Append(ps, b)
    BY <1>3, <1>13, <2>2, Zenon
  <2>4. Said(Append(h, Blank)) = Said(h)
    BY <1>3, SaidSkips
  <2>5. Same(ps, ps)
    BY DEF Same, Alike
  <2>6. Same(parseConf(g).peers, Append(ps, np)) /\ Unnamed(parseConf(g).peers) = Unnamed(ps)
    BY <1>3, <1>14, <2>3, <2>5
  <2> QED BY <1>10, <2>3, <2>4, <2>6 DEF np
<1>16. CASE ps # <<>>
  <2>1. PICK rs \in Seq(Seq(L)), p \in Seq(L) : ps = Append(rs, p)
    BY <1>3, <1>16, SequenceEmptyOrAppend
  <2> DEFINE q == Append(p, Blank)
             qs == Append(rs, q)
  <2>a. q \in Seq(L) /\ Alike(q, p) /\ Said(q) = Said(p)
    BY BlankAlike, SaidSkips, AppendProperties
  <2>b. Name(q) = Name(p)
    BY <2>a DEF Alike
  <2>c. GrowLast(ps, Blank) = qs
    BY <2>1, LastGrows
  <2> HIDE DEF q
  <2>2. qs \in Seq(Seq(L))
    BY <2>a, AppendProperties
  <2>3. Same(qs, ps)
    <3>1. Same(rs, rs)
      BY DEF Same, Alike
    <3> QED BY <2>1, <2>a, <3>1, SameAppend
  <2>4. Unnamed(qs) = Unnamed(ps)
    <3>1. Unnamed(qs) = IF Name(q) = Nobody THEN Append(Unnamed(rs), Said(q)) ELSE Unnamed(rs)
      BY <2>a, UnnamedAppend
    <3>2. Unnamed(ps) = IF Name(p) = Nobody THEN Append(Unnamed(rs), Said(p)) ELSE Unnamed(rs)
      BY <2>1, UnnamedAppend
    <3> QED BY <2>a, <2>b, <3>1, <3>2
  <2> HIDE DEF qs
  <2>5. \E o2 : parseConf(Append(f, Blank)) = St(h, qs, o2)
    <3>1. ParseLine(St(h, ps, TRUE), Blank) = St(h, GrowLast(ps, Blank), TRUE)
      BY <1>11, LineInPeer, Zenon
    <3> QED BY <1>12, <1>16, <1>b, <2>c, <3>1, Zenon
  <2>6. parseConf(g).header = h /\ parseConf(g).peers = Append(qs, b)
    BY <1>13, <2>2, <2>5
  <2>7. Same(parseConf(g).peers, Append(ps, np)) /\ Unnamed(parseConf(g).peers) = Unnamed(ps)
    BY <1>14, <2>2, <2>3, <2>4, <2>6, Zenon
  <2> QED BY <1>10, <2>6, <2>7 DEF np
<1> QED BY <1>15, <1>16

\* The lines of a new peer's block are lines of L.
PeerLines(L, name, key, addr) ==
    /\ Blank \in L /\ Line("peer", 0) \in L /\ Line("name", name) \in L
    /\ Line("key", key) \in L /\ Line("ips", {addr}) \in L

\* The file g reads back as the header h and the peers ps with p behind them.
ReadsBack(L, h, ps, p, g) ==
    /\ g \in Seq(L)
    /\ Same(parseConf(g).peers, Append(ps, p))
    /\ Said(parseConf(g).header) = Said(h)
    /\ Unnamed(parseConf(g).peers) = Unnamed(ps)

\* ProvisionWrites, of the file provision writes.
LEMMA ProvisionReads ==
    ASSUME NEW L, NEW h \in Seq(HeaderLines(L)), NEW ps \in Seq(PeerBlocks(L)), NEW o,
           NEW name, NEW key, NEW addr, PeerLines(L, name, key, addr), name # Nobody
    PROVE  ReadsBack(L, h, ps, formatPeer(name, key, addr),
                     writeConf(St(h, Append(ps, formatPeer(name, key, addr)), o)))
<1> DEFINE g == writeConf(St(h, Append(ps, formatPeer(name, key, addr)), o))
<1>1. /\ Blank \in L /\ Line("peer", 0) \in L /\ Line("name", name) \in L
      /\ Line("key", key) \in L /\ Line("ips", {addr}) \in L
  BY Zenon DEF PeerLines
<1>2. /\ g \in Seq(L) /\ Same(parseConf(g).peers, Append(ps, formatPeer(name, key, addr)))
      /\ Said(parseConf(g).header) = Said(h) /\ Unnamed(parseConf(g).peers) = Unnamed(ps)
  BY <1>1, ProvisionWrites
<1> QED BY <1>2, Zenon DEF ReadsBack

\* Writing without a peer: the file that is read next has the others, line by line.
LEMMA RevokeWrites ==
    ASSUME NEW L, NEW h \in Seq(HeaderLines(L)), NEW ps \in Seq(PeerBlocks(L)), NEW o,
           NEW i \in 1 .. Len(ps), Name(ps[i]) # Nobody,
           NEW g, g = writeConf(St(h, Without(ps, i), o))
    PROVE  /\ g \in Seq(L)
           /\ parseConf(g).peers = Without(ps, i) /\ parseConf(g).header = h
           /\ Unnamed(parseConf(g).peers) = Unnamed(ps)
<1> DEFINE qs == Without(ps, i)
<1>1. qs \in Seq(PeerBlocks(L))
  BY WithoutIs
<1>2. Unnamed(qs) = Unnamed(ps)
  <2>1. ps \in Seq(Seq(L))
    BY LineSets
  <2> QED BY <2>1, UnnamedRemove
<1>3. g = Written(h, qs)
  BY WrittenIs
<1> HIDE DEF qs
<1>a. /\ Written(h, qs) \in Seq(L)
      /\ qs = <<>> => parseConf(Written(h, qs)) = St(h, qs, FALSE)
      /\ qs # <<>> => parseConf(Written(h, qs)) = St(h, qs, TRUE)
  BY <1>1, RoundTrip, Zenon
<1>4. \E o2 : parseConf(g) = St(h, qs, o2)
  BY <1>3, <1>a, Zenon
<1>5. parseConf(g).header = h /\ parseConf(g).peers = qs
  BY <1>4, StParts
<1>6. g \in Seq(L)
  BY <1>3, <1>a, Zenon
<1> QED BY <1>2, <1>5, <1>6 DEF qs

-----------------------------------------------------------------------------
(* Addresses and profiles when a peer is added or removed.                 *)

\* A peer for the profile u.
Fits(p, u) == Name(p) = u.name /\ Key(p) = u.key /\ Ips(p) = {u.addr}
Has(ps, u) == \E i \in DOMAIN ps : Fits(ps[i], u)

\* Peers that are alike use the same addresses, are the same to the interface and serve
\* the same profiles.
LEMMA SameKeeps ==
    ASSUME NEW ps, NEW qs, Same(ps, qs)
    PROVE  /\ Apart(qs) => Apart(ps)
           /\ Stripped(ps) = Stripped(qs)
           /\ \A u : Has(qs, u) => Has(ps, u)
<1>1. DOMAIN ps = DOMAIN qs
  BY DEF Same
<1>2. \A i \in DOMAIN ps : Name(ps[i]) = Name(qs[i]) /\ Key(ps[i]) = Key(qs[i]) /\ Ips(ps[i]) = Ips(qs[i])
  BY DEF Same, Alike
<1>3. Apart(qs) => Apart(ps)
  BY <1>1, <1>2 DEF Apart
<1>4. Stripped(ps) = Stripped(qs)
  BY <1>1, <1>2 DEF Stripped
<1>5. \A u : Has(qs, u) => Has(ps, u)
  BY <1>1, <1>2 DEF Has, Fits
<1> QED BY <1>3, <1>4, <1>5

\* A peer with a free address stays out of the others' way.
LEMMA ApartAppend ==
    ASSUME NEW S, NEW ps \in Seq(S), NEW p \in S, Apart(ps), NEW addr \in Free(ps), Ips(p) = {addr}
    PROVE  Apart(Append(ps, p))
<1> DEFINE qs == Append(ps, p)
           n == Len(ps)
<1>1. /\ n \in Nat /\ DOMAIN ps = 1 .. n /\ DOMAIN qs = 1 .. n + 1 /\ qs[n + 1] = p
      /\ \A i \in 1 .. n : qs[i] = ps[i]
  BY AppendProperties
<1>2. \A i \in 1 .. n + 1 : i = n + 1 \/ (i \in 1 .. n /\ i # n + 1)
  OBVIOUS
<1>3. addr \in 1 .. (Size - 2) \ {ServerAddr} /\ \A i \in DOMAIN ps : addr \notin Ips(ps[i])
  BY DEF Free, Taken
<1>4. \A i, j \in 1 .. n : /\ Ips(ps[i]) \subseteq 1 .. (Size - 2) \ {ServerAddr}
                           /\ i # j => Ips(ps[i]) \cap Ips(ps[j]) = {}
  BY <1>1 DEF Apart
<1> HIDE DEF qs, n
<1> DEFINE A == 1 .. (Size - 2) \ {ServerAddr}
<1> HIDE DEF A
<1>5. \A i \in 1 .. n + 1 : Ips(qs[i]) \subseteq A
  BY <1>1, <1>2, <1>3, <1>4 DEF A
<1>6. \A i, j \in 1 .. n + 1 : i # j => Ips(qs[i]) \cap Ips(qs[j]) = {}
  <2> SUFFICES ASSUME NEW i \in 1 .. n + 1, NEW j \in 1 .. n + 1, i # j
               PROVE  Ips(qs[i]) \cap Ips(qs[j]) = {}
    BY Zenon
  <2>1. CASE i \in 1 .. n /\ j \in 1 .. n
    BY <1>1, <1>4, <2>1
  <2>2. CASE i = n + 1 /\ j \in 1 .. n
    <3>1. qs[i] = p /\ qs[j] = ps[j] /\ addr \notin Ips(ps[j])
      BY <1>1, <1>3, <2>2
    <3> QED BY <3>1
  <2>3. CASE j = n + 1 /\ i \in 1 .. n
    <3>1. qs[j] = p /\ qs[i] = ps[i] /\ addr \notin Ips(ps[i])
      BY <1>1, <1>3, <2>3
    <3> QED BY <3>1
  <2> QED BY <1>2, <2>1, <2>2, <2>3
<1>7. Apart(qs)
  BY <1>1, <1>5, <1>6 DEF Apart, A
<1> QED BY <1>7 DEF qs

\* Where a peer that is kept was before.
LEMMA RemovedFrom ==
    ASSUME NEW S, NEW ps \in Seq(S), NEW i \in 1 .. Len(ps)
    PROVE  /\ DOMAIN Without(ps, i) = 1 .. Len(ps) - 1
           /\ \A j \in 1 .. Len(ps) - 1 :
                 /\ (IF j < i THEN j ELSE j + 1) \in 1 .. Len(ps)
                 /\ Without(ps, i)[j] = ps[IF j < i THEN j ELSE j + 1]
           /\ \A k \in 1 .. Len(ps) : k # i => \E j \in 1 .. Len(ps) - 1 : Without(ps, i)[j] = ps[k]
<1> DEFINE r == Without(ps, i)
           n == Len(ps)
<1>1. /\ DOMAIN r = 1 .. n - 1 /\ n \in Nat
      /\ \A j \in 1 .. n - 1 : r[j] = IF j < i THEN ps[j] ELSE ps[j + 1]
  <2>1. r \in Seq(S) /\ Len(r) = n - 1 /\ \A j \in 1 .. n - 1 : r[j] = IF j < i THEN ps[j] ELSE ps[j + 1]
    BY WithoutIs
  <2> HIDE DEF r
  <2> QED BY <2>1
<1> HIDE DEF r, n
<1>2. \A j \in 1 .. n - 1 : /\ (IF j < i THEN j ELSE j + 1) \in 1 .. n
                            /\ r[j] = ps[IF j < i THEN j ELSE j + 1]
  BY <1>1
<1>3. ASSUME NEW k \in 1 .. n, k # i PROVE \E j \in 1 .. n - 1 : r[j] = ps[k]
  <2>1. CASE k < i
    <3>1. k \in 1 .. n - 1
      BY <1>1, <2>1 DEF n
    <3> QED BY <1>1, <2>1, <3>1
  <2>2. CASE k > i
    <3>1. k - 1 \in 1 .. n - 1 /\ ~(k - 1 < i) /\ k - 1 + 1 = k
      BY <1>1, <2>2 DEF n
    <3>2. r[k - 1] = ps[k - 1 + 1]
      BY <1>1, <3>1
    <3> QED BY <3>1, <3>2
  <2> QED BY <1>1, <1>3, <2>1, <2>2 DEF n
<1> QED BY <1>1, <1>2, <1>3 DEF r, n

\* Revoke leaves the addresses of the others apart,
LEMMA ApartRemove ==
    ASSUME NEW S, NEW ps \in Seq(S), NEW i \in 1 .. Len(ps), Apart(ps)
    PROVE  Apart(Without(ps, i))
<1> DEFINE r == Without(ps, i)
           n == Len(ps)
           was(j) == IF j < i THEN j ELSE j + 1
<1>1. /\ DOMAIN r = 1 .. n - 1
      /\ \A j \in 1 .. n - 1 : was(j) \in 1 .. n /\ r[j] = ps[was(j)]
  BY RemovedFrom, Zenon
<1>2. n \in Nat /\ DOMAIN ps = 1 .. n
  OBVIOUS
<1>3. \A j, k \in 1 .. n - 1 : j # k => was(j) # was(k)
  BY <1>2
<1>4. \A j, k \in 1 .. n : /\ Ips(ps[j]) \subseteq 1 .. (Size - 2) \ {ServerAddr}
                           /\ j # k => Ips(ps[j]) \cap Ips(ps[k]) = {}
  BY <1>2 DEF Apart
<1> HIDE DEF r, n, was
<1>5. \A j, k \in 1 .. n - 1 : /\ Ips(r[j]) \subseteq 1 .. (Size - 2) \ {ServerAddr}
                               /\ j # k => Ips(r[j]) \cap Ips(r[k]) = {}
  <2> SUFFICES ASSUME NEW j \in 1 .. n - 1, NEW k \in 1 .. n - 1
               PROVE /\ Ips(r[j]) \subseteq 1 .. (Size - 2) \ {ServerAddr}
                     /\ j # k => Ips(r[j]) \cap Ips(r[k]) = {}
    BY Zenon
  <2>1. r[j] = ps[was(j)] /\ r[k] = ps[was(k)] /\ was(j) \in 1 .. n /\ was(k) \in 1 .. n
    BY <1>1
  <2>2. j # k => was(j) # was(k)
    BY <1>3
  <2> QED BY <1>4, <2>1, <2>2, Zenon
<1>6. Apart(r)
  BY <1>1, <1>5 DEF Apart
<1> QED BY <1>6 DEF r

\* A profile keeps its peer when another one is added,
LEMMA HasAppend ==
    ASSUME NEW S, NEW ps \in Seq(S), NEW p \in S, NEW u, Has(ps, u) \/ Fits(p, u)
    PROVE  Has(Append(ps, p), u)
<1> DEFINE qs == Append(ps, p)
           n == Len(ps)
<1>1. /\ n \in Nat /\ DOMAIN ps = 1 .. n /\ DOMAIN qs = 1 .. n + 1 /\ qs[n + 1] = p
      /\ \A i \in 1 .. n : qs[i] = ps[i] /\ i \in 1 .. n + 1
  BY AppendProperties
<1>2. n + 1 \in 1 .. n + 1
  BY <1>1
<1> HIDE DEF qs, n
<1>3. Has(qs, u)
  BY <1>1, <1>2 DEF Has
<1> QED BY <1>3 DEF qs

\* and when a peer of another name is removed.
LEMMA HasRemove ==
    ASSUME NEW S, NEW ps \in Seq(S), NEW i \in 1 .. Len(ps), NEW u, Has(ps, u), Name(ps[i]) # u.name
    PROVE  Has(Without(ps, i), u)
<1>1. PICK k \in 1 .. Len(ps) : Fits(ps[k], u)
  BY DEF Has
<1>2. k # i
  BY <1>1 DEF Fits
<1>3. PICK j \in 1 .. Len(ps) - 1 : Without(ps, i)[j] = ps[k]
  BY <1>2, RemovedFrom
<1>4. DOMAIN Without(ps, i) = 1 .. Len(ps) - 1
  BY RemovedFrom
<1> QED BY <1>1, <1>3, <1>4 DEF Has

-----------------------------------------------------------------------------
(* The operators: the invariant and the step that changes the file.        *)

\* The lines of the files to start from, those formatPeer writes, and all that can come to
\* stand in the file.
FirstLines == UNION {{file[i] : i \in DOMAIN file} : file \in Confs}
NewLines ==
    {Blank, Line("peer", 0)} \cup {Line("name", n) : n \in Names}
        \cup {Line("key", k) : k \in Nat} \cup {Line("ips", {x}) : x \in Nat}
Lines == FirstLines \cup NewLines

\* What Provision and Revoke do to the state that they have read.
AddPeer(st, p) == [st EXCEPT !.peers = Append(@, p)]
DropPeer(st, i) == [st EXCEPT !.peers = Without(@, i)]

\* What Provision and Revoke have made of the file as it is.
Added(a) ==
    \E key \in Nat, addr \in Free(parseConf(conf).peers) :
        /\ made[a] = [name |-> Head(todo[a]), key |-> key, addr |-> addr]
        /\ state[a] = AddPeer(parseConf(conf), formatPeer(Head(todo[a]), key, addr))

Removed(a) ==
    \E i \in DOMAIN parseConf(conf).peers :
        /\ Name(parseConf(conf).peers[i]) = Head(todo[a])
        /\ state[a] = DropPeer(parseConf(conf), i)

\* The file consists of such lines, and every operator has its variables.
AdminTypes ==
    /\ conf \in Seq(Lines) /\ keys \in Nat
    /\ DOMAIN pc = Admins /\ DOMAIN cmd = Admins /\ DOMAIN todo = Admins
    /\ DOMAIN state = Admins /\ DOMAIN made = Admins

\* An operator at work has the lock; the file is what it has read, or what it has written.
Working(a) ==
    /\ pc[a] \in {"read", "write", "rename", "sync"} => lock = a
    /\ pc[a] # "idle" => todo[a] \in Seq(Names) /\ todo[a] # <<>>
    /\ pc[a] \in {"write", "rename"} =>
          \/ cmd[a] = "provision" /\ Added(a)
          \/ cmd[a] = "revoke" /\ Removed(a)
    /\ pc[a] = "sync" =>
          /\ Same(parseConf(conf).peers, state[a].peers)
          /\ cmd[a] = "provision" => Has(state[a].peers, made[a])

\* The part of UrlsWork that is about URLs whose peer was not revoked.
UrlsKept ==
    LET ps == parseConf(conf).peers
    IN  \A u \in urls : u.key \notin gone =>
            /\ \E i \in DOMAIN ps :
                  Name(ps[i]) = u.name /\ Key(ps[i]) = u.key /\ Ips(ps[i]) = {u.addr}
            /\ [key |-> u.key, ips |-> {u.addr}] \in live

\* The invariant: with what a working operator has seen, the peers use different
\* addresses, a printed URL has its peer, and the interface has the peers of the file.
AdminInv ==
    /\ AdminTypes /\ \A a \in Admins : Working(a)
    /\ AddressesApart /\ UrlsKept
    /\ ~stale /\ Readable(conf) => live = Stripped(parseConf(conf).peers)

\* The lines that formatPeer writes and those of the files to start from are among them.
LEMMA LinesHave ==
    /\ Blank \in Lines /\ Line("peer", 0) \in Lines
    /\ \A n \in Names : Line("name", n) \in Lines
    /\ \A k \in Nat : Line("key", k) \in Lines /\ Line("ips", {k}) \in Lines
    /\ Confs \subseteq Seq(Lines)
<1>1. ASSUME NEW file \in Confs PROVE file \in Seq(Lines)
  <2>1. {file[i] : i \in DOMAIN file} \subseteq Lines
    BY DEF Lines, FirstLines
  <2>2. file \in Seq({file[i] : i \in DOMAIN file})
    BY AdminAssumption
  <2> QED BY <2>1, <2>2, SeqMonotonic
<1>2. Blank \in Lines /\ Line("peer", 0) \in Lines
  BY DEF Lines, NewLines
<1>3. \A n \in Names : Line("name", n) \in Lines
  BY DEF Lines, NewLines
<1>4. \A k \in Nat : Line("key", k) \in Lines /\ Line("ips", {k}) \in Lines
  BY Zenon DEF Lines, NewLines
<1> QED BY <1>1, <1>2, <1>3, <1>4

\* AddPeer and DropPeer, on the parts of a state.
LEMMA Changes ==
    ASSUME NEW h, NEW ps, NEW o, NEW x
    PROVE  /\ AddPeer(St(h, ps, o), x) = St(h, Append(ps, x), o)
           /\ DropPeer(St(h, ps, o), x) = St(h, Without(ps, x), o)
  BY DEF AddPeer, DropPeer, St

\* What is read from a file: a header and peers.
LEMMA FileParts ==
    ASSUME NEW L, NEW f \in Seq(L)
    PROVE  \E h \in Seq(HeaderLines(L)), ps \in Seq(PeerBlocks(L)) :
              /\ \E o : parseConf(f) = St(h, ps, o)
              /\ parseConf(f).header = h /\ parseConf(f).peers = ps
<1>1. \E h \in Seq(HeaderLines(L)), ps \in Seq(PeerBlocks(L)) : \E o : parseConf(f) = St(h, ps, o)
  BY ParseShape, Zenon DEF Shape
<1> QED BY <1>1, StParts

\* What os.Rename puts in place, while the file is still the one that was read: the peers
\* of state, the peer of the new profile, what others have written, addresses that are
\* apart, and the peers of all profiles but those that are being revoked.
LEMMA RenameFile ==
    ASSUME AdminTypes, NEW a \in Admins, Working(a), pc[a] = "rename",
           NEW g, g = writeConf(state[a])
    PROVE  /\ g \in Seq(Lines)
           /\ Same(parseConf(g).peers, state[a].peers)
           /\ cmd[a] = "provision" => Has(state[a].peers, made[a])
           /\ Foreign(g) = Foreign(conf)
           /\ AddressesApart => Apart(state[a].peers)
           /\ \A u : Has(parseConf(conf).peers, u) /\ u.key \notin Revoked(a) => Has(state[a].peers, u)
<1>0. PICK h \in Seq(HeaderLines(Lines)), ps \in Seq(PeerBlocks(Lines)) :
        /\ \E o : parseConf(conf) = St(h, ps, o)
        /\ parseConf(conf).header = h /\ parseConf(conf).peers = ps
  BY FileParts, Zenon DEF AdminTypes
<1>1. PICK o : parseConf(conf) = St(h, ps, o) /\ parseConf(conf).header = h /\ parseConf(conf).peers = ps
  BY <1>0
<1>2. Head(todo[a]) \in Names /\ Head(todo[a]) # Nobody
  BY AdminAssumption DEF Working
<1>3. CASE cmd[a] = "provision" /\ Added(a)
  <2>1. PICK key \in Nat, addr \in Free(ps) :
          /\ made[a] = [name |-> Head(todo[a]), key |-> key, addr |-> addr]
          /\ state[a] = AddPeer(parseConf(conf), formatPeer(Head(todo[a]), key, addr))
    BY <1>1, <1>3, Zenon DEF Added
  <2> DEFINE name == Head(todo[a])
             np == formatPeer(name, key, addr)
  <2>2. state[a] = St(h, Append(ps, np), o) /\ state[a].peers = Append(ps, np)
    <3>1. state[a] = St(h, Append(ps, np), o)
      <4>1. AddPeer(St(h, ps, o), np) = St(h, Append(ps, np), o)
        BY Changes
      <4> QED BY <1>1, <2>1, <4>1, Zenon
    <3>2. \A qs : St(h, qs, o).peers = qs
      BY StParts
    <3> QED BY <3>1, <3>2, Zenon
  <2>3. addr \in Nat
    BY AdminAssumption DEF Free
  <2>4. /\ Blank \in Lines /\ Line("peer", 0) \in Lines /\ Line("name", name) \in Lines
        /\ Line("key", key) \in Lines /\ Line("ips", {addr}) \in Lines
    BY <1>2, <2>3, LinesHave, Zenon
  <2>5. g = writeConf(St(h, Append(ps, np), o))
    BY <2>2
  <2>6. /\ g \in Seq(Lines) /\ Same(parseConf(g).peers, Append(ps, np))
        /\ Said(parseConf(g).header) = Said(h) /\ Unnamed(parseConf(g).peers) = Unnamed(ps)
    <3>1. name # Nobody /\ PeerLines(Lines, name, key, addr)
      BY <1>2, <2>4, Zenon DEF PeerLines
    <3>2. ReadsBack(Lines, h, ps, np, writeConf(St(h, Append(ps, np), o)))
      BY <3>1, ProvisionReads, Zenon
    <3> QED BY <2>5, <3>2, Zenon DEF ReadsBack
  <2>7. Foreign(g) = Foreign(conf)
    BY <1>1, <2>6, Zenon DEF Foreign
  <2>8. Name(np) = name /\ Key(np) = key /\ Ips(np) = {addr}
    BY FormatFields, Zenon
  <2>9. ps \in Seq(Seq(Lines)) /\ np \in Seq(Lines)
    <3>1. np \in Seq(Lines)
      BY <2>4, FormatBlock
    <3> QED BY <3>1, LineSets
  <2> HIDE DEF np
  <2>10. Fits(np, made[a])
    <3>1. made[a].name = name /\ made[a].key = key /\ made[a].addr = addr
      BY <2>1
    <3> QED BY <2>8, <3>1, Zenon DEF Fits
  <2>11. Has(Append(ps, np), made[a]) /\ \A u : Has(ps, u) => Has(Append(ps, np), u)
    BY <2>9, <2>10, HasAppend
  <2>12. AddressesApart => Apart(Append(ps, np))
    BY <1>1, <2>8, <2>9, ApartAppend DEF AddressesApart
  <2> QED BY <1>1, <2>2, <2>6, <2>7, <2>11, <2>12, Zenon
<1>4. CASE cmd[a] = "revoke" /\ Removed(a)
  <2>1. PICK i \in 1 .. Len(ps) :
          Name(ps[i]) = Head(todo[a]) /\ state[a] = DropPeer(parseConf(conf), i)
    <3>1. DOMAIN ps = 1 .. Len(ps)
      OBVIOUS
    <3> QED BY <1>1, <1>4, <3>1, Zenon DEF Removed
  <2>2. state[a] = St(h, Without(ps, i), o) /\ state[a].peers = Without(ps, i)
    <3>1. state[a] = St(h, Without(ps, i), o)
      BY <1>1, <2>1, Changes
    <3> QED BY <3>1, StParts
  <2>3. g = writeConf(St(h, Without(ps, i), o)) /\ Name(ps[i]) # Nobody
    BY <1>2, <2>1, <2>2
  <2>4. /\ g \in Seq(Lines) /\ parseConf(g).peers = Without(ps, i) /\ parseConf(g).header = h
        /\ Unnamed(parseConf(g).peers) = Unnamed(ps)
    BY <2>3, RevokeWrites
  <2>5. Foreign(g) = Foreign(conf)
    BY <1>1, <2>4 DEF Foreign
  <2>6. Same(parseConf(g).peers, state[a].peers)
    BY <2>2, <2>4 DEF Same, Alike
  <2>7. AddressesApart => Apart(Without(ps, i))
    BY <1>1, ApartRemove DEF AddressesApart
  <2>8. ASSUME NEW u, Has(ps, u), u.key \notin Revoked(a) PROVE Has(Without(ps, i), u)
    <3>1. PICK k \in DOMAIN ps : Fits(ps[k], u)
      BY <2>8 DEF Has
    <3>2. Revoked(a) = {Key(ps[j]) : j \in {m \in DOMAIN ps : Name(ps[m]) = Head(todo[a])}}
      BY <1>1, <1>4 DEF Revoked
    <3>3. Name(ps[i]) # u.name
      BY <2>1, <2>8, <3>1, <3>2 DEF Fits
    <3> QED BY <2>8, <3>3, HasRemove
  <2> QED BY <1>1, <1>4, <2>2, <2>4, <2>5, <2>6, <2>7, <2>8, Zenon
<1> QED BY <1>3, <1>4, Zenon DEF Working

-----------------------------------------------------------------------------
(* Every step of an operator keeps the invariant.                          *)

\* What Done does: the lock is free, and the operator is through or has a name to do.
Ended(a) ==
    /\ lock' = Nobody
    /\ state' = [state EXCEPT ![a] = <<>>] /\ made' = [made EXCEPT ![a] = <<>>]
    /\ \/ /\ Len(todo[a]) > 1
          /\ pc' = [pc EXCEPT ![a] = "lock"] /\ todo' = [todo EXCEPT ![a] = Tail(todo[a])]
          /\ cmd' = cmd
       \/ /\ pc' = [pc EXCEPT ![a] = "idle"] /\ todo' = [todo EXCEPT ![a] = <<>>]
          /\ cmd' = [cmd EXCEPT ![a] = "none"]

\* Done ends a name, with an answer or without.
LEMMA DoneEnds ==
    ASSUME NEW a \in Admins
    PROVE  (Done(a, "ok") => Ended(a)) /\ (Done(a, "error") => Ended(a))
  BY DEF Done, Ended

\* What an operator has is its own.
Own(a) ==
    /\ DOMAIN pc' = Admins /\ DOMAIN cmd' = Admins /\ DOMAIN todo' = Admins
    /\ DOMAIN state' = Admins /\ DOMAIN made' = Admins
    /\ \A b \in Admins \ {a} :
          /\ pc'[b] = pc[b] /\ cmd'[b] = cmd[b] /\ todo'[b] = todo[b]
          /\ state'[b] = state[b] /\ made'[b] = made[b]

\* The operator that does a step keeps its part of the invariant when it gives up the lock.
LEMMA EndedWorks ==
    ASSUME AdminTypes, NEW a \in Admins, Working(a), pc[a] # "idle", Ended(a)
    PROVE  Own(a) /\ Working(a)'
<1>1. Own(a)
  BY DEF Own, Ended, AdminTypes
<1>2. CASE Len(todo[a]) > 1 /\ pc' = [pc EXCEPT ![a] = "lock"] /\ todo' = [todo EXCEPT ![a] = Tail(todo[a])]
  <2>1. pc'[a] = "lock" /\ todo'[a] = Tail(todo[a])
    BY <1>2 DEF AdminTypes
  <2>2. Tail(todo[a]) \in Seq(Names) /\ Tail(todo[a]) # <<>>
    <3> DEFINE t == todo[a]
    <3>1. t \in Seq(Names) /\ t # <<>> /\ Len(t) > 1
      BY <1>2, Zenon DEF Working
    <3> HIDE DEF t
    <3>2. Tail(t) \in Seq(Names) /\ Len(Tail(t)) = Len(t) - 1 /\ Len(t) \in Nat
      BY <3>1, HeadTailProperties
    <3>3. Len(Tail(t)) # 0
      BY <3>1, <3>2
    <3>a. Len(<<>>) = 0
      OBVIOUS
    <3>4. Tail(t) # <<>>
      BY <3>3, <3>a, Zenon
    <3> QED BY <3>2, <3>4 DEF t
  <2> QED BY <1>1, <2>1, <2>2, Zenon DEF Working
<1>3. CASE pc' = [pc EXCEPT ![a] = "idle"]
  <2>1. pc'[a] = "idle"
    BY <1>3 DEF AdminTypes
  <2> QED BY <1>1, <2>1 DEF Working
<1> QED BY <1>2, <1>3 DEF Ended

\* The others keep theirs.
LEMMA OthersWork ==
    ASSUME NEW a \in Admins, NEW b \in Admins \ {a}, Working(b), Own(a),
           lock \in {a, Nobody} \/ (lock' = lock /\ conf' = conf)
    PROVE  Working(b)'
<1>1. /\ pc'[b] = pc[b] /\ cmd'[b] = cmd[b] /\ todo'[b] = todo[b]
      /\ state'[b] = state[b] /\ made'[b] = made[b]
  BY DEF Own
<1>2. CASE lock \in {a, Nobody}
  <2>1. lock # b
    BY <1>2, AdminAssumption
  <2>2. pc[b] \notin {"read", "write", "rename", "sync"}
    BY <2>1 DEF Working
  <2> QED BY <1>1, <2>2 DEF Working
<1>3. CASE lock' = lock /\ conf' = conf
  BY <1>1, <1>3, Zenon DEF Working, Added, Removed
<1> QED BY <1>2, <1>3

\* A step of one operator, or a crash of one, keeps the invariant of all.
LEMMA AdminPreserved ==
    ASSUME AdminInv, AdminNext
    PROVE  AdminInv'
<1>0. AdminTypes /\ (\A a \in Admins : Working(a)) /\ AddressesApart /\ UrlsKept
  BY DEF AdminInv
<1>1. PICK a \in Admins : Lock(a) \/ Provision(a) \/ Revoke(a) \/ WriteTemp(a)
                             \/ Rename(a) \/ Sync(a) \/ Crash(a)
  BY DEF AdminNext
<1>w. Working(a)
  BY <1>0
\* A step that leaves the file and what has been given out alone.
<1>2. ASSUME Own(a), Working(a)', lock \in {a, Nobody} \/ lock' = lock,
             UNCHANGED <<conf, live, urls, gone, stale>>, keys' \in Nat
      PROVE  AdminInv'
  <2>1. AdminTypes'
    BY <1>0, <1>2 DEF AdminTypes, Own
  <2>2. ASSUME NEW b \in Admins PROVE Working(b)'
    <3>1. CASE b = a
      BY <1>2, <3>1
    <3>2. CASE b # a
      BY <1>0, <1>2, <3>2, OthersWork
    <3> QED BY <3>1, <3>2
  <2>3. /\ AddressesApart' /\ UrlsKept'
        /\ (~stale /\ Readable(conf) => live = Stripped(parseConf(conf).peers))'
    BY <1>0, <1>2 DEF AdminInv, AddressesApart, UrlsKept
  <2> QED BY <2>1, <2>2, <2>3 DEF AdminInv
\* The operation is over, and the file is left alone.
<1>3. ASSUME Ended(a), pc[a] \in {"read", "write", "rename", "sync"},
             UNCHANGED <<conf, live, urls, gone, stale>>, keys' \in Nat
      PROVE  AdminInv'
  <2>1. lock = a
    BY <1>3, <1>w, Zenon DEF Working
  <2>2. Own(a) /\ Working(a)'
    BY <1>0, <1>3, <1>w, EndedWorks
  <2> QED BY <1>2, <1>3, <2>1, <2>2
<1>k. keys \in Nat /\ keys + 1 \in Nat
  BY <1>0 DEF AdminTypes
<1>4. CASE Lock(a)
  <2>1. Own(a)
    BY <1>0, <1>4, Zenon DEF Lock, Own, AdminTypes
  <2>2. pc'[a] = "read" /\ lock' = a
    BY <1>0, <1>4, Zenon DEF Lock, AdminTypes
  <2>3. todo'[a] \in Seq(Names) /\ todo'[a] # <<>>
    <3>1. CASE pc[a] = "lock" /\ UNCHANGED todo
      BY <1>w, <3>1 DEF Working
    <3>2. CASE \E ns \in {<<n>> : n \in Names} \cup {ms \in Names \X Names : ms[1] # ms[2]} :
                  todo' = [todo EXCEPT ![a] = ns]
      <4>1. PICK ns \in {<<n>> : n \in Names} \cup {ms \in Names \X Names : ms[1] # ms[2]} :
                  todo' = [todo EXCEPT ![a] = ns]
        BY <3>2, Zenon
      <4>2. todo'[a] = ns
        BY <1>0, <4>1 DEF AdminTypes
      <4>3. ns \in Seq(Names) /\ ns # <<>>
        <5>1. CASE ns \in {<<n>> : n \in Names}
          <6>1. PICK n \in Names : ns = <<n>>
            BY <5>1
          <6> QED BY <6>1
        <5>2. CASE ns \in Names \X Names
          <6>1. PICK x \in Names, y \in Names : ns = <<x, y>>
            BY <5>2
          <6> QED BY <6>1
        <5> QED BY <4>1, <5>1, <5>2
      <4> QED BY <4>2, <4>3
    <3> QED BY <1>4, <3>1, <3>2, Zenon DEF Lock
  <2>4. Working(a)'
    BY <2>2, <2>3 DEF Working
  <2> QED BY <1>2, <1>4, <1>k, <2>1, <2>4, Zenon DEF Lock
<1>10. CASE Crash(a)
  <2>1. Own(a) /\ pc'[a] = "idle"
    BY <1>0, <1>10 DEF Crash, Own, AdminTypes
  <2>2. Working(a)'
    BY <2>1, Zenon DEF Working
  <2>3. lock \in {a, Nobody} \/ lock' = lock
    BY <1>10 DEF Crash
  <2> QED BY <1>2, <1>10, <1>k, <2>1, <2>2, <2>3 DEF Crash
<1>5. CASE Provision(a)
  <2>0. pc[a] = "read" /\ cmd[a] = "provision" /\ UNCHANGED <<conf, live, urls, gone, stale>>
    BY <1>5 DEF Provision
  <2>1. CASE Done(a, "error") /\ UNCHANGED keys
    <3>1. Ended(a)
      BY <2>1, DoneEnds, Zenon
    <3> QED BY <1>3, <1>k, <2>0, <2>1, <3>1
  <2>2. CASE ~(Done(a, "error") /\ UNCHANGED keys)
    <3> DEFINE st == parseConf(conf)
               free == Free(st.peers)
               addr == CHOOSE x \in free : \A y \in free : x <= y
               name == Head(todo[a])
    <3>1. /\ free # {} /\ keys' = keys + 1
          /\ state' = [state EXCEPT ![a] = AddPeer(st, formatPeer(name, keys', addr))]
          /\ made' = [made EXCEPT ![a] = [name |-> name, key |-> keys', addr |-> addr]]
          /\ pc' = [pc EXCEPT ![a] = "write"] /\ UNCHANGED <<lock, todo, cmd>>
      BY <1>5, <2>2, Zenon DEF Provision, AddPeer
    <3>2. addr \in free
      <4>1. free \subseteq Nat
        BY AdminAssumption DEF Free
      <4> HIDE DEF free
      <4>2. \E x \in free : \A y \in free : x <= y
        BY <3>1, <4>1, Least, Zenon
      <4> QED BY <4>2
    <3> HIDE DEF addr, free, st
    <3>3. Own(a)
      BY <1>0, <3>1, Zenon DEF Own, AdminTypes
    <3>4. /\ pc'[a] = "write" /\ cmd'[a] = "provision" /\ todo'[a] = todo[a] /\ lock' = a
          /\ state'[a] = AddPeer(st, formatPeer(name, keys', addr))
          /\ made'[a] = [name |-> name, key |-> keys', addr |-> addr]
      BY <1>0, <1>w, <2>0, <3>1, Zenon DEF AdminTypes, Working
    <3>5. keys' \in Nat
      BY <1>k, <3>1
    <3>6. Added(a)'
      BY <2>0, <3>2, <3>4, <3>5 DEF Added, st, free
    <3>7. Working(a)'
      BY <1>w, <2>0, <3>4, <3>6, Zenon DEF Working
    <3>8. lock' = lock
      BY <3>1
    <3> QED BY <1>2, <2>0, <3>3, <3>5, <3>7, <3>8
  <2> QED BY <2>1, <2>2, Zenon
<1>6. CASE Revoke(a)
  <2>0. /\ pc[a] = "read" /\ cmd[a] = "revoke" /\ UNCHANGED <<conf, live, urls, gone, stale>>
        /\ UNCHANGED keys
    BY <1>6 DEF Revoke
  <2>1. CASE Done(a, "error")
    <3>1. Ended(a)
      BY <2>1, DoneEnds, Zenon
    <3> QED BY <1>3, <1>k, <2>0, <3>1
  <2>2. CASE ~Done(a, "error")
    <3> DEFINE st == parseConf(conf)
               hits == {i \in DOMAIN st.peers : Name(st.peers[i]) = Head(todo[a])}
               idx == CHOOSE i \in hits : \A j \in hits : i <= j
    <3>1. /\ hits # {} /\ state' = [state EXCEPT ![a] = DropPeer(st, idx)]
          /\ pc' = [pc EXCEPT ![a] = "write"] /\ UNCHANGED <<lock, todo, cmd, made>>
      BY <1>6, <2>2, Zenon DEF Revoke, DropPeer, Without
    <3>2. idx \in DOMAIN st.peers /\ Name(st.peers[idx]) = Head(todo[a])
      <4>1. PICK ps \in Seq(PeerBlocks(Lines)) : st.peers = ps
        BY <1>0, FileParts, Zenon DEF AdminTypes
      <4>a. DOMAIN ps \subseteq Nat
        BY IndicesAreNats
      <4> HIDE DEF st
      <4>b. hits \subseteq DOMAIN ps
        BY <4>1, Zenon
      <4>2. hits \subseteq Nat
        <5> HIDE DEF hits
        <5> QED BY <4>a, <4>b, Zenon
      <4>3. \E i \in hits : \A j \in hits : i <= j
        <5> HIDE DEF hits
        <5> QED BY <3>1, <4>2, Least, Zenon
      <4>4. idx \in hits
        <5> HIDE DEF hits
        <5> QED BY <4>3
      <4> HIDE DEF idx
      <4> QED BY <4>4
    <3> HIDE DEF st, hits, idx
    <3>3. Own(a)
      BY <1>0, <3>1, Zenon DEF Own, AdminTypes
    <3>4. /\ pc'[a] = "write" /\ cmd'[a] = "revoke" /\ todo'[a] = todo[a] /\ lock' = a
          /\ state'[a] = DropPeer(st, idx)
      BY <1>0, <1>w, <2>0, <3>1, Zenon DEF AdminTypes, Working
    <3>6. Removed(a)'
      BY <2>0, <3>2, <3>4, Zenon DEF Removed, st
    <3>7. Working(a)'
      BY <1>w, <2>0, <3>4, <3>6, Zenon DEF Working
    <3>8. lock' = lock
      BY <3>1
    <3> QED BY <1>2, <1>k, <2>0, <3>3, <3>7, <3>8
  <2> QED BY <2>1, <2>2, Zenon
<1>7. CASE WriteTemp(a)
  <2>0. pc[a] = "write" /\ UNCHANGED <<conf, live, keys, urls, gone, stale>>
    BY <1>7 DEF WriteTemp
  <2>1. CASE Done(a, "error")
    <3>1. Ended(a)
      BY <2>1, DoneEnds, Zenon
    <3> QED BY <1>3, <1>k, <2>0, <3>1
  <2>2. CASE pc' = [pc EXCEPT ![a] = "rename"] /\ UNCHANGED <<lock, cmd, todo, state, made>>
    <3>1. Own(a) /\ pc'[a] = "rename"
      BY <1>0, <2>2 DEF Own, AdminTypes
    <3>2. Working(a)'
      BY <1>w, <2>0, <2>2, <3>1, Zenon DEF Working, Added, Removed
    <3> QED BY <1>2, <1>k, <2>0, <2>2, <3>1, <3>2
  <2> QED BY <1>7, <2>1, <2>2, Zenon DEF WriteTemp
<1>8. CASE Rename(a)
  <2>0. pc[a] = "rename" /\ UNCHANGED <<live, keys, urls>> /\ lock = a
    BY <1>8, <1>w, Zenon DEF Rename, Working
  <2>1. CASE Done(a, "error") /\ UNCHANGED <<conf, gone, stale>>
    <3>1. Ended(a)
      BY <2>1, DoneEnds, Zenon
    <3> QED BY <1>3, <1>k, <2>0, <2>1, <3>1
  <2>2. CASE /\ conf' = writeConf(state[a]) /\ gone' = gone \cup Revoked(a)
             /\ pc' = [pc EXCEPT ![a] = "sync"] /\ stale' = TRUE
             /\ UNCHANGED <<lock, cmd, todo, state, made>>
    <3>1. /\ conf' \in Seq(Lines)
          /\ Same(parseConf(conf').peers, state[a].peers)
          /\ cmd[a] = "provision" => Has(state[a].peers, made[a])
          /\ Apart(state[a].peers)
          /\ \A u : Has(parseConf(conf).peers, u) /\ u.key \notin Revoked(a) => Has(state[a].peers, u)
      BY <1>0, <1>w, <2>0, <2>2, RenameFile, Zenon
    <3>2. Own(a) /\ pc'[a] = "sync"
      BY <1>0, <2>2, Zenon DEF Own, AdminTypes
    <3>3. AdminTypes'
      BY <1>k, <2>0, <3>1, <3>2, Zenon DEF AdminTypes, Own
    <3>4. Working(a)'
      BY <1>w, <2>0, <2>2, <3>1, <3>2, Zenon DEF Working
    <3>5. ASSUME NEW b \in Admins PROVE Working(b)'
      <4>1. CASE b = a
        BY <3>4, <4>1
      <4>2. CASE b # a
        BY <1>0, <2>0, <3>2, <4>2, OthersWork
      <4> QED BY <4>1, <4>2
    <3>6. AddressesApart'
      BY <3>1, SameKeeps, Zenon DEF AddressesApart
    <3>7. UrlsKept'
      <4> SUFFICES ASSUME NEW u \in urls, u.key \notin gone \cup Revoked(a)
                   PROVE  Has(parseConf(conf').peers, u) /\ [key |-> u.key, ips |-> {u.addr}] \in live
        BY <2>0, <2>2 DEF UrlsKept, Has, Fits
      <4>1. Has(parseConf(conf).peers, u) /\ [key |-> u.key, ips |-> {u.addr}] \in live
        BY <1>0 DEF UrlsKept, Has, Fits
      <4>2. Has(state[a].peers, u)
        BY <3>1, <4>1
      <4> QED BY <3>1, <4>1, <4>2, SameKeeps, Zenon
    <3> QED BY <2>2, <3>3, <3>5, <3>6, <3>7 DEF AdminInv
  <2> QED BY <1>8, <2>1, <2>2, Zenon DEF Rename
<1>9. CASE Sync(a)
  <2>0. pc[a] = "sync" /\ UNCHANGED <<conf, keys, gone>> /\ lock = a
    BY <1>9, <1>w, Zenon DEF Sync, Working
  <2>1. CASE Done(a, "error") /\ UNCHANGED <<live, stale, urls>>
    <3>1. Ended(a)
      BY <2>1, DoneEnds, Zenon
    <3> QED BY <1>3, <1>k, <2>0, <2>1, <3>1
  <2>2. CASE /\ live' = Stripped(state[a].peers) /\ stale' = FALSE /\ Done(a, "ok")
             /\ urls' = IF cmd[a] = "provision" THEN urls \cup {made[a]} ELSE urls
    <3>1. Ended(a)
      BY <2>2, DoneEnds, Zenon
    <3>2. Own(a) /\ Working(a)'
      BY <1>0, <1>w, <2>0, <3>1, EndedWorks
    <3>3. AdminTypes'
      BY <1>0, <2>0, <3>2, Zenon DEF AdminTypes, Own
    <3>4. ASSUME NEW b \in Admins PROVE Working(b)'
      <4>1. CASE b = a
        BY <3>2, <4>1
      <4>2. CASE b # a
        BY <1>0, <2>0, <3>2, <4>2, OthersWork
      <4> QED BY <4>1, <4>2
    <3>5. /\ Same(parseConf(conf).peers, state[a].peers)
          /\ cmd[a] = "provision" => Has(state[a].peers, made[a])
      BY <1>w, <2>0 DEF Working
    <3>6. live' = Stripped(parseConf(conf).peers)
      BY <2>2, <3>5, SameKeeps, Zenon
    <3>7. AddressesApart'
      BY <1>0, <2>0 DEF AddressesApart
    <3>8. UrlsKept'
      <4> SUFFICES ASSUME NEW u \in urls', u.key \notin gone
                   PROVE  Has(parseConf(conf).peers, u) /\ [key |-> u.key, ips |-> {u.addr}] \in live'
        BY <2>0 DEF UrlsKept, Has, Fits
      <4>1. Has(parseConf(conf).peers, u)
        <5>1. CASE u \in urls
          BY <1>0, <5>1, Zenon DEF UrlsKept, Has, Fits
        <5>2. CASE cmd[a] = "provision" /\ u = made[a]
          BY <3>5, <5>2, SameKeeps
        <5> QED BY <2>2, <5>1, <5>2
      <4>2. [key |-> u.key, ips |-> {u.addr}] \in Stripped(parseConf(conf).peers)
        BY <4>1, Zenon DEF Stripped, Has, Fits
      <4> QED BY <3>6, <4>1, <4>2
    <3> QED BY <2>0, <2>2, <3>3, <3>4, <3>6, <3>7, <3>8, Zenon DEF AdminInv
  <2> QED BY <1>9, <2>1, <2>2, Zenon DEF Sync
<1> QED BY <1>1, <1>4, <1>5, <1>6, <1>7, <1>8, <1>9, <1>10

-----------------------------------------------------------------------------
(* What holds of the file, the interface and the printed URLs.             *)

\* Reading, writing and reading again gives the header and the peers that were read,
\* whatever the file: parseConf and writeConf lose no line, although a section behind a peer
\* moves to the header.
THEOREM FilesReadBack ==
    ASSUME NEW L, NEW f \in Seq(L)
    PROVE  /\ parseConf(writeConf(parseConf(f))).header = parseConf(f).header
           /\ parseConf(writeConf(parseConf(f))).peers = parseConf(f).peers
<1>1. PICK h \in Seq(HeaderLines(L)), ps \in Seq(PeerBlocks(L)) :
        /\ \E o : parseConf(f) = St(h, ps, o)
        /\ parseConf(f).header = h /\ parseConf(f).peers = ps
  BY FileParts
<1>2. writeConf(parseConf(f)) = Written(h, ps)
  <2>1. PICK o : parseConf(f) = St(h, ps, o)
    BY <1>1
  <2> QED BY <2>1, WrittenIs
<1>3. /\ ps = <<>> => parseConf(Written(h, ps)) = St(h, ps, FALSE)
      /\ ps # <<>> => parseConf(Written(h, ps)) = St(h, ps, TRUE)
  BY RoundTrip, Zenon
<1>4. \E o : parseConf(Written(h, ps)) = St(h, ps, o)
  BY <1>3, Zenon
<1>5. parseConf(Written(h, ps)).header = h /\ parseConf(Written(h, ps)).peers = ps
  BY <1>4, StParts
<1> QED BY <1>1, <1>2, <1>5

\* It holds in every state.
LEMMA AdminInvariance == Spec => []AdminInv
<1>1. Init => AdminInv
  <2> SUFFICES ASSUME Init PROVE AdminInv
    OBVIOUS
  <2>1. AdminTypes
    BY LinesHave DEF Init, AdminInit, AdminTypes
  <2>2. \A a \in Admins : Working(a)
    BY Zenon DEF Init, AdminInit, Working
  <2>3. AddressesApart
    BY AdminAssumption, Zenon DEF Init, AdminInit, AddressesApart
  <2>4. UrlsKept /\ (Readable(conf) => live = Stripped(parseConf(conf).peers))
    BY DEF Init, AdminInit, UrlsKept
  <2> QED BY <2>1, <2>2, <2>3, <2>4 DEF AdminInv
<1>2. AdminInv /\ [Next]_<<adminvars, clientvars>> => AdminInv'
  <2>1. ASSUME AdminInv, UNCHANGED adminvars PROVE AdminInv'
    BY <2>1, Zenon DEF adminvars, AdminInv, AdminTypes, Working, Added, Removed, AddressesApart, UrlsKept, Revoked
  <2> QED BY <2>1, AdminPreserved DEF Next
<1> QED BY <1>1, <1>2, PTL DEF Spec

\* No two peers of the file share an address, and none has the server's, the network's or
\* the broadcast address (AddressesApart): AllocateClientIP looks at the peers of the file
\* under the lock that is held until the new file is in place.
THEOREM AddressesStayApart == Spec => []AddressesApart
<1>1. AdminInv => AddressesApart
  BY DEF AdminInv
<1> QED BY <1>1, AdminInvariance, PTL

\* When no sync has failed and the file is readable, the interface has the peers of the
\* file (LiveFollowsConf): the state that Provision and Revoke hand to strippedConf says of
\* every peer what parseConf will read back from the file that they have written.
THEOREM InterfaceFollowsFile == Spec => []LiveFollowsConf
<1>1. AdminInv => LiveFollowsConf
  BY DEF AdminInv, LiveFollowsConf
<1> QED BY <1>1, AdminInvariance, PTL

\* A change of the file leaves the header and the peers without a name as they are, except
\* for comments and blank lines (OthersUntouched): writeConf writes back what parseConf has
\* read, and the blank line that formatPeer puts before a peer ends up in the one before.
THEOREM ForeignPeersStay == Spec => OthersUntouched
<1>1. ASSUME AdminInv, [Next]_<<adminvars, clientvars>>
      PROVE  conf' = conf \/ Foreign(conf') = Foreign(conf)
  <2>1. CASE UNCHANGED adminvars
    BY <2>1 DEF adminvars
  <2>2. CASE AdminNext
    <3>1. PICK a \in Admins : Lock(a) \/ Provision(a) \/ Revoke(a) \/ WriteTemp(a)
                                \/ Rename(a) \/ Sync(a) \/ Crash(a)
      BY <2>2 DEF AdminNext
    <3>2. conf' = conf \/ (pc[a] = "rename" /\ conf' = writeConf(state[a]))
      BY <3>1, Zenon DEF Lock, Provision, Revoke, WriteTemp, Rename, Sync, Crash
    <3> QED BY <1>1, <3>2, RenameFile, Zenon DEF AdminInv
  <2> QED BY <1>1, <2>1, <2>2 DEF Next
<1>2. AdminInv /\ [Next]_<<adminvars, clientvars>> => [conf' # conf => Foreign(conf') = Foreign(conf)]_adminvars
  BY <1>1
<1> QED BY <1>2, AdminInvariance, PTL DEF Spec, OthersUntouched

-----------------------------------------------------------------------------
(* Keys: a generated key belongs to one peer, with a name of its own, until  *)
(* it is revoked, and to none after that.                                    *)

Generated == Nat \ {0}

\* The peers ps, when n keys have been generated and the keys g revoked.
KeysOwned(ps, n, g) ==
    /\ \A i \in DOMAIN ps : Key(ps[i]) \in Nat => Key(ps[i]) <= n
    /\ \A i, j \in DOMAIN ps :
          Key(ps[i]) \in Generated /\ (Key(ps[j]) = Key(ps[i]) \/ Name(ps[j]) = Name(ps[i])) => i = j
    /\ \A i \in DOMAIN ps : Key(ps[i]) \in Generated => Key(ps[i]) \notin g

\* An operator that provisions has the latest key, and a name that is not in the file.
KeyNew(a) ==
    /\ pc[a] \in {"write", "rename"} /\ cmd[a] = "provision" =>
          /\ made[a].key = keys /\ keys \in Generated /\ keys \notin gone
          /\ \A i \in DOMAIN parseConf(conf).peers :
                /\ Key(parseConf(conf).peers[i]) # keys
                /\ Name(parseConf(conf).peers[i]) # Head(todo[a])
    /\ pc[a] = "sync" /\ cmd[a] = "provision" => made[a].key \in Generated

KeysInv ==
    /\ KeysOwned(parseConf(conf).peers, keys, gone)
    /\ \A k \in gone : k \in Nat => k <= keys
    /\ \A u \in urls : u.key \in Generated
    /\ ~stale /\ gone # {} => live = Stripped(parseConf(conf).peers)
    /\ \A a \in Admins : KeyNew(a)

\* A key comes from a line of the peer.
LEMMA KeyFrom ==
    ASSUME NEW L, NEW p \in Seq(L)
    PROVE  Key(p) = 0 \/ \E l \in L : l.k = "key" /\ Key(p) = l.v
<1> DEFINE at == {i \in DOMAIN p : p[i].k = "key"}
           last == CHOOSE i \in at : \A j \in at : j <= i
<1>1. CASE at = {}
  <2>1. Key(p) = 0
    BY <1>1, Zenon DEF Key, Field
  <2> QED BY <2>1
<1>2. CASE at # {}
  <2>1. DOMAIN p = 1 .. Len(p) /\ Len(p) \in Nat
    OBVIOUS
  <2>2. at \subseteq 1 .. Len(p)
    BY <2>1
  <2>3. \E i \in at : \A j \in at : j <= i
    <3> HIDE DEF at
    <3> QED BY <1>2, <2>1, <2>2, Greatest, Zenon
  <2>4. last \in at
    <3> HIDE DEF at
    <3> QED BY <2>3
  <2>5. Key(p) = p[last].v
    BY <1>2 DEF Key, Field
  <2> HIDE DEF last
  <2>6. last \in DOMAIN p /\ p[last].k = "key"
    BY <2>4
  <2>7. p[last] \in L
    BY <2>1, <2>6, ElementOfSeq
  <2> QED BY <2>5, <2>6, <2>7
<1> QED BY <1>1, <1>2

\* None of the files to start from has a generated key.
LEMMA FirstKeys ==
    ASSUME NEW file \in Confs, NEW i \in DOMAIN parseConf(file).peers
    PROVE  Key(parseConf(file).peers[i]) \notin Generated
<1> DEFINE L == {file[j] : j \in DOMAIN file}
<1>1. file \in Seq(L) /\ \A l \in L : l.k = "key" => l.v \notin Nat
  BY AdminAssumption
<1> HIDE DEF L
<1>2. PICK ps \in Seq(PeerBlocks(L)) : parseConf(file).peers = ps
  BY <1>1, FileParts
<1>3. ps[i] \in Seq(L)
  <2>1. DOMAIN ps = 1 .. Len(ps)
    OBVIOUS
  <2>2. ps[i] \in PeerBlocks(L)
    BY <1>2, <2>1, ElementOfSeq
  <2> QED BY <2>2 DEF PeerBlocks
<1>4. Key(ps[i]) = 0 \/ \E l \in L : l.k = "key" /\ Key(ps[i]) = l.v
  BY <1>3, KeyFrom
<1>5. Key(ps[i]) \notin Generated
  BY <1>1, <1>4 DEF Generated
<1> QED BY <1>2, <1>5

\* Peers that are alike own the same keys.
LEMMA OwnedSame ==
    ASSUME NEW ps, NEW qs, Same(ps, qs), NEW n, NEW g, KeysOwned(qs, n, g)
    PROVE  KeysOwned(ps, n, g)
<1>1. DOMAIN ps = DOMAIN qs /\ \A i \in DOMAIN ps : Name(ps[i]) = Name(qs[i]) /\ Key(ps[i]) = Key(qs[i])
  BY Zenon DEF Same, Alike
<1> QED BY <1>1, Zenon DEF KeysOwned

\* Provision adds a peer with a key and a name that no other has,
LEMMA OwnedAppend ==
    ASSUME NEW S, NEW ps \in Seq(S), NEW p \in S, NEW n \in Generated, NEW g, KeysOwned(ps, n, g),
           Key(p) = n, n \notin g, \A i \in DOMAIN ps : Key(ps[i]) # n /\ Name(ps[i]) # Name(p)
    PROVE  KeysOwned(Append(ps, p), n, g)
<1> DEFINE qs == Append(ps, p)
           m == Len(ps)
<1>1. /\ m \in Nat /\ DOMAIN ps = 1 .. m /\ DOMAIN qs = 1 .. m + 1 /\ qs[m + 1] = p
      /\ \A i \in 1 .. m : qs[i] = ps[i]
  BY AppendProperties
<1>2. \A i \in DOMAIN qs : i \in DOMAIN ps \/ i = m + 1
  BY <1>1
<1> HIDE DEF qs, m
<1>3. \A i \in DOMAIN qs : (i \in DOMAIN ps /\ qs[i] = ps[i]) \/ (i = m + 1 /\ qs[i] = p)
  BY <1>1, <1>2, Zenon
<1>4. \A i \in DOMAIN qs : Key(qs[i]) \in Nat => Key(qs[i]) <= n
  <2>1. n <= n
    BY DEF Generated
  <2> QED BY <1>3, <2>1, Zenon DEF KeysOwned
<1>5. \A i \in DOMAIN qs : Key(qs[i]) \in Generated => Key(qs[i]) \notin g
  BY <1>3, Zenon DEF KeysOwned
<1>6. ASSUME NEW i \in DOMAIN qs, NEW j \in DOMAIN qs, Key(qs[i]) \in Generated,
             Key(qs[j]) = Key(qs[i]) \/ Name(qs[j]) = Name(qs[i])
      PROVE  i = j
  <2>1. CASE i \in DOMAIN ps /\ qs[i] = ps[i] /\ j \in DOMAIN ps /\ qs[j] = ps[j]
    BY <1>6, <2>1, Zenon DEF KeysOwned
  <2>2. CASE i = m + 1 /\ qs[i] = p /\ j \in DOMAIN ps /\ qs[j] = ps[j]
    BY <1>6, <2>2, Zenon
  <2>3. CASE i \in DOMAIN ps /\ qs[i] = ps[i] /\ j = m + 1 /\ qs[j] = p
    BY <1>6, <2>3, Zenon
  <2>4. (i \in DOMAIN ps /\ qs[i] = ps[i]) \/ (i = m + 1 /\ qs[i] = p)
    BY <1>3
  <2>5. (j \in DOMAIN ps /\ qs[j] = ps[j]) \/ (j = m + 1 /\ qs[j] = p)
    BY <1>3
  <2> QED BY <2>1, <2>2, <2>3, <2>4, <2>5, Zenon
<1>7. KeysOwned(qs, n, g)
  BY <1>4, <1>5, <1>6, Zenon DEF KeysOwned
<1> QED BY <1>7 DEF qs

\* and Revoke takes the only peer with a generated key under that name.
LEMMA OwnedRemove ==
    ASSUME NEW S, NEW ps \in Seq(S), NEW i \in 1 .. Len(ps), NEW n, NEW g, KeysOwned(ps, n, g),
           NEW R, R = {Key(ps[m]) : m \in {j \in DOMAIN ps : Name(ps[j]) = Name(ps[i])}}
    PROVE  KeysOwned(Without(ps, i), n, g \cup R)
<1> DEFINE r == Without(ps, i)
           was(j) == IF j < i THEN j ELSE j + 1
<1>0. DOMAIN ps = 1 .. Len(ps) /\ Len(ps) \in Nat
  OBVIOUS
<1>1. \A j \in DOMAIN r : was(j) \in DOMAIN ps /\ r[j] = ps[was(j)]
  <2>1. /\ DOMAIN r = 1 .. Len(ps) - 1
        /\ \A j \in 1 .. Len(ps) - 1 : was(j) \in 1 .. Len(ps) /\ r[j] = ps[was(j)]
    BY RemovedFrom, Zenon
  <2> HIDE DEF r, was
  <2> QED BY <1>0, <2>1, Zenon
<1>2. /\ \A j \in DOMAIN r : was(j) # i
      /\ \A j, k \in DOMAIN r : was(j) = was(k) => j = k
  <2>1. DOMAIN r = 1 .. Len(ps) - 1
    BY RemovedFrom
  <2> HIDE DEF r
  <2> QED BY <1>0, <2>1
<1> HIDE DEF r, was
<1>3. \A j \in DOMAIN r : Key(r[j]) \in Nat => Key(r[j]) <= n
  BY <1>1, Zenon DEF KeysOwned
<1>4. \A j, k \in DOMAIN r :
        Key(r[j]) \in Generated /\ (Key(r[k]) = Key(r[j]) \/ Name(r[k]) = Name(r[j])) => j = k
  BY <1>1, <1>2, Zenon DEF KeysOwned
<1>5. ASSUME NEW j \in DOMAIN r, Key(r[j]) \in Generated, Key(r[j]) \in g \cup R PROVE FALSE
  <2>1. Key(ps[was(j)]) \in Generated /\ was(j) \in DOMAIN ps /\ r[j] = ps[was(j)]
    BY <1>1, <1>5, Zenon
  <2>2. Key(ps[was(j)]) \in R
    BY <1>5, <2>1, Zenon DEF KeysOwned
  <2>3. PICK m \in DOMAIN ps : Name(ps[m]) = Name(ps[i]) /\ Key(ps[was(j)]) = Key(ps[m])
    BY <2>2
  <2>4. was(j) = m
    BY <2>1, <2>3, Zenon DEF KeysOwned
  <2>5. was(j) = i
    BY <1>0, <2>1, <2>3, <2>4, Zenon DEF KeysOwned
  <2> QED BY <1>2, <2>5
<1>6. KeysOwned(r, n, g \cup R)
  BY <1>3, <1>4, <1>5, Zenon DEF KeysOwned
<1> QED BY <1>6 DEF r

\* A key that is generated later changes nothing.
LEMMA OwnedLater ==
    ASSUME NEW ps, NEW n \in Nat, NEW g, KeysOwned(ps, n, g)
    PROVE  KeysOwned(ps, n + 1, g)
<1>1. \A k : k \in Nat /\ k <= n => k <= n + 1
  OBVIOUS
<1> QED BY <1>1, Zenon DEF KeysOwned

\* What os.Rename puts in place: every generated key has one peer still, and the revoked
\* ones have none.
LEMMA RenameKeys ==
    ASSUME AdminTypes, NEW a \in Admins, Working(a), KeyNew(a), pc[a] = "rename",
           KeysOwned(parseConf(conf).peers, keys, gone)
    PROVE  KeysOwned(state[a].peers, keys, gone \cup Revoked(a))
<1>0. PICK h \in Seq(HeaderLines(Lines)), ps \in Seq(PeerBlocks(Lines)) :
        /\ \E o : parseConf(conf) = St(h, ps, o)
        /\ parseConf(conf).header = h /\ parseConf(conf).peers = ps
  BY FileParts, Zenon DEF AdminTypes
<1>1. PICK o : parseConf(conf) = St(h, ps, o) /\ parseConf(conf).peers = ps
  BY <1>0
<1>a. ps \in Seq(Seq(Lines)) /\ DOMAIN ps = 1 .. Len(ps)
  BY LineSets
<1>b. KeysOwned(ps, keys, gone)
  BY <1>1
<1>2. Head(todo[a]) \in Names
  BY DEF Working
<1>3. CASE cmd[a] = "provision" /\ Added(a)
  <2>1. PICK key \in Nat, addr \in Free(ps) :
          /\ made[a] = [name |-> Head(todo[a]), key |-> key, addr |-> addr]
          /\ state[a] = AddPeer(parseConf(conf), formatPeer(Head(todo[a]), key, addr))
    BY <1>1, <1>3, Zenon DEF Added
  <2> DEFINE name == Head(todo[a])
             np == formatPeer(name, key, addr)
  <2>2. state[a].peers = Append(ps, np)
    <3>1. state[a] = St(h, Append(ps, np), o)
      <4>1. AddPeer(St(h, ps, o), np) = St(h, Append(ps, np), o)
        BY Changes
      <4> QED BY <1>1, <2>1, <4>1, Zenon
    <3>2. \A qs : St(h, qs, o).peers = qs
      BY StParts
    <3> QED BY <3>1, <3>2, Zenon
  <2>3. addr \in Nat
    BY AdminAssumption DEF Free
  <2>4. /\ Blank \in Lines /\ Line("peer", 0) \in Lines /\ Line("name", name) \in Lines
        /\ Line("key", key) \in Lines /\ Line("ips", {addr}) \in Lines
    BY <1>2, <2>3, LinesHave, Zenon
  <2>5. np \in Seq(Lines)
    BY <2>4, FormatBlock
  <2>6. Name(np) = name /\ Key(np) = key
    BY FormatFields, Zenon
  <2>7. /\ key = keys /\ keys \in Generated /\ keys \notin gone
        /\ \A i \in DOMAIN ps : Key(ps[i]) # keys /\ Name(ps[i]) # name
    <3>1. made[a].key = key
      BY <2>1
    <3>2. /\ made[a].key = keys /\ keys \in Generated /\ keys \notin gone
          /\ \A i \in DOMAIN ps : Key(ps[i]) # keys /\ Name(ps[i]) # name
      BY <1>1, <1>3, Zenon DEF KeyNew
    <3> QED BY <3>1, <3>2, Zenon
  <2>8. Revoked(a) = {}
    BY <1>3 DEF Revoked
  <2> HIDE DEF np, name
  <2>9. KeysOwned(Append(ps, np), keys, gone)
    BY <1>a, <1>b, <2>5, <2>6, <2>7, OwnedAppend, Zenon
  <2>10. gone \cup Revoked(a) = gone
    BY <2>8
  <2> QED BY <2>2, <2>9, <2>10, Zenon
<1>4. CASE cmd[a] = "revoke" /\ Removed(a)
  <2>1. PICK i \in 1 .. Len(ps) :
          Name(ps[i]) = Head(todo[a]) /\ state[a] = DropPeer(parseConf(conf), i)
    BY <1>1, <1>4, <1>a, Zenon DEF Removed
  <2>2. state[a].peers = Without(ps, i)
    <3>1. state[a] = St(h, Without(ps, i), o)
      <4>1. DropPeer(St(h, ps, o), i) = St(h, Without(ps, i), o)
        BY Changes
      <4> QED BY <1>1, <2>1, <4>1, Zenon
    <3>2. \A qs : St(h, qs, o).peers = qs
      BY StParts
    <3> QED BY <3>1, <3>2, Zenon
  <2>3. Revoked(a) = {Key(ps[m]) : m \in {j \in DOMAIN ps : Name(ps[j]) = Name(ps[i])}}
    BY <1>1, <1>4, <2>1, Zenon DEF Revoked
  <2>4. KeysOwned(Without(ps, i), keys, gone \cup Revoked(a))
    BY <1>a, <1>b, <2>3, OwnedRemove, Zenon
  <2> QED BY <2>2, <2>4
<1> QED BY <1>3, <1>4, Zenon DEF Working

\* An operator without the lock has no key to look after.
LEMMA OthersKeys ==
    ASSUME NEW a \in Admins, NEW b \in Admins \ {a}, Working(b), KeyNew(b), Own(a),
           lock \in {a, Nobody} \/ UNCHANGED <<conf, keys, gone>>
    PROVE  KeyNew(b)'
<1>1. /\ pc'[b] = pc[b] /\ cmd'[b] = cmd[b] /\ todo'[b] = todo[b] /\ made'[b] = made[b]
  BY Zenon DEF Own
<1>2. CASE lock \in {a, Nobody}
  <2>1. lock # b
    BY <1>2, AdminAssumption, Zenon
  <2>2. pc[b] \notin {"read", "write", "rename", "sync"}
    BY <2>1 DEF Working
  <2> QED BY <1>1, <2>2, Zenon DEF KeyNew
<1>3. CASE UNCHANGED <<conf, keys, gone>>
  BY <1>1, <1>3, Zenon DEF KeyNew
<1> QED BY <1>2, <1>3

\* Every step of an operator keeps it.
LEMMA KeysPreserved ==
    ASSUME AdminInv, KeysInv, AdminNext
    PROVE  KeysInv'
<1>0. AdminTypes /\ (\A a \in Admins : Working(a) /\ KeyNew(a)) /\ keys \in Nat
  BY Zenon DEF AdminInv, KeysInv, AdminTypes
<1>1. PICK a \in Admins : Lock(a) \/ Provision(a) \/ Revoke(a) \/ WriteTemp(a)
                             \/ Rename(a) \/ Sync(a) \/ Crash(a)
  BY DEF AdminNext
<1>w. Working(a) /\ KeyNew(a)
  BY <1>0
\* A step that leaves the file and what has been given out alone.
<1>2. ASSUME Own(a), KeyNew(a)', UNCHANGED <<conf, live, urls, gone, stale>>,
             keys' = keys \/ (keys' = keys + 1 /\ lock \in {a, Nobody})
      PROVE  KeysInv'
  <2>1. ASSUME NEW b \in Admins PROVE KeyNew(b)'
    <3>1. CASE b = a
      BY <1>2, <3>1
    <3>2. CASE b # a
      BY <1>0, <1>2, <3>2, OthersKeys
    <3> QED BY <3>1, <3>2
  <2>2. KeysOwned(parseConf(conf).peers, keys', gone)
    BY <1>0, <1>2, OwnedLater DEF KeysInv
  <2>3. \A k \in gone : k \in Nat => k <= keys'
    BY <1>0, <1>2 DEF KeysInv
  <2> QED BY <1>2, <2>1, <2>2, <2>3, Zenon DEF KeysInv
<1>3. ASSUME Ended(a), UNCHANGED <<conf, live, urls, gone, stale, keys>>
      PROVE  KeysInv'
  <2>1. Own(a) /\ pc'[a] \in {"lock", "idle"}
    BY <1>0, <1>3 DEF Own, Ended, AdminTypes
  <2>2. KeyNew(a)'
    BY <2>1 DEF KeyNew
  <2> QED BY <1>2, <1>3, <2>1, <2>2
<1>4. CASE Lock(a)
  <2>1. Own(a) /\ pc'[a] = "read"
    BY <1>0, <1>4, Zenon DEF Lock, Own, AdminTypes
  <2>2. KeyNew(a)'
    BY <2>1 DEF KeyNew
  <2> QED BY <1>2, <1>4, <2>1, <2>2 DEF Lock
<1>5. CASE Crash(a)
  <2>1. Own(a) /\ pc'[a] = "idle"
    BY <1>0, <1>5 DEF Crash, Own, AdminTypes
  <2>2. KeyNew(a)'
    BY <2>1 DEF KeyNew
  <2> QED BY <1>2, <1>5, <2>1, <2>2 DEF Crash
<1>6. CASE Provision(a)
  <2>0. pc[a] = "read" /\ cmd[a] = "provision" /\ UNCHANGED <<conf, live, urls, gone, stale>>
    BY <1>6 DEF Provision
  <2>1. CASE Done(a, "error") /\ UNCHANGED keys
    <3>1. Ended(a)
      BY <2>1, DoneEnds, Zenon
    <3> QED BY <1>3, <2>0, <2>1, <3>1
  <2>2. CASE ~(Done(a, "error") /\ UNCHANGED keys)
    <3> DEFINE ps == parseConf(conf).peers
               name == Head(todo[a])
               addr == CHOOSE x \in Free(ps) : \A y \in Free(ps) : x <= y
    <3>1. /\ ~\E i \in DOMAIN ps : Name(ps[i]) = name
          /\ keys' = keys + 1
          /\ \E s : state' = [state EXCEPT ![a] = s]
          /\ made' = [made EXCEPT ![a] = [name |-> name, key |-> keys', addr |-> addr]]
          /\ pc' = [pc EXCEPT ![a] = "write"] /\ UNCHANGED <<lock, todo, cmd>>
      BY <1>6, <2>2, Zenon DEF Provision
    <3> HIDE DEF addr
    <3>2. Own(a) /\ pc'[a] = "write" /\ todo'[a] = todo[a] /\ lock = a
      BY <1>0, <1>w, <2>0, <3>1, Zenon DEF Own, AdminTypes, Working
    <3>3. made'[a].key = keys + 1
      <4>1. made'[a] = [name |-> name, key |-> keys', addr |-> addr]
        BY <1>0, <3>1, Zenon DEF AdminTypes
      <4> QED BY <3>1, <4>1
    <3>4. keys + 1 \in Generated /\ keys + 1 \notin gone
      BY <1>0 DEF KeysInv, Generated
    <3>5. \A i \in DOMAIN ps : Key(ps[i]) # keys + 1 /\ Name(ps[i]) # name
      <4>1. \A i \in DOMAIN ps : Key(ps[i]) \in Nat => Key(ps[i]) <= keys
        BY Zenon DEF KeysInv, KeysOwned
      <4> HIDE DEF ps, name
      <4> QED BY <1>0, <3>1, <4>1
    <3>6. KeyNew(a)'
      BY <2>0, <3>1, <3>2, <3>3, <3>4, <3>5 DEF KeyNew
    <3> QED BY <1>2, <2>0, <3>1, <3>2, <3>6, Zenon
  <2> QED BY <2>1, <2>2, Zenon
<1>7. CASE Revoke(a)
  <2>0. pc[a] = "read" /\ cmd[a] = "revoke" /\ UNCHANGED <<conf, live, urls, gone, stale, keys>>
    BY <1>7, Zenon DEF Revoke
  <2>1. CASE Done(a, "error")
    <3>1. Ended(a)
      BY <2>1, DoneEnds, Zenon
    <3> QED BY <1>3, <2>0, <3>1
  <2>2. CASE ~Done(a, "error")
    <3>1. /\ \E s : state' = [state EXCEPT ![a] = s]
          /\ pc' = [pc EXCEPT ![a] = "write"] /\ UNCHANGED <<lock, todo, cmd, made>>
      BY <1>7, <2>2, Zenon DEF Revoke
    <3>2. Own(a) /\ pc'[a] = "write" /\ cmd'[a] = "revoke"
      BY <1>0, <2>0, <3>1, Zenon DEF Own, AdminTypes
    <3>3. KeyNew(a)'
      BY <3>2 DEF KeyNew
    <3> QED BY <1>2, <2>0, <3>2, <3>3
  <2> QED BY <2>1, <2>2, Zenon
<1>8. CASE WriteTemp(a)
  <2>0. pc[a] = "write" /\ UNCHANGED <<conf, live, keys, urls, gone, stale>>
    BY <1>8 DEF WriteTemp
  <2>1. CASE Done(a, "error")
    <3>1. Ended(a)
      BY <2>1, DoneEnds, Zenon
    <3> QED BY <1>3, <2>0, <3>1
  <2>2. CASE pc' = [pc EXCEPT ![a] = "rename"] /\ UNCHANGED <<lock, cmd, todo, state, made>>
    <3>1. Own(a) /\ pc'[a] = "rename"
      BY <1>0, <2>2 DEF Own, AdminTypes
    <3>2. KeyNew(a)'
      BY <1>w, <2>0, <2>2, <3>1, Zenon DEF KeyNew
    <3> QED BY <1>2, <2>0, <2>2, <3>1, <3>2
  <2> QED BY <1>8, <2>1, <2>2, Zenon DEF WriteTemp
<1>9. CASE Rename(a)
  <2>0. pc[a] = "rename" /\ UNCHANGED <<live, keys, urls>> /\ lock = a
    BY <1>9, <1>w, Zenon DEF Rename, Working
  <2>1. CASE Done(a, "error") /\ UNCHANGED <<conf, gone, stale>>
    <3>1. Ended(a)
      BY <2>1, DoneEnds, Zenon
    <3> QED BY <1>3, <2>0, <2>1, <3>1
  <2>2. CASE /\ conf' = writeConf(state[a]) /\ gone' = gone \cup Revoked(a)
             /\ pc' = [pc EXCEPT ![a] = "sync"] /\ stale' = TRUE
             /\ UNCHANGED <<lock, cmd, todo, state, made>>
    <3>1. Same(parseConf(conf').peers, state[a].peers)
      BY <1>0, <1>w, <2>0, <2>2, RenameFile, Zenon
    <3>2. KeysOwned(state[a].peers, keys, gone \cup Revoked(a))
      BY <1>0, <1>w, <2>0, RenameKeys, Zenon DEF KeysInv
    <3>3. KeysOwned(parseConf(conf').peers, keys', gone')
      BY <2>0, <2>2, <3>1, <3>2, OwnedSame, Zenon
    <3>4. Own(a) /\ pc'[a] = "sync"
      BY <1>0, <2>2, Zenon DEF Own, AdminTypes
    <3>5. KeyNew(a)'
      BY <1>w, <2>0, <2>2, <3>4, Zenon DEF KeyNew
    <3>6. ASSUME NEW b \in Admins PROVE KeyNew(b)'
      <4>1. CASE b = a
        BY <3>5, <4>1
      <4>2. CASE b # a
        BY <1>0, <2>0, <3>4, <4>2, OthersKeys
      <4> QED BY <4>1, <4>2
    <3>7. \A k \in Revoked(a) : k \in Nat => k <= keys
      BY Zenon DEF Revoked, KeysInv, KeysOwned
    <3>8. \A k \in gone' : k \in Nat => k <= keys'
      BY <2>0, <2>2, <3>7 DEF KeysInv
    <3> QED BY <2>0, <2>2, <3>3, <3>6, <3>8, Zenon DEF KeysInv
  <2> QED BY <1>9, <2>1, <2>2, Zenon DEF Rename
<1>10. CASE Sync(a)
  <2>0. pc[a] = "sync" /\ UNCHANGED <<conf, keys, gone>> /\ lock = a
    BY <1>10, <1>w, Zenon DEF Sync, Working
  <2>1. CASE Done(a, "error") /\ UNCHANGED <<live, stale, urls>>
    <3>1. Ended(a)
      BY <2>1, DoneEnds, Zenon
    <3> QED BY <1>3, <2>0, <2>1, <3>1
  <2>2. CASE /\ live' = Stripped(state[a].peers) /\ stale' = FALSE /\ Done(a, "ok")
             /\ urls' = IF cmd[a] = "provision" THEN urls \cup {made[a]} ELSE urls
    <3>1. Ended(a)
      BY <2>2, DoneEnds, Zenon
    <3>2. Own(a) /\ pc'[a] \in {"lock", "idle"}
      BY <1>0, <3>1 DEF Own, Ended, AdminTypes
    <3>3. ASSUME NEW b \in Admins PROVE KeyNew(b)'
      <4>1. CASE b = a
        BY <3>2, <4>1, Zenon DEF KeyNew
      <4>2. CASE b # a
        BY <1>0, <2>0, <3>2, <4>2, OthersKeys
      <4> QED BY <4>1, <4>2
    <3>4. live' = Stripped(parseConf(conf).peers)
      <4>1. Same(parseConf(conf).peers, state[a].peers)
        BY <1>w, <2>0 DEF Working
      <4> QED BY <2>2, <4>1, SameKeeps, Zenon
    <3>5. \A u \in urls' : u.key \in Generated
      BY <1>w, <2>0, <2>2, Zenon DEF KeysInv, KeyNew
    <3> QED BY <2>0, <3>3, <3>4, <3>5, Zenon DEF KeysInv
  <2> QED BY <1>10, <2>1, <2>2, Zenon DEF Sync
<1> QED BY <1>1, <1>4, <1>5, <1>6, <1>7, <1>8, <1>9, <1>10

\* It holds in every state.
LEMMA KeysInvariance == Spec => []KeysInv
<1>1. Init => KeysInv
  <2> SUFFICES ASSUME Init PROVE KeysInv
    OBVIOUS
  <2>1. conf \in Confs /\ keys = 0 /\ gone = {} /\ urls = {}
    BY DEF Init, AdminInit
  <2>2. \A i \in DOMAIN parseConf(conf).peers : Key(parseConf(conf).peers[i]) \notin Generated
    BY <2>1, FirstKeys
  <2>3. \A k : k \in Nat /\ k \notin Generated => k <= 0
    BY DEF Generated
  <2>4. KeysOwned(parseConf(conf).peers, keys, gone)
    BY <2>1, <2>2, <2>3, Zenon DEF KeysOwned
  <2>5. ASSUME NEW a \in Admins PROVE KeyNew(a)
    <3>1. pc[a] = "idle"
      BY DEF Init, AdminInit
    <3> QED BY <3>1 DEF KeyNew
  <2> QED BY <2>1, <2>4, <2>5 DEF KeysInv
<1>2. AdminInv /\ KeysInv /\ [Next]_<<adminvars, clientvars>> => KeysInv'
  <2>1. ASSUME KeysInv, UNCHANGED adminvars PROVE KeysInv'
    BY <2>1, Zenon DEF adminvars, KeysInv, KeyNew
  <2> QED BY <2>1, KeysPreserved DEF Next
<1> QED BY <1>1, <1>2, AdminInvariance, PTL DEF Spec

\* A client URL that was printed has its peer in the file, with its name, its key and its
\* address, and on the interface, until it is revoked, and no peer from then on (UrlsWork):
\* no operator undoes what another one has done, because Provision and Revoke read the file,
\* change it, rename it and sync the interface under the lock; and taking the first peer of
\* a name out is enough, because Provision refuses a name that is in the file.
THEOREM PrintedUrlsWork == Spec => []UrlsWork
<1>1. AdminInv /\ KeysInv => UrlsWork
  <2> SUFFICES ASSUME AdminInv, KeysInv, NEW u \in urls
               PROVE  IF u.key \in gone THEN ShutOut(u) ELSE Works(u)
    BY DEF UrlsWork
  <2>1. CASE u.key \notin gone
    BY <2>1, Zenon DEF AdminInv, UrlsKept, Works
  <2>2. CASE u.key \in gone
    <3>1. u.key \in Generated
      BY DEF KeysInv
    <3>2. \A i \in DOMAIN parseConf(conf).peers : Key(parseConf(conf).peers[i]) # u.key
      BY <2>2, <3>1, Zenon DEF KeysInv, KeysOwned
    <3>3. ~stale => \A p \in live : p.key # u.key
      <4> SUFFICES ASSUME ~stale, NEW p \in live PROVE p.key # u.key
        OBVIOUS
      <4>1. live = Stripped(parseConf(conf).peers)
        BY <2>2 DEF KeysInv
      <4>2. PICK i \in DOMAIN parseConf(conf).peers :
              p = [key |-> Key(parseConf(conf).peers[i]), ips |-> Ips(parseConf(conf).peers[i])]
        BY <4>1, Zenon DEF Stripped
      <4> QED BY <3>2, <4>2
    <3> QED BY <2>2, <3>2, <3>3, Zenon DEF ShutOut
  <2> QED BY <2>1, <2>2
<1> QED BY <1>1, AdminInvariance, KeysInvariance, PTL

\* A generated key has at most one peer in the file, no other peer has that peer's name, and
\* it is not a revoked one.
GeneratedKeysOwned == KeysOwned(parseConf(conf).peers, keys, gone)

\* Provision: no two peers of the file ever share a generated key, and the name of such a
\* peer is its own, so that Revoke by name takes out exactly that peer; whatever the files
\* to start from name their own peers (server.go:160-256).
THEOREM ProvisionedOnce == Spec => []GeneratedKeysOwned
<1>1. KeysInv => GeneratedKeysOwned
  BY DEF KeysInv, GeneratedKeysOwned
<1> QED BY <1>1, KeysInvariance, PTL

-----------------------------------------------------------------------------
\* The signal channel of a run: a signal that has come is in the channel until the run takes
\* it or fails on its own.
SignalKept == asked => step # "idle" /\ (sigs \/ step = "unwind")

\* A signal that comes while the client is starting is not lost (SignalKept; connect.go:105,
\* 212): the channel has room for it before anyone waits.  With fairness, SignalEnds.
THEOREM SignalsKept == Spec => []SignalKept
<1>1. Init => SignalKept
  BY DEF Init, ClientInit, SignalKept
<1>2. SignalKept /\ [Next]_<<adminvars, clientvars>> => SignalKept'
  <2> SUFFICES ASSUME SignalKept, [Next]_<<adminvars, clientvars>> PROVE SignalKept'
    OBVIOUS
  <2>1. CASE UNCHANGED clientvars
    BY <2>1, Zenon DEF clientvars, SignalKept
  <2>2. CASE Run \/ Exit \/ Kill \/ Signal \/ Shutdown \/ Unwind
    <3>1. CASE Run \/ Exit \/ Kill
      <4>1. asked' = FALSE
        BY <3>1, Zenon DEF Run, Exit, Kill
      <4> QED BY <4>1, Zenon DEF SignalKept
    <3>2. CASE Signal
      <4>1. sigs' = TRUE /\ step # "idle" /\ step' = step
        BY <3>2, Zenon DEF Signal
      <4> QED BY <4>1, Zenon DEF SignalKept
    <3>3. CASE Shutdown \/ Unwind
      <4>1. step' = "unwind"
        BY <3>3, Zenon DEF Shutdown, Unwind
      <4> QED BY <4>1 DEF SignalKept
    <3> QED BY <2>2, <3>1, <3>2, <3>3
  <2>3. CASE NoLaunch \/ LaunchChrome \/ WaitChrome \/ StartTunnel \/ OpenTUN \/ StartKernel \/ LinkUp
             \/ AddAddress \/ AddRoute
    <3>1. UNCHANGED <<sigs, asked>> /\ step # "unwind" /\ step' # "idle"
      <4>1. \A s \in {"tunnel", "tun", "kernel", "link", "addr", "route"} : After(s) # "idle"
        BY StagesFollow
      <4> QED BY <2>3, <4>1 DEF NoLaunch, LaunchChrome, WaitChrome, StartTunnel, OpenTUN, StartKernel,
           LinkUp, AddAddress, AddRoute, Up, Fails
    <3> QED BY <3>1, Zenon DEF SignalKept
  <2> QED BY <2>1, <2>2, <2>3 DEF Next, ClientStep
<1> QED BY <1>1, <1>2, PTL DEF Spec
=============================================================================
