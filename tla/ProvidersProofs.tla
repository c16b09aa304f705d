--------------------------- MODULE ProvidersProofs ---------------------------
(***************************************************************************)
(* Theorems about Providers for every chain of solvers, every number of    *)
(* captcha answers that a session observes and every number of Fetch calls.*)
(***************************************************************************)
EXTENDS Providers, TLAPS
-----------------------------------------------------------------------------
(* The form that step 3 of the VK provider posts again.                      *)

\* A form is for one challenge, answered by a key or by a token, or for none.
Answered(f, n) ==
    /\ f.captcha_sid = n /\ n # 0
    /\ \/ f.captcha_key = n /\ f.success_token = 0
       \/ f.captcha_key = 0 /\ f.success_token = n

FormTypeOK ==
    /\ form \in [captcha_sid : Nat, captcha_key : Nat, success_token : Nat, captcha_ts : Nat]
    /\ challenge \in [n : Nat, redirect : BOOLEAN]

\* A solver works on a challenge.  The form that is posted answers the last one, or there
\* has been no solution yet.
FormInv ==
    /\ FormTypeOK
    /\ fetch \in {"chain", "cdp", "stdio"} => challenge.n # 0
    /\ fetch = "step3" => form.captcha_sid = 0 \/ Answered(form, challenge.n)
    /\ fetch \in {"idle", "step1", "step2"} => form.captcha_sid = 0

\* The form is in good order when Fetch starts, and after every return.
LEMMA Emptied ==
    EmptyForm.captcha_sid = 0 /\ NoChallenge \in [n : Nat, redirect : BOOLEAN]
    /\ EmptyForm \in [captcha_sid : Nat, captcha_key : Nat, success_token : Nat, captcha_ts : Nat]
  BY DEF EmptyForm, NoChallenge

LEMMA Returned == ASSUME NEW o, Return(o) PROVE FormInv'
  BY Emptied DEF Return, FormInv, FormTypeOK

\* applySolution makes the form answer the last challenge, whatever it held before.
LEMMA Applied ==
    ASSUME FormTypeOK, challenge.n # 0, NEW mode \in {"text", "token"}, NEW ts \in BOOLEAN
    PROVE  /\ Apply(mode, ts) \in [captcha_sid : Nat, captcha_key : Nat,
                                   success_token : Nat, captcha_ts : Nat]
           /\ Answered(Apply(mode, ts), challenge.n)
<1>1. challenge.n \in Nat
  BY DEF FormTypeOK
<1>2. CASE mode = "text"
  BY <1>1, <1>2, Zenon DEF FormTypeOK, Apply, Answered
<1>3. CASE mode = "token"
  BY <1>1, <1>3, Zenon DEF FormTypeOK, Apply, Answered
<1> QED BY <1>2, <1>3

LEMMA SolvedKeeps ==
    ASSUME FormInv, challenge.n # 0, NEW mode \in {"text", "token"}, Solved(mode)
    PROVE  FormInv'
<1>1. CASE fetch' = "step3" /\ (\E ts \in BOOLEAN : form' = Apply(mode, ts)) /\ challenge' = challenge
  <2>1. PICK ts \in BOOLEAN : form' = Apply(mode, ts)
    BY <1>1
  <2>2. Answered(form', challenge.n) /\ form' \in [captcha_sid : Nat, captcha_key : Nat,
                                                   success_token : Nat, captcha_ts : Nat]
    BY <2>1, Applied DEF FormInv
  <2> QED BY <1>1, <2>2 DEF FormInv, FormTypeOK
<1>2. CASE \E o : Return(o)
  BY <1>2, Returned
<1> QED BY <1>1, <1>2 DEF Solved

\* A solver that gives up leaves the form and the challenge alone.
LEMMA FailsKeeps ==
    ASSUME FormInv, challenge.n # 0, SolverFails
    PROVE  FormInv'
  BY DEF FormInv, FormTypeOK, SolverFails

\* Every step keeps it: the captcha fields are written by applySolution only, and they go
\* with the Fetch that they belong to.
LEMMA FormPreserved ==
    ASSUME FormInv, [Next]_allvars
    PROVE  FormInv'
<1>1. CASE Fetch
  <2>1. fetch = "idle" /\ fetch' \in {"step1", "conference", "idle"} /\ UNCHANGED <<challenge, form>>
    BY <1>1 DEF Fetch, VkHint, TelemostHint
  <2> QED BY <2>1 DEF FormInv, FormTypeOK
<1>2. CASE Connect
  <2>1. CASE http' = "open" /\ UNCHANGED <<fetch, challenge, form>>
    BY <2>1 DEF FormInv, FormTypeOK
  <2>2. CASE fetch = "step2" /\ Goto("step3")
    BY <2>2 DEF Goto, FormInv, FormTypeOK
  <2> QED BY <1>2, <2>1, <2>2, Returned, Zenon DEF Connect
<1>3. CASE Chain
  <2>1. challenge.n # 0
    BY <1>3 DEF Chain, FormInv
  <2>2. ASSUME NEW to \in {"cdp", "stdio"}, Goto(to) PROVE FormInv'
    BY <2>1, <2>2 DEF Goto, FormInv, FormTypeOK
  <2> QED BY <1>3, <2>1, <2>2, FailsKeeps, Returned, Zenon DEF Chain
<1>4. CASE CdpReturned
  <2>1. challenge.n # 0
    BY <1>4 DEF CdpReturned, FormInv
  <2> QED BY <1>4, <2>1, SolvedKeeps, FailsKeeps, Zenon DEF CdpReturned
<1>5. CASE StdioExpires
  <2>1. challenge.n # 0
    BY <1>5 DEF StdioExpires, FormInv
  <2> QED BY <1>5, <2>1, FailsKeeps DEF StdioExpires
<1>6. CASE TypeLine
  <2>1. CASE UNCHANGED <<fetch, challenge, form>>
    BY <2>1 DEF FormInv, FormTypeOK
  <2>2. CASE fetch = "stdio" /\ (Solved("text") \/ SolverFails)
    <3>1. challenge.n # 0
      BY <2>2 DEF FormInv
    <3> QED BY <2>2, <3>1, SolvedKeeps, FailsKeeps, Zenon
  <2> QED BY <1>6, <2>1, <2>2, Zenon DEF TypeLine
<1>7. CASE Step1 \/ Step4 \/ Step5
  <2>1. ASSUME NEW to \in {"step2", "step5"}, fetch \in {"step1", "step4"}, Goto(to),
               to = "step2" => fetch = "step1"
        PROVE  FormInv'
    BY <2>1 DEF Goto, FormInv, FormTypeOK
  <2> QED BY <1>7, <2>1, Returned, Zenon DEF Step1, Step4, Step5, Step
<1>8. CASE Step2
  BY <1>8 DEF Step2, Goto, FormInv, FormTypeOK
<1>9. CASE Step3
  <2>1. CASE fetch' = "step4" /\ UNCHANGED <<challenge, form>>
    BY <2>1 DEF FormInv, FormTypeOK
  <2>2. CASE fetch' = "chain" /\ form' = form /\ \E r \in BOOLEAN : challenge' = [n |-> challenge.n + 1, redirect |-> r]
    <3>1. challenge.n \in Nat
      BY DEF FormInv, FormTypeOK
    <3>2. challenge' \in [n : Nat, redirect : BOOLEAN] /\ challenge'.n # 0
      BY <2>2, <3>1
    <3> QED BY <2>2, <3>2 DEF FormInv, FormTypeOK
  <2> QED BY <1>9, <2>1, <2>2, Returned, Zenon DEF Step3
<1>10. CASE Conference \/ DialMedia \/ Frame \/ FramesEnd
  <2>1. ASSUME NEW to \in {"dial", "frames"}, Goto(to) PROVE FormInv'
    BY <2>1 DEF Goto, FormInv, FormTypeOK
  <2> QED BY <1>10, <2>1, Returned, Zenon DEF Conference, DialMedia, Frame, FramesEnd
<1>11. CASE UNCHANGED <<fetch, challenge, form>>
  BY <1>11 DEF FormInv, FormTypeOK
<1> QED
  <2>1. Expires => UNCHANGED <<fetch, challenge, form>>
    BY DEF Expires
  <2>2. UNCHANGED vkvars => UNCHANGED <<fetch, challenge, form>>
    BY DEF vkvars
  <2>3. UNCHANGED allvars => UNCHANGED vkvars
    BY DEF allvars
  <2> QED BY <1>1, <1>2, <1>3, <1>4, <1>5, <1>6, <1>7, <1>8, <1>9, <1>10, <1>11, <2>1, <2>2, <2>3
          DEF Next, FetchStep, Answer

\* What step 3 posts again is one solution for the last challenge, whatever mix of solvers
\* the attempts went through (FormCoherent; captcha.go applySolution).
THEOREM FormsAreCoherent == Spec => []FormCoherent
<1>1. Init => FormInv
  BY Emptied DEF Init, FormInv, FormTypeOK
<1>2. FormInv /\ [Next]_allvars => FormInv'
  BY FormPreserved
<1>3. FormInv => FormCoherent
  <2> SUFFICES ASSUME FormInv, fetch = "step3", form.captcha_sid # 0
               PROVE  /\ form.captcha_sid = challenge.n
                      /\ {form.captcha_key, form.success_token} = {0, challenge.n}
    BY DEF FormCoherent
  <2>1. Answered(form, challenge.n)
    BY DEF FormInv
  <2> QED BY <2>1 DEF Answered
<1> QED BY <1>1, <1>2, <1>3, PTL DEF Spec
-----------------------------------------------------------------------------
(* One Solve of CDPSolver.                                                   *)

\* What Solve still owes, by where it is: the WebSocket before the tab.
Owed ==
    /\ solve = "openTab" => tab = "none" /\ chrome = "none"
    /\ solve = "dial" => tab = "open" /\ chrome = "none"
    /\ solve \in {"script", "token", "closeConn"} => tab = "open" /\ chrome # "none"
    /\ solve = "closeTab" => chrome # "open"
    /\ solve \in {"cancel", "idle"} => tab # "open" /\ chrome # "open"

\* A caller whose reply has yet to come has an empty reply channel.
RepliesAwaited == \A c \in pending : chan[c] = "empty"

SolveInv ==
    /\ Owed /\ RepliesAwaited
    /\ solve \in {"openTab", "dial", "script", "token", "closeConn", "closeTab", "cancel", "idle"}
    /\ pending \subseteq Callers /\ DOMAIN chan = Callers

\* Solve closes what it has opened, on every way out.
LEMMA LeaveOwed ==
    ASSUME NEW o, Leave(o), chrome' = chrome, tab' = tab,
           tab = "open" /\ (chrome = "none" \/ solve \in {"script", "token"}), Owed
    PROVE  Owed' /\ solve' \in {"closeConn", "closeTab"}
  BY DEF Leave, Owed

\* What a step of Solve, of the read loop or of a watcher does to the tab and the socket.
LEMMA OwedPreserved ==
    ASSUME SolveInv, CdpStep \/ CdpEnvironment
    PROVE  Owed' /\ solve' \in {"openTab", "dial", "script", "token", "closeConn", "closeTab",
                                "cancel", "idle"}
<1>1. CASE OpenTab
  BY <1>1 DEF OpenTab, Leave, SolveInv, Owed
<1>2. CASE Dial
  BY <1>2 DEF Dial, Leave, SolveInv, Owed
<1>3. CASE SolveRefusesHost \/ SolveContinues \/ AwaitToken
  <2>1. chrome' = chrome /\ tab' = tab /\ solve \in {"script", "token"} /\ tab = "open"
    BY <1>3 DEF SolveRefusesHost, SolveContinues, AwaitToken, SolveInv, Owed
  <2>2. solve' \in {solve, "token"} \/ \E o : Leave(o)
    BY <1>3, Zenon DEF SolveRefusesHost, SolveContinues, AwaitToken
  <2> QED BY <2>1, <2>2, LeaveOwed DEF SolveInv, Owed
<1>4. CASE SolveReturns
  BY <1>4 DEF SolveReturns, SolveInv, Owed
<1>5. CASE UNCHANGED <<solve, tab>> /\ (chrome' = chrome \/ (chrome = "open" /\ chrome' = "closed"))
  BY <1>5 DEF SolveInv, Owed
<1>6. ASSUME NEW c \in Callers, CallWrites(c) \/ CallReturns(c) \/ ReadReply(c)
      PROVE  UNCHANGED <<solve, tab, chrome>>
  BY <1>6, Zenon DEF CallWrites, CallReturns, ReadReply
<1>7. ASSUME NEW w \in Watchers, WatcherEnds(w) \/ ReadEvent(w)
      PROVE  UNCHANGED <<solve, tab, chrome>>
  BY <1>7, Zenon DEF WatcherEnds, ReadEvent
<1>8. SolveCalls \/ ReadEnds \/ SolveExpires => UNCHANGED <<solve, tab, chrome>>
  BY Zenon DEF SolveCalls, ReadEnds, SolveExpires
<1>9. ChromeGoes => UNCHANGED <<solve, tab>> /\ chrome = "open" /\ chrome' = "closed"
  BY DEF ChromeGoes
<1> QED BY <1>1, <1>2, <1>3, <1>4, <1>5, <1>6, <1>7, <1>8, <1>9, Zenon DEF CdpStep, CdpEnvironment

\* A reply takes the entry out of the map, and a new call starts with an empty channel.
LEMMA RepliesPreserved ==
    ASSUME SolveInv, CdpStep \/ CdpEnvironment
    PROVE  RepliesAwaited' /\ pending' \subseteq Callers /\ DOMAIN chan' = Callers
<1> USE DEF SolveInv, RepliesAwaited
<1>1. CASE UNCHANGED <<pending, chan>>
  BY <1>1
<1>2. ASSUME NEW c \in Callers, CallRegisters(c)
      PROVE  RepliesAwaited' /\ pending' \subseteq Callers /\ DOMAIN chan' = Callers
  BY <1>2 DEF CallRegisters
<1>3. ASSUME NEW c \in Callers, CallWrites(c) \/ CallReturns(c) \/ ReadReply(c)
      PROVE  RepliesAwaited' /\ pending' \subseteq Callers /\ DOMAIN chan' = Callers
  BY <1>3 DEF CallWrites, CallReturns, ReadReply
<1>4. CASE ReadEnds
  BY <1>4 DEF ReadEnds
<1>5. ASSUME NEW w \in Watchers, WatcherEnds(w) PROVE UNCHANGED <<pending, chan>>
  BY <1>5 DEF WatcherEnds
<1>6. OpenTab \/ Dial \/ SolveRefusesHost \/ SolveContinues \/ AwaitToken \/ SolveReturns
          \/ ChromeGoes \/ SolveExpires => UNCHANGED <<pending, chan>>
  BY Zenon DEF OpenTab, Dial, SolveRefusesHost, SolveContinues, AwaitToken, SolveReturns,
     ChromeGoes, SolveExpires
<1>7. SolveCalls => CallRegisters("Solve") /\ "Solve" \in Callers
  BY DEF SolveCalls, Callers
<1>8. ASSUME NEW w \in Watchers, ReadEvent(w) PROVE CallRegisters(w) /\ w \in Callers
  BY <1>8 DEF ReadEvent, Callers
<1> QED BY <1>1, <1>2, <1>3, <1>4, <1>5, <1>6, <1>7, <1>8, Zenon DEF CdpStep, CdpEnvironment

\* It holds in every state.
LEMMA SolveInvariance == Spec => []SolveInv
<1>1. Init => SolveInv
  BY DEF Init, CdpInit, SolveInv, Owed, RepliesAwaited
<1>2. SolveInv /\ [Next]_allvars => SolveInv'
  <2> SUFFICES ASSUME SolveInv, [Next]_allvars PROVE SolveInv'
    OBVIOUS
  <2>1. CASE CdpStep \/ CdpEnvironment
    BY <2>1, OwedPreserved, RepliesPreserved DEF SolveInv
  <2>2. CASE SolveStarts
    BY <2>2 DEF SolveStarts, SolveInv, Owed, RepliesAwaited
  <2>3. CASE UNCHANGED <<solve, tab, chrome, pending, chan>>
    BY <2>3 DEF SolveInv, Owed, RepliesAwaited
  <2>4. UNCHANGED cdpvars => UNCHANGED <<solve, tab, chrome, pending, chan>>
    BY DEF cdpvars
  <2>5. Expires => UNCHANGED <<solve, tab, chrome, pending, chan>>
    BY DEF Expires
  <2>6. FetchStep => SolveStarts \/ UNCHANGED cdpvars
    BY Zenon DEF FetchStep, Connect, Chain, CdpReturned, StdioExpires, Conference, DialMedia
  <2>7. Fetch \/ Answer \/ TypeLine \/ Frame \/ FramesEnd => UNCHANGED cdpvars
    BY Zenon DEF Fetch, Answer, Step1, Step2, Step3, Step4, Step5, Step, TypeLine, Frame, FramesEnd
  <2>8. UNCHANGED allvars => UNCHANGED cdpvars
    BY DEF allvars
  <2> QED BY <2>1, <2>2, <2>3, <2>4, <2>5, <2>6, <2>7, <2>8, Zenon DEF Next
<1> QED BY <1>1, <1>2, PTL DEF Spec

\* A Solve that has returned has closed its WebSocket and its tab, whatever it returned and
\* however far it had come (the deferred calls of CDPSolver.Solve, cdp.go).
THEOREM SolveClosesAll == Spec => [](solve = "idle" => tab # "open" /\ chrome # "open")
<1>1. SolveInv => (solve = "idle" => tab # "open" /\ chrome # "open")
  BY DEF SolveInv, Owed
<1> QED BY <1>1, SolveInvariance, PTL

\* The read loop never has to wait at a reply channel, of capacity 1, that nobody empties
\* any more: a channel it may still send to, in readLoop or in failPending, is empty, also
\* when its call has given up (cdp.go call, readLoop, failPending).
THEOREM ReadLoopNeverWaits == Spec => []RepliesAwaited
<1>1. SolveInv => RepliesAwaited
  BY DEF SolveInv
<1> QED BY <1>1, SolveInvariance, PTL
-----------------------------------------------------------------------------
(* Nobody is left waiting.                                                   *)

\* The calls and the read loop, by where Solve is.
CallsInv ==
    /\ caller \in [Callers -> {"none", "registered", "waiting", "ok", "failed"}]
    /\ readLoop \in {"off", "reading", "done"}
    /\ readLoop = "off" => \A c \in Callers : caller[c] = "none"
    /\ solve \in {"openTab", "dial"} => readLoop = "off"
    /\ solve \in {"script", "token"} => readLoop # "off"
    /\ readLoop # "off" => chrome # "none"
    /\ readLoop = "done" => chrome = "closed" \/ ctxDone
    /\ readLoop # "off" /\ solve = "idle" => ctxDone
    /\ caller["Solve"] # "none" => solve = "script"
    /\ \A c \in Callers : caller[c] = "registered" /\ readLoop = "reading" => c \in pending

\* A written call has its reply, has one to come, or sees that its context is done.
Answerable(c) ==
    chan[c] # "empty" \/ ctxDone \/ (c \in pending /\ readLoop = "reading")

\* Whoever waits is waited for by somebody: a written call gets its reply from the read
\* loop or from failPending unless its context ends it, also when the call was entered in
\* the map while the loop came to its end; and what a Solve that has returned leaves
\* behind, the read loop and the watchers, has a cancelled context.
NobodyStranded ==
    /\ \A c \in Callers : caller[c] = "waiting" => Answerable(c)
    /\ solve = "idle" => \/ ctxDone
                        \/ (readLoop = "off" /\ \A c \in Callers : caller[c] = "none")

StrandedInv == SolveInv /\ CallsInv /\ NobodyStranded

\* A step that leaves the calls, the map and the read loop alone.
LEMMA CallsSame ==
    ASSUME StrandedInv, UNCHANGED <<caller, pending, chan, readLoop>>,
           chrome' = chrome \/ chrome' = "closed", ctxDone => ctxDone',
           \/ solve' = solve
           \/ /\ caller["Solve"] = "none"
              /\ solve' \in {"openTab", "dial"} => readLoop = "off"
              /\ solve' \in {"script", "token"} => readLoop # "off"
              /\ solve' = "idle" => ctxDone'
    PROVE  CallsInv' /\ NobodyStranded'
<1>1. \A c \in Callers : Answerable(c) => Answerable(c)'
  BY Zenon DEF Answerable
<1>2. NobodyStranded'
  <2>1. \A c \in Callers : caller'[c] = "waiting" => Answerable(c)'
    BY <1>1, Zenon DEF StrandedInv, NobodyStranded
  <2>2. solve' = "idle" => ctxDone' \/ (readLoop' = "off" /\ \A c \in Callers : caller'[c] = "none")
    <3>1. solve = "idle" => ctxDone' \/ (readLoop' = "off" /\ \A c \in Callers : caller'[c] = "none")
      BY Zenon DEF StrandedInv, NobodyStranded
    <3>2. solve' = "idle" => solve = "idle" \/ ctxDone'
      OBVIOUS
    <3> QED BY <3>1, <3>2
  <2> QED BY <2>1, <2>2, Zenon DEF NobodyStranded
<1>3. solve' \in {"openTab", "dial"} => readLoop' = "off"
  BY DEF StrandedInv, CallsInv
<1>4. solve' \in {"script", "token"} => readLoop' # "off"
  BY DEF StrandedInv, CallsInv
<1>5. readLoop' # "off" => chrome' # "none"
  BY DEF StrandedInv, CallsInv
<1>6. readLoop' = "done" => chrome' = "closed" \/ ctxDone'
  BY DEF StrandedInv, CallsInv
<1>7. readLoop' # "off" /\ solve' = "idle" => ctxDone'
  BY Zenon DEF StrandedInv, CallsInv
<1>8. caller'["Solve"] # "none" => solve' = "script"
  BY DEF StrandedInv, CallsInv
<1> QED BY <1>2, <1>3, <1>4, <1>5, <1>6, <1>7, <1>8 DEF StrandedInv, CallsInv

\* One caller moves on; the reply channels and the map entries of the others stay.
OnlyMoves(c) ==
    /\ UNCHANGED <<solve, readLoop, chrome, ctxDone>>
    /\ readLoop # "off"
    /\ solve # "idle" \/ ctxDone
    /\ \A d \in Callers \ {c} : chan'[d] = chan[d] /\ (d \in pending => d \in pending')

\* The caller that moves has an entry once it has registered, and an answer to come once
\* it waits; what is asked of the others does not change.
MovesTo(c, to) ==
    /\ caller' = [caller EXCEPT ![c] = to]
    /\ c = "Solve" => solve = "script" \/ to = "none"
    /\ to = "registered" => c \in pending'
    /\ to = "waiting" => Answerable(c)'

LEMMA CallMoves ==
    ASSUME StrandedInv, NEW c \in Callers, NEW to \in {"none", "registered", "waiting", "ok", "failed"},
           OnlyMoves(c), MovesTo(c, to)
    PROVE  CallsInv' /\ NobodyStranded'
<1> USE DEF OnlyMoves, MovesTo
<1>1. /\ caller' \in [Callers -> {"none", "registered", "waiting", "ok", "failed"}]
      /\ caller'[c] = to /\ \A d \in Callers \ {c} : caller'[d] = caller[d]
  BY DEF StrandedInv, CallsInv
<1>2. ASSUME NEW d \in Callers, caller'[d] = "waiting" PROVE Answerable(d)'
  <2>1. CASE d = c
    BY <1>1, <1>2, <2>1, Zenon
  <2>2. CASE d # c
    <3>1. Answerable(d) /\ chan'[d] = chan[d] /\ (d \in pending => d \in pending')
      BY <1>1, <1>2, <2>2, Zenon DEF StrandedInv, NobodyStranded
    <3> QED BY <3>1, Zenon DEF Answerable
  <2> QED BY <2>1, <2>2
<1>3. NobodyStranded'
  <2>1. solve' = "idle" => ctxDone'
    BY Zenon
  <2> QED BY <1>2, <2>1, Zenon DEF NobodyStranded
<1>4. \A d \in Callers : caller'[d] = "registered" /\ readLoop' = "reading" => d \in pending'
  BY <1>1 DEF StrandedInv, CallsInv
<1>5. caller'["Solve"] # "none" => solve' = "script"
  <2>1. "Solve" \in Callers
    BY DEF Callers
  <2> QED BY <1>1, <2>1 DEF StrandedInv, CallsInv
<1>6. readLoop' = "done" => chrome' = "closed" \/ ctxDone'
  BY DEF StrandedInv, CallsInv
<1>7. readLoop' # "off" /\ solve' = "idle" => ctxDone'
  BY Zenon DEF StrandedInv, CallsInv
<1> QED BY <1>1, <1>3, <1>4, <1>5, <1>6, <1>7 DEF StrandedInv, CallsInv

\* The steps of Solve, by what they do to its calls.
LEMMA SolveStrands ==
    ASSUME StrandedInv, OpenTab \/ Dial \/ SolveRefusesHost \/ SolveContinues \/ AwaitToken \/ SolveReturns
    PROVE  CallsInv' /\ NobodyStranded'
<1>1. CASE OpenTab \/ SolveRefusesHost \/ AwaitToken
  <2>1. /\ UNCHANGED <<caller, pending, chan, readLoop, chrome, ctxDone>>
        /\ solve' \in {"dial", "closeConn", "closeTab", "cancel"}
        /\ solve' = "dial" => solve = "openTab"
        /\ solve \in {"openTab", "token"} \/ caller["Solve"] = "none"
    BY <1>1 DEF OpenTab, SolveRefusesHost, AwaitToken, Leave
  <2>2. caller["Solve"] = "none" /\ (solve = "openTab" => readLoop = "off")
    BY <2>1 DEF StrandedInv, CallsInv
  <2> QED BY <2>1, <2>2, CallsSame
<1>2. CASE Dial /\ chrome' = "open"
  <2>1. /\ solve = "dial" /\ solve' = "script" /\ readLoop' = "reading"
        /\ UNCHANGED <<caller, pending, chan, ctxDone>>
    <3>1. chrome # "open"
      BY <1>2 DEF Dial, StrandedInv, SolveInv, Owed
    <3> QED BY <1>2, <3>1 DEF Dial
  <2>2. \A c \in Callers : caller'[c] = "none"
    BY <2>1 DEF StrandedInv, CallsInv
  <2>3. "Solve" \in Callers
    BY DEF Callers
  <2>4. CallsInv'
    BY <1>2, <2>1, <2>2, <2>3 DEF StrandedInv, CallsInv
  <2> QED BY <2>1, <2>2, <2>4 DEF NobodyStranded
<1>3. CASE Dial /\ chrome' = chrome
  <2>1. /\ UNCHANGED <<caller, pending, chan, readLoop, chrome, ctxDone>> /\ solve = "dial"
        /\ solve' \in {"closeConn", "closeTab", "cancel"}
    <3>1. chrome # "open"
      BY <1>3 DEF Dial, StrandedInv, SolveInv, Owed
    <3> QED BY <1>3, <3>1 DEF Dial, Leave
  <2>2. caller["Solve"] = "none"
    BY <2>1 DEF StrandedInv, CallsInv
  <2> QED BY <2>1, <2>2, CallsSame
<1>4. CASE SolveReturns
  <2>1. /\ UNCHANGED <<caller, pending, chan, readLoop>> /\ (chrome' = chrome \/ chrome' = "closed")
        /\ solve \in {"closeConn", "closeTab", "cancel"}
        /\ solve' \in {"closeTab", "cancel", "idle"} /\ (solve' = "idle" => solve = "cancel")
    BY <1>4 DEF SolveReturns
  <2>2. (ctxDone => ctxDone') /\ (solve = "cancel" => ctxDone')
    BY <1>4, Zenon DEF SolveReturns
  <2>3. caller["Solve"] = "none"
    BY <2>1 DEF StrandedInv, CallsInv
  <2> QED BY <2>1, <2>2, <2>3, CallsSame
<1>5. CASE SolveContinues
  <2>1. /\ solve = "script" /\ caller' = [caller EXCEPT !["Solve"] = "none"]
        /\ UNCHANGED <<pending, chan, readLoop, chrome, ctxDone>>
        /\ solve' \in {"script", "token", "closeConn", "closeTab", "cancel"}
    BY <1>5 DEF SolveContinues, Leave
  <2>2. /\ caller' \in [Callers -> {"none", "registered", "waiting", "ok", "failed"}]
        /\ caller'["Solve"] = "none" /\ \A d \in Callers : caller'[d] = caller[d] \/ caller'[d] = "none"
    BY <2>1 DEF StrandedInv, CallsInv, Callers
  <2>3. CallsInv'
    BY <2>1, <2>2 DEF StrandedInv, CallsInv
  <2>4. ASSUME NEW d \in Callers, caller'[d] = "waiting" PROVE Answerable(d)'
    <3>1. Answerable(d)
      BY <2>2, <2>4 DEF StrandedInv, NobodyStranded
    <3> QED BY <2>1, <3>1, Zenon DEF Answerable
  <2> QED BY <2>1, <2>3, <2>4 DEF NobodyStranded
<1> QED BY <1>1, <1>2, <1>3, <1>4, <1>5 DEF Dial

\* A caller inside a call has a read loop, and Solve's own calls are part of its script.
LEMMA InCall ==
    ASSUME StrandedInv, NEW c \in Callers, caller[c] # "none"
    PROVE  readLoop # "off" /\ (solve # "idle" \/ ctxDone) /\ (c = "Solve" => solve = "script")
<1>1. readLoop # "off" /\ (c = "Solve" => solve = "script")
  BY DEF StrandedInv, CallsInv
<1>2. solve # "idle" \/ ctxDone
  BY <1>1, Zenon DEF StrandedInv, CallsInv
<1> QED BY <1>1, <1>2

\* The steps of a call and of its reply.
LEMMA CallStrands ==
    ASSUME StrandedInv, NEW c \in Callers, CallWrites(c) \/ CallReturns(c) \/ ReadReply(c)
    PROVE  CallsInv' /\ NobodyStranded'
<1>0. DOMAIN chan = Callers /\ caller \in [Callers -> {"none", "registered", "waiting", "ok", "failed"}]
  BY DEF StrandedInv, SolveInv, CallsInv
<1>1. CASE CallWrites(c)
  <2>1. caller[c] = "registered" /\ UNCHANGED <<solve, chan, readLoop, chrome, ctxDone>>
    BY <1>1 DEF CallWrites
  <2>2. readLoop # "off" /\ (solve # "idle" \/ ctxDone) /\ (c = "Solve" => solve = "script")
    BY <2>1, InCall
  <2>3. CASE ~ctxDone /\ chrome = "open" /\ caller' = [caller EXCEPT ![c] = "waiting"] /\ pending' = pending
    <3>1. readLoop = "reading" /\ c \in pending
      BY <2>1, <2>2, <2>3 DEF StrandedInv, CallsInv
    <3>2. Answerable(c)'
      BY <2>1, <2>3, <3>1 DEF Answerable
    <3>3. OnlyMoves(c) /\ MovesTo(c, "waiting")
      BY <2>1, <2>2, <2>3, <3>2 DEF OnlyMoves, MovesTo
    <3> QED BY <3>3, CallMoves
  <2>4. CASE caller' = [caller EXCEPT ![c] = "failed"] /\ pending' = pending \ {c}
    <3>1. OnlyMoves(c) /\ MovesTo(c, "failed")
      BY <2>1, <2>2, <2>4 DEF OnlyMoves, MovesTo
    <3> QED BY <3>1, CallMoves
  <2> QED BY <1>1, <2>3, <2>4, Zenon DEF CallWrites
<1>2. CASE CallReturns(c)
  <2>1. caller[c] = "waiting" /\ UNCHANGED <<solve, pending, readLoop, chrome, ctxDone>>
    BY <1>2 DEF CallReturns
  <2>2. readLoop # "off" /\ (solve # "idle" \/ ctxDone) /\ (c = "Solve" => solve = "script")
    BY <2>1, InCall
  <2>3. \E to \in {"ok", "failed"} : caller' = [caller EXCEPT ![c] = to]
    BY <1>2 DEF CallReturns
  <2>4. \A d \in Callers \ {c} : chan'[d] = chan[d]
    BY <1>0, <1>2 DEF CallReturns
  <2>5. OnlyMoves(c)
    BY <2>1, <2>2, <2>4 DEF OnlyMoves
  <2>6. \E to \in {"ok", "failed"} : MovesTo(c, to)
    <3>1. PICK to \in {"ok", "failed"} : caller' = [caller EXCEPT ![c] = to]
      BY <2>3, Zenon
    <3>2. MovesTo(c, to)
      BY <2>2, <3>1 DEF MovesTo
    <3> QED BY <3>2
  <2> QED BY <2>5, <2>6, CallMoves
<1>3. CASE ReadReply(c)
  <2>1. /\ readLoop = "reading" /\ caller[c] # "registered" /\ pending' = pending \ {c}
        /\ UNCHANGED <<solve, caller, readLoop, chrome, ctxDone>>
    BY <1>3 DEF ReadReply
  <2>2. /\ \A d \in Callers \ {c} : chan'[d] = chan[d]
        /\ chan'[c] # "empty"
    BY <1>0, <1>3 DEF ReadReply
  <2>3. solve # "idle" \/ ctxDone
    BY <2>1 DEF StrandedInv, CallsInv
  <2>4. c = "Solve" => solve = "script" \/ caller[c] = "none"
    BY DEF StrandedInv, CallsInv
  <2>5. caller' = [caller EXCEPT ![c] = caller[c]] /\ Answerable(c)'
    BY <1>0, <2>1, <2>2 DEF Answerable
  <2>6. OnlyMoves(c)
    BY <2>1, <2>2, <2>3 DEF OnlyMoves
  <2>7. MovesTo(c, caller[c])
    BY <2>1, <2>4, <2>5, Zenon DEF MovesTo
  <2> QED BY <1>0, <2>6, <2>7, CallMoves
<1> QED BY <1>1, <1>2, <1>3

\* Solve and the watchers start a call.
LEMMA RegisterStrands ==
    ASSUME StrandedInv, NEW c \in Callers, CallRegisters(c), solve \in {"script", "token"},
           c = "Solve" => solve = "script", UNCHANGED <<solve, readLoop, chrome, ctxDone>>
    PROVE  CallsInv' /\ NobodyStranded'
<1>1. /\ caller' = [caller EXCEPT ![c] = "registered"] /\ pending' = pending \cup {c}
      /\ \A d \in Callers \ {c} : chan'[d] = chan[d]
  BY DEF CallRegisters, StrandedInv, SolveInv
<1>2. readLoop # "off"
  BY DEF StrandedInv, CallsInv
<1>3. OnlyMoves(c) /\ MovesTo(c, "registered")
  BY <1>1, <1>2 DEF OnlyMoves, MovesTo
<1> QED BY <1>3, CallMoves

\* The read loop ends: failPending answers every call that still waits.
LEMMA EndStrands ==
    ASSUME StrandedInv, ReadEnds
    PROVE  CallsInv' /\ NobodyStranded'
<1>1. /\ readLoop = "reading" /\ readLoop' = "done" /\ (chrome = "closed" \/ ctxDone)
      /\ UNCHANGED <<solve, caller, chrome, ctxDone>>
  BY DEF ReadEnds
<1>2. CallsInv'
  BY <1>1 DEF StrandedInv, CallsInv
<1>3. solve' = "idle" => ctxDone'
  <2>1. readLoop # "off"
    BY <1>1
  <2>2. solve = "idle" => ctxDone
    BY <2>1, Zenon DEF StrandedInv, CallsInv
  <2> QED BY <1>1, <2>2, Zenon
<1>4. ASSUME NEW c \in Callers, caller'[c] = "waiting" PROVE Answerable(c)'
  <2>1. Answerable(c)
    BY <1>1, <1>4 DEF StrandedInv, NobodyStranded
  <2>2. chan'[c] = IF c \in pending THEN "error" ELSE chan[c]
    BY DEF ReadEnds
  <2> QED BY <1>1, <2>1, <2>2 DEF Answerable
<1> QED BY <1>2, <1>3, <1>4 DEF NobodyStranded

LEMMA StrandedInvariance == Spec => [](CallsInv /\ NobodyStranded)
<1>1. Init => CallsInv /\ NobodyStranded
  <2> SUFFICES ASSUME Init PROVE CallsInv /\ NobodyStranded
    OBVIOUS
  <2>1. solve = "idle" /\ readLoop = "off" /\ caller = [c \in Callers |-> "none"] /\ "Solve" \in Callers
    BY DEF Init, CdpInit, Callers
  <2> QED BY <2>1 DEF CallsInv, NobodyStranded
<1>2. SolveInv /\ CallsInv /\ NobodyStranded /\ [Next]_allvars => (CallsInv /\ NobodyStranded)'
  <2> SUFFICES ASSUME StrandedInv, [Next]_allvars PROVE CallsInv' /\ NobodyStranded'
    BY DEF StrandedInv
  <2>1. CASE OpenTab \/ Dial \/ SolveRefusesHost \/ SolveContinues \/ AwaitToken \/ SolveReturns
    BY <2>1, SolveStrands
  <2>2. CASE SolveCalls
    <3>1. CallRegisters("Solve") /\ solve = "script" /\ UNCHANGED <<solve, readLoop, chrome, ctxDone>>
      BY <2>2 DEF SolveCalls
    <3> QED BY <3>1, RegisterStrands DEF Callers
  <2>3. ASSUME NEW w \in Watchers, ReadEvent(w) PROVE CallsInv' /\ NobodyStranded'
    <3>1. /\ CallRegisters(w) /\ solve \in {"script", "token"}
          /\ UNCHANGED <<solve, readLoop, chrome, ctxDone>>
      BY <2>3 DEF ReadEvent
    <3>2. w # "Solve" /\ w \in Callers
      BY WatchersAssumption DEF Callers
    <3> QED BY <3>1, <3>2, RegisterStrands
  <2>4. ASSUME NEW w \in Watchers, WatcherEnds(w) PROVE CallsInv' /\ NobodyStranded'
    <3>1. /\ caller[w] # "none" /\ caller' = [caller EXCEPT ![w] = "none"] /\ w \in Callers
          /\ UNCHANGED <<solve, pending, chan, readLoop, chrome, ctxDone>>
      BY <2>4 DEF WatcherEnds, Callers
    <3>2. readLoop # "off" /\ (solve # "idle" \/ ctxDone)
      BY <3>1, InCall
    <3>3. OnlyMoves(w) /\ MovesTo(w, "none")
      BY <3>1, <3>2 DEF OnlyMoves, MovesTo
    <3> QED BY <3>1, <3>3, CallMoves
  <2>5. CASE SolveStarts
    <3>1. /\ solve' = "openTab" /\ caller' = [c \in Callers |-> "none"] /\ readLoop' = "off"
      BY <2>5 DEF SolveStarts
    <3>2. "Solve" \in Callers
      BY DEF Callers
    <3> QED BY <3>1, <3>2 DEF CallsInv, NobodyStranded
  <2>6. CASE /\ UNCHANGED <<solve, caller, pending, chan, readLoop>>
             /\ chrome' = chrome \/ chrome' = "closed"
             /\ ctxDone => ctxDone'
    BY <2>6, CallsSame
  <2>7. ChromeGoes => /\ UNCHANGED <<solve, caller, pending, chan, readLoop, ctxDone>>
                      /\ chrome' = "closed"
    BY DEF ChromeGoes
  <2>8. SolveExpires \/ Expires => /\ UNCHANGED <<solve, caller, pending, chan, readLoop, chrome>>
                                  /\ (ctxDone => ctxDone')
    BY Zenon DEF SolveExpires, Expires
  <2>9. UNCHANGED cdpvars => UNCHANGED <<solve, caller, pending, chan, readLoop, chrome, ctxDone>>
    BY DEF cdpvars
  <2>10. FetchStep => SolveStarts \/ UNCHANGED cdpvars
    BY Zenon DEF FetchStep, Connect, Chain, CdpReturned, StdioExpires, Conference, DialMedia
  <2>11. Fetch \/ Answer \/ TypeLine \/ Frame \/ FramesEnd => UNCHANGED cdpvars
    BY Zenon DEF Fetch, Answer, Step1, Step2, Step3, Step4, Step5, Step, TypeLine, Frame, FramesEnd
  <2>12. UNCHANGED allvars => UNCHANGED cdpvars
    BY DEF allvars
  <2>13. UNCHANGED cdpvars => CallsInv' /\ NobodyStranded'
    BY <2>6, <2>9, Zenon
  <2>14. ChromeGoes \/ SolveExpires \/ Expires => CallsInv' /\ NobodyStranded'
    BY <2>6, <2>7, <2>8, Zenon
  <2>15. CdpStep \/ CdpEnvironment => CallsInv' /\ NobodyStranded'
    BY <2>1, <2>2, <2>3, <2>4, <2>14, CallStrands, EndStrands, Zenon DEF CdpStep, CdpEnvironment
  <2> QED BY <2>5, <2>10, <2>11, <2>12, <2>13, <2>14, <2>15, Zenon DEF Next
<1> QED BY <1>1, <1>2, SolveInvariance, PTL DEF Spec

\* No call of a Solve waits for a reply that nobody will send, also when Chrome goes away
\* or the read loop ends while the call is being made, and a Solve that has returned
\* leaves only goroutines whose context is cancelled: what SolverCleansUp rests on (cdp.go
\* call, readLoop, failPending, and the deferred cancel of Solve).
THEOREM CallsAreAnswered == Spec => []NobodyStranded
  BY StrandedInvariance, PTL
-----------------------------------------------------------------------------
(* The captcha loop.                                                         *)

\* Every challenge is counted by an attempt: the loop of step 3 asks the solvers with the
\* last attempt still open, and posts again with it taken.
AttemptInv ==
    /\ attempt \in 0..(maxCaptchaAttempts - 1)
    /\ challenge.n = IF fetch \in {"chain", "cdp", "stdio"} THEN attempt + 1 ELSE attempt
    /\ fetch \in {"idle", "step1", "step2"} => attempt = 0

\* A Fetch takes at most maxCaptchaAttempts challenges to the solvers, and a fourth post of
\* step 3 is never made, whichever solvers answered and however often they failed.
CaptchasBounded ==
    /\ challenge.n <= maxCaptchaAttempts
    /\ fetch = "step3" => challenge.n < maxCaptchaAttempts

LEMMA AttemptReturned == ASSUME NEW o, Return(o) PROVE AttemptInv'
  BY DEF Return, AttemptInv, NoChallenge, maxCaptchaAttempts

LEMMA AttemptSolved ==
    ASSUME AttemptInv, fetch \in {"cdp", "stdio"}, NEW mode, Solved(mode)
    PROVE  AttemptInv'
<1>1. CASE \E o : Return(o)
  BY <1>1, AttemptReturned
<1>2. CASE /\ attempt + 1 < maxCaptchaAttempts /\ fetch' = "step3"
           /\ attempt' = attempt + 1 /\ challenge' = challenge
  BY <1>2 DEF AttemptInv, maxCaptchaAttempts
<1> QED BY <1>1, <1>2 DEF Solved

\* Inside the solvers and outside of the loop the count stays.
LEMMA AttemptSame ==
    ASSUME AttemptInv, UNCHANGED <<attempt, challenge>>,
           fetch \in {"chain", "cdp", "stdio"} <=> fetch' \in {"chain", "cdp", "stdio"},
           fetch' \in {"idle", "step1", "step2"} => fetch \in {"idle", "step1", "step2"}
    PROVE  AttemptInv'
  BY DEF AttemptInv

LEMMA AttemptPreserved ==
    ASSUME AttemptInv, [Next]_allvars
    PROVE  AttemptInv'
<1>1. CASE Fetch
  <2>1. fetch = "idle" /\ fetch' \in {"step1", "conference", "idle"} /\ UNCHANGED <<attempt, challenge>>
    BY <1>1 DEF Fetch, VkHint, TelemostHint
  <2> QED BY <2>1, AttemptSame
<1>2. CASE Connect
  <2>1. CASE UNCHANGED <<fetch, attempt, challenge>>
    BY <2>1, AttemptSame
  <2>2. CASE fetch = "step2" /\ Goto("step3")
    BY <2>2, AttemptSame DEF Goto
  <2> QED BY <1>2, <2>1, <2>2, AttemptReturned, Zenon DEF Connect
<1>3. CASE fetch \in {"chain", "cdp", "stdio"} /\ (SolverFails \/ \E to \in {"cdp", "stdio"} : Goto(to))
  BY <1>3, AttemptSame DEF SolverFails, Goto
<1>4. CASE Chain
  BY <1>3, <1>4, AttemptReturned, Zenon DEF Chain
<1>5. CASE CdpReturned \/ StdioExpires
  BY <1>3, <1>5, AttemptSolved, Zenon DEF CdpReturned, StdioExpires
<1>6. CASE UNCHANGED <<fetch, attempt, challenge>>
  BY <1>6, AttemptSame
<1>7. CASE TypeLine
  BY <1>3, <1>6, <1>7, AttemptSolved, Zenon DEF TypeLine
<1>8. CASE Step1 \/ Step4 \/ Step5
  <2>1. ASSUME NEW to \in {"step2", "step5"}, fetch \in {"step1", "step4"}, Goto(to),
               to = "step2" => fetch = "step1"
        PROVE  AttemptInv'
    BY <2>1, AttemptSame DEF Goto
  <2> QED BY <1>8, <2>1, AttemptReturned, Zenon DEF Step1, Step4, Step5, Step
<1>9. CASE Step2
  BY <1>9, AttemptSame DEF Step2, Goto
<1>10. CASE Step3
  <2>1. CASE fetch = "step3" /\ fetch' = "step4" /\ UNCHANGED <<attempt, challenge>>
    BY <2>1, AttemptSame
  <2>2. CASE /\ fetch = "step3" /\ fetch' = "chain" /\ attempt' = attempt
             /\ \E r \in BOOLEAN : challenge' = [n |-> challenge.n + 1, redirect |-> r]
    BY <2>2 DEF AttemptInv
  <2> QED BY <1>10, <2>1, <2>2, AttemptReturned, Zenon DEF Step3
<1>11. CASE Conference \/ DialMedia \/ Frame \/ FramesEnd
  <2>1. ASSUME NEW to \in {"dial", "frames"}, fetch \in {"conference", "dial", "frames"}, Goto(to)
        PROVE  AttemptInv'
    BY <2>1, AttemptSame DEF Goto
  <2> QED BY <1>11, <2>1, AttemptReturned, Zenon DEF Conference, DialMedia, Frame, FramesEnd
<1> QED
  <2>1. Expires => UNCHANGED <<fetch, attempt, challenge>>
    BY DEF Expires
  <2>2. UNCHANGED vkvars => UNCHANGED <<fetch, attempt, challenge>>
    BY DEF vkvars
  <2>3. UNCHANGED allvars => UNCHANGED vkvars
    BY DEF allvars
  <2> QED BY <1>1, <1>2, <1>4, <1>5, <1>6, <1>7, <1>8, <1>9, <1>10, <1>11, <2>1, <2>2, <2>3
          DEF Next, FetchStep, Answer

\* The captcha loop of a Fetch ends by its count, whatever the servers, Chrome and the
\* person at the terminal answer: the part of FetchMovesOn that needs no fairness (api.go
\* fetchTurn, the loop over attempts).
THEOREM CaptchaLoopEnds == Spec => []CaptchasBounded
<1>1. Init => AttemptInv
  BY DEF Init, AttemptInv, NoChallenge, maxCaptchaAttempts
<1>2. AttemptInv /\ [Next]_allvars => AttemptInv'
  BY AttemptPreserved
<1>3. AttemptInv => CaptchasBounded
  BY DEF AttemptInv, CaptchasBounded, maxCaptchaAttempts
<1> QED BY <1>1, <1>2, <1>3, PTL DEF Spec
=============================================================================
