------------------------------ MODULE CdpSolver ------------------------------
(* CDPSolver.Solve (provider/vk/captchasolve/cdp.go): a script of DevTools   *)
(* calls over one WebSocket, a read loop that routes the replies, and one    *)
(* goroutine per observed captcha answer that fetches its body.  Sessions    *)
(* of different Solve calls share nothing, so one at a time is modelled;     *)
(* Chrome is external: it answers, reports events, or goes away.             *)
EXTENDS Integers, Sequences

CONSTANT Watchers   \* goroutines of handleResponseReceived, one per event

\* The goroutine of Solve is none of them.
ASSUME WatchersAssumption == "Solve" \notin Watchers

VARIABLES solve,     \* where Solve is
          at,        \* the call of Script it makes, while solve = "script"
          solved,    \* what the last Solve returned: "none", "token" or "error"
          caller,    \* per caller, its call: "none", "registered", "waiting",
                     \*   "ok" or "failed"
          pending,   \* callers with an entry in the pending map
          chan,      \* per caller, its reply channel (capacity 1)
          readLoop,  \* "off", "reading" or "done"
          tokenCh,   \* the token channel (capacity 1) is full
          chrome,    \* the WebSocket: "none", "open" or "closed"
          tab,       \* the DevTools target: "none", "open" or "lost"
          ctxDone    \* the context of Solve is done

cdpvars == <<solve, at, solved, caller, pending, chan, readLoop, tokenCh, chrome, tab,
             ctxDone>>

Callers == {"Solve"} \cup Watchers

\* The calls Solve makes, in order.  Setup is a run of calls and so is the click; how
\* many they are makes no difference here, so a phase may make its call again.
Script == <<"setup", "navigate", "evaluate", "mouse">>
Navigate == 2
Evaluate == 3

CdpTypeOK ==
    /\ solve \in {"idle", "openTab", "dial", "script", "token",
                  "closeConn", "closeTab", "cancel"}
    /\ at \in 1..Len(Script)
    /\ solved \in {"none", "token", "error"}
    /\ caller \in [Callers -> {"none", "registered", "waiting", "ok", "failed"}]
    /\ pending \subseteq Callers
    /\ chan \in [Callers -> {"empty", "result", "error"}]
    /\ readLoop \in {"off", "reading", "done"}
    /\ tokenCh \in BOOLEAN /\ ctxDone \in BOOLEAN
    /\ chrome \in {"none", "open", "closed"}
    /\ tab \in {"none", "open", "lost"}

CdpInit ==
    /\ solve = "idle" /\ at = 1 /\ solved = "none"
    /\ caller = [c \in Callers |-> "none"]
    /\ pending = {}
    /\ chan = [c \in Callers |-> "empty"]
    /\ readLoop = "off" /\ tokenCh = FALSE
    /\ chrome = "none" /\ tab = "none" /\ ctxDone = FALSE

\* No goroutine of the session is left.
Quiet ==
    /\ solve = "idle" /\ readLoop # "reading"
    /\ \A c \in Callers : caller[c] = "none"

\* A fresh session, which shares nothing with what may still end of an earlier one:
\* waiting for that loses no behaviour.  Solve refuses a challenge without a redirect_uri before that.
SolveStarts ==
    /\ Quiet
    /\ solve' = "openTab" /\ at' = 1 /\ solved' = "none"
    /\ caller' = [c \in Callers |-> "none"]
    /\ pending' = {}
    /\ chan' = [c \in Callers |-> "empty"]
    /\ readLoop' = "off" /\ tokenCh' = FALSE
    /\ chrome' = "none" /\ tab' = "none" /\ ctxDone' = FALSE

\* The deferred calls that Solve owes from here on run one after the other.
Leave(outcome) ==
    /\ solved' = outcome
    /\ solve' = CASE chrome # "none" -> "closeConn"
                  [] chrome = "none" /\ tab = "open" -> "closeTab"
                  [] OTHER -> "cancel"
-----------------------------------------------------------------------------
(* Solve.                                                                   *)

\* openTab: Chrome may have made the tab although its answer is lost or unusable.
OpenTab ==
    /\ solve = "openTab"
    /\ \/ ~ctxDone /\ tab' = "open" /\ solve' = "dial" /\ UNCHANGED solved
       \/ tab' \in {"none", "lost"} /\ Leave("error")
    /\ UNCHANGED <<at, caller, pending, chan, readLoop, tokenCh, chrome, ctxDone>>

Dial ==
    /\ solve = "dial"
    /\ \/ /\ ~ctxDone
          /\ chrome' = "open" /\ readLoop' = "reading" /\ solve' = "script"
          /\ UNCHANGED solved
       \/ Leave("error") /\ UNCHANGED <<chrome, readLoop>>
    /\ UNCHANGED <<at, caller, pending, chan, tokenCh, tab, ctxDone>>

\* A call's first step: the reply channel is entered before anything is written.
\* Before it navigates, Solve checks the host of the redirect_uri.
CallRegisters(c) ==
    /\ caller[c] = "none"
    /\ caller' = [caller EXCEPT ![c] = "registered"]
    /\ pending' = pending \cup {c}
    /\ chan' = [chan EXCEPT ![c] = "empty"]

SolveCalls ==
    /\ solve = "script"
    /\ CallRegisters("Solve")
    /\ UNCHANGED <<solve, at, solved, readLoop, tokenCh, chrome, tab, ctxDone>>

\* assertVKHost fails.
SolveRefusesHost ==
    /\ solve = "script" /\ at = Navigate /\ caller["Solve"] = "none"
    /\ Leave("error")
    /\ UNCHANGED <<at, caller, pending, chan, readLoop, tokenCh, chrome, tab, ctxDone>>

\* ws.Write: on an error the entry is taken back.
CallWrites(c) ==
    /\ caller[c] = "registered"
    /\ \/ /\ ~ctxDone /\ chrome = "open"
          /\ caller' = [caller EXCEPT ![c] = "waiting"]
          /\ UNCHANGED pending
       \/ /\ ctxDone \/ chrome = "closed"
          /\ caller' = [caller EXCEPT ![c] = "failed"]
          /\ pending' = pending \ {c}
    /\ UNCHANGED <<solve, at, solved, chan, readLoop, tokenCh, chrome, tab, ctxDone>>

\* The select of call: a reply, or ctx, which leaves the entry in the map.
CallReturns(c) ==
    /\ caller[c] = "waiting"
    /\ \/ /\ chan[c] # "empty"
          /\ caller' = [caller EXCEPT ![c] = IF chan[c] = "result" THEN "ok" ELSE "failed"]
          /\ chan' = [chan EXCEPT ![c] = "empty"]
       \/ /\ ctxDone
          /\ caller' = [caller EXCEPT ![c] = "failed"]
          /\ UNCHANGED chan
    /\ UNCHANGED <<solve, at, solved, pending, readLoop, tokenCh, chrome, tab, ctxDone>>

\* Solve goes on with what its call returned: the same call again (the next of its phase,
\* or the checkbox is not there yet), the next phase, or no more polling.
SolveContinues ==
    /\ solve = "script"
    /\ caller["Solve"] \in {"ok", "failed"}
    /\ caller' = [caller EXCEPT !["Solve"] = "none"]
    /\ \/ caller["Solve"] = "failed" /\ Leave("error") /\ UNCHANGED at
       \/ /\ caller["Solve"] = "ok" /\ UNCHANGED solved
          /\ \/ at # Navigate /\ UNCHANGED <<solve, at>>
             \/ at < Len(Script) /\ at' = at + 1 /\ UNCHANGED solve
             \/ at = Len(Script) /\ solve' = "token" /\ UNCHANGED at
       \/ caller["Solve"] = "ok" /\ at = Evaluate /\ Leave("error") /\ UNCHANGED at
    /\ UNCHANGED <<pending, chan, readLoop, tokenCh, chrome, tab, ctxDone>>

\* awaitSuccessToken: the token, the 30 s, or ctx.
AwaitToken ==
    /\ solve = "token"
    /\ \/ tokenCh /\ tokenCh' = FALSE /\ Leave("token")
       \/ Leave("error") /\ UNCHANGED tokenCh
    /\ UNCHANGED <<at, caller, pending, chan, readLoop, chrome, tab, ctxDone>>

\* The deferred calls, last registered first: conn.Close, closeTab, cancel.
SolveReturns ==
    /\ solve \in {"closeConn", "closeTab", "cancel"}
    /\ solve' = CASE solve = "closeConn" -> "closeTab"
                  [] solve = "closeTab" -> "cancel"
                  [] solve = "cancel" -> "idle"
    /\ chrome' = IF solve = "closeConn" THEN "closed" ELSE chrome
    /\ tab' = IF solve = "closeTab" THEN "none" ELSE tab
    /\ ctxDone' = (ctxDone \/ solve = "cancel")
    /\ UNCHANGED <<at, solved, caller, pending, chan, readLoop, tokenCh>>
-----------------------------------------------------------------------------
(* The read loop, and the goroutines it starts.                             *)

\* A bug: the entry stays in the map when its reply is handed over.
ReadReplyKeepsEntry(c) ==
    /\ readLoop = "reading" /\ chrome = "open"
    /\ c \in pending /\ caller[c] # "registered" /\ chan[c] = "empty"
    /\ \E r \in {"result", "error"} : chan' = [chan EXCEPT ![c] = r]
    /\ UNCHANGED <<solve, at, solved, caller, pending, readLoop, tokenCh, chrome, tab, ctxDone>>

\* Chrome's reply to a written call; a reply nobody waits for any more is dropped.
ReadReply(c) ==
    /\ readLoop = "reading" /\ chrome = "open"
    /\ c \in pending /\ caller[c] # "registered" /\ chan[c] = "empty"
    /\ pending' = pending \ {c}
    /\ \E r \in {"result", "error"} : chan' = [chan EXCEPT ![c] = r]
    /\ UNCHANGED <<solve, at, solved, caller, readLoop, tokenCh, chrome, tab, ctxDone>>

\* Network.responseReceived for captchaNotRobot.check, once the page is loading.
ReadEvent(w) ==
    /\ readLoop = "reading" /\ chrome = "open"
    /\ at >= Evaluate /\ solve \in {"script", "token"}
    /\ CallRegisters(w)
    /\ UNCHANGED <<solve, at, solved, readLoop, tokenCh, chrome, tab, ctxDone>>

\* The read fails, for a closed socket or ctx: failPending answers everybody.
ReadEnds ==
    /\ readLoop = "reading" /\ (chrome = "closed" \/ ctxDone)
    /\ \A c \in pending : chan[c] = "empty"
    /\ readLoop' = "done"
    /\ chan' = [c \in Callers |-> IF c \in pending THEN "error" ELSE chan[c]]
    /\ pending' = {}
    /\ UNCHANGED <<solve, at, solved, caller, tokenCh, chrome, tab, ctxDone>>

\* The body is there: a token goes to the channel unless one is waiting there.
WatcherEnds(w) ==
    /\ caller[w] \in {"ok", "failed"}
    /\ caller' = [caller EXCEPT ![w] = "none"]
    /\ \/ caller[w] = "ok" /\ tokenCh' = TRUE
       \/ UNCHANGED tokenCh
    /\ UNCHANGED <<solve, at, solved, pending, chan, readLoop, chrome, tab, ctxDone>>
-----------------------------------------------------------------------------
(* The environment.                                                         *)

ChromeGoes ==
    /\ chrome = "open" /\ chrome' = "closed"
    /\ UNCHANGED <<solve, at, solved, caller, pending, chan, readLoop, tokenCh, tab, ctxDone>>

\* The timeout of Solve, or the caller's context.
SolveExpires ==
    /\ solve # "idle" /\ ~ctxDone /\ ctxDone' = TRUE
    /\ UNCHANGED <<solve, at, solved, caller, pending, chan, readLoop, tokenCh, chrome, tab>>

CdpStep ==
    \/ OpenTab \/ Dial \/ SolveCalls \/ SolveRefusesHost \/ SolveContinues
    \/ AwaitToken \/ SolveReturns \/ ReadEnds
    \/ \E c \in Callers : CallWrites(c) \/ CallReturns(c) \/ ReadReply(c)
    \/ \E w \in Watchers : WatcherEnds(w)

CdpEnvironment == ChromeGoes \/ SolveExpires \/ \E w \in Watchers : ReadEvent(w)
=============================================================================
