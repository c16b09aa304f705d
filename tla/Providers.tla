------------------------------ MODULE Providers ------------------------------
(* One Fetch of TURN credentials.  routedProvider sends the hint to the VK   *)
(* provider (the five posts of apiClient.fetchTurn, with the captcha loop in *)
(* the third) or to the Telemost provider (one GET, then the frames of a     *)
(* WebSocket).  Captchas go to a ChainSolver over CDPSolver (module          *)
(* CdpSolver) and the prompt of the command line, which itself wires one of  *)
(* the two.  The servers are external: every answer is possible.             *)
EXTENDS CdpSolver

CONSTANTS Solvers,     \* the chain: a sequence over {"cdp", "stdio"}; empty: none wired, rejectingSolver
          MaxFetches   \* bound: Fetch calls, one after the other (the cache's fetchMu)

maxCaptchaAttempts == 3

VARIABLES fetch,      \* where Fetch is
          result,     \* of the last Fetch: "none", "creds" or the class of its error
          attempt,    \* of the step-3 loop
          challenge,  \* the last captcha challenge: [n, redirect]
          form,       \* step3Form: per captcha field the challenge it is from, 0 for none
          turn,       \* index of the solver the chain is at
          http,       \* the connection of utlsRoundTripper: "none" or "open"
          ctx,        \* the context is done: the caller's, or the 90 s of the captcha loop
          stdin,      \* goroutines that wait for a line; the youngest is the current Solve's
          fetches     \* Fetch calls so far

vkvars == <<fetch, result, attempt, challenge, form, turn, http, ctx, stdin, fetches>>
allvars == <<vkvars, cdpvars>>

\* What a post can come to: detectVKError and the checks around it.  A captcha without
\* the fields to solve it is only reported.
Answers == {"ok", "malformed", "http", "refused", "captcha", "bareCaptcha"}

ErrorClass(a) ==
    CASE a = "refused" -> "ErrAuthFailure"
      [] a \in {"captcha", "bareCaptcha"} -> "ErrCaptchaRequired"
      [] OTHER -> "other"

\* extractCaptcha: every field may be missing.  Whether captcha_sid and captcha_ts are
\* there is left open until applySolution looks at them.
NoChallenge == [n |-> 0, redirect |-> FALSE]
EmptyForm == [captcha_sid |-> 0, captcha_key |-> 0, success_token |-> 0, captcha_ts |-> 0]

VkTypeOK ==
    /\ fetch \in {"idle", "step1", "step2", "step3", "chain", "cdp", "stdio", "step4",
                  "step5", "conference", "dial", "frames"}
    /\ result \in {"none", "creds", "ErrAuthFailure", "ErrCaptchaRequired", "other"}
    /\ attempt \in 0..maxCaptchaAttempts
    /\ turn \in 1..(Len(Solvers) + 1)
    /\ http \in {"none", "open"} /\ ctx \in BOOLEAN
    /\ stdin \in 0..(maxCaptchaAttempts * MaxFetches) /\ fetches \in 0..MaxFetches

Init ==
    /\ CdpInit
    /\ fetch = "idle" /\ result = "none" /\ attempt = 0
    /\ challenge = NoChallenge /\ form = EmptyForm
    /\ turn = 1 /\ http = "none" /\ ctx = FALSE /\ stdin = 0
    /\ fetches = 0

Goto(step) ==
    /\ fetch' = step /\ http' = "none"
    /\ UNCHANGED <<result, attempt, challenge, form, turn, ctx>>

\* Fetch returns, and its locals go with it.
Return(outcome) ==
    /\ fetch' = "idle" /\ result' = outcome
    /\ attempt' = 0 /\ challenge' = NoChallenge /\ form' = EmptyForm /\ turn' = 1
    /\ http' = "none" /\ ctx' = FALSE
-----------------------------------------------------------------------------
(* The route and the five steps.                                            *)

\* extractCallID: a link of the provider, or an error.
VkHint == {"step1", "idle"}
TelemostHint == {"conference", "idle"}

\* The shape of the hint picks the provider.
Fetch ==
    /\ fetch = "idle" /\ fetches < MaxFetches
    /\ fetches' = fetches + 1
    /\ \E first \in VkHint \cup TelemostHint :
          /\ fetch' = first
          /\ result' = IF first = "idle" THEN "other" ELSE "none"
    /\ UNCHANGED <<attempt, challenge, form, turn, http, ctx, stdin, cdpvars>>

\* RoundTrip: dial and handshake heed the context of the request.
Connect ==
    /\ fetch \in {"step1", "step2", "step3", "step4", "step5"} /\ http = "none"
    /\ \/ /\ ~ctx /\ http' = "open"
          /\ UNCHANGED <<fetch, result, attempt, challenge, form, turn, ctx>>
       \/ IF fetch = "step2" THEN Goto("step3") ELSE Return("other")
    /\ UNCHANGED <<stdin, fetches, cdpvars>>

\* Request, response and body: only the server ends the wait for them, whatever has
\* become of the context.  The connection is closed on every way out.
Step(from, to) ==
    /\ fetch = from /\ http = "open"
    /\ \/ IF to = "creds" THEN Return("creds") ELSE Goto(to)
       \/ \E a \in Answers \ {"ok"} : Return(ErrorClass(a))
    /\ UNCHANGED <<stdin, fetches, cdpvars>>

Step1 == Step("step1", "step2")
\* The preview is best effort: any answer will do.
Step2 == fetch = "step2" /\ http = "open" /\ Goto("step3") /\ UNCHANGED <<stdin, fetches, cdpvars>>
Step4 == Step("step4", "step5")
Step5 == Step("step5", "creds")

\* A challenge that can be solved goes to the solver.  Past the loop its 90 s no longer
\* count: ctx stays done only if it is the caller's.
Step3 ==
    /\ fetch = "step3" /\ http = "open"
    /\ \/ /\ fetch' = "step4" /\ http' = "none" /\ ctx' \in {ctx, FALSE}
          /\ UNCHANGED <<result, attempt, challenge, form, turn>>
       \/ \E a \in Answers \ {"ok", "captcha"} : Return(ErrorClass(a))
       \/ /\ fetch' = "chain" /\ turn' = 1 /\ http' = "none"
          /\ \E r \in BOOLEAN : challenge' = [n |-> challenge.n + 1, redirect |-> r]
          /\ UNCHANGED <<result, attempt, form, ctx>>
    /\ UNCHANGED <<stdin, fetches, cdpvars>>
-----------------------------------------------------------------------------
(* Captchas.                                                                *)

\* ChainSolver: the context is looked at before every solver; one that fails hands over
\* to the next.
SolverFails ==
    /\ fetch' = "chain" /\ turn' = turn + 1
    /\ UNCHANGED <<result, attempt, challenge, form, http, ctx>>

Chain ==
    /\ fetch = "chain" /\ UNCHANGED fetches
    /\ \/ /\ ctx \/ turn > Len(Solvers)
          /\ Return(IF Solvers = <<>> THEN "ErrCaptchaRequired" ELSE "other")
          /\ UNCHANGED <<stdin, cdpvars>>
       \/ /\ ~ctx /\ turn <= Len(Solvers) /\ Solvers[turn] = "cdp"
          /\ UNCHANGED stdin
          /\ IF challenge.redirect THEN Goto("cdp") /\ SolveStarts
                                   ELSE SolverFails /\ UNCHANGED cdpvars
       \/ /\ ~ctx /\ turn <= Len(Solvers) /\ Solvers[turn] = "stdio"
          /\ Goto("stdio") /\ stdin' = stdin + 1
          /\ UNCHANGED cdpvars

\* A bug: a solution typed in does not clear the token of an earlier attempt.
ApplyKeepsToken(mode, ts) ==
    [form EXCEPT !.captcha_sid = challenge.n,
                 !.captcha_key = IF mode = "text" THEN challenge.n ELSE 0,
                 !.success_token = IF mode = "token" THEN challenge.n ELSE @,
                 !.captcha_ts = IF mode = "token" /\ ts THEN challenge.n ELSE @]

\* applySolution: the form is used again from attempt to attempt, so each mode clears
\* the fields of the other; captcha_ts stays where the challenge has none.
Apply(mode, ts) ==
    [form EXCEPT !.captcha_sid = challenge.n,
                 !.captcha_key = IF mode = "text" THEN challenge.n ELSE 0,
                 !.success_token = IF mode = "token" THEN challenge.n ELSE 0,
                 !.captcha_ts = IF mode = "token" /\ ts THEN challenge.n ELSE @]

\* A solution: into the form and on to the next attempt, if there is one left.
Solved(mode) ==
    \/ Return("other")   \* no captcha_sid
    \/ attempt + 1 = maxCaptchaAttempts /\ Return("ErrCaptchaRequired")
    \/ /\ attempt + 1 < maxCaptchaAttempts
       /\ fetch' = "step3" /\ attempt' = attempt + 1
       /\ \E ts \in BOOLEAN : form' = Apply(mode, ts)
       /\ UNCHANGED <<result, challenge, turn, http, ctx>>

CdpReturned ==
    /\ fetch = "cdp" /\ solve = "idle"
    /\ \/ solved = "token" /\ Solved("token")
       \/ solved = "error" /\ SolverFails
    /\ UNCHANGED <<stdin, fetches, cdpvars>>

\* A line on the terminal (or its end) goes to the goroutine that has waited longest,
\* also when the Solve that started it is long over.
TypeLine ==
    /\ stdin > 0 /\ stdin' = stdin - 1
    /\ IF fetch = "stdio" /\ stdin = 1
         THEN Solved("text") \/ SolverFails
         ELSE UNCHANGED <<fetch, result, attempt, challenge, form, turn, http, ctx>>
    /\ UNCHANGED <<fetches, cdpvars>>

\* A bug: the prompt only comes back with a line.
StdioWaitsForLine ==
    /\ fetch = "stdio" /\ ctx /\ stdin = 0
    /\ SolverFails /\ UNCHANGED <<stdin, fetches, cdpvars>>

\* The prompt gives up with ctx; its goroutine goes on waiting.
StdioExpires ==
    /\ fetch = "stdio" /\ ctx
    /\ SolverFails /\ UNCHANGED <<stdin, fetches, cdpvars>>

\* The caller's context ends at any time, that of the captcha loop after 90 s; the
\* context of a Solve under way descends from both.
Expires ==
    /\ fetch # "idle" /\ ~ctx /\ ctx' = TRUE
    /\ ctxDone' = (ctxDone \/ solve # "idle")
    /\ UNCHANGED <<fetch, result, attempt, challenge, form, turn, http, stdin, fetches>>
    /\ UNCHANGED <<solve, at, solved, caller, pending, chan, readLoop, tokenCh, chrome, tab>>

CaptchaExpires == fetch \in {"step3", "chain", "cdp", "stdio"} /\ Expires
-----------------------------------------------------------------------------
(* Telemost.                                                                *)

\* The GET, over a transport that heeds the context: credentials in the answer
\* (turnFromConference), or the address of the media server.
Conference ==
    /\ fetch = "conference"
    /\ \/ ~ctx /\ (Return("creds") \/ Goto("dial"))
       \/ \E e \in {"ErrAuthFailure", "other"} : Return(e)
    /\ UNCHANGED <<stdin, fetches, cdpvars>>

\* Dial and hello.
DialMedia ==
    /\ fetch = "dial"
    /\ (~ctx /\ Goto("frames")) \/ Return("other")
    /\ UNCHANGED <<stdin, fetches, cdpvars>>

\* scanFrameForTurn: a TURN server somewhere in the frame ends the loop.
ScanFrame == {"none", "creds"}

\* One frame: acknowledged unless it is an acknowledgement (a failed write is only
\* logged), and searched.
Frame ==
    /\ fetch = "frames" /\ ~ctx
    /\ \E found \in ScanFrame :
          IF found = "creds" THEN Return("creds") ELSE Goto("frames")
    /\ UNCHANGED <<stdin, fetches, cdpvars>>

\* A failed read, the context, or the 15 s.
FramesEnd == fetch = "frames" /\ Return("other") /\ UNCHANGED <<stdin, fetches, cdpvars>>
-----------------------------------------------------------------------------
Answer == Step1 \/ Step2 \/ Step3 \/ Step4 \/ Step5

FetchStep == Connect \/ Chain \/ CdpReturned \/ StdioExpires \/ Conference \/ DialMedia

\* Solve as Fetch calls it; the watchers and the read loop are other goroutines.
SolveGoroutine ==
    OpenTab \/ Dial \/ SolveCalls \/ SolveRefusesHost \/ SolveContinues \/ AwaitToken
    \/ SolveReturns \/ CallWrites("Solve") \/ CallReturns("Solve")

Next ==
    \/ Fetch \/ FetchStep \/ Answer \/ TypeLine \/ Expires \/ Frame \/ FramesEnd
    \/ (CdpStep \/ CdpEnvironment) /\ UNCHANGED vkvars

\* Goroutines go on while they can, dials and handshakes have timeouts, and so have the
\* captcha loop and the frame loop; nobody has to answer, to type, or to send frames.
Fairness ==
    /\ WF_allvars(FetchStep \/ (SolveGoroutine /\ UNCHANGED vkvars))
    /\ WF_allvars(ReadEnds /\ UNCHANGED vkvars)
    /\ WF_allvars(UNCHANGED vkvars /\ \E w \in Watchers :
                     CallWrites(w) \/ CallReturns(w) \/ WatcherEnds(w))
    /\ WF_allvars(CaptchaExpires \/ FramesEnd)

Spec == Init /\ [][Next]_allvars /\ Fairness
-----------------------------------------------------------------------------
(* Properties.                                                              *)

\* What step 3 posts again is one solution for one challenge: the sid is that of the
\* last challenge, and either the token or the key is its answer while the other field
\* is empty (captcha.go:172-177), whatever mix of solvers the attempts went through.
FormCoherent ==
    fetch = "step3" /\ form.captcha_sid # 0 =>
        /\ form.captcha_sid = challenge.n
        /\ {form.captcha_key, form.success_token} = {0, challenge.n}

\* Captchas never keep a Fetch for good (api.go:202-206): whatever Chrome and the person
\* at the terminal do or leave undone, Fetch returns or waits for the VK API itself.
FetchMovesOn == []<>(fetch = "idle" \/ http = "open")

\* A Solve leaves nothing behind (cdp.go:45-46): in the end its tab is closed and its
\* read loop and watchers are gone.
SolverCleansUp == []<>(Quiet /\ tab # "open")

\* The comment at pkg/wgturn/provider.go:34-35: implementations must respect ctx
\* cancellation, so a Fetch whose context is done returns.
CtxRespected == ctx ~> (fetch = "idle")
=============================================================================
