------------------------------- MODULE Client -------------------------------
(* wgturn-cli connect and connect-url on one host: Chrome for the captchas,  *)
(* the tunnel, the TUN device, the in-process WireGuard kernel and the       *)
(* interface are brought up one after the other, each with the deferred call *)
(* that takes it down again, and taken down when a step fails or a signal    *)
(* comes.  One run at a time, and runs may be killed.                        *)
EXTENDS Integers, Sequences

VARIABLES step,     \* "idle", the stage that comes next, "ready" or "unwind"
          undo,     \* deferred calls and rollbacks that are owed, as a stack
          host,     \* what the run has on the host
          sigs,     \* the signal channel (capacity 1) is full
          asked     \* history: the run has been sent a signal

clientvars == <<step, undo, host, sigs, asked>>

Stages == <<"chrome", "wait", "tunnel", "tun", "kernel", "link", "addr", "route", "ready">>

ClientInit ==
    /\ step = "idle"
    /\ undo = <<>> /\ host = {} /\ sigs = FALSE /\ asked = FALSE

After(stage) == Stages[1 + CHOOSE i \in DOMAIN Stages : Stages[i] = stage]

\* The stage is done: it is on the host, and its deferred call is registered.
Up(stage) ==
    /\ step = stage
    /\ host' = host \cup {stage} /\ undo' = Append(undo, stage)
    /\ step' = After(stage)

\* The stage fails and leaves nothing of its own; the deferred calls run.
Fails(stage) ==
    /\ step = stage /\ step' = "unwind"
    /\ UNCHANGED <<host, undo>>

\* The flags, the file or the URL are in order (an error there starts nothing) and the
\* signal handler is in place.
Run ==
    /\ step = "idle" /\ step' = "chrome"
    /\ sigs' = FALSE /\ asked' = FALSE
    /\ UNCHANGED <<undo, host>>

\* resolveChromeURL: the user's own Chrome, or none at all.
NoLaunch ==
    /\ step = "chrome" /\ step' = "tunnel"
    /\ UNCHANGED <<undo, host, sigs, asked>>

\* launchChrome: the binary, a scratch directory and the process, which a failure leaves
\* nothing of.
LaunchChrome ==
    /\ \/ /\ step = "chrome" /\ step' = "wait"
          /\ host' = host \cup {"dataDir", "chrome"} /\ UNCHANGED undo
       \/ Fails("chrome")
    /\ UNCHANGED <<sigs, asked>>

\* waitChromeReady: whatever answers on the port will do; if nothing does, Stop.
WaitChrome ==
    /\ step = "wait"
    /\ \/ step' = "tunnel" /\ undo' = Append(undo, "chrome") /\ UNCHANGED host
       \/ step' = "unwind" /\ host' = host \ {"dataDir", "chrome"} /\ UNCHANGED undo
    /\ UNCHANGED <<sigs, asked>>

\* Tunnel.Start, which cleans up after itself, and NewSystemTUN.
StartTunnel == (Up("tunnel") \/ Fails("tunnel")) /\ UNCHANGED <<sigs, asked>>
OpenTUN == (Up("tun") \/ Fails("tun")) /\ UNCHANGED <<sigs, asked>>

\* Kernel.Start; a failure closes the device, and with it the TUN.
StartKernel ==
    /\ \/ Up("kernel") \/ Fails("kernel")
       \/ step = "kernel" /\ step' = "unwind" /\ host' = host \ {"tun"} /\ UNCHANGED undo
    /\ UNCHANGED <<sigs, asked>>

\* setupHostIface: link, address, routes; a failure rolls back what is there.  Other
\* systems than Linux are left to the user.
LinkUp ==
    /\ \/ Up("link") \/ Fails("link")
       \/ step = "link" /\ step' = "ready" /\ UNCHANGED <<host, undo>>
    /\ UNCHANGED <<sigs, asked>>

AddAddress == (Up("addr") \/ Fails("addr")) /\ UNCHANGED <<sigs, asked>>

\* isCoveredByConnectedRoute: no route is added for a prefix the address implies.
AddRoute ==
    /\ \/ Up("route") \/ Fails("route")
       \/ step = "route" /\ step' = "ready" /\ UNCHANGED <<host, undo>>
    /\ UNCHANGED <<sigs, asked>>

\* Up and running until a signal is taken from the channel.
Shutdown ==
    /\ step = "ready" /\ sigs
    /\ step' = "unwind" /\ sigs' = FALSE
    /\ UNCHANGED <<undo, host, asked>>

\* What a deferred call removes: Kernel.Stop closes the TUN as well, chromeProcess.Stop
\* wipes its directory.
Removes(d) ==
    CASE d = "kernel" -> {"kernel", "tun"}
      [] d = "chrome" -> {"chrome", "dataDir"}
      [] OTHER -> {d}

\* A bug: what was brought up first is taken down first.
UnwindInOrder ==
    /\ step = "unwind" /\ undo # <<>>
    /\ host' = host \ Removes(Head(undo)) /\ undo' = Tail(undo)
    /\ UNCHANGED <<step, sigs, asked>>

\* The deferred calls and the rollbacks, last in first out.
Unwind ==
    /\ step = "unwind" /\ undo # <<>>
    /\ host' = host \ Removes(undo[Len(undo)])
    /\ undo' = SubSeq(undo, 1, Len(undo) - 1)
    /\ UNCHANGED <<step, sigs, asked>>

Exit ==
    /\ step = "unwind" /\ undo = <<>>
    /\ step' = "idle" /\ sigs' = FALSE /\ asked' = FALSE
    /\ UNCHANGED <<undo, host>>

\* A bug: a channel without room drops the signal unless the select is waiting for it.
SignalUnbuffered ==
    /\ step # "idle" /\ ~asked /\ asked' = TRUE
    /\ sigs' = (step = "ready")
    /\ UNCHANGED <<step, undo, host>>

\* SIGINT or SIGTERM, at any time of the run.
Signal ==
    /\ step # "idle" /\ ~asked /\ asked' = TRUE
    /\ sigs' = TRUE
    /\ UNCHANGED <<step, undo, host>>

\* SIGKILL: what the process holds goes with it, and the interface with its TUN; Chrome
\* and its directory stay behind, no longer anyone's.
Kill ==
    /\ step # "idle"
    /\ step' = "idle"
    /\ undo' = <<>> /\ host' = {} /\ sigs' = FALSE /\ asked' = FALSE

ClientStep ==
    \/ NoLaunch \/ LaunchChrome \/ WaitChrome \/ StartTunnel \/ OpenTUN \/ StartKernel \/ LinkUp
    \/ AddAddress \/ AddRoute \/ Shutdown \/ Unwind \/ Exit

-----------------------------------------------------------------------------
(* Properties.                                                              *)

\* A run takes down what it has brought up, wherever it failed or was interrupted, and
\* never something that is still in use: the kernel sends to the tunnel and reads the TUN,
\* the address is on a link that is up, the routes need the address (the deferred calls
\* of connect.go:102-219, chrome.go:144-145, and the reverse order of hostsetup.go:66).
TakenDownInOrder ==
    /\ step = "idle" => host = {} /\ undo = <<>>
    /\ "kernel" \in host => {"tunnel", "tun"} \subseteq host
    /\ "link" \in host => "kernel" \in host
    /\ "addr" \in host => "link" \in host
    /\ "route" \in host => "addr" \in host

\* A signal ends the run, also one that comes while it is starting
\* (connect.go:105-106, 212-214).
SignalEnds == []<>~asked
=============================================================================
