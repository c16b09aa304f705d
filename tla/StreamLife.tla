----------------------------- MODULE StreamLife -----------------------------
(***************************************************************************)
(* What a stream shows to the rest of its Hub: whether it may be given     *)
(* packets (ready) and whether somebody takes them out of its queue (tx).  *)
(* A stream that stops being ready has nobody left at its queue.           *)
(***************************************************************************)
VARIABLES ready, tx

Init == ready = FALSE /\ tx = "off"

\* A pump starts its tx goroutine, before (raw) or after (DTLS) it is ready.
TxStart == tx = "off" /\ tx' = "running" /\ UNCHANGED ready

\* tx returns.
TxEnd == tx = "running" /\ tx' = "done" /\ UNCHANGED ready

Up == ~ready /\ ready' = TRUE /\ UNCHANGED tx

Down == ready /\ tx = "done" /\ ready' = FALSE /\ UNCHANGED tx

\* The stream connects again.
Again == ~ready /\ tx = "done" /\ tx' = "off" /\ UNCHANGED ready

Next == TxStart \/ TxEnd \/ Up \/ Down \/ Again

Spec == Init /\ [][Next]_<<ready, tx>>
=============================================================================
