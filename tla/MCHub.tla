------------------------------- MODULE MCHub --------------------------------
(* Hub with a history of how long one of the streams has been passed over. *)
EXTENDS Hub, TLC

VARIABLE passed  \* packets read since Watched was chosen or became ready

\* The streams are alike up to rotation.
Watched == N - 1

PassedInit == Init /\ passed = 0

PassedNext ==
    /\ Next
    /\ passed' = IF ~ready[Watched] \/ ~ready'[Watched] \/ (pc' = "handoff" /\ Candidate = Watched)
                 THEN 0
                 ELSE IF pc = "read" /\ pc' = "scan" THEN passed + 1 ELSE passed

PassedSpec == PassedInit /\ [][PassedNext]_<<vars, passed>>

Symmetry == Permutations(Bufs)

\* scheduleLoop: a stream that stays ready is chosen at least once in any N
\* packets, whatever the other streams do: packet N + 1 never finds it passed over.
NoStarvation == passed <= N
=============================================================================
