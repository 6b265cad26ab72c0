----------------------------- MODULE JobService -----------------------------
(***************************************************************************)
(* What a worker of source/core/EC_Thread.pas promises: it takes one job   *)
(* at a time; a job that ends by itself, or that was asked to stop, comes  *)
(* to an end that observers see; and a job that raised an exception is the *)
(* worker's last one.  Worker implements this specification.               *)
(***************************************************************************)
VARIABLE status     \* "idle", "busy" (the job is due to end), "endless" (it
                    \* runs until it is stopped), "dead" (a job raised) or
                    \* "gone" (the worker was destroyed)

Init == status = "idle"

Accept   == status = "idle" /\ status' \in {"busy", "endless"}
Cancel   == status = "endless" /\ status' = "busy"
Withdraw == status = "busy" /\ status' = "endless"
Complete == status = "busy" /\ status' = "idle"
Fail     == status = "busy" /\ status' = "dead"
Retire   == status \in {"idle", "busy"} /\ status' = "gone"

\* The ways out of "busy".
Ends == Complete \/ Fail \/ (status = "busy" /\ Retire)

Next == Accept \/ Cancel \/ Withdraw \/ Complete \/ Fail \/ Retire

\* Whoever waits for the end of a job that is due to end gets it.
Spec == Init /\ [][Next]_status /\ WF_status(Ends)
=============================================================================
