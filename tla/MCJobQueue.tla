----------------------------- MODULE MCJobQueue -----------------------------
(* Two studies of the queue, with two workers.  Races: one job, w1 prompt, w2 *)
(* may stall or carry an old `now` into a transaction.  Deadline: two jobs,   *)
(* timers fire when due, and w1 stays up.                                     *)
EXTENDS JobDeadline, TLC

CONSTANTS w1, w2, j1, j2

VARIABLE study

MCMaxAttempts == (j1 :> 2) @@ (j2 :> 1)
MCAccepts == (w1 :> {j1, j2}) @@ (w2 :> {j1})

\* Bounds of the races.
RaceClock == 6
RaceCrashes == 1

MCInit == Init /\ study \in {"races", "deadline"}

MCNext ==
    /\ study' = study
    /\ \/ /\ study = "races" /\ Next
          /\ clock' <= RaceClock /\ crashes' <= RaceCrashes
          /\ jobs'[j2].state = "absent"
       \/ study = "deadline" /\ DeadlineNext

MCSpec == MCInit /\ [][MCNext]_<<vars, study>>
=============================================================================
