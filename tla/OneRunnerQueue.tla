--------------------------- MODULE OneRunnerQueue ---------------------------
(***************************************************************************)
(* What the job queue promises to those who submit jobs, with no rows,     *)
(* versions, leases or attempts: a job waits until one worker takes it,    *)
(* only that worker can end the run, a worker that dies loses the job and  *)
(* the job waits again, and a done job stays done.  JobQueue implements it *)
(* when no run outlasts its lease.                                         *)
(***************************************************************************)
CONSTANTS Jobs, Workers

VARIABLES
  state,    \* [Jobs -> States]
  runners   \* [Jobs -> SUBSET Workers]: who is at work on a job

vars == <<state, runners>>

States == {"absent", "waiting", "running", "done", "failed"}

Init == /\ state = [j \in Jobs |-> "absent"]
        /\ runners = [j \in Jobs |-> {}]

Submit(j) ==
  /\ state[j] = "absent"
  /\ state' = [state EXCEPT ![j] = "waiting"]
  /\ UNCHANGED runners

\* A free worker takes a job that nobody works on.
Start(j, w) ==
  /\ state[j] = "waiting" /\ \A i \in Jobs : w \notin runners[i]
  /\ state' = [state EXCEPT ![j] = "running"]
  /\ runners' = [runners EXCEPT ![j] = {w}]

\* The worker of a job ends its run, for good or to try again.
Finish(j, s) ==
  /\ state[j] = "running" /\ runners[j] # {}
  /\ s \in {"done", "failed", "waiting"}
  /\ state' = [state EXCEPT ![j] = s]
  /\ runners' = [runners EXCEPT ![j] = {}]

\* The worker dies, or gives up without a word.
Abandon(j) ==
  /\ state[j] = "running" /\ runners[j] # {}
  /\ runners' = [runners EXCEPT ![j] = {}]
  /\ UNCHANGED state

\* Jobs that were abandoned wait again.
Recover(S) ==
  /\ S # {}
  /\ \A j \in S : state[j] = "running" /\ runners[j] = {}
  /\ state' = [j \in Jobs |-> IF j \in S THEN "waiting" ELSE state[j]]
  /\ UNCHANGED runners

Withdraw(j) ==
  /\ state[j] = "waiting"
  /\ state' = [state EXCEPT ![j] = "failed"]
  /\ UNCHANGED runners

Retry(j) ==
  /\ state[j] = "failed"
  /\ state' = [state EXCEPT ![j] = "waiting"]
  /\ UNCHANGED runners

Next ==
  \/ \E j \in Jobs : \/ Submit(j) \/ Abandon(j) \/ Withdraw(j) \/ Retry(j)
                     \/ \E w \in Workers : Start(j, w)
                     \/ \E s \in States : Finish(j, s)
  \/ \E S \in SUBSET Jobs : Recover(S)

Spec == Init /\ [][Next]_vars

\* Runs end, and an abandoned job does not stay RUNNING.
FairSpec ==
  /\ Spec
  /\ \A j \in Jobs :
       /\ WF_vars(Abandon(j) \/ \E s \in States : Finish(j, s))
       /\ WF_vars(\E S \in SUBSET Jobs : j \in S /\ Recover(S))
=============================================================================
