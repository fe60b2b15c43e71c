---------------------------- MODULE JobLifecycle ----------------------------
(***************************************************************************)
(* What CJobManager promises to the code that hands it a job, whatever the *)
(* number of worker threads, priorities, pauses and cancellations: a job   *)
(* object goes through the stages documented in xbmc/utils/Job.h, in that  *)
(* order, each at most once, and its callback can only fire between the    *)
(* start of the job and its destruction.                                   *)
(***************************************************************************)
CONSTANT Job    \* the job objects clients create

VARIABLE stage  \* stage[j]: how far job j has got

Stages == {"new", "refused", "queued", "running", "reported", "destroyed"}

TypeOK == stage \in [Job -> Stages]

Init == stage = [j \in Job |-> "new"]

(* AddJob: the job is taken over by the manager, or turned down (id 0).    *)
Submit(j) ==
  /\ stage[j] = "new"
  /\ \E s \in {"queued", "refused"} : stage' = [stage EXCEPT ![j] = s]

(* A worker thread begins DoWork().                                        *)
Start(j) ==
  /\ stage[j] = "queued"
  /\ stage' = [stage EXCEPT ![j] = "running"]

(* IJobCallback::OnJobComplete: once, and only after the job ran.          *)
Report(j) ==
  /\ stage[j] = "running"
  /\ stage' = [stage EXCEPT ![j] = "reported"]

(* The worker destroys the job it ran, reported or not.                    *)
Finish(j) ==
  /\ stage[j] \in {"running", "reported"}
  /\ stage' = [stage EXCEPT ![j] = "destroyed"]

(* Cancelling destroys queued jobs without running them: one of them       *)
(* (CancelJob) or every one (CancelJobs).                                  *)
Discard(S) ==
  /\ \A j \in S : stage[j] = "queued"
  /\ stage' = [j \in Job |-> IF j \in S THEN "destroyed" ELSE stage[j]]

Next ==
  \/ \E j \in Job : Submit(j) \/ Start(j) \/ Report(j) \/ Finish(j)
  \/ \E S \in SUBSET Job : Discard(S)

Spec == Init /\ [][Next]_stage
=============================================================================
