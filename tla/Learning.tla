-------------------------------- MODULE Learning -------------------------------
(***************************************************************************)
(* feedback/service.py and learning/service.py: reviewed alerts are        *)
(* claimed by a learning run, turned into a dataset, trained on in a       *)
(* thread, and given back when the run comes to nothing.  On SQLite a      *)
(* request runs from its first await to its last without a break; on       *)
(* PostgreSQL, and only there, claims of two runs interleave row by row.   *)
(***************************************************************************)
EXTENDS Tables

CONSTANTS
  LrnTasks,       \* requests to start a run
  LrnRows,        \* 1..n, feedback ids in the order they are drawn
  LrnRunIds,      \* 1..n, run ids in the order they are drawn
  LrnMinSamples   \* min_samples

ASSUME LrnAssumption == None \notin Nat

VARIABLES
  lrnBackend,  \* "sqlite" or "postgres"
  lrnValSet,   \* whether the locked validation set has images
  lrnRows,     \* the feedback table: [sample, consumed_by]
  lrnRuns,     \* the learning_runs table: [status, samples, promoted]
  lrnTask,     \* start_run, where each call is
  lrnJobs,     \* _execute: run -> [pc, rows as claimed, todo]
  lrnRunning,  \* the job _running points at
  lrnCrashed   \* history: a process died while a run was under way

lrnVars == <<lrnBackend, lrnValSet, lrnRows, lrnRuns, lrnTask, lrnJobs, lrnRunning, lrnCrashed>>

LrnIdle == [pc |-> "idle"]

LrnInit ==
  /\ lrnBackend \in {"sqlite", "postgres"} /\ lrnValSet \in BOOLEAN
  /\ lrnRows = <<>> /\ lrnRuns = <<>>
  /\ lrnTask = [t \in LrnTasks |-> LrnIdle]
  /\ lrnJobs = <<>> /\ lrnRunning = None /\ lrnCrashed = FALSE

\* on SQLite nobody else is in the middle of a request, nor a job of its release
LrnAlone(tasks, jobs) ==
  lrnBackend = "sqlite" => /\ \A t \in tasks : lrnTask[t].pc = "idle"
                           /\ \A run \in jobs : lrnJobs[run].pc = "train"
LrnMayRun(t) == LrnAlone(LrnTasks \ {t}, DOMAIN lrnJobs)
LrnJobMayRun(run) == LrnAlone(LrnTasks, DOMAIN lrnJobs \ {run})

(* record: a review, kept as what it is worth to the dataset: "positive"   *)
(* needs a frame, a class of the model and a box, "negative" a frame.      *)
LrnRecord(f, sample) ==
  /\ LrnAlone(LrnTasks, DOMAIN lrnJobs) /\ f \in LrnRows /\ f = Cardinality(DOMAIN lrnRows) + 1
  /\ lrnRows' = Put(lrnRows, f, [sample |-> sample, consumed_by |-> None], {"created_at"})
  /\ UNCHANGED <<lrnBackend, lrnValSet, lrnRuns, lrnTask, lrnJobs, lrnRunning, lrnCrashed>>

LrnBusy == lrnRunning \in DOMAIN lrnJobs

\* Mutant of LrnFinish: a refused run is left as it is.
LrnFinishNotBlocked(run, status) ==
  IF status = "blocked" THEN lrnRuns ELSE Patch(lrnRuns, run, [status |-> status])
LrnFinish(run, status) == Patch(lrnRuns, run, [status |-> status])

\* 409 while a run trains; else a row for the run, then the claim
LrnStart(t, run) ==
  /\ LrnMayRun(t) /\ lrnTask[t].pc = "idle" /\ ~ LrnBusy
  /\ run \in LrnRunIds /\ run = Cardinality(DOMAIN lrnRuns) + 1
  /\ lrnRuns' = Put(lrnRuns, run, [status |-> "pending", samples |-> 0, promoted |-> FALSE], {})
  /\ lrnTask' = [lrnTask EXCEPT ![t] = [pc |-> "list", run |-> run]]
  /\ UNCHANGED <<lrnBackend, lrnValSet, lrnRows, lrnJobs, lrnRunning, lrnCrashed>>

\* Mutant of LrnUnconsumed: every review is offered to every run.
LrnAnyReview == DOMAIN lrnRows
LrnUnconsumed == {f \in DOMAIN lrnRows : lrnRows[f].consumed_by = None}
LrnClaimedBy(run) == {f \in DOMAIN lrnRows : lrnRows[f].consumed_by = run}

LrnList(t) ==
  /\ LrnMayRun(t) /\ lrnTask[t].pc = "list"
  /\ lrnTask' = [lrnTask EXCEPT ![t] = [pc |-> "claim", run |-> @.run, rows |-> LrnUnconsumed,
                                        todo |-> LrnUnconsumed]]
  /\ UNCHANGED <<lrnBackend, lrnValSet, lrnRows, lrnRuns, lrnJobs, lrnRunning, lrnCrashed>>

\* claim_for_training and release stamp row after row, the newest first
LrnNewest(todo) == CHOOSE f \in todo : \A g \in todo : g <= f
LrnStamp(rows, todo, owner) == Patch(rows, LrnNewest(todo), [consumed_by |-> owner])

LrnClaim(t) ==
  /\ LrnMayRun(t) /\ lrnTask[t].pc = "claim" /\ lrnTask[t].todo # {}
  /\ lrnRows' = LrnStamp(lrnRows, lrnTask[t].todo, lrnTask[t].run)
  /\ lrnTask' = [lrnTask EXCEPT ![t].todo = @ \ {LrnNewest(@)}]
  /\ UNCHANGED <<lrnBackend, lrnValSet, lrnRuns, lrnJobs, lrnRunning, lrnCrashed>>

LrnClaimed(t) == LrnMayRun(t) /\ lrnTask[t].pc = "claim" /\ lrnTask[t].todo = {}

\* too few samples, or nothing to validate on
LrnRefuses(t) == Cardinality(lrnTask[t].rows) < LrnMinSamples \/ ~ lrnValSet

LrnToRelease(t) ==
  /\ LrnClaimed(t) /\ LrnRefuses(t)
  /\ lrnTask' = [lrnTask EXCEPT ![t] = [pc |-> "release", run |-> @.run, todo |-> LrnClaimedBy(@.run)]]
  /\ UNCHANGED <<lrnBackend, lrnValSet, lrnRows, lrnRuns, lrnJobs, lrnRunning, lrnCrashed>>

LrnRelease(t) ==
  /\ LrnMayRun(t) /\ lrnTask[t].pc = "release" /\ lrnTask[t].todo # {}
  /\ lrnRows' = LrnStamp(lrnRows, lrnTask[t].todo, None)
  /\ lrnTask' = [lrnTask EXCEPT ![t].todo = @ \ {LrnNewest(@)}]
  /\ UNCHANGED <<lrnBackend, lrnValSet, lrnRuns, lrnJobs, lrnRunning, lrnCrashed>>

LrnBlocked(t) ==
  /\ LrnMayRun(t) /\ lrnTask[t].pc = "release" /\ lrnTask[t].todo = {}
  /\ lrnRuns' = LrnFinish(lrnTask[t].run, "blocked")
  /\ lrnTask' = [lrnTask EXCEPT ![t] = LrnIdle]
  /\ UNCHANGED <<lrnBackend, lrnValSet, lrnRows, lrnJobs, lrnRunning, lrnCrashed>>

\* the run's task is created and _running points at it, whatever it pointed at
LrnLaunch(t) ==
  LET run == lrnTask[t].run
  IN /\ LrnClaimed(t) /\ ~ LrnRefuses(t)
     /\ lrnRuns' = Patch(lrnRuns, run, [samples |-> Cardinality(lrnTask[t].rows), status |-> "running"])
     /\ lrnJobs' = Changed(lrnJobs, [r \in {run} |->
                                      [pc |-> "train", rows |-> lrnTask[t].rows, todo |-> {}]])
     /\ lrnRunning' = run
     /\ lrnTask' = [lrnTask EXCEPT ![t] = LrnIdle]
     /\ UNCHANGED <<lrnBackend, lrnValSet, lrnRows, lrnCrashed>>

\* build_dataset: what it does not skip
LrnUsable(rows) == {f \in rows : lrnRows[f].sample \in {"positive", "negative"}}

(* The thread comes back: trained and measured against the base weights on *)
(* the locked set, promoted if nothing regressed.                          *)
LrnTrained(run, promoted) ==
  /\ LrnJobMayRun(run) /\ run \in DOMAIN lrnJobs /\ lrnJobs[run].pc = "train"
  /\ Cardinality(LrnUsable(lrnJobs[run].rows)) >= LrnMinSamples
  /\ lrnRuns' = Patch(lrnRuns, run, [status |-> "completed", promoted |-> promoted,
                                     samples |-> Cardinality(LrnUsable(lrnJobs[run].rows))])
  /\ lrnJobs' = Delete(lrnJobs, run)
  /\ UNCHANGED <<lrnBackend, lrnValSet, lrnRows, lrnTask, lrnRunning, lrnCrashed>>

\* Mutant of LrnGivesBack: a run that fails keeps what it claimed.
LrnGivesBackNothing(run) == {}
LrnGivesBack(run) == LrnClaimedBy(run)

\* it raises: no weights file, too few usable rows, a failure in training
LrnRaises(run) ==
  /\ LrnJobMayRun(run) /\ run \in DOMAIN lrnJobs /\ lrnJobs[run].pc = "train"
  /\ lrnJobs' = [lrnJobs EXCEPT ![run].pc = "release", ![run].todo = LrnGivesBack(run)]
  /\ UNCHANGED <<lrnBackend, lrnValSet, lrnRows, lrnRuns, lrnTask, lrnRunning, lrnCrashed>>

LrnReleaseJob(run) ==
  /\ LrnJobMayRun(run) /\ run \in DOMAIN lrnJobs /\ lrnJobs[run].pc = "release" /\ lrnJobs[run].todo # {}
  /\ lrnRows' = LrnStamp(lrnRows, lrnJobs[run].todo, None)
  /\ lrnJobs' = [lrnJobs EXCEPT ![run].todo = @ \ {LrnNewest(@)}]
  /\ UNCHANGED <<lrnBackend, lrnValSet, lrnRuns, lrnTask, lrnRunning, lrnCrashed>>

LrnFailed(run) ==
  /\ LrnJobMayRun(run) /\ run \in DOMAIN lrnJobs /\ lrnJobs[run].pc = "release" /\ lrnJobs[run].todo = {}
  /\ lrnRuns' = LrnFinish(run, "failed")
  /\ lrnJobs' = Delete(lrnJobs, run)
  /\ UNCHANGED <<lrnBackend, lrnValSet, lrnRows, lrnTask, lrnRunning, lrnCrashed>>

\* nothing looks for the runs and claims a dead process left
LrnRestart ==
  /\ lrnTask' = [t \in LrnTasks |-> LrnIdle]
  /\ lrnJobs' = <<>> /\ lrnRunning' = None
  /\ lrnCrashed' = (lrnCrashed \/ lrnJobs # <<>> \/ \E t \in LrnTasks : lrnTask[t].pc # "idle")
  /\ UNCHANGED <<lrnBackend, lrnValSet, lrnRows, lrnRuns>>

\* Fair: requests are answered, training ends one way or the other.
LrnProgress ==
  \/ \E t \in LrnTasks : LrnList(t) \/ LrnClaim(t) \/ LrnToRelease(t) \/ LrnRelease(t)
                         \/ LrnBlocked(t) \/ LrnLaunch(t)
  \/ \E run \in LrnRunIds : LrnRaises(run) \/ LrnReleaseJob(run) \/ LrnFailed(run)
                            \/ \E promoted \in BOOLEAN : LrnTrained(run, promoted)

LrnNext ==
  \/ \E f \in LrnRows, sample \in {"positive", "negative", "skipped"} : LrnRecord(f, sample)
  \/ \E t \in LrnTasks, run \in LrnRunIds : LrnStart(t, run)
  \/ LrnProgress \/ LrnRestart

LrnSpec == LrnInit /\ [][LrnNext]_lrnVars

-----------------------------------------------------------------------------
(* "claim unconsumed rows for a run so samples aren't reused", on the      *)
(* single-writer backend: what a completed run trained on stays its own    *)
(* ("a completed run's dataset [is] reconstructable"), whatever later runs *)
(* claim and give back.                                                    *)
LrnCompletedKeeps ==
  [][\A f \in DOMAIN lrnRows :
       (lrnBackend = "sqlite" /\ lrnRows[f].consumed_by # None
          /\ lrnRuns[lrnRows[f].consumed_by].status = "completed")
         => lrnRows'[f].consumed_by = lrnRows[f].consumed_by]_lrnVars

(* No review is lost to training: as long as no process died, a claimed    *)
(* one belongs to a run at work or to a completed one.                     *)
LrnAtWork(run) == \/ run \in DOMAIN lrnJobs
                  \/ \E t \in LrnTasks : lrnTask[t].pc # "idle" /\ lrnTask[t].run = run
LrnNothingStranded ==
  (lrnBackend = "sqlite" /\ ~ lrnCrashed) =>
    \A f \in DOMAIN lrnRows : lrnRows[f].consumed_by # None =>
      \/ LrnAtWork(lrnRows[f].consumed_by)
      \/ lrnRuns[lrnRows[f].consumed_by].status = "completed"

(* Every run comes to one of its final statuses unless its process died,   *)
(* on either backend.                                                      *)
LrnRunEnds ==
  \A run \in LrnRunIds :
    run \in DOMAIN lrnRuns ~>
      (lrnCrashed \/ (run \in DOMAIN lrnRuns /\ lrnRuns[run].status \in {"completed", "failed", "blocked"}))

(* Runs end, what they completed with is theirs, and every other review is *)
(* there for the next run.                                                 *)
LrnReviewsAreUsedOnce ==
  /\ []LrnNothingStranded
  /\ LrnCompletedKeeps
  /\ LrnRunEnds
=============================================================================
