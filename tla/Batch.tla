------------------------------- MODULE Batch --------------------------------
(***************************************************************************)
(* Resumable batch jobs (src/src/batch.rs, driven by src/src/main.rs): a   *)
(* process renders every output, publishes them as one generation, and     *)
(* records completion in a job document of its own.  Two durable documents *)
(* are thus advanced one after the other, each under its own lock; the     *)
(* process may die or fail between any two steps, an operator may reclaim  *)
(* the generation at the same time, and competitors change the outputs.    *)
(*                                                                         *)
(* The generation is the publication that Publication specifies and        *)
(* Generation implements.  Only v3 jobs are modelled: the command line     *)
(* opens no others, and their assets are always all pending or all         *)
(* completed.  A completed asset's digest is that of the prepared file.    *)
(***************************************************************************)
EXTENDS Publication

VARIABLES
  job,        \* the job document on disk: absent, Pending or Completed
  pc,         \* where the process is
  overwrite,  \* --overwrite of this invocation
  seen,       \* the phase its unlocked inspection has found
  lock,       \* who holds the lock of the generation journal
  way,        \* what the holder is doing: publish, rollback, clean or none
  \* History, read by properties only.
  stale,      \* outputs changed since the process has last looked at them
  glitch,     \* a read of this invocation has failed
  calm        \* competitors, operators and the machine have stopped

publication == <<phase, dest, preimage, private, touched>>
process == <<pc, overwrite, seen>>
locking == <<lock, way>>
history == <<stale, glitch>>
bvars == <<publication, job, process, locking, history, calm>>

\* At resume, commit and recover the process works on the generation while it
\* holds the lock.
Locations == {"down", "reconcile", "resume", "render", "prepare", "commit",
              "recover", "inspect", "reinspect", "checkpoint", "save", "done"}

BInit ==
  /\ Init
  /\ job = "absent"
  /\ pc = "down" /\ overwrite = FALSE /\ seen = "absent"
  /\ lock = "free" /\ way = "none"
  /\ stale = {} /\ glitch = FALSE
  /\ calm = FALSE

-----------------------------------------------------------------------------
(* How a step ends. *)

Goto(l) == pc' = l /\ UNCHANGED <<overwrite, seen>>

\* An error that is returned to main; the locks are released.
Exit == pc' = "down" /\ overwrite' = FALSE /\ seen' = "absent"

Release == lock' = "free" /\ way' = "none"

Hold(w) == lock' = "batch" /\ way' = w

\* BatchJob::save: a failing save leaves the old or the new document visible.
SaveJob(s, next) ==
  \/ job' = s /\ next
  \/ ~calm /\ job' \in {job, s} /\ Exit

NoRead == UNCHANGED history

\* inspect's evidence check of a committed journal.
Valid == phase = "Committed" /\ IsNew

\* Mutant: the journal is not inspected.
InspectedNever(result) == result = FALSE /\ NoRead

\* The outcome of an inspection; a read that fails tells that it is not valid.
Inspected(result) ==
  \/ result = Valid /\ NoRead
  \/ ~calm /\ result = FALSE /\ glitch' = TRUE /\ UNCHANGED stale

-----------------------------------------------------------------------------
(* Opening the job and reconciling it with the journal. *)

\* hash_file of an output agrees with its completed entry.
HashMatches == \A m \in Members : dest[m] \in {"new", "copy"}

\* open_v3.  In the end somebody passes --overwrite.
Open(ow) ==
  LET begun == pc' = "reconcile" /\ overwrite' = ow /\ UNCHANGED seen
  IN /\ pc = "down"
     /\ calm => ow
     /\ stale' = {} /\ glitch' = FALSE
     /\ \/ /\ job = "Pending" \/ (job = "Completed" /\ HashMatches)
           /\ begun /\ UNCHANGED job
        \/ /\ job = "absent" \/ (job = "Completed" /\ ~HashMatches /\ ow)
           /\ SaveJob("Pending", begun)
        \/ /\ ~calm \/ (job = "Completed" /\ ~HashMatches /\ ~ow)
           /\ Exit /\ UNCHANGED job
     /\ UNCHANGED <<publication, locking, calm>>

\* reconcile_batch_generation up to the resume.
Reconcile ==
  LET outdated == job = "Pending" /\ phase = "Committed" /\ overwrite
  IN /\ pc = "reconcile"
     /\ \/ /\ phase = "absent" /\ job = "Completed" /\ overwrite /\ NoRead
           /\ SaveJob("Pending", pc' = "render" /\ seen' = phase /\ UNCHANGED overwrite)
        \/ /\ job = "Pending" /\ phase \in {"absent", "RolledBack"} /\ NoRead
           /\ pc' = "render" /\ seen' = phase /\ UNCHANGED <<job, overwrite>>
        \/ /\ outdated /\ Inspected(FALSE)
           /\ pc' = "render" /\ seen' = phase /\ UNCHANGED <<job, overwrite>>
        \/ /\ \/ outdated /\ Inspected(TRUE)
              \/ ~outdated /\ NoRead /\ phase # "absent"
                   /\ (job = "Completed" \/ phase # "RolledBack")
           /\ pc' = "resume" /\ seen' = phase /\ UNCHANGED <<job, overwrite>>
        \/ /\ ~calm \/ (phase = "absent" /\ job = "Completed" /\ ~overwrite)
           /\ Exit /\ UNCHANGED job /\ NoRead
     /\ UNCHANGED <<publication, locking, calm>>

-----------------------------------------------------------------------------
(* Resuming, publishing and recovering under the lock of the journal. *)

\* Where an error of resume, commit or recover leads to: a failed commit is
\* recovered, the others end, after an inspection if the generation may be
\* committed all the same.
Fails ==
  \/ pc = "commit" /\ Goto("recover")
  \/ pc = "recover" /\ Goto("reinspect")
  \/ pc = "resume" /\ seen = "Committed" /\ Goto("inspect")
  \/ pc = "resume" /\ seen # "Committed" /\ Exit

RolledBackFound ==
  \/ pc = "commit" /\ Fails
  \/ pc = "resume" /\ job = "Pending" /\ Goto("render")
  \/ pc = "resume" /\ job # "Pending" /\ Exit
  \/ pc = "recover" /\ Exit

\* resume_internal takes the lock: for reconcile_batch_generation, and again
\* for reconcile_generation_commit_result, which does not publish.
Resume ==
  /\ pc \in {"resume", "recover"}
  /\ lock # "batch"
  /\ \/ /\ lock = "free" /\ phase = "Ready" /\ IsPreimage
        /\ IF pc = "resume" THEN Goto("commit") /\ Hold("none")
                            ELSE Exit /\ UNCHANGED locking
     \/ /\ lock = "free" /\ phase = "Publishing"
        /\ Hold(IF IsNew THEN "publish" ELSE "rollback") /\ UNCHANGED process
     \/ /\ lock = "free" /\ Valid
        /\ Hold("clean") /\ UNCHANGED process
     \/ /\ lock = "free" /\ phase = "RolledBack" /\ (IsPreimage \/ touched # {})
        /\ RolledBackFound /\ UNCHANGED locking
     \/ /\ \/ ~calm \/ lock # "free" \/ phase = "absent"
           \/ phase \in {"Ready", "RolledBack"} /\ ~IsPreimage
           \/ phase = "Committed" /\ ~Valid
        /\ Fails /\ UNCHANGED locking
  /\ UNCHANGED <<publication, job, history, calm>>

\* commit up to the save of Publishing.
Commit ==
  /\ pc = "commit" /\ lock = "batch" /\ way = "none"
  /\ \/ IsPreimage /\ Begin /\ Hold("publish") /\ UNCHANGED process
     \/ ~calm /\ Begin /\ Release /\ Fails
     \/ (~calm \/ ~IsPreimage) /\ Release /\ Fails /\ UNCHANGED publication
  /\ UNCHANGED <<job, history, calm>>

\* The operation of the lock holder is over; next is the batch process's way
\* on, while a reclaim just ends.
End(next) ==
  /\ Release
  /\ IF lock = "batch" THEN next ELSE UNCHANGED process

\* A step of a publication or a recovery fails for a reason only.
MayFail == ~calm \/ touched # {}

\* One member of publish or of recover_publishing is moved.
Work ==
  /\ \E m \in Members :
       \/ way = "publish" /\ pc = "commit" /\ lock = "batch"
            /\ (BackUp(m) \/ Place(m))
       \/ way = "rollback" /\ (Take(m) \/ Restore(m))
       \/ way # "none" /\ Displace(m)
  /\ UNCHANGED <<job, process, locking, history, calm>>

\* A member cannot be published: rollback_internal.
TurnBack ==
  /\ way = "publish" /\ pc = "commit" /\ lock = "batch"
  /\ phase = "Publishing"
  /\ MayFail
  /\ way' = "rollback"
  /\ UNCHANGED <<publication, job, process, lock, history, calm>>

\* The last save of a publication or a complete recovery, before or after
\* whose effect it may fail.
FinishPublish ==
  /\ way = "publish" /\ SaveCommitted
  /\ \/ way' = "clean" /\ UNCHANGED <<process, lock>>
     \/ ~calm /\ End(Fails)
  /\ UNCHANGED <<job, history, calm>>

FinishRollback ==
  /\ way = "rollback" /\ SaveRolledBack
  /\ \/ End(RolledBackFound)
     \/ ~calm /\ End(Fails)
  /\ UNCHANGED <<job, history, calm>>

\* cleanup_committed_backups.
CleanBackups ==
  /\ way = "clean"
  /\ Clean \/ (~private /\ UNCHANGED publication)
  /\ End(Goto("checkpoint"))
  /\ UNCHANGED <<job, history, calm>>

\* Any step of the operation returns an error.
WorkFails ==
  /\ way # "none"
  /\ MayFail
  /\ End(Fails)
  /\ UNCHANGED <<publication, job, history, calm>>

\* Mutant: the job is rebuilt without being reset.
InspectKeepsJob ==
  /\ pc = "inspect"
  /\ \/ Inspected(TRUE) /\ Goto("checkpoint")
     \/ /\ Inspected(FALSE)
        /\ IF overwrite /\ job = "Completed" THEN Goto("render") ELSE Exit
  /\ UNCHANGED <<publication, job, locking, calm>>

\* inspect after a failed resume of a committed journal.
Inspect ==
  /\ pc = "inspect"
  /\ \/ Inspected(TRUE) /\ Goto("checkpoint") /\ UNCHANGED job
     \/ /\ Inspected(FALSE)
        /\ IF overwrite /\ job = "Completed"
             THEN SaveJob("Pending", Goto("render"))
             ELSE Exit /\ UNCHANGED job
  /\ UNCHANGED <<publication, locking, calm>>

\* inspect after a failed recovery of a failed commit.
Reinspect ==
  /\ pc = "reinspect"
  /\ \/ Inspected(TRUE) /\ Goto("checkpoint")
     \/ Inspected(FALSE) /\ Exit
  /\ UNCHANGED <<publication, job, locking, calm>>

-----------------------------------------------------------------------------
(* Completion. *)

\* Mutant: the live outputs are not verified.
CheckpointUnverified ==
  /\ pc = "checkpoint"
  /\ stale' = {} /\ UNCHANGED glitch
  /\ Goto(IF job = "Completed" THEN "done" ELSE "save")
  /\ UNCHANGED <<publication, job, locking, calm>>

\* mark_generation_completed_with_evidence up to its save.
Checkpoint ==
  /\ pc = "checkpoint"
  /\ stale' = {} /\ UNCHANGED glitch
  /\ \/ IsNew /\ Goto(IF job = "Completed" THEN "done" ELSE "save")
     \/ (~calm \/ ~IsNew) /\ Exit
  /\ UNCHANGED <<publication, job, locking, calm>>

\* Completion is announced even if the save fails: the outputs are committed.
SaveCompleted ==
  /\ pc = "save"
  /\ \/ job' = "Completed"
     \/ ~calm /\ UNCHANGED job
  /\ Goto("done")
  /\ UNCHANGED <<publication, locking, history, calm>>

Finish ==
  /\ pc = "done"
  /\ Exit
  /\ UNCHANGED <<publication, job, locking, history, calm>>

-----------------------------------------------------------------------------
(* A new generation. *)

\* validate_outputs, and the staging of every output with what its
\* destination holds then.
Render ==
  /\ pc = "render"
  /\ stale' = {} /\ UNCHANGED glitch
  /\ \/ /\ overwrite \/ \A m \in Members : dest[m] = "none"
        /\ Goto("prepare")
     \/ /\ ~calm \/ ~overwrite
        /\ Exit
  /\ UNCHANGED <<publication, job, locking, calm>>

\* Mutant: destinations are not compared with what they held at staging.
PrepareBatchUnchecked ==
  /\ pc = "prepare"
  /\ lock = "free" /\ Prepare /\ Goto("commit") /\ Hold("none")
  /\ UNCHANGED <<job, history, calm>>

\* Mutant: a terminal journal is not replaced.
PrepareBatchOnce ==
  /\ pc = "prepare"
  /\ \/ /\ lock = "free" /\ stale = {} /\ phase = "absent"
        /\ Prepare /\ Goto("commit") /\ Hold("none")
     \/ /\ ~calm \/ lock # "free" \/ stale # {} \/ phase # "absent"
        /\ Exit /\ UNCHANGED <<publication, locking>>
  /\ UNCHANGED <<job, history, calm>>

\* commit_batch_generation: prepare or prepare_replacing_terminal.
PrepareBatch ==
  /\ pc = "prepare"
  /\ \/ lock = "free" /\ stale = {} /\ Prepare /\ Goto("commit") /\ Hold("none")
     \/ ~calm /\ lock = "free" /\ stale = {} /\ Prepare /\ Exit /\ UNCHANGED locking
     \/ /\ ~calm \/ lock # "free" \/ stale # {} \/ phase \in Unfinished \/ private
        /\ Exit /\ UNCHANGED <<publication, locking>>
  /\ UNCHANGED <<job, history, calm>>

-----------------------------------------------------------------------------
(* The environment. *)

\* forge recovery reclaim, in another process.
Reclaim ==
  /\ ~calm
  /\ lock = "free"
  /\ lock' = "reclaim"
  /\ \/ Begin /\ way' = "rollback"
     \/ /\ phase = "Publishing"
        /\ way' = IF IsNew THEN "publish" ELSE "rollback"
        /\ UNCHANGED publication
     \/ Valid /\ private /\ way' = "clean" /\ UNCHANGED publication
  /\ UNCHANGED <<job, process, history, calm>>

Crash ==
  /\ ~calm
  /\ pc # "down"
  /\ Exit
  /\ IF lock = "batch" THEN Release ELSE UNCHANGED locking
  /\ UNCHANGED <<publication, job, history, calm>>

CompeteWith(m) ==
  /\ ~calm
  /\ Compete(m)
  /\ stale' = stale \cup {m}
  /\ UNCHANGED <<job, process, locking, glitch, calm>>

\* The journal of a generation that is over disappears, and its backups.
Forget ==
  /\ phase \in {"Committed", "RolledBack"}
  /\ phase' = "absent" /\ private' = FALSE
  /\ UNCHANGED <<dest, preimage, touched>>

\* Somebody deletes a document that nobody is using.
Lose ==
  /\ ~calm
  /\ \/ pc = "down" /\ job' = "absent" /\ UNCHANGED publication
     \/ lock = "free" /\ Forget /\ UNCHANGED job
  /\ UNCHANGED <<process, locking, history, calm>>

Settle ==
  /\ ~calm
  /\ calm' = TRUE
  /\ UNCHANGED <<publication, job, process, locking, history>>

-----------------------------------------------------------------------------

Holder ==
  Work \/ TurnBack \/ FinishPublish \/ FinishRollback \/ CleanBackups \/ WorkFails

Process ==
  \/ \E ow \in BOOLEAN : Open(ow)
  \/ Reconcile \/ Resume \/ Commit \/ Inspect \/ Reinspect
  \/ Checkpoint \/ SaveCompleted \/ Finish \/ Render \/ PrepareBatch

BNext ==
  \/ Process \/ Holder
  \/ Reclaim \/ Crash \/ Lose \/ Settle
  \/ \E m \in Members : CompeteWith(m)

BSpec == BInit /\ [][BNext]_bvars

\* Every process that runs goes on, and the command is repeated.
FairSpec == BSpec /\ WF_bvars(Process) /\ WF_bvars(Holder)

-----------------------------------------------------------------------------
(* Properties. *)

\* The variables have their types, and a lock has a holder that is at work.
TypeOK ==
  /\ phase \in Phases
  /\ dest \in [Members -> Files]
  /\ preimage \subseteq Members
  /\ private \in BOOLEAN
  /\ touched \subseteq Members
  /\ job \in {"absent", "Pending", "Completed"}
  /\ pc \in Locations
  /\ overwrite \in BOOLEAN
  /\ seen \in Phases
  /\ lock \in {"free", "batch", "reclaim"}
  /\ way \in {"none", "publish", "rollback", "clean"}
  /\ stale \subseteq Members
  /\ glitch \in BOOLEAN
  /\ calm \in BOOLEAN
  /\ lock = "free" => way = "none"
  /\ lock = "batch" => pc \in {"resume", "commit", "recover"}

\* The two documents never contradict each other: whatever failed, died or was
\* reclaimed between their saves, a completed job has no generation journal
\* that is unfinished or rolled back.
CompletedMeansCommitted ==
  job = "Completed" => phase \in {"Committed", "absent"}

\* Completion is recorded and announced only for outputs that the process has
\* seen to be the published ones; what a competitor changed after that look is
\* all that may differ.
AnnouncedIsVerified ==
  [][\/ job' = "Completed" /\ job # "Completed"
     \/ pc' = "done" /\ pc # "done"
     => \A m \in Members \ stale : dest'[m] = "new"]_bvars

NewGeneration == phase' = "Ready" /\ phase # "Ready"

\* A file that exists is scheduled for replacement only by an invocation with
\* --overwrite, even if it appeared after the outputs were checked.
OnlyOverwriteReplaces ==
  [][NewGeneration /\ preimage' # {} => overwrite]_bvars

\* A committed generation whose outputs stand is published again neither by a
\* crash before its checkpoint nor by --overwrite, unless a read failed.
IntactIsNotRebuilt ==
  [][NewGeneration /\ phase = "Committed" => ~IsNew \/ glitch]_bvars

\* However the process, an operator and competitors take turns, what happens to
\* the outputs is a publication as Publication specifies it, or one after
\* another: nobody moves an output without a journal that says Publishing, and
\* none is moved out of turn.
KeepsToPublication == Init /\ [][Next \/ Forget]_vars

\* What no repetition of the command resolves: a journal that is Ready on
\* outputs that have changed (reclaim does), an interrupted publication whose
\* evidence was disturbed, and a committed one whose outputs were changed
\* before its backups were removed.
Wedged ==
  \/ phase = "Ready" /\ ~IsPreimage
  \/ phase = "Publishing" /\ touched # {}
  \/ phase = "Committed" /\ private /\ ~IsNew

\* Once the environment is calm, repeating the command with --overwrite
\* completes the job, wherever both documents were left.
Completes == calm ~> [](job = "Completed" \/ Wedged)

=============================================================================
