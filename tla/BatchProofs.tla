---------------------------- MODULE BatchProofs -----------------------------
(***************************************************************************)
(* Proofs about Batch, for any set of outputs.  The two documents agree    *)
(* because of what the lock holder and the process know about the journal  *)
(* at every point, although most of it was read without the lock.          *)
(***************************************************************************)
EXTENDS Batch, TLAPS

-----------------------------------------------------------------------------
(* The inductive invariant. *)

\* The holder of the lock works on a journal of the phase it has found.
HolderKnows ==
  /\ way \in {"publish", "rollback"} => phase = "Publishing"
  /\ way = "clean" => phase = "Committed"
  /\ pc = "commit" => lock = "batch"
  /\ lock = "batch" /\ way = "none" => pc = "commit" /\ phase = "Ready"

\* A new generation is rendered only for a job that is not completed and
\* without a journal in flight; a job is completed only on a journal that is
\* committed, or was and has been deleted since.
ProcessKnows ==
  /\ pc \in {"render", "prepare"} => job # "Completed" /\ phase \notin Unfinished
  /\ pc \in {"checkpoint", "save"} => phase \in {"Committed", "absent"}

\* What is known of the outputs without holding any lock.
OutputsKnown ==
  /\ pc = "prepare" => overwrite \/ \A m \in Members \ stale : dest[m] = "none"
  /\ pc = "save" => \A m \in Members \ stale : dest[m] = "new"
  /\ pc \in {"render", "prepare"} /\ phase = "Committed" => ~IsNew \/ glitch

IInv ==
  /\ TypeOK
  /\ CompletedMeansCommitted
  /\ HolderKnows
  /\ ProcessKnows
  /\ OutputsKnown

-----------------------------------------------------------------------------

USE DEF Phases, Unfinished, Foreign, Files, Locations

\* The initial states satisfy the inductive invariant.
LEMMA InitIInv == BInit => IInv
BY DEF BInit, Init, IInv, TypeOK, CompletedMeansCommitted, HolderKnows, ProcessKnows, OutputsKnown

\* Opening the job preserves the invariant.
LEMMA OpenIInv ==
  ASSUME IInv, NEW ow \in BOOLEAN, Open(ow)
  PROVE  IInv'
<1> USE DEF IInv, TypeOK, Open, SaveJob, Exit, HashMatches, publication, process, locking, history
<1>1. TypeOK'
  <2>1. /\ phase' \in Phases /\ dest' \in [Members -> Files] /\ preimage' \subseteq Members
        /\ private' \in BOOLEAN /\ touched' \subseteq Members
    OBVIOUS
  <2>2. /\ job' \in {"absent", "Pending", "Completed"} /\ pc' \in Locations
        /\ overwrite' \in BOOLEAN /\ seen' \in Phases
    OBVIOUS
  <2>3. /\ lock' \in {"free", "batch", "reclaim"}
        /\ way' \in {"none", "publish", "rollback", "clean"}
        /\ lock' = "free" => way' = "none"
        /\ lock' = "batch" => pc' \in {"resume", "commit", "recover"}
    BY DEF HolderKnows
  <2>4. stale' \subseteq Members /\ glitch' \in BOOLEAN /\ calm' \in BOOLEAN
    OBVIOUS
  <2> QED
    BY <2>1, <2>2, <2>3, <2>4
<1>2. CompletedMeansCommitted'
  BY DEF CompletedMeansCommitted, HolderKnows, ProcessKnows
<1>3. HolderKnows'
  BY DEF HolderKnows, ProcessKnows
<1>4. ProcessKnows'
  BY DEF ProcessKnows, CompletedMeansCommitted, HolderKnows
<1>5. OutputsKnown'
  BY DEF OutputsKnown, ProcessKnows, HolderKnows, IsNew
<1> QED
  BY <1>1, <1>2, <1>3, <1>4, <1>5

\* Reconciling the two documents preserves the invariant.
LEMMA ReconcileIInv == IInv /\ Reconcile => IInv'
<1> SUFFICES ASSUME IInv, Reconcile PROVE IInv'
  OBVIOUS
<1> USE DEF IInv, TypeOK, Reconcile, SaveJob, Exit, Inspected, Valid, NoRead, publication, process, locking, history
<1>1. TypeOK'
  <2>1. /\ phase' \in Phases /\ dest' \in [Members -> Files] /\ preimage' \subseteq Members
        /\ private' \in BOOLEAN /\ touched' \subseteq Members
    OBVIOUS
  <2>2. /\ job' \in {"absent", "Pending", "Completed"} /\ pc' \in Locations
        /\ overwrite' \in BOOLEAN /\ seen' \in Phases
    OBVIOUS
  <2>3. /\ lock' \in {"free", "batch", "reclaim"}
        /\ way' \in {"none", "publish", "rollback", "clean"}
        /\ lock' = "free" => way' = "none"
        /\ lock' = "batch" => pc' \in {"resume", "commit", "recover"}
    BY DEF HolderKnows
  <2>4. stale' \subseteq Members /\ glitch' \in BOOLEAN /\ calm' \in BOOLEAN
    OBVIOUS
  <2> QED
    BY <2>1, <2>2, <2>3, <2>4
<1>2. CompletedMeansCommitted'
  BY DEF CompletedMeansCommitted, HolderKnows, ProcessKnows
<1>3. HolderKnows'
  BY DEF HolderKnows, ProcessKnows
<1>4. ProcessKnows'
  BY DEF ProcessKnows, CompletedMeansCommitted, HolderKnows
<1>5. OutputsKnown'
  BY DEF OutputsKnown, ProcessKnows, HolderKnows, IsNew
<1> QED
  BY <1>1, <1>2, <1>3, <1>4, <1>5

\* Resuming or recovering preserves the invariant.
LEMMA ResumeIInv == IInv /\ Resume => IInv'
<1> SUFFICES ASSUME IInv, Resume PROVE IInv'
  OBVIOUS
<1> USE DEF IInv, TypeOK, Resume, Hold, Goto, Exit, Fails, RolledBackFound, Valid, publication, process, locking, history
<1>1. TypeOK'
  <2>1. /\ phase' \in Phases /\ dest' \in [Members -> Files] /\ preimage' \subseteq Members
        /\ private' \in BOOLEAN /\ touched' \subseteq Members
    OBVIOUS
  <2>2. /\ job' \in {"absent", "Pending", "Completed"} /\ pc' \in Locations
        /\ overwrite' \in BOOLEAN /\ seen' \in Phases
    OBVIOUS
  <2>3. /\ lock' \in {"free", "batch", "reclaim"}
        /\ way' \in {"none", "publish", "rollback", "clean"}
        /\ lock' = "free" => way' = "none"
        /\ lock' = "batch" => pc' \in {"resume", "commit", "recover"}
    OBVIOUS
  <2>4. stale' \subseteq Members /\ glitch' \in BOOLEAN /\ calm' \in BOOLEAN
    OBVIOUS
  <2> QED
    BY <2>1, <2>2, <2>3, <2>4
<1>2. CompletedMeansCommitted'
  BY DEF CompletedMeansCommitted, HolderKnows, ProcessKnows
<1>3. HolderKnows'
  BY DEF HolderKnows, ProcessKnows
<1>4. ProcessKnows'
  BY DEF ProcessKnows, CompletedMeansCommitted, HolderKnows
<1>5. OutputsKnown'
  BY DEF OutputsKnown, ProcessKnows, HolderKnows, IsNew
<1> QED
  BY <1>1, <1>2, <1>3, <1>4, <1>5

\* Beginning a publication preserves the invariant.
LEMMA CommitIInv == IInv /\ Commit => IInv'
<1> SUFFICES ASSUME IInv, Commit PROVE IInv'
  OBVIOUS
<1> USE DEF IInv, TypeOK, Commit, Begin, Hold, Release, Goto, Exit, Fails, publication, process, locking, history
<1>1. TypeOK'
  <2>1. /\ phase' \in Phases /\ dest' \in [Members -> Files] /\ preimage' \subseteq Members
        /\ private' \in BOOLEAN /\ touched' \subseteq Members
    OBVIOUS
  <2>2. /\ job' \in {"absent", "Pending", "Completed"} /\ pc' \in Locations
        /\ overwrite' \in BOOLEAN /\ seen' \in Phases
    OBVIOUS
  <2>3. /\ lock' \in {"free", "batch", "reclaim"}
        /\ way' \in {"none", "publish", "rollback", "clean"}
        /\ lock' = "free" => way' = "none"
        /\ lock' = "batch" => pc' \in {"resume", "commit", "recover"}
    BY DEF HolderKnows
  <2>4. stale' \subseteq Members /\ glitch' \in BOOLEAN /\ calm' \in BOOLEAN
    OBVIOUS
  <2> QED
    BY <2>1, <2>2, <2>3, <2>4
<1>2. CompletedMeansCommitted'
  BY DEF CompletedMeansCommitted, HolderKnows, ProcessKnows
<1>3. HolderKnows'
  BY DEF HolderKnows, ProcessKnows
<1>4. ProcessKnows'
  BY DEF ProcessKnows, CompletedMeansCommitted, HolderKnows
<1>5. OutputsKnown'
  BY DEF OutputsKnown, ProcessKnows, HolderKnows, IsNew
<1> QED
  BY <1>1, <1>2, <1>3, <1>4, <1>5

\* Inspecting after a failed resume preserves the invariant.
LEMMA InspectIInv == IInv /\ Inspect => IInv'
<1> SUFFICES ASSUME IInv, Inspect PROVE IInv'
  OBVIOUS
<1> USE DEF IInv, TypeOK, Inspect, Inspected, Valid, NoRead, Goto, Exit, SaveJob, publication, process, locking, history
<1>1. TypeOK'
  <2>1. /\ phase' \in Phases /\ dest' \in [Members -> Files] /\ preimage' \subseteq Members
        /\ private' \in BOOLEAN /\ touched' \subseteq Members
    OBVIOUS
  <2>2. /\ job' \in {"absent", "Pending", "Completed"} /\ pc' \in Locations
        /\ overwrite' \in BOOLEAN /\ seen' \in Phases
    OBVIOUS
  <2>3. /\ lock' \in {"free", "batch", "reclaim"}
        /\ way' \in {"none", "publish", "rollback", "clean"}
        /\ lock' = "free" => way' = "none"
        /\ lock' = "batch" => pc' \in {"resume", "commit", "recover"}
    OBVIOUS
  <2>4. stale' \subseteq Members /\ glitch' \in BOOLEAN /\ calm' \in BOOLEAN
    OBVIOUS
  <2> QED
    BY <2>1, <2>2, <2>3, <2>4
<1>2. CompletedMeansCommitted'
  BY DEF CompletedMeansCommitted, HolderKnows, ProcessKnows
<1>3. HolderKnows'
  BY DEF HolderKnows, ProcessKnows
<1>4. ProcessKnows'
  BY DEF ProcessKnows, CompletedMeansCommitted, HolderKnows
<1>5. OutputsKnown'
  BY DEF OutputsKnown, ProcessKnows, HolderKnows, IsNew
<1> QED
  BY <1>1, <1>2, <1>3, <1>4, <1>5

\* Inspecting after a failed recovery preserves the invariant.
LEMMA ReinspectIInv == IInv /\ Reinspect => IInv'
<1> SUFFICES ASSUME IInv, Reinspect PROVE IInv'
  OBVIOUS
<1> USE DEF IInv, TypeOK, Reinspect, Inspected, Valid, NoRead, Goto, Exit, publication, process, locking, history
<1>1. TypeOK'
  <2>1. /\ phase' \in Phases /\ dest' \in [Members -> Files] /\ preimage' \subseteq Members
        /\ private' \in BOOLEAN /\ touched' \subseteq Members
    OBVIOUS
  <2>2. /\ job' \in {"absent", "Pending", "Completed"} /\ pc' \in Locations
        /\ overwrite' \in BOOLEAN /\ seen' \in Phases
    OBVIOUS
  <2>3. /\ lock' \in {"free", "batch", "reclaim"}
        /\ way' \in {"none", "publish", "rollback", "clean"}
        /\ lock' = "free" => way' = "none"
        /\ lock' = "batch" => pc' \in {"resume", "commit", "recover"}
    BY DEF HolderKnows
  <2>4. stale' \subseteq Members /\ glitch' \in BOOLEAN /\ calm' \in BOOLEAN
    OBVIOUS
  <2> QED
    BY <2>1, <2>2, <2>3, <2>4
<1>2. CompletedMeansCommitted'
  BY DEF CompletedMeansCommitted, HolderKnows, ProcessKnows
<1>3. HolderKnows'
  BY DEF HolderKnows, ProcessKnows
<1>4. ProcessKnows'
  BY DEF ProcessKnows, CompletedMeansCommitted, HolderKnows
<1>5. OutputsKnown'
  BY DEF OutputsKnown, ProcessKnows, HolderKnows, IsNew
<1> QED
  BY <1>1, <1>2, <1>3, <1>4, <1>5

\* Verifying the outputs preserves the invariant.
LEMMA CheckpointIInv == IInv /\ Checkpoint => IInv'
<1> SUFFICES ASSUME IInv, Checkpoint PROVE IInv'
  OBVIOUS
<1> USE DEF IInv, TypeOK, Checkpoint, Goto, Exit, publication, process, locking, history
<1>1. TypeOK'
  <2>1. /\ phase' \in Phases /\ dest' \in [Members -> Files] /\ preimage' \subseteq Members
        /\ private' \in BOOLEAN /\ touched' \subseteq Members
    OBVIOUS
  <2>2. /\ job' \in {"absent", "Pending", "Completed"} /\ pc' \in Locations
        /\ overwrite' \in BOOLEAN /\ seen' \in Phases
    OBVIOUS
  <2>3. /\ lock' \in {"free", "batch", "reclaim"}
        /\ way' \in {"none", "publish", "rollback", "clean"}
        /\ lock' = "free" => way' = "none"
        /\ lock' = "batch" => pc' \in {"resume", "commit", "recover"}
    OBVIOUS
  <2>4. stale' \subseteq Members /\ glitch' \in BOOLEAN /\ calm' \in BOOLEAN
    OBVIOUS
  <2> QED
    BY <2>1, <2>2, <2>3, <2>4
<1>2. CompletedMeansCommitted'
  BY DEF CompletedMeansCommitted, HolderKnows, ProcessKnows
<1>3. HolderKnows'
  BY DEF HolderKnows, ProcessKnows
<1>4. ProcessKnows'
  BY DEF ProcessKnows, CompletedMeansCommitted, HolderKnows
<1>5. OutputsKnown'
  BY DEF OutputsKnown, ProcessKnows, HolderKnows, IsNew
<1> QED
  BY <1>1, <1>2, <1>3, <1>4, <1>5

\* Saving completion preserves the invariant.
LEMMA SaveCompletedIInv == IInv /\ SaveCompleted => IInv'
<1> SUFFICES ASSUME IInv, SaveCompleted PROVE IInv'
  OBVIOUS
<1> USE DEF IInv, TypeOK, SaveCompleted, Goto, publication, process, locking, history
<1>1. TypeOK'
  BY DEF HolderKnows
<1>2. CompletedMeansCommitted'
  BY DEF CompletedMeansCommitted, HolderKnows, ProcessKnows
<1>3. HolderKnows'
  BY DEF HolderKnows, ProcessKnows
<1>4. ProcessKnows'
  BY DEF ProcessKnows, CompletedMeansCommitted, HolderKnows
<1>5. OutputsKnown'
  BY DEF OutputsKnown, ProcessKnows, HolderKnows, IsNew
<1> QED
  BY <1>1, <1>2, <1>3, <1>4, <1>5

\* The end of an invocation preserves the invariant.
LEMMA FinishIInv == IInv /\ Finish => IInv'
<1> SUFFICES ASSUME IInv, Finish PROVE IInv'
  OBVIOUS
<1> USE DEF IInv, TypeOK, Finish, Exit, publication, process, locking, history
<1>1. TypeOK'
  BY DEF HolderKnows
<1>2. CompletedMeansCommitted'
  BY DEF CompletedMeansCommitted, HolderKnows, ProcessKnows
<1>3. HolderKnows'
  BY DEF HolderKnows, ProcessKnows
<1>4. ProcessKnows'
  BY DEF ProcessKnows, CompletedMeansCommitted, HolderKnows
<1>5. OutputsKnown'
  BY DEF OutputsKnown, ProcessKnows, HolderKnows, IsNew
<1> QED
  BY <1>1, <1>2, <1>3, <1>4, <1>5

\* Rendering preserves the invariant.
LEMMA RenderIInv == IInv /\ Render => IInv'
<1> SUFFICES ASSUME IInv, Render PROVE IInv'
  OBVIOUS
<1> USE DEF IInv, TypeOK, Render, Goto, Exit, publication, process, locking, history
<1>1. TypeOK'
  <2>1. /\ phase' \in Phases /\ dest' \in [Members -> Files] /\ preimage' \subseteq Members
        /\ private' \in BOOLEAN /\ touched' \subseteq Members
    OBVIOUS
  <2>2. /\ job' \in {"absent", "Pending", "Completed"} /\ pc' \in Locations
        /\ overwrite' \in BOOLEAN /\ seen' \in Phases
    OBVIOUS
  <2>3. /\ lock' \in {"free", "batch", "reclaim"}
        /\ way' \in {"none", "publish", "rollback", "clean"}
        /\ lock' = "free" => way' = "none"
        /\ lock' = "batch" => pc' \in {"resume", "commit", "recover"}
    OBVIOUS
  <2>4. stale' \subseteq Members /\ glitch' \in BOOLEAN /\ calm' \in BOOLEAN
    OBVIOUS
  <2> QED
    BY <2>1, <2>2, <2>3, <2>4
<1>2. CompletedMeansCommitted'
  BY DEF CompletedMeansCommitted, HolderKnows, ProcessKnows
<1>3. HolderKnows'
  BY DEF HolderKnows, ProcessKnows
<1>4. ProcessKnows'
  BY DEF ProcessKnows, CompletedMeansCommitted, HolderKnows
<1>5. OutputsKnown'
  BY DEF OutputsKnown, ProcessKnows, HolderKnows, IsNew
<1> QED
  BY <1>1, <1>2, <1>3, <1>4, <1>5

\* Preparing a generation preserves the invariant.
LEMMA PrepareBatchIInv == IInv /\ PrepareBatch => IInv'
<1> SUFFICES ASSUME IInv, PrepareBatch PROVE IInv'
  OBVIOUS
<1> USE DEF IInv, TypeOK, PrepareBatch, Prepare, Hold, Goto, Exit, publication, process, locking, history
<1>1. TypeOK'
  BY DEF HolderKnows
<1>2. CompletedMeansCommitted'
  BY DEF CompletedMeansCommitted, HolderKnows, ProcessKnows
<1>3. HolderKnows'
  BY DEF HolderKnows, ProcessKnows
<1>4. ProcessKnows'
  BY DEF ProcessKnows, CompletedMeansCommitted, HolderKnows
<1>5. OutputsKnown'
  BY DEF OutputsKnown, ProcessKnows, HolderKnows, IsNew
<1> QED
  BY <1>1, <1>2, <1>3, <1>4, <1>5

\* Moving a member preserves the invariant.
LEMMA WorkIInv == IInv /\ Work => IInv'
<1> SUFFICES ASSUME IInv, Work PROVE IInv'
  OBVIOUS
<1> USE DEF IInv, TypeOK, Work, BackUp, Place, Take, Restore, Displace, Move, publication, process, locking, history
<1>1. TypeOK'
  BY DEF HolderKnows
<1>2. CompletedMeansCommitted'
  BY DEF CompletedMeansCommitted, HolderKnows, ProcessKnows
<1>3. HolderKnows'
  BY DEF HolderKnows, ProcessKnows
<1>4. ProcessKnows'
  BY DEF ProcessKnows, CompletedMeansCommitted, HolderKnows
<1>5. OutputsKnown'
  BY DEF OutputsKnown, ProcessKnows, HolderKnows, IsNew
<1> QED
  BY <1>1, <1>2, <1>3, <1>4, <1>5

\* Turning back preserves the invariant.
LEMMA TurnBackIInv == IInv /\ TurnBack => IInv'
<1> SUFFICES ASSUME IInv, TurnBack PROVE IInv'
  OBVIOUS
<1> USE DEF IInv, TypeOK, TurnBack, publication, process, locking, history
<1>1. TypeOK'
  BY DEF HolderKnows
<1>2. CompletedMeansCommitted'
  BY DEF CompletedMeansCommitted, HolderKnows, ProcessKnows
<1>3. HolderKnows'
  BY DEF HolderKnows, ProcessKnows
<1>4. ProcessKnows'
  BY DEF ProcessKnows, CompletedMeansCommitted, HolderKnows
<1>5. OutputsKnown'
  BY DEF OutputsKnown, ProcessKnows, HolderKnows, IsNew
<1> QED
  BY <1>1, <1>2, <1>3, <1>4, <1>5

\* Committing the journal preserves the invariant.
LEMMA FinishPublishIInv == IInv /\ FinishPublish => IInv'
<1> SUFFICES ASSUME IInv, FinishPublish PROVE IInv'
  OBVIOUS
<1> USE DEF IInv, TypeOK, FinishPublish, SaveCommitted, End, Release, Goto, Exit, Fails, publication, process, locking, history
<1>1. TypeOK'
  BY DEF HolderKnows
<1>2. CompletedMeansCommitted'
  BY DEF CompletedMeansCommitted, HolderKnows, ProcessKnows
<1>3. HolderKnows'
  BY DEF HolderKnows, ProcessKnows
<1>4. ProcessKnows'
  BY DEF ProcessKnows, CompletedMeansCommitted, HolderKnows
<1>5. OutputsKnown'
  BY DEF OutputsKnown, ProcessKnows, HolderKnows, IsNew
<1> QED
  BY <1>1, <1>2, <1>3, <1>4, <1>5

\* Ending a rollback preserves the invariant.
LEMMA FinishRollbackIInv == IInv /\ FinishRollback => IInv'
<1> SUFFICES ASSUME IInv, FinishRollback PROVE IInv'
  OBVIOUS
<1> USE DEF IInv, TypeOK, FinishRollback, SaveRolledBack, End, Release, Goto, Exit, Fails, RolledBackFound, publication, process, locking, history
<1>1. TypeOK'
  BY DEF HolderKnows
<1>2. CompletedMeansCommitted'
  BY DEF CompletedMeansCommitted, HolderKnows, ProcessKnows
<1>3. HolderKnows'
  BY DEF HolderKnows, ProcessKnows
<1>4. ProcessKnows'
  BY DEF ProcessKnows, CompletedMeansCommitted, HolderKnows
<1>5. OutputsKnown'
  BY DEF OutputsKnown, ProcessKnows, HolderKnows, IsNew
<1> QED
  BY <1>1, <1>2, <1>3, <1>4, <1>5

\* Removing backups preserves the invariant.
LEMMA CleanBackupsIInv == IInv /\ CleanBackups => IInv'
<1> SUFFICES ASSUME IInv, CleanBackups PROVE IInv'
  OBVIOUS
<1> USE DEF IInv, TypeOK, CleanBackups, Clean, End, Release, Goto, publication, process, locking, history
<1>1. TypeOK'
  <2>1. /\ phase' \in Phases /\ dest' \in [Members -> Files] /\ preimage' \subseteq Members
        /\ private' \in BOOLEAN /\ touched' \subseteq Members
    OBVIOUS
  <2>2. /\ job' \in {"absent", "Pending", "Completed"} /\ pc' \in Locations
        /\ overwrite' \in BOOLEAN /\ seen' \in Phases
    OBVIOUS
  <2>3. /\ lock' \in {"free", "batch", "reclaim"}
        /\ way' \in {"none", "publish", "rollback", "clean"}
        /\ lock' = "free" => way' = "none"
        /\ lock' = "batch" => pc' \in {"resume", "commit", "recover"}
    OBVIOUS
  <2>4. stale' \subseteq Members /\ glitch' \in BOOLEAN /\ calm' \in BOOLEAN
    OBVIOUS
  <2> QED
    BY <2>1, <2>2, <2>3, <2>4
<1>2. CompletedMeansCommitted'
  BY DEF CompletedMeansCommitted, HolderKnows, ProcessKnows
<1>3. HolderKnows'
  BY DEF HolderKnows, ProcessKnows
<1>4. ProcessKnows'
  BY DEF ProcessKnows, CompletedMeansCommitted, HolderKnows
<1>5. OutputsKnown'
  BY DEF OutputsKnown, ProcessKnows, HolderKnows, IsNew
<1> QED
  BY <1>1, <1>2, <1>3, <1>4, <1>5

\* An error under the lock preserves the invariant.
LEMMA WorkFailsIInv == IInv /\ WorkFails => IInv'
<1> SUFFICES ASSUME IInv, WorkFails PROVE IInv'
  OBVIOUS
<1> USE DEF IInv, TypeOK, WorkFails, End, Release, Goto, Exit, Fails, publication, process, locking, history
<1>1. TypeOK'
  <2>1. /\ phase' \in Phases /\ dest' \in [Members -> Files] /\ preimage' \subseteq Members
        /\ private' \in BOOLEAN /\ touched' \subseteq Members
    OBVIOUS
  <2>2. /\ job' \in {"absent", "Pending", "Completed"} /\ pc' \in Locations
        /\ overwrite' \in BOOLEAN /\ seen' \in Phases
    OBVIOUS
  <2>3. /\ lock' \in {"free", "batch", "reclaim"}
        /\ way' \in {"none", "publish", "rollback", "clean"}
        /\ lock' = "free" => way' = "none"
        /\ lock' = "batch" => pc' \in {"resume", "commit", "recover"}
    OBVIOUS
  <2>4. stale' \subseteq Members /\ glitch' \in BOOLEAN /\ calm' \in BOOLEAN
    OBVIOUS
  <2> QED
    BY <2>1, <2>2, <2>3, <2>4
<1>2. CompletedMeansCommitted'
  BY DEF CompletedMeansCommitted, HolderKnows, ProcessKnows
<1>3. HolderKnows'
  BY DEF HolderKnows, ProcessKnows
<1>4. ProcessKnows'
  BY DEF ProcessKnows, CompletedMeansCommitted, HolderKnows
<1>5. OutputsKnown'
  BY DEF OutputsKnown, ProcessKnows, HolderKnows, IsNew
<1> QED
  BY <1>1, <1>2, <1>3, <1>4, <1>5

\* A reclaim by an operator preserves the invariant.
LEMMA ReclaimIInv == IInv /\ Reclaim => IInv'
<1> SUFFICES ASSUME IInv, Reclaim PROVE IInv'
  OBVIOUS
<1> USE DEF IInv, TypeOK, Reclaim, Begin, Valid, publication, process, locking, history
<1>1. TypeOK'
  BY DEF HolderKnows
<1>2. CompletedMeansCommitted'
  BY DEF CompletedMeansCommitted, HolderKnows, ProcessKnows
<1>3. HolderKnows'
  BY DEF HolderKnows, ProcessKnows
<1>4. ProcessKnows'
  BY DEF ProcessKnows, CompletedMeansCommitted, HolderKnows
<1>5. OutputsKnown'
  BY DEF OutputsKnown, ProcessKnows, HolderKnows, IsNew
<1> QED
  BY <1>1, <1>2, <1>3, <1>4, <1>5

\* The death of the process preserves the invariant.
LEMMA CrashIInv == IInv /\ Crash => IInv'
<1> SUFFICES ASSUME IInv, Crash PROVE IInv'
  OBVIOUS
<1> USE DEF IInv, TypeOK, Crash, Exit, Release, publication, process, locking, history
<1>1. TypeOK'
  BY DEF HolderKnows
<1>2. CompletedMeansCommitted'
  BY DEF CompletedMeansCommitted, HolderKnows, ProcessKnows
<1>3. HolderKnows'
  BY DEF HolderKnows, ProcessKnows
<1>4. ProcessKnows'
  BY DEF ProcessKnows, CompletedMeansCommitted, HolderKnows
<1>5. OutputsKnown'
  BY DEF OutputsKnown, ProcessKnows, HolderKnows, IsNew
<1> QED
  BY <1>1, <1>2, <1>3, <1>4, <1>5

\* The loss of a document preserves the invariant.
LEMMA LoseIInv == IInv /\ Lose => IInv'
<1> SUFFICES ASSUME IInv, Lose PROVE IInv'
  OBVIOUS
<1> USE DEF IInv, TypeOK, Lose, Forget, publication, process, locking, history
<1>1. TypeOK'
  <2>1. /\ phase' \in Phases /\ dest' \in [Members -> Files] /\ preimage' \subseteq Members
        /\ private' \in BOOLEAN /\ touched' \subseteq Members
    OBVIOUS
  <2>2. /\ job' \in {"absent", "Pending", "Completed"} /\ pc' \in Locations
        /\ overwrite' \in BOOLEAN /\ seen' \in Phases
    OBVIOUS
  <2>3. /\ lock' \in {"free", "batch", "reclaim"}
        /\ way' \in {"none", "publish", "rollback", "clean"}
        /\ lock' = "free" => way' = "none"
        /\ lock' = "batch" => pc' \in {"resume", "commit", "recover"}
    BY DEF HolderKnows
  <2>4. stale' \subseteq Members /\ glitch' \in BOOLEAN /\ calm' \in BOOLEAN
    OBVIOUS
  <2> QED
    BY <2>1, <2>2, <2>3, <2>4
<1>2. CompletedMeansCommitted'
  BY DEF CompletedMeansCommitted, HolderKnows, ProcessKnows
<1>3. HolderKnows'
  BY DEF HolderKnows, ProcessKnows
<1>4. ProcessKnows'
  BY DEF ProcessKnows, CompletedMeansCommitted, HolderKnows
<1>5. OutputsKnown'
  BY DEF OutputsKnown, ProcessKnows, HolderKnows, IsNew
<1> QED
  BY <1>1, <1>2, <1>3, <1>4, <1>5

\* The end of interference preserves the invariant.
LEMMA SettleIInv == IInv /\ Settle => IInv'
<1> SUFFICES ASSUME IInv, Settle PROVE IInv'
  OBVIOUS
<1> USE DEF IInv, TypeOK, Settle, publication, process, locking, history
<1>1. TypeOK'
  BY DEF HolderKnows
<1>2. CompletedMeansCommitted'
  BY DEF CompletedMeansCommitted, HolderKnows, ProcessKnows
<1>3. HolderKnows'
  BY DEF HolderKnows, ProcessKnows
<1>4. ProcessKnows'
  BY DEF ProcessKnows, CompletedMeansCommitted, HolderKnows
<1>5. OutputsKnown'
  BY DEF OutputsKnown, ProcessKnows, HolderKnows, IsNew
<1> QED
  BY <1>1, <1>2, <1>3, <1>4, <1>5

\* A competitor preserves the invariant.
LEMMA CompeteWithIInv ==
  ASSUME IInv, NEW k \in Members, CompeteWith(k)
  PROVE  IInv'
<1> USE DEF IInv, TypeOK, CompeteWith, Compete, publication, process, locking, history
<1>1. TypeOK'
  BY DEF HolderKnows
<1>2. CompletedMeansCommitted'
  BY DEF CompletedMeansCommitted, HolderKnows, ProcessKnows
<1>3. HolderKnows'
  BY DEF HolderKnows, ProcessKnows
<1>4. ProcessKnows'
  BY DEF ProcessKnows, CompletedMeansCommitted, HolderKnows
<1>5. OutputsKnown'
  BY DEF OutputsKnown, ProcessKnows, HolderKnows, IsNew
<1> QED
  BY <1>1, <1>2, <1>3, <1>4, <1>5

\* Every step preserves the invariant.
LEMMA NextIInv == IInv /\ [BNext]_bvars => IInv'
<1> SUFFICES ASSUME IInv, [BNext]_bvars PROVE IInv'
  OBVIOUS
<1>1. CASE UNCHANGED bvars
  BY <1>1 DEF bvars, publication, process, locking, history, IInv, TypeOK,
    CompletedMeansCommitted, HolderKnows, ProcessKnows, OutputsKnown, IsNew
<1>2. CASE Process
  BY <1>2, OpenIInv, ReconcileIInv, ResumeIInv, CommitIInv, InspectIInv, ReinspectIInv,
    CheckpointIInv, SaveCompletedIInv, FinishIInv, RenderIInv, PrepareBatchIInv
  DEF Process
<1>3. CASE Holder
  BY <1>3, WorkIInv, TurnBackIInv, FinishPublishIInv, FinishRollbackIInv, CleanBackupsIInv,
    WorkFailsIInv
  DEF Holder
<1>4. CASE Reclaim \/ Crash \/ Lose \/ Settle
  BY <1>4, ReclaimIInv, CrashIInv, LoseIInv, SettleIInv
<1>5. CASE \E m \in Members : CompeteWith(m)
  BY <1>5, CompeteWithIInv
<1> QED
  BY <1>1, <1>2, <1>3, <1>4, <1>5 DEF BNext

\* Of all steps, only PrepareBatch makes a journal Ready, and it does so from
\* "prepare" with destinations nobody has touched since they were staged.
LEMMA OnlyPrepares ==
  ASSUME IInv, [BNext]_bvars, NewGeneration
  PROVE  pc = "prepare" /\ stale = {} /\ Prepare
<1> USE DEF NewGeneration, IInv, TypeOK, HolderKnows
<1>1. CASE UNCHANGED bvars
  BY <1>1 DEF bvars, publication
<1>2. CASE PrepareBatch
  BY <1>2 DEF PrepareBatch, publication
<1>3. CASE Process /\ ~PrepareBatch
  BY <1>3 DEF Process, Open, Reconcile, Resume, Commit, Begin, Inspect, Reinspect, Checkpoint,
    SaveCompleted, Finish, Render, publication
<1>4. CASE Holder
  BY <1>4 DEF Holder, Work, BackUp, Place, Take, Restore, Displace, Move, TurnBack,
    FinishPublish, SaveCommitted, FinishRollback, SaveRolledBack, CleanBackups, Clean,
    WorkFails, publication
<1>5. CASE Reclaim \/ Crash \/ Lose \/ Settle \/ \E m \in Members : CompeteWith(m)
  BY <1>5 DEF Reclaim, Begin, Crash, Lose, Forget, Settle, CompeteWith, Compete, publication
<1> QED
  BY <1>1, <1>2, <1>3, <1>4, <1>5 DEF BNext

\* Of all steps, only SaveCompleted completes a job, and only it and Checkpoint
\* announce one.
LEMMA OnlyCheckpoints ==
  ASSUME IInv, [BNext]_bvars,
         \/ job' = "Completed" /\ job # "Completed"
         \/ pc' = "done" /\ pc # "done"
  PROVE  SaveCompleted \/ (Checkpoint /\ IsNew)
<1> USE DEF IInv, TypeOK, HolderKnows
<1>1. CASE UNCHANGED bvars
  BY <1>1 DEF bvars, process
<1>2. CASE SaveCompleted \/ Checkpoint
  BY <1>2 DEF Checkpoint, Exit
<1>3. CASE Process /\ ~SaveCompleted /\ ~Checkpoint
  BY <1>3 DEF Process, Open, SaveJob, Exit, Reconcile, Resume, Fails, RolledBackFound, Goto,
    Commit, Inspect, Reinspect, Finish, Render, PrepareBatch, process
<1>4. CASE Holder
  BY <1>4 DEF Holder, Work, TurnBack, FinishPublish, FinishRollback, CleanBackups, WorkFails,
    End, Fails, RolledBackFound, Goto, Exit, process
<1>5. CASE Reclaim \/ Crash \/ Lose \/ Settle \/ \E m \in Members : CompeteWith(m)
  BY <1>5 DEF Reclaim, Crash, Exit, Lose, Settle, CompeteWith, process
<1> QED
  BY <1>1, <1>2, <1>3, <1>4, <1>5 DEF BNext

-----------------------------------------------------------------------------
(* Theorems. *)

\* What the process and the holder of the lock know always holds.
THEOREM Invariance == BSpec => []IInv
BY InitIInv, NextIInv, PTL DEF BSpec

\* Every variable has its type, and a lock has a holder that is at work.
THEOREM TypeCorrect == BSpec => []TypeOK
BY Invariance, PTL DEF IInv

\* The job document and the generation journal never contradict each other.
THEOREM DocumentsAgree == BSpec => []CompletedMeansCommitted
BY Invariance, PTL DEF IInv

\* Completion is recorded and announced only for outputs that were verified.
THEOREM CompletionIsVerified == BSpec => AnnouncedIsVerified
<1>1. ASSUME IInv, [BNext]_bvars
      PROVE  [\/ job' = "Completed" /\ job # "Completed"
              \/ pc' = "done" /\ pc # "done"
              => \A m \in Members \ stale : dest'[m] = "new"]_bvars
  <2>1. SUFFICES ASSUME \/ job' = "Completed" /\ job # "Completed"
                        \/ pc' = "done" /\ pc # "done"
                 PROVE  \A m \in Members \ stale : dest'[m] = "new"
    OBVIOUS
  <2>2. SaveCompleted \/ (Checkpoint /\ IsNew)
    BY <1>1, <2>1, OnlyCheckpoints
  <2> QED
    BY <1>1, <2>2 DEF SaveCompleted, Checkpoint, IsNew, publication, IInv, OutputsKnown
<1> QED
  BY <1>1, Invariance, PTL DEF BSpec, AnnouncedIsVerified

\* No file that exists is scheduled for replacement without --overwrite, even
\* if it appeared while the outputs were rendered.
THEOREM ReplacementIsAuthorized == BSpec => OnlyOverwriteReplaces
<1>1. ASSUME IInv, [BNext]_bvars
      PROVE  [NewGeneration /\ preimage' # {} => overwrite]_bvars
  <2>1. SUFFICES ASSUME NewGeneration, preimage' # {} PROVE overwrite
    OBVIOUS
  <2> QED
    BY <1>1, <2>1, OnlyPrepares DEF Prepare, IInv, OutputsKnown
<1> QED
  BY <1>1, Invariance, PTL DEF BSpec, OnlyOverwriteReplaces

\* A committed generation whose outputs stand is never published again, unless
\* a read failed.
THEOREM IntactStays == BSpec => IntactIsNotRebuilt
<1>1. ASSUME IInv, [BNext]_bvars
      PROVE  [NewGeneration /\ phase = "Committed" => ~IsNew \/ glitch]_bvars
  <2>1. SUFFICES ASSUME NewGeneration, phase = "Committed" PROVE ~IsNew \/ glitch
    OBVIOUS
  <2> QED
    BY <1>1, <2>1, OnlyPrepares DEF IInv, OutputsKnown
<1> QED
  BY <1>1, Invariance, PTL DEF BSpec, IntactIsNotRebuilt

\* What happens to the outputs is what Publication allows, whoever has a hand in
\* it and whatever fails.
THEOREM PublicationKept == BSpec => KeepsToPublication
<1>1. BInit => Init
  BY DEF BInit
<1>2. ASSUME [BNext]_bvars
      PROVE  [Next \/ Forget]_vars
  <2>1. CASE UNCHANGED bvars
    BY <2>1 DEF bvars, publication, vars
  <2>2. CASE Process
    BY <2>2 DEF Process, Open, Reconcile, Resume, Commit, Inspect, Reinspect, Checkpoint,
      SaveCompleted, Finish, Render, PrepareBatch, publication, vars, Next
  <2>3. CASE Holder
    BY <2>3 DEF Holder, Work, TurnBack, FinishPublish, FinishRollback, CleanBackups, WorkFails,
      publication, vars, Next
  <2>4. CASE Reclaim \/ Crash \/ Lose \/ Settle
    BY <2>4 DEF Reclaim, Crash, Lose, Settle, publication, vars, Next
  <2>5. CASE \E m \in Members : CompeteWith(m)
    BY <2>5 DEF CompeteWith, Next
  <2> QED
    BY <2>1, <2>2, <2>3, <2>4, <2>5, <1>2 DEF BNext
<1> QED
  BY <1>1, <1>2, PTL DEF BSpec, KeepsToPublication

\* Every step of a publication keeps its variables in their domains.
LEMMA StepTyped ==
  ASSUME Typed, [Next \/ Forget]_vars
  PROVE  Typed'
<1> USE DEF Typed, Phases, Files, Foreign
<1>1. CASE Prepare
  BY <1>1 DEF Prepare
<1>2. CASE Begin \/ SaveCommitted \/ Clean \/ SaveRolledBack \/ Forget
  BY <1>2 DEF Begin, SaveCommitted, Clean, SaveRolledBack, Forget
<1>3. ASSUME NEW m \in Members, BackUp(m) \/ Place(m) \/ Take(m) \/ Restore(m)
      PROVE  Typed'
  BY <1>3 DEF BackUp, Place, Take, Restore, Move
<1>4. ASSUME NEW m \in Members, Displace(m) \/ Compete(m)
      PROVE  Typed'
  BY <1>4 DEF Displace, Compete
<1>5. CASE UNCHANGED vars
  BY <1>5 DEF vars
<1> QED
  BY <1>1, <1>2, <1>3, <1>4, <1>5 DEF Next

\* Every step of a publication keeps it all or nothing.
LEMMA StepAllOrNothing ==
  ASSUME Typed, AllOrNothing, [Next \/ Forget]_vars
  PROVE  AllOrNothing'
<1> USE DEF Typed, AllOrNothing, PreimageOf, Phases
<1>1. CASE Prepare
  BY <1>1 DEF Prepare, Files, Foreign
<1>2. CASE Begin \/ SaveCommitted \/ Clean \/ SaveRolledBack \/ Forget
  BY <1>2 DEF Begin, SaveCommitted, Clean, SaveRolledBack, Forget
<1>3. ASSUME NEW m \in Members, BackUp(m) \/ Place(m) \/ Take(m) \/ Restore(m)
      PROVE  AllOrNothing'
  BY <1>3 DEF BackUp, Place, Take, Restore, Move
<1>4. ASSUME NEW m \in Members, Displace(m) \/ Compete(m)
      PROVE  AllOrNothing'
  BY <1>4 DEF Displace, Compete
<1>5. CASE UNCHANGED vars
  BY <1>5 DEF vars
<1> QED
  BY <1>1, <1>2, <1>3, <1>4, <1>5 DEF Next

\* Whatever keeps to Publication, a generation or a batch of them, is all or
\* nothing: no more is needed of a component than that it implements it.
THEOREM PublicationAllOrNothing == KeepsToPublication => []AllOrNothing
<1>1. Init => Typed /\ AllOrNothing
  BY DEF Init, Typed, Phases, Files, Foreign, AllOrNothing
<1>2. Typed /\ AllOrNothing /\ [Next \/ Forget]_vars => Typed' /\ AllOrNothing'
  BY StepTyped, StepAllOrNothing
<1> QED
  BY <1>1, <1>2, PTL DEF KeepsToPublication

\* Of the outputs no competitor has changed, a committed generation has replaced
\* all, and one that is rolled back or has not begun has replaced none.
THEOREM OutputsAllOrNothing == BSpec => []AllOrNothing
  BY PublicationKept, PublicationAllOrNothing

=============================================================================
