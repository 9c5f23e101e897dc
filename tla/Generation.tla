----------------------------- MODULE Generation -----------------------------
(***************************************************************************)
(* Crash-recoverable publication of a set of prepared outputs              *)
(* (src/src/generation.rs, with the move primitives of src/src/atomic.rs). *)
(*                                                                         *)
(* Every member has three path names: the live destination, the private   *)
(* stage that holds the new bytes, and the private backup the old          *)
(* destination is moved to.  A journal on disk records the evidence        *)
(* (identity, length, SHA-256) of every stage and every destination        *)
(* preimage; one process at a time works on it, under the state lock.      *)
(* Renames never replace a file.  The process may die between any two of   *)
(* its steps, any file operation may fail before or after its effect, and  *)
(* a competitor that ignores the lock may replace or remove destinations.  *)
(*                                                                         *)
(* A file is described by the evidence it matches in the current journal:  *)
(* "old" is the recorded destination preimage, "new" the recorded stage,   *)
(* "alien" anything else.  Preparing the next generation relabels what is  *)
(* live at that moment as "old".                                           *)
(***************************************************************************)
EXTENDS Integers

CONSTANT N      \* number of members of the generation

ASSUME NAssumption == N \in Nat \ {0}

VARIABLES
  journal,      \* durable GenerationDocument: phase and per-member step
  fs,           \* what each member's three path names hold
  preimage,     \* members whose journalled destination preimage is Present
  doc,          \* the lock holder's in-memory GenerationDocument
  pc,           \* where the lock holder is; "idle" when the lock is free
  i,            \* member index of the lock holder's current loop
  acts,         \* classify_rollback's result
  touched,      \* history: members whose destination a competitor changed
  forecast,     \* history: what inspect_reclaim predicted for this reclaim
  calm          \* environment: no failure, crash or competitor from now on

vars == <<journal, fs, preimage, doc, pc, i, acts, touched, forecast, calm>>
local == <<doc, pc, i, acts>>

-----------------------------------------------------------------------------
(* Journal and file system. *)

\* Canonical publication order: members are sorted by route key.
Members == 1 .. N

Paths == {"dest", "stage", "backup"}

Files == {"none", "old", "new", "alien"}

GenerationPhase == {"absent", "Ready", "Publishing", "Committed", "RolledBack"}

MemberPublicationStep ==
  {"Prepared", "BackedUp", "Published", "Restored", "Abandoned"}

RollbackAction ==
  {"Untouched", "UntouchedConflict", "BackedUp", "PublishedExisting",
   "PublishedMissing", "AlreadyRestored"}

GenerationReclaimAction ==
  {"AbandonReady", "FinalizeCommitted", "RollBack", "CleanCommitted", "Nothing"}

GenerationDocument ==
  [phase : GenerationPhase, step : [Members -> MemberPublicationStep]]

Document(p, s) == [phase |-> p, step |-> [m \in Members |-> s]]

InPhase(d, p) == [phase |-> p, step |-> d.step]

NoDocument == Document("absent", "Prepared")

NoActs == [m \in Members |-> "AlreadyRestored"]

PreimageOf(m) == IF m \in preimage THEN "old" ELSE "none"

PrivateAbsent(m) == fs[m]["stage"] = "none" /\ fs[m]["backup"] = "none"

\* fs after a rename of one path name of m to another.
Moved(m, from, to) ==
  [fs EXCEPT ![m] = [@ EXCEPT ![from] = "none", ![to] = fs[m][from]]]

Unlinked(m, path) == [fs EXCEPT ![m] = [@ EXCEPT ![path] = "none"]]

\* RENAME_NOREPLACE succeeds only from a present to an absent path name.
CanMove(m, from, to) == fs[m][from] # "none" /\ fs[m][to] = "none"

-----------------------------------------------------------------------------
(* How a step of the lock holder ends. *)

Goto(l) == pc' = l /\ UNCHANGED <<doc, i, acts>>

\* The operation returns: its value is dropped and the lock released.
Return ==
  /\ pc' = "idle"
  /\ doc' = NoDocument
  /\ i' = 0
  /\ acts' = NoActs

NoFault == UNCHANGED forecast

Fault == ~calm /\ forecast' = "none"

\* A read, sync, rename or unlink reports an error and had no effect.
FailsTo(l) == Fault /\ Goto(l) /\ UNCHANGED fs

\* save_document: replaces the journal atomically.  On an error the old or
\* the new journal is visible (the directory sync follows the rename), and
\* every caller returns the error.
SaveState(next) ==
  /\ \/ NoFault /\ journal' = doc /\ next
     \/ Fault /\ journal' \in {journal, doc} /\ Return
  /\ UNCHANGED <<fs, preimage, touched, calm>>

Keep == UNCHANGED <<journal, preimage, touched, calm>>

-----------------------------------------------------------------------------
(* Preparing a generation. *)

\* prepare / prepare_replacement: refuse a non-terminal journal or a terminal
\* one that still names private files; capture every preimage and every stage;
\* save the first Ready document.  A failed save may leave it visible.
Prepare ==
  /\ pc = "idle"
  /\ journal.phase \in {"absent", "Committed", "RolledBack"}
  /\ \A m \in Members : PrivateAbsent(m)
  /\ doc' = Document("Ready", "Prepared")
  /\ forecast' = "none"
  /\ \/ /\ journal' = doc'
        /\ fs' = [m \in Members |->
                    [dest |-> IF fs[m]["dest"] = "none" THEN "none" ELSE "old",
                     stage |-> "new", backup |-> "none"]]
        /\ preimage' = {m \in Members : fs[m]["dest"] # "none"}
        /\ touched' = {}
        /\ pc' \in IF calm THEN {"ready"} ELSE {"ready", "readySaveError"}
     \/ /\ ~calm
        /\ pc' = "readySaveError"
        /\ UNCHANGED <<journal, fs, preimage, touched>>
  /\ UNCHANGED <<i, acts, calm>>

\* Mutant: every save error drops the stages.
FinishReadyDropsStages ==
  /\ pc = "readySaveError"
  /\ Return
  /\ NoFault
  /\ fs' = [m \in Members |-> [fs[m] EXCEPT !["stage"] = "none"]]
  /\ Keep

\* finish_ready_document_save after an error: the stages are retained when the
\* new journal is visible or cannot be read; otherwise dropping the prepared
\* outputs removes them, and no journal names them.
FinishReadyDocumentSave ==
  /\ pc = "readySaveError"
  /\ Return
  /\ NoFault
  /\ Keep /\ UNCHANGED fs

-----------------------------------------------------------------------------
(* Evidence checks on a whole document. *)

ValidateReadyDocument(d) ==
  \A m \in Members : /\ d.step[m] = "Prepared"
                     /\ fs[m]["stage"] = "new"
                     /\ fs[m]["dest"] = PreimageOf(m)

ValidateReclaimableReadyDocument(d) ==
  \A m \in Members : /\ d.step[m] = "Prepared"
                     /\ fs[m]["stage"] = "new"
                     /\ fs[m]["backup"] = "none"

ValidateCommitted(d) ==
  \A m \in Members : /\ d.step[m] = "Published"
                     /\ fs[m]["dest"] = "new"
                     /\ fs[m]["stage"] = "none"

ValidateRolledBack(d) ==
  \A m \in Members : /\ \/ d.step[m] = "Abandoned"
                        \/ /\ d.step[m] = "Restored"
                           /\ fs[m]["dest"] = PreimageOf(m)
                     /\ PrivateAbsent(m)

PublishingIsComplete ==
  \A m \in Members : /\ fs[m]["stage"] = "none"
                     /\ fs[m]["dest"] = "new"
                     /\ fs[m]["backup"] = PreimageOf(m)

\* One member of classify_rollback; "Error" is the ambiguous or tampered case.
\* The step is never Restored here: a process classifies once, and a journal
\* with a terminal step is refused by validate_publishing.
ClassifyMember(m, step) ==
  LET d == fs[m]["dest"]
      s == fs[m]["stage"]
      b == fs[m]["backup"]
      isPreimage == d = PreimageOf(m)
  IN CASE s \notin {"none", "new"} \/ b \notin {"none", PreimageOf(m)} -> "Error"
       [] s = "none" /\ b = "none" /\ isPreimage -> "AlreadyRestored"
       [] s = "none" /\ b = "none" /\ step = "Prepared" /\ ~isPreimage
            /\ d # "new" -> "UntouchedConflict"
       [] s = "new" /\ b = "none" /\ step = "Prepared" /\ isPreimage
            -> "Untouched"
       [] s = "new" /\ b = "none" /\ step = "Prepared" /\ ~isPreimage
            -> "UntouchedConflict"
       [] s = "new" /\ b = "old" /\ d = "none" /\ m \in preimage -> "BackedUp"
       [] s = "new" /\ b = "none" /\ step # "Prepared" /\ d = "none"
            /\ m \notin preimage -> "Untouched"
       [] s = "none" /\ d = "new" /\ b = "old" /\ m \in preimage
            -> "PublishedExisting"
       [] s = "none" /\ d = "new" /\ b = "none" /\ m \notin preimage
            -> "PublishedMissing"
       [] OTHER -> "Error"

Classifiable(steps) == \A m \in Members : ClassifyMember(m, steps[m]) # "Error"

\* inspect_reclaim on a free lock: predict reclaim without changing anything.
InspectReclaim ==
  CASE journal.phase = "Ready" /\ ValidateReclaimableReadyDocument(journal)
         -> "AbandonReady"
    [] journal.phase = "Publishing" /\ PublishingIsComplete
         -> "FinalizeCommitted"
    [] journal.phase = "Publishing" /\ ~PublishingIsComplete
         /\ Classifiable(journal.step) -> "RollBack"
    [] journal.phase = "Committed" /\ ValidateCommitted(journal)
         /\ \A m \in Members : fs[m]["backup"] = "none" -> "Nothing"
    [] journal.phase = "Committed" /\ ValidateCommitted(journal)
         /\ (\E m \in Members : fs[m]["backup"] # "none")
         /\ (\A m \in Members : fs[m]["backup"] \in {"none", PreimageOf(m)})
         -> "CleanCommitted"
    [] journal.phase = "RolledBack" /\ ValidateRolledBack(journal) -> "Nothing"
    [] OTHER -> "Error"

-----------------------------------------------------------------------------
(* Opening an existing journal. *)

\* resume on a Ready journal; the caller's fingerprint is checked before any
\* publication and a mismatch returns like Drop.
ResumeReady ==
  /\ pc = "idle" /\ journal.phase = "Ready" /\ ValidateReadyDocument(journal)
  /\ doc' = journal /\ pc' = "ready"
  /\ forecast' = "none"
  /\ Keep /\ UNCHANGED <<fs, i, acts>>

\* reclaim on a Ready journal.
ReclaimReady ==
  /\ pc = "idle" /\ journal.phase = "Ready" /\ ValidateReclaimableReadyDocument(journal)
  /\ doc' = InPhase(journal, "Publishing") /\ pc' = "saveAbandon"
  /\ forecast' = InspectReclaim
  /\ Keep /\ UNCHANGED <<fs, i, acts>>

\* Mutant: a complete generation is not recognised.
RecoverByRollbackOnly ==
  /\ pc = "idle" /\ journal.phase = "Publishing"
  /\ doc' = journal /\ pc' = "classify"
  /\ forecast' = InspectReclaim
  /\ Keep /\ UNCHANGED <<fs, i, acts>>

\* resume or reclaim on a Publishing journal: recover_publishing's entry.
\* Either all members are published, or the rollback is classified next.
RecoverPublishing ==
  /\ pc = "idle" /\ journal.phase = "Publishing"
  /\ \/ /\ PublishingIsComplete
        /\ doc' = Document("Committed", "Published") /\ pc' = "saveCommitted"
     \/ /\ ~PublishingIsComplete
        /\ doc' = journal /\ pc' = "classify"
  /\ forecast' = InspectReclaim
  /\ Keep /\ UNCHANGED <<fs, i, acts>>

\* resume or reclaim on a Committed journal: clean what a crash left behind.
ReopenCommitted ==
  /\ pc = "idle" /\ journal.phase = "Committed" /\ ValidateCommitted(journal)
  /\ doc' = journal /\ pc' = "cleanup" /\ i' = 1
  /\ forecast' = InspectReclaim
  /\ Keep /\ UNCHANGED <<fs, acts>>

-----------------------------------------------------------------------------
(* A held Ready transaction. *)

\* commit / publish: revalidate stages and destinations, then mark the durable
\* journal Publishing.  A failed validation returns and keeps everything.
Commit ==
  /\ pc = "ready"
  /\ \/ /\ ValidateReadyDocument(doc)
        /\ doc' = InPhase(doc, "Publishing") /\ pc' = "savePublishing"
        /\ UNCHANGED <<i, acts>>
     \/ /\ ~ValidateReadyDocument(doc)
        /\ Return
  /\ NoFault /\ Keep /\ UNCHANGED fs

\* abandon: validates the private files only.
Abandon ==
  /\ pc = "ready"
  /\ \/ /\ ValidateReclaimableReadyDocument(doc)
        /\ doc' = InPhase(doc, "Publishing") /\ pc' = "saveAbandon"
        /\ UNCHANGED <<i, acts>>
     \/ /\ ~ValidateReclaimableReadyDocument(doc)
        /\ Return
  /\ NoFault /\ Keep /\ UNCHANGED fs

\* Dropping a ready transaction keeps its stages: the journal owns them.
Drop ==
  /\ pc = "ready"
  /\ Return
  /\ NoFault /\ Keep /\ UNCHANGED fs

SavePublishing ==
  /\ pc = "savePublishing"
  /\ SaveState(pc' = "backup" /\ i' = 1 /\ UNCHANGED <<doc, acts>>)

SaveAbandon ==
  /\ pc = "saveAbandon"
  /\ SaveState(Goto("classify"))

-----------------------------------------------------------------------------
(* publish: the loop over the members. *)

SetStep(s) == doc' = [phase |-> doc.phase, step |-> [doc.step EXCEPT ![i] = s]]

\* backup_member before its rename: the backup path name must be free and the
\* destination must match its preimage.
BackupMember ==
  /\ pc = "backup"
  /\ \/ /\ fs[i]["backup"] = "none" /\ fs[i]["dest"] = PreimageOf(i)
        /\ \/ fs[i]["dest"] # "none" /\ Goto("backupMove")
           \/ /\ fs[i]["dest"] = "none" /\ SetStep("BackedUp")
              /\ pc' = "publish" /\ UNCHANGED <<i, acts>>
        /\ NoFault /\ UNCHANGED fs
     \/ /\ ~(fs[i]["backup"] = "none" /\ fs[i]["dest"] = PreimageOf(i))
        /\ NoFault /\ Goto("classify") /\ UNCHANGED fs
     \/ FailsTo("classify")
  /\ Keep

\* backup_member's rename and the evidence check on what arrived: a competitor
\* may have replaced the destination since the check.
BackupMove ==
  /\ pc = "backupMove"
  /\ \/ /\ CanMove(i, "dest", "backup")
        /\ fs' = Moved(i, "dest", "backup")
        /\ \/ /\ fs[i]["dest"] = "old" /\ NoFault
              /\ SetStep("BackedUp") /\ pc' = "publish" /\ UNCHANGED <<i, acts>>
           \/ /\ fs[i]["dest"] # "old" /\ NoFault /\ Goto("classify")
           \/ Fault /\ Goto("classify")
     \/ /\ ~CanMove(i, "dest", "backup")
        /\ NoFault /\ Goto("classify") /\ UNCHANGED fs
     \/ FailsTo("classify")
  /\ Keep

\* publish_member before its rename.
PublishMember ==
  /\ pc = "publish"
  /\ \/ /\ fs[i]["dest"] = "none" /\ fs[i]["stage"] = "new"
        /\ NoFault /\ Goto("publishMove")
     \/ /\ ~(fs[i]["dest"] = "none" /\ fs[i]["stage"] = "new")
        /\ NoFault /\ Goto("classify")
     \/ Fault /\ Goto("classify")
  /\ Keep /\ UNCHANGED fs

\* generation_publish: the stage becomes the destination, never replacing.
PublishMove ==
  /\ pc = "publishMove"
  /\ \/ /\ CanMove(i, "stage", "dest")
        /\ fs' = Moved(i, "stage", "dest")
        /\ \/ NoFault /\ Goto("publishVerify")
           \/ Fault /\ Goto("classify")
     \/ /\ ~CanMove(i, "stage", "dest")
        /\ NoFault /\ Goto("classify") /\ UNCHANGED fs
     \/ FailsTo("classify")
  /\ Keep

\* publish_member after its rename; the last member leads to the Committed save.
PublishVerify ==
  /\ pc = "publishVerify"
  /\ \/ /\ fs[i]["dest"] = "new" /\ fs[i]["stage"] = "none"
        /\ NoFault /\ UNCHANGED acts
        /\ \/ /\ i < N
              /\ SetStep("Published") /\ i' = i + 1 /\ pc' = "backup"
           \/ /\ i = N
              /\ doc' = [phase |-> "Committed",
                         step |-> [doc.step EXCEPT ![i] = "Published"]]
              /\ i' = 0 /\ pc' = "saveCommitted"
     \/ /\ ~(fs[i]["dest"] = "new" /\ fs[i]["stage"] = "none")
        /\ NoFault /\ Goto("classify")
     \/ Fault /\ Goto("classify")
  /\ Keep /\ UNCHANGED fs

\* Mutant: cleanup follows a failed Committed save too.
SaveCommittedUnchecked ==
  /\ pc = "saveCommitted"
  /\ journal' \in {journal, doc}
  /\ pc' = "cleanup" /\ i' = 1 /\ UNCHANGED <<doc, acts>>
  /\ NoFault /\ UNCHANGED <<fs, preimage, touched, calm>>

SaveCommitted ==
  /\ pc = "saveCommitted"
  /\ SaveState(pc' = "cleanup" /\ i' = 1 /\ UNCHANGED <<doc, acts>>)

\* cleanup_committed_backups, one member: an unexpected stage or a backup that
\* is not the preimage stops it.
CleanupCommittedBackups ==
  /\ pc = "cleanup"
  /\ \/ /\ fs[i]["stage"] = "none" /\ fs[i]["backup"] \in {"none", PreimageOf(i)}
        /\ fs' = Unlinked(i, "backup")
        /\ \/ /\ NoFault
              /\ \/ i < N /\ i' = i + 1 /\ UNCHANGED <<doc, pc, acts>>
                 \/ i = N /\ Return
           \/ Fault /\ Return
     \/ /\ ~(fs[i]["stage"] = "none" /\ fs[i]["backup"] \in {"none", PreimageOf(i)})
        /\ NoFault /\ Return /\ UNCHANGED fs
     \/ Fault /\ Return /\ UNCHANGED fs
  /\ Keep

-----------------------------------------------------------------------------
(* rollback_internal and the rollback half of recover_publishing. *)

\* classify_rollback: every member is classified before any is touched.
ClassifyRollback ==
  /\ pc = "classify"
  /\ \/ /\ Classifiable(doc.step)
        /\ acts' = [m \in Members |-> ClassifyMember(m, doc.step[m])]
        /\ i' = N /\ pc' = "rollback" /\ NoFault /\ UNCHANGED doc
     \/ ~Classifiable(doc.step) /\ NoFault /\ Return
     \/ Fault /\ Return
  /\ Keep /\ UNCHANGED fs

\* Mutant: the loop ends one member early.
MemberRolledBackStopsEarly ==
  LET s == IF acts[i] = "UntouchedConflict" THEN "Abandoned" ELSE "Restored"
      steps == [doc.step EXCEPT ![i] = s]
  IN /\ \/ /\ i > 2
           /\ doc' = [phase |-> doc.phase, step |-> steps]
           /\ i' = i - 1 /\ pc' = "rollback" /\ UNCHANGED acts
        \/ /\ i <= 2
           /\ doc' = [phase |-> "RolledBack", step |-> steps]
           /\ i' = 0 /\ acts' = NoActs /\ pc' = "saveRolledBack"
     /\ NoFault

\* Mutant: the phase is not advanced before the last save.
MemberRolledBackKeepsPhase ==
  /\ \/ /\ i > 1
        /\ SetStep("Restored")
        /\ i' = i - 1 /\ pc' = "rollback" /\ UNCHANGED acts
     \/ /\ i = 1
        /\ i' = 0 /\ acts' = NoActs /\ pc' = "saveRolledBack" /\ UNCHANGED doc
  /\ NoFault

\* Member i is finished: record its step and go on to the member before it.
MemberRolledBack ==
  LET s == IF acts[i] = "UntouchedConflict" THEN "Abandoned" ELSE "Restored"
      steps == [doc.step EXCEPT ![i] = s]
  IN /\ \/ /\ i > 1
           /\ doc' = [phase |-> doc.phase, step |-> steps]
           /\ i' = i - 1 /\ pc' = "rollback" /\ UNCHANGED acts
        \/ /\ i = 1
           /\ doc' = [phase |-> "RolledBack", step |-> steps]
           /\ i' = 0 /\ acts' = NoActs /\ pc' = "saveRolledBack"
     /\ NoFault

\* remove_private_if_present(stage), the end of every rollback_member.
RemoveStage ==
  \/ fs' = Unlinked(i, "stage") /\ (MemberRolledBack \/ (Fault /\ Return))
  \/ UNCHANGED fs /\ Fault /\ Return

\* rollback_member up to its first rename.
RollbackMember ==
  /\ pc = "rollback"
  /\ \/ acts[i] = "AlreadyRestored" /\ MemberRolledBack /\ UNCHANGED fs
     \/ /\ acts[i] = "Untouched"
        /\ \/ fs[i]["dest"] \in {"none", PreimageOf(i)} /\ RemoveStage
           \/ /\ fs[i]["dest"] \notin {"none", PreimageOf(i)}
              /\ NoFault /\ Return /\ UNCHANGED fs
     \/ acts[i] = "UntouchedConflict" /\ RemoveStage
     \/ /\ acts[i] = "BackedUp" /\ UNCHANGED fs /\ NoFault
        /\ \/ fs[i]["dest"] = "none" /\ Goto("restore")
           \/ fs[i]["dest"] # "none" /\ Return
     \/ /\ acts[i] \in {"PublishedExisting", "PublishedMissing"}
        /\ UNCHANGED fs /\ NoFault
        /\ \/ fs[i]["dest"] = "new" /\ Goto("take")
           \/ fs[i]["dest"] # "new" /\ Return
     \/ Fault /\ Return /\ UNCHANGED fs
  /\ Keep

\* Mutant: what arrived at the private path name is not checked.
TakePublishedUnverified ==
  /\ pc = "take"
  /\ CanMove(i, "dest", "stage")
  /\ fs' = Moved(i, "dest", "stage")
  /\ NoFault
  /\ Goto(IF acts[i] = "PublishedExisting" THEN "restore" ELSE "unlink")
  /\ Keep

\* move_private_without_replacing(destination, stage) and its check on what
\* arrived: a competitor may have replaced the destination since the check.
TakePublished ==
  /\ pc = "take"
  /\ \/ /\ CanMove(i, "dest", "stage")
        /\ fs' = Moved(i, "dest", "stage")
        /\ \/ /\ fs[i]["dest"] = "new" /\ NoFault
              /\ Goto(IF acts[i] = "PublishedExisting" THEN "restore"
                                                       ELSE "unlink")
           \/ fs[i]["dest"] # "new" /\ NoFault /\ Goto("putBack")
           \/ Fault /\ Return
     \/ /\ ~CanMove(i, "dest", "stage")
        /\ NoFault /\ Return /\ UNCHANGED fs
     \/ Fault /\ Return /\ UNCHANGED fs
  /\ Keep

\* restore_moved_after_evidence_mismatch(source, private): one no-replace
\* rename back; whether it succeeds or not, the operation returns an error.
RestoreMovedAfterEvidenceMismatch(from, to) ==
  /\ \/ CanMove(i, from, to) /\ fs' = Moved(i, from, to) /\ NoFault
     \/ ~CanMove(i, from, to) /\ UNCHANGED fs /\ NoFault
     \/ UNCHANGED fs /\ Fault
  /\ Return
  /\ Keep

PutBack ==
  /\ pc = "putBack"
  /\ RestoreMovedAfterEvidenceMismatch("stage", "dest")

\* Mutant: the stage is removed before the backup is restored.
RestoreAfterUnlink ==
  /\ pc = "restore"
  /\ \/ fs' = Unlinked(i, "stage") /\ fs # fs' /\ NoFault /\ Goto("restore")
     \/ /\ fs[i]["stage"] = "none" /\ CanMove(i, "backup", "dest")
        /\ fs' = Moved(i, "backup", "dest")
        /\ NoFault /\ Goto("restoreVerify")
  /\ Keep

\* restore_without_replacing: the backup becomes the destination again.
RestoreBackup ==
  /\ pc = "restore"
  /\ \/ /\ fs[i]["backup"] = "old" /\ CanMove(i, "backup", "dest")
        /\ fs' = Moved(i, "backup", "dest")
        /\ \/ NoFault /\ Goto("restoreVerify")
           \/ Fault /\ Return
     \/ /\ ~(fs[i]["backup"] = "old" /\ CanMove(i, "backup", "dest"))
        /\ NoFault /\ Return /\ UNCHANGED fs
     \/ Fault /\ Return /\ UNCHANGED fs
  /\ Keep

\* The evidence check after the restore, on a live path name again: what is
\* there may already be a competitor's file.
RestoreVerify ==
  /\ pc = "restoreVerify"
  /\ \/ fs[i]["dest"] = "old" /\ NoFault /\ Goto("unlink")
     \/ fs[i]["dest"] = "none" /\ NoFault /\ Return
     \/ fs[i]["dest"] \notin {"old", "none"} /\ NoFault /\ Goto("undoRestore")
     \/ Fault /\ Return
  /\ Keep /\ UNCHANGED fs

\* The same restoration with the roles of the path names exchanged: here the
\* source is the private backup and the moved file is live.
UndoRestore ==
  /\ pc = "undoRestore"
  /\ RestoreMovedAfterEvidenceMismatch("dest", "backup")

UnlinkStage ==
  /\ pc = "unlink"
  /\ RemoveStage
  /\ Keep

SaveRolledBack ==
  /\ pc = "saveRolledBack"
  /\ SaveState(Return)

-----------------------------------------------------------------------------
(* The environment. *)

\* The process dies; the kernel releases its lock.  Disk contents stay.
Crash ==
  /\ ~calm /\ pc # "idle"
  /\ Return
  /\ forecast' = "none"
  /\ Keep /\ UNCHANGED fs

\* Another program replaces or removes a live destination.
Compete(m) ==
  /\ ~calm
  /\ \E f \in {"none", "alien"} \ {fs[m]["dest"]} :
       fs' = [fs EXCEPT ![m] = [@ EXCEPT !["dest"] = f]]
  /\ touched' = touched \cup {m}
  /\ forecast' = "none"
  /\ UNCHANGED <<journal, preimage, calm, local>>

Settle ==
  /\ ~calm /\ calm' = TRUE
  /\ UNCHANGED <<journal, fs, preimage, touched, forecast, local>>

-----------------------------------------------------------------------------
Recover == ReclaimReady \/ RecoverPublishing \/ ReopenCommitted

Publish == \/ SavePublishing \/ BackupMember \/ BackupMove \/ PublishMember
           \/ PublishMove \/ PublishVerify \/ SaveCommitted
           \/ CleanupCommittedBackups

Rollback == \/ SaveAbandon \/ ClassifyRollback \/ RollbackMember
            \/ TakePublished \/ PutBack \/ RestoreBackup \/ RestoreVerify
            \/ UndoRestore \/ UnlinkStage \/ SaveRolledBack

Caller == \/ Prepare \/ FinishReadyDocumentSave \/ ResumeReady \/ Commit
          \/ Abandon \/ Drop

\* Steps of the processes that respect the journal and its lock.
Forge == Caller \/ Recover \/ Publish \/ Rollback

Environment == Crash \/ Settle \/ \E m \in Members : Compete(m)

Init ==
  /\ journal = NoDocument
  /\ fs \in [Members -> {[dest |-> f, stage |-> "none", backup |-> "none"] :
                          f \in {"none", "old"}}]
  /\ preimage = {}
  /\ doc = NoDocument /\ pc = "idle" /\ i = 0 /\ acts = NoActs
  /\ touched = {} /\ forecast = "none" /\ calm = FALSE

Next == Forge \/ Environment

\* A process that holds the lock keeps running, and an interrupted publication
\* is eventually reopened; nobody has to prepare, commit or stop failing.
Fairness == WF_vars(Publish \/ Rollback) /\ WF_vars(RecoverPublishing)

Spec == Init /\ [][Next]_vars /\ Fairness

-----------------------------------------------------------------------------
(* Properties. *)

PublishPCs == {"savePublishing", "backup", "backupMove", "publish",
               "publishMove", "publishVerify", "saveCommitted", "cleanup"}

RollbackPCs == {"saveAbandon", "classify", "rollback", "take", "putBack",
                "restore", "restoreVerify", "undoRestore", "unlink",
                "saveRolledBack"}

\* Every variable stays in its domain.
TypeOK ==
  /\ journal \in GenerationDocument
  /\ fs \in [Members -> [Paths -> Files]]
  /\ preimage \subseteq Members
  /\ doc \in GenerationDocument
  /\ pc \in {"idle", "readySaveError", "ready"} \cup PublishPCs \cup RollbackPCs
  /\ i \in 0 .. N
  /\ acts \in [Members -> RollbackAction]
  /\ touched \subseteq Members
  /\ forecast \in {"none", "Error"} \cup GenerationReclaimAction
  /\ calm \in BOOLEAN

Holds(m, p, f) == IF fs[m][p] = f THEN 1 ELSE 0

Copies(m, f) == Holds(m, "dest", f) + Holds(m, "stage", f) + Holds(m, "backup", f)

\* A Ready journal on disk owns an intact stage for every member and no backup,
\* whatever save failed or process died: it can always resume or be reclaimed
\* (finish_ready_document_save, and every early return before Publishing).
ReadyOwnsStages ==
  journal.phase = "Ready" =>
    \A m \in Members : fs[m]["stage"] = "new" /\ fs[m]["backup"] = "none"

\* Until Committed is durable, the old bytes of a destination that no
\* competitor changed exist as the destination or as its backup.
PreimageSurvives ==
  journal.phase \in {"Ready", "Publishing", "RolledBack"} =>
    \A m \in preimage \ touched : "old" \in {fs[m]["dest"], fs[m]["backup"]}

\* Publication and rollback never destroy a competitor's file, even one that
\* slips in between a check and its rename, and they destroy the old bytes
\* only once Committed is durable (no-replace renames, the evidence checks
\* after them, and restore_moved_after_evidence_mismatch).
DestroysOnlyItsOwn ==
  [][Publish \/ Rollback =>
       \A m \in Members :
         /\ Copies(m, "alien")' = Copies(m, "alien")
         /\ Copies(m, "old")' < Copies(m, "old") => journal.phase = "Committed"]_vars

\* A terminal journal means all or nothing: Committed leaves every destination
\* new, RolledBack leaves every destination at its preimage (apart from those
\* a competitor changed), no stage survives a terminal phase, and no backup
\* survives RolledBack.
AllOrNothing ==
  /\ journal.phase = "Committed" =>
       /\ \A m \in Members : fs[m]["stage"] = "none"
       /\ \A m \in Members \ touched : fs[m]["dest"] = "new"
  /\ journal.phase = "RolledBack" =>
       /\ \A m \in Members : PrivateAbsent(m)
       /\ \A m \in Members \ touched : fs[m]["dest"] = PreimageOf(m)

\* Wherever the publisher or an earlier rollback stopped, recovery recognises a
\* complete generation or can classify every member whose destination no
\* competitor changed: no crash or failed operation leaves ambiguous evidence.
Recoverable ==
  journal.phase = "Publishing" =>
    \/ PublishingIsComplete
    \/ \A m \in Members \ touched : ClassifyMember(m, "Prepared") # "Error"

\* The journal reports a member as abandoned only if a competitor did change
\* its destination.
AbandonedMeansConflict ==
  \A m \in Members : journal.step[m] = "Abandoned" => m \in touched

\* inspect_reclaim tells the truth: a recovery that meets no failure, crash or
\* competitor ends the way it was predicted, and a predicted refusal changes
\* nothing that would lift it.
ReclaimAsPredicted ==
  pc = "idle" =>
    /\ forecast \in {"AbandonReady", "RollBack"} =>
         journal.phase = "RolledBack" /\ ValidateRolledBack(journal)
    /\ forecast \in {"FinalizeCommitted", "CleanCommitted"} =>
         /\ journal.phase = "Committed" /\ ValidateCommitted(journal)
         /\ \A m \in Members : fs[m]["backup"] = "none"
    /\ forecast \in {"Error", "Nothing"} => InspectReclaim = forecast

\* A bound on the steps that remain of an operation at location l and member k:
\* at most five for each member it still has to publish, five for each it may
\* then have to roll back, and those around the loops.
StepsLeft(l, k) ==
  CASE l = "savePublishing" -> 12 * N + 12
    [] l = "backup" -> 12 * N - 6 * k + 11
    [] l = "backupMove" -> 12 * N - 6 * k + 10
    [] l = "publish" -> 12 * N - 6 * k + 9
    [] l = "publishMove" -> 12 * N - 6 * k + 8
    [] l = "publishVerify" -> 12 * N - 6 * k + 7
    [] l = "saveAbandon" -> 6 * N + 7
    [] l = "classify" -> 6 * N + 6
    [] l = "rollback" -> 6 * k + 5
    [] l = "take" -> 6 * k + 4
    [] l = "restore" -> 6 * k + 3
    [] l = "restoreVerify" -> 6 * k + 2
    [] l \in {"putBack", "undoRestore", "unlink"} -> 6 * k + 1
    [] l = "saveCommitted" -> N + 1
    [] l = "cleanup" -> N - k + 1
    [] l = "saveRolledBack" -> 1
    [] OTHER -> 0

\* A publication and what may follow it, the rollback or the cleanup, is never
\* repeated or resumed within one operation: whatever fails and whatever a
\* competitor does, each of its steps brings its return nearer.
OperationsEnd ==
  [][/\ Publish \/ Rollback => StepsLeft(pc, i)' < StepsLeft(pc, i)
     /\ Environment => StepsLeft(pc, i)' <= StepsLeft(pc, i)]_vars

\* Once failures, crashes and competitors stop, an interrupted publication that
\* no competitor disturbed reaches a terminal phase.
Converges ==
  (calm /\ touched = {} /\ journal.phase = "Publishing") ~>
    (journal.phase \in {"Committed", "RolledBack"})

-----------------------------------------------------------------------------
(* Refinement. *)

Live == [m \in Members |-> fs[m]["dest"]]

Retained ==
  \/ journal.phase \in {"Ready", "Publishing"}
  \/ \E m \in Members : ~PrivateAbsent(m)

Abstract ==
  INSTANCE Publication WITH phase <- journal.phase, dest <- Live, private <- Retained

\* Every rename, save and recovery of a generation is a step of the
\* all-or-nothing publication that its callers rely on, or changes nothing
\* they can see.
ImplementsPublication == Abstract!Spec

=============================================================================
