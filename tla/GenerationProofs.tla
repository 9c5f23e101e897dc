-------------------------- MODULE GenerationProofs --------------------------
(***************************************************************************)
(* Proofs about Generation for every number of members.                    *)
(*                                                                         *)
(* The safety properties are not inductive: they speak of the journal and  *)
(* the files, while what a step does depends on where the lock holder is.  *)
(* IInv adds, for every program location, what the private path names of   *)
(* every member hold, and what its destination holds unless a competitor   *)
(* changed it.                                                             *)
(***************************************************************************)
EXTENDS Generation, TLAPS

(* The four configurations a member passes through until a terminal phase. *)
IsStaged(m) ==
  fs[m]["stage"] = "new" /\ fs[m]["backup"] = "none" /\ fs[m]["dest"] = PreimageOf(m)

IsBackedUp(m) ==
  fs[m]["stage"] = "new" /\ fs[m]["backup"] = PreimageOf(m) /\ fs[m]["dest"] = "none"

IsPublished(m) ==
  fs[m]["stage"] = "none" /\ fs[m]["backup"] = PreimageOf(m) /\ fs[m]["dest"] = "new"

IsRestored(m) ==
  fs[m]["stage"] = "none" /\ fs[m]["backup"] = "none" /\ fs[m]["dest"] = PreimageOf(m)

(* What the durable phase says of the files. *)
ReadyInv ==
  journal.phase = "Ready" =>
    \A m \in Members : /\ fs[m]["stage"] = "new" /\ fs[m]["backup"] = "none"
                       /\ m \notin touched => IsStaged(m)

PublishingInv ==
  journal.phase = "Publishing" =>
    \A m \in Members \ touched :
      IsStaged(m) \/ IsBackedUp(m) \/ IsPublished(m) \/ IsRestored(m)

CommittedInv ==
  journal.phase = "Committed" =>
    \A m \in Members : /\ fs[m]["stage"] = "none"
                       /\ m \notin touched => fs[m]["dest"] = "new"

RolledBackInv ==
  journal.phase = "RolledBack" =>
    \A m \in Members : /\ PrivateAbsent(m)
                       /\ m \notin touched => IsRestored(m)

(* Where the lock holder is determines the durable phase. *)
PhaseInv ==
  /\ pc = "idle" => acts = NoActs
  /\ pc = "ready" => journal.phase = "Ready" /\ doc = journal
  /\ pc \in {"savePublishing", "saveAbandon"} =>
       journal.phase = "Ready" /\ doc.phase = "Publishing"
  /\ pc \in {"backup", "backupMove", "publish", "publishMove", "publishVerify",
             "classify", "rollback", "take", "putBack", "restore",
             "restoreVerify", "undoRestore", "unlink"} =>
       journal.phase = "Publishing"
  /\ pc = "saveCommitted" =>
       journal.phase = "Publishing" /\ doc.phase = "Committed"
  /\ pc = "saveRolledBack" =>
       journal.phase = "Publishing" /\ doc.phase = "RolledBack"
  /\ pc = "cleanup" => journal.phase = "Committed"
  /\ pc \in {"backup", "backupMove", "publish", "publishMove", "publishVerify",
             "cleanup", "rollback", "take", "putBack", "restore",
             "restoreVerify", "undoRestore", "unlink"} => i \in Members

(* The publication loop: members before i are published, later ones staged. *)
PublishInv ==
  pc \in {"backup", "backupMove", "publish", "publishMove", "publishVerify"} =>
    \A m \in Members :
      /\ m < i => /\ fs[m]["stage"] = "none" /\ fs[m]["backup"] = PreimageOf(m)
                  /\ m \notin touched => IsPublished(m)
      /\ m > i => /\ fs[m]["stage"] = "new" /\ fs[m]["backup"] = "none"
                  /\ m \notin touched => IsStaged(m)

CurrentInv ==
  /\ pc \in {"backup", "backupMove"} =>
       /\ fs[i]["stage"] = "new" /\ fs[i]["backup"] = "none"
       /\ i \notin touched => IsStaged(i)
       /\ pc = "backupMove" => i \in preimage
  /\ pc \in {"publish", "publishMove"} =>
       /\ fs[i]["stage"] = "new" /\ fs[i]["backup"] = PreimageOf(i)
       /\ i \notin touched => IsBackedUp(i)
  /\ pc = "publishVerify" =>
       /\ fs[i]["stage"] = "none" /\ fs[i]["backup"] = PreimageOf(i)
       /\ i \notin touched => IsPublished(i)
  /\ pc = "saveCommitted" =>
       \A m \in Members :
         /\ fs[m]["stage"] = "none"
         /\ m \notin touched => IsPublished(m)

(* The rollback loop: members after i are restored, and the classification   *)
(* of the others still describes their private path names.                   *)
Classified(m) ==
  /\ acts[m] = "AlreadyRestored" =>
       /\ PrivateAbsent(m)
       /\ m \notin touched => IsRestored(m)
  /\ acts[m] \in {"Untouched", "UntouchedConflict"} =>
       /\ fs[m]["stage"] \in {"none", "new"} /\ fs[m]["backup"] = "none"
       /\ m \notin touched => IsStaged(m)
  /\ acts[m] = "BackedUp" =>
       /\ fs[m]["stage"] = "new" /\ fs[m]["backup"] = "old" /\ m \in preimage
       /\ m \notin touched => IsBackedUp(m)
  /\ acts[m] = "PublishedExisting" =>
       /\ fs[m]["stage"] = "none" /\ fs[m]["backup"] = "old" /\ m \in preimage
       /\ m \notin touched => IsPublished(m)
  /\ acts[m] = "PublishedMissing" =>
       /\ PrivateAbsent(m) /\ m \notin preimage
       /\ m \notin touched => IsPublished(m)

RollbackInv ==
  /\ pc \in {"rollback", "take", "putBack", "restore", "restoreVerify",
             "undoRestore", "unlink"} =>
       \A m \in Members :
         /\ m < i => Classified(m)
         /\ m > i => /\ PrivateAbsent(m)
                     /\ m \notin touched => IsRestored(m)
  /\ pc = "rollback" => Classified(i)
  /\ pc = "take" =>
       /\ acts[i] \in {"PublishedExisting", "PublishedMissing"}
       /\ Classified(i)
  /\ pc = "putBack" => i \in touched
  /\ pc = "restore" =>
       /\ fs[i]["stage"] = "new" /\ i \in preimage
       /\ fs[i]["backup"] = "old"
       /\ i \notin touched => IsBackedUp(i)
  /\ pc \in {"restoreVerify", "unlink"} =>
       /\ fs[i]["stage"] = "new" /\ fs[i]["backup"] = "none"
       /\ i \notin touched => IsStaged(i)
  /\ pc = "undoRestore" => i \in touched
  /\ pc = "saveRolledBack" =>
       \A m \in Members : /\ PrivateAbsent(m)
                          /\ m \notin touched => IsRestored(m)

ConflictInv ==
  \A m \in Members : /\ journal.step[m] = "Abandoned" => m \in touched
                     /\ doc.step[m] = "Abandoned" => m \in touched
                     /\ acts[m] = "UntouchedConflict" => m \in touched

IInv ==
  /\ TypeOK
  /\ ReadyInv /\ PublishingInv /\ CommittedInv /\ RolledBackInv
  /\ PhaseInv /\ PublishInv /\ CurrentInv /\ RollbackInv
  /\ ConflictInv

-----------------------------------------------------------------------------
(* What the file operations do. *)

LEMMA MovedFiles ==
  ASSUME TypeOK, NEW m \in Members, NEW from \in Paths, NEW to \in Paths,
         from # to, fs' = Moved(m, from, to)
  PROVE  /\ fs' \in [Members -> [Paths -> Files]]
         /\ fs'[m][to] = fs[m][from]
         /\ fs'[m][from] = "none"
         /\ \A p \in Paths \ {from, to} : fs'[m][p] = fs[m][p]
         /\ \A k \in Members \ {m} : fs'[k] = fs[k]
  BY DEF TypeOK, Moved, Files

LEMMA UnlinkedFiles ==
  ASSUME TypeOK, NEW m \in Members, NEW path \in Paths, fs' = Unlinked(m, path)
  PROVE  /\ fs' \in [Members -> [Paths -> Files]]
         /\ fs'[m][path] = "none"
         /\ \A p \in Paths \ {path} : fs'[m][p] = fs[m][p]
         /\ \A k \in Members \ {m} : fs'[k] = fs[k]
  BY DEF TypeOK, Unlinked, Files

LEMMA InspectReclaimType == InspectReclaim \in {"Error"} \cup GenerationReclaimAction
  BY DEF InspectReclaim, GenerationReclaimAction

-----------------------------------------------------------------------------
(* Every action preserves the invariant. *)

LEMMA InitInv == Init => IInv
  <1> SUFFICES ASSUME Init PROVE IInv
    OBVIOUS
  <1> USE DEF Init, NoDocument, Document, NoActs
  <1>1. TypeOK
    <2>1. fs \in [Members -> [Paths -> Files]]
      BY DEF Paths, Files
    <2>2. journal \in GenerationDocument /\ doc \in GenerationDocument
      BY DEF GenerationDocument, GenerationPhase, MemberPublicationStep
    <2>3. acts \in [Members -> RollbackAction]
      BY DEF RollbackAction
    <2>4. i \in 0 .. N
      BY NAssumption
    <2> QED BY <2>1, <2>2, <2>3, <2>4 DEF TypeOK
  <1>2. ReadyInv /\ PublishingInv /\ CommittedInv /\ RolledBackInv
    BY DEF ReadyInv, PublishingInv, CommittedInv, RolledBackInv
  <1>3. PhaseInv /\ PublishInv /\ CurrentInv /\ RollbackInv
    BY DEF PhaseInv, PublishInv, CurrentInv, RollbackInv
  <1>4. ConflictInv
    BY DEF ConflictInv
  <1> QED BY <1>1, <1>2, <1>3, <1>4 DEF IInv

LEMMA FinishReadyDocumentSaveInv == ASSUME IInv, FinishReadyDocumentSave PROVE IInv'
  <1> USE DEF FinishReadyDocumentSave, IInv, Keep, Goto, Return, NoFault, Fault, FailsTo, SetStep, PreimageOf, InPhase
  <1>1. TypeOK'
    BY NAssumption, InspectReclaimType
       DEF TypeOK, GenerationDocument, GenerationPhase, MemberPublicationStep,
           NoDocument, Document, NoActs, RollbackAction, PublishPCs, RollbackPCs
  <1>2. (ReadyInv /\ PublishingInv /\ CommittedInv /\ RolledBackInv)'
    BY DEF PhaseInv, ReadyInv, PublishingInv, CommittedInv, RolledBackInv,
       CurrentInv, RollbackInv, IsStaged, IsBackedUp, IsPublished, IsRestored, PrivateAbsent
  <1>3. (PhaseInv /\ PublishInv /\ CurrentInv)'
    BY NAssumption DEF TypeOK, PhaseInv, ReadyInv, PublishInv, CurrentInv, Members, IsStaged, IsBackedUp, IsPublished, IsRestored, PrivateAbsent
  <1>4. RollbackInv'
    BY DEF PhaseInv, RollbackInv, Classified, IsStaged, IsBackedUp, IsPublished, IsRestored, PrivateAbsent
  <1>5. ConflictInv'
    BY DEF ConflictInv, PhaseInv, TypeOK, GenerationDocument, NoDocument, Document, NoActs
  <1> QED BY <1>1, <1>2, <1>3, <1>4, <1>5

LEMMA ResumeReadyInv == ASSUME IInv, ResumeReady PROVE IInv'
  <1> USE DEF ResumeReady, IInv, Keep, Goto, Return, NoFault, Fault, FailsTo, SetStep, PreimageOf, InPhase
  <1>1. TypeOK'
    BY NAssumption, InspectReclaimType
       DEF TypeOK, GenerationDocument, GenerationPhase, MemberPublicationStep,
           NoDocument, Document, NoActs, RollbackAction, PublishPCs, RollbackPCs
  <1>2. (ReadyInv /\ PublishingInv /\ CommittedInv /\ RolledBackInv)'
    BY DEF PhaseInv, ReadyInv, PublishingInv, CommittedInv, RolledBackInv,
       CurrentInv, RollbackInv, IsStaged, IsBackedUp, IsPublished, IsRestored, PrivateAbsent
  <1>3. (PhaseInv /\ PublishInv /\ CurrentInv)'
    BY NAssumption DEF TypeOK, PhaseInv, ReadyInv, PublishInv, CurrentInv, Members, IsStaged, IsBackedUp, IsPublished, IsRestored, PrivateAbsent
  <1>4. RollbackInv'
    BY DEF PhaseInv, RollbackInv, Classified, IsStaged, IsBackedUp, IsPublished, IsRestored, PrivateAbsent
  <1>5. ConflictInv'
    BY DEF ConflictInv, PhaseInv, TypeOK, GenerationDocument, NoDocument, Document, NoActs
  <1> QED BY <1>1, <1>2, <1>3, <1>4, <1>5

LEMMA ReclaimReadyInv == ASSUME IInv, ReclaimReady PROVE IInv'
  <1> USE DEF ReclaimReady, IInv, Keep, Goto, Return, NoFault, Fault, FailsTo, SetStep, PreimageOf, InPhase
  <1>1. TypeOK'
    <2>1. journal' \in GenerationDocument
      BY DEF TypeOK
    <2>2. doc' \in GenerationDocument
      BY DEF TypeOK, PhaseInv, GenerationDocument, GenerationPhase,
         MemberPublicationStep, NoDocument, Document
    <2>3. i' \in 0 .. N
      BY NAssumption DEF TypeOK
    <2>4. acts' \in [Members -> RollbackAction]
      BY DEF TypeOK, NoActs, RollbackAction
    <2>5. pc' \in {"idle", "readySaveError", "ready"} \cup PublishPCs \cup RollbackPCs
      BY DEF TypeOK, PublishPCs, RollbackPCs
    <2>6. forecast' \in {"none", "Error"} \cup GenerationReclaimAction
      BY InspectReclaimType DEF TypeOK
    <2> QED BY <2>1, <2>2, <2>3, <2>4, <2>5, <2>6 DEF TypeOK
  <1>2. (ReadyInv /\ PublishingInv /\ CommittedInv /\ RolledBackInv)'
    BY DEF PhaseInv, ReadyInv, PublishingInv, CommittedInv, RolledBackInv,
       CurrentInv, RollbackInv, IsStaged, IsBackedUp, IsPublished, IsRestored, PrivateAbsent
  <1>3. (PhaseInv /\ PublishInv /\ CurrentInv)'
    BY NAssumption DEF TypeOK, PhaseInv, ReadyInv, PublishInv, CurrentInv, Members, IsStaged, IsBackedUp, IsPublished, IsRestored, PrivateAbsent
  <1>4. RollbackInv'
    BY DEF PhaseInv, RollbackInv, Classified, IsStaged, IsBackedUp, IsPublished, IsRestored, PrivateAbsent
  <1>5. ConflictInv'
    BY DEF ConflictInv, PhaseInv, TypeOK, GenerationDocument, NoDocument, Document, NoActs
  <1> QED BY <1>1, <1>2, <1>3, <1>4, <1>5

LEMMA RecoverPublishingInv == ASSUME IInv, RecoverPublishing PROVE IInv'
  <1> USE DEF RecoverPublishing, IInv, Keep, Goto, Return, NoFault, Fault, FailsTo, SetStep, PreimageOf, InPhase, PublishingIsComplete
  <1>1. TypeOK'
    <2>1. journal' \in GenerationDocument
      BY DEF TypeOK
    <2>2. doc' \in GenerationDocument
      BY DEF TypeOK, PhaseInv, GenerationDocument, GenerationPhase,
         MemberPublicationStep, NoDocument, Document
    <2>3. i' \in 0 .. N
      BY NAssumption DEF TypeOK
    <2>4. acts' \in [Members -> RollbackAction]
      BY DEF TypeOK, NoActs, RollbackAction
    <2>5. pc' \in {"idle", "readySaveError", "ready"} \cup PublishPCs \cup RollbackPCs
      BY DEF TypeOK, PublishPCs, RollbackPCs
    <2>6. forecast' \in {"none", "Error"} \cup GenerationReclaimAction
      BY InspectReclaimType DEF TypeOK
    <2> QED BY <2>1, <2>2, <2>3, <2>4, <2>5, <2>6 DEF TypeOK
  <1>2. (ReadyInv /\ PublishingInv /\ CommittedInv /\ RolledBackInv)'
    BY DEF PhaseInv, ReadyInv, PublishingInv, CommittedInv, RolledBackInv,
       CurrentInv, RollbackInv, IsStaged, IsBackedUp, IsPublished, IsRestored, PrivateAbsent
  <1>3. (PhaseInv /\ PublishInv /\ CurrentInv)'
    <2>1. PhaseInv' /\ PublishInv'
      BY DEF PhaseInv, PublishInv, Document
    <2>2. CurrentInv'
      BY DEF CurrentInv, IsStaged, IsBackedUp, IsPublished, IsRestored, PrivateAbsent
    <2> QED BY <2>1, <2>2
  <1>4. RollbackInv'
    BY DEF PhaseInv, RollbackInv, Classified, IsStaged, IsBackedUp, IsPublished, IsRestored, PrivateAbsent
  <1>5. ConflictInv'
    BY DEF ConflictInv, PhaseInv, TypeOK, GenerationDocument, NoDocument, Document, NoActs
  <1> QED BY <1>1, <1>2, <1>3, <1>4, <1>5

LEMMA ReopenCommittedInv == ASSUME IInv, ReopenCommitted PROVE IInv'
  <1> USE DEF ReopenCommitted, IInv, Keep, Goto, Return, NoFault, Fault, FailsTo, SetStep, PreimageOf, InPhase
  <1>1. TypeOK'
    <2>1. journal' \in GenerationDocument
      BY DEF TypeOK
    <2>2. doc' \in GenerationDocument
      BY DEF TypeOK, PhaseInv, GenerationDocument, GenerationPhase,
         MemberPublicationStep, NoDocument, Document
    <2>3. i' \in 0 .. N
      BY NAssumption DEF TypeOK
    <2>4. acts' \in [Members -> RollbackAction]
      BY DEF TypeOK, NoActs, RollbackAction
    <2>5. pc' \in {"idle", "readySaveError", "ready"} \cup PublishPCs \cup RollbackPCs
      BY DEF TypeOK, PublishPCs, RollbackPCs
    <2>6. forecast' \in {"none", "Error"} \cup GenerationReclaimAction
      BY InspectReclaimType DEF TypeOK
    <2> QED BY <2>1, <2>2, <2>3, <2>4, <2>5, <2>6 DEF TypeOK
  <1>2. (ReadyInv /\ PublishingInv /\ CommittedInv /\ RolledBackInv)'
    BY DEF PhaseInv, ReadyInv, PublishingInv, CommittedInv, RolledBackInv,
       CurrentInv, RollbackInv, IsStaged, IsBackedUp, IsPublished, IsRestored, PrivateAbsent
  <1>3. (PhaseInv /\ PublishInv /\ CurrentInv)'
    BY NAssumption DEF TypeOK, PhaseInv, ReadyInv, PublishInv, CurrentInv, Members, IsStaged, IsBackedUp, IsPublished, IsRestored, PrivateAbsent
  <1>4. RollbackInv'
    BY DEF PhaseInv, RollbackInv, Classified, IsStaged, IsBackedUp, IsPublished, IsRestored, PrivateAbsent
  <1>5. ConflictInv'
    BY DEF ConflictInv, PhaseInv, TypeOK, GenerationDocument, NoDocument, Document, NoActs
  <1> QED BY <1>1, <1>2, <1>3, <1>4, <1>5

LEMMA CommitInv == ASSUME IInv, Commit PROVE IInv'
  <1> USE DEF Commit, IInv, Keep, Goto, Return, NoFault, Fault, FailsTo, SetStep, PreimageOf, InPhase
  <1>1. TypeOK'
    BY NAssumption, InspectReclaimType
       DEF TypeOK, GenerationDocument, GenerationPhase, MemberPublicationStep,
           NoDocument, Document, NoActs, RollbackAction, PublishPCs, RollbackPCs
  <1>2. (ReadyInv /\ PublishingInv /\ CommittedInv /\ RolledBackInv)'
    BY DEF PhaseInv, ReadyInv, PublishingInv, CommittedInv, RolledBackInv,
       CurrentInv, RollbackInv, IsStaged, IsBackedUp, IsPublished, IsRestored, PrivateAbsent
  <1>3. (PhaseInv /\ PublishInv /\ CurrentInv)'
    BY NAssumption DEF TypeOK, PhaseInv, ReadyInv, PublishInv, CurrentInv, Members, IsStaged, IsBackedUp, IsPublished, IsRestored, PrivateAbsent
  <1>4. RollbackInv'
    BY DEF PhaseInv, RollbackInv, Classified, IsStaged, IsBackedUp, IsPublished, IsRestored, PrivateAbsent
  <1>5. ConflictInv'
    BY DEF ConflictInv, PhaseInv, TypeOK, GenerationDocument, NoDocument, Document, NoActs
  <1> QED BY <1>1, <1>2, <1>3, <1>4, <1>5

LEMMA AbandonInv == ASSUME IInv, Abandon PROVE IInv'
  <1> USE DEF Abandon, IInv, Keep, Goto, Return, NoFault, Fault, FailsTo, SetStep, PreimageOf, InPhase
  <1>1. TypeOK'
    BY NAssumption, InspectReclaimType
       DEF TypeOK, GenerationDocument, GenerationPhase, MemberPublicationStep,
           NoDocument, Document, NoActs, RollbackAction, PublishPCs, RollbackPCs
  <1>2. (ReadyInv /\ PublishingInv /\ CommittedInv /\ RolledBackInv)'
    BY DEF PhaseInv, ReadyInv, PublishingInv, CommittedInv, RolledBackInv,
       CurrentInv, RollbackInv, IsStaged, IsBackedUp, IsPublished, IsRestored, PrivateAbsent
  <1>3. (PhaseInv /\ PublishInv /\ CurrentInv)'
    BY NAssumption DEF TypeOK, PhaseInv, ReadyInv, PublishInv, CurrentInv, Members, IsStaged, IsBackedUp, IsPublished, IsRestored, PrivateAbsent
  <1>4. RollbackInv'
    BY DEF PhaseInv, RollbackInv, Classified, IsStaged, IsBackedUp, IsPublished, IsRestored, PrivateAbsent
  <1>5. ConflictInv'
    BY DEF ConflictInv, PhaseInv, TypeOK, GenerationDocument, NoDocument, Document, NoActs
  <1> QED BY <1>1, <1>2, <1>3, <1>4, <1>5

LEMMA DropInv == ASSUME IInv, Drop PROVE IInv'
  <1> USE DEF Drop, IInv, Keep, Goto, Return, NoFault, Fault, FailsTo, SetStep, PreimageOf, InPhase
  <1>1. TypeOK'
    BY NAssumption, InspectReclaimType
       DEF TypeOK, GenerationDocument, GenerationPhase, MemberPublicationStep,
           NoDocument, Document, NoActs, RollbackAction, PublishPCs, RollbackPCs
  <1>2. (ReadyInv /\ PublishingInv /\ CommittedInv /\ RolledBackInv)'
    BY DEF PhaseInv, ReadyInv, PublishingInv, CommittedInv, RolledBackInv,
       CurrentInv, RollbackInv, IsStaged, IsBackedUp, IsPublished, IsRestored, PrivateAbsent
  <1>3. (PhaseInv /\ PublishInv /\ CurrentInv)'
    BY NAssumption DEF TypeOK, PhaseInv, ReadyInv, PublishInv, CurrentInv, Members, IsStaged, IsBackedUp, IsPublished, IsRestored, PrivateAbsent
  <1>4. RollbackInv'
    BY DEF PhaseInv, RollbackInv, Classified, IsStaged, IsBackedUp, IsPublished, IsRestored, PrivateAbsent
  <1>5. ConflictInv'
    BY DEF ConflictInv, PhaseInv, TypeOK, GenerationDocument, NoDocument, Document, NoActs
  <1> QED BY <1>1, <1>2, <1>3, <1>4, <1>5

LEMMA SavePublishingInv == ASSUME IInv, SavePublishing PROVE IInv'
  <1> USE DEF SavePublishing, IInv, Keep, Goto, Return, NoFault, Fault, FailsTo, SetStep, PreimageOf, InPhase, SaveState
  <1>1. TypeOK'
    BY NAssumption, InspectReclaimType
       DEF TypeOK, GenerationDocument, GenerationPhase, MemberPublicationStep,
           NoDocument, Document, NoActs, RollbackAction, PublishPCs, RollbackPCs
  <1>2. (ReadyInv /\ PublishingInv /\ CommittedInv /\ RolledBackInv)'
    BY DEF PhaseInv, ReadyInv, PublishingInv, CommittedInv, RolledBackInv,
       CurrentInv, RollbackInv, IsStaged, IsBackedUp, IsPublished, IsRestored, PrivateAbsent
  <1>3. (PhaseInv /\ PublishInv /\ CurrentInv)'
    BY NAssumption DEF TypeOK, PhaseInv, ReadyInv, PublishInv, CurrentInv, Members, IsStaged, IsBackedUp, IsPublished, IsRestored, PrivateAbsent
  <1>4. RollbackInv'
    BY DEF PhaseInv, RollbackInv, Classified, IsStaged, IsBackedUp, IsPublished, IsRestored, PrivateAbsent
  <1>5. ConflictInv'
    BY DEF ConflictInv, PhaseInv, TypeOK, GenerationDocument, NoDocument, Document, NoActs
  <1> QED BY <1>1, <1>2, <1>3, <1>4, <1>5

LEMMA SaveAbandonInv == ASSUME IInv, SaveAbandon PROVE IInv'
  <1> USE DEF SaveAbandon, IInv, Keep, Goto, Return, NoFault, Fault, FailsTo, SetStep, PreimageOf, InPhase, SaveState
  <1>1. TypeOK'
    BY NAssumption, InspectReclaimType
       DEF TypeOK, GenerationDocument, GenerationPhase, MemberPublicationStep,
           NoDocument, Document, NoActs, RollbackAction, PublishPCs, RollbackPCs
  <1>2. (ReadyInv /\ PublishingInv /\ CommittedInv /\ RolledBackInv)'
    BY DEF PhaseInv, ReadyInv, PublishingInv, CommittedInv, RolledBackInv,
       CurrentInv, RollbackInv, IsStaged, IsBackedUp, IsPublished, IsRestored, PrivateAbsent
  <1>3. (PhaseInv /\ PublishInv /\ CurrentInv)'
    BY NAssumption DEF TypeOK, PhaseInv, ReadyInv, PublishInv, CurrentInv, Members, IsStaged, IsBackedUp, IsPublished, IsRestored, PrivateAbsent
  <1>4. RollbackInv'
    BY DEF PhaseInv, RollbackInv, Classified, IsStaged, IsBackedUp, IsPublished, IsRestored, PrivateAbsent
  <1>5. ConflictInv'
    BY DEF ConflictInv, PhaseInv, TypeOK, GenerationDocument, NoDocument, Document, NoActs
  <1> QED BY <1>1, <1>2, <1>3, <1>4, <1>5

LEMMA BackupMemberInv == ASSUME IInv, BackupMember PROVE IInv'
  <1> USE DEF BackupMember, IInv, Keep, Goto, Return, NoFault, Fault, FailsTo, SetStep, PreimageOf, InPhase
  <1>1. TypeOK'
    <2>1. journal' \in GenerationDocument
      BY DEF TypeOK
    <2>2. doc' \in GenerationDocument
      BY DEF TypeOK, PhaseInv, GenerationDocument, GenerationPhase,
         MemberPublicationStep, NoDocument, Document
    <2>3. i' \in 0 .. N
      BY NAssumption DEF TypeOK
    <2>4. acts' \in [Members -> RollbackAction]
      BY DEF TypeOK, NoActs, RollbackAction
    <2>5. pc' \in {"idle", "readySaveError", "ready"} \cup PublishPCs \cup RollbackPCs
      BY DEF TypeOK, PublishPCs, RollbackPCs
    <2>6. forecast' \in {"none", "Error"} \cup GenerationReclaimAction
      BY InspectReclaimType DEF TypeOK
    <2> QED BY <2>1, <2>2, <2>3, <2>4, <2>5, <2>6 DEF TypeOK
  <1>2. (ReadyInv /\ PublishingInv /\ CommittedInv /\ RolledBackInv)'
    BY DEF PhaseInv, ReadyInv, PublishingInv, CommittedInv, RolledBackInv,
       CurrentInv, RollbackInv, IsStaged, IsBackedUp, IsPublished, IsRestored, PrivateAbsent
  <1>3. (PhaseInv /\ PublishInv /\ CurrentInv)'
    BY NAssumption DEF TypeOK, PhaseInv, ReadyInv, PublishInv, CurrentInv, Members, IsStaged, IsBackedUp, IsPublished, IsRestored, PrivateAbsent
  <1>4. RollbackInv'
    BY DEF PhaseInv, RollbackInv, Classified, IsStaged, IsBackedUp, IsPublished, IsRestored, PrivateAbsent
  <1>5. ConflictInv'
    BY DEF ConflictInv, PhaseInv, TypeOK, GenerationDocument, NoDocument, Document, NoActs
  <1> QED BY <1>1, <1>2, <1>3, <1>4, <1>5

LEMMA PublishMemberInv == ASSUME IInv, PublishMember PROVE IInv'
  <1> USE DEF PublishMember, IInv, Keep, Goto, Return, NoFault, Fault, FailsTo, SetStep, PreimageOf, InPhase
  <1>1. TypeOK'
    BY NAssumption, InspectReclaimType
       DEF TypeOK, GenerationDocument, GenerationPhase, MemberPublicationStep,
           NoDocument, Document, NoActs, RollbackAction, PublishPCs, RollbackPCs
  <1>2. (ReadyInv /\ PublishingInv /\ CommittedInv /\ RolledBackInv)'
    BY DEF PhaseInv, ReadyInv, PublishingInv, CommittedInv, RolledBackInv,
       CurrentInv, RollbackInv, IsStaged, IsBackedUp, IsPublished, IsRestored, PrivateAbsent
  <1>3. (PhaseInv /\ PublishInv /\ CurrentInv)'
    BY NAssumption DEF TypeOK, PhaseInv, ReadyInv, PublishInv, CurrentInv, Members, IsStaged, IsBackedUp, IsPublished, IsRestored, PrivateAbsent
  <1>4. RollbackInv'
    BY DEF PhaseInv, RollbackInv, Classified, IsStaged, IsBackedUp, IsPublished, IsRestored, PrivateAbsent
  <1>5. ConflictInv'
    BY DEF ConflictInv, PhaseInv, TypeOK, GenerationDocument, NoDocument, Document, NoActs
  <1> QED BY <1>1, <1>2, <1>3, <1>4, <1>5

LEMMA PublishVerifyInv == ASSUME IInv, PublishVerify PROVE IInv'
  <1> USE DEF PublishVerify, IInv, Keep, Goto, Return, NoFault, Fault, FailsTo, SetStep, PreimageOf, InPhase
  <1>1. TypeOK'
    <2>1. journal' \in GenerationDocument
      BY DEF TypeOK
    <2>2. doc' \in GenerationDocument
      BY DEF TypeOK, PhaseInv, GenerationDocument, GenerationPhase,
         MemberPublicationStep, NoDocument, Document
    <2>3. i' \in 0 .. N
      BY NAssumption DEF TypeOK
    <2>4. acts' \in [Members -> RollbackAction]
      BY DEF TypeOK, NoActs, RollbackAction
    <2>5. pc' \in {"idle", "readySaveError", "ready"} \cup PublishPCs \cup RollbackPCs
      BY DEF TypeOK, PublishPCs, RollbackPCs
    <2>6. forecast' \in {"none", "Error"} \cup GenerationReclaimAction
      BY InspectReclaimType DEF TypeOK
    <2> QED BY <2>1, <2>2, <2>3, <2>4, <2>5, <2>6 DEF TypeOK
  <1>2. (ReadyInv /\ PublishingInv /\ CommittedInv /\ RolledBackInv)'
    BY DEF PhaseInv, ReadyInv, PublishingInv, CommittedInv, RolledBackInv,
       CurrentInv, RollbackInv, IsStaged, IsBackedUp, IsPublished, IsRestored, PrivateAbsent
  <1>3. (PhaseInv /\ PublishInv /\ CurrentInv)'
    BY NAssumption DEF TypeOK, PhaseInv, ReadyInv, PublishInv, CurrentInv, Members, IsStaged, IsBackedUp, IsPublished, IsRestored, PrivateAbsent
  <1>4. RollbackInv'
    BY DEF PhaseInv, RollbackInv, Classified, IsStaged, IsBackedUp, IsPublished, IsRestored, PrivateAbsent
  <1>5. ConflictInv'
    BY DEF ConflictInv, PhaseInv, TypeOK, GenerationDocument, NoDocument, Document, NoActs
  <1> QED BY <1>1, <1>2, <1>3, <1>4, <1>5

LEMMA SaveCommittedInv == ASSUME IInv, SaveCommitted PROVE IInv'
  <1> USE DEF SaveCommitted, IInv, Keep, Goto, Return, NoFault, Fault, FailsTo, SetStep, PreimageOf, InPhase, SaveState
  <1>1. TypeOK'
    BY NAssumption, InspectReclaimType
       DEF TypeOK, GenerationDocument, GenerationPhase, MemberPublicationStep,
           NoDocument, Document, NoActs, RollbackAction, PublishPCs, RollbackPCs
  <1>2. (ReadyInv /\ PublishingInv /\ CommittedInv /\ RolledBackInv)'
    BY DEF PhaseInv, ReadyInv, PublishingInv, CommittedInv, RolledBackInv,
       CurrentInv, RollbackInv, IsStaged, IsBackedUp, IsPublished, IsRestored, PrivateAbsent
  <1>3. (PhaseInv /\ PublishInv /\ CurrentInv)'
    BY NAssumption DEF TypeOK, PhaseInv, ReadyInv, PublishInv, CurrentInv, Members, IsStaged, IsBackedUp, IsPublished, IsRestored, PrivateAbsent
  <1>4. RollbackInv'
    BY DEF PhaseInv, RollbackInv, Classified, IsStaged, IsBackedUp, IsPublished, IsRestored, PrivateAbsent
  <1>5. ConflictInv'
    BY DEF ConflictInv, PhaseInv, TypeOK, GenerationDocument, NoDocument, Document, NoActs
  <1> QED BY <1>1, <1>2, <1>3, <1>4, <1>5

LEMMA SaveRolledBackInv == ASSUME IInv, SaveRolledBack PROVE IInv'
  <1> USE DEF SaveRolledBack, IInv, Keep, Goto, Return, NoFault, Fault, FailsTo, SetStep, PreimageOf, InPhase, SaveState
  <1>1. TypeOK'
    BY NAssumption, InspectReclaimType
       DEF TypeOK, GenerationDocument, GenerationPhase, MemberPublicationStep,
           NoDocument, Document, NoActs, RollbackAction, PublishPCs, RollbackPCs
  <1>2. (ReadyInv /\ PublishingInv /\ CommittedInv /\ RolledBackInv)'
    BY DEF PhaseInv, ReadyInv, PublishingInv, CommittedInv, RolledBackInv,
       CurrentInv, RollbackInv, IsStaged, IsBackedUp, IsPublished, IsRestored, PrivateAbsent
  <1>3. (PhaseInv /\ PublishInv /\ CurrentInv)'
    BY NAssumption DEF TypeOK, PhaseInv, ReadyInv, PublishInv, CurrentInv, Members, IsStaged, IsBackedUp, IsPublished, IsRestored, PrivateAbsent
  <1>4. RollbackInv'
    BY DEF PhaseInv, RollbackInv, Classified, IsStaged, IsBackedUp, IsPublished, IsRestored, PrivateAbsent
  <1>5. ConflictInv'
    BY DEF ConflictInv, PhaseInv, TypeOK, GenerationDocument, NoDocument, Document, NoActs
  <1> QED BY <1>1, <1>2, <1>3, <1>4, <1>5

LEMMA RestoreVerifyInv == ASSUME IInv, RestoreVerify PROVE IInv'
  <1> USE DEF RestoreVerify, IInv, Keep, Goto, Return, NoFault, Fault, FailsTo, SetStep, PreimageOf, InPhase
  <1>1. TypeOK'
    BY NAssumption, InspectReclaimType
       DEF TypeOK, GenerationDocument, GenerationPhase, MemberPublicationStep,
           NoDocument, Document, NoActs, RollbackAction, PublishPCs, RollbackPCs
  <1>2. (ReadyInv /\ PublishingInv /\ CommittedInv /\ RolledBackInv)'
    BY DEF PhaseInv, ReadyInv, PublishingInv, CommittedInv, RolledBackInv,
       CurrentInv, RollbackInv, IsStaged, IsBackedUp, IsPublished, IsRestored, PrivateAbsent
  <1>3. (PhaseInv /\ PublishInv /\ CurrentInv)'
    BY NAssumption DEF TypeOK, PhaseInv, ReadyInv, PublishInv, CurrentInv, Members, IsStaged, IsBackedUp, IsPublished, IsRestored, PrivateAbsent
  <1>4. RollbackInv'
    BY DEF PhaseInv, RollbackInv, Classified, IsStaged, IsBackedUp, IsPublished, IsRestored, PrivateAbsent
  <1>5. ConflictInv'
    BY DEF ConflictInv, PhaseInv, TypeOK, GenerationDocument, NoDocument, Document, NoActs
  <1> QED BY <1>1, <1>2, <1>3, <1>4, <1>5

LEMMA CrashInv == ASSUME IInv, Crash PROVE IInv'
  <1> USE DEF Crash, IInv, Keep, Goto, Return, NoFault, Fault, FailsTo, SetStep, PreimageOf, InPhase
  <1>1. TypeOK'
    BY NAssumption, InspectReclaimType
       DEF TypeOK, GenerationDocument, GenerationPhase, MemberPublicationStep,
           NoDocument, Document, NoActs, RollbackAction, PublishPCs, RollbackPCs
  <1>2. (ReadyInv /\ PublishingInv /\ CommittedInv /\ RolledBackInv)'
    BY DEF PhaseInv, ReadyInv, PublishingInv, CommittedInv, RolledBackInv,
       CurrentInv, RollbackInv, IsStaged, IsBackedUp, IsPublished, IsRestored, PrivateAbsent
  <1>3. (PhaseInv /\ PublishInv /\ CurrentInv)'
    BY NAssumption DEF TypeOK, PhaseInv, ReadyInv, PublishInv, CurrentInv, Members, IsStaged, IsBackedUp, IsPublished, IsRestored, PrivateAbsent
  <1>4. RollbackInv'
    BY DEF PhaseInv, RollbackInv, Classified, IsStaged, IsBackedUp, IsPublished, IsRestored, PrivateAbsent
  <1>5. ConflictInv'
    BY DEF ConflictInv, PhaseInv, TypeOK, GenerationDocument, NoDocument, Document, NoActs
  <1> QED BY <1>1, <1>2, <1>3, <1>4, <1>5

LEMMA SettleInv == ASSUME IInv, Settle PROVE IInv'
  <1> USE DEF Settle, IInv, Keep, Goto, Return, NoFault, Fault, FailsTo, SetStep, PreimageOf, InPhase, local
  <1>1. TypeOK'
    BY NAssumption, InspectReclaimType
       DEF TypeOK, GenerationDocument, GenerationPhase, MemberPublicationStep,
           NoDocument, Document, NoActs, RollbackAction, PublishPCs, RollbackPCs
  <1>2. (ReadyInv /\ PublishingInv /\ CommittedInv /\ RolledBackInv)'
    BY DEF PhaseInv, ReadyInv, PublishingInv, CommittedInv, RolledBackInv,
       CurrentInv, RollbackInv, IsStaged, IsBackedUp, IsPublished, IsRestored, PrivateAbsent
  <1>3. (PhaseInv /\ PublishInv /\ CurrentInv)'
    BY NAssumption DEF TypeOK, PhaseInv, ReadyInv, PublishInv, CurrentInv, Members, IsStaged, IsBackedUp, IsPublished, IsRestored, PrivateAbsent
  <1>4. RollbackInv'
    BY DEF PhaseInv, RollbackInv, Classified, IsStaged, IsBackedUp, IsPublished, IsRestored, PrivateAbsent
  <1>5. ConflictInv'
    BY DEF ConflictInv, PhaseInv, TypeOK, GenerationDocument, NoDocument, Document, NoActs
  <1> QED BY <1>1, <1>2, <1>3, <1>4, <1>5

(* Returning forgets the local state, so only the durable part matters. *)
LEMMA ReturnInv ==
  ASSUME IInv, Return, UNCHANGED <<journal, preimage, touched, calm>>,
         NoFault \/ Fault, fs' \in [Members -> [Paths -> Files]],
         (ReadyInv /\ PublishingInv /\ CommittedInv /\ RolledBackInv)'
  PROVE  IInv'
  <1> USE DEF IInv, Return, NoFault, Fault
  <1>1. TypeOK'
    BY NAssumption DEF TypeOK, NoDocument, Document, NoActs, GenerationDocument,
       GenerationPhase, MemberPublicationStep, RollbackAction
  <1>2. (PhaseInv /\ PublishInv /\ CurrentInv /\ RollbackInv)'
    BY DEF PhaseInv, PublishInv, CurrentInv, RollbackInv
  <1>3. ConflictInv'
    BY DEF ConflictInv, NoDocument, Document, NoActs
  <1> QED BY <1>1, <1>2, <1>3

LEMMA ReturnUnchangedInv ==
  ASSUME IInv, Return, Keep, NoFault \/ Fault, UNCHANGED fs
  PROVE  IInv'
  <1> USE DEF IInv, Keep
  <1>1. (ReadyInv /\ PublishingInv /\ CommittedInv /\ RolledBackInv)'
    BY DEF ReadyInv, PublishingInv, CommittedInv, RolledBackInv, PreimageOf, IsStaged, IsBackedUp, IsPublished, IsRestored, PrivateAbsent
  <1> QED BY <1>1, ReturnInv DEF TypeOK

(* Any failed step of the publication loop goes to the classification. *)
LEMMA ClassifyNextInv ==
  ASSUME IInv, Goto("classify"), Keep, NoFault \/ Fault, UNCHANGED fs,
         journal.phase = "Publishing"
  PROVE  IInv'
  <1> USE DEF IInv, Keep, Goto, NoFault, Fault
  <1>1. TypeOK'
    BY DEF TypeOK, RollbackPCs
  <1>2. (ReadyInv /\ PublishingInv /\ CommittedInv /\ RolledBackInv)'
    BY DEF ReadyInv, PublishingInv, CommittedInv, RolledBackInv, PreimageOf, IsStaged, IsBackedUp, IsPublished, IsRestored, PrivateAbsent
  <1>3. (PhaseInv /\ PublishInv /\ CurrentInv /\ RollbackInv)'
    BY DEF PhaseInv, PublishInv, CurrentInv, RollbackInv
  <1>4. ConflictInv'
    BY DEF ConflictInv
  <1> QED BY <1>1, <1>2, <1>3, <1>4

(* Finishing a member of the rollback loop. *)
LEMMA MemberRolledBackInv ==
  ASSUME IInv, pc \in {"rollback", "unlink"}, MemberRolledBack, Keep,
         fs' \in [Members -> [Paths -> Files]],
         \A k \in Members \ {i} : fs'[k] = fs[k],
         fs'[i]["stage"] = "none", fs'[i]["backup"] = "none",
         i \notin touched => fs'[i]["dest"] = PreimageOf(i)
  PROVE  IInv'
  <1> USE DEF IInv, Keep, MemberRolledBack, NoFault
  <1>1. i \in Members /\ journal.phase = "Publishing"
    BY DEF PhaseInv
  <1>2. /\ i > 1 => i - 1 \in Members /\ i - 1 < i
        /\ \A m \in Members : m \in Int /\ m >= 1
        /\ i \in Int
    BY <1>1, NAssumption DEF Members
  <1>3. TypeOK'
    BY <1>1, <1>2, NAssumption
       DEF TypeOK, GenerationDocument, GenerationPhase, MemberPublicationStep,
           NoActs, RollbackAction, RollbackPCs
  <1>4. PublishingInv'
    BY <1>1 DEF PublishingInv, PreimageOf, IsStaged, IsBackedUp, IsPublished, IsRestored, PrivateAbsent
  <1>5. (ReadyInv /\ CommittedInv /\ RolledBackInv)'
    BY <1>1 DEF ReadyInv, CommittedInv, RolledBackInv
  <1>6. (PhaseInv /\ PublishInv /\ CurrentInv)'
    BY <1>1, <1>2 DEF PhaseInv, PublishInv, CurrentInv
  <1>7. \A m \in Members \ {i} :
          /\ Classified(m) /\ acts' = acts => Classified(m)'
          /\ PrivateAbsent(m) => PrivateAbsent(m)'
          /\ IsRestored(m) => IsRestored(m)'
    BY DEF Classified, PreimageOf, IsStaged, IsBackedUp, IsPublished, IsRestored, PrivateAbsent
  <1>8. RollbackInv'
    <2>1. CASE i > 1
      <3>1. i' = i - 1 /\ pc' = "rollback" /\ acts' = acts
        BY <2>1, <1>2
      <3>2. \A m \in Members : m < i => Classified(m)
        BY DEF RollbackInv
      <3>3. \A m \in Members : m < i => Classified(m)'
        BY <1>2, <1>7, <3>1, <3>2
      <3>4. Classified(i)'
        BY <1>2, <2>1, <3>1, <3>3 DEF Classified, PreimageOf, PrivateAbsent, IsStaged, IsBackedUp, IsPublished, IsRestored
      <3>5. \A m \in Members : m > i' => PrivateAbsent(m)' /\ (m \notin touched' => IsRestored(m)')
        <4> SUFFICES ASSUME NEW m \in Members, m > i'
                     PROVE  PrivateAbsent(m)' /\ (m \notin touched' => IsRestored(m)')
          OBVIOUS
        <4>1. CASE m = i
          BY <4>1 DEF PrivateAbsent, IsRestored, PreimageOf
        <4>2. CASE m # i
          <5>1. m > i
            BY <1>2, <3>1, <4>2
          <5> QED BY <1>7, <4>2, <5>1 DEF RollbackInv
        <4> QED BY <4>1, <4>2
      <3> QED BY <1>2, <3>1, <3>3, <3>4, <3>5 DEF RollbackInv
    <2>2. CASE i = 1
      BY <1>1, <1>2, <1>7, <2>2 DEF RollbackInv, PrivateAbsent, IsRestored, PreimageOf
    <2> QED BY <1>1, <1>2, <2>1, <2>2
  <1>9. ConflictInv'
    BY <1>1 DEF ConflictInv, NoActs, TypeOK, GenerationDocument
  <1> QED BY <1>3, <1>4, <1>5, <1>6, <1>8, <1>9

LEMMA BackupMoveInv == ASSUME IInv, BackupMove PROVE IInv'
  <1> USE DEF BackupMove, IInv, Keep, Goto, Return, NoFault, Fault, FailsTo, SetStep, PreimageOf
  <1>0. i \in Members /\ TypeOK /\ journal.phase = "Publishing"
    BY DEF PhaseInv
  <1>a. CASE CanMove(i, "dest", "backup") /\ fs' = Moved(i, "dest", "backup")
    <2>1. /\ fs' \in [Members -> [Paths -> Files]]
          /\ fs'[i]["backup"] = fs[i]["dest"]
          /\ fs'[i]["dest"] = "none"
          /\ fs'[i]["stage"] = fs[i]["stage"]
          /\ \A k \in Members \ {i} : fs'[k] = fs[k]
      BY <1>0, <1>a, MovedFiles DEF Paths
    <2>2. TypeOK'
      BY <1>0, <1>a, <2>1, NAssumption
         DEF TypeOK, GenerationDocument, GenerationPhase, MemberPublicationStep,
         NoDocument, Document, NoActs, RollbackAction, PublishPCs, RollbackPCs
    <2>3. (ReadyInv /\ PublishingInv /\ CommittedInv /\ RolledBackInv)'
      BY <1>0, <1>a, <2>1 DEF PhaseInv, ReadyInv, PublishingInv, CommittedInv, RolledBackInv,
         PublishInv, CurrentInv, RollbackInv, Classified, IsStaged, IsBackedUp, IsPublished, IsRestored, PrivateAbsent
    <2>4. (PhaseInv /\ PublishInv /\ CurrentInv)'
      BY <1>0, <1>a, <2>1 DEF TypeOK, PhaseInv, PublishInv, CurrentInv, IsStaged, IsBackedUp, IsPublished, IsRestored, PrivateAbsent
    <2>5. RollbackInv'
      BY <1>0, <1>a, <2>1 DEF TypeOK, PhaseInv, RollbackInv, Classified, IsStaged, IsBackedUp, IsPublished, IsRestored, PrivateAbsent
    <2>6. ConflictInv'
      BY <1>0, <1>a, <2>1 DEF ConflictInv, PhaseInv, TypeOK, GenerationDocument, NoDocument, Document, NoActs
    <2> QED BY <2>2, <2>3, <2>4, <2>5, <2>6
  <1>b. CASE UNCHANGED fs /\ Goto("classify")
    BY <1>0, <1>b, ClassifyNextInv
  <1> QED BY <1>a, <1>b

LEMMA PublishMoveInv == ASSUME IInv, PublishMove PROVE IInv'
  <1> USE DEF PublishMove, IInv, Keep, Goto, Return, NoFault, Fault, FailsTo, SetStep, PreimageOf
  <1>0. i \in Members /\ TypeOK /\ journal.phase = "Publishing"
    BY DEF PhaseInv
  <1>a. CASE CanMove(i, "stage", "dest") /\ fs' = Moved(i, "stage", "dest")
    <2>1. /\ fs' \in [Members -> [Paths -> Files]]
          /\ fs'[i]["dest"] = fs[i]["stage"]
          /\ fs'[i]["stage"] = "none"
          /\ fs'[i]["backup"] = fs[i]["backup"]
          /\ \A k \in Members \ {i} : fs'[k] = fs[k]
      BY <1>0, <1>a, MovedFiles DEF Paths
    <2>2. TypeOK'
      BY <1>0, <1>a, <2>1, NAssumption
         DEF TypeOK, GenerationDocument, GenerationPhase, MemberPublicationStep,
         NoDocument, Document, NoActs, RollbackAction, PublishPCs, RollbackPCs
    <2>3. (ReadyInv /\ PublishingInv /\ CommittedInv /\ RolledBackInv)'
      BY <1>0, <1>a, <2>1 DEF PhaseInv, ReadyInv, PublishingInv, CommittedInv, RolledBackInv,
         PublishInv, CurrentInv, RollbackInv, Classified, IsStaged, IsBackedUp, IsPublished, IsRestored, PrivateAbsent
    <2>4. (PhaseInv /\ PublishInv /\ CurrentInv)'
      BY <1>0, <1>a, <2>1 DEF TypeOK, PhaseInv, PublishInv, CurrentInv, IsStaged, IsBackedUp, IsPublished, IsRestored, PrivateAbsent
    <2>5. RollbackInv'
      BY <1>0, <1>a, <2>1 DEF TypeOK, PhaseInv, RollbackInv, Classified, IsStaged, IsBackedUp, IsPublished, IsRestored, PrivateAbsent
    <2>6. ConflictInv'
      BY <1>0, <1>a, <2>1 DEF ConflictInv, PhaseInv, TypeOK, GenerationDocument, NoDocument, Document, NoActs
    <2> QED BY <2>2, <2>3, <2>4, <2>5, <2>6
  <1>b. CASE UNCHANGED fs /\ Goto("classify")
    BY <1>0, <1>b, ClassifyNextInv
  <1> QED BY <1>a, <1>b

LEMMA TakePublishedInv == ASSUME IInv, TakePublished PROVE IInv'
  <1> USE DEF TakePublished, IInv, Keep, Goto, Return, NoFault, Fault, FailsTo, SetStep, PreimageOf
  <1>0. i \in Members /\ TypeOK /\ journal.phase = "Publishing"
    BY DEF PhaseInv
  <1>a. CASE CanMove(i, "dest", "stage") /\ fs' = Moved(i, "dest", "stage")
    <2>1. /\ fs' \in [Members -> [Paths -> Files]]
          /\ fs'[i]["stage"] = fs[i]["dest"]
          /\ fs'[i]["dest"] = "none"
          /\ fs'[i]["backup"] = fs[i]["backup"]
          /\ \A k \in Members \ {i} : fs'[k] = fs[k]
      BY <1>0, <1>a, MovedFiles DEF Paths
    <2>2. TypeOK'
      BY <1>0, <1>a, <2>1, NAssumption
         DEF TypeOK, GenerationDocument, GenerationPhase, MemberPublicationStep,
         NoDocument, Document, NoActs, RollbackAction, PublishPCs, RollbackPCs
    <2>3. (ReadyInv /\ PublishingInv /\ CommittedInv /\ RolledBackInv)'
      BY <1>0, <1>a, <2>1 DEF PhaseInv, ReadyInv, PublishingInv, CommittedInv, RolledBackInv,
         PublishInv, CurrentInv, RollbackInv, Classified, IsStaged, IsBackedUp, IsPublished, IsRestored, PrivateAbsent
    <2>4. (PhaseInv /\ PublishInv /\ CurrentInv)'
      BY <1>0, <1>a, <2>1 DEF TypeOK, PhaseInv, PublishInv, CurrentInv, IsStaged, IsBackedUp, IsPublished, IsRestored, PrivateAbsent
    <2>5. RollbackInv'
      BY <1>0, <1>a, <2>1 DEF TypeOK, PhaseInv, RollbackInv, Classified, IsStaged, IsBackedUp, IsPublished, IsRestored, PrivateAbsent
    <2>6. ConflictInv'
      BY <1>0, <1>a, <2>1 DEF ConflictInv, PhaseInv, TypeOK, GenerationDocument, NoDocument, Document, NoActs
    <2> QED BY <2>2, <2>3, <2>4, <2>5, <2>6
  <1>b. CASE UNCHANGED fs /\ Return
    BY <1>0, <1>b, ReturnUnchangedInv
  <1> QED BY <1>a, <1>b

LEMMA RestoreBackupInv == ASSUME IInv, RestoreBackup PROVE IInv'
  <1> USE DEF RestoreBackup, IInv, Keep, Goto, Return, NoFault, Fault, FailsTo, SetStep, PreimageOf
  <1>0. i \in Members /\ TypeOK /\ journal.phase = "Publishing"
    BY DEF PhaseInv
  <1>a. CASE CanMove(i, "backup", "dest") /\ fs' = Moved(i, "backup", "dest")
    <2>1. /\ fs' \in [Members -> [Paths -> Files]]
          /\ fs'[i]["dest"] = fs[i]["backup"]
          /\ fs'[i]["backup"] = "none"
          /\ fs'[i]["stage"] = fs[i]["stage"]
          /\ \A k \in Members \ {i} : fs'[k] = fs[k]
      BY <1>0, <1>a, MovedFiles DEF Paths
    <2>2. TypeOK'
      BY <1>0, <1>a, <2>1, NAssumption
         DEF TypeOK, GenerationDocument, GenerationPhase, MemberPublicationStep,
         NoDocument, Document, NoActs, RollbackAction, PublishPCs, RollbackPCs
    <2>3. (ReadyInv /\ PublishingInv /\ CommittedInv /\ RolledBackInv)'
      BY <1>0, <1>a, <2>1 DEF PhaseInv, ReadyInv, PublishingInv, CommittedInv, RolledBackInv,
         PublishInv, CurrentInv, RollbackInv, Classified, IsStaged, IsBackedUp, IsPublished, IsRestored, PrivateAbsent
    <2>4. (PhaseInv /\ PublishInv /\ CurrentInv)'
      BY <1>0, <1>a, <2>1 DEF TypeOK, PhaseInv, PublishInv, CurrentInv, IsStaged, IsBackedUp, IsPublished, IsRestored, PrivateAbsent
    <2>5. RollbackInv'
      BY <1>0, <1>a, <2>1 DEF TypeOK, PhaseInv, RollbackInv, Classified, IsStaged, IsBackedUp, IsPublished, IsRestored, PrivateAbsent
    <2>6. ConflictInv'
      BY <1>0, <1>a, <2>1 DEF ConflictInv, PhaseInv, TypeOK, GenerationDocument, NoDocument, Document, NoActs
    <2> QED BY <2>2, <2>3, <2>4, <2>5, <2>6
  <1>b. CASE UNCHANGED fs /\ Return
    BY <1>0, <1>b, ReturnUnchangedInv
  <1> QED BY <1>a, <1>b

LEMMA PutBackInv == ASSUME IInv, PutBack PROVE IInv'
  <1> USE DEF PutBack, IInv, Keep, Goto, Return, NoFault, Fault, FailsTo, SetStep, PreimageOf, RestoreMovedAfterEvidenceMismatch
  <1>0. i \in Members /\ TypeOK /\ journal.phase = "Publishing"
    BY DEF PhaseInv
  <1>a. CASE CanMove(i, "stage", "dest") /\ fs' = Moved(i, "stage", "dest")
    <2>1. /\ fs' \in [Members -> [Paths -> Files]]
          /\ fs'[i]["dest"] = fs[i]["stage"]
          /\ fs'[i]["stage"] = "none"
          /\ fs'[i]["backup"] = fs[i]["backup"]
          /\ \A k \in Members \ {i} : fs'[k] = fs[k]
      BY <1>0, <1>a, MovedFiles DEF Paths
    <2>2. TypeOK'
      BY <1>0, <1>a, <2>1, NAssumption
         DEF TypeOK, GenerationDocument, GenerationPhase, MemberPublicationStep,
         NoDocument, Document, NoActs, RollbackAction, PublishPCs, RollbackPCs
    <2>3. (ReadyInv /\ PublishingInv /\ CommittedInv /\ RolledBackInv)'
      BY <1>0, <1>a, <2>1 DEF PhaseInv, ReadyInv, PublishingInv, CommittedInv, RolledBackInv,
         PublishInv, CurrentInv, RollbackInv, Classified, IsStaged, IsBackedUp, IsPublished, IsRestored, PrivateAbsent
    <2>4. (PhaseInv /\ PublishInv /\ CurrentInv)'
      BY <1>0, <1>a, <2>1 DEF TypeOK, PhaseInv, PublishInv, CurrentInv, IsStaged, IsBackedUp, IsPublished, IsRestored, PrivateAbsent
    <2>5. RollbackInv'
      BY <1>0, <1>a, <2>1 DEF TypeOK, PhaseInv, RollbackInv, Classified, IsStaged, IsBackedUp, IsPublished, IsRestored, PrivateAbsent
    <2>6. ConflictInv'
      BY <1>0, <1>a, <2>1 DEF ConflictInv, PhaseInv, TypeOK, GenerationDocument, NoDocument, Document, NoActs
    <2> QED BY <2>2, <2>3, <2>4, <2>5, <2>6
  <1>b. CASE UNCHANGED fs /\ Return
    BY <1>0, <1>b, ReturnUnchangedInv
  <1> QED BY <1>a, <1>b

LEMMA UndoRestoreInv == ASSUME IInv, UndoRestore PROVE IInv'
  <1> USE DEF UndoRestore, IInv, Keep, Goto, Return, NoFault, Fault, FailsTo, SetStep, PreimageOf, RestoreMovedAfterEvidenceMismatch
  <1>0. i \in Members /\ TypeOK /\ journal.phase = "Publishing"
    BY DEF PhaseInv
  <1>a. CASE CanMove(i, "dest", "backup") /\ fs' = Moved(i, "dest", "backup")
    <2>1. /\ fs' \in [Members -> [Paths -> Files]]
          /\ fs'[i]["backup"] = fs[i]["dest"]
          /\ fs'[i]["dest"] = "none"
          /\ fs'[i]["stage"] = fs[i]["stage"]
          /\ \A k \in Members \ {i} : fs'[k] = fs[k]
      BY <1>0, <1>a, MovedFiles DEF Paths
    <2>2. TypeOK'
      BY <1>0, <1>a, <2>1, NAssumption
         DEF TypeOK, GenerationDocument, GenerationPhase, MemberPublicationStep,
         NoDocument, Document, NoActs, RollbackAction, PublishPCs, RollbackPCs
    <2>3. (ReadyInv /\ PublishingInv /\ CommittedInv /\ RolledBackInv)'
      BY <1>0, <1>a, <2>1 DEF PhaseInv, ReadyInv, PublishingInv, CommittedInv, RolledBackInv,
         PublishInv, CurrentInv, RollbackInv, Classified, IsStaged, IsBackedUp, IsPublished, IsRestored, PrivateAbsent
    <2>4. (PhaseInv /\ PublishInv /\ CurrentInv)'
      BY <1>0, <1>a, <2>1 DEF TypeOK, PhaseInv, PublishInv, CurrentInv, IsStaged, IsBackedUp, IsPublished, IsRestored, PrivateAbsent
    <2>5. RollbackInv'
      BY <1>0, <1>a, <2>1 DEF TypeOK, PhaseInv, RollbackInv, Classified, IsStaged, IsBackedUp, IsPublished, IsRestored, PrivateAbsent
    <2>6. ConflictInv'
      BY <1>0, <1>a, <2>1 DEF ConflictInv, PhaseInv, TypeOK, GenerationDocument, NoDocument, Document, NoActs
    <2> QED BY <2>2, <2>3, <2>4, <2>5, <2>6
  <1>b. CASE UNCHANGED fs /\ Return
    BY <1>0, <1>b, ReturnUnchangedInv
  <1> QED BY <1>a, <1>b

LEMMA CleanupCommittedBackupsInv == ASSUME IInv, CleanupCommittedBackups PROVE IInv'
  <1> USE DEF CleanupCommittedBackups, IInv, Keep
  <1>0. i \in Members /\ TypeOK /\ journal.phase = "Committed"
    BY DEF PhaseInv
  <1>a. CASE fs' = Unlinked(i, "backup")
    <2>1. /\ fs' \in [Members -> [Paths -> Files]]
          /\ fs'[i]["backup"] = "none"
          /\ fs'[i]["dest"] = fs[i]["dest"]
          /\ fs'[i]["stage"] = fs[i]["stage"]
          /\ \A k \in Members \ {i} : fs'[k] = fs[k]
      BY <1>0, <1>a, UnlinkedFiles DEF Paths
    <2>2. (ReadyInv /\ PublishingInv /\ CommittedInv /\ RolledBackInv)'
      BY <1>0, <2>1 DEF ReadyInv, PublishingInv, CommittedInv, RolledBackInv,
         PhaseInv, RollbackInv, Classified, PreimageOf, IsStaged, IsBackedUp, IsPublished, IsRestored, PrivateAbsent
    <2>3. CASE Return /\ (NoFault \/ Fault)
      BY <2>1, <2>2, <2>3, ReturnInv
    <2>4. CASE i < N /\ i' = i + 1 /\ UNCHANGED <<doc, pc, acts>> /\ NoFault
      <3>1. i' \in Members /\ i' \in 0 .. N
        BY <1>0, <2>4, NAssumption DEF Members
      <3>2. TypeOK'
        BY <2>1, <2>4, <3>1 DEF TypeOK, NoFault
      <3>3. (PhaseInv /\ PublishInv /\ CurrentInv /\ RollbackInv)'
        BY <2>4, <3>1 DEF PhaseInv, PublishInv, CurrentInv, RollbackInv
      <3>4. ConflictInv'
        BY <2>4 DEF ConflictInv
      <3> QED BY <2>2, <3>2, <3>3, <3>4
    <2> QED BY <1>a, <2>3, <2>4
  <1>b. CASE UNCHANGED fs /\ Return /\ (NoFault \/ Fault)
    BY <1>b, ReturnUnchangedInv
  <1> QED BY <1>a, <1>b

LEMMA UnlinkStageInv == ASSUME IInv, UnlinkStage PROVE IInv'
  <1> USE DEF UnlinkStage, RemoveStage, IInv, Keep
  <1>0. i \in Members /\ TypeOK /\ journal.phase = "Publishing"
    BY DEF PhaseInv
  <1>a. CASE fs' = Unlinked(i, "stage")
    <2>1. /\ fs' \in [Members -> [Paths -> Files]]
          /\ fs'[i]["stage"] = "none"
          /\ fs'[i]["dest"] = fs[i]["dest"]
          /\ fs'[i]["backup"] = fs[i]["backup"]
          /\ \A k \in Members \ {i} : fs'[k] = fs[k]
      BY <1>0, <1>a, UnlinkedFiles DEF Paths
    <2>2. (ReadyInv /\ PublishingInv /\ CommittedInv /\ RolledBackInv)'
      BY <1>0, <2>1 DEF ReadyInv, PublishingInv, CommittedInv, RolledBackInv,
         PhaseInv, RollbackInv, Classified, PreimageOf, IsStaged, IsBackedUp, IsPublished, IsRestored, PrivateAbsent
    <2>3. /\ fs'[i]["stage"] = "none" /\ fs'[i]["backup"] = "none"
          /\ i \notin touched => fs'[i]["dest"] = PreimageOf(i)
      BY <2>1 DEF RollbackInv, PreimageOf, IsStaged, IsBackedUp, IsPublished, IsRestored, PrivateAbsent
    <2>4. CASE MemberRolledBack
      BY <2>1, <2>3, <2>4, MemberRolledBackInv
    <2>5. CASE Fault /\ Return
      BY <2>1, <2>2, <2>5, ReturnInv
    <2> QED BY <1>a, <2>4, <2>5
  <1>b. CASE UNCHANGED fs /\ Return /\ Fault
    BY <1>b, ReturnUnchangedInv
  <1> QED BY <1>a, <1>b

LEMMA RollbackMemberInv == ASSUME IInv, RollbackMember PROVE IInv'
  <1> USE DEF RollbackMember, RemoveStage, IInv, Keep
  <1>0. i \in Members /\ TypeOK /\ journal.phase = "Publishing" /\ Classified(i)
    BY DEF PhaseInv, RollbackInv
  <1>a. CASE /\ acts[i] \in {"Untouched", "UntouchedConflict"}
             /\ fs' = Unlinked(i, "stage")
             /\ MemberRolledBack \/ (Fault /\ Return)
    <2>1. /\ fs' \in [Members -> [Paths -> Files]]
          /\ fs'[i]["stage"] = "none"
          /\ fs'[i]["dest"] = fs[i]["dest"]
          /\ fs'[i]["backup"] = fs[i]["backup"]
          /\ \A k \in Members \ {i} : fs'[k] = fs[k]
      BY <1>0, <1>a, UnlinkedFiles DEF Paths
    <2>2. (ReadyInv /\ PublishingInv /\ CommittedInv /\ RolledBackInv)'
      BY <1>0, <1>a, <2>1 DEF ReadyInv, PublishingInv, CommittedInv, RolledBackInv,
         Classified, PreimageOf, IsStaged, IsBackedUp, IsPublished, IsRestored, PrivateAbsent
    <2>3. /\ fs'[i]["stage"] = "none" /\ fs'[i]["backup"] = "none"
          /\ i \notin touched => fs'[i]["dest"] = PreimageOf(i)
      BY <1>0, <1>a, <2>1 DEF Classified, PreimageOf, IsStaged, IsBackedUp, IsPublished, IsRestored, PrivateAbsent
    <2>4. CASE MemberRolledBack
      BY <2>1, <2>3, <2>4, MemberRolledBackInv
    <2>5. CASE Fault /\ Return
      BY <2>1, <2>2, <2>5, ReturnInv
    <2> QED BY <1>a, <2>4, <2>5
  <1>b. CASE acts[i] = "AlreadyRestored" /\ MemberRolledBack /\ UNCHANGED fs
    <2>1. /\ fs'[i]["stage"] = "none" /\ fs'[i]["backup"] = "none"
          /\ i \notin touched => fs'[i]["dest"] = PreimageOf(i)
      BY <1>0, <1>b DEF Classified, PreimageOf, IsStaged, IsBackedUp, IsPublished, IsRestored, PrivateAbsent
    <2> QED BY <1>0, <1>b, <2>1, MemberRolledBackInv DEF TypeOK
  <1>c. CASE UNCHANGED fs /\ Return /\ (NoFault \/ Fault)
    BY <1>c, ReturnUnchangedInv
  <1>d. CASE /\ UNCHANGED fs /\ NoFault
             /\ \/ acts[i] = "BackedUp" /\ Goto("restore")
                \/ /\ acts[i] \in {"PublishedExisting", "PublishedMissing"}
                   /\ Goto("take")
    <2> USE <1>0, <1>d DEF Goto, NoFault
    <2>1. TypeOK'
      BY DEF TypeOK, RollbackPCs
    <2>2. (ReadyInv /\ PublishingInv /\ CommittedInv /\ RolledBackInv)'
      BY DEF ReadyInv, PublishingInv, CommittedInv, RolledBackInv, PreimageOf, IsStaged, IsBackedUp, IsPublished, IsRestored, PrivateAbsent
    <2>3. (PhaseInv /\ PublishInv /\ CurrentInv)'
      BY DEF PhaseInv, PublishInv, CurrentInv
    <2>4. RollbackInv'
      BY DEF RollbackInv, Classified, PreimageOf, IsStaged, IsBackedUp, IsPublished, IsRestored, PrivateAbsent
    <2>5. ConflictInv'
      BY DEF ConflictInv
    <2> QED BY <2>1, <2>2, <2>3, <2>4, <2>5
  <1> QED BY <1>a, <1>b, <1>c, <1>d

LEMMA ClassifyMemberType ==
  ASSUME NEW m \in Members, NEW step
  PROVE  ClassifyMember(m, step) \in RollbackAction \cup {"Error"}
  BY DEF ClassifyMember, RollbackAction

LEMMA ClassifyRollbackInv == ASSUME IInv, ClassifyRollback PROVE IInv'
  <1> USE DEF ClassifyRollback, IInv, Keep
  <1>1. CASE /\ Classifiable(doc.step)
             /\ acts' = [m \in Members |-> ClassifyMember(m, doc.step[m])]
             /\ i' = N /\ pc' = "rollback" /\ UNCHANGED <<doc, fs, forecast>>
    <2>0. N \in Members /\ \A m \in Members : ~(m > N)
      BY NAssumption DEF Members
    <2>1. \A m \in Members : acts'[m] \in RollbackAction
      BY <1>1, ClassifyMemberType DEF Classifiable
    <2>2. TypeOK'
      BY <1>1, <2>1, NAssumption DEF TypeOK, RollbackPCs
    <2>3. ASSUME NEW m \in Members
          PROVE  Classified(m)' /\ (acts'[m] = "UntouchedConflict" => m \in touched)
      <3>1. acts'[m] = ClassifyMember(m, doc.step[m]) /\ acts'[m] # "Error"
        BY <1>1 DEF Classifiable
      <3>2. fs[m]["dest"] \in Files /\ fs[m]["stage"] \in Files /\ fs[m]["backup"] \in Files
        BY DEF TypeOK, Paths
      <3>3. m \notin touched => IsStaged(m) \/ IsBackedUp(m) \/ IsPublished(m) \/ IsRestored(m)
        BY DEF PublishingInv, PhaseInv
      <3>4. acts'[m] = "AlreadyRestored" =>
              /\ fs[m]["stage"] = "none" /\ fs[m]["backup"] = "none"
              /\ fs[m]["dest"] = PreimageOf(m)
        BY <3>1 DEF ClassifyMember
      <3>5. acts'[m] \in {"Untouched", "UntouchedConflict"} =>
              /\ fs[m]["stage"] \in {"none", "new"} /\ fs[m]["backup"] = "none"
              /\ acts'[m] = "Untouched" => fs[m]["stage"] = "new"
              /\ acts'[m] = "UntouchedConflict" =>
                   fs[m]["dest"] # PreimageOf(m) /\ (fs[m]["stage"] = "none" => fs[m]["dest"] # "new")
        BY <3>1, <3>2 DEF ClassifyMember, Files, PreimageOf
      <3>6. acts'[m] = "BackedUp" =>
              /\ fs[m]["stage"] = "new" /\ fs[m]["backup"] = "old"
              /\ fs[m]["dest"] = "none" /\ m \in preimage
        BY <3>1 DEF ClassifyMember, PreimageOf
      <3>7. acts'[m] = "PublishedExisting" =>
              /\ fs[m]["stage"] = "none" /\ fs[m]["backup"] = "old"
              /\ fs[m]["dest"] = "new" /\ m \in preimage
        BY <3>1 DEF ClassifyMember, PreimageOf
      <3>8. acts'[m] = "PublishedMissing" =>
              /\ fs[m]["stage"] = "none" /\ fs[m]["backup"] = "none"
              /\ fs[m]["dest"] = "new" /\ m \notin preimage
        BY <3>1 DEF ClassifyMember
      <3>9. acts'[m] = "UntouchedConflict" => m \in touched
        BY <3>3, <3>5 DEF PreimageOf, IsStaged, IsBackedUp, IsPublished, IsRestored, PrivateAbsent
      <3> QED BY <1>1, <3>2, <3>3, <3>4, <3>5, <3>6, <3>7, <3>8, <3>9
              DEF Files, Classified, PreimageOf, IsStaged, IsBackedUp, IsPublished, IsRestored, PrivateAbsent
    <2>4. (ReadyInv /\ PublishingInv /\ CommittedInv /\ RolledBackInv)'
      BY <1>1 DEF ReadyInv, PublishingInv, CommittedInv, RolledBackInv, PreimageOf, IsStaged, IsBackedUp, IsPublished, IsRestored, PrivateAbsent
    <2>5. (PhaseInv /\ PublishInv /\ CurrentInv)'
      BY <1>1, <2>0 DEF PhaseInv, PublishInv, CurrentInv
    <2>6. RollbackInv'
      BY <1>1, <2>0, <2>3 DEF RollbackInv
    <2>7. ConflictInv'
      BY <1>1, <2>3 DEF ConflictInv
    <2> QED BY <2>2, <2>4, <2>5, <2>6, <2>7
  <1>2. CASE Return /\ UNCHANGED fs /\ (NoFault \/ Fault)
    BY <1>2, ReturnUnchangedInv
  <1> QED BY <1>1, <1>2 DEF NoFault

LEMMA CompeteInv == ASSUME IInv, NEW c \in Members, Compete(c) PROVE IInv'
  <1> USE DEF Compete, IInv, local, PreimageOf
  <1>1. /\ fs' \in [Members -> [Paths -> Files]]
        /\ fs'[c]["stage"] = fs[c]["stage"] /\ fs'[c]["backup"] = fs[c]["backup"]
        /\ \A k \in Members \ {c} : fs'[k] = fs[k]
        /\ touched' = touched \cup {c}
    BY DEF TypeOK, Paths, Files
  <1>2. TypeOK'
    BY <1>1 DEF TypeOK
  <1>3. (ReadyInv /\ PublishingInv /\ CommittedInv /\ RolledBackInv)'
    BY <1>1 DEF ReadyInv, PublishingInv, CommittedInv, RolledBackInv, IsStaged, IsBackedUp, IsPublished, IsRestored, PrivateAbsent
  <1>4. PhaseInv'
    BY DEF PhaseInv
  <1>5. (PublishInv /\ CurrentInv)'
    BY <1>1 DEF PhaseInv, PublishInv, CurrentInv, IsStaged, IsBackedUp, IsPublished, IsRestored, PrivateAbsent
  <1>6. RollbackInv'
    BY <1>1 DEF PhaseInv, RollbackInv, Classified, IsStaged, IsBackedUp, IsPublished, IsRestored, PrivateAbsent
  <1>7. ConflictInv'
    BY <1>1 DEF ConflictInv
  <1> QED BY <1>2, <1>3, <1>4, <1>5, <1>6, <1>7

LEMMA PrepareInv == ASSUME IInv, Prepare PROVE IInv'
  <1> USE DEF Prepare, IInv, Document
  <1>1. journal' \in GenerationDocument /\ doc' \in GenerationDocument
    BY DEF TypeOK, GenerationDocument, GenerationPhase, MemberPublicationStep
  <1>a. CASE UNCHANGED <<journal, fs, preimage, touched>> /\ pc' = "readySaveError"
    <2>1. TypeOK'
      BY <1>1, <1>a DEF TypeOK
    <2>2. (ReadyInv /\ PublishingInv /\ CommittedInv /\ RolledBackInv)'
      BY <1>a DEF ReadyInv, PublishingInv, CommittedInv, RolledBackInv, PreimageOf, IsStaged, IsBackedUp, IsPublished, IsRestored, PrivateAbsent
    <2>3. (PhaseInv /\ PublishInv /\ CurrentInv /\ RollbackInv)'
      BY <1>a DEF PhaseInv, PublishInv, CurrentInv, RollbackInv
    <2>4. ConflictInv'
      BY <1>a DEF ConflictInv
    <2> QED BY <2>1, <2>2, <2>3, <2>4
  <1>b. CASE /\ journal' = doc' /\ touched' = {} /\ pc' \in {"ready", "readySaveError"}
             /\ fs' = [m \in Members |->
                        [dest |-> IF fs[m]["dest"] = "none" THEN "none" ELSE "old",
                         stage |-> "new", backup |-> "none"]]
             /\ preimage' = {m \in Members : fs[m]["dest"] # "none"}
    <2>1. fs' \in [Members -> [Paths -> Files]]
      BY <1>b DEF Paths, Files
    <2>2. TypeOK'
      BY <1>1, <1>b, <2>1 DEF TypeOK
    <2>3. \A m \in Members : IsStaged(m)'
      BY <1>b DEF IsStaged, PreimageOf
    <2>4. (ReadyInv /\ PublishingInv /\ CommittedInv /\ RolledBackInv)'
      BY <1>b, <2>3 DEF ReadyInv, PublishingInv, CommittedInv, RolledBackInv, IsStaged
    <2>5. (PhaseInv /\ PublishInv /\ CurrentInv /\ RollbackInv)'
      BY <1>b DEF PhaseInv, PublishInv, CurrentInv, RollbackInv
    <2>6. ConflictInv'
      BY <1>b DEF ConflictInv, PhaseInv, NoActs
    <2> QED BY <2>2, <2>4, <2>5, <2>6
  <1> QED BY <1>a, <1>b

LEMMA StutterInv == IInv /\ UNCHANGED vars => IInv'
  BY SMTT(30) DEF IInv, vars, TypeOK, ReadyInv, PublishingInv, CommittedInv, RolledBackInv,
     PhaseInv, PublishInv, CurrentInv, RollbackInv, Classified, ConflictInv,
     IsStaged, IsBackedUp, IsPublished, IsRestored, PrivateAbsent, PreimageOf

(* IInv is inductive. *)
LEMMA NextInv == IInv /\ [Next]_vars => IInv'
  <1> SUFFICES ASSUME IInv, [Next]_vars PROVE IInv'
    OBVIOUS
  <1>1. CASE Caller
    BY <1>1, PrepareInv, FinishReadyDocumentSaveInv, ResumeReadyInv, CommitInv, AbandonInv, DropInv
       DEF Caller
  <1>2. CASE Recover
    BY <1>2, ReclaimReadyInv, RecoverPublishingInv, ReopenCommittedInv
       DEF Recover
  <1>3. CASE Publish
    BY <1>3, SavePublishingInv, BackupMemberInv, BackupMoveInv, PublishMemberInv, PublishMoveInv, PublishVerifyInv, SaveCommittedInv, CleanupCommittedBackupsInv
       DEF Publish
  <1>4. CASE Rollback
    BY <1>4, SaveAbandonInv, ClassifyRollbackInv, RollbackMemberInv, TakePublishedInv, PutBackInv, RestoreBackupInv, RestoreVerifyInv, UndoRestoreInv, UnlinkStageInv, SaveRolledBackInv
       DEF Rollback
  <1>5. CASE Crash
    BY <1>5, CrashInv
  <1>6. CASE Settle
    BY <1>6, SettleInv
  <1>7. ASSUME NEW m \in Members, Compete(m) PROVE IInv'
    BY <1>7, CompeteInv
  <1>8. CASE UNCHANGED vars
    BY <1>8, StutterInv
  <1> QED BY <1>1, <1>2, <1>3, <1>4, <1>5, <1>6, <1>7, <1>8
          DEF Next, Forge, Environment

(* Every reachable state satisfies the strengthened invariant. *)
THEOREM Invariance == Spec => []IInv
  BY InitInv, NextInv, PTL DEF Spec

-----------------------------------------------------------------------------
(* Every variable stays in its domain, for any number of members. *)
THEOREM TypeCorrect == Spec => []TypeOK
  <1>1. IInv => TypeOK
    BY DEF IInv
  <1> QED BY <1>1, Invariance, PTL

(* A Ready journal always owns intact stages and no backup: no failed save and *)
(* no early return leaves one that can neither resume nor be reclaimed.        *)
THEOREM ReadyStagesIntact == Spec => []ReadyOwnsStages
  <1>1. IInv => ReadyOwnsStages
    BY DEF IInv, ReadyInv, ReadyOwnsStages
  <1> QED BY <1>1, Invariance, PTL

(* The old bytes of an undisturbed destination exist as the destination or as  *)
(* its backup until Committed is durable.                                      *)
THEOREM PreimageSafe == Spec => []PreimageSurvives
  <1>1. IInv => PreimageSurvives
    BY DEF IInv, ReadyInv, PublishingInv, RolledBackInv, PreimageSurvives,
       PreimageOf, IsStaged, IsBackedUp, IsPublished, IsRestored, TypeOK
  <1> QED BY <1>1, Invariance, PTL

(* A terminal journal means all new or all old, and no private leftovers.     *)
THEOREM TerminalAtomicity == Spec => []AllOrNothing
  <1>1. IInv => AllOrNothing
    BY DEF IInv, CommittedInv, RolledBackInv, AllOrNothing, IsRestored
  <1> QED BY <1>1, Invariance, PTL

(* Wherever a process stopped, recovery finds a complete generation or can     *)
(* classify every undisturbed member.                                          *)
THEOREM AlwaysRecoverable == Spec => []Recoverable
  <1>1. ASSUME IInv, journal.phase = "Publishing", NEW m \in Members \ touched
        PROVE  ClassifyMember(m, "Prepared") # "Error"
    <2>1. IsStaged(m) \/ IsBackedUp(m) \/ IsPublished(m) \/ IsRestored(m)
      BY <1>1 DEF IInv, PublishingInv
    <2>2. CASE m \in preimage
      BY <2>1, <2>2 DEF ClassifyMember, PreimageOf, IsStaged, IsBackedUp, IsPublished, IsRestored
    <2>3. CASE m \notin preimage
      BY <2>1, <2>3 DEF ClassifyMember, PreimageOf, IsStaged, IsBackedUp, IsPublished, IsRestored
    <2> QED BY <2>2, <2>3
  <1>2. IInv => Recoverable
    BY <1>1 DEF Recoverable
  <1> QED BY <1>2, Invariance, PTL

(* The journal reports a member as abandoned only after a competitor changed   *)
(* its destination.                                                            *)
THEOREM AbandonedOnlyOnConflict == Spec => []AbandonedMeansConflict
  <1>1. IInv => AbandonedMeansConflict
    BY DEF IInv, ConflictInv, AbandonedMeansConflict
  <1> QED BY <1>1, Invariance, PTL

(* How the number of copies of a file changes under a rename and an unlink.   *)
LEMMA MovedKeepsCopies ==
  ASSUME TypeOK, NEW m \in Members, NEW from \in Paths, NEW to \in Paths,
         CanMove(m, from, to), fs' = Moved(m, from, to), NEW f \in {"old", "alien"},
         NEW k \in Members
  PROVE  Copies(k, f)' = Copies(k, f)
  <1>0. from # to
    BY DEF CanMove
  <1>1. /\ fs'[m][to] = fs[m][from] /\ fs'[m][from] = "none"
        /\ \A p \in Paths \ {from, to} : fs'[m][p] = fs[m][p]
        /\ \A q \in Members \ {m} : fs'[q] = fs[q]
    BY <1>0, MovedFiles
  <1>2. CASE k # m
    BY <1>1, <1>2 DEF Copies, Holds
  <1>3. CASE k = m
    BY <1>0, <1>1, <1>3 DEF Copies, Holds, Paths, CanMove
  <1> QED BY <1>2, <1>3

LEMMA UnlinkedCopies ==
  ASSUME TypeOK, NEW m \in Members, NEW path \in Paths, fs' = Unlinked(m, path),
         NEW f \in {"old", "alien"}, fs[m][path] # f, NEW k \in Members
  PROVE  Copies(k, f)' = Copies(k, f)
  <1>1. /\ fs'[m][path] = "none"
        /\ \A p \in Paths \ {path} : fs'[m][p] = fs[m][p]
        /\ \A q \in Members \ {m} : fs'[q] = fs[q]
    BY UnlinkedFiles
  <1>2. CASE k # m
    BY <1>1, <1>2 DEF Copies, Holds
  <1>3. CASE k = m
    BY <1>1, <1>3 DEF Copies, Holds, Paths
  <1> QED BY <1>2, <1>3

(* Publication and rollback destroy only the generation's own files, and the   *)
(* old bytes only once Committed is durable.                                   *)
THEOREM ForeignFilesSafe == Spec => DestroysOnlyItsOwn
  <1> DEFINE Kept ==
        \A m \in Members :
          /\ Copies(m, "alien")' = Copies(m, "alien")
          /\ Copies(m, "old")' < Copies(m, "old") => journal.phase = "Committed"
  <1>1. ASSUME IInv, Publish \/ Rollback PROVE Kept
    <2> USE <1>1 DEF IInv
    <2>0. TypeOK /\ \A m \in Members : Copies(m, "old") \in Int
      BY DEF Copies, Holds
    <2>1. CASE UNCHANGED fs
      BY <2>0, <2>1 DEF Copies, Holds
    <2>2. ASSUME NEW from \in Paths, NEW to \in Paths, i \in Members,
                 CanMove(i, from, to), fs' = Moved(i, from, to)
          PROVE  Kept
      BY <2>0, <2>2, MovedKeepsCopies
    <2>3. CASE CleanupCommittedBackups /\ fs' = Unlinked(i, "backup")
      <3>1. i \in Members /\ journal.phase = "Committed"
        BY <2>3 DEF CleanupCommittedBackups, PhaseInv
      <3>2. fs[i]["backup"] # "alien" \/ UNCHANGED fs
        BY <2>3 DEF CleanupCommittedBackups, PreimageOf
      <3> QED BY <2>0, <2>1, <2>3, <3>1, <3>2, UnlinkedCopies DEF Paths
    <2>4. CASE (UnlinkStage \/ RollbackMember) /\ fs' = Unlinked(i, "stage")
      <3>1. i \in Members
        BY <2>4 DEF UnlinkStage, RollbackMember, PhaseInv
      <3>2. fs[i]["stage"] \in {"none", "new"} \/ UNCHANGED fs
        BY <2>4, <3>1 DEF UnlinkStage, RollbackMember, RollbackInv, Classified, PrivateAbsent
      <3> QED BY <2>0, <2>1, <2>4, <3>1, <3>2, UnlinkedCopies DEF Paths
    <2>5. pc \in {"backupMove", "publishMove", "take", "putBack", "restore", "undoRestore"}
            => i \in Members
      BY DEF PhaseInv
    <2>6. CASE BackupMove \/ PublishMove \/ TakePublished \/ RestoreBackup
      BY <2>1, <2>2, <2>5, <2>6 DEF BackupMove, PublishMove, TakePublished, RestoreBackup,
         FailsTo, Paths
    <2>7. CASE PutBack \/ UndoRestore
      BY <2>1, <2>2, <2>5, <2>7 DEF PutBack, UndoRestore, RestoreMovedAfterEvidenceMismatch, Paths
    <2>8. CASE SavePublishing \/ SaveCommitted \/ SaveAbandon \/ SaveRolledBack
      BY <2>1, <2>8 DEF SavePublishing, SaveCommitted, SaveAbandon, SaveRolledBack, SaveState
    <2>9. CASE BackupMember \/ PublishMember \/ PublishVerify \/ ClassifyRollback \/ RestoreVerify
      BY <2>1, <2>9 DEF BackupMember, PublishMember, PublishVerify, ClassifyRollback,
         RestoreVerify, FailsTo
    <2>10. CASE UnlinkStage \/ RollbackMember
      BY <2>1, <2>4, <2>10 DEF UnlinkStage, RollbackMember, RemoveStage
    <2>11. CASE CleanupCommittedBackups
      BY <2>1, <2>3, <2>11 DEF CleanupCommittedBackups
    <2> QED BY <1>1, <2>6, <2>7, <2>8, <2>9, <2>10, <2>11 DEF Publish, Rollback
  <1>2. IInv /\ [Next]_vars => [Publish \/ Rollback => Kept]_vars
    BY <1>1
  <1> QED BY <1>2, Invariance, PTL DEF Spec, DestroysOnlyItsOwn

-----------------------------------------------------------------------------
(* A recovery that has met no failure, crash or competitor (forecast is not  *)
(* "none") is on its way to what inspect_reclaim predicted: what the lock    *)
(* holder still has to do is determined by what it saw when it started.      *)

RollbackLoop == {"rollback", "take", "restore", "restoreVerify", "unlink"}

(* Member m is rolled back as ValidateRolledBack requires of the last save.  *)
Finished(m) ==
  /\ PrivateAbsent(m)
  /\ \/ doc.step[m] = "Abandoned"
     \/ doc.step[m] = "Restored" /\ fs[m]["dest"] = PreimageOf(m)

(* Member m is still what the classification found.                          *)
AsClassified(m) ==
  acts[m] = ClassifyMember(m, doc.step[m]) /\ acts[m] # "Error"

RollBackForeseen ==
  forecast \in {"AbandonReady", "RollBack"} =>
    /\ pc \in {"idle", "saveAbandon", "classify", "saveRolledBack"} \cup RollbackLoop
    /\ pc = "saveAbandon" =>
         doc.phase = "Publishing" /\ ValidateReclaimableReadyDocument(doc)
    /\ pc = "classify" => Classifiable(doc.step)
    /\ pc \in RollbackLoop =>
         \A m \in Members : /\ m < i => AsClassified(m)
                            /\ m > i => Finished(m)
    /\ pc = "rollback" => \A m \in Members : m = i => AsClassified(m)
    /\ pc = "take" =>
         /\ fs[i]["stage"] = "none" /\ fs[i]["dest"] = "new"
         /\ fs[i]["backup"] = PreimageOf(i)
         /\ acts[i] = IF i \in preimage THEN "PublishedExisting"
                                        ELSE "PublishedMissing"
    /\ pc = "restore" =>
         /\ fs[i]["dest"] = "none" /\ fs[i]["backup"] = "old"
         /\ i \in preimage /\ acts[i] # "UntouchedConflict"
    /\ pc \in {"restoreVerify", "unlink"} =>
         /\ fs[i]["backup"] = "none" /\ fs[i]["dest"] = PreimageOf(i)
         /\ acts[i] # "UntouchedConflict"
    /\ pc = "restoreVerify" => i \in preimage
    /\ pc = "saveRolledBack" =>
         doc.phase = "RolledBack" /\ \A m \in Members : Finished(m)

CleanForeseen ==
  forecast \in {"FinalizeCommitted", "CleanCommitted"} =>
    /\ pc \in {"idle", "saveCommitted", "cleanup"}
    /\ pc # "idle" =>
         /\ doc.phase = "Committed" /\ ValidateCommitted(doc)
         /\ \A m \in Members : fs[m]["backup"] \in {"none", PreimageOf(m)}
    /\ pc = "cleanup" =>
         /\ journal = doc
         /\ \A m \in Members : m < i => fs[m]["backup"] = "none"

NothingForeseen ==
  forecast = "Nothing" =>
    /\ pc \in {"idle", "cleanup"}
    /\ pc = "cleanup" =>
         /\ ValidateCommitted(journal)
         /\ \A m \in Members : fs[m]["backup"] = "none"

ErrorForeseen ==
  forecast = "Error" =>
    /\ pc \in {"idle", "classify", "cleanup"}
    /\ pc = "classify" =>
         /\ doc = journal
         /\ ~PublishingIsComplete /\ ~Classifiable(doc.step)
    /\ pc = "cleanup" =>
         /\ ValidateCommitted(journal)
         /\ \E m \in Members : m >= i /\ fs[m]["backup"] \notin {"none", PreimageOf(m)}

Foreseen ==
  /\ RollBackForeseen /\ CleanForeseen /\ NothingForeseen /\ ErrorForeseen
  /\ ReclaimAsPredicted

(* Nothing is foreseen once the forecast is dropped.                         *)
LEMMA Unforeseen == ASSUME forecast' = "none" PROVE Foreseen'
  BY DEF Foreseen, RollBackForeseen, CleanForeseen, NothingForeseen, ErrorForeseen,
     ReclaimAsPredicted

(* A forecast only stands at the locations of a recovery.                    *)
LEMMA ForecastStands ==
  ASSUME TypeOK, Foreseen, forecast # "none"
  PROVE  pc \in {"idle", "saveAbandon", "classify", "saveRolledBack", "saveCommitted",
                 "cleanup"} \cup RollbackLoop
  BY DEF TypeOK, GenerationReclaimAction, Foreseen, RollBackForeseen, CleanForeseen,
     NothingForeseen, ErrorForeseen

(* Elsewhere a step that does not make a forecast leaves none.               *)
LEMMA NoForecastKept ==
  ASSUME TypeOK, Foreseen,
         pc \notin {"idle", "saveAbandon", "classify", "saveRolledBack",
                    "saveCommitted", "cleanup"} \cup RollbackLoop,
         NoFault \/ Fault
  PROVE  Foreseen'
  BY ForecastStands, Unforeseen DEF NoFault, Fault

LEMMA InitForeseen == Init => Foreseen
  BY DEF Init, Foreseen, RollBackForeseen, CleanForeseen, NothingForeseen, ErrorForeseen,
     ReclaimAsPredicted

(* The start of a recovery establishes what it predicts.                     *)
LEMMA ReclaimReadyForeseen == ASSUME IInv, ReclaimReady PROVE Foreseen'
  <1>1. forecast' = "AbandonReady" /\ pc' = "saveAbandon"
    BY DEF ReclaimReady, InspectReclaim
  <1>2. doc'.phase = "Publishing" /\ ValidateReclaimableReadyDocument(doc)'
    BY DEF ReclaimReady, InPhase, ValidateReclaimableReadyDocument
  <1> QED BY <1>1, <1>2 DEF Foreseen, RollBackForeseen, CleanForeseen, NothingForeseen,
             ErrorForeseen, ReclaimAsPredicted, RollbackLoop

LEMMA RecoverPublishingForeseen == ASSUME IInv, RecoverPublishing PROVE Foreseen'
  <1> USE DEF RecoverPublishing, Keep
  <1>1. CASE PublishingIsComplete
    <2>1. forecast' = "FinalizeCommitted" /\ pc' = "saveCommitted"
      BY <1>1 DEF InspectReclaim
    <2>2. /\ doc'.phase = "Committed" /\ ValidateCommitted(doc)'
          /\ \A m \in Members : fs'[m]["backup"] \in {"none", PreimageOf(m)'}
      BY <1>1 DEF PublishingIsComplete, ValidateCommitted, PreimageOf, Document
    <2> QED BY <2>1, <2>2 DEF Foreseen, RollBackForeseen, CleanForeseen, NothingForeseen,
               ErrorForeseen, ReclaimAsPredicted
  <1>2. CASE ~PublishingIsComplete /\ Classifiable(journal.step)
    <2>1. forecast' = "RollBack" /\ pc' = "classify"
      BY <1>2 DEF InspectReclaim
    <2>2. Classifiable(doc.step)'
      BY <1>2 DEF Classifiable, ClassifyMember, PreimageOf
    <2> QED BY <2>1, <2>2 DEF Foreseen, RollBackForeseen, CleanForeseen, NothingForeseen,
               ErrorForeseen, ReclaimAsPredicted, RollbackLoop
  <1>3. CASE ~PublishingIsComplete /\ ~Classifiable(journal.step)
    <2>1. forecast' = "Error" /\ pc' = "classify" /\ doc' = journal'
      BY <1>3 DEF InspectReclaim
    <2>2. \A m \in Members : ClassifyMember(m, doc.step[m])' = ClassifyMember(m, journal.step[m])
      BY <1>3 DEF ClassifyMember, PreimageOf
    <2>3. ~Classifiable(doc.step)'
      BY <1>3, <2>2 DEF Classifiable
    <2>4. ~PublishingIsComplete'
      BY <1>3 DEF PreimageOf, PublishingIsComplete
    <2> QED BY <2>1, <2>3, <2>4 DEF Foreseen, RollBackForeseen, CleanForeseen,
               NothingForeseen, ErrorForeseen, ReclaimAsPredicted
  <1> QED BY <1>1, <1>2, <1>3

LEMMA ReopenCommittedForeseen == ASSUME IInv, ReopenCommitted PROVE Foreseen'
  <1> USE DEF ReopenCommitted, Keep, PreimageOf
  <1>1. pc' = "cleanup" /\ i' = 1 /\ ValidateCommitted(journal)' /\ ValidateCommitted(doc)'
        /\ \A m \in Members : ~(m < 1) /\ m >= 1
    BY DEF ValidateCommitted, Members
  <1>2. CASE \A m \in Members : fs[m]["backup"] = "none"
    <2>1. forecast' = "Nothing"
      BY <1>2 DEF InspectReclaim
    <2> QED BY <1>1, <1>2, <2>1 DEF Foreseen, RollBackForeseen, CleanForeseen,
               NothingForeseen, ErrorForeseen, ReclaimAsPredicted
  <1>3. CASE /\ \E m \in Members : fs[m]["backup"] # "none"
             /\ \A m \in Members : fs[m]["backup"] \in {"none", PreimageOf(m)}
    <2>1. forecast' = "CleanCommitted"
      BY <1>3 DEF InspectReclaim
    <2>2. doc' = journal' /\ doc'.phase = "Committed"
      OBVIOUS
    <2> QED BY <1>1, <1>3, <2>1, <2>2 DEF Foreseen, RollBackForeseen, CleanForeseen,
               NothingForeseen, ErrorForeseen, ReclaimAsPredicted
  <1>4. CASE \E m \in Members : fs[m]["backup"] \notin {"none", PreimageOf(m)}
    <2>1. forecast' = "Error"
      BY <1>4 DEF InspectReclaim
    <2> QED BY <1>1, <1>4, <2>1 DEF Foreseen, RollBackForeseen, CleanForeseen,
               NothingForeseen, ErrorForeseen, ReclaimAsPredicted
  <1> QED BY <1>2, <1>3, <1>4

(* The journal saves.                                                        *)
LEMMA SaveAbandonForeseen == ASSUME IInv, Foreseen, SaveAbandon PROVE Foreseen'
  <1> USE DEF SaveAbandon, SaveState
  <1>1. CASE Fault
    BY <1>1, Unforeseen DEF Fault
  <1>2. CASE NoFault /\ Goto("classify")
    <2>1. CASE forecast = "none"
      BY <1>2, <2>1, Unforeseen DEF NoFault
    <2>2. CASE forecast # "none"
      <3>1. /\ forecast' \in {"AbandonReady", "RollBack"} /\ pc' = "classify"
            /\ ValidateReclaimableReadyDocument(doc)
        BY <1>2, <2>2 DEF NoFault, Goto, IInv, TypeOK, GenerationReclaimAction, Foreseen,
           RollBackForeseen, CleanForeseen, NothingForeseen, ErrorForeseen
      <3>2. ASSUME NEW m \in Members
            PROVE  ClassifyMember(m, doc.step[m])' # "Error"
        <4>1. fs'[m]["dest"] \in Files /\ preimage' = preimage /\ fs' = fs /\ doc' = doc
          BY <1>2 DEF IInv, TypeOK, Paths, Goto
        <4>2. /\ doc'.step[m] = "Prepared"
              /\ fs'[m]["stage"] = "new" /\ fs'[m]["backup"] = "none"
          BY <3>1, <4>1 DEF ValidateReclaimableReadyDocument
        <4> QED BY <4>1, <4>2 DEF ClassifyMember, PreimageOf
      <3>3. Classifiable(doc.step)'
        BY <3>2 DEF Classifiable
      <3> QED BY <3>1, <3>3 DEF Foreseen, RollBackForeseen, CleanForeseen, NothingForeseen,
                 ErrorForeseen, ReclaimAsPredicted, RollbackLoop
    <2> QED BY <2>1, <2>2
  <1> QED BY <1>1, <1>2

LEMMA SaveRolledBackForeseen == ASSUME IInv, Foreseen, SaveRolledBack PROVE Foreseen'
  <1> USE DEF SaveRolledBack, SaveState
  <1>1. CASE Fault
    BY <1>1, Unforeseen DEF Fault
  <1>2. CASE NoFault /\ journal' = doc /\ Return
    <2>1. CASE forecast = "none"
      BY <1>2, <2>1, Unforeseen DEF NoFault
    <2>2. CASE forecast # "none"
      <3>1. /\ forecast' \in {"AbandonReady", "RollBack"} /\ pc' = "idle"
            /\ doc.phase = "RolledBack" /\ \A m \in Members : Finished(m)
        BY <1>2, <2>2 DEF NoFault, Return, IInv, TypeOK, GenerationReclaimAction, Foreseen,
           RollBackForeseen, CleanForeseen, NothingForeseen, ErrorForeseen, RollbackLoop
      <3>2. journal'.phase = "RolledBack" /\ ValidateRolledBack(journal)'
        BY <1>2, <3>1 DEF ValidateRolledBack, Finished, PrivateAbsent, PreimageOf
      <3> QED BY <3>1, <3>2 DEF Foreseen, RollBackForeseen, CleanForeseen, NothingForeseen,
                 ErrorForeseen, ReclaimAsPredicted, RollbackLoop
    <2> QED BY <2>1, <2>2
  <1> QED BY <1>1, <1>2

LEMMA SaveCommittedForeseen == ASSUME IInv, Foreseen, SaveCommitted PROVE Foreseen'
  <1> USE DEF SaveCommitted, SaveState
  <1>1. CASE Fault
    BY <1>1, Unforeseen DEF Fault
  <1>2. CASE NoFault /\ journal' = doc /\ pc' = "cleanup" /\ i' = 1 /\ UNCHANGED <<doc, acts>>
    <2>1. CASE forecast = "none"
      BY <1>2, <2>1, Unforeseen DEF NoFault
    <2>2. CASE forecast # "none"
      <3>1. /\ forecast' \in {"FinalizeCommitted", "CleanCommitted"}
            /\ doc.phase = "Committed" /\ ValidateCommitted(doc)
            /\ \A m \in Members : fs[m]["backup"] \in {"none", PreimageOf(m)}
        BY <1>2, <2>2 DEF NoFault, IInv, TypeOK, GenerationReclaimAction, Foreseen,
           RollBackForeseen, CleanForeseen, NothingForeseen, ErrorForeseen, RollbackLoop
      <3>2. /\ doc'.phase = "Committed" /\ ValidateCommitted(doc)' /\ journal' = doc'
            /\ \A m \in Members : fs'[m]["backup"] \in {"none", PreimageOf(m)'}
            /\ \A m \in Members : ~(m < 1)
        BY <1>2, <3>1 DEF ValidateCommitted, PreimageOf, Members
      <3> QED BY <1>2, <3>1, <3>2 DEF Foreseen, RollBackForeseen, CleanForeseen,
                 NothingForeseen, ErrorForeseen, ReclaimAsPredicted
    <2> QED BY <2>1, <2>2
  <1> QED BY <1>1, <1>2

(* classify_rollback: the forecast said whether every member is classified.  *)
LEMMA ClassifyRollbackForeseen == ASSUME IInv, Foreseen, ClassifyRollback PROVE Foreseen'
  <1> USE DEF ClassifyRollback, Keep
  <1>0. forecast \in {"none", "AbandonReady", "RollBack", "Error"}
    BY DEF IInv, TypeOK, GenerationReclaimAction, Foreseen, CleanForeseen, NothingForeseen
  <1>1. CASE forecast' = "none"
    BY <1>1, Unforeseen
  <1>2. CASE /\ Classifiable(doc.step) /\ NoFault /\ forecast # "none" /\ UNCHANGED doc
             /\ acts' = [m \in Members |-> ClassifyMember(m, doc.step[m])]
             /\ i' = N /\ pc' = "rollback"
    <2>1. forecast' \in {"AbandonReady", "RollBack"}
      BY <1>0, <1>2 DEF NoFault, Foreseen, ErrorForeseen
    <2>2. N \in Members /\ \A m \in Members : ~(m > N)
      BY NAssumption DEF Members
    <2>3. ASSUME NEW m \in Members PROVE AsClassified(m)'
      <3>1. ClassifyMember(m, doc.step[m])' = ClassifyMember(m, doc.step[m])
        BY <1>2 DEF ClassifyMember, PreimageOf
      <3> QED BY <1>2, <3>1 DEF AsClassified, Classifiable
    <2> QED BY <1>2, <2>1, <2>2, <2>3 DEF Foreseen, RollBackForeseen, CleanForeseen,
               NothingForeseen, ErrorForeseen, ReclaimAsPredicted, RollbackLoop
  <1>3. CASE ~Classifiable(doc.step) /\ NoFault /\ Return /\ forecast # "none"
    <2>1. /\ forecast' = "Error" /\ pc' = "idle" /\ doc = journal
          /\ ~PublishingIsComplete
      BY <1>0, <1>3 DEF NoFault, Return, Foreseen, RollBackForeseen, ErrorForeseen
    <2>2. journal'.phase = "Publishing"
      BY DEF IInv, PhaseInv
    <2>3. \A m \in Members : ClassifyMember(m, journal.step[m])' = ClassifyMember(m, doc.step[m])
      BY <2>1 DEF ClassifyMember, PreimageOf
    <2>4. ~Classifiable(journal.step)'
      BY <1>3, <2>3 DEF Classifiable
    <2>5. ~PublishingIsComplete'
      BY <2>1 DEF PublishingIsComplete, PreimageOf
    <2>6. InspectReclaim' = "Error"
      BY <2>2, <2>4, <2>5 DEF InspectReclaim
    <2> QED BY <2>1, <2>6 DEF Foreseen, RollBackForeseen, CleanForeseen,
               NothingForeseen, ErrorForeseen, ReclaimAsPredicted
  <1> QED BY <1>1, <1>2, <1>3 DEF NoFault, Fault

(* The backups go one by one, unless one of them was foreseen to stop it.    *)
LEMMA CleanupForeseen == ASSUME IInv, Foreseen, CleanupCommittedBackups PROVE Foreseen'
  <1> USE DEF CleanupCommittedBackups, Keep, IInv
  <1>0. /\ forecast \in {"none", "FinalizeCommitted", "CleanCommitted", "Nothing", "Error"}
        /\ i \in Members /\ journal.phase = "Committed"
        /\ TypeOK
    BY DEF TypeOK, GenerationReclaimAction, Foreseen, RollBackForeseen, RollbackLoop, PhaseInv
  <1>1. CASE forecast' = "none"
    BY <1>1, Unforeseen
  <1>2. CASE /\ NoFault /\ forecast # "none"
             /\ fs[i]["stage"] = "none" /\ fs[i]["backup"] \in {"none", PreimageOf(i)}
             /\ fs' = Unlinked(i, "backup")
             /\ \/ i < N /\ i' = i + 1 /\ UNCHANGED <<doc, pc, acts>>
                \/ i = N /\ Return
    <2>1. /\ fs'[i]["backup"] = "none" /\ fs'[i]["stage"] = fs[i]["stage"]
          /\ fs'[i]["dest"] = fs[i]["dest"]
          /\ \A k \in Members \ {i} : fs'[k] = fs[k]
      BY <1>0, <1>2, UnlinkedFiles DEF Paths
    <2>2. /\ \A m \in Members : m < i + 1 => m < i \/ m = i
          /\ \A m \in Members : m >= i /\ m # i => m >= i + 1
          /\ i = N => \A m \in Members : m < i \/ m = i
          /\ i = N => \A m \in Members : ~(m >= i /\ m # i)
      BY <1>0, NAssumption DEF Members
    <2>3. ValidateCommitted(journal)
      BY <1>0, <1>2 DEF Foreseen, CleanForeseen, NothingForeseen, ErrorForeseen
    <2>4. ValidateCommitted(journal)' /\ journal'.phase = "Committed"
      BY <1>0, <2>1, <2>3 DEF ValidateCommitted
    <2>5. CASE forecast \in {"FinalizeCommitted", "CleanCommitted"}
      <3>1. /\ journal = doc
            /\ \A m \in Members : m < i => fs[m]["backup"] = "none"
            /\ \A m \in Members : fs[m]["backup"] \in {"none", PreimageOf(m)}
        BY <2>5 DEF Foreseen, CleanForeseen
      <3>2. /\ \A m \in Members : m < i + 1 => fs'[m]["backup"] = "none"
            /\ \A m \in Members : fs'[m]["backup"] \in {"none", PreimageOf(m)'}
            /\ i = N => \A m \in Members : fs'[m]["backup"] = "none"
        BY <2>1, <2>2, <3>1 DEF PreimageOf
      <3> QED BY <1>2, <2>4, <2>5, <3>1, <3>2 DEF NoFault, Return, Foreseen, RollBackForeseen,
                 CleanForeseen, NothingForeseen, ErrorForeseen, ReclaimAsPredicted
    <2>6. CASE forecast = "Nothing"
      <3>1. \A m \in Members : fs'[m]["backup"] = "none"
        BY <2>1, <2>6 DEF Foreseen, NothingForeseen
      <3>2. InspectReclaim' = "Nothing"
        BY <2>4, <3>1 DEF InspectReclaim
      <3> QED BY <1>2, <2>4, <2>6, <3>1, <3>2 DEF NoFault, Return, Foreseen, RollBackForeseen,
                 CleanForeseen, NothingForeseen, ErrorForeseen, ReclaimAsPredicted
    <2>7. CASE forecast = "Error"
      <3>1. PICK m \in Members : m >= i /\ fs[m]["backup"] \notin {"none", PreimageOf(m)}
        BY <2>7 DEF Foreseen, ErrorForeseen
      <3>2. m # i /\ m >= i + 1 /\ i # N
        BY <1>2, <2>2, <3>1
      <3>3. fs'[m]["backup"] \notin {"none", PreimageOf(m)'}
        BY <2>1, <3>1, <3>2 DEF PreimageOf
      <3> QED BY <1>2, <2>4, <2>7, <3>2, <3>3 DEF NoFault, Foreseen, RollBackForeseen,
                 CleanForeseen, NothingForeseen, ErrorForeseen, ReclaimAsPredicted
    <2> QED BY <1>0, <1>2, <2>5, <2>6, <2>7
  <1>3. CASE /\ NoFault /\ forecast # "none" /\ UNCHANGED fs /\ Return
             /\ ~(fs[i]["stage"] = "none" /\ fs[i]["backup"] \in {"none", PreimageOf(i)})
    <2>1. ValidateCommitted(journal)
      BY <1>0, <1>3 DEF Foreseen, CleanForeseen, NothingForeseen, ErrorForeseen
    <2>2. fs[i]["backup"] \notin {"none", PreimageOf(i)}
      BY <1>0, <1>3, <2>1 DEF ValidateCommitted
    <2>3. forecast' = "Error" /\ pc' = "idle"
      BY <1>0, <1>3, <2>2 DEF NoFault, Return, Foreseen, CleanForeseen, NothingForeseen
    <2>4. ValidateCommitted(journal)' /\ journal'.phase = "Committed"
      BY <1>0, <1>3, <2>1 DEF ValidateCommitted
    <2>5. \E m \in Members : fs'[m]["backup"] \notin {"none", PreimageOf(m)'}
      BY <1>0, <1>3, <2>2 DEF PreimageOf
    <2>6. InspectReclaim' = "Error"
      BY <2>4, <2>5 DEF InspectReclaim
    <2> QED BY <2>3, <2>6 DEF Foreseen, RollBackForeseen, CleanForeseen,
               NothingForeseen, ErrorForeseen, ReclaimAsPredicted
  <1> QED BY <1>1, <1>2, <1>3 DEF NoFault, Fault

(* Finishing a member on a foreseen rollback leaves it as the journal says.  *)
LEMMA MemberRolledBackForeseen ==
  ASSUME IInv, Foreseen, forecast \in {"AbandonReady", "RollBack"},
         pc \in {"rollback", "unlink"}, MemberRolledBack, Keep,
         fs' \in [Members -> [Paths -> Files]],
         \A k \in Members \ {i} : fs'[k] = fs[k],
         fs'[i]["stage"] = "none", fs'[i]["backup"] = "none",
         acts[i] # "UntouchedConflict" => fs'[i]["dest"] = PreimageOf(i)
  PROVE  Foreseen'
  <1> USE DEF IInv, Keep, MemberRolledBack, NoFault
  <1>1. i \in Members /\ \A m \in Members : m \in Int /\ m >= 1
    BY NAssumption DEF PhaseInv, Members
  <1>2. i = 1 => \A m \in Members : m > i \/ m = i
    BY <1>1
  <1>3. /\ \A m \in Members \ {i} : doc'.step[m] = doc.step[m]
        /\ doc'.step[i] = IF acts[i] = "UntouchedConflict" THEN "Abandoned" ELSE "Restored"
    BY <1>1 DEF TypeOK, GenerationDocument
  <1>4. ASSUME NEW m \in Members, m = i PROVE Finished(m)'
    BY <1>3, <1>4 DEF Finished, PrivateAbsent, PreimageOf
  <1>5. ASSUME NEW m \in Members, m > i PROVE Finished(m)'
    <2>1. Finished(m) /\ m # i
      BY <1>1, <1>5 DEF Foreseen, RollBackForeseen, RollbackLoop
    <2> QED BY <1>3, <2>1 DEF Finished, PrivateAbsent, PreimageOf
  <1>6. CASE i > 1
    <2>1. ASSUME NEW m \in Members, m < i PROVE AsClassified(m)'
      <3>1. AsClassified(m) /\ m # i
        BY <1>1, <2>1 DEF Foreseen, RollBackForeseen, RollbackLoop
      <3>2. doc'.step[m] = doc.step[m] /\ fs'[m] = fs[m] /\ acts' = acts
        BY <1>1, <1>3, <1>6, <3>1
      <3>3. ClassifyMember(m, doc.step[m])' = ClassifyMember(m, doc.step[m])
        BY <3>2 DEF ClassifyMember, PreimageOf
      <3> QED BY <3>1, <3>2, <3>3 DEF AsClassified
    <2>2. i' = i - 1 /\ pc' = "rollback"
      BY <1>1, <1>6
    <2>3. \A m \in Members : m = i' => AsClassified(m)'
      BY <1>1, <2>1, <2>2
    <2>4. ASSUME NEW m \in Members
          PROVE  (m < i' => AsClassified(m)') /\ (m > i' => Finished(m)')
      <3>1. m < i' => m < i
        BY <1>1, <2>2
      <3>2. m > i' => m > i \/ m = i
        BY <1>1, <2>2
      <3> QED BY <1>4, <1>5, <2>1, <3>1, <3>2
    <2> QED BY <2>2, <2>3, <2>4 DEF Foreseen,
               RollBackForeseen, CleanForeseen, NothingForeseen, ErrorForeseen,
               ReclaimAsPredicted, RollbackLoop
  <1>7. CASE i = 1
    <2>1. pc' = "saveRolledBack" /\ doc'.phase = "RolledBack"
      BY <1>7
    <2>2. \A m \in Members : Finished(m)'
      BY <1>2, <1>4, <1>5, <1>7
    <2> QED BY <2>1, <2>2 DEF Foreseen, RollBackForeseen, CleanForeseen, NothingForeseen,
               ErrorForeseen, ReclaimAsPredicted, RollbackLoop
  <1> QED BY <1>1, <1>6, <1>7

(* A step inside member i of the loop leaves the other members as they are.  *)
LEMMA OtherMembersForeseen ==
  ASSUME IInv, Foreseen, forecast \in {"AbandonReady", "RollBack"},
         pc \in RollbackLoop, UNCHANGED <<doc, i, acts>>, Keep,
         \A k \in Members \ {i} : fs'[k] = fs[k]
  PROVE  \A m \in Members : /\ m < i' => AsClassified(m)'
                            /\ m > i' => Finished(m)'
  <1> USE DEF Keep
  <1>1. i \in Members /\ \A m \in Members : m \in Int
    BY NAssumption DEF IInv, PhaseInv, Members, RollbackLoop
  <1>2. ASSUME NEW m \in Members, m < i PROVE AsClassified(m)'
    <2>1. AsClassified(m) /\ fs'[m] = fs[m]
      BY <1>1, <1>2 DEF Foreseen, RollBackForeseen
    <2>2. ClassifyMember(m, doc.step[m])' = ClassifyMember(m, doc.step[m])
      BY <2>1 DEF ClassifyMember, PreimageOf
    <2> QED BY <2>1, <2>2 DEF AsClassified
  <1>3. ASSUME NEW m \in Members, m > i PROVE Finished(m)'
    <2>1. Finished(m) /\ fs'[m] = fs[m]
      BY <1>1, <1>3 DEF Foreseen, RollBackForeseen
    <2> QED BY <2>1 DEF Finished, PrivateAbsent, PreimageOf
  <1> QED BY <1>2, <1>3

(* In the loop only the two predictions of a rollback stand.                 *)
LEMMA LoopForecast ==
  ASSUME TypeOK, Foreseen, pc \in RollbackLoop \cup {"saveAbandon", "saveRolledBack"}
  PROVE  forecast \in {"none", "AbandonReady", "RollBack"}
  BY DEF TypeOK, GenerationReclaimAction, Foreseen, CleanForeseen, NothingForeseen,
     ErrorForeseen, RollbackLoop

LEMMA RollbackMemberForeseen == ASSUME IInv, Foreseen, RollbackMember PROVE Foreseen'
  <1> USE DEF RollbackMember, RemoveStage, Keep
  <1>0. /\ i \in Members /\ TypeOK
        /\ forecast \in {"none", "AbandonReady", "RollBack"}
    BY LoopForecast DEF IInv, PhaseInv, RollbackLoop
  <1>1. CASE forecast' = "none"
    BY <1>1, Unforeseen
  <1>2. CASE NoFault /\ forecast # "none"
    <2>0. /\ forecast \in {"AbandonReady", "RollBack"} /\ forecast' = forecast
          /\ AsClassified(i) /\ fs[i]["dest"] \in Files /\ fs[i]["stage"] \in Files
      BY <1>0, <1>2 DEF NoFault, Foreseen, RollBackForeseen, TypeOK, Paths
    <2>1. /\ acts[i] \in {"Untouched", "AlreadyRestored"} =>
               fs[i]["dest"] = PreimageOf(i) /\ fs[i]["backup"] = "none"
          /\ acts[i] = "AlreadyRestored" => fs[i]["stage"] = "none"
          /\ acts[i] = "UntouchedConflict" => fs[i]["backup"] = "none"
      BY <2>0 DEF AsClassified, ClassifyMember, PreimageOf
    <2>2. /\ acts[i] = "BackedUp" => /\ fs[i]["dest"] = "none" /\ fs[i]["backup"] = "old"
                                     /\ i \in preimage
          /\ acts[i] \in {"PublishedExisting", "PublishedMissing"} =>
               /\ fs[i]["dest"] = "new" /\ fs[i]["stage"] = "none"
               /\ fs[i]["backup"] = PreimageOf(i)
               /\ acts[i] = IF i \in preimage THEN "PublishedExisting"
                                              ELSE "PublishedMissing"
      BY <2>0 DEF AsClassified, ClassifyMember, PreimageOf
    <2>3. CASE /\ acts[i] \in {"Untouched", "UntouchedConflict"}
               /\ fs' = Unlinked(i, "stage") /\ MemberRolledBack
      <3>1. /\ fs' \in [Members -> [Paths -> Files]]
            /\ fs'[i]["stage"] = "none"
            /\ fs'[i]["dest"] = fs[i]["dest"]
            /\ fs'[i]["backup"] = fs[i]["backup"]
            /\ \A k \in Members \ {i} : fs'[k] = fs[k]
        BY <1>0, <2>3, UnlinkedFiles DEF Paths
      <3> QED BY <2>0, <2>1, <2>3, <3>1, MemberRolledBackForeseen
    <2>4. CASE acts[i] = "AlreadyRestored" /\ MemberRolledBack /\ UNCHANGED fs
      BY <1>0, <2>0, <2>1, <2>4, MemberRolledBackForeseen DEF TypeOK
    <2>5. CASE acts[i] = "BackedUp" /\ UNCHANGED fs /\ Goto("restore")
      <3>1. \A m \in Members : (m < i' => AsClassified(m)') /\ (m > i' => Finished(m)')
        BY <2>0, <2>5, OtherMembersForeseen DEF Goto, RollbackLoop
      <3> QED BY <2>0, <2>2, <2>5, <3>1 DEF Goto, Foreseen, RollBackForeseen, CleanForeseen,
                 NothingForeseen, ErrorForeseen, ReclaimAsPredicted, RollbackLoop
    <2>6. CASE /\ acts[i] \in {"PublishedExisting", "PublishedMissing"}
               /\ UNCHANGED fs /\ Goto("take")
      <3>1. \A m \in Members : (m < i' => AsClassified(m)') /\ (m > i' => Finished(m)')
        BY <2>0, <2>6, OtherMembersForeseen DEF Goto, RollbackLoop
      <3>2. /\ fs'[i']["dest"] = "new" /\ fs'[i']["stage"] = "none"
            /\ fs'[i']["backup"] = PreimageOf(i)'
            /\ acts'[i'] = IF i' \in preimage' THEN "PublishedExisting"
                                               ELSE "PublishedMissing"
        BY <2>2, <2>6 DEF Goto, PreimageOf
      <3> QED BY <2>0, <2>6, <3>1, <3>2 DEF Goto, Foreseen, RollBackForeseen, CleanForeseen,
                 NothingForeseen, ErrorForeseen, ReclaimAsPredicted, RollbackLoop
    <2> QED BY <1>2, <2>0, <2>1, <2>2, <2>3, <2>4, <2>5, <2>6 DEF Fault, NoFault
  <1> QED BY <1>1, <1>2 DEF Fault, NoFault, MemberRolledBack

LEMMA TakePublishedForeseen == ASSUME IInv, Foreseen, TakePublished PROVE Foreseen'
  <1> USE DEF TakePublished, Keep
  <1>0. /\ i \in Members /\ TypeOK
        /\ forecast \in {"none", "AbandonReady", "RollBack"}
    BY LoopForecast DEF IInv, PhaseInv, RollbackLoop
  <1>1. CASE forecast' = "none"
    BY <1>1, Unforeseen
  <1>2. CASE NoFault /\ forecast # "none"
    <2>1. /\ forecast' \in {"AbandonReady", "RollBack"}
          /\ fs[i]["stage"] = "none" /\ fs[i]["dest"] = "new" /\ fs[i]["backup"] = PreimageOf(i)
          /\ acts[i] = IF i \in preimage THEN "PublishedExisting" ELSE "PublishedMissing"
      BY <1>0, <1>2 DEF NoFault, Foreseen, RollBackForeseen
    <2>2. /\ fs' = Moved(i, "dest", "stage")
          /\ Goto(IF acts[i] = "PublishedExisting" THEN "restore" ELSE "unlink")
      BY <1>2, <2>1 DEF CanMove, NoFault, Fault
    <2>3. /\ fs'[i]["dest"] = "none" /\ fs'[i]["backup"] = fs[i]["backup"]
          /\ \A k \in Members \ {i} : fs'[k] = fs[k]
      BY <1>0, <2>2, MovedFiles DEF Paths
    <2>4. \A m \in Members : (m < i' => AsClassified(m)') /\ (m > i' => Finished(m)')
      BY <1>0, <1>2, <2>1, <2>2, <2>3, OtherMembersForeseen DEF Goto, RollbackLoop
    <2>5. CASE i \in preimage
      <3>1. /\ pc' = "restore" /\ fs'[i']["dest"] = "none" /\ fs'[i']["backup"] = "old"
            /\ i' \in preimage' /\ acts'[i'] # "UntouchedConflict"
        BY <2>1, <2>2, <2>3, <2>5 DEF Goto, PreimageOf
      <3> QED BY <2>1, <2>4, <3>1 DEF Foreseen, RollBackForeseen, CleanForeseen,
                 NothingForeseen, ErrorForeseen, ReclaimAsPredicted, RollbackLoop
    <2>6. CASE i \notin preimage
      <3>1. /\ pc' = "unlink" /\ fs'[i']["dest"] = PreimageOf(i)' /\ fs'[i']["backup"] = "none"
            /\ acts'[i'] # "UntouchedConflict"
        BY <2>1, <2>2, <2>3, <2>6 DEF Goto, PreimageOf
      <3> QED BY <2>1, <2>4, <3>1 DEF Foreseen, RollBackForeseen, CleanForeseen,
                 NothingForeseen, ErrorForeseen, ReclaimAsPredicted, RollbackLoop
    <2> QED BY <2>5, <2>6
  <1> QED BY <1>1, <1>2 DEF Fault, NoFault

LEMMA RestoreBackupForeseen == ASSUME IInv, Foreseen, RestoreBackup PROVE Foreseen'
  <1> USE DEF RestoreBackup, Keep
  <1>0. /\ i \in Members /\ TypeOK
        /\ forecast \in {"none", "AbandonReady", "RollBack"}
    BY LoopForecast DEF IInv, PhaseInv, RollbackLoop
  <1>1. CASE forecast' = "none"
    BY <1>1, Unforeseen
  <1>2. CASE NoFault /\ forecast # "none"
    <2>1. /\ forecast' \in {"AbandonReady", "RollBack"}
          /\ fs[i]["dest"] = "none" /\ fs[i]["backup"] = "old"
          /\ i \in preimage /\ acts[i] # "UntouchedConflict"
      BY <1>0, <1>2 DEF NoFault, Foreseen, RollBackForeseen
    <2>2. fs' = Moved(i, "backup", "dest") /\ Goto("restoreVerify")
      BY <1>2, <2>1 DEF CanMove, NoFault, Fault
    <2>3. /\ fs'[i]["dest"] = "old" /\ fs'[i]["backup"] = "none"
          /\ \A k \in Members \ {i} : fs'[k] = fs[k]
      BY <1>0, <2>1, <2>2, MovedFiles DEF Paths
    <2>4. \A m \in Members : (m < i' => AsClassified(m)') /\ (m > i' => Finished(m)')
      BY <1>0, <1>2, <2>1, <2>2, <2>3, OtherMembersForeseen DEF Goto, RollbackLoop
    <2>5. /\ pc' = "restoreVerify" /\ fs'[i']["dest"] = PreimageOf(i)'
          /\ fs'[i']["backup"] = "none"
          /\ i' \in preimage' /\ acts'[i'] # "UntouchedConflict"
      BY <2>1, <2>2, <2>3 DEF Goto, PreimageOf
    <2> QED BY <2>1, <2>4, <2>5 DEF Foreseen, RollBackForeseen, CleanForeseen,
               NothingForeseen, ErrorForeseen, ReclaimAsPredicted, RollbackLoop
  <1> QED BY <1>1, <1>2 DEF Fault, NoFault

LEMMA RestoreVerifyForeseen == ASSUME IInv, Foreseen, RestoreVerify PROVE Foreseen'
  <1> USE DEF RestoreVerify, Keep
  <1>0. /\ i \in Members /\ TypeOK
        /\ forecast \in {"none", "AbandonReady", "RollBack"}
    BY LoopForecast DEF IInv, PhaseInv, RollbackLoop
  <1>1. CASE forecast' = "none"
    BY <1>1, Unforeseen
  <1>2. CASE NoFault /\ forecast # "none"
    <2>1. /\ forecast' \in {"AbandonReady", "RollBack"}
          /\ fs[i]["dest"] = "old" /\ fs[i]["backup"] = "none"
          /\ i \in preimage /\ acts[i] # "UntouchedConflict"
      BY <1>0, <1>2 DEF NoFault, Foreseen, RollBackForeseen, PreimageOf
    <2>2. Goto("unlink")
      BY <1>2, <2>1 DEF NoFault, Fault
    <2>3. \A m \in Members : (m < i' => AsClassified(m)') /\ (m > i' => Finished(m)')
      BY <1>0, <1>2, <2>1, <2>2, OtherMembersForeseen DEF Goto, RollbackLoop
    <2>4. /\ pc' = "unlink" /\ fs'[i']["dest"] = PreimageOf(i)'
          /\ fs'[i']["backup"] = "none" /\ acts'[i'] # "UntouchedConflict"
      BY <2>1, <2>2 DEF Goto, PreimageOf
    <2> QED BY <2>1, <2>3, <2>4 DEF Foreseen, RollBackForeseen, CleanForeseen,
               NothingForeseen, ErrorForeseen, ReclaimAsPredicted, RollbackLoop
  <1> QED BY <1>1, <1>2 DEF Fault, NoFault

LEMMA UnlinkStageForeseen == ASSUME IInv, Foreseen, UnlinkStage PROVE Foreseen'
  <1> USE DEF UnlinkStage, RemoveStage, Keep
  <1>0. /\ i \in Members /\ TypeOK
        /\ forecast \in {"none", "AbandonReady", "RollBack"}
    BY LoopForecast DEF IInv, PhaseInv, RollbackLoop
  <1>1. CASE forecast' = "none"
    BY <1>1, Unforeseen
  <1>2. CASE forecast # "none" /\ fs' = Unlinked(i, "stage") /\ MemberRolledBack
    <2>1. fs[i]["dest"] = PreimageOf(i) /\ fs[i]["backup"] = "none"
      BY <1>0, <1>2 DEF Foreseen, RollBackForeseen
    <2>2. /\ fs' \in [Members -> [Paths -> Files]]
          /\ fs'[i]["stage"] = "none"
          /\ fs'[i]["dest"] = fs[i]["dest"]
          /\ fs'[i]["backup"] = fs[i]["backup"]
          /\ \A k \in Members \ {i} : fs'[k] = fs[k]
      BY <1>0, <1>2, UnlinkedFiles DEF Paths
    <2> QED BY <1>0, <1>2, <2>1, <2>2, MemberRolledBackForeseen
  <1> QED BY <1>1, <1>2 DEF Fault, MemberRolledBack, NoFault

LEMMA StutterForeseen ==
  ASSUME Foreseen, UNCHANGED <<journal, fs, preimage, touched, forecast, local>>
  PROVE  Foreseen'
  <1> USE DEF local
  <1>1. \A m \in Members :
          /\ ClassifyMember(m, doc.step[m])' = ClassifyMember(m, doc.step[m])
          /\ ClassifyMember(m, journal.step[m])' = ClassifyMember(m, journal.step[m])
    BY DEF ClassifyMember, PreimageOf
  <1>2. \A m \in Members : AsClassified(m)' = AsClassified(m)
    BY <1>1 DEF AsClassified
  <1>3. \A m \in Members : Finished(m)' = Finished(m)
    BY DEF Finished, PrivateAbsent, PreimageOf
  <1>4. /\ Classifiable(doc.step)' = Classifiable(doc.step)
        /\ Classifiable(journal.step)' = Classifiable(journal.step)
    BY <1>1 DEF Classifiable
  <1>5. /\ PublishingIsComplete' = PublishingIsComplete
        /\ ValidateReclaimableReadyDocument(doc)' = ValidateReclaimableReadyDocument(doc)
        /\ ValidateReclaimableReadyDocument(journal)'
             = ValidateReclaimableReadyDocument(journal)
    BY DEF PublishingIsComplete, ValidateReclaimableReadyDocument, PreimageOf
  <1>6. /\ ValidateCommitted(doc)' = ValidateCommitted(doc)
        /\ ValidateCommitted(journal)' = ValidateCommitted(journal)
        /\ ValidateRolledBack(journal)' = ValidateRolledBack(journal)
    BY DEF ValidateCommitted, ValidateRolledBack, PrivateAbsent, PreimageOf
  <1>7. InspectReclaim' = InspectReclaim
    BY <1>4, <1>5, <1>6 DEF InspectReclaim, PreimageOf
  <1>8. RollBackForeseen'
    BY <1>2, <1>3, <1>4, <1>5 DEF Foreseen, RollBackForeseen, PreimageOf
  <1>9. (CleanForeseen /\ NothingForeseen /\ ErrorForeseen)'
    BY <1>4, <1>5, <1>6
       DEF Foreseen, CleanForeseen, NothingForeseen, ErrorForeseen, PreimageOf
  <1>10. ReclaimAsPredicted'
    BY <1>6, <1>7 DEF Foreseen, ReclaimAsPredicted
  <1> QED BY <1>8, <1>9, <1>10 DEF Foreseen

(* Foreseen is inductive relative to IInv.                                   *)
LEMMA NextForeseen == IInv /\ Foreseen /\ [Next]_vars => Foreseen'
  <1> SUFFICES ASSUME IInv, Foreseen, [Next]_vars PROVE Foreseen'
    OBVIOUS
  <1>0. TypeOK
    BY DEF IInv
  <1>1. CASE Prepare \/ ResumeReady \/ Crash \/ (\E m \in Members : Compete(m))
    BY <1>1, Unforeseen DEF Prepare, ResumeReady, Crash, Compete
  <1>2. CASE FinishReadyDocumentSave \/ Commit \/ Abandon \/ Drop
    BY <1>0, <1>2, NoForecastKept
       DEF FinishReadyDocumentSave, Commit, Abandon, Drop, RollbackLoop
  <1>3. CASE Recover
    BY <1>3, ReclaimReadyForeseen, RecoverPublishingForeseen, ReopenCommittedForeseen
       DEF Recover
  <1>4. CASE SavePublishing \/ BackupMember \/ BackupMove
    BY <1>0, <1>4, NoForecastKept
       DEF SavePublishing, SaveState, BackupMember, BackupMove, FailsTo, RollbackLoop
  <1>5. CASE PublishMember \/ PublishMove \/ PublishVerify
    BY <1>0, <1>5, NoForecastKept
       DEF PublishMember, PublishMove, PublishVerify, FailsTo, RollbackLoop
  <1>6. CASE PutBack \/ UndoRestore
    BY <1>0, <1>6, NoForecastKept
       DEF PutBack, UndoRestore, RestoreMovedAfterEvidenceMismatch, RollbackLoop
  <1>7. CASE SaveCommitted \/ CleanupCommittedBackups \/ SaveAbandon \/ ClassifyRollback
    BY <1>7, SaveCommittedForeseen, CleanupForeseen, SaveAbandonForeseen,
       ClassifyRollbackForeseen
  <1>8. CASE RollbackMember \/ TakePublished \/ RestoreBackup \/ RestoreVerify
             \/ UnlinkStage \/ SaveRolledBack
    BY <1>8, RollbackMemberForeseen, TakePublishedForeseen, RestoreBackupForeseen,
       RestoreVerifyForeseen, UnlinkStageForeseen, SaveRolledBackForeseen
  <1>9. CASE Settle \/ UNCHANGED vars
    BY <1>9, StutterForeseen DEF Settle, vars, local
  <1> QED BY <1>1, <1>2, <1>3, <1>4, <1>5, <1>6, <1>7, <1>8, <1>9
          DEF Next, Forge, Environment, Caller, Publish, Rollback

(* inspect_reclaim tells the truth for any number of members: a recovery      *)
(* that meets no failure, crash or competitor ends the way it was predicted,  *)
(* and a predicted refusal changes nothing that would lift it.                *)
THEOREM ReclaimIsForeseen == Spec => []ReclaimAsPredicted
  <1>1. Foreseen => ReclaimAsPredicted
    BY DEF Foreseen
  <1>2. Spec => []Foreseen
    BY InitForeseen, NextForeseen, Invariance, PTL DEF Spec
  <1> QED BY <1>1, <1>2, PTL

-----------------------------------------------------------------------------
(* Operations end. *)

Loop == {"backup", "backupMove", "publish", "publishMove", "publishVerify", "cleanup",
         "rollback", "take", "putBack", "restore", "restoreVerify", "undoRestore", "unlink"}

Nearer(l, k, m, n) == StepsLeft(m, n) < StepsLeft(l, k)

\* The bound is a natural number, which is positive where a lock is held and
\* linear in the number of members.
LEMMA StepsBounded ==
  ASSUME TypeOK, PhaseInv
  PROVE  /\ StepsLeft(pc, i) \in 0 .. 12 * N + 12
         /\ pc \in PublishPCs \cup RollbackPCs => StepsLeft(pc, i) > 0
  <1>1. pc \in Loop => i \in 1 .. N
    BY DEF PhaseInv, Loop, Members
  <1>2. N \in Nat /\ N >= 1
    BY NAssumption
  <1>3. \A l, k : k \in 1 .. N =>
          /\ l \in {"backup", "backupMove", "publish", "publishMove", "publishVerify"}
             => StepsLeft(l, k) \in 1 .. 12 * N + 12
          /\ l \in {"rollback", "take", "restore", "restoreVerify",
                    "putBack", "undoRestore", "unlink"}
             => StepsLeft(l, k) \in 1 .. 12 * N + 12
          /\ l = "cleanup" => StepsLeft(l, k) \in 1 .. 12 * N + 12
    <2> SUFFICES ASSUME NEW l, NEW k, k \in 1 .. N
                 PROVE  /\ l \in {"backup", "backupMove", "publish", "publishMove",
                                  "publishVerify"}
                           => StepsLeft(l, k) \in 1 .. 12 * N + 12
                        /\ l \in {"rollback", "take", "restore", "restoreVerify",
                                  "putBack", "undoRestore", "unlink"}
                           => StepsLeft(l, k) \in 1 .. 12 * N + 12
                        /\ l = "cleanup" => StepsLeft(l, k) \in 1 .. 12 * N + 12
      OBVIOUS
    <2>1. CASE l \in {"backup", "backupMove", "publish", "publishMove", "publishVerify"}
      <3>1. CASE l = "backup"
        BY <1>2, <3>1 DEF StepsLeft
      <3>2. CASE l = "backupMove"
        BY <1>2, <3>2 DEF StepsLeft
      <3>3. CASE l = "publish"
        BY <1>2, <3>3 DEF StepsLeft
      <3>4. CASE l = "publishMove"
        BY <1>2, <3>4 DEF StepsLeft
      <3>5. CASE l = "publishVerify"
        BY <1>2, <3>5 DEF StepsLeft
      <3> QED BY <2>1, <3>1, <3>2, <3>3, <3>4, <3>5
    <2>2. CASE l \in {"rollback", "take", "restore", "restoreVerify",
                      "putBack", "undoRestore", "unlink"}
      <3>1. CASE l = "rollback"
        BY <1>2, <3>1 DEF StepsLeft
      <3>2. CASE l = "take"
        BY <1>2, <3>2 DEF StepsLeft
      <3>3. CASE l = "restore"
        BY <1>2, <3>3 DEF StepsLeft
      <3>4. CASE l = "restoreVerify"
        BY <1>2, <3>4 DEF StepsLeft
      <3>5. CASE l = "putBack"
        BY <1>2, <3>5 DEF StepsLeft
      <3>6. CASE l = "undoRestore"
        BY <1>2, <3>6 DEF StepsLeft
      <3>7. CASE l = "unlink"
        BY <1>2, <3>7 DEF StepsLeft
      <3> QED BY <2>2, <3>1, <3>2, <3>3, <3>4, <3>5, <3>6, <3>7
    <2>3. CASE l = "cleanup"
      BY <1>2, <2>3 DEF StepsLeft
    <2> QED BY <2>1, <2>2, <2>3
  <1>4. \A l, k : l \in {"savePublishing", "saveAbandon", "classify", "saveCommitted",
                        "saveRolledBack"}
                  => StepsLeft(l, k) \in 1 .. 12 * N + 12
    <2> SUFFICES ASSUME NEW l, NEW k,
                        l \in {"savePublishing", "saveAbandon", "classify",
                               "saveCommitted", "saveRolledBack"}
                 PROVE  StepsLeft(l, k) \in 1 .. 12 * N + 12
      OBVIOUS
    <2>1. CASE l = "savePublishing"
      BY <1>2, <2>1 DEF StepsLeft
    <2>2. CASE l = "saveAbandon"
      BY <1>2, <2>2 DEF StepsLeft
    <2>3. CASE l = "classify"
      BY <1>2, <2>3 DEF StepsLeft
    <2>4. CASE l = "saveCommitted"
      BY <1>2, <2>4 DEF StepsLeft
    <2>5. CASE l = "saveRolledBack"
      BY <1>2, <2>5 DEF StepsLeft
    <2> QED BY <2>1, <2>2, <2>3, <2>4, <2>5
  <1>5. \A l, k : l \in {"idle", "readySaveError", "ready"} => StepsLeft(l, k) = 0
    BY DEF StepsLeft
  <1>6. CASE pc \in PublishPCs \cup RollbackPCs
    BY <1>1, <1>2, <1>3, <1>4, <1>6 DEF PublishPCs, RollbackPCs, Loop
  <1>7. CASE pc \in {"idle", "readySaveError", "ready"}
    BY <1>2, <1>5, <1>7 DEF PublishPCs, RollbackPCs
  <1> QED BY <1>6, <1>7 DEF TypeOK

\* Every step of the lock holder leaves fewer steps.
LEMMA HolderAdvances ==
  ASSUME IInv, Publish \/ Rollback
  PROVE  StepsLeft(pc', i') < StepsLeft(pc, i)
  <1>1. pc \in Loop => i \in 1 .. N
    BY DEF IInv, PhaseInv, Loop, Members
  <1>2. ASSUME SavePublishing PROVE Nearer(pc, i, pc', i')
    BY <1>1, <1>2, NAssumption DEF SavePublishing, SaveState, Return, Loop, Nearer, StepsLeft, Members
  <1>3. ASSUME BackupMember PROVE Nearer(pc, i, pc', i')
    BY <1>1, <1>3, NAssumption DEF BackupMember, Goto, Return, FailsTo, SetStep, Loop, Nearer, StepsLeft, Members
  <1>4. ASSUME BackupMove PROVE Nearer(pc, i, pc', i')
    BY <1>1, <1>4, NAssumption DEF BackupMove, Goto, Return, FailsTo, SetStep, Loop, Nearer, StepsLeft, Members
  <1>5. ASSUME PublishMember PROVE Nearer(pc, i, pc', i')
    BY <1>1, <1>5, NAssumption DEF PublishMember, Goto, Return, FailsTo, SetStep, Loop, Nearer, StepsLeft, Members
  <1>6. ASSUME PublishMove PROVE Nearer(pc, i, pc', i')
    BY <1>1, <1>6, NAssumption DEF PublishMove, Goto, Return, FailsTo, SetStep, Loop, Nearer, StepsLeft, Members
  <1>7. ASSUME PublishVerify PROVE Nearer(pc, i, pc', i')
    BY <1>1, <1>7, NAssumption DEF PublishVerify, Goto, Return, FailsTo, SetStep, Loop, Nearer, StepsLeft, Members
  <1>8. ASSUME SaveCommitted PROVE Nearer(pc, i, pc', i')
    BY <1>1, <1>8, NAssumption DEF SaveCommitted, SaveState, Return, Loop, Nearer, StepsLeft, Members
  <1>9. ASSUME CleanupCommittedBackups PROVE Nearer(pc, i, pc', i')
    BY <1>1, <1>9, NAssumption DEF CleanupCommittedBackups, Return, Loop, Nearer, StepsLeft, Members
  <1>10. ASSUME SaveAbandon PROVE Nearer(pc, i, pc', i')
    BY <1>1, <1>10, NAssumption DEF SaveAbandon, SaveState, Goto, Return, Loop, Nearer, StepsLeft, Members
  <1>11. ASSUME ClassifyRollback PROVE Nearer(pc, i, pc', i')
    BY <1>1, <1>11, NAssumption DEF ClassifyRollback, Return, Loop, Nearer, StepsLeft, Members
  <1>12. ASSUME RollbackMember PROVE Nearer(pc, i, pc', i')
    BY <1>1, <1>12, NAssumption DEF RollbackMember, RemoveStage, MemberRolledBack, Goto, Return, Loop, Nearer, StepsLeft, Members
  <1>13. ASSUME TakePublished PROVE Nearer(pc, i, pc', i')
    BY <1>1, <1>13, NAssumption DEF TakePublished, Goto, Return, Loop, Nearer, StepsLeft, Members
  <1>14. ASSUME PutBack PROVE Nearer(pc, i, pc', i')
    BY <1>1, <1>14, NAssumption DEF PutBack, RestoreMovedAfterEvidenceMismatch, Return, Loop, Nearer, StepsLeft, Members
  <1>15. ASSUME RestoreBackup PROVE Nearer(pc, i, pc', i')
    BY <1>1, <1>15, NAssumption DEF RestoreBackup, Goto, Return, Loop, Nearer, StepsLeft, Members
  <1>16. ASSUME RestoreVerify PROVE Nearer(pc, i, pc', i')
    BY <1>1, <1>16, NAssumption DEF RestoreVerify, Goto, Return, Loop, Nearer, StepsLeft, Members
  <1>17. ASSUME UndoRestore PROVE Nearer(pc, i, pc', i')
    BY <1>1, <1>17, NAssumption DEF UndoRestore, RestoreMovedAfterEvidenceMismatch, Return, Loop, Nearer, StepsLeft, Members
  <1>18. ASSUME UnlinkStage PROVE Nearer(pc, i, pc', i')
    BY <1>1, <1>18, NAssumption DEF UnlinkStage, RemoveStage, MemberRolledBack, Return, Loop, Nearer, StepsLeft, Members
  <1>19. ASSUME SaveRolledBack PROVE Nearer(pc, i, pc', i')
    BY <1>1, <1>19, NAssumption DEF SaveRolledBack, SaveState, Return, Loop, Nearer, StepsLeft, Members
  <1> QED BY <1>2, <1>3, <1>4, <1>5, <1>6, <1>7, <1>8, <1>9, <1>10, <1>11, <1>12, <1>13, <1>14, <1>15, <1>16, <1>17, <1>18, <1>19
    DEF Publish, Rollback, Nearer

\* No operation goes on for ever, whatever fails: a holder of the lock that
\* keeps running returns after at most 12 * N + 12 steps.
THEOREM HolderReturns == Spec => OperationsEnd
  <1>1. IInv /\ [Next]_vars =>
          [/\ Publish \/ Rollback => StepsLeft(pc, i)' < StepsLeft(pc, i)
           /\ Environment => StepsLeft(pc, i)' <= StepsLeft(pc, i)]_vars
    <2> SUFFICES ASSUME IInv
                 PROVE  /\ Publish \/ Rollback => StepsLeft(pc', i') < StepsLeft(pc, i)
                        /\ Environment => StepsLeft(pc', i') <= StepsLeft(pc, i)
      OBVIOUS
    <2>1. StepsLeft(pc, i) \in 0 .. 12 * N + 12
      BY StepsBounded DEF IInv
    <2>2. Environment => (pc' = pc /\ i' = i) \/ pc' = "idle"
      BY DEF Environment, Crash, Settle, Compete, Return, local
    <2>3. StepsLeft("idle", i') = 0
      BY DEF StepsLeft
    <2>4. Environment => StepsLeft(pc', i') <= StepsLeft(pc, i)
      BY <2>1, <2>2, <2>3, NAssumption
    <2> QED BY <2>4, HolderAdvances
  <1> QED BY <1>1, Invariance, PTL DEF Spec, OperationsEnd

\* The bound itself.
THEOREM StepsAreFew == Spec => [](StepsLeft(pc, i) \in 0 .. 12 * N + 12)
  <1>1. IInv => StepsLeft(pc, i) \in 0 .. 12 * N + 12
    BY StepsBounded DEF IInv
  <1> QED BY <1>1, Invariance, PTL

-----------------------------------------------------------------------------
(* Generation implements Publication. *)

\* A step that leaves the journal and the files alone is not seen.
LEMMA UnseenStep ==
  ASSUME UNCHANGED <<journal, fs, preimage, touched>>
  PROVE  UNCHANGED Abstract!vars
  BY DEF Abstract!vars, Live, Retained, PrivateAbsent

\* While the journal is Publishing, a step that changes one destination is a
\* move of it, if nobody else has changed it, or a displacement.
LEMMA MoveStep ==
  ASSUME IInv, journal.phase = "Publishing", UNCHANGED <<journal, preimage, touched>>,
         NEW m \in Members, fs' \in [Members -> [Paths -> Files]],
         \A k \in Members \ {m} : fs'[k] = fs[k],
         m \notin touched =>
           LET f == fs[m]["dest"]
               t == fs'[m]["dest"]
           IN \/ f = t
              \/ m \in preimage /\ f = "old" /\ t = "none"
              \/ f = "none" /\ t = "new"
              \/ f = "new" /\ t = "none"
              \/ m \in preimage /\ f = "none" /\ t = "old"
  PROVE  Abstract!Next \/ UNCHANGED Abstract!vars
  <1> DEFINE f == fs[m]["dest"]
             t == fs'[m]["dest"]
  <1>1. Retained /\ Retained'
    BY DEF Retained
  <1>2. Live \in [Members -> Files] /\ Live' = [Live EXCEPT ![m] = t] /\ Live[m] = f
    BY DEF Live, IInv, TypeOK, Paths
  <1>3. UNCHANGED <<journal.phase, preimage, Retained, touched>>
    BY <1>1
  <1>4. CASE f = t
    <2>1. Live' = Live
      BY <1>2, <1>4
    <2> QED BY <1>3, <2>1 DEF Abstract!vars
  <1>5. CASE f # t /\ m \in touched
    <2>1. t \in Abstract!Files \ {Live[m]}
      BY <1>2, <1>5 DEF Abstract!Files, Abstract!Foreign, Files, Paths
    <2>2. Abstract!Displace(m)
      BY <1>2, <1>3, <1>5, <2>1 DEF Abstract!Displace
    <2> QED BY <2>2 DEF Abstract!Next
  <1>6. CASE f # t /\ m \notin touched
    <2>1. ASSUME m \in preimage, f = "old", t = "none" PROVE Abstract!BackUp(m)
      BY <1>2, <1>3, <1>6, <2>1 DEF Abstract!BackUp, Abstract!Move
    <2>2. ASSUME f = "none", t = "new" PROVE Abstract!Place(m)
      BY <1>2, <1>3, <1>6, <2>2 DEF Abstract!Place, Abstract!Move
    <2>3. ASSUME f = "new", t = "none" PROVE Abstract!Take(m)
      BY <1>2, <1>3, <1>6, <2>3 DEF Abstract!Take, Abstract!Move
    <2>4. ASSUME m \in preimage, f = "none", t = "old" PROVE Abstract!Restore(m)
      BY <1>2, <1>3, <1>6, <2>4 DEF Abstract!Restore, Abstract!Move
    <2> QED BY <1>6, <2>1, <2>2, <2>3, <2>4 DEF Abstract!Next
  <1> QED BY <1>4, <1>5, <1>6

\* A rename of one path name of member i to another.
LEMMA RenameStep ==
  ASSUME IInv, journal.phase = "Publishing", UNCHANGED <<journal, preimage, touched>>,
         i \in Members, NEW from \in Paths, NEW to \in Paths, from # to,
         fs' = Moved(i, from, to), fs[i][from] # "none",
         i \notin touched =>
           \/ from = "dest" /\ fs[i]["dest"] = "old" /\ i \in preimage
           \/ from = "dest" /\ fs[i]["dest"] = "new"
           \/ to = "dest" /\ fs[i]["dest"] = "none" /\ fs[i][from] = "new"
           \/ to = "dest" /\ fs[i]["dest"] = "none" /\ fs[i][from] = "old" /\ i \in preimage
  PROVE  Abstract!Next \/ UNCHANGED Abstract!vars
  <1>1. /\ fs' \in [Members -> [Paths -> Files]]
        /\ fs'[i][to] = fs[i][from] /\ fs'[i][from] = "none"
        /\ \A k \in Members \ {i} : fs'[k] = fs[k]
    BY MovedFiles DEF IInv
  <1> QED BY <1>1, MoveStep

\* A stage or backup that is removed is not seen, until the last of them is
\* gone from a terminal journal.
LEMMA UnlinkStep ==
  ASSUME IInv, UNCHANGED <<journal, preimage, touched>>, i \in Members,
         NEW path \in {"stage", "backup"}, fs' = Unlinked(i, path),
         journal.phase \in {"Publishing", "Committed"}
  PROVE  Abstract!Next \/ UNCHANGED Abstract!vars
  <1>1. /\ fs'[i][path] = "none"
        /\ \A p \in Paths \ {path} : fs'[i][p] = fs[i][p]
        /\ \A k \in Members \ {i} : fs'[k] = fs[k]
    BY UnlinkedFiles DEF IInv, Paths
  <1>2. Live' = Live
    BY <1>1 DEF Live, Paths
  <1>3. Retained' => Retained
    BY <1>1 DEF Retained, PrivateAbsent, Paths
  <1>4. CASE Retained' = Retained
    BY <1>2, <1>4 DEF Abstract!vars
  <1>5. CASE Retained' # Retained
    <2>1. Retained = TRUE /\ Retained' = FALSE
      BY <1>3, <1>5 DEF Retained
    <2>2. journal.phase = "Committed"
      BY <2>1 DEF Retained
    <2>3. Abstract!Clean
      BY <1>2, <2>1, <2>2 DEF Abstract!Clean
    <2> QED BY <2>3 DEF Abstract!Next
  <1> QED BY <1>4, <1>5

\* A save leaves the files alone.
LEMMA SaveStep ==
  ASSUME IInv, UNCHANGED <<fs, preimage, touched>>, journal' \in {journal, doc},
         \/ journal.phase = "Ready" /\ doc.phase = "Publishing"
         \/ pc = "saveCommitted" \/ pc = "saveRolledBack"
  PROVE  Abstract!Next \/ UNCHANGED Abstract!vars
  <1>1. Live' = Live
    BY DEF Live
  <1>2. CASE journal' = journal
    BY <1>1, <1>2, UnseenStep
  <1>3. CASE journal' = doc /\ journal.phase = "Ready" /\ doc.phase = "Publishing"
    <2>1. Retained = TRUE /\ Retained' = TRUE
      BY <1>3 DEF Retained
    <2>2. Abstract!Begin
      BY <1>1, <1>3, <2>1 DEF Abstract!Begin
    <2> QED BY <2>2 DEF Abstract!Next
  <1>4. CASE journal' = doc /\ pc = "saveCommitted"
    <2>1. journal.phase = "Publishing" /\ doc.phase = "Committed"
      BY <1>4 DEF IInv, PhaseInv
    <2>2. \A m \in Members \ touched : Live[m] = "new"
      BY <1>4 DEF IInv, CurrentInv, IsPublished, Live
    <2>3. Retained' \in BOOLEAN
      BY DEF Retained
    <2>4. Abstract!SaveCommitted
      BY <1>1, <1>4, <2>1, <2>2, <2>3 DEF Abstract!SaveCommitted
    <2> QED BY <2>4 DEF Abstract!Next
  <1>5. CASE journal' = doc /\ pc = "saveRolledBack"
    <2>1. journal.phase = "Publishing" /\ doc.phase = "RolledBack"
      BY <1>5 DEF IInv, PhaseInv
    <2>2. \A m \in Members \ touched : Live[m] = Abstract!PreimageOf(m)
      BY <1>5 DEF IInv, RollbackInv, IsRestored, Live, PreimageOf, Abstract!PreimageOf
    <2>3. Retained' = FALSE
      BY <1>1, <1>5, <2>1 DEF Retained, IInv, RollbackInv, PrivateAbsent
    <2>4. Abstract!SaveRolledBack
      BY <1>1, <1>5, <2>1, <2>2, <2>3 DEF Abstract!SaveRolledBack
    <2> QED BY <2>4 DEF Abstract!Next
  <1> QED BY <1>1, <1>2, <1>3, <1>4, <1>5

\* A new journal takes what the destinations hold for their preimage.
LEMMA PrepareStep ==
  ASSUME IInv, Prepare
  PROVE  Abstract!Next \/ UNCHANGED Abstract!vars
  <1>1. CASE UNCHANGED <<journal, fs, preimage, touched>>
    BY <1>1, UnseenStep
  <1>2. CASE /\ journal' = doc'
             /\ fs' = [m \in Members |->
                         [dest |-> IF fs[m]["dest"] = "none" THEN "none" ELSE "old",
                          stage |-> "new", backup |-> "none"]]
             /\ preimage' = {m \in Members : fs[m]["dest"] # "none"}
             /\ touched' = {}
    <2>1. Retained = FALSE /\ journal.phase \notin Abstract!Unfinished
      BY DEF Prepare, Retained, Abstract!Unfinished
    <2>2. journal'.phase = "Ready" /\ Retained' = TRUE
      BY <1>2 DEF Prepare, Document, Retained
    <2>3. /\ Live' = [m \in Members |-> IF Live[m] = "none" THEN "none" ELSE "old"]
          /\ preimage' = {m \in Members : Live[m] # "none"}
      BY <1>2 DEF Live
    <2>4. Abstract!Prepare
      BY <1>2, <2>1, <2>2, <2>3 DEF Abstract!Prepare
    <2> QED BY <2>4 DEF Abstract!Next
  <1> QED BY <1>1, <1>2 DEF Prepare

\* A competitor's change is one for the abstract publication too.
LEMMA CompeteStep ==
  ASSUME IInv, NEW m \in Members, Compete(m)
  PROVE  Abstract!Next \/ UNCHANGED Abstract!vars
  <1> PICK f \in {"none", "alien"} \ {fs[m]["dest"]} :
             fs' = [fs EXCEPT ![m] = [@ EXCEPT !["dest"] = f]]
    BY DEF Compete
  <1>1. /\ fs'[m]["dest"] = f
        /\ fs'[m]["stage"] = fs[m]["stage"] /\ fs'[m]["backup"] = fs[m]["backup"]
        /\ \A k \in Members \ {m} : fs'[k] = fs[k]
    BY DEF IInv, TypeOK, Paths
  <1>2. Live' = [Live EXCEPT ![m] = f]
    <2>1. \A k \in Members : fs'[k]["dest"] = IF k = m THEN f ELSE Live[k]
      BY <1>1 DEF Live
    <2>2. Live' = [k \in Members |-> fs'[k]["dest"]] /\ Live \in [Members -> Files]
      BY DEF Live, IInv, TypeOK, Paths
    <2> QED BY <2>1, <2>2
  <1>5. f # Live[m] /\ f \in Abstract!Foreign
    BY DEF Live, Abstract!Foreign
  <1>3. journal' = journal /\ preimage' = preimage /\ touched' = touched \cup {m}
    BY DEF Compete
  <1>4. Retained' = Retained
    BY <1>1, <1>3 DEF Retained, PrivateAbsent
  <1>6. Abstract!Compete(m)
    BY <1>2, <1>3, <1>4, <1>5 DEF Abstract!Compete
  <1> QED BY <1>6 DEF Abstract!Next

\* The renames of the publication and of the rollback.
LEMMA RenamesStep ==
  ASSUME IInv,
         BackupMove \/ PublishMove \/ TakePublished \/ PutBack \/ RestoreBackup \/ UndoRestore
  PROVE  Abstract!Next \/ UNCHANGED Abstract!vars
  <1>1. i \in Members /\ journal.phase = "Publishing" /\ UNCHANGED <<journal, preimage, touched>>
    BY DEF BackupMove, PublishMove, TakePublished, PutBack, RestoreBackup, UndoRestore, Keep,
      RestoreMovedAfterEvidenceMismatch, IInv, PhaseInv
  <1>2. CASE fs' = fs
    BY <1>1, <1>2, UnseenStep
  <1> USE DEF IInv, CanMove, Paths
  <1>3. CASE BackupMove /\ fs' # fs
    BY <1>1, <1>3, RenameStep DEF BackupMove, FailsTo, CurrentInv, IsStaged, PreimageOf
  <1>4. CASE PublishMove /\ fs' # fs
    BY <1>1, <1>4, RenameStep DEF PublishMove, FailsTo, CurrentInv, IsBackedUp
  <1>5. CASE TakePublished /\ fs' # fs
    BY <1>1, <1>5, RenameStep DEF TakePublished, RollbackInv, Classified, IsPublished
  <1>6. CASE RestoreBackup /\ fs' # fs
    BY <1>1, <1>6, RenameStep DEF RestoreBackup, RollbackInv
  <1>7. CASE PutBack /\ fs' # fs
    BY <1>1, <1>7, RenameStep DEF PutBack, RestoreMovedAfterEvidenceMismatch, RollbackInv
  <1>8. CASE UndoRestore /\ fs' # fs
    BY <1>1, <1>8, RenameStep DEF UndoRestore, RestoreMovedAfterEvidenceMismatch, RollbackInv
  <1> QED BY <1>2, <1>3, <1>4, <1>5, <1>6, <1>7, <1>8

\* The removals of stages and backups.
LEMMA RemovalsStep ==
  ASSUME IInv, RollbackMember \/ UnlinkStage \/ CleanupCommittedBackups
  PROVE  Abstract!Next \/ UNCHANGED Abstract!vars
  <1>1. /\ i \in Members /\ journal.phase \in {"Publishing", "Committed"}
        /\ UNCHANGED <<journal, preimage, touched>>
    BY DEF RollbackMember, UnlinkStage, CleanupCommittedBackups, Keep, IInv, PhaseInv
  <1>2. fs' = fs \/ fs' = Unlinked(i, "stage") \/ fs' = Unlinked(i, "backup")
    BY DEF RollbackMember, UnlinkStage, CleanupCommittedBackups, RemoveStage
  <1> QED BY <1>1, <1>2, UnseenStep, UnlinkStep

\* Every step maps to a step or a stutter.
LEMMA NextStep == IInv /\ [Next]_vars => [Abstract!Next]_Abstract!vars
  <1> SUFFICES ASSUME IInv, [Next]_vars PROVE Abstract!Next \/ UNCHANGED Abstract!vars
    OBVIOUS
  <1>1. CASE \/ FinishReadyDocumentSave \/ ResumeReady \/ Commit \/ Abandon \/ Drop \/ Recover
             \/ BackupMember \/ PublishMember \/ PublishVerify
             \/ ClassifyRollback \/ RestoreVerify \/ Crash \/ Settle \/ UNCHANGED vars
    <2>1. UNCHANGED <<journal, fs, preimage, touched>>
      BY <1>1 DEF FinishReadyDocumentSave, ResumeReady, Commit, Abandon, Drop, Recover,
        ReclaimReady, RecoverPublishing, ReopenCommitted, BackupMember, PublishMember,
        PublishVerify, ClassifyRollback, RestoreVerify, Crash, Settle, vars, Keep, FailsTo
    <2> QED BY <2>1, UnseenStep
  <1>2. CASE SavePublishing \/ SaveAbandon \/ SaveCommitted \/ SaveRolledBack
    <2>1. UNCHANGED <<fs, preimage, touched>> /\ journal' \in {journal, doc}
      BY <1>2 DEF SavePublishing, SaveAbandon, SaveCommitted, SaveRolledBack, SaveState
    <2>2. \/ journal.phase = "Ready" /\ doc.phase = "Publishing"
          \/ pc = "saveCommitted" \/ pc = "saveRolledBack"
      BY <1>2 DEF SavePublishing, SaveAbandon, SaveCommitted, SaveRolledBack, IInv, PhaseInv
    <2> QED BY <2>1, <2>2, SaveStep
  <1>3. CASE BackupMove \/ PublishMove \/ TakePublished \/ PutBack \/ RestoreBackup \/ UndoRestore
    BY <1>3, RenamesStep
  <1>4. CASE RollbackMember \/ UnlinkStage \/ CleanupCommittedBackups
    BY <1>4, RemovalsStep
  <1>5. CASE Prepare
    BY <1>5, PrepareStep
  <1>6. ASSUME NEW m \in Members, Compete(m) PROVE Abstract!Next \/ UNCHANGED Abstract!vars
    BY <1>6, CompeteStep
  <1> QED BY <1>1, <1>2, <1>3, <1>4, <1>5, <1>6
    DEF Next, Forge, Caller, Publish, Rollback, Environment

\* Every step of a generation is a step of the all-or-nothing publication that
\* batch jobs are built on, or invisible to them.
THEOREM Refinement == Spec => ImplementsPublication
  <1>1. Init => Abstract!Init
    BY DEF Init, Abstract!Init, NoDocument, Document, Live, Retained, PrivateAbsent
  <1> QED BY <1>1, NextStep, Invariance, PTL DEF Spec, ImplementsPublication, Abstract!Spec

=============================================================================
