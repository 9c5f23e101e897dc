---------------------------- MODULE WatchProofs -----------------------------
(***************************************************************************)
(* Proofs about Watch, for any sets of inputs, outputs and contents: its   *)
(* safety properties follow from an inductive invariant that relates the   *)
(* state file, the document in memory, the files and the candidate in hand *)
(* at every location of the process.                                       *)
(***************************************************************************)
EXTENDS Watch, TLAPS

-----------------------------------------------------------------------------
(* The inductive invariant. *)

Working == {"bind", "snapshot", "publish", "complete", "fail"}

\* A process that is down has no document and no candidate.
DownKnows ==
  pc = "down" =>
    /\ mem = [f \in Files |-> NoEntry]
    /\ seen = {} /\ candidates = {} /\ ~lapsed

\* An entry names a stamp its input had; an entry old enough to be processed
\* is of an input that is.
Dated(e, f) ==
  /\ e.stamp <= stamp[f]
  /\ e.old /\ e.stamp = stamp[f] => quiet[f] # "no"

\* A completed entry that nobody moved describes its input and its output.
Describes(e, f) ==
  /\ e.digest = Output(f)
  /\ e.digest # None
  /\ e.input = data[f]
  /\ e.stamp = stamp[f]

EntryKnows(f) ==
  /\ Valid(disk[f])
  /\ Dated(disk[f], f) /\ Dated(mem[f], f)
  /\ disk[f].status = "completed" /\ ~moved[f] => Describes(disk[f], f)
  /\ disk[f].status = "completed" /\ ~forged[f] => disk[f].digest = disk[f].input
  /\ lapsed => quiet[f] # "no"

\* A scan makes no entry completed or processing, and takes completion or
\* failure from an entry only if something about its files has changed.
Revised(f) ==
  /\ Valid(mem[f])
  /\ mem[f].status \in {"processing", "completed"} => mem[f] = disk[f]
  /\ disk[f].status = "completed" /\ ~moved[f] => mem[f] = disk[f]
  /\ disk[f].status = "failed" =>
       mem[f].status = "failed" \/ mem[f].stamp # disk[f].stamp

\* Inputs that the scan has not looked at are as the state file has them.
ScanKnows ==
  pc = "scan" =>
    /\ todo \subseteq seen
    /\ \A f \in Files :
         /\ Revised(f)
         /\ f \in todo \/ f \notin seen => mem[f] = disk[f]
         /\ f \in todo /\ f \in ripe => mem[f].old
    /\ candidates \subseteq seen \ todo

CandidatesKnow ==
  \A f \in candidates : /\ mem[f].status = "observing"
                        /\ mem[f].old
                        /\ pc \in Working => f # job

\* Only the entry of the candidate in hand may differ from the state file.
FileAgrees ==
  /\ pc \in {"loop", "snapshot", "publish", "complete"} => mem = disk
  /\ pc \in Working =>
       job \in Files /\ \A f \in Files : f # job => mem[f] = disk[f]

\* Between the checkpoint and the first save the entry in memory has lost the
\* digest of the output that is about to be replaced.
BindKnows ==
  pc = "bind" =>
    /\ disk[job].status = "observing"
    /\ mem[job].old
    /\ mem[job] = IF preimage = None THEN disk[job]
                  ELSE [disk[job] EXCEPT !.digest = None]
    /\ preimage # None => disk[job].digest = preimage

\* What is rendered is what the entry names, unless the stamp gives away that
\* the input was rewritten or somebody undid the evidence.
JobKnows ==
  /\ pc \in {"snapshot", "publish", "complete"} =>
       /\ mem[job].status = "processing"
       /\ mem[job].prior = preimage
       /\ ~forged[job] /\ stamp[job] = mem[job].stamp =>
            /\ data[job] = mem[job].input
            /\ pc # "snapshot" => staged = mem[job].input
            /\ pc = "complete" => Output(job) = staged
  /\ pc = "complete" => moved[job]
  /\ pc = "fail" /\ disk[job].status = "completed" => mem[job] = disk[job]

IInv ==
  /\ TypeOK
  /\ DownKnows
  /\ \A f \in Files : EntryKnows(f)
  /\ ScanKnows
  /\ CandidatesKnow
  /\ FileAgrees
  /\ BindKnows
  /\ JobKnows


-----------------------------------------------------------------------------

USE FilesAssumption, DataAssumption, BoundsAssumption
USE DEF inputs, attempt, scanning

(* Entries. *)

LEMMA EntryFields ==
  ASSUME NEW e \in Entries
  PROVE  /\ e.status \in Statuses /\ e.stamp \in 0 .. MaxWrites /\ e.old \in BOOLEAN
         /\ e.input \in Data \cup {None} /\ e.output \in BOOLEAN
         /\ e.digest \in OutputFiles \cup {None} /\ e.prior \in OutputFiles \cup {None}
         /\ e.error \in BOOLEAN
BY DEF Entries

LEMMA NoEntryIs ==
  /\ NoEntry \in Entries
  /\ NoEntry.status = "none" /\ NoEntry.stamp = 0 /\ ~NoEntry.old
<1>1. Reset(0, FALSE) \in Entries
  BY DEF Reset, Entries, Statuses
<1> QED
  BY <1>1 DEF NoEntry, Reset, Entries, Statuses

LEMMA ResetIs ==
  ASSUME NEW s \in 0 .. MaxWrites, NEW old \in BOOLEAN
  PROVE  /\ Reset(s, old) \in Entries
         /\ Reset(s, old).status = "observing" /\ Valid(Reset(s, old))
         /\ Reset(s, old).stamp = s /\ Reset(s, old).old = old
BY DEF Reset, Entries, Statuses, Valid

LEMMA PreservingIs ==
  ASSUME NEW e \in Entries, NEW s \in 0 .. MaxWrites, NEW old \in BOOLEAN,
         e.output <=> e.digest # None
  PROVE  LET r == ResetPreservingOutput(e, s, old)
         IN /\ r \in Entries
            /\ r.status = "observing" /\ Valid(r)
            /\ r.stamp = s /\ r.old = old
BY EntryFields DEF ResetPreservingOutput, Entries, Statuses, Valid

LEMMA RetriedIs ==
  ASSUME NEW e \in Entries, Valid(e)
  PROVE  /\ Retried(e) \in Entries /\ Valid(Retried(e))
         /\ Retried(e).stamp = e.stamp /\ Retried(e).old = e.old
         /\ Retried(e).status \in {"observing", e.status}
         /\ e.status # "failed" => Retried(e) = e
         /\ Retried(e).status = "completed" => Retried(e) = e
BY ZenonT(40), EntryFields DEF Retried, Entries, Statuses, Valid

LEMMA OlderIs ==
  ASSUME NEW e \in Entries
  PROVE  LET o == Older(e)
         IN /\ o \in Entries
            /\ o.status = e.status /\ o.stamp = e.stamp /\ o.input = e.input
            /\ o.output = e.output /\ o.digest = e.digest /\ o.prior = e.prior
            /\ o.error = e.error /\ (e.old => o.old)
            /\ Valid(e) => Valid(o)
BY EntryFields DEF Older, Entries, Statuses, Valid

\* What a scan makes of an entry whose files it does not refuse.
LEMMA ScannedIs ==
  ASSUME NEW f \in Files, mem[f] \in Entries, Valid(mem[f]), Dated(mem[f], f),
         stamp[f] \in 0 .. MaxWrites, lapsed \in BOOLEAN, lapsed => quiet[f] # "no",
         Output(f) \in OutputFiles \cup {None}
  PROVE  LET s == Scanned(f)
         IN /\ s \in Entries /\ Valid(s) /\ Dated(s, f)
            /\ s.status \in {"processing", "completed"} => s = mem[f]
            /\ mem[f].status = "failed" => s.status = "failed" \/ s.stamp # mem[f].stamp
            /\ mem[f].status = "completed" /\ Describes(mem[f], f) => s = mem[f]
            /\ s.status = "observing" /\ ~Reobserved(f) => s.old = mem[f].old
<1> DEFINE e == mem[f]
<1>1. CASE e.status = "none" \/ e.stamp # stamp[f]
  <2>1. e.status \in {"completed", "failed"} /\ e.digest # None => e.output
    BY EntryFields DEF Valid
  <2>2. CASE e.status \in {"completed", "failed"} /\ e.digest # None /\ Output(f) # None
    <3>1. Scanned(f) = ResetPreservingOutput(e, stamp[f], lapsed)
      BY <1>1, <2>2 DEF Scanned, Observed
    <3> QED
      BY <1>1, <2>1, <2>2, <3>1, PreservingIs DEF Dated, Describes, Reobserved
  <2>3. CASE ~(e.status \in {"completed", "failed"} /\ e.digest # None /\ Output(f) # None)
    <3>1. Scanned(f) = Reset(stamp[f], lapsed)
      BY <1>1, <2>3 DEF Scanned, Observed
    <3> QED
      BY <1>1, <3>1, ResetIs DEF Dated, Describes, Reobserved
  <2> QED
    BY <2>2, <2>3
<1>2. CASE e.status = "processing" /\ e.stamp = stamp[f]
  <2>1. Scanned(f) = Recovered(f)
    BY <1>2 DEF Scanned
  <2>2. /\ Recovered(f) \in Entries /\ Valid(Recovered(f))
        /\ Recovered(f).stamp = e.stamp /\ Recovered(f).old = e.old
        /\ Recovered(f).status \in {"observing", "failed"}
    <3>1. CASE Output(f) = None
      <4>1. e.stamp \in 0 .. MaxWrites /\ e.old \in BOOLEAN
        BY EntryFields
      <4>2. Recovered(f) = Reset(e.stamp, e.old)
        BY <3>1 DEF Recovered
      <4> HIDE DEF e
      <4> QED
        BY <4>1, <4>2, ResetIs
    <3>2. CASE Output(f) # None
      BY <1>2, <3>2, EntryFields DEF Recovered, Entries, Statuses, Valid
    <3> QED
      BY <3>1, <3>2
  <2> QED
    BY <1>2, <2>1, <2>2 DEF Dated
<1>3. CASE e.status = "completed" /\ e.stamp = stamp[f]
  <2>1. Scanned(f) = Verified(f)
    BY <1>3 DEF Scanned
  <2>2. CASE Output(f) = None
    <3> DEFINE old == e.old /\ e.input = data[f]
    <3>1. Verified(f) = Reset(e.stamp, old)
      BY <2>2 DEF Verified
    <3>2. e.stamp \in 0 .. MaxWrites /\ old \in BOOLEAN /\ (old => e.old)
      BY EntryFields
    <3>3. ~Reobserved(f) => old = e.old
      BY <1>3, EntryFields DEF Reobserved
    <3> HIDE DEF e, old
    <3>4. /\ Verified(f) \in Entries
          /\ Verified(f).status = "observing" /\ Valid(Verified(f))
          /\ Verified(f).stamp = e.stamp /\ Verified(f).old = old
      BY <3>1, <3>2, ResetIs
    <3> QED
      BY <1>3, <2>1, <2>2, <3>2, <3>3, <3>4 DEF Dated, Describes, e
  <2>3. CASE Output(f) # None /\ e.input = data[f]
    BY <1>3, <2>1, <2>3 DEF Verified
  <2>4. CASE Output(f) # None /\ e.input # data[f]
    <3>1. Verified(f) = ResetPreservingOutput(e, stamp[f], FALSE)
      BY <2>4 DEF Verified
    <3>2. e \in Entries /\ (e.output <=> e.digest # None) /\ FALSE \in BOOLEAN
      BY <1>3, EntryFields DEF Valid
    <3>3. /\ Verified(f) \in Entries
          /\ Verified(f).status = "observing" /\ Valid(Verified(f))
          /\ Verified(f).stamp = stamp[f] /\ Verified(f).old = FALSE
      <4> DEFINE fresh == FALSE
      <4>1. fresh \in BOOLEAN /\ Verified(f) = ResetPreservingOutput(e, stamp[f], fresh)
        BY <3>1
      <4> HIDE DEF e, fresh
      <4>2. /\ Verified(f) \in Entries
            /\ Verified(f).status = "observing" /\ Valid(Verified(f))
            /\ Verified(f).stamp = stamp[f] /\ Verified(f).old = fresh
        BY <3>2, <4>1, PreservingIs
      <4> QED
        BY <4>2 DEF fresh
    <3> QED
      BY <1>3, <2>1, <2>4, <3>3 DEF Dated, Describes, Reobserved
  <2> QED
    BY <2>2, <2>3, <2>4
<1>4. CASE e.status \in {"observing", "failed"} /\ e.stamp = stamp[f]
  BY <1>4 DEF Scanned
<1> QED
  BY <1>1, <1>2, <1>3, <1>4, EntryFields DEF Statuses

\* The process dies.
LEMMA CrashIInv ==
  ASSUME IInv, Crash
  PROVE  IInv'
<1> USE DEF IInv, Crash, Stop, Goto
<1>1. TypeOK'
  BY NoEntryIs DEF TypeOK
<1>2. DownKnows'
  BY DEF TypeOK, DownKnows
<1>3. \A f \in Files : EntryKnows(f)'
  BY NoEntryIs DEF TypeOK, EntryKnows, Dated, Describes, Output
<1>4. ScanKnows'
  BY DEF TypeOK, ScanKnows, Revised
<1>5. CandidatesKnow'
  BY DEF TypeOK, CandidatesKnow, DownKnows, ScanKnows, Working
<1>6. FileAgrees'
  BY DEF TypeOK, FileAgrees, Working
<1>7. BindKnows'
  BY DEF TypeOK, BindKnows, FileAgrees, Working
<1>8. JobKnows'
  BY DEF TypeOK, JobKnows, FileAgrees, Working, Output
<1> QED
  BY <1>1, <1>2, <1>3, <1>4, <1>5, <1>6, <1>7, <1>8

\* Every entry of the state file is valid, so it can always be opened.
LEMMA OpenIInv ==
  ASSUME IInv, NEW retry \in BOOLEAN, Open(retry)
  PROVE  IInv'
<1> USE DEF IInv, Open, Goto
<1>1. TypeOK'
  <2>1. /\ present' \in [Files -> BOOLEAN] /\ stamp' \in [Files -> 0 .. MaxWrites]
        /\ data' \in [Files -> Data] /\ out' \in [Outputs -> OutputFiles \cup {None}]
    BY DEF TypeOK
  <2>2. disk' \in [Files -> Entries] /\ mem' \in [Files -> Entries]
    BY RetriedIs DEF TypeOK, EntryKnows
  <2>3. /\ pc' \in {"down", "scan", "loop"} \cup Working
        /\ todo' \subseteq seen' /\ seen' \subseteq Files /\ candidates' \subseteq Files
        /\ ripe' \subseteq Files /\ lapsed' \in BOOLEAN
    BY DEF TypeOK, Working, DownKnows
  <2>4. /\ job' \in Files \cup {None} /\ preimage' \in OutputFiles \cup {None}
        /\ staged' \in Data \cup {None}
    BY DEF TypeOK
  <2>5. /\ quiet' \in [Files -> {"no", "scan", "yes"}] /\ forged' \in [Files -> BOOLEAN]
        /\ moved' \in [Files -> BOOLEAN] /\ calm' \in BOOLEAN
    BY DEF TypeOK
  <2> QED
    BY <2>1, <2>2, <2>3, <2>4, <2>5 DEF TypeOK, Working
<1>2. DownKnows'
  BY DEF TypeOK, DownKnows
<1>3. \A f \in Files : EntryKnows(f)'
  <2> TAKE f \in Files
  <2>1. /\ disk[f] \in Entries /\ Valid(disk[f])
        /\ disk'[f] \in {disk[f], Retried(disk[f])}
        /\ mem'[f] \in {mem[f], disk[f], Retried(disk[f])}
    BY DEF TypeOK, EntryKnows
  <2> QED
    BY <2>1, RetriedIs DEF TypeOK, EntryKnows, Dated, Describes, Output
<1>4. ScanKnows'
  BY DEF TypeOK, ScanKnows, Revised
<1>5. CandidatesKnow'
  BY DEF TypeOK, CandidatesKnow, DownKnows, ScanKnows, Working
<1>6. FileAgrees'
  BY DEF TypeOK, FileAgrees, Working
<1>7. BindKnows'
  BY DEF TypeOK, BindKnows, FileAgrees, Working
<1>8. JobKnows'
  BY DEF TypeOK, JobKnows, FileAgrees, Working, Output
<1> QED
  BY <1>1, <1>2, <1>3, <1>4, <1>5, <1>6, <1>7, <1>8

\* A scan begins.
LEMMA StartScanIInv ==
  ASSUME IInv, StartScan
  PROVE  IInv'
<1> USE DEF IInv, StartScan, Idle, Goto
<1>1. TypeOK'
  BY DEF TypeOK
<1>2. DownKnows'
  BY DEF TypeOK, DownKnows
<1>3. \A f \in Files : EntryKnows(f)'
  BY DEF TypeOK, EntryKnows, Dated, Describes, Output
<1>4. ScanKnows'
  BY DEF TypeOK, ScanKnows, Revised, FileAgrees, EntryKnows, Idle
<1>5. CandidatesKnow'
  BY DEF TypeOK, CandidatesKnow, DownKnows, ScanKnows, Working
<1>6. FileAgrees'
  BY DEF TypeOK, FileAgrees, Working
<1>7. BindKnows'
  BY DEF TypeOK, BindKnows, FileAgrees, Working
<1>8. JobKnows'
  BY DEF TypeOK, JobKnows, FileAgrees, Working, Output
<1> QED
  BY <1>1, <1>2, <1>3, <1>4, <1>5, <1>6, <1>7, <1>8

\* A scan ends the process.
LEMMA ScanRefusesIInv ==
  ASSUME IInv, NEW g \in Files, ScanRefuses(g)
  PROVE  IInv'
<1> USE DEF IInv, ScanRefuses, Stop, Goto
<1>1. TypeOK'
  BY NoEntryIs DEF TypeOK
<1>2. DownKnows'
  BY DEF TypeOK, DownKnows
<1>3. \A f \in Files : EntryKnows(f)'
  BY NoEntryIs DEF TypeOK, EntryKnows, Dated, Describes, Output
<1>4. ScanKnows'
  BY DEF TypeOK, ScanKnows, Revised
<1>5. CandidatesKnow'
  BY DEF TypeOK, CandidatesKnow, DownKnows, ScanKnows, Working
<1>6. FileAgrees'
  BY DEF TypeOK, FileAgrees, Working
<1>7. BindKnows'
  BY DEF TypeOK, BindKnows, FileAgrees, Working
<1>8. JobKnows'
  BY DEF TypeOK, JobKnows, FileAgrees, Working, Output
<1> QED
  BY <1>1, <1>2, <1>3, <1>4, <1>5, <1>6, <1>7, <1>8

\* A scan looks at an input.
LEMMA ScanFileIInv ==
  ASSUME IInv, NEW g \in Files, ScanFile(g)
  PROVE  IInv'
<1> USE DEF IInv, ScanFile, Update
<1> DEFINE s == Scanned(g)
<1>a. /\ mem[g] \in Entries /\ mem[g] = disk[g] /\ g \in seen
      /\ Valid(mem[g]) /\ Dated(mem[g], g) /\ stamp[g] \in 0 .. MaxWrites
      /\ lapsed \in BOOLEAN
      /\ lapsed => quiet[g] # "no"
      /\ Output(g) \in OutputFiles \cup {None}
  BY DEF TypeOK, ScanKnows, EntryKnows, Output, Revised
<1>b. /\ s \in Entries /\ Valid(s) /\ Dated(s, g)
      /\ s.status \in {"processing", "completed"} => s = mem[g]
      /\ mem[g].status = "failed" => s.status = "failed" \/ s.stamp # mem[g].stamp
      /\ mem[g].status = "completed" /\ Describes(mem[g], g) => s = mem[g]
      /\ s.status = "observing" /\ ~Reobserved(g) => s.old = mem[g].old
  <2> HIDE DEF IInv, ScanFile
  <2> QED
    BY <1>a, ScannedIs
<1>c. mem' = [mem EXCEPT ![g] = s]
  OBVIOUS
<1> HIDE DEF s
<1>1. TypeOK'
  <2>1. /\ present' \in [Files -> BOOLEAN] /\ stamp' \in [Files -> 0 .. MaxWrites]
        /\ data' \in [Files -> Data] /\ out' \in [Outputs -> OutputFiles \cup {None}]
    BY DEF TypeOK
  <2>2. disk' \in [Files -> Entries] /\ mem' \in [Files -> Entries]
    BY <1>b, <1>c DEF TypeOK
  <2>3. /\ pc' \in {"down", "scan", "loop"} \cup Working
        /\ todo' \subseteq seen' /\ seen' \subseteq Files /\ candidates' \subseteq Files
        /\ ripe' \subseteq Files /\ lapsed' \in BOOLEAN
    BY DEF TypeOK, Working
  <2>4. /\ job' \in Files \cup {None} /\ preimage' \in OutputFiles \cup {None}
        /\ staged' \in Data \cup {None}
    BY DEF TypeOK
  <2>5. /\ quiet' \in [Files -> {"no", "scan", "yes"}] /\ forged' \in [Files -> BOOLEAN]
        /\ moved' \in [Files -> BOOLEAN] /\ calm' \in BOOLEAN
    BY DEF TypeOK
  <2> QED
    BY <2>1, <2>2, <2>3, <2>4, <2>5 DEF TypeOK, Working
<1>2. DownKnows'
  BY DEF TypeOK, DownKnows
<1>3. \A f \in Files : EntryKnows(f)'
  <2> TAKE f \in Files
  <2> QED
    BY <1>b, <1>c DEF TypeOK, EntryKnows, Dated, Describes, Output
<1>4. ScanKnows'
  <2>1. \A f \in Files :
          /\ Revised(f)'
          /\ f \in todo' \/ f \notin seen => mem'[f] = disk[f]
          /\ f \in todo' /\ f \in ripe => mem'[f].old
    BY <1>a, <1>b, <1>c DEF TypeOK, ScanKnows, Revised, EntryKnows
  <2> QED
    BY <2>1, <1>a DEF ScanKnows, TypeOK
<1>5. CandidatesKnow'
  <2>1. g \in ripe => mem[g].old
    BY DEF ScanKnows
  <2> QED
    BY <2>1, <1>a, <1>b, <1>c DEF TypeOK, CandidatesKnow, ScanKnows, Working, s
<1>6. FileAgrees'
  BY DEF TypeOK, FileAgrees, Working
<1>7. BindKnows'
  BY DEF TypeOK, BindKnows, FileAgrees, Working
<1>8. JobKnows'
  BY DEF TypeOK, JobKnows, FileAgrees, Working, Output
<1> QED
  BY <1>1, <1>2, <1>3, <1>4, <1>5, <1>6, <1>7, <1>8

\* A scan forgets absent inputs and saves the document.
LEMMA EndScanIInv ==
  ASSUME IInv, EndScan
  PROVE  IInv'
<1> USE DEF IInv, EndScan, Stop, Goto
<1>a. \A f \in Files :
        /\ Retained(f) \in Entries /\ Valid(Retained(f)) /\ Dated(Retained(f), f)
        /\ Retained(f).status = "completed" => Retained(f) = disk[f]
        /\ disk[f].status = "completed" /\ ~moved[f] => Retained(f) = disk[f]
        /\ f \in seen => Retained(f) = mem[f]
  BY NoEntryIs DEF TypeOK, Retained, ScanKnows, Revised, EntryKnows, Dated, Valid
<1>1. TypeOK'
  <2>1. /\ present' \in [Files -> BOOLEAN] /\ stamp' \in [Files -> 0 .. MaxWrites]
        /\ data' \in [Files -> Data] /\ out' \in [Outputs -> OutputFiles \cup {None}]
    BY DEF TypeOK
  <2>2. disk' \in [Files -> Entries] /\ mem' \in [Files -> Entries]
    BY NoEntryIs, <1>a DEF TypeOK
  <2>3. /\ pc' \in {"down", "scan", "loop"} \cup Working
        /\ todo' \subseteq seen' /\ seen' \subseteq Files /\ candidates' \subseteq Files
        /\ ripe' \subseteq Files /\ lapsed' \in BOOLEAN
    BY DEF TypeOK, Working
  <2>4. /\ job' \in Files \cup {None} /\ preimage' \in OutputFiles \cup {None}
        /\ staged' \in Data \cup {None}
    BY DEF TypeOK
  <2>5. /\ quiet' \in [Files -> {"no", "scan", "yes"}] /\ forged' \in [Files -> BOOLEAN]
        /\ moved' \in [Files -> BOOLEAN] /\ calm' \in BOOLEAN
    BY DEF TypeOK
  <2> QED
    BY <2>1, <2>2, <2>3, <2>4, <2>5 DEF TypeOK, Working
<1>2. DownKnows'
  BY DEF TypeOK, DownKnows
<1>3. \A f \in Files : EntryKnows(f)'
  <2> TAKE f \in Files
  <2> QED
    BY <1>a, NoEntryIs DEF TypeOK, EntryKnows, Dated, Describes, Output
<1>4. ScanKnows'
  BY DEF TypeOK, ScanKnows, Revised
<1>5. CandidatesKnow'
  BY <1>a DEF TypeOK, CandidatesKnow, ScanKnows, Working
<1>6. FileAgrees'
  BY DEF TypeOK, FileAgrees, Working
<1>7. BindKnows'
  BY DEF TypeOK, BindKnows, FileAgrees, Working
<1>8. JobKnows'
  BY DEF TypeOK, JobKnows, FileAgrees, Working, Output
<1> QED
  BY <1>1, <1>2, <1>3, <1>4, <1>5, <1>6, <1>7, <1>8

\* A candidate is taken, and its output checked.
LEMMA CheckpointIInv ==
  ASSUME IInv, NEW g \in Files, Checkpoint(g)
  PROVE  IInv'
<1> USE DEF IInv, Checkpoint, Goto, Update
<1>a. /\ mem = disk /\ mem[g] \in Entries /\ Valid(mem[g])
      /\ mem[g].status = "observing" /\ mem[g].old
      /\ Output(g) \in OutputFiles \cup {None}
  BY DEF TypeOK, FileAgrees, CandidatesKnow, EntryKnows, Output
<1>b. LET taken == [mem[g] EXCEPT !.digest = None]
      IN /\ taken \in Entries /\ taken.status = "observing" /\ taken.old
         /\ taken.stamp = mem[g].stamp
  BY <1>a DEF Entries, Statuses
<1>c. /\ \A f \in Files : f # g => mem'[f] = mem[f]
      /\ mem'[g].stamp = mem[g].stamp
  BY <1>a, <1>b DEF TypeOK
<1>1. TypeOK'
  <2>1. /\ present' \in [Files -> BOOLEAN] /\ stamp' \in [Files -> 0 .. MaxWrites]
        /\ data' \in [Files -> Data] /\ out' \in [Outputs -> OutputFiles \cup {None}]
    BY DEF TypeOK
  <2>2. disk' \in [Files -> Entries] /\ mem' \in [Files -> Entries]
    BY <1>a, <1>b DEF TypeOK
  <2>3. /\ pc' \in {"down", "scan", "loop"} \cup Working
        /\ todo' \subseteq seen' /\ seen' \subseteq Files /\ candidates' \subseteq Files
        /\ ripe' \subseteq Files /\ lapsed' \in BOOLEAN
    BY DEF TypeOK, Working
  <2>4. /\ job' \in Files \cup {None} /\ preimage' \in OutputFiles \cup {None}
        /\ staged' \in Data \cup {None}
    BY <1>a DEF TypeOK, Output
  <2>5. /\ quiet' \in [Files -> {"no", "scan", "yes"}] /\ forged' \in [Files -> BOOLEAN]
        /\ moved' \in [Files -> BOOLEAN] /\ calm' \in BOOLEAN
    BY DEF TypeOK
  <2> QED
    BY <2>1, <2>2, <2>3, <2>4, <2>5 DEF TypeOK, Working
<1>2. DownKnows'
  BY DEF TypeOK, DownKnows
<1>3. \A f \in Files : EntryKnows(f)'
  <2> TAKE f \in Files
  <2> QED
    BY <1>a, <1>b, <1>c DEF TypeOK, EntryKnows, Dated, Describes, Output
<1>4. ScanKnows'
  BY DEF TypeOK, ScanKnows, Revised
<1>5. CandidatesKnow'
  BY <1>c DEF TypeOK, CandidatesKnow, Working
<1>6. FileAgrees'
  BY <1>a, <1>c DEF TypeOK, FileAgrees, Working
<1>7. BindKnows'
  BY <1>a, <1>b DEF TypeOK, BindKnows, Working
<1>8. JobKnows'
  BY <1>a DEF JobKnows
<1> QED
  BY <1>1, <1>2, <1>3, <1>4, <1>5, <1>6, <1>7, <1>8

\* The candidate's entry is bound to the input's bytes and saved.
LEMMA BindIInv ==
  ASSUME IInv, Bind
  PROVE  IInv'
<1> USE DEF IInv, Goto, Update, SaveFails
<1> DEFINE bound == [mem[job] EXCEPT !.status = "processing", !.input = data[job],
                                    !.output = TRUE, !.digest = None,
                                    !.prior = preimage, !.error = FALSE]
<1>a. /\ pc = "bind" /\ job \in Files /\ mem[job] \in Entries /\ disk[job] \in Entries
      /\ data[job] \in Data /\ preimage \in OutputFiles \cup {None}
      /\ disk[job].status = "observing"
      /\ \A f \in Files : f # job => mem[f] = disk[f]
  BY DEF Bind, TypeOK, FileAgrees, BindKnows, Working
<1>b. /\ bound \in Entries /\ Valid(bound)
      /\ bound.status = "processing" /\ bound.input = data[job] /\ bound.prior = preimage
      /\ bound.stamp = mem[job].stamp /\ bound.old = mem[job].old
  BY <1>a DEF Entries, Statuses, Valid
<1>c. /\ pc' \in {"snapshot", "fail"} /\ job' = job /\ candidates' = candidates
      /\ \A f \in Files : f # job => mem'[f] = mem[f] /\ disk'[f] = disk[f]
      /\ mem'[job] \in {mem[job], bound} /\ disk'[job] \in {disk[job], bound}
      /\ mem' \in [Files -> Entries] /\ disk' \in [Files -> Entries]
      /\ pc' = "snapshot" => mem' = disk' /\ mem'[job] = bound /\ Unchanged(job)
                             /\ preimage' = preimage /\ forged'[job] = FALSE
  BY <1>a, <1>b DEF Bind, TypeOK
<1> HIDE DEF bound
<1>1. TypeOK'
  <2>1. /\ present' \in [Files -> BOOLEAN] /\ stamp' \in [Files -> 0 .. MaxWrites]
        /\ data' \in [Files -> Data] /\ out' \in [Outputs -> OutputFiles \cup {None}]
    BY DEF TypeOK, Bind
  <2>2. disk' \in [Files -> Entries] /\ mem' \in [Files -> Entries]
    BY <1>b, <1>c DEF TypeOK
  <2>3. /\ pc' \in {"down", "scan", "loop"} \cup Working
        /\ todo' \subseteq seen' /\ seen' \subseteq Files /\ candidates' \subseteq Files
        /\ ripe' \subseteq Files /\ lapsed' \in BOOLEAN
    BY DEF TypeOK, Bind, Working
  <2>4. /\ job' \in Files \cup {None} /\ preimage' \in OutputFiles \cup {None}
        /\ staged' \in Data \cup {None}
    BY DEF TypeOK, Bind
  <2>5. /\ quiet' \in [Files -> {"no", "scan", "yes"}] /\ forged' \in [Files -> BOOLEAN]
        /\ moved' \in [Files -> BOOLEAN] /\ calm' \in BOOLEAN
    BY DEF TypeOK, Bind
  <2> QED
    BY <2>1, <2>2, <2>3, <2>4, <2>5 DEF TypeOK, Working
<1>2. DownKnows'
  BY <1>c DEF DownKnows, Working
<1>3. \A f \in Files : EntryKnows(f)'
  <2> TAKE f \in Files
  <2>1. quiet' = quiet /\ stamp' = stamp /\ lapsed' = lapsed
        /\ out' = out /\ data' = data /\ moved' = moved
    BY DEF Bind
  <2>2. f # job => forged'[f] = forged[f]
    BY DEF Bind, TypeOK
  <2>3. CASE f # job
    BY <1>c, <2>1, <2>2, <2>3 DEF EntryKnows, Dated, Describes, Output
  <2>4. CASE f = job
    BY <1>a, <1>b, <1>c, <2>1, <2>4 DEF EntryKnows, Dated, Describes, Output
  <2> QED
    BY <2>3, <2>4
<1>4. ScanKnows'
  BY <1>c DEF ScanKnows, Working
<1>5. CandidatesKnow'
  BY <1>a, <1>c DEF TypeOK, CandidatesKnow, Working, Bind
<1>6. FileAgrees'
  BY <1>a, <1>c DEF FileAgrees, Working, Bind
<1>7. BindKnows'
  BY <1>c DEF BindKnows
<1>8. JobKnows'
  BY <1>a, <1>b, <1>c DEF TypeOK, JobKnows, Bind
<1> QED
  BY <1>1, <1>2, <1>3, <1>4, <1>5, <1>6, <1>7, <1>8

\* The input is copied.
LEMMA SnapshotIInv ==
  ASSUME IInv, Snapshot
  PROVE  IInv'
<1> USE DEF IInv, Snapshot, Goto
<1>1. TypeOK'
  <2>1. /\ present' \in [Files -> BOOLEAN] /\ stamp' \in [Files -> 0 .. MaxWrites]
        /\ data' \in [Files -> Data] /\ out' \in [Outputs -> OutputFiles \cup {None}]
    BY DEF TypeOK
  <2>2. disk' \in [Files -> Entries] /\ mem' \in [Files -> Entries]
    BY DEF TypeOK
  <2>3. /\ pc' \in {"down", "scan", "loop"} \cup Working
        /\ todo' \subseteq seen' /\ seen' \subseteq Files /\ candidates' \subseteq Files
        /\ ripe' \subseteq Files /\ lapsed' \in BOOLEAN
    BY DEF TypeOK, Working
  <2>4. /\ job' \in Files \cup {None} /\ preimage' \in OutputFiles \cup {None}
        /\ staged' \in Data \cup {None}
    BY DEF TypeOK, FileAgrees, Working
  <2>5. /\ quiet' \in [Files -> {"no", "scan", "yes"}] /\ forged' \in [Files -> BOOLEAN]
        /\ moved' \in [Files -> BOOLEAN] /\ calm' \in BOOLEAN
    BY DEF TypeOK
  <2> QED
    BY <2>1, <2>2, <2>3, <2>4, <2>5 DEF TypeOK, Working
<1>2. DownKnows'
  BY DEF TypeOK, DownKnows
<1>3. \A f \in Files : EntryKnows(f)'
  BY DEF TypeOK, EntryKnows, Dated, Describes, Output
<1>4. ScanKnows'
  BY DEF TypeOK, ScanKnows, Revised
<1>5. CandidatesKnow'
  BY DEF TypeOK, CandidatesKnow, DownKnows, ScanKnows, Working
<1>6. FileAgrees'
  BY DEF TypeOK, FileAgrees, Working
<1>7. BindKnows'
  BY DEF TypeOK, BindKnows, FileAgrees, Working
<1>8. JobKnows'
  BY DEF TypeOK, JobKnows, FileAgrees, Working, Output
<1> QED
  BY <1>1, <1>2, <1>3, <1>4, <1>5, <1>6, <1>7, <1>8

\* The output is replaced.
LEMMA PublishIInv ==
  ASSUME IInv, Publish
  PROVE  IInv'
<1> USE DEF IInv, Publish, Goto
<1>a. /\ job \in Files /\ OutputOf[job] \in Outputs /\ mem = disk
      /\ staged \in OutputFiles \cup {None}
      /\ disk[job].status = "processing"
  BY DEF FileAgrees, JobKnows, TypeOK, OutputFiles, Working
<1>1. TypeOK'
  <2>1. /\ present' \in [Files -> BOOLEAN] /\ stamp' \in [Files -> 0 .. MaxWrites]
        /\ data' \in [Files -> Data] /\ out' \in [Outputs -> OutputFiles \cup {None}]
    BY <1>a DEF TypeOK
  <2>2. disk' \in [Files -> Entries] /\ mem' \in [Files -> Entries]
    BY DEF TypeOK
  <2>3. /\ pc' \in {"down", "scan", "loop"} \cup Working
        /\ todo' \subseteq seen' /\ seen' \subseteq Files /\ candidates' \subseteq Files
        /\ ripe' \subseteq Files /\ lapsed' \in BOOLEAN
    BY DEF TypeOK, Working
  <2>4. /\ job' \in Files \cup {None} /\ preimage' \in OutputFiles \cup {None}
        /\ staged' \in Data \cup {None}
    BY DEF TypeOK
  <2>5. /\ quiet' \in [Files -> {"no", "scan", "yes"}] /\ forged' \in [Files -> BOOLEAN]
        /\ moved' \in [Files -> BOOLEAN] /\ calm' \in BOOLEAN
    BY DEF TypeOK
  <2> QED
    BY <2>1, <2>2, <2>3, <2>4, <2>5 DEF TypeOK, Working
<1>2. DownKnows'
  BY DEF TypeOK, DownKnows
<1>3. \A f \in Files : EntryKnows(f)'
  <2> TAKE f \in Files
  <2>1. /\ moved[f] => moved'[f]
        /\ ~moved'[f] => Output(f)' = Output(f)
    BY <1>a DEF TypeOK, Output
  <2> QED
    BY <2>1 DEF TypeOK, EntryKnows, Dated, Describes
<1>4. ScanKnows'
  BY DEF TypeOK, ScanKnows, Revised
<1>5. CandidatesKnow'
  BY DEF TypeOK, CandidatesKnow, DownKnows, ScanKnows, Working
<1>6. FileAgrees'
  BY DEF TypeOK, FileAgrees, Working
<1>7. BindKnows'
  BY DEF TypeOK, BindKnows, FileAgrees, Working
<1>8. JobKnows'
  BY <1>a DEF TypeOK, JobKnows, Output
<1> QED
  BY <1>1, <1>2, <1>3, <1>4, <1>5, <1>6, <1>7, <1>8

\* The candidate's entry is completed.
LEMMA MarkCompletedIInv ==
  ASSUME IInv, MarkCompleted
  PROVE  IInv'
<1> USE DEF IInv, Goto, Update, SaveFails, FinishJob
<1> DEFINE done == [mem[job] EXCEPT !.status = "completed", !.digest = Output(job),
                                   !.prior = None, !.error = FALSE]
<1>a. /\ pc = "complete" /\ job \in Files /\ mem[job] \in Entries /\ mem = disk
      /\ mem[job].status = "processing" /\ Valid(mem[job]) /\ moved[job]
      /\ Output(job) \in OutputFiles \cup {None}
      /\ ~forged[job] /\ stamp[job] = mem[job].stamp => Output(job) = mem[job].input
  BY DEF MarkCompleted, TypeOK, FileAgrees, JobKnows, EntryKnows, Working, Output
<1>b. /\ done \in Entries /\ done.status = "completed" /\ done.input = mem[job].input
      /\ done.digest = Output(job) /\ done.stamp = mem[job].stamp /\ done.old = mem[job].old
      /\ Output(job) # None => Valid(done)
  BY <1>a DEF Entries, Statuses, Valid
<1>c. /\ pc' \in {"loop", "fail"} /\ candidates' = candidates
      /\ \A f \in Files : f # job => mem'[f] = mem[f] /\ disk'[f] = disk[f]
      /\ mem' \in [Files -> Entries] /\ disk' \in [Files -> Entries]
      /\ \/ /\ mem'[job] = done /\ disk'[job] \in {disk[job], done}
            /\ Unchanged(job) /\ data[job] = mem[job].input /\ Output(job) # None
         \/ /\ mem'[job] = mem[job] /\ disk'[job] = disk[job] /\ moved'[job] = moved[job]
      /\ pc' = "loop" => mem' = disk'
      /\ pc' = "fail" => job' = job
  <2>1. CASE mem' = mem /\ disk' = disk /\ moved' = moved /\ job' = job /\ pc' = "fail"
    BY <1>a, <2>1 DEF MarkCompleted, TypeOK
  <2>2. CASE /\ Unchanged(job) /\ data[job] = mem[job].input /\ Output(job) # None
             /\ mem' = [mem EXCEPT ![job] = done] /\ disk' \in {disk, mem'}
             /\ \/ pc' = "loop" /\ disk' = mem'
                \/ pc' = "fail" /\ job' = job
    <3>1. /\ mem' \in [Files -> Entries] /\ mem'[job] = done
          /\ \A f \in Files : f # job => mem'[f] = mem[f]
      BY <1>a, <1>b, <2>2 DEF TypeOK
    <3> HIDE DEF done
    <3> QED
      BY <1>a, <2>2, <3>1 DEF MarkCompleted, TypeOK
  <2> QED
    BY <2>1, <2>2 DEF MarkCompleted
<1> HIDE DEF done
<1>1. TypeOK'
  <2>1. /\ present' \in [Files -> BOOLEAN] /\ stamp' \in [Files -> 0 .. MaxWrites]
        /\ data' \in [Files -> Data] /\ out' \in [Outputs -> OutputFiles \cup {None}]
    BY DEF TypeOK, MarkCompleted
  <2>2. disk' \in [Files -> Entries] /\ mem' \in [Files -> Entries]
    BY <1>c
  <2>3. /\ pc' \in {"down", "scan", "loop"} \cup Working
        /\ todo' \subseteq seen' /\ seen' \subseteq Files /\ candidates' \subseteq Files
        /\ ripe' \subseteq Files /\ lapsed' \in BOOLEAN
    BY DEF TypeOK, MarkCompleted, Working
  <2>4. /\ job' \in Files \cup {None} /\ preimage' \in OutputFiles \cup {None}
        /\ staged' \in Data \cup {None}
    BY DEF TypeOK, MarkCompleted
  <2>5. /\ quiet' \in [Files -> {"no", "scan", "yes"}] /\ forged' \in [Files -> BOOLEAN]
        /\ moved' \in [Files -> BOOLEAN] /\ calm' \in BOOLEAN
    BY DEF TypeOK, MarkCompleted
  <2> QED
    BY <2>1, <2>2, <2>3, <2>4, <2>5 DEF TypeOK, Working
<1>2. DownKnows'
  BY <1>c DEF DownKnows, Working
<1>3. \A f \in Files : EntryKnows(f)'
  <2> TAKE f \in Files
  <2>1. quiet' = quiet /\ stamp' = stamp /\ lapsed' = lapsed
        /\ out' = out /\ data' = data /\ forged' = forged
    BY DEF MarkCompleted
  <2>2. f # job => moved'[f] = moved[f]
    BY DEF MarkCompleted, TypeOK
  <2>3. CASE f # job
    BY <1>c, <2>1, <2>2, <2>3 DEF EntryKnows, Dated, Describes, Output
  <2>4. CASE f = job /\ mem'[job] = done /\ disk'[job] \in {disk[job], done}
    <3>1. EntryKnows(job) /\ stamp[job] = mem[job].stamp
      BY <1>a, <1>b, <1>c, <2>4 DEF Unchanged
    <3>2. Valid(disk'[f]) /\ Dated(disk[f], f)' /\ Dated(mem[f], f)'
      BY <1>a, <1>b, <1>c, <2>1, <2>4, <3>1 DEF EntryKnows, Dated
    <3>3. disk'[f].status = "completed" => Describes(disk[f], f)'
      BY ZenonT(40), <1>a, <1>b, <1>c, <2>1, <2>4, <3>1 DEF Describes, Output
    <3>4. disk'[f].status = "completed" /\ ~forged'[f] => disk'[f].digest = disk'[f].input
      BY <1>a, <1>b, <1>c, <2>1, <2>4, <3>1
    <3> QED
      BY <2>1, <2>4, <3>1, <3>2, <3>3, <3>4 DEF EntryKnows
  <2>5. CASE f = job /\ mem'[job] = mem[job] /\ disk'[job] = disk[job]
    BY <1>a, <1>c, <2>1, <2>5 DEF EntryKnows, Dated, Describes, Output
  <2> QED
    BY <1>c, <2>3, <2>4, <2>5
<1>4. ScanKnows'
  BY <1>c DEF ScanKnows, Working
<1>5. CandidatesKnow'
  BY <1>a, <1>c DEF TypeOK, CandidatesKnow, Working, MarkCompleted
<1>6. FileAgrees'
  BY <1>a, <1>c DEF FileAgrees, Working
<1>7. BindKnows'
  BY <1>c DEF BindKnows
<1>8. JobKnows'
  BY <1>a, <1>b, <1>c DEF TypeOK, JobKnows
<1> QED
  BY <1>1, <1>2, <1>3, <1>4, <1>5, <1>6, <1>7, <1>8

\* The candidate's entry is failed.
LEMMA MarkFailedIInv ==
  ASSUME IInv, MarkFailed
  PROVE  IInv'
<1> USE DEF IInv, Goto, FinishJob, Stop
<1> DEFINE e == mem[job]
           kept == e.output /\ Output(job) # None
           failed == [e EXCEPT !.status = "failed", !.error = TRUE, !.prior = None,
                        !.output = kept,
                        !.digest = IF kept THEN Output(job) ELSE None]
           saved == [mem EXCEPT ![job] = failed]
<1>a. /\ pc = "fail" /\ job \in Files /\ e \in Entries
      /\ Output(job) \in OutputFiles \cup {None}
      /\ \A f \in Files : f # job => mem[f] = disk[f]
  BY DEF MarkFailed, TypeOK, FileAgrees, Working, Output
<1>b. /\ failed \in Entries /\ failed.status = "failed" /\ Valid(failed)
      /\ failed.stamp = e.stamp /\ failed.old = e.old
  <2>1. CASE kept
    BY ZenonT(40), <1>a, <2>1, EntryFields DEF Entries, Statuses, Valid
  <2>2. CASE ~kept
    BY ZenonT(40), <1>a, <2>2, EntryFields DEF Entries, Statuses, Valid
  <2> QED
    BY <2>1, <2>2
<1>d. /\ saved \in [Files -> Entries] /\ saved[job] = failed
      /\ \A f \in Files : f # job => saved[f] = disk[f]
  BY <1>a, <1>b DEF TypeOK
<1>e. /\ disk' \in {disk, saved}
      /\ \/ mem' = saved /\ disk' = saved /\ pc' = "loop" /\ candidates' = candidates
         \/ mem' = [f \in Files |-> NoEntry] /\ pc' = "down" /\ candidates' = {}
  BY DEF MarkFailed
<1> HIDE DEF failed, saved
<1>c. /\ mem' \in [Files -> Entries] /\ disk' \in [Files -> Entries]
      /\ \A f \in Files : disk'[f] = disk[f] \/ (f = job /\ disk'[f] = failed)
      /\ \A f \in Files : mem'[f] \in {mem[f], NoEntry} \/ (f = job /\ mem'[f] = failed)
      /\ \/ pc' = "loop" /\ mem' = disk' /\ candidates' = candidates
            /\ \A f \in Files : f # job => mem'[f] = mem[f]
         \/ pc' = "down" /\ candidates' = {}
  BY <1>a, <1>d, <1>e, NoEntryIs DEF TypeOK
<1>1. TypeOK'
  <2>1. /\ present' \in [Files -> BOOLEAN] /\ stamp' \in [Files -> 0 .. MaxWrites]
        /\ data' \in [Files -> Data] /\ out' \in [Outputs -> OutputFiles \cup {None}]
    BY DEF TypeOK, MarkFailed
  <2>2. disk' \in [Files -> Entries] /\ mem' \in [Files -> Entries]
    BY <1>c
  <2>3. /\ pc' \in {"down", "scan", "loop"} \cup Working
        /\ todo' \subseteq seen' /\ seen' \subseteq Files /\ candidates' \subseteq Files
        /\ ripe' \subseteq Files /\ lapsed' \in BOOLEAN
    BY DEF TypeOK, MarkFailed, Working
  <2>4. /\ job' \in Files \cup {None} /\ preimage' \in OutputFiles \cup {None}
        /\ staged' \in Data \cup {None}
    BY DEF TypeOK, MarkFailed
  <2>5. /\ quiet' \in [Files -> {"no", "scan", "yes"}] /\ forged' \in [Files -> BOOLEAN]
        /\ moved' \in [Files -> BOOLEAN] /\ calm' \in BOOLEAN
    BY DEF TypeOK, MarkFailed
  <2> QED
    BY <2>1, <2>2, <2>3, <2>4, <2>5 DEF TypeOK, Working
<1>2. DownKnows'
  BY DEF MarkFailed, DownKnows, Working
<1>3. \A f \in Files : EntryKnows(f)'
  <2> TAKE f \in Files
  <2>1. quiet' = quiet /\ stamp' = stamp /\ (lapsed' => lapsed)
        /\ out' = out /\ data' = data /\ forged' = forged /\ moved' = moved
    BY DEF MarkFailed
  <2>2. disk'[f] = disk[f] \/ (f = job /\ disk'[f] = failed)
    BY <1>c
  <2>3. mem'[f] \in {mem[f], NoEntry} \/ (f = job /\ mem'[f] = failed)
    BY <1>c
  <2>4. /\ Valid(disk[f]) /\ Dated(disk[f], f) /\ Dated(mem[f], f) /\ EntryKnows(f)
    BY DEF EntryKnows
  <2>5. Valid(disk'[f]) /\ Dated(disk[f], f)' /\ Dated(mem[f], f)'
    <3>1. stamp[f] \in 0 .. MaxWrites
      BY DEF TypeOK
    <3> QED
      BY <1>b, <2>1, <2>2, <2>3, <2>4, <3>1, NoEntryIs DEF Dated
  <2>6. disk'[f].status = "completed" => disk'[f] = disk[f]
    BY <1>b, <2>2
  <2>7. /\ disk'[f].status = "completed" /\ ~moved'[f] => Describes(disk[f], f)'
        /\ disk'[f].status = "completed" /\ ~forged'[f] => disk'[f].digest = disk'[f].input
        /\ lapsed' => quiet'[f] # "no"
    BY <2>1, <2>4, <2>6 DEF EntryKnows, Describes, Output
  <2> QED
    BY <2>5, <2>7 DEF EntryKnows
<1>4. ScanKnows'
  BY <1>c DEF ScanKnows, Working
<1>5. CandidatesKnow'
  BY <1>a, <1>c DEF TypeOK, CandidatesKnow, Working
<1>6. FileAgrees'
  BY <1>a, <1>c DEF FileAgrees, Working
<1>7. BindKnows'
  BY <1>c DEF BindKnows
<1>8. JobKnows'
  BY <1>c DEF JobKnows
<1> QED
  BY <1>1, <1>2, <1>3, <1>4, <1>5, <1>6, <1>7, <1>8

\* An input is written.
LEMMA WriteIInv ==
  ASSUME IInv, NEW g \in Files, NEW d \in DataOf[g], Write(g, d)
  PROVE  IInv'
<1> USE DEF IInv, Write
<1>a. d \in Data /\ stamp[g] \in 0 .. MaxWrites
  BY DEF Data, TypeOK
<1>b. /\ \A f \in Files : f # g => /\ stamp'[f] = stamp[f] /\ data'[f] = data[f]
                                   /\ quiet'[f] = quiet[f] /\ moved'[f] = moved[f]
      /\ stamp'[g] = stamp[g] + 1 /\ moved'[g] = TRUE
      /\ lapsed => quiet'[g] = "scan"
  BY DEF TypeOK
<1>1. TypeOK'
  <2>1. /\ present' \in [Files -> BOOLEAN] /\ stamp' \in [Files -> 0 .. MaxWrites]
        /\ data' \in [Files -> Data] /\ out' \in [Outputs -> OutputFiles \cup {None}]
    BY <1>a DEF TypeOK
  <2>2. disk' \in [Files -> Entries] /\ mem' \in [Files -> Entries]
    BY DEF TypeOK
  <2>3. /\ pc' \in {"down", "scan", "loop"} \cup Working
        /\ todo' \subseteq seen' /\ seen' \subseteq Files /\ candidates' \subseteq Files
        /\ ripe' \subseteq Files /\ lapsed' \in BOOLEAN
    BY DEF TypeOK, Working
  <2>4. /\ job' \in Files \cup {None} /\ preimage' \in OutputFiles \cup {None}
        /\ staged' \in Data \cup {None}
    BY DEF TypeOK
  <2>5. /\ quiet' \in [Files -> {"no", "scan", "yes"}] /\ forged' \in [Files -> BOOLEAN]
        /\ moved' \in [Files -> BOOLEAN] /\ calm' \in BOOLEAN
    BY DEF TypeOK
  <2> QED
    BY <2>1, <2>2, <2>3, <2>4, <2>5 DEF TypeOK, Working
<1>2. DownKnows'
  BY DEF TypeOK, DownKnows
<1>3. \A f \in Files : EntryKnows(f)'
  <2> TAKE f \in Files
  <2> QED
    BY <1>a, <1>b, EntryFields DEF TypeOK, EntryKnows, Dated, Describes, Output
<1>4. ScanKnows'
  BY DEF TypeOK, ScanKnows, Revised
<1>5. CandidatesKnow'
  BY DEF TypeOK, CandidatesKnow, DownKnows, ScanKnows, Working
<1>6. FileAgrees'
  BY DEF TypeOK, FileAgrees, Working
<1>7. BindKnows'
  BY DEF TypeOK, BindKnows, FileAgrees, Working
<1>8. JobKnows'
  BY <1>a, <1>b, EntryFields DEF TypeOK, JobKnows, FileAgrees, EntryKnows, Dated, Working, Output
<1> QED
  BY <1>1, <1>2, <1>3, <1>4, <1>5, <1>6, <1>7, <1>8

\* An input is written behind its stamp.
LEMMA WriteUnseenIInv ==
  ASSUME IInv, NEW g \in Files, NEW d \in DataOf[g], WriteUnseen(g, d)
  PROVE  IInv'
<1> USE DEF IInv, WriteUnseen
<1>a. d \in Data
  BY DEF Data
<1>b. /\ \A f \in Files : f # g => /\ data'[f] = data[f] /\ forged'[f] = forged[f]
                                   /\ moved'[f] = moved[f]
      /\ forged'[g] = TRUE /\ moved'[g] = TRUE
  BY DEF TypeOK
<1>1. TypeOK'
  <2>1. /\ present' \in [Files -> BOOLEAN] /\ stamp' \in [Files -> 0 .. MaxWrites]
        /\ data' \in [Files -> Data] /\ out' \in [Outputs -> OutputFiles \cup {None}]
    BY <1>a DEF TypeOK
  <2>2. disk' \in [Files -> Entries] /\ mem' \in [Files -> Entries]
    BY DEF TypeOK
  <2>3. /\ pc' \in {"down", "scan", "loop"} \cup Working
        /\ todo' \subseteq seen' /\ seen' \subseteq Files /\ candidates' \subseteq Files
        /\ ripe' \subseteq Files /\ lapsed' \in BOOLEAN
    BY DEF TypeOK, Working
  <2>4. /\ job' \in Files \cup {None} /\ preimage' \in OutputFiles \cup {None}
        /\ staged' \in Data \cup {None}
    BY DEF TypeOK
  <2>5. /\ quiet' \in [Files -> {"no", "scan", "yes"}] /\ forged' \in [Files -> BOOLEAN]
        /\ moved' \in [Files -> BOOLEAN] /\ calm' \in BOOLEAN
    BY DEF TypeOK
  <2> QED
    BY <2>1, <2>2, <2>3, <2>4, <2>5 DEF TypeOK, Working
<1>2. DownKnows'
  BY DEF TypeOK, DownKnows
<1>3. \A f \in Files : EntryKnows(f)'
  BY DEF TypeOK, EntryKnows, Dated, Describes, Output
<1>4. ScanKnows'
  BY DEF TypeOK, ScanKnows, Revised
<1>5. CandidatesKnow'
  BY DEF TypeOK, CandidatesKnow, DownKnows, ScanKnows, Working
<1>6. FileAgrees'
  BY DEF TypeOK, FileAgrees, Working
<1>7. BindKnows'
  BY DEF TypeOK, BindKnows, FileAgrees, Working
<1>8. JobKnows'
  BY <1>b DEF TypeOK, JobKnows, FileAgrees, Working, Output
<1> QED
  BY <1>1, <1>2, <1>3, <1>4, <1>5, <1>6, <1>7, <1>8

\* An input is removed.
LEMMA RemoveIInv ==
  ASSUME IInv, NEW g \in Files, Remove(g)
  PROVE  IInv'
<1> USE DEF IInv, Remove
<1>1. TypeOK'
  BY DEF TypeOK
<1>2. DownKnows'
  BY DEF TypeOK, DownKnows
<1>3. \A f \in Files : EntryKnows(f)'
  BY DEF TypeOK, EntryKnows, Dated, Describes, Output
<1>4. ScanKnows'
  BY DEF TypeOK, ScanKnows, Revised
<1>5. CandidatesKnow'
  BY DEF TypeOK, CandidatesKnow, DownKnows, ScanKnows, Working
<1>6. FileAgrees'
  BY DEF TypeOK, FileAgrees, Working
<1>7. BindKnows'
  BY DEF TypeOK, BindKnows, FileAgrees, Working
<1>8. JobKnows'
  BY DEF TypeOK, JobKnows, FileAgrees, Working, Output
<1> QED
  BY <1>1, <1>2, <1>3, <1>4, <1>5, <1>6, <1>7, <1>8

\* An output is changed.
LEMMA CompeteIInv ==
  ASSUME IInv, NEW o \in Outputs, NEW x \in {None, Foreign}, Compete(o, x)
  PROVE  IInv'
<1> USE DEF IInv, Compete
<1>b. \A f \in Files : /\ moved[f] => moved'[f]
                       /\ forged[f] => forged'[f]
                       /\ ~forged'[f] => Output(f)' = Output(f)
  BY DEF TypeOK, Output
<1>1. TypeOK'
  <2>1. /\ present' \in [Files -> BOOLEAN] /\ stamp' \in [Files -> 0 .. MaxWrites]
        /\ data' \in [Files -> Data] /\ out' \in [Outputs -> OutputFiles \cup {None}]
    BY DEF TypeOK, OutputFiles
  <2>2. disk' \in [Files -> Entries] /\ mem' \in [Files -> Entries]
    BY DEF TypeOK
  <2>3. /\ pc' \in {"down", "scan", "loop"} \cup Working
        /\ todo' \subseteq seen' /\ seen' \subseteq Files /\ candidates' \subseteq Files
        /\ ripe' \subseteq Files /\ lapsed' \in BOOLEAN
    BY DEF TypeOK, Working
  <2>4. /\ job' \in Files \cup {None} /\ preimage' \in OutputFiles \cup {None}
        /\ staged' \in Data \cup {None}
    BY DEF TypeOK
  <2>5. /\ quiet' \in [Files -> {"no", "scan", "yes"}] /\ forged' \in [Files -> BOOLEAN]
        /\ moved' \in [Files -> BOOLEAN] /\ calm' \in BOOLEAN
    BY DEF TypeOK
  <2> QED
    BY <2>1, <2>2, <2>3, <2>4, <2>5 DEF TypeOK, Working
<1>2. DownKnows'
  BY DEF TypeOK, DownKnows
<1>3. \A f \in Files : EntryKnows(f)'
  BY DEF TypeOK, EntryKnows, Dated, Describes, Output
<1>4. ScanKnows'
  BY DEF TypeOK, ScanKnows, Revised
<1>5. CandidatesKnow'
  BY DEF TypeOK, CandidatesKnow, DownKnows, ScanKnows, Working
<1>6. FileAgrees'
  BY DEF TypeOK, FileAgrees, Working
<1>7. BindKnows'
  BY DEF TypeOK, BindKnows, FileAgrees, Working
<1>8. JobKnows'
  BY <1>b DEF TypeOK, JobKnows, FileAgrees, Working
<1> QED
  BY <1>1, <1>2, <1>3, <1>4, <1>5, <1>6, <1>7, <1>8

\* A stable interval passes.
LEMMA IntervalPassesIInv ==
  ASSUME IInv, IntervalPasses
  PROVE  IInv'
<1> USE DEF IInv, IntervalPasses
<1>a. \A f \in Files : /\ disk[f] \in Entries /\ disk'[f] = Older(disk[f])
                       /\ mem[f] \in Entries /\ mem'[f] = Older(mem[f])
  BY DEF TypeOK
<1>b. \A f \in Files : mem[f] = disk[f] => mem'[f] = disk'[f]
  BY <1>a
<1>1. TypeOK'
  <2>1. /\ present' \in [Files -> BOOLEAN] /\ stamp' \in [Files -> 0 .. MaxWrites]
        /\ data' \in [Files -> Data] /\ out' \in [Outputs -> OutputFiles \cup {None}]
    BY DEF TypeOK
  <2>2. disk' \in [Files -> Entries] /\ mem' \in [Files -> Entries]
    BY OlderIs DEF TypeOK
  <2>3. /\ pc' \in {"down", "scan", "loop"} \cup Working
        /\ todo' \subseteq seen' /\ seen' \subseteq Files /\ candidates' \subseteq Files
        /\ ripe' \subseteq Files /\ lapsed' \in BOOLEAN
    BY DEF TypeOK, Working
  <2>4. /\ job' \in Files \cup {None} /\ preimage' \in OutputFiles \cup {None}
        /\ staged' \in Data \cup {None}
    BY DEF TypeOK
  <2>5. /\ quiet' \in [Files -> {"no", "scan", "yes"}] /\ forged' \in [Files -> BOOLEAN]
        /\ moved' \in [Files -> BOOLEAN] /\ calm' \in BOOLEAN
    BY DEF TypeOK
  <2> QED
    BY <2>1, <2>2, <2>3, <2>4, <2>5 DEF TypeOK, Working
<1>2. DownKnows'
  BY DEF DownKnows, Older, NoEntry, Reset
<1>3. \A f \in Files : EntryKnows(f)'
  <2> TAKE f \in Files
  <2>1. quiet'[f] = "yes"
    OBVIOUS
  <2> QED
    BY <2>1, <1>a, OlderIs DEF TypeOK, EntryKnows, Dated, Describes, Output
<1>4. ScanKnows'
  BY <1>a, <1>b, OlderIs DEF ScanKnows, Revised
<1>5. CandidatesKnow'
  BY <1>a, OlderIs DEF CandidatesKnow, TypeOK
<1>6. FileAgrees'
  BY <1>b DEF TypeOK, FileAgrees, Working
<1>7. BindKnows'
  <2> SUFFICES ASSUME pc = "bind" PROVE BindKnows'
    BY DEF BindKnows
  <2>1. /\ job \in Files /\ mem[job] \in Entries /\ disk[job] \in Entries
        /\ disk[job].status = "observing" /\ mem[job].old
        /\ preimage # None => disk[job].digest = preimage
        /\ mem[job] = IF preimage = None THEN disk[job]
                      ELSE [disk[job] EXCEPT !.digest = None]
    BY DEF BindKnows, FileAgrees, Working, TypeOK
  <2>2. mem'[job] = Older(mem[job]) /\ disk'[job] = Older(disk[job])
    BY <1>a, <2>1
  <2>3. CASE preimage = None
    BY <2>1, <2>2, <2>3, OlderIs DEF BindKnows
  <2>4. CASE preimage # None
    <3>1. Older([disk[job] EXCEPT !.digest = None]) = [Older(disk[job]) EXCEPT !.digest = None]
      BY <2>1 DEF Older, Entries
    <3> QED
      BY <2>1, <2>2, <2>4, <3>1, OlderIs DEF BindKnows
  <2> QED
    BY <2>3, <2>4
<1>8. JobKnows'
  BY <1>a, OlderIs DEF TypeOK, JobKnows, FileAgrees, Working, Output
<1> QED
  BY <1>1, <1>2, <1>3, <1>4, <1>5, <1>6, <1>7, <1>8

\* The environment comes to rest.
LEMMA SettleIInv ==
  ASSUME IInv, Settle
  PROVE  IInv'
<1> USE DEF IInv, Settle
<1>1. TypeOK'
  BY DEF TypeOK
<1>2. DownKnows'
  BY DEF TypeOK, DownKnows
<1>3. \A f \in Files : EntryKnows(f)'
  BY DEF TypeOK, EntryKnows, Dated, Describes, Output
<1>4. ScanKnows'
  BY DEF TypeOK, ScanKnows, Revised
<1>5. CandidatesKnow'
  BY DEF TypeOK, CandidatesKnow, DownKnows, ScanKnows, Working
<1>6. FileAgrees'
  BY DEF TypeOK, FileAgrees, Working
<1>7. BindKnows'
  BY DEF TypeOK, BindKnows, FileAgrees, Working
<1>8. JobKnows'
  BY DEF TypeOK, JobKnows, FileAgrees, Working, Output
<1> QED
  BY <1>1, <1>2, <1>3, <1>4, <1>5, <1>6, <1>7, <1>8

\* A stuttering step preserves the invariant.
LEMMA StutterIInv == ASSUME IInv, UNCHANGED vars PROVE IInv'
<1> USE DEF IInv, vars, history
<1>1. TypeOK'
  BY DEF TypeOK
<1>2. DownKnows'
  BY DEF TypeOK, DownKnows
<1>3. \A f \in Files : EntryKnows(f)'
  BY DEF TypeOK, EntryKnows, Dated, Describes, Output
<1>4. ScanKnows'
  BY DEF TypeOK, ScanKnows, Revised
<1>5. CandidatesKnow'
  BY DEF TypeOK, CandidatesKnow, DownKnows, ScanKnows, Working
<1>6. FileAgrees'
  BY DEF TypeOK, FileAgrees, Working
<1>7. BindKnows'
  BY DEF TypeOK, BindKnows, FileAgrees, Working
<1>8. JobKnows'
  BY DEF TypeOK, JobKnows, FileAgrees, Working, Output
<1> QED
  BY <1>1, <1>2, <1>3, <1>4, <1>5, <1>6, <1>7, <1>8
\* The invariant is inductive.
LEMMA NextIInv == IInv /\ [Next]_vars => IInv'
<1> SUFFICES ASSUME IInv, [Next]_vars PROVE IInv'
  OBVIOUS
<1>1. CASE ProcessStep
  <2>1. CASE Open(FALSE)
    BY <2>1, OpenIInv
  <2>2. CASE StartScan \/ EndScan
    BY <2>2, StartScanIInv, EndScanIInv
  <2>3. ASSUME NEW f \in Files, ScanRefuses(f) \/ ScanFile(f) \/ Checkpoint(f)
        PROVE  IInv'
    BY <2>3, ScanRefusesIInv, ScanFileIInv, CheckpointIInv
  <2>4. CASE Bind \/ Snapshot \/ Publish \/ MarkCompleted \/ MarkFailed
    BY <2>4, BindIInv, SnapshotIInv, PublishIInv, MarkCompletedIInv, MarkFailedIInv
  <2> QED
    BY <1>1, <2>1, <2>2, <2>3, <2>4 DEF ProcessStep
<1>2. ASSUME NEW retry \in Retries, Open(retry) PROVE IInv'
  BY <1>2, OpenIInv
<1>3. CASE Crash \/ IntervalPasses \/ Settle
  BY <1>3, CrashIInv, IntervalPassesIInv, SettleIInv
<1>4. ASSUME NEW f \in Files, Remove(f) \/ \E d \in DataOf[f] : Write(f, d) \/ WriteUnseen(f, d)
      PROVE  IInv'
  BY <1>4, RemoveIInv, WriteIInv, WriteUnseenIInv
<1>5. ASSUME NEW o \in Outputs, NEW x \in {None, Foreign}, Compete(o, x) PROVE IInv'
  BY <1>5, CompeteIInv
<1>6. CASE UNCHANGED vars
  BY <1>6, StutterIInv
<1> QED
  BY <1>1, <1>2, <1>3, <1>4, <1>5, <1>6 DEF Next

\* The initial states satisfy the invariant.
LEMMA InitIInv == Init => IInv
<1> SUFFICES ASSUME Init PROVE IInv
  OBVIOUS
<1>1. TypeOK
  <2>1. data \in [Files -> Data]
    BY DEF Init, Data
  <2>2. /\ disk \in [Files -> Entries] /\ mem \in [Files -> Entries]
        /\ stamp \in [Files -> 0 .. MaxWrites] /\ out \in [Outputs -> OutputFiles \cup {None}]
    BY NoEntryIs DEF Init, OutputFiles
  <2> QED
    BY <2>1, <2>2 DEF Init, TypeOK
<1>2. \A f \in Files : EntryKnows(f)
  <2>1. Valid(NoEntry)
    BY NoEntryIs DEF Valid
  <2> QED
    BY <2>1, NoEntryIs DEF Init, EntryKnows, Dated
<1> QED
  BY <1>1, <1>2 DEF Init, IInv, DownKnows, ScanKnows, CandidatesKnow, FileAgrees, BindKnows,
    JobKnows, Working

-----------------------------------------------------------------------------
(* Theorems. *)

\* What is known at every location of the process always holds.
THEOREM Invariance == Spec => []IInv
BY InitIInv, NextIInv, PTL DEF Spec

\* Every variable has its type.
THEOREM TypeCorrect == Spec => []TypeOK
BY Invariance, PTL DEF IInv

\* No failure and no crash leaves a state file that open refuses.
THEOREM AlwaysReopenable == Spec => []Reopenable
<1>1. IInv => Reopenable
  BY DEF IInv, EntryKnows, Reopenable
<1> QED
  BY <1>1, Invariance, PTL

\* Completed entries pair an input with what was rendered from its bytes.
THEOREM CompletionIsTrue == Spec => []CompletedIsRendered
<1>1. IInv => CompletedIsRendered
  BY DEF IInv, EntryKnows, CompletedIsRendered
<1> QED
  BY <1>1, Invariance, PTL

\* What the two ways to end a candidate may save.
LEMMA MarkedIs ==
  ASSUME IInv, NEW f \in Files
  PROVE  /\ MarkCompleted =>
              /\ disk[job].status = "processing"
              /\ \/ disk'[f] = disk[f]
                 \/ f = job /\ disk'[f].status = "completed"
         /\ MarkFailed =>
              /\ pc = "fail"
              /\ \/ disk'[f] = disk[f]
                 \/ /\ f = job /\ disk'[f].status = "failed"
                    /\ mem[f] = disk[f] /\ disk[f].status = "completed" /\ ~moved[f] =>
                         disk'[f] = [disk[f] EXCEPT !.status = "failed", !.error = TRUE]
<1> USE DEF IInv
<1>1. CASE MarkCompleted
  <2>1. job \in Files /\ mem = disk /\ mem \in [Files -> Entries] /\ disk[job].status = "processing"
    BY <1>1 DEF MarkCompleted, FileAgrees, JobKnows, Working, TypeOK
  <2>2. ASSUME NEW e, e = [mem[job] EXCEPT !.status = "completed", !.digest = Output(job),
                                          !.prior = None, !.error = FALSE],
               disk' \in {disk, [mem EXCEPT ![job] = e]}
        PROVE  disk'[f] = disk[f] \/ (f = job /\ disk'[f].status = "completed")
    <3>1. e.status = "completed"
      BY <2>1, <2>2 DEF Entries
    <3> QED
      BY <2>1, <2>2, <3>1
  <2>3. pc # "fail"
    BY <1>1 DEF MarkCompleted
  <2> QED
    BY <1>1, <2>1, <2>2, <2>3 DEF MarkCompleted, MarkFailed, Update, SaveFails
<1>2. CASE MarkFailed
  <2>1. /\ pc = "fail" /\ job \in Files /\ mem \in [Files -> Entries]
        /\ \A g \in Files : g # job => mem[g] = disk[g]
    BY <1>2 DEF MarkFailed, FileAgrees, Working, TypeOK
  <2>2. ASSUME NEW kept, NEW e,
               e = [mem[job] EXCEPT !.status = "failed", !.error = TRUE, !.prior = None,
                      !.output = kept, !.digest = IF kept THEN Output(job) ELSE None],
               disk' \in {disk, [mem EXCEPT ![job] = e]}
        PROVE  disk'[f] = disk[f] \/ (f = job /\ disk'[f].status = "failed" /\ disk'[f] = e)
    <3>1. e.status = "failed"
      BY <2>1, <2>2 DEF Entries
    <3> QED
      BY <2>1, <2>2, <3>1
  <2>3. ASSUME mem[job] = disk[job], disk[job].status = "completed", ~moved[job]
        PROVE  /\ disk[job] \in Entries /\ disk[job].output /\ disk[job].prior = None
               /\ Output(job) # None /\ disk[job].digest = Output(job)
    BY <2>1, <2>3, EntryFields DEF EntryKnows, Describes, Valid, TypeOK
  <2>4. ASSUME NEW e, NEW kept, kept = (mem[job].output /\ Output(job) # None),
               e = [mem[job] EXCEPT !.status = "failed", !.error = TRUE, !.prior = None,
                      !.output = kept, !.digest = IF kept THEN Output(job) ELSE None],
               mem[job] = disk[job], disk[job].status = "completed", ~moved[job]
        PROVE  e = [disk[job] EXCEPT !.status = "failed", !.error = TRUE]
    BY <2>3, <2>4 DEF Entries
  <2> QED
    BY <1>2, <2>1, <2>2, <2>4 DEF MarkCompleted, MarkFailed
<1> QED
  BY <1>1, <1>2

\* The checkpoint's preimage is what the entry in processing names.
LEMMA BoundIs ==
  ASSUME IInv, Bind
  PROVE  \/ disk' = disk
         \/ disk'[job].status = "processing" /\ disk'[job].prior = preimage
<1> USE DEF IInv
<1>1. job \in Files /\ mem \in [Files -> Entries]
  BY DEF Bind, FileAgrees, Working, TypeOK
<1>2. ASSUME NEW e, e = [mem[job] EXCEPT !.status = "processing", !.input = data[job],
                               !.output = TRUE, !.digest = None, !.prior = preimage,
                               !.error = FALSE],
             disk' \in {disk, [mem EXCEPT ![job] = e]}
      PROVE  disk' = disk \/ (disk'[job].status = "processing" /\ disk'[job].prior = preimage)
  <2>1. e.status = "processing" /\ e.prior = preimage
    BY <1>1, <1>2 DEF Entries
  <2> QED
    BY <1>1, <1>2, <2>1
<1> QED
  BY <1>2 DEF Bind, Update, SaveFails

\* Only Bind begins processing.
LEMMA OnlyBindBegins ==
  ASSUME IInv, [Next]_vars, NEW f \in Files, BeginsProcessing(f)
  PROVE  pc = "bind" /\ f = job /\ Bind /\ Unchanged(job)
<1> USE DEF IInv, BeginsProcessing
<1>1. CASE Bind
  BY <1>1 DEF Bind, FileAgrees, Working, TypeOK, Update, SaveFails, Goto
<1>2. ASSUME NEW retry \in BOOLEAN, Open(retry) PROVE FALSE
  <2>1. disk[f] \in Entries /\ Valid(disk[f]) /\ disk'[f] \in {disk[f], Retried(disk[f])}
    BY <1>2 DEF Open, TypeOK
  <2> QED
    BY <2>1, RetriedIs
<1>3. CASE EndScan
  <2>1. disk'[f] \in {disk[f], Retained(f)}
    BY <1>3 DEF EndScan
  <2>2. mem[f].status = "processing" => mem[f] = disk[f]
    BY <1>3 DEF EndScan, ScanKnows, Revised
  <2> QED
    BY <2>1, <2>2, NoEntryIs DEF Retained
<1>4. CASE MarkCompleted
  BY <1>4, MarkedIs
<1>5. CASE MarkFailed
  BY <1>5, MarkedIs
<1>6. CASE IntervalPasses
  BY <1>6, OlderIs DEF IntervalPasses, TypeOK
<1>7. CASE disk' = disk
  BY <1>7
<1> QED
  BY <1>1, <1>2, <1>3, <1>4, <1>5, <1>6, <1>7 DEF Next, ProcessStep, StartScan, ScanRefuses,
    ScanFile, Checkpoint, Snapshot, Publish, Crash, Write, WriteUnseen, Remove, Compete, Settle, vars

\* No input is processed within a stable interval of its last write, counted
\* at least from the start of the scan during which it was written.
THEOREM OnlyStableSinceScan == Spec => StableSinceScan
<1>1. IInv /\ [Next]_vars => [\A f \in Files : BeginsProcessing(f) => quiet[f] # "no"]_vars
  <2> SUFFICES ASSUME IInv, [Next]_vars, NEW f \in Files, BeginsProcessing(f)
               PROVE  quiet[f] # "no"
    OBVIOUS
  <2>1. pc = "bind" /\ f = job /\ Unchanged(job)
    BY OnlyBindBegins
  <2> QED
    BY <2>1 DEF IInv, BindKnows, EntryKnows, Dated, Unchanged
<1> QED
  BY <1>1, Invariance, PTL DEF Spec, StableSinceScan

\* Only Publish replaces an output in the name of a candidate.
THEOREM OnlyRecordedReplaced == Spec => ReplacesOnlyRecorded
<1> DEFINE A == /\ \A f \in Files :
                     BeginsProcessing(f) /\ disk'[f].prior # None
                       => disk[f].digest = disk'[f].prior
                /\ Publishes /\ Output(job) # None
                     => /\ disk[job].status = "processing"
                        /\ disk[job].prior = Output(job)
<1>1. IInv /\ [Next]_vars => [A]_vars
  <2> SUFFICES ASSUME IInv, [Next]_vars PROVE A
    OBVIOUS
  <2>1. ASSUME NEW f \in Files, BeginsProcessing(f), disk'[f].prior # None
        PROVE  disk[f].digest = disk'[f].prior
    <3>1. pc = "bind" /\ f = job /\ Bind
      BY <2>1, OnlyBindBegins
    <3>2. disk'[job].prior = preimage
      BY <2>1, <3>1, BoundIs DEF BeginsProcessing
    <3> QED
      BY <2>1, <3>1, <3>2 DEF IInv, BindKnows, BeginsProcessing
  <2>2. ASSUME Publishes, Output(job) # None
        PROVE  disk[job].status = "processing" /\ disk[job].prior = Output(job)
    <3>1. Publish
      BY <2>2 DEF Publishes, Next, ProcessStep, Open, StartScan, ScanRefuses, ScanFile, EndScan,
        Checkpoint, Bind, Snapshot, MarkCompleted, MarkFailed, Crash, Write, WriteUnseen, Remove,
        Compete, IntervalPasses, Settle, vars
    <3> QED
      BY <2>2, <3>1 DEF IInv, Publishes, Publish, JobKnows, FileAgrees, Output
  <2> QED
    BY <2>1, <2>2
<1> QED
  BY <1>1, Invariance, PTL DEF Spec, ReplacesOnlyRecorded

\* What mark_failed may make of a completed entry.
Withdrawn(f) ==
  /\ pc = "fail" /\ job = f /\ mem[f] = disk[f]
  /\ disk'[f] = [disk[f] EXCEPT !.status = "failed", !.error = TRUE]

\* A step keeps the status of a completed entry whose files stand, unless it
\* withdraws it, and of a failed entry whose input keeps its stamp.
LEMMA EntriesKept ==
  ASSUME IInv, [Next]_vars, NEW f \in Files
  PROVE  /\ disk[f].status = "completed" /\ ~moved[f] =>
              disk'[f].status = "completed" \/ Withdrawn(f)
         /\ disk[f].status = "failed" =>
              \/ disk'[f].status = "failed"
              \/ pc = "down"
              \/ disk'[f].stamp # disk[f].stamp
<1> USE DEF IInv
<1>1. CASE Bind
  <2>1. pc = "bind" /\ disk[job].status = "observing" /\ disk[f] \in Entries
        /\ (f # job => disk'[f] = disk[f])
    BY <1>1 DEF Bind, FileAgrees, BindKnows, Working, TypeOK, Update, SaveFails
  <2> QED
    BY <2>1
<1>2. ASSUME NEW retry \in BOOLEAN, Open(retry)
      PROVE  pc = "down" /\ (disk[f].status = "completed" => disk'[f] = disk[f])
  <2>1. disk[f] \in Entries /\ Valid(disk[f]) /\ disk'[f] \in {disk[f], Retried(disk[f])}
    BY <1>2 DEF Open, TypeOK, EntryKnows
  <2> QED
    BY <1>2, <2>1, RetriedIs DEF Open
<1>3. CASE EndScan
  <2>1. disk'[f] \in {disk[f], Retained(f)}
    BY <1>3 DEF EndScan
  <2>2. Revised(f) /\ (f \notin seen => mem[f] = disk[f])
    BY <1>3 DEF EndScan, ScanKnows
  <2> QED
    BY <2>1, <2>2 DEF Retained, Revised
<1>4. CASE MarkCompleted
  BY <1>4, MarkedIs
<1>5. CASE MarkFailed
  <2>1. disk[job].status = "completed" => mem[job] = disk[job]
    BY <1>5, MarkedIs DEF JobKnows
  <2> QED
    BY <1>5, <2>1, MarkedIs DEF Withdrawn
<1>6. CASE IntervalPasses
  BY <1>6, OlderIs DEF IntervalPasses, TypeOK
<1>7. CASE disk' = disk
  BY <1>7
<1> QED
  BY <1>1, <1>2, <1>3, <1>4, <1>5, <1>6, <1>7, BoundsAssumption DEF Next, ProcessStep, StartScan,
    ScanRefuses, ScanFile, Checkpoint, Snapshot, Publish, Crash, Write, WriteUnseen, Remove,
    Compete, Settle, vars

\* Completed work is not taken back while nobody touches its files, except by
\* mark_failed after the save of that completion failed behind the rename, and
\* then the entry keeps the digest of the output.
THEOREM CompletionStays == Spec => CompletedStays
<1>1. IInv /\ [Next]_vars =>
        [\A f \in Files :
           disk[f].status = "completed" /\ ~moved[f] =>
             \/ disk'[f].status = "completed"
             \/ /\ pc = "fail" /\ job = f /\ mem[f] = disk[f]
                /\ disk'[f] = [disk[f] EXCEPT !.status = "failed", !.error = TRUE]]_vars
  BY EntriesKept DEF Withdrawn
<1> QED
  BY <1>1, Invariance, PTL DEF Spec, CompletedStays

\* A failed input is left alone until its stamp changes or a start retries it.
THEOREM FailureIsSuppressed == Spec => FailedIsSuppressed
<1>1. IInv /\ [Next]_vars =>
        [\A f \in Files :
           disk[f].status = "failed" /\ disk'[f].status # "failed"
             => pc = "down" \/ disk'[f].stamp # disk[f].stamp]_vars
  BY EntriesKept
<1> QED
  BY <1>1, Invariance, PTL DEF Spec, FailedIsSuppressed

=============================================================================
