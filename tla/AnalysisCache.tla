--------------------------- MODULE AnalysisCache ---------------------------
(***************************************************************************)
(* The analysis cache (src/src/analysis_cache.rs): calls of                *)
(* lookup_or_compute, in the threads of several processes, share one       *)
(* directory of entries.  The threads of a process share the mutex around  *)
(* store and prune, the processes share nothing but the file system.       *)
(*                                                                         *)
(* A source is represented by its content and an entry's address by the    *)
(* content it is for (every call makes the same request).  The analysis of *)
(* a content is the content; what a damaged document would decode to is    *)
(* Garbage.  An entry's id is both its file identity and its modification  *)
(* time.                                                                   *)
(***************************************************************************)
EXTENDS Naturals, FiniteSets, Functions

CONSTANTS
  Calls,       \* calls of lookup_or_compute, made once each
  Procs,       \* processes
  ProcOf,      \* the process of each call
  Policies,    \* values of AnalysisCachePolicy.read_only of each process
  MaxBytes,    \* AnalysisCachePolicy.max_bytes of each process
  Sources,     \* source paths
  SourceOf,    \* the source each call analyzes
  DataOf,      \* what each source may hold
  Contents,    \* all of it; their order is that of the entry paths
  SizeOf,      \* bytes of the entry for each content
  Damaged,     \* contents whose entry may be damaged at the start
  None,        \* no call
  MaxWrites    \* bound on writes of sources

Garbage == 0
Absent == 0   \* no identity

ASSUME CallsAssumption ==
  /\ ProcOf \in [Calls -> Procs]
  /\ SourceOf \in [Calls -> Sources]
  /\ None \notin Calls
ASSUME ContentsAssumption ==
  /\ Contents \subseteq Nat \ {Garbage}
  /\ DataOf \in [Sources -> SUBSET Contents]
  /\ SizeOf \in [Contents -> Nat \ {0}]
  /\ Damaged \subseteq Contents
ASSUME LimitsAssumption ==
  /\ Procs # {}
  /\ MaxBytes \in [Procs -> Nat \ {0}]
  /\ Policies \in [Procs -> SUBSET BOOLEAN]
  /\ MaxWrites \in Nat

VARIABLES
  readOnly,  \* AnalysisCachePolicy.read_only of each process
  source,    \* what each source holds
  entry,     \* the entries: content -> document and identity
  clock,     \* the next identity
  mutation,  \* AnalysisCache.mutation of each process: the call that holds it
  pc,
  call,      \* the locals of each call
  outcome,   \* how each call ended, and with which value
  \* History, read by properties only.
  writes,    \* writes of sources so far
  unpruned,  \* addresses stored since a prune that saw them went to its end
  covers,    \* those of them a call's scan has seen
  mutated    \* processes that stored or evicted an entry

history == <<writes, unpruned, covers, mutated>>
vars == <<readOnly, source, entry, clock, mutation, pc, call, outcome, history>>

-----------------------------------------------------------------------------

\* CacheDisposition
Answers == {"Hit", "Stored", "Repaired", "ReadOnlyMiss", "ReadOnlyInvalid", "TooLarge"}

\* Errors that another user of the directory can cause.
Races == {"changed", "vanished", "above"}

Ends == {"none", "source", "io", "died"} \cup Answers \cup Races

\* pinned: the content captured; value: what was read or computed; invalid: an
\* entry was found that could not be used; opened: identity of the entry read,
\* or of the destination staged for; staged: identity of the staged entry;
\* left, named, listed: addresses the scan has still to visit, the name it has
\* still to inspect, its CacheFile records; total: their bytes less evictions.
NoCall ==
  [pinned |-> Garbage, value |-> Garbage, invalid |-> FALSE, opened |-> Absent,
   staged |-> Absent, left |-> {}, named |-> {}, listed |-> {}, total |-> 0]

Identity(k) == IF k \in DOMAIN entry THEN entry[k].id ELSE Absent

\* One element per byte of the entry for k, and the bytes of several entries.
Share(k) == {k} \X (1 .. SizeOf[k])
Bytes(ks) == Cardinality(UNION {Share(k) : k \in ks})

Limit(c) == MaxBytes[ProcOf[c]]

\* The limit the directory has as a whole is the largest of the processes'.
Fits(ks) == \E p \in Procs : Bytes(ks) <= MaxBytes[p]

Init ==
  /\ readOnly \in [Procs -> BOOLEAN]
  /\ \A p \in Procs : readOnly[p] \in Policies[p]
  /\ source \in [Sources -> Contents]
  /\ \A s \in Sources : source[s] \in DataOf[s]
  /\ \E ks \in SUBSET Contents :
       /\ IsFiniteSet(ks)
       /\ entry \in [ks -> [doc : Contents \cup {Garbage}, id : {1}]]
       /\ \A k \in ks : entry[k].doc = k \/ (k \in Damaged /\ entry[k].doc = Garbage)
       /\ unpruned = IF Fits(ks) THEN {} ELSE ks
  /\ clock = 2
  /\ mutation = [p \in Procs |-> None]
  /\ pc = [c \in Calls |-> "start"]
  /\ call = [c \in Calls |-> NoCall]
  /\ outcome = [c \in Calls |-> [how |-> "none", value |-> Garbage]]
  /\ writes = 0
  /\ covers = [c \in Calls |-> {}]
  /\ mutated = {}

At(c, l) == pc[c] = l
Goto(c, l) == pc' = [pc EXCEPT ![c] = l]

\* Returning gives the mutex back, whatever the result is.
End(c, how, value) ==
  /\ Goto(c, "end")
  /\ outcome' = [outcome EXCEPT ![c] = [how |-> how, value |-> value]]
  /\ mutation' = [p \in Procs |-> IF mutation[p] = c THEN None ELSE mutation[p]]
  /\ call' = [call EXCEPT ![c] = NoCall]
  /\ covers' = [covers EXCEPT ![c] = {}]

Fail(c, how) == End(c, how, Garbage)

\* StableInput::verify_source
SourceStands(c) == source[SourceOf[c]] = call[c].pinned

-----------------------------------------------------------------------------
(* Lookup. *)

\* StableInput::from_path pins the content the source holds.
Capture(c) ==
  /\ At(c, "start")
  /\ call' = [call EXCEPT ![c].pinned = source[SourceOf[c]]]
  /\ Goto(c, "load")
  /\ UNCHANGED <<readOnly, source, entry, clock, mutation, outcome, history>>

\* load opens the entry, reads it and validates the document.
Load(c) ==
  LET k == call[c].pinned IN
  /\ At(c, "load")
  /\ \/ /\ k \notin DOMAIN entry
        /\ UNCHANGED call
        /\ Goto(c, "compute")
     \/ /\ k \in DOMAIN entry /\ entry[k].doc # k
        /\ call' = [call EXCEPT ![c].invalid = TRUE]
        /\ Goto(c, "compute")
     \/ /\ k \in DOMAIN entry /\ entry[k].doc = k
        /\ call' = [call EXCEPT ![c].opened = entry[k].id, ![c].value = entry[k].doc]
        /\ Goto(c, "confirm")
  /\ UNCHANGED <<readOnly, source, entry, clock, mutation, outcome, history>>

\* load opens the pathname again: it must still be the file that was read.
Confirm(c) ==
  /\ At(c, "confirm")
  /\ \/ /\ Identity(call[c].pinned) = call[c].opened
        /\ UNCHANGED call
        /\ Goto(c, "verify")
     \/ /\ Identity(call[c].pinned) # call[c].opened
        /\ call' = [call EXCEPT ![c].invalid = TRUE]
        /\ Goto(c, "compute")
  /\ UNCHANGED <<readOnly, source, entry, clock, mutation, outcome, history>>

\* Mutant: a hit does not look at the source again.
AnswerHitUnverified(c) ==
  /\ At(c, "verify")
  /\ End(c, "Hit", call[c].value)
  /\ UNCHANGED <<readOnly, source, entry, clock, writes, unpruned, mutated>>

AnswerHit(c) ==
  /\ At(c, "verify")
  /\ IF SourceStands(c) THEN End(c, "Hit", call[c].value) ELSE Fail(c, "source")
  /\ UNCHANGED <<readOnly, source, entry, clock, writes, unpruned, mutated>>

\* The analysis of the pinned content, and everything decided before the mutex.
Compute(c) ==
  LET k == call[c].pinned
      ro == readOnly[ProcOf[c]]
  IN
  /\ At(c, "compute")
  /\ \/ ~SourceStands(c) /\ Fail(c, "source")
     \/ /\ SourceStands(c) /\ ro
        /\ End(c, IF call[c].invalid THEN "ReadOnlyInvalid" ELSE "ReadOnlyMiss", k)
     \/ /\ SourceStands(c) /\ ~ro /\ SizeOf[k] > Limit(c)
        /\ End(c, "TooLarge", k)
     \/ /\ SourceStands(c) /\ ~ro /\ SizeOf[k] <= Limit(c)
        /\ call' = [call EXCEPT ![c].value = k]
        /\ Goto(c, "lock")
        /\ UNCHANGED <<mutation, outcome, covers>>
  /\ UNCHANGED <<readOnly, source, entry, clock, writes, unpruned, mutated>>

-----------------------------------------------------------------------------
(* Store and prune, under the mutex of the process. *)

\* Mutant: store and prune without the mutex.
LockNothing(c) ==
  /\ At(c, "lock")
  /\ Goto(c, "stage")
  /\ UNCHANGED <<readOnly, source, entry, clock, mutation, call, outcome, history>>

Lock(c) ==
  /\ At(c, "lock")
  /\ mutation[ProcOf[c]] = None
  /\ mutation' = [mutation EXCEPT ![ProcOf[c]] = c]
  /\ Goto(c, "stage")
  /\ UNCHANGED <<readOnly, source, entry, clock, call, outcome, history>>

\* store captures the destination and writes the staged entry, or fails.
Stage(c) ==
  /\ At(c, "stage")
  /\ \/ /\ call' = [call EXCEPT ![c].opened = Identity(call[c].pinned), ![c].staged = clock]
        /\ clock' = clock + 1
        /\ Goto(c, "commit")
        /\ UNCHANGED <<mutation, outcome, covers>>
     \/ Fail(c, "io") /\ UNCHANGED clock
  /\ UNCHANGED <<readOnly, source, entry, writes, unpruned, mutated>>

Put(c, doc) ==
  entry' = [k \in DOMAIN entry \cup {call[c].pinned} |->
    IF k = call[c].pinned THEN [doc |-> doc, id |-> call[c].staged] ELSE entry[k]]

\* AtomicOutput::commit renames over the destination it captured, or fails.
\* prune then opens the layout directory.
Commit(c) ==
  LET k == call[c].pinned IN
  /\ At(c, "commit")
  /\ \/ /\ Identity(k) = call[c].opened
        /\ Put(c, call[c].value)
        /\ call' = [call EXCEPT ![c].left = Contents]
        /\ Goto(c, "scan")
        /\ unpruned' = unpruned \cup {k}
        /\ covers' = [d \in Calls |-> IF d = c THEN unpruned' ELSE covers[d] \ {k}]
        /\ mutated' = mutated \cup {ProcOf[c]}
        /\ UNCHANGED <<mutation, outcome>>
     \/ /\ Fail(c, IF Identity(k) # call[c].opened THEN "changed" ELSE "io")
        /\ UNCHANGED <<entry, unpruned, mutated>>
  /\ UNCHANGED <<readOnly, source, clock, writes>>

\* recognized_entries reads the next name of the layout directories.
Name(c) ==
  LET ahead == call[c].left \cap DOMAIN entry IN
  /\ At(c, "scan")
  /\ call[c].named = {} /\ call[c].left # {}
  /\ \/ ahead = {} /\ call' = [call EXCEPT ![c].left = {}]
     \/ \E k \in ahead :
          /\ \A j \in ahead : k <= j
          /\ call' = [call EXCEPT ![c].left = {j \in @ : j > k}, ![c].named = {k}]
  /\ UNCHANGED <<readOnly, source, entry, clock, mutation, pc, outcome, history>>

\* It inspects the file of that name, which may have gone.
Inspect(c) ==
  /\ At(c, "scan")
  /\ \E k \in call[c].named :
       \/ /\ k \in DOMAIN entry
          /\ call' = [call EXCEPT ![c].listed = @ \cup {<<entry[k].id, k>>},
                                  ![c].total = @ + SizeOf[k], ![c].named = {}]
          /\ UNCHANGED <<mutation, pc, outcome, covers>>
       \/ k \notin DOMAIN entry /\ Fail(c, "vanished")
  /\ UNCHANGED <<readOnly, source, entry, clock, writes, unpruned, mutated>>

Scanned(c) == At(c, "scan") /\ call[c].left = {} /\ call[c].named = {}

\* By modification time, then by path.
Oldest(files) ==
  CHOOSE f \in files : \A g \in files : f[1] < g[1] \/ (f[1] = g[1] /\ f[2] <= g[2])

\* Listed entries that prune may still remove: never the one just written.
Victims(c) == {f \in call[c].listed : f[2] # call[c].pinned}

\* Mutant: eviction stops one byte early.
EnoughEvicted(c) == call[c].total <= Limit(c) + 1 \/ Victims(c) = {}

Enough(c) == call[c].total <= Limit(c) \/ Victims(c) = {}

\* remove_file of the oldest entry: removed, already gone, or an error.
Evict(c) ==
  /\ Scanned(c)
  /\ ~Enough(c)
  /\ LET f == Oldest(Victims(c))
         k == f[2]
         rest == call[c].listed \ {f}
     IN  \/ /\ k \in DOMAIN entry
            /\ entry' = Restrict(entry, DOMAIN entry \ {k})
            /\ call' = [call EXCEPT ![c].listed = rest, ![c].total = @ - SizeOf[k]]
            /\ mutated' = mutated \cup {ProcOf[c]}
            /\ UNCHANGED <<mutation, pc, outcome, covers>>
         \/ /\ k \notin DOMAIN entry
            /\ call' = [call EXCEPT ![c].listed = rest]
            /\ UNCHANGED <<entry, mutation, pc, outcome, covers, mutated>>
         \/ Fail(c, "io") /\ UNCHANGED <<entry, mutated>>
  /\ UNCHANGED <<readOnly, source, clock, writes, unpruned>>

\* The end of prune, and the last look at the source.
AnswerStored(c) ==
  /\ Scanned(c)
  /\ Enough(c)
  /\ IF call[c].total > Limit(c) THEN Fail(c, "above")
     ELSE IF ~SourceStands(c) THEN Fail(c, "source")
     ELSE End(c, IF call[c].invalid THEN "Repaired" ELSE "Stored", call[c].value)
  /\ unpruned' = unpruned \ covers[c]
  /\ UNCHANGED <<readOnly, source, entry, clock, writes, mutated>>

-----------------------------------------------------------------------------
(* The environment. *)

\* A source is written in place.
Write ==
  /\ writes < MaxWrites
  /\ \E s \in Sources : \E k \in DataOf[s] \ {source[s]} :
       source' = [source EXCEPT ![s] = k]
  /\ writes' = writes + 1
  /\ UNCHANGED <<readOnly, entry, clock, mutation, pc, call, outcome, unpruned,
                 covers, mutated>>

\* A process dies with all its calls.
Crash(p) ==
  LET dead == {c \in Calls : ProcOf[c] = p /\ pc[c] # "end"} IN
  /\ dead # {}
  /\ pc' = [c \in Calls |-> IF c \in dead THEN "end" ELSE pc[c]]
  /\ call' = [c \in Calls |-> IF c \in dead THEN NoCall ELSE call[c]]
  /\ outcome' = [c \in Calls |->
       IF c \in dead THEN [how |-> "died", value |-> Garbage] ELSE outcome[c]]
  /\ mutation' = [mutation EXCEPT ![p] = None]
  /\ covers' = [c \in Calls |-> IF c \in dead THEN {} ELSE covers[c]]
  /\ UNCHANGED <<readOnly, source, entry, clock, writes, unpruned, mutated>>

Step(c) ==
  \/ Capture(c) \/ Load(c) \/ Confirm(c) \/ AnswerHit(c) \/ Compute(c)
  \/ Lock(c) \/ Stage(c) \/ Commit(c)
  \/ Name(c) \/ Inspect(c) \/ Evict(c) \/ AnswerStored(c)

Next ==
  \/ \E c \in Calls : Step(c)
  \/ \E p \in Procs : Crash(p)
  \/ Write

Spec == Init /\ [][Next]_vars

-----------------------------------------------------------------------------
(* Properties. *)

\* The locals of a call as long as no identity has reached t.
Locals(t) ==
  [pinned : Contents \cup {Garbage}, value : Contents \cup {Garbage},
   invalid : BOOLEAN, opened : 0 .. t - 1, staged : 0 .. t - 1,
   left : SUBSET Contents, named : SUBSET Contents,
   listed : SUBSET ((1 .. t - 1) \X Contents), total : Nat]

\* Every variable has its type; in particular a stored entry is a complete
\* document, and only what was there from the start may be damaged.
TypeOK ==
  /\ readOnly \in [Procs -> BOOLEAN]
  /\ source \in [Sources -> Contents]
  /\ clock \in Nat \ {0, 1} /\ writes \in 0 .. MaxWrites
  /\ DOMAIN entry \subseteq Contents
  /\ \A k \in DOMAIN entry :
       /\ entry[k].id \in 1 .. clock - 1
       /\ entry[k].doc = k \/ (entry[k].doc = Garbage /\ entry[k].id = 1)
  /\ mutation \in [Procs -> Calls \cup {None}]
  /\ pc \in [Calls -> {"start", "load", "confirm", "verify", "compute", "lock",
                       "stage", "commit", "scan", "end"}]
  /\ call \in [Calls -> Locals(clock)]
  /\ outcome \in [Calls -> [how : Ends, value : Contents \cup {Garbage}]]
  /\ unpruned \subseteq Contents
  /\ covers \in [Calls -> SUBSET Contents]
  /\ mutated \subseteq Procs

\* Whatever way a call takes, through an entry that others replace, evict or
\* had damaged, an answer is the analysis of what the source holds when the
\* call returns (lookup_or_compute; ANALYSIS-CACHE.md: "Cache hits, writable
\* misses, and read-only misses rebind and hash the live source").
AnswersAreOfTheSource ==
  [][\A c \in Calls :
       pc[c] # "end" /\ outcome'[c].how \in Answers
         => outcome'[c].value = source[SourceOf[c]]]_vars

\* Until a call that stored an entry returns, no call of its process removes
\* that entry, its own prune included (prune under AnalysisCache.mutation).
NewestIsKept ==
  [][\A c, d \in Calls :
       /\ Evict(c) /\ ProcOf[c] = ProcOf[d] /\ At(d, "scan")
       /\ call[d].pinned \in DOMAIN entry
       => call[d].pinned \in DOMAIN entry']_vars

\* Once every stored entry was followed by a prune that saw it and went to its
\* end, whichever process ran it and even when it reported that the cache
\* remains above the limit, the entries fit the limit (prune).
LimitIsRestored == unpruned = {} => Fits(DOMAIN entry)

\* A destination that changed, an entry that vanished from the listing and a
\* cache that remains above its limit are reported only because of another
\* process: the threads of one process never cause them (the mutex).
RacesNeedTwoProcesses ==
  \A c \in Calls : outcome[c].how \in Races => mutated \ {ProcOf[c]} # {}

=============================================================================
