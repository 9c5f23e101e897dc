------------------------ MODULE AnalysisCacheProofs -------------------------
(***************************************************************************)
(* Proofs about AnalysisCache, for any calls, processes, sources, entry    *)
(* sizes and limits: answers belong to the source, the mutex keeps the     *)
(* threads of a process from disturbing each other's prune, and the entry  *)
(* just written stays.  What a prune has counted is the cardinality of a   *)
(* set with one element per byte, as in ByteQuotaProofs.                   *)
(***************************************************************************)
EXTENDS AnalysisCache, FiniteSetTheorems, FunctionTheorems,
        WellFoundedInduction, TLAPS

\* Where the mutex is held.
Working == {"stage", "commit", "scan"}

\* No other process has touched an entry.
Alone(c) == mutated \subseteq {ProcOf[c]}

Mutex == \A c \in Calls : pc[c] \in Working => mutation[ProcOf[c]] = c

\* One element per byte of the listed files.
Shares(files) ==
  {s \in Contents \X Nat : s[2] \in 1 .. SizeOf[s[1]] /\ \E f \in files : f[2] = s[1]}

\* What a call has learnt by the time it is at a location.
CallKnows(c) ==
  /\ pc[c] # "end" => outcome[c].how = "none"
  /\ pc[c] \notin {"start", "end"} => call[c].pinned \in Contents
  /\ pc[c] \in {"confirm", "verify", "lock"} \cup Working => call[c].value = call[c].pinned
  /\ pc[c] \in {"lock"} \cup Working => SizeOf[call[c].pinned] <= Limit(c)
  /\ pc[c] # "scan" =>
       call[c].left = {} /\ call[c].named = {} /\ call[c].listed = {} /\ call[c].total = 0

\* The destination a call has staged for stands, unless another process acts.
CommitKnows(c) ==
  pc[c] = "commit" =>
    /\ call[c].staged \in 1 .. clock - 1
    /\ Alone(c) => Identity(call[c].pinned) = call[c].opened

\* The scan goes on in the order of the paths, so it lists nothing twice; what
\* it has named and listed exists, and its total is exact, unless another
\* process acts.
ScanKnows(c) ==
  LET files == call[c].listed IN
  /\ \A j \in call[c].left : \A n \in call[c].named : n < j
  /\ \A f \in files : \A j \in call[c].left \cup call[c].named : f[2] < j
  /\ \A f, g \in files : f[2] = g[2] => f = g
  /\ IsFiniteSet(Shares(files)) /\ Cardinality(Shares(files)) <= call[c].total
  /\ Alone(c) =>
       /\ call[c].named \subseteq DOMAIN entry
       /\ \A f \in files : f[2] \in DOMAIN entry
       /\ call[c].total = Cardinality(Shares(files))

\* What a call reports as a race was one.
Fair(c) == outcome[c].how \in Races => ~Alone(c)

Knows(c) == CallKnows(c) /\ CommitKnows(c) /\ ScanKnows(c) /\ Fair(c)

IInv ==
  /\ TypeOK
  /\ Mutex
  /\ \A c \in Calls : Knows(c)

-----------------------------------------------------------------------------
(* Counting bytes. *)

\* The share of an entry has one element per byte.
LEMMA ShareSize ==
  ASSUME NEW k \in Contents
  PROVE  IsFiniteSet(Share(k)) /\ Cardinality(Share(k)) = SizeOf[k] /\ SizeOf[k] \in Nat
<1> DEFINE b == SizeOf[k]
           f == [i \in 1 .. b |-> <<k, i>>]
<1>1. b \in Nat
  BY ContentsAssumption
<1>2. IsFiniteSet(1 .. b) /\ Cardinality(1 .. b) = b
  BY SMTT(30), <1>1, FS_Interval
<1>3. f \in Bijection(1 .. b, Share(k))
  <2>1. f \in [1 .. b -> Share(k)]
    BY DEF Share
  <2>2. \A i, j \in 1 .. b : f[i] = f[j] => i = j
    OBVIOUS
  <2>3. \A s \in Share(k) : \E i \in 1 .. b : f[i] = s
    BY DEF Share
  <2> QED
    BY <2>1, <2>2, <2>3 DEF Bijection, Injection, Surjection, IsInjective
<1>4. ExistsBijection(1 .. b, Share(k))
  BY <1>3 DEF ExistsBijection
<1> QED
  BY <1>1, <1>2, <1>4, FS_Bijection

\* With nothing listed nothing is counted.
LEMMA SharesNothing ==
  IsFiniteSet(Shares({})) /\ Cardinality(Shares({})) = 0
<1>1. Shares({}) = {}
  BY DEF Shares
<1> QED
  BY <1>1, FS_EmptySet

Records == Nat \X Contents

\* Listing a file with a path that is not yet listed adds its bytes.
LEMMA SharesAdd ==
  ASSUME NEW files \in SUBSET Records, NEW f \in Records,
         \A g \in files : g[2] # f[2], IsFiniteSet(Shares(files))
  PROVE  /\ IsFiniteSet(Shares(files \cup {f}))
         /\ Cardinality(Shares(files \cup {f})) = Cardinality(Shares(files)) + SizeOf[f[2]]
<1> DEFINE k == f[2]
<1>1. k \in Contents /\ SizeOf[k] \in Nat
  BY ContentsAssumption DEF Records
<1>2. Shares(files \cup {f}) = Shares(files) \cup Share(k)
  BY <1>1 DEF Shares, Share
<1>3. Shares(files) \cap Share(k) = {}
  BY DEF Shares, Share
<1>4. IsFiniteSet(Share(k)) /\ Cardinality(Share(k)) = SizeOf[k]
  BY <1>1, ShareSize
<1> HIDE DEF k
<1>5. /\ IsFiniteSet(Shares(files) \cup Share(k))
      /\ Cardinality(Shares(files) \cup Share(k)) =
           Cardinality(Shares(files)) + SizeOf[k] - Cardinality({})
  BY <1>3, <1>4, FS_Union
<1>6. Cardinality({}) = 0 /\ Cardinality(Shares(files)) \in Nat
  BY FS_EmptySet, FS_CardinalityType
<1>7. Cardinality(Shares(files) \cup Share(k)) = Cardinality(Shares(files)) + SizeOf[k]
  BY <1>1, <1>5, <1>6
<1> QED
  BY <1>2, <1>5, <1>7 DEF k

\* Dropping the one file with a path takes its bytes off.
LEMMA SharesDrop ==
  ASSUME NEW files \in SUBSET Records, NEW f \in files,
         \A g \in files : g[2] = f[2] => g = f, IsFiniteSet(Shares(files))
  PROVE  /\ IsFiniteSet(Shares(files \ {f}))
         /\ Cardinality(Shares(files \ {f})) = Cardinality(Shares(files)) - SizeOf[f[2]]
         /\ Cardinality(Shares(files \ {f})) \in Nat
<1> DEFINE rest == files \ {f}
<1>1. Shares(rest) \subseteq Shares(files)
  BY DEF Shares
<1>2. IsFiniteSet(Shares(rest))
  BY <1>1, FS_Subset
<1>3. rest \in SUBSET Records /\ f \in Records /\ \A g \in rest : g[2] # f[2]
  OBVIOUS
<1>4. Cardinality(Shares(rest \cup {f})) = Cardinality(Shares(rest)) + SizeOf[f[2]]
  BY <1>2, <1>3, SharesAdd
<1>5. rest \cup {f} = files
  OBVIOUS
<1>6. Cardinality(Shares(rest)) \in Nat /\ SizeOf[f[2]] \in Nat
  BY <1>2, <1>3, FS_CardinalityType, ContentsAssumption DEF Records
<1>7. Cardinality(Shares(files)) = Cardinality(Shares(rest)) + SizeOf[f[2]]
  BY <1>4, <1>5
<1>8. Cardinality(Shares(rest)) = Cardinality(Shares(files)) - SizeOf[f[2]]
  BY <1>6, <1>7
<1> QED
  BY <1>2, <1>6, <1>8

-----------------------------------------------------------------------------
(* The oldest entry. *)

\* Any set of natural numbers that is not empty has a least element.
LEMMA Least ==
  ASSUME NEW S \in SUBSET Nat, S # {}
  PROVE  \E n \in S : \A m \in S : n <= m
<1>1. PICK n \in S : \A m \in S : <<m, n>> \notin OpToRel(<, Nat)
  BY NatLessThanWellFounded, WFMin, Zenon
<1>2. \A m \in S : ~(m < n)
  BY <1>1, Zenon DEF OpToRel
<1> QED
  BY <1>2

\* Oldest chooses one of the files.
LEMMA OldestIsListed ==
  ASSUME NEW files \in SUBSET Records, files # {}
  PROVE  Oldest(files) \in files
<1>1. Contents \subseteq Nat
  BY ContentsAssumption
<1>2. PICK n \in {f[1] : f \in files} : \A m \in {f[1] : f \in files} : n <= m
  <2>1. {f[1] : f \in files} \subseteq Nat /\ {f[1] : f \in files} # {}
    BY DEF Records
  <2> QED
    BY <2>1, Least
<1> DEFINE First == {f \in files : f[1] = n}
<1>3. PICK j \in {f[2] : f \in First} : \A m \in {f[2] : f \in First} : j <= m
  <2>1. {f[2] : f \in First} \subseteq Nat /\ {f[2] : f \in First} # {}
    BY <1>1, <1>2 DEF Records
  <2> QED
    BY <2>1, Least
<1>4. PICK f \in First : f[2] = j
  BY <1>3
<1>5. \A g \in files : f[1] < g[1] \/ (f[1] = g[1] /\ f[2] <= g[2])
  <2> SUFFICES ASSUME NEW g \in files
               PROVE  f[1] < g[1] \/ (f[1] = g[1] /\ f[2] <= g[2])
    OBVIOUS
  <2>1. n <= g[1] /\ f[1] = n /\ n \in Nat /\ g[1] \in Nat
    BY <1>2, <1>4 DEF Records
  <2>2. g[1] = n => f[2] <= g[2]
    BY <1>3, <1>4
  <2> QED
    BY <2>1, <2>2
<1>6. \E h \in files : \A g \in files : h[1] < g[1] \/ (h[1] = g[1] /\ h[2] <= g[2])
  BY <1>4, <1>5
<1> QED
  BY <1>6 DEF Oldest

-----------------------------------------------------------------------------
(* The inductive invariant. *)

\* Identities are below the clock.
LEMMA IdentityType ==
  ASSUME TypeOK, NEW k
  PROVE  Identity(k) \in 0 .. clock - 1
BY DEF TypeOK, Identity, Absent

\* Locals stay typed when the clock goes on.
LEMMA LocalsGrow ==
  ASSUME NEW t \in Nat, NEW r \in Locals(t)
  PROVE  r \in Locals(t + 1)
<1>1. /\ 0 .. t - 1 \subseteq 0 .. (t + 1) - 1
      /\ (1 .. t - 1) \X Contents \subseteq (1 .. (t + 1) - 1) \X Contents
  OBVIOUS
<1> QED
  BY <1>1 DEF Locals

\* What is listed is a set of records.
LEMMA ListedType ==
  ASSUME NEW t \in Nat, NEW r \in Locals(t)
  PROVE  r.listed \in SUBSET Records
BY DEF Locals, Records

\* A call that is not taking the step knows what it knew: an entry changes
\* under the mutex of its process or by the hand of another one.
LEMMA OthersKeep ==
  ASSUME IInv, NEW c \in Calls, NEW d \in Calls \ {c},
         call'[d] = call[d], pc'[d] = pc[d], outcome'[d] = outcome[d],
         clock' \in {clock, clock + 1},
         \/ UNCHANGED <<entry, mutated>>
         \/ pc[c] \in {"commit", "scan"} /\ mutated' = mutated \cup {ProcOf[c]}
  PROVE  Knows(d)'
<1>1. Knows(d) /\ clock \in Nat
  BY DEF IInv, TypeOK
<1>2. Alone(d)' => Alone(d)
  BY DEF Alone
<1>3. CallKnows(d)' /\ Fair(d)'
  BY <1>1, <1>2 DEF Knows, CallKnows, Fair, Limit
<1>4. CASE UNCHANGED <<entry, mutated>>
  <2>1. CommitKnows(d)'
    BY <1>1, <1>4 DEF Knows, CommitKnows, Alone, Identity
  <2>2. ScanKnows(d)'
    BY <1>1, <1>4 DEF Knows, ScanKnows, Alone, Shares
  <2> QED
    BY <1>3, <2>1, <2>2 DEF Knows
<1>5. CASE pc[c] \in {"commit", "scan"} /\ mutated' = mutated \cup {ProcOf[c]}
  <2>1. Alone(d)' => ProcOf[c] = ProcOf[d]
    BY <1>5 DEF Alone
  <2>2. ProcOf[c] = ProcOf[d] => pc[d] \notin Working
    BY <1>5 DEF IInv, Mutex, Working
  <2>3. CommitKnows(d)'
    BY <1>1, <2>1, <2>2 DEF Knows, CommitKnows, Working
  <2>4. Alone(d)' => call[d].named = {} /\ call[d].listed = {} /\ call[d].total = 0
    BY <1>1, <2>1, <2>2 DEF Knows, CallKnows, Working
  <2>5. ScanKnows(d)'
    BY <1>1, <2>4, SharesNothing DEF Knows, ScanKnows, Shares
  <2> QED
    BY <1>3, <2>3, <2>5 DEF Knows
<1> QED
  BY <1>4, <1>5

\* A call that has returned, or not yet looked, scans nothing.
LEMMA NoScan ==
  ASSUME NEW c \in Calls, call'[c].left = {}, call'[c].named = {},
         call'[c].listed = {}, call'[c].total = 0
  PROVE  ScanKnows(c)'
BY SharesNothing DEF ScanKnows, Shares

\* Returning, whatever the result.
LEMMA EndKeeps ==
  ASSUME IInv, NEW c \in Calls,
         NEW how \in Ends, NEW value \in Contents \cup {Garbage},
         End(c, how, value), how \in Races => ~Alone(c),
         UNCHANGED <<readOnly, source, entry, clock, writes, mutated>>,
         unpruned' \subseteq Contents
  PROVE  IInv'
<1> USE CallsAssumption
<1>1. TypeOK'
  <2>1. NoCall \in Locals(clock)
    BY DEF NoCall, Locals, IInv, TypeOK, Garbage, Absent
  <2>2. call' \in [Calls -> Locals(clock)]
    BY <2>1 DEF End, IInv, TypeOK
  <2>3. outcome' \in [Calls -> [how : Ends, value : Contents \cup {Garbage}]]
    BY DEF End, IInv, TypeOK
  <2>4. mutation' \in [Procs -> Calls \cup {None}]
    BY DEF End, IInv, TypeOK
  <2>5. pc' \in [Calls -> {"start", "load", "confirm", "verify", "compute", "lock",
                           "stage", "commit", "scan", "end"}]
    BY DEF End, Goto, IInv, TypeOK
  <2>6. covers' \in [Calls -> SUBSET Contents]
    BY DEF End, IInv, TypeOK
  <2> QED
    BY <2>2, <2>3, <2>4, <2>5, <2>6 DEF IInv, TypeOK
<1>2. Mutex'
  BY DEF End, Goto, IInv, TypeOK, Mutex, Working
<1>3. Knows(c)'
  <2>1. pc'[c] = "end" /\ call'[c] = NoCall /\ outcome'[c].how = how
    BY DEF End, Goto, IInv, TypeOK
  <2>2. CallKnows(c)' /\ CommitKnows(c)'
    BY <2>1 DEF CallKnows, CommitKnows, NoCall, Working
  <2>3. ScanKnows(c)'
    BY <2>1, NoScan DEF NoCall
  <2>4. Fair(c)'
    BY <2>1 DEF Fair, Alone
  <2> QED
    BY <2>2, <2>3, <2>4 DEF Knows
<1>4. \A d \in Calls \ {c} : Knows(d)'
  <2>1. \A d \in Calls \ {c} :
          call'[d] = call[d] /\ pc'[d] = pc[d] /\ outcome'[d] = outcome[d]
    BY DEF End, Goto, IInv, TypeOK
  <2> QED
    BY <2>1, OthersKeep
<1> QED
  BY <1>1, <1>2, <1>3, <1>4 DEF IInv

\* A step from one location to another, up to the staging.
LEMMA GoKeeps ==
  ASSUME IInv, NEW c \in Calls, NEW l, NEW r,
         pc' = [pc EXCEPT ![c] = l], call' = [call EXCEPT ![c] = r],
         l \in {"load", "confirm", "verify", "compute", "lock"},
         pc[c] \notin {"scan", "end"},
         r \in Locals(clock), r.pinned \in Contents,
         l \in {"confirm", "verify", "lock"} => r.value = r.pinned,
         l = "lock" => SizeOf[r.pinned] <= Limit(c),
         r.left = call[c].left, r.named = call[c].named,
         r.listed = call[c].listed, r.total = call[c].total,
         UNCHANGED <<readOnly, source, entry, clock, mutation, outcome, history>>
  PROVE  IInv'
<1>1. TypeOK'
  BY DEF IInv, TypeOK, history
<1>2. Mutex'
  BY DEF IInv, TypeOK, Mutex, Working
<1>3. Knows(c)'
  <2>1. pc'[c] = l /\ call'[c] = r
    BY DEF IInv, TypeOK
  <2>2. Knows(c)
    BY DEF IInv
  <2>3. CallKnows(c)' /\ CommitKnows(c)' /\ Fair(c)'
    BY <2>1, <2>2 DEF Knows, CallKnows, CommitKnows, Fair, Alone, Limit, Working, history
  <2>4. ScanKnows(c)'
    BY <2>1, <2>2, NoScan DEF Knows, CallKnows
  <2> QED
    BY <2>3, <2>4 DEF Knows
<1>4. \A d \in Calls \ {c} : Knows(d)'
  <2>1. \A d \in Calls \ {c} :
          call'[d] = call[d] /\ pc'[d] = pc[d] /\ outcome'[d] = outcome[d]
    BY DEF IInv, TypeOK
  <2> QED
    BY <2>1, OthersKeep DEF history
<1> QED
  BY <1>1, <1>2, <1>3, <1>4 DEF IInv

-----------------------------------------------------------------------------
(* Lookup. *)

\* At the start nobody has done anything.
LEMMA InitIInv == Init => IInv
<1> SUFFICES ASSUME Init PROVE IInv
  OBVIOUS
<1>1. NoCall \in Locals(2)
  BY DEF NoCall, Locals, Garbage, Absent
<1>2. TypeOK
  <2>1. PICK ks \in SUBSET Contents :
          /\ entry \in [ks -> [doc : Contents \cup {Garbage}, id : {1}]]
          /\ \A k \in ks : entry[k].doc = k \/ (k \in Damaged /\ entry[k].doc = Garbage)
          /\ unpruned = IF Fits(ks) THEN {} ELSE ks
    BY DEF Init
  <2>2. DOMAIN entry \subseteq Contents /\ unpruned \subseteq Contents
    BY <2>1
  <2>3. \A k \in DOMAIN entry :
          entry[k].id = 1 /\ (entry[k].doc = k \/ entry[k].doc = Garbage)
    BY <2>1
  <2>4. clock = 2 /\ writes = 0 /\ MaxWrites \in Nat
    BY LimitsAssumption DEF Init
  <2>5. call \in [Calls -> Locals(clock)]
    BY <1>1 DEF Init
  <2>6. outcome \in [Calls -> [how : Ends, value : Contents \cup {Garbage}]]
    BY DEF Init, Ends
  <2> QED
    BY <2>2, <2>3, <2>4, <2>5, <2>6 DEF Init, TypeOK
<1>3. Mutex
  BY DEF Init, Mutex, Working
<1>4. ASSUME NEW c \in Calls PROVE Knows(c)
  <2>1. pc[c] = "start" /\ call[c] = NoCall /\ outcome[c].how = "none"
    BY DEF Init
  <2>2. CallKnows(c) /\ CommitKnows(c) /\ Fair(c)
    BY <2>1 DEF CallKnows, CommitKnows, Fair, NoCall, Working, Races
  <2>3. ScanKnows(c)
    BY <2>1, SharesNothing DEF ScanKnows, NoCall
  <2> QED
    BY <2>2, <2>3 DEF Knows
<1> QED
  BY <1>2, <1>3, <1>4 DEF IInv

LEMMA CaptureKeeps ==
  ASSUME IInv, NEW c \in Calls, Capture(c)
  PROVE  IInv'
<1> DEFINE r == [call[c] EXCEPT !.pinned = source[SourceOf[c]]]
<1>1. call[c] \in Locals(clock) /\ source[SourceOf[c]] \in Contents
  BY CallsAssumption DEF IInv, TypeOK
<1>2. r \in Locals(clock) /\ r.pinned \in Contents
  BY <1>1 DEF Locals
<1>3. /\ r.left = call[c].left /\ r.named = call[c].named
      /\ r.listed = call[c].listed /\ r.total = call[c].total
  BY <1>1 DEF Locals
<1>4. /\ call' = [call EXCEPT ![c] = r] /\ pc' = [pc EXCEPT ![c] = "load"]
      /\ pc[c] = "start"
      /\ UNCHANGED <<readOnly, source, entry, clock, mutation, outcome, history>>
  BY DEF Capture, At, Goto
<1> HIDE DEF r
<1> QED
  BY <1>2, <1>3, <1>4, GoKeeps

LEMMA LoadKeeps ==
  ASSUME IInv, NEW c \in Calls, Load(c)
  PROVE  IInv'
<1> DEFINE k == call[c].pinned
<1>1. /\ call[c] \in Locals(clock) /\ k \in Contents /\ clock \in Nat
      /\ call \in [Calls -> Locals(clock)]
  BY DEF IInv, TypeOK, Knows, CallKnows, Load, At
<1>2. /\ pc[c] = "load"
      /\ UNCHANGED <<readOnly, source, entry, clock, mutation, outcome, history>>
  BY DEF Load, At
<1>3. CASE UNCHANGED call /\ Goto(c, "compute")
  <2>1. call' = [call EXCEPT ![c] = call[c]]
    BY <1>1, <1>3
  <2> QED
    BY <1>1, <1>2, <1>3, <2>1, GoKeeps DEF Goto
<1>4. CASE call' = [call EXCEPT ![c].invalid = TRUE] /\ Goto(c, "compute")
  <2> DEFINE r == [call[c] EXCEPT !.invalid = TRUE]
  <2>1. /\ r \in Locals(clock) /\ r.pinned \in Contents
        /\ r.left = call[c].left /\ r.named = call[c].named
        /\ r.listed = call[c].listed /\ r.total = call[c].total
    BY <1>1 DEF Locals
  <2>2. call' = [call EXCEPT ![c] = r] /\ pc' = [pc EXCEPT ![c] = "compute"]
    BY <1>4 DEF Goto
  <2> HIDE DEF r
  <2> QED
    BY <1>2, <2>1, <2>2, GoKeeps
<1>5. CASE /\ k \in DOMAIN entry /\ entry[k].doc = k
           /\ call' = [call EXCEPT ![c].opened = entry[k].id, ![c].value = entry[k].doc]
           /\ Goto(c, "confirm")
  <2> DEFINE r == [call[c] EXCEPT !.opened = entry[k].id, !.value = entry[k].doc]
  <2>1. entry[k].id \in 0 .. clock - 1 /\ entry[k].doc \in Contents
    BY <1>1, <1>5 DEF IInv, TypeOK
  <2>2. /\ r \in Locals(clock) /\ r.pinned \in Contents /\ r.value = r.pinned
        /\ r.left = call[c].left /\ r.named = call[c].named
        /\ r.listed = call[c].listed /\ r.total = call[c].total
    BY <1>1, <1>5, <2>1 DEF Locals
  <2>3. call' = [call EXCEPT ![c] = r] /\ pc' = [pc EXCEPT ![c] = "confirm"]
    BY <1>5 DEF Goto
  <2> HIDE DEF r
  <2> QED
    BY <1>2, <2>2, <2>3, GoKeeps
<1> QED
  BY <1>3, <1>4, <1>5 DEF Load

LEMMA ConfirmKeeps ==
  ASSUME IInv, NEW c \in Calls, Confirm(c)
  PROVE  IInv'
<1>1. /\ call[c] \in Locals(clock) /\ call[c].pinned \in Contents
      /\ call[c].value = call[c].pinned /\ call \in [Calls -> Locals(clock)]
  BY DEF IInv, TypeOK, Knows, CallKnows, Confirm, At
<1>2. /\ pc[c] = "confirm"
      /\ UNCHANGED <<readOnly, source, entry, clock, mutation, outcome, history>>
  BY DEF Confirm, At
<1>3. CASE UNCHANGED call /\ Goto(c, "verify")
  <2>1. call' = [call EXCEPT ![c] = call[c]]
    BY <1>1, <1>3
  <2> QED
    BY <1>1, <1>2, <1>3, <2>1, GoKeeps DEF Goto
<1>4. CASE call' = [call EXCEPT ![c].invalid = TRUE] /\ Goto(c, "compute")
  <2> DEFINE r == [call[c] EXCEPT !.invalid = TRUE]
  <2>1. /\ r \in Locals(clock) /\ r.pinned \in Contents
        /\ r.left = call[c].left /\ r.named = call[c].named
        /\ r.listed = call[c].listed /\ r.total = call[c].total
    BY <1>1 DEF Locals
  <2>2. call' = [call EXCEPT ![c] = r] /\ pc' = [pc EXCEPT ![c] = "compute"]
    BY <1>4 DEF Goto
  <2> HIDE DEF r
  <2> QED
    BY <1>2, <2>1, <2>2, GoKeeps
<1> QED
  BY <1>3, <1>4 DEF Confirm

LEMMA AnswerHitKeeps ==
  ASSUME IInv, NEW c \in Calls, AnswerHit(c)
  PROVE  IInv'
<1>1. call[c].value \in Contents \cup {Garbage} /\ unpruned \subseteq Contents
  BY DEF IInv, TypeOK, Locals
<1>2. {"Hit", "source"} \subseteq Ends \ Races
  BY DEF Ends, Answers, Races
<1>3. End(c, "Hit", call[c].value) \/ End(c, "source", Garbage)
  BY DEF AnswerHit, Fail
<1>4. UNCHANGED <<readOnly, source, entry, clock, writes, unpruned, mutated>>
  BY DEF AnswerHit
<1> QED
  BY <1>1, <1>2, <1>3, <1>4, EndKeeps

LEMMA ComputeKeeps ==
  ASSUME IInv, NEW c \in Calls, Compute(c)
  PROVE  IInv'
<1> DEFINE k == call[c].pinned
<1>1. call[c] \in Locals(clock) /\ k \in Contents /\ unpruned \subseteq Contents
  BY DEF IInv, TypeOK, Knows, CallKnows, Compute, At
<1>2. /\ pc[c] = "compute"
      /\ UNCHANGED <<readOnly, source, entry, clock, writes, unpruned, mutated>>
  BY DEF Compute, At
<1>3. {"source", "ReadOnlyInvalid", "ReadOnlyMiss", "TooLarge"} \subseteq Ends \ Races
  BY DEF Ends, Answers, Races
<1>4. CASE \E how \in {"source", "ReadOnlyInvalid", "ReadOnlyMiss", "TooLarge"} :
             \E value \in {k, Garbage} : End(c, how, value)
  BY <1>1, <1>2, <1>3, <1>4, EndKeeps
<1>5. CASE /\ SizeOf[k] <= Limit(c)
           /\ call' = [call EXCEPT ![c].value = k]
           /\ Goto(c, "lock")
           /\ UNCHANGED <<mutation, outcome, covers>>
  <2> DEFINE r == [call[c] EXCEPT !.value = k]
  <2>1. /\ r \in Locals(clock) /\ r.pinned \in Contents /\ r.value = r.pinned
        /\ r.pinned = k
        /\ r.left = call[c].left /\ r.named = call[c].named
        /\ r.listed = call[c].listed /\ r.total = call[c].total
    BY <1>1 DEF Locals
  <2>2. call' = [call EXCEPT ![c] = r] /\ pc' = [pc EXCEPT ![c] = "lock"]
    BY <1>5 DEF Goto
  <2>3. UNCHANGED <<readOnly, source, entry, clock, mutation, outcome, history>>
    BY <1>2, <1>5 DEF history
  <2> HIDE DEF r
  <2> QED
    BY <1>2, <1>5, <2>1, <2>2, <2>3, GoKeeps
<1>6. \/ End(c, "source", Garbage)
      \/ End(c, "ReadOnlyInvalid", k) \/ End(c, "ReadOnlyMiss", k)
      \/ End(c, "TooLarge", k)
      \/ /\ SizeOf[k] <= Limit(c)
         /\ call' = [call EXCEPT ![c].value = k]
         /\ Goto(c, "lock")
         /\ UNCHANGED <<mutation, outcome, covers>>
  BY DEF Compute, Fail
<1> QED
  BY <1>4, <1>5, <1>6

-----------------------------------------------------------------------------
(* Store and prune. *)

\* A step under the mutex, or the one that takes it, that does not return.
LEMMA WorkKeeps ==
  ASSUME IInv, NEW c \in Calls, NEW l \in Working, NEW r,
         pc[c] \in {"lock"} \cup Working,
         pc' = [pc EXCEPT ![c] = l], call' = [call EXCEPT ![c] = r],
         UNCHANGED <<readOnly, source, outcome, writes>>,
         mutation[ProcOf[c]] \in {None, c},
         mutation' = [mutation EXCEPT ![ProcOf[c]] = c],
         clock' \in {clock, clock + 1}, r \in Locals(clock'),
         r.pinned = call[c].pinned, r.value = call[c].value,
         l # "scan" =>
           r.left = {} /\ r.named = {} /\ r.listed = {} /\ r.total = 0,
         CommitKnows(c)', ScanKnows(c)',
         \/ UNCHANGED <<entry, mutated>>
         \/ /\ pc[c] \in {"commit", "scan"} /\ mutated' = mutated \cup {ProcOf[c]}
            /\ DOMAIN entry' \subseteq Contents
            /\ \A k \in DOMAIN entry' :
                 /\ entry'[k].id \in 1 .. clock - 1
                 /\ entry'[k].doc = k \/ (entry'[k].doc = Garbage /\ entry'[k].id = 1),
         unpruned' \subseteq Contents, covers' \in [Calls -> SUBSET Contents]
  PROVE  IInv'
<1> USE CallsAssumption
<1>1. TypeOK'
  <2>1. clock \in Nat \ {0, 1} /\ clock' \in Nat \ {0, 1}
    BY DEF IInv, TypeOK
  <2>2. \A d \in Calls : call[d] \in Locals(clock) /\ call[d] \in Locals(clock')
    BY <2>1, LocalsGrow DEF IInv, TypeOK
  <2>3. call' \in [Calls -> Locals(clock')]
    BY <2>2 DEF IInv, TypeOK
  <2>4. /\ DOMAIN entry' \subseteq Contents
        /\ \A k \in DOMAIN entry' :
             /\ entry'[k].id \in 1 .. clock' - 1
             /\ entry'[k].doc = k \/ (entry'[k].doc = Garbage /\ entry'[k].id = 1)
    BY <2>1 DEF IInv, TypeOK
  <2>5. mutation' \in [Procs -> Calls \cup {None}]
    BY DEF IInv, TypeOK
  <2>6. pc' \in [Calls -> {"start", "load", "confirm", "verify", "compute", "lock",
                           "stage", "commit", "scan", "end"}]
    BY DEF IInv, TypeOK, Working
  <2>7. mutated' \subseteq Procs
    <3>1. mutated \subseteq Procs /\ ProcOf[c] \in Procs
      BY DEF IInv, TypeOK
    <3>2. mutated' = mutated \/ mutated' = mutated \cup {ProcOf[c]}
      OBVIOUS
    <3> QED
      BY <3>1, <3>2
  <2> QED
    BY <2>1, <2>3, <2>4, <2>5, <2>6, <2>7 DEF IInv, TypeOK
<1>2. Mutex'
  BY ZenonT(40) DEF IInv, TypeOK, Mutex, Working
<1>3. Knows(c)'
  <2>1. pc'[c] = l /\ call'[c] = r
    BY DEF IInv, TypeOK
  <2>2. Knows(c)
    BY DEF IInv
  <2>3. CallKnows(c)' /\ Fair(c)'
    BY <2>1, <2>2 DEF Knows, CallKnows, Fair, Limit, Working, Races
  <2> QED
    BY <2>3 DEF Knows
<1>4. \A d \in Calls \ {c} : Knows(d)'
  <2>1. \A d \in Calls \ {c} :
          call'[d] = call[d] /\ pc'[d] = pc[d] /\ outcome'[d] = outcome[d]
    BY DEF IInv, TypeOK
  <2> QED
    BY <2>1, OthersKeep
<1> QED
  BY <1>1, <1>2, <1>3, <1>4 DEF IInv

\* What every action under the mutex starts from.
LEMMA WorkFacts ==
  ASSUME IInv, NEW c \in Calls, pc[c] \in Working
  PROVE  /\ call[c] \in Locals(clock) /\ clock \in Nat \ {0, 1}
         /\ call \in [Calls -> Locals(clock)] /\ DOMAIN pc = Calls
         /\ pc = [pc EXCEPT ![c] = pc[c]]
         /\ ProcOf[c] \in Procs /\ mutation[ProcOf[c]] = c
         /\ mutation = [mutation EXCEPT ![ProcOf[c]] = c]
         /\ Knows(c) /\ call[c].pinned \in Contents /\ call[c].value = call[c].pinned
         /\ unpruned \subseteq Contents /\ covers \in [Calls -> SUBSET Contents]
         /\ Limit(c) \in Nat /\ SizeOf[call[c].pinned] <= Limit(c)
<1>1. Knows(c) /\ mutation[ProcOf[c]] = c
  BY DEF IInv, Mutex
<1>2. /\ call[c] \in Locals(clock) /\ clock \in Nat \ {0, 1}
      /\ call \in [Calls -> Locals(clock)] /\ DOMAIN pc = Calls
      /\ unpruned \subseteq Contents /\ covers \in [Calls -> SUBSET Contents]
      /\ pc = [pc EXCEPT ![c] = pc[c]]
  BY DEF IInv, TypeOK
<1>3. ProcOf[c] \in Procs /\ Limit(c) \in Nat
  BY CallsAssumption, LimitsAssumption DEF Limit
<1>4. mutation = [mutation EXCEPT ![ProcOf[c]] = c]
  BY <1>1, <1>3 DEF IInv, TypeOK
<1>5. /\ call[c].pinned \in Contents /\ call[c].value = call[c].pinned
      /\ SizeOf[call[c].pinned] <= Limit(c)
  BY <1>1 DEF Knows, CallKnows, Working
<1> QED
  BY <1>1, <1>2, <1>3, <1>4, <1>5

LEMMA LockKeeps ==
  ASSUME IInv, NEW c \in Calls, Lock(c)
  PROVE  IInv'
<1>1. /\ call[c] \in Locals(clock) /\ call \in [Calls -> Locals(clock)]
      /\ unpruned \subseteq Contents /\ covers \in [Calls -> SUBSET Contents]
      /\ DOMAIN pc = Calls /\ pc[c] = "lock" /\ Knows(c)
  BY DEF IInv, TypeOK, Lock, At
<1>2. /\ call[c].left = {} /\ call[c].named = {}
      /\ call[c].listed = {} /\ call[c].total = 0
  BY <1>1 DEF Knows, CallKnows
<1>3. /\ call' = [call EXCEPT ![c] = call[c]]
      /\ pc' = [pc EXCEPT ![c] = "stage"]
      /\ mutation[ProcOf[c]] \in {None, c}
      /\ mutation' = [mutation EXCEPT ![ProcOf[c]] = c]
      /\ UNCHANGED <<readOnly, source, entry, clock, outcome, writes, mutated>>
      /\ UNCHANGED <<unpruned, covers>>
  BY <1>1 DEF Lock, Goto, history
<1>4. pc'[c] = "stage" /\ call'[c] = call[c]
  BY <1>1, <1>3
<1>5. CommitKnows(c)' /\ ScanKnows(c)'
  BY <1>2, <1>4, NoScan DEF CommitKnows
<1> QED
  BY <1>1, <1>2, <1>3, <1>5, WorkKeeps DEF Working

LEMMA StageKeeps ==
  ASSUME IInv, NEW c \in Calls, Stage(c)
  PROVE  IInv'
<1>1. pc[c] = "stage" /\ pc[c] \in Working
  BY DEF Stage, At, Working
<1>2. UNCHANGED <<readOnly, source, entry, writes, unpruned, mutated>>
  BY DEF Stage
<1>3. CASE /\ call' = [call EXCEPT ![c].opened = Identity(call[c].pinned), ![c].staged = clock]
           /\ clock' = clock + 1
           /\ Goto(c, "commit")
           /\ UNCHANGED <<mutation, outcome, covers>>
  <2> DEFINE r == [call[c] EXCEPT !.opened = Identity(call[c].pinned), !.staged = clock]
  <2>1. call' = [call EXCEPT ![c] = r] /\ pc' = [pc EXCEPT ![c] = "commit"]
    BY <1>3 DEF Goto
  <2>2. Identity(call[c].pinned) \in 0 .. clock - 1
    BY IdentityType DEF IInv
  <2>3. call[c] \in Locals(clock + 1) /\ clock \in Nat \ {0, 1}
    BY <1>1, WorkFacts, LocalsGrow
  <2>4. Identity(call[c].pinned) \in 0 .. (clock + 1) - 1 /\ clock \in 0 .. (clock + 1) - 1
    BY <2>2, <2>3
  <2>5. /\ r \in Locals(clock')
        /\ r.pinned = call[c].pinned /\ r.value = call[c].value
        /\ r.left = call[c].left /\ r.named = call[c].named
        /\ r.listed = call[c].listed /\ r.total = call[c].total
        /\ r.opened = Identity(call[c].pinned) /\ r.staged = clock
    BY <1>3, <2>3, <2>4 DEF Locals
  <2> HIDE DEF r
  <2>6. /\ r.left = {} /\ r.named = {} /\ r.listed = {} /\ r.total = 0
    BY <1>1, <2>5, WorkFacts DEF Knows, CallKnows
  <2>7. call'[c] = r /\ pc'[c] = "commit"
    BY <1>1, <2>1, WorkFacts
  <2>8. CommitKnows(c)'
    BY <1>2, <1>3, <2>3, <2>5, <2>7 DEF CommitKnows, Identity
  <2>9. ScanKnows(c)'
    BY <2>6, <2>7, NoScan
  <2> QED
    BY <1>1, <1>2, <1>3, <2>1, <2>5, <2>6, <2>8, <2>9, WorkFacts, WorkKeeps DEF Working
<1>4. CASE Fail(c, "io") /\ UNCHANGED clock
  BY <1>1, <1>2, <1>4, WorkFacts, EndKeeps DEF Fail, Ends, Answers, Races
<1> QED
  BY <1>3, <1>4 DEF Stage

LEMMA CommitKeeps ==
  ASSUME IInv, NEW c \in Calls, Commit(c)
  PROVE  IInv'
<1> DEFINE k == call[c].pinned
<1>1. pc[c] = "commit" /\ pc[c] \in Working
  BY DEF Commit, At, Working
<1>2. UNCHANGED <<readOnly, source, clock, writes>>
  BY DEF Commit
<1>3. CASE /\ Put(c, call[c].value)
           /\ call' = [call EXCEPT ![c].left = Contents]
           /\ Goto(c, "scan")
           /\ unpruned' = unpruned \cup {k}
           /\ covers' = [d \in Calls |-> IF d = c THEN unpruned' ELSE covers[d] \ {k}]
           /\ mutated' = mutated \cup {ProcOf[c]}
           /\ UNCHANGED <<mutation, outcome>>
  <2> DEFINE r == [call[c] EXCEPT !.left = Contents]
  <2>1. call' = [call EXCEPT ![c] = r] /\ pc' = [pc EXCEPT ![c] = "scan"]
    BY <1>3 DEF Goto
  <2>2. /\ r \in Locals(clock) /\ r.left = Contents
        /\ r.pinned = call[c].pinned /\ r.value = call[c].value
        /\ r.named = call[c].named /\ r.listed = call[c].listed
        /\ r.total = call[c].total
    BY SMTT(30), <1>1, WorkFacts DEF Locals
  <2> HIDE DEF r
  <2>3. r.named = {} /\ r.listed = {} /\ r.total = 0
    BY <1>1, <2>2, WorkFacts DEF Knows, CallKnows
  <2>4. call'[c] = r /\ pc'[c] = "scan"
    BY <1>1, <2>1, WorkFacts
  <2>5. CommitKnows(c)' /\ ScanKnows(c)'
    <3>1. CommitKnows(c)'
      BY <2>4 DEF CommitKnows
    <3>2. call'[c].named = {} /\ call'[c].listed = {} /\ call'[c].total = 0
      BY <2>3, <2>4
    <3>3. ScanKnows(c)'
      BY <3>2, SharesNothing DEF ScanKnows, Shares
    <3> QED
      BY <3>1, <3>3
  <2>6. call[c].staged \in 1 .. clock - 1 /\ k \in Contents /\ call[c].value = k
    BY <1>1, WorkFacts DEF Knows, CommitKnows
  <2>7. /\ DOMAIN entry' = DOMAIN entry \cup {k}
        /\ \A j \in DOMAIN entry' :
             entry'[j] = IF j = k THEN [doc |-> k, id |-> call[c].staged] ELSE entry[j]
    BY <1>3, <2>6 DEF Put
  <2>8. /\ DOMAIN entry' \subseteq Contents
        /\ \A j \in DOMAIN entry' :
             /\ entry'[j].id \in 1 .. clock - 1
             /\ entry'[j].doc = j \/ (entry'[j].doc = Garbage /\ entry'[j].id = 1)
    BY <2>6, <2>7 DEF IInv, TypeOK
  <2>9. unpruned' \subseteq Contents /\ covers' \in [Calls -> SUBSET Contents]
    BY <1>1, <1>3, <2>6, WorkFacts
  <2> QED
    BY <1>1, <1>2, <1>3, <2>1, <2>2, <2>3, <2>5, <2>8, <2>9, WorkFacts, WorkKeeps
       DEF Working
<1>4. CASE /\ Fail(c, IF Identity(k) # call[c].opened THEN "changed" ELSE "io")
           /\ UNCHANGED <<entry, unpruned, mutated>>
  <2>1. Identity(k) # call[c].opened => ~Alone(c)
    BY <1>1, WorkFacts DEF Knows, CommitKnows
  <2> QED
    BY <1>1, <1>2, <1>4, <2>1, WorkFacts, EndKeeps DEF Fail, Ends, Answers, Races
<1> QED
  BY <1>3, <1>4 DEF Commit

LEMMA NameKeeps ==
  ASSUME IInv, NEW c \in Calls, Name(c)
  PROVE  IInv'
<1>1. /\ pc[c] = "scan" /\ pc[c] \in Working /\ call[c].named = {}
      /\ UNCHANGED <<readOnly, source, entry, clock, mutation, pc, outcome, writes>>
      /\ UNCHANGED <<unpruned, covers, mutated>>
  BY DEF Name, At, Working, history
<1>2. call[c] \in Locals(clock) /\ DOMAIN pc = Calls /\ pc = [pc EXCEPT ![c] = pc[c]] /\ call \in [Calls -> Locals(clock)]
  BY <1>1, WorkFacts
<1>3. ASSUME NEW r, r \in Locals(clock), call' = [call EXCEPT ![c] = r],
             r.pinned = call[c].pinned, r.value = call[c].value,
             r.listed = call[c].listed, r.total = call[c].total,
             r.left \cup r.named \subseteq call[c].left,
             \A j \in r.left : \A n \in r.named : n < j,
             r.named \subseteq DOMAIN entry
      PROVE  IInv'
  <2>1. call'[c] = r /\ pc' = [pc EXCEPT ![c] = "scan"] /\ pc'[c] = "scan"
    BY <1>1, <1>2, <1>3
  <2>2. ScanKnows(c)
    BY DEF IInv, Knows
  <2>3. ScanKnows(c)'
    BY SMTT(30), <1>1, <1>3, <2>1, <2>2 DEF ScanKnows, Alone, Shares
  <2>4. CommitKnows(c)'
    BY <2>1 DEF CommitKnows
  <2> QED
    BY <1>1, <1>3, <2>1, <2>3, <2>4, WorkFacts, WorkKeeps DEF Working
<1>4. CASE call' = [call EXCEPT ![c].left = {}]
  <2> DEFINE r == [call[c] EXCEPT !.left = {}]
  <2>1. /\ r \in Locals(clock) /\ r.left = {} /\ r.named = {}
        /\ r.pinned = call[c].pinned /\ r.value = call[c].value
        /\ r.listed = call[c].listed /\ r.total = call[c].total
    BY <1>1, <1>2 DEF Locals
  <2>2. call' = [call EXCEPT ![c] = r]
    BY <1>4
  <2> HIDE DEF r
  <2> QED
    BY <1>3, <2>1, <2>2
<1>5. ASSUME NEW k \in call[c].left \cap DOMAIN entry,
             call' = [call EXCEPT ![c].left = {j \in @ : j > k}, ![c].named = {k}]
      PROVE  IInv'
  <2> DEFINE r == [call[c] EXCEPT !.left = {j \in call[c].left : j > k}, !.named = {k}]
  <2>1. call[c].left \subseteq Contents /\ Contents \subseteq Nat
    BY <1>2, ContentsAssumption DEF Locals
  <2>2. /\ r \in Locals(clock) /\ r.left = {j \in call[c].left : j > k} /\ r.named = {k}
        /\ r.pinned = call[c].pinned /\ r.value = call[c].value
        /\ r.listed = call[c].listed /\ r.total = call[c].total
    BY <1>2, <2>1 DEF Locals
  <2>3. call' = [call EXCEPT ![c] = r]
    BY <1>5
  <2> HIDE DEF r
  <2>4. \A j \in r.left : \A n \in r.named : n < j
    BY <2>1, <2>2
  <2> QED
    BY <1>3, <2>2, <2>3, <2>4
<1> QED
  BY <1>4, <1>5 DEF Name

LEMMA InspectKeeps ==
  ASSUME IInv, NEW c \in Calls, Inspect(c)
  PROVE  IInv'
<1>1. /\ pc[c] = "scan" /\ pc[c] \in Working
      /\ UNCHANGED <<readOnly, source, entry, clock, writes, unpruned, mutated>>
  BY DEF Inspect, At, Working
<1>2. /\ call[c] \in Locals(clock) /\ DOMAIN pc = Calls /\ pc = [pc EXCEPT ![c] = pc[c]]
      /\ call \in [Calls -> Locals(clock)] /\ ScanKnows(c)
  BY <1>1, WorkFacts DEF Knows
<1>3. PICK k \in call[c].named :
        \/ /\ k \in DOMAIN entry
           /\ call' = [call EXCEPT ![c].listed = @ \cup {<<entry[k].id, k>>},
                                   ![c].total = @ + SizeOf[k], ![c].named = {}]
           /\ UNCHANGED <<mutation, pc, outcome, covers>>
        \/ k \notin DOMAIN entry /\ Fail(c, "vanished")
  BY DEF Inspect
<1>4. CASE /\ k \in DOMAIN entry
           /\ call' = [call EXCEPT ![c].listed = @ \cup {<<entry[k].id, k>>},
                                   ![c].total = @ + SizeOf[k], ![c].named = {}]
           /\ UNCHANGED <<mutation, pc, outcome, covers>>
  <2> DEFINE f == <<entry[k].id, k>>
             files == call[c].listed
             r == [call[c] EXCEPT !.listed = files \cup {f},
                                  !.total = call[c].total + SizeOf[k], !.named = {}]
  <2>1. k \in Contents /\ SizeOf[k] \in Nat /\ entry[k].id \in 1 .. clock - 1 /\ clock \in Nat
    BY <1>2, <1>4, ContentsAssumption DEF IInv, TypeOK, Locals
  <2>2. /\ call' = [call EXCEPT ![c] = r]
        /\ r \in Locals(clock) /\ r.named = {} /\ r.left = call[c].left
        /\ r.pinned = call[c].pinned /\ r.value = call[c].value
        /\ r.listed = files \cup {f} /\ r.total = call[c].total + SizeOf[k]
    BY <1>2, <1>4, <2>1 DEF Locals
  <2>3. files \in SUBSET Records /\ f \in Records /\ f[2] = k
    BY <1>2, <2>1, ListedType DEF Records
  <2>4. \A g \in files : g[2] < k /\ g[2] \in Nat
    BY <1>2, <1>3, <2>3, ContentsAssumption DEF ScanKnows, Records
  <2>5. \A g \in files : g[2] # f[2]
    BY <2>1, <2>3, <2>4, ContentsAssumption
  <2> HIDE DEF r, f
  <2>6. /\ IsFiniteSet(Shares(files \cup {f}))
        /\ Cardinality(Shares(files \cup {f})) = Cardinality(Shares(files)) + SizeOf[k]
    BY <1>2, <2>3, <2>5, SharesAdd DEF ScanKnows
  <2>7. Cardinality(Shares(files)) \in Nat /\ call[c].total \in Nat
    BY <1>2, FS_CardinalityType DEF ScanKnows, Locals
  <2>8. call'[c] = r /\ pc' = [pc EXCEPT ![c] = "scan"] /\ pc'[c] = "scan"
    BY <1>1, <1>2, <1>4, <2>2
  <2>9. ScanKnows(c)'
    <3>1. \A j \in r.left : \A n \in r.named : n < j
      BY <2>2
    <3>2. \A g \in r.listed : \A j \in r.left \cup r.named : g[2] < j
      BY <1>2, <1>3, <2>2, <2>3 DEF ScanKnows
    <3>3. \A g, h \in r.listed : g[2] = h[2] => g = h
      BY <1>2, <2>2, <2>5 DEF ScanKnows
    <3>4. IsFiniteSet(Shares(r.listed)) /\ Cardinality(Shares(r.listed)) <= r.total
      BY <1>2, <2>1, <2>2, <2>6, <2>7 DEF ScanKnows
    <3>5. Alone(c) => /\ r.named \subseteq DOMAIN entry
                      /\ \A g \in r.listed : g[2] \in DOMAIN entry
                      /\ r.total = Cardinality(Shares(r.listed))
      BY <1>2, <1>4, <2>2, <2>3, <2>6 DEF ScanKnows
    <3>6. Alone(c)' <=> Alone(c)
      BY <1>1 DEF Alone
    <3>7. \A s : Shares(s)' = Shares(s)
      BY DEF Shares
    <3> QED
      BY <1>1, <2>8, <3>1, <3>2, <3>3, <3>4, <3>5, <3>6 DEF ScanKnows, Shares
  <2>10. CommitKnows(c)'
    BY <2>8 DEF CommitKnows
  <2> QED
    BY <1>1, <1>4, <2>2, <2>8, <2>9, <2>10, WorkFacts, WorkKeeps DEF Working
<1>5. CASE k \notin DOMAIN entry /\ Fail(c, "vanished")
  <2>1. ~Alone(c)
    BY <1>2, <1>5 DEF ScanKnows
  <2> QED
    BY <1>1, <1>5, <2>1, WorkFacts, EndKeeps DEF Fail, Ends, Races
<1> QED
  BY <1>3, <1>4, <1>5

\* The entry that is evicted is listed, and not the one just written.
LEMMA VictimFacts ==
  ASSUME IInv, NEW c \in Calls, Scanned(c), ~Enough(c)
  PROVE  /\ Oldest(Victims(c)) \in call[c].listed
         /\ Oldest(Victims(c))[2] # call[c].pinned
         /\ Oldest(Victims(c))[2] \in Contents
<1>1. call[c].listed \in SUBSET Records
  BY ListedType DEF IInv, TypeOK
<1>2. Victims(c) \in SUBSET Records /\ Victims(c) # {}
  BY <1>1 DEF Victims, Enough
<1>3. Oldest(Victims(c)) \in Victims(c)
  BY <1>2, OldestIsListed
<1> QED
  BY <1>1, <1>3 DEF Victims, Records

LEMMA EvictKeeps ==
  ASSUME IInv, NEW c \in Calls, Evict(c)
  PROVE  IInv'
<1> DEFINE f == Oldest(Victims(c))
           k == f[2]
           files == call[c].listed
           rest == files \ {f}
<1>1. /\ pc[c] = "scan" /\ pc[c] \in Working
      /\ UNCHANGED <<readOnly, source, clock, writes, unpruned>>
      /\ call[c].left = {} /\ call[c].named = {}
  BY DEF Evict, Scanned, At, Working
<1>2. /\ call[c] \in Locals(clock) /\ DOMAIN pc = Calls /\ pc = [pc EXCEPT ![c] = pc[c]]
      /\ call \in [Calls -> Locals(clock)] /\ ScanKnows(c)
  BY <1>1, WorkFacts DEF Knows
<1>3. f \in files /\ k # call[c].pinned /\ k \in Contents /\ SizeOf[k] \in Nat
  BY VictimFacts, ContentsAssumption DEF Evict
<1>4. \/ /\ k \in DOMAIN entry
         /\ entry' = Restrict(entry, DOMAIN entry \ {k})
         /\ call' = [call EXCEPT ![c].listed = rest, ![c].total = @ - SizeOf[k]]
         /\ mutated' = mutated \cup {ProcOf[c]}
         /\ UNCHANGED <<mutation, pc, outcome, covers>>
      \/ /\ k \notin DOMAIN entry
         /\ call' = [call EXCEPT ![c].listed = rest]
         /\ UNCHANGED <<entry, mutation, pc, outcome, covers, mutated>>
      \/ Fail(c, "io") /\ UNCHANGED <<entry, mutated>>
  BY DEF Evict
<1> HIDE DEF f
<1>5. \A g \in files : g[2] = f[2] => g = f
  BY <1>2, <1>3 DEF ScanKnows
<1>6. /\ IsFiniteSet(Shares(rest)) /\ Cardinality(Shares(rest)) \in Nat
      /\ Cardinality(Shares(rest)) = Cardinality(Shares(files)) - SizeOf[k]
  <2>1. files \in SUBSET Records /\ IsFiniteSet(Shares(files))
    BY <1>2, ListedType DEF IInv, TypeOK, ScanKnows
  <2> QED
    BY <1>3, <1>5, <2>1, SharesDrop
<1>7. Cardinality(Shares(files)) \in Nat /\ call[c].total \in Nat
  BY <1>2, FS_CardinalityType DEF ScanKnows, Locals
<1>8. Cardinality(Shares(files)) <= call[c].total
  BY <1>2 DEF ScanKnows
<1>9. CASE /\ k \in DOMAIN entry
           /\ entry' = Restrict(entry, DOMAIN entry \ {k})
           /\ call' = [call EXCEPT ![c].listed = rest, ![c].total = @ - SizeOf[k]]
           /\ mutated' = mutated \cup {ProcOf[c]}
           /\ UNCHANGED <<mutation, pc, outcome, covers>>
  <2> DEFINE r == [call[c] EXCEPT !.listed = rest, !.total = call[c].total - SizeOf[k]]
  <2>1. call[c].total - SizeOf[k] \in Nat
    BY <1>3, <1>6, <1>7, <1>8
  <2>2. /\ call' = [call EXCEPT ![c] = r]
        /\ r \in Locals(clock) /\ r.named = {} /\ r.left = {}
        /\ r.pinned = call[c].pinned /\ r.value = call[c].value
        /\ r.listed = rest /\ r.total = call[c].total - SizeOf[k]
    BY <1>1, <1>2, <1>9, <2>1 DEF Locals
  <2> HIDE DEF r
  <2>3. call'[c] = r /\ pc' = [pc EXCEPT ![c] = "scan"] /\ pc'[c] = "scan"
    BY <1>1, <1>2, <1>9, <2>2
  <2>4. /\ DOMAIN entry' = DOMAIN entry \ {k}
        /\ \A j \in DOMAIN entry' : entry'[j] = entry[j]
    BY <1>9 DEF Restrict
  <2>5. ScanKnows(c)'
    <3>1. \A g, h \in rest : g[2] = h[2] => g = h
      BY <1>2 DEF ScanKnows
    <3>2. IsFiniteSet(Shares(rest)) /\ Cardinality(Shares(rest)) <= r.total
      BY <1>3, <1>6, <1>7, <1>8, <2>2
    <3>3. Alone(c)' => Alone(c)
      BY <1>9 DEF Alone
    <3>4. Alone(c) => \A g \in rest : g[2] \in DOMAIN entry'
      BY <1>2, <1>5, <2>4 DEF ScanKnows
    <3>5. Alone(c) => r.total = Cardinality(Shares(rest))
      BY <1>2, <1>6, <2>2 DEF ScanKnows
    <3> QED
      BY <2>2, <2>3, <3>1, <3>2, <3>3, <3>4, <3>5 DEF ScanKnows, Shares
  <2>6. CommitKnows(c)'
    BY <2>3 DEF CommitKnows
  <2>7. /\ DOMAIN entry' \subseteq Contents
        /\ \A j \in DOMAIN entry' :
             /\ entry'[j].id \in 1 .. clock - 1
             /\ entry'[j].doc = j \/ (entry'[j].doc = Garbage /\ entry'[j].id = 1)
    BY <2>4 DEF IInv, TypeOK
  <2> QED
    BY <1>1, <1>9, <2>2, <2>3, <2>5, <2>6, <2>7, WorkFacts, WorkKeeps DEF Working
<1>10. CASE /\ k \notin DOMAIN entry
            /\ call' = [call EXCEPT ![c].listed = rest]
            /\ UNCHANGED <<entry, mutation, pc, outcome, covers, mutated>>
  <2> DEFINE r == [call[c] EXCEPT !.listed = rest]
  <2>1. /\ call' = [call EXCEPT ![c] = r]
        /\ r \in Locals(clock) /\ r.named = {} /\ r.left = {}
        /\ r.pinned = call[c].pinned /\ r.value = call[c].value
        /\ r.listed = rest /\ r.total = call[c].total
    BY <1>1, <1>2, <1>10 DEF Locals
  <2> HIDE DEF r
  <2>2. call'[c] = r /\ pc' = [pc EXCEPT ![c] = "scan"] /\ pc'[c] = "scan"
    BY <1>1, <1>2, <1>10, <2>1
  <2>3. ~Alone(c)'
    BY <1>2, <1>3, <1>10 DEF ScanKnows, Alone
  <2>4. \A g, h \in rest : g[2] = h[2] => g = h
    BY <1>2 DEF ScanKnows
  <2>5. IsFiniteSet(Shares(rest)) /\ Cardinality(Shares(rest)) <= r.total
    BY <1>3, <1>6, <1>7, <1>8, <2>1
  <2>6. ScanKnows(c)' /\ CommitKnows(c)'
    BY <2>1, <2>2, <2>3, <2>4, <2>5 DEF ScanKnows, CommitKnows, Shares
  <2> QED
    BY <1>1, <1>10, <2>1, <2>2, <2>6, WorkFacts, WorkKeeps DEF Working
<1>11. CASE Fail(c, "io") /\ UNCHANGED <<entry, mutated>>
  BY <1>1, <1>11, WorkFacts, EndKeeps DEF Fail, Ends, Races, Answers
<1> QED
  BY <1>4, <1>9, <1>10, <1>11

\* A prune that evicted all it could fits the limit, unless another process
\* acts: only the entry just written may be left.
LEMMA PruneFits ==
  ASSUME IInv, NEW c \in Calls, Scanned(c), Enough(c), Alone(c)
  PROVE  call[c].total <= Limit(c)
<1> DEFINE k == call[c].pinned
           files == call[c].listed
<1>1. pc[c] \in Working
  BY DEF Scanned, At, Working
<1>2. /\ k \in Contents /\ SizeOf[k] \in Nat /\ SizeOf[k] <= Limit(c) /\ Limit(c) \in Nat
      /\ call[c].total = Cardinality(Shares(files)) /\ IsFiniteSet(Shares(files))
  BY <1>1, WorkFacts, ContentsAssumption DEF Knows, ScanKnows
<1>3. CASE Victims(c) = {}
  <2>1. Shares(files) \subseteq Share(k)
    BY <1>3 DEF Victims, Shares, Share
  <2>2. Cardinality(Shares(files)) <= Cardinality(Share(k)) /\ Cardinality(Share(k)) = SizeOf[k]
    BY <1>2, <2>1, ShareSize, FS_Subset
  <2>3. Cardinality(Shares(files)) \in Nat
    BY <1>2, FS_CardinalityType
  <2> QED
    BY <1>2, <2>2, <2>3
<1> QED
  BY <1>3 DEF Enough

LEMMA AnswerStoredKeeps ==
  ASSUME IInv, NEW c \in Calls, AnswerStored(c)
  PROVE  IInv'
<1>1. /\ pc[c] \in Working
      /\ UNCHANGED <<readOnly, source, entry, clock, writes, mutated>>
      /\ unpruned' \subseteq Contents
  BY DEF AnswerStored, Scanned, At, Working, IInv, TypeOK
<1>2. call[c].value \in Contents
  BY <1>1, WorkFacts
<1>3. CASE call[c].total > Limit(c) /\ Fail(c, "above")
  <2>1. ~Alone(c)
    BY <1>1, <1>3, PruneFits, WorkFacts DEF AnswerStored, Locals
  <2> QED
    BY <1>1, <1>3, <2>1, EndKeeps DEF Fail, Ends, Races
<1>4. CASE Fail(c, "source")
  BY <1>1, <1>4, EndKeeps DEF Fail, Ends, Races
<1>5. CASE End(c, IF call[c].invalid THEN "Repaired" ELSE "Stored", call[c].value)
  <2>1. {"Repaired", "Stored"} \subseteq Ends \ Races
    BY DEF Ends, Answers, Races
  <2> QED
    BY <1>1, <1>2, <1>5, <2>1, EndKeeps
<1> QED
  BY <1>3, <1>4, <1>5 DEF AnswerStored

-----------------------------------------------------------------------------
(* The environment. *)

LEMMA WriteKeeps ==
  ASSUME IInv, Write
  PROVE  IInv'
<1>1. UNCHANGED <<readOnly, entry, clock, mutation, pc, call, outcome, unpruned,
                  covers, mutated>>
  BY DEF Write
<1>2. source' \in [Sources -> Contents]
  BY ContentsAssumption DEF Write, IInv, TypeOK
<1>3. writes' \in 0 .. MaxWrites
  BY LimitsAssumption DEF Write, IInv, TypeOK
<1>4. TypeOK' /\ Mutex'
  BY <1>1, <1>2, <1>3 DEF IInv, TypeOK, Mutex
<1>5. \A c \in Calls : Knows(c)'
  BY <1>1 DEF IInv, Knows, CallKnows, CommitKnows, ScanKnows, Fair, Alone, Limit,
              Identity, Shares
<1> QED
  BY <1>4, <1>5 DEF IInv

LEMMA CrashKeeps ==
  ASSUME IInv, NEW p \in Procs, Crash(p)
  PROVE  IInv'
<1> DEFINE dead == {c \in Calls : ProcOf[c] = p /\ pc[c] # "end"}
<1>1. /\ pc' = [c \in Calls |-> IF c \in dead THEN "end" ELSE pc[c]]
      /\ call' = [c \in Calls |-> IF c \in dead THEN NoCall ELSE call[c]]
      /\ outcome' = [c \in Calls |->
           IF c \in dead THEN [how |-> "died", value |-> Garbage] ELSE outcome[c]]
      /\ mutation' = [mutation EXCEPT ![p] = None]
      /\ covers' = [c \in Calls |-> IF c \in dead THEN {} ELSE covers[c]]
      /\ UNCHANGED <<readOnly, source, entry, clock, writes, unpruned, mutated>>
  BY DEF Crash
<1>2. TypeOK'
  <2>1. NoCall \in Locals(clock)
    BY DEF NoCall, Locals, IInv, TypeOK, Garbage, Absent
  <2>2. call' \in [Calls -> Locals(clock)]
    BY <1>1, <2>1 DEF IInv, TypeOK
  <2>3. outcome' \in [Calls -> [how : Ends, value : Contents \cup {Garbage}]]
    BY <1>1 DEF IInv, TypeOK, Ends
  <2>4. mutation' \in [Procs -> Calls \cup {None}]
    BY <1>1 DEF IInv, TypeOK
  <2>5. pc' \in [Calls -> {"start", "load", "confirm", "verify", "compute", "lock",
                           "stage", "commit", "scan", "end"}]
    BY <1>1 DEF IInv, TypeOK
  <2>6. covers' \in [Calls -> SUBSET Contents]
    BY <1>1 DEF IInv, TypeOK
  <2> QED
    BY <1>1, <2>2, <2>3, <2>4, <2>5, <2>6 DEF IInv, TypeOK
<1>3. Mutex'
  BY <1>1, CallsAssumption DEF IInv, TypeOK, Mutex, Working
<1>4. ASSUME NEW c \in dead PROVE Knows(c)'
  <2>1. pc'[c] = "end" /\ call'[c] = NoCall /\ outcome'[c].how = "died"
    BY <1>1
  <2>2. CallKnows(c)' /\ CommitKnows(c)' /\ Fair(c)'
    BY <2>1 DEF CallKnows, CommitKnows, NoCall, Working, Fair, Races
  <2>3. ScanKnows(c)'
    BY <2>1, NoScan DEF NoCall
  <2> QED
    BY <2>2, <2>3 DEF Knows
<1>5. ASSUME NEW c \in Calls \ dead PROVE Knows(c)'
  <2>1. pc'[c] = pc[c] /\ call'[c] = call[c] /\ outcome'[c] = outcome[c] /\ Knows(c)
    BY <1>1 DEF IInv
  <2> QED
    BY <1>1, <2>1 DEF Knows, CallKnows, CommitKnows, ScanKnows, Fair, Alone, Limit,
                      Identity, Shares
<1> QED
  BY <1>2, <1>3, <1>4, <1>5 DEF IInv

\* Nothing changes.
LEMMA StutterKeeps ==
  ASSUME IInv, UNCHANGED vars
  PROVE  IInv'
<1>1. TypeOK' /\ Mutex'
  BY DEF vars, history, IInv, TypeOK, Mutex
<1>2. UNCHANGED <<entry, clock, pc, call, outcome, mutated>>
  BY DEF vars, history
<1>3. ASSUME NEW c \in Calls PROVE Knows(c)'
  <2>1. Knows(c) /\ pc'[c] = pc[c] /\ call'[c] = call[c] /\ outcome'[c] = outcome[c]
    BY <1>2 DEF IInv
  <2> QED
    BY <1>2, <2>1 DEF Knows, CallKnows, CommitKnows, ScanKnows, Fair, Alone, Limit,
                      Identity, Shares
<1> QED
  BY <1>1, <1>3 DEF IInv

\* Every step keeps the invariant.
LEMMA NextIInv ==
  ASSUME IInv, [Next]_vars
  PROVE  IInv'
<1>1. CASE \E c \in Calls : Step(c)
  BY <1>1, CaptureKeeps, LoadKeeps, ConfirmKeeps, AnswerHitKeeps, ComputeKeeps, LockKeeps,
     StageKeeps, CommitKeeps, NameKeeps, InspectKeeps, EvictKeeps, AnswerStoredKeeps
     DEF Step
<1>2. CASE \E p \in Procs : Crash(p)
  BY <1>2, CrashKeeps
<1>3. CASE Write
  BY <1>3, WriteKeeps
<1>4. CASE UNCHANGED vars
  BY <1>4, StutterKeeps
<1> QED
  BY <1>1, <1>2, <1>3, <1>4 DEF Next

-----------------------------------------------------------------------------
(* The limit.  A prune answers for the entries stored before its scan       *)
(* (covers).  While one of those is still unpruned, no younger prune has    *)
(* ended, so whatever was stored since is unpruned too, and every other     *)
(* entry is still ahead of the scan or is listed by it.                     *)

\* The addresses of listed files.
Addresses(files) == {f[2] : f \in files}

Covered(c) ==
  pc[c] = "scan" /\ unpruned \cap covers[c] # {} =>
    DOMAIN entry \subseteq call[c].left \cup call[c].named
                             \cup Addresses(call[c].listed) \cup (unpruned \ covers[c])

\* Of two prunes the younger one answers for all that the older one does.
Nested(c, d) ==
  \/ covers[c] \cap unpruned \subseteq covers[d]
  \/ covers[d] \cap unpruned \subseteq covers[c]

\* A scan inspects one name at a time.
OneName(c) == pc[c] = "scan" => \A j, k \in call[c].named : j = k

LimitInv ==
  /\ IsFiniteSet(DOMAIN entry)
  /\ \A c \in Calls : OneName(c)
  /\ \A c \in Calls : Covered(c)
  /\ \A c, d \in Calls : Nested(c, d)
  /\ LimitIsRestored

\* Finitely many entries have finitely many bytes.
LEMMA BytesFinite ==
  ASSUME NEW ks \in SUBSET Contents, IsFiniteSet(ks)
  PROVE  IsFiniteSet(UNION {Share(k) : k \in ks})
<1> DEFINE T == {Share(k) : k \in ks}
           f == [k \in ks |-> Share(k)]
<1>1. f \in Surjection(ks, T)
  BY DEF Surjection
<1>2. IsFiniteSet(T)
  BY <1>1, FS_Surjection
<1>3. \A t \in T : IsFiniteSet(t)
  BY ShareSize
<1> QED
  BY <1>2, <1>3, FS_UNION

\* Fewer entries have fewer bytes, and no entries fit any limit.
LEMMA FewerFit ==
  ASSUME NEW ks \in SUBSET Contents, IsFiniteSet(ks), NEW js \in SUBSET ks, Fits(ks)
  PROVE  Fits(js)
<1> DEFINE A == UNION {Share(k) : k \in js}
           B == UNION {Share(k) : k \in ks}
<1>1. IsFiniteSet(B) /\ A \in SUBSET B
  BY BytesFinite
<1>2. Cardinality(A) <= Cardinality(B) /\ Cardinality(A) \in Nat /\ Cardinality(B) \in Nat
  BY <1>1, FS_Subset, FS_CardinalityType
<1>3. PICK p \in Procs : Cardinality(B) <= MaxBytes[p]
  BY DEF Fits, Bytes
<1>4. MaxBytes[p] \in Nat
  BY LimitsAssumption
<1> HIDE DEF A, B
<1>5. Cardinality(A) <= MaxBytes[p]
  BY <1>2, <1>3, <1>4
<1> QED
  BY <1>5 DEF A, Fits, Bytes

LEMMA NothingFits == Fits({})
<1>1. UNION {Share(k) : k \in {}} = {}
  OBVIOUS
<1>2. Bytes({}) = 0
  BY <1>1, FS_EmptySet DEF Bytes
<1>3. PICK p \in Procs : MaxBytes[p] \in Nat
  BY LimitsAssumption
<1> QED
  BY <1>2, <1>3 DEF Fits

\* A scan that lists every entry and has evicted enough leaves entries that fit.
LEMMA EnoughFits ==
  ASSUME IInv, NEW c \in Calls, Scanned(c), Enough(c),
         DOMAIN entry \subseteq Addresses(call[c].listed)
  PROVE  Fits(DOMAIN entry)
<1> DEFINE files == call[c].listed
           p == ProcOf[c]
           B == UNION {Share(k) : k \in DOMAIN entry}
           pinned == call[c].pinned
<1>0. /\ p \in Procs /\ MaxBytes[p] \in Nat /\ Limit(c) = MaxBytes[p]
      /\ DOMAIN entry \subseteq Contents /\ pinned \in Contents
      /\ SizeOf[pinned] <= Limit(c) /\ SizeOf[pinned] \in Nat
      /\ call[c].total \in Nat
      /\ IsFiniteSet(Shares(files)) /\ Cardinality(Shares(files)) <= call[c].total
  BY CallsAssumption, LimitsAssumption, ContentsAssumption
     DEF IInv, TypeOK, Locals, Knows, CallKnows, ScanKnows, Scanned, At, Working, Limit
<1>1. CASE call[c].total <= Limit(c)
  <2>1. B \in SUBSET Shares(files)
    BY <1>0 DEF Shares, Share, Addresses
  <2>2. /\ Cardinality(B) <= Cardinality(Shares(files))
        /\ Cardinality(B) \in Nat /\ Cardinality(Shares(files)) \in Nat
    BY <1>0, <2>1, FS_Subset, FS_CardinalityType
  <2> HIDE DEF B, files
  <2>3. Cardinality(B) <= MaxBytes[p]
    BY <1>0, <1>1, <2>2 DEF files
  <2> QED
    BY <1>0, <2>3 DEF B, Fits, Bytes
<1>2. CASE Victims(c) = {}
  <2>1. DOMAIN entry \subseteq {pinned}
    BY <1>2 DEF Victims, Addresses
  <2>2. B \in SUBSET Share(pinned)
    BY <2>1
  <2>3. IsFiniteSet(Share(pinned)) /\ Cardinality(Share(pinned)) = SizeOf[pinned]
    BY <1>0, ShareSize
  <2>4. Cardinality(B) <= SizeOf[pinned] /\ Cardinality(B) \in Nat
    BY <2>2, <2>3, FS_Subset, FS_CardinalityType
  <2> HIDE DEF B, pinned
  <2>5. Cardinality(B) <= MaxBytes[p]
    BY <1>0, <2>4
  <2> QED
    BY <1>0, <2>5 DEF B, Fits, Bytes
<1> QED
  BY <1>1, <1>2 DEF Enough

LEMMA InitLimit == Init => LimitInv
<1> SUFFICES ASSUME Init PROVE LimitInv
  OBVIOUS
<1>1. PICK ks \in SUBSET Contents :
        /\ IsFiniteSet(ks)
        /\ entry \in [ks -> [doc : Contents \cup {Garbage}, id : {1}]]
        /\ unpruned = IF Fits(ks) THEN {} ELSE ks
  BY DEF Init
<1>2. DOMAIN entry = ks
  BY <1>1
<1>3. LimitIsRestored
  BY <1>1, <1>2, NothingFits DEF LimitIsRestored
<1>4. \A c \in Calls : Covered(c) /\ OneName(c) /\ covers[c] = {}
  BY DEF Init, Covered, OneName
<1> QED
  BY <1>1, <1>2, <1>3, <1>4 DEF LimitInv, Nested

\* Steps that leave the entries and what is unpruned alone, and in which calls
\* at most stop scanning.
LEMMA QuietKeepsLimit ==
  ASSUME LimitInv, UNCHANGED <<entry, unpruned>>,
         \A d \in Calls : covers'[d] \in {covers[d], {}},
         \A d \in Calls : pc'[d] = "scan" => pc[d] = "scan" /\ call'[d] = call[d]
  PROVE  LimitInv'
<1>1. \A d \in Calls : Covered(d)' /\ OneName(d)'
  BY DEF LimitInv, Covered, OneName, Addresses
<1>2. \A c, d \in Calls : Nested(c, d)'
  <2> SUFFICES ASSUME NEW c \in Calls, NEW d \in Calls PROVE Nested(c, d)'
    OBVIOUS
  <2>1. Nested(c, d) /\ covers'[c] \in {covers[c], {}} /\ covers'[d] \in {covers[d], {}}
    BY DEF LimitInv
  <2> QED
    BY <2>1 DEF Nested
<1>3. LimitIsRestored' /\ IsFiniteSet(DOMAIN entry')
  BY DEF LimitInv, LimitIsRestored, Fits, Bytes
<1> QED
  BY <1>1, <1>2, <1>3 DEF LimitInv

\* A return without a prune, whatever the result.
LEMMA EndKeepsLimit ==
  ASSUME IInv, LimitInv, NEW c \in Calls, NEW how, NEW value,
         End(c, how, value), UNCHANGED <<entry, unpruned>>
  PROVE  LimitInv'
<1>1. \A d \in Calls : covers'[d] \in {covers[d], {}}
  BY DEF End, IInv, TypeOK
<1>2. \A d \in Calls : pc'[d] = "scan" => pc[d] = "scan" /\ call'[d] = call[d]
  BY DEF End, Goto, IInv, TypeOK
<1> QED
  BY <1>1, <1>2, QuietKeepsLimit

\* A step between locations outside of the scan.
LEMMA GoKeepsLimit ==
  ASSUME IInv, LimitInv, NEW c \in Calls, NEW l, Goto(c, l), l # "scan",
         \A d \in Calls \ {c} : call'[d] = call[d],
         UNCHANGED <<entry, unpruned, covers>>
  PROVE  LimitInv'
<1>1. \A d \in Calls : pc'[d] = "scan" => pc[d] = "scan" /\ call'[d] = call[d]
  BY DEF Goto, IInv, TypeOK
<1> QED
  BY <1>1, QuietKeepsLimit

\* The scan of c goes on: what it will visit or has listed still holds every
\* entry it held, and no new entry appears.
LEMMA ScanKeepsLimit ==
  ASSUME IInv, LimitInv, NEW c \in Calls,
         pc[c] = "scan", UNCHANGED <<pc, unpruned, covers>>,
         \A d \in Calls \ {c} : call'[d] = call[d],
         DOMAIN entry' \subseteq DOMAIN entry,
         \A j, k \in call'[c].named : j = k,
         (call[c].left \cup call[c].named \cup Addresses(call[c].listed)) \cap DOMAIN entry'
           \subseteq call'[c].left \cup call'[c].named \cup Addresses(call'[c].listed)
  PROVE  LimitInv'
<1>1. \A d \in Calls : Covered(d)'
  <2> SUFFICES ASSUME NEW d \in Calls, pc'[d] = "scan", unpruned' \cap covers'[d] # {}
               PROVE  DOMAIN entry' \subseteq
                        call'[d].left \cup call'[d].named
                          \cup Addresses(call'[d].listed) \cup (unpruned' \ covers'[d])
    BY DEF Covered, Addresses
  <2>1. DOMAIN entry \subseteq
          call[d].left \cup call[d].named \cup Addresses(call[d].listed) \cup (unpruned \ covers[d])
    BY DEF LimitInv, Covered
  <2> QED
    BY <2>1
<1>2. \A d, e \in Calls : Nested(d, e)' /\ OneName(d)'
  BY DEF LimitInv, Nested, OneName
<1>3. IsFiniteSet(DOMAIN entry')
  BY FS_Subset DEF LimitInv
<1>4. LimitIsRestored'
  BY FewerFit DEF LimitInv, LimitIsRestored, IInv, TypeOK, Fits, Bytes
<1> QED
  BY <1>1, <1>2, <1>3, <1>4 DEF LimitInv

LEMMA CommitLimit ==
  ASSUME IInv, LimitInv, NEW c \in Calls, Commit(c)
  PROVE  LimitInv'
<1> DEFINE k == call[c].pinned
<1>1. CASE Fail(c, IF Identity(k) # call[c].opened THEN "changed" ELSE "io")
  BY <1>1, EndKeepsLimit DEF Commit, Fail, End, Goto
<1>2. CASE /\ Put(c, call[c].value)
           /\ call' = [call EXCEPT ![c].left = Contents]
           /\ Goto(c, "scan")
           /\ unpruned' = unpruned \cup {k}
           /\ covers' = [d \in Calls |-> IF d = c THEN unpruned' ELSE covers[d] \ {k}]
  <2>0. k \in Contents /\ DOMAIN entry' = DOMAIN entry \cup {k} /\ DOMAIN entry \subseteq Contents
    BY <1>2 DEF Put, IInv, TypeOK, Knows, CallKnows, Commit, At
  <2>1. ASSUME NEW d \in Calls PROVE Covered(d)'
    <3>1. CASE d = c
      <4>1. call'[d].left = Contents
        BY <1>2, <3>1 DEF IInv, TypeOK
      <4> QED
        BY <2>0, <4>1 DEF Covered
    <3>2. CASE d # c
      <4>1. call'[d] = call[d] /\ pc'[d] = pc[d] /\ covers'[d] = covers[d] \ {k}
        BY <1>2, <3>2 DEF Goto, IInv, TypeOK
      <4> SUFFICES ASSUME pc[d] = "scan", unpruned' \cap covers'[d] # {}
                   PROVE  DOMAIN entry' \subseteq
                            call[d].left \cup call[d].named
                              \cup Addresses(call[d].listed) \cup (unpruned' \ covers'[d])
        BY <4>1 DEF Covered, Addresses
      <4>2. unpruned \cap covers[d] # {}
        BY <1>2, <4>1
      <4>3. DOMAIN entry \subseteq
              call[d].left \cup call[d].named \cup Addresses(call[d].listed)
                \cup (unpruned \ covers[d])
        BY <4>2 DEF LimitInv, Covered
      <4> QED
        BY <1>2, <2>0, <4>1, <4>3
    <3> QED
      BY <3>1, <3>2
  <2>2. ASSUME NEW d \in Calls, NEW e \in Calls PROVE Nested(d, e)'
    <3>1. CASE d = c \/ e = c
      BY <1>2, <3>1 DEF Nested
    <3>2. CASE d # c /\ e # c
      BY <1>2, <3>2 DEF Nested, LimitInv
    <3> QED
      BY <3>1, <3>2
  <2>3. IsFiniteSet(DOMAIN entry') /\ \A d \in Calls : OneName(d)'
    <3>1. call'[c].named = {} /\ \A d \in Calls \ {c} : call'[d] = call[d] /\ pc'[d] = pc[d]
      BY <1>2 DEF Goto, IInv, TypeOK, Locals, Knows, CallKnows, Commit, At
    <3> QED
      BY <2>0, <3>1, FS_AddElement DEF LimitInv, OneName
  <2>4. LimitIsRestored'
    BY <1>2 DEF LimitIsRestored
  <2> QED
    BY <2>1, <2>2, <2>3, <2>4 DEF LimitInv
<1> QED
  BY <1>1, <1>2 DEF Commit

LEMMA NameLimit ==
  ASSUME IInv, LimitInv, NEW c \in Calls, Name(c)
  PROVE  LimitInv'
<1> DEFINE ahead == call[c].left \cap DOMAIN entry
<1>1. call \in [Calls -> Locals(clock)] /\ call[c].named = {} /\ pc[c] = "scan"
  BY DEF IInv, TypeOK, Name, At
<1>2. CASE ahead = {} /\ call' = [call EXCEPT ![c].left = {}]
  <2>1. /\ \A d \in Calls \ {c} : call'[d] = call[d]
        /\ call'[c].named = call[c].named /\ call'[c].listed = call[c].listed
    BY <1>1, <1>2 DEF Locals
  <2> QED
    BY <1>1, <1>2, <2>1, ScanKeepsLimit DEF Name, history, Addresses
<1>3. CASE \E k \in ahead :
             /\ \A j \in ahead : k <= j
             /\ call' = [call EXCEPT ![c].left = {j \in @ : j > k}, ![c].named = {k}]
  <2>1. PICK k \in ahead :
             /\ \A j \in ahead : k <= j
             /\ call' = [call EXCEPT ![c].left = {j \in @ : j > k}, ![c].named = {k}]
    BY <1>3
  <2>2. /\ \A d \in Calls \ {c} : call'[d] = call[d]
        /\ call'[c].left = {j \in call[c].left : j > k} /\ call'[c].named = {k}
        /\ call'[c].listed = call[c].listed
    BY <1>1, <2>1 DEF Locals
  <2>3. \A j \in ahead : j > k \/ j = k
    BY <1>1, <2>1, ContentsAssumption DEF Locals
  <2> QED
    BY <1>1, <2>2, <2>3, ScanKeepsLimit DEF Name, history, Addresses
<1> QED
  BY <1>2, <1>3 DEF Name

LEMMA ListingOne ==
  ASSUME NEW files, NEW id, NEW k
  PROVE  Addresses(files) \cup {k} \subseteq Addresses(files \cup {<<id, k>>})
<1> DEFINE f == <<id, k>>
<1>1. f[2] = k
  OBVIOUS
<1> HIDE DEF f
<1>2. k \in Addresses(files \cup {f})
  BY <1>1 DEF Addresses
<1>3. Addresses(files) \subseteq Addresses(files \cup {f})
  BY DEF Addresses
<1> QED
  BY <1>2, <1>3 DEF f

LEMMA InspectLimit ==
  ASSUME IInv, LimitInv, NEW c \in Calls, Inspect(c)
  PROVE  LimitInv'
<1>1. call \in [Calls -> Locals(clock)] /\ pc[c] = "scan"
  BY DEF IInv, TypeOK, Inspect, At
<1>2. CASE Fail(c, "vanished")
  BY <1>2, EndKeepsLimit DEF Inspect, Fail
<1>3. CASE \E k \in call[c].named :
             /\ call' = [call EXCEPT ![c].listed = @ \cup {<<entry[k].id, k>>},
                                     ![c].total = @ + SizeOf[k], ![c].named = {}]
             /\ UNCHANGED <<mutation, pc, outcome, covers>>
  <2>1. PICK k \in call[c].named :
             call' = [call EXCEPT ![c].listed = @ \cup {<<entry[k].id, k>>},
                                  ![c].total = @ + SizeOf[k], ![c].named = {}]
    BY <1>3
  <2>2. call[c].named = {k}
    BY <1>1 DEF LimitInv, OneName
  <2>3. /\ \A d \in Calls \ {c} : call'[d] = call[d]
        /\ call'[c].left = call[c].left /\ call'[c].named = {}
        /\ call'[c].listed = call[c].listed \cup {<<entry[k].id, k>>}
    BY <1>1, <2>1 DEF Locals
  <2>4. Addresses(call[c].listed) \cup {k} \subseteq Addresses(call'[c].listed)
    <3>1. Addresses(call[c].listed) \cup {k}
            \subseteq Addresses(call[c].listed \cup {<<entry[k].id, k>>})
      BY ListingOne
    <3> QED
      BY <2>3, <3>1
  <2>5. (call[c].left \cup call[c].named \cup Addresses(call[c].listed)) \cap DOMAIN entry'
          \subseteq call'[c].left \cup call'[c].named \cup Addresses(call'[c].listed)
    BY <2>2, <2>3, <2>4
  <2>6. UNCHANGED <<pc, entry, unpruned, covers>>
    BY <1>3 DEF Inspect
  <2>7. \A i, j \in call'[c].named : i = j
    BY <2>3
  <2> QED
    BY <1>1, <2>3, <2>5, <2>6, <2>7, ScanKeepsLimit
<1> QED
  BY <1>2, <1>3 DEF Inspect

LEMMA EvictLimit ==
  ASSUME IInv, LimitInv, NEW c \in Calls, Evict(c)
  PROVE  LimitInv'
<1> DEFINE f == Oldest(Victims(c))
           k == f[2]
           rest == call[c].listed \ {f}
<1>1. call \in [Calls -> Locals(clock)] /\ pc[c] = "scan"
  BY DEF IInv, TypeOK, Evict, Scanned, At
<1>2. CASE Fail(c, "io") /\ UNCHANGED <<entry, mutated>>
  BY <1>2, EndKeepsLimit DEF Evict, Fail
<1>3. CASE /\ UNCHANGED <<mutation, pc, outcome, covers>>
           /\ DOMAIN entry' = DOMAIN entry \ {k}
           /\ \/ call' = [call EXCEPT ![c].listed = rest, ![c].total = @ - SizeOf[k]]
              \/ call' = [call EXCEPT ![c].listed = rest]
  <2>1. /\ \A d \in Calls \ {c} : call'[d] = call[d]
        /\ call'[c].left = call[c].left /\ call'[c].named = call[c].named
        /\ call'[c].listed = rest
    BY <1>1, <1>3 DEF Locals
  <2>2. Addresses(call[c].listed) \ {k} \subseteq Addresses(rest)
    BY DEF Addresses
  <2>3. \A i, j \in call[c].named : i = j
    BY <1>1 DEF LimitInv, OneName
  <2> HIDE DEF k, rest
  <2> QED
    BY <1>1, <1>3, <2>1, <2>2, <2>3, ScanKeepsLimit DEF Evict
<1>4. k \in DOMAIN entry /\ entry' = Restrict(entry, DOMAIN entry \ {k})
        => DOMAIN entry' = DOMAIN entry \ {k}
  BY DEF Restrict
<1>5. k \notin DOMAIN entry /\ UNCHANGED entry => DOMAIN entry' = DOMAIN entry \ {k}
  OBVIOUS
<1> QED
  BY <1>2, <1>3, <1>4, <1>5 DEF Evict

\* The end of a prune: nothing else may be unpruned for the limit to be claimed,
\* so either it held before or this prune has listed every entry.
LEMMA AnswerStoredLimit ==
  ASSUME IInv, LimitInv, NEW c \in Calls, AnswerStored(c)
  PROVE  LimitInv'
<1>0. /\ unpruned' = unpruned \ covers[c] /\ entry' = entry
      /\ Scanned(c) /\ Enough(c) /\ pc[c] = "scan"
      /\ call[c].left = {} /\ call[c].named = {}
  BY DEF AnswerStored, Scanned, At
<1>1. /\ pc'[c] = "end" /\ covers' = [covers EXCEPT ![c] = {}]
      /\ \A d \in Calls \ {c} : call'[d] = call[d] /\ pc'[d] = pc[d] /\ covers'[d] = covers[d]
      /\ covers'[c] = {}
  BY DEF AnswerStored, Fail, End, Goto, IInv, TypeOK
<1>2. ASSUME NEW d \in Calls PROVE Covered(d)'
  <2> SUFFICES ASSUME d # c, pc[d] = "scan", unpruned' \cap covers[d] # {}
               PROVE  DOMAIN entry \subseteq
                        call[d].left \cup call[d].named
                          \cup Addresses(call[d].listed) \cup (unpruned' \ covers[d])
    BY <1>0, <1>1 DEF Covered, Addresses
  <2>1. covers[c] \cap unpruned \subseteq covers[d]
    BY <1>0 DEF LimitInv, Nested
  <2>2. unpruned' \ covers[d] = unpruned \ covers[d] /\ unpruned \cap covers[d] # {}
    BY <1>0, <2>1
  <2> QED
    BY <2>2 DEF LimitInv, Covered
<1>3. \A d, e \in Calls : Nested(d, e)' /\ OneName(d)'
  <2> SUFFICES ASSUME NEW d \in Calls, NEW e \in Calls PROVE Nested(d, e)' /\ OneName(d)'
    OBVIOUS
  <2>1. Nested(d, e) /\ OneName(d)
    BY DEF LimitInv
  <2>2. OneName(d)'
    BY <1>1, <2>1 DEF OneName
  <2> QED
    BY <1>0, <1>1, <2>1, <2>2 DEF Nested
<1>4. LimitIsRestored'
  <2> SUFFICES ASSUME unpruned' = {} PROVE Fits(DOMAIN entry)
    BY <1>0 DEF LimitIsRestored, Fits, Bytes
  <2>1. CASE unpruned = {}
    BY <2>1 DEF LimitInv, LimitIsRestored
  <2>2. CASE unpruned # {}
    <3>1. unpruned \subseteq covers[c] /\ unpruned \cap covers[c] # {}
      BY <1>0, <2>2
    <3>2. DOMAIN entry \subseteq Addresses(call[c].listed)
      BY <1>0, <3>1 DEF LimitInv, Covered
    <3> QED
      BY <1>0, <3>2, EnoughFits
  <2> QED
    BY <2>1, <2>2
<1> QED
  BY <1>0, <1>2, <1>3, <1>4 DEF LimitInv

LEMMA NextLimit == IInv /\ LimitInv /\ [Next]_vars => LimitInv'
<1> SUFFICES ASSUME IInv, LimitInv, [Next]_vars PROVE LimitInv'
  OBVIOUS
<1>1. ASSUME NEW c \in Calls, Capture(c) \/ Load(c) \/ Confirm(c) \/ Lock(c)
      PROVE  LimitInv'
  <2>1. /\ UNCHANGED <<entry, unpruned, covers>>
        /\ \A d \in Calls \ {c} : call'[d] = call[d]
    BY <1>1 DEF Capture, Load, Confirm, Lock, history, IInv, TypeOK
  <2>2. \E l \in {"load", "compute", "confirm", "verify", "stage"} : Goto(c, l)
    BY <1>1 DEF Capture, Load, Confirm, Lock
  <2> QED
    BY <2>1, <2>2, GoKeepsLimit
<1>2. ASSUME NEW c \in Calls, AnswerHit(c) \/ Compute(c) \/ Stage(c)
      PROVE  LimitInv'
  <2>1. UNCHANGED <<entry, unpruned>>
    BY <1>2 DEF AnswerHit, Compute, Stage
  <2>2. CASE \E how, value : End(c, how, value)
    BY <2>1, <2>2, EndKeepsLimit
  <2>3. CASE UNCHANGED covers /\ \E l \in {"lock", "commit"} : Goto(c, l)
    <3>1. \A d \in Calls \ {c} : call'[d] = call[d]
      BY <1>2, <2>3 DEF AnswerHit, Compute, Stage, End, Fail, IInv, TypeOK
    <3> QED
      BY <2>1, <2>3, <3>1, GoKeepsLimit
  <2> QED
    BY <1>2, <2>2, <2>3 DEF AnswerHit, Compute, Stage, Fail
<1>3. ASSUME NEW p \in Procs, Crash(p) PROVE LimitInv'
  <2>1. UNCHANGED <<entry, unpruned>> /\ \A d \in Calls : covers'[d] \in {covers[d], {}}
    BY <1>3 DEF Crash
  <2>2. \A d \in Calls : pc'[d] = "scan" => pc[d] = "scan" /\ call'[d] = call[d]
    BY <1>3 DEF Crash
  <2> QED
    BY <2>1, <2>2, QuietKeepsLimit
<1>4. CASE Write \/ UNCHANGED vars
  BY <1>4, QuietKeepsLimit DEF Write, vars, history
<1>5. ASSUME NEW c \in Calls, Step(c) PROVE LimitInv'
  BY <1>1, <1>2, <1>5, CommitLimit, NameLimit, InspectLimit, EvictLimit, AnswerStoredLimit
     DEF Step
<1> QED
  BY <1>3, <1>4, <1>5 DEF Next

-----------------------------------------------------------------------------
(* Theorems. *)

\* The inductive invariant holds in every reachable state
\* (lookup_or_compute, store and prune).
THEOREM Invariance == Spec => []IInv
BY InitIInv, NextIInv, PTL DEF Spec

\* Every variable has its type in every reachable state.
THEOREM TypeCorrect == Spec => []TypeOK
<1>1. IInv => TypeOK
  BY DEF IInv
<1> QED
  BY <1>1, Invariance, PTL

\* A changed destination, a vanished entry and a cache above its limit are
\* reported only if another process stored or evicted something.
THEOREM ThreadsDoNotRace == Spec => []RacesNeedTwoProcesses
<1>1. IInv => RacesNeedTwoProcesses
  BY DEF IInv, Knows, Fair, Alone, RacesNeedTwoProcesses
<1> QED
  BY <1>1, Invariance, PTL

\* Once every stored entry was followed by a prune that saw it and went to its
\* end, the entries fit the largest limit, whatever the processes did to each
\* other's entries meanwhile.
THEOREM LimitHoldsAgain == Spec => []LimitIsRestored
<1>1. LimitInv => LimitIsRestored
  BY DEF LimitInv
<1>2. Spec => []LimitInv
  BY InitLimit, NextLimit, Invariance, PTL DEF Spec
<1> QED
  BY <1>1, <1>2, PTL

\* A step that ends one call ends no other with an answer.
LEMMA EndedByItself ==
  ASSUME IInv, NEW c \in Calls, NEW d \in Calls, Step(d), c # d
  PROVE  outcome'[c] = outcome[c]
<1>1. outcome \in [Calls -> [how : Ends, value : Contents \cup {Garbage}]]
  BY DEF IInv, TypeOK
<1>2. \A how, value : End(d, how, value) => outcome'[c] = outcome[c]
  BY <1>1 DEF End
<1> QED
  BY <1>2 DEF Step, Capture, Load, Confirm, AnswerHit, Compute, Lock, Stage, Commit,
              Name, Inspect, Evict, AnswerStored, Fail

\* Every answer is the analysis of what the source holds when it is given.
THEOREM AnswersAreCurrent == Spec => AnswersAreOfTheSource
<1>1. IInv /\ [Next]_vars =>
        [\A c \in Calls :
           pc[c] # "end" /\ outcome'[c].how \in Answers
             => outcome'[c].value = source[SourceOf[c]]]_vars
  <2> SUFFICES ASSUME IInv, Next, NEW c \in Calls, pc[c] # "end",
                      outcome'[c].how \in Answers
               PROVE  outcome'[c].value = source[SourceOf[c]]
    BY DEF vars, history
  <2>1. Knows(c) /\ outcome[c].how \notin Answers
    BY DEF IInv, Knows, CallKnows, Answers
  <2>2. outcome \in [Calls -> [how : Ends, value : Contents \cup {Garbage}]]
    BY DEF IInv, TypeOK
  <2>3. \A how, value :
          End(c, how, value) => outcome'[c].how = how /\ outcome'[c].value = value
    BY <2>2 DEF End
  <2>4. UNCHANGED outcome => FALSE
    BY <2>1
  <2>5. \A how : Fail(c, how) /\ how \notin Answers => FALSE
    BY <2>3, Zenon DEF Fail
  <2>6. {"source", "io", "changed", "vanished", "above", "died"} \cap Answers = {}
    BY DEF Answers
  <2>7. CASE AnswerHit(c)
    <3>1. call[c].value = call[c].pinned
      BY <2>1, <2>7 DEF AnswerHit, At, Knows, CallKnows
    <3> QED
      BY <2>3, <2>5, <2>6, <2>7, <3>1 DEF AnswerHit, SourceStands
  <2>8. CASE Compute(c)
    BY <2>3, <2>4, <2>5, <2>6, <2>8 DEF Compute, SourceStands
  <2>9. CASE AnswerStored(c)
    <3>1. call[c].value = call[c].pinned
      BY <2>1, <2>9 DEF AnswerStored, Scanned, At, Knows, CallKnows, Working
    <3> QED
      BY <2>3, <2>5, <2>6, <2>9, <3>1 DEF AnswerStored, SourceStands
  <2>10. CASE Capture(c) \/ Load(c) \/ Confirm(c) \/ Lock(c) \/ Name(c)
    BY <2>4, <2>10 DEF Capture, Load, Confirm, Lock, Name
  <2>11. CASE Stage(c) \/ Commit(c) \/ Inspect(c) \/ Evict(c)
    BY <2>4, <2>5, <2>6, <2>11 DEF Stage, Commit, Inspect, Evict
  <2>12. CASE \E d \in Calls \ {c} : Step(d)
    BY <2>1, <2>12, EndedByItself
  <2>13. CASE \E p \in Procs : Crash(p)
    BY <2>1, <2>6, <2>13 DEF Crash
  <2>14. CASE Write
    BY <2>4, <2>14 DEF Write
  <2>15. (\E d \in Calls : Step(d)) => Step(c) \/ \E d \in Calls \ {c} : Step(d)
    OBVIOUS
  <2> QED
    BY <2>7, <2>8, <2>9, <2>10, <2>11, <2>12, <2>13, <2>14, <2>15 DEF Next, Step
<1> QED
  BY <1>1, Invariance, PTL DEF Spec, AnswersAreOfTheSource

\* No call of a process evicts an entry that one of its calls has stored and
\* not yet returned: the mutex, and prune never removes its own newest entry.
THEOREM NewestStays == Spec => NewestIsKept
<1>1. IInv /\ [Next]_vars =>
        [\A c, d \in Calls :
           /\ Evict(c) /\ ProcOf[c] = ProcOf[d] /\ At(d, "scan")
           /\ call[d].pinned \in DOMAIN entry
           => call[d].pinned \in DOMAIN entry']_vars
  <2> SUFFICES ASSUME IInv, NEW c \in Calls, NEW d \in Calls,
                      Evict(c), ProcOf[c] = ProcOf[d], At(d, "scan"),
                      call[d].pinned \in DOMAIN entry
               PROVE  call[d].pinned \in DOMAIN entry'
    BY DEF vars
  <2>1. c = d
    BY DEF Evict, Scanned, At, IInv, Mutex, Working
  <2>2. Oldest(Victims(c))[2] # call[c].pinned
    BY VictimFacts DEF Evict
  <2>3. \/ entry' = Restrict(entry, DOMAIN entry \ {Oldest(Victims(c))[2]})
        \/ UNCHANGED entry
    BY DEF Evict
  <2> QED
    BY <2>1, <2>2, <2>3 DEF Restrict
<1> QED
  BY <1>1, Invariance, PTL DEF Spec, NewestIsKept

=============================================================================
