---------------------------- MODULE Publication -----------------------------
(***************************************************************************)
(* What a generation (src/src/generation.rs) promises to a batch job, a    *)
(* multi-delivery run and an operator: a set of destinations is replaced   *)
(* as a whole or not at all, whatever fails or dies on the way, except for *)
(* destinations that a competitor changes meanwhile.  Generation, with its *)
(* stages, backups, renames and program locations, implements this module; *)
(* Batch is built on it.                                                   *)
(*                                                                         *)
(* Files are named as in Generation: "old" and "new" are the recorded      *)
(* preimage and the prepared file of the current journal.  "copy" is a     *)
(* competitor's file with the bytes of the prepared one.                   *)
(***************************************************************************)
EXTENDS Naturals

CONSTANT Members    \* destinations of the generation

VARIABLES
  phase,      \* phase of the durable journal
  dest,       \* what each destination holds
  preimage,   \* members whose destination existed when it was prepared
  private,    \* a stage or backup of the journal may exist
  touched     \* members whose destination a competitor has changed since

vars == <<phase, dest, preimage, private, touched>>

-----------------------------------------------------------------------------

Phases == {"absent", "Ready", "Publishing", "Committed", "RolledBack"}

Unfinished == {"Ready", "Publishing"}

Foreign == {"none", "alien", "copy"}

Files == Foreign \cup {"old", "new"}

PreimageOf(m) == IF m \in preimage THEN "old" ELSE "none"

IsPreimage == \A m \in Members : dest[m] = PreimageOf(m)

IsNew == \A m \in Members : dest[m] = "new"

Init ==
  /\ phase = "absent"
  /\ dest \in [Members -> {"none", "old"}]
  /\ preimage = {}
  /\ private = FALSE
  /\ touched = {}

-----------------------------------------------------------------------------
(* Journal steps. *)

\* Whatever the destinations hold becomes the preimage.  Nothing that an
\* earlier journal still answers for may be left.
Prepare ==
  /\ phase \notin Unfinished
  /\ ~private
  /\ phase' = "Ready"
  /\ dest' = [m \in Members |-> IF dest[m] = "none" THEN "none" ELSE "old"]
  /\ preimage' = {m \in Members : dest[m] # "none"}
  /\ private' = TRUE
  /\ touched' = {}

Begin ==
  /\ phase = "Ready"
  /\ phase' = "Publishing"
  /\ UNCHANGED <<dest, preimage, private, touched>>

SaveCommitted ==
  /\ phase = "Publishing"
  /\ \A m \in Members \ touched : dest[m] = "new"
  /\ phase' = "Committed"
  /\ private' \in BOOLEAN
  /\ UNCHANGED <<dest, preimage, touched>>

Clean ==
  /\ phase = "Committed"
  /\ private
  /\ private' = FALSE
  /\ UNCHANGED <<phase, dest, preimage, touched>>

SaveRolledBack ==
  /\ phase = "Publishing"
  /\ \A m \in Members \ touched : dest[m] = PreimageOf(m)
  /\ phase' = "RolledBack"
  /\ private' = FALSE
  /\ UNCHANGED <<dest, preimage, touched>>

-----------------------------------------------------------------------------
(* Moves of files while the journal says Publishing. *)

Move(m, from, to) ==
  /\ phase = "Publishing"
  /\ m \notin touched
  /\ dest[m] = from
  /\ dest' = [dest EXCEPT ![m] = to]
  /\ UNCHANGED <<phase, preimage, private, touched>>

BackUp(m) == m \in preimage /\ Move(m, "old", "none")

Place(m) == Move(m, "none", "new")

Take(m) == Move(m, "new", "none")

Restore(m) == m \in preimage /\ Move(m, "none", "old")

\* Of a destination that somebody else has changed nothing is promised here.
Displace(m) ==
  /\ phase = "Publishing"
  /\ m \in touched
  /\ \E f \in Files \ {dest[m]} : dest' = [dest EXCEPT ![m] = f]
  /\ UNCHANGED <<phase, preimage, private, touched>>

-----------------------------------------------------------------------------

\* Another program replaces or removes a destination.
Compete(m) ==
  /\ \E f \in Foreign \ {dest[m]} : dest' = [dest EXCEPT ![m] = f]
  /\ touched' = touched \cup {m}
  /\ UNCHANGED <<phase, preimage, private>>

Next ==
  \/ Prepare \/ Begin \/ SaveCommitted \/ Clean \/ SaveRolledBack
  \/ \E m \in Members :
       BackUp(m) \/ Place(m) \/ Take(m) \/ Restore(m) \/ Displace(m) \/ Compete(m)

Spec == Init /\ [][Next]_vars

-----------------------------------------------------------------------------
(* What follows for the destinations. *)

Typed ==
  /\ phase \in Phases
  /\ dest \in [Members -> Files]
  /\ preimage \subseteq Members
  /\ touched \subseteq Members

\* All or nothing: of the destinations that no competitor has changed, all are
\* the prepared files or all are what was there before, and while the journal
\* says Publishing none is anything else.
AllOrNothing ==
  \A m \in Members \ touched :
    /\ phase \in {"Ready", "RolledBack"} => dest[m] = PreimageOf(m)
    /\ phase = "Publishing" => dest[m] \in {PreimageOf(m), "none", "new"}
    /\ phase = "Committed" => dest[m] = "new"

=============================================================================
