---------------------------- MODULE WriteBehind ----------------------------
(***************************************************************************)
(* What the store promises the state in front of it                        *)
(* (crates/skysaga-store/src/persistence.rs, module documentation).        *)
(*                                                                         *)
(* `now' is what the program believes, `stored' is what a restart would    *)
(* find.  The store follows `now' through the very states it went through, *)
(* in that order and without skipping one, some way behind; a crash sets   *)
(* the program back to where the store has got to.                         *)
(***************************************************************************)
EXTENDS Sequences

CONSTANT States

VARIABLES now, behind, stored

vars == <<now, behind, stored>>

Init ==
  /\ now \in States
  /\ stored = now
  /\ behind = <<>>

Change ==
  /\ now' \in States
  /\ behind' = Append(behind, now')
  /\ UNCHANGED stored

Persist ==
  /\ behind # <<>>
  /\ stored' = Head(behind)
  /\ behind' = Tail(behind)
  /\ UNCHANGED now

Crash ==
  /\ now' = stored
  /\ behind' = <<>>
  /\ UNCHANGED stored

Next == Change \/ Persist \/ Crash

Spec == Init /\ [][Next]_vars /\ WF_vars(Persist)
=============================================================================
