-------------------------- MODULE BackupProperties --------------------------
(* What must hold of the state of the broker and of its copies.             *)
EXTENDS StateBackup

Contained(state) == \A f \in Refs[state.base] : state.file[f] \in {0, state.base}
State == [base |-> base, file |-> file]

\* A service at work has a base, its journal and its files of one and the same version,
\* whatever restorations were cut, undone or repeated before; a published copy is whole;
\* and a restoration that fails and is undone leaves what it found.
StateIsOne ==
  /\ Up => journal \in {0, base} /\ Contained(State)
  /\ \A copy \in backups : Whole(copy)
  /\ \A j \in Jobs : JobAt(j, "undone") /\ losses = 0 => State = job[j].before
=============================================================================
