--------------------------- MODULE AtomicRegistry ---------------------------
(***************************************************************************)
(* What the registry store promises of the file: applies take effect one     *)
(* after the other, each merged into what the one before it left, and only    *)
(* if the result passes validation; short of that, a crash or a disk error    *)
(* may damage the file, but then with a beginning of what was being written   *)
(* and nothing else.                                                         *)
(***************************************************************************)
EXTENDS RegistryData

CONSTANT Menu        \* the patches that operators send

VARIABLE disk

AtomicInit == disk \in Registries /\ Valid(disk)

Applied(patch) ==
  /\ Passes(disk, patch)
  /\ disk' = Merge(disk, patch)

Damaged(patch) ==
  /\ Passes(disk, patch)
  /\ disk' \in Torn(disk) \cup Torn(Merge(disk, patch))

(* An apply that finds the file as it would leave it is no step.             *)
AtomicNext ==
  /\ disk' # disk
  /\ \E patch \in Menu : Applied(patch) \/ Damaged(patch)

AtomicSpec == AtomicInit /\ [][AtomicNext]_disk
=============================================================================
