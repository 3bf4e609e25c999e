------------------------------ MODULE MCRename ------------------------------
(* A small instance of Rename.                                              *)
EXTENDS Rename, TLC

(* Two configs in one folder, one of them compose, and the earlier work    *)
(* of a devc that did not record its config, in another checkout.           *)
MCConfigs == {"single", "compose", "there"}
MCFolders == [c \in MCConfigs |-> IF c = "there" THEN "g" ELSE "f"]
MCNames == [c \in MCConfigs |-> CASE c = "single" -> {"a"}
                                   [] c = "compose" -> {"c", "d"}
                                   [] c = "there" -> {"a", "b"}]
OldDevc == {[name |-> "a", folder |-> "g"]}

Faults(crash, remove, fail, overlap) ==
  [crash |-> crash, remove |-> remove, fail |-> fail, overlap |-> overlap]

(* Faults of every kind in one process after the other, or two at a time    *)
(* and a crash.                                                             *)
FaultBudgets == {Faults(1, 1, 1, 0), Faults(1, 0, 0, 1)}

Symmetry == Permutations(Procs)
=============================================================================
