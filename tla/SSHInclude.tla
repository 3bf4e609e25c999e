----------------------------- MODULE SSHInclude -----------------------------
(***************************************************************************)
(* EnsureInclude (package sshconf): every devc process that provisions a   *)
(* workspace makes sure that ~/.ssh/config has devc's Include, puts it on  *)
(* top if it has to add it, and keeps a backup of what it found.  The      *)
(* user's editor saves the file now and then, in one step.                 *)
(*                                                                         *)
(* The file is the sequence of its parts: the Include block and the user's *)
(* text, which a version number stands for.  A file that is not there is   *)
(* the empty one.  Backups are named by the second they are written in.    *)
(***************************************************************************)
EXTENDS Naturals, Sequences, SequencesExt

CONSTANTS
  Procs,     \* devc processes
  Edits,     \* bound: versions of the user's text
  Seconds,   \* bound: seconds that pass
  Crashes,   \* processes may die
  Overlap,   \* processes run at the same time
  Editing    \* the user saves while they run

Include == 0
Texts == 1..Edits

VARIABLES
  config,   \* ~/.ssh/config
  backup,   \* backup[t]: the backup file of second t, <<>> when there is none
  clock,    \* the current second
  text,     \* the user's last version
  above,    \* the user's last version has something above the Include
  at,       \* at[p]: the next system call of p
  seen      \* seen[p]: existing, what p has read

vars == <<config, backup, clock, text, above, at, seen>>

TypeOK ==
  /\ config \in Seq(Texts \cup {Include}) /\ Len(config) <= 2
  /\ backup \in [0..Seconds -> Seq(Texts \cup {Include})]
  /\ clock \in 0..Seconds
  /\ text \in 0..Edits /\ above \in BOOLEAN
  /\ at \in [Procs -> {"idle", "create_backup", "write_backup", "truncate", "write"}]
  /\ seen \in [Procs -> Seq(Texts \cup {Include})]

Init ==
  /\ config = <<>>
  /\ backup = [t \in 0..Seconds |-> <<>>]
  /\ clock = 0 /\ text = 0 /\ above = FALSE
  /\ at = [p \in Procs |-> "idle"]
  /\ seen = [p \in Procs |-> <<>>]

Goto(p, call) == at' = [at EXCEPT ![p] = call]
Quiet == \A p \in Procs : at[p] = "idle"
HasInclude(file) == Contains(file, Include)

(* Mutant: an existing config counts as backed up when a backup is there.   *)
MutantReadOnce(p) ==
  /\ at[p] = "idle" /\ (Overlap \/ Quiet)
  /\ seen' = [seen EXCEPT ![p] = IF HasInclude(config) THEN <<>> ELSE config]
  /\ Goto(p, IF HasInclude(config) THEN "idle"
             ELSE IF config = <<>> \/ \E t \in 0..Seconds : backup[t] # <<>>
                  THEN "truncate" ELSE "create_backup")
  /\ UNCHANGED <<config, backup, clock, text, above>>

(* A config with the directive is left alone, an empty one not backed up.   *)
Read(p) ==
  /\ at[p] = "idle" /\ (Overlap \/ Quiet)
  /\ seen' = [seen EXCEPT ![p] = IF HasInclude(config) THEN <<>> ELSE config]
  /\ Goto(p, IF HasInclude(config) THEN "idle"
             ELSE IF config = <<>> THEN "truncate" ELSE "create_backup")
  /\ UNCHANGED <<config, backup, clock, text, above>>

CreateBackup(p, t) ==
  /\ at[p] = "create_backup"
  /\ backup' = [backup EXCEPT ![t] = <<>>]
  /\ Goto(p, "write_backup")
  /\ UNCHANGED <<config, clock, text, above, seen>>

WriteBackup(p, t) ==
  /\ at[p] = "write_backup"
  /\ backup' = [backup EXCEPT ![t] = seen[p]]
  /\ Goto(p, "truncate")
  /\ UNCHANGED <<config, clock, text, above, seen>>

Truncate(p) ==
  /\ at[p] = "truncate"
  /\ config' = <<>>
  /\ Goto(p, "write")
  /\ UNCHANGED <<backup, clock, text, above, seen>>

Finish(p) == Goto(p, "idle") /\ seen' = [seen EXCEPT ![p] = <<>>]

(* Mutant: the Include is appended.                                         *)
MutantWrite(p) ==
  /\ at[p] = "write"
  /\ config' = Append(seen[p], Include)
  /\ Finish(p)
  /\ UNCHANGED <<backup, clock, text, above>>

Write(p) ==
  /\ at[p] = "write"
  /\ config' = <<Include>> \o seen[p]
  /\ Finish(p)
  /\ UNCHANGED <<backup, clock, text, above>>

Crash(p) ==
  /\ Crashes /\ at[p] # "idle"
  /\ Finish(p)
  /\ UNCHANGED <<config, backup, clock, text, above>>

(* The user rewrites what is theirs, above devc's line or below it, or      *)
(* drops that line.                                                         *)
Edit ==
  /\ Editing \/ Quiet
  /\ text < Edits
  /\ text' = text + 1
  /\ config' \in {<<text + 1>>} \cup
                 (IF HasInclude(config) THEN {<<Include, text + 1>>, <<text + 1, Include>>}
                                        ELSE {})
  /\ above' = (config' = <<text + 1, Include>>)
  /\ UNCHANGED <<backup, clock, at, seen>>

Tick ==
  /\ clock < Seconds
  /\ clock' = clock + 1
  /\ UNCHANGED <<config, backup, text, above, at, seen>>

Next ==
  \/ \E p \in Procs : \/ Read(p) \/ Truncate(p) \/ Write(p) \/ Crash(p)
                      \/ CreateBackup(p, clock) \/ WriteBackup(p, clock)
  \/ Edit \/ Tick

Spec == Init /\ [][Next]_vars

----------------------------------------------------------------------------
(* Properties.                                                              *)

Versions(file) == ToSet(file) \ {Include}

(* The user's text is never lost, it is in the config or in a backup, also  *)
(* where a process dies between emptying the config and writing it.         *)
TextKept ==
  text # 0 =>
    \/ text \in Versions(config)
    \/ \E t \in 0..Seconds : text \in Versions(backup[t])

(* While nobody is at work the config holds the user's text.                *)
ConfigKept == Quiet /\ text # 0 => text \in Versions(config)

(* "Back up an existing, non-empty config before touching it": devc writes  *)
(* over the user's text only when a backup has it.                          *)
BackedUp ==
  [][\A n \in Texts :
       n \in Versions(config) /\ n \notin Versions(config') /\ text' = text
         => \E t \in 0..Seconds : n \in Versions(backup[t])]_vars
=============================================================================
