---------------------------- MODULE MCWorkspace ----------------------------
(* Small instances of Workspace.                                            *)
EXTENDS Workspace, TLC

Command(kind, flags) == [kind |-> kind, flags |-> flags]

Up == Command("up", {})
Recreate == Command("up", {"recreate"})
Connect == Command("ssh", {"start"})

MCHooks == <<"onCreate", "postCreate">>

OldConfig == [version |-> "v1", hooks |-> {"onCreate", "postCreate"}]
NewConfig == [version |-> "v2", hooks |-> {"onCreate", "postCreate"}]

OneConfig == {OldConfig}
Upgrade == {OldConfig, NewConfig}

Single == [compose |-> FALSE, narrow |-> FALSE, pulls |-> FALSE, scaled |-> FALSE,
           shutdown |-> "stop"]
Compose == [Single EXCEPT !.compose = TRUE]
Narrow == [Compose EXCEPT !.narrow = TRUE, !.shutdown = "none"]
Pulls == [Compose EXCEPT !.pulls = TRUE]
Scaled == [Compose EXCEPT !.scaled = TRUE]

OnlySingle == {Single}
OnlyNarrow == {Narrow}
BothKinds == {Single, Compose}
AllProjects == {Single, Compose, Narrow, Pulls, Scaled}

(* Everything but --skip-hooks and --rerun-hooks.                           *)
AllCommands ==
  {Up, Recreate, Connect, Command("up", {"others"}), Command("up", {"own"}),
   Command("stop", {}), Command("restart", {"all"}),
   Command("down", {"purge"}), Command("down", {"auto"}),
   Command("down", {"others"}), Command("down", {"purge", "others"}),
   Command("keys", {"rotate"})}

UpOnly == {Up}
UpAndRestart == {Up, Command("restart", {})}
UpAndConnect == {Up, Connect}
WithSkip == {Up, Command("up", {"skip"}), Command("up", {"recreate", "skip"})}
BringUps == {Up, Recreate, Connect}
BesideBringUps ==
  BringUps \cup {Command("up", {"recreate", "others"}), Command("down", {"others"})}

Bound(command, crash, failure, exit, edit) ==
  [command |-> command, crash |-> crash, failure |-> failure, exit |-> exit,
   edit |-> edit]

FaultBudget == Bound(3, 1, 1, 1, 1)
CalmThree == Bound(3, 0, 0, 0, 0)
CalmBudget == Bound(2, 0, 0, 0, 0)
CrashBudget == Bound(2, 1, 0, 0, 0)

Symmetry == Permutations(Procs)

(* The two configurations differ in the version of devc alone, and so it     *)
(* does not matter which one comes first.                                   *)
FaultInit == WsInit /\ conf = OldConfig

FaultSpec ==
  FaultInit /\ [][WsNext]_wsvars
  /\ \A p \in Procs : WF_wsvars(WsStep(p) /\ UNCHANGED project)
=============================================================================
