----------------------------- MODULE Lifecycle -----------------------------
(***************************************************************************)
(* One single-container workspace and the devc processes that work on it:  *)
(* `up` (with --recreate, --skip-hooks, --rerun-hooks), the ProxyCommand   *)
(* `ssh --stdio --start`, `stop`, `restart`, `down` (with --purge) and     *)
(* `keys --rotate`.  They share the container (found by name), state.json, *)
(* the keys and the ssh config file, and nothing but those: there is no    *)
(* lock.  One action is one runtime call or one access to a file; between  *)
(* any two a process may fail or be killed, and the container may exit.    *)
(*                                                                         *)
(* Abstractions.  A load or save of state.json is one step (StateFile), so *)
(* is the creation or rotation of the keys.  Container ids and key         *)
(* generations are numbers.  What a create hook does to the container is   *)
(* the fact that it ran, what the environment probe sees is the set of     *)
(* hooks that had run.  A postStartCommand is configured.  The image build, *)
(* initializeCommand, postAttachCommand and the git config sync change none *)
(* of the state below.                                                     *)
(***************************************************************************)
EXTENDS Naturals, FiniteSets, Sequences

CONSTANTS
  Procs,       \* devc processes
  CreateHooks, \* the create hooks in the order they run
  Configs,     \* devcontainer.json and devc as the user has them at a time
  Commands,    \* the command lines in use
  Budget,      \* how often each bounded event may happen
  MaxRuns,     \* the runs of a hook in a container are counted up to here
  MaxId,       \* the container ids
  NoCtr,       \* no container has the workspace's name
  NoProbe,     \* no cached environment probe
  NoVersion    \* no agent, or no version recorded

HookNames == {CreateHooks[i] : i \in DOMAIN CreateHooks}
Versions == {c.version : c \in Configs}

Flags == {"start", "recreate", "skip", "rerun", "purge", "rotate",
          "auto", "all", "own", "others"}    \* the last four: see Workspace
Kinds == {"up", "ssh", "stop", "restart", "down", "keys"}
Events == {"command", "crash", "failure", "exit", "edit"}

(* What State.ContainerID may hold beside a container's id: nothing, or the *)
(* container's name, which `up` falls back to.                              *)
Unset == 0
ByName == 1
FirstId == 2

ASSUME LifecycleAssumption ==
  /\ CreateHooks \in Seq(STRING)
  /\ \A i, j \in DOMAIN CreateHooks : CreateHooks[i] = CreateHooks[j] => i = j
  /\ Configs # {}
  /\ \A c \in Configs : c.hooks \subseteq HookNames
  /\ Commands \subseteq [kind : Kinds, flags : SUBSET Flags]
  /\ Budget \in [Events -> Nat]
  /\ MaxRuns \in Nat \ {0, 1}
  /\ MaxId \in Nat
  /\ \A seen \in SUBSET HookNames : NoProbe # seen
  /\ NoVersion \notin Versions

VARIABLES
  conf,      \* the configuration on disk and the devc version installed
  ctr,       \* the container that has the workspace's name
  nextId,    \* the id of the next container
  dir,       \* the state directory exists
  st,        \* state.json
  keys,      \* the generation of the key material, 0: none
  nextKey,   \* the next generation
  ssh,       \* the workspace's ssh config file exists
  pc,        \* pc[p]: the call p makes next
  cmd,       \* cmd[p]: the command line of p
  my,        \* my[p]: the configuration p has read
  cid,       \* cid[p]: containerID, the once-semantics key
  copy,      \* copy[p]: the State p has loaded
  env,       \* env[p]: the probe that p injects
  budget     \* how often each bounded event may still happen

host == <<dir, st, keys, nextKey, ssh>>
shared == <<conf, ctr, nextId, host>>
memory == <<cmd, my, cid, copy, env>>
private == <<pc, memory>>
vars == <<shared, private, budget>>

Probes == {NoProbe} \cup SUBSET HookNames

States == [cid : Nat, hooks : SUBSET HookNames, probe : Probes,
           version : Versions \cup {NoVersion}]
ZeroState == [cid |-> Unset, hooks |-> {}, probe |-> NoProbe, version |-> NoVersion]

Containers == [id : Nat \ {Unset, ByName}, running : BOOLEAN,
               ran : [HookNames -> 0..MaxRuns],   \* completed runs of each hook
               started : BOOLEAN,                 \* postStart ran since the boot
               agent : Versions \cup {NoVersion},
               secrets : Nat,                     \* generation of the keys inside
               env : Probes]

ASSUME NoCtrAssumption == NoCtr \notin Containers

NoCommand == [kind |-> "up", flags |-> {}]

Pcs == {"idle", "ok", "find", "start", "remove", "create", "persist",
        "persist_load", "persist_save", "resolve", "hooks", "run", "mark", "poststart", "final",
        "probe", "probing", "probe_save", "keys", "prepare", "copy", "secrets",
        "sshconf", "attach", "reattach", "serve", "stop", "stopping", "restart",
        "restarting", "down", "removing", "purge", "purge_ssh", "rotate"}

TypeOK ==
  /\ conf \in Configs
  /\ ctr \in {NoCtr} \cup Containers
  /\ ctr # NoCtr => ctr.id < nextId /\ ctr.secrets < nextKey
  /\ nextId \in Nat \ {Unset, ByName}
  /\ dir \in BOOLEAN
  /\ st \in States
  /\ keys \in Nat /\ nextKey \in Nat /\ keys < nextKey
  /\ ssh \in BOOLEAN
  /\ pc \in [Procs -> Pcs]
  /\ cmd \in [Procs -> [kind : Kinds, flags : SUBSET Flags]]
  /\ my \in [Procs -> Configs]
  /\ cid \in [Procs -> Nat]
  /\ copy \in [Procs -> States]
  /\ env \in [Procs -> Probes]
  /\ budget \in [Events -> Nat]

Init ==
  /\ conf \in Configs
  /\ ctr = NoCtr
  /\ nextId = FirstId
  /\ dir = FALSE
  /\ st = ZeroState
  /\ keys = 0 /\ nextKey = 1
  /\ ssh = FALSE
  /\ pc = [p \in Procs |-> "idle"]
  /\ cmd = [p \in Procs |-> NoCommand]
  /\ my = [p \in Procs |-> conf]
  /\ cid = [p \in Procs |-> Unset]
  /\ copy = [p \in Procs |-> ZeroState]
  /\ env = [p \in Procs |-> NoProbe]
  /\ budget = Budget

----------------------------------------------------------------------------
(* Helpers.                                                                 *)
Has(p, flag) == flag \in cmd[p].flags

Goto(p, label) == pc' = [pc EXCEPT ![p] = label]

Spend(event) ==
  /\ budget[event] > 0
  /\ budget' = [budget EXCEPT ![event] = @ - 1]

Present == ctr # NoCtr
Running == Present /\ ctr.running

(* The command is over, with an error or killed: its memory is lost.        *)
Quit(p) ==
  /\ Goto(p, "idle")
  /\ cid' = [cid EXCEPT ![p] = Unset]
  /\ copy' = [copy EXCEPT ![p] = ZeroState]
  /\ env' = [env EXCEPT ![p] = NoProbe]
  /\ cmd' = [cmd EXCEPT ![p] = NoCommand]
  /\ UNCHANGED my

(* A runtime call or a file access fails, and with it the command.          *)
Fail(p) == Quit(p) /\ UNCHANGED <<shared, budget>>

(* The configured create hooks that have no marker, and the first of them.  *)
Unmarked(p) ==
  {i \in DOMAIN CreateHooks : CreateHooks[i] \in my[p].hooks \ copy[p].hooks}
First(S) == CHOOSE i \in S : \A j \in S : i <= j
NextHook(p) == CreateHooks[First(Unmarked(p))]

(* Save: nothing is written when the directory is gone.                     *)
Save(s) == st' = IF dir THEN s ELSE st

----------------------------------------------------------------------------
(* What the user does beside running devc: edit devcontainer.json, install  *)
(* another devc; and the container's main process may exit, or the host     *)
(* restart.                                                                 *)
Edit ==
  /\ Spend("edit")
  /\ conf' \in Configs \ {conf}
  /\ UNCHANGED <<ctr, nextId, host, private>>

Exit ==
  /\ Running
  /\ Spend("exit")
  /\ ctr' = [ctr EXCEPT !.running = FALSE]
  /\ UNCHANGED <<conf, nextId, host, private>>

(* A command starts: setup reads the configuration.                         *)
Entry(c) ==
  CASE c.kind = "up"      -> "find"
    [] c.kind = "ssh"     -> "attach"
    [] c.kind = "stop"    -> "stop"
    [] c.kind = "restart" -> "restart"
    [] c.kind = "down"    -> "down"
    [] c.kind = "keys"    -> "rotate"

Begin(p, c) ==
  /\ pc[p] = "idle"
  /\ Spend("command")
  /\ cmd' = [cmd EXCEPT ![p] = c]
  /\ my' = [my EXCEPT ![p] = conf]
  /\ Goto(p, Entry(c))
  /\ UNCHANGED <<shared, cid, copy, env>>

(* A call of p fails, or p is killed, or the host goes down: at any point.  *)
Abort(p) ==
  /\ pc[p] \notin {"idle", "ok"}
  /\ Spend("crash")
  /\ Quit(p)
  /\ UNCHANGED shared

(* A command returns successfully.                                          *)
Return(p) == pc[p] = "ok" /\ Fail(p)

----------------------------------------------------------------------------
(* upSingle: find the container and decide what to do with it.  A container  *)
(* made from another configuration is kept, with a warning.                 *)
Decide(p) ==
  IF ~Present THEN "create"
  ELSE IF Has(p, "recreate") THEN "remove"
  ELSE IF ctr.running THEN "persist" ELSE "start"

Find(p) ==
  /\ pc[p] = "find"
  /\ Goto(p, Decide(p))
  /\ UNCHANGED <<shared, memory, budget>>

StartContainer(p) ==
  /\ pc[p] = "start"
  /\ \/ ~Present /\ Fail(p)
     \/ /\ Present
        /\ ctr' = IF ctr.running THEN ctr
                  ELSE [ctr EXCEPT !.running = TRUE, !.started = FALSE]
        /\ Goto(p, "persist")
        /\ UNCHANGED <<conf, nextId, host, memory, budget>>

(* Mutant: rm without --force refuses a running container.                  *)
MutantRemoveContainer(p) ==
  /\ pc[p] = "remove"
  /\ \/ Running /\ Fail(p)
     \/ /\ ~Running
        /\ ctr' = NoCtr
        /\ Goto(p, "create")
        /\ UNCHANGED <<conf, nextId, host, memory, budget>>

(* rm --force ignores an absent container.                                  *)
RemoveContainer(p) ==
  /\ pc[p] = "remove"
  /\ ctr' = NoCtr
  /\ Goto(p, "create")
  /\ UNCHANGED <<conf, nextId, host, memory, budget>>

FreshContainer(p) ==
  [id |-> nextId, running |-> TRUE,
   ran |-> [h \in HookNames |-> 0], started |-> FALSE,
   agent |-> NoVersion, secrets |-> 0, env |-> NoProbe]

(* createFresh: the runtime refuses a name that is in use.                  *)
CreateContainer(p) ==
  /\ pc[p] = "create"
  /\ \/ (Present \/ nextId > MaxId) /\ Fail(p)
     \/ /\ ~Present /\ nextId <= MaxId
        /\ ctr' = FreshContainer(p)
        /\ nextId' = nextId + 1
        /\ Goto(p, "persist")
        /\ UNCHANGED <<conf, host, memory, budget>>

(* persist: load, then save what was loaded with the workspace's name, folder *)
(* and config hash on top.  A failure is only warned about.                 *)
PersistLoad(p) ==
  /\ pc[p] = "persist"
  /\ dir' = TRUE
  /\ copy' = [copy EXCEPT ![p] = st]
  /\ Goto(p, "persist_save")
  /\ UNCHANGED <<conf, ctr, nextId, st, keys, nextKey, ssh, cmd, my, cid, env, budget>>

PersistSave(p) ==
  /\ pc[p] = "persist_save"
  /\ \/ Save(copy[p]) /\ UNCHANGED budget
     \/ Spend("failure") /\ UNCHANGED st
  /\ Goto(p, "resolve")
  /\ UNCHANGED <<conf, ctr, nextId, dir, keys, nextKey, ssh, memory>>

(* The id of the container just found or made; its name if it is gone, or   *)
(* the inspection fails.                                                    *)
Resolve(p) ==
  /\ pc[p] = "resolve"
  /\ \/ /\ cid' = [cid EXCEPT ![p] = IF Present THEN ctr.id ELSE ByName]
        /\ UNCHANGED budget
     \/ /\ Spend("failure")
        /\ cid' = [cid EXCEPT ![p] = ByName]
  /\ Goto(p, IF Has(p, "skip") THEN "probe" ELSE "hooks")
  /\ UNCHANGED <<shared, cmd, my, copy, env>>

----------------------------------------------------------------------------
(* Mutant: the identity of the container is not compared.                   *)
MutantHooksLoaded(p) ==
  [cid |-> cid[p], hooks |-> IF Has(p, "rerun") THEN {} ELSE st.hooks,
   probe |-> st.probe, version |-> st.version]

(* runLifecycleHooks: a new container identity resets the markers and the    *)
(* cached probe, --rerun-hooks only the markers.                            *)
HooksLoaded(p) ==
  [cid     |-> cid[p],
   hooks   |-> IF st.cid # cid[p] \/ Has(p, "rerun") THEN {} ELSE st.hooks,
   probe   |-> IF st.cid # cid[p] THEN NoProbe ELSE st.probe,
   version |-> st.version]

LoadHooks(p) ==
  /\ pc[p] = "hooks"
  /\ dir' = TRUE
  /\ copy' = [copy EXCEPT ![p] = HooksLoaded(p)]
  /\ Goto(p, "run")
  /\ UNCHANGED <<conf, ctr, nextId, st, keys, nextKey, ssh, cmd, my, cid, env, budget>>

(* The next create hook without a marker runs in whatever container has the *)
(* name now.                                                                *)
RunHook(p) ==
  /\ pc[p] = "run"
  /\ \/ /\ Unmarked(p) = {}
        /\ Goto(p, "poststart")
        /\ UNCHANGED <<shared, memory, budget>>
     \/ Unmarked(p) # {} /\ ~Running /\ Fail(p)
     \/ /\ Unmarked(p) # {} /\ Running
        /\ ctr' = [ctr EXCEPT !.ran[NextHook(p)] = IF @ < MaxRuns THEN @ + 1 ELSE @]
        /\ Goto(p, "mark")
        /\ UNCHANGED <<conf, nextId, host, memory, budget>>

(* The marker is saved at once; a failure to save it is ignored.            *)
Marked(p) == [copy[p] EXCEPT !.hooks = @ \cup {NextHook(p)}]

(* Mutant: the marker is kept in memory until the last hook has run.        *)
MutantMarkHook(p) ==
  /\ pc[p] = "mark"
  /\ copy' = [copy EXCEPT ![p] = Marked(p)]
  /\ Goto(p, "run")
  /\ UNCHANGED <<shared, cmd, my, cid, env, budget>>

MarkHook(p) ==
  /\ pc[p] = "mark"
  /\ copy' = [copy EXCEPT ![p] = Marked(p)]
  /\ \/ Save(Marked(p)) /\ UNCHANGED budget
     \/ Spend("failure") /\ UNCHANGED st
  /\ Goto(p, "run")
  /\ UNCHANGED <<conf, ctr, nextId, dir, keys, nextKey, ssh, cmd, my, cid, env>>

PostStart(p) ==
  /\ pc[p] = "poststart"
  /\ \/ ~Running /\ Fail(p)
     \/ /\ Running
        /\ ctr' = [ctr EXCEPT !.started = TRUE]
        /\ Goto(p, "final")
        /\ UNCHANGED <<conf, nextId, host, memory, budget>>

SaveHooks(p) ==
  /\ pc[p] = "final"
  /\ \/ ~dir /\ Fail(p)
     \/ /\ dir
        /\ st' = copy[p]
        /\ Goto(p, "probe")
        /\ UNCHANGED <<conf, ctr, nextId, dir, keys, nextKey, ssh, memory, budget>>

----------------------------------------------------------------------------
(* loadOrRunProbe.                                                          *)
Fresh(p, s) == s.probe # NoProbe /\ s.cid = cid[p] /\ s.version = my[p].version

(* Where the state cannot be read, `up` goes on without a probe.            *)
LoadProbe(p) ==
  /\ pc[p] = "probe"
  /\ \/ /\ dir' = TRUE
        /\ copy' = [copy EXCEPT ![p] = st]
        /\ \/ /\ Fresh(p, st)
              /\ env' = [env EXCEPT ![p] = st.probe]
              /\ Goto(p, "keys")
           \/ ~Fresh(p, st) /\ Goto(p, "probing") /\ UNCHANGED env
        /\ UNCHANGED budget
     \/ /\ Spend("failure")
        /\ dir' \in {dir, TRUE}
        /\ env' = [env EXCEPT ![p] = NoProbe]
        /\ Goto(p, "keys") /\ UNCHANGED copy
  /\ UNCHANGED <<conf, ctr, nextId, st, keys, nextKey, ssh, cmd, my, cid>>

(* Mutant: the probe's shell does not read the profile.                     *)
MutantSeen == IF Running THEN {} ELSE NoProbe

Seen == IF Running THEN {h \in HookNames : ctr.ran[h] > 0} ELSE NoProbe

(* A failed probe yields nothing and is not an error.                       *)
RunProbe(p) ==
  /\ pc[p] = "probing"
  /\ \E seen \in Probes :
       /\ \/ seen = Seen /\ UNCHANGED budget
          \/ seen = NoProbe /\ Spend("failure")
       /\ env' = [env EXCEPT ![p] = seen]
       /\ copy' = [copy EXCEPT ![p] = [@ EXCEPT !.probe = seen,
                                               !.version = my[p].version,
                                               !.cid = cid[p]]]
  /\ Goto(p, "probe_save")
  /\ UNCHANGED <<shared, cmd, my, cid>>

(* Mutant: the probe is filed under the container that has the name by now. *)
MutantSaveProbe(p) ==
  /\ pc[p] = "probe_save"
  /\ Save([copy[p] EXCEPT !.cid = IF Present THEN ctr.id ELSE @])
  /\ Goto(p, "keys")
  /\ UNCHANGED <<conf, ctr, nextId, dir, keys, nextKey, ssh, memory, budget>>

SaveProbe(p) ==
  /\ pc[p] = "probe_save"
  /\ \/ Save(copy[p]) /\ UNCHANGED budget
     \/ Spend("failure") /\ UNCHANGED st
  /\ Goto(p, "keys")
  /\ UNCHANGED <<conf, ctr, nextId, dir, keys, nextKey, ssh, memory>>

----------------------------------------------------------------------------
(* provision: the keys, the agent and its credentials, the ssh config.      *)
EnsureKeys(p) ==
  /\ pc[p] = "keys"
  /\ dir' = TRUE
  /\ IF keys = 0 THEN keys' = nextKey /\ nextKey' = nextKey + 1
                 ELSE UNCHANGED <<keys, nextKey>>
  /\ Goto(p, "prepare")
  /\ UNCHANGED <<conf, ctr, nextId, st, ssh, memory, budget>>

(* Mutant: any agent will do.                                               *)
MutantPrepareAgent(p) ==
  /\ pc[p] = "prepare"
  /\ \/ ~Running /\ Fail(p)
     \/ /\ Running
        /\ Goto(p, IF ctr.agent # NoVersion THEN "secrets" ELSE "copy")
        /\ UNCHANGED <<shared, memory, budget>>

(* prepareScript reports the version of the agent inside.                   *)
PrepareAgent(p) ==
  /\ pc[p] = "prepare"
  /\ \/ ~Running /\ Fail(p)
     \/ /\ Running
        /\ Goto(p, IF ctr.agent = my[p].version THEN "secrets" ELSE "copy")
        /\ UNCHANGED <<shared, memory, budget>>

(* cp works on a stopped container too.                                     *)
CopyAgent(p) ==
  /\ pc[p] = "copy"
  /\ \/ ~Present /\ Fail(p)
     \/ /\ Present
        /\ ctr' = [ctr EXCEPT !.agent = my[p].version]
        /\ Goto(p, "secrets")
        /\ UNCHANGED <<conf, nextId, host, memory, budget>>

(* secretsScript: the keys are read now; `chmod agent` needs the agent.     *)
WriteSecrets(p) ==
  LET possible == Running /\ keys # 0 /\ ctr.agent # NoVersion
  IN  /\ pc[p] = "secrets"
      /\ \/ ~possible /\ Fail(p)
         \/ /\ possible
            /\ ctr' = [ctr EXCEPT !.secrets = keys, !.env = env[p]]
            /\ Goto(p, "sshconf")
            /\ UNCHANGED <<conf, nextId, host, memory, budget>>

WriteSSHConfig(p) ==
  /\ pc[p] = "sshconf"
  /\ ssh' = TRUE
  /\ Goto(p, IF cmd[p].kind = "ssh" THEN "reattach" ELSE "ok")
  /\ UNCHANGED <<conf, ctr, nextId, dir, st, keys, nextKey, memory, budget>>

----------------------------------------------------------------------------
(* ssh --stdio: attachRef, ensureUp when it is not running, attachRef again. *)
Attach(p) ==
  /\ pc[p] = "attach"
  /\ \/ ~Running /\ ~Has(p, "start") /\ Fail(p)
     \/ /\ Running \/ Has(p, "start")
        /\ Goto(p, IF Running THEN "serve" ELSE "find")
        /\ UNCHANGED <<shared, memory, budget>>

Reattach(p) ==
  /\ pc[p] = "reattach"
  /\ \/ ~Running /\ Fail(p)
     \/ /\ Running
        /\ Goto(p, "serve")
        /\ UNCHANGED <<shared, memory, budget>>

(* The agent is executed over the pipe; the session is up once it starts.   *)
Serve(p) ==
  LET possible == Running /\ ctr.agent # NoVersion /\ ctr.secrets # 0
  IN  /\ pc[p] = "serve"
      /\ \/ ~possible /\ Fail(p)
         \/ /\ possible
            /\ Goto(p, "ok")
            /\ UNCHANGED <<shared, memory, budget>>

----------------------------------------------------------------------------
(* stop, restart, down, keys --rotate.                                      *)
StopFind(p) ==
  /\ pc[p] = "stop"
  /\ Goto(p, IF Running THEN "stopping" ELSE "ok")
  /\ UNCHANGED <<shared, memory, budget>>

Stop(p) ==
  /\ pc[p] = "stopping"
  /\ \/ ~Present /\ Fail(p)
     \/ /\ Present
        /\ ctr' = [ctr EXCEPT !.running = FALSE]
        /\ Goto(p, "ok")
        /\ UNCHANGED <<conf, nextId, host, memory, budget>>

RestartFind(p) ==
  /\ pc[p] = "restart"
  /\ \/ ~Present /\ Fail(p)
     \/ /\ Present
        /\ Goto(p, "restarting")
        /\ UNCHANGED <<shared, memory, budget>>

Restart(p) ==
  /\ pc[p] = "restarting"
  /\ \/ ~Present /\ Fail(p)
     \/ /\ Present
        /\ ctr' = [ctr EXCEPT !.running = TRUE, !.started = FALSE]
        /\ Goto(p, "ok")
        /\ UNCHANGED <<conf, nextId, host, memory, budget>>

Removed(p) == IF Has(p, "purge") THEN "purge" ELSE "ok"

DownFind(p) ==
  /\ pc[p] = "down"
  /\ Goto(p, IF Present THEN "removing" ELSE Removed(p))
  /\ UNCHANGED <<shared, memory, budget>>

DownRemove(p) ==
  /\ pc[p] = "removing"
  /\ ctr' = NoCtr
  /\ Goto(p, Removed(p))
  /\ UNCHANGED <<conf, nextId, host, memory, budget>>

(* The state directory holds state.json and the keys; a failure to remove   *)
(* it is only warned about.                                                 *)
PurgeState(p) ==
  /\ pc[p] = "purge"
  /\ \/ dir' = FALSE /\ st' = ZeroState /\ keys' = 0 /\ UNCHANGED budget
     \/ Spend("failure") /\ UNCHANGED <<dir, st, keys>>
  /\ Goto(p, "purge_ssh")
  /\ UNCHANGED <<conf, ctr, nextId, nextKey, ssh, memory>>

PurgeSSHConfig(p) ==
  /\ pc[p] = "purge_ssh"
  /\ ssh' = FALSE
  /\ Goto(p, "ok")
  /\ UNCHANGED <<conf, ctr, nextId, dir, st, keys, nextKey, memory, budget>>

(* Mutant: the same key generation is handed out again.                     *)
MutantRotateKeys(p) ==
  /\ pc[p] = "rotate"
  /\ dir' = TRUE
  /\ keys' = nextKey
  /\ Goto(p, "ok")
  /\ UNCHANGED <<conf, ctr, nextId, st, nextKey, ssh, memory, budget>>

RotateKeys(p) ==
  /\ pc[p] = "rotate"
  /\ dir' = TRUE
  /\ IF Has(p, "rotate") \/ keys = 0
     THEN keys' = nextKey /\ nextKey' = nextKey + 1
     ELSE UNCHANGED <<keys, nextKey>>
  /\ Goto(p, "ok")
  /\ UNCHANGED <<conf, ctr, nextId, st, ssh, memory, budget>>

----------------------------------------------------------------------------
UpStep(p) ==
  \/ Find(p) \/ StartContainer(p) \/ RemoveContainer(p) \/ CreateContainer(p)
  \/ PersistLoad(p) \/ PersistSave(p) \/ Resolve(p)

HookStep(p) ==
  \/ LoadHooks(p) \/ RunHook(p) \/ MarkHook(p) \/ PostStart(p) \/ SaveHooks(p)
  \/ LoadProbe(p) \/ RunProbe(p) \/ SaveProbe(p)

ProvisionStep(p) ==
  \/ EnsureKeys(p) \/ PrepareAgent(p) \/ CopyAgent(p) \/ WriteSecrets(p)
  \/ WriteSSHConfig(p)

OtherStep(p) ==
  \/ Attach(p) \/ Reattach(p) \/ Serve(p)
  \/ StopFind(p) \/ Stop(p) \/ RestartFind(p) \/ Restart(p)
  \/ DownFind(p) \/ DownRemove(p) \/ PurgeState(p) \/ PurgeSSHConfig(p)
  \/ RotateKeys(p) \/ Return(p)

(* What a running devc does next.                                           *)
Step(p) == UpStep(p) \/ HookStep(p) \/ ProvisionStep(p) \/ OtherStep(p)

Next ==
  \/ \E p \in Procs : Step(p) \/ Abort(p) \/ \E c \in Commands : Begin(p, c)
  \/ Edit
  \/ Exit

Spec == Init /\ [][Next]_vars

(* A devc that has started is scheduled until it ends: its runtime calls and *)
(* hooks are assumed to return.                                             *)
FairSpec == Spec /\ \A p \in Procs : WF_vars(Step(p))

----------------------------------------------------------------------------
(* Properties.                                                              *)
Used(event) == Budget[event] - budget[event]

Ran == {h \in HookNames : ctr.ran[h] > 0}

(* A create-hook marker that state.json holds for the present container is  *)
(* true: the hook has run in it.  A false one means that `up` will never    *)
(* run the hook there (hooks.go: a new container identity resets the        *)
(* markers "so both re-run against the fresh container").                   *)
MarkersTruthful ==
  Present /\ st.cid = ctr.id => st.hooks \subseteq Ran

(* The environment cached for the present container was probed after every  *)
(* create hook that has run there (up.go: "create/start hooks run before we *)
(* probe env, so postCreate's changes ... are reflected in the probe").     *)
ProbeReflectsHooks ==
  Present /\ st.cid = ctr.id /\ st.probe # NoProbe => Ran \subseteq st.probe

(* onCreate, updateContent and postCreate run once per container identity.  *)
CreateHooksOnce == Present => \A h \in HookNames : ctr.ran[h] <= 1

(* How often a create hook has been repeated.                               *)
Repetitions == {r \in HookNames \X (2..MaxRuns) : ctr.ran[r[1]] >= r[2]}

(* Nothing is half done: every configured create hook has run and is        *)
(* recorded under the identity of p's `up`, the container holds this devc's *)
(* agent, the host's current keys and the environment of this `up`, and the *)
(* ssh config is there.                                                     *)
Complete(p) ==
  /\ Present
  /\ my[p].hooks \subseteq Ran \cap st.hooks
  /\ st.cid = cid[p]
  /\ ctr.agent = my[p].version
  /\ ctr.secrets = keys
  /\ ctr.env = env[p]
  /\ ssh

(* After a successful `up` that did not skip the hooks, every configured     *)
(* create hook has run in the container it brought up.                      *)
UpRanCreateHooks ==
  \A p \in Procs :
    pc[p] = "ok" /\ cmd[p].kind = "up" /\ ~Has(p, "skip") /\ Present
      => my[p].hooks \subseteq Ran

(* The environment that a successful `up` gives to sessions was probed after *)
(* every create hook that has run.                                          *)
EnvReflectsHooks ==
  \A p \in Procs :
    pc[p] = "ok" /\ cmd[p].kind = "up" /\ Present /\ env[p] # NoProbe
      => Ran \subseteq env[p]

(* When every command has ended and none was disturbed, at least one of the *)
(* concurrent bring-ups won and finished: the container runs, all hooks ran *)
(* and it can be reached with the host's keys.                              *)
AllIdle == \A p \in Procs : pc[p] = "idle"

SomeoneFinished ==
  AllIdle /\ Used("command") > 0 =>
    /\ Running
    /\ ctr.started
    /\ conf.hooks \subseteq Ran
    /\ ctr.agent # NoVersion
    /\ ctr.secrets = keys
    /\ ssh

(* `ssh --stdio --start` ensures the workspace is up before it connects:    *)
(* whoever is about to execute the agent finds it installed.                *)
SessionFindsAgent ==
  \A p \in Procs : pc[p] = "serve" /\ Running => ctr.agent # NoVersion

(* postStart runs on every start: no command leaves a running container     *)
(* whose postStart did not run since it booted.                             *)
PostStartOnEveryStart == AllIdle /\ Running => ctr.started

(* Faults have ceased.                                                      *)
Undisturbed == budget["crash"] = 0 /\ budget["exit"] = 0
=============================================================================
