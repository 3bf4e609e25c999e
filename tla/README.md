# devc in TLA+

Formal models of devc, a devcontainer runner: modules that follow the code
action by action, TLC configurations that check them on small instances, and
theorems that TLAPS proves for every instance. Paths are relative to the
repository; a module's `PROJECT.json` entry in `map` names the lines that each
definition translates.

devc has no daemon and no lock. Every command is a process of its own, several
may run at once, each may be killed between any two system calls, and all they
share is the file system and the container runtime. Inside the container a
second devc, the agent, serves ssh over a pipe. Those are the two places where
the difficulty is, and where most of the models are.

## 1. The system

| Part | State | Operations | Hard about it | Correct when |
|---|---|---|---|---|
| `state/` | one directory per workspace, `state.json`, a temporary file | `For`, `Load`, `Save`, `Remove` | several writers, crashes | a reader sees one whole document; a save happens or not |
| `cmd/devc` up, hooks, session_env | container, `state.json` (identity, hook markers, cached probe) | `upSingle`, `runLifecycleHooks`, `loadOrRunProbe`, `postUp` | no lock, once-semantics over crashes and replaced containers, stale caches | a marker or probe on file is true of the present container; up finishes what others left |
| `cmd/devc` lifecycle, ssh, provision; `container/` | as above, agent and keys in the container, ssh block | stop, restart, down, purge, `ssh --stdio --start`, `Inject` | partial bring-ups, find-then-act | `up` repairs what is missing; when it returns, ssh gets in |
| `container/` compose | the containers of the project's services | `upCompose`, `ComposeTargets`, `ComposeCovers`, `FindComposeService` | commands that name services, other services that depend on the workspace's | a command for other services leaves the workspace alone |
| `keys/` | five files | `Ensure`, `Rotate` | half-written pairs, rotation against use | both ends hold one identity; it is stable |
| `agent/` session, server | per session: queue, command slot, pty, size, environment; per connection: context | request loop, `spawn`, `runWithPTY`, `applyResizes`, `exit`, teardown | one mux for all channels, goroutines, processes that outlive others | nothing stalls; the command sees the earlier requests; its end is reported |
| `agent/` agentfwd | one socket per connection | `ensureAgentForward`, `closeAgentForward` | shared by sessions, opened and closed at any time | good while the connection is up, gone after it |
| `agent/` forward | map of listeners | `start`, `cancel`, `accept`, `forward`, `closeAll` | accept loops against cancel and teardown | a cancelled port is free; a listener is tracked |
| `agent/` bridge | two copying goroutines per connection | `handleDirectTCPIP`, `forward`, `forwardAgentConn`, `bridge` | half-closes, resets, loss of the connection under way | two independent streams; over when both have ended |
| `hooks/` | one error, one context | `Run`, `runNamed` | entries fail together | the cause is reported, nothing is left running |
| `sshconf/` include | the user's `~/.ssh/config`, backups | `EnsureInclude` | a file the user edits; truncate, then write | no text is lost; the Include is there, above what devc found |
| `config/` | one configuration | `LoadSpec`, `Substitute`, `Resolve` | order of expansion, three passes, defaults filled in late | fields agree with the spec; what is left is rejected |
| `cmd/devc` rename, list | the traces of all workspaces | `retireRenamed` | identity embeds the name; failures keep traces; other configs in the folder | earlier names retired, others kept |
| `runtime/` compose | one cache entry per runtime | `DetectCompose` | binaries change while they are probed | an entry fits what it was recorded for |

How they interact: `up` calls `Save`/`Load` (whole documents, from different
steps of one command), the runtime, `keys.Ensure`, `Inject` and
`EnsureInclude` in that order; ssh's ProxyCommand calls `up` and executes the
agent; the agent reads what `Inject` wrote. A compose bring-up hands the
containers to compose and goes on from `FindComposeService` as the other kind
does. Nothing calls back. Sharing is by
name: the container's name, file names, the workspace id.

`PROJECT.json` lists every part with what is and is not modelled, and every
hazard at the line where it bites.

## 2. The modules

Each component `M` has its `MCM` with the small instances. A `Mutant...`
operator beside an action is that action with a plausible bug; no specification
uses it, and each property is seen to fail when it stands in for its original.

* **StateStore / StateFile / StateFileProofs** (`state/state.go`). `StateFile`
  has one action per system call: names point to inodes, an open descriptor
  keeps its inode, a written document may leave the tail of a longer one. A
  process dies anywhere. `Overlap` says whether two saves may overlap.
  `StateStore` is what callers assume: a call is invoked, takes effect in one
  step, and returns. `StateFile!Store` is the refinement: a save takes effect
  at the rename, a load at the open, a removal when it unlinks.
* **Lifecycle** (its proofs are in WorkspaceProofs; `cmd/devc` up, hooks, session_env, provision,
  lifecycle, ssh, keys; `container/`). One single-container workspace, any
  number of devc processes. One action per runtime call or file access; `copy[p]`
  is the `State` that p loaded, so that lost updates are there. `ctr.ran` counts
  the runs of each hook in the present container; the probe sees the hooks that
  had run. Environment: `Edit` (configuration or version), `Exit` of the
  container, `Abort` of a process, and failures that the code swallows, among
  them those of reading state.json: up goes on without what it could not read.
  A load or save is one step here: the composition with `StateFile` rests on
  `SerialFilesImplementStore`, and so on saves that do not overlap.
* **Workspace / WorkspaceProofs** (`upCompose`, `composeServices`,
  `container/compose.go`, the compose halves of `lifecycle.go` and `ssh.go`).
  EXTENDS Lifecycle by `project`, which says whether the workspace is a compose
  service and what its project is like, and by the flags `own` and `others`, the
  services a command names. A step of a single-container workspace is
  `Lifecycle!Step`; compose has steps of its own up to the container's id and
  then the same `postUp`, which fails once that container is gone. Compose is
  external: it makes, starts and replaces the targets and what they depend on.
* **AgentSession / AgentSessionProofs** (`agent/server.go`, `session.go`, `agentfwd.go`, `sftp.go`).
  One connection: mux loop, bounded queue per channel, request loop, command
  goroutine, pty, applier, child and descendants, proxy socket, teardown, exit
  of the agent. External: x/crypto/ssh's delivery with a blocking send, and
  what a child does. `unread[s]` says that what it has written is more than the
  client's window takes: the copy to the channel, and with it the report of the
  command's end, waits for the client to read (`Blocked`), which it need not do.
* **RemoteForwards / RemoteForwardsProofs** (`agent/forward.go`). The request goroutine, one accept
  loop per listener, which ends for good when an `Accept` fails (`AcceptFails`),
  one goroutine per connection, `closeAll`.
* **Stream / Bridge / BridgeProofs** (`agent/forward.go`, `agentfwd.go`). One
  forwarded connection: dial or open, accept, the two `io.Copy`, `CloseWrite`,
  `wg.Wait`, the deferred closes, the exit of the agent. A direction has the
  name of the side that sends; units are counted, for nothing reorders them.
  `Stream` is what the two ends are promised, and `Bridge!S` the refinement.
  External: buffers, half-closes, resets and losses of the two ends.
* **KeyFiles** (`keys/keys.go`, `container/cp.go`, `cmd/devc/keys.go`). Five
  files with create and write apart, the rotation's four removals, what
  provision reads and what reaches the container, and the calls of `Ensure` by
  `devc keys` and `devc ssh-config`. A stream of secrets that is cut leaves a torn
  file; the script exits 0 on a short read, so up may fail or not notice
  (`InstallCut`, `last.cut`).
* **NamedHooks / BringUpProofs** (`hooks/run.go`). Goroutines, `sync.Once`, the context, and
  hooks in a container whose client can be killed without them.
* **SSHInclude** (`sshconf/include.go`). Read, backup, truncate, write. The user
  keeps, drops or moves devc's line: `above` says that they have put text over it,
  which the code takes for included all the same.
* **Provision / ProvisionProofs** (`cmd/devc/provision.go`) composes `KeyFiles` and `SSHInclude`
  with the workspace's Host block: what `up` has to have done on the host, in
  order, before `ssh devc.<name>` works.
* **ConfigLoad** (`config/`). A string is a sequence of pieces; the passes of
  `Substitute` over folder and fields, `checkResidual`, and `Resolve`'s id and
  default folder.
* **Rename / RenameProofs** (`cmd/devc/rename.go`, `list.go`). What each
  container, state file and ssh block says of whose it is. `run[p]` is the `up`
  that process p runs: the two listings of `knownWorkspaces` are two steps, then
  each earlier name goes container, state, block, and then the bring-up leaves
  its own traces in the same order. Either listing may fail; without that of the
  state directories the run goes on `blind`, and what it finds of a compose
  workspace is a folder and no config. `alone` is history: no other devc has run
  since this one started. A compose container that no state file places
  (`Unplaced`), because its `up` was killed before it persisted or was limited to
  other services, is seen by no listing.
* **ComposeProbe / BringUpProofs** (`runtime/compose.go`). Fingerprint, cache, probes of the
  four candidates while binaries come, change and go.

`Lifecycle`, `Provision` and `Rename` all have the bring-up as an action or a
sequence of them, each with the part of it that its properties tell apart.

## 3. The runs

Deadlock is checked in StateFile, ComposeProbe and Rename. In the others it is
not: their processes end, by a budget or because the command, the connection or
the load is over.

| Run | Bounds | Shows |
|---|---|---|
| `StateFileSerial` | 2 processes, documents of 1 and 2 bytes, 4 inodes | a visible document is whole (`VisibleWhole`) and final (`PublishedIsFinal`), over any crash; the files implement the store (`ImplementsStore`) |
| `WorkspaceFaults` | 1 process, 3 commands out of 12, 5 kinds of workspace, 2 hooks, 1 crash, 1 swallowed failure, 1 exit, 1 edit | `MarkersTruthful`, `ProbeReflectsHooks`, `HooksRepeatOnlyAfterFaults`, `UpIsComplete`, `LimitedKeepsWorkspace`, `UpRecovers` |
| `WorkspacePair` | 2 processes, 3 commands: up, recreate, ssh, or for other services; a single container or a compose service | when all have ended somebody has finished the workspace (`SomeBringUpFinished`), and no save that crosses another's makes a marker untrue (`MarkersTruthful`) |
| `SkipRecreate` | 1 process, 3 ups of either kind of workspace, some with `--recreate`, `--skip-hooks` | violation of `UpRanCreateHooks`: `up --recreate --skip-hooks` files the new container's id over the old markers, and the next up runs no create hook in it |
| `AgentConnection` | 3 packets on 2 sessions, one that works and one that forwards the agent, queue of 1 | `EarlierRequestsCount`, `ExitStatusOnce`, `AgentOutlivesSession`, `MuxNeverStalls`, `LastSizeApplied`; `EndReported` once the client has taken the output |
| `RemoteForwards` | 4 requests, 2 ports, 1 connection | `CancelReleases`, `OpenAnnounced`, `AnswersInOrder`, `EveryListenerTracked`, `EveryRequestAnswered` |
| `ForwardedStreams` | 3 units a side, windows of 2 | `ImplementsStream`, `EndsPropagate`, `BridgeEnds` |
| `Provision` | up, keys, rotate and ssh-config; 4 generated keys, crashes anywhere, streams cut, 2 edits of the ssh config between commands | `IdentityStable`, `RotateReplaces`, `TextKept`; `SSHReady` and `EnsureCompletes` while nobody has died over the keys, and again once a rotation has succeeded |
| `NamedHooks` | 3 entries | `CauseReported`, `FailureEnds` |
| `Substitution` | up to 2 of 6 and of 8 pieces in two fields, 1 of 3 in the name; variables two deep, or one that names itself | `FolderReferencesAgree`, `RejectedOnlyUnresolvable` |
| `Rename` | 2 processes, a single and a compose config in one folder, a checkout of an old devc; either 1 crash, 1 failure and 1 removal by hand with no overlap, or 1 crash and 1 overlap | `EarlierNamesRetired`, `StaysReachable`, `OthersKept` |
| `ComposeInstalls` | 2 processes, 4 candidates, 5 binaries, each absent or there to begin with, and one after the other installed | `EntryFits`, `FirstWins` |

Workspace is also checked for its `TypeOK`; in the other modules it documents the
state, holds on the same instances, and is proved where section 5 says so. The two processes of
`Rename` are interchangeable, so it is checked up to their symmetry. An `up` that
runs alone there may follow two that overlapped and one that crashed, and so
finds traces that no sequence of calls leaves.

Why the bounds are enough to be interesting: in Lifecycle a fault needs a
command to leave something, one to trip over it and one to repair it, hence
three; two create hooks are the least with a marker between them. One swallowed
failure is enough to make an up go by the container's name; what a second one adds
is in the theorems, for any number (section 5). The counters
`MaxRuns` and `MaxId` are never reached with these budgets. In StateFile a
shorter document over a longer one needs two sizes, and a reader, the visible
file, the temporary file and a spare need four inodes. A queue of one instead of
sixteen makes the mux block as soon as it can: a command and two more requests.
The second session of `AgentConnection` needs to do no more than ask for the
agent and end, for what it must not do is take the socket along. In Workspace the five
projects are a single container and a compose service, the latter also left out of
`runServices`, depended on by another service, or scaled to two. In Bridge three
units overfill a window of two, so a sender can wait for a reader that is gone. In
Provision a generation that dies between two pairs and a rotation of both need
four keys (a repair after a rotation is no different from the first). Substitution has three passes, so chains of three and four steps are both
in `Substitution`. In ConfigLoad `NamesItselfOnce` keeps out folders that name
themselves twice, whose length squares with every pass.

### Fairness

* Workspace: weak fairness of each process's own steps, for a process that has
  started is scheduled; runtime calls and hooks are taken to return. None for
  `Begin`, `Abort`, `Edit`, `Exit`. `UpRecovers` asks for nothing while crashes
  and exits are still to come.
* Bridge: each copying goroutine and the handler. Nothing is assumed of the two
  ends: they may never read, write or close, and `EndsPropagate` and `BridgeEnds`
  say nothing of a direction that waits for a reader.
* AgentSession: weak fairness of the mux loop, the teardown, and of each
  session's loop, command goroutine and applier: goroutines that can run do.
  None for the client, the child or its descendants: a command may run for ever,
  and a client need not read. `EndReported` says nothing of a session whose
  output waits for it.
* RemoteForwards: the request goroutine. NamedHooks: the goroutines, and the
  client that has been killed. No other specification has fairness, for their
  properties are safety.

## 4. Where the code keeps less than it says

One is a run, `SkipRecreate`. The others are not in the regular runs, but each
definition is in its module, and TLC refutes it on the instance given here,
which otherwise is the run's. They are why the models have constants such as
`Overlap`: what is checked and proved holds where these are excluded.

| Sentence | Definition | Instance | What happens |
|---|---|---|---|
| `state/state.go:142`, saves are atomic | `StateFile!VisibleWhole` | `Overlap = TRUE` | two saves share `state.json.tmp`; a torn file is renamed into place |
| `README.md:180`, create hooks run once | `Lifecycle!CreateHooksOnce` | `OnlySingle`, 2 processes, `UpOnly`, `CalmBudget` | two ups find no marker and both run it |
| `cmd/devc/up.go:85`, hooks run before the probe | `Lifecycle!EnvReflectsHooks` | `OnlySingle`, `WithSkip`, `CalmBudget` | `up --skip-hooks` caches a probe, the next up runs the hooks and injects the old one |
| `README.md:181`, postStart on every start | `Lifecycle!PostStartOnEveryStart` | `OnlySingle`, `UpAndRestart`, `CalmBudget` | `devc restart` runs no hook |
| `cmd/devc/ssh.go:27`, `--start` ensures the workspace is up | `Lifecycle!SessionFindsAgent` | `OnlySingle`, `UpAndConnect`, `CrashBudget` | a container in which an up died is taken for up; there is no agent |
| `config/spec.go:86`, `up` brings the workspace's service up | `Workspace!UpBringsWorkspace` | `OnlyNarrow`, `UpOnly`, `CalmBudget` | `runServices` may leave it out: `up` starts the others and reports success |
| `agent/session.go:287`, the copy ends when the shell exits | `AgentSession!ShellEndReported` | the run's | a descendant holds the pty |
| `agent/session.go:317`, ssh relies on the exit status to know that a command finished | `AgentSession!UnreadEndReported` | the run's | the copy of the output waits for a client that does not read, and the end is not reported while the connection lasts |
| `agent/session.go:85`, SIGHUP when the channel closes | `AgentSession!ChannelCloseHangsUp` | the run's | a silent shell runs on as long as the connection |
| `agent/server.go:133`, the handler tree is cancelled | `AgentSession!HandlerTreeCancelled` | the run's | the agent exits before the commands are killed |
| `agent/agentfwd.go:124`, the socket is torn down with the connection | `AgentSession!SocketTornDown` | the run's | a request handled after the teardown opens it anew |
| `agent/server.go:143`, listeners are closed on disconnect | `RemoteForwards!ForwardsClosed` | the run's | one is registered after `closeAll` |
| `agent/forward.go:220`, returns when either side closes | `Bridge!EitherSideEnds` | the run's | it waits for both: a program that has left keeps the channel open until the client closes it |
| `agent/forward.go:219`, copies in both directions | `Bridge!OrderlyEndKept` | the run's | the agent exits with data of a client that had closed in order still to be written |
| `keys/keys.go:57`, Ensure creates missing key material | `KeyFiles!EnsureCompletes` without `last.clean` | the run's | it asks for the private half only: a torn key, or one without its public half, is kept for good |
| `keys/keys.go:58`, the identity is stable | `KeyFiles!IdentityStable` | 2 processes, `Overlap = TRUE`, `Crashes = FALSE` | two Ensures both generate |
| `hooks/run.go:73`, the siblings are stopped | `NamedHooks!SiblingsStopped` | the run's | the runtime's clients are killed, the commands in the container run on |
| `sshconf/include.go:23`, the Include is added | `Provision!ConfigKept` | 2 processes, `Overlap = TRUE`, `Crashes = FALSE`, `MaxKeys = 2` | who reads between truncate and write drops the user's text from the file |
| `sshconf/include.go:23`, the config begins with the Include | `Provision!IncludeOnTop` | the run's | the line is looked for anywhere: text that the user has put above it stays there, and its options win |
| `cmd/devc/provision.go:19`, provision installs the credentials | `Provision!SecretsInstalled` | the run's | a stream of secrets that is cut installs a torn file, and the script succeeds |
| `sshconf/include.go:48`, a backup before the file is touched | `Provision!BackedUp` | `Editing = TRUE` | the backup is of what was read, not of what is overwritten |
| `config/parse.go:150`, the two ids agree | `ConfigLoad!IdsAgree` | the run's | one is taken before the name is substituted |
| `README.md:182`, `${containerWorkspaceFolder}` is covered | `ConfigLoad!DefaultFolderReferenced` | the run's | it is empty when the folder is the default |
| `cmd/devc/rename.go:48`, ssh blocks of earlier names are found | `Rename!BlocksFound` | the run's | not when state and container are gone and the process died |
| `cmd/devc/rename.go:39`, another config in the folder is distinct | `Rename!OthersKept` | two configs of one folder that share a name | they have one id |
| the same | `Rename!OthersKeptBlindly` | the run's | where the state directories cannot be listed (`rename.go:53`) a compose workspace has a folder and no config (`list.go:94`), and an `up` that runs alone tears it down |
| `cmd/devc/rename.go:89`, every earlier incarnation is removed | `Rename!NoneLeft` | the run's | a compose container whose `up` died before it persisted, or was limited to other services, is under no state file and stays under the old name |
| `cmd/devc/rename.go:39`, as above | `Rename!OthersAlwaysKept` | the run's | a compose workspace first recorded between the two listings has a folder and no config, and is torn down as an earlier name |
| `cmd/devc/rename.go:98`, an earlier name stays reachable | `Rename!AlwaysReachable` | the run's | an `up` under the old name makes its container again while the retirement goes on to its ssh block |
| `runtime/compose.go:52`, the cache is good until binaries change | `ComposeProbe!EntryFits` | `Removals = TRUE` | the fingerprint is older than the probe |

The instances of Lifecycle's definitions are `WorkspaceFaults.cfg` with
`SPECIFICATION WsSpec`, `Configs <- OneConfig`, and `Projects`, `Commands` and
`Budget` as named; those of KeyFiles and SSHInclude are `Provision.cfg`.

One more, met while reading and not modelled: `jsonc/strip.go:66` blanks the line
ends in block comments, so that `config/parse.go:172` counts too few lines.

In the shipped binary the agent exits right after `Serve` returns, which closes
its listeners, but not its children or its directories.

## 5. The proofs

TLAPS 1.4.5. Each `...Proofs` module EXTENDS what it is about; every leaf is checked.

**StateFileProofs**, from `DocsAssumption` and, but for the first, `Serial`, which
is `Overlap = FALSE`; section 4 shows that it is needed.

* `DescriptorsClosed`: `Spec => []TypeOK`, whether saves overlap or not. The one
  conjunct that is not a type, that a descriptor is open only where a call is
  under way, needs the program counters (`Typed`).
* `SerialSavesAreAtomic`: `Spec => []VisibleWhole`. Wholeness is not inductive:
  a rename publishes whatever the temporary file holds. The invariant `IInv` adds
  that only one process is in a save, that what it has open is what
  `state.json.tmp` names, that this is never what `state.json` names, and that at
  the rename it is whole.
* `PublishedDocumentsAreFinal`: the action property, from `IInv`, and so as long as
  saves do not overlap.
* `SerialFilesImplementStore`: every step is a step of `StateStore` or a stutter
  under `Store`'s mapping, from `IInv`, action by action. It too needs `Serial`: two
  saves through one temporary file are no atomic store.

**WorkspaceProofs**, from `LifecycleAssumption` and `NoCtrAssumption`. First
Lifecycle by itself:

* `TypeInvariance`: `Spec => []TypeOK`. `MarkHook` chooses the first hook
  without a marker, so the invariant also says that at `mark` there is one
  (`Pending`).
* `MarkersAreTruthful` and `CachedProbeReflectsHooks`, which further assume
  `NoSkip` (nobody passes `--skip-hooks`; section 4 shows what happens
  otherwise) and `FixedHooks` (the set of configured create hooks is
  not edited: a hook that is added later runs after the probe). They hold for any
  number of processes, hooks, command lines and faults, overlapping in any way.
  What state.json says is not inductive, because any process may write back what
  it loaded long ago. The invariant `Truth` says the same of every `State` in
  anybody's memory (`Truthful(copy[p])`), that none is about a container yet to
  be made (so a fresh container's id never matches an old document), and, while a
  process is between two of its steps, what it knows of its container: at `mark`
  the hook has run in it, and from `poststart` to `probing` all have (`Honest`).
  The lemmas go by groups of actions: what a step does to the container
  (`Ages`), what it does to others' copies, what it does to its own.

Then both kinds of workspace, from the same assumptions, and `NoSkip` and
`FixedHooks` where the above need them:

* `WorkspaceTypes`, `WorkspaceMarkersTruthful`, `WorkspaceProbeReflectsHooks`:
  Lifecycle's invariant `Truth` is kept by the steps of a compose workspace too.
  Where these are Lifecycle's own (`StartContainer`, `postUp`, the removals) its
  lemmas are cited; only what compose does itself is proved anew. The decisive
  facts are that `FindService` takes the id of the present container and that
  `ProbeFails` records an empty environment for one that is gone.
* `LimitedCommandsKeepWorkspace`, from `TakesServices` (only up, stop, restart and
  down take services, as in the code): the action property. The invariant is where
  a limited command can be (`LimitedAt`): never past `persist`, so it never holds
  a document to save, and past its first check for a compose project only.
* `UpLeavesNothingHalfDone`, from `NoSkip` and `OneAtATime` (one devc after the
  other, any number of them, each failing or dying anywhere): `UpIsComplete`.
  `LoneInv` says where up is between `find` and `ok`: that the container is there
  and whose id it goes by (`Looking`), that the markers in hand are of this
  container and true (`Hooking`), that what is done is recorded and, one call
  after the other, what has been put into the container (`Provided`). Without
  compose, an inspection that fails makes up go by the container's name. The
  first one that does finds nothing filed under the name (`NameUnused`). The proof did not get
  past the second: the markers of another container may be on file
  under that name, and up takes them for its own. TLC shows it with two failures,
  so the property says that an up which goes by the name is complete the first
  time (`Sure`).
* `HooksRepeatOnlyForFaults`, from `OneAtATime` and `NoRerun` (nobody passes
  `--rerun-hooks`): `HooksRepeatOnlyAfterFaults`. The property counts repetitions
  and is not inductive, for a container whose markers are forgotten owes every
  hook again. What is (`Balanced`) is that all runs, the first ones included, are
  paid for: by a marker on file for this very container, or by a fault, but for
  the hook that is running now. `Owed` says the same of the markers in memory,
  and of an up that goes by the container's name, which saves under that name and
  so puts this container's markers out of use: hence two rounds of hooks for such
  a failure, its own and the next up's. The proof needs that `--purge` forgets
  the markers only when the container is gone (`There`).
* `SomeBringUpWins`: `SomeBringUpFinished` for any number of bring-ups that overlap
  in any way. There is no lock, so a bring-up may lose its container to another
  one's `--recreate` at any call and fail; the claim is that somebody wins. The
  invariant `RaceInv` does not say who. It says of the container itself that it is
  always somebody's business (`Held`): while it is there it is finished, or some
  process carries it, with everything that is missing still ahead of it
  (`Carries`); and once one was made, while there is none some process is about to
  make the next. A removal takes it from whoever carries it and makes it the
  remover's, and no other step of a bring-up takes anything from one that carries. From
  `NoSkip`, `FixedHooks`, `NoFaults` (nothing dies or fails), `OnlyBringUps`
  (up, ssh, and commands for other services; beside a `down` the container
  may rightly be gone), `OneContainer` (a scaled service has several, and one pulled
  in by others goes with their commands) and `IdsLast`, the model's ids do not
  run out, which `Counted` turns into an invariant: ids handed out, processes that
  may still make a container and commands to come never exceed the budget. The run
  `WorkspacePair` satisfies all six.
* `LaterUpNeverFails`, from `OneAtATime` and `NoSkip`:
  `Spec => [](Ceased => [][UpGoesOn]_wsvars)`. An up, or the bring-up of
  `ssh --start`, that begins once nothing is killed any more fails in none of its calls,
  whatever earlier commands left half done. This is the safety half of `UpRecovers`, whose
  other half, that it goes on at all, is fairness. `ReadyInv` is `LoneInv` with,
  for each place in the bring-up, the facts that its next call needs to succeed
  (`Ready`): the id it goes by is the present container's, the container runs, there
  are keys. `UpGoesOn` is an action of its own because `UpRecovers` looks only
  at where up ends; it holds on the instance of `WorkspaceFaults` too.

**BridgeProofs**, from `BridgeAssumption` alone, any `Units` and `Window`.

* `BridgeIsStream`: `Spec => ImplementsStream`. The invariant `Inv` counts: per
  direction what was read, buffered, held and not yet read is never more than was
  sent, and is all of it unless the receiver or the sender was cut off
  (`Conserved`); an end is passed on only after everything before it
  (`ToldTruly`); a direction is dropped only when its receiver has left
  (`Left`, `Drained`); and `Stages` says what holds where the handler is.

**RenameProofs**, from `RenameAssumption`, `DistinctNames` (configs of one folder
share no name, for they would share an id) and `LegacyAlone` (where an old devc
recorded no config the folder has one only). Section 4 has an instance without
the first; the run's instance satisfies both. All three are about an `up` that no
other devc ran beside.

* `RenameRetires`, `RenameStaysReachable`, `RenameKeepsOthers`: the three
  properties of the run, for any configs, names and number of processes and
  faults: what is retired is what a state file or label places, and a run that could
  not list the states may take another compose config's for its own. `Owned` says
  that any trace is of a config that has this name and folder, whoever left it, a
  container without a label of a compose config's; that much survives crashes and
  overlaps. What a run
  that is alone may rely on (`Knows`) is that the files are as it listed them
  (`Listed`), that every trace but an unplaced container is still to be retired
  (`Found`) and nothing of another config's is, unless it is blind and that config a
  compose one (`Mine`), and that state and block go only after the
  container (`Gone`). A run that another joins loses all of it at `Setup`.

**RemoteForwardsProofs**, from `ForwardAssumption` alone, any number of requests,
addresses, ports and connections.

* `ListenersTracked`, `CancelledPortsReleased`, `OpensAnnounced`: the safety
  properties of the run. What the client may rely on is not inductive: that a
  cancellation frees the port needs the map to have it under the port that was
  bound (`TrackedOpen`), no two open listeners to share a key (`Distinct`), and
  the port to be still closed when the answer goes out (`Closing`); that no
  connection precedes the answer needs that nothing accepts before the forward
  was granted (`Told`).
* `RepliesInOrder`: `AnswersInOrder`. SSH matches replies to requests by their order
  alone, so a path of `start` or `cancel` that replied twice or not at all would
  shift every later reply. `Replied` counts: answered are exactly the first
  `Answers` requests, one fewer than were taken up while the handler has a reply
  to give, and that one is of the kind that the reply will be for.

**BringUpProofs**, for two parts of a bring-up that stand on their own. First
`ComposeProbe`, from `ProbeAssumption` and `OnlyGrows`, which is
`Removals = FALSE`; section 4 shows that it is needed.

* `EntriesFit`, `FirstCandidateWins`, for any number of processes and versions
  (the run has one version of each binary). Every fingerprint ever taken is of
  now or of a state with less installed (`Past`), so an installation makes all of
  them differ from the present one for good; and what a process has found out is
  claimed only while its fingerprint still is the present one (`Knows`).

Then `NamedHooks`, from `HookAssumption` (`NoHook` is no hook). Its definitions are
named `RunInit`, `RunNext` and so on, for the proof module to extend both.

* `CauseIsReported`: `CauseReported`, for any set of named hooks. Hooks are only stopped
  once the context is cancelled, and it is the first to report that cancels it, or
  the last to return (`HooksInv`): so what `sync.Once` keeps is a failure of its own.

**ProvisionProofs**, from `KeyAssumption` and `Serial`, which is
`Overlap = FALSE`, and for the last two also `Editing = FALSE`. Section 4 has
what happens without.

* `RotationReplaces`, `EnsureLeavesPairs`, `IdentityKept`: `KeyInv` says of the one
  process that may be at work which half is missing, torn or written where
  it is (`Working`), that the pairs it has passed are whole unless somebody died
  over them before (`Completing`), that what a rotation finds is gone or new
  (`Replacing`) and that what up has read is still what the files hold
  (`Copying`). A pair is whole or absent whenever all is quiet and nobody has died.
  `EnsureLeavesPairs` claims no more than that: after a death over the keys it is
  `RotationReplaces` that helps. `IdentityKept` is about both halves of a pair, and
  needs that the key which is being written belongs to nothing on file (`FreshInv`).
* `UpConnects`: `PSpec => []SSHReady`. `IncludeInv` adds that the keys rest while
  the ssh config is written, what each later step leaves behind (`Provisioned`),
  and that a config which has the Include has it on top or under what the user has
  put there since (`above`).
* `UserTextKept` (`TextKept`): `TextInv` follows the
  user's text through a save. What was read stays what the file holds until a
  backup has it, only then is the file emptied, and while it is, nobody else is
  at work on it (`Saved`); a file without devc's line is the user's own (`Own`).

**AgentSessionProofs**, from `AgentAssumption` alone: any packets, sessions, queues
and descendants.

* `AgentTypes`: `TypeOK`, and with it that no queue of requests outgrows its bound.
* `EarlierRequestsHonoured`: `EarlierRequestsCount`. The command goroutine looks at
  what the request loop keeps changing, so the invariant follows each packet by
  its number. What a channel has queued is older than what the mux has not read,
  and both are younger than the packet that claimed the command slot (`InOrder`);
  and every variable and pty-req sent has been taken by the loop, or is still ahead
  of it, or was lost with the connection behind all that waits
  (`NothingSkipped`, `Ahead`).
* `EndReportedOnce`: `ExitStatusOnce`. There is one command to a channel, whatever
  it is asked to start later (`OneCommand`), and only it reports.
* `SocketOutlivesSessions`: `AgentOutlivesSession`.

Only model-checked:

* Liveness (`UpRecovers`, `MuxNeverStalls`, `EndReported`, `LastSizeApplied`,
  `EveryRequestAnswered`, `FailureEnds`, `EndsPropagate`, `BridgeEnds`), which is out of
  the prover's reach here. What is proved beside it: `LaterUpNeverFails`,
  `AnswersInOrder`, `ExitStatusOnce` and `ImplementsStream` say that what these
  promise to happen is the right thing when it does.
* The substitution properties `FolderReferencesAgree` and `RejectedOnlyUnresolvable`.
  They speak of strings expanded piece by piece and pass by pass, which is induction over
  data; and they are true only where values of variables refer to each other
  as shallowly as the three passes can follow, which is a fact of the instance and
  has no short form for all of them.

## 6. Not modelled

* In `Workspace`: `down --volumes`, which no property is about, and the
  containers of other services, of which devc reads nothing.
* The ssh handshake, authentication, user lookup.
* Building images, argument lists, rendering of ssh blocks, listing and status,
  completion, doctor, logs: sequential formatting. `jsonc.Strip`: one scan over
  bytes, whose model would say again what its loop says.
* `waitFor` is parsed and used nowhere.
* Partial removal of a state directory: `RemoveAll` removes all or nothing in
  `Lifecycle` and `Rename`; `StateFile` has it entry by entry.

## 7. Plan

What is left, the most useful first:

1. `Lifecycle` over `StateFile` itself in place of atomic loads and saves, on an
   instance small enough for both.
2. An abstract specification of a connection's remote forwards, the set of ports
   the client holds, that `RemoteForwards` refines; `CancelReleases`,
   `OpenAnnounced` and `AnswersInOrder` are what a client needs of it.
