# A TLA+ model of the serving appliance

This project models the control logic of the appliance in this repository: one
container in which a shell script (PID 1) keeps a vLLM engine serving, a landing
page lets an operator change the configuration or destroy the instance, and a
small store of JSON documents on the volume carries decisions from one boot to
the next. Beside it stand a diagnostic agent, a manager for a fleet of such
containers, and patched parts of vLLM with protocols of their own. The modules
are translated from the code, not from the documentation; where the two disagree
section 8 says so.

Most of the repository's 979 files are patched upstream sources, their
historical copies under `maintenance/`, and field evidence under `docs/`. The
program's own logic is `entrypoint.sh`, `landing.py`, `scripts/`, and what
`patches/` changes in the scheduler, the LMCache connector, the one-shot
all-reduce and the streaming parser.

## 1. Inventory

For each part: its state, its operations, what makes it hard, and what makes it
correct. `PROJECT.json` lists the same parts with their status.

**PID 1: configuration apply and engine supervision** (`entrypoint.sh`
270-330, 1423-1530, 2442-2640, 2685-2985).
State: shell variables `attempt`, `reason`, `verified`, the sourced
configuration, the engine's and the verifier's pids. Operations: `apply_config`
(clear the restart request, begin a boot, validate, roll back, validate again),
checkpoint preparation, launch, a poll loop over terminate flag, restart flag,
certificate marker, engine pid and verdict file, and a way out of the loop for
each. Hard: everything it reads can change between two of its commands; it is
the only thing that restarts the engine, so any loop it can be driven into is an
outage. Correct: acknowledged changes are booted, only failed configurations are
rolled back, only verified ones become known-good, it neither loops for ever nor
launches what it rejected.

**Configuration store** (`scripts/glm_config.py`, `scripts/config_cli.py`).
State: `config.json`, `known-good.json`, `apply-state.json` on the volume,
`config-attempt.json` and `restart-request` in the runtime directory, one flock.
Operations: `env --begin-attempt`, `validate`, `should-rollback`, `rollback`,
`mark-good`, `mark-unverified`. Hard: two processes write it, a decision is taken
minutes before it is carried out, stamps have one-second resolution. Correct: no
update is lost, a stale decision is recognised (exit code 3).

**Layering and minimisation of the knobs** (`glm_config.py` 1798-2008). Pure:
environment, state file and defaults resolve to an effective configuration;
`minimize` stores the difference. Correct: `resolve` after `minimize` is the
identity on a given environment; inapplicable knobs never leak.

**Landing page: configuration editor** (`landing.py` 1141-1405, 1965-2035). State:
what each rendered form was built from. Operations: render, apply, import, reset,
restart. Hard: a threaded server, tabs of any age, and it may die between its
three writes. Correct: what persists was shown to the one who submitted it.

**Engine and serving verifier** (`serve_once`, `scripts/verify_serving.py`).
The engine runs, dies, or serves badly; the verifier writes one verdict.

**Termination switches** (`glm_config.py` 1605-1752, `landing.py` 2037-2053).
State: one document, `{enabled, locked}`. Operations: derive it at container
start, read it with the environment as fallback, tighten it. Hard: a
read-modify-write from concurrent threads through one fixed temporary name, and a
page that may die inside it. Correct: it never loosens while a container lives.

**Terminate worker and stand-down** (`landing.py` 1633-1673,
`scripts/terminate_worker.py`, `entrypoint.sh` 2817-2820, 2912-2930). State:
`terminate.json`, `terminate-in-progress`, `engine-stopped`. Operations: gates,
hand-off to a detached process, stop request with a 180 s wait, erase, re-check,
destroy call with three outcomes, progress; PID 1's answer and its resumption.
Hard: five processes and three files without a common lock. Correct: a lock
stops a termination up to the destroy call, nothing runs during an erase, a
failed termination ends with the engine serving.

**Secure erase** (`scripts/secure_erase.py`), **provider abstraction**
(`scripts/provider.py`): file walking and HTTP. Correct: the plan keeps the files
of the protocol; a destroy call is made only through an armed transport.

**Checkpoint preparation** (`prepare_checkpoint`, `scripts/reconcile_checkpoint.py`,
`scripts/graft_mtp78.py`, `scripts/build_vision_config.py`). State: weights, index, config, marker
files. Hard: a stop between any two file writes, or in the middle of a copy made in
place; the reconciler passes over some of its errors. Correct: markers never claim more
than what is on disk; a transition that was cut short is redone or reverted.

**SOUL agent** (`entrypoint.sh` 690-1100, `scripts/soul_*.py`). A second,
independent supervision ladder, a credential hand-off to another user id, a level
cache refreshed through a marker file, a controller with a journal. Hard: saving a
setting signals PID 1, which then no longer waits for the supervisor it is stopping and
may start the next one beside it. Correct: what is stopped stays stopped, and no event,
journal line or evidence is lost.

**ACME retry** (`scripts/acme_retry.sh`): back-off around an external client; it
hands PID 1 a restart-required marker.

**Fleet manager** (`scripts/fleet_manager.py`): a polling loop that keeps slots
alive, retires them through drains, scales and rewires the router. Hard: slots
vanish and come back under the same name while a drain is pending.

**Prefill-fair scheduler and engine loop** (`patches/glm53-selected/vllm/v1`:
`core/sched/scheduler.py`, `engine/core.py`). State: three queues, block tables,
free and deferred blocks, one or two steps on their way. Operations: `schedule`,
`update_from_output`, adds, aborts. Hard: a step is prepared while earlier ones
still run, so what it preempts or frees may still be written. Correct: a block
belongs to its request until its last writer and reader is done; what is counted
as computed is.

**LMCache connector** (`patches/scopedlmcache`). State: trackers and lookups on
the scheduler's side, retrieves, stores and the health of the cache server on the
worker's. Operations: lookup, load, store, heartbeat, drain, fail-stop. Hard: two
processes and a server that fails, with one report per step between them.
Correct: loads end, stored KV is the KV of its key, blocks outlive transfers.

**PCIe one-shot collective** (`patches/glm53-selected/b12x/comm/pcie/pcie_oneshot.py`).
State: on every rank exports, imports, runtimes, channels and a ticket of an undo
that failed. Operations: set up, capture, checkpoint, roll back, close, retry.
Hard: every local step and every exchange may fail on some ranks. Correct: memory
is neither lost nor freed under a peer; ranks agree and never wait for one that
left.

**Streaming tool-call parser** (`patches/glm53-refresh`). State: held-back text,
the lexer's buffer, the machine, the open call. Hard: text lags behind token ids
and is cut anywhere. Correct: the cuts do not show; nothing shown is taken back.

**Failure analysis, patch gates, benchmarks, maintenance copies**: helpers that
change no state the others read, build-time scripts and history.

### Interactions

The page and PID 1 share the store through its flock and talk through
`restart-request`; PID 1 and the verifier through the verdict file; PID 1 and the
worker through two flags; the page and the worker through `terminate.json`; the
worker and the page's lock button through the switches; the page, PID 1 and SOUL
through the level marker and the journal. In the container there are no messages:
every interaction is a file somebody writes and somebody else polls, so the
hazards are stale reads, overwritten files and files left behind. The fleet
manager talks to a provider and a router that answer late or not at all. In the
engine, the scheduler and the worker exchange one step and one report at a time,
and the ranks meet in collective exchanges.

## 2. Modules

| module | models |
|---|---|
| `ConfigStore` | the documents of the store, layering over one knob, and the commands of `config_cli` |
| `Landing` | the configuration editor and the operator's shell, over the store |
| `Supervisor` | PID 1, the engine, the verifier, the worker as PID 1 sees it, container restarts |
| `Appliance` | the composition of these: `Next`, fairness, properties, the inductive invariant |
| `EngineLifecycle` | abstract: what PID 1 promises about one engine after the other |
| `Refinement` | `EngineLifecycle` instantiated over `Appliance` |
| `Switches` | tightening the switches, down to the inode of the temporary file |
| `Termination` | request threads, workers, switches and PID 1's stand-down |
| `Checkpoint` | preparing the GLM-5.2 checkpoint, file by file |
| `Layers` | resolving and minimising seven knobs over templates and hosts |
| `Soul` | supervisor, launcher and controller of the agent, queue and journal |
| `Fleet` | the fleet manager against a provider and both kinds of router |
| `LMCache` | the cache connector, both its sides |
| `Engine` | scheduler, engine loop, worker and cache server, over `LMCache` |
| `IpcPool` | the channels of the one-shot all-reduce on all ranks |
| `ToolParser` | scanner, lexer, machine and argument conversion |
| `EngineInv` | the inductive invariant of `Engine`, as state predicates |
| `Appliance_proof`, `Checkpoint_proof`, `Soul_proof`, `Fleet_proof`, `IpcPool_proof` | the proofs about the module each is named after |
| `Operator_proof` | the proofs about `Switches`, `Termination` and `Layers` |
| `EngineSteps_proof`, `Engine_proof` | the proofs about `Engine`: what each action does, and the invariants |
| `MC...` | the instances TLC checks |

`Supervisor` extends `Landing`, which extends `ConfigStore`; `Appliance` puts the
three next-state relations together, `Refinement` extends it. `Engine` extends
`LMCache`: the connector's operations are parts of the scheduler's and the
worker's actions. The others stand alone: what they share with another part (the
stand-down for SOUL and for terminations, the destroy call) is an input of theirs
that comes at any time.

### How state and actions correspond to the code

*Granularity.* An action is what runs between two points where another process
can get in: one command of `entrypoint.sh` that touches shared state, one
`config_cli` command under its flock, one file write. PID 1's `pc` names the
command it is about to run, in the order of the script: `clear`, `env`,
`validate`, `should`, `rollback`, `env2`, `validate2` are `apply_config`;
`prepare`, `prepFailed`, `prepShould`, `prepRollback`, `flagCheck`, `launch` the
middle of the loop; `pollTerm` ... `markUnverified` the poll loop; `failShould`,
`failRollback`, `standdown`, `resume` what follows it. `Fleet`'s `step` names the
call of the provider or the router the cycle makes next, `Checkpoint`'s `pc` the
next file, `Soul`'s `sup` and `ctl` the supervisor's command and the controller's
next write. A copy made in place (`Checkpoint!CopiedInPlace`) has one more outcome:
the file is there and cut short (`Torn`). The supervisors of `Soul` are numbered by
`era`; those told to stop are in `leaving` until their trap has run, `launch` and `pid`
have an entry for each, and `child` is the launcher that started the controller. In `Engine` one call of `schedule()` is a sequence of actions, one per
decision about one request, in the order of its loops (`cur` holds its locals);
nobody else runs in between, because it reads nothing the others write and they
read nothing of it before it returns. In `IpcPool` a rank's `step` names the exchange it
is about to reach, and an exchange is an action of all ranks. In `ToolParser` a step is a
delta.

*Configurations* in `Appliance` are members of a set, as if the registry held one
knob; a state file overrides it or does not, and an environment supplies the value
underneath and the set its host rejects. That is what rollback, minimisation and a
container moved to another host or template can tell apart. `Layers` has the
knobs: one of each kind the registry treats differently. *Times* are `written_at`
stamps, of which two writes may share one, and windows that are running or have
elapsed. *The boot token* (`GLM_CONFIG_ATTEMPT`) is the `owner` of the attempt
record. *A file of a checkpoint* is the revision it came from and whether it holds
or describes a trellis layer 78 and the vision tower. *A KV block's content* is
the request and the position whose KV it holds. *Text* is a sequence of characters
and halves of tags.

*History variables* (`ackPending`, `stranded`, `vouched`, `failedDocs`, `proven`,
`strikes`; `acked`, `lockAcked`, `killed`; `cut`, `passed`; `torn`, `escaped`, `told`;
`Fleet`'s `seen`; `split`; `clear`) record what happened for the properties. No guard reads them.

*Seeded defects* are definitions named `X_Something` next to `X`: the same
operation with a plausible bug. They are used by no specification; they document,
for every property, a bug it catches.

## 3. Properties

Appliance:

- `NoLostUpdate`: what a page is about to replace is what its tab was shown.
- `RollbackOnlyFailed`: PID 1 replaces `config.json` only if those very contents
  failed a boot; a decision about an older boot never undoes a newer apply.
- `AckedApplyKept` / `AckedApplyBoots`: an acknowledged apply is not swallowed, and
  is eventually read by a boot.
- `EngineIsJustified`: what runs was validated on this host; what is known-good or
  "serving" was verified by its own verifier or vouched for; "stopped" is true.
- `LifecycleRefined`: every step is one of `EngineLifecycle`: an engine has one
  configuration and at most one verdict, and claims and memory follow from it.
- `Settles`: restarting, rolling back and retrying come to an end, and every trial
  is decided. `SelfHeals`: with a usable known-good configuration a sound one is
  served again and again, also when the broken one came from the environment.

Switches: `RatchetHolds` (they never loosen while a container lives) and
`AckedTightening` (what was confirmed is in effect), with one request at a time
and a page that may die at any moment. Terminations: `LockStopsDestroy` (after a
confirmed lock no worker goes on to the destroy call), `EngineDownDuringErase`
(for a lone worker that was told the engine is stopped) and `ServingResumes`.

Checkpoint: `ServedIsConsistent` is `DescribesTensors` (configuration and index parse
and describe the layer 78 and the tower on disk), `VisionHonoured` and `TemplateServed`
(the wrapper, its marker and its template exactly when asked) and `JournalIsLive` (no
journal of a graft outlives it), the last two but for what the reconciler failed to
copy or remove and passed over. `BackupsKept`: the native layer 78 is never lost;
`config.json` and the text-only template only when the one copy that made their backup
was cut short (section 8). `WishHonoured`: without a stop, and before vision was ever
installed, what was asked is served.

Layers: `AppliedAsAsked` (what is submitted or imported is what resolves),
`OnlyEditsArePinned` (an untouched knob is not frozen into the state file),
`GoodIsReplayable` (a known-good configuration is reproduced over any template and
host where it is valid). Each quantifies over all submissions in every state.

SOUL: `StoodDownIsQuiet` (while PID 1 is stood down and the supervisors it stopped have
run their trap, no launcher and no controller of any era runs), `IncidentsTold`
(openings and recoveries are queued or journaled, in order, unless the controller died
or failed between its book and its queue), `NothingLost` (no line, event or evidence disappears in any
step or death), `LevelIsFollowed` (a level that stays is followed in the end, and
the queue is emptied).

Fleet: `StepsAreSafe` (the fleet's limit, unique names, booting machines spared,
drained ones not wired, retired ones destroyed, a router never emptied) and
`FleetRecovers` (retirements end, the fleet serves again, its router finds it).

Engine: `OwnBlocks` (every block is free, held once or deferred; steps, loads and
stores touch only blocks that are still their request's), `OwnKv` (what is counted
as computed is in the request's blocks or about to be written there; what is
stored as the KV of a chunk is that), `TransfersEnd` (loads end, finished requests
give their blocks back).

IpcPool: `MemoryIsSound` (nothing leaked, no export freed while mapped or in use),
`RanksAgree` (ranks stay in step; channels and tickets agree), `CallsEnd`.

ToolParser: `ChunkingIsInvisible` (the events do not depend on the deltas) and
`ArgumentsGrow` (streamed arguments are never taken back).

## 4. Runs

| run | bounds | shows |
|---|---|---|
| `apply` | 3 configurations, 2 hosts, 2 symmetric tabs, 2 operations, 1 fault, `SUPERVISOR_MAX_RESTARTS` 1 | safety of the appliance, and its refinement of `EngineLifecycle` |
| `apply_liveness` | 2 configurations, 2 templates, 1 tab, 1 operation, 1 fault, 3 restarts | `AckedApplyBoots`, `Settles`, `SelfHeals` |
| `switch_ratchet` | 1 thread, 4 requests, 3 inodes, page deaths, 2 boots | the ratchet |
| `termination` | 2 threads, 2 workers, 2 faults | lock, erase, resumption |
| `ckpt` | 2 symmetric revisions, 2 faults | 5.4 million states, the checkpoint's four properties; any copy in place may be cut short |
| `layers` | 7 templates, 2 operations | the layering |
| `soul` | 1 check that opens after two failures, room for 1 snapshot, 2 disturbances, so up to 3 supervisors that may overlap | 291 000 states, the agent |
| `fleet` | 3 names, 1 to 2 replicas, both routers, 1 fault | 379 000 states, safety and recovery |
| `engine` | 2 requests of 2 + 2 tokens, 4 blocks, 2 steps on their way, 1 fault, 1 abort | 3.05 million states, blocks and KV |
| `enginelive` | 2 requests of 2 + 1 tokens, 3 blocks, 1 step on its way, 1 fault | the end of transfers |
| `ipcpool` | 2 ranks, 2 channels, 2 faults, 4 calls | the collective's memory and agreement |
| `tool_parser` | 364 answers, deltas of up to 3 tokens, lag of up to 2 characters | 90 000 states, chunking |

Why the bounds are enough. Three configurations on two hosts give every relation
between running, stored, known-good and candidate one that the code compares,
with one that validates on one host only; two tabs, or a tab and a shell command,
are what it takes to lose an update; two operations put one apply inside the boot
of another. The fault of a behaviour comes at every moment, and may be a page's
death, a failed command, a killed verifier, a dead engine or a container moved to
another host. For the switches one inode more than there are names and open files
is never used. Two workers are what it takes to find one's file handled by the
other. Two revisions and two faults let a preparation stop, be redone with another
wish, and stop again. Templates of `MCLayers` cover each family and variant, a
detected host and a malformed value; two operations are an edit of an edit. In
`Soul` two disturbances are a death within the consequences of another, or a setting
saved while PID 1 stands down; a stand-down that misses a launcher counts for two, since
the properties exclude what follows it. Three
names and two replicas leave room for a replacement under a new and under a
reused name. Four blocks hold one request whole and the other in part, so loads
and decodes preempt each other; with three blocks a loaded request and a waiting
one do not fit together. Two ranks are the smallest group that can disagree, two
faults fail a setup and its undo. A lag of two characters is a whole tag.

Bounds are constants with the guards that read them: `MaxStamp`, `MaxOps`,
`MaxFaults`, `MaxRequests`, `MaxBoots`, `MaxTurns`, `MaxCalls`, `MaxAborts`,
`MaxBatch`, `MaxLag`, and the set `Mids` of a slot's successive machines in `Fleet`;
`MaxRestarts` is the code's own `SUPERVISOR_MAX_RESTARTS`,
larger than `MaxOps` in `apply_liveness`, so that a budget spent across two
applies does not end every behaviour before the properties are decided.

Deadlock is checked in `ckpt` and `fleet`, whose systems never stop. Elsewhere
they do: PID 1 exits when the budget is spent, an instance is destroyed, requests
and answers are finished, and the budgets of requests, calls and operations end.

## 5. Fairness

`Appliance!FairSpec`: weak fairness of PID 1's next command (a sequential script
whose waits are all polls with sleeps), of a handler thread that holds the lock
(it has only local writes left), and of the verifier (a health timeout, a timeout
on each request, and a verdict in every case). Nothing is assumed of the operator,
the worker, the engine or a fault. PID 1's weak fairness is one condition over all
its commands: where it waits for the flock it is disabled, and the handler's
fairness frees the flock.

`TerminationFairness`: weak fairness of PID 1 and of each worker that was started;
its one wait has a deadline, so the end of it is always enabled. Nobody need send a
POST, and a killed worker is an outcome `ServingResumes` excludes by name.

`Soul`: weak fairness of the supervisor, of the trap of each one that was stopped, the
page's handler, each launcher and the controller, all loops with bounded sleeps. Strong fairness of `Consume`: the
level is read again every minute whatever happens to the marker. Strong fairness
of a heartbeat that finds the engine serving: it comes back for ever, and finds it
at some.

`Fleet`: weak fairness of the manager's loop and of the provider's progress
(machines boot, serve, disappear from the list); strong fairness of the windows of
time, which restart but elapse at some try.

`Engine`: weak fairness of `schedule()`, the worker and the processing of outputs,
which the busy loop never leaves while there are requests; strong fairness of the
server's answers and of a healthy heartbeat, strong only because the model lets
them wait for the end of `schedule()`; a store that is polled for ever is over at
some poll.

`IpcPool`: weak fairness of what can go on: a rank's local step, an exchange all
have reached, or the process group's timeout when one has not.

## 6. Proofs

Eight modules hold theorems, for every value of the constants. What a recursive
definition computes and liveness are out of the prover's reach; the modules proved
about use neither recursion nor an induction over data.

`Appliance_proof` assumes `StoreAssumption`, `LandingAssumption` and
`SupervisorAssumption` and proves `Invariant` and from it `TypeCorrect`,
`UpdatesAreKept`, `NoAckLost`, `EngineAlwaysJustified` and `RollbackIsJustified`:
all safety properties of the appliance. The argument is one inductive invariant,
`Inv`. The properties are not inductive by themselves, because each depends on
where PID 1 is:

- `AttemptInv`: while the boot record is PID 1's own, what it sourced is what the
  record resolved; so `should-rollback` and `mark-good` speak of the engine that
  runs.
- `EngineInv`: there is an engine only in the poll loop, it was validated on the
  way there, and a pass in the verdict file comes from this engine's verifier;
  that is where `rm -f "$VERIFY_FILE"` before the launch is needed.
- `VerdictInv`: a pass being acted on means the running configuration is in
  `proven`; it carries the known-good part of `EngineIsJustified` over `mark-good`.
- `FailedInv`: wherever PID 1 considers a rollback, the boot it holds has failed.
  With `Superseded`, which compares the whole document, it gives
  `RollbackOnlyFailed`.
- `LockInv`: a handler past its checks holds the flock; every other writer needs
  it free. It carries `NoLostUpdate`.
- `BudgetInv` bounds the restart counter for the type invariant: only a failed
  preparation counts its strike before it looks at the budget.

`InitInv` shows the initial states satisfy `Inv`. `Pid1Inv` has one step per
command of PID 1, with `ApplyConfigInv`, `PrepareInv` and `PollInv` for its three
parts; `OperatorInv` and `EnvironmentInv` treat the page, the shell, the engine,
the verifier, the worker and container restarts; `NextInv` puts them together.

Its last part proves `ImplementsLifecycle`: every behaviour of `Appliance`,
seen through the mapping of `Refinement`, is one of `EngineLifecycle`. It needs
`Inv` and, relative to it, `RefineInv`: PID 1 polls exactly while there is an
engine, and the verdict it acts on is the one this engine's verifier gave. Before
the launch every step is a stutter (`NoEngineStutter`, `BootRefines`), the poll
loop accepts, tolerates or stops (`PollRefines`), the rest judges, vouches or stops
(`OthersRefine`).

`Operator_proof` has three parts. The first assumes `SwitchesAssumption` and proves
`SwitchTypes` for any number of threads, whose requests may overlap, and, as long as no
two overlap, `ConfirmedIsInEffect` and `Ratchet`, for any number of requests, inodes and
container starts. With overlapping requests the published file may be anything the
threads wrote into one temporary, so the types rest on what a thread may carry
(`Carries`, `TypeInv`) and on nothing about the files. Without overlap the invariant says that the published document parses and that the temporary name is
never it (`PublishedParses`), and that a thread on its way to publish holds a
tightening of what is published, in an inode it truncated itself (`WriterInv`): a
temporary that a killed page left behind is always truncated before it is written.

The second part assumes `TerminationAssumption`. For any number of request
threads, workers and faults it proves `TypeCorrect` and `LockHonoured`: a confirmed
lock is in the switches file whatever was erased since (`LockInFile`), and the
re-check that reads it is the only way to the call. As long as only one worker was
ever started, `EraseIsQuiet` proves `EngineDownDuringErase`: the stop request
follows the worker's phase (`RequestFollowsWorker`) and the answer PID 1's
(`AnswerFollowsPid1`), so PID 1 cannot leave its stand-down before the worker gives
up.

The third part assumes `LayersAssumption`: a template holds any values of known knobs,
and what an operator gives has passed `coerce`. For any templates, hosts and values,
any number of applies, rollbacks and containers, it proves `Granted` (`AppliedAsAsked`),
`Difference` (`OnlyEditsArePinned`) and `Restorable` (`GoodIsReplayable`). The state
matters little: the file names known knobs, and what was recorded as good is a
configuration, legal where its family applies and without tokens when its draft is
off (`Config`). The argument is about the layers. Two sayings of one profile give a
knob on which they agree the same value (`Alike`); a minimised document keeps the
profile, and each knob is in it or said as the profile alone says it (`Minimized`).
So it resolves to what it was made from (`Faithful`), except where one knob decides
another: tokens under a draft that is off, and a detected dcp under another tp. These
exceptions are `Adrift`. They need be allowed only for the glm52 family and, for what a
submission pins, only as they are in the configuration shown. A detected
dcp that is no legal choice (six GPUs) is never that of a glm52 configuration, because
it follows tp there (`PlainFacts`, `LayeredFacts`).

`Checkpoint_proof` assumes `CheckpointAssumption` and proves `TypesCorrect`,
`ServedCheckpointIsConsistent` and `BackupsAreKept` for any set of revisions and
any number of stops and failures. The invariant says that what the reconciler
derived stays derived while the steps after it run (`Derived`), that the native
layer is in place or saved (`Native`), that the text-only template and `config.json`
are, or the one copy that made their backup was cut short (`Template`), and
that a wrapper being installed has its tower (`Towered`). Nothing is assumed of
what a preparation finds, torn files included, so a start from any stopped one is the
same as any other. That a template is served torn or not at all is thus reduced to one
instant, the copy of its backup, and one error, a copy the reconciler passed over.
`ServedAsAsked` proves `WishHonoured`. As long as nothing failed and vision was never
installed, the preparation's own markers speak the truth: `.complete` names the
revision of every file but those a running download has replaced (`RevisionKnown`),
`.grafted` stands for a grafted layer except while a graft or a revert runs
(`GraftKnown`), and what vision would leave behind is not there (`VisionAbsent`). So
the steps it skips are those whose result is on disk.

`Soul_proof` assumes `SoulAssumption` and `NoneIsNoCheck`. For any checks and
thresholds, any evidence budget, any number of deaths and stand-downs, and any number
of supervisors that overlap, it proves
`Typed`, `Quiet` (`StoodDownIsQuiet`), `Telling` (`IncidentsTold`) and `Safekeeping`
(`NothingLost`). Its invariant:

- `Numbered`: a check's incidents are numbered as they open, the open one is the
  last, and nothing speaks of one not opened yet. So a new incident has no record in
  the journal that could want evidence.
- `Told`: what opened or recovered is told, queued or in the controller's hands, and
  in the queue an opening is before its recovery; with `Popping`, that the event taken
  off the queue is in the journal, it survives a death at any step but the one `torn`
  records (a failing write of the index is one of them).
- `Evident`: from the write of the index to the end of the cycle every open incident
  was last seen in this cycle's snapshot. So a record written now refers to evidence
  the retention protects, and what it protects keeps a rank.
- `Locked`: the lock is held exactly while the journal's replacement has been read and
  not written, so nobody adds to the journal in between.
- `Succession`: the supervisor of this era is not among those told to stop while PID 1
  is at work; those of earlier eras may be, so several may still stop when it resumes.
- `Noted`: a running launcher is `Known`: to a supervisor still to stop, whose trap ends
  it, or to the one at work, which noted its pid or is about to. So when the traps have
  run nothing is left, whichever order they ran in and whenever PID 1 stopped waiting.

`Fleet_proof` assumes `FleetAssumption` and proves `SafeSteps` (`StepsAreSafe`) for any
number of slots, identifiers and faults, both routers, and any market. The manager
acts on a list that grows old while it acts. What saves it is that a machine only
moves towards its end (`Seen`), that a machine to be retired is in the list until
retirements are done (`Known`), and that the limit and the names are kept by every
creation (`MaxRespected`, `NamesAreUnique`).

`IpcPool_proof` assumes `PoolAssumption` and `NoneIsNothing`. For any number of ranks,
channels, failing steps and calls it proves `Typed`, `MemorySound` (`MemoryIsSound`) and
`InAgreement` (`RanksAgree`). The memory half is local to a rank: what it holds is in a
channel, in its ticket or in the call it is in (`Kept`), the ticket's phase is how far
the undoing has come (`Progressed`), and what it says in an exchange is so (`Honest`).
The ranks act on an exchange at different times, so they agree not on where they are
but on where each will be once it has done its pending step; no local step changes
that, and an exchange takes ranks that agree to ranks that agree. An export is freed
only after an exchange in which every rank said it has unmapped.

`EngineSteps_proof` and `Engine_proof` assume `CacheAssumption` and `EngineAssumption`:
any requests, prompt and output lengths, budgets, faults and aborts, any finite set of
blocks that holds one request whole, and one or two steps on their way, the two values
`max_concurrent_batches` has here. They prove `EngineTypeOK` (`TypeOK`),
`BlocksAreOwned` (`OwnBlocks`) and `KvIsTheirs` (`OwnKv`).

The invariant is in `EngineInv`, apart from the proofs because TLC can evaluate it: it
was checked on the instance of `engine` with one and with two steps on their way before
it was proved. `EngineSteps_proof` says for each action which part of it can be
disturbed, and proves `Base`, which needs nothing else:

- `QueueInv`: a request is once in the queue of its status. Abort, preemption and
  promotion move it between four queues, one of which is a local of `schedule()`.
- `CurInv`: what the scan has scheduled so far is of running requests it has passed, and
  has its blocks. A preemption in the middle of the scan takes both back.
- `BlockInv`: table, free list and deferred releases partition the blocks.
- `StepInv`: what a step on its way writes is still its request's, or in a release that
  waits for at least as many writing steps as are left up to it. This is the fence of
  `_free_request_blocks`, and the reason a finished or preempted request's blocks can be
  given away while the worker still writes to them.

`Core` adds to `Base` what ties a request to the cache server and the worker:

- `PlaceInv`: with asynchronous scheduling a request has one placeholder for each token
  that the steps on their way sample, so it is never scheduled past its last token.
- `TableInv`: a table holds at least what is counted as computed, and nothing before
  admission and after preemption.
- `TrkInv`: the tracker is where the status says.
- `LoadInv`: the load of a request is in one place only, wanted by its tracker, asked
  for by a step, on its way, refused, reported or told, and its blocks are the request's
  all that time. So blocks under a load are neither released nor written by a step.
- `BadInv`: the worker flags blocks only of loads it reports with the same step; the
  scheduler then finds the request they belong to.
- `FinInv`: no step computes a request that ended after its end was announced, and its
  blocks stay while the worker stores them.

`KvCore` adds the content of the blocks. `KvInv`: what is counted as computed is in the
blocks or in a write of a step on its way. `PutInv`: while no load was lost the tracker
has all blocks of its request, so what is stored under a chunk is that chunk's KV when
the store runs.

`LoadInv`, `KvInv` and half of `PlaceInv` are claimed only as long as no load was
`stray`, `PutInv` as long as none was stray or lost (section 8): the properties exclude
these behaviours by name, and the invariant shows that nothing else breaks them. The
proof corrected `TypeOK` there: `place` is at most `Depth` only while no load is stray,
because a request resumed over a stray load can be scheduled past its tokens; TLC finds
such a state with three requests.

Only model-checked: liveness (`AckedApplyBoots`, `Settles`, `SelfHeals`,
`ServingResumes`, `LevelIsFollowed`, `FleetRecovers`, `TransfersEnd`, `CallsEnd`),
because the prover has no fairness; and `ChunkingIsInvisible` and
`ArgumentsGrow` of `ToolParser`, at its bounds. It is recursive, and a proof about it would be
an induction over the text.

## 7. What is not modelled, and why

- The tokens, TLS and HTML of the page; the certificate marker is the
  `PollCertificate` action. The `SUPERVISOR=0` path, which runs the engine without
  a supervisor.
- Failed reads and writes of the store other than those the script itself handles:
  those are faults, and are budgeted. A `config_cli` command that a container stop
  cuts short: each of its writes is atomic and the next boot starts from the top.
- In `Termination`: dry runs; what is erased; writing `terminate.json`, one atomic
  step here although two workers share its temporary name; the preparation's
  failures, which are in `Supervisor`.
- In `Checkpoint`: external and override drafts, read-only and unreadable files,
  the repository mismatch gate; a copy the download itself cuts short, which it makes
  under another name. In `Layers`: the other knobs, each like one of the
  seven, legacy spellings, the derivation of serve arguments.
- In `Soul`: the probes of level 3, hourly and daily records, what analyses say,
  permissions and the credential's hand-off; failing writes of a snapshot, the queue or
  the status (that of the index and of the journal are modelled); two launchers at the
  very instant between killing what the user runs and starting a controller, one step
  here; two settings saved at once. In `Fleet`: what leads to a scaling
  decision.
- In `Engine`: the local prefix cache, speculative tokens, encoder inputs, LoRA,
  Mamba layers, the watermark of free blocks, priorities, pauses, sleep, resets of
  the cache, and the data-parallel waves of the engine core, which the appliance
  does not turn on. In `LMCache`: registration, keys and salts, layer-wise loading, more
  than one server.
- In `IpcPool`: pools of one channel, stream keys, slot selection, the kernels.
- In `ToolParser`: the buffer for JSON arguments, which this format does not use,
  the parser without thinking, decoding that depends on the context.
- Secure erase and the provider's calls are file walking and HTTP; their outcomes
  are inputs of `Termination`. The ACME retry is a back-off around an external
  client. Failure analysis, build-time patch gates and benchmarks change no state
  another part reads. Copies under `maintenance/` and the evidence under `docs/` are
  history; `KVCacheManager`, which only such a copy holds, is modelled from it.
- Most lines of the repository are upstream vLLM sources and kernels that take no
  part in these protocols: quantisation, argument parsing, model definitions.

Type invariants of `Fleet` and `ToolParser` are left to TLC's evaluation
of their other properties.

## 8. Where the code does not keep a promise

Each was met while modelling; the properties name the case and exclude it.

Configuration and terminations:

- An apply accepted during the back-off, or while a failed preparation is being
  judged, starts with the restart count of earlier contents (`entrypoint.sh:2745`);
  `docs/self-service-config.md:320` says an applied change resets it. `SelfHeals` has
  the disjunct `~BudgetIsPerConfig`.
- An apply whose page died between `config.json` and the restart request
  (`stranded`) is booted only when something else restarts the engine; a verifier
  killed without a verdict (`verifier = "lost"`) leaves a trial undecided, because
  PID 1 watches the file and not the process (`entrypoint.sh:2598`).
- Two tightenings at once: the later write of the whole document drops the earlier,
  confirmed lock (`glm_config.py:1722`), or the two share the temporary name and
  garble what one has published (`:1728`), against `glm_config.py:1605-1608`.
- Two terminate workers can run: the in-progress check reads a document the new
  process writes only after its start (`landing.py:1653`, comment at 68).
  `tlc -config twoworkers.cfg MCTermination` shows it. With two, the failure of one
  clears the stop request of the other, and PID 1 starts the engine under its
  erase. A worker without an answer for 180 s goes on by design
  (`terminate_worker.py:98`, "continuing anyway"), so the property speaks of
  workers that were told the engine is down. A killed worker (`killed`) leaves `terminate.json`
  undone, and every later termination is refused.
- Choosing `MTP_DRAFT=off` and native again pins `MTP_TOKENS=0`
  (`docs/self-service-config.md:49-53`); a template with draft off drops an explicit
  `MTP_TOKENS=0`; under a detected DCP a TP other than the host's pins DCP or drops
  it, and a replay may then be refused (`Adrift`). Float fields print six digits. A malformed strict startup
  value makes `resolve()` raise on the page itself (`landing.py:1143`, `:1345`),
  although `docs/configuration.md:102` and `docs/self-service-config.md:87` promise a
  repair; `step=0.01` rejects the default 0.957 of `GPU_MEMORY_UTILIZATION`
  (`landing.py:1070`).

Checkpoint: there is one text-only backup for all revisions, so an older revision's
template may be put over newer weights (comment at `entrypoint.sh:1388`);
`.download-complete` outlives the revision it spoke of (`:998`); after a stop the
graft's marker may disagree with the layer (`docs/self-service-config.md:390`), which
the reconciler, and not the marker, puts right.
"Keep the text-only one for VISION=0 restore" (`entrypoint.sh:1329`) is not kept when
the container stops inside the copy: the backups of the template, `config.json` and the
index are made in place (`entrypoint.sh:1332`, `reconcile_checkpoint.py:378`,
`build_vision_config.py:49` and `:56`, `index_add_vision.py:29`), guarded only by their
not existing, so one cut short is never made again (`cut`). A `config.json` backup cut
short is then moved over `config.json` (`build_vision_config.py:28`) and every later
preparation fails to read it, until another revision is downloaded; a template's is served. The index is the exception: it is derived again.
The reconciler reports an error and goes on when it cannot copy a template (`:388`) or
remove a journal (`:404`); the engine then starts on a template of the other kind, or the
next preparation takes a native layer for a grafted one (`passed`).

SOUL: a controller killed between its book and its queue forgets an opening, and so
does one that cannot write its index (`torn`); a stand-down between a fork and the note
of its pid misses the launcher (`escaped`). Saving a setting signals PID 1
(`soul_config.py:345`), whose trap (`entrypoint.sh:912`) ends the `wait` for a stopping
supervisor (`:904`): PID 1 then answers that everything is stopped, and may erase or even
resume, with a launcher or a controller alive, although SOUL "is stopped before secure
erase or container exit" (`docs/soul.md:73`). What is left ends when the supervisor's
trap runs. `StoodDownIsQuiet` says so by `leaving = {}`; without this condition it fails
within ten steps, a saved setting and a stand-down. Also evidence whose journal line expired first is dropped although its
incident is open.

Fleet: "keeps one warm" counts listed slots, healthy or not; a retiring victim is
looked up by name (`fleet_manager.py:294`), so its replacement may be destroyed; the
router in `config.yaml` mode knows names only; a paused slot is resumed while another
boots (`docs/jarvislabs-fleet.md:147`).

Engine and cache:

- An abort while a request's load is on its way frees blocks the transfer still
  writes (`vllm_multi_process_adapter.py:1610`, comments at 1667 and 1753; `stray`).
- After a load that failed from its first block the tracker keeps the old blocks
  and the next store is misfiled (`lost`); a tracker that is READY is never asked to
  load again.
- The scheduler side's heartbeat never starts (`:734`, `:716`).
- Head of the line: `schedule()` stops at the first waiting request that does not
  fit (`scheduler.py:1064-1071`). A request behind it whose load has ended is never
  promoted, keeps its blocks and stays in the reservation that makes the first not
  fit. When nothing else runs this lasts for ever, although the reservation is meant
  "to avoid deadlock" (`:1041-1044`). `TransfersEnd` names it `Crowded`; without that
  disjunct `enginelive` fails.

Collective: an exchange that raises on some ranks only may leave tickets at
different phases, the phase is not part of what is exchanged (`pcie_oneshot.py:344`),
and a later retry frees an export under a peer, against the docstring at 773-778
(`split`).

Parser: a lagging tag that fits two places is bound to the wrong one
(`token_id_scanner.py:268` says this does not happen in practice, `glm47_moe.py:12`
says literal tags inside values have structural ids; `clear`); a repeated key
replaces a value that was streamed.

## 9. Plan

Done: `ConfigStore`, `Landing`, `Supervisor`, `Appliance`, `Switches`, `Termination`,
`Checkpoint`, `Layers`, `Soul`, `Fleet`, `IpcPool` and `LMCache` with `Engine`, checked
and proved; `EngineLifecycle` and its refinement, checked and proved; `ToolParser`,
checked.

A theorem to come: that `Switches` without overlapping requests implements the one-step tightening `Termination` takes for granted.

Models to come: the back-off of the ACME retry, the ladder of the provider's calls,
planning a secure erase, and the shutdown of the engine core.
