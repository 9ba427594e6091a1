# Agent libOS: TLA+ verification

TLA+ models of the part of Agent libOS where its correctness is decided by the
order of store transactions, thread steps, provider calls and crashes. The
models are checked with TLC on small instances, and the safety properties
so checked are proved with TLAPS for every instance. `PROJECT.json` maps every
definition to the lines it models, lists the runs, the mutants that show that
each property can fail, the hazards the properties are aimed at, the findings
and the theorems. Source paths below are relative to `src/agent_libos/`.

## 1. The system and its parts

Agent libOS runs LLM agents as *processes* of a small operating system kept in
one SQL store. One Runtime instance opens the store at a time. Its threads
share one store lock, and a store transaction is serialized and atomic. What
spans two transactions (a worker's execution token, a launch in progress, a
provider call) lives in memory and is lost by a crash; the next Runtime has a
new owner id and recovers what it finds before it admits anything.

| Part | State | Operations | Hard behaviour | What makes it correct |
|---|---|---|---|---|
| Process table (`process_transition.py`, `storage/sql.py`) | one row per process: status, typed wait, outcome, `state_generation`, execution generation/owner/lease | insert, transition, claim, complete, recover stale, register wait, wake, signal | stale writers, wait ownership | validated states, fenced tokens stay fenced, terminal is final |
| Process manager (`runtime/process_manager.py`) | the tree, launch publications, child-budget reservations | launch, wait, signal, exit | parent and child end concurrently, launches of three transactions, crash between them | no lost wakeup, no orphan below an exited process, exact reservations |
| Scheduler (`runtime/scheduler.py`) | worker threads and their tokens | claim, run a quantum, settle, fail | takeover while a quantum runs, a raising quantum | a RUNNING row has its worker, every quantum ends |
| Terminal cleanup (`process_manager.py`, `storage/sql.py`) | durable cleanup rows, striped locks | claim, phases, mark, finish, fail, startup sweep | partial failure, lease takeover, nested locks | no phase skipped or repeated, no row forgotten, cleanups of one stripe do not stall one another |
| Protected operations (`sdk/protected_operations.py`, `evidence/external_effects.py`) | external effects, operation objects | prepare, dispatch, phases, settle, reconcile, receipts | a provider the store cannot roll back, failing settlement, crash | effects stay evidenced, charged and within the granted uses |
| Capabilities (`capability/`) | capabilities, use reservations | reserve, commit, restore, revoke | revocation while a use is held | withdrawn authority stays withdrawn |
| Resource manager (`runtime/resource_manager.py`) | budgets, usage, reservations of children and of usage | reserve, charge, kill, finalize | charges along an ancestor chain, kill before wake | nobody is oversold, admitted calls can pay, only overages kill |
| Process messages (`runtime/message_manager.py`, `tools/execution.py`, `runtime/syscalls.py`) | message rows, message waits | post, receive, acknowledge | post against park, acknowledgement against the durable result, blocking syscalls under a fenced token | no missed message, nothing consumed that no result carries |
| Object tasks (`runtime/object_tasks.py`) | tasks, runners, notifications | start, run, settle, wait, resume, cancel, notify, recover | coroutines against reader threads, restart with half-settled tasks | one terminal outcome, result and grant with it, no lost resume |
| Human requests (`human/`) | requests, delivery state | ask, release, present, decide, deliver, cancel | decision against termination, a presentation in doubt | one outcome, no process that waits for nobody, no repeated presentation |
| Runtime lifecycle (`runtime/lifecycle.py`) | admission epoch, operation leases | admit, commit guard, drain, close, recover | commit after shutdown began | no commit after a fence |
| Checkpoints (`runtime/checkpoint_*.py`) | snapshots, restore publications | capture, restore, fork, replay | phases after the main commit, crash between them | an owed restore is finished before mutations are accepted again, waits reconciled |
| Image boot and exec (`runtime/image_boot.py`) | exec publications | exec, takeover, recover | image replaced under a running token | one complete image, current token (planned) |
| Task runs (`runtime/task_runs.py`) | runs, epochs, command receipts | command, replay, attention | retried commands | a command acts once (planned) |

Not modelled, with reasons in `PROJECT.json`: image boot and exec, task runs,
data-flow labels, semantic authority, primitives (file system, git, shell,
JSON-RPC), MCP, runtime modules and skills, storage engines and migrations, audit
and events, configuration, CLI and GUI. All but the first two are I/O, data
validation, or content of a quantum; where a modelled component depends on one of
them, the model keeps the answers it may give. Of object memory, the LLM executor
and the tools only what the modelled components share with them is there: Object
versions and payloads, pending actions of a quantum, and durable tool results.

Interaction: managers call one another inside one transaction (an exit
releases the budget and wakes the parent), through durable rows (a terminal
status inserts the cleanup row), or after a commit (a limit kill is finalized
later). Those three ways are one action, shared state, and two actions in the
models.

## 2. Plan

Done:

1. `ProcessTable`, `ProcessLifecycle`, its proof.
2. `TerminalCleanup`.
3. `ProtectedOperation`.
4. `ProcessMessages`, on the rows of `ProcessTable`.
5. `ResourceBudget`: amounts along the ancestor chain.
6. `HumanRequests`, on the rows of `ProcessTable`.
7. `RestorePublication` with the Runtime lifecycle (admission, commit guard,
   fence, shutdown), and `RestoreContract`, the abstract specification it
   implements.
8. `ObjectTasks`.

9. Proofs of every safety property that a passing run checks, the refinement of
   `RestoreContract` included.

Left:

10. The exec publication (`runtime/image_boot.py` `_recover_exec_publication`): a
    publication of the kind `ProcessLifecycle` has for launches, with a takeover
    of the running token.
11. `TaskRuns`: run epochs, command replay, attention state.

The specifications are written to be proved about: no recursive operator, named
assumptions, invariants in named parts.

## 3. Modules

| Module | Models |
|---|---|
| `ProcessTable` | operators on one process row; no state of its own |
| `ProcessLifecycle` | the tree, workers, launches, signals, exits, limit kills, crash, recovery |
| `TerminalCleanup` | cleanup rows, threads, striped and store locks, crash, startup sweep |
| `ProtectedOperation` | effects, use reservations, usage reservations, capabilities, provider, crash, startup stages |
| `ProcessMessages` | the mailbox of one process, its quantum and JIT and Host readers, pending actions, checkpoint, crash |
| `HumanRequests` | requests, release requests, drains of the terminal queue, outputs, decisions, checkpoint, crash |
| `ResourceBudget` | limits, usage, child allocations, usage reservations, charges, kills, checkpoint, crash |
| `RestorePublication` | the publication of a checkpoint restore, admission leases, fence, shutdown, startup recovery, payload delivery |
| `RestoreContract` | what a restore promises, in three variables; `RestorePublication` implements it |
| `ObjectTasks` | task rows, runners, coroutines, callers, notifications, shutdown, crash, startup |
| `<module>_proof` | theorems about the module: all of the above but `ProcessTable` and `RestoreContract` have one |
| `MC*` | constant values and symmetry for TLC |

A definition under a comment "Mutant: ..." is a faulty variant of one that
follows it. No specification uses it; a mutant run puts it in the place of the
definition and must then violate a property.

Invariants that belong together are checked as one conjunction of named parts,
each with its comment where it is defined: `IInv` (`ProcessLifecycle`), `RowsInv`
(`TerminalCleanup`), `AuthorityInv` (`ProtectedOperation`), `MailInv`,
`RequestsInv`, `PromisesInv`, `RestoreInv`, `TasksInv`. `MarksStand` and
`CleanupEnds` (`TerminalCleanup`) and `Recovers` (`ProtectedOperation`) do the
same for action and liveness properties. The type invariant is a part of the
conjunction.

### ProcessTable and ProcessLifecycle

`row` is the table `processes`; `parent`, `launch` and `reserved` are
`parent_pid`, the launch publications and the child-budget reservations.
`worker` is what a thread holds in memory: where it is (`quantum`, `exiting`,
`settle`, `failing`), its token and the launch it carries. `limitKilled` are
the kills still to be finalized. `epoch` is the owner id of the running
Runtime, `mode` its startup stage. `Below(p)` is what the walk of `_descendant_tree`
collects: the least set with `p` in it that has the children of its members.

Each store transaction is one action. A read followed by a compare-and-swap on
`revision` is one step, as a lost one raises and changes nothing; the revision
is therefore not kept. `Transition` is the write of the update fence with the
rotation of the execution generation; `MayRegisterWait` and
`SignalApplicable` are the rules that protect a wait from other owners.

| Action | Code |
|---|---|
| `ClaimExecution`, `EndQuantum`, `CompleteExecution`, `FailProcessTask` | `scheduler.py` `_run_quantum`, `_fail_process_task`; `sql.py` `claim_execution`, `complete_execution` |
| `WaitChild`, `HostWait` | `ProcessManager.wait` |
| `LaunchBegin`, `LaunchInsert`, `LaunchCommit`, `LaunchRollback` | `spawn_child` and its publication, `_require_parent_launch_fence`, compensation |
| `HostSignal`, `SignalChild` | `signal`, `signal_child`, `_apply_signal` |
| `Exit`, `HostExit`, `FailedExit*`, `HostExitTerminate` | `exit`, `_terminate_descendants_for_failed_exit` |
| `ResourceLimitKill`, `FinalizeKill` | `_persist_resource_limit_kill`, `_finalize_resource_limit` |
| `Crash`, `RecoverLaunch`, `RecoverExecution`, `NextStage` | `recover_incomplete_publications`, `recover_stale_executions`, their order in `builder.py` |

Abstractions: a quantum is any sequence of the calls it may make; any charge
may exceed a limit; any launch phase may raise. Left out: fork and merge, exec
(its takeover fences), Human and message waits (their kinds exist in the row so
that the other components can use it), ObjectTask runners, which may be RUNNING
without an execution lease and are outside `RunningHasItsWorker`.

Two behaviours of the code that the model keeps and the properties except by
name (`WakeOwed`): the scheduler's failure path and the compensation of a launch
wake no parent; a limit kill wakes in a later transaction that a crash loses.
`FailProcessTask` fails a live row whoever runs it by then.

### TerminalCleanup

`cleanup` is the durable row, `effects` a history of the phases whose work has
happened, `stripe` and `store` the locks. `Claim` to `FinishCleanup` follow
`_run_terminal_cleanup` phase by phase. `CancelTask` is an ObjectTask
cancellation that ends its runner, and cleans up after it, inside its own
transaction. A crash rolls that transaction back. `Sweep` is the startup pass
over unfinished rows, one attempt each. Left out: faults in the claim itself,
a rollback of a cancellation without a crash, and the deletion of the row when a
launch that died early is compensated.

### ProtectedOperation

`effect`, `hold`, `usage` and `caps` are four tables; `op` is the operation
object in memory; `world` records what the provider really did, which no code
reads. `Prepare` reserves; `Dispatch` revalidates authority and writes the
dispatched row; `ProviderActs` touches the world at any time during the call;
the call returns, raises, or reports that nothing was started. Settlement
transactions may fail (`MaxFaults`); the operation then goes on as its exception
handlers do. Startup runs the stages of `_recover_runtime_state`: prepared
effects, reconciliation, stale capability reservations, usage. `HostReceipt` is
a receipt accepted later for an effect that no operation works on.

Assumed of providers: an answer of *not started* is truthful about the last
phase. Within this repository all phases commit authority by default and only
git reconciles; the SDK allows the other kinds, and the model checks them.
Left out: unlimited capabilities, expiry, delegation, the semantic layer, charges
without a reservation. An effect found prepared with an invalidated reservation
makes startup fail; `docs/protected_operation_sdk.md` describes that as
fail-closed. `StartupEnds` therefore allows a startup to end refused, and
`OperationsSettle` excepts it; that a startup which finds no withdrawn authority
opens (`Reopens`) is false with a provider that reconciles (section 6). An
operation leaves its record to the next startup only where a settlement
transaction of its own failed: `OperationsSettle` allows as many records as there
were such failures, and no more. `RevokeResource` withdraws what the code updates,
the capabilities that are active; one whose last use is held is not among them.

### ProcessMessages

`row` is the process row of `ProcessTable`, `msg` the mailbox, `pending` the row of
`llm_pending_actions`, `sess` what a quantum or a Host call holds in memory: its
token, its call, and the page it has read. An empty
blocking read registers its wait in the transaction of the read; `post` takes its timestamp before its
own, so messages are inserted in any order. The tool path (`ReadPage`, `Park`,
`Persist`, `StoreTool`) ends the quantum with a pending action, which a later one
claims (`Resume`); the syscall path (`Poll`, `Observe`, `AckSyscall`,
`StoreSyscall`) goes on in the running quantum. An error in the body of a tool
becomes its failed result and the quantum goes on (`Fails`); only a labelled result
of a fenced quantum, or a conflict of the durable result (`Conflicts`), leaves the
call as an exception, and `Raise` is the failure of the process that follows.
`Checkpoint` and `Restore` cover
the mailbox, the row and the pending action, with the reconciliation of a restored
wait and the supersession of later messages.

Left out: filters other than by sender, priorities, several processes, and
forwarding. Seen in the model and stated by no property: two tool readers may carry
one message; a process whose mail went to another reader is claimed again and again
without effect; a fenced syscall may acknowledge what no result carries (section 6).

### HumanRequests

`req` are the requests with their links (a labelled request has a release request
that must be approved and is spent by the presentation) and their mark of doubt,
`row` the processes, `memfence` the fence kept in memory when the mark cannot be
written, `thread` the drains of the terminal and the callers of `output()`. A drain
reads one page of the pending requests (`Page`, `human_request_list_limit`), drops
those of processes in doubt (`Queue`), and claims the head of what is left in memory
(`Select`). Where a release is needed it asks for one or finds the one asked before
(`AskRelease`, `FindRelease`, `TakeRelease`); it presents the request outside every lock
(`Dispatch`), and then decides it, gives it back, or leaves it in doubt
(`MarkUnknown`, `MarkFence`, `MarkMemory`). `HostDecides`, `Terminate` with
`CleanUp`, `Interrupt`, `Restore` and `Crash` race with it.

Left out: GUI releases, semantic denials, drains from JIT syscalls, and the grant
an approval makes. Behaviours kept in the model that no property contradicts:
`interrupt(PAUSE)` replaces a `host_resume` gate by an ordinary pause; a restore
cancels a pending release without its parent and may turn a Host gate into an
ordinary pause; a crash takes a prepared output of a cleaned-up process back to
PENDING; a crash during provider I/O leaves a request PENDING without a fence.

### ResourceBudget

One additive field. `limit`, `used` and `line` are the budget, the usage and the
ancestors of a process, `held` its allocation at its parent, `call` the usage
reservations of provider calls. A charge adds along the whole chain and consumes the
allocations on the way; an overage and the kill it causes are two transactions
(`ChargeOverage`, `KillExceeded`). `Restore` rewinds usage and allocations of a
subtree, deletes the rows launched since, and leaves usage reservations alone.
`RecoverRelease` and `RecoverMaximum` are the startup pass; it refuses to open when
the process of a reservation is gone (`RecoverVanished`). `overrun` is a history
variable: the processes whose accounting an overage has touched. A fork of the
checkpoint of such a process is one of them: it keeps the usage that was captured and
may be born over its limit, which the root limit of 2 in the run does not show and the
proof of `NotOversold` does. `Total` is a sum over a set as the number of its units.
Left out: peak fields, child counts, finalizer callbacks. A restore deletes the
allocation that the root of its scope holds at its parent; `AllocationCoversChild`
excepts it by name.

### RestorePublication and RestoreContract

`pub` are the publications: state, receipts, claim and attempts, payload delivery.
`row` and `cache` are Objects and their volatile payloads. `life`, `epoch`, `lease`
and `fence` are the lifecycle of `runtime/lifecycle.py`: an operation commits only
under a lease of the current epoch (`MayCommit`), which a fence
raises. `MainCommit` commits the rows; `Effect` and `Receipt` are the phases that
follow it; a failure fences the Runtime (`OnlineFails`), and the next one finishes
the publication (`Claim` to `FinishRecovery`), hydrates payloads, prepares and
completes their delivery and acknowledges it in the transaction that opens
(`AckAndOpen`, and `AckAmbiguous` for one whose outcome is unknown). `Discard` is a
Host that ends a fenced or closed Runtime. Each restore has a checkpoint of its own, at
its own version (`CapturedAt`): reconciliation puts a payload back under the row that
the restore committed, passes over newer and released rows, and refuses an older one
(`Reconcilable`), which is what an older checkpoint restored in between would leave.

`RestoreContract` says what this machinery is for: a Runtime accepts mutations
beside an unfinished restore only if that Runtime committed it. The mapping sends
`life` to *accepting* and the unfinished and undelivered publications to *owed*.
Left out: digests and plans, paging, the operation projection, publications of other
kinds, updates of an Object that do not change its version.

### ObjectTasks

`task`, `runner`, `result`, `grant` and `handle` are durable; `pc` are the
coroutines on the event loop, found through `future`, `active` and `args` (`_futures`,
`_active_runs`, `_pending_args`); `undone` are cancelled futures, which count as done
whatever the coroutine still does. `Spawn`, `Insert` and `HandOff` are the three
hand-overs of `start`; `Begin` to `Forget` the coroutine, one step per transaction or
await; `Refresh`, `RetryNotice` and `Cancel` the callers; `ConditionMet`,
`HumanDecides`, `RunHook` and `ReconcileMail` what resumes a waiting task;
`BeginShutdown` to `NextPass` shutdown and the three startup passes.

Left out: the concurrency limit as a number (the refusal it leads to is there), owner
watches, visibility of `list`, tasks superseded by a restore, tools that may not be
replayed, the creator's handle. Behaviours of the code that the model keeps,
and that the properties except or do not speak of: `_forget_future` names the task and not the future, so a late callback
drops the entry of a newer run and a second one can start; a child that ends between
the read and the registration of the wait wakes nobody; a crash between spawn and
insert leaves a runner without a task; a result whose wiring raises after a cancel
won is left behind; startup retries no notification of abandoned tasks.

## 4. Runs

| Run | Bounds | Shows |
|---|---|---|
| `lifecycle` | 3 processes, 2 workers, 2 quanta, 1 Host operation, 1 signal by a parent, 1 fault, 1 crash (915 thousand states) | the inductive invariant, no stranded parent, no orphans, exact reservations, finality, fencing |
| `lifecycle_live` | 2 processes, 2 workers, 1 crash, 1 fault (113 thousand states) | a running row leaves RUNNING; limit kills wake the parent |
| `cleanup` | 2 processes of one stripe, 2 threads, 2 faults, 1 crash, 1 retry, 1 cancellation (80 thousand states) | marks, leases, monotonic progress, no forgotten row; startup sweeps end, pending rows are claimed and claims end unless a cancellation keeps the store lock |
| `protected_shared` | 2 operations, one capability of 2 uses, 1 other use, 1 revocation, 1 resource revocation, 1 fault, 1 crash (4.2 million states) | uses limit effects, effects are charged, withdrawn authority stays withdrawn |
| `protected_phases` | 1 operation, 2 capabilities, 3 kinds of phase, a provider that answers for it, 2 faults, 2 revocations, 2 crashes (90 thousand states) | evidence, discharge by recovery, startup ends, operations settle |
| `messages` | 2 messages of 2 senders, a quantum and a Host reader, tool and syscall calls, a pause, 2 faults (860 thousand states) | no lost wakeup, nothing acknowledged by a tool without its result, superseded mail stays out, a parked reader is served |
| `human` | 3 requests of 2 processes (labelled question, permission, output), pages of 2, a drain and a caller, 2 faults, 1 control (517 thousand states) | no wait for nobody, one decision, no repeated presentation after a doubt, releases are served |
| `budget` | 3 processes, a root limit of 2, child limits of 1, 2 or none, 2 calls, 1 checkpoint (775 thousand states) | nobody is oversold, admitted calls can pay, allocations cover, only overages kill |
| `restore` | 2 restores of versions 1 and 2, 2 operations, 1 Object, 1 finalizer, 2 attempts, 2 faults (193 thousand states) | receipts and payloads complete, no commit after a fence, no sweep before delivery, `RestoreContract`, every restore settles |
| `object_tasks` | 1 task, 3 tools, 2 coroutines, 3 faults (152 thousand states) | first outcome stands, result and grant with a success, told once; waits are served, outcomes are told |
| `stranded_parent` (violation) | 2 processes, 1 fault | finding 1 |
| `runner_scheduled` (violation) | 1 task, no fault | finding 2 |

Why the bounds are enough for the questions asked. Three processes give a
grandchild, so that a middle process can end while it launches. Two workers and
two quanta give a stale and a fresh token of one process: a process leaves
RUNNING under its worker, is woken or resumed, and is claimed by the other. Two
threads and a retry give two cleaners of one process. In `cleanup` the pids share
a stripe (the code takes one of 64 by a sum of bytes), so that cleaners of
different processes wait for one another, and the deadlock with an ObjectTask
cancellation is among its behaviours: the liveness property allows that one stall
and no other (section 6). Two operations on one capability, next to a plain use of it,
give the race for its last use; two crashes let a recovery be interrupted.
Both `protected` runs have a provider that answers for past effects. Two messages give
insertion out of order and a read of one while the other arrives; two readers give
the race for a message. Three requests are a labelled question, its release, and
the request of a neighbour; a page of two leaves one of them off it. Limits of 1 and 2 with amounts of 1 and 2 give exhausted,
exact and exceeded budgets at two levels. Two publications give a restore
next to one that an earlier Runtime left, its delivery and its sweep; two attempts
exhaust. Two coroutines are a run that
is ending and its successor.

Every counter that would make the state infinite (claims, Host operations, signals,
retries, faults, crashes, versions, attempts) is bounded by a named constant in a
guard. Deadlock is checked in `budget`, `restore` and `object_tasks`. In the others,
when the bounds are used up the system may stop, and an idle Runtime is a legal
state; that threads do not wait on one another forever is there the subject of the
liveness properties. Symmetry is used in `lifecycle` (workers, processes other than
the root) and `budget` (children, calls), whose properties are all safety properties.

Fairness. Threads that are inside straight-line code go on (weak fairness); a
quantum returns at some point although calls it makes disable the return for a
while, and a lock that is free again and again is acquired (strong fairness:
Python's locks have no order but do not exclude a waiter forever). A provider
call ends and the Host restarts a Runtime that did not open. `messages`: the
scheduler claims what is runnable, and the time limits of tools and sandboxes end
every call. `human`: a drain goes on while the queue has a request for it, the
Human answers, and the terminal cleanup of a process goes on. `restore`: reconciliation and startup run on, admitted operations end,
and the Host ends a Runtime that is fenced or closed and starts the next.
`object_tasks`: the event loop, threads inside a call and startup go on, and somebody
reads the task now and then (a waiting task whose hook was lost is resumed by a
read). Nothing makes the Host signal, a message arrive, or a crash happen.

## 5. Proofs

Each theorem holds for every value of the constants that satisfies the named
assumption of its module: any number of processes, threads, operations, tasks,
requests, messages, publications, faults, retries and crashes. The assumptions give
the constants their types (bounds are natural numbers, owners, stripes and senders are
functions into their sets), keep the values standing for "none" out of the sets they
extend, and say five things more: the root is a process, there is some read to make
(`Calls # {}`), some version and some use to begin with (`MaxVersion > 0`,
`Uses > 0`), the operations are finitely many, since their uses are counted, and the
processes and provider calls of `ResourceBudget` are finitely many and its amounts
positive, since they are summed.

| Module | Theorem | Statement |
|---|---|---|
| `ProcessLifecycle_proof` | `Invariance` | `Spec => []IInv` |
| | `TypeCorrect`, `ConsistentStates`, `RunningIsOwned` | `Spec => []TypeOK`, `[]StatesConsistent`, `[]RunningHasItsWorker` |
| | `TerminalFinality`, `FencedTokens` | `Spec => TerminalIsFinal`, `Spec => FencedTokenStaysFenced` |
| | `TreeInvariance` | `Spec => []TreeInv` |
| | `ParentsWoken`, `ReservationsKept` | `Spec => []NoStrandedParent`, `[]ReservationsExact` |
| | `GatesHeld` | `Spec => HostGateHeld` |
| | `Carriers`, `DownInvariance` | `Spec => []LaunchesCarried`, `[]DownInv` |
| | `ExitsAreClean` | `Spec => []ExitedHasNoLiveDescendants` |
| `TerminalCleanup_proof` | `Invariance` | `Spec => []IInv` |
| | `NothingSkipped`, `RowsAgree` | `Spec => []MarkedIsDone`, `[]RowsInv` |
| | `ProgressStands` | `Spec => MarksStand` |
| `ProtectedOperation_proof` | `Invariance` | `Spec => []IInv` |
| | `EffectsEvidenced`, `EffectsCharged` | `Spec => []EffectsAreEvidenced`, `[]EffectsAreCharged` |
| | `LossesDischarged` | `Spec => []RecoveryDischarges` |
| | `UsesLimited` | `Spec => []UsesLimitEffects` |
| | `AuthorityKept` | `Spec => []AuthorityInv` |
| `ProcessMessages_proof` | `Invariance` | `Spec => []IInv` |
| | `NoLostWakeup`, `MailConsistent` | `Spec => []ParkedHasNoMail`, `[]MailInv` |
| | `SupersededOut` | `Spec => SupersededStaysOut` |
| `HumanRequests_proof` | `Invariance` | `Spec => []IInv` |
| | `WaitersAnswerable`, `RequestsEndTogether` | `Spec => []WaitIsAnswerable`, `[]RequestsInv` |
| | `FirstDecisionStands`, `DoubtShownOnce` | `Spec => DecidedOnce`, `Spec => DoubtNotRepeated` |
| `RestorePublication_proof` | `Invariance` | `Spec => []IInv` |
| | `RestoreComplete` | `Spec => []RestoreInv` |
| | `FenceHolds`, `SweepWaits` | `Spec => NothingAfterFence`, `Spec => NotSweptUndelivered` |
| | `KeepsContract` | `Spec => ImplementsContract`: the refinement of `RestoreContract` |
| `ObjectTasks_proof` | `Invariance` | `Spec => []IInv` |
| | `TasksConsistent`, `OutcomeToldOnce` | `Spec => []TasksInv`, `[]ToldOnce` |
| | `OutcomeStands` | `Spec => FirstOutcomeStands` |
| `ResourceBudget_proof` | `Accounting` | `Spec => []IInv` |
| | `NeverOversold`, `PromisesKept` | `Spec => []NotOversold`, `[]PromisesInv` |
| | `OnlyOverageKills` | `Spec => []OnlyOveragesKill` |

`IInv` is in each module the inductive invariant: that of `ProcessLifecycle` is
defined in the specification, where its run checks it, the others, and `TreeInv` and
`DownInv`, in the proof module. TLC has confirmed each on the constants of its component's passing
runs. All proofs have the same form. Lemmas say what the row operators and the parts of an action do
to a row; a step of one task, operation or request is seen from the others as
leaving them alone; there is one lemma or one step per action, and under it one step
per conjunct that the action can disturb. The action properties follow from `IInv`
and one more case split on the actions.

**ProcessLifecycle.** `RunningHasItsWorker` is not inductive by itself: a compensated
launch deletes a row, which is harmless only because a launch in progress has one
carrier and no row exists before its insertion (`LaunchesOwned`); and a reopened
Runtime must not take a row of a dead one for its own, which needs every owner to be
a past epoch (`OwnersPast`). `FencedTokens` follows from the execution generation: it
only grows, a fenced token names an older one or a row that is not running, and a
claim takes a fresh one.

The properties that relate several rows have an invariant of their own beside `IInv`,
`TreeInv`. A parent is woken by the end of a child only if the child's `parent_pid`
leads to it, so a wait must name a child of the waiting process (`WaitedIsChild`); a
launch gives a pid its parent, which must not tear it from the children of an earlier
one (`FreshIsAlone`); and a kill whose finalization is owed, by which the parent will
be woken, must not be undone by a later write of the row (`KillStands`). For this
argument a step is one of nine kinds or a crash (`TreeKind`): it leaves waits alone,
parks a process, ends one with or without the wake, kills a subtree, finalizes a
kill, or begins, inserts or deletes a launch. `GatesHeld` needs only that a gated row
is paused, so that neither a claim nor a wake, a completion or the recovery applies
to it.

`ExitsAreClean` is about the whole tree below a process. Since `Below(p)` is a least
closed set, a fact about everybody below `p` is shown by giving the set of those of
whom it is true and showing that the set is closed; no induction on the length of a
path is needed. The exit itself finds nothing alive below. The step that could spoil
this later is the commit of a launch, which takes a shelter away: the fence at the commit
has looked at the parent of the child (`LaunchesCarried`: the worker that carries the
launch runs that parent) and found it alive, so the parent, if it is below the exited
process, stands itself at or below another launch that has not committed, and as the
tree has no cycle (`Acyclic`) that one is not the one being committed. A compensation
deletes a row in the middle of the tree and cuts off what is below it; who stays below
the exited process keeps its shelter because ancestors are in a line
(`BetweenAfterCut`).

**TerminalCleanup.** That a marked phase has run needs to be known before the mark is
written: the thread about to write it has run the phase (`MarkFollowsRun`), still has
the lease (`LeaseHeld`), and has left only phases that are not marked
(`LeftIsUnmarked`). No other thread can replace the lease meanwhile because it holds
the stripe of its process (`StripeHeld`). `SweptIsTaken` carries the startup sweep:
a row that it has reached is claimed by this Runtime or on the way to be.

**ProtectedOperation.** A use is given back in four ways, and each has its own
evidence that nothing happened: the phases counted in memory (an abort), the mark in
the row and the word of the provider (a receipt), and the state *prepared*
(`recover_prepared`). `TouchIsKnown` says that, wherever the operation is, one of
them tells that the world was touched. With it, an operation that touched the world
has given no use back (`HoldsKept`), so the operations that touched it are among
those that still count in `UsesAccounted`: the uses left, the uses consumed and the
uses with an operation are together the grant. `Discharged` carries what each stage
of the startup has dealt with to the next one. `AuthorityKept` says of every
capability that the code marked revoked or disabled, by id or with its resource,
that no use which is given back revives it; the capability that a revocation of its
resource passes over is not among them (`ResourceStaysRevoked`, section 6).

**ProcessMessages.** `ParkedHasNoMail` rests on three transactions: the one of an
empty read also registers the wait, the one of a post also wakes, and the one of a
restore reconciles the wait it puts back with the mail. `MailInv` needs that a session
acknowledges only what is in the page it has read (`GoodSession`), and that a
checkpoint can be put back: its row is valid and the mail it holds as acknowledged by
the tool was carried when it was captured (`CheckpointIsSound`).

**HumanRequests.** A wait names requests that block, of the waiting process
(`WaitsInv`, of the captured rows too), so that whoever settles the last of them looks
at that process. An output never blocks (`human/manager.py:1605`), so a delivery
settles no wait (`AskedInv`). A release is unlabelled and belongs to a labelled
request of the same process (`ReleaseInv`), so that the two end together. A thread
alone holds the request it presents (`ThreadsInv`); hence a doubtful request is
settled, fenced, or in the hands of the thread that presented it (`DoubtInv`). The
head of the queue is the least of a set of numbers, which needs the well-foundedness
of the natural numbers.

**RestorePublication.** Two arguments meet. A lease admitted before a fence is of an
older epoch, and after it only reads are admitted (`FenceInv`), so a fenced Runtime
commits nothing. And what is owed is at most one restore, which a Runtime that may
commit is reconciling itself (`OwedInv`); the next startup completes it (`JobInv`,
`EffectsInv`), has its payloads in memory before it runs or delivers it
(`HydratedInv`, `PayloadInv`) and has delivered it before the stage that opens
(`DeliveryInv`, `StageInv`). `KeepsContract` shows that initial states map to initial
states and every step to a step of `RestoreContract` or a stutter, from the same
invariant.

**ObjectTasks.** A task may have several coroutines, since a late callback removes the
future of a newer run. What keeps them apart is the runner: while it lives, one
coroutine uses it (`UserInv`); between two awaits a coroutine is alone on the loop
(`LoopInv`); and a result that is published stays the task's, as the others could
only have come by it through the runner (`PublishInv`). `SuccessInv`, `SettleInv`,
`GrantInv` and `ToldInv` follow the outcome into the row, the grant and the
messages, `StartInv` and `PhaseInv` the callers of start and the startup passes.

**ResourceBudget.** The invariant is in terms of `Need`, what a process has used and
what is taken of it: its own envelopes and, for every child, the larger of the child's
allocation and the envelopes below the child. `NeedFits` says that the Need of every
process with a budget that no overage has reached fits its limit. It is `NotOversold`
for ended processes too, because their ancestors still count what their envelopes take.
To preserve it one must know that an allocation is never half there (`HeldCovers`,
`AllocationCoversChild`): it is at least what is left of its live child's budget, or
zero. A charge, a reservation, a launch and a settlement then
change the Need of each process of a chain in one summand only, the child on that
chain (`ChainSwap`), and the code's preflight, which looks at usage, allocations and
envelopes separately, gives the inequality at each of them (`ChargeFits`,
`ReserveFits`). A settlement needs no preflight: it moves units from the envelope to the
usage, so no Need on the chain grows (`SettleNeed`), which is why an admitted call can
always pay and only overages kill. `SavedInv` says the same of what a checkpoint
holds, so that putting it back, next to envelopes opened since, breaks nothing
(`RestoreKeeps`). `LineInv` keeps the recorded ancestors a tree, `CallsInv` an open
envelope with a row.

What is only model-checked, and why:

- all liveness properties (`RunningIsLeft`, `LimitKillWakesParent`, `CleanupEnds`,
  `Recovers`, `ParkedReaderServed`, `ReleasesServed`, `RestoresSettle`, `WaitIsServed`,
  `OutcomeIsTold`): the prover's backends treat neither fairness nor ENABLED.

The induction theorems of the library take an operator as a parameter, which the
provers cannot instantiate. Where a proof needs induction (sums over sets in
`ResourceBudget`, ancestors in `ProcessLifecycle`) it goes by a minimal counterexample
or a least closed set instead, both of which are sets.

## 6. Findings

Two runs end in a counterexample to what the documentation says:

1. **A failed child strands its parent** (`runtime/scheduler.py:714`). A quantum
   that raises makes the process FAILED without waking the parent or releasing
   the budget, against `docs/runtime_model.md:1614`.
2. **The runner of a rejected ObjectTask is given to the LLM scheduler**
   (`runtime/object_tasks.py:1742`). A rejection makes the runner RUNNABLE, and the
   read that fails the task does not end the runner, against
   `docs/tools_and_jit.md:329`.

Further counterexamples, each reproduced by the configuration named, on the MC
module of its component:

| Configuration | Property | What the code does |
|---|---|---|
| `CleanupDeadlock.cfg` | `PhasesAttempted` | `object_task_state.py:251`: a cancellation holds the store lock and waits for a stripe whose holder waits for the store lock, against `docs/runtime_model.md:1649` |
| `ReceiptRefused.cfg` | `ReceiptCanSettle` | `storage/sql.py:22172`: startup abandons the use of an effect it leaves unknown, and every later receipt is refused, against `docs/durable_task_runs.md:477` and the comment at `runtime/builder.py:5864` |
| `StartupBlocked.cfg` | `Reopens` | `evidence/external_effects.py:487`: a *not started* answered after the use was committed makes every startup fail, against the test at `tests/runtime/test_effect_transactions.py:131` |
| `ResourceRevoke.cfg` | `ResourceStaysRevoked` | `capability/mutation.py:340`: revoking a resource misses a capability whose last use is held, against `docs/capabilities.md:82` |
| `BudgetVanished.cfg` | `RecoverySettles` | `runtime/resource_manager.py:947`: a restore deletes the process of an unsettled usage reservation, and startup then fails on it, against `docs/runtime_model.md:1322` |
| `MessageClaim.cfg` | `NoClaimLeftBehind` | `storage/repositories.py:3522`: a checkpoint taken while an action is being resumed captures it as *resuming*, and after the restore nobody resumes it; compare the comment at `llm/executor.py:4328` |
| `MessageLost.cfg` | `ConsumedIsCarried` | `runtime/syscalls.py:897`: a JIT session whose quantum was fenced by its own wait acknowledges a message and cannot store its result; compare `docs/tools_and_jit.md:706` |
| `HumanStarved.cfg` | `NeighbourServed` | `human/manager.py:2575`: a doubtful presentation, decided by the Host meanwhile, gates its process; a labelled request of that process can no longer ask for its release, stays at the head of the queue and keeps the requests of other processes from being presented, against the comment at `human/manager.py:2560` |

## 7. Running

    tlc -workers 2 -config Lifecycle.cfg MCProcessLifecycle
    tlapm ProcessLifecycle_proof.tla

The configuration and module of each run are in `PROJECT.json`. The eight
`*_proof.tla` modules are checked in the same way as `ProcessLifecycle_proof`.
