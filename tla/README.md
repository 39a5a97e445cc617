# M32 bridge: specification, model checking and proofs

The M32 bridge lets a language-model host read and, after approval, change a Midas
M32 or Behringer X32 mixing console over OSC/UDP. It is a Python package
(`src/m32_bridge`), called through MCP tools and a command line, with an installer
around it. This directory holds TLA+ models of the parts whose mistakes would
reach the console, the runs that check them with TLC, and the theorems that TLAPS
proves about them for every value of their constants.

## Parts of the system

| Part | Code | State | Operations |
|---|---|---|---|
| Proposal store | `core/proposals.py`, `core/models.py` | proposals by id, each with status, operations, base revisions, expiry | add, get (marks the expired), mark_used, cancel_pending_by_emergency |
| Execution | `core/executor.py`, `core/conflicts.py`, `core/readback.py` | none of its own; a call in progress | conflict reads, policy, write, readback, record |
| Rollback | `core/rollback.py`, `mcp/write_tools.py` | none of its own | restore every operation's before value, record |
| Policy | `core/policy.py`, `core/operations.py`, `core/rate_limits.py`, `core/semantic_paths.py` | constant tables | build and re-check an operation |
| Emergency controller | `core/emergency.py` | runtime mode and four flags | lock, enter, exit, unlock |
| Connection controller | `core/connection.py` | five flags and the time of the last reconciliation | health check, reconcile, reconnect with backoff, guarded write, request unlock |
| OSC | `osc/` | one socket per request; the subscription's renewal time | request (answer or timeout), send, codec, discovery |
| State cache | `state/` | value, revision and freshness per path | apply an event, reconcile a path, snapshot |
| RTA scan | `diagnostics/rta.py` | the console's analyser source | save, move, measure, restore |
| Audit | `audit/writer.py` | an append-only file | append, or raise |
| MCP dispatch | `mcp/server.py`, `mcp/transport_http.py` | a table of tools | call a tool with injected arguments |
| Read and analysis tools, diagnostics | `mcp/read_tools.py`, `mcp/analysis_tools.py`, `diagnostics/`, `core/status.py` | none | one or a few reads, then formatting |
| Configuration | `config/` | a saved file | load, replace atomically |
| Command line, shell | `cli.py`, `interactive_shell.py` | selected profile | parse, dispatch, print |
| Runtime Console | `installer/tty_app.py`, `installer/runtime_status.py` | the session's result (last probe, its endpoint, snapshot), the screen, a command that waits for setup | key loop, setup form, `/get-info`, `/verify-device`, status |
| Release selection and download | `scripts/install.sh`, `scripts/secure_bootstrap.py`, `installer/release_resolver.py`, `installer/script_runtime.py` | the plan and the staging directory of one run | resolve a selector, read and validate a manifest, download, extract, validate again |
| User-local installation | `installer/script_runtime.py`, `installer/install_metadata.py`, `installer/verification.py` | application tree, launcher, install metadata, pending marker, backups | preflight, candidate, swap, undo, record, hand over |
| Installer tables and text | `installer/platform*.py`, `installer/mcp_guidance.py`, others | none | detect, describe |
| Fake console | `fake_m32/` | values by path, one revision counter | answer reads, apply writes, inject failures |

How they interact. A host calls MCP tools one at a time; the bridge has one
thread, so two calls never overlap. A call talks to the console by UDP requests,
each on a socket of its own with a timeout, and by write datagrams that nobody
acknowledges. The console is shared with an operator who moves controls at any
time. The proposal store, the emergency controller and the connection controller
are objects the tools are given; the executor is given the store and the caller's
runtime mode, and neither of the controllers.

The runtime console is one thread too, but the configuration it reads is a file
that `m32-bridge config set` or an editor changes meanwhile. The installer shares
the disk with its own earlier runs, cut wherever they were cut, and reads GitHub
one request at a time, while tags and releases move.

What is hard about it: the operator moves between two network steps of a call;
datagrams are lost or late; a transaction fails in the middle; the audit file
fails after the console was written; proposals expire, are cancelled and are asked
for again in any order; what was reconciled is too old when it is used; a
configuration changes between the probe and the status built from it; a rename of
an installation fails, or its process dies, after the one before; a tag moves
between the request that resolves it and the one that downloads it. `PROJECT.json`
lists each of these at its line under `hazards`.

### What makes each part correct

* Proposal store and execution: a proposal is written at most once and in order;
  it is called verified only when each operation was read back; a transaction that
  wrote anything is closed and recorded; terminal proposals stay closed; what an
  emergency found is never executed; a change by hand after the snapshot, and
  before the call's own read of the path, blocks the call.
* Connection: writes pass only between a completed reconciliation and the next
  miss; the flags never disagree; retries and sleeps are bounded; calls return.
* Emergency controller: the lock is off only in OBSERVE and only after answers
  from the console for everything required.
* Policy: every table entry and bound is what the documents say, and the same at
  proposal and at execution.
* RTA scan: the source is put back, or the failure is reported.
* State cache: a value is never replaced by an older one.
* Subscription: while writing is unlocked the console still reports its changes.
* Runtime console: a status speaks of the endpoint it names; a saved configuration
  is whole; a command that waited for setup runs once.
* Release download: what is accepted is what was asked for, and what is recorded
  is what was accepted.
* User-local installation: a run replaces the installation as a whole or not at
  all, says which, and never lets a record speak of another tree.

## Modules

| Module | Models | Extends |
|---|---|---|
| `WritePolicy` | the policy decision, as constant operators | |
| `EmergencyController` | the record of five flags and what each method leaves in it | `WritePolicy` |
| `ProposalExecution` | store, execution, rollback, write tools, console, operator, network | `EmergencyController` |
| `OneShotTransaction` | the abstract promise of a proposed change | |
| `ConnectionHealth` | connection and emergency controller and the console's answers | `EmergencyController` |
| `WriteGate` | the abstract promise of the connection | |
| `RtaScan` | the RTA scan, the console's analyser, the operator, the network | |
| `StateCache` | the state cache, its readers, the xremote subscription, the console | |
| `RuntimeConsole` | the runtime console's session and the saved configuration | |
| `UserLocalInstall` | one installation after another on one disk | |
| `InstallPromise` | the abstract promise of an installation | |
| `ReleaseBootstrap` | from a selector to an accepted tree, and GitHub | |
| `MC...` | small constants for TLC, one for each module that is run | the module of that name |
| `..._proofs` | theorems, one for each of the seven protocol modules | the module of that name, `TLAPS` |

### `ProposalExecution` and `OneShotTransaction`

*Console*: `value` and `revision` (the fake console's one counter, bumped by each
write that is applied and each manual change), `inflight` (write datagrams sent
and neither delivered nor lost). *Store*: `status`, `plan`, `base`, `expired`.
*Call in progress*: `pc`, `cur`, `mode`, `k` and two flags. *Records*: `audit`, a
set of results per proposal. `written`, `matched`, `manualRev`, `readRev` and
`stood` are history that only properties read.

A call is one action where it does not touch the network, and is cut at each
request and each datagram where it does, since only there can the operator, the
network or the clock come between:

| Code | Actions |
|---|---|
| `m32_propose_changes` | `Propose` |
| `m32_verify_proposal` | `Verify` |
| `execute_proposal`, early returns | `ExecuteDenied`, `ExecuteInEmergencyMode` |
| `detect_conflicts` | `ExecuteStart`, `ReadForConflict`, `ConflictReadFails`, `ConflictsFound`, `NoConflicts` |
| policy loop | `PolicyDenies`, `PolicyPasses` |
| write loop | `WriteOperation`, `ReadbackMatches`, `ReadbackDiffers`, `OperationRaises`, `Finish` |
| `m32_rollback_proposal` | `RollbackDenied`, `RollbackStart`, `RollbackWrite`, `RollbackReadback`, `RollbackRaises`, `RollbackDone` |
| enter and exit emergency | `EnterEmergency`, `ExitEmergencyToObserve` |
| the fake console, the operator, the clock | `Deliver`, `Lose`, `ManualChange`, `TimePasses` |

`ExecuteDenied` merges the returns that differ only in an error code: not
confirmed, always allow, unknown, terminal, wrong digest or count. `Record` leaves
the audit set unchanged when the append fails; what the exception does to the rest
of the call is the order of the assignments in each action.

A request's answer is not a message of its own: each request uses a fresh socket,
so an answer that comes late is never read by a later request. Write datagrams are
messages, because a late one does change the console. A datagram is delivered at
most once.

The base revision is any revision the console has had (the host chooses it). A
before value is any value the host supplies. The audit writer is assumed to be
given, as the command line does; without one nothing is recorded.

`OneShotTransaction` states what whoever approves a change may rely on, without
calls, datagrams, clocks or emergencies: a change is offered, then either dropped
or executed in one transaction, which sends its operations in order, each after
the one before it was confirmed, and says "verified" only when all of them were; a
closed change stays closed. `TransactionSpec` is that specification with the
refinement mapping

| Abstract | Here |
|---|---|
| `state[p]` | `TransactionState(p)`: running while a call writes or reads back for `p` (`InTransaction`), open while pending otherwise, closed in any other stored status |
| `size[p]`, `sent[p]` | `Len(plan[p])`, `Len(written[p])` |
| `confirmed[p]` | `matched[p]` |
| `claims[p]` | the execution outcomes in `audit[p]` |

So a transaction begins at `PolicyPasses` and ends at `ReadbackDiffers`,
`OperationRaises` or `Finish`; an expiry, an emergency, a denial or a conflict
drops the proposal; a rollback, with its record, and all that happens at the
console is a stutter. `ClosedStaysClosed` of the proof module says the part of it
about terminal statuses directly.

### `ConnectionHealth`

`health` holds the four flags and `age` the age of `last_reconciled_at` against
`freshness_seconds`. Each request to the console is one step that is answered or
missed; `GrowOld` may come between any two. `controller` is the emergency
controller, whose unlock asks `require_reconciled_for_writes`. `answered`,
`writes`, `settled` and `slept` are history. An identity reply whose revision is
not a number raises outside the code's `try`: `IdentityRaises`.

`WriteGate` states what a caller may rely on: the gate is closed at first, a miss
closes it, and it opens only when every item has been answered for in one round
without a miss. `ConnectionHealth` implements it with `open <- Allowed`, the
decision of `require_reconciled_for_writes`.

### `RtaScan`

`source` is what the console's analyser listens to, `inflight` the selections on
their way to it. `scan_rta_sources` is cut at each request:

| Code | Actions |
|---|---|
| early returns | `ScanDenied` |
| reading the original source | `Start`, `ReadOriginal`, `OriginalReadFails` |
| the loop | `SelectNext`, `CancelSeen`, `AllScanned`, `Selected`, `SelectRaises`, `Measured`, `MeasureFails` |
| `finally` | `RestoreSkipped`, `RestoreAsked`, `Restored`, `RestoreFails` |
| the fake console, the network, the operator | `Arrive`, `Lose`, `SelectByHand` |

A selection is a request with a number. The console may handle it at any time,
also after the bridge has given it up, or never see it, and the bridge may give it
up at any time, also after it was handled: that is a lost answer. `SelectRaises`
stands for a refusal, a timeout and a reply that cannot be read, which all leave
`_set_rta_source` by an exception. `status = "raised"` is a scan that left by one;
then the caller gets no result, and `RestoreFails` is not reported, since the code
swallows it (`finally` runs, the exception goes on). `Unknown` is every answer
that `_normalize_source` turns into `None`: the restore is skipped then and a scan
without other trouble is called a success. The scan asks no proposal and no
emergency controller, only the mode in the call. `KeyboardInterrupt` is left out.

A selection made by hand during the scan is overwritten by its end: the code
writes back the source it found at the beginning without looking again.
`RestoredIsOriginal` therefore speaks of a scan that nobody disturbed, and
`disturbed` says when that ends. A late request of an earlier scan disturbs the
next one in the same way. `NothingLeftBehind` says which scans leave none.

### `StateCache`

`cache` is what `StateCache` holds, `answers` what readers have got from the
console and not yet applied: the bridge's tools each make their own request, and
nothing orders the applications. `value`, `revision` and `half` are the fake
console: its datagram thread stores a value and counts the revision in one step,
but `set_value` and `set_gain`, called from another thread, count first and store
after (`BeginByHand`, `EndByHand`). `renewed`, `heard`, `asked`, `locked` are the
subscription: the bridge counts its age from the answer, the console from the
request.

| Code | Actions |
|---|---|
| `read_state_value` | `Read`, `Lose` |
| `StateCache.apply`, `reconcile_path` | `Apply` |
| `XRemoteSubscription.renew` | `Renew`, `Renewed`, `TimedOut` |
| `check_fail_safe` | `CheckFailSafe` |
| the fake console, time | `BeginByHand`, `EndByHand`, `HandleWrite`, `Tick` |

An answer names the revision of the whole console, so an entry with the current
revision is current, except for a path that was read between the two halves of a
change by hand: that entry has the old value under the new revision, and keeps it
until something else changes. `torn` remembers such paths and `CurrentEntryIsTrue`
leaves them out. How long the console keeps a subscription is a constant of which
only `Renewal + Timeout < Lifetime` is assumed. Only tests create a cache or a
subscription: the tools of the bridge use neither.

### `RuntimeConsole`

`conn`, `checked`, `op` and `snap` are the fields of the session's result that say
what is known of the console; `file` and `temp` the saved configuration and the
temporary file of a save; `override` the environment. An endpoint stands for host,
port and intended target together, since the fingerprint is made of all of them.

| Code | Actions |
|---|---|
| the keys of the loop | `TypeText`, `Escape`, `EnterWithPending`, `Setup`, `Read`, `Status`, `OtherCommand`, `ExitCommand` |
| `start_setup_flow` | `OpenForm`, `FormFails`, in `Setup` and `EnterWithPending` |
| the form | `Submit`, `Decline` |
| `save_runtime_config` | `CreateTemp`, `WriteTemp`, `Replace`, `SaveFails` |
| the probe after a save | `SetupProbed` |
| the end of the form, the retry | `CloseForm` |
| `_execute_console_read` | `Dispatch`, `GetInfoProbed`, `VerifyProbed`, `CommandFails` |
| other processes, the end of this one | `OtherWriter`, `Interrupt`, `Kill`, `Restart` |

`Build` is `record_console_result` followed by `build_runtime_status`: the
connection is kept with the fingerprint of the endpoint it was asked of, and the
status drops it when the fingerprint of the configuration it reads then is another
(`Bound`). `StorePrecondition` is the code's other way to refresh the footer,
which does not compare. `last` and `asked` are history.

### `UserLocalInstall` and `InstallPromise`

`app`, `pending`, `launcher` and `meta` are the disk; `stage` is the run's staging
directory with the candidate and the two backups; `swapped` the locals
`app_swapped` and `launcher_swapped`. The swap is cut at every rename.

| Code | Actions |
|---|---|
| preflight, tag immutability | `Begin`, `PreflightPasses`, `PreflightRefuses` |
| the candidate | `MaterializeApp`, `WriteLauncher`, `Synchronize` |
| the swap and the `finally` | `SaveApp`, `PlaceApp`, `SaveLauncher`, `PlaceLauncher`, `Swapped` |
| the `except` | `StepRaises`, `DropLauncher`, `RestoreLauncher`, `DropApp`, `RestoreApp`, `UndoRaises` |
| metadata and marker | `MetadataWritten`, `MetadataFails`, `MetadataRejected`, `Unmark`, `UnmarkFails` |
| result, handing over | `Report`, `Handoff`, `HandoffFails` |
| anything else that stops a run | `Interrupt`, `Kill` |
| the user | `RemoveByHand` |

A `KeyboardInterrupt` is no `Exception`: it skips the handler and runs only the
`finally`, which deletes the backups, while a kill runs nothing and leaves the
staging directory behind (`stranded`). Both may hit a deletion half way (`Torn`).
A failure of the handler itself ends in the same `finally`, with the backup gone.
Two runs at once are left out: the installer takes no lock, and nothing in its
code is meant to hold then.

`InstallPromise` says what the user may rely on: the installed pair changes in one
step to the requested build or not at all, and the report tells which; only an
interrupt, a kill or a failing undo may leave anything else. The refinement maps
the installed pair to what was there before until the swap went through, so what
it shows is that the handler restores exactly that, and that each report is true
of the disk.

### `ReleaseBootstrap`

GitHub is `tagAt`, `main`, `published`, `flag`, `manifest` and `archive`, and
changes by one action of `World` between any two requests: a tag or main moves, a
release is withdrawn, published again, reclassified, an asset is replaced. A
client is `install.sh` with `secure_bootstrap.py` (`via = "script"`), whose plan
the installer loads and validates again, or the installer alone (`"direct"`).

| Code | Actions |
|---|---|
| the shell's start and its question for uv | `Begin`, `Prompt`, `Choose`, `GiveUp`, `Confirm`, `FetchUv`, `ExecuteUv`, `InstallPython` |
| resolution | `ReadRelease`, `ReadCommit` |
| manifest and its validation | `ReadManifest`, `ManifestFails` |
| redirects of the manifest and of the archive | `Redirected` |
| download | `Downloaded`, `DryRun` |
| extraction | `Extract` |
| the plan, the second validation | `LoadPlan`, `Preflight` |
| the installation takes over | `Accept` (the next module is `UserLocalInstall`) |
| errors, signals | `RequestFails`, `ResolverFails`, `Fail`, `Signal` |

A tree stands for the commit it was made of, a checksum for the content it is the
checksum of, `Junk` for anything that is no archive. An asset of a release is only
ever a build of some commit with the tag's version, with its own checksum: the
model says nothing of forged releases, which no check in this code could tell.
`since` is history: all that the names have meant since the client's first
request. The traps of `install.sh` remove what they are set for and do not exit
(`Signal`).

## Runs

Passing runs:

| Run | Instance | Shows |
|---|---|---|
| `execution_one` | 1 proposal of two operations on 2 paths, SOUNDCHECK and LIVE, 1 manual change, 1 rollback, an audit file that may fail | `TypeOK`, `WritesOnceInOrder`, `VerifiedMeansReadBack`, `WriterIsClosed`, `TransactionSpec` |
| `execution_two` | 2 interchangeable proposals on one fader, 1 manual change | `ExecutionAudited`, `ManualChangeBlocksWrite`, `EmergencyClosesWhatStood` |
| `execution_live` | 1 proposal, 3 paths: a pair of operations, or a send whose readback never matches; fair | `WrittenSettles`, `CallsReturn` |
| `connection` | 3 items, 4 attempts, sleeps of 80, 160, 200 ms, fair | `TypeOK`, `UnlockedMeansReconciled`, `UnlockedOutsideEmergency`, `BackoffBounded`, `GateSpec`, `UnlocksAfterAnswers`, `CallsReturn` |
| `rta_scan` | 3 sources of which the console refuses one, lists of one and two, 2 scans, 1 selection by hand, an original that may be unknown, fair | `TypeOK`, `RestoredIsOriginal`, `NothingLeftBehind`, `AlwaysPutBack`, `ScanEnds` |
| `install` | 4 builds: two under one tag, one untagged, one of another version; a failure, an interrupt or a kill at every step, any number of runs | `TypeOK`, `ProvenanceTrue`, `PreviousTreeSurvives`, `TagNamesOneCommit`, `PromiseSpec` |
| `runtime_tty` | 2 endpoints, any environment and file, any number of sessions, fair | `TypeOK`, `StatusSpeaksOfEndpoint`, `SavedConfigWhole`, `ReadsAnswerRequests`, `CommandsEnd` |
| `release` | 3 commits, a stable tag and a prerelease tag, 2 changes on GitHub, 1 redirect, fair | `TypeOK`, `AcceptedIsRequested`, `RecordedCommitIsTree`, `BootstrapEnds` |
| `state_cache` | 2 interchangeable values on 2 paths, 3 revisions, 2 answers not yet applied, a lifetime of 3 ticks against a renewal of 1 and a timeout of 1 | `TypeOK`, `NewestAnswerWins`, `CurrentEntryIsTrue`, `UnlockedMeansSubscribed` |

Runs that end in a counterexample: each checks one sentence of the repository's
documents, comments or tests that the code does not keep. The sentence and the
line are in `PROJECT.json` under `findings`.

| Run | What TLC shows |
|---|---|
| `emergency_write` | a call made in SOUNDCHECK after an emergency was entered writes |
| `unlock_unreconciled` | the second unlock request after an emergency succeeds without a reconciliation since |
| `verify_provenance` | after a run that could not write its record, the verification trusts the record of another build of the same version |

Other sentences of the documents that the code does not keep, seen while modelling
and visible in the actions named here, without a run of their own:

* A change by hand after the conflict read of its path is overwritten, also while
  the call still reads other paths: nothing looks at a revision again
  (`WriteOperation`, `executor.py:149`), while `spec.md:510` gives manual changes
  priority. `ManualChangeBlocksWrite` says what does hold.
* The step of a LIVE fader is measured from the before value the host supplied
  (`Propose`, `operations.py:68`), which nothing compares with the console, so a
  step can be larger than the bound of `constitution.md:254`.
* A rollback whose readbacks differ is recorded as rolled back (`RollbackDone`,
  `rollback.py:51`); `plan.md:207` has it reported as failed.
* A rollback restores in the order of execution (`RollbackWrite`,
  `rollback.py:47`), so a plan that moves one path twice is rolled back to its
  middle value, while `spec.md:234` has the original restored.
* `ProposalStore.get` replaces any status by EXPIRED once the time has passed, and
  an execution in EMERGENCY mode replaces any by CANCELLED_BY_EMERGENCY
  (`Fetched`, `ExecuteInEmergencyMode`), while `data-model.md:102` calls the
  statuses terminal. What does hold is that a terminal status never becomes an
  open one.
* `rollback_proposal` writes the before value of operations that were never sent,
  and has no condition on the status (`RollbackStart`, `RollbackWrite`);
  `tasks.md:174` restores what the proposal has touched.
* A rollback or a conflict read that raises leaves no record (`RollbackRaises`,
  `ConflictReadFails`); `data-model.md:133` and `:152` want one.
* `run_guarded_write` does not look at the clock (`GuardedWrite`): until the next
  health check a reconciliation older than `freshness_seconds` lets writes pass;
  `plan.md:111` has stale state disable them.
* The footer of the runtime console can say that a console is connected when the
  endpoint of the configuration is another (`StorePrecondition`,
  `tty_app.py:2971`); the docstring at `runtime_status.py:448` and `PLAN.md:141`
  bind every status to its endpoint. `StatusSpeaksOfEndpoint` holds the panel and
  the dashboard to it and the footer only to some endpoint that has answered.
* Escape in the picker closes the panel above it but keeps the command that waits
  for setup (`Escape`); a configuration that only the environment names has no
  fingerprint, so its status stays "not checked" (`Fingerprint`).
* Metadata that the stricter validation rejects end a run as if its boundary had
  been refused, after the application was replaced (`MetadataRejected`).
* The installer run without a plan for a commit or for main records that commit
  and installs the tree it was run from (`ReadCommit`); `RecordedCommitIsTree`
  excepts it.
* `install.sh` makes its staging directory before the question for uv and sets the
  trap that removes it after it, so a declined prompt leaves it behind (`Prompt`,
  `GiveUp`); when the managed Python cannot be installed the run goes on
  (`InstallPython`).

Bounds. Two operations are enough for the loops: a first, a last, and a failure
between them. One manual change can fall in every gap of a call, and two proposals
are enough for one to disturb the other through the store, the console or the
emergency. Two levels tell the before value, which is also what a change by hand
puts back, from the requested one. A third item gives a reconciliation a first, a
middle and a last; four attempts reach the limit of the backoff. Two scans are
enough for a request of one to reach the console during the next. Two endpoints
are one that was probed and one that is configured now. Four builds are the ways
in which two of them can be alike: same tag, same version but one without a tag,
nothing in common. Two changes on GitHub can fall in two gaps of one run, or undo
one another; one redirect reaches its limit and three commits give a tag somewhere
to move to with and without its version. Two answers are enough to be applied in
the wrong order, and three revisions for one to be overtaken twice; a lifetime of
three ticks is the smallest that holds a renewal and its timeout. `MaxManual`,
`MaxScans`, `MaxRollbacks`, `MaxWrites`, `MaxMoves`, `MaxRevision` and
`MaxReaders` bound counters and sets the code does not bound. No run disables the
deadlock check.

Fairness. The only fairness is weak fairness of the steps of a started call
(`ExecutionStep \/ RollbackStep`, `Running`, `ScanStep`, `Machine` of the runtime
console, `Step` of the bootstrap): the call holds its one thread, and each thing
it waits for ends, a request at the socket's timeout (`osc/transport.py`, the
timeouts of `secure_bootstrap.py` and `install.sh`), a sleep after its delay, a
file operation when it returns. Nothing is assumed of the host, the operator, the
network, GitHub or the clock. `install` and `state_cache` assume no fairness and
check safety only. `execution_live` assumes an audit file that can be written:
when it cannot, a transaction ends without its record.

## Proofs

`tlapm` checks the seven proof modules with no step left out.

`ProposalExecution_proofs`, from `ConstantsAssumption` alone (any sets of
proposals, paths and levels, any plans, any bounds):

* `TypeCorrect`, then `Safety` by induction with it. `WritesOnceInOrder` and
  `VerifiedMeansReadBack` are not inductive: nothing in them says that a proposal
  which is still open was not written before, so a second execution could append
  to `written`. `IInv` adds that a call works on a stored proposal, that an
  execution works on a pending one (`ExecutesPending`), that an open proposal
  outside its transaction is untouched (`OpenIsUntouched`), and how far a
  transaction has got (`TransactionProgress`). `StoodIsClosed` adds what an
  emergency leaves.
* `ExecutedOnce`, `VerifiedIsReadBack`, `WritersAreClosed` follow from `IInv`;
  `ClosedForGood` and `EmergencyEndsWhatStood` are step properties under it.
* `ManualChangeBlocks` needs `ReadsInv`: revisions only grow, a base is a revision
  the console has had, and each conflict read without a clash has seen that its
  path was not changed between the base and the start of the call.
* `WritersAreRecorded` assumes in addition `DiskOutcomes = {TRUE}`, an audit file
  that can always be appended to; `WritersRecorded` says that what has written and
  is not being written is recorded. With a file that may fail it is false, and
  `WritersAreClosed` is what remains.
* `ImplementsOneShot` is the refinement of `OneShotTransaction`. Lemmas named for
  it say which abstract step each kind of action is (`ProposeOffers`,
  `PolicyPassesBegins`, `WriteOperationSends`, `ReadbackMatchesConfirms`,
  `TransactionEnds`, and `CallDrops` for what closes proposals outside a
  transaction, or drops none); what only moves the console or a rollback is a
  stutter, since it leaves all that the mapping reads alone (`OneShotStutters`).
  It needs `IInv`: `OpenIsUntouched` makes an offered change one of which nothing
  was sent, `TransactionProgress` gives the order of sends and confirmations and
  the claim of `Finish`, and the one call in progress gives one transaction at a
  time.
* `PlansAreKept`: a stored proposal keeps its operations and its baseline. With
  `PolicyHeld`, that a transaction's plan is allowed in the mode of the call that
  runs it, it gives `OnlyPlannedWrites`: each datagram is an operation of the
  call's proposal, an execution's with the requested value and within the bounds
  of that mode. A rollback is asked no policy, and its value, the before value the
  host supplied, is held to no bound: the theorem says of it only that it is the
  plan's.
* `FlightsArePlanned` says the same of every datagram on its way, however late,
  and `MovesAreAccounted` of the console: no value changes but by hand or to what
  a stored proposal says of that path. Both hold since plans stay.
* `DenialNeedsAnotherMode`: a stored plan was allowed in some mode, so in
  SOUNDCHECK (`PlansAllowed`, `SoundcheckAllowsMost`), so the second look at the
  policy can only deny a call in another mode. It is a safety net for a change of
  mode between the two calls and for nothing else.
* `CallsAreBounded` and `EveryStepShrinksTheCall`: `Remaining`, the steps a call
  may still take, is a natural number (`InPlan`), begins at three for each
  operation and three more at most, falls with every step of the call, and is not
  changed by the operator, the network or the clock.

`ConnectionHealth_proofs`, from `ConnectionAssumption`: the invariant `CInv` joins
the flags with the history (`AnswersCounted`: an unlocked connection at rest has
all items answered; `SleepsCounted`: one sleep less than the attempt's number),
and gives `FlagsAgree`, `LockGoesWithMode`, `ReconnectIsBounded`,
`UnlockNeedsAnswers` and `ImplementsGate`, the refinement: the initial states map
to initial states and each step to a step of `WriteGate` or a stutter.
`EveryStepShrinksTheCall` bounds a health check or a reconnection by `Attempts`
rounds of the items and two steps more, whatever is answered, missed or slept.

`RtaScan_proofs`, from `ScanAssumption` (any sources, any lists, any number of
scans): `SInv` adds to the properties that requests are told apart by their
numbers (`RequestsTold`), that a scan with nothing given up has at most the
request it waits for on its way (`OwnRequests`), and that an accepted restore has
moved the analyser (`RestoreTook`). From it follow `RestoredHolds`, `NothingLeft`
and `PutBack`. `EveryStepShrinksTheScan` counts three steps for each source and
two for the end, which nothing at the console or on the network adds to.

`UserLocalInstall_proofs`, from `InstallAssumption` (any builds, versions and
tags): `IInv` adds to the properties how far the swap is and where each old path
lies meanwhile (`Swapping`, `Candidate`, `Undoing`), that after the swap the
marker stays until the record is the candidate's (`Recording`), that the preflight
compared with a record it could trust (`TagCompared`), and that a backup whose
marker was off is described truly by a record of its version (`SavedTrue`): a
restored tree is trusted again, so `ProvenanceTrue` is not inductive without it.
From it follow `TrustedIsTrue`, `PreviousSurvives`, `OneCommitPerTag` and
`KeepsPromise`, the refinement of `InstallPromise`, one step of the installer at a
time. `ReportsAreTrue` looks at the whole disk, marker and record included: after
"refused" and "failed" it is as the run found it, and the origin of the
application as trusted as before; after "ok" all of it is the candidate's. Its own
strengthening (`RInv`) follows the marker, which lies in the application tree and
moves with it (`MarkNeedsTree`), through the swap and the undo (`TrustSaved`,
`DroppedGone`), and the record to its end (`OkRecorded`).

`RuntimeConsole_proofs`, from `ConsoleAssumption` (any endpoints): `RInv` adds
that the connection and the fingerprint the session keeps are what the last probe
of that endpoint found (`KeptTrue`), that what replaces the configuration was
written whole and that a probe is recorded under the endpoint it went to or under
none (`Saving`), and that a read was asked for exactly as often as it waits or is
under way (`AskedOnce`, `CommandKnown`). It gives `StatusIsBound`, `SavedWhole`
and `ReadsAnswer`. `EveryStepShrinksTheCommand`: seven steps at most bring the
loop back to its keys, through a save and the command that waited for it, whoever
writes the configuration meanwhile.

`ReleaseBootstrap_proofs`, from `ReleaseAssumption` (any commits, versions and
finite set of tags, any number of changes on GitHub): `BInv` follows a run from
its selector to the tree. The history contains what the names mean now (`Asked`),
so each answer is recorded in it (`Chosen`, `Resolved`); a manifest's checksum is
that of its commit (`Built`); from the validation on the manifest, the archive and
the tree agree with the resolution (`Validated`), also after a signal has emptied
the staging directory, because the plan is then refused (`Staged`). It gives
`AcceptedRequested` and `RecordedIsTree`. `EveryStepShrinksTheRun` bounds a run by
`2 * MaxRedirects + 11` steps, the redirects of two files among them, which
neither GitHub nor a signal puts off; a run that waits for its operator is at 0.

`StateCache_proofs`, from `CacheAssumption` (any paths and values, any lifetime
that a renewal and its timeout fit in): `CInv` adds that no answer or entry is
ahead of the console, and that one level with it agrees with it unless its path is
torn (`KnownIsFaithful`), and how the bridge's and the console's ages of the
subscription relate (`AgesAgree`). It gives `NewestStays`, `CurrentIsTrue` and
`FreshMeansSubscribed`.

Only model-checked: the liveness properties `WrittenSettles`, both `CallsReturn`,
`ScanEnds`, `CommandsEnd` and `BootstrapEnds`. Three things of such a proof are
out of the provers' reach: that the next step is enabled (ENABLED), that fairness
then makes it happen, and the induction along the measure. The measure itself is
proved, for all constants: while a call runs, each of its steps lowers a natural
number and nothing around it raises it. What the runs add on small instances is
that there is always a step to take. The counterexamples are runs only.

## Not modelled

* Read tools, analysis and most diagnostics compute a report from one reply and
  keep nothing. The OSC codec packs and unpacks one datagram.
* The semantic paths are patterns over one string. The channel pattern rejects 10
  and 20 (`semantic_paths.py:9`), which a table shows better than a model.
* MCP dispatch maps tool names to functions, one synchronous call at a time
  (`call_tool`), so a slow console holds all tools. The server resolves its
  console once and keeps the endpoint when the configuration changes
  (`mcp/server.py:55`). Over stdio the tools that execute, verify and roll back
  are given no proposal store, and `m32_propose_changes` uses a fresh one per
  call: the transaction modelled here is the one of callers that pass a store.
* The digest is abstracted to whether the caller has the right one. `mark_status`,
  the `RateLimiter` and the retry of readbacks that the documents mention have no
  caller or no code; `bootstrap_uv_and_python` is called by tests only.
* `install.ps1` is the sequence of `install.sh` without its traps, and
  `release_resolver.py` alone prints a resolution.
* Two installers at once, which nothing locks out, and the lost update between
  `config set` and the form, both of which write whole files: no property could
  hold.
* A configuration file that is not UTF-8 keeps the form shut (`FormFails`) and
  raises out of the rest of the console, a truncated
  commit archive out of the bootstrap as `EOFError`; `preflight_release_install`
  leaves its temporary directory. In the models these are failures like any other.
* Platform tables, guidance and the texts of the panels have no protocol.
* The cache is a fake console's: replies without a revision give 0, after which
  the first value stays, and a console that restarts begins its revisions anew.
  The model starts at revision 1 and has no restart of the console.

## Plan

Done: `ProposalExecution` with `OneShotTransaction`, `ConnectionHealth` with
`WriteGate`, `RtaScan`, `StateCache`, `RuntimeConsole`, `UserLocalInstall` with
`InstallPromise`, `ReleaseBootstrap`, each with its theorems. Left:

1. `ReleaseBootstrap` composed with `UserLocalInstall`: the commit that metadata
   record is the one that was asked for, across both.
2. A restart of the console under `StateCache`.
