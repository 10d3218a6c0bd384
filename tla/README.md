# Verification of Chaos Lab

TLA+ specifications of Chaos Lab, checked with TLC on small instances. Most
safety properties, those of the command line's campaigns among them, are also
proved with TLAPS for every value of the constants; the evidence files,
liveness and what a failing campaign means are model-checked only (section 4).

Chaos Lab runs fault campaigns against a real target: a coordinator process
that hands out authority for work, worker processes that execute it, and the
`chaos` command line, which submits work, kills and relaunches processes,
replays captured messages and judges the outcome. A framed-TCP interposer and
several libraries (scheduler, safety envelope, evidence, persistence, reducer)
support the campaigns.

## 1. Inventory

| Component | State | Operations | What makes it correct |
|---|---|---|---|
| Target coordinator (`apps/target_coordinator.cpp`) | `g_state`: epoch, three counters, the authority in force, worker table, fd map, committed signatures; one thread per connection, one mutex | REGISTER, SUBMIT, COMPLETE, GET_STATE, PING, SHUTDOWN, loss of a connection, accept loop | only the newest authority commits, once, in the name of its assignee; epochs and generations never go back; a dead worker is noticed |
| Target worker (`apps/target_worker.cpp`) | connection, attempt count | connect, register, dispatch, reconnect, exit | re-registers with every new coordinator, answers every dispatch |
| Campaign controllers (`apps/chaos_cli.cpp`) | captured `SubmitResult`s, process handles, output read so far | submit, replay, kill, relaunch, wait for output, shutdown, verdicts | PASS is earned, FAIL has a reason, nothing is left running, every campaign ends |
| Runtime protocol (`runtime_protocol.*`) | none | encode, decode, payload limit | decode inverts encode |
| Authority envelope (`authority.*`) | none | compare, combine | what it calls stale the coordinator refuses |
| Transport interposer (`transport.*`) | fault list, accept thread, two forwarders per connection, statistics, stop flag | start, stop, enqueue, forward or fault a frame | only targeted frames are touched, the stream stays framed, an aborted connection ends, `stop` returns once a peer is silent |
| Fault scheduler (`scheduler.*`) and plan replay (`replay.*`) | injections with fired flags, event counts | plan, observe event / state / message, replay | fires each injection once, exactly when due; a replay fires the same |
| Safety envelope (`safety.*`), resource governor and baseline (`resource.*`) | counters, limits, snapshots | acquire, release, allocate, reserve, apply pressure, observe | never above a limit, counters tell what is held |
| Owned processes (`process.*`) | handle, pid, exited flag, exit code, pipes | launch, move, close, alive, wait, terminate, force_kill | one owner per process, nothing that goes on running is reported as exited |
| Scenario builder (`scenario.*`), campaign (`campaign.*`), fuzzer and reducer (`fuzz.*`) | draft with counters; phase; candidate fault list | builder calls, build, validate, transition, generate, reduce | handles of an earlier scenario are caught, generated campaigns can run, the reduction still fails and is minimal |
| Evidence recorder (`evidence.*`), sessions and the reading commands | record list, three files per directory | record, serialise, parse, save, replay, compare | a passing replay vouches for the log |
| Persistence faults (`persistence.*`) | files | copy, seven mutations, partial temp file, rename | damage only where asked, success only with damage |
| Assertions, TCP, CUDA, utilities, benchmark | OS handles or none | table lookups, system calls | - |

Interactions: workers and controllers talk to the coordinator over TCP, one
thread per connection; the threads share `g_state`. The CLI owns the processes,
may kill any of them at any time and learns most of what it knows by searching
their standard output for a text with a bounded number of tries. The
interposer, when a campaign uses it, sits between a worker and the coordinator.
The libraries are called by the CLI from one thread and share no state.

Hard behaviours, listed one by one with their lines in `PROJECT.json`
(`hazards`): `handle_submit` reads the authority again after releasing the lock
and sends to a socket handle that may have changed hands; cleanup of an old
connection races the successor's registration; a crash loses the committed set;
completions are replayed, duplicated and late; the accept loop has a limit; a
controller's wait times out and most callers go on regardless; handles are
launched over while their process runs; the forwarders of the interposer share
statistics without a lock, and a receive timeout stands for a closed
connection; a crash between two files of an evidence session; 64-bit sums that
wrap.

## 2. Modules

| Module | Models | Uses |
|---|---|---|
| `Coordinator` | the coordinator process against arbitrary clients | - |
| `AuthorityEnvelope` | the lab's own model of stale authority, beside the coordinator it predicts | `Coordinator` |
| `CommitLedger` | abstract promise of the runtime: issue, commit, fence | - |
| `TargetRuntime` | coordinator, workers, connections and controllers composed | `Coordinator`, `CommitLedger` |
| `Campaigns` | nine campaigns of the command line, call by call, against the runtime | `TargetRuntime` |
| `TransportControl` | when the interposer's threads wait, go on and end, without the frames | - |
| `Transport` | the interposer, its faults and its peers; implements `TransportControl` | `TransportControl` |
| `FaultScheduler` | the scheduler and the plan replay | - |
| `Evidence` | recorder, text form, sessions, replay and compare | - |
| `OwnedProcesses` | process handles and the system that ends processes | - |
| `ResourceAccounts` | envelope, governor, host pressure, baseline | - |
| `OwnedResources` | the two above in one specification | `OwnedProcesses`, `ResourceAccounts` |
| `CampaignBuild` | builder, named scenarios, fuzzer, reducer, validation, phases | - |
| `PersistenceFaults` | file mutations | - |
| `CampaignInputs` | the two above in one specification | `CampaignBuild`, `PersistenceFaults` |
| `CoordinatorProofs`, `TargetRuntimeProofs`, `TransportProofs`, `CampaignInputProofs` | theorems | the modules they are named after |
| `CampaignProofs` | theorems about `Campaigns` | `Campaigns`, `TargetRuntimeProofs` |
| `AuthorityProofs`, `OwnedProofs`, `SchedulerProofs` | theorems | `AuthorityEnvelope`, `OwnedResources`, `FaultScheduler` |
| `LabObjects` | `CampaignInputs` and `OwnedResources` side by side, for one run | both |
| `RunRecords` | `FaultScheduler` and `Evidence` side by side, for one run | both |
| `MC...` | TLC instances | the modules they are named after |

### The coordinator

Variables carry the names of `g_state`'s fields. A section under `g_mtx` is one
action. `handle_submit` is three: `SubmitAccepted` (locked), `SubmitDispatch`
and `SubmitRespond`, which read `cur_attempt`, `cur_gen` and `cur_dispatch`
without the lock. Each read may return any value the field has had since the
unlock (`UnlockedReads`), independently of the others; that includes the
mixtures a data race can produce. `fd` values are reused after a close, and
`send_frame` to a stored fd reaches whoever holds it now. `Accept` counts
threads and leaves the loop past the limit. `Crash` loses the whole process:
`save_state` has no caller and nothing reads the state file. Two history
variables record what was assigned and what was accepted, over all processes.

In `Coordinator`'s own specification the clients are unconstrained: any
connected client sends any completion. In `TargetRuntime` a worker's COMPLETE
answers a DISPATCH it got, and a controller replays the authority it captured,
whole or with a counter or the epoch changed, as the campaigns do. There a
relaunched coordinator gets the epoch after the last one, as the campaigns
intend; `Campaigns` takes it from where each campaign takes it.

Left out because they change no state: GET_STATE, PING, and the frames that
only make their receiver print (REGISTERED, WORK_STARTED, COMPLETE_ACK).
Abstracted: reject reasons are wording; payloads are records, so malformed
payloads do not occur; the work is named after its controller and its result is
the pair (work, boot), which `do_work` hashes. A controller has a handle of its
own, which is not reused for a worker. A connection reset may lose frames the
coordinator has not read.

### The stale-authority model

`AuthorityEnvelope` adds `authority_is_stale`, `authority_matches` and
`stale_combination` as operators to the coordinator and asks, in every state of
it, whether their answers agree with what `handle_complete` would do. A field
that is 0 is absent, as in the code. `target_gen`, which only kind 3 of
`stale_combination` changes, is in no message.

### The campaigns

A campaign is a sequence of calls (`Body`, `Cleanup`); each kind of call is an
action, and the runtime's threads and workers step between and during calls.
`printed` is the coordinator's standard output since its launch, reduced to the
lines a campaign looks for. `wait_stdout` either sees its text (`WaitSees`) or
times out, which may happen at any moment at which the text is not there
(`WaitTimesOut`); what follows is the caller's: ignore it, fail the verdict, end
the iteration or end the campaign. `unmet` collects the requirements of the
verdict that do not hold; a campaign passes when it is empty at the end. A
`SubmitResult` is zero when the submission was refused, and the epoch of the
next coordinator is computed from it as the code does.

Assumed: `Process::launch`, `tcp_connect` and the wait for LISTEN succeed; a
storm has two iterations; BOOT is printed with the locked section before it.
The wait for WORK_STARTED decides nothing and is left out. Kills are atomic
here; `OwnedProcesses` has their parts.

### The interposer

`acceptor` is the accept thread, `pump[d]` the forwarder of direction `d`. A
step reads one whole frame, numbers it, picks the first fault of the list that
targets it (`Applied`) and gives the resulting frames to `tcp_send_all`; a fault
kind is an action. Two histories record the frames sent on, one batch per frame
read (`sent`), and how many they are (`handed`).
The increments of the shared statistics are a load in that step and a store in
`CountUp`, so that the other forwarder may store in between. A read fails when
the peer closed or at any time while no input is there (the 50 ms timeout).
A payload byte is 0 or 165, which `^ 0xa5` exchanges. Peers are external: they
send well-formed frames whole, so a time-out in the middle of a frame, which
ends the connection as well, is not a separate case. `published` is `stats_`,
of which the two counters of `Counters` are kept; the counters by kind are
incremented in the same way.

`forward` ignores the status of `tcp_send_all` and counts the call, so a frame
whose send failed counts as handed on. In `Transport` a send returns; streams
are of bounded length. `TransportControl` has the same threads without the
content of frames: peers there send for ever, and a send may block until the
receiver reads (`SendBlocks`, `PeerReads`) or fail once it is gone
(`SendFails`), since `tcp_send_all` has no timeout. `Transport` implements it,
with `Len(inbuf[d])` as the queue and `pump[d].pc` as the forwarder's place.

### The scheduler and replay

`schedule` and `counts` are `schedule_` and `counts_`; `Plan` may be called at
any time, with any campaign. `observe_event` bumps the count and tries every
kind of trigger in turn, `observe_state` and `observe_message` one kind each.
`at_count` is a text that `from_hex` reads (`FromHex`), modulo `Word`. One pass
of `try_fire` returns its injections in schedule order, so the set of them says
as much; `fired`, the history of what was handed out, is the sequence of these
sets. Replay is an operator that steps a fresh schedule over the recorded
events. An injection's id is its index; `register_events` has no caller.

### Evidence

Texts are sequences of characters here, because the text form is what the
properties are about: `Esc`, `Split`, `ParseText` do what the code does to
them. A hexadecimal number has one digit and a kind name one character. A save
is three steps; each may be cut short by a full disk or followed by a crash.
The digest is the sequence of the lines that are hashed.

### Processes and accounts

`OwnedProcesses`: a handle object is a record; launching over it, moving and
closing give up the handle and not the process. A terminated process is first
`dying`, then `gone`; `force_kill` is three actions, between which the system
and other handles step. `ResourceAccounts` keeps the code's numbers, the sums
modulo `Word`, beside what they are meant to count: the histories of the
governor are true differences, which go below 0 where the code's clamp does
not, and `overFreed` remembers that they did. `OwnedResources` and
`CampaignInputs`, and `LabObjects` over them, exercise one object per behaviour,
since the objects share no state and no code passes one to another; the theorems
are about `CampaignInputs` and `OwnedResources` each by itself. `RunRecords`
joins the scheduler and the evidence in the same way.

### Campaign definitions and files

`CampaignBuild` models every builder call by what it appends and which counters
it moves; `build` moves the scenario out and leaves the counters. `reduce_campaign`
is stepped: one trial per action, under every predicate that is "some of these
two sets of faults is still there, and all of these targets". The phase graph
is explored as it is: no code in the repository drives a campaign through it.
`PersistenceFaults` has one operator per mutation; a byte remembers where it
came from and whether it is xor-ed. `apply_mutation` asks `f.good()` before
anything flushes the stream, so a loop of writes fails only when a full buffer
(`StreamBuffer`) does not fit on the disk, and the rest is written or lost after
the answer (`Written`). A loop of about 2^64 writes, which a `ZERO_RANGE` whose
end wraps asks for, fills the disk, goes on over the failed stream and gives no
answer (`"none"`, more than `LoopLimit` writes); the campaign then does nothing
more.

## 3. Runs

Passing runs (`PROJECT.json` has the mutant that breaks each property):

| Run | Instance | Shows |
|---|---|---|
| `coordinator` | 1 worker id, 2 boots, 1 controller, 2 submissions, 2 processes, thread limit 1, arbitrary completions | `CommitsAreAssigned`, `OncePerSignature`, `CurrentIsNewest`, `OnlyNewestCommits`; `StalenessIsPredicted`: superseded authority is stale for the lab, what the lab calls stale is refused |
| `torn` | 2 workers, 2 controllers, 2 submissions | mixed reads: the type invariant of the runtime (the coordinator's included) and refinement of `CommitLedger` |
| `failover` | 2 processes of 1 worker, 2 handles, 2 coordinator processes, 1 submission each, replays | reused handles, misdelivered DISPATCH, failover: `AtMostOneCommit`, `OnlyAssigneeCommits`, `AliveIsWatched`, refinement |
| `liveness` | as `failover`, without replays | `CommitsEventually`, `DeathIsNoticed`, `Reregisters` |
| `campaigns` | nine campaigns, 3 processes of worker 1 and 2 of worker 2, 3 handles | `PassIsEarned`, `FailureIsExplained`, `NothingSurvives`, `CampaignEnds` |
| `transport_faults` | 3 frames one way or 1 each way, any 2 of 11 faults in any order, by type, by sequence number, by both, and of the other direction | `TransportTypeOK`, `SentAsPrescribed` (a definition without state of what the fault list asks for), `StaysInStep`, `UnrelatedUntouched`, `StatsNotExaggerated` |
| `transport_control` | 2 clients in the backlog, 2 frames in each receive buffer, any number over time | `AbortEnds`, `StopReturns` |
| `run_records` | the scheduler: every campaign of at most 2 of 8 faults, 3 names, 3 observations per plan | `FiredOnceWhenDue` (against a definition over the history), `ReplayReproduces` |
| | the evidence: 2 directories, 2 sessions, 2 records of 5 shapes | `RoundTripsWhenSafe`, `VerdictsVouchForLogs` |
| `lab_objects` | 2 handles, 3 processes; 3 units of 2 classes, 4 governor calls, 16 for 2^64 | `OneOwner`, `EndsAreFinal`, `CapsHold`, `MemoryWithinCap`, `VerdictIsFirstToLast`, types |
| | 6 builder calls, up to 3 workers and 4 faults, all named scenarios; files of 5 bytes on a disk of 9 with a buffer of 3, 3 operations, 32 for 2^64 | `StaleHandlesAreCaught`, `MadeIsRunnable`, `ReductionIsSound`, `CompleteIsEarned`, `MutationIsFaithful` |

What the conditions in the properties say about the code:

- `PassIsEarned` leaves out double commits of `persistence_recovery`, whose
  second coordinator starts at the first one's epoch (see below).
- `FailureIsExplained`: without a timeout a campaign fails only because a
  submission was refused (the late cleanup of the finding below) or, in
  `run_multiprocess`, because the worker completed before it was killed.
- `NothingSurvives`: two campaigns drop the handle of a running worker.
- `MadeIsRunnable`: a generated campaign validates exactly when it has as many
  workers as its first three faults are aimed at, and a seed that is not 0.
- `RoundTripsWhenSafe`: logs without separators in their values are read back;
  of the others it says nothing (see `round_trip`).
- `EndsAreFinal`: a process reported as exited is gone or has been told to end.
- `CapsHold`: as long as nothing is released twice. `MemoryWithinCap`: the sums
  of the governor stay within the cap and are the true ones until more is given
  back than was taken; reservations as long as one plus the cap stays below
  2^64.
- `MutationIsFaithful`: no byte changes that the mutation does not name, without
  exception. Only a `ZERO_RANGE` whose end passes 2^64 makes a file longer than
  its range allows, and it never answers. A success left a change, unless the
  cut was at the end, the range held the value already, or an append met a full
  disk with less than a buffer.
- `AbortEnds`: as long as no peer leaves a forwarder in a send for ever
  (`SendsReturn`).
- `StopReturns`: that, and one peer of the connection falls silent
  (`OneFallsSilent`). A forwarder checks the stop flag of its connection
  (`transport.cpp:129`) and never `running_`. Without either condition TLC finds
  a `stop()` that stays in its join.

Three runs end in a violation, a disagreement between the code and what the
repository says of it (`findings`):

- `stale_dead`: the cleanup of an old connection marks the registered successor
  dead.
- `exited_early`: after `terminate` `exited()` is true of a process that has not
  been "collected as exited" (`process.h:57`).
- `round_trip`: a value with a separator is not read back, while `evidence.h:72`
  says that `parse_text` "round-trips exactly".

Some hazards of `PROJECT.json` are described by a condition of their property
rather than caught by it: the second commit of `persistence_recovery`, the
accept loop that stops at its limit, the worker that gives up, lost increments
of the statistics, frames unread at a timeout or held back at the end, the two
dropped handles, the replay of a run without events, the evidence of an older
run, wrapping reservations and double releases. Each has a note there. No
property of the project says that these cannot happen.

Further disagreements seen in the code while it was modelled, which no run of
its own is about:

- SUBMIT_RESPONSE is written from unlocked reads (`target_coordinator.cpp:188`)
  and may carry the authority of another submission.
- `persistence_recovery` relaunches the coordinator at the same epoch and
  `save_state` has no caller, so generation 1 is handed out again and one
  signature can commit twice; `ARCHITECTURE.md:84` speaks of recovery, and
  `chaos_cli.cpp:1012` sets `monotonic = true` without looking.
- A failed submission leaves a zero `SubmitResult`; the next coordinator then
  starts at epoch 1 (`chaos_cli.cpp:690`), not at an advanced one
  (`ARCHITECTURE.md:70`).
- The worker id takes no part in the authority comparison
  (`target_coordinator.cpp:127`): with equal boots another worker's completion
  would commit. The proofs assume distinct boots.
- The fault of `cuda_transport` (COMPLETE at sequence 1, `chaos_cli.cpp:836`)
  never applies: the first frame of a worker is REGISTER.
- In the death race a refused fresh submission leaves the old authority in
  force, and its replay is accepted. `coordinator_death` tolerates one accepted
  stale completion, and its leak verdict compares constant zeros.
- `APPEND_GARBAGE` on a full disk answers ok although less than the N bytes of
  `persistence.h:16` were appended: `apply_mutation` asks `f.good()` without a
  flush (`persistence.cpp:109`), which `copy_file` and `write_partial_temp` make.
- `README.md:139` promises evidence for every run; a run that gives up early
  saves none.
- `ARCHITECTURE.md:49` says every owned resource is reaped; the epoch-roll race
  and `persistence_recovery` leave a worker behind. The CLI campaigns use no
  `SafetyEnvelope`.
- `campaign.h` says a cap of 0 means validate-only; the code takes it as
  unlimited.
- `ResourceGovernor::reserve` wraps. FAILED and ABORTED end a campaign without
  CLEANUP. `stale_combination` of a first attempt is not seen as stale.
- SHUTDOWN sets `shutting_down`, which nothing reads; the accept loop goes on
  (`target_coordinator.cpp:219`), and the controller that waits for the exit
  (`chaos_cli.cpp:254`) kills the process after 3 s.
- Past 64 threads the "periodical reap" (`target_coordinator.cpp:262`) joins
  live threads too and ends the accept loop; a storm of more than about 60
  relaunches would reach it.
- Both forwarders increment one `TransportStats` without a lock
  (`transport.cpp:160`), while `ARCHITECTURE.md:88` calls them single-writer;
  increments are lost (`CountUp`). The owner reads `stats_` without a lock while
  the accept thread may write it (`transport.cpp:248`).
- 50 ms without input in one direction end a connection in both
  (`transport.cpp:132`), and frames not yet read are lost.
- A frame held back by a reorder fault aimed at one sequence number is never
  sent (`transport.cpp:201`).
- Half-close is the same as close (`transport.cpp:210`).

### Bounds

`MaxAttempt` 2 (1 in `failover` and `liveness`, where the next process's
submission supersedes; 3 in `campaigns`, the most a campaign submits to one
coordinator): the second submission supersedes the first, which is all that the
authority comparison tells apart. `MaxLaunches` 2: one failover; 3 in
`campaigns`, the two of the coordinator storm; the proofs cover any number.
`MaxThreads` stands for 64 and `MaxTries` for 200, small enough to be passed,
except in `campaigns`, whose storms stay below the limit as the default
iteration counts do. Boots of the two workers in
`campaigns` are as far apart as `HandleAssumption` asks. Two handles let one be
reused while the other is in use.
Three frames in `transport_faults` are the fewest that let one be held back,
released and followed; two faults let one shadow the other; where both peers
send, one frame each (`MaxBoth`) lets the forwarders overwrite each other's
counts. Its one connection is enough for what a connection does; the proofs
cover any number of them. Two faults let one
observation release two injections; three observations reach a count of 2 and
go past it. Two records are the fewest that a separator can run together, two
sessions let one save over the other's files. Six builder calls build, declare
and destroy again after a `build`. Words of 16, 32 and 256 stand for 2^64: the
amounts tried lie on both sides of every sum that wraps. A stream buffer of 3
on a disk of 9 lets an append fill buffers and leave a rest that does not fit;
`LoopLimit` is above the disk's size and below every wrapped length.
`TransportControl` has two frames in a buffer, so that a forwarder may take one
and find another; its peers send without end. `CHECK_DEADLOCK` is
off, except for it: a campaign ends, and the bounds end the rest.

Symmetry is used for handles and controllers, and for evidence directories, in
runs without liveness; none is compared or ordered.

### Fairness

`TargetRuntime`: weak fairness of each connection thread's receive and cleanup,
of the tail of `handle_submit`, of each worker process and of `main`'s return.
Each is a thread or process that the OS schedules, and whose blocking calls
return once their input is there; a worker's connection attempts return either
way. What a campaign does (launch, kill, submit, replay) is never assumed.
`Campaigns`: weak fairness of the controller, whose waits are bounded, and of
the two steps that answer its submission; workers and other threads need not
run at all.
`TransportControl`: weak fairness of the accept thread, of each forwarder and of
the join in `stop`. A forwarder waiting for input returns after 50 ms, so its
step is enabled, but for a send that blocks; peers are not assumed to send, to
read or to close. What is needed of them is a condition of the properties
(`SendsReturn`, `OneFallsSilent`), since the code does not see to it. Closing
the listening socket is taken to wake `tcp_accept`, as it does on Windows.

## 4. Proofs

`CoordinatorProofs` proves, for every number of workers, boots, controllers,
connections, submissions and processes, `CoordSpec => []CoordTypeOK`, and
`CommitsAreAssigned`, `OncePerSignature`, `CurrentIsNewest` and
`OnlyNewestCommits`. None is inductive. The invariant is

    CoordInv == CoordTypeOK /\ CoordRegistered /\ AuthorityInv /\ LedgerInv

- `AuthorityInv`: the three counters are equal, the authority in force is the
  last one assigned, nothing assigned is newer, and epoch and attempt determine
  an assignment. This rests on the epoch of a relaunched process being higher.
- `LedgerInv`: what was accepted under the epoch in force is in the committed
  set, so that a repeat is found there; what was accepted under an older epoch
  fails the epoch comparison. That is what replaces the set a crash loses.
- `CoordRegistered`: an alive worker has a real boot.

`TargetRuntimeProofs` proves type correctness, `OnlyAssigneeCommits` and
`AtMostOneCommit` of the composition. Every step of it is, for the coordinator,
a handler on well-formed input (`NextIsCoordStep`), so `CoordInv` carries over.
The worker id takes no part in `current_authority`, so `IdentityInv` is needed:
every id travels with a boot of that id, in frames, table, assignments and
ledger. With `BootsIdentifyWorkers` an equal boot then means an equal id. That
is the one assumption of the theorems beyond the constants' types; that epochs
increase is in the specification. The campaigns give every process a boot of
its own; `persistence_recovery`, the one campaign that relaunches at an equal
epoch, is outside these theorems; `CampaignProofs` treats it below.

`AliveIsWatched` has its own invariant, `WatchInv`: a worker is alive on the
connection that registered it, a freed handle is unmapped before it is reused,
and a connection carries one REGISTER, before everything else. Without the last
part a late REGISTER could revive a worker on a connection whose handler has
gone.

`TargetRuntimeProofs` also proves that `TargetRuntime` implements `CommitLedger`. The
mapping takes the authority in force as the current token and no token while
nothing was submitted; the end of a coordinator process maps to a fence (or a
stutter, when nothing was in force), an accepted submission to an issue, an
accepted completion to a commit, all else to a stutter. It uses `RuntimeInv`
and, for the commit, `BootsIdentifyWorkers`.

`CampaignProofs` proves `NothingSurvives` and `PassIsEarned` of the nine
campaigns, for any processes, boots, connections and bounds, and
for every path their waits and submissions can take. The programs are
concrete; what the proofs need of them is a condition on their text,
`ProgramAssumption`, which TLC evaluates on all nine: which calls precede which,
where a skipped call leads, and that replays, captures and relaunches come in
the right order. The theorems therefore hold of any program that meets it.

- `NothingSurvives` from `HandleInv`: a handle that the calls so far have killed
  owns no running process, whichever calls were skipped (`CleansUp`: a jump
  never skips a kill that what follows relies on), and every running process is
  in a handle, but for the two campaigns that drop one (`DropHandle`).
- `PassIsEarned` from `PassInv == unmet = {} => StraightInv`, beside
  `HandleInv`. A campaign with nothing against it has skipped no call
  (`StraightOn`), so its position says what it has done (`ProgressInv`): which
  authority it captured, that this is the newest assigned when a coordinator is
  launched above it, that the fresh submission has no commit but its worker's,
  and, once awaited, has that one. `SubmissionInv` carries a submission from its
  thread to the captured answer. `LaunchLedgerInv` says that an attempt not yet
  given out has no commit. `CoordInv` holds along the way except in
  `persistence_recovery`, whose second coordinator starts at the epoch of the
  first; there `CoordBase`, which holds at whatever epochs processes start, is
  enough for the fresh work. The increase of epochs, an assumption in
  `TargetRuntime`, is thus proved of the other eight campaigns, as long as they
  pass.

`HandleAssumption` says that boots of different workers are more than two apart:
the code starts them at 100 and 200, or in storms at 1000 and 2000, and adds one per
relaunch. It is what makes a replay under an earlier boot name the worker the
authority was assigned to.

`AuthorityProofs` proves `StalenessIsPredicted` from `CoordInv` and
`CountersStartAtOne`: no assigned counter or epoch is 0, which the envelope
reads as an absent field. `WideAssumption` says that the counters fit 64 bits.

`OwnedProofs`, about `OwnedResources`:

- `OneOwner` and `EndsAreFinal` from `ProcessInv`: what an object owns was
  launched, a collected exit code is the one the process left with, and
  `force_kill` works on a process that was told to end.
- `CapsHold`, `MemoryWithinCap`, `VerdictIsFirstToLast` and the types from
  `AccountInv`, one part per object. The governor's part needs that an
  allocation that succeeds plus a cap stays below 2^64 (`MallocAssumption`: no
  `malloc` returns half the address space); a reservation may wrap, which is the
  condition of the property. The clamp of a free only ever leaves the code's sum
  above the true one, which is why the cap bounds both.

`CampaignInputProofs`, about `CampaignInputs`:

- `MutationIsFaithful` from `FilesFit`: no file is larger than the disk. The
  proof covers every size, buffer, offset and length, the wrapping ones
  included, under `FileAssumption` (a loop that ends may write more than the
  disk holds, and both together stay below 2^64).
- `CompleteIsEarned` from `PhaseInv`: phases only go up in rank, and one that is
  behind INJECTING, VERIFYING or CLEANUP has been there.
- `ReductionIsSound` from `GeneratedInv` and `ReduceInv`: the campaign only
  loses faults and targets, and what lies behind the cursor cannot go, now or
  after more has gone. The last is what makes one pass enough for minimality;
  it rests on the predicates being monotone, as the model's are.
- `GeneratedIsRunnable`, the generated half of `MadeIsRunnable`.
- `StaleHandlesAreCaught` from `BuilderInv`: the target counter, which `build`
  does not reset, is past every id given out.

`TransportProofs` proves `TransportTypeOK`, `SentAsPrescribed`, `StaysInStep`,
`StatsNotExaggerated` and `UnrelatedUntouched` for any fault list and streams of
any length, from

    TransportInv == TransportTypeOK /\ WholeInv /\ StatsInv /\ HeldInv /\ SentAsPrescribed

- `StatsInv`: what a forwarder still has to add, to the statistics or to the
  stale value it loaded, was handed on already; so a lost update loses and
  never invents.
- `HeldInv`: the frame held back is the last one read that a reorder fault
  targets; the code keeps it in a variable, the prescription has no state.
- `WholeInv`: frames are whole when read, and `Truncated` and `Corrupted` keep
  them whole.

It also proves that `Transport` implements `TransportControl`, step by step
under `TransportTypeOK`: a frame treated in any way is a frame taken, and only
`TF_CLOSE` and a failed read set the stop flag. What `transport_control` shows
of the threads is thus about the interposer with its faults, as far as safety
goes; the fairness of `TransportControl` is not derived from one of `Transport`.

`SchedulerProofs` proves `FiredOnceWhenDue` and `ReplayReproduces` for every
campaign and any number of observations.

- `SchedulerInv` ties the code's counters to the history: the count of an event
  is the number of its occurrences (`CountsAreHonest`). What a pass of
  `try_fire` releases is then what the observation makes due, and the eleven
  kinds differ, so that no two passes release the same.
- `ReplayInv`: the replay of the events recorded so far can be carried out in
  one way only, and stands where the scheduler stands. Every step of a run adds
  one event, so the run itself is the induction over the events.

`PROJECT.json` lists the theorems with the property each one states. The
inductive invariants that TLC can evaluate were model-checked on the instances
of section 3 before they were proved.

Only model-checked:

- liveness (`CommitsEventually`, `DeathIsNoticed`, `Reregisters`, `AbortEnds`,
  `StopReturns`, `CampaignEnds`), which is out of the prover's reach;
- the named scenarios of `MadeIsRunnable`: each is a fold of builder calls over
  a concrete sequence;
- `RoundTripsWhenSafe` and `VerdictsVouchForLogs`: escaping, splitting and
  parsing are folds over texts, and what they compute needs induction over
  data;
- `FailureIsExplained`: which requirement fails without a timeout depends on
  when each connection is noticed lost, in runs that have skipped calls and may
  have relaunched a coordinator at an old epoch, where `CoordInv` does not hold.

## 5. Not modelled, and the plan

Not modelled:

- the assertion evaluator: a table of single comparisons without state, which
  no campaign against a target calls;
- the TCP wrapper: system calls, whose behaviour is in the actions that use
  them; encoding of the runtime protocol;
- the CUDA calls and the `cuda*` commands, which need a device; and the commands
  that demonstrate one component with fixed inputs (`process`, `network`,
  `transport`, `authority`, `resource`, `assert`);
- the JSON form of evidence, the text form of authority, hashing and other
  stateless utilities, the benchmark driver.

Plan, in this order:

1. `FailureIsExplained` as a theorem, one campaign at a time: for those that
   wait for BOOT of a worker nobody kills, that its submission is not refused.
2. The interposer between worker and coordinator: `Transport` composed with
   `TargetRuntime`.
