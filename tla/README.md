# TLA+ models of zrepl

This directory keeps formal models of zrepl, a daemon that replicates ZFS
filesystems: TLA+ modules translated from the Go source, TLC configurations that
check them on small instances, and TLAPS proofs of the properties that matter
most for every value of the constants. `PROJECT.json` maps every definition to
the lines it models, and lists runs, mutants, findings, hazards and theorems.

To check a run: `tlc -config X.cfg M`; to check the proofs: `tlapm M_proofs.tla`.

## 1. The system

A daemon runs *jobs*. An active job (push, pull) connects two *endpoints*, a
sender and a receiver, one of which is remote; a passive job (source, sink)
serves an endpoint; a snap job only takes and prunes snapshots. One *invocation*
of an active job replicates, prunes the sender, then prunes the receiver. It is
triggered by the job's *snapper* or interval, or by a signal of the user.

| part | source | state | model |
|---|---|---|---|
| replication driver | `replication/driver/replication_driver.go` | run, attempts, one goroutine per filesystem with its plan, step counter and errors | `ReplicationDriver` |
| step queue | `replication/driver/replication_stepqueue.go` | heap of requests, permissions given out, three goroutines | `StepQueue`, abstract: `SlotPool` |
| replication logic | `replication/logic/` | plan of a filesystem, the step being executed | `Replication` |
| endpoints | `endpoint/endpoint.go`, `endpoint_guarantees.go`, `endpoint_zfs_abstraction*.go` | none of their own: holds and bookmarks in ZFS | `Replication` (Send, SendCompleted, Receive), `Pruner` (DestroySnapshots, ReplicationCursor) |
| abstraction cache | `endpoint/endpoint_abstractions_cache.go` | list of known holds and bookmarks, load state per filesystem | only its effect on ZFS, in `Replication` |
| pruner | `daemon/pruner/` | plan, queue of filesystems, errors | `Pruner` |
| keep rules, retention grid | `pruning/` | none | `KeepRules`, over time: `Retention` |
| batch destroy | `zfs/versions_destroy.go` | cached feature check | `Pruner` |
| snapper, hooks | `daemon/snapper/`, `daemon/hooks/` | state machine of the snapper, status of hook steps | planned |
| jobs, wakeup, reset | `daemon/job/` | invocation loop, cancellation | planned |
| data connections | `rpc/dataconn/` | streams, frames, heartbeats, shutdown of a connection | planned |
| rpc, multiplexing, handshake | `rpc/` | listeners, hand-over of connections | planned |
| transports | `transport/` | local listener | planned (local only) |
| filters, dataset paths, diff | `daemon/filters/`, `zfs/`, `replication/logic/diff/` | none | planned as operators |
| tracing, utilities | `daemon/logging/trace/`, `util/` | task tree, semaphore, ring buffer | planned where used |
| configuration, client, status | `config/`, `client/` | none that matters | not modelled |

How the parts interact in the models: `ReplicationDriver` uses the step queue
only through `SlotPool` (`Queue == INSTANCE SlotPool`), and `StepQueue` is shown
to implement `SlotPool`, both by TLC and by proof. `Replication` is what one
`Step` of the driver does to one filesystem; the driver's `StepOk` and
`StepFails` are its outcomes. `Pruner` extends `KeepRules` and takes replication
as part of its environment (`Replicate` moves the cursor); `Replication` in turn
takes pruners as part of its environment (`DestroyOnSender`,
`DestroyOnReceiver`), with the only guard ZFS gives: a held snapshot stays.

## 2. The modules

### StepQueue, SlotPool

One variable per shared variable of `stepQueue`, and a program counter for each
goroutine: the callers of `WaitReady`, the goroutine that receives requests, the
one that wakes callers, the one that stops. Critical sections that cannot block
are one action each, guarded by `LFree`; the critical section of the wake
goroutine is cut where it blocks, because it sends on an unbuffered channel while
it owns the mutex. The heap is the set of pending requests; its order is
`IsEarliest`, which leaves equal dates open, as the heap does.

### ReplicationDriver

The loop of `Do` (`GlobalPlanOk`, `GlobalPlanFails`, `Classify`, `Reconnected`,
`ReconnectFails`, `OutOfAttempts`) and one program counter per filesystem
goroutine, cut at `WaitReady`, at the calls of the planner, and at every
iteration of the loop over the parents, between which the mutex is released.
A filesystem has snapshots `1..snap[f]` on the sender and `1..recv[f]` on the
receiver; a step is named by its target; a plan is an interval of targets. That
is enough to tell a full send from an incremental one, to correlate the plans of
two attempts (`TargetEquals`), and to see new snapshots appear between them. A
step that fails may or may not have reached the receiver.

### Replication

One filesystem, one job. State: the snapshots, step holds, cursors and tentative
cursors of the sender; the filesystem, snapshots, last-received holds and resume
token of the receiver; the step being executed. `pc` says which ZFS command comes
next, so every handler is cut between any two commands that change something:

| `pc` | next action | code |
|---|---|---|
| idle | `PlanResume`, `PlanIncremental`, `PlanInitial`, `PlanInitialBookmarksOnly` | `Filesystem.doPlanning` |
| ready, preTo, cleanup | `SendBegins`, `SendProtectsTo`, `SendCleansUp` | `Sender.Send`, `SenderPreSend` |
| stream, recv | `ReceiveBegins`, `RecvOk`, `RecvInterrupted`, `RecvFails` | `Receiver.Receive`, `zfs recv` |
| recvd, held | `HoldReceived`, `ReleaseOld` | `ReceiverPostRecv` |
| confirm, confirmed | `ConfirmMovesCursor`, `ConfirmCleansUp` | `Sender.SendCompleted` |

Between any two of them a snapshot may be taken, any snapshot that ZFS does not
protect may be destroyed on either side, and `Fault` may end the step. Cleanups
are best effort: `TryBatchDestroy` may leave any of the obsolete objects behind.
The protection setting is chosen again at every plan, as a user may edit the
configuration between two attempts.

### KeepRules, Pruner, Retention

`KeepRules` has no state: what each rule removes from a set of snapshots, with a
regular expression given as the set of names it matches. `Pruner` is one pruner
invocation and the destroy handler it calls. Planning is cut between the listing
of versions and the request for the cursor, execution at every RPC, and the
handler at every `zfs destroy`: the batch, the batch without the undestroyable
snapshots, the single destroys. `DestroyUndestroyable` and `DestroyFails` may
have destroyed any part of what they were given. Lost requests and lost answers
are `DestroyCallFails`. Filesystems that are skipped or could not be planned go
through the execution queue with an empty list, as in the code.

`Retention` asks what the grid does over months: one rule, applied again and
again to snapshots that grow older. A snapshot is its age; all ages beyond the
last bucket are one.

## 3. The runs

| run | instance | what it shows |
|---|---|---|
| `step_queue` | 3 callers, 2 permissions, 2 calls each, 2 dates | never more than two permissions out, the counter is exact, no wakeup is lost, no panic, heap order is kept, every `WaitReady` returns, `Start`'s goroutines end, and the queue implements `SlotPool` |
| `driver` | parent and child, 1 permission, 2 attempts, 2 snapshots each | in the first attempt a child is sent only when its parent is on the receiver; `done` means that every kept step was executed; every run ends |
| `driver_retries` | 1 filesystem, 4 snapshots, 3 attempts | a retry sends only snapshots that the attempt before had planned and not completed, although new ones were taken and failed steps may have reached the receiver |
| `driver_retry_order` | as `driver` | violated, see 6 |
| `driver_retry_target` | as `driver` | violated, see 6 |
| `driver_plan_error` | as `driver` | violated, see 6 |
| `replication_guaranteed` | 3 snapshots, both guarantees in any mix, into a placeholder, `initial_replication: all`, no failure between `zfs recv` and the hold | incremental replication stays possible, no cursor is ahead of the receiver, the receiver never loses its newest snapshot, the assertions in the cleanups hold |
| `replication_resumability` | 3 snapshots, `guarantee_resumability`, into nothing, `most_recent`, no failure between `zfs recv` and the hold | an interrupted step stays resumable, and the receiver catches up once interruptions stop |
| `replication_hold_window` | as above with `guarantee_incremental` and failures between `zfs recv` and the hold | violated, see 6 |
| `replication_resume_stuck` | 2 snapshots, `guarantee_incremental` | violated, see 6 |
| `pruning` | 3 filesystems with at most 3, 1 and 0 snapshots, the last not on the sender; rules `not_replicated` and `last_n` | only replicated snapshots are destroyed, `Done` means that everything condemned is gone, a started pruner ends |
| `retention` | grid of five buckets of growing length, a snapshot at least every tick | a prune keeps exactly what the documentation says; a second one destroys nothing more; no three adjacent buckets are empty at once |

**Bounds.** Three callers and two permissions are the least with a caller that
must wait while others run, two calls each the least in which a permission is
reused. Two attempts and a snapshot that appears between them are the least with
a retry that plans something else; one filesystem with four snapshots and three
attempts has retries of retries that still have something to send. Three snapshots give a step, its successor,
and a snapshot that is replicated already; the proofs remove this bound. The
pruner's three snapshots of one filesystem let the rules condemn two at once (a
batch), of which one can be undestroyable. The skipped filesystem has no
snapshots there: that its snapshots stay is shown by the proof of
`OnlyReplicatedDestroyed` only. Likewise the settings of the replication runs are
guarantees, and `NoPanic` with protection `none` is shown by
`HandlersNeverPanic`. The retention grid has as many buckets
as the windows of `Covered` need, with a first one that keeps all, as the
documentation recommends.

**Deadlock** is checked in every run but `pruning`, whose world is bounded in
snapshots and invocations and comes to rest. Final states of the others
(`Terminated`, `Stopped`, `Panicked`) are explicit steps.

**Fairness.**
- `StepQueue`: every goroutine that can run does (Go's scheduler), and a granted
  permission is given back (`fs.do` calls the completion function after every
  `PlanFS` and `Step`). Callers need not call, nothing forces `Close`.
- `ReplicationDriver`: RPCs return (they have deadlines or fail with the
  connection), and the queue grants every request, which is
  `WaitReadyReturns` of `StepQueue`. New snapshots, cancellation and reconnects
  that fail are not fair.
- `Replication`: the job runs again and again and its commands return. Nothing is
  assumed of snapshots being taken or destroyed. `CatchesUp` is conditional on
  interruptions eventually stopping (`Interrupted`): steps that fail although the
  versions they need exist and ZFS would take the stream. Steps that a handler
  rejects and streams that ZFS refuses are not assumed to stop; that planning
  does not produce them for ever is part of what the run shows. `Fault` leaves
  the same state as a rejection, so that `Interrupted` takes a failure where a
  rejection is due for that rejection.
- `Pruner`: a started pruner's calls return, with or without an error.

**What TLC showed along the way.** `Covered` does not hold for windows of two
buckets: a bucket keeps only its oldest snapshot, so that it is empty from the
moment that one grows out of it until the bucket before lets one go. `Stable`
needs a first interval with keep=all: otherwise a prune may remove the youngest
snapshot, the grid moves, and the next prune removes more.

## 4. The proofs

| module | theorems | inductive invariant |
|---|---|---|
| `StepQueue_proofs` | `TypeCorrect`, `Bounded`, `NoWakeupLost`, `PanicFree`, `PriorityKept`, `Refinement` | `IInv`: besides types, where each request is (held, heap, in flight, running) follows from the caller's program counter, and `active` counts them |
| `Replication_proofs` | `TypeCorrect`, `HandlersNeverPanic`, `IncrementalAlwaysPossible`, `CursorNeverAhead`, `ReceiverNeverRegresses`, `AlwaysResumable` | `Shape`, `Protection`, `ResumeKept` |
| `Pruner_proofs` | `TypeCorrect`, `DoneIsTrue`, `OnlyReplicatedDestroyed` | `IInv` = `TypeOK`, `Condemned`, `Accounted`, `Queued` |

*StepQueue.* From the assumptions on the constants alone (finitely many callers, at
least one permission). `ActiveIsExact` is part of the invariant: without it the
bound cannot be derived from the test in the loop. No wakeup is lost because every
action that makes the loop condition false also broadcasts. The refinement maps a
caller's program counter to out, asked, granted.

*Replication.* `Shape` says what a step and a token look like (`from < to`, later
targets beyond it, a token based on the receiver's newest snapshot); it holds for
all settings and with failures in the hold window, and gives `NoPanic`.
`Protection` needs the assumption `Protected`: every setting is a guarantee and
the receiver does not fail between `zfs recv` and its hold, which
`replication_hold_window` shows to be necessary. It says which object protects the
receiver's newest snapshot at each point of a step: before the confirmation what
protects `from`, after `zfs recv` what protects `to`, afterwards a cursor. The
hand-over is why `IncrementalPossible` alone is not inductive. `ResumeKept` adds,
for `guarantee_resumability`, that the token's `to` has a step hold and that no
other step is executed while a token exists.

*Pruner.* `Condemned`: everything in a destroy list is replicated with respect to
the present cursor, which only moves forward; it rests on `PruneNeedsEveryRule`,
that a snapshot is removed only if every rule lists it. `Accounted`: while a
handler works, each snapshot of the request is gone, still to be tried, or has an
error. `Queued`: every filesystem is pending, being executed or completed, and a
completed one without error has nothing left.

Only model-checked: every liveness property (`WaitReadyReturns`, `StopReleases`,
`RunEnds`, `CatchesUp`, `PruneEnds`), for which the prover has no fairness rules;
the driver's properties, whose proofs are planned; and the retention grid, whose
buckets are defined by recursion.

## 5. Abstractions

- A snapshot's guid, createtxg, date and name are one number where the code keeps
  them in the same order. Names are not reused, though the pruner destroys by
  name.
- Handlers that outlive a broken connection and run beside the retry's handlers
  are not modelled; a lost connection ends the step where it is.
- The pruner's destroy request is one batch per filesystem
  (`ZREPL_DESTROY_MAX_BATCH_SIZE` is 0 by default). The halving of a batch on
  E2BIG is left out: it tests for `*os.PathError`, and `ZFSDestroy` wraps every
  error in a type of its own.
- In `Replication` a filesystem that was cleared as placeholder and then crashed
  is `Wedged`: no stream can be received into it. `CatchesUp` excludes it.
- Dry runs, size estimates, bandwidth limits, metrics, logging and reports have no
  influence on the state and are left out.

## 6. Where code and documentation disagree

1. `driver_retry_target`: a retry keeps the plan up to the originally planned
   target but, against the comment in the code, without it: the second attempt
   ends in state done and the target was never sent.
2. `driver_plan_error`: an error in planning a filesystem is not part of the error
   report, so that a temporary one ends the run instead of leading to a reconnect.
3. `replication_hold_window`: the receiver's hold is created after `zfs recv`
   returned. If the receiver fails in between, nothing creates it later, and
   destroying that snapshot after the next step has begun leaves both sides
   without a common version.
4. `replication_resume_stuck`: with `guarantee_incremental`, an interrupted step
   whose `to` was destroyed leaves a resume token with which every later planning
   fails. The documentation says that zrepl removes it.
5. `driver_retry_order`: the same cut may leave a retry without any step for a
   filesystem that was never received. Its children take "no steps" as a sign
   that it exists on the receiver, and are sent first.

## 7. Plan

Modelled so far is the path from the decision to replicate to the ZFS commands,
and pruning. In this order, what comes next:

1. **Jobs** (`Job`, with the snapper's states and the hook plan): the invocation
   loop, wakeup and reset on unbuffered channels, the snapper's event that is
   dropped when the job is busy, pre and post edges. Properties: a snapshot event
   is followed by an invocation that sees the snapshot; a reset ends the running
   invocation and no other; post edges run for exactly the pre edges that
   succeeded. Composition with `Pruner` and the driver by their promises (they
   end).
2. **Connections** (`Stream`, `FrameConn`, `Demux`): one stream over a connection
   with heartbeats, a reader, a writer and a closer; the shutdown of the frame
   layer; the demultiplexing listener and its shutdown; the local listener.
   Abstract specification: a stream arrives complete and in order, or with an
   error. Properties: no truncated stream is taken for a complete one; everything
   started ends after a close.
3. **Endpoint caches and staleness** (`AbstractionsCache`, operators for
   `listStaleFiltering` and the createtxg ranges): loading with the mutex dropped,
   `Put` and invalidation at the same time. Property: nothing that exists is
   forgotten for ever, nothing live is destroyed.
4. **Algorithms**: `IncrementalPath` against a definition by sets, the
   longest-prefix filter, the traversal of dataset paths, chunking and the
   circular log.
5. **Trace tasks, semaphore**, where the modules above need them.

A question that belongs to the same instance goes into the run that has it; the
jobs and the connections get a run each, the algorithms share one.

Proofs to come: the driver's `AncestorsFirst`, `DoneMeansExecuted` and
`RetryWithinPlan`; that the stream implements its abstract specification; the
cache's invariant; that `Stable` holds for every grid whose first interval keeps
all, as far as it can be had without induction over the intervals.

Not planned: configuration, the client and the status display (no state beyond
formatting), TCP, TLS and SSH transports (wrappers of network libraries),
generated code, platform tests.
