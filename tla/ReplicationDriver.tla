-------------------------- MODULE ReplicationDriver --------------------------
(***************************************************************************)
(* The replication driver (replication/driver/replication_driver.go): a    *)
(* run makes up to MaxAttempts attempts; an attempt plans globally, then   *)
(* one goroutine per filesystem plans it, waits until its ancestors exist  *)
(* on the receiver, and executes its steps.  Planning and stepping need a  *)
(* permission of the step queue, used here through its abstract            *)
(* specification SlotPool.                                                 *)
(*                                                                         *)
(* Data abstraction: filesystem f has snapshots 1..snap[f] on the sender   *)
(* and 1..recv[f] on the receiver; a step is named by its target snapshot, *)
(* the step to snapshot t starts from t-1 and the step to snapshot 1 is a  *)
(* full send.  A plan is the interval lo..hi of targets.  The mutex l is   *)
(* the atomicity of the actions.                                           *)
(***************************************************************************)
EXTENDS Integers, Sequences, FiniteSetsExt

CONSTANTS Fss,          \* filesystems returned by Planner.Plan
          Ancestors,    \* [Fss -> SUBSET Fss], initialRepOrd.parents
          Concurrency,  \* Config.StepQueueConcurrency
          MaxAttempts,  \* Config.MaxAttempts
          MaxSnap       \* bound: snapshots per filesystem

ASSUME DriverAssumption ==
    /\ Ancestors \in [Fss -> SUBSET Fss]
    /\ Concurrency \in Nat \ {0} /\ MaxAttempts \in Nat \ {0} /\ MaxSnap \in Nat \ {0}

Errors == {"perm", "temp"}   \* errorClassPermanent, ...TemporaryConnectivityRelated

VARIABLES
    snap, recv,   \* environment: snapshots on sender and receiver
    cancelled,    \* ctx is done
    phase,        \* run: plan, fanout, reconnect, end
    ano,          \* attempt number, from 1
    outcome,      \* why the run ended
    planErr,      \* attempt.planErr
    prev,         \* the previous attempt's fs structs, or <<>> (no fss)
    fs,           \* per filesystem: struct fs
    errs,         \* filesystems in the order in which they recorded an error
    pc,           \* per filesystem goroutine
    scan,         \* per filesystem: the loop over its parents
    token,        \* per filesystem: parentDidUpdate (capacity 1) is full
    slot, free    \* the step queue

env == <<snap, recv, cancelled>>
run == <<phase, ano, outcome, planErr, prev>>
queue == <<slot, free>>
vars == <<env, run, fs, errs, pc, scan, token, queue>>

Queue == INSTANCE SlotPool WITH Users <- Fss, Slots <- Concurrency

\* struct fs at the start of an attempt: planning.{done, err}, planned.{steps
\* (targets lo..hi), step (did of them completed), stepErr}.
NewFS == [done |-> FALSE, planErr |-> "none", stepErr |-> "none",
          lo |-> 1, hi |-> 0, did |-> 0]
NoScan == [todo |-> {}, all |-> TRUE, bad |-> FALSE]

NumSteps(r) == r.hi - r.lo + 1

TypeOK ==
    /\ snap \in [Fss -> 1..MaxSnap] /\ recv \in [Fss -> 0..MaxSnap]
    /\ cancelled \in BOOLEAN
    /\ phase \in {"plan", "fanout", "reconnect", "end"}
    /\ ano \in 1..MaxAttempts
    /\ outcome \in {"", "done", "ctx", "inconsistent", "permanent", "unreachable", "exhausted"}
    /\ planErr \in Errors \cup {"none"}
    /\ fs \in [Fss -> [done : BOOLEAN, planErr : Errors \cup {"none"},
                       stepErr : Errors \cup {"none"}, lo : 1..MaxSnap + 1,
                       hi : 0..MaxSnap, did : 0..MaxSnap]]
    /\ \A f \in Fss : fs[f].did <= NumSteps(fs[f])
    /\ prev = <<>> \/ DOMAIN prev = Fss
    /\ errs \in Seq(Fss)
    /\ pc \in [Fss -> {"start", "planQ", "plan", "scan", "wait", "next", "stepQ", "step", "exit"}]
    /\ scan \in [Fss -> [todo : SUBSET Fss, all : BOOLEAN, bad : BOOLEAN]]
    /\ token \in [Fss -> BOOLEAN]
    /\ slot \in [Fss -> {"out", "asked", "granted"}] /\ free \in 0..Concurrency

FreshAttempt ==
    /\ fs' = [f \in Fss |-> NewFS]
    /\ errs' = <<>>
    /\ pc' = [f \in Fss |-> "start"]
    /\ scan' = [f \in Fss |-> NoScan]
    /\ token' = [f \in Fss |-> FALSE]

Init ==
    /\ snap \in [Fss -> 1..MaxSnap] /\ recv \in [Fss -> 0..MaxSnap]
    /\ \A f \in Fss : recv[f] <= snap[f]
    /\ cancelled = FALSE
    /\ phase = "plan" /\ ano = 1 /\ outcome = "" /\ planErr = "none" /\ prev = <<>>
    /\ fs = [f \in Fss |-> NewFS] /\ errs = <<>>
    /\ pc = [f \in Fss |-> "start"] /\ scan = [f \in Fss |-> NoScan]
    /\ token = [f \in Fss |-> FALSE]
    /\ Queue!Init

-----------------------------------------------------------------------------
(* Environment *)

\* A new snapshot is taken on the sender.
NewSnapshot(f) ==
    /\ phase # "end" /\ snap[f] < MaxSnap
    /\ snap' = [snap EXCEPT ![f] = @ + 1]
    /\ UNCHANGED <<recv, cancelled, run, fs, errs, pc, scan, token, queue>>

\* The job is reset or the daemon stops.
Cancel ==
    /\ phase # "end" /\ ~cancelled
    /\ cancelled' = TRUE
    /\ UNCHANGED <<snap, recv, run, fs, errs, pc, scan, token, queue>>

-----------------------------------------------------------------------------
(* One filesystem goroutine: fs.do *)

\* initialRepOrdWakeupChildren: non-blocking send to every child.
WakeupChildren(f) == token' = [g \in Fss |-> token[g] \/ f \in Ancestors[g]]

\* pq.WaitReady for planning.
AskPlan(f) ==
    /\ phase = "fanout" /\ pc[f] = "start"
    /\ Queue!Ask(f)
    /\ pc' = [pc EXCEPT ![f] = "planQ"]
    /\ UNCHANGED <<env, run, fs, errs, scan, token>>

Granted(f) ==
    /\ pc[f] \in {"planQ", "stepQ"}
    /\ Queue!Grant(f)
    /\ pc' = [pc EXCEPT ![f] = IF @ = "planQ" THEN "plan" ELSE "step"]
    /\ UNCHANGED <<env, run, fs, errs, scan, token>>

\* PlanFS returned an error.
PlanFSFails(f, e) ==
    /\ pc[f] = "plan"
    /\ Queue!GiveBack(f)
    /\ fs' = [fs EXCEPT ![f].planErr = e]
    /\ errs' = Append(errs, f)
    /\ pc' = [pc EXCEPT ![f] = "exit"]
    /\ WakeupChildren(f)
    /\ UNCHANGED <<env, run, scan>>

\* prev != nil && prev.planning.done && prev.planning.err == nil
HasPrev(f) == prev # <<>> /\ prev[f].done /\ prev[f].planErr = "none"

\* Targets of the previous attempt's uncompleted steps that are also targets
\* of the steps lo..hi (TargetEquals).
Correlated(f, lo, hi) == (prev[f].lo + prev[f].did)..prev[f].hi \cap lo..hi

\* Mutant: the last planned step is cut off even in a first attempt.
KeptUpToCut(f, lo, hi) == IF HasPrev(f) THEN Max(Correlated(f, lo, hi)) - 1 ELSE hi - 1

\* Mutant: a retry takes the new plan as it is.
KeptUpToAll(f, lo, hi) == hi

\* f.planned.steps[0:target.cur]: the last target that is kept.
KeptUpTo(f, lo, hi) == IF HasPrev(f) THEN Max(Correlated(f, lo, hi)) - 1 ELSE hi

\* PlanFS returned steps and, in a retry, no step correlates with what the
\* previous attempt left undone.
CannotCorrelate(f) ==
    /\ pc[f] = "plan" /\ HasPrev(f)
    /\ Correlated(f, recv[f] + 1, snap[f]) = {}
    /\ Queue!GiveBack(f)
    /\ fs' = [fs EXCEPT ![f].planErr = "perm", ![f].lo = recv[f] + 1, ![f].hi = snap[f]]
    /\ errs' = Append(errs, f)
    /\ pc' = [pc EXCEPT ![f] = "exit"]
    /\ WakeupChildren(f)
    /\ UNCHANGED <<env, run, scan>>

StartScan(f) == [scan EXCEPT ![f] = [todo |-> Ancestors[f], all |-> TRUE, bad |-> FALSE]]

\* PlanFS returned steps: planning.done, then the loop over the parents.
Planned(f) ==
    /\ pc[f] = "plan"
    /\ HasPrev(f) => Correlated(f, recv[f] + 1, snap[f]) # {}
    /\ Queue!GiveBack(f)
    /\ fs' = [fs EXCEPT ![f].done = TRUE, ![f].lo = recv[f] + 1,
                        ![f].hi = KeptUpTo(f, recv[f] + 1, snap[f])]
    /\ pc' = [pc EXCEPT ![f] = "scan"]
    /\ scan' = StartScan(f)
    /\ UNCHANGED <<env, run, errs, token>>

\* Mutant: a parent that has finished planning counts as present.
PresentOnReceiverPlanned(r) == TRUE

\* parentHasNoSteps || parentFirstStepIsIncremental ||
\* parentHasTakenAtLeastOneSuccessfulStep
PresentOnReceiver(r) == NumSteps(r) = 0 \/ r.lo > 1 \/ r.did >= 1

\* One iteration of the loop over initialRepOrd.parents; l is released
\* between iterations.
ScanParent(f, p) ==
    /\ pc[f] = "scan" /\ p \in scan[f].todo
    /\ LET r == fs[p]
           planned == r.done /\ r.planErr = "none"
           present == planned /\ PresentOnReceiver(r)
           failed == IF planned THEN ~present /\ r.stepErr # "none" ELSE r.planErr # "none"
       IN  scan' = [scan EXCEPT ![f] = [todo |-> @.todo \ {p}, all |-> @.all /\ present,
                                        bad |-> @.bad \/ failed]]
    /\ UNCHANGED <<env, run, fs, errs, pc, token, queue>>

\* "parent(s) failed during initial replication"
ParentFailed(f) ==
    /\ pc[f] = "scan" /\ scan[f].todo = {} /\ scan[f].bad
    /\ fs' = [fs EXCEPT ![f].stepErr = "perm"]
    /\ errs' = Append(errs, f)
    /\ pc' = [pc EXCEPT ![f] = "exit"]
    /\ WakeupChildren(f)
    /\ UNCHANGED <<env, run, scan, queue>>

\* All parents are present on the receiver, or we wait for an update.
ScanDone(f) ==
    /\ pc[f] = "scan" /\ scan[f].todo = {} /\ ~scan[f].bad
    /\ pc' = [pc EXCEPT ![f] = IF scan[f].all THEN "next" ELSE "wait"]
    /\ UNCHANGED <<env, run, fs, errs, scan, token, queue>>

\* case <-parentDidUpdate: check all parents again.
ParentDidUpdate(f) ==
    /\ pc[f] = "wait" /\ token[f]
    /\ token' = [token EXCEPT ![f] = FALSE]
    /\ pc' = [pc EXCEPT ![f] = "scan"]
    /\ scan' = StartScan(f)
    /\ UNCHANGED <<env, run, fs, errs, queue>>

\* case <-ctx.Done() of the same select.
WaitCancelled(f) ==
    /\ pc[f] = "wait" /\ cancelled
    /\ fs' = [fs EXCEPT ![f].stepErr = "perm"]
    /\ errs' = Append(errs, f)
    /\ pc' = [pc EXCEPT ![f] = "exit"]
    /\ WakeupChildren(f)
    /\ UNCHANGED <<env, run, scan, queue>>

\* pq.WaitReady for the next step.
AskStep(f) ==
    /\ pc[f] = "next" /\ fs[f].did < NumSteps(fs[f])
    /\ Queue!Ask(f)
    /\ pc' = [pc EXCEPT ![f] = "stepQ"]
    /\ UNCHANGED <<env, run, fs, errs, scan, token>>

\* Step returned nil.
StepOk(f) ==
    /\ pc[f] = "step"
    /\ Queue!GiveBack(f)
    /\ recv' = [recv EXCEPT ![f] = fs[f].lo + fs[f].did]
    /\ fs' = [fs EXCEPT ![f].did = @ + 1]
    /\ pc' = [pc EXCEPT ![f] = "next"]
    /\ WakeupChildren(f)
    /\ UNCHANGED <<snap, cancelled, run, errs, scan>>

\* Mutant: the deferred initialRepOrdWakeupChildren is missing.
StepFailsSilent(f, e) ==
    /\ pc[f] = "step"
    /\ Queue!GiveBack(f)
    /\ recv' \in {recv, [recv EXCEPT ![f] = fs[f].lo + fs[f].did]}
    /\ fs' = [fs EXCEPT ![f].stepErr = e]
    /\ errs' = Append(errs, f)
    /\ pc' = [pc EXCEPT ![f] = "exit"]
    /\ UNCHANGED <<snap, cancelled, run, scan, token>>

\* Step returned an error, before or after the receiver got the snapshot.
StepFails(f, e) ==
    /\ pc[f] = "step"
    /\ Queue!GiveBack(f)
    /\ recv' \in {recv, [recv EXCEPT ![f] = fs[f].lo + fs[f].did]}
    /\ fs' = [fs EXCEPT ![f].stepErr = e]
    /\ errs' = Append(errs, f)
    /\ pc' = [pc EXCEPT ![f] = "exit"]
    /\ WakeupChildren(f)
    /\ UNCHANGED <<snap, cancelled, run, scan>>

\* The loop over planned.steps is over; the deferred wakeup.
AllStepsDone(f) ==
    /\ pc[f] = "next" /\ fs[f].did = NumSteps(fs[f])
    /\ pc' = [pc EXCEPT ![f] = "exit"]
    /\ WakeupChildren(f)
    /\ UNCHANGED <<env, run, fs, errs, scan, queue>>

Filesystem(f) ==
    \/ AskPlan(f) \/ Granted(f) \/ CannotCorrelate(f) \/ Planned(f)
    \/ \E p \in Fss : ScanParent(f, p)
    \/ ParentFailed(f) \/ ScanDone(f) \/ ParentDidUpdate(f) \/ WaitCancelled(f)
    \/ AskStep(f) \/ StepOk(f) \/ AllStepsDone(f)
    \/ \E e \in Errors : PlanFSFails(f, e) \/ StepFails(f, e)

-----------------------------------------------------------------------------
(* The run: Do, attempt.do, attempt.report, attempt.errorReport *)

\* Planner.Plan returned the filesystems; doFilesystems starts a goroutine
\* for each.
GlobalPlanOk ==
    /\ phase = "plan" /\ planErr = "none"
    /\ phase' = "fanout"
    /\ UNCHANGED <<env, ano, outcome, planErr, prev, fs, errs, pc, scan, token, queue>>

\* Planner.Plan failed (or two filesystems could not be told apart): the
\* attempt has no filesystems.
GlobalPlanFails(e) ==
    /\ phase = "plan" /\ planErr = "none"
    /\ planErr' = e
    /\ pc' = [f \in Fss |-> "exit"]
    /\ UNCHANGED <<env, phase, ano, outcome, prev, fs, errs, scan, token, queue>>

\* attempt.do has returned.
AttemptOver ==
    \/ phase = "plan" /\ planErr # "none"
    \/ phase = "fanout" /\ \A f \in Fss : pc[f] = "exit"

\* Mutant: errors of steps do not make an attempt fail.
HasErrorPlanOnly(f) == fs[f].planErr # "none"

\* fs.report().Error() != nil
HasError(f) == fs[f].planErr # "none" \/ (fs[f].done /\ fs[f].stepErr # "none")

\* report.AttemptDone
StateDone == planErr = "none" /\ \A f \in Fss : ~HasError(f)

\* errorReport: which filesystems contribute an error to it.
Reported(f) == fs[f].done /\ (fs[f].planErr # "none" \/ fs[f].stepErr # "none")

ErrClass(f) == IF fs[f].planErr # "none" THEN fs[f].planErr ELSE fs[f].stepErr

\* errorReport().MostRecent()
MostRecentClass ==
    LET reported == SelectSeq(errs, Reported)
    IN  IF planErr # "none" THEN planErr
        ELSE IF reported = <<>> THEN "none"
        ELSE ErrClass(reported[Len(reported)])

EndRun(why) ==
    /\ phase' = "end" /\ outcome' = why
    /\ UNCHANGED <<env, ano, planErr, prev, fs, errs, pc, scan, token, queue>>

\* The decision Do takes after an attempt.
Classify ==
    /\ AttemptOver
    /\ \/ cancelled /\ EndRun("ctx")
       \/ ~cancelled /\ StateDone /\ EndRun("done")
       \/ ~cancelled /\ ~StateDone /\ MostRecentClass = "none" /\ EndRun("inconsistent")
       \/ ~cancelled /\ ~StateDone /\ MostRecentClass = "perm" /\ EndRun("permanent")
       \/ /\ ~cancelled /\ ~StateDone /\ MostRecentClass = "temp"
          /\ phase' = "reconnect"
          /\ UNCHANGED <<env, ano, outcome, planErr, prev, fs, errs, pc, scan, token, queue>>

\* WaitForConnectivity returned nil: the next iteration of the loop.
Reconnected ==
    /\ phase = "reconnect" /\ ano < MaxAttempts
    /\ phase' = "plan" /\ ano' = ano + 1
    /\ prev' = IF planErr = "none" THEN fs ELSE <<>>
    /\ planErr' = "none"
    /\ FreshAttempt
    /\ UNCHANGED <<env, outcome, queue>>

OutOfAttempts == phase = "reconnect" /\ ano = MaxAttempts /\ EndRun("exhausted")

ReconnectFails == phase = "reconnect" /\ EndRun("unreachable")

Stopped == phase = "end" /\ UNCHANGED vars

Next ==
    \/ Cancel \/ GlobalPlanOk \/ Classify \/ Reconnected \/ OutOfAttempts
    \/ ReconnectFails \/ Stopped
    \/ \E e \in Errors : GlobalPlanFails(e)
    \/ \E f \in Fss : NewSnapshot(f) \/ Filesystem(f)

Spec == Init /\ [][Next]_vars

\* RPCs return (they have deadlines or fail with the connection), goroutines
\* are scheduled, and the step queue grants every request (WaitReadyReturns
\* of module StepQueue).  Nothing is assumed of snapshots or cancellation.
Fairness ==
    /\ \A f \in Fss : WF_vars(Filesystem(f))
    /\ WF_vars(GlobalPlanOk \/ Classify \/ Reconnected \/ OutOfAttempts)

FairSpec == Spec /\ Fairness

-----------------------------------------------------------------------------
(* Properties *)

(* Initial replication order: a filesystem executes a step only when all   *)
(* its ancestors exist on the receiver.  fs.do concludes that from their   *)
(* plans: "if there are no steps to be done, the filesystem must exist on  *)
(* the receiving side".  A retry cuts its plan short, see KeptUpTo, and    *)
(* may have no steps left for a filesystem that was never received.        *)
AncestorsAlwaysFirst ==
    \A f \in Fss : pc[f] = "step" => \A p \in Ancestors[f] : recv[p] > 0

(* The same order in the first attempt, whose plans are not cut, however   *)
(* the scans of the parents (one parent at a time, fs.do) interleave with  *)
(* the parents' steps and failures.                                        *)
AncestorsFirst == ano = 1 => AncestorsAlwaysFirst

(* A run that ends with an attempt in state "done" has executed every step *)
(* that the attempt kept of its plan, on every filesystem.                 *)
DoneMeansExecuted ==
    outcome = "done" => \A f \in Fss : recv[f] >= fs[f].hi

(* A run that ends with an attempt in state "done" has replicated, for     *)
(* every filesystem, up to and including the snapshot that was the most    *)
(* recent one when the first attempt that planned it did so.  (prev keeps  *)
(* the plan of the attempt before.)                                        *)
DoneMeansReplicated ==
    outcome = "done" => \A f \in Fss : prev # <<>> => recv[f] >= prev[f].hi

(* A retry "only [allows] fs.planned.steps up to [...] the originally      *)
(* planned target snapshot" (fs.do): the snapshots that were taken since,  *)
(* and those that the receiver got although the step failed, shift the new *)
(* plan, but it never sends a snapshot the previous attempt did not aim    *)
(* at, nor one that the previous attempt has completed.                    *)
RetryWithinPlan ==
    \A f \in Fss : pc[f] = "step" /\ HasPrev(f) =>
        fs[f].lo + fs[f].did \in (prev[f].lo + prev[f].did)..prev[f].hi

(* Every run ends: no wakeup of a child is lost, no filesystem waits for   *)
(* its ancestors while it holds a permission of the step queue.            *)
RunEnds == <>(phase = "end")

(* Temporary errors are retried: a run is given up early only after a      *)
(* permanent error, a failed reconnect or a cancellation                   *)
(* (docs/configuration/overview.rst).                                      *)
TemporaryErrorsRetried ==
    outcome \in {"inconsistent", "permanent"} =>
        planErr = "perm" \/ \E f \in Fss : HasError(f) /\ ErrClass(f) = "perm"
=============================================================================
