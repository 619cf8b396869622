------------------------------- MODULE Pruner -------------------------------
(***************************************************************************)
(* One pruner (daemon/pruner) of an active job and the destroy handler of  *)
(* the endpoint it prunes: plan every filesystem, then execute the destroy *)
(* lists one by one.  Meanwhile the rest of the world takes snapshots,     *)
(* replicates, places and releases holds and destroys snapshots itself.    *)
(*                                                                         *)
(* A snapshot is its number: createtxg, date, guid and name at once, so    *)
(* names are not reused.  A filesystem is the rank of its path.            *)
(***************************************************************************)
EXTENDS KeepRules

CONSTANTS Fss,              \* filesystems of the prune target, numbers
          Placeholders,     \* those that are placeholders
          SenderFss,        \* those the sender lists, too
          Rules,            \* the keep rules of this side
          ConsiderSnapAtCursorReplicated,
          MaxSnap,          \* bound: snapshots of each filesystem
          MaxAttempts       \* bound: pruner invocations

ASSUME PrunerAssumption ==
    /\ Fss \subseteq Nat /\ Placeholders \subseteq Fss /\ SenderFss \subseteq Fss
    /\ ConsiderSnapAtCursorReplicated \in BOOLEAN
    /\ MaxSnap \in [Fss -> Nat] /\ MaxAttempts \in Nat
    /\ Len(Rules) \in Nat /\ DOMAIN Rules = 1..Len(Rules)

VARIABLES snaps,      \* snapshots of each filesystem on the target
          latest,     \* the newest snapshot ever taken
          held,       \* snapshots with a hold, which zfs does not destroy
          cursor,     \* the sender's most recent replication cursor, 0: none
          feature,    \* batchDestroyFeatureCheck
          state,      \* Pruner.state
          attempt,    \* invocations so far
          pc,         \* where doOneAttempt or the destroy handler is
          todo,       \* filesystems left to plan
          cur,        \* the filesystem being planned or executed
          listed,     \* its versions as listed
          planErr, destroyList,   \* fs: what planning found
          execErr,    \* fs.execErrLast
          pending, completed,   \* execQueue
          work,       \* snapshots the handler has still to destroy one by one
          remaining,  \* the undestroyable ones of the batch
          errs        \* snapshots whose ErrOut is set

env == <<snaps, latest, held, cursor>>
queue == <<pending, completed, execErr>>
handler == <<work, remaining, errs, feature>>
planning == <<todo, listed, planErr, destroyList>>
vars == <<env, state, attempt, pc, cur, planning, queue, handler>>

Snaps == Nat \ {0}
Skipped(f) == f \in Placeholders \/ f \notin SenderFss

Init ==
    /\ snaps = [f \in Fss |-> {}]
    /\ latest = [f \in Fss |-> 0]
    /\ held = [f \in Fss |-> {}]
    /\ cursor = [f \in Fss |-> 0]
    /\ feature = "unknown"
    /\ state = "Done" /\ attempt = 0
    /\ pc = "idle" /\ todo = {} /\ cur = 0 /\ listed = {}
    /\ planErr = [f \in Fss |-> FALSE]
    /\ destroyList = [f \in Fss |-> {}]
    /\ execErr = [f \in Fss |-> FALSE]
    /\ pending = {} /\ completed = {}
    /\ work = {} /\ remaining = {} /\ errs = {}

-----------------------------------------------------------------------------
(* The rest of the world. *)

TakeSnapshot(f) ==
    /\ latest[f] < MaxSnap[f]
    /\ latest' = [latest EXCEPT ![f] = @ + 1]
    /\ snaps' = [snaps EXCEPT ![f] = @ \cup {latest[f] + 1}]
    /\ UNCHANGED <<held, cursor>>

\* A replication step moves the cursor forward, to a snapshot.
Replicate(f) ==
    \E s \in snaps[f] :
        /\ ~Skipped(f) /\ s > cursor[f]
        /\ cursor' = [cursor EXCEPT ![f] = s]
        /\ UNCHANGED <<snaps, latest, held>>

Hold(f) ==
    \E s \in snaps[f] \ held[f] :
        /\ held' = [held EXCEPT ![f] = @ \cup {s}]
        /\ UNCHANGED <<snaps, latest, cursor>>

Release(f) ==
    \E s \in held[f] :
        /\ held' = [held EXCEPT ![f] = @ \ {s}]
        /\ UNCHANGED <<snaps, latest, cursor>>

DestroyedByOthers(f) ==
    \E s \in snaps[f] \ held[f] :
        /\ snaps' = [snaps EXCEPT ![f] = @ \ {s}]
        /\ UNCHANGED <<latest, held, cursor>>

Environment ==
    /\ \E f \in Fss : TakeSnapshot(f) \/ Replicate(f) \/ Hold(f) \/ Release(f)
                        \/ DestroyedByOthers(f)
    /\ UNCHANGED <<state, attempt, pc, cur, planning, queue, handler>>

-----------------------------------------------------------------------------
(* doOneAttempt: planning. *)

\* The job builds a new pruner and runs it.
Prune ==
    /\ pc = "idle" /\ attempt < MaxAttempts
    /\ attempt' = attempt + 1
    /\ state' = "Plan" /\ pc' = "list"
    /\ planErr' = [f \in Fss |-> FALSE]
    /\ destroyList' = [f \in Fss |-> {}]
    /\ execErr' = [f \in Fss |-> FALSE]
    /\ pending' = {} /\ completed' = {}
    /\ UNCHANGED <<env, cur, todo, listed, handler>>

ListFilesystems ==
    /\ pc = "list"
    /\ \/ todo' = Fss /\ pc' = "plan" /\ UNCHANGED state
       \/ state' = "PlanErr" /\ pc' = "idle" /\ UNCHANGED todo
    /\ UNCHANGED <<env, attempt, cur, listed, planErr, destroyList, queue, handler>>

SkipFilesystem ==
    /\ pc = "plan"
    /\ \E f \in todo : Skipped(f) /\ todo' = todo \ {f}
    /\ UNCHANGED <<env, state, attempt, pc, cur, listed, planErr, destroyList, queue, handler>>

ListFilesystemVersions ==
    /\ pc = "plan"
    /\ \E f \in todo :
        /\ ~Skipped(f)
        /\ todo' = todo \ {f}
        /\ \/ /\ listed' = snaps[f] /\ cur' = f /\ pc' = "cursor"
              /\ UNCHANGED planErr
           \/ /\ planErr' = [planErr EXCEPT ![f] = TRUE]
              /\ UNCHANGED <<listed, cur, pc>>
    /\ UNCHANGED <<env, state, attempt, destroyList, queue, handler>>

\* Mutant: the scan does not care whether the cursor's snapshot is there.
IsReplicatedNoSnapshot(s, list, rc) ==
    LET preCursor == rc \in list => s < rc
    IN  preCursor \/ (ConsiderSnapAtCursorReplicated /\ s = rc)

\* The scan from older to newer: what precedes the cursor is replicated,
\* provided that the cursor's snapshot exists.
IsReplicated(s, list, rc) ==
    LET preCursor == rc \in list /\ s < rc
    IN  preCursor \/ (ConsiderSnapAtCursorReplicated /\ s = rc)

Snapshots(list, rc) ==
    {[txg |-> s, name |-> s, date |-> s, replicated |-> IsReplicated(s, list, rc)] :
        s \in list}

Condemn(list, rc) == {s.txg : s \in PruneSnapshots(Snapshots(list, rc), Rules)}

ReplicationCursor ==
    /\ pc = "cursor" /\ pc' = "plan"
    /\ \/ /\ cursor[cur] # 0
          /\ destroyList' = [destroyList EXCEPT ![cur] = Condemn(listed, cursor[cur])]
          /\ UNCHANGED planErr
       \/ \* the call fails, or there is no cursor
          planErr' = [planErr EXCEPT ![cur] = TRUE] /\ UNCHANGED destroyList
    /\ listed' = {} /\ cur' = 0
    /\ UNCHANGED <<env, state, attempt, todo, queue, handler>>

-----------------------------------------------------------------------------
(* doOneAttempt: execution. *)

StartExec ==
    /\ pc = "plan" /\ todo = {}
    /\ state' = "Exec" /\ pc' = "exec"
    /\ pending' = Fss
    /\ UNCHANGED <<env, attempt, cur, planning, completed, execErr, handler>>

\* Mutant: an empty queue is not the end of the loop.
PopNil ==
    /\ pc = "exec" /\ pc' = "rpc"
    /\ cur' \in IF pending = {} THEN {0} ELSE {f \in pending : \A g \in pending : f <= g}
    /\ pending' = pending \ {cur'}
    /\ UNCHANGED <<env, state, attempt, planning, completed, execErr, handler>>

\* The first pending filesystem; its destroy list is sent to the endpoint.
Pop ==
    /\ pc = "exec"
    /\ \E f \in pending :
        /\ \A g \in pending : f <= g
        /\ pending' = pending \ {f}
        /\ cur' = f
    /\ pc' = "rpc"
    /\ UNCHANGED <<env, state, attempt, planning, completed, execErr, handler>>

\* Mutant: a filesystem with an error becomes pending again.
PutRetry(err) ==
    /\ execErr' = [execErr EXCEPT ![cur] = err]
    /\ pending' = IF err THEN pending \cup {cur} ELSE pending
    /\ completed' = IF err THEN completed ELSE completed \cup {cur}
    /\ pc' = "exec" /\ cur' = 0

\* execQueue.Put after an attempt: both with and without an error, completed.
Put(err) ==
    /\ execErr' = [execErr EXCEPT ![cur] = err]
    /\ completed' = completed \cup {cur}
    /\ pc' = "exec" /\ cur' = 0
    /\ UNCHANGED pending

\* The call fails: the request, or at the end the response, is lost.
DestroyCallFails ==
    /\ pc \in {"rpc", "reply"}
    /\ Put(TRUE)
    /\ errs' = {} /\ remaining' = {}
    /\ UNCHANGED <<env, state, attempt, planning, work, feature>>

DestroyReply ==
    /\ pc = "reply"
    /\ Put(errs # {})
    /\ errs' = {} /\ remaining' = {}
    /\ UNCHANGED <<env, state, attempt, planning, work, feature>>

Failed(f) == ~Skipped(f) /\ (planErr[f] \/ execErr[f])

FinishAttempt ==
    /\ pc = "exec" /\ pending = {}
    /\ state' = IF \E f \in completed : Failed(f) THEN "ExecErr" ELSE "Done"
    /\ pc' = "idle"
    /\ UNCHANGED <<env, attempt, cur, planning, queue, handler>>

-----------------------------------------------------------------------------
(* The endpoint's handler: doDestroySnapshots, doDestroy. *)

Request == destroyList[cur]

\* The feature check runs once in the life of the process; its error sticks.
DoDestroy ==
    /\ pc = "rpc"
    /\ feature' \in IF feature = "unknown" THEN {"batched", "seq", "error"} ELSE {feature}
    /\ IF feature' = "error"
       THEN pc' = "reply" /\ errs' = Request /\ work' = {}
       ELSE /\ pc' = IF feature' = "batched" /\ Cardinality(Request) > 1 THEN "batch" ELSE "seq"
            /\ errs' = {} /\ work' = Request
    /\ remaining' = {}
    /\ UNCHANGED <<env, state, attempt, cur, planning, queue>>

\* zfs destroy of a set of snapshots of one filesystem.
Gone(S) == snaps' = [snaps EXCEPT ![cur] = @ \ S]
DestroyOk(S) == S \cap held[cur] = {} /\ S \cap snaps[cur] # {} /\ Gone(S)
\* Some snapshots are reported undestroyable; others may be gone.
DestroyUndestroyable(S) ==
    /\ S \cap held[cur] # {}
    /\ \E T \in SUBSET (S \ held[cur]) : Gone(T)
\* Any other failure: nothing to destroy, a killed command.
DestroyFails(S) == \E T \in SUBSET (S \ held[cur]) : Gone(T)

\* doDestroyBatchedRec: the whole batch in one command.
TryBatch ==
    /\ pc = "batch"
    /\ \/ DestroyOk(work) /\ work' = {} /\ pc' = "reply" /\ UNCHANGED remaining
       \/ /\ DestroyUndestroyable(work)
          /\ remaining' = work \cap held[cur]
          /\ pc' = "strip" /\ UNCHANGED work
       \/ DestroyFails(work) /\ pc' = "seq" /\ UNCHANGED <<work, remaining>>
    /\ UNCHANGED <<latest, held, cursor, state, attempt, cur, planning, queue, errs, feature>>

\* Mutant: after a failure only the undestroyable ones are tried one by one.
SingleRunRemaining(ok) == remaining

\* The destroys that are tried one by one after the stripped batch.
SingleRun(ok) == IF ok THEN remaining ELSE work

\* The batch without the undestroyable snapshots.
TryStrippedBatch ==
    LET stripped == work \ remaining
    IN  /\ pc = "strip" /\ pc' = "seq"
        /\ \/ stripped = {} /\ work' = SingleRun(TRUE) /\ UNCHANGED snaps
           \/ DestroyOk(stripped) /\ work' = SingleRun(TRUE)
           \/ stripped # {} /\ DestroyFails(stripped) /\ work' = SingleRun(FALSE)
        /\ UNCHANGED <<latest, held, cursor, state, attempt, cur, planning, queue,
                       remaining, errs, feature>>

\* doDestroySeq: one snapshot of those left, in any order.
DestroyOne ==
    /\ pc = "seq"
    /\ \E s \in work :
        /\ work' = work \ {s}
        /\ \/ DestroyOk({s}) /\ UNCHANGED errs
           \/ DestroyFails({s}) /\ errs' = errs \cup {s}
    /\ UNCHANGED <<latest, held, cursor, state, attempt, pc, cur, planning, queue,
                   remaining, feature>>

DestroySeqDone ==
    /\ pc = "seq" /\ work = {} /\ pc' = "reply"
    /\ UNCHANGED <<env, state, attempt, cur, planning, queue, handler>>

Handler == TryBatch \/ TryStrippedBatch \/ DestroyOne

PrunerNext ==
    \/ ListFilesystems \/ SkipFilesystem \/ ListFilesystemVersions \/ ReplicationCursor
    \/ StartExec \/ Pop \/ DestroyCallFails \/ DestroyReply \/ FinishAttempt
    \/ DoDestroy \/ Handler \/ DestroySeqDone

Next == Environment \/ Prune \/ PrunerNext

Spec == Init /\ [][Next]_vars
\* A started pruner runs: its calls return, with or without an error.
FairSpec == Spec /\ WF_vars(PrunerNext)

-----------------------------------------------------------------------------
\* Every variable has its type; the destroy list names only existing or past snapshots.
TypeOK ==
    /\ snaps \in [Fss -> SUBSET Snaps]
    /\ latest \in [Fss -> Nat]
    /\ held \in [Fss -> SUBSET Snaps]
    /\ cursor \in [Fss -> Nat]
    /\ feature \in {"unknown", "batched", "seq", "error"}
    /\ state \in {"Plan", "PlanErr", "Exec", "ExecErr", "Done"}
    /\ attempt \in 0..MaxAttempts
    /\ pc \in {"idle", "list", "plan", "cursor", "exec", "rpc", "batch", "strip", "seq", "reply"}
    /\ todo \subseteq Fss /\ listed \subseteq Snaps
    /\ pc \notin {"idle", "list", "plan", "exec"} => cur \in Fss
    /\ planErr \in [Fss -> BOOLEAN]
    /\ destroyList \in [Fss -> SUBSET Snaps]
    /\ execErr \in [Fss -> BOOLEAN]
    /\ pending \subseteq Fss /\ completed \subseteq Fss
    /\ work \subseteq Snaps /\ remaining \subseteq Snaps /\ errs \subseteq Snaps

HasNotReplicatedRule == \E i \in DOMAIN Rules : Rules[i].kind = "not_replicated"

\* With a not_replicated rule, the pruner destroys a snapshot only if it was
\* replicated: of a filesystem that the sender has, too, and that has a cursor, and not
\* after the cursor.  The listing, the cursor and the destroy are separate
\* calls: snapshots come and go and the cursor moves in between
\* (doOneAttempt, PruneSnapshots, doDestroy).
DestroysOnlyReplicated ==
    [][Handler => \A f \in Fss : \A s \in snaps[f] \ snaps'[f] :
            /\ ~Skipped(f)
            /\ cursor[f] # 0
            /\ HasNotReplicatedRule => s < cursor[f] \/ (ConsiderSnapAtCursorReplicated /\ s = cursor[f])]_vars

\* State Done is a promise: every filesystem was planned, and no snapshot of
\* a destroy list exists any more, whatever happened to the batch, the
\* stripped batch and the single destroys (doDestroyBatchedRec, Put).
DoneMeansGone ==
    state = "Done" /\ attempt > 0 =>
        \A f \in Fss : ~Skipped(f) => ~planErr[f] /\ destroyList[f] \cap snaps[f] = {}

\* A started pruner reaches PlanErr, ExecErr or Done: a filesystem that fails
\* is completed and not tried again (doOneAttempt, Put).
PruneEnds == pc # "idle" ~> pc = "idle"
=============================================================================
