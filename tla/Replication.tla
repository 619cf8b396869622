----------------------------- MODULE Replication -----------------------------
(***************************************************************************)
(* Replication of one filesystem by one job: planning and the execution of *)
(* steps on the active side (replication/logic), and the handlers Send,    *)
(* SendCompleted and Receive of the two endpoints with the ZFS objects     *)
(* they keep: step holds, tentative and real replication cursors on the    *)
(* sender, last-received holds on the receiver.  Around them, snapshots    *)
(* are taken, anyone destroys snapshots that are not held, and the daemons *)
(* or the network fail between any two ZFS commands.                       *)
(*                                                                         *)
(* A version is its guid, a number that grows with createtxg; 0 is none.   *)
(* Every handler is cut at the ZFS commands that change state.             *)
(***************************************************************************)
EXTENDS Integers, FiniteSets

CONSTANTS
    MaxSnap,      \* bound: snapshots ever taken
    Confs,        \* possible settings of replication.protection
    InitialRepl,  \* conflict_resolution.initial_replication
    StartFS,      \* receiver filesystem at the start: "absent" or "placeholder"
    HoldWindow    \* whether the receiver may fail, or destroy what it received,
                  \* before the last-received hold exists

Kinds == {"none", "incremental", "resumability"}   \* ReplicationGuaranteeKind
Guids == 1..MaxSnap
Vias == {"none", "snap", "cursor", "tentative", "lost"}   \* what `from` is on the sender

ASSUME ReplicationAssumption ==
    /\ MaxSnap \in Nat
    /\ Confs \subseteq [initial : Kinds, incremental : Kinds]
    /\ InitialRepl \in {"most_recent", "all", "fail"}
    /\ StartFS \in {"absent", "placeholder"}
    /\ HoldWindow \in BOOLEAN

VARIABLES
    taken,          \* snapshots taken so far
    ssnap, shold,   \* sender: snapshots, step holds
    cursor, tent,   \* sender: replication cursor and tentative cursor bookmarks
    rfs,            \* receiver filesystem
    rsnap, lrh,     \* receiver: snapshots, last-received holds
    token,          \* receiver: resume token
    pc, conf,
    from, via, to,  \* the step being executed
    rest,           \* targets of the steps after it
    resume,         \* the step uses the resume token
    existed, wasPh  \* Receive: placeholder state found on entry

sender == <<taken, ssnap, shold, cursor, tent>>
receiver == <<rfs, rsnap, lrh, token>>
step == <<conf, from, via, to, rest, resume>>
vars == <<sender, receiver, pc, step, existed, wasPh>>

NoToken == [from |-> 0, to |-> 0]

TypeOK ==
    /\ taken \in 0..MaxSnap
    /\ ssnap \subseteq Guids /\ shold \subseteq ssnap
    /\ cursor \subseteq Guids /\ tent \subseteq Guids
    /\ rfs \in {"absent", "placeholder", "real"}
    /\ rsnap \subseteq Guids /\ lrh \subseteq rsnap
    /\ token \in [from : 0..MaxSnap, to : 0..MaxSnap]
    /\ pc \in {"idle", "ready", "preTo", "cleanup", "stream", "recv", "recvd",
               "held", "confirm", "confirmed", "panic", "planPanic"}
    /\ conf \in [initial : Kinds, incremental : Kinds]
    /\ from \in 0..MaxSnap /\ via \in Vias /\ to \in 0..MaxSnap
    /\ rest \subseteq Guids
    /\ resume \in BOOLEAN /\ existed \in BOOLEAN /\ wasPh \in BOOLEAN

Init ==
    /\ taken = 0 /\ ssnap = {} /\ shold = {} /\ cursor = {} /\ tent = {}
    /\ rfs = StartFS /\ rsnap = {} /\ lrh = {} /\ token = NoToken
    /\ pc = "idle" /\ conf \in Confs
    /\ from = 0 /\ via = "none" /\ to = 0 /\ rest = {} /\ resume = FALSE
    /\ existed = FALSE /\ wasPh = FALSE

-----------------------------------------------------------------------------
(* Versions *)

\* The sender's versions with guid g: the snapshot, bookmarks.
OnSender(g) == g \in ssnap \/ g \in cursor \/ g \in tent

Exists(g, v) ==
    CASE v = "none"      -> TRUE
      [] v = "snap"      -> g \in ssnap
      [] v = "cursor"    -> g \in cursor
      [] v = "tentative" -> g \in tent
      [] v = "lost"      -> FALSE

\* What planning uses as `from` for guid g: the snapshot if it exists, else
\* any bookmark with that guid (the sort does not order them).
Picks(g, v) ==
    /\ v \in {"snap", "cursor", "tentative"} /\ Exists(g, v)
    /\ g \in ssnap => v = "snap"

Latest(g, S) == g \in S /\ \A h \in S : h <= g
First(g, S) == g \in S /\ \A h \in S : g <= h
Later(g, S) == {h \in S : h > g}

-----------------------------------------------------------------------------
(* Holds and bookmarks.  Creating one that exists already is a success.    *)

HoldStep(g) == shold \cup {g}
CreateCursor(S, g) == S \cup {g}   \* cursor or tent
CreateLastReceivedHold(g) == lrh \cup {g}

\* TryBatchDestroy of what is in S but not live; each destroy may fail.
TryBatchDestroy(S, live) == {T \in SUBSET S : S \cap live \subseteq T}

-----------------------------------------------------------------------------
(* Environment *)

Snapshot ==
    /\ taken < MaxSnap
    /\ taken' = taken + 1 /\ ssnap' = ssnap \cup {taken + 1}
    /\ UNCHANGED <<shold, cursor, tent, receiver, pc, step, existed, wasPh>>

\* A pruner, an operator or another tool destroys a snapshot.  ZFS refuses if
\* it is held or is the origin of a partially received stream.
DestroyOnSender(g) ==
    /\ g \in ssnap \ shold
    /\ ssnap' = ssnap \ {g}
    /\ UNCHANGED <<taken, shold, cursor, tent, receiver, pc, step, existed, wasPh>>

DestroyOnReceiver(g) ==
    /\ g \in rsnap \ lrh /\ token.from # g
    /\ pc = "recvd" /\ g = to => HoldWindow
    /\ rsnap' = rsnap \ {g}
    /\ UNCHANGED <<sender, rfs, lrh, token, pc, step, existed, wasPh>>

\* A daemon dies, the connection is lost, or a ZFS command fails.
Fault ==
    /\ pc \notin {"idle", "panic", "planPanic"} /\ (pc = "recvd" => HoldWindow)
    /\ pc' = "idle"
    /\ UNCHANGED <<sender, receiver, step, existed, wasPh>>

-----------------------------------------------------------------------------
(* Planning: Filesystem.doPlanning *)

Planned(f, v, t, r, u) ==
    /\ from' = f /\ via' = v /\ to' = t /\ rest' = r /\ resume' = u
    /\ conf' \in Confs
    /\ pc' = "ready"
    /\ UNCHANGED <<sender, receiver, existed, wasPh>>

\* The token's step first, then incrementals along the remaining snapshots.
\* A token whose `to` is not on the sender is an error: nothing is planned.
PlanResume ==
    /\ pc = "idle" /\ token # NoToken /\ token.to \in ssnap
    /\ \E v \in Vias :
         /\ IF token.from = 0 THEN v = "none"
            ELSE IF OnSender(token.from) THEN Picks(token.from, v) ELSE v = "lost"
         /\ Planned(token.from, v, token.to, Later(token.to, ssnap), TRUE)

\* Mutant: the path starts at the receiver's oldest snapshot.
PlanIncrementalOldest ==
    /\ pc = "idle" /\ token = NoToken /\ rfs = "real"
    /\ \E f \in rsnap, t \in ssnap, v \in Vias :
         /\ First(f, rsnap) /\ Picks(f, v)
         /\ First(t, Later(f, ssnap))
         /\ Planned(f, v, t, Later(t, ssnap), FALSE)

\* IncrementalPath from the receiver's most recent snapshot.
PlanIncremental ==
    /\ pc = "idle" /\ token = NoToken /\ rfs = "real"
    /\ \E f \in rsnap, t \in ssnap, v \in Vias :
         /\ Latest(f, rsnap) /\ Picks(f, v)
         /\ First(t, Later(f, ssnap))
         /\ Planned(f, v, t, Later(t, ssnap), FALSE)

\* No common ancestor and no receiver versions: tryAutoresolveConflict.  With
\* "fail" nothing is planned.
PlanInitial ==
    /\ pc = "idle" /\ token = NoToken /\ rsnap = {}
    /\ \E t \in ssnap :
         \/ /\ InitialRepl = "all" /\ First(t, ssnap)
            /\ Planned(0, "none", t, Later(t, ssnap), FALSE)
         \/ /\ InitialRepl = "most_recent" /\ Latest(t, ssnap)
            /\ Planned(0, "none", t, {}, FALSE)

\* The same with bookmarks but no snapshot on the sender.  Under
\* "most_recent" the step has no `to` and planning fails; under "all" the
\* path has length one: panic.
PlanInitialBookmarksOnly ==
    /\ pc = "idle" /\ token = NoToken /\ rsnap = {}
    /\ ssnap = {} /\ cursor \cup tent # {} /\ InitialRepl = "all"
    /\ pc' = "planPanic"
    /\ UNCHANGED <<sender, receiver, step, existed, wasPh>>

\* Nothing to do, or planning fails.
PlanNothing == pc = "idle" /\ UNCHANGED vars

-----------------------------------------------------------------------------
(* Sender.Send *)

SenderKind == IF from # 0 THEN conf.incremental ELSE conf.initial

\* sendMakeArgs and the first half of SenderPreSend: protect `from`.
\* Bookmarks cannot be held, nor copied into a tentative cursor.
SendBegins ==
    /\ pc = "ready" /\ Exists(from, via) /\ to \in ssnap
    /\ shold' = IF SenderKind = "resumability" /\ via = "snap" THEN HoldStep(from) ELSE shold
    /\ tent' = IF SenderKind = "incremental" /\ via = "snap" THEN CreateCursor(tent, from) ELSE tent
    /\ pc' = "preTo"
    /\ UNCHANGED <<taken, ssnap, cursor, receiver, step, existed, wasPh>>

\* Mutant: `to` is protected without a check that it still exists.
SendProtectsToUnchecked ==
    /\ pc = "preTo"
    /\ shold' = IF SenderKind = "resumability" THEN HoldStep(to) ELSE shold
    /\ tent' = IF SenderKind = "incremental" THEN CreateCursor(tent, to) ELSE tent
    /\ pc' = "cleanup"
    /\ UNCHANGED <<taken, ssnap, cursor, receiver, step, existed, wasPh>>

\* Mutant: the cursor is moved before the receiver has confirmed.
SendMovesCursor ==
    /\ pc = "preTo" /\ (SenderKind = "none" \/ to \in ssnap)
    /\ shold' = IF SenderKind = "resumability" THEN HoldStep(to) ELSE shold
    /\ tent' = IF SenderKind = "incremental" THEN CreateCursor(tent, to) ELSE tent
    /\ cursor' = IF SenderKind = "none" THEN cursor ELSE CreateCursor(cursor, to)
    /\ pc' = "cleanup"
    /\ UNCHANGED <<taken, ssnap, receiver, step, existed, wasPh>>

\* The second half of SenderPreSend: protect `to`.
SendProtectsTo ==
    /\ pc = "preTo" /\ (SenderKind = "none" \/ to \in ssnap)
    /\ shold' = IF SenderKind = "resumability" THEN HoldStep(to) ELSE shold
    /\ tent' = IF SenderKind = "incremental" THEN CreateCursor(tent, to) ELSE tent
    /\ pc' = "cleanup"
    /\ UNCHANGED <<taken, ssnap, cursor, receiver, step, existed, wasPh>>

\* Mutants of what the cleanup keeps.
LiveHoldsFromOnly ==
    IF SenderKind = "resumability" /\ via = "snap" THEN {from} ELSE {}
LiveTentsCreatedOnly ==
    IF SenderKind = "incremental" THEN {to} \cup ({from} \cap tent) ELSE {}
LiveTentsToOnly ==
    (IF SenderKind = "incremental" THEN {to} ELSE {})
      \cup (IF via = "tentative" THEN {from} ELSE {})

\* What the cleanup keeps: what SenderPreSend returned, and `from` if it is
\* itself a tentative cursor.
LiveHolds ==
    IF SenderKind = "resumability" THEN {to} \cup (IF via = "snap" THEN {from} ELSE {}) ELSE {}
LiveTents ==
    (IF SenderKind = "incremental" THEN {to} \cup ({from} \cap tent) ELSE {})
      \cup (IF via = "tentative" THEN {from} ELSE {})

\* Destroy all other step holds and tentative cursors; check panics if that
\* would destroy `from`.  Then zfs send.
SendCleansUp ==
    /\ pc = "cleanup"
    /\ IF via = "tentative" /\ from \notin LiveTents
       THEN pc' = "panic" /\ UNCHANGED <<shold, tent>>
       ELSE /\ shold' \in TryBatchDestroy(shold, LiveHolds)
            /\ tent' \in TryBatchDestroy(tent, LiveTents)
            /\ pc' = "stream"
    /\ UNCHANGED <<taken, ssnap, cursor, receiver, step, existed, wasPh>>

-----------------------------------------------------------------------------
(* Receiver.Receive *)

\* The state of the filesystem is read, the placeholder property is cleared;
\* unless the sender resumes, a resume token is cleared, which removes a
\* filesystem whose initial receive was incomplete.
ReceiveBegins ==
    /\ pc = "stream"
    /\ existed' = (rfs # "absent") /\ wasPh' = (rfs = "placeholder")
    /\ IF ~resume /\ token # NoToken
       THEN token' = NoToken /\ rfs' = IF rsnap = {} THEN "absent" ELSE rfs
       ELSE UNCHANGED token /\ rfs' = IF rfs = "placeholder" THEN "real" ELSE rfs
    /\ pc' = "recv"
    /\ UNCHANGED <<sender, rsnap, lrh, step>>

\* ZFS accepts the stream: it continues the saved state, or is a full stream
\* into a new or force-received filesystem, or is based on the most recent
\* snapshot.
Applies ==
    \/ resume /\ token = [from |-> from, to |-> to]
    \/ ~resume /\ from = 0 /\ (rfs = "absent" \/ wasPh)
    \/ ~resume /\ Latest(from, rsnap)

RecvOk ==
    /\ pc = "recv" /\ Applies
    /\ rsnap' = rsnap \cup {to} /\ token' = NoToken /\ rfs' = "real"
    /\ pc' = "recvd"
    /\ UNCHANGED <<sender, lrh, step, existed, wasPh>>

\* zfs recv fails and saves the partially received state.
RecvInterrupted ==
    /\ pc = "recv" /\ Applies
    /\ token' = [from |-> from, to |-> to] /\ rfs' = "real"
    /\ pc' = "idle"
    /\ UNCHANGED <<sender, rsnap, lrh, step, existed, wasPh>>

\* zfs recv fails without saving anything (new); the placeholder property is
\* restored if possible.
RecvFails ==
    /\ pc = "recv"
    /\ rfs' \in IF wasPh THEN {"placeholder", "real"} ELSE {rfs}
    /\ pc' = "idle"
    /\ UNCHANGED <<sender, rsnap, lrh, token, step, existed, wasPh>>

ReceiverKind == IF existed THEN conf.incremental ELSE conf.initial

\* Mutant: the snapshot just received is not held.
HoldReceivedSkipped ==
    /\ pc = "recvd" /\ to \in rsnap
    /\ pc' = "held"
    /\ UNCHANGED <<sender, receiver, step, existed, wasPh>>

\* ReceiverPostRecv: hold the snapshot just received ...
HoldReceived ==
    /\ pc = "recvd" /\ to \in rsnap
    /\ lrh' = IF ReceiverKind = "none" THEN lrh ELSE CreateLastReceivedHold(to)
    /\ pc' = "held"
    /\ UNCHANGED <<sender, rfs, rsnap, token, step, existed, wasPh>>

\* ... before the other last-received holds are released.
ReleaseOld ==
    /\ pc = "held"
    /\ LET live == IF ReceiverKind = "none" THEN {} ELSE {to}
       IN  IF to \in lrh \ live
           THEN pc' = "panic" /\ UNCHANGED lrh
           ELSE /\ lrh' \in TryBatchDestroy(lrh, live)
                /\ pc' = "confirm"
    /\ UNCHANGED <<sender, rfs, rsnap, token, step, existed, wasPh>>

-----------------------------------------------------------------------------
(* Sender.SendCompleted *)

\* Mutant: the protection is given up without a new cursor.
ConfirmWithoutCursor ==
    /\ pc = "confirm" /\ Exists(from, via) /\ to \in ssnap
    /\ pc' = "confirmed"
    /\ UNCHANGED <<sender, receiver, step, existed, wasPh>>

\* senderPostRecvConfirmedCommon: move the replication cursor to `to`.
ConfirmMovesCursor ==
    /\ pc = "confirm" /\ Exists(from, via) /\ to \in ssnap
    /\ cursor' = IF SenderKind = "none" THEN cursor ELSE CreateCursor(cursor, to)
    /\ pc' = "confirmed"
    /\ UNCHANGED <<taken, ssnap, shold, tent, receiver, step, existed, wasPh>>

\* The next of the planned steps, if any.
NextStep ==
    IF rest = {}
    THEN pc' = "idle" /\ UNCHANGED step
    ELSE /\ to' \in {t \in rest : First(t, rest)}
         /\ from' = to /\ via' = "snap" /\ rest' = rest \ {to'} /\ resume' = FALSE
         /\ pc' = "ready" /\ UNCHANGED conf

\* Destroy the step's protection and the older cursors.
ConfirmCleansUp ==
    /\ pc = "confirmed"
    /\ cursor' \in TryBatchDestroy(cursor, IF SenderKind = "none" THEN {} ELSE {to})
    /\ shold' \in TryBatchDestroy(shold, {}) /\ tent' \in TryBatchDestroy(tent, {})
    /\ NextStep
    /\ UNCHANGED <<taken, ssnap, receiver, existed, wasPh>>

\* A handler returns an error because a version it needs is gone, or ZFS
\* refuses the stream.
Rejected ==
    /\ \/ pc = "ready" /\ ~(Exists(from, via) /\ to \in ssnap)
       \/ pc = "preTo" /\ SenderKind # "none" /\ to \notin ssnap
       \/ pc = "recvd" /\ to \notin rsnap
       \/ pc = "confirm" /\ ~(Exists(from, via) /\ to \in ssnap)
    /\ pc' = "idle"
    /\ UNCHANGED <<sender, receiver, step, existed, wasPh>>

-----------------------------------------------------------------------------
Plan == PlanResume \/ PlanIncremental \/ PlanInitial \/ PlanInitialBookmarksOnly
Execute ==
    \/ SendBegins \/ SendProtectsTo \/ SendCleansUp
    \/ ReceiveBegins \/ RecvOk \/ HoldReceived \/ ReleaseOld
    \/ ConfirmMovesCursor \/ ConfirmCleansUp \/ Rejected
Interrupt == Fault \/ RecvInterrupted \/ RecvFails
Environment ==
    Snapshot \/ \E g \in Guids : DestroyOnSender(g) \/ DestroyOnReceiver(g)

Panicked == pc \in {"panic", "planPanic"} /\ UNCHANGED vars

Next == Plan \/ PlanNothing \/ Execute \/ Interrupt \/ Environment \/ Panicked

Spec == Init /\ [][Next]_vars

\* The job runs again and again, and every RPC and ZFS command returns.  A
\* stream that ZFS refuses makes zfs recv fail.
FairSpec == Spec /\ WF_vars(Plan) /\ WF_vars(Execute) /\ WF_vars(RecvFails /\ ~Applies)

-----------------------------------------------------------------------------
(* Properties *)

(* "Incremental replication will always be possible"                       *)
(* (docs/configuration/replication.rst): whatever is destroyed and         *)
(* whenever a step is interrupted, the receiver's most recent snapshot     *)
(* still has a snapshot or a bookmark with its guid on the sender.         *)
IncrementalPossible == \A g \in rsnap : Latest(g, rsnap) => OnSender(g)

(* "A replication step is always resumable": what the resume token needs   *)
(* is still on the sender.                                                 *)
Resumable ==
    token # NoToken =>
        token.to \in ssnap /\ (token.from = 0 \/ OnSender(token.from))

(* The assertions in Send and Receive never fail: the cleanup destroys     *)
(* neither the `from` of the step nor the hold on what was just received.  *)
NoPanic == pc # "panic"

(* The replication cursor never runs ahead of the receiver: the pruner     *)
(* takes every snapshot up to the cursor for replicated.                   *)
CursorIsReplicated ==
    \A g \in cursor : \E h \in rsnap : g <= h

(* The receiver's most recent snapshot is never lost, the last-received    *)
(* hold moves over it without a gap.                                       *)
NoRegression ==
    [][\A g \in rsnap : \E h \in rsnap' : g <= h]_vars

\* Nothing newer to replicate.
CaughtUp == ssnap = {} \/ \E h \in rsnap : \A g \in ssnap : g <= h

\* A filesystem without snapshots and without resumable state that is not a
\* placeholder: no stream can be received into it.
Wedged == rfs = "real" /\ rsnap = {} /\ token = NoToken

\* A step fails although the versions it needs exist and ZFS would take the
\* stream.  What the handlers or ZFS refuse by themselves (Rejected, RecvFails
\* of a stream that does not apply) is not an interruption: it would fail
\* again.
Interrupted ==
    \/ Fault /\ ~Rejected /\ (pc = "recv" => Applies)
    \/ RecvInterrupted
    \/ RecvFails /\ Applies

(* Once interruptions stop, the receiver catches up with the sender, or it *)
(* is wedged.  Steps that are rejected and streams that are refused may go *)
(* on: planning must not produce them for ever, whatever resume token,     *)
(* holds and bookmarks the interruptions left behind (doPlanning, Send,    *)
(* Receive).                                                               *)
CatchesUp ==
    <>[][~Interrupted]_vars => <>[](CaughtUp \/ Wedged)
=============================================================================
