------------------------- MODULE Replication_proofs -------------------------
(***************************************************************************)
(* Proofs about module Replication, for any number of snapshots and any    *)
(* set of protection settings.                                             *)
(***************************************************************************)
EXTENDS Replication, TLAPS

Sending == {"ready", "preTo", "cleanup", "stream", "recv"}
Received == {"recvd", "held", "confirm", "confirmed"}

\* A stream from f fits the receiver.
BasedOn(f) == (f = 0 /\ rsnap = {}) \/ Latest(f, rsnap)

-----------------------------------------------------------------------------
(* The shape of steps and tokens, whatever the settings. *)

StepShape ==
    pc \in Sending \cup Received =>
        /\ to \in Guids /\ from < to
        /\ \A t \in rest : to < t

TokenShape ==
    token # NoToken =>
        token.to \in Guids /\ token.from < token.to /\ BasedOn(token.from)

EmptyUnlessReal ==
    /\ rfs # "real" => rsnap = {}
    /\ pc = "recv" /\ wasPh => rsnap = {}

\* The snapshot being received is new, hence not held yet.
NotHeldYet ==
    /\ pc = "recvd" => to \notin lrh
    /\ pc = "held" /\ ReceiverKind = "none" => to \notin lrh

Shape ==
    /\ TypeOK /\ conf \in Confs
    /\ StepShape /\ TokenShape /\ EmptyUnlessReal /\ NotHeldYet /\ NoPanic

(* The initial state has the shape.                                        *)
LEMMA ShapeInit == Init => Shape
  <1> SUFFICES ASSUME Init PROVE Shape  OBVIOUS
  <1>1. resume \in BOOLEAN /\ existed \in BOOLEAN /\ wasPh \in BOOLEAN
    BY Zenon DEF Init
  <1>2. TypeOK /\ conf \in Confs
    BY <1>1, ReplicationAssumption DEF Init, TypeOK, Guids, Vias, NoToken
  <1> QED
    BY <1>2 DEF Init, Shape, NoToken, StepShape, TokenShape, EmptyUnlessReal, NotHeldYet,
        NoPanic, Sending, Received

(* A planned step has the shape.                                           *)
LEMMA PlannedShape ==
    ASSUME Shape, pc = "idle",
           NEW f \in 0..MaxSnap, NEW v \in Vias, NEW t \in Guids, NEW r \in SUBSET Later(t,
               ssnap),
           NEW u \in BOOLEAN, f < t, Planned(f, v, t, r, u)
    PROVE  Shape'
  BY SMTT(60), ReplicationAssumption
  DEF Shape, TypeOK, Planned, Later, StepShape, TokenShape, BasedOn, Latest, EmptyUnlessReal,
      NotHeldYet, ReceiverKind, NoPanic, Sending, Received, Guids, sender, receiver

(* Every step preserves the shape.                                         *)
LEMMA ShapeNext == Shape /\ [Next]_vars => Shape'
  <1> SUFFICES ASSUME Shape, [Next]_vars PROVE Shape'  OBVIOUS
  <1> USE ReplicationAssumption
  <1>1. CASE PlanResume
    <2> PICK v \in Vias : Planned(token.from, v, token.to, Later(token.to, ssnap), TRUE)
      BY Zenon, <1>1 DEF PlanResume
    <2>1. token.from \in 0..MaxSnap /\ token.to \in Guids /\ token.from < token.to
      BY <1>1 DEF PlanResume, Shape, TypeOK, TokenShape
    <2> QED  BY Zenon, <1>1, <2>1, PlannedShape DEF PlanResume
  <1>2. CASE PlanIncremental
    <2> PICK f \in rsnap, t \in ssnap, v \in Vias :
             First(t, Later(f, ssnap)) /\ Planned(f, v, t, Later(t, ssnap), FALSE)
      BY Zenon, <1>2 DEF PlanIncremental
    <2>1. f \in 0..MaxSnap /\ t \in Guids /\ f < t
      BY DEF Shape, TypeOK, Guids, First, Later
    <2> QED  BY Zenon, <1>2, <2>1, PlannedShape DEF PlanIncremental
  <1>3. CASE PlanInitial
    <2> PICK t \in ssnap : \/ Planned(0, "none", t, Later(t, ssnap), FALSE)
                           \/ Planned(0, "none", t, {}, FALSE)
      BY Zenon, <1>3 DEF PlanInitial
    <2>1. t \in Guids /\ 0 \in 0..MaxSnap /\ 0 < t /\ "none" \in Vias
      BY DEF Shape, TypeOK, Guids, Vias
    <2> QED  BY Zenon, <1>3, <2>1, PlannedShape DEF PlanInitial
  <1> USE DEF Shape, StepShape, TokenShape, EmptyUnlessReal, NotHeldYet, NoPanic, BasedOn,
              Latest, ReceiverKind, Sending, Received, sender, receiver, step
  <1>4. CASE PlanInitialBookmarksOnly
    BY <1>4 DEF PlanInitialBookmarksOnly, TypeOK
  <1>5. CASE UNCHANGED vars
    BY <1>5 DEF vars, TypeOK
  <1>6. CASE SendBegins
    BY Zenon, <1>6 DEF SendBegins, Exists, HoldStep, CreateCursor, TypeOK
  <1>7. CASE SendProtectsTo
    BY <1>7 DEF SendProtectsTo, HoldStep, CreateCursor, TypeOK
  <1>8. CASE SendCleansUp
    BY <1>8 DEF SendCleansUp, LiveTents, TryBatchDestroy, TypeOK
  <1>9. CASE ReceiveBegins
    <2>1. existed' \in BOOLEAN /\ wasPh' \in BOOLEAN
      BY <1>9, Zenon DEF ReceiveBegins
    <2>2. token' \in [from : 0..MaxSnap, to : 0..MaxSnap]
      BY <1>9 DEF ReceiveBegins, NoToken, TypeOK
    <2>3. TypeOK' /\ conf' \in Confs
      BY <1>9, <2>1, <2>2 DEF ReceiveBegins, TypeOK
    <2> QED  BY Zenon, <1>9, <2>3 DEF ReceiveBegins, NoToken, TypeOK
  <1>10. CASE RecvOk
    BY <1>10 DEF RecvOk, Applies, NoToken, TypeOK, Guids
  <1>11. CASE RecvInterrupted
    BY <1>11 DEF RecvInterrupted, Applies, NoToken, TypeOK, Guids
  <1>12. CASE RecvFails
    BY <1>12 DEF RecvFails, TypeOK
  <1>13. CASE HoldReceived
    BY <1>13 DEF HoldReceived, CreateLastReceivedHold, TypeOK
  <1>14. CASE ReleaseOld
    BY <1>14 DEF ReleaseOld, TryBatchDestroy, TypeOK
  <1>15. CASE ConfirmMovesCursor
    BY <1>15 DEF ConfirmMovesCursor, CreateCursor, TypeOK
  <1>16. CASE ConfirmCleansUp
    <2>1. shold' \subseteq ssnap /\ cursor' \subseteq cursor /\ tent' \subseteq tent
      BY <1>16 DEF ConfirmCleansUp, TryBatchDestroy, TypeOK
    <2>2. CASE rest = {}
      BY <1>16, <2>1, <2>2 DEF ConfirmCleansUp, NextStep, TypeOK
    <2>3. CASE rest # {}
      <3>1. to' \in rest /\ First(to', rest) /\ from' = to /\ via' = "snap" /\ rest' = rest \
          {to'}
            /\ resume' = FALSE /\ pc' = "ready" /\ conf' = conf
        BY <1>16, <2>3 DEF ConfirmCleansUp, NextStep
      <3>2. StepShape'
        BY <1>16, <3>1 DEF ConfirmCleansUp, First, TypeOK, Guids
      <3>3. resume' \in BOOLEAN  BY <3>1, Zenon
      <3>4. TypeOK'
        BY <1>16, <2>1, <3>1, <3>3 DEF ConfirmCleansUp, TypeOK, Guids, Vias
      <3> QED  BY <1>16, <3>1, <3>2, <3>4 DEF ConfirmCleansUp
    <2> QED  BY <2>2, <2>3
  <1>17. CASE Rejected
    BY <1>17 DEF Rejected, TypeOK
  <1>18. CASE Fault
    BY <1>18 DEF Fault, TypeOK
  <1>19. CASE Snapshot
    BY <1>19 DEF Snapshot, TypeOK, Guids
  <1>20. ASSUME NEW g \in Guids, DestroyOnSender(g) PROVE Shape'
    BY <1>20 DEF DestroyOnSender, TypeOK
  <1>21. ASSUME NEW g \in Guids, DestroyOnReceiver(g) PROVE Shape'
    BY <1>21 DEF DestroyOnReceiver, TypeOK, NoToken, Guids
  <1> QED
    BY Zenon, <1>1, <1>2, <1>3, <1>4, <1>5, <1>6, <1>7, <1>8, <1>9, <1>10, <1>11, <1>12, <1>13,
       <1>14,
       <1>15, <1>16, <1>17, <1>18, <1>19, <1>20, <1>21
    DEF Next, Plan, PlanNothing, Execute, Interrupt, Environment, Panicked

-----------------------------------------------------------------------------
(* With a guarantee configured, and last-received holds that follow zfs    *)
(* recv without a failure in between.                                      *)

Protected ==
    /\ HoldWindow = FALSE
    /\ \A c \in Confs : c.initial # "none" /\ c.incremental # "none"

\* The most recent snapshot of the receiver is held, or is about to be.
LatestHeld ==
    rsnap # {} => \E m \in rsnap : Latest(m, rsnap) /\ (m \in lrh \/ (pc = "recvd" /\ m = to))

\* Its counterpart on the sender is held or bookmarked.
LatestKept == \A g \in rsnap : Latest(g, rsnap) => g \in shold \cup cursor \cup tent

\* The current step starts at that snapshot, and ends with a new one.
StepFits ==
    /\ pc \in Sending => BasedOn(from)
    /\ pc = "ready" /\ from # 0 => via # "none"
    /\ pc \in Received => Latest(to, rsnap)
    /\ pc \in {"held", "confirm", "confirmed"} => to \in lrh

\* What protects `from` until the cleanup of Send ...
FromKept ==
    pc \in {"preTo", "cleanup"} /\ from # 0 =>
        \/ via = "snap" /\ SenderKind = "resumability" /\ from \in shold
        \/ via = "snap" /\ SenderKind = "incremental" /\ from \in tent
        \/ via = "cursor" /\ from \in cursor
        \/ via = "tentative" /\ from \in tent

\* ... and `to` until the next step.
ToKept ==
    /\ pc \in {"cleanup", "stream", "recv", "recvd", "held", "confirm"} =>
         \/ SenderKind = "resumability" /\ to \in shold
         \/ SenderKind = "incremental" /\ to \in tent
    /\ pc = "confirmed" => to \in cursor

Protection ==
    Shape /\ LatestHeld /\ LatestKept /\ StepFits /\ FromKept /\ ToKept /\ CursorIsReplicated

\* With guarantee_resumability alone: the step of a resume token is held, and
\* is the step being executed.
ResumeKept ==
    token # NoToken =>
        /\ token.to \in shold
        /\ pc \in Sending => to = token.to
        /\ pc \notin Received

(* Nothing is protected, and nothing needs to be, in the initial state.    *)
LEMMA ProtectionInit == Init => Protection
  BY ShapeInit
  DEF Init, Protection, LatestHeld, LatestKept, StepFits, FromKept, ToKept, CursorIsReplicated,
      Sending, Received

(* A plan from where the receiver is preserves the protection.             *)
LEMMA PlannedProtection ==
    ASSUME Protection, Shape', pc = "idle",
           NEW f, NEW v, NEW t, NEW r, NEW u, Planned(f, v, t, r, u),
           BasedOn(f), f # 0 => v # "none"
    PROVE  Protection'
  BY SMTT(60) DEF Protection, Planned, LatestHeld, LatestKept, StepFits, FromKept, ToKept,
         CursorIsReplicated, BasedOn, Latest, Sending, Received, sender, receiver

(* Every step preserves the protection.                                    *)
LEMMA ProtectionNext == Protected /\ Protection /\ [Next]_vars => Protection'
  <1> SUFFICES ASSUME Protected, Protection, [Next]_vars PROVE Protection'  OBVIOUS
  <1>s. Shape'  BY ShapeNext DEF Protection
  <1>k. SenderKind \in {"incremental", "resumability"}
        /\ ReceiverKind \in {"incremental", "resumability"}
    BY ReplicationAssumption
    DEF Protected, Protection, Shape, TypeOK, Kinds, SenderKind, ReceiverKind
  <1>1. CASE PlanResume
    <2> PICK v \in Vias : /\ Planned(token.from, v, token.to, Later(token.to, ssnap), TRUE)
                          /\ token.from # 0 => v # "none"
      BY Zenon, <1>1 DEF PlanResume, Picks
    <2>1. BasedOn(token.from)
      BY <1>1 DEF PlanResume, Protection, Shape, TokenShape
    <2> QED  BY Zenon, <1>1, <1>s, <2>1, PlannedProtection DEF PlanResume
  <1>2. CASE PlanIncremental
    <2> PICK f \in rsnap, t \in ssnap, v \in Vias :
             Latest(f, rsnap) /\ v # "none" /\ Planned(f, v, t, Later(t, ssnap), FALSE)
      BY Zenon, <1>2 DEF PlanIncremental, Picks
    <2> QED  BY Zenon, <1>2, <1>s, PlannedProtection DEF PlanIncremental, BasedOn
  <1>3. CASE PlanInitial
    <2> PICK t \in ssnap : \/ Planned(0, "none", t, Later(t, ssnap), FALSE)
                           \/ Planned(0, "none", t, {}, FALSE)
      BY ZenonT(60), <1>3 DEF PlanInitial
    <2> QED  BY Zenon, <1>3, <1>s, PlannedProtection DEF PlanInitial, BasedOn
  <1> USE <1>s, <1>k
      DEF Protection, Shape, TypeOK, StepShape, LatestHeld, LatestKept, StepFits, FromKept,
          ToKept, CursorIsReplicated, BasedOn, Latest, SenderKind, Sending, Received, Guids,
          sender, receiver, step
  <1>4. CASE PlanInitialBookmarksOnly
    BY SMTT(60), <1>4 DEF PlanInitialBookmarksOnly
  <1>5. CASE UNCHANGED vars
    BY SMTT(60), <1>5 DEF vars
  <1>6. CASE SendBegins
    <2>1. shold \subseteq shold' /\ tent \subseteq tent'
      BY <1>6 DEF SendBegins, HoldStep, CreateCursor
    <2>2. FromKept'
      BY Zenon, <1>6 DEF SendBegins, Exists, HoldStep, CreateCursor, Vias
    <2> QED  BY <1>6, <2>1, <2>2 DEF SendBegins
  <1>7. CASE SendProtectsTo
    BY SMTT(60), <1>7 DEF SendProtectsTo, HoldStep, CreateCursor
  <1>8. CASE SendCleansUp
    BY SMTT(60), <1>8 DEF SendCleansUp, LiveHolds, LiveTents, TryBatchDestroy
  <1>9. CASE ReceiveBegins
    BY SMTT(60), <1>9 DEF ReceiveBegins, NoToken
  <1>10. CASE RecvOk
    BY SMTT(60), <1>10 DEF RecvOk
  <1>11. CASE RecvInterrupted
    BY SMTT(60), <1>11 DEF RecvInterrupted
  <1>12. CASE RecvFails
    BY SMTT(60), <1>12 DEF RecvFails
  <1>13. CASE HoldReceived
    BY SMTT(60), <1>13 DEF HoldReceived, ReceiverKind, CreateLastReceivedHold
  <1>14. CASE ReleaseOld
    BY SMTT(60), <1>14 DEF ReleaseOld, ReceiverKind, TryBatchDestroy
  <1>15. CASE ConfirmMovesCursor
    BY SMTT(60), <1>15 DEF ConfirmMovesCursor, CreateCursor
  <1>16. CASE ConfirmCleansUp
    BY SMTT(60), <1>16 DEF ConfirmCleansUp, TryBatchDestroy, NextStep
  <1>17. CASE Rejected
    BY SMTT(60), <1>17 DEF Rejected
  <1>18. CASE Fault
    BY SMTT(60), <1>18 DEF Fault, Protected
  <1>19. CASE Snapshot
    BY SMTT(60), <1>19 DEF Snapshot
  <1>20. ASSUME NEW g \in Guids, DestroyOnSender(g) PROVE Protection'
    BY SMTT(60), <1>20 DEF DestroyOnSender
  <1>21. ASSUME NEW g \in Guids, DestroyOnReceiver(g) PROVE Protection'
    BY <1>21 DEF DestroyOnReceiver, Protected
  <1> QED
    BY ZenonT(60), <1>1, <1>2, <1>3, <1>4, <1>5, <1>6, <1>7, <1>8, <1>9, <1>10, <1>11,
       <1>12, <1>13, <1>14, <1>15, <1>16, <1>17, <1>18, <1>19, <1>20, <1>21
    DEF Next, Plan, PlanNothing, Execute, Interrupt, Environment, Panicked

(* Only snapshots that are not the receiver's most recent one disappear.   *)
LEMMA RegressionNext ==
    ASSUME Protected, Protection, [Next]_vars
    PROVE  \A g \in rsnap : \E h \in rsnap' : g <= h
  <1> USE DEF Protection, Shape, TypeOK, Guids
  <1>1. ASSUME NEW d \in Guids, DestroyOnReceiver(d)
        PROVE  \A g \in rsnap : \E h \in rsnap' : g <= h
    BY <1>1 DEF DestroyOnReceiver, LatestHeld, Latest, Protected
  <1>2. CASE rsnap \subseteq rsnap'
    BY SMTT(60), <1>2
  <1>3. rsnap \subseteq rsnap' \/ \E d \in Guids : DestroyOnReceiver(d)
    BY Zenon DEF Next, Plan, PlanResume, PlanIncremental, PlanInitial,
       PlanInitialBookmarksOnly, Planned,
           PlanNothing, Execute, SendBegins, SendProtectsTo, SendCleansUp, ReceiveBegins, RecvOk,
           HoldReceived, ReleaseOld, ConfirmMovesCursor, ConfirmCleansUp, Rejected, Interrupt,
           Fault, RecvInterrupted, RecvFails, Environment, Snapshot, DestroyOnSender, Panicked,
           vars, receiver
  <1> QED  BY <1>1, <1>2, <1>3

ResumabilityOnly ==
    /\ HoldWindow = FALSE
    /\ \A c \in Confs : c.initial = "resumability" /\ c.incremental = "resumability"

(* Every step keeps what the resume token needs.                           *)
LEMMA ResumeKeptNext ==
    ASSUME ResumabilityOnly, Protection, ResumeKept, [Next]_vars
    PROVE  ResumeKept'
  <1>k. SenderKind = "resumability"
    BY DEF ResumabilityOnly, Protection, Shape, SenderKind
  <1> USE <1>k DEF ResumeKept, Sending, Received, sender, receiver, step
  <1>1. CASE PlanResume
    BY SMTT(60), <1>1 DEF PlanResume, Planned
  <1>2. CASE PlanIncremental \/ PlanInitial \/ PlanInitialBookmarksOnly
    BY <1>2 DEF PlanIncremental, PlanInitial, PlanInitialBookmarksOnly, Planned
  <1>3. CASE UNCHANGED vars
    BY <1>3 DEF vars
  <1>4. CASE SendBegins \/ SendProtectsTo
    BY <1>4 DEF SendBegins, SendProtectsTo, HoldStep
  <1>5. CASE SendCleansUp
    BY <1>5 DEF SendCleansUp, LiveHolds, TryBatchDestroy
  <1>6. CASE ReceiveBegins
    BY <1>6 DEF ReceiveBegins
  <1>7. CASE RecvOk
    BY <1>7 DEF RecvOk
  <1>8. CASE RecvInterrupted
    BY <1>8 DEF RecvInterrupted, Protection, ToKept
  <1>9. CASE RecvFails \/ Rejected \/ Fault
    BY <1>9 DEF RecvFails, Rejected, Fault
  <1>10. CASE HoldReceived \/ ReleaseOld \/ ConfirmMovesCursor
    BY <1>10 DEF HoldReceived, ReleaseOld, ConfirmMovesCursor
  <1>11. CASE ConfirmCleansUp
    BY <1>11 DEF ConfirmCleansUp
  <1>12. CASE Environment
    BY <1>12 DEF Environment, Snapshot, DestroyOnSender, DestroyOnReceiver
  <1> QED
    BY <1>1, <1>2, <1>3, <1>4, <1>5, <1>6, <1>7, <1>8, <1>9, <1>10, <1>11, <1>12
    DEF Next, Plan, PlanNothing, Execute, Interrupt, Panicked

-----------------------------------------------------------------------------
(* Theorems *)

(* The invariant of every setting.                                         *)
THEOREM ShapeCorrect == Spec => []Shape
  BY ShapeInit, ShapeNext, PTL DEF Spec

(* Types: step holds are on snapshots of the sender, last-received holds   *)
(* on snapshots of the receiver, whatever the settings and faults.         *)
THEOREM TypeCorrect == Spec => []TypeOK
  <1>1. Shape => TypeOK  BY DEF Shape
  <1> QED  BY <1>1, ShapeCorrect, PTL

(* The assertions in Send and Receive hold for every mix of settings, the  *)
(* setting "none" and crashes before the last-received hold included.      *)
THEOREM HandlersNeverPanic == Spec => []NoPanic
  <1>1. Shape => NoPanic  BY DEF Shape
  <1> QED  BY <1>1, ShapeCorrect, PTL

(* With a guarantee configured, the protection is never interrupted.       *)
THEOREM ProtectionCorrect == ASSUME Protected PROVE Spec => []Protection
  <1>1. Protection /\ [Next]_vars => Protection'  BY ProtectionNext
  <1> QED  BY <1>1, ProtectionInit, PTL DEF Spec

(* Incremental replication stays possible under either guarantee, with     *)
(* any number of snapshots, destroys, interruptions and changes of the     *)
(* setting.                                                                *)
THEOREM IncrementalAlwaysPossible == ASSUME Protected PROVE Spec => []IncrementalPossible
  <1>1. Protection => IncrementalPossible
    BY DEF Protection, Shape, TypeOK, LatestKept, IncrementalPossible, OnSender
  <1> QED  BY <1>1, ProtectionCorrect, PTL

(* The cursor, by which the pruner tells what is replicated, never runs    *)
(* ahead of the receiver.                                                  *)
THEOREM CursorNeverAhead == ASSUME Protected PROVE Spec => []CursorIsReplicated
  <1>1. Protection => CursorIsReplicated  BY DEF Protection
  <1> QED  BY <1>1, ProtectionCorrect, PTL

(* The receiver's most recent snapshot is never lost.                      *)
THEOREM ReceiverNeverRegresses == ASSUME Protected PROVE Spec => NoRegression
  <1>1. Protection /\ [Next]_vars => [\A g \in rsnap : \E h \in rsnap' : g <= h]_vars
    BY RegressionNext
  <1> QED  BY <1>1, ProtectionCorrect, PTL DEF Spec, NoRegression

(* Under guarantee_resumability, whatever a resume token needs stays on    *)
(* the sender.                                                             *)
THEOREM AlwaysResumable == ASSUME ResumabilityOnly PROVE Spec => []Resumable
  <1>1. Protected  BY DEF ResumabilityOnly, Protected
  <1>2. Init => ResumeKept  BY DEF Init, ResumeKept
  <1>3. Protection /\ ResumeKept /\ [Next]_vars => ResumeKept'  BY ResumeKeptNext
  <1>4. Protection /\ ResumeKept => Resumable
    BY DEF Protection, Shape, TypeOK, TokenShape, BasedOn, LatestKept, Latest, ResumeKept,
           Resumable, OnSender
  <1>5. Spec => []Protection  BY <1>1, ProtectionCorrect
  <1> QED  BY <1>2, <1>3, <1>4, <1>5, PTL DEF Spec
=============================================================================
