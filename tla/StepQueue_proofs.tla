-------------------------- MODULE StepQueue_proofs --------------------------
(***************************************************************************)
(* Proofs about the step queue for any number of filesystems, any          *)
(* concurrency and any target dates.                                       *)
(***************************************************************************)
EXTENDS StepQueue, FiniteSetTheorems, TLAPS

\* Who is where: a client that waits is in exactly one of held, pending and
\* target; queueItems is the heap; the wake goroutine has a target exactly
\* while it sends, and that target is the earliest of what is pending.
Places ==
    /\ items = pending
    /\ held \cap pending = {}
    /\ \A c \in held \cup pending \cup target : pc[c] = "wait"
    /\ target \cap (held \cup pending) = {}
    /\ target = {} \/ \E c \in Clients : target = {c}
    /\ target # {} <=> wake = "send"
    /\ \A c \in target : \A d \in pending : date[c] <= date[d]

\* Shutdown: q.stop is closed only when no client is inside the queue.
Quiet ==
    /\ stopped => stop
    /\ stop => \A c \in Clients : pc[c] = "idle"

\* The inductive invariant.
IInv == TypeOK /\ ActiveIsExact /\ NoLostWakeup /\ NoPanic /\ Places /\ Quiet

(* Running is a finite set, so that Cardinality counts it.                 *)
LEMMA RunningFinite == TypeOK => IsFiniteSet(Running) /\ Cardinality(Running) \in Nat
  <1> SUFFICES ASSUME TypeOK PROVE IsFiniteSet(Running) /\ Cardinality(Running) \in Nat
    OBVIOUS
  <1>1. Running \in SUBSET Clients  BY DEF Running
  <1> QED  BY <1>1, ClientsAssumption, FS_Subset, FS_CardinalityType

(* The target of the wake goroutine counts as zero or one permission.      *)
LEMMA TargetCard ==
    ASSUME Places
    PROVE  Cardinality(target) = IF target = {} THEN 0 ELSE 1
  <1>1. CASE target = {}  BY <1>1, FS_EmptySet
  <1>2. CASE \E c \in Clients : target = {c}
    <2> PICK c \in Clients : target = {c}  BY <1>2
    <2> QED  BY FS_Singleton
  <1> QED  BY <1>1, <1>2 DEF Places

(* The initial state of the queue satisfies the invariant.                 *)
LEMMA InitIInv == Init => IInv
  <1> SUFFICES ASSUME Init PROVE IInv  OBVIOUS
  <1> USE ConcurrencyAssumption, MaxCallsAssumption, DatesAssumption DEF Init
  <1>1. TypeOK
    <2>1. date \in [Clients -> Dates] /\ calls \in [Clients -> 0..MaxCalls]
      OBVIOUS
    <2>2. active \in 0..Concurrency  OBVIOUS
    <2>3. reqsUp \in BOOLEAN /\ stop \in BOOLEAN /\ stopped \in BOOLEAN /\ panicked \in BOOLEAN
      BY Zenon
    <2> QED  BY <2>1, <2>2, <2>3 DEF TypeOK
  <1>2. ActiveIsExact
    <2>1. Running = {}  BY DEF Running
    <2> QED  BY <2>1, FS_EmptySet DEF ActiveIsExact
  <1>3. NoLostWakeup /\ NoPanic /\ Places /\ Quiet
    BY DEF NoLostWakeup, NoPanic, Places, Quiet
  <1> QED  BY <1>1, <1>2, <1>3 DEF IInv

(* A step that leaves the running clients and the target alone, and the    *)
(* counter with them, keeps the counter exact.                             *)
LEMMA ActiveFrame ==
    ASSUME TypeOK, ActiveIsExact, UNCHANGED <<active, target>>,
           \A c \in Clients : pc[c] = "run" <=> pc'[c] = "run"
    PROVE  ActiveIsExact'
  <1>1. Running' = Running  BY DEF Running
  <1> QED  BY <1>1 DEF ActiveIsExact

(* Every step of the queue preserves the invariant.                        *)
LEMMA NextIInv == IInv /\ [Next]_vars => IInv'
  <1> SUFFICES ASSUME IInv, [Next]_vars PROVE IInv'  OBVIOUS
  <1> USE ConcurrencyAssumption, MaxCallsAssumption, DatesAssumption DEF IInv
  <1>1. ASSUME NEW c \in Clients, NEW d \in Dates, WaitReady(c, d) PROVE IInv'
    <2>1. TypeOK'  BY <1>1 DEF WaitReady, TypeOK
    <2>2. ActiveIsExact'
      <3>1. \A e \in Clients : pc[e] = "run" <=> pc'[e] = "run"
        BY <1>1 DEF WaitReady, TypeOK
      <3> QED  BY <1>1, <3>1, ActiveFrame DEF WaitReady
    <2>3. NoLostWakeup' /\ NoPanic' /\ Quiet'
      BY <1>1 DEF WaitReady, TypeOK, NoLostWakeup, NoPanic, Quiet
    <2>4. Places'
      BY <1>1 DEF WaitReady, TypeOK, Places
    <2> QED  BY <2>1, <2>2, <2>3, <2>4
  <1>2. ASSUME NEW c \in Clients, ReqsReceive(c) PROVE IInv'
    <2>1. TypeOK'  BY <1>2 DEF ReqsReceive, TypeOK
    <2>2. ActiveIsExact'
      <3>1. \A e \in Clients : pc[e] = "run" <=> pc'[e] = "run"
        BY <1>2 DEF ReqsReceive, TypeOK
      <3> QED  BY <1>2, <3>1, ActiveFrame DEF ReqsReceive
    <2>3. NoLostWakeup' /\ NoPanic' /\ Quiet'
      BY <1>2 DEF ReqsReceive, TypeOK, NoLostWakeup, NoPanic, Quiet
    <2>4. Places'
      BY <1>2 DEF ReqsReceive, TypeOK, Places
    <2> QED  BY <2>1, <2>2, <2>3, <2>4
  <1>3. ASSUME NEW c \in Clients, ReqsPush(c) PROVE IInv'
    <2>0. c \notin items  BY <1>3 DEF ReqsPush, Places
    <2>1. TypeOK'  BY <1>3, <2>0 DEF ReqsPush, TypeOK, Broadcast
    <2>2. ActiveIsExact'  BY <1>3, ActiveFrame DEF ReqsPush
    <2>3. NoLostWakeup' /\ NoPanic' /\ Quiet'
      BY <1>3, <2>0 DEF ReqsPush, NoLostWakeup, NoPanic, Quiet, Broadcast
    <2>4. target = {}  BY <1>3 DEF ReqsPush, LFree, Places
    <2>5. Places'
      BY Zenon, <1>3, <2>0, <2>4 DEF ReqsPush, TypeOK, Places, Broadcast, LFree
    <2> QED  BY <2>1, <2>2, <2>3, <2>5
  <1>4. ASSUME NEW c \in Clients, WakePop(c) PROVE IInv'
    <2>0. target = {}  BY <1>4 DEF WakePop, WakeTurn, Places
    <2>1. active < Concurrency  BY <1>4 DEF WakePop, MustPark, TypeOK
    <2>2. TypeOK'  BY <1>4, <2>1 DEF WakePop, TypeOK
    <2>3. ActiveIsExact'
      <3>1. Running' = Running  BY <1>4 DEF WakePop, Running
      <3>2. Cardinality(target') = 1 /\ Cardinality(target) = 0
        BY Zenon, <1>4, <2>0, FS_Singleton, FS_EmptySet DEF WakePop
      <3> QED  BY <1>4, <3>1, <3>2, RunningFinite DEF WakePop, ActiveIsExact
    <2>4. NoLostWakeup' /\ NoPanic' /\ Quiet'
      BY <1>4 DEF WakePop, NoLostWakeup, NoPanic, Quiet
    <2>5. Places'
      BY <1>4, <2>0 DEF WakePop, TypeOK, Places, IsEarliest
    <2> QED  BY <2>2, <2>3, <2>4, <2>5
  <1>5. ASSUME NEW c \in Clients, WakeSend(c) PROVE IInv'
    <2>1. TypeOK'  BY <1>5 DEF WakeSend, TypeOK
    <2>2. ActiveIsExact'
      <3>1. Running' = Running \cup {c} /\ c \notin Running
        BY <1>5 DEF WakeSend, Running, TypeOK
      <3>2. Cardinality(target) = 1  BY <1>5, TargetCard DEF WakeSend
      <3>3. Cardinality(target') = 0  BY <1>5, FS_EmptySet DEF WakeSend
      <3>4. Cardinality(Running') = Cardinality(Running) + 1
        BY Zenon, <3>1, RunningFinite, FS_AddElement
      <3> QED  BY <1>5, <3>2, <3>3, <3>4, RunningFinite DEF WakeSend, ActiveIsExact
    <2>3. NoLostWakeup' /\ NoPanic'
      BY <1>5 DEF WakeSend, NoLostWakeup, NoPanic
    <2>4. Quiet'  BY <1>5 DEF WakeSend, Quiet, TypeOK
    <2>5. Places'
      BY <1>5 DEF WakeSend, TypeOK, Places
    <2> QED  BY <2>1, <2>2, <2>3, <2>4, <2>5
  <1>6. ASSUME NEW c \in Clients, Completed(c) PROVE IInv'
    <2>0. target = {}  BY <1>6 DEF Completed, LFree, Places
    <2>1. c \in Running  BY <1>6 DEF Completed, Running
    <2>2. Running' = Running \ {c}  BY <1>6 DEF Completed, Running, TypeOK
    <2>3. Cardinality(Running') = Cardinality(Running) - 1 /\ Cardinality(Running') \in Nat
      BY <2>1, <2>2, RunningFinite, FS_RemoveElement, FS_CardinalityType
    <2>4. Cardinality(target) = 0  BY <2>0, FS_EmptySet
    <2>5. active' = Cardinality(Running') /\ active' \in 0..Concurrency
      BY <1>6, <2>3, <2>4, RunningFinite DEF Completed, ActiveIsExact, TypeOK
    <2>6. TypeOK'  BY <1>6, <2>5 DEF Completed, TypeOK, Broadcast
    <2>7. ActiveIsExact'
      BY <1>6, <2>4, <2>5, <2>3 DEF Completed, ActiveIsExact
    <2>8. NoLostWakeup' /\ NoPanic'
      BY <1>6 DEF Completed, NoLostWakeup, NoPanic, Broadcast
    <2>9. Quiet'  BY <1>6 DEF Completed, Quiet, TypeOK
    <2>10. Places'
      BY <1>6, <2>0 DEF Completed, TypeOK, Places, Broadcast, LFree
    <2> QED  BY <2>6, <2>7, <2>8, <2>9, <2>10
  <1>7. ASSUME WakePark \/ WakeExit \/ Close \/ Stopper \/ ReqsStop \/ UNCHANGED vars
        PROVE IInv'
    <2>0. ReqsStop => UNCHANGED panicked  BY Zenon DEF ReqsStop, Quiet, TypeOK
    <2>1. TypeOK'
      BY ZenonT(60), <1>7, <2>0 DEF WakePark, WakeExit, Close, Stopper, ReqsStop, TypeOK,
         Broadcast, vars
    <2>2. ActiveIsExact'
      BY <1>7, ActiveFrame DEF WakePark, WakeExit, Close, Stopper, ReqsStop, vars
    <2>3. NoLostWakeup' /\ NoPanic' /\ Quiet'
      BY SMTT(60), <1>7, <2>0 DEF WakePark, WakeExit, Close, Stopper, ReqsStop, NoLostWakeup,
                        NoPanic, Quiet, Broadcast, MustPark, vars
    <2>4. Places'
      BY <1>7 DEF WakePark, WakeExit, Close, Stopper, ReqsStop, TypeOK, Places,
                  Broadcast, LFree, WakeTurn, vars
    <2> QED  BY <2>1, <2>2, <2>3, <2>4
  <1> QED
    BY <1>1, <1>2, <1>3, <1>4, <1>5, <1>6, <1>7 DEF Next, Queue, Terminated

(* The invariant holds in every reachable state.                           *)
THEOREM Invariant == Spec => []IInv
  BY InitIInv, NextIInv, PTL DEF Spec

(* Type correctness of the queue, with 0 <= active <= Concurrency.         *)
THEOREM TypeCorrect == Spec => []TypeOK
  <1>1. IInv => TypeOK  BY DEF IInv
  <1> QED  BY <1>1, Invariant, PTL

(* No more than Concurrency goroutines hold a permission (stepQueue.Start). *)
THEOREM Bounded == Spec => []BoundedConcurrency
  <1>1. IInv => BoundedConcurrency
    <2> SUFFICES ASSUME IInv PROVE BoundedConcurrency  OBVIOUS
    <2>1. Cardinality(target) \in Nat  BY TargetCard DEF IInv
    <2> QED  BY <2>1, RunningFinite, ConcurrencyAssumption
             DEF IInv, TypeOK, ActiveIsExact, BoundedConcurrency
  <1> QED  BY <1>1, Invariant, PTL

(* The wake goroutine never sleeps through work (pendingCond).             *)
THEOREM NoWakeupLost == Spec => []NoLostWakeup
  <1>1. IInv => NoLostWakeup  BY DEF IInv
  <1> QED  BY <1>1, Invariant, PTL

(* Neither panic of the reqs goroutine is reachable.                       *)
THEOREM PanicFree == Spec => []NoPanic
  <1>1. IInv => NoPanic  BY DEF IInv
  <1> QED  BY <1>1, Invariant, PTL

(* WaitReady returns in the order of the target dates of the heap.         *)
THEOREM PriorityKept == Spec => Priority
  <1>1. IInv /\ [Next]_vars =>
          [\A c \in Clients : pc[c] # "run" /\ pc'[c] = "run"
                                => \A d \in pending : date[c] <= date[d]]_vars
    <2> SUFFICES ASSUME IInv, Next, NEW c \in Clients, pc[c] # "run", pc'[c] = "run"
                 PROVE \A d \in pending : date[c] <= date[d]
      OBVIOUS
    <2>1. WakeSend(c)
      BY DEF IInv, TypeOK, Next, Queue, Terminated, WaitReady, ReqsReceive, ReqsPush,
             WakePop, WakeSend, Completed, WakePark, WakeExit, Close, Stopper,
             ReqsStop, vars
    <2> QED  BY <2>1 DEF IInv, Places, WakeSend
  <1> QED  BY <1>1, Invariant, PTL DEF Spec, Priority

(* The queue implements the pool of permissions: every step of it is a     *)
(* step of SlotPool or leaves the pool alone.                              *)
THEOREM Refinement == Spec => ImplementsPool
  <1> DEFINE freeOf == Concurrency - Cardinality(Running)
  <1>1. Init => Pool!Init
    <2> SUFFICES ASSUME Init PROVE Pool!Init  OBVIOUS
    <2>1. Running = {}  BY DEF Running, Init
    <2>2. Cardinality(Running) = 0  BY <2>1, FS_EmptySet
    <2>3. slotOf = [c \in Clients |-> "out"]  BY SMTT(60) DEF Init, slotOf
    <2> QED  BY <2>2, <2>3, ConcurrencyAssumption DEF Pool!Init
  <1>2. IInv /\ [Next]_vars => [Pool!Next]_<<slotOf, freeOf>>
    <2> SUFFICES ASSUME IInv, [Next]_vars PROVE [Pool!Next]_<<slotOf, freeOf>>
      OBVIOUS
    <2> USE DEF IInv
    <2>0. ASSUME \A e \in Clients : pc[e] = "run" <=> pc'[e] = "run"
          PROVE  UNCHANGED freeOf
      <3>1. Running' = Running  BY <2>0 DEF Running
      <3> QED  BY <3>1
    <2>1. ASSUME NEW c \in Clients, NEW d \in Dates, WaitReady(c, d)
          PROVE Pool!Ask(c)
      <3>1. \A e \in Clients : pc[e] = "run" <=> pc'[e] = "run"
        BY <2>1 DEF WaitReady, TypeOK
      <3>2. slotOf[c] = "out" /\ slotOf' = [slotOf EXCEPT ![c] = "asked"]
        BY Zenon, <2>1 DEF WaitReady, TypeOK, slotOf
      <3> QED  BY <3>1, <3>2, <2>0 DEF Pool!Ask
    <2>2. ASSUME NEW c \in Clients, WakeSend(c) PROVE Pool!Grant(c)
      <3>1. slotOf[c] = "asked" /\ slotOf' = [slotOf EXCEPT ![c] = "granted"]
        BY Zenon, <2>2 DEF WakeSend, TypeOK, slotOf
      <3>2. Cardinality(target) = 1  BY <2>2, TargetCard DEF WakeSend
      <3>3. freeOf > 0
        BY <3>2, RunningFinite, ConcurrencyAssumption DEF ActiveIsExact, TypeOK
      <3>4. Running' = Running \cup {c} /\ c \notin Running
        BY <2>2 DEF WakeSend, Running, TypeOK
      <3>5. Cardinality(Running') = Cardinality(Running) + 1
        BY <3>4, RunningFinite, FS_AddElement
      <3>6. freeOf' = freeOf - 1
        BY <3>5, RunningFinite, ConcurrencyAssumption
      <3> QED  BY <3>1, <3>3, <3>6 DEF Pool!Grant
    <2>3. ASSUME NEW c \in Clients, Completed(c) PROVE Pool!GiveBack(c)
      <3>1. slotOf[c] = "granted" /\ slotOf' = [slotOf EXCEPT ![c] = "out"]
        BY Zenon, <2>3 DEF Completed, TypeOK, slotOf
      <3>2. Running' = Running \ {c} /\ c \in Running
        BY <2>3 DEF Completed, Running, TypeOK
      <3>3. Cardinality(Running') = Cardinality(Running) - 1
        BY Zenon, <3>2, RunningFinite, FS_RemoveElement
      <3>4. freeOf' = freeOf + 1
        BY <3>3, RunningFinite, ConcurrencyAssumption
      <3> QED  BY <3>1, <3>4 DEF Pool!GiveBack
    <2>4. ASSUME NEW c \in Clients, ReqsReceive(c) PROVE UNCHANGED <<slotOf, freeOf>>
      <3>1. \A e \in Clients : pc[e] = "run" <=> pc'[e] = "run"
        BY <2>4 DEF ReqsReceive, TypeOK
      <3>2. UNCHANGED slotOf  BY <2>4 DEF ReqsReceive, TypeOK, slotOf
      <3> QED  BY <3>1, <3>2, <2>0
    <2>5. ASSUME UNCHANGED pc PROVE UNCHANGED <<slotOf, freeOf>>
      BY <2>5, <2>0 DEF slotOf
    <2> HIDE DEF freeOf
    <2> QED
      BY <2>1, <2>2, <2>3, <2>4, <2>5
      DEF Pool!Next, Next, Queue, Terminated, ReqsPush, WakePop, WakePark, WakeExit,
          Close, Stopper, ReqsStop, vars
  <1> QED  BY <1>1, <1>2, Invariant, PTL DEF Spec, ImplementsPool, Pool!Spec
=============================================================================
