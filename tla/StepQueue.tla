------------------------------ MODULE StepQueue ------------------------------
(***************************************************************************)
(* The step queue of the replication driver                                *)
(* (replication/driver/replication_stepqueue.go).                          *)
(*                                                                         *)
(* Every filesystem goroutine of an attempt asks the queue for permission   *)
(* before it plans and before it executes each of its steps (WaitReady) and *)
(* gives the permission back when it is done (the StepCompletedFunc).  The  *)
(* queue is three goroutines around one mutex l and one condition variable  *)
(* pendingCond:                                                            *)
(*   reqs     receives requests and pushes them onto the priority queue,   *)
(*   wake     pops the request with the earliest target date when fewer    *)
(*            than Concurrency permissions are out, and sends the          *)
(*            StepCompletedFunc on the request's unbuffered channel WHILE  *)
(*            HOLDING l,                                                   *)
(*   stopper  sets `stopped' once q.stop is closed.                        *)
(* Critical sections that cannot block (push, complete, stop) are single   *)
(* actions guarded by l being free; the wake goroutine's critical section   *)
(* is split at the places where it blocks.                                 *)
(***************************************************************************)
EXTENDS Integers, FiniteSets

CONSTANTS Clients,      \* the callers of WaitReady: one ident per filesystem
          Dates,        \* target dates
          Concurrency,  \* the argument of Start
          MaxCalls      \* bound: WaitReady calls each client still makes

ASSUME ClientsAssumption == IsFiniteSet(Clients)
ASSUME DatesAssumption == Dates \subseteq Nat /\ 0 \in Dates
ASSUME ConcurrencyAssumption == Concurrency \in Nat \ {0}
ASSUME MaxCallsAssumption == MaxCalls \in Nat

VARIABLES
    pc,       \* per client: idle, req (blocked on q.reqs <- req),
              \* wait (blocked on <-req.wakeup), run (holds a permission)
    date,     \* per client: the targetDate of its current request
    calls,    \* per client: WaitReady calls left
    held,     \* requests received by the reqs goroutine, not pushed yet
    pending,  \* the heap: clients whose request is in `pending'
    items,    \* the domain of the map queueItems
    active,   \* permissions given out
    wake,     \* wake goroutine: lock (wants l), parked (pendingCond.Wait),
              \* send (on next.wakeup, owns l), loop (owns l), exit
    target,   \* the clients the wake goroutine is sending to (at most one)
    reqsUp,   \* the reqs goroutine is running
    stop,     \* q.stop is closed
    stopped,  \* the variable `stopped' guarded by l
    panicked  \* some goroutine panicked

vars == <<pc, date, calls, held, pending, items, active, wake, target,
          reqsUp, stop, stopped, panicked>>

TypeOK ==
    /\ pc \in [Clients -> {"idle", "req", "wait", "run"}]
    /\ date \in [Clients -> Dates]
    /\ calls \in [Clients -> 0..MaxCalls]
    /\ held \in SUBSET Clients
    /\ pending \in SUBSET Clients
    /\ items \in SUBSET Clients
    /\ active \in 0..Concurrency
    /\ wake \in {"lock", "parked", "send", "loop", "exit"}
    /\ target \in SUBSET Clients
    /\ reqsUp \in BOOLEAN
    /\ stop \in BOOLEAN
    /\ stopped \in BOOLEAN
    /\ panicked \in BOOLEAN

\* newStepQueue followed by Start: the goroutines exist, nothing is queued.
Init ==
    /\ pc = [c \in Clients |-> "idle"]
    /\ date = [c \in Clients |-> 0]
    /\ calls = [c \in Clients |-> MaxCalls]
    /\ held = {} /\ pending = {} /\ items = {}
    /\ active = 0
    /\ wake = "lock"
    /\ target = {}
    /\ reqsUp = TRUE
    /\ stop = FALSE /\ stopped = FALSE
    /\ panicked = FALSE

\* Mutant: l released before the send on next.wakeup.
LFreeWhileSending == TRUE

\* The wake goroutine owns l from the moment it pops a request until it parks
\* again; every other critical section is one action.
LFree == wake \notin {"send", "loop"}

\* The wake goroutine evaluates its loop condition: it still owns l, or l is
\* free for it to take.
WakeTurn == wake \in {"lock", "loop"}

\* Mutant: the broadcast forgotten.
BroadcastForgotten(w) == w

\* pendingCond.Broadcast: a parked wake goroutine competes for l again.
Broadcast(w) == IF w = "parked" THEN "lock" ELSE w

\* WaitReady / sendAndWaitForWakeup: the caller blocks on q.reqs <- req.
WaitReady(c, d) ==
    /\ pc[c] = "idle" /\ calls[c] > 0 /\ ~stop
    /\ pc' = [pc EXCEPT ![c] = "req"]
    /\ date' = [date EXCEPT ![c] = d]
    /\ calls' = [calls EXCEPT ![c] = @ - 1]
    /\ UNCHANGED <<held, pending, items, active, wake, target, reqsUp, stop,
                   stopped, panicked>>

\* case req := <-q.reqs of the reqs goroutine's outer select: it has taken
\* the request off the unbuffered channel and now wants l.  (The select may
\* take this branch even when q.stop is closed.)
ReqsReceive(c) ==
    /\ reqsUp /\ held = {}
    /\ pc[c] = "req"
    /\ pc' = [pc EXCEPT ![c] = "wait"]
    /\ held' = {c}
    /\ UNCHANGED <<date, calls, pending, items, active, wake, target, reqsUp,
                   stop, stopped, panicked>>

\* The critical section of the reqs goroutine: panic on a duplicate ident,
\* else push onto the heap and broadcast.
ReqsPush(c) ==
    /\ c \in held /\ LFree
    /\ IF c \in items
       THEN /\ panicked' = TRUE
            /\ UNCHANGED <<held, pending, items, wake>>
       ELSE /\ items' = items \cup {c}
            /\ pending' = pending \cup {c}
            /\ held' = held \ {c}
            /\ wake' = Broadcast(wake)
            /\ UNCHANGED panicked
    /\ UNCHANGED <<pc, date, calls, active, target, reqsUp, stop, stopped>>

\* case <-q.stop of the reqs goroutine: the nested select panics if a caller
\* is blocked on q.reqs, otherwise the goroutine returns.
ReqsStop ==
    /\ reqsUp /\ held = {} /\ stop
    /\ IF \E c \in Clients : pc[c] = "req"
       THEN panicked' = TRUE /\ UNCHANGED reqsUp
       ELSE reqsUp' = FALSE /\ UNCHANGED panicked
    /\ UNCHANGED <<pc, date, calls, held, pending, items, active, wake,
                   target, stop, stopped>>

\* heap.Pop takes a request with the earliest target date; the heap orders
\* requests with equal dates arbitrarily.
IsEarliest(c) == \A d \in pending : date[c] <= date[d]

\* Mutant: off by one in the comparison with concurrency.
MustParkLate == ~stopped /\ (active > Concurrency \/ pending = {})


MustPark == ~stopped /\ (active >= Concurrency \/ pending = {})

\* The wake goroutine owns l and its loop condition holds: pendingCond.Wait
\* releases l and parks.
WakePark ==
    /\ WakeTurn /\ MustPark
    /\ wake' = "parked"
    /\ UNCHANGED <<pc, date, calls, held, pending, items, active, target,
                   reqsUp, stop, stopped, panicked>>

\* Mutant: the popped request stays in queueItems.
WakePopKeepItem(c) ==
    /\ WakeTurn /\ ~MustPark /\ ~stopped
    /\ c \in pending /\ IsEarliest(c)
    /\ active' = active + 1
    /\ pending' = pending \ {c}
    /\ target' = {c}
    /\ wake' = "send"
    /\ UNCHANGED <<pc, date, calls, held, items, reqsUp, stop, stopped, panicked>>

\* The wake goroutine owns l and pops the next request; it keeps l while it
\* sends on next.wakeup.
WakePop(c) ==
    /\ WakeTurn /\ ~MustPark /\ ~stopped
    /\ c \in pending /\ IsEarliest(c)
    /\ active' = active + 1
    /\ pending' = pending \ {c}
    /\ items' = items \ {c}
    /\ target' = {c}
    /\ wake' = "send"
    /\ UNCHANGED <<pc, date, calls, held, reqsUp, stop, stopped, panicked>>

\* Rendezvous on next.wakeup: the caller's WaitReady returns, the wake
\* goroutine goes back to its loop condition, still owning l.
WakeSend(c) ==
    /\ wake = "send" /\ c \in target
    /\ pc[c] = "wait"
    /\ pc' = [pc EXCEPT ![c] = "run"]
    /\ target' = {}
    /\ wake' = "loop"
    /\ UNCHANGED <<date, calls, held, pending, items, active, reqsUp, stop,
                   stopped, panicked>>

\* The wake goroutine sees stopped and returns.
WakeExit ==
    /\ WakeTurn /\ stopped
    /\ wake' = "exit"
    /\ UNCHANGED <<pc, date, calls, held, pending, items, active, target,
                   reqsUp, stop, stopped, panicked>>

\* Mutant: the StepCompletedFunc forgets active--.
CompletedLeaks(c) ==
    /\ pc[c] = "run" /\ LFree
    /\ pc' = [pc EXCEPT ![c] = "idle"]
    /\ wake' = Broadcast(wake)
    /\ UNCHANGED <<date, calls, held, pending, items, active, target, reqsUp,
                   stop, stopped, panicked>>

\* The StepCompletedFunc.
Completed(c) ==
    /\ pc[c] = "run" /\ LFree
    /\ pc' = [pc EXCEPT ![c] = "idle"]
    /\ active' = active - 1
    /\ wake' = Broadcast(wake)
    /\ UNCHANGED <<date, calls, held, pending, items, target, reqsUp, stop,
                   stopped, panicked>>

\* done(): doFilesystems closes q.stop after every filesystem goroutine has
\* returned from its last WaitReady and has called the StepCompletedFunc.
Close ==
    /\ ~stop /\ \A c \in Clients : pc[c] = "idle"
    /\ stop' = TRUE
    /\ UNCHANGED <<pc, date, calls, held, pending, items, active, wake,
                   target, reqsUp, stopped, panicked>>

\* Mutant: the stopper goroutine does not broadcast.
StopperSilent ==
    /\ stop /\ ~stopped /\ LFree
    /\ stopped' = TRUE
    /\ UNCHANGED <<pc, date, calls, held, pending, items, active, wake, target,
                   reqsUp, stop, panicked>>

\* The stopper goroutine, after <-q.stop.
Stopper ==
    /\ stop /\ ~stopped /\ LFree
    /\ stopped' = TRUE
    /\ wake' = Broadcast(wake)
    /\ UNCHANGED <<pc, date, calls, held, pending, items, active, target,
                   reqsUp, stop, panicked>>

\* All goroutines have returned.
Terminated == wake = "exit" /\ ~reqsUp /\ UNCHANGED vars

Queue ==
    \/ \E c \in Clients : ReqsReceive(c) \/ ReqsPush(c) \/ WakePop(c) \/ WakeSend(c)
    \/ ReqsStop \/ WakePark \/ WakeExit \/ Stopper

Next ==
    \/ Queue
    \/ \E c \in Clients : Completed(c) \/ \E d \in Dates : WaitReady(c, d)
    \/ Close
    \/ Terminated

\* The Go scheduler runs every runnable goroutine; a filesystem goroutine's
\* PlanFS or Step returns, so a granted permission is given back; and
\* doFilesystems closes the queue once every filesystem goroutine is done.
Fairness ==
    /\ \A c \in Clients : WF_vars(ReqsReceive(c)) /\ WF_vars(ReqsPush(c))
                          /\ WF_vars(WakeSend(c)) /\ WF_vars(Completed(c))
    /\ WF_vars(\E c \in Clients : WakePop(c))
    /\ WF_vars(WakePark) /\ WF_vars(WakeExit)
    /\ WF_vars(ReqsStop) /\ WF_vars(Stopper)

Spec == Init /\ [][Next]_vars

FairSpec == Spec /\ Fairness

-----------------------------------------------------------------------------
(* Properties *)

Running == {c \in Clients : pc[c] = "run"}

(* Start's `concurrency': no more than Concurrency filesystem goroutines   *)
(* plan or replicate at the same time, whatever the interleaving of        *)
(* requests, completions and wakeups.                                      *)
BoundedConcurrency == Cardinality(Running) <= Concurrency

(* The counter `active' is exact: it counts the permissions that are out   *)
(* plus the one in flight on next.wakeup.  A leak would shrink the pool    *)
(* for the rest of the attempt.                                            *)
ActiveIsExact == active = Cardinality(Running) + Cardinality(target)

(* No lost wakeup: the wake goroutine is parked in pendingCond.Wait only   *)
(* while there is nothing for it to do.                                    *)
NoLostWakeup ==
    wake = "parked" => ~stopped /\ (active >= Concurrency \/ pending = {})

(* Neither of the two panics of the reqs goroutine is reachable when every *)
(* filesystem uses its own ident and the queue is closed after the last    *)
(* WaitReady has returned.                                                 *)
NoPanic == ~panicked

(* Priority: when WaitReady returns to a caller, no request that was       *)
(* already in the heap has an earlier target date; the driver relies on    *)
(* this to plan filesystems (target date 0) before it replicates.          *)
Priority ==
    [][\A c \in Clients :
          pc[c] # "run" /\ pc'[c] = "run" => \A d \in pending : date[c] <= date[d]]_vars

(* Every WaitReady call returns, since every permission is given back.     *)
WaitReadyReturns == \A c \in Clients : pc[c] = "req" ~> pc[c] = "run"

(* The function returned by Start frees what Start allocated: both         *)
(* goroutines return after q.stop is closed.                               *)
StopReleases == stop ~> (wake = "exit" /\ ~reqsUp)

(* Refinement: the queue implements the pool of permissions.               *)
slotOf == [c \in Clients |-> CASE pc[c] = "idle" -> "out"
                               [] pc[c] \in {"req", "wait"} -> "asked"
                               [] pc[c] = "run" -> "granted"]

Pool == INSTANCE SlotPool WITH Users <- Clients, Slots <- Concurrency,
                               slot <- slotOf,
                               free <- Concurrency - Cardinality(Running)

ImplementsPool == Pool!Spec
=============================================================================
