--------------------------- MODULE Pruner_proofs ---------------------------
(***************************************************************************)
(* Proofs about the pruner for any filesystems, any keep rules and any     *)
(* number of snapshots and invocations.                                    *)
(***************************************************************************)
EXTENDS Pruner, FiniteSetTheorems, TLAPS

\* What makes a snapshot a legitimate victim.
Victim(f, s) ==
    /\ ~Skipped(f) /\ cursor[f] # 0
    /\ HasNotReplicatedRule =>
          s < cursor[f] \/ (ConsiderSnapAtCursorReplicated /\ s = cursor[f])

\* A destroy list names victims, and snapshots that exist or existed: one taken
\* later is never on it.
Condemned ==
    \A f \in Fss :
        /\ \A s \in snaps[f] \cup destroyList[f] : s <= latest[f]
        /\ \A s \in destroyList[f] : Victim(f, s)

InHandler == pc \in {"batch", "strip", "seq"}
Calling == InHandler \/ pc \in {"rpc", "reply"}

\* The handler destroys only what is on the list, and accounts for all of it:
\* what still exists has an error or is still to be tried.
Accounted ==
    /\ pc = "cursor" => ~Skipped(cur) /\ \A s \in listed : s <= latest[cur]
    /\ InHandler => work \subseteq Request
    /\ pc \in {"batch", "strip"} => work = Request
    /\ pc = "strip" => remaining \subseteq work
    /\ pc = "seq" => Request \cap snaps[cur] \subseteq work \cup errs
    /\ pc = "reply" => Request \cap snaps[cur] \subseteq errs

\* The queue: every filesystem is pending, executing or completed.
Queued ==
    /\ pc \in {"list", "plan", "cursor"} => completed = {} /\ state = "Plan"
    /\ pc = "exec" \/ Calling => state = "Exec"
    /\ pc = "exec" => pending \cup completed = Fss
    /\ Calling => pending \cup completed \cup {cur} = Fss
    /\ \A f \in completed : ~execErr[f] => destroyList[f] \cap snaps[f] = {}
    /\ pc = "idle" => state # "Plan" /\ state # "Exec"
    /\ state = "Done" /\ attempt > 0 => completed = Fss /\ \A f \in completed : ~Failed(f)

\* The inductive invariant.
IInv == TypeOK /\ Condemned /\ Accounted /\ Queued

-----------------------------------------------------------------------------
(* PruneSnapshots removes only what each single rule would remove: the     *)
(* count of the rules that list a snapshot is the number of rules.         *)
LEMMA PruneNeedsEveryRule ==
    ASSUME NEW S, NEW i \in DOMAIN Rules, NEW s \in PruneSnapshots(S, Rules)
    PROVE  s \in S /\ s \in Destroys(Rules[i], S)
  <1> DEFINE all == 1..Len(Rules)
             listing == {k \in DOMAIN Rules : s \in Destroys(Rules[k], S)}
  <1>1. s \in S /\ Cardinality(listing) = Len(Rules)
    <2>1. Rules # <<>>  BY PrunerAssumption
    <2> QED  BY Zenon, <2>1 DEF PruneSnapshots
  <1>2. IsFiniteSet(all) /\ Cardinality(all) = Len(Rules)
    <2>1. 1 \in Int /\ Len(Rules) \in Int /\ Len(Rules) >= 0  BY PrunerAssumption
    <2>2. IsFiniteSet(1..Len(Rules))
          /\ Cardinality(1..Len(Rules)) = IF 1 > Len(Rules) THEN 0 ELSE Len(Rules) - 1 + 1
      BY <2>1, FS_Interval
    <2> QED  BY <2>1, <2>2
  <1>3. listing \in SUBSET all  BY PrunerAssumption
  <1>4. listing = all  BY Zenon, <1>1, <1>2, <1>3, FS_Subset
  <1> QED  BY Zenon, <1>1, <1>4, PrunerAssumption

(* The destroy list computed from a listing and a cursor: snapshots of the *)
(* listing and, with a not_replicated rule, none after the cursor.         *)
LEMMA CondemnSound ==
    ASSUME NEW list \in SUBSET Snaps, NEW rc \in Nat
    PROVE  /\ Condemn(list, rc) \subseteq list
           /\ HasNotReplicatedRule =>
                \A s \in Condemn(list, rc) :
                    s < rc \/ (ConsiderSnapAtCursorReplicated /\ s = rc)
  <1>1. ASSUME NEW s \in Condemn(list, rc) PROVE s \in list
    <2> PICK r \in PruneSnapshots(Snapshots(list, rc), Rules) : s = r.txg
      BY <1>1 DEF Condemn
    <2>1. r \in Snapshots(list, rc)  BY DEF PruneSnapshots
    <2> QED  BY <2>1 DEF Snapshots
  <1>2. ASSUME HasNotReplicatedRule, NEW s \in Condemn(list, rc)
        PROVE  s < rc \/ (ConsiderSnapAtCursorReplicated /\ s = rc)
    <2> PICK r \in PruneSnapshots(Snapshots(list, rc), Rules) : s = r.txg
      BY <1>2 DEF Condemn
    <2> PICK i \in DOMAIN Rules : Rules[i].kind = "not_replicated"
      BY <1>2 DEF HasNotReplicatedRule
    <2>1. r \in Snapshots(list, rc) /\ r \in Destroys(Rules[i], Snapshots(list, rc))
      BY PruneNeedsEveryRule
    <2>2. r \in KeepNotReplicated(Snapshots(list, rc))  BY <2>1 DEF Destroys
    <2>3. r.replicated  BY <2>2 DEF KeepNotReplicated
    <2>4. r.replicated = IsReplicated(s, list, rc)  BY <2>1 DEF Snapshots
    <2> QED  BY Zenon, <2>3, <2>4 DEF IsReplicated
  <1> QED  BY <1>1, <1>2

-----------------------------------------------------------------------------
(* The initial state satisfies the invariant.                              *)
LEMMA InitIInv == Init => IInv
  <1> SUFFICES ASSUME Init PROVE IInv  OBVIOUS
  <1> USE PrunerAssumption DEF Init
  <1>1. TypeOK
    <2>1. planErr \in [Fss -> BOOLEAN]  BY Zenon
    <2>2. execErr \in [Fss -> BOOLEAN]  BY Zenon
    <2> QED  BY <2>1, <2>2 DEF TypeOK
  <1>2. Condemned /\ Accounted
    BY DEF Condemned, Accounted, InHandler
  <1>3. Queued  BY DEF Queued, Calling, InHandler
  <1> QED  BY <1>1, <1>2, <1>3 DEF IInv

(* A step of the handler destroys some of the snapshots left to destroy    *)
(* in the filesystem of the request, and changes nothing else outside.     *)
LEMMA HandlerDestroys ==
    ASSUME TypeOK, Handler
    PROVE  /\ cur \in Fss /\ InHandler
           /\ \E T \in SUBSET work : snaps' = [snaps EXCEPT ![cur] = @ \ T]
           /\ UNCHANGED <<latest, held, cursor, state, attempt, cur, planning, queue, feature>>
  <1>1. CASE TryBatch
    BY Zenon, <1>1 DEF TryBatch, DestroyOk, DestroyUndestroyable, DestroyFails, Gone, TypeOK,
       InHandler
  <1>2. CASE TryStrippedBatch
    <2> DEFINE stripped == work \ remaining
    <2>1. pc = "strip" /\ cur \in Fss  BY <1>2 DEF TryStrippedBatch, TypeOK
    <2>2. CASE UNCHANGED snaps
      <3>1. snaps' = [snaps EXCEPT ![cur] = @ \ {}]  BY <2>1, <2>2 DEF TypeOK
      <3> QED  BY Zenon, <1>2, <2>1, <3>1 DEF TryStrippedBatch, InHandler
    <2>3. CASE \E T \in SUBSET stripped : Gone(T)
      BY Zenon, <1>2, <2>1, <2>3 DEF TryStrippedBatch, InHandler, Gone
    <2> QED  BY Zenon, <1>2, <2>2, <2>3 DEF TryStrippedBatch, DestroyOk, DestroyFails
  <1>3. CASE DestroyOne
    BY ZenonT(60), <1>3 DEF DestroyOne, DestroyOk, DestroyFails, Gone, TypeOK, InHandler
  <1> QED  BY <1>1, <1>2, <1>3 DEF Handler

(* Every action preserves the types.                                       *)
LEMMA TypeNext == IInv /\ [Next]_vars => TypeOK'
  <1> SUFFICES ASSUME IInv, [Next]_vars PROVE TypeOK'  OBVIOUS
  <1> USE PrunerAssumption DEF IInv, TypeOK, env, queue, handler, planning
  <1>1. CASE Environment
    <2>1. PICK f \in Fss : TakeSnapshot(f) \/ Replicate(f) \/ Hold(f) \/ Release(f)
                             \/ DestroyedByOthers(f)
      BY <1>1 DEF Environment
    <2>2. snaps' \in [Fss -> SUBSET Snaps] /\ held' \in [Fss -> SUBSET Snaps]
      <3>1. latest[f] + 1 \in Snaps  BY DEF Snaps
      <3> QED  BY SMTT(60), <2>1, <3>1 DEF TakeSnapshot, Replicate, Hold, Release,
          DestroyedByOthers
    <2>3. latest' \in [Fss -> Nat] /\ cursor' \in [Fss -> Nat]
      BY SMTT(60), <2>1 DEF TakeSnapshot, Replicate, Hold, Release, DestroyedByOthers, Snaps
    <2> QED  BY Zenon, <1>1, <2>2, <2>3 DEF Environment
  <1>2. CASE Prune
    <2>1. planErr' \in [Fss -> BOOLEAN]  BY <1>2, Zenon DEF Prune
    <2>2. execErr' \in [Fss -> BOOLEAN]  BY <1>2, Zenon DEF Prune
    <2> QED  BY <1>2, <2>1, <2>2 DEF Prune
  <1>3. CASE ListFilesystems  BY Zenon, <1>3 DEF ListFilesystems
  <1>4. CASE SkipFilesystem  BY SMTT(60), <1>4 DEF SkipFilesystem
  <1>5. CASE ListFilesystemVersions  BY Zenon, <1>5 DEF ListFilesystemVersions
  <1>6. CASE ReplicationCursor
    <2>1. cur \in Fss /\ cursor[cur] \in Nat  BY <1>6 DEF ReplicationCursor
    <2>2. Condemn(listed, cursor[cur]) \subseteq Snaps  BY <2>1, CondemnSound
    <2> QED  BY ZenonT(60), <1>6, <2>1, <2>2 DEF ReplicationCursor
  <1>7. CASE StartExec  BY <1>7 DEF StartExec
  <1>8. CASE Pop  BY SMTT(60), <1>8 DEF Pop
  <1>9. CASE DestroyCallFails
    <2>1. cur \in Fss /\ TRUE \in BOOLEAN  BY <1>9 DEF DestroyCallFails
    <2> QED  BY SMTT(60), <1>9, <2>1 DEF DestroyCallFails, Put
  <1>10. CASE DestroyReply
    <2>1. cur \in Fss  BY <1>10 DEF DestroyReply
    <2>2. (errs # {}) \in BOOLEAN  BY Zenon
    <2> QED  BY SMTT(60), <1>10, <2>1, <2>2 DEF DestroyReply, Put
  <1>11. CASE FinishAttempt  BY <1>11 DEF FinishAttempt
  <1>12. CASE DoDestroy
    <2>1. cur \in Fss /\ Request \subseteq Snaps  BY <1>12 DEF DoDestroy, Request
    <2>2. feature' \in {"unknown", "batched", "seq", "error"}  BY <1>12 DEF DoDestroy
    <2>3. pc' \in {"reply", "batch", "seq"} /\ errs' \subseteq Snaps /\ work' \subseteq Snaps
      BY <1>12, <2>1 DEF DoDestroy
    <2> QED  BY SMTT(60), <1>12, <2>1, <2>2, <2>3 DEF DoDestroy
  <1>13. CASE TryBatch
    BY <1>13 DEF TryBatch, DestroyOk, DestroyUndestroyable, DestroyFails, Gone
  <1>14. CASE TryStrippedBatch
    BY SMTT(60), <1>14 DEF TryStrippedBatch, SingleRun, DestroyOk, DestroyFails, Gone
  <1>15. CASE DestroyOne  BY SMTT(60), <1>15 DEF DestroyOne, DestroyOk, DestroyFails, Gone
  <1>16. CASE DestroySeqDone  BY <1>16 DEF DestroySeqDone
  <1>17. CASE UNCHANGED vars  BY <1>17 DEF vars
  <1> QED
    BY Zenon, <1>1, <1>2, <1>3, <1>4, <1>5, <1>6, <1>7, <1>8, <1>9, <1>10, <1>11, <1>12, <1>13,
       <1>14, <1>15, <1>16, <1>17 DEF Next, PrunerNext, Handler

(* Destroy lists keep naming victims: the cursor only moves forward, and   *)
(* snapshot numbers only grow.                                             *)
LEMMA CondemnedNext == IInv /\ [Next]_vars => Condemned'
  <1> SUFFICES ASSUME IInv, [Next]_vars PROVE Condemned'  OBVIOUS
  <1> USE PrunerAssumption DEF IInv, Condemned, env, queue, handler, planning
  <1>1. CASE Environment
    <2>1. PICK f \in Fss : TakeSnapshot(f) \/ Replicate(f) \/ Hold(f) \/ Release(f)
                             \/ DestroyedByOthers(f)
      BY <1>1 DEF Environment
    <2>2. UNCHANGED destroyList  BY <1>1 DEF Environment
    <2>3. ASSUME NEW g \in Fss
          PROVE  /\ latest[g] <= latest'[g]
                 /\ cursor[g] # 0 => cursor'[g] # 0
                 /\ cursor[g] <= cursor'[g]
                 /\ \A s \in snaps'[g] : s <= latest'[g]
      BY SMTT(60), <2>1 DEF TakeSnapshot, Replicate, Hold, Release, DestroyedByOthers, TypeOK,
         Snaps
    <2>4. ASSUME NEW g \in Fss, NEW s \in destroyList[g]
          PROVE  s <= latest'[g] /\ Victim(g, s)'
      <3>1. s \in Nat /\ latest[g] \in Nat /\ latest'[g] \in Nat /\ cursor[g] \in Nat
            /\ cursor'[g] \in Nat
        BY SMTT(60), <2>1, <2>4 DEF TypeOK, Snaps, TakeSnapshot, Replicate, Hold, Release,
           DestroyedByOthers
      <3>2. s <= latest[g] /\ Victim(g, s)  BY <2>4
      <3>3. latest[g] <= latest'[g] /\ cursor[g] <= cursor'[g] /\ (cursor[g] # 0 => cursor'[g]
          # 0)
        BY Zenon, <2>3
      <3>4. s <= latest'[g]  BY <3>1, <3>2, <3>3
      <3>5. HasNotReplicatedRule =>
              s < cursor'[g] \/ (ConsiderSnapAtCursorReplicated /\ s = cursor'[g])
        <4>1. CASE cursor'[g] = cursor[g]  BY <3>2, <4>1 DEF Victim
        <4>2. CASE cursor[g] < cursor'[g]  BY <3>1, <3>2, <4>2 DEF Victim
        <4> QED  BY <3>1, <3>3, <4>1, <4>2
      <3> QED  BY <3>2, <3>3, <3>4, <3>5 DEF Victim
    <2> QED  BY Zenon, <2>2, <2>3, <2>4
  <1>2. CASE Prune  BY <1>2 DEF Prune, Victim
  <1>3. CASE ListFilesystemVersions  BY <1>3 DEF ListFilesystemVersions, Victim
  <1>4. CASE ReplicationCursor
    <2>1. cur \in Fss /\ cursor[cur] \in Nat /\ latest[cur] \in Nat
      BY <1>4 DEF ReplicationCursor, TypeOK
    <2>2. UNCHANGED <<snaps, latest, cursor>>  BY <1>4 DEF ReplicationCursor
    <2>3. CASE UNCHANGED destroyList
      BY <2>2, <2>3 DEF Victim, TypeOK
    <2>4. CASE /\ cursor[cur] # 0
               /\ destroyList' = [destroyList EXCEPT ![cur] = Condemn(listed, cursor[cur])]
      <3>1. listed \subseteq Snaps  BY DEF TypeOK
      <3>2. /\ Condemn(listed, cursor[cur]) \subseteq listed
            /\ HasNotReplicatedRule =>
                 \A s \in Condemn(listed, cursor[cur]) :
                    s < cursor[cur] \/ (ConsiderSnapAtCursorReplicated /\ s = cursor[cur])
        BY <2>1, <3>1, CondemnSound
      <3>3. ~Skipped(cur) /\ \A s \in listed : s <= latest[cur]
        BY <1>4 DEF Accounted, ReplicationCursor
      <3>4. /\ destroyList'[cur] = Condemn(listed, cursor[cur])
            /\ \A g \in Fss \ {cur} : destroyList'[g] = destroyList[g]
        BY <2>1, <2>4 DEF TypeOK
      <3> QED  BY <2>1, <2>2, <2>4, <3>2, <3>3, <3>4 DEF Victim
    <2> QED  BY Zenon, <1>4, <2>3, <2>4 DEF ReplicationCursor
  <1>5. CASE Handler
    <2>1. UNCHANGED <<latest, cursor, destroyList>>  BY <1>5, HandlerDestroys
    <2>2. \A g \in Fss : snaps'[g] \subseteq snaps[g]
      BY SMTT(60), <1>5, HandlerDestroys DEF TypeOK
    <2> QED  BY <2>1, <2>2 DEF Victim
  <1>6. CASE ListFilesystems \/ SkipFilesystem \/ StartExec \/ Pop \/ DestroyCallFails
               \/ DestroyReply \/ FinishAttempt \/ DoDestroy \/ DestroySeqDone
               \/ UNCHANGED vars
    <2>1. UNCHANGED <<snaps, latest, cursor, destroyList>>
      BY ZenonT(60), <1>6 DEF ListFilesystems, SkipFilesystem, StartExec, Pop, DestroyCallFails,
                  DestroyReply, FinishAttempt, DoDestroy, DestroySeqDone, vars
    <2> QED  BY <2>1 DEF Victim
  <1> QED  BY Zenon, <1>1, <1>2, <1>3, <1>4, <1>5, <1>6 DEF Next, PrunerNext

(* The handler works on the list of the request only and accounts for it.  *)
LEMMA AccountedNext == IInv /\ [Next]_vars => Accounted'
  <1> SUFFICES ASSUME IInv, [Next]_vars PROVE Accounted'  OBVIOUS
  <1> USE PrunerAssumption DEF IInv, Accounted, InHandler, Request
  <1>1. CASE Environment
    <2>1. PICK f \in Fss : TakeSnapshot(f) \/ Replicate(f) \/ Hold(f) \/ Release(f)
                             \/ DestroyedByOthers(f)
      BY <1>1 DEF Environment
    <2>2. UNCHANGED <<pc, cur, listed, destroyList, work, remaining, errs>>
      BY <1>1 DEF Environment, planning, handler
    <2>3. ASSUME NEW g \in Fss
          PROVE  /\ latest[g] <= latest'[g]
                 /\ destroyList[g] \cap snaps'[g] \subseteq destroyList[g] \cap snaps[g]
      <3>1. latest[g] \in Nat  BY DEF TypeOK
      <3>2. CASE TakeSnapshot(f)
        <4>1. \A s \in destroyList[g] : s <= latest[g]  BY DEF Condemned
        <4>2. f = g => latest[g] + 1 \notin destroyList[g]  BY <3>1, <4>1
        <4> QED  BY <3>1, <3>2, <4>2 DEF TakeSnapshot, TypeOK
      <3>3. CASE Replicate(f) \/ Hold(f) \/ Release(f) \/ DestroyedByOthers(f)
        BY <3>1, <3>3 DEF Replicate, Hold, Release, DestroyedByOthers, TypeOK
      <3> QED  BY <2>1, <3>2, <3>3
    <2>4. pc = "cursor" => \A s \in listed : s <= latest'[cur]
      <3> SUFFICES ASSUME pc = "cursor", NEW s \in listed PROVE s <= latest'[cur]  OBVIOUS
      <3>1. cur \in Fss /\ s <= latest[cur] /\ s \in Nat  BY DEF TypeOK, Snaps
      <3>2. latest[cur] \in Nat /\ latest'[cur] \in Nat
        BY <2>1, <3>1 DEF TypeOK, TakeSnapshot, Replicate, Hold, Release, DestroyedByOthers
      <3> QED  BY <2>3, <3>1, <3>2
    <2>5. pc \in {"seq", "reply"} => cur \in Fss  BY DEF TypeOK
    <2> QED  BY SMTT(60), <2>2, <2>3, <2>4, <2>5
  <1>2. CASE ListFilesystemVersions
    <2>1. PICK f \in todo : /\ ~Skipped(f)
                            /\ \/ listed' = snaps[f] /\ cur' = f /\ pc' = "cursor"
                               \/ UNCHANGED pc
      BY <1>2 DEF ListFilesystemVersions
    <2>2. pc = "plan" /\ UNCHANGED latest  BY <1>2 DEF ListFilesystemVersions, env
    <2>3. \A s \in snaps[f] : s <= latest[f]  BY DEF Condemned, TypeOK
    <2> QED  BY <2>1, <2>2, <2>3
  <1>3. CASE Prune \/ ListFilesystems \/ SkipFilesystem \/ ReplicationCursor \/ StartExec \/ Pop
               \/ DestroyCallFails \/ DestroyReply \/ FinishAttempt
    <2>1. pc' \in {"idle", "list", "plan", "exec", "rpc"}
      BY SMTT(60), <1>3 DEF Prune, ListFilesystems, SkipFilesystem, ReplicationCursor,
         StartExec, Pop,
                  DestroyCallFails, DestroyReply, Put, FinishAttempt
    <2> QED  BY SMTT(60), <2>1
  <1>4. CASE DoDestroy
    <2>1. UNCHANGED <<snaps, cur, destroyList>>  BY <1>4 DEF DoDestroy, env, planning
    <2> QED  BY <1>4, <2>1 DEF DoDestroy
  <1>5. CASE TryBatch
    <2>1. UNCHANGED <<cur, destroyList, errs>> /\ cur \in Fss /\ work = Request
      BY SMTT(60), <1>5 DEF TryBatch, planning, TypeOK
    <2> QED  BY <1>5, <2>1 DEF TryBatch, DestroyOk, DestroyUndestroyable, DestroyFails, Gone,
        TypeOK
  <1>6. CASE TryStrippedBatch
    <2>1. UNCHANGED <<cur, destroyList, errs>> /\ cur \in Fss /\ work = Request /\ pc' = "seq"
      BY SMTT(60), <1>6 DEF TryStrippedBatch, planning, TypeOK
    <2>2. CASE work \ remaining = {} /\ work' = remaining /\ UNCHANGED snaps
      BY SMTT(60), <1>6, <2>1, <2>2 DEF TryStrippedBatch
    <2>3. CASE DestroyOk(work \ remaining) /\ work' = remaining
      <3>1. snaps'[cur] = snaps[cur] \ (work \ remaining)
        BY <2>1, <2>3 DEF DestroyOk, Gone, TypeOK
      <3> QED  BY <1>6, <2>1, <2>3, <3>1 DEF TryStrippedBatch
    <2>4. CASE work' = work
      BY SMTT(60), <2>1, <2>4
    <2> QED  BY SMTT(60), <1>6, <2>2, <2>3, <2>4 DEF TryStrippedBatch, SingleRun
  <1>7. CASE DestroyOne
    <2>1. UNCHANGED <<cur, destroyList, pc>> /\ cur \in Fss /\ pc = "seq"
      BY SMTT(60), <1>7 DEF DestroyOne, planning, TypeOK
    <2>2. PICK s \in work : /\ work' = work \ {s}
                            /\ \/ DestroyOk({s}) /\ UNCHANGED errs
                               \/ DestroyFails({s}) /\ errs' = errs \cup {s}
      BY ZenonT(60), <1>7 DEF DestroyOne
    <2>3. CASE DestroyOk({s}) /\ UNCHANGED errs
      BY SMTT(60), <2>1, <2>2, <2>3 DEF DestroyOk, Gone, TypeOK
    <2>4. CASE DestroyFails({s}) /\ errs' = errs \cup {s}
      <3>1. snaps'[cur] \subseteq snaps[cur]  BY SMTT(60), <2>1, <2>4 DEF DestroyFails, Gone,
          TypeOK
      <3> QED  BY SMTT(60), <2>1, <2>2, <2>4, <3>1
    <2> QED  BY SMTT(60), <2>2, <2>3, <2>4
  <1>8. CASE DestroySeqDone
    BY SMTT(60), <1>8 DEF DestroySeqDone, env, planning, handler
  <1>9. CASE UNCHANGED vars  BY SMTT(60), <1>9 DEF vars, env, planning, handler
  <1> QED
    BY <1>1, <1>2, <1>3, <1>4, <1>5, <1>6, <1>7, <1>8, <1>9 DEF Next, PrunerNext, Handler

(* The queue: a filesystem is completed without an error only when its     *)
(* destroy list is done, and every filesystem is completed at the end.     *)
LEMMA QueuedNext == IInv /\ [Next]_vars => Queued'
  <1> SUFFICES ASSUME IInv, [Next]_vars PROVE Queued'  OBVIOUS
  <1> USE PrunerAssumption DEF IInv, Queued, Calling, InHandler
  <1>1. CASE Environment
    <2>1. PICK f \in Fss : TakeSnapshot(f) \/ Replicate(f) \/ Hold(f) \/ Release(f)
                             \/ DestroyedByOthers(f)
      BY SMTT(60), <1>1 DEF Environment
    <2>2. UNCHANGED <<state, attempt, pc, cur, planErr, destroyList, pending, completed, execErr>>
      BY <1>1 DEF Environment, planning, queue
    <2>3. ASSUME NEW g \in Fss
          PROVE  destroyList[g] \cap snaps'[g] \subseteq destroyList[g] \cap snaps[g]
      <3>1. latest[g] \in Nat  BY SMTT(60) DEF TypeOK
      <3>2. CASE TakeSnapshot(f)
        <4>1. \A s \in destroyList[g] : s <= latest[g]  BY DEF Condemned
        <4>2. f = g => latest[g] + 1 \notin destroyList[g]  BY SMTT(60), <3>1, <4>1
        <4> QED  BY SMTT(60), <3>1, <3>2, <4>2 DEF TakeSnapshot, TypeOK
      <3>3. CASE Replicate(f) \/ Hold(f) \/ Release(f) \/ DestroyedByOthers(f)
        BY SMTT(60), <3>1, <3>3 DEF Replicate, Hold, Release, DestroyedByOthers, TypeOK
      <3> QED  BY <2>1, <3>2, <3>3
    <2>4. \A g \in completed : ~execErr[g] => destroyList[g] \cap snaps'[g] = {}
      BY SMTT(60), <2>3 DEF TypeOK
    <2> QED  BY SMTT(60), <2>2, <2>4 DEF Failed
  <1>2. CASE Prune  BY SMTT(60), <1>2 DEF Prune
  <1>3. CASE ListFilesystems
    BY SMTT(60), <1>3 DEF ListFilesystems, queue
  <1>4. CASE SkipFilesystem \/ ListFilesystemVersions \/ ReplicationCursor
    <2>1. /\ pc \in {"plan", "cursor"} /\ pc' \in {"plan", "cursor"}
          /\ UNCHANGED <<state, completed>>
      BY SMTT(60), <1>4 DEF SkipFilesystem, ListFilesystemVersions, ReplicationCursor, queue
    <2> QED  BY SMTT(60), <2>1
  <1>5. CASE StartExec  BY SMTT(60), <1>5 DEF StartExec
  <1>6. CASE Pop  BY SMTT(60), <1>6 DEF Pop, env, planning, TypeOK
  <1>7. CASE DestroyCallFails \/ DestroyReply
    <2>1. /\ Calling /\ cur \in Fss /\ pc' = "exec" /\ state = "Exec"
          /\ UNCHANGED <<snaps, state, destroyList, pending>>
          /\ completed' = completed \cup {cur}
      BY SMTT(60), <1>7 DEF DestroyCallFails, DestroyReply, Put, env, planning, TypeOK
    <2>2. \A g \in completed' : ~execErr'[g] => destroyList[g] \cap snaps[g] = {}
      <3>1. CASE DestroyCallFails
        <4>1. execErr' = [execErr EXCEPT ![cur] = TRUE]  BY SMTT(60), <3>1 DEF
            DestroyCallFails, Put
        <4> QED  BY SMTT(60), <2>1, <4>1 DEF TypeOK
      <3>2. CASE DestroyReply
        <4>1. /\ execErr' = [execErr EXCEPT ![cur] = (errs # {})]
              /\ destroyList[cur] \cap snaps[cur] \subseteq errs
          BY SMTT(60), <3>2 DEF DestroyReply, Put, Accounted, Request
        <4>2. ~execErr'[cur] => errs = {}  BY ZenonT(60), <2>1, <4>1 DEF TypeOK
        <4>3. \A g \in completed : g # cur => execErr'[g] = execErr[g]
          BY SMTT(60), <4>1 DEF TypeOK
        <4> QED  BY SMTT(60), <2>1, <4>1, <4>2, <4>3
      <3> QED  BY SMTT(60), <1>7, <3>1, <3>2
    <2> QED  BY SMTT(60), <2>1, <2>2
  <1>8. CASE FinishAttempt
    <2>1. UNCHANGED <<snaps, attempt, planErr, destroyList, completed, execErr>>
      BY SMTT(60), <1>8 DEF FinishAttempt, env, planning, queue
    <2>2. completed = Fss  BY SMTT(60), <1>8 DEF FinishAttempt
    <2> QED  BY SMTT(60), <1>8, <2>1, <2>2 DEF FinishAttempt, Failed
  <1>9. CASE DoDestroy
    <2>1. /\ pc = "rpc" /\ pc' \in {"batch", "seq", "reply"}
          /\ UNCHANGED <<snaps, state, cur, destroyList, pending, completed, execErr>>
      BY SMTT(60), <1>9 DEF DoDestroy, env, planning, queue
    <2> QED  BY SMTT(60), <2>1
  <1>10. CASE Handler
    <2>1. /\ pc' \in {"batch", "strip", "seq", "reply"}
          /\ UNCHANGED <<state, cur, destroyList, pending, completed, execErr>>
          /\ InHandler
      BY ZenonT(60), <1>10, HandlerDestroys DEF Handler, TryBatch, TryStrippedBatch,
         DestroyOne, planning, queue
    <2>2. \A g \in Fss : snaps'[g] \subseteq snaps[g]
      BY SMTT(60), <1>10, HandlerDestroys DEF TypeOK
    <2> QED  BY SMTT(60), <2>1, <2>2 DEF TypeOK
  <1>11. CASE DestroySeqDone
    BY ZenonT(60), <1>11 DEF DestroySeqDone, env, planning, queue
  <1>12. CASE UNCHANGED vars  BY <1>12 DEF vars, env, planning, queue, Failed
  <1> QED
    BY ZenonT(60), <1>1, <1>2, <1>3, <1>4, <1>5, <1>6, <1>7, <1>8, <1>9, <1>10, <1>11, <1>12
    DEF Next, PrunerNext

-----------------------------------------------------------------------------
(* The invariant holds: of doOneAttempt, the queue and the destroy handler *)
(* for every interleaving with the rest of the world.                      *)
THEOREM Correct == Spec => []IInv
  <1>1. IInv /\ [Next]_vars => IInv'
    BY TypeNext, CondemnedNext, AccountedNext, QueuedNext DEF IInv
  <1> QED  BY InitIInv, <1>1, PTL DEF Spec

(* Every variable of the pruner keeps its type.                            *)
THEOREM TypeCorrect == Spec => []TypeOK
  <1>1. IInv => TypeOK  BY SMTT(60) DEF IInv
  <1> QED  BY Correct, <1>1, PTL

(* State Done is reached only when no snapshot of any destroy list is left, *)
(* whatever failed on the way (doOneAttempt, doDestroyBatchedRec).          *)
THEOREM DoneIsTrue == Spec => []DoneMeansGone
  <1>1. IInv => DoneMeansGone
    <2> SUFFICES ASSUME IInv, state = "Done", attempt > 0, NEW f \in Fss, ~Skipped(f)
                 PROVE  ~planErr[f] /\ destroyList[f] \cap snaps[f] = {}
      BY DEF DoneMeansGone
    <2>1. f \in completed /\ ~Failed(f)  BY DEF IInv, Queued
    <2>2. ~planErr[f] /\ ~execErr[f]  BY <2>1 DEF Failed
    <2> QED  BY <2>1, <2>2 DEF IInv, Queued
  <1> QED  BY Correct, <1>1, PTL

(* With a not_replicated rule the pruner never destroys a snapshot after   *)
(* the replication cursor, although cursor, listing and destroy are        *)
(* separate calls (doOneAttempt, PruneSnapshots, doDestroy).               *)
THEOREM OnlyReplicatedDestroyed == Spec => DestroysOnlyReplicated
  <1> DEFINE Legal == \A f \in Fss : \A s \in snaps[f] \ snaps'[f] :
                 /\ ~Skipped(f)
                 /\ cursor[f] # 0
                 /\ HasNotReplicatedRule => s < cursor[f]
                        \/ (ConsiderSnapAtCursorReplicated /\ s = cursor[f])
  <1>1. ASSUME IInv, Handler PROVE Legal
    <2> SUFFICES ASSUME NEW f \in Fss, NEW s \in snaps[f] \ snaps'[f] PROVE Victim(f, s)
      BY DEF Victim
    <2>1. PICK T \in SUBSET work : snaps' = [snaps EXCEPT ![cur] = @ \ T]
      BY <1>1, HandlerDestroys DEF IInv
    <2>2. f = cur /\ s \in work  BY <1>1, <2>1 DEF IInv, TypeOK
    <2>3. InHandler  BY SMTT(60), <1>1, HandlerDestroys DEF IInv
    <2>4. s \in destroyList[f]  BY SMTT(60), <1>1, <2>2, <2>3 DEF IInv, Accounted, Request
    <2> QED  BY <1>1, <2>4 DEF IInv, Condemned
  <1>2. IInv => [Handler => Legal]_vars  BY <1>1
  <1> QED  BY Correct, <1>2, PTL DEF DestroysOnlyReplicated
=============================================================================
