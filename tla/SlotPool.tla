------------------------------ MODULE SlotPool ------------------------------
(***************************************************************************)
(* What the replication driver's step queue promises its callers: a pool   *)
(* of Slots permissions.  A caller asks for one, is granted one while one  *)
(* is free, and gives it back; never more than Slots callers hold one.     *)
(***************************************************************************)
EXTENDS Integers

CONSTANTS Users, Slots

VARIABLES slot,   \* per user: out (asks for nothing), asked, granted
          free    \* permissions that nobody holds

Init == slot = [u \in Users |-> "out"] /\ free = Slots

Ask(u) ==
    /\ slot[u] = "out"
    /\ slot' = [slot EXCEPT ![u] = "asked"]
    /\ UNCHANGED free

Grant(u) ==
    /\ slot[u] = "asked" /\ free > 0
    /\ slot' = [slot EXCEPT ![u] = "granted"]
    /\ free' = free - 1

GiveBack(u) ==
    /\ slot[u] = "granted"
    /\ slot' = [slot EXCEPT ![u] = "out"]
    /\ free' = free + 1

Next == \E u \in Users : Ask(u) \/ Grant(u) \/ GiveBack(u)

Spec == Init /\ [][Next]_<<slot, free>>
=============================================================================
