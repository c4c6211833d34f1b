------------------------------ MODULE FreeList ------------------------------
(***************************************************************************)
(* What the pool's free list promises: a sequence of blocks without        *)
(* repetitions, pushed at either end and removed from anywhere.            *)
(***************************************************************************)
EXTENDS BlockPool

VARIABLE lru

Init == lru = NewPool.lru

PushFront(b) == ~InList(lru, b) /\ lru' = push_front(lru, b)
PushBack(b) == ~InList(lru, b) /\ lru' = push_back(lru, b)
Unlink(b) == InList(lru, b) /\ lru' = unlink(lru, b)

Next == \E b \in BlockId : PushFront(b) \/ PushBack(b) \/ Unlink(b)

Spec == Init /\ [][Next]_lru
=============================================================================
