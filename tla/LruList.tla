------------------------------ MODULE LruList ------------------------------
(***************************************************************************)
(* The intrusive doubly linked list of pool.rs (prev, next, lru_head,      *)
(* lru_tail), as push_front, push_back and unlink update it, and the       *)
(* sequence it stands for.  Callers push only blocks that are not in the   *)
(* list and unlink only blocks that are: FreeListConsistent, which         *)
(* BlockPoolProofs proves of the pool.  NoBlock is the constant NONE.      *)
(***************************************************************************)
EXTENDS BlockPool

VARIABLES prev, next, lru_head, lru_tail

vars == <<prev, next, lru_head, lru_tail>>

\* The blocks met when walking next from the head, as check_invariants does.
WalkFrom(head, nx) ==
    LET at[i \in 1 .. NumBlocks] ==
            IF i = 1 THEN head
            ELSE IF at[i - 1] = NoBlock THEN NoBlock ELSE nx[at[i - 1]]
    IN  Without(at, {NoBlock})

Walk == WalkFrom(lru_head, next)

\* BlockPool::new pushes n-1, ..., 0 to the front.
Init ==
    /\ prev = [b \in BlockId |-> IF b = 0 THEN NoBlock ELSE b - 1]
    /\ next = [b \in BlockId |-> IF b = NumBlocks - 1 THEN NoBlock ELSE b + 1]
    /\ lru_head = 0
    /\ lru_tail = NumBlocks - 1

PushFront(b) ==
    /\ ~InList(Walk, b)
    /\ prev' = IF lru_head # NoBlock
               THEN [prev EXCEPT ![b] = NoBlock, ![lru_head] = b]
               ELSE [prev EXCEPT ![b] = NoBlock]
    /\ next' = [next EXCEPT ![b] = lru_head]
    /\ lru_tail' = IF lru_head # NoBlock THEN lru_tail ELSE b
    /\ lru_head' = b

PushBack(b) ==
    /\ ~InList(Walk, b)
    /\ prev' = [prev EXCEPT ![b] = lru_tail]
    /\ next' = IF lru_tail # NoBlock
               THEN [next EXCEPT ![b] = NoBlock, ![lru_tail] = b]
               ELSE [next EXCEPT ![b] = NoBlock]
    /\ lru_head' = IF lru_tail # NoBlock THEN lru_head ELSE b
    /\ lru_tail' = b

\* Mutant of Unlink: removing the last block leaves it as the tail.
UnlinkKeepsTail(b) ==
    LET p == prev[b]
        n == next[b]
    IN  /\ InList(Walk, b)
        /\ next' = [x \in BlockId |-> IF x = b THEN NoBlock ELSE IF x = p THEN n ELSE next[x]]
        /\ prev' = [x \in BlockId |-> IF x = b THEN NoBlock ELSE IF x = n THEN p ELSE prev[x]]
        /\ lru_head' = IF p # NoBlock THEN lru_head ELSE n
        /\ lru_tail' = lru_tail

Unlink(b) ==
    LET p == prev[b]
        n == next[b]
    IN  /\ InList(Walk, b)
        /\ next' = [x \in BlockId |-> IF x = b THEN NoBlock ELSE IF x = p THEN n ELSE next[x]]
        /\ prev' = [x \in BlockId |-> IF x = b THEN NoBlock ELSE IF x = n THEN p ELSE prev[x]]
        /\ lru_head' = IF p # NoBlock THEN lru_head ELSE n
        /\ lru_tail' = IF n # NoBlock THEN lru_tail ELSE p

Next == \E b \in BlockId : PushFront(b) \/ PushBack(b) \/ Unlink(b)

Spec == Init /\ [][Next]_vars

----------------------------------------------------------------------------
(***************************************************************************)
(* Properties                                                              *)
(***************************************************************************)

List == INSTANCE FreeList WITH lru <- Walk

\* The linked list implements the sequence BlockPool works on: each pointer
\* update of pool.rs is exactly the push or removal it stands for.
ImplementsList == List!Spec
=============================================================================
