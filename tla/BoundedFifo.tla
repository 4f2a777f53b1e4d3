----------------------------- MODULE BoundedFifo -----------------------------
(***************************************************************************)
(* What a queue of KScheduler promises to the threads that share it: a     *)
(* first-in first-out buffer of bounded length whose put and take are      *)
(* atomic.  KQueue (two counting semaphores, a mutex and a std::queue) is  *)
(* shown to implement this module.                                         *)
(***************************************************************************)
EXTENDS Naturals, Sequences

CONSTANTS Threads,    \* the threads that share the queues
          Queues,     \* the queues
          Items,      \* what can be queued (pointers in the code)
          Depth,      \* [Queues -> Nat], the capacity of each queue
          Initially,  \* [Queues -> Seq(Items)], the initial contents
          NULL        \* "no item"

VARIABLES contents,   \* [Queues -> Seq(Items)]
          got         \* [Threads -> Items \cup {NULL}], what a take returned

vars == <<contents, got>>

Init == /\ contents = Initially
        /\ got = [t \in Threads |-> NULL]

Put(q, v) == /\ Len(contents[q]) < Depth[q]
             /\ contents' = [contents EXCEPT ![q] = Append(@, v)]
             /\ UNCHANGED got

\* The item a take returns is the one it removes.
Take(t, q) == /\ contents[q] # <<>>
              /\ got[t] = NULL
              /\ got' = [got EXCEPT ![t] = Head(contents[q])]
              /\ contents' = [contents EXCEPT ![q] = Tail(@)]

\* The caller has picked up the item.
Return(t) == /\ got[t] # NULL
             /\ got' = [got EXCEPT ![t] = NULL]
             /\ UNCHANGED contents

Next == \/ \E q \in Queues, v \in Items : Put(q, v)
        \/ \E t \in Threads, q \in Queues : Take(t, q)
        \/ \E t \in Threads : Return(t)

Spec == Init /\ [][Next]_vars
=============================================================================
