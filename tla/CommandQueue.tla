---------------------------- MODULE CommandQueue ----------------------------
(***************************************************************************)
(* The operations of the radio's command queue, lib/Hoymiles/src/queue:    *)
(* a ThreadSafeQueue (a deque under a mutex) with four operations that     *)
(* work in the middle of the deque.  A queue is a sequence of commands,    *)
(* front first.  Every operation is one critical section of the mutex, so  *)
(* each is one operator here.                                              *)
(*                                                                         *)
(* "preserveFront" is the caller's belief that the front is on the air;    *)
(* HoymilesRadio passes _busyFlag.                                         *)
(***************************************************************************)
EXTENDS Naturals, FiniteSets, SequencesExt

(***************************************************************************)
(* std::remove_if + erase keep the elements at some positions K, in their  *)
(* order.  Nth(K, n) is the n-th smallest position of K.  (SelectSeq says  *)
(* the same; this form has no recursion and can be proved about.)          *)
(***************************************************************************)
Nth(K, n) == CHOOSE i \in K : Cardinality({j \in K : j <= i}) = n

KeepAt(q, K) == [n \in 1 .. Cardinality(K) |-> q[Nth(K, n)]]

(* Where an operation starts: behind the front when the front is preserved. *)
(* (Operators named ...Mutant state a plausible defect of the definition    *)
(* that follows them; the specification does not use them.)                 *)
FirstFreeMutant(q, preserveFront) == 1
FirstFree(q, preserveFront) == IF preserveFront /\ q # <<>> THEN 2 ELSE 1

(* removeDuplicatedEntries: drop the commands of the set similar. *)
RemoveDuplicatedEntries(q, similar, preserveFront) ==
    KeepAt(q, {i \in 1 .. Len(q) :
                  i < FirstFree(q, preserveFront) \/ q[i] \notin similar})

(* removeAllEntriesForInverter: drop the commands of the set mine. *)
RemoveAllEntries(q, mine) == KeepAt(q, {i \in 1 .. Len(q) : q[i] \notin mine})

(***************************************************************************)
(* pushPriority: insert before the first command that is not of the set    *)
(* high, looking from FirstFree on; at the end when all of them are.       *)
(***************************************************************************)
InsertPositionMutant(q, high, preserveFront) == Len(q) + 1
InsertPosition(q, high, preserveFront) ==
    CHOOSE i \in FirstFree(q, preserveFront) .. Len(q) + 1 :
        /\ \A j \in FirstFree(q, preserveFront) .. i - 1 : q[j] \in high
        /\ i = Len(q) + 1 \/ q[i] \notin high

PushPriority(q, c, high, preserveFront) ==
    InsertAt(q, InsertPosition(q, high, preserveFront), c)

(* pop: nothing happens to an empty queue. *)
Pop(q) == IF q = <<>> THEN <<>> ELSE Tail(q)

(* No command of high has two others in front of it. *)
FewBefore(q, high) ==
    \A k, m, n \in 1 .. Len(q) :
        k < m /\ m < n /\ q[n] \in high => q[k] \in high \/ q[m] \in high
=============================================================================
