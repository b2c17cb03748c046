------------------------------ MODULE MpmcQueue ------------------------------
(***************************************************************************)
(* spdlog's lock-free bounded queue, details/mpmc_bounded_q.h: producers    *)
(* and consumers claim a position by compare-and-swap and hand the cell     *)
(* over through its sequence number.  One action per atomic access.  L      *)
(* refers to that file.                                                     *)
(***************************************************************************)
EXTENDS Integers, Sequences, FiniteSets

CONSTANTS Producers, Consumers, Items, max_size, MaxPos, NoThread, NoItem

Threads == Producers \cup Consumers

ASSUME MpmcAssumption ==
    /\ max_size \in Nat /\ max_size >= 2
    /\ MaxPos \in Nat
    /\ Producers \cap Consumers = {} /\ NoThread \notin Threads
    /\ NoItem \notin Items

buffer_mask == max_size - 1
Cells == 0 .. buffer_mask

VARIABLES sequence, data, enqueue_pos, dequeue_pos, pc, pos, item, log
vars == <<sequence, data, enqueue_pos, dequeue_pos, pc, pos, item, log>>
shared == <<sequence, data, enqueue_pos, dequeue_pos, log>>

(* pos & buffer_mask_, max_size being a power of two.                      *)
Cell(p) == p % max_size

(* log: the items in the order their producers claimed a position; it is   *)
(* not in the code.                                                        *)
Init ==
    /\ sequence = [c \in Cells |-> c]
    /\ data = [c \in Cells |-> NoItem]
    /\ enqueue_pos = 0
    /\ dequeue_pos = 0
    /\ pc = [t \in Threads |-> "idle"]
    /\ pos = [t \in Threads |-> 0]
    /\ item = [t \in Threads |-> NoItem]
    /\ log = <<>>

Goto(t, l) == pc' = [pc EXCEPT ![t] = l]

(* A call returns: its locals are gone, but for the item it returns.       *)
Return(t, result, v) ==
    /\ Goto(t, result)
    /\ pos' = [pos EXCEPT ![t] = 0]
    /\ item' = [item EXCEPT ![t] = v]

(* enqueue(v) starts: load enqueue_pos_.                                   *)
Enqueue(t, v) ==
    /\ pc[t] \in {"idle", "ok", "full"}
    /\ enqueue_pos < MaxPos
    /\ pos' = [pos EXCEPT ![t] = enqueue_pos]
    /\ item' = [item EXCEPT ![t] = v]
    /\ Goto(t, "enq_seq")
    /\ UNCHANGED shared

(* Mutant: the position after the cell's is taken as free.                 *)
EnqSeq_NoLap(t) ==
    /\ pc[t] = "enq_seq"
    /\ Goto(t, "enq_cas")
    /\ UNCHANGED <<shared, pos, item>>

(* Load the cell's sequence number and compare it with pos.                *)
EnqSeq(t) ==
    /\ pc[t] = "enq_seq"
    /\ LET dif == sequence[Cell(pos[t])] - pos[t] IN
       \/ dif = 0 /\ Goto(t, "enq_cas") /\ UNCHANGED <<pos, item>>
       \/ dif > 0 /\ Goto(t, "enq_reload") /\ UNCHANGED <<pos, item>>
       \/ dif < 0 /\ Return(t, "full", NoItem)
    /\ UNCHANGED shared

EnqReload(t) ==
    /\ pc[t] = "enq_reload"
    /\ pos' = [pos EXCEPT ![t] = enqueue_pos]
    /\ Goto(t, "enq_seq")
    /\ UNCHANGED <<shared, item>>

(* compare_exchange_weak: claim the position; or fail, also spuriously,    *)
(* and look again at the position it read.                                 *)
EnqCas(t) ==
    /\ pc[t] = "enq_cas"
    /\ \/ /\ enqueue_pos = pos[t]
          /\ enqueue_pos' = pos[t] + 1
          /\ log' = Append(log, item[t])
          /\ Goto(t, "enq_data")
          /\ UNCHANGED pos
       \/ /\ pos' = [pos EXCEPT ![t] = enqueue_pos]
          /\ Goto(t, "enq_seq")
          /\ UNCHANGED <<enqueue_pos, log>>
    /\ UNCHANGED <<sequence, data, dequeue_pos, item>>

EnqData(t) ==
    /\ pc[t] = "enq_data"
    /\ data' = [data EXCEPT ![Cell(pos[t])] = item[t]]
    /\ Goto(t, "enq_publish")
    /\ UNCHANGED <<sequence, enqueue_pos, dequeue_pos, pos, item, log>>

EnqPublish(t) ==
    /\ pc[t] = "enq_publish"
    /\ sequence' = [sequence EXCEPT ![Cell(pos[t])] = pos[t] + 1]
    /\ Return(t, "ok", NoItem)
    /\ UNCHANGED <<data, enqueue_pos, dequeue_pos, log>>

(* dequeue() starts: load dequeue_pos_.                                    *)
Dequeue(t) ==
    /\ pc[t] \in {"idle", "got", "empty"}
    /\ pos' = [pos EXCEPT ![t] = dequeue_pos]
    /\ item' = [item EXCEPT ![t] = NoItem]
    /\ Goto(t, "deq_seq")
    /\ UNCHANGED shared

DeqSeq(t) ==
    /\ pc[t] = "deq_seq"
    /\ LET dif == sequence[Cell(pos[t])] - (pos[t] + 1) IN
       \/ dif = 0 /\ Goto(t, "deq_cas") /\ UNCHANGED <<pos, item>>
       \/ dif > 0 /\ Goto(t, "deq_reload") /\ UNCHANGED <<pos, item>>
       \/ dif < 0 /\ Return(t, "empty", NoItem)
    /\ UNCHANGED shared

DeqReload(t) ==
    /\ pc[t] = "deq_reload"
    /\ pos' = [pos EXCEPT ![t] = dequeue_pos]
    /\ Goto(t, "deq_seq")
    /\ UNCHANGED <<shared, item>>

(* Mutant: a plain store instead of a compare-and-swap.                    *)
DeqCas_Store(t) ==
    /\ pc[t] = "deq_cas"
    /\ dequeue_pos' = pos[t] + 1
    /\ Goto(t, "deq_data")
    /\ UNCHANGED <<sequence, data, enqueue_pos, pos, item, log>>

DeqCas(t) ==
    /\ pc[t] = "deq_cas"
    /\ \/ /\ dequeue_pos = pos[t]
          /\ dequeue_pos' = pos[t] + 1
          /\ Goto(t, "deq_data")
          /\ UNCHANGED pos
       \/ /\ pos' = [pos EXCEPT ![t] = dequeue_pos]
          /\ Goto(t, "deq_seq")
          /\ UNCHANGED dequeue_pos
    /\ UNCHANGED <<sequence, data, enqueue_pos, item, log>>

DeqData(t) ==
    /\ pc[t] = "deq_data"
    /\ item' = [item EXCEPT ![t] = data[Cell(pos[t])]]
    /\ Goto(t, "deq_release")
    /\ UNCHANGED <<shared, pos>>

DeqRelease(t) ==
    /\ pc[t] = "deq_release"
    /\ sequence' = [sequence EXCEPT ![Cell(pos[t])] = pos[t] + buffer_mask + 1]
    /\ Return(t, "got", item[t])
    /\ UNCHANGED <<data, enqueue_pos, dequeue_pos, log>>

EnqStep(t) == EnqSeq(t) \/ EnqReload(t) \/ EnqCas(t) \/ EnqData(t) \/ EnqPublish(t)
DeqStep(t) == DeqSeq(t) \/ DeqReload(t) \/ DeqCas(t) \/ DeqData(t) \/ DeqRelease(t)

Next ==
    \/ \E t \in Producers : EnqStep(t) \/ \E v \in Items : Enqueue(t, v)
    \/ \E t \in Consumers : DeqStep(t) \/ Dequeue(t)

Spec == Init /\ [][Next]_vars
------------------------------------------------------------------------------
PCs == {"idle", "enq_seq", "enq_reload", "enq_cas", "enq_data", "enq_publish",
        "ok", "full", "deq_seq", "deq_reload", "deq_cas", "deq_data",
        "deq_release", "got", "empty"}

(* Every variable holds a value of its type.                               *)
TypeOK ==
    /\ sequence \in [Cells -> Nat]
    /\ data \in [Cells -> Items \cup {NoItem}]
    /\ enqueue_pos \in Nat
    /\ dequeue_pos \in Nat
    /\ pc \in [Threads -> PCs]
    /\ pos \in [Threads -> Nat]
    /\ item \in [Threads -> Items \cup {NoItem}]
    /\ log \in Seq(Items)

(* The threads that have claimed position p and are not done with it.      *)
Writers(p) == {t \in Producers : pc[t] \in {"enq_data", "enq_publish"} /\ pos[t] = p}
Readers(p) == {t \in Consumers : pc[t] \in {"deq_data", "deq_release"} /\ pos[t] = p}

(* The protocol of the cells: the last max_size positions claimed by       *)
(* producers each own a cell, whose sequence number says whether its item  *)
(* is being written, ready, being read, or gone.                           *)
Window ==
    /\ dequeue_pos <= enqueue_pos
    /\ enqueue_pos <= dequeue_pos + max_size
    /\ Len(log) = enqueue_pos
    /\ \A p \in dequeue_pos .. enqueue_pos - 1 :
          /\ Readers(p) = {}
          /\ \/ sequence[Cell(p)] = p /\ (\E t \in Threads : Writers(p) = {t})
             \/ /\ sequence[Cell(p)] = p + 1
                /\ Writers(p) = {}
                /\ data[Cell(p)] = log[p + 1]
    /\ \A p \in enqueue_pos - max_size .. dequeue_pos - 1 :
          /\ Writers(p) = {}
          /\ \/ /\ sequence[Cell(p)] = p + 1
                /\ \E t \in Threads : Readers(p) = {t}
                /\ data[Cell(p)] = log[p + 1]
             \/ sequence[Cell(p)] = p + max_size /\ Readers(p) = {}

(* No two threads are ever inside the same cell: an item is not            *)
(* overwritten before it has been read, nor read before it is complete     *)
(* (L83-134).                                                              *)
CellExclusive ==
    \A t, u \in Threads :
        /\ t # u
        /\ pc[t] \in {"enq_data", "enq_publish", "deq_data", "deq_release"}
        /\ pc[u] \in {"enq_data", "enq_publish", "deq_data", "deq_release"}
        => Cell(pos[t]) # Cell(pos[u])

(* The inductive invariant.  A position that has been claimed for writing  *)
(* or reading and is not finished with belongs to one thread, and the      *)
(* cell's sequence number says so; a thread about to compare-and-swap has  *)
(* seen the sequence number of a position that, unless it has been claimed *)
(* since, still has it.                                                    *)
EnqPCs == {"idle", "enq_seq", "enq_reload", "enq_cas", "enq_data", "enq_publish",
           "ok", "full"}
DeqPCs == {"idle", "deq_seq", "deq_reload", "deq_cas", "deq_data", "deq_release",
           "got", "empty"}
SeqAt(p) == sequence[Cell(p)]
Written ==
    \A p \in dequeue_pos .. enqueue_pos - 1 :
        \/ SeqAt(p) = p /\ Writers(p) # {}
        \/ SeqAt(p) = p + 1 /\ data[Cell(p)] = log[p + 1]
Taken ==
    \A p \in enqueue_pos - max_size .. dequeue_pos - 1 :
        \/ SeqAt(p) = p + 1 /\ Readers(p) # {} /\ data[Cell(p)] = log[p + 1]
        \/ SeqAt(p) = p + max_size
Producer(t) ==
    /\ pc[t] \in EnqPCs
    /\ pc[t] \in {"enq_seq", "enq_reload", "enq_cas", "enq_data", "enq_publish"} =>
           item[t] \in Items
    /\ pc[t] \in {"enq_seq", "enq_cas"} => pos[t] <= enqueue_pos
    /\ pc[t] = "enq_cas" /\ pos[t] = enqueue_pos => SeqAt(pos[t]) = pos[t]
    /\ t \in Writers(pos[t]) =>
           /\ pos[t] \in dequeue_pos .. enqueue_pos - 1
           /\ SeqAt(pos[t]) = pos[t]
           /\ item[t] = log[pos[t] + 1]
           /\ pc[t] = "enq_publish" => data[Cell(pos[t])] = item[t]
           /\ Writers(pos[t]) = {t}
Consumer(t) ==
    /\ pc[t] \in DeqPCs
    /\ pc[t] \in {"deq_seq", "deq_cas"} => pos[t] <= dequeue_pos
    /\ pc[t] = "deq_cas" /\ pos[t] = dequeue_pos => SeqAt(pos[t]) = pos[t] + 1
    /\ t \in Readers(pos[t]) =>
           /\ pos[t] \in enqueue_pos - max_size .. dequeue_pos - 1
           /\ SeqAt(pos[t]) = pos[t] + 1
           /\ pc[t] = "deq_release" => item[t] = log[pos[t] + 1]
           /\ Readers(pos[t]) = {t}
Past ==
    /\ \A p \in 0 .. enqueue_pos - 1 : SeqAt(p) >= p
    /\ \A p \in 0 .. dequeue_pos - 1 : SeqAt(p) > p
IInv ==
    /\ TypeOK
    /\ dequeue_pos <= enqueue_pos /\ enqueue_pos <= dequeue_pos + max_size
    /\ Len(log) = enqueue_pos
    /\ Written /\ Taken /\ Past
    /\ \A t \in Producers : Producer(t)
    /\ \A t \in Consumers : Consumer(t)

(* The sequence numbers of mpmc_bounded_q keep the inductive invariant: the *)
(* two positions stay within one lap of each other, and a cell between the *)
(* compare-and-swap and the release of a thread is that thread's only.     *)
CellProtocol == IInv /\ Window /\ CellExclusive

(* The queue implements the bounded FIFO queue: its items are those        *)
(* claimed by a producer and not yet by a consumer, each with the producer *)
(* still at it, and a consumer has its item from its compare-and-swap on.  *)
By(p) == IF Writers(p) = {} THEN NoThread ELSE CHOOSE t \in Writers(p) : TRUE
Waiting == [i \in 1 .. enqueue_pos - dequeue_pos |->
               [item |-> log[dequeue_pos + i], by |-> By(dequeue_pos + i - 1)]]
Reading == {t \in Consumers : pc[t] \in {"deq_data", "deq_release"}}
AnswerTo(t) ==
    CASE pc[t] \in {"ok", "full", "empty"} -> [code |-> pc[t], item |-> NoItem]
      [] pc[t] = "deq_data" -> [code |-> "ok", item |-> log[pos[t] + 1]]
      [] pc[t] \in {"deq_release", "got"} -> [code |-> "ok", item |-> item[t]]
      [] OTHER -> [code |-> "none", item |-> NoItem]
Answers == [t \in Threads |-> AnswerTo(t)]
F == INSTANCE BoundedFifo WITH
        Capacity <- max_size, q <- Waiting, reading <- Reading, ret <- Answers
ImplementsFifo == F!FifoSpec
==============================================================================
