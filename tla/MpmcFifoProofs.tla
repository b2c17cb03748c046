---------------------------- MODULE MpmcFifoProofs ----------------------------
(***************************************************************************)
(* What the inductive invariant of MpmcQueue, proved in MpmcQueueProofs,    *)
(* gives: the protocol of the cells, and that the queue is a bounded FIFO   *)
(* queue.                                                                   *)
(***************************************************************************)
EXTENDS MpmcQueueProofs

(* What a thread inside a cell knows of its position.                      *)
LEMMA InsideOneLap ==
    ASSUME IInv, NEW t \in Threads,
           pc[t] \in {"enq_data", "enq_publish", "deq_data", "deq_release"}
    PROVE  /\ pos[t] \in enqueue_pos - max_size .. enqueue_pos - 1
           /\ \/ t \in Producers /\ Writers(pos[t]) = {t} /\ pos[t] >= dequeue_pos
              \/ t \in Consumers /\ Readers(pos[t]) = {t} /\ pos[t] < dequeue_pos
<1>0. /\ enqueue_pos \in Nat /\ dequeue_pos \in Nat /\ pos[t] \in Nat
      /\ max_size \in Nat /\ dequeue_pos <= enqueue_pos
      /\ enqueue_pos <= dequeue_pos + max_size
  BY MpmcAssumption DEF IInv, TypeOK
<1>1. CASE t \in Producers
  <2>1. Producer(t) /\ t \in Writers(pos[t])
    BY <1>1 DEF IInv, Producer, EnqPCs, Writers
  <2>2. pos[t] \in dequeue_pos .. enqueue_pos - 1 /\ Writers(pos[t]) = {t}
    BY <2>1 DEF Producer
  <2> QED
    BY <1>0, <1>1, <2>2
<1>2. CASE t \in Consumers
  <2>1. Consumer(t) /\ t \in Readers(pos[t])
    BY <1>2 DEF IInv, Consumer, DeqPCs, Readers
  <2>2. pos[t] \in enqueue_pos - max_size .. dequeue_pos - 1 /\ Readers(pos[t]) = {t}
    BY <2>1 DEF Consumer
  <2> QED
    BY <1>0, <1>2, <2>2
<1> QED
  BY <1>1, <1>2 DEF Threads

(* An item is neither overwritten before it has been read nor read before  *)
(* it is complete, and the positions stay within one lap of each other,    *)
(* for any number of threads and any size of at least two.                 *)
THEOREM CellsHandedOver == Spec => []CellProtocol
<1>1. IInv => CellExclusive
  <2> SUFFICES ASSUME IInv, NEW t \in Threads, NEW u \in Threads, t # u,
                      pc[t] \in {"enq_data", "enq_publish", "deq_data", "deq_release"},
                      pc[u] \in {"enq_data", "enq_publish", "deq_data", "deq_release"}
               PROVE  Cell(pos[t]) # Cell(pos[u])
    BY DEF CellExclusive
  <2>1. /\ pos[t] \in enqueue_pos - max_size .. enqueue_pos - 1
        /\ pos[u] \in enqueue_pos - max_size .. enqueue_pos - 1
        /\ enqueue_pos \in Nat /\ dequeue_pos \in Nat
        /\ pos[t] \in Nat /\ pos[u] \in Nat
    BY InsideOneLap DEF IInv, TypeOK
  <2>2. /\ \/ Writers(pos[t]) = {t} /\ pos[t] >= dequeue_pos
           \/ Readers(pos[t]) = {t} /\ pos[t] < dequeue_pos
        /\ \/ Writers(pos[u]) = {u} /\ pos[u] >= dequeue_pos
           \/ Readers(pos[u]) = {u} /\ pos[u] < dequeue_pos
    BY Zenon, InsideOneLap
  <2>3. pos[t] # pos[u]
    <3> SUFFICES ASSUME pos[t] = pos[u] PROVE FALSE
      OBVIOUS
    <3>1. /\ t \in Writers(pos[t]) => t \in Writers(pos[u])
          /\ t \in Readers(pos[t]) => t \in Readers(pos[u])
      BY DEF Writers, Readers
    <3> QED
      BY <2>1, <2>2, <3>1
  <2> QED
    BY <2>1, <2>3, OneLap
<1>2. IInv => Window
  <2> SUFFICES ASSUME IInv PROVE Window
    OBVIOUS
  <2>0. /\ enqueue_pos \in Nat /\ dequeue_pos \in Nat /\ pos \in [Threads -> Nat]
        /\ max_size \in Nat /\ max_size >= 2
    BY MpmcAssumption DEF IInv, TypeOK
  <2>1. ASSUME NEW p \in Int, NEW t \in Writers(p)
        PROVE  Writers(p) = {t} /\ p >= dequeue_pos /\ SeqAt(p) = p
    BY <2>0, <2>1 DEF IInv, Producer, Writers
  <2>2. ASSUME NEW p \in Int, NEW t \in Readers(p)
        PROVE  Readers(p) = {t} /\ p < dequeue_pos /\ SeqAt(p) = p + 1
    BY <2>0, <2>2 DEF IInv, Consumer, Readers
  <2>3. ASSUME NEW p \in dequeue_pos .. enqueue_pos - 1
        PROVE  /\ Readers(p) = {}
               /\ \/ sequence[Cell(p)] = p /\ (\E t \in Threads : Writers(p) = {t})
                  \/ /\ sequence[Cell(p)] = p + 1
                     /\ Writers(p) = {}
                     /\ data[Cell(p)] = log[p + 1]
    <3>1. Readers(p) = {}
      BY <2>0, <2>2
    <3>2. CASE SeqAt(p) = p /\ Writers(p) # {}
      <4>1. PICK t \in Writers(p) : Writers(p) = {t}
        BY <2>0, <2>1, <3>2
      <4>2. t \in Threads
        BY <4>1 DEF Writers, Threads
      <4> QED
        BY <3>1, <3>2, <4>1, <4>2 DEF SeqAt
    <3>3. CASE SeqAt(p) = p + 1 /\ data[Cell(p)] = log[p + 1]
      <4>1. Writers(p) = {}
        BY <2>0, <2>1, <3>3
      <4> QED
        BY <3>1, <3>3, <4>1 DEF SeqAt
    <3> QED
      BY <3>2, <3>3 DEF IInv, Written
  <2>4. ASSUME NEW p \in enqueue_pos - max_size .. dequeue_pos - 1
        PROVE  /\ Writers(p) = {}
               /\ \/ /\ sequence[Cell(p)] = p + 1
                     /\ \E t \in Threads : Readers(p) = {t}
                     /\ data[Cell(p)] = log[p + 1]
                  \/ sequence[Cell(p)] = p + max_size /\ Readers(p) = {}
    <3>1. Writers(p) = {}
      BY <2>0, <2>1
    <3>2. CASE SeqAt(p) = p + 1 /\ Readers(p) # {} /\ data[Cell(p)] = log[p + 1]
      <4>1. PICK t \in Readers(p) : Readers(p) = {t}
        BY <2>0, <2>2, <3>2
      <4>2. t \in Threads
        BY <4>1 DEF Readers, Threads
      <4> QED
        BY <3>1, <3>2, <4>1, <4>2 DEF SeqAt
    <3>3. CASE SeqAt(p) = p + max_size
      <4>1. Readers(p) = {}
        BY <2>0, <2>2, <3>3
      <4> QED
        BY <3>1, <3>3, <4>1 DEF SeqAt
    <3> QED
      BY <3>2, <3>3 DEF IInv, Taken
  <2> QED
    BY <2>3, <2>4 DEF IInv, Window
<1>3. IInv => CellProtocol
  BY <1>1, <1>2 DEF CellProtocol
<1> QED
  BY <1>3, Inductive, PTL

(* No two producers are at one position.                                   *)
LEMMA OneWriter ==
    ASSUME IInv, NEW p, NEW t \in Writers(p)
    PROVE  Writers(p) = {t}
  BY DEF IInv, Producer, Writers

LEMMA ByWriter ==
    ASSUME NEW p, NEW t, Writers(p) = {t}
    PROVE  By(p) = t
  BY DEF By

LEMMA ByNobody ==
    ASSUME NEW p, Writers(p) = {}
    PROVE  By(p) = NoThread
  BY DEF By

(* The items waiting are a sequence.                                       *)
LEMMA WaitingSeq ==
    ASSUME IInv
    PROVE  /\ enqueue_pos \in Nat /\ dequeue_pos \in Nat /\ enqueue_pos - dequeue_pos \in Nat
           /\ Waiting \in Seq(F!Slot)
           /\ Len(Waiting) = enqueue_pos - dequeue_pos
           /\ \A i \in 1 .. enqueue_pos - dequeue_pos :
                 Waiting[i] = [item |-> log[dequeue_pos + i], by |-> By(dequeue_pos + i - 1)]
<1> PICK n \in Nat : n = enqueue_pos - dequeue_pos
  BY DEF IInv, TypeOK
<1>1. /\ enqueue_pos \in Nat /\ dequeue_pos \in Nat /\ log \in Seq(Items)
      /\ Len(log) = enqueue_pos
  BY DEF IInv, TypeOK
<1>2. ASSUME NEW i \in 1 .. n PROVE log[dequeue_pos + i] \in Items
  <2>1. dequeue_pos + i \in 1 .. Len(log)
    BY <1>1
  <2> QED
    BY <1>1, <2>1
<1>3. ASSUME NEW p PROVE By(p) \in Threads \cup {NoThread}
  <2>1. CASE Writers(p) = {}
    BY <2>1, ByNobody
  <2>2. CASE Writers(p) # {}
    <3>1. By(p) \in Writers(p)
      BY <2>2 DEF By
    <3> QED
      BY <3>1 DEF Writers, Threads
  <2> QED
    BY <2>1, <2>2
<1>4. Waiting \in [1 .. n -> F!Slot]
  BY <1>2, <1>3 DEF Waiting, F!Slot
<1>5. Waiting \in Seq(F!Slot) /\ Len(Waiting) = n
  BY <1>4
<1> QED
  BY Zenon, <1>1, <1>5 DEF Waiting

(* Two descriptions of a queue with the same items are the same queue.     *)
LEMMA SameWaiting ==
    ASSUME IInv, UNCHANGED <<enqueue_pos, dequeue_pos, log>>,
           \A p : Writers(p)' = Writers(p)
    PROVE  Waiting' = Waiting
<1>1. ASSUME NEW p PROVE By(p)' = By(p)
  <2>1. CASE Writers(p) = {}
    BY <2>1 DEF By
  <2>2. CASE Writers(p) # {}
    <3>1. PICK t : Writers(p) = {t}
      BY <2>2, OneWriter
    <3>2. Writers(p)' = {t}
      BY <3>1
    <3> QED
      BY <3>1, <3>2 DEF By
  <2> QED
    BY <2>1, <2>2
<1> QED
  BY <1>1 DEF Waiting

(* The step of a thread changes no answer but its own.                     *)
LEMMA OneAnswer ==
    ASSUME NEW t \in Threads,
           \A u \in Threads \ {t} : pc'[u] = pc[u] /\ pos'[u] = pos[u] /\ item'[u] = item[u],
           \A u \in Threads \ {t} : pc[u] = "deq_data" => log'[pos[u] + 1] = log[pos[u] + 1]
    PROVE  Answers' = [Answers EXCEPT ![t] = AnswerTo(t)']
<1>1. ASSUME NEW u \in Threads \ {t} PROVE AnswerTo(u)' = AnswerTo(u)
  BY <1>1 DEF AnswerTo
<1> QED
  BY Zenon, <1>1 DEF Answers

(* A step of a thread that neither claims nor gives up a position is seen  *)
(* from outside only as its answer.                                        *)
LEMMA LocalStep ==
    ASSUME IInv, NEW t \in Threads, NEW l, UNCHANGED shared,
           pc' = [pc EXCEPT ![t] = l],
           \A u \in Threads \ {t} : pos'[u] = pos[u] /\ item'[u] = item[u],
           pc[t] \notin {"enq_data", "enq_publish", "deq_data", "deq_release"},
           l \notin {"enq_data", "enq_publish", "deq_data", "deq_release"}
    PROVE  /\ Waiting' = Waiting /\ Reading' = Reading
           /\ Answers' = [Answers EXCEPT ![t] = AnswerTo(t)']
<1>1. pc \in [Threads -> PCs]
  BY DEF IInv, TypeOK
<1>2. pc'[t] = l /\ \A u \in Threads \ {t} : pc'[u] = pc[u]
  BY <1>1
<1>3. \A p : Writers(p)' = Writers(p)
  BY <1>2 DEF Writers, Threads
<1>4. Reading' = Reading
  BY <1>2 DEF Reading, Threads
<1>5. Waiting' = Waiting
  BY <1>3, SameWaiting DEF shared
<1>6. \A u \in Threads \ {t} : pc[u] = "deq_data" => log'[pos[u] + 1] = log[pos[u] + 1]
  BY DEF shared
<1> QED
  BY <1>2, <1>4, <1>5, <1>6, OneAnswer

(* A step inside a call that ends with no answer is not seen at all.       *)
LEMMA SilentStep ==
    ASSUME Waiting' = Waiting, Reading' = Reading, NEW t \in Threads,
           Answers' = [Answers EXCEPT ![t] = AnswerTo(t)'], AnswerTo(t)' = AnswerTo(t)
    PROVE  UNCHANGED F!qvars
<1>1. Answers' = Answers
  BY Zenon DEF Answers
<1> QED
  BY <1>1 DEF F!qvars

(* Searching for a position, a producer has no answer.                     *)
LEMMA NoAnswerYet ==
    ASSUME NEW t \in Threads, pc \in [Threads -> PCs], NEW l, pc' = [pc EXCEPT ![t] = l],
           l \in {"enq_seq", "enq_reload", "enq_cas", "enq_data", "enq_publish",
                  "deq_seq", "deq_reload", "deq_cas"}
    PROVE  AnswerTo(t)' = F!Answer("none")
<1>1. pc'[t] = l
  OBVIOUS
<1> QED
  BY <1>1 DEF AnswerTo, F!Answer

LEMMA NoAnswerNow ==
    ASSUME NEW t \in Threads,
           pc[t] \in {"enq_seq", "enq_reload", "enq_cas", "enq_data", "enq_publish",
                      "deq_seq", "deq_reload", "deq_cas"}
    PROVE  AnswerTo(t) = F!Answer("none")
  BY DEF AnswerTo, F!Answer

(* The calls begin.                                                        *)
LEMMA EnqueueRefines ==
    ASSUME IInv, NEW t \in Producers, NEW v \in Items, Enqueue(t, v)
    PROVE  F!Call(t)
<1>1. /\ t \in Threads /\ pc \in [Threads -> PCs] /\ pc' = [pc EXCEPT ![t] = "enq_seq"]
      /\ UNCHANGED shared /\ pc[t] \in {"idle", "ok", "full"}
  BY DEF IInv, TypeOK, Threads, Enqueue, Goto
<1>2. \A u \in Threads \ {t} : pos'[u] = pos[u] /\ item'[u] = item[u]
  BY DEF IInv, TypeOK, Enqueue
<1>3. /\ Waiting' = Waiting /\ Reading' = Reading
      /\ Answers' = [Answers EXCEPT ![t] = AnswerTo(t)']
  BY Zenon, <1>1, <1>2, LocalStep
<1>4. AnswerTo(t)' = F!Answer("none")
  BY Zenon, <1>1, NoAnswerYet
<1> QED
  BY <1>3, <1>4 DEF F!Call

LEMMA DequeueRefines ==
    ASSUME IInv, NEW t \in Consumers, Dequeue(t)
    PROVE  F!Call(t)
<1>1. /\ t \in Threads /\ pc \in [Threads -> PCs] /\ pc' = [pc EXCEPT ![t] = "deq_seq"]
      /\ UNCHANGED shared /\ pc[t] \in {"idle", "got", "empty"}
  BY DEF IInv, TypeOK, Threads, Dequeue, Goto
<1>2. \A u \in Threads \ {t} : pos'[u] = pos[u] /\ item'[u] = item[u]
  BY DEF IInv, TypeOK, Dequeue
<1>3. /\ Waiting' = Waiting /\ Reading' = Reading
      /\ Answers' = [Answers EXCEPT ![t] = AnswerTo(t)']
  BY Zenon, <1>1, <1>2, LocalStep
<1>4. AnswerTo(t)' = F!Answer("none")
  BY Zenon, <1>1, NoAnswerYet
<1> QED
  BY <1>3, <1>4 DEF F!Call

(* A thread looks again, or goes on to its compare-and-swap.               *)
LEMMA SearchRefines ==
    ASSUME IInv, NEW t \in Threads, NEW l, UNCHANGED shared,
           pc' = [pc EXCEPT ![t] = l],
           pc[t] \in {"enq_seq", "enq_reload", "enq_cas", "deq_seq", "deq_reload", "deq_cas"},
           l \in {"enq_seq", "enq_reload", "enq_cas", "deq_seq", "deq_reload", "deq_cas"},
           \A u \in Threads \ {t} : pos'[u] = pos[u], UNCHANGED item
    PROVE  UNCHANGED F!qvars
<1>1. /\ Waiting' = Waiting /\ Reading' = Reading
      /\ Answers' = [Answers EXCEPT ![t] = AnswerTo(t)']
  BY Zenon, LocalStep
<1>2. AnswerTo(t)' = F!Answer("none") /\ AnswerTo(t) = F!Answer("none")
  BY Zenon, NoAnswerYet, NoAnswerNow DEF IInv, TypeOK
<1> QED
  BY Zenon, <1>1, <1>2, SilentStep

(* enqueue() gives up only if the queue is full or a consumer has not      *)
(* released the place it needs: a position that has been overtaken since   *)
(* it was loaded never looks occupied.                                     *)
LEMMA EnqSeqRefines ==
    ASSUME IInv, NEW t \in Producers, EnqSeq(t)
    PROVE  UNCHANGED F!qvars \/ F!PutFails(t)
<1>0. /\ t \in Threads /\ pc \in [Threads -> PCs] /\ pos \in [Threads -> Nat]
      /\ item \in [Threads -> Items \cup {NoItem}] /\ pos[t] \in Nat
      /\ enqueue_pos \in Nat /\ dequeue_pos \in Nat /\ max_size \in Nat /\ max_size >= 2
      /\ pc[t] = "enq_seq" /\ UNCHANGED shared /\ pos[t] <= enqueue_pos
  BY MpmcAssumption DEF IInv, TypeOK, Threads, EnqSeq, Producer
<1>s. SeqAt(pos[t]) \in Nat
  BY <1>0, SequenceNat DEF IInv
<1>1. CASE /\ UNCHANGED <<pos, item>>
           /\ Goto(t, "enq_cas") \/ Goto(t, "enq_reload")
  BY <1>0, <1>1, SearchRefines DEF Goto
<1>2. CASE Return(t, "full", NoItem) /\ SeqAt(pos[t]) - pos[t] < 0
  <2>1. /\ pc' = [pc EXCEPT ![t] = "full"]
        /\ \A u \in Threads \ {t} : pos'[u] = pos[u] /\ item'[u] = item[u]
    BY <1>0, <1>2 DEF Return, Goto
  <2>2. /\ Waiting' = Waiting /\ Reading' = Reading
        /\ Answers' = [Answers EXCEPT ![t] = AnswerTo(t)']
    BY Zenon, <1>0, <2>1, LocalStep
  <2>3. AnswerTo(t)' = F!Answer("full")
    <3>1. pc'[t] = "full"
      BY <1>0, <2>1
    <3> QED
      BY <3>1 DEF AnswerTo, F!Answer
  <2>4. SeqAt(pos[t]) < pos[t]
    BY <1>0, <1>s, <1>2
  <2>5. pos[t] = enqueue_pos
    <3> SUFFICES ASSUME pos[t] # enqueue_pos PROVE FALSE
      OBVIOUS
    <3>1. pos[t] \in 0 .. enqueue_pos - 1
      BY <1>0
    <3>2. SeqAt(pos[t]) >= pos[t]
      BY <3>1 DEF IInv, Past
    <3> QED
      BY <1>0, <1>s, <2>4, <3>2
  <2>6. Len(Waiting) = max_size \/ Reading # {}
    <3> SUFFICES ASSUME enqueue_pos - dequeue_pos # max_size PROVE Reading # {}
      BY WaitingSeq
    <3>1. enqueue_pos - max_size \in enqueue_pos - max_size .. dequeue_pos - 1
      BY <1>0 DEF IInv
    <3>2. SeqAt(enqueue_pos - max_size) = SeqAt(enqueue_pos)
      BY <1>0, Positions DEF SeqAt
    <3>3. SeqAt(enqueue_pos) < enqueue_pos
      BY <2>4, <2>5
    <3>4. (enqueue_pos - max_size) + max_size = enqueue_pos
      BY <1>0
    <3>5. Readers(enqueue_pos - max_size) # {}
      BY <1>0, <3>1, <3>2, <3>3, <3>4 DEF IInv, Taken
    <3> QED
      BY <3>5 DEF Readers, Reading
  <2> QED
    BY <2>2, <2>3, <2>6 DEF F!PutFails
<1> QED
  BY <1>1, <1>2 DEF EnqSeq, SeqAt

(* dequeue() gives up only if the queue is empty or its oldest item is     *)
(* still being written.                                                    *)
LEMMA DeqSeqRefines ==
    ASSUME IInv, NEW t \in Consumers, DeqSeq(t)
    PROVE  UNCHANGED F!qvars \/ F!TakeFails(t)
<1>0. /\ t \in Threads /\ pc \in [Threads -> PCs] /\ pos \in [Threads -> Nat]
      /\ item \in [Threads -> Items \cup {NoItem}] /\ pos[t] \in Nat
      /\ enqueue_pos \in Nat /\ dequeue_pos \in Nat
      /\ pc[t] = "deq_seq" /\ UNCHANGED shared /\ pos[t] <= dequeue_pos
  BY DEF IInv, TypeOK, Threads, DeqSeq, Consumer
<1>s. SeqAt(pos[t]) \in Nat
  BY <1>0, SequenceNat DEF IInv
<1>1. CASE /\ UNCHANGED <<pos, item>>
           /\ Goto(t, "deq_cas") \/ Goto(t, "deq_reload")
  BY <1>0, <1>1, SearchRefines DEF Goto
<1>2. CASE Return(t, "empty", NoItem) /\ SeqAt(pos[t]) - (pos[t] + 1) < 0
  <2>1. /\ pc' = [pc EXCEPT ![t] = "empty"]
        /\ \A u \in Threads \ {t} : pos'[u] = pos[u] /\ item'[u] = item[u]
    BY <1>0, <1>2 DEF Return, Goto
  <2>2. /\ Waiting' = Waiting /\ Reading' = Reading
        /\ Answers' = [Answers EXCEPT ![t] = AnswerTo(t)']
    BY Zenon, <1>0, <2>1, LocalStep
  <2>3. AnswerTo(t)' = F!Answer("empty")
    <3>1. pc'[t] = "empty"
      BY <1>0, <2>1
    <3> QED
      BY <3>1 DEF AnswerTo, F!Answer
  <2>4. SeqAt(pos[t]) <= pos[t]
    <3>1. SeqAt(pos[t]) - (pos[t] + 1) < 0 /\ pos[t] \in Nat
      BY Zenon, <1>0, <1>2
    <3> QED
      BY ONLY <1>s, <3>1
  <2>5. pos[t] = dequeue_pos
    <3> SUFFICES ASSUME pos[t] # dequeue_pos PROVE FALSE
      OBVIOUS
    <3>1. pos[t] \in 0 .. dequeue_pos - 1
      BY <1>0
    <3>2. SeqAt(pos[t]) > pos[t]
      BY <3>1 DEF IInv, Past
    <3> QED
      BY <1>0, <1>s, <2>4, <3>2
  <2>6. ASSUME Waiting # <<>> PROVE Head(Waiting).by # NoThread
    <3>1. Len(Waiting) > 0
      BY <2>6, WaitingSeq
    <3>2. dequeue_pos \in dequeue_pos .. enqueue_pos - 1
      BY <3>1, WaitingSeq
    <3>3. SeqAt(dequeue_pos) <= dequeue_pos /\ SeqAt(dequeue_pos) \in Nat
      BY <1>0, <1>s, <2>4, <2>5
    <3>4. Writers(dequeue_pos) # {}
      BY <1>0, <3>2, <3>3 DEF IInv, Written
    <3>5. By(dequeue_pos) \in Writers(dequeue_pos)
      BY <3>4 DEF By
    <3>6. By(dequeue_pos) # NoThread
      BY <3>5, MpmcAssumption DEF Writers, Threads
    <3>7. 1 \in 1 .. enqueue_pos - dequeue_pos /\ dequeue_pos + 1 - 1 = dequeue_pos
      BY <1>0, <3>2
    <3>8. Head(Waiting) = Waiting[1]
      BY <2>6, WaitingSeq
    <3> QED
      BY <3>6, <3>7, <3>8, WaitingSeq
  <2> QED
    BY <2>2, <2>3, <2>6 DEF F!TakeFails
<1> QED
  BY <1>1, <1>2 DEF DeqSeq, SeqAt

(* A sequence is what its length and its elements say.                     *)
LEMMA SeqIsFunction ==
    ASSUME NEW S, NEW s \in Seq(S), NEW n \in Nat, Len(s) = n,
           NEW f, f = [i \in 1 .. n |-> f[i]], \A i \in 1 .. n : f[i] = s[i]
    PROVE  f = s
<1>1. s \in [1 .. n -> S]
  OBVIOUS
<1>2. s = [i \in 1 .. n |-> s[i]]
  BY <1>1
<1> QED
  BY <1>2

(* The compare-and-swap of a producer is where its item enters the queue.  *)
LEMMA EnqCasRefines ==
    ASSUME IInv, IInv', NEW t \in Producers, EnqCas(t)
    PROVE  UNCHANGED F!qvars \/ F!Put(t, item[t])
<1>0. /\ t \in Threads /\ pc \in [Threads -> PCs] /\ pos \in [Threads -> Nat]
      /\ t \notin Consumers /\ item[t] \in Items
      /\ enqueue_pos \in Nat /\ dequeue_pos \in Nat /\ max_size \in Nat
      /\ pc[t] = "enq_cas" /\ UNCHANGED <<sequence, data, dequeue_pos, item>>
  BY Zenon, MpmcAssumption DEF IInv, TypeOK, Threads, EnqCas, Producer
<1>1. CASE /\ pos' = [pos EXCEPT ![t] = enqueue_pos] /\ Goto(t, "enq_seq")
           /\ UNCHANGED <<enqueue_pos, log>>
  <2>1. \A u \in Threads \ {t} : pos'[u] = pos[u]
    BY <1>0, <1>1
  <2> QED
    BY Zenon, <1>0, <1>1, <2>1, SearchRefines DEF Goto, shared
<1>2. CASE /\ enqueue_pos = pos[t] /\ enqueue_pos' = pos[t] + 1
           /\ log' = Append(log, item[t])
           /\ Goto(t, "enq_data") /\ UNCHANGED pos
  <2> PICK n \in Nat : n = enqueue_pos - dequeue_pos
    BY WaitingSeq
  <2> PICK e \in Nat : e = enqueue_pos
    BY <1>0
  <2> PICK d \in Nat : d = dequeue_pos
    BY <1>0
  <2> PICK v \in Items : v = item[t]
    BY <1>0
  <2>1. /\ pc' = [pc EXCEPT ![t] = "enq_data"] /\ UNCHANGED pos
        /\ enqueue_pos' = e + 1 /\ dequeue_pos' = d /\ pos[t] = e /\ log' = Append(log, v)
        /\ n = e - d
    BY <1>0, <1>2 DEF Goto
  <2>2. /\ \A i \in 1 .. e : log'[i] = log[i]
        /\ log'[e + 1] = v
    BY <2>1 DEF IInv, TypeOK
  <2>3. pc'[t] = "enq_data" /\ \A u \in Threads \ {t} : pc'[u] = pc[u]
    BY <1>0, <2>1
  <2>4. Reading' = Reading
    BY <1>0, <2>3 DEF Reading, Threads
  <2>5. Answers' = Answers
    <3>1. ASSUME NEW u \in Threads \ {t}, pc[u] = "deq_data"
          PROVE  log'[pos[u] + 1] = log[pos[u] + 1]
      <4>1. u \in Consumers /\ u \in Readers(pos[u])
        BY Zenon, <3>1 DEF IInv, Producer, EnqPCs, Threads, Readers
      <4>2. pos[u] \in Nat /\ pos[u] < dequeue_pos /\ dequeue_pos <= e
        <5>1. pos[u] \in Nat
          BY <1>0
        <5>2. Consumer(u) /\ dequeue_pos <= enqueue_pos
          BY <4>1 DEF IInv
        <5>3. pos[u] \in enqueue_pos - max_size .. dequeue_pos - 1
          BY <4>1, <5>2 DEF Consumer
        <5> QED
          BY <1>0, <5>1, <5>2, <5>3
      <4> QED
        BY <1>0, <2>2, <4>2
    <3>2. Answers' = [Answers EXCEPT ![t] = AnswerTo(t)']
      BY Zenon, <1>0, <2>1, <2>3, <3>1, OneAnswer
    <3>3. AnswerTo(t)' = F!Answer("none") /\ AnswerTo(t) = F!Answer("none")
      BY Zenon, <1>0, <2>1, NoAnswerYet, NoAnswerNow
    <3> QED
      BY Zenon, <3>2, <3>3 DEF Answers
  <2>6. Len(Waiting) < max_size
    <3>1. e + 1 <= d + max_size
      BY Zenon, <2>1 DEF IInv
    <3> QED
      BY <1>0, <2>1, <3>1, WaitingSeq
  <2>7. By(e)' = t
    <3>1. t \in Writers(e)'
      BY <2>1, <2>3 DEF Writers
    <3>2. Writers(e)' = {t}
      BY Zenon, <2>1, <3>1 DEF IInv, Producer, Writers
    <3> QED
      BY <3>2 DEF By
  <2>8. ASSUME NEW p \in Nat, p < e PROVE By(p)' = By(p)
    <3>1. Writers(p)' = Writers(p)
      BY <1>0, <2>1, <2>3, <2>8 DEF Writers, Threads
    <3>2. CASE Writers(p) = {}
      BY <3>1, <3>2 DEF By
    <3>3. CASE Writers(p) # {}
      <4>1. PICK u : Writers(p) = {u}
        BY Zenon, <3>3, OneWriter
      <4>2. Writers(p)' = {u}
        BY <3>1, <4>1
      <4> QED
        BY <4>1, <4>2 DEF By
    <3> QED
      BY <3>2, <3>3
  <2> DEFINE x == [item |-> v, by |-> t]
  <2>9. x \in F!Slot
    BY <1>0 DEF F!Slot
  <2>10. Waiting' = [i \in 1 .. n + 1 |-> [item |-> log'[d + i], by |-> By(d + i - 1)']]
    <3>1. enqueue_pos' - dequeue_pos' = n + 1
      BY <2>1
    <3> QED
      BY Zenon, <2>1, <3>1 DEF Waiting
  <2>11. /\ Append(Waiting, x) \in Seq(F!Slot) /\ Len(Append(Waiting, x)) = n + 1
         /\ \A i \in 1 .. n : Append(Waiting, x)[i] = Waiting[i]
         /\ Append(Waiting, x)[n + 1] = x
    BY <2>9, WaitingSeq
  <2>12. ASSUME NEW i \in 1 .. n + 1 PROVE Waiting'[i] = Append(Waiting, x)[i]
    <3>1. CASE i = n + 1
      <4>1. d + i = e + 1 /\ d + i - 1 = e
        BY <2>1, <3>1
      <4> QED
        BY <2>2, <2>7, <2>10, <2>11, <3>1, <4>1
    <3>2. CASE i # n + 1
      <4>1. i \in 1 .. n /\ d + i \in 1 .. e /\ d + i - 1 \in Nat /\ d + i - 1 < e
        BY <2>1, <3>2
      <4>2. Waiting[i] = [item |-> log[d + i], by |-> By(d + i - 1)]
        BY Zenon, <4>1, WaitingSeq
      <4> QED
        BY Zenon, <2>2, <2>8, <2>10, <2>11, <4>1, <4>2
    <3> QED
      BY Zenon, <3>1, <3>2
  <2>13. Waiting' = Append(Waiting, x)
    <3>1. Waiting' = [i \in 1 .. n + 1 |-> Waiting'[i]]
      BY <2>10
    <3> QED
      BY <2>11, <2>12, <3>1, SeqIsFunction
  <2> QED
    BY <2>4, <2>5, <2>6, <2>13 DEF F!Put
<1> QED
  BY <1>1, <1>2 DEF EnqCas

(* The compare-and-swap of a consumer is where the oldest item leaves it.  *)
LEMMA DeqCasRefines ==
    ASSUME IInv, IInv', NEW t \in Consumers, DeqCas(t)
    PROVE  UNCHANGED F!qvars \/ F!Take(t)
<1>0. /\ t \in Threads /\ pc \in [Threads -> PCs] /\ pos \in [Threads -> Nat]
      /\ t \notin Producers
      /\ enqueue_pos \in Nat /\ dequeue_pos \in Nat
      /\ pc[t] = "deq_cas" /\ UNCHANGED <<sequence, data, enqueue_pos, item, log>>
  BY MpmcAssumption DEF IInv, TypeOK, Threads, DeqCas
<1>1. CASE /\ pos' = [pos EXCEPT ![t] = dequeue_pos] /\ Goto(t, "deq_seq")
           /\ UNCHANGED dequeue_pos
  <2>1. \A u \in Threads \ {t} : pos'[u] = pos[u]
    BY Zenon, <1>0, <1>1
  <2> QED
    BY Zenon, <1>0, <1>1, <2>1, SearchRefines DEF Goto, shared
<1>2. CASE /\ dequeue_pos = pos[t] /\ dequeue_pos' = pos[t] + 1
           /\ Goto(t, "deq_data") /\ UNCHANGED pos
  <2> PICK n \in Nat : n = enqueue_pos - dequeue_pos
    BY WaitingSeq
  <2> PICK e \in Nat : e = enqueue_pos
    BY <1>0
  <2> PICK d \in Nat : d = dequeue_pos
    BY <1>0
  <2>1. /\ pc' = [pc EXCEPT ![t] = "deq_data"] /\ UNCHANGED <<pos, log>>
        /\ enqueue_pos' = e /\ dequeue_pos' = d + 1 /\ pos[t] = d /\ n = e - d
    BY <1>0, <1>2 DEF Goto
  <2>2. n >= 1
    <3>1. d + 1 <= e
      BY <2>1 DEF IInv
    <3> QED
      BY <2>1, <3>1
  <2>3. pc'[t] = "deq_data" /\ \A u \in Threads \ {t} : pc'[u] = pc[u]
    BY <1>0, <2>1
  <2>4. Reading' = Reading \cup {t}
    BY <1>0, <2>3 DEF Reading, Threads
  <2>5. \A p : Writers(p)' = Writers(p)
    BY <1>0, <2>1, <2>3 DEF Writers, Threads
  <2>6. Waiting # <<>> /\ Head(Waiting) = Waiting[1]
    BY <2>2, WaitingSeq
  <2>7. Waiting[1] = [item |-> log[d + 1], by |-> By(d)]
    <3>1. 1 \in 1 .. n /\ d + 1 - 1 = d
      BY <2>2
    <3> QED
      BY <3>1, WaitingSeq
  <2>8. By(d) = NoThread
    <3>1. ASSUME NEW u \in Writers(d) PROVE FALSE
      <4>1. u \in Producers /\ pos[u] = d /\ u \in Writers(pos[u])'
        BY <2>1, <2>5, <3>1 DEF Writers
      <4>2. pos[u] >= d + 1
        BY <2>1, <4>1 DEF IInv, Producer
      <4> QED
        BY <4>1, <4>2
    <3> QED
      BY <3>1, ByNobody
  <2>9. Answers' = [Answers EXCEPT ![t] = [code |-> "ok", item |-> log[d + 1]]]
    <3>1. Answers' = [Answers EXCEPT ![t] = AnswerTo(t)']
      BY <1>0, <2>1, <2>3, OneAnswer
    <3>2. AnswerTo(t)' = [code |-> "ok", item |-> log[d + 1]]
      BY <2>1, <2>3 DEF AnswerTo
    <3> QED
      BY <3>1, <3>2
  <2>10. ASSUME NEW p PROVE By(p)' = By(p)
    <3>1. CASE Writers(p) = {}
      BY <2>5, <3>1 DEF By
    <3>2. CASE Writers(p) # {}
      <4>1. PICK u : Writers(p) = {u}
        BY <3>2, OneWriter
      <4>2. Writers(p)' = {u}
        BY <2>5, <4>1
      <4> QED
        BY <4>1, <4>2 DEF By
    <3> QED
      BY <3>1, <3>2
  <2>11. Waiting' = [i \in 1 .. n - 1 |->
                        [item |-> log[d + 1 + i], by |-> By(d + 1 + i - 1)']]
    <3>1. enqueue_pos' - dequeue_pos' = n - 1
      BY <2>1
    <3> QED
      BY <2>1, <3>1 DEF Waiting
  <2>12. /\ Tail(Waiting) \in Seq(F!Slot) /\ Len(Tail(Waiting)) = n - 1 /\ n - 1 \in Nat
         /\ \A i \in 1 .. n - 1 : Tail(Waiting)[i] = Waiting[i + 1]
    BY <2>2, <2>6, WaitingSeq
  <2>13. ASSUME NEW i \in 1 .. n - 1 PROVE Waiting'[i] = Tail(Waiting)[i]
    <3>1. i + 1 \in 1 .. n /\ d + (i + 1) = d + 1 + i /\ d + (i + 1) - 1 = d + 1 + i - 1
      BY <2>2
    <3>2. Waiting[i + 1] = [item |-> log[d + (i + 1)], by |-> By(d + (i + 1) - 1)]
      BY Zenon, <3>1, WaitingSeq
    <3> QED
      BY Zenon, <2>10, <2>11, <2>12, <3>1, <3>2
  <2>14. Waiting' = Tail(Waiting)
    <3>1. Waiting' = [i \in 1 .. n - 1 |-> Waiting'[i]]
      BY <2>11
    <3> QED
      BY <2>12, <2>13, <3>1, SeqIsFunction
  <2>15. Head(Waiting).item = log[d + 1] /\ Head(Waiting).by = NoThread
    BY <2>6, <2>7, <2>8
  <2>16. Answers' = [Answers EXCEPT ![t] = [code |-> "ok", item |-> Head(Waiting).item]]
    BY Zenon, <2>9, <2>15
  <2> QED
    BY <2>4, <2>6, <2>14, <2>15, <2>16 DEF F!Take
<1> QED
  BY <1>1, <1>2 DEF DeqCas

(* Writing the cell is not seen.                                           *)
LEMMA EnqDataRefines ==
    ASSUME IInv, NEW t \in Producers, EnqData(t)
    PROVE  UNCHANGED F!qvars
<1>0. /\ t \in Threads /\ t \notin Consumers /\ pc \in [Threads -> PCs]
      /\ pc[t] = "enq_data" /\ pc' = [pc EXCEPT ![t] = "enq_publish"]
      /\ UNCHANGED <<enqueue_pos, dequeue_pos, pos, item, log>>
  BY MpmcAssumption DEF IInv, TypeOK, Threads, EnqData, Goto
<1>1. pc'[t] = "enq_publish" /\ \A u \in Threads \ {t} : pc'[u] = pc[u]
  BY <1>0
<1>2. \A p : Writers(p)' = Writers(p)
  BY <1>0, <1>1 DEF Writers, Threads
<1>3. Waiting' = Waiting
  BY <1>0, <1>2, SameWaiting
<1>4. Reading' = Reading
  BY <1>0, <1>1 DEF Reading, Threads
<1>5. Answers' = [Answers EXCEPT ![t] = AnswerTo(t)']
  BY Zenon, <1>0, <1>1, OneAnswer
<1>6. AnswerTo(t)' = F!Answer("none") /\ AnswerTo(t) = F!Answer("none")
  BY Zenon, <1>0, NoAnswerYet, NoAnswerNow
<1> QED
  BY Zenon, <1>0, <1>3, <1>4, <1>5, <1>6, SilentStep

(* The item that a consumer reads is the one it was given by its           *)
(* compare-and-swap.                                                       *)
LEMMA DeqDataRefines ==
    ASSUME IInv, IInv', NEW t \in Consumers, DeqData(t)
    PROVE  UNCHANGED F!qvars
<1>0. /\ t \in Threads /\ t \notin Producers /\ pc \in [Threads -> PCs]
      /\ pc[t] = "deq_data" /\ pc' = [pc EXCEPT ![t] = "deq_release"]
      /\ UNCHANGED <<enqueue_pos, dequeue_pos, pos, log>>
      /\ \A u \in Threads \ {t} : item'[u] = item[u]
  BY Zenon, MpmcAssumption DEF IInv, TypeOK, Threads, DeqData, Goto, shared
<1>1. pc'[t] = "deq_release" /\ \A u \in Threads \ {t} : pc'[u] = pc[u]
  BY <1>0
<1>2. \A p : Writers(p)' = Writers(p)
  BY Zenon, <1>0, <1>1 DEF Writers, Threads
<1>3. Waiting' = Waiting
  BY Zenon, <1>0, <1>2, SameWaiting
<1>4. Reading' = Reading
  BY Zenon, <1>0, <1>1 DEF Reading, Threads
<1>5. Answers' = [Answers EXCEPT ![t] = AnswerTo(t)']
  BY Zenon, <1>0, <1>1, OneAnswer
<1>6. item'[t] = log[pos[t] + 1]
  <2>1. t \in Readers(pos[t])'
    BY <1>1 DEF Readers
  <2> QED
    BY Zenon, <1>0, <1>1, <2>1 DEF IInv, Consumer
<1>7. AnswerTo(t)' = AnswerTo(t)
  BY <1>0, <1>1, <1>6 DEF AnswerTo
<1> QED
  BY Zenon, <1>0, <1>3, <1>4, <1>5, <1>7, SilentStep

(* The sequence number is given to the next lap: the place is free.        *)
LEMMA DeqReleaseRefines ==
    ASSUME IInv, NEW t \in Consumers, DeqRelease(t)
    PROVE  F!Release(t)
<1>0. /\ t \in Threads /\ t \notin Producers /\ pc \in [Threads -> PCs]
      /\ pc[t] = "deq_release" /\ pc' = [pc EXCEPT ![t] = "got"]
      /\ UNCHANGED <<enqueue_pos, dequeue_pos, log>>
      /\ \A u \in Threads \ {t} : pos'[u] = pos[u] /\ item'[u] = item[u]
      /\ item'[t] = item[t]
  BY MpmcAssumption DEF IInv, TypeOK, Threads, DeqRelease, Return, Goto
<1>1. pc'[t] = "got" /\ \A u \in Threads \ {t} : pc'[u] = pc[u]
  BY <1>0
<1>2. \A p : Writers(p)' = Writers(p)
  BY Zenon, <1>0, <1>1 DEF Writers, Threads
<1>3. Waiting' = Waiting
  BY Zenon, <1>0, <1>2, SameWaiting
<1>4. t \in Reading /\ Reading' = Reading \ {t}
  BY Zenon, <1>0, <1>1 DEF Reading, Threads
<1>5. Answers' = [Answers EXCEPT ![t] = AnswerTo(t)']
  BY Zenon, <1>0, <1>1, OneAnswer
<1>6. AnswerTo(t)' = AnswerTo(t)
  BY <1>0, <1>1 DEF AnswerTo
<1>7. Answers' = Answers
  BY Zenon, <1>5, <1>6 DEF Answers
<1> QED
  BY <1>3, <1>4, <1>7 DEF F!Release

(* The sequence number is given to the consumers: the item can be taken.   *)
LEMMA EnqPublishRefines ==
    ASSUME IInv, NEW t \in Producers, EnqPublish(t)
    PROVE  F!Ready(t)
<1> PICK n \in Nat : n = enqueue_pos - dequeue_pos
  BY Zenon, WaitingSeq
<1> PICK d \in Nat : d = dequeue_pos
  BY WaitingSeq
<1> PICK w \in Nat : w = pos[t]
  BY DEF IInv, TypeOK, Threads
<1>0. /\ t \in Threads /\ t \notin Consumers /\ t # NoThread /\ pc \in [Threads -> PCs]
      /\ pc[t] = "enq_publish" /\ pc' = [pc EXCEPT ![t] = "ok"]
      /\ UNCHANGED <<enqueue_pos, dequeue_pos, log>>
      /\ \A u \in Threads \ {t} : pos'[u] = pos[u] /\ item'[u] = item[u]
  BY Zenon, MpmcAssumption DEF IInv, TypeOK, Threads, EnqPublish, Return, Goto
<1>1. pc'[t] = "ok" /\ \A u \in Threads \ {t} : pc'[u] = pc[u]
  BY Zenon, <1>0
<1>2. \A p : Writers(p)' = Writers(p) \ {t}
  BY Zenon, <1>0, <1>1 DEF Writers, Threads
<1>3. Reading' = Reading
  BY <1>0, <1>1 DEF Reading, Threads
<1>4. Answers' = [Answers EXCEPT ![t] = F!Answer("ok")]
  <2>1. Answers' = [Answers EXCEPT ![t] = AnswerTo(t)']
    BY Zenon, <1>0, <1>1, OneAnswer
  <2>2. AnswerTo(t)' = F!Answer("ok")
    BY <1>1 DEF AnswerTo, F!Answer
  <2> QED
    BY <2>1, <2>2
<1>5. t \in Writers(w) /\ \A p : t \in Writers(p) => p = w
  BY Zenon, <1>0 DEF Writers
<1>6. w >= d /\ w < enqueue_pos /\ enqueue_pos \in Nat
  BY <1>5 DEF IInv, TypeOK, Producer
<1>7. By(w) = t /\ By(w)' = NoThread
  <2>1. Writers(w) = {t}
    BY <1>5, OneWriter
  <2>2. Writers(w)' = {}
    BY <1>2, <2>1
  <2> QED
    BY <2>1, <2>2, ByWriter DEF By
<1>8. ASSUME NEW p, p # w PROVE By(p)' = By(p) /\ By(p) # t
  <2>1. Writers(p)' = Writers(p)
    BY <1>2, <1>5, <1>8
  <2>2. CASE Writers(p) = {}
    BY Zenon, <1>0, <2>1, <2>2 DEF By
  <2>3. CASE Writers(p) # {}
    <3>1. PICK u \in Writers(p) : Writers(p) = {u}
      BY Zenon, <2>3, OneWriter
    <3>2. Writers(p)' = {u} /\ u # t
      BY <1>5, <1>8, <2>1, <3>1
    <3> QED
      BY <3>1, <3>2 DEF By
  <2> QED
    BY <2>2, <2>3
<1>9. DOMAIN Waiting = 1 .. n
  BY DEF Waiting
<1>10. Waiting' = [i \in 1 .. n |-> [item |-> log[d + i], by |-> By(d + i - 1)']]
  BY Zenon, <1>0 DEF Waiting
<1>11. \E i \in DOMAIN Waiting : Waiting[i].by = t
  <2>1. w - d + 1 \in 1 .. n /\ d + (w - d + 1) - 1 = w
    BY <1>6
  <2>2. Waiting[w - d + 1].by = By(d + (w - d + 1) - 1)
    BY <2>1, WaitingSeq
  <2> QED
    BY Zenon, <1>7, <1>9, <2>1, <2>2
<1>12. ASSUME NEW i \in 1 .. n
       PROVE  [item |-> log[d + i], by |-> By(d + i - 1)'] =
                  IF Waiting[i].by = t THEN [Waiting[i] EXCEPT !.by = NoThread]
                                       ELSE Waiting[i]
  <2>1. Waiting[i] = [item |-> log[d + i], by |-> By(d + i - 1)]
    BY Zenon, WaitingSeq
  <2>2. CASE d + i - 1 = w
    BY <1>7, <2>1, <2>2
  <2>3. CASE d + i - 1 # w
    BY <1>8, <2>1, <2>3
  <2> QED
    BY <2>2, <2>3
<1>13. Waiting' = [i \in DOMAIN Waiting |->
                     IF Waiting[i].by = t THEN [Waiting[i] EXCEPT !.by = NoThread]
                                          ELSE Waiting[i]]
  BY <1>9, <1>10, <1>12
<1> QED
  BY <1>3, <1>4, <1>11, <1>13 DEF F!Ready

(* Every access is a step of the bounded FIFO queue or is not seen.        *)
LEMMA StepRefines ==
    ASSUME IInv, IInv', [Next]_vars
    PROVE  [F!FifoNext]_(F!qvars)
<1> Producers \subseteq Threads /\ Consumers \subseteq Threads
  BY DEF Threads
<1>1. ASSUME NEW t \in Producers, NEW v \in Items, Enqueue(t, v) PROVE F!FifoNext
  <2>1. F!Call(t)
    BY <1>1, EnqueueRefines
  <2> QED
    BY <2>1 DEF F!FifoNext
<1>2. ASSUME NEW t \in Producers, EnqSeq(t) PROVE [F!FifoNext]_(F!qvars)
  <2>1. UNCHANGED F!qvars \/ F!PutFails(t)
    BY <1>2, EnqSeqRefines
  <2> QED
    BY <2>1 DEF F!FifoNext
<1>3. ASSUME NEW t \in Producers, EnqReload(t) PROVE UNCHANGED F!qvars
  <2>1. \A u \in Threads \ {t} : pos'[u] = pos[u]
    BY <1>3 DEF EnqReload, IInv, TypeOK
  <2> QED
    BY Zenon, <1>3, <2>1, SearchRefines DEF EnqReload, Goto
<1>4. ASSUME NEW t \in Producers, EnqCas(t) PROVE [F!FifoNext]_(F!qvars)
  <2>1. UNCHANGED F!qvars \/ F!Put(t, item[t])
    BY <1>4, EnqCasRefines
  <2>2. item[t] \in Items
    BY <1>4 DEF EnqCas, IInv, Producer
  <2> QED
    BY <2>1, <2>2 DEF F!FifoNext
<1>5. ASSUME NEW t \in Producers, EnqData(t) PROVE UNCHANGED F!qvars
  BY <1>5, EnqDataRefines
<1>6. ASSUME NEW t \in Producers, EnqPublish(t) PROVE F!FifoNext
  <2>1. F!Ready(t)
    BY <1>6, EnqPublishRefines
  <2> QED
    BY <2>1 DEF F!FifoNext
<1>7. ASSUME NEW t \in Consumers, Dequeue(t) PROVE F!FifoNext
  <2>1. F!Call(t)
    BY <1>7, DequeueRefines
  <2> QED
    BY <2>1 DEF F!FifoNext
<1>8. ASSUME NEW t \in Consumers, DeqSeq(t) PROVE [F!FifoNext]_(F!qvars)
  <2>1. UNCHANGED F!qvars \/ F!TakeFails(t)
    BY <1>8, DeqSeqRefines
  <2> QED
    BY <2>1 DEF F!FifoNext
<1>9. ASSUME NEW t \in Consumers, DeqReload(t) PROVE UNCHANGED F!qvars
  <2>1. \A u \in Threads \ {t} : pos'[u] = pos[u]
    BY <1>9 DEF DeqReload, IInv, TypeOK
  <2> QED
    BY Zenon, <1>9, <2>1, SearchRefines DEF DeqReload, Goto
<1>10. ASSUME NEW t \in Consumers, DeqCas(t) PROVE [F!FifoNext]_(F!qvars)
  <2>1. UNCHANGED F!qvars \/ F!Take(t)
    BY <1>10, DeqCasRefines
  <2> QED
    BY <2>1 DEF F!FifoNext
<1>11. ASSUME NEW t \in Consumers, DeqData(t) PROVE UNCHANGED F!qvars
  BY <1>11, DeqDataRefines
<1>12. ASSUME NEW t \in Consumers, DeqRelease(t) PROVE F!FifoNext
  <2>1. F!Release(t)
    BY <1>12, DeqReleaseRefines
  <2> QED
    BY <2>1 DEF F!FifoNext
<1>13. CASE UNCHANGED vars
  <2>1. Waiting' = Waiting
    <3>1. \A p : Writers(p)' = Writers(p)
      BY <1>13 DEF vars, Writers
    <3> QED
      BY <1>13, <3>1, SameWaiting DEF vars
  <2>2. Reading' = Reading
    BY <1>13 DEF vars, Reading
  <2>3. Answers' = Answers
    BY <1>13 DEF vars, Answers, AnswerTo
  <2> QED
    BY <2>1, <2>2, <2>3 DEF F!qvars
<1> QED
  BY <1>1, <1>2, <1>3, <1>4, <1>5, <1>6, <1>7, <1>8, <1>9, <1>10, <1>11, <1>12, <1>13
  DEF Next, EnqStep, DeqStep

(* mpmc_bounded_queue is a bounded FIFO queue for any number of producers  *)
(* and consumers and any size of at least two: items are taken in the      *)
(* order of the producers' compare-and-swaps, each once and complete, and  *)
(* a call fails only if the queue is full, empty, or waiting for a slow    *)
(* thread.                                                                 *)
THEOREM Refinement == Spec => ImplementsFifo
<1>1. Init => F!FifoInit
  <2> SUFFICES ASSUME Init PROVE F!FifoInit
    OBVIOUS
  <2>1. Waiting = <<>>
    <3>1. IInv /\ enqueue_pos - dequeue_pos = 0
      BY InitIInv DEF Init
    <3>2. Waiting \in Seq(F!Slot) /\ Len(Waiting) = 0
      BY <3>1, WaitingSeq
    <3> QED
      BY <3>2
  <2>2. Reading = {}
    BY DEF Init, Reading, Threads
  <2>3. Answers = [t \in Threads |-> F!Answer("none")]
    <3>1. ASSUME NEW t \in Threads PROVE AnswerTo(t) = F!Answer("none")
      BY DEF Init, AnswerTo, F!Answer
    <3> QED
      BY <3>1 DEF Answers
  <2> QED
    BY <2>1, <2>2, <2>3 DEF F!FifoInit
<1>2. IInv /\ IInv' /\ [Next]_vars => [F!FifoNext]_(F!qvars)
  BY StepRefines
<1> QED
  BY <1>1, <1>2, Inductive, PTL DEF Spec, F!FifoSpec, ImplementsFifo
==============================================================================
