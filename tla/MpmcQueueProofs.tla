--------------------------- MODULE MpmcQueueProofs ---------------------------
(***************************************************************************)
(* Proofs about MpmcQueue for any producers, consumers, items and size.     *)
(***************************************************************************)
EXTENDS MpmcQueue, TLAPS

(* A position is the multiple of max_size below it and the cell's index.   *)
LEMMA CellDivision ==
    ASSUME NEW p \in Int
    PROVE  /\ Cell(p) \in Cells
           /\ p = max_size * (p \div max_size) + Cell(p)
           /\ p \div max_size \in Int
  BY MpmcAssumption, SMT DEF Cell, Cells, buffer_mask

(* Positions less than a lap apart have different cells.                   *)
LEMMA CellInjective ==
    ASSUME NEW p \in Int, NEW q \in Int, p < q, q < p + max_size
    PROVE  Cell(p) # Cell(q)
<1> SUFFICES ASSUME Cell(p) = Cell(q) PROVE FALSE
  OBVIOUS
<1> DEFINE a == p \div max_size
           b == q \div max_size
<1>1. /\ a \in Int /\ b \in Int /\ max_size \in Nat /\ Cell(p) \in Int
      /\ p = max_size * a + Cell(p)
      /\ q = max_size * b + Cell(p)
  BY CellDivision, MpmcAssumption DEF Cells
<1> HIDE DEF a, b
<1>2. q - p = max_size * (b - a)
  BY <1>1
<1>3. b - a \in Int /\ (b - a <= 0 \/ b - a >= 1)
  BY <1>1
<1>4. CASE b - a <= 0
  <2>1. max_size * (b - a) <= 0
    BY <1>1, <1>4
  <2> QED
    BY <1>2, <2>1
<1>5. CASE b - a >= 1
  <2>1. max_size * (b - a) >= max_size
    BY <1>1, <1>5
  <2> QED
    BY <1>1, <1>2, <2>1
<1> QED
  BY <1>3, <1>4, <1>5

(* A position and the one a lap later have the same cell.                  *)
LEMMA CellLap ==
    ASSUME NEW p \in Int
    PROVE  Cell(p + max_size) = Cell(p)
<1> DEFINE a == p \div max_size
<1>1. /\ a \in Int /\ max_size \in Nat /\ max_size >= 2
      /\ Cell(p) \in 0 .. max_size - 1
      /\ p = max_size * a + Cell(p)
  BY CellDivision, MpmcAssumption DEF Cells, buffer_mask
<1> DEFINE q == p + max_size
           b == q \div max_size
<1>2. /\ b \in Int /\ q \in Int /\ q = p + max_size
      /\ Cell(q) \in 0 .. max_size - 1
      /\ q = max_size * b + Cell(q)
  BY CellDivision, MpmcAssumption DEF Cells, buffer_mask
<1> HIDE DEF a, b, q
<1>3. Cell(q) - Cell(p) = max_size * (a + 1 - b)
  <2>1. max_size * (a + 1 - b) = max_size * a + max_size - max_size * b
    BY <1>1, <1>2
  <2>2. Cell(q) = p + max_size - max_size * b /\ Cell(p) = p - max_size * a
    BY <1>1, <1>2
  <2> QED
    BY <1>1, <1>2, <2>1, <2>2
<1>4. a + 1 - b \in Int /\ (a + 1 - b <= -1 \/ a + 1 - b = 0 \/ a + 1 - b >= 1)
  BY <1>1, <1>2
<1>5. a + 1 - b >= 1 => max_size * (a + 1 - b) >= max_size
  BY <1>1, <1>4
<1>6. a + 1 - b <= -1 => max_size * (a + 1 - b) <= -max_size
  BY <1>1, <1>4
<1>7. Cell(q) = Cell(p)
  BY <1>1, <1>2, <1>3, <1>4, <1>5, <1>6
<1> QED
  BY <1>7 DEF q

(* The facts about positions and cells that the steps need.                *)
LEMMA Positions ==
    /\ \A p \in Int : Cell(p) \in Cells
    /\ \A p \in Int : Cell(p + max_size) = Cell(p) /\ Cell(p - max_size) = Cell(p)
    /\ \A p, q \in Int :
          p # q /\ p < q + max_size /\ q < p + max_size => Cell(p) # Cell(q)
    /\ max_size \in Nat /\ max_size >= 2
<1>1. \A p \in Int : Cell(p) \in Cells
  BY CellDivision
<1>2. \A p \in Int : Cell(p + max_size) = Cell(p)
  BY CellLap
<1>3. \A p \in Int : Cell(p - max_size) = Cell(p)
  <2> TAKE p \in Int
  <2>1. p - max_size \in Int /\ (p - max_size) + max_size = p
    BY MpmcAssumption
  <2> QED
    BY <2>1, CellLap
<1>4. \A p, q \in Int :
          p # q /\ p < q + max_size /\ q < p + max_size => Cell(p) # Cell(q)
  <2> TAKE p, q \in Int
  <2> HAVE p # q /\ p < q + max_size /\ q < p + max_size
  <2>1. CASE p < q
    BY <2>1, CellInjective
  <2>2. CASE q < p
    BY <2>2, CellInjective
  <2> QED
    BY <2>1, <2>2
<1> QED
  BY <1>1, <1>2, <1>3, <1>4, MpmcAssumption

(* Two positions of one lap have different cells.                          *)
LEMMA OneLap ==
    ASSUME NEW e \in Nat,
           NEW p \in e - max_size .. e - 1, NEW q \in e - max_size .. e - 1, p # q
    PROVE  Cell(p) # Cell(q)
<1>1. p \in Int /\ q \in Int /\ p < q + max_size /\ q < p + max_size
  BY Positions
<1> QED
  BY <1>1, Positions

LEMMA SequenceNat ==
    ASSUME TypeOK, NEW p \in Int
    PROVE  SeqAt(p) \in Nat
  BY Positions DEF TypeOK, SeqAt

(* Steps of a producer that change nothing but its own locals.             *)
LEMMA ProducerLocal ==
    ASSUME IInv, NEW t \in Producers, UNCHANGED shared,
           NEW l \in EnqPCs \ {"enq_data", "enq_publish"}, NEW k \in Nat, NEW v \in Items \cup {NoItem},
           pc' = [pc EXCEPT ![t] = l],
           pos' = [pos EXCEPT ![t] = k],
           item' = [item EXCEPT ![t] = v],
           pc[t] \notin {"enq_data", "enq_publish"},
           Producer(t)'
    PROVE  IInv'
<1> USE DEF IInv, shared
<1> t \in Threads /\ t \notin Consumers
  BY MpmcAssumption DEF Threads
<1>1. TypeOK'
  BY DEF TypeOK, EnqPCs, PCs
<1>2. /\ \A u \in Threads \ {t} : pc'[u] = pc[u] /\ pos'[u] = pos[u] /\ item'[u] = item[u]
      /\ \A p : Writers(p)' = Writers(p) /\ Readers(p)' = Readers(p)
  BY DEF TypeOK, Threads, Writers, Readers
<1>3. Written' /\ Taken' /\ Past'
  BY <1>2 DEF Written, Taken, Past, SeqAt
<1>4. ASSUME NEW u \in Producers PROVE Producer(u)'
  <2>1. CASE u = t
    BY <2>1
  <2>2. CASE u # t
    BY <1>2, <2>2 DEF Producer, SeqAt, Threads
  <2> QED
    BY <2>1, <2>2
<1>5. ASSUME NEW u \in Consumers PROVE Consumer(u)'
  BY <1>2 DEF Consumer, SeqAt, Threads
<1> QED
  BY <1>1, <1>3, <1>4, <1>5

(* The same for a consumer.                                                *)
LEMMA ConsumerLocal ==
    ASSUME IInv, NEW t \in Consumers, UNCHANGED shared,
           NEW l \in DeqPCs \ {"deq_data", "deq_release"}, NEW k \in Nat, NEW v \in Items \cup {NoItem},
           pc' = [pc EXCEPT ![t] = l],
           pos' = [pos EXCEPT ![t] = k],
           item' = [item EXCEPT ![t] = v],
           pc[t] \notin {"deq_data", "deq_release"},
           Consumer(t)'
    PROVE  IInv'
<1> USE DEF IInv, shared
<1> t \in Threads /\ t \notin Producers
  BY MpmcAssumption DEF Threads
<1>1. TypeOK'
  BY DEF TypeOK, DeqPCs, PCs
<1>2. /\ \A u \in Threads \ {t} : pc'[u] = pc[u] /\ pos'[u] = pos[u] /\ item'[u] = item[u]
      /\ \A p : Writers(p)' = Writers(p) /\ Readers(p)' = Readers(p)
  BY DEF TypeOK, Threads, Writers, Readers
<1>3. Written' /\ Taken' /\ Past'
  BY <1>2 DEF Written, Taken, Past, SeqAt
<1>4. ASSUME NEW u \in Consumers PROVE Consumer(u)'
  <2>1. CASE u = t
    BY <2>1
  <2>2. CASE u # t
    BY <1>2, <2>2 DEF Consumer, SeqAt, Threads
  <2> QED
    BY <2>1, <2>2
<1>5. ASSUME NEW u \in Producers PROVE Producer(u)'
  BY <1>2 DEF Producer, SeqAt, Threads
<1> QED
  BY <1>1, <1>3, <1>4, <1>5

(* A call to enqueue() starts.                                             *)
LEMMA EnqueueStep ==
    ASSUME IInv, NEW t \in Producers, NEW v \in Items, Enqueue(t, v)
    PROVE  IInv'
<1> USE DEF Enqueue, Goto
<1>0. t \in Threads /\ enqueue_pos \in Nat
  BY DEF Threads, IInv, TypeOK
<1>1. pc'[t] = "enq_seq" /\ pos'[t] = enqueue_pos /\ item'[t] = v
  BY <1>0 DEF IInv, TypeOK
<1>2. Producer(t)'
  BY <1>0, <1>1 DEF Producer, EnqPCs, Writers, shared
<1> QED
  BY Zenon, <1>0, <1>2, ProducerLocal DEF EnqPCs

(* The position in hand is free, claimed already, or not free yet.         *)
LEMMA EnqSeqStep ==
    ASSUME IInv, NEW t \in Producers, EnqSeq(t)
    PROVE  IInv'
<1> USE DEF EnqSeq, Goto, Return
<1>0. /\ t \in Threads /\ pos[t] \in Nat /\ item[t] \in Items /\ Producer(t)
      /\ pc \in [Threads -> PCs] /\ pos \in [Threads -> Nat]
      /\ item \in [Threads -> Items \cup {NoItem}]
  BY DEF Threads, IInv, TypeOK, Producer
<1>s. pos = [pos EXCEPT ![t] = pos[t]] /\ item = [item EXCEPT ![t] = item[t]]
  BY <1>0
<1>1. CASE Goto(t, "enq_cas") /\ UNCHANGED <<pos, item>> /\ SeqAt(pos[t]) - pos[t] = 0
  <2>1. SeqAt(pos[t]) \in Nat
    BY <1>0, SequenceNat DEF IInv
  <2>2. SeqAt(pos[t]) = pos[t]
    BY <1>0, <1>1, <2>1
  <2>3. Producer(t)'
    BY <1>0, <1>1, <2>2 DEF Producer, EnqPCs, Writers, shared, SeqAt
  <2> QED
    BY Zenon, <1>0, <1>s, <1>1, <2>3, ProducerLocal DEF EnqPCs
<1>2. CASE Goto(t, "enq_reload") /\ UNCHANGED <<pos, item>>
  <2>1. Producer(t)'
    BY <1>0, <1>2 DEF Producer, EnqPCs, Writers, shared
  <2> QED
    BY Zenon, <1>0, <1>s, <1>2, <2>1, ProducerLocal DEF EnqPCs
<1>3. CASE Return(t, "full", NoItem)
  <2>1. Producer(t)'
    BY <1>0, <1>3 DEF Producer, EnqPCs, Writers, shared
  <2> QED
    BY Zenon, <1>0, <1>3, <2>1, ProducerLocal DEF EnqPCs
<1> QED
  BY <1>1, <1>2, <1>3 DEF SeqAt

LEMMA EnqReloadStep ==
    ASSUME IInv, NEW t \in Producers, EnqReload(t)
    PROVE  IInv'
<1> USE DEF EnqReload, Goto
<1>0. /\ t \in Threads /\ enqueue_pos \in Nat /\ item[t] \in Items
      /\ pc \in [Threads -> PCs] /\ pos \in [Threads -> Nat]
      /\ item \in [Threads -> Items \cup {NoItem}]
  BY DEF Threads, IInv, TypeOK, Producer
<1>1. item = [item EXCEPT ![t] = item[t]]
  BY <1>0
<1>2. Producer(t)'
  BY <1>0 DEF Producer, EnqPCs, Writers, shared
<1> QED
  BY Zenon, <1>0, <1>1, <1>2, ProducerLocal DEF EnqPCs

(* A successful compare-and-swap of enqueue() claims a position whose cell *)
(* nobody is in, with the lap before finished.                             *)
LEMMA EnqCasStep ==
    ASSUME IInv, NEW t \in Producers, EnqCas(t)
    PROVE  IInv'
<1>0. /\ t \in Threads /\ t \notin Consumers /\ pos[t] \in Nat /\ item[t] \in Items
      /\ pc \in [Threads -> PCs] /\ pos \in [Threads -> Nat]
      /\ item \in [Threads -> Items \cup {NoItem}]
      /\ enqueue_pos \in Nat /\ dequeue_pos \in Nat
      /\ Producer(t) /\ pc[t] = "enq_cas"
  BY MpmcAssumption DEF Threads, IInv, TypeOK, Producer, EnqCas
<1>1. CASE /\ pos' = [pos EXCEPT ![t] = enqueue_pos] /\ Goto(t, "enq_seq")
           /\ UNCHANGED <<enqueue_pos, log>>
  <2> USE <1>1 DEF EnqCas, Goto
  <2>1. item = [item EXCEPT ![t] = item[t]]
    BY <1>0
  <2>2. Producer(t)'
    BY <1>0 DEF Producer, EnqPCs, Writers
  <2> QED
    BY Zenon, <1>0, <2>1, <2>2, ProducerLocal DEF EnqPCs, shared
<1>2. CASE /\ enqueue_pos = pos[t] /\ enqueue_pos' = pos[t] + 1
           /\ log' = Append(log, item[t])
           /\ Goto(t, "enq_data") /\ UNCHANGED pos
  <2> PICK e \in Nat : e = enqueue_pos
    BY <1>0
  <2>1. /\ pc' = [pc EXCEPT ![t] = "enq_data"] /\ UNCHANGED <<sequence, data, dequeue_pos, pos, item>>
        /\ enqueue_pos' = e + 1 /\ enqueue_pos = e /\ pos[t] = e /\ SeqAt(e) = e
    BY <1>0, <1>2 DEF EnqCas, Goto, Producer
  <2>2. /\ log' \in Seq(Items) /\ Len(log') = e + 1 /\ log'[e + 1] = item[t]
        /\ \A i \in 1 .. e : log'[i] = log[i]
    BY <1>0, <1>2 DEF IInv, TypeOK
  <2>3. TypeOK'
    BY <1>0, <2>1, <2>2 DEF IInv, TypeOK, PCs
  <2>4. SeqAt(e - max_size) = e /\ max_size \in Nat /\ max_size >= 2
    BY <1>0, <2>1, Positions DEF SeqAt
  <2>5. e < dequeue_pos + max_size
    <3> SUFFICES ASSUME e = dequeue_pos + max_size PROVE FALSE
      BY <1>0, <2>4 DEF IInv
    <3>1. dequeue_pos \in dequeue_pos .. e - 1 /\ dequeue_pos = e - max_size
      BY <1>0, <2>4
    <3>2. SeqAt(dequeue_pos) \in {dequeue_pos, dequeue_pos + 1}
      BY <3>1 DEF IInv, Written
    <3> QED
      BY <1>0, <2>4, <3>1, <3>2
  <2>6. /\ \A u \in Threads \ {t} : pc'[u] = pc[u]
        /\ pc'[t] = "enq_data"
        /\ \A p : Readers(p)' = Readers(p)
        /\ \A p : p # e => Writers(p)' = Writers(p)
        /\ t \in Writers(e)'
    BY <1>0, <2>1 DEF Writers, Readers, Threads
  <2>7. Writers(e)' = {t}
    <3>1. ASSUME NEW u \in Producers, u # t, u \in Writers(e)' PROVE FALSE
      <4>1. u \in Writers(pos[u]) /\ pos[u] = e
        BY <2>1, <2>6, <3>1 DEF Writers, Threads
      <4> QED
        BY <1>0, <4>1 DEF IInv, Producer
    <3> QED
      BY <2>6, <3>1 DEF Writers
  <2>8. Written'
    <3> SUFFICES ASSUME NEW p \in dequeue_pos .. e
                 PROVE  \/ SeqAt(p) = p /\ Writers(p)' # {}
                        \/ SeqAt(p) = p + 1 /\ data[Cell(p)] = log'[p + 1]
      BY <1>0, <2>1 DEF Written, SeqAt
    <3>1. CASE p = e
      BY <2>1, <2>6, <3>1
    <3>2. CASE p # e
      <4>1. p \in dequeue_pos .. e - 1 /\ p + 1 \in 1 .. e
        BY <1>0, <3>2
      <4> QED
        BY <2>2, <2>6, <3>2, <4>1 DEF IInv, Written
    <3> QED
      BY <3>1, <3>2
  <2>9. Taken'
    <3> SUFFICES ASSUME NEW p \in e + 1 - max_size .. dequeue_pos - 1
                 PROVE  \/ /\ SeqAt(p) = p + 1 /\ Readers(p) # {}
                           /\ data[Cell(p)] = log'[p + 1]
                        \/ SeqAt(p) = p + max_size
      BY <1>0, <2>1, <2>4, <2>6 DEF Taken, SeqAt
    <3>1. p \in e - max_size .. dequeue_pos - 1 /\ p \in Int
      BY <1>0, <2>4
    <3>2. CASE SeqAt(p) = p + 1 /\ Readers(p) # {} /\ data[Cell(p)] = log[p + 1]
      <4>1. p \in Nat
        BY <1>0, <3>2 DEF Readers, Threads
      <4>2. p + 1 \in 1 .. e
        BY <1>0, <4>1 DEF IInv
      <4> QED
        BY <2>2, <3>2, <4>2
    <3> QED
      BY <3>1, <3>2 DEF IInv, Taken
  <2>10. Past'
    <3>1. \A p \in 0 .. e : SeqAt(p) >= p
      BY <1>0, <2>1 DEF IInv, Past
    <3> QED
      BY <1>0, <2>1, <3>1 DEF IInv, Past, SeqAt
  <2>11. ASSUME NEW u \in Producers PROVE Producer(u)'
    <3>1. CASE u = t
      <4>1. e \in dequeue_pos .. e
        BY <1>0 DEF IInv
      <4> QED
        BY <1>0, <2>1, <2>2, <2>6, <2>7, <3>1, <4>1 DEF Producer, SeqAt, EnqPCs, IInv
    <3>2. CASE u # t
      <4>1. Producer(u) /\ u \in Threads /\ pos[u] \in Nat
        BY <1>0 DEF IInv, Threads
      <4>2. CASE u \in Writers(pos[u])
        <5>1. pos[u] # e /\ pos[u] + 1 \in 1 .. e
          BY <1>0, <4>1, <4>2 DEF Producer
        <5> QED
          BY <1>0, <2>1, <2>2, <2>6, <3>2, <4>1, <4>2, <5>1 DEF Producer, SeqAt
      <4>3. CASE u \notin Writers(pos[u])
        <5>1. u \notin Writers(pos[u])'
          BY <2>1, <2>6, <3>2, <4>1, <4>3 DEF Writers
        <5> QED
          BY <1>0, <2>1, <2>6, <3>2, <4>1, <5>1 DEF Producer, SeqAt
      <4> QED
        BY <4>2, <4>3
    <3> QED
      BY <3>1, <3>2
  <2>12. ASSUME NEW u \in Consumers PROVE Consumer(u)'
    <3>1. Consumer(u) /\ u \in Threads /\ u # t /\ pos[u] \in Nat
      BY <1>0 DEF IInv, Threads
    <3>2. CASE u \in Readers(pos[u])
      <4>1. pos[u] # e - max_size
        BY <1>0, <2>4, <3>1, <3>2 DEF Consumer
      <4>2. pos[u] \in e + 1 - max_size .. dequeue_pos - 1 /\ pos[u] + 1 \in 1 .. e
        BY <1>0, <2>4, <3>1, <3>2, <4>1 DEF Consumer, IInv
      <4> QED
        BY <1>0, <2>1, <2>2, <2>4, <2>6, <3>1, <3>2, <4>2 DEF Consumer, SeqAt
    <3>3. CASE u \notin Readers(pos[u])
      BY <1>0, <2>1, <2>6, <3>1, <3>3 DEF Consumer, SeqAt
    <3> QED
      BY <3>2, <3>3
  <2>13. dequeue_pos' <= enqueue_pos' /\ enqueue_pos' <= dequeue_pos' + max_size
    BY <1>0, <2>1, <2>4, <2>5 DEF IInv
  <2> QED
    BY <2>1, <2>2, <2>3, <2>8, <2>9, <2>10, <2>11, <2>12, <2>13 DEF IInv
<1> QED
  BY <1>1, <1>2 DEF EnqCas

(* The item is written to the cell, where nobody looks at it.              *)
LEMMA EnqDataStep ==
    ASSUME IInv, NEW t \in Producers, EnqData(t)
    PROVE  IInv'
<1> PICK w \in Nat : w = pos[t]
  BY DEF IInv, TypeOK, Threads
<1>0. /\ t \in Threads /\ t \notin Consumers /\ item[t] \in Items
      /\ pc \in [Threads -> PCs] /\ pos \in [Threads -> Nat]
      /\ enqueue_pos \in Nat /\ dequeue_pos \in Nat
      /\ max_size \in Nat /\ max_size >= 2
  BY MpmcAssumption DEF Threads, IInv, TypeOK, Producer, EnqData
<1>c. Cell(w) \in Cells
  BY Positions
<1>1. /\ pc[t] = "enq_data" /\ pc' = [pc EXCEPT ![t] = "enq_publish"]
      /\ data' = [data EXCEPT ![Cell(w)] = item[t]]
      /\ UNCHANGED <<sequence, enqueue_pos, dequeue_pos, pos, item, log>>
  BY DEF EnqData, Goto
<1>2. /\ t \in Writers(w) /\ w \in dequeue_pos .. enqueue_pos - 1
      /\ SeqAt(w) = w /\ item[t] = log[w + 1] /\ Writers(w) = {t}
  BY <1>1 DEF Writers, IInv, Producer
<1>3. TypeOK'
  BY <1>0, <1>c, <1>1 DEF IInv, TypeOK, PCs
<1>4. /\ pc'[t] = "enq_publish" /\ \A u \in Threads \ {t} : pc'[u] = pc[u]
      /\ \A p : Readers(p)' = Readers(p)
      /\ \A p : Writers(p)' = Writers(p)
  BY <1>0, <1>1 DEF Writers, Readers, Threads
<1>5. /\ data'[Cell(w)] = item[t]
      /\ \A p \in enqueue_pos - max_size .. enqueue_pos - 1 :
            p # w => data'[Cell(p)] = data[Cell(p)]
  <2>1. w \in enqueue_pos - max_size .. enqueue_pos - 1
    BY <1>0, <1>2 DEF IInv
  <2>2. \A p \in enqueue_pos - max_size .. enqueue_pos - 1 : p # w => Cell(p) # Cell(w)
    BY <1>0, <2>1, OneLap
  <2>3. data \in [Cells -> Items \cup {NoItem}]
    BY DEF IInv, TypeOK
  <2> QED
    BY <1>0, <1>1, <1>c, <2>2, <2>3, Positions
<1>6. Written'
  <2> SUFFICES ASSUME NEW p \in dequeue_pos .. enqueue_pos - 1
               PROVE  \/ SeqAt(p) = p /\ Writers(p) # {}
                      \/ SeqAt(p) = p + 1 /\ data'[Cell(p)] = log[p + 1]
    BY <1>1, <1>4 DEF Written, SeqAt
  <2>1. CASE p = w
    BY <1>2, <2>1
  <2>2. CASE p # w
    <3>1. data'[Cell(p)] = data[Cell(p)]
      BY <1>0, <1>5, <2>2 DEF IInv
    <3> QED
      BY <3>1 DEF IInv, Written
  <2> QED
    BY <2>1, <2>2
<1>7. Taken'
  <2> SUFFICES ASSUME NEW p \in enqueue_pos - max_size .. dequeue_pos - 1
               PROVE  data'[Cell(p)] = data[Cell(p)]
    BY <1>1, <1>4 DEF IInv, Taken, SeqAt
  <2>1. p \in enqueue_pos - max_size .. enqueue_pos - 1 /\ p # w
    BY <1>0, <1>2 DEF IInv
  <2> QED
    BY <1>5, <2>1
<1>8. Past'
  BY <1>1 DEF IInv, Past, SeqAt
<1>9. ASSUME NEW u \in Producers PROVE Producer(u)'
  <2>1. CASE u = t
    BY <1>0, <1>1, <1>2, <1>4, <1>5, <2>1 DEF IInv, Producer, SeqAt, EnqPCs
  <2>2. CASE u # t
    <3>1. u \in Threads /\ Producer(u) /\ (u \in Writers(pos[u]) => pos[u] # w)
      BY <1>2, <2>2 DEF IInv, Threads
    <3>2. u \in Writers(pos[u]) => data'[Cell(pos[u])] = data[Cell(pos[u])]
      BY <1>0, <1>5, <3>1 DEF Producer, IInv
    <3> QED
      BY <1>0, <1>1, <1>4, <2>2, <3>1, <3>2 DEF Producer, SeqAt
  <2> QED
    BY <2>1, <2>2
<1>10. ASSUME NEW u \in Consumers PROVE Consumer(u)'
  BY Zenon, <1>0, <1>1, <1>4 DEF IInv, Consumer, SeqAt, Threads
<1> QED
  BY <1>1, <1>3, <1>6, <1>7, <1>8, <1>9, <1>10 DEF IInv

(* The item is complete: the cell is handed over to consumers.             *)
LEMMA EnqPublishStep ==
    ASSUME IInv, NEW t \in Producers, EnqPublish(t)
    PROVE  IInv'
<1> PICK w \in Nat : w = pos[t]
  BY DEF IInv, TypeOK, Threads
<1>0. /\ t \in Threads /\ t \notin Consumers
      /\ pc \in [Threads -> PCs] /\ pos \in [Threads -> Nat]
      /\ item \in [Threads -> Items \cup {NoItem}]
      /\ enqueue_pos \in Nat /\ dequeue_pos \in Nat
      /\ max_size \in Nat /\ max_size >= 2
  BY MpmcAssumption DEF Threads, IInv, TypeOK
<1>c. Cell(w) \in Cells
  BY Positions
<1>1. /\ pc[t] = "enq_publish" /\ pc' = [pc EXCEPT ![t] = "ok"]
      /\ sequence' = [sequence EXCEPT ![Cell(w)] = w + 1]
      /\ pos' = [pos EXCEPT ![t] = 0] /\ item' = [item EXCEPT ![t] = NoItem]
      /\ UNCHANGED <<data, enqueue_pos, dequeue_pos, log>>
  BY DEF EnqPublish, Return, Goto
<1>2. /\ t \in Writers(w) /\ w \in dequeue_pos .. enqueue_pos - 1
      /\ SeqAt(w) = w /\ data[Cell(w)] = log[w + 1] /\ Writers(w) = {t}
  BY <1>1 DEF Writers, IInv, Producer
<1>3. TypeOK'
  BY <1>0, <1>c, <1>1 DEF IInv, TypeOK, PCs
<1>4. /\ pc'[t] = "ok"
      /\ \A u \in Threads \ {t} : pc'[u] = pc[u] /\ pos'[u] = pos[u] /\ item'[u] = item[u]
      /\ \A p : Readers(p)' = Readers(p)
      /\ \A p : Writers(p)' = Writers(p) \ {t}
  BY <1>0, <1>1 DEF Writers, Readers, Threads
<1>5. /\ \A p \in Int : Cell(p) = Cell(w) => SeqAt(p) = w /\ SeqAt(p)' = w + 1
      /\ \A p \in Int : Cell(p) # Cell(w) => SeqAt(p)' = SeqAt(p)
  <2>1. sequence \in [Cells -> Nat]
    BY DEF IInv, TypeOK
  <2> QED
    BY <1>0, <1>c, <1>1, <1>2, <2>1, Positions DEF SeqAt
<1>6. \A p \in enqueue_pos - max_size .. enqueue_pos - 1 :
          p # w => SeqAt(p)' = SeqAt(p)
  <2>1. w \in enqueue_pos - max_size .. enqueue_pos - 1
    BY <1>0, <1>2 DEF IInv
  <2>2. \A p \in enqueue_pos - max_size .. enqueue_pos - 1 : p # w => Cell(p) # Cell(w)
    BY <1>0, <2>1, OneLap
  <2> QED
    BY <1>0, <1>5, <2>2
<1>7. Written'
  <2> SUFFICES ASSUME NEW p \in dequeue_pos .. enqueue_pos - 1
               PROVE  \/ SeqAt(p)' = p /\ Writers(p) \ {t} # {}
                      \/ SeqAt(p)' = p + 1 /\ data[Cell(p)] = log[p + 1]
    BY <1>1, <1>4 DEF Written
  <2>1. CASE p = w
    BY <1>2, <1>5, <2>1
  <2>2. CASE p # w
    <3>1. SeqAt(p)' = SeqAt(p)
      BY <1>0, <1>6, <2>2 DEF IInv
    <3>2. t \notin Writers(p)
      BY <2>2 DEF Writers
    <3> QED
      BY <3>1, <3>2 DEF IInv, Written
  <2> QED
    BY <2>1, <2>2
<1>8. Taken'
  <2> SUFFICES ASSUME NEW p \in enqueue_pos - max_size .. dequeue_pos - 1
               PROVE  SeqAt(p)' = SeqAt(p)
    BY <1>1, <1>4 DEF IInv, Taken
  <2> QED
    BY <1>0, <1>2, <1>6 DEF IInv
<1>9. Past'
  <2>1. \A p \in Int : SeqAt(p) \in Nat
    BY Zenon, SequenceNat DEF IInv
  <2>2. \A p \in Int : SeqAt(p)' = SeqAt(p) \/ SeqAt(p)' = SeqAt(p) + 1
    BY <1>5
  <2>3. \A p \in Int : SeqAt(p)' >= SeqAt(p) /\ SeqAt(p)' \in Nat
    BY <2>1, <2>2
  <2>4. \A p \in 0 .. enqueue_pos - 1 : SeqAt(p)' >= p
    BY <1>0, <2>1, <2>3 DEF IInv, Past
  <2>5. \A p \in 0 .. dequeue_pos - 1 : SeqAt(p)' > p
    BY <1>0, <2>1, <2>3 DEF IInv, Past
  <2> QED
    BY <1>1, <2>4, <2>5 DEF Past
<1>10. ASSUME NEW u \in Producers PROVE Producer(u)'
  <2>1. CASE u = t
    BY <1>0, <1>1, <1>4, <2>1 DEF Producer, EnqPCs, Writers
  <2>2. CASE u # t
    <3>1. u \in Threads /\ Producer(u) /\ (u \in Writers(pos[u]) => pos[u] # w) /\ pos[u] \in Nat
      BY Zenon, <1>0, <1>2, <2>2 DEF IInv, Threads
    <3>2. u \in Writers(pos[u]) => SeqAt(pos[u])' = SeqAt(pos[u])
      <4>1. PICK p \in Nat : p = pos[u] /\ p = pos'[u]
        BY <1>4, <2>2, <3>1
      <4>2. u \in Writers(p) => p \in enqueue_pos - max_size .. enqueue_pos - 1 /\ p # w
        BY <1>0, <3>1, <4>1 DEF Producer, IInv
      <4>3. u \in Writers(p) => SeqAt(p)' = SeqAt(p)
        BY <1>6, <4>2
      <4> QED
        BY <4>1, <4>3 DEF SeqAt
    <3>3. pc[u] = "enq_cas" /\ pos[u] = enqueue_pos => SeqAt(pos[u])' = SeqAt(pos[u])
      BY <1>0, <1>2, <1>4, <1>5, <2>2, <3>1 DEF Producer, SeqAt
    <3> QED
      BY <1>0, <1>1, <1>4, <2>2, <3>1, <3>2, <3>3 DEF Producer, Writers
  <2> QED
    BY <2>1, <2>2
<1>11. ASSUME NEW u \in Consumers PROVE Consumer(u)'
  <2>1. u \in Threads /\ Consumer(u) /\ u # t /\ pos[u] \in Nat
    BY <1>0 DEF IInv, Threads
  <2>2. u \in Readers(pos[u]) => SeqAt(pos[u])' = SeqAt(pos[u])
    <3> SUFFICES ASSUME u \in Readers(pos[u]) PROVE SeqAt(pos[u])' = SeqAt(pos[u])
      OBVIOUS
    <3>1. pos[u] \in enqueue_pos - max_size .. dequeue_pos - 1
      BY <2>1 DEF Consumer
    <3>2. pos[u] \in enqueue_pos - max_size .. enqueue_pos - 1 /\ pos[u] # w
      BY <1>0, <1>2, <2>1, <3>1 DEF IInv
    <3> QED
      BY Zenon, <1>4, <1>6, <2>1, <3>2 DEF SeqAt
  <2>3. pc[u] = "deq_cas" /\ pos[u] = dequeue_pos => SeqAt(pos[u])' = SeqAt(pos[u])
    <3> SUFFICES ASSUME pc[u] = "deq_cas", pos[u] = dequeue_pos, Cell(pos[u]) = Cell(w)
                 PROVE  FALSE
      BY <1>4, <1>5, <2>1 DEF SeqAt
    <3>1. w = dequeue_pos + 1
      BY <1>5, <2>1 DEF Consumer
    <3> QED
      BY <1>0, <2>1, <3>1, Positions
  <2> QED
    BY Zenon, <1>0, <1>1, <1>4, <2>1, <2>2, <2>3 DEF Consumer
<1> QED
  BY <1>1, <1>3, <1>7, <1>8, <1>9, <1>10, <1>11 DEF IInv

(* A call to dequeue() starts.                                             *)
LEMMA DequeueStep ==
    ASSUME IInv, NEW t \in Consumers, Dequeue(t)
    PROVE  IInv'
<1> USE DEF Dequeue, Goto
<1>0. t \in Threads /\ dequeue_pos \in Nat
  BY DEF Threads, IInv, TypeOK
<1>1. pc'[t] = "deq_seq" /\ pos'[t] = dequeue_pos
  BY <1>0 DEF IInv, TypeOK
<1>2. Consumer(t)'
  BY <1>0, <1>1 DEF Consumer, DeqPCs, Readers, shared
<1> QED
  BY Zenon, <1>0, <1>2, ConsumerLocal DEF DeqPCs

(* The position in hand is ready, taken already, or not ready yet.         *)
LEMMA DeqSeqStep ==
    ASSUME IInv, NEW t \in Consumers, DeqSeq(t)
    PROVE  IInv'
<1> USE DEF DeqSeq, Goto, Return
<1>0. /\ t \in Threads /\ pos[t] \in Nat /\ item[t] \in Items \cup {NoItem} /\ Consumer(t)
      /\ pc \in [Threads -> PCs] /\ pos \in [Threads -> Nat]
      /\ item \in [Threads -> Items \cup {NoItem}]
  BY DEF Threads, IInv, TypeOK
<1>s. pos = [pos EXCEPT ![t] = pos[t]] /\ item = [item EXCEPT ![t] = item[t]]
  BY <1>0
<1>1. CASE /\ Goto(t, "deq_cas") /\ UNCHANGED <<pos, item>>
           /\ SeqAt(pos[t]) - (pos[t] + 1) = 0
  <2>1. SeqAt(pos[t]) \in Nat
    BY <1>0, SequenceNat DEF IInv
  <2>2. SeqAt(pos[t]) = pos[t] + 1
    BY <1>0, <1>1, <2>1
  <2>3. Consumer(t)'
    BY Zenon, <1>0, <1>1, <2>2 DEF Consumer, DeqPCs, Readers, shared, SeqAt
  <2> QED
    BY Zenon, <1>0, <1>s, <1>1, <2>3, ConsumerLocal DEF DeqPCs
<1>2. CASE Goto(t, "deq_reload") /\ UNCHANGED <<pos, item>>
  <2>1. Consumer(t)'
    BY Zenon, <1>0, <1>2 DEF Consumer, DeqPCs, Readers, shared
  <2> QED
    BY Zenon, <1>0, <1>s, <1>2, <2>1, ConsumerLocal DEF DeqPCs
<1>3. CASE Return(t, "empty", NoItem)
  <2>1. Consumer(t)'
    BY Zenon, <1>0, <1>3 DEF Consumer, DeqPCs, Readers, shared
  <2> QED
    BY Zenon, <1>0, <1>3, <2>1, ConsumerLocal DEF DeqPCs
<1> QED
  BY <1>1, <1>2, <1>3 DEF SeqAt

LEMMA DeqReloadStep ==
    ASSUME IInv, NEW t \in Consumers, DeqReload(t)
    PROVE  IInv'
<1> USE DEF DeqReload, Goto
<1>0. /\ t \in Threads /\ dequeue_pos \in Nat /\ item[t] \in Items \cup {NoItem}
      /\ pc \in [Threads -> PCs] /\ pos \in [Threads -> Nat]
      /\ item \in [Threads -> Items \cup {NoItem}]
  BY DEF Threads, IInv, TypeOK
<1>1. item = [item EXCEPT ![t] = item[t]]
  BY <1>0
<1>2. Consumer(t)'
  BY <1>0 DEF Consumer, DeqPCs, Readers, shared
<1> QED
  BY Zenon, <1>0, <1>1, <1>2, ConsumerLocal DEF DeqPCs

(* A successful compare-and-swap of dequeue() claims the oldest position,  *)
(* whose item is complete.                                                 *)
LEMMA DeqCasStep ==
    ASSUME IInv, NEW t \in Consumers, DeqCas(t)
    PROVE  IInv'
<1>0. /\ t \in Threads /\ t \notin Producers /\ pos[t] \in Nat
      /\ item[t] \in Items \cup {NoItem}
      /\ pc \in [Threads -> PCs] /\ pos \in [Threads -> Nat]
      /\ item \in [Threads -> Items \cup {NoItem}]
      /\ enqueue_pos \in Nat /\ dequeue_pos \in Nat
      /\ Consumer(t) /\ pc[t] = "deq_cas"
  BY MpmcAssumption DEF Threads, IInv, TypeOK, DeqCas
<1>1. CASE /\ pos' = [pos EXCEPT ![t] = dequeue_pos] /\ Goto(t, "deq_seq")
           /\ UNCHANGED dequeue_pos
  <2> USE <1>1 DEF DeqCas, Goto
  <2>1. item = [item EXCEPT ![t] = item[t]]
    BY <1>0
  <2>2. Consumer(t)'
    BY <1>0 DEF Consumer, DeqPCs, Readers
  <2> QED
    BY Zenon, <1>0, <2>1, <2>2, ConsumerLocal DEF DeqPCs, shared
<1>2. CASE /\ dequeue_pos = pos[t] /\ dequeue_pos' = pos[t] + 1
           /\ Goto(t, "deq_data") /\ UNCHANGED pos
  <2> PICK d \in Nat : d = dequeue_pos
    BY <1>0
  <2>1. /\ pc' = [pc EXCEPT ![t] = "deq_data"]
        /\ UNCHANGED <<sequence, data, enqueue_pos, pos, item, log>>
        /\ dequeue_pos' = d + 1 /\ dequeue_pos = d /\ pos[t] = d /\ SeqAt(d) = d + 1
    BY Zenon, <1>0, <1>2 DEF DeqCas, Goto, Consumer
  <2>2. max_size \in Nat /\ max_size >= 2
    BY Positions
  <2>3. TypeOK'
    BY <1>0, <2>1 DEF IInv, TypeOK, PCs
  <2>4. d < enqueue_pos
    <3> SUFFICES ASSUME d = enqueue_pos PROVE FALSE
      BY <1>0, <2>1 DEF IInv
    <3>1. d - max_size \in enqueue_pos - max_size .. dequeue_pos - 1
      BY <1>0, <2>1, <2>2
    <3>2. SeqAt(d - max_size) \in {d - max_size + 1, d}
      BY <2>2, <3>1 DEF IInv, Taken
    <3>3. SeqAt(d - max_size) = SeqAt(d)
      BY Positions DEF SeqAt
    <3> QED
      BY <2>1, <2>2, <3>2, <3>3
  <2>5. data[Cell(d)] = log[d + 1]
    <3>1. d \in dequeue_pos .. enqueue_pos - 1
      BY <1>0, <2>1, <2>4
    <3> QED
      BY <2>1, <3>1 DEF IInv, Written
  <2>6. /\ \A u \in Threads \ {t} : pc'[u] = pc[u]
        /\ pc'[t] = "deq_data"
        /\ \A p : Writers(p)' = Writers(p)
        /\ \A p : p # d => Readers(p)' = Readers(p)
        /\ t \in Readers(d)'
    BY <1>0, <2>1 DEF Writers, Readers, Threads
  <2>7. Readers(d)' = {t}
    <3>1. ASSUME NEW u \in Consumers, u # t, u \in Readers(d)' PROVE FALSE
      <4>1. u \in Readers(pos[u]) /\ pos[u] = d
        BY <2>1, <2>6, <3>1 DEF Readers, Threads
      <4> QED
        BY <1>0, <2>1, <4>1 DEF IInv, Consumer
    <3> QED
      BY Zenon, <2>6, <3>1 DEF Readers
  <2>8. Written'
    <3> SUFFICES ASSUME NEW p \in d + 1 .. enqueue_pos - 1
                 PROVE  \/ SeqAt(p) = p /\ Writers(p) # {}
                        \/ SeqAt(p) = p + 1 /\ data[Cell(p)] = log[p + 1]
      BY Zenon, <1>0, <2>1, <2>6 DEF Written, SeqAt
    <3>1. p \in dequeue_pos .. enqueue_pos - 1
      BY <1>0, <2>1
    <3> QED
      BY Zenon, <3>1 DEF IInv, Written
  <2>9. Taken'
    <3> SUFFICES ASSUME NEW p \in enqueue_pos - max_size .. d
                 PROVE  \/ /\ SeqAt(p) = p + 1 /\ Readers(p)' # {}
                           /\ data[Cell(p)] = log[p + 1]
                        \/ SeqAt(p) = p + max_size
      BY <1>0, <2>1, <2>2 DEF Taken, SeqAt
    <3>1. CASE p = d
      BY Zenon, <2>1, <2>5, <2>6, <3>1
    <3>2. CASE p # d
      <4>1. p \in enqueue_pos - max_size .. dequeue_pos - 1
        BY <1>0, <2>1, <2>2, <3>2
      <4> QED
        BY <2>6, <3>2, <4>1 DEF IInv, Taken
    <3> QED
      BY <3>1, <3>2
  <2>10. Past'
    <3>1. \A p \in 0 .. d : SeqAt(p) > p
      BY <1>0, <2>1 DEF IInv, Past
    <3> QED
      BY <1>0, <2>1, <3>1 DEF IInv, Past, SeqAt
  <2>11. ASSUME NEW u \in Producers PROVE Producer(u)'
    <3>1. Producer(u) /\ u \in Threads /\ u # t /\ pos[u] \in Nat
      BY <1>0 DEF IInv, Threads
    <3>2. CASE u \in Writers(pos[u])
      <4>1. pos[u] \in dequeue_pos .. enqueue_pos - 1 /\ SeqAt(pos[u]) = pos[u]
        BY Zenon, <3>1, <3>2 DEF Producer
      <4>2. pos[u] # d
        BY <2>1, <3>1, <4>1 DEF SeqAt
      <4>3. pos[u] \in d + 1 .. enqueue_pos - 1
        BY <1>0, <2>1, <3>1, <4>1, <4>2
      <4> QED
        BY Zenon, <1>0, <2>1, <2>6, <3>1, <3>2, <4>3 DEF Producer, SeqAt
    <3>3. CASE u \notin Writers(pos[u])
      BY Zenon, <1>0, <2>1, <2>6, <3>1, <3>3 DEF Producer, SeqAt
    <3> QED
      BY <3>2, <3>3
  <2>12. ASSUME NEW u \in Consumers PROVE Consumer(u)'
    <3>1. CASE u = t
      <4>1. d \in enqueue_pos - max_size .. d
        BY <1>0, <2>1, <2>2 DEF IInv
      <4> QED
        BY <1>0, <2>1, <2>6, <2>7, <3>1, <4>1 DEF Consumer, SeqAt, DeqPCs
    <3>2. CASE u # t
      <4>1. Consumer(u) /\ u \in Threads /\ pos[u] \in Nat
        BY <1>0 DEF IInv, Threads
      <4>2. CASE u \in Readers(pos[u])
        <5>1. pos[u] # d /\ pos[u] \in enqueue_pos - max_size .. d
          BY <1>0, <2>1, <2>2, <4>1, <4>2 DEF Consumer
        <5> QED
          BY <1>0, <2>1, <2>2, <2>6, <3>2, <4>1, <4>2, <5>1 DEF Consumer, SeqAt
      <4>3. CASE u \notin Readers(pos[u])
        <5>1. u \notin Readers(pos[u])'
          BY Zenon, <2>1, <2>6, <3>2, <4>1, <4>3 DEF Readers
        <5> QED
          BY <1>0, <2>1, <2>6, <3>2, <4>1, <5>1 DEF Consumer, SeqAt
      <4> QED
        BY <4>2, <4>3
    <3> QED
      BY <3>1, <3>2
  <2>13. dequeue_pos' <= enqueue_pos' /\ enqueue_pos' <= dequeue_pos' + max_size
    BY <1>0, <2>1, <2>2, <2>4 DEF IInv
  <2>14. Len(log') = enqueue_pos'
    BY <2>1 DEF IInv
  <2> QED
    BY <2>3, <2>8, <2>9, <2>10, <2>11, <2>12, <2>13, <2>14 DEF IInv
<1> QED
  BY Zenon, <1>1, <1>2 DEF DeqCas

(* The item is read: it is the one its producer claimed the position for.  *)
LEMMA DeqDataStep ==
    ASSUME IInv, NEW t \in Consumers, DeqData(t)
    PROVE  IInv'
<1> PICK w \in Nat : w = pos[t]
  BY DEF IInv, TypeOK, Threads
<1>0. /\ t \in Threads /\ t \notin Producers
      /\ pc \in [Threads -> PCs] /\ pos \in [Threads -> Nat]
      /\ item \in [Threads -> Items \cup {NoItem}]
      /\ enqueue_pos \in Nat /\ dequeue_pos \in Nat
      /\ max_size \in Nat /\ max_size >= 2
  BY MpmcAssumption DEF Threads, IInv, TypeOK
<1>1. /\ pc[t] = "deq_data" /\ pc' = [pc EXCEPT ![t] = "deq_release"]
      /\ item' = [item EXCEPT ![t] = data[Cell(w)]]
      /\ UNCHANGED <<sequence, data, enqueue_pos, dequeue_pos, log, pos>>
  BY Zenon DEF DeqData, Goto, shared
<1>2. /\ t \in Readers(w) /\ w \in enqueue_pos - max_size .. dequeue_pos - 1
      /\ SeqAt(w) = w + 1 /\ Readers(w) = {t}
  BY Zenon, <1>1 DEF Readers, IInv, Consumer
<1>3. data[Cell(w)] = log[w + 1]
  BY <1>0, <1>2 DEF IInv, Taken
<1>4. data[Cell(w)] \in Items \cup {NoItem}
  <2>1. Cell(w) \in Cells
    BY Positions
  <2> QED
    BY <2>1 DEF IInv, TypeOK
<1>5. TypeOK'
  BY Zenon, <1>0, <1>1, <1>4 DEF IInv, TypeOK, PCs
<1>6. /\ pc'[t] = "deq_release" /\ item'[t] = log[w + 1]
      /\ \A u \in Threads \ {t} : pc'[u] = pc[u] /\ item'[u] = item[u]
      /\ \A p : Readers(p)' = Readers(p)
      /\ \A p : Writers(p)' = Writers(p)
  BY Zenon, <1>0, <1>1, <1>3 DEF Writers, Readers, Threads
<1>7. Written' /\ Taken' /\ Past'
  BY Zenon, <1>1, <1>6 DEF IInv, Written, Taken, Past, SeqAt
<1>8. ASSUME NEW u \in Producers PROVE Producer(u)'
  BY Zenon, <1>0, <1>1, <1>6 DEF IInv, Producer, SeqAt, Threads
<1>9. ASSUME NEW u \in Consumers PROVE Consumer(u)'
  <2>1. CASE u = t
    BY Zenon, <1>0, <1>1, <1>2, <1>6, <2>1 DEF Consumer, SeqAt, DeqPCs
  <2>2. CASE u # t
    BY Zenon, <1>0, <1>1, <1>6, <2>2 DEF IInv, Consumer, SeqAt, Threads
  <2> QED
    BY <2>1, <2>2
<1> QED
  BY <1>1, <1>5, <1>7, <1>8, <1>9 DEF IInv

(* The cell is handed over to the producer a lap later.                    *)
LEMMA DeqReleaseStep ==
    ASSUME IInv, NEW t \in Consumers, DeqRelease(t)
    PROVE  IInv'
<1> PICK w \in Nat : w = pos[t]
  BY DEF IInv, TypeOK, Threads
<1>0. /\ t \in Threads /\ t \notin Producers
      /\ pc \in [Threads -> PCs] /\ pos \in [Threads -> Nat]
      /\ item \in [Threads -> Items \cup {NoItem}]
      /\ enqueue_pos \in Nat /\ dequeue_pos \in Nat
      /\ max_size \in Nat /\ max_size >= 2
  BY MpmcAssumption DEF Threads, IInv, TypeOK
<1>c. Cell(w) \in Cells
  BY Positions
<1>1. /\ pc[t] = "deq_release" /\ pc' = [pc EXCEPT ![t] = "got"]
      /\ sequence' = [sequence EXCEPT ![Cell(w)] = w + max_size]
      /\ pos' = [pos EXCEPT ![t] = 0] /\ item' = [item EXCEPT ![t] = item[t]]
      /\ UNCHANGED <<data, enqueue_pos, dequeue_pos, log>>
  <2>1. w + buffer_mask + 1 = w + max_size
    BY <1>0 DEF buffer_mask
  <2> QED
    BY Zenon, <2>1 DEF DeqRelease, Return, Goto
<1>2. /\ t \in Readers(w) /\ w \in enqueue_pos - max_size .. dequeue_pos - 1
      /\ SeqAt(w) = w + 1 /\ Readers(w) = {t}
  BY Zenon, <1>1 DEF Readers, IInv, Consumer
<1>3. TypeOK'
  BY <1>0, <1>c, <1>1 DEF IInv, TypeOK, PCs
<1>4. /\ pc'[t] = "got"
      /\ \A u \in Threads \ {t} : pc'[u] = pc[u] /\ pos'[u] = pos[u] /\ item'[u] = item[u]
      /\ \A p : Writers(p)' = Writers(p)
      /\ \A p : Readers(p)' = Readers(p) \ {t}
  BY Zenon, <1>0, <1>1 DEF Writers, Readers, Threads
<1>5. /\ \A p \in Int : Cell(p) = Cell(w) => SeqAt(p) = w + 1 /\ SeqAt(p)' = w + max_size
      /\ \A p \in Int : Cell(p) # Cell(w) => SeqAt(p)' = SeqAt(p)
  <2>1. sequence \in [Cells -> Nat]
    BY DEF IInv, TypeOK
  <2> QED
    BY Zenon, <1>0, <1>c, <1>1, <1>2, <2>1, Positions DEF SeqAt
<1>6. \A p \in enqueue_pos - max_size .. enqueue_pos - 1 :
          p # w => SeqAt(p)' = SeqAt(p)
  <2>1. w \in enqueue_pos - max_size .. enqueue_pos - 1
    BY <1>0, <1>2 DEF IInv
  <2>2. \A p \in enqueue_pos - max_size .. enqueue_pos - 1 : p # w => Cell(p) # Cell(w)
    BY <1>0, <2>1, OneLap
  <2> QED
    BY <1>0, <1>5, <2>2
<1>7. Written'
  <2> SUFFICES ASSUME NEW p \in dequeue_pos .. enqueue_pos - 1
               PROVE  SeqAt(p)' = SeqAt(p)
    BY <1>1, <1>4 DEF IInv, Written
  <2>1. p \in enqueue_pos - max_size .. enqueue_pos - 1 /\ p # w
    BY <1>0, <1>2 DEF IInv
  <2> QED
    BY <1>6, <2>1
<1>8. Taken'
  <2> SUFFICES ASSUME NEW p \in enqueue_pos - max_size .. dequeue_pos - 1
               PROVE  \/ /\ SeqAt(p)' = p + 1 /\ Readers(p) \ {t} # {}
                         /\ data[Cell(p)] = log[p + 1]
                      \/ SeqAt(p)' = p + max_size
    BY <1>1, <1>4 DEF Taken
  <2>1. CASE p = w
    BY <1>5, <2>1
  <2>2. CASE p # w
    <3>1. p \in enqueue_pos - max_size .. enqueue_pos - 1
      BY <1>0 DEF IInv
    <3>2. SeqAt(p)' = SeqAt(p)
      BY <1>6, <2>2, <3>1
    <3>3. t \notin Readers(p)
      BY <2>2 DEF Readers
    <3> QED
      BY <3>2, <3>3 DEF IInv, Taken
  <2> QED
    BY <2>1, <2>2
<1>9. Past'
  <2>1. \A p \in Int : SeqAt(p) \in Nat
    BY Zenon, SequenceNat DEF IInv
  <2>2. \A p \in Int : SeqAt(p)' >= SeqAt(p) /\ SeqAt(p)' \in Nat
    BY <1>0, <1>5, <2>1
  <2>3. \A p \in 0 .. enqueue_pos - 1 : SeqAt(p)' >= p
    BY <1>0, <2>1, <2>2 DEF IInv, Past
  <2>4. \A p \in 0 .. dequeue_pos - 1 : SeqAt(p)' > p
    BY <1>0, <2>1, <2>2 DEF IInv, Past
  <2> QED
    BY <1>1, <2>3, <2>4 DEF Past
<1>10. ASSUME NEW u \in Producers PROVE Producer(u)'
  <2>1. u \in Threads /\ Producer(u) /\ u # t /\ pos[u] \in Nat
    BY <1>0 DEF IInv, Threads
  <2>2. u \in Writers(pos[u]) => SeqAt(pos[u])' = SeqAt(pos[u])
    <3> SUFFICES ASSUME u \in Writers(pos[u]) PROVE SeqAt(pos[u])' = SeqAt(pos[u])
      OBVIOUS
    <3>1. pos[u] \in dequeue_pos .. enqueue_pos - 1
      BY Zenon, <2>1 DEF Producer
    <3>2. pos[u] \in enqueue_pos - max_size .. enqueue_pos - 1 /\ pos[u] # w
      BY <1>0, <1>2, <2>1, <3>1 DEF IInv
    <3> QED
      BY <1>4, <1>6, <2>1, <3>2 DEF SeqAt
  <2>3. pc[u] = "enq_cas" /\ pos[u] = enqueue_pos => SeqAt(pos[u])' = SeqAt(pos[u])
    <3> SUFFICES ASSUME pc[u] = "enq_cas", pos[u] = enqueue_pos, Cell(pos[u]) = Cell(w)
                 PROVE  FALSE
      BY <1>4, <1>5, <2>1 DEF SeqAt
    <3>1. w + 1 = enqueue_pos
      BY <1>5, <2>1 DEF Producer
    <3> QED
      BY <1>0, <2>1, <3>1, Positions
  <2> QED
    BY <1>0, <1>1, <1>4, <2>1, <2>2, <2>3 DEF Producer
<1>11. ASSUME NEW u \in Consumers PROVE Consumer(u)'
  <2>1. CASE u = t
    BY <1>0, <1>1, <1>4, <2>1 DEF Consumer, DeqPCs, Readers
  <2>2. CASE u # t
    <3>1. /\ u \in Threads /\ Consumer(u) /\ (u \in Readers(pos[u]) => pos[u] # w)
          /\ pos[u] \in Nat
      BY <1>0, <1>2, <2>2 DEF IInv, Threads
    <3>2. u \in Readers(pos[u]) => SeqAt(pos[u])' = SeqAt(pos[u])
      BY <1>0, <1>4, <1>6, <2>2, <3>1 DEF Consumer, IInv, SeqAt
    <3>3. pc[u] = "deq_cas" /\ pos[u] = dequeue_pos => SeqAt(pos[u])' = SeqAt(pos[u])
      BY <1>0, <1>2, <1>4, <1>5, <2>2, <3>1 DEF Consumer, SeqAt
    <3> QED
      BY <1>0, <1>1, <1>4, <2>2, <3>1, <3>2, <3>3 DEF Consumer, Readers
  <2> QED
    BY <2>1, <2>2
<1> QED
  BY <1>1, <1>3, <1>7, <1>8, <1>9, <1>10, <1>11 DEF IInv

(* The inductive invariant holds when the queue is made.                   *)
LEMMA InitIInv == Init => IInv
<1> SUFFICES ASSUME Init PROVE IInv
  OBVIOUS
<1> USE DEF Init
<1>1. max_size \in Nat /\ max_size >= 2 /\ \A c \in Cells : c \in Nat
  BY MpmcAssumption DEF Cells, buffer_mask
<1>2. TypeOK
  BY <1>1 DEF TypeOK, PCs
<1>3. \A p : Writers(p) = {} /\ Readers(p) = {}
  BY DEF Writers, Readers, Threads
<1>4. Taken
  <2> SUFFICES ASSUME NEW p \in -max_size .. -1 PROVE SeqAt(p) = p + max_size
    BY <1>1 DEF Taken
  <2>1. p + max_size \in Cells /\ Cell(p) = Cell(p + max_size)
    BY <1>1, Positions DEF Cells, buffer_mask
  <2>2. Cell(p + max_size) = p + max_size
    <3>1. p + max_size \in Nat /\ p + max_size < max_size
      BY <1>1
    <3>2. \A q \in Nat : q < max_size => q % max_size = q
      BY ONLY <1>1
    <3> QED
      BY <3>1, <3>2 DEF Cell
  <2> QED
    BY <2>1, <2>2 DEF SeqAt
<1>5. Written /\ Past
  BY DEF Written, Past
<1>6. ASSUME NEW t \in Producers PROVE Producer(t)
  BY <1>3 DEF Producer, EnqPCs, Threads
<1>7. ASSUME NEW t \in Consumers PROVE Consumer(t)
  BY <1>3 DEF Consumer, DeqPCs, Threads
<1>8. Len(log) = 0
  OBVIOUS
<1> QED
  BY <1>1, <1>2, <1>4, <1>5, <1>6, <1>7, <1>8 DEF IInv

(* Every access of every thread keeps the inductive invariant.             *)
LEMMA InductiveStep == IInv /\ [Next]_vars => IInv'
<1> SUFFICES ASSUME IInv, [Next]_vars PROVE IInv'
  OBVIOUS
<1>1. ASSUME NEW t \in Producers, EnqStep(t) PROVE IInv'
  BY <1>1, EnqSeqStep, EnqReloadStep, EnqCasStep, EnqDataStep, EnqPublishStep DEF EnqStep
<1>2. ASSUME NEW t \in Consumers, DeqStep(t) PROVE IInv'
  BY <1>2, DeqSeqStep, DeqReloadStep, DeqCasStep, DeqDataStep, DeqReleaseStep DEF DeqStep
<1>3. CASE UNCHANGED vars
  <2> USE <1>3 DEF vars
  <2>1. \A p : Writers(p)' = Writers(p) /\ Readers(p)' = Readers(p)
    BY DEF Writers, Readers
  <2>2. TypeOK'
    BY DEF IInv, TypeOK
  <2>3. Written' /\ Taken' /\ Past'
    BY <2>1 DEF IInv, Written, Taken, Past, SeqAt
  <2>4. ASSUME NEW t \in Producers PROVE Producer(t)'
    BY Zenon, <2>1 DEF IInv, Producer, SeqAt
  <2>5. ASSUME NEW t \in Consumers PROVE Consumer(t)'
    BY Zenon, <2>1 DEF IInv, Consumer, SeqAt
  <2> QED
    BY <2>2, <2>3, <2>4, <2>5 DEF IInv
<1> QED
  BY <1>1, <1>2, <1>3, EnqueueStep, DequeueStep DEF Next

(* The inductive invariant holds in every reachable state.                 *)
THEOREM Inductive == Spec => []IInv
  BY InitIInv, InductiveStep, PTL DEF Spec
==============================================================================
