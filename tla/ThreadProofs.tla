----------------------------- MODULE ThreadProofs -----------------------------
(***************************************************************************)
(* Proofs about the two programs of the threads benchmarks: CondWait for   *)
(* every number of jobs, and Counters for every set of threads and rows    *)
(* and every number of increments.                                         *)
(***************************************************************************)
EXTENDS CondWait, Counters, TLAPS

(* Every step, the spurious wakeup included, keeps the inductive           *)
(* invariant.                                                              *)
LEMMA CondWaitStep == IInv /\ [Next]_vars => IInv'
<1> SUFFICES ASSUME IInv, [Next]_vars PROVE IInv'
  OBVIOUS
<1> USE CondWaitAssumption DEF IInv, TypeOK, JobsConserved, NoLostWakeup
<1>1. CASE WorkerLock
  BY <1>1 DEF WorkerLock
<1>2. CASE Process
  BY <1>2 DEF Process
<1>3. CASE Wait
  BY <1>3 DEF Wait
<1>4. CASE SpuriousWakeup
  BY <1>4 DEF SpuriousWakeup
<1>5. CASE MainLock
  BY <1>5 DEF MainLock
<1>6. CASE Enqueue
  BY <1>6 DEF Enqueue
<1>7. CASE MainUnlock
  BY <1>7 DEF MainUnlock
<1>8. CASE Signal
  BY <1>8 DEF Signal
<1>9. CASE Join
  BY <1>9 DEF Join
<1>10. CASE UNCHANGED vars
  BY <1>10 DEF vars
<1> QED
  BY <1>1, <1>2, <1>3, <1>4, <1>5, <1>6, <1>7, <1>8, <1>9, <1>10
  DEF Next, Worker, Main, Over

(* The inductive invariant holds in every reachable state.                 *)
THEOREM CondWaitInductive == Spec => []IInv
<1>1. Init => IInv
  BY CondWaitAssumption DEF Init, IInv, TypeOK, JobsConserved, NoLostWakeup
<1> QED
  BY <1>1, CondWaitStep, PTL DEF Spec

(* Every variable always holds a value of its type.                        *)
THEOREM CondWaitTypes == Spec => []TypeOK
<1>1. IInv => TypeOK
  BY DEF IInv
<1> QED
  BY <1>1, CondWaitInductive, PTL

(* No job is lost or processed twice, and the worker returns with all of   *)
(* them, for every number of jobs.                                         *)
THEOREM NoJobLost == Spec => []JobsConserved
<1>1. IInv => JobsConserved
  BY DEF IInv
<1> QED
  BY <1>1, CondWaitInductive, PTL

(* The worker never sleeps on a job whose signal is already gone.          *)
THEOREM NoMissedSignal == Spec => []NoLostWakeup
<1>1. IInv => NoLostWakeup
  BY DEF IInv
<1> QED
  BY <1>1, CondWaitInductive, PTL
------------------------------------------------------------------------------
(* The inductive invariant holds at the start.                             *)
LEMMA CountersStart == CountersInit => CountersIInv
  BY CountersAssumption DEF CountersInit, CountersIInv, CountersTypeOK, NoLostUpdate, InSection

(* Every step of a thread keeps the inductive invariant.                   *)
LEMMA CountersStep == CountersIInv /\ [CountersNext]_cvars => CountersIInv'
<1> SUFFICES ASSUME CountersIInv, [CountersNext]_cvars PROVE CountersIInv'
  OBVIOUS
<1> USE CountersAssumption DEF CountersIInv, CountersTypeOK, NoLostUpdate, InSection, Goto
<1>1. ASSUME NEW t \in Threads, NEW r \in Rows, Choose(t, r) PROVE CountersIInv'
  <2>1. method \in {"lock", "fetch_add"} /\ ~InSection(t)
    BY <1>1 DEF Choose
  <2>2. \A s \in Rows : lock[s] # t
    <3> SUFFICES ASSUME NEW s \in Rows, lock[s] = t PROVE FALSE
      OBVIOUS
    <3>1. lock[s] # NoThread
      OBVIOUS
    <3>2. row[t] = s
      BY <3>1
    <3> QED
      BY <2>1, <3>2
  <2>3. CountersTypeOK' /\ NoLostUpdate'
    BY <1>1, <2>1 DEF Choose
  <2>4. \A u \in Threads : InSection(u)' <=> (lock[row[u]] = u)'
    BY <1>1, <2>1, <2>2 DEF Choose
  <2>5. \A s \in Rows : (lock[s] # NoThread => row[lock[s]] = s)'
    BY <1>1, <2>2 DEF Choose
  <2>6. \A u \in Threads : (pc[u] = "store" => reg[u] = counter[row[u]])'
    BY <1>1, <2>1 DEF Choose
  <2>7. \A u \in Threads : (pc[u] = "fetch_add" => method = "fetch_add")'
    BY <1>1, <2>1 DEF Choose
  <2>8. \A u \in Threads : ((pc[u] = "lock" \/ InSection(u)) => method = "lock")'
    BY <1>1, <2>1 DEF Choose
  <2> QED
    BY Zenon, <2>3, <2>4, <2>5, <2>6, <2>7, <2>8
<1>2. ASSUME NEW t \in Threads, Lock(t) PROVE CountersIInv'
  BY <1>2 DEF Lock
<1>3. ASSUME NEW t \in Threads, Load(t) PROVE CountersIInv'
  BY <1>3 DEF Load
<1>4. ASSUME NEW t \in Threads, Store(t) PROVE CountersIInv'
  BY <1>4 DEF Store
<1>5. ASSUME NEW t \in Threads, PrintCount(t) PROVE CountersIInv'
  BY <1>5 DEF PrintCount
<1>6. ASSUME NEW t \in Threads, Unlock(t) PROVE CountersIInv'
  BY <1>6 DEF Unlock
<1>7. ASSUME NEW t \in Threads, FetchAdd(t) PROVE CountersIInv'
  BY <1>7 DEF FetchAdd
<1>8. CASE UNCHANGED cvars
  BY <1>8 DEF cvars
<1> QED
  BY Zenon, <1>1, <1>2, <1>3, <1>4, <1>5, <1>6, <1>7, <1>8 DEF CountersNext, AllDone

(* The inductive invariant holds in every reachable state.                 *)
THEOREM CountersInductive == CountersSpec => []CountersIInv
  BY CountersStart, CountersStep, PTL DEF CountersSpec

(* Every variable always holds a value of its type.                        *)
THEOREM CountersTypes == CountersSpec => []CountersTypeOK
<1>1. CountersIInv => CountersTypeOK
  BY DEF CountersIInv
<1> QED
  BY <1>1, CountersInductive, PTL

(* No increment is ever lost, under the locks and with fetch-and-add.      *)
THEOREM CountExact == CountersSpec => []NoLostUpdate
<1>1. CountersIInv => NoLostUpdate
  BY DEF CountersIInv
<1> QED
  BY <1>1, CountersInductive, PTL

(* The threads in a critical section are the ones that hold a lock, so     *)
(* that no two of them are in a section of the same row.                   *)
THEOREM MutualExclusion == CountersSpec => []HoldsLock
<1>1. CountersIInv => HoldsLock
  BY Zenon, CountersAssumption DEF CountersIInv, HoldsLock, CountersTypeOK
<1> QED
  BY <1>1, CountersInductive, PTL

(* What Append() leaves.                                                   *)
LEMMA Appended ==
    ASSUME NEW S, NEW q \in Seq(S), NEW e \in S, NEW n \in Nat, n = Len(q)
    PROVE  /\ Append(q, e) \in Seq(S) /\ DOMAIN Append(q, e) = 1 .. n + 1
           /\ (\A k \in 1 .. n : Append(q, e)[k] = q[k]) /\ Append(q, e)[n + 1] = e
OBVIOUS

(* What is before a multiple.                                              *)
LEMMA MultipleBefore ==
    ASSUME NEW P \in Nat \ {0}, NEW c \in Nat \ {0}, c % P = 0
    PROVE  c = P \/ (c - P \in 1 .. c - 1 /\ (c - P) % P = 0)
<1>1. PICK d \in Nat : c = P * d
  OBVIOUS
<1>2. d >= 1
  BY <1>1
<1>3. c - P = P * (d - 1)
  BY <1>1, <1>2
<1>4. (P * (d - 1)) % P = 0
  BY <1>2
<1>5. P * (d - 1) >= 0
  BY <1>2
<1> QED
  BY <1>3, <1>4, <1>5

(* The value a thread prints is greater than those of its row before, and  *)
(* the multiple before it has been printed, as no other thread can be      *)
(* about to print it.                                                      *)
LEMMA PrintInOrder ==
    ASSUME CountersIInv, PrintsComplete, PrintedInOrder, NEW t \in Threads, PrintCount(t)
    PROVE  PrintsComplete' /\ PrintedInOrder'
<1>0. /\ counter \in [Rows -> Nat] /\ row \in [Threads -> Rows] /\ printed \in Seq(Rows \X Nat)
      /\ pc \in [Threads -> {"next", "lock", "load", "store", "print", "unlock", "fetch_add"}]
  BY DEF CountersIInv, CountersTypeOK
<1>1. PICK r \in Rows, c \in Nat : r = row[t] /\ c = counter[r]
  BY <1>0
<1>2. /\ pc[t] = "print" /\ pc' = [pc EXCEPT ![t] = "unlock"]
      /\ UNCHANGED <<method, counter, lock, row, reg, iters, done>>
  BY DEF PrintCount, Goto
<1>3. /\ c % PrintEvery = 0 => printed' = Append(printed, <<r, c>>)
      /\ c % PrintEvery # 0 => printed' = printed
  BY <1>1 DEF PrintCount
<1>4. pc'[t] = "unlock" /\ \A u \in Threads : u # t => pc'[u] = pc[u]
  BY <1>0, <1>2
<1>5. \A u \in Threads : u # t /\ pc[u] = "print" => row[u] # r
  BY <1>1, <1>2 DEF CountersIInv, InSection
<1>6. method = "lock"
  BY <1>2 DEF CountersIInv, InSection
<1>7. PICK n \in Nat : n = Len(printed) /\ DOMAIN printed = 1 .. n
  BY <1>0
<1>8. /\ c > 0 /\ \A k \in 1 .. n : printed[k][1] = r => printed[k][2] < c
  BY <1>1, <1>2, <1>7 DEF PrintsComplete
<1>9. \A k \in 1 .. n : printed[k] \in Rows \X Nat
  BY <1>0, <1>7
<1>10. \A k \in 1 .. n : printed[k][1] \in Rows /\ printed[k][2] \in Nat
                         /\ printed[k] = <<printed[k][1], printed[k][2]>>
  BY <1>9
<1>11. CASE c % PrintEvery # 0
  <2>1. printed' = printed
    BY <1>3, <1>11
  <2>2. PrintedInOrder'
    BY <2>1 DEF PrintedInOrder
  <2>3. ASSUME NEW s \in Rows, NEW v \in 1 .. counter[s], v % PrintEvery = 0
        PROVE  \/ \E k \in DOMAIN printed : printed[k] = <<s, v>>
               \/ v = counter[s] /\ \E u \in Threads : pc'[u] = "print" /\ row[u] = s
    <3>1. \/ \E k \in DOMAIN printed : printed[k] = <<s, v>>
          \/ v = counter[s] /\ \E u \in Threads : pc[u] = "print" /\ row[u] = s
      BY <1>6, <2>3 DEF PrintsComplete
    <3>2. ASSUME v = counter[s], NEW u \in Threads, pc[u] = "print", row[u] = s
          PROVE  pc'[u] = "print"
      BY <1>1, <1>4, <1>11, <2>3, <3>2
    <3> QED
      BY <3>1, <3>2
  <2>4. ASSUME NEW u \in Threads, pc'[u] = "print"
        PROVE  /\ counter[row[u]] > 0
               /\ \A k \in DOMAIN printed : printed[k][1] = row[u] => printed[k][2] < counter[row[u]]
    BY <1>4, <2>4 DEF PrintsComplete
  <2>5. \A k \in DOMAIN printed : printed[k][2] <= counter[printed[k][1]]
    BY DEF PrintsComplete
  <2>6. PrintsComplete'
    BY <1>2, <2>1, <2>3, <2>4, <2>5 DEF PrintsComplete
  <2> QED
    BY <2>2, <2>6
<1>12. CASE c % PrintEvery = 0
  <2>1. PICK e \in Rows \X Nat : e = <<r, c>> /\ e[1] = r /\ e[2] = c
    <3>1. <<r, c>> \in Rows \X Nat /\ <<r, c>>[1] = r /\ <<r, c>>[2] = c
      OBVIOUS
    <3> QED
      BY Zenon, <3>1
  <2>2. /\ printed' \in Seq(Rows \X Nat) /\ DOMAIN printed' = 1 .. n + 1
        /\ (\A k \in 1 .. n : printed'[k] = printed[k]) /\ printed'[n + 1] = e
    <3>1. printed' = Append(printed, e)
      BY <1>3, <1>12, <2>1
    <3>2. /\ Append(printed, e) \in Seq(Rows \X Nat) /\ DOMAIN Append(printed, e) = 1 .. n + 1
          /\ (\A k \in 1 .. n : Append(printed, e)[k] = printed[k]) /\ Append(printed, e)[n + 1] = e
      BY ONLY <1>0, <1>7, e \in Rows \X Nat, Appended
    <3> QED
      BY <3>1, <3>2
  <2>3. \A k \in 1 .. n + 1 : k \in 1 .. n \/ k = n + 1
    BY <1>7
  <2>4. c = PrintEvery \/ \E j \in 1 .. n : printed[j][1] = r /\ printed[j][2] + PrintEvery = c
    <3>1. PrintEvery \in Nat \ {0}
      BY CountersAssumption
    <3>2. c = PrintEvery \/ (c - PrintEvery \in 1 .. c - 1 /\ (c - PrintEvery) % PrintEvery = 0)
      <4>1. c \in Nat \ {0}
        BY <1>8
      <4> QED
        BY Zenon, <1>12, <3>1, <4>1, MultipleBefore
    <3>3. ASSUME c # PrintEvery
          PROVE  \E j \in 1 .. n : printed[j][1] = r /\ printed[j][2] + PrintEvery = c
      <4>1. PICK v \in 1 .. c - 1 : v = c - PrintEvery /\ v % PrintEvery = 0
        BY <3>2, <3>3
      <4>2. v \in 1 .. counter[r] /\ v # counter[r]
        BY <1>1, <4>1
      <4>3. PICK j \in 1 .. n : printed[j] = <<r, v>>
        <5>1. \/ \E k \in DOMAIN printed : printed[k] = <<r, v>>
              \/ v = counter[r] /\ \E u \in Threads : pc[u] = "print" /\ row[u] = r
          BY <1>6, <4>1, <4>2 DEF PrintsComplete
        <5> QED
          BY Zenon, <1>7, <4>2, <5>1
      <4>4. printed[j][1] = r /\ printed[j][2] = v
        BY <4>3
      <4>5. v + PrintEvery = c
        BY <3>1, <4>1
      <4> QED
        BY <4>4, <4>5
    <3> QED
      BY <3>3
  <2>5. ASSUME NEW k \in 1 .. n + 1
        PROVE  /\ \A j \in 1 .. k - 1 : printed'[j][1] = printed'[k][1] => printed'[j][2] < printed'[k][2]
               /\ \/ printed'[k][2] = PrintEvery
                  \/ \E j \in 1 .. k - 1 : /\ printed'[j][1] = printed'[k][1]
                                           /\ printed'[j][2] + PrintEvery = printed'[k][2]
    <3>1. CASE k \in 1 .. n
      <4>1. \A j \in 1 .. k - 1 : j \in 1 .. n
        BY <3>1
      <4>2. /\ \A j \in 1 .. k - 1 : printed[j][1] = printed[k][1] => printed[j][2] < printed[k][2]
            /\ \/ printed[k][2] = PrintEvery
               \/ \E j \in 1 .. k - 1 : /\ printed[j][1] = printed[k][1]
                                        /\ printed[j][2] + PrintEvery = printed[k][2]
        BY <1>7, <3>1 DEF PrintedInOrder
      <4> QED
        BY Zenon, <2>2, <3>1, <4>1, <4>2
    <3>2. CASE k = n + 1
      <4>1. 1 .. k - 1 = 1 .. n
        BY <1>7, <3>2
      <4> QED
        <5>1. printed'[k][1] = r /\ printed'[k][2] = c
          BY <2>1, <2>2, <3>2
        <5>2. \A j \in 1 .. n : printed'[j][1] = r => printed'[j][2] < c
          BY Zenon, <1>8, <2>2
        <5>3. c = PrintEvery \/ \E j \in 1 .. n : printed'[j][1] = r /\ printed'[j][2] + PrintEvery = c
          BY Zenon, <2>2, <2>4
        <5> QED
          BY Zenon, <4>1, <5>1, <5>2, <5>3
    <3> QED
      BY <2>3, <3>1, <3>2
  <2>6. PrintedInOrder'
    BY Zenon, <2>2, <2>5 DEF PrintedInOrder
  <2>7. ASSUME NEW k \in 1 .. n + 1 PROVE printed'[k][2] <= counter[printed'[k][1]]
    <3>1. \A j \in 1 .. n : printed[j][2] <= counter[printed[j][1]]
      BY <1>7 DEF PrintsComplete
    <3>2. CASE k \in 1 .. n
      BY <2>2, <3>1, <3>2
    <3>3. CASE k = n + 1
      <4>1. printed'[k][1] = r /\ printed'[k][2] = c
        BY <2>1, <2>2, <3>3
      <4> QED
        BY ONLY <1>1, <4>1, c \in Nat
    <3> QED
      BY <2>3, <3>2, <3>3
  <2>8. ASSUME NEW s \in Rows, NEW v \in 1 .. counter[s], v % PrintEvery = 0
        PROVE  \/ \E k \in 1 .. n + 1 : printed'[k] = <<s, v>>
               \/ v = counter[s] /\ \E u \in Threads : pc'[u] = "print" /\ row[u] = s
    <3>0. n + 1 \in 1 .. n + 1 /\ \A k \in 1 .. n : k \in 1 .. n + 1
      BY <1>7
    <3>1. \/ \E k \in 1 .. n : printed[k] = <<s, v>>
          \/ v = counter[s] /\ \E u \in Threads : pc[u] = "print" /\ row[u] = s
      BY Zenon, <1>6, <1>7, <2>8 DEF PrintsComplete
    <3>2. CASE \E k \in 1 .. n : printed[k] = <<s, v>>
      BY Zenon, <2>2, <3>0, <3>2
    <3>3. CASE v = counter[s] /\ \E u \in Threads : pc[u] = "print" /\ row[u] = s
      <4>1. PICK u \in Threads : pc[u] = "print" /\ row[u] = s
        BY <3>3
      <4>2. CASE u = t
        <5>1. e = <<s, v>>
          BY <1>1, <2>1, <3>3, <4>1, <4>2
        <5> QED
          BY <2>2, <3>0, <5>1
      <4>3. CASE u # t
        BY <1>4, <3>3, <4>1, <4>3
      <4> QED
        BY <4>2, <4>3
    <3> QED
      BY <3>1, <3>2, <3>3
  <2>9. ASSUME NEW u \in Threads, pc'[u] = "print"
        PROVE  /\ counter[row[u]] > 0
               /\ \A k \in 1 .. n + 1 : printed'[k][1] = row[u] => printed'[k][2] < counter[row[u]]
    <3>1. u # t /\ pc[u] = "print" /\ row[u] # r
      BY <1>4, <1>5, <2>9
    <3>2. /\ counter[row[u]] > 0
          /\ \A k \in 1 .. n : printed[k][1] = row[u] => printed[k][2] < counter[row[u]]
      BY <1>7, <3>1 DEF PrintsComplete
    <3> QED
      BY Zenon, <2>1, <2>2, <2>3, <3>1, <3>2
  <2>10. PrintsComplete'
    <3>1. DOMAIN printed' = 1 .. n + 1 /\ counter' = counter /\ row' = row /\ method' = method
      BY <1>2, <2>2
    <3>2. \A k \in DOMAIN printed' : printed'[k][2] <= counter'[printed'[k][1]]
      BY Zenon, <2>7, <3>1
    <3>3. \A s \in Rows : \A v \in 1 .. counter'[s] :
            method' = "lock" /\ v % PrintEvery = 0 =>
               \/ \E k \in DOMAIN printed' : printed'[k] = <<s, v>>
               \/ v = counter'[s] /\ \E u \in Threads : pc'[u] = "print" /\ row'[u] = s
      BY Zenon, <2>8, <3>1
    <3>4. \A u \in Threads : pc'[u] = "print" =>
            /\ counter'[row'[u]] > 0
            /\ \A k \in DOMAIN printed' : printed'[k][1] = row'[u] => printed'[k][2] < counter'[row'[u]]
      BY Zenon, <2>9, <3>1
    <3> QED
      BY Zenon, <3>2, <3>3, <3>4 DEF PrintsComplete
  <2> QED
    BY <2>6, <2>10
<1> QED
  BY <1>11, <1>12

(* The other steps print nothing.                                          *)
LEMMA OthersInOrder ==
    ASSUME CountersIInv, PrintsComplete, PrintedInOrder, [CountersNext]_cvars,
           \A t \in Threads : ~PrintCount(t)
    PROVE  PrintsComplete' /\ PrintedInOrder'
<1>0. /\ counter \in [Rows -> Nat] /\ row \in [Threads -> Rows] /\ printed \in Seq(Rows \X Nat)
      /\ pc \in [Threads -> {"next", "lock", "load", "store", "print", "unlock", "fetch_add"}]
  BY DEF CountersIInv, CountersTypeOK
<1>1. \A k \in DOMAIN printed : printed[k][1] \in Rows /\ printed[k][2] \in Nat
  BY <1>0
<1>2. printed' = printed /\ method' = method
  BY DEF CountersNext, AllDone, Choose, Lock, Load, Store, Unlock, FetchAdd, cvars
<1>3. PrintedInOrder'
  BY <1>2 DEF PrintedInOrder
<1>4. ASSUME counter' = counter,
             \A u \in Threads : pc'[u] = "print" <=> pc[u] = "print",
             \A u \in Threads : pc[u] = "print" => row'[u] = row[u]
      PROVE  PrintsComplete'
  BY <1>2, <1>4 DEF PrintsComplete
<1>5. ASSUME NEW t \in Threads, Store(t) PROVE PrintsComplete'
  <2>1. PICK r \in Rows, c \in Nat : r = row[t] /\ c = counter[r]
    BY <1>0
  <2>2. reg[t] = c /\ method = "lock"
    BY <1>5, <2>1 DEF Store, CountersIInv, InSection
  <2>3. /\ counter' = [counter EXCEPT ![r] = c + 1] /\ pc' = [pc EXCEPT ![t] = "print"]
        /\ row' = row
    BY <1>5, <2>1, <2>2 DEF Store, Goto
  <2>4. /\ counter'[r] = c + 1 /\ pc'[t] = "print"
        /\ \A s \in Rows : s # r => counter'[s] = counter[s]
        /\ \A u \in Threads : u # t => pc'[u] = pc[u]
    BY <1>0, <2>3
  <2>5. \A u \in Threads : pc[u] = "print" => row[u] # r
    BY <1>5, <2>1 DEF Store, CountersIInv, InSection
  <2>6. \A k \in DOMAIN printed : printed[k][2] <= counter'[printed[k][1]]
    <3>1. \A k \in DOMAIN printed : printed[k][2] <= counter[printed[k][1]]
      BY DEF PrintsComplete
    <3> QED
      BY <1>1, <2>1, <2>4, <3>1
  <2>7. ASSUME NEW s \in Rows, NEW v \in 1 .. counter'[s], v % PrintEvery = 0
        PROVE  \/ \E k \in DOMAIN printed : printed[k] = <<s, v>>
               \/ v = counter'[s] /\ \E u \in Threads : pc'[u] = "print" /\ row[u] = s
    <3>1. CASE s = r /\ v = c + 1
      BY <2>1, <2>4, <3>1
    <3>2. CASE s = r /\ v \in 1 .. c
      BY <2>1, <2>2, <2>5, <2>7, <3>2 DEF PrintsComplete
    <3>3. CASE s # r
      <4>1. \/ \E k \in DOMAIN printed : printed[k] = <<s, v>>
            \/ v = counter[s] /\ \E u \in Threads : pc[u] = "print" /\ row[u] = s
        BY <2>2, <2>4, <2>7, <3>3 DEF PrintsComplete
      <4>2. \A u \in Threads : row[u] = s => u # t
        BY <2>1, <3>3
      <4> QED
        BY <2>4, <3>3, <4>1, <4>2
    <3>4. s = r => v \in 1 .. c \/ v = c + 1
      BY <2>1, <2>4
    <3> QED
      BY <3>1, <3>2, <3>3, <3>4
  <2>8. ASSUME NEW u \in Threads, pc'[u] = "print"
        PROVE  /\ counter'[row[u]] > 0
               /\ \A k \in DOMAIN printed : printed[k][1] = row[u] => printed[k][2] < counter'[row[u]]
    <3>1. CASE u = t
      <4>1. \A k \in DOMAIN printed : printed[k][1] = r => printed[k][2] <= c
        BY <2>1 DEF PrintsComplete
      <4> QED
        BY <1>1, <2>1, <2>4, <3>1, <4>1
    <3>2. CASE u # t
      <4>1. pc[u] = "print" /\ row[u] # r /\ counter'[row[u]] = counter[row[u]]
        BY <1>0, <2>4, <2>5, <2>8, <3>2
      <4> QED
        BY <4>1 DEF PrintsComplete
    <3> QED
      BY <3>1, <3>2
  <2> QED
    BY <1>2, <2>3, <2>6, <2>7, <2>8 DEF PrintsComplete
<1>6. ASSUME NEW t \in Threads, FetchAdd(t) PROVE PrintsComplete'
  <2>1. PICK r \in Rows, c \in Nat : r = row[t] /\ c = counter[r]
    BY <1>0
  <2>2. method = "fetch_add" /\ \A u \in Threads : pc[u] # "print"
    BY <1>6 DEF FetchAdd, CountersIInv, InSection
  <2>3. /\ counter' = [counter EXCEPT ![r] = c + 1] /\ pc' = [pc EXCEPT ![t] = "next"]
    BY <1>6, <2>1 DEF FetchAdd, Goto
  <2>4. \A u \in Threads : pc'[u] # "print"
    BY <1>0, <2>2, <2>3
  <2>5. \A k \in DOMAIN printed : printed[k][2] <= counter'[printed[k][1]]
    <3>1. \A k \in DOMAIN printed : printed[k][2] <= counter[printed[k][1]]
      BY DEF PrintsComplete
    <3> QED
      BY <1>0, <1>1, <2>1, <2>3, <3>1
  <2> QED
    BY <1>2, <2>2, <2>4, <2>5 DEF PrintsComplete
<1>7. ASSUME NEW t \in Threads, NEW r \in Rows, Choose(t, r) PROVE PrintsComplete'
  <2>1. /\ counter' = counter /\ pc[t] = "next" /\ pc' = [pc EXCEPT ![t] = method]
        /\ row' = [row EXCEPT ![t] = r] /\ method \in {"lock", "fetch_add"}
    BY <1>7, CountersAssumption DEF Choose, Goto, CountersIInv, CountersTypeOK
  <2> QED
    BY <1>0, <1>4, <2>1
<1>8. ASSUME NEW t \in Threads, Lock(t) \/ Load(t) \/ Unlock(t) PROVE PrintsComplete'
  <2>1. /\ counter' = counter /\ row' = row /\ pc[t] # "print"
        /\ \E l \in {"load", "store", "next"} : pc' = [pc EXCEPT ![t] = l]
    BY <1>8 DEF Lock, Load, Unlock, Goto
  <2>2. PICK l \in {"load", "store", "next"} : pc' = [pc EXCEPT ![t] = l]
    BY Zenon, <2>1
  <2>3. \A u \in Threads : pc'[u] = "print" <=> pc[u] = "print"
    BY <1>0, <2>1, <2>2
  <2> QED
    BY <1>4, <2>1, <2>3
<1>9. CASE UNCHANGED cvars
  <2>1. counter' = counter /\ pc' = pc /\ row' = row
    BY <1>9 DEF cvars
  <2>2. \A u \in Threads : pc'[u] = "print" <=> pc[u] = "print"
    BY <2>1
  <2>3. \A u \in Threads : pc[u] = "print" => row'[u] = row[u]
    BY <2>1
  <2> QED
    BY <1>3, <1>4, <2>1, <2>2, <2>3
<1> QED
  BY <1>3, <1>5, <1>6, <1>7, <1>8, <1>9 DEF CountersNext, AllDone

(***************************************************************************)
(* Under the locks every multiple of PrintEvery is printed, once and in    *)
(* order, for any number of threads, rows and increments.                  *)
(***************************************************************************)
THEOREM MultiplesPrinted == CountersSpec => [](PrintedInOrder /\ PrintsComplete)
<1>1. CountersInit => PrintedInOrder /\ PrintsComplete
  BY DEF CountersInit, PrintedInOrder, PrintsComplete
<1>2. CountersIInv /\ PrintedInOrder /\ PrintsComplete /\ [CountersNext]_cvars
      => (PrintedInOrder /\ PrintsComplete)'
  <2> SUFFICES ASSUME CountersIInv, PrintedInOrder, PrintsComplete, [CountersNext]_cvars
               PROVE  PrintsComplete' /\ PrintedInOrder'
    OBVIOUS
  <2>1. CASE \E t \in Threads : PrintCount(t)
    BY <2>1, PrintInOrder
  <2>2. CASE \A t \in Threads : ~PrintCount(t)
    BY <2>2, OthersInOrder
  <2> QED
    BY <2>1, <2>2
<1> QED
  BY <1>1, <1>2, CountersInductive, PTL DEF CountersSpec
==============================================================================
