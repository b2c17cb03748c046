------------------------------- MODULE Counters -------------------------------
(***************************************************************************)
(* The shared counters of locks/elementry_locks.c (E), locks/spinlock.c,    *)
(* locks/manylock.c (M) and locks/fetch-add.c: threads increment rows of an *)
(* array, each row under its own spinlock or mutex, or by an atomic         *)
(* fetch-and-add.  counter++ under a lock is a load and a store.            *)
(***************************************************************************)
EXTENDS Integers, Sequences

CONSTANTS Threads, Rows, NoThread,
          MAX,         \* increments of a thread
          PrintEvery,  \* the values that E prints
          Methods      \* subset of {"lock", "fetch_add"}

ASSUME CountersAssumption ==
    /\ NoThread \notin Threads
    /\ MAX \in Nat /\ PrintEvery \in Nat \ {0}
    /\ Methods \subseteq {"lock", "fetch_add"}

(* iters: the increments a thread has begun; reg: its register; done: the  *)
(* increments of a row that are complete, which is not in the code.        *)
VARIABLES method, counter, lock, pc, row, reg, iters, done, printed
cvars == <<method, counter, lock, pc, row, reg, iters, done, printed>>

CountersInit ==
    /\ method \in Methods
    /\ counter = [r \in Rows |-> 0]
    /\ lock = [r \in Rows |-> NoThread]
    /\ pc = [t \in Threads |-> "next"]
    /\ row \in [Threads -> Rows]
    /\ reg = [t \in Threads |-> 0]
    /\ iters = [t \in Threads |-> 0]
    /\ done = [r \in Rows |-> 0]
    /\ printed = <<>>

Goto(t, l) == pc' = [pc EXCEPT ![t] = l]

(* Take a random row.                                                      *)
Choose(t, r) ==
    /\ pc[t] = "next"
    /\ iters[t] < MAX
    /\ iters' = [iters EXCEPT ![t] = @ + 1]
    /\ row' = [row EXCEPT ![t] = r]
    /\ Goto(t, method)
    /\ UNCHANGED <<method, counter, lock, reg, done, printed>>

(* Mutant: no lock is taken.                                               *)
Lock_None(t) ==
    /\ pc[t] = "lock"
    /\ Goto(t, "load")
    /\ UNCHANGED <<method, counter, lock, row, reg, iters, done, printed>>

Lock(t) ==
    /\ pc[t] = "lock"
    /\ lock[row[t]] = NoThread
    /\ lock' = [lock EXCEPT ![row[t]] = t]
    /\ Goto(t, "load")
    /\ UNCHANGED <<method, counter, row, reg, iters, done, printed>>

Load(t) ==
    /\ pc[t] = "load"
    /\ reg' = [reg EXCEPT ![t] = counter[row[t]]]
    /\ Goto(t, "store")
    /\ UNCHANGED <<method, counter, lock, row, iters, done, printed>>

Store(t) ==
    /\ pc[t] = "store"
    /\ counter' = [counter EXCEPT ![row[t]] = reg[t] + 1]
    /\ done' = [done EXCEPT ![row[t]] = @ + 1]
    /\ Goto(t, "print")
    /\ UNCHANGED <<method, lock, row, reg, iters, printed>>

(* Mutant: the increment is printed before it is checked.                  *)
PrintCount_Always(t) ==
    /\ pc[t] = "print"
    /\ printed' = Append(printed, <<row[t], counter[row[t]]>>)
    /\ Goto(t, "unlock")
    /\ UNCHANGED <<method, counter, lock, row, reg, iters, done>>

(* E prints some values while it holds the lock.                           *)
PrintCount(t) ==
    /\ pc[t] = "print"
    /\ printed' = IF counter[row[t]] % PrintEvery = 0
                  THEN Append(printed, <<row[t], counter[row[t]]>>) ELSE printed
    /\ Goto(t, "unlock")
    /\ UNCHANGED <<method, counter, lock, row, reg, iters, done>>

Unlock(t) ==
    /\ pc[t] = "unlock"
    /\ lock' = [lock EXCEPT ![row[t]] = NoThread]
    /\ Goto(t, "next")
    /\ UNCHANGED <<method, counter, row, reg, iters, done, printed>>

(* __sync_fetch_and_add().                                                 *)
FetchAdd(t) ==
    /\ pc[t] = "fetch_add"
    /\ counter' = [counter EXCEPT ![row[t]] = @ + 1]
    /\ done' = [done EXCEPT ![row[t]] = @ + 1]
    /\ Goto(t, "next")
    /\ UNCHANGED <<method, lock, row, reg, iters, printed>>

AllDone == (\A t \in Threads : pc[t] = "next" /\ iters[t] = MAX) /\ UNCHANGED cvars

CountersNext ==
    \/ \E t \in Threads :
          \/ \E r \in Rows : Choose(t, r)
          \/ Lock(t) \/ Load(t) \/ Store(t) \/ PrintCount(t) \/ Unlock(t)
          \/ FetchAdd(t)
    \/ AllDone

CountersSpec == CountersInit /\ [][CountersNext]_cvars
------------------------------------------------------------------------------
InSection(t) == pc[t] \in {"load", "store", "print", "unlock"}

(* Every variable holds a value of its type.                               *)
CountersTypeOK ==
    /\ method \in Methods
    /\ counter \in [Rows -> Nat]
    /\ lock \in [Rows -> Threads \cup {NoThread}]
    /\ pc \in [Threads -> {"next", "lock", "load", "store", "print", "unlock",
                           "fetch_add"}]
    /\ row \in [Threads -> Rows]
    /\ reg \in [Threads -> Nat]
    /\ iters \in [Threads -> 0 .. MAX]
    /\ done \in [Rows -> Nat]
    /\ printed \in Seq(Rows \X Nat)

(* No increment is lost, whatever the threads do meanwhile.                *)
NoLostUpdate == \A r \in Rows : counter[r] = done[r]

(* A thread inside a section holds the lock of its row.                    *)
HoldsLock == \A t \in Threads : InSection(t) <=> \E r \in Rows : lock[r] = t

(* Every multiple of PrintEvery is printed once and in order, because the  *)
(* test is made under the lock (E51-54): the values of a row grow, and the *)
(* one before each of them has been printed.                               *)
PrintedInOrder ==
    \A k \in DOMAIN printed :
        LET Earlier == {j \in 1 .. k - 1 : printed[j][1] = printed[k][1]} IN
        /\ \A j \in Earlier : printed[j][2] < printed[k][2]
        /\ \/ printed[k][2] = PrintEvery
           \/ \E j \in Earlier : printed[j][2] + PrintEvery = printed[k][2]

(* No multiple is left out up to the counter, which only the thread about  *)
(* to print it may still have to print.                                    *)
PrintsComplete ==
    /\ \A k \in DOMAIN printed : printed[k][2] <= counter[printed[k][1]]
    /\ \A r \in Rows : \A v \in 1 .. counter[r] :
          method = "lock" /\ v % PrintEvery = 0 =>
             \/ \E k \in DOMAIN printed : printed[k] = <<r, v>>
             \/ v = counter[r] /\ \E t \in Threads : pc[t] = "print" /\ row[t] = r
    /\ \A t \in Threads : pc[t] = "print" =>
          /\ counter[row[t]] > 0
          /\ \A k \in DOMAIN printed : printed[k][1] = row[t] => printed[k][2] < counter[row[t]]

(* The inductive invariant: the register is current while its thread is    *)
(* about to store, since no other thread is in a section of that row.      *)
CountersIInv ==
    /\ CountersTypeOK
    /\ NoLostUpdate
    /\ \A t \in Threads : InSection(t) <=> lock[row[t]] = t
    /\ \A r \in Rows : lock[r] # NoThread => row[lock[r]] = r
    /\ \A t \in Threads : pc[t] = "store" => reg[t] = counter[row[t]]
    /\ \A t \in Threads : pc[t] = "fetch_add" => method = "fetch_add"
    /\ \A t \in Threads : pc[t] = "lock" \/ InSection(t) => method = "lock"
==============================================================================
