------------------------------- MODULE CondWait -------------------------------
(***************************************************************************)
(* bench/thread/cond_wait.cc: main() hands ITERS jobs to a worker through a *)
(* counter, a mutex and a condition variable that it signals after it has   *)
(* released the mutex.  L refers to that file.                              *)
(***************************************************************************)
EXTENDS Integers

CONSTANT ITERS
ASSUME CondWaitAssumption == ITERS \in Nat \ {0}

(* i: the jobs main() has signalled; wpc and mpc: where the two threads    *)
(* are.                                                                    *)
VARIABLES mutex, num_jobs, tot_jobs, i, wpc, mpc
vars == <<mutex, num_jobs, tot_jobs, i, wpc, mpc>>

Init ==
    /\ mutex = "free"
    /\ num_jobs = 0
    /\ tot_jobs = 0
    /\ i = 0
    /\ wpc = "lock"
    /\ mpc = "lock"
------------------------------------------------------------------------------
(* Mutant: the worker waits before it has looked at num_jobs.              *)
WorkerLock_WaitsFirst ==
    /\ wpc \in {"lock", "wake"}
    /\ mutex = "free"
    /\ mutex' = "worker"
    /\ wpc' = IF wpc = "lock" THEN "enter" ELSE "check"
    /\ UNCHANGED <<num_jobs, tot_jobs, i, mpc>>

(* The first lock, or the one that pthread_cond_wait() takes again.        *)
WorkerLock ==
    /\ wpc \in {"lock", "wake"}
    /\ mutex = "free"
    /\ mutex' = "worker"
    /\ wpc' = "check"
    /\ UNCHANGED <<num_jobs, tot_jobs, i, mpc>>

(* Mutant: the jobs are counted as one.                                    *)
Process_One ==
    /\ wpc = "check"
    /\ tot_jobs' = IF num_jobs > 0 THEN tot_jobs + 1 ELSE tot_jobs
    /\ num_jobs' = 0
    /\ wpc' = IF num_jobs > 0 /\ tot_jobs' = ITERS THEN "done" ELSE "enter"
    /\ UNCHANGED <<mutex, i, mpc>>

(* Process all jobs; after the last one return, still with the mutex.      *)
Process ==
    /\ wpc = "check"
    /\ tot_jobs' = tot_jobs + num_jobs
    /\ num_jobs' = 0
    /\ wpc' = IF num_jobs > 0 /\ tot_jobs' = ITERS THEN "done" ELSE "enter"
    /\ UNCHANGED <<mutex, i, mpc>>

(* pthread_cond_wait() releases the mutex and sleeps in one step, ...      *)
Wait ==
    /\ wpc = "enter"
    /\ mutex' = "free"
    /\ wpc' = "wait"
    /\ UNCHANGED <<num_jobs, tot_jobs, i, mpc>>

(* ... and may return without a signal.                                    *)
SpuriousWakeup ==
    /\ wpc = "wait"
    /\ wpc' = "wake"
    /\ UNCHANGED <<mutex, num_jobs, tot_jobs, i, mpc>>
------------------------------------------------------------------------------
MainLock ==
    /\ mpc = "lock"
    /\ mutex = "free"
    /\ mutex' = "main"
    /\ mpc' = "enqueue"
    /\ UNCHANGED <<num_jobs, tot_jobs, i, wpc>>

Enqueue ==
    /\ mpc = "enqueue"
    /\ num_jobs' = num_jobs + 1
    /\ mpc' = "unlock"
    /\ UNCHANGED <<mutex, tot_jobs, i, wpc>>

MainUnlock ==
    /\ mpc = "unlock"
    /\ mutex' = "free"
    /\ mpc' = "signal"
    /\ UNCHANGED <<num_jobs, tot_jobs, i, wpc>>

(* pthread_cond_signal() wakes the worker if it sleeps, and is lost if not.*)
Signal ==
    /\ mpc = "signal"
    /\ wpc' = IF wpc = "wait" THEN "wake" ELSE wpc
    /\ i' = i + 1
    /\ mpc' = IF i + 1 < ITERS THEN "lock" ELSE "join"
    /\ UNCHANGED <<mutex, num_jobs, tot_jobs>>

Join ==
    /\ mpc = "join"
    /\ wpc = "done"
    /\ mpc' = "done"
    /\ UNCHANGED <<mutex, num_jobs, tot_jobs, i, wpc>>

Over == mpc = "done" /\ UNCHANGED vars

Worker == WorkerLock \/ Process \/ Wait
Main == MainLock \/ Enqueue \/ MainUnlock \/ Signal \/ Join

Next == Worker \/ SpuriousWakeup \/ Main \/ Over

Spec == Init /\ [][Next]_vars

(* Both threads run, and a mutex that is free again and again is finally   *)
(* given to the thread that waits for it.                                  *)
Fairness ==
    /\ WF_vars(Worker) /\ SF_vars(WorkerLock)
    /\ WF_vars(Main) /\ SF_vars(MainLock)

FairSpec == Spec /\ Fairness
------------------------------------------------------------------------------
(* Every variable holds a value of its type.                               *)
TypeOK ==
    /\ mutex \in {"free", "worker", "main"}
    /\ num_jobs \in 0 .. ITERS
    /\ tot_jobs \in 0 .. ITERS
    /\ i \in 0 .. ITERS
    /\ wpc \in {"lock", "check", "enter", "wait", "wake", "done"}
    /\ mpc \in {"lock", "enqueue", "unlock", "signal", "join", "done"}

(* Every job that main() has enqueued is waiting or processed, and the     *)
(* worker returns with all of them (L37-40).                               *)
JobsConserved ==
    /\ tot_jobs + num_jobs = IF mpc \in {"unlock", "signal"} THEN i + 1 ELSE i
    /\ wpc = "done" => tot_jobs = ITERS

(* "Missed signals" (L24-26): the worker does not sleep on a job whose     *)
(* signal is already gone.                                                 *)
NoLostWakeup == wpc = "wait" /\ num_jobs > 0 => mpc \in {"unlock", "signal"}

(* main() has returned.                                                    *)
Returned == mpc = "done"

(* The inductive invariant: who holds the mutex, and where no job waits.   *)
IInv ==
    /\ TypeOK
    /\ JobsConserved
    /\ NoLostWakeup
    /\ mutex = "worker" <=> wpc \in {"check", "enter", "done"}
    /\ mutex = "main" <=> mpc \in {"enqueue", "unlock"}
    /\ wpc # "done" => tot_jobs < ITERS
    /\ wpc = "enter" => num_jobs = 0
    /\ mpc \in {"lock", "enqueue", "unlock", "signal"} => i < ITERS
    /\ mpc \in {"join", "done"} => i = ITERS
==============================================================================
