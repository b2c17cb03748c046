----------------------------- MODULE IoatBench -----------------------------
(***************************************************************************)
(* ioat/bench.cc: worker threads keep the DMA channels they own full of     *)
(* copies until the time is up, drain them, and main() frees the pools and  *)
(* detaches the channels.  A completion runs ioat_done() in the worker that *)
(* polls, which submits the task again or, when draining, gives it back.    *)
(*                                                                          *)
(* A channel completes its copies in the order of submission, and           *)
(* spdk_ioat_process_events() calls back those completed when it was        *)
(* called.  A channel belongs to one worker, so that is one step.           *)
(***************************************************************************)
EXTENDS Integers, Sequences, FiniteSets, SequencesExt

CONSTANTS
    NumWorkers,      \* cores of the core mask; core 0 is the master
    NumChans,        \* channels attached
    PoolSize,        \* 512: buffers, and tasks, of a channel's pools
    QueueDepth       \* -q

Workers == 0 .. NumWorkers - 1
Chans == 0 .. NumChans - 1
Items == 1 .. PoolSize
NULL == 0

VARIABLES
    data, task,      \* the free buffers and the free tasks of each channel
    buf,             \* buf[c][t]: source and destination of task t
    ring,            \* tasks submitted and not called back, oldest first
    finished,        \* how many of them the hardware has copied
    depth, draining, \* current_queue_depth, is_draining
    pc, at, left,    \* worker: step, channels left in the pass, copies left
    timeUp,          \* the ticks have passed tsc_end
    main             \* main(): "run", then "cleanup", then "exit"

cvars == <<data, task, buf, ring, depth, draining>>
wvars == <<pc, at, left>>
vars == <<cvars, finished, wvars, timeUp, main>>

-----------------------------------------------------------------------------
\* register_workers() pushes each core at the front; the channels go round
\* that list, each pushed at the front of its worker's.
Ctx(w) ==
    SelectSeq([k \in 1 .. NumChans |-> NumChans - k],
              LAMBDA c : c % NumWorkers = NumWorkers - 1 - w)

Init ==
    /\ data = [c \in Chans |-> Items] /\ task = [c \in Chans |-> Items]
    /\ buf = [c \in Chans |-> [t \in Items |-> <<NULL, NULL>>]]
    /\ ring = [c \in Chans |-> <<>>] /\ finished = [c \in Chans |-> 0]
    /\ depth = [c \in Chans |-> 0] /\ draining = [c \in Chans |-> FALSE]
    /\ pc = [w \in Workers |-> "submit"]
    /\ at = [w \in Workers |-> Ctx(w)]
    /\ left = [w \in Workers |-> QueueDepth]
    /\ timeUp = [w \in Workers |-> FALSE]
    /\ main = "run"

\* spdk_mempool_get(): NULL when the pool is empty.
Get(pool) == IF pool = {} THEN NULL ELSE CHOOSE x \in pool : \A y \in pool : x <= y

Goto(w, p, list) == pc' = [pc EXCEPT ![w] = p] /\ at' = [at EXCEPT ![w] = list]

\* One turn of the loop of submit_xfers(), with submit_single_xfer().
Submit(w) ==
    /\ pc[w] = "submit" /\ at[w] # <<>> /\ left[w] > 0
    /\ LET c == Head(at[w])
           src == Get(data[c])
           dst == Get(data[c] \ {src})
           t == Get(task[c])
       IN  /\ data' = [data EXCEPT ![c] = @ \ {src, dst}]
           /\ task' = [task EXCEPT ![c] = @ \ {t}]
           /\ buf' = [buf EXCEPT ![c][t] = <<src, dst>>]
           /\ ring' = [ring EXCEPT ![c] = Append(@, t)]
           /\ depth' = [depth EXCEPT ![c] = @ + 1]
    /\ left' = [left EXCEPT ![w] = @ - 1]
    /\ UNCHANGED <<draining, finished, pc, at, timeUp, main>>

\* The worker's next channel, or its first pass of polling.
Submitted(w) ==
    /\ pc[w] = "submit" /\ (at[w] # <<>> => left[w] = 0)
    /\ left' = [left EXCEPT ![w] = QueueDepth]
    /\ IF at[w] # <<>> THEN Goto(w, "submit", Tail(at[w])) ELSE Goto(w, "poll", Ctx(w))
    /\ UNCHANGED <<cvars, finished, timeUp, main>>

\* Mutated: the destination is not given back.
ProcessEvents_LosesDst(c) ==
    LET n == finished[c]
        over == SubSeq(ring[c], 1, n)
        rest == SubSeq(ring[c], n + 1, Len(ring[c]))
        back == {over[k] : k \in 1 .. n}
    IN  /\ finished' = [finished EXCEPT ![c] = 0]
        /\ ring' = [ring EXCEPT ![c] = IF draining[c] THEN rest ELSE rest \o over]
        /\ task' = [task EXCEPT ![c] = IF draining[c] THEN @ \cup back ELSE @]
        /\ data' = [data EXCEPT ![c] =
               IF draining[c] THEN @ \cup {buf[c][t][1] : t \in back} ELSE @]
        /\ depth' = [depth EXCEPT ![c] = IF draining[c] THEN @ - n ELSE @]
        /\ UNCHANGED <<buf, draining>>

\* spdk_ioat_process_events() with ioat_done() for each finished copy: the
\* task's buffers and the task go back to the pools, or it is submitted again
\* (depth down and up).
ProcessEvents(c) ==
    LET n == finished[c]
        over == SubSeq(ring[c], 1, n)
        rest == SubSeq(ring[c], n + 1, Len(ring[c]))
        back == {over[k] : k \in 1 .. n}
    IN  /\ finished' = [finished EXCEPT ![c] = 0]
        /\ ring' = [ring EXCEPT ![c] = IF draining[c] THEN rest ELSE rest \o over]
        /\ task' = [task EXCEPT ![c] = IF draining[c] THEN @ \cup back ELSE @]
        /\ data' = [data EXCEPT ![c] =
               IF draining[c] THEN @ \cup UNION {ToSet(buf[c][t]) : t \in back} ELSE @]
        /\ depth' = [depth EXCEPT ![c] = IF draining[c] THEN @ - n ELSE @]
        /\ UNCHANGED <<buf, draining>>

Poll(w) ==
    /\ pc[w] = "poll" /\ at[w] # <<>>
    /\ ProcessEvents(Head(at[w]))
    /\ Goto(w, "poll", Tail(at[w]))
    /\ UNCHANGED <<left, timeUp, main>>

\* The time is looked at after every pass.
Ticks(w) ==
    /\ pc[w] = "poll" /\ at[w] = <<>>
    /\ Goto(w, IF timeUp[w] THEN "mark" ELSE "poll", Ctx(w))
    /\ UNCHANGED <<cvars, finished, left, timeUp, main>>

\* Mutated: the channel is drained without being marked.
Mark_NotMarked(w) ==
    /\ pc[w] = "mark" /\ at[w] # <<>>
    /\ Goto(w, "drain", at[w])
    /\ UNCHANGED <<cvars, finished, left, timeUp, main>>

\* The channel is marked, drain_io() polls it until its depth is zero, and
\* the worker takes the next or returns.
Mark(w) ==
    /\ pc[w] = "mark" /\ at[w] # <<>>
    /\ draining' = [draining EXCEPT ![Head(at[w])] = TRUE]
    /\ Goto(w, "drain", at[w])
    /\ UNCHANGED <<data, task, buf, ring, depth, finished, left, timeUp, main>>

Drain(w) ==
    /\ pc[w] = "drain" /\ depth[Head(at[w])] > 0
    /\ ProcessEvents(Head(at[w]))
    /\ UNCHANGED <<wvars, timeUp, main>>

Drained(w) ==
    /\ pc[w] = "drain" /\ depth[Head(at[w])] = 0
    /\ Goto(w, "mark", Tail(at[w]))
    /\ UNCHANGED <<cvars, finished, left, timeUp, main>>

Return(w) ==
    /\ pc[w] = "mark" /\ at[w] = <<>>
    /\ Goto(w, "returned", <<>>)
    /\ UNCHANGED <<cvars, finished, left, timeUp, main>>

work_fn(w) ==
    \/ Submit(w) \/ Submitted(w) \/ Poll(w) \/ Ticks(w)
    \/ Mark(w) \/ Drain(w) \/ Drained(w) \/ Return(w)

Hardware(c) ==
    /\ finished[c] < Len(ring[c])
    /\ finished' = [finished EXCEPT ![c] = @ + 1]
    /\ UNCHANGED <<cvars, wvars, timeUp, main>>

Expire(w) ==
    /\ ~timeUp[w]
    /\ timeUp' = [timeUp EXCEPT ![w] = TRUE]
    /\ UNCHANGED <<cvars, finished, wvars, main>>

\* Mutated: main() waits for its own worker only.
WaitAll_MasterOnly ==
    /\ main = "run" /\ pc[0] = "returned"
    /\ main' = "cleanup"
    /\ UNCHANGED <<cvars, finished, wvars, timeUp>>

\* main(): its own work_fn() has returned and spdk_env_thread_wait_all().
WaitAll ==
    /\ main = "run" /\ \A w \in Workers : pc[w] = "returned"
    /\ main' = "cleanup"
    /\ UNCHANGED <<cvars, finished, wvars, timeUp>>

\* unregister_workers() and ioat_exit().
Cleanup ==
    /\ main = "cleanup"
    /\ main' = "exit"
    /\ UNCHANGED <<cvars, finished, wvars, timeUp>>

Exited == main = "exit" /\ UNCHANGED vars

Next ==
    \/ \E w \in Workers : work_fn(w) \/ Expire(w)
    \/ \E c \in Chans : Hardware(c)
    \/ WaitAll \/ Cleanup \/ Exited

\* Threads on cores of their own, hardware that goes on, time that passes.
Fairness ==
    /\ \A w \in Workers : WF_vars(work_fn(w)) /\ WF_vars(Expire(w))
    /\ \A c \in Chans : WF_vars(Hardware(c))
    /\ WF_vars(WaitAll) /\ WF_vars(Cleanup)

Spec == Init /\ [][Next]_vars /\ Fairness

-----------------------------------------------------------------------------
Placed(c) == {buf[c][ring[c][k]][i] : k \in DOMAIN ring[c], i \in 1 .. 2}

(***************************************************************************)
(* The type invariant: current_queue_depth is the number of copies that    *)
(* were submitted and not called back, within -q.                          *)
(***************************************************************************)
TypeOK ==
    /\ data \in [Chans -> SUBSET Items] /\ task \in [Chans -> SUBSET Items]
    /\ \A c \in Chans :
           /\ depth[c] = Len(ring[c]) /\ depth[c] <= QueueDepth
           /\ finished[c] \in 0 .. Len(ring[c])
    /\ draining \in [Chans -> BOOLEAN] /\ timeUp \in [Workers -> BOOLEAN]
    /\ pc \in [Workers -> {"submit", "poll", "mark", "drain", "returned"}]
    /\ at \in [Workers -> Seq(Chans)] /\ left \in [Workers -> 0 .. QueueDepth]
    /\ main \in {"run", "cleanup", "exit"}

(***************************************************************************)
(* No buffer is lost, used by two copies at once, or NULL: every buffer    *)
(* and every task is in its pool or in one copy in flight, through every   *)
(* resubmission and the drain (ioat_done() against submit_xfers()).        *)
(***************************************************************************)
Conserved ==
    \A c \in Chans :
        /\ data[c] \cap Placed(c) = {} /\ data[c] \cup Placed(c) = Items
        /\ Cardinality(Placed(c)) = 2 * Len(ring[c])
        /\ task[c] \cap ToSet(ring[c]) = {} /\ task[c] \cup ToSet(ring[c]) = Items
        /\ IsInjective(ring[c])

(***************************************************************************)
(* When main() frees the pools and detaches the channels, no copy is in    *)
(* flight, none is waiting to be called back, and the pools are full.      *)
(***************************************************************************)
QuietAtCleanup ==
    main # "run" => \A c \in Chans :
        ring[c] = <<>> /\ data[c] = Items /\ task[c] = Items

(***************************************************************************)
(* The benchmark has ended.                                                *)
(***************************************************************************)
Ended == main = "exit"
=============================================================================
