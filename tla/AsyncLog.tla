------------------------------ MODULE AsyncLog ------------------------------
(***************************************************************************)
(* spdlog's asynchronous logger: threads push messages into the bounded     *)
(* queue, one worker thread pops them, writes them to the sinks and         *)
(* flushes, and the destructor stops the worker.  The queue is BoundedFifo, *)
(* which MpmcQueue implements.  L refers to details/async_log_helper.h.     *)
(***************************************************************************)
EXTENDS Integers, Sequences, FiniteSets

CONSTANTS Loggers, Main, Worker, NoThread, NoItem,
          Capacity, Policy, NSinks, MaxMsgs, MaxFlushes, SinkThrows, Interval

Threads == Loggers \cup {Main, Worker}
Sinks == 1 .. NSinks

Msg(kind, t, n) == [msg_type |-> kind, from |-> t, n |-> n]
Items == [msg_type : {"log", "flush", "terminate"}, from : Threads,
          n : 0 .. MaxMsgs]

VARIABLES q, reading, ret,                          \* the queue
          pc, msg, after, sent, flushes,            \* the pushing threads
          wpc, sink, flush_requested, terminate_requested,   \* the worker
          written, flushed                          \* the sinks

INSTANCE BoundedFifo

queue == <<q, reading, ret>>
pushvars == <<pc, msg, after, sent, flushes>>
workvars == <<wpc, sink, flush_requested, terminate_requested>>
sinkvars == <<written, flushed>>
vars == <<q, reading, ret, pushvars, workvars, sinkvars>>

Init ==
    /\ FifoInit
    /\ pc = [t \in Threads |-> "idle"]
    /\ msg = [t \in Threads |-> NoItem]
    /\ after = [t \in Threads |-> "idle"]
    /\ sent = [t \in Loggers |-> 0]
    /\ flushes = [t \in Loggers |-> 0]
    /\ wpc = "pop"
    /\ sink = 1
    /\ flush_requested = FALSE
    /\ terminate_requested = FALSE
    /\ written = [i \in Sinks |-> <<>>]
    /\ flushed = [i \in Sinks |-> 0]
------------------------------------------------------------------------------
(* t calls push_msg(m) and goes on to l when it returns.                   *)
PushMsg(t, m, l) ==
    /\ pc' = [pc EXCEPT ![t] = "push"]
    /\ msg' = [msg EXCEPT ![t] = m]
    /\ after' = [after EXCEPT ![t] = l]

(* push_msg() returns.                                                     *)
Pushed(t) ==
    /\ pc' = [pc EXCEPT ![t] = after[t]]
    /\ msg' = [msg EXCEPT ![t] = NoItem]
    /\ after' = [after EXCEPT ![t] = "idle"]

(* A logger logs a message; one at or above the flush level is followed by *)
(* an asynchronous flush.                                                  *)
Log(t) ==
    /\ pc[t] = "idle"
    /\ sent[t] < MaxMsgs
    /\ sent' = [sent EXCEPT ![t] = @ + 1]
    /\ \/ PushMsg(t, Msg("log", t, sent[t] + 1), "idle") /\ UNCHANGED flushes
       \/ /\ flushes[t] < MaxFlushes
          /\ flushes' = [flushes EXCEPT ![t] = @ + 1]
          /\ PushMsg(t, Msg("log", t, sent[t] + 1), "flush_on")
    /\ UNCHANGED <<queue, workvars, sinkvars>>

FlushOn(t) ==
    /\ pc[t] = "flush_on"
    /\ PushMsg(t, Msg("flush", t, 0), "idle")
    /\ UNCHANGED <<queue, sent, flushes, workvars, sinkvars>>

(* async_logger::flush(): push the message, then wait_empty_q().           *)
Flush(t) ==
    /\ pc[t] = "idle"
    /\ flushes[t] < MaxFlushes
    /\ flushes' = [flushes EXCEPT ![t] = @ + 1]
    /\ PushMsg(t, Msg("flush", t, 0), "wait")
    /\ UNCHANGED <<queue, sent, workvars, sinkvars>>

(* wait_empty_q() sees approx_size() = 0.                                  *)
WaitEmptyQ(t) ==
    /\ pc[t] = "wait"
    /\ q = <<>>
    /\ pc' = [pc EXCEPT ![t] = "idle"]
    /\ UNCHANGED <<queue, msg, after, sent, flushes, workvars, sinkvars>>

(* There is one consumer, so that the place it is still reading is the one *)
(* before the head of the queue.                                           *)
HasRoom == Len(q) + Cardinality(reading) < Capacity

(* The enqueue() in push_msg(): it claims a place and then publishes the   *)
(* message, or finds the queue full.                                       *)
Enqueue(t) ==
    /\ pc[t] = "push"
    /\ HasRoom
    /\ Put(t, msg[t])
    /\ pc' = [pc EXCEPT ![t] = "publish"]
    /\ UNCHANGED <<msg, after, sent, flushes, workvars, sinkvars>>

Publish(t) ==
    /\ pc[t] = "publish"
    /\ Ready(t)
    /\ Pushed(t)
    /\ UNCHANGED <<sent, flushes, workvars, sinkvars>>

(* Mutant: push_msg() gives up although the policy is to block.            *)
QueueFull_GivesUp(t) ==
    /\ pc[t] = "push"
    /\ ~HasRoom
    /\ PutFails(t)
    /\ Pushed(t)
    /\ UNCHANGED <<sent, flushes, workvars, sinkvars>>

QueueFull(t) ==
    /\ pc[t] = "push"
    /\ ~HasRoom
    /\ PutFails(t)
    /\ IF Policy = "discard_log_msg" THEN Pushed(t) ELSE UNCHANGED <<pc, msg, after>>
    /\ UNCHANGED <<sent, flushes, workvars, sinkvars>>

(* The thread drops its reference to the logger.                           *)
Finish(t) ==
    /\ pc[t] = "idle"
    /\ pc' = [pc EXCEPT ![t] = "done"]
    /\ UNCHANGED <<queue, msg, after, sent, flushes, workvars, sinkvars>>

(* The last reference is gone: the destructor pushes the terminate message *)
(* and joins the worker.                                                   *)
Destroy ==
    /\ pc[Main] = "idle"
    /\ \A t \in Loggers : pc[t] = "done"
    /\ PushMsg(Main, Msg("terminate", Main, 0), "join")
    /\ UNCHANGED <<queue, sent, flushes, workvars, sinkvars>>

Join ==
    /\ pc[Main] = "join"
    /\ wpc = "exit"
    /\ pc' = [pc EXCEPT ![Main] = "done"]
    /\ UNCHANGED <<queue, msg, after, sent, flushes, workvars, sinkvars>>
------------------------------------------------------------------------------
(* process_next_msg() pops a message.                                      *)
Dequeue ==
    /\ wpc = "pop"
    /\ Take(Worker)
    /\ wpc' = "read"
    /\ UNCHANGED <<sink, flush_requested, terminate_requested, pushvars, sinkvars>>

(* Mutant: the terminate message ends the worker at once.                  *)
Process_StopsAtOnce ==
    /\ wpc = "read"
    /\ Release(Worker)
    /\ sink' = 1
    /\ wpc' = CASE ret[Worker].item.msg_type = "log" -> "sink"
                [] ret[Worker].item.msg_type = "flush" -> "pop"
                [] OTHER -> "exit"
    /\ UNCHANGED <<flush_requested, terminate_requested, pushvars, sinkvars>>

(* It has the message: a request is noted, a log message goes to the sinks.*)
Process ==
    /\ wpc = "read"
    /\ Release(Worker)
    /\ LET m == ret[Worker].item.msg_type IN
       /\ flush_requested' = (flush_requested \/ m # "log")
       /\ terminate_requested' = (terminate_requested \/ m = "terminate")
       /\ wpc' = IF m = "log" THEN "sink" ELSE "pop"
    /\ sink' = 1
    /\ UNCHANGED <<pushvars, sinkvars>>

(* The loop over the sinks; one that throws ends it, and worker_loop()     *)
(* goes on.                                                                *)
NextSink(l) ==
    IF sink < NSinks THEN sink' = sink + 1 /\ UNCHANGED wpc
                     ELSE sink' = 1 /\ wpc' = l


SinkLog ==
    /\ wpc = "sink"
    /\ \/ /\ written' = [written EXCEPT ![sink] = Append(@, ret[Worker].item)]
          /\ NextSink("pop")
       \/ /\ SinkThrows
          /\ sink' = 1 /\ wpc' = "pop"
          /\ UNCHANGED written
    /\ UNCHANGED <<queue, flush_requested, terminate_requested, pushvars, flushed>>

(* The queue looks empty: flush if asked to or if the interval is over,    *)
(* and stop if asked to.                                                   *)
Empty ==
    /\ wpc = "pop"
    /\ TakeFails(Worker)
    /\ \/ /\ flush_requested \/ Interval
          /\ wpc' = "flush"
       \/ /\ ~flush_requested
          /\ wpc' = IF terminate_requested THEN "exit" ELSE "pop"
    /\ UNCHANGED <<sink, flush_requested, terminate_requested, pushvars, sinkvars>>

FlushSinks ==
    /\ wpc = "flush"
    /\ \/ /\ flushed' = [flushed EXCEPT ![sink] = Len(written[sink])]
          /\ NextSink(IF terminate_requested THEN "exit" ELSE "pop")
          /\ flush_requested' = (flush_requested /\ sink < NSinks)
       \/ /\ SinkThrows
          /\ sink' = 1 /\ wpc' = "pop"
          /\ UNCHANGED <<flushed, flush_requested>>
    /\ UNCHANGED <<queue, terminate_requested, pushvars, written>>
------------------------------------------------------------------------------
Pusher(t) ==
    Enqueue(t) \/ Publish(t) \/ QueueFull(t) \/ FlushOn(t) \/ WaitEmptyQ(t)
WorkerLoop == Dequeue \/ Process \/ SinkLog \/ Empty \/ FlushSinks

Over == pc[Main] = "done" /\ UNCHANGED vars

Next ==
    \/ \E t \in Loggers : Log(t) \/ Flush(t) \/ Finish(t) \/ Pusher(t)
    \/ Destroy \/ Pusher(Main) \/ Join
    \/ WorkerLoop
    \/ Over

Spec == Init /\ [][Next]_vars

(* The worker runs on, and so does a thread inside the logger.             *)
Fairness ==
    /\ WF_vars(WorkerLoop)
    /\ \A t \in Loggers : WF_vars(Pusher(t))
    /\ WF_vars(Pusher(Main)) /\ WF_vars(Join)

FairSpec == Spec /\ Fairness
------------------------------------------------------------------------------
(* Every variable holds a value of its type.                               *)
TypeOK ==
    /\ q \in Seq(Slot)
    /\ reading \subseteq {Worker}
    /\ ret \in [Threads -> Result]
    /\ pc \in [Threads -> {"idle", "push", "publish", "flush_on", "wait",
                           "join", "done"}]
    /\ msg \in [Threads -> Items \cup {NoItem}]
    /\ after \in [Threads -> {"idle", "flush_on", "wait", "join"}]
    /\ sent \in [Loggers -> 0 .. MaxMsgs]
    /\ flushes \in [Loggers -> 0 .. MaxFlushes]
    /\ wpc \in {"pop", "read", "sink", "flush", "exit"}
    /\ sink \in Sinks
    /\ flush_requested \in BOOLEAN
    /\ terminate_requested \in BOOLEAN
    /\ written \in [Sinks -> Seq(Items)]
    /\ flushed \in [Sinks -> Nat]

(* The messages of thread t that sink i got.                               *)
Got(i, t) == SelectSeq(written[i], LAMBDA m : m.from = t)

(* A sink gets the messages of one thread in the order they were logged,   *)
(* and none twice, whatever is discarded or thrown away in between.        *)
ThreadOrder ==
    \A i \in Sinks, t \in Loggers :
        \A j, k \in DOMAIN Got(i, t) : j < k => Got(i, t)[j].n < Got(i, t)[k].n


(* The destructor returns: the worker gets the terminate message and       *)
(* finishes gracefully (L217-229).                                         *)
ShutdownCompletes == (pc[Main] = "push") ~> (pc[Main] = "done")

(* Every flush() returns.                                                  *)
FlushCompletes == \A t \in Loggers : (pc[t] = "wait") ~> (pc[t] = "idle")
==============================================================================
