------------------------------ MODULE MCLogging ------------------------------
(***************************************************************************)
(* spdlog's loggers, one kind of which runs: the asynchronous one under     *)
(* each overflow policy, "block" with sinks that work and a flush interval, *)
(* "discard" with sinks that throw; or two synchronous ones, "sync", that   *)
(* share sinks.  policy says which; the variables of the others stay where  *)
(* they start, or 0.                                                        *)
(***************************************************************************)
EXTENDS Integers, Sequences

CONSTANTS Loggers, Main, Worker, NoThread, NoItem, NSinks,
          BlockCapacity, BlockMsgs, BlockFlushes,
          DiscardCapacity, DiscardMsgs,
          Callers, Levels, Addable, Adjusted, MaxCalls, MaxChanges, MaxTime

VARIABLES policy, q, reading, ret, pc, msg, after, sent, flushes, wpc, sink,
          flush_requested, terminate_requested, written, flushed,
          level, flushLevel, sinkLevel, children, holder, pend, call, calls,
          changes, time, lastErr

B == INSTANCE AsyncLog WITH Policy <- "block_retry", Capacity <- BlockCapacity,
        MaxMsgs <- BlockMsgs, MaxFlushes <- BlockFlushes,
        SinkThrows <- FALSE, Interval <- TRUE
D == INSTANCE AsyncLog WITH Policy <- "discard_log_msg",
        Capacity <- DiscardCapacity, MaxMsgs <- DiscardMsgs, MaxFlushes <- 0,
        SinkThrows <- TRUE, Interval <- FALSE

L == INSTANCE Logger WITH Threads <- Callers, AtFirst <- <<"file">>

async == <<q, reading, ret, pc, msg, after, sent, flushes, wpc, sink,
           flush_requested, terminate_requested, written, flushed>>
sync == <<level, flushLevel, sinkLevel, children, holder, pend, call, calls,
          changes, time, lastErr>>
vars == <<policy, async, sync>>

NoSync ==
    /\ level = 0 /\ flushLevel = 0 /\ sinkLevel = 0 /\ children = 0 /\ holder = 0
    /\ pend = 0 /\ call = [t \in Callers |-> L!Idle] /\ calls = 0 /\ changes = 0
    /\ time = 0 /\ lastErr = 0

Init == /\ B!Init
        /\ \/ policy \in {"block", "discard"} /\ NoSync
           \/ policy = "sync" /\ L!LoggerInit

OnlyAsync == UNCHANGED <<policy, sync>>
BlockStep == policy = "block" /\ B!Next /\ OnlyAsync
DiscardStep == policy = "discard" /\ D!Next /\ OnlyAsync
SyncStep == policy = "sync" /\ L!LoggerNext /\ UNCHANGED <<policy, async>>

(* The threads may all have made their calls.                               *)
SyncOver == policy = "sync" /\ (\A t \in Callers : call[t].pc = "idle") /\ UNCHANGED vars

Next == BlockStep \/ DiscardStep \/ SyncStep \/ SyncOver

(* B!Fairness, for the logger that blocks; and a thread in a call goes on.  *)
Fairness ==
    /\ WF_vars(policy = "block" /\ B!WorkerLoop /\ OnlyAsync)
    /\ \A t \in Loggers \cup {Main} : WF_vars(policy = "block" /\ B!Pusher(t) /\ OnlyAsync)
    /\ WF_vars(policy = "block" /\ B!Join /\ OnlyAsync)
    /\ \A t \in Callers : WF_vars(policy = "sync" /\ L!Step(t) /\ UNCHANGED <<policy, async>>)

Spec == Init /\ [][Next]_vars /\ Fairness
------------------------------------------------------------------------------

(* logger::_sink_it and dist_sink: a call visits each sink of its logger    *)
(* once, its flush leaves nothing of it unwritten, and no mutex is kept.    *)
LineDelivered == policy = "sync" => L!LineDelivered

(* Every log call of a synchronous logger returns; under the blocking       *)
(* policy every async_logger::flush() and ~async_log_helper() return.       *)
CallsReturn ==
    /\ policy = "block" => B!FlushCompletes /\ B!ShutdownCompletes
    /\ policy = "sync" => L!LogCallsReturn
==============================================================================
