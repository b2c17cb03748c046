------------------------------- MODULE Logger -------------------------------
(***************************************************************************)
(* A log call of spdlog's synchronous logger, from the level check to the  *)
(* sinks: logger::log and _sink_it, the mutex of base_sink, dist_sink with *)
(* a vector that other threads change, the colour sink that wraps another, *)
(* flush_on, and the error handler behind it all.  Every lock, every write *)
(* and every flush of a sink is a step; a sink may throw.                  *)
(***************************************************************************)
EXTENDS Integers, Sequences, SequencesExt, FiniteSetsExt

CONSTANTS Threads,
          Levels,        \* the levels that calls are made at
          Addable,       \* the leaves that threads add to and remove from dist
          AtFirst,       \* the vector of dist when the threads start
          Adjusted,      \* the sinks whose level threads change
          MaxCalls,      \* bound on each thread's calls
          MaxChanges,    \* bound on changes of levels and of dist's vector
          MaxTime        \* bound on the clock

VARIABLES level, flushLevel,   \* of each logger
          sinkLevel,           \* of each sink
          children,            \* _sinks of dist
          holder,              \* who has the mutex of each sink
          pend,                \* what each leaf has written and not flushed
          call,                \* what each thread is doing
          calls, changes, time,
          lastErr              \* _last_err_time
loggerVars == <<level, flushLevel, sinkLevel, children, holder, pend, call, calls, changes, time, lastErr>>

off == 6
Minute == 1
Free == "free"
Leaves == {"out", "err"} \cup Addable
Sinks == Leaves \cup {"dist", "color"}

(* The sinks of two loggers, "dist" and "color" not being leaves.  The     *)
(* factories share one sink per standard stream, which a colour sink wraps. *)
stdout_logger_mt == <<"out">>
stdout_color_mt == <<"color">>
Tops == [main |-> stdout_color_mt \o <<"dist">>, second |-> stdout_logger_mt]
Wrapped(s) == IF s = "color" THEN "out" ELSE s

(* stdout_sink and stderr_sink flush after every line, a file sink when it *)
(* is asked to.                                                            *)
FlushesItself(leaf) == leaf \in {"out", "err"}

Idle == [pc |-> "idle", logger |-> "", msg |-> <<>>, lvl |-> 0, i |-> 0, j |-> 0, leaf |-> "",
         visited |-> <<>>, saw |-> <<>>, stamp |-> 0]
Set(t, c) == call' = [call EXCEPT ![t] = c]
Top(t) == Tops[call[t].logger]

LoggerInit ==
    /\ level = [l \in DOMAIN Tops |-> 2] /\ flushLevel \in {[l \in DOMAIN Tops |-> f] : f \in {off, Max(Levels)}}
    /\ sinkLevel = [s \in Sinks |-> 0] /\ children = AtFirst
    /\ holder = [s \in Sinks |-> Free] /\ pend = [s \in Leaves |-> {}]
    /\ call = [t \in Threads |-> Idle] /\ calls = [t \in Threads |-> 0] /\ changes = 0
    /\ time = Minute /\ lastErr = 0
------------------------------------------------------------------------------
(* logger::log: the message is formatted, which may throw; a level below   *)
(* the logger's ends the call at once.                                     *)
log(t, l, lvl) ==
    /\ call[t].pc = "idle" /\ calls[t] < MaxCalls
    /\ lvl >= level[l]
    /\ \E pc \in {"sink", "handler"} :
          Set(t, [Idle EXCEPT !.pc = pc, !.logger = l, !.msg = <<t, calls[t]>>, !.lvl = lvl, !.i = 1])
    /\ calls' = [calls EXCEPT ![t] = @ + 1]
    /\ UNCHANGED <<level, flushLevel, sinkLevel, children, holder, pend, changes, time, lastErr>>

(* trace, debug, info, warn, error and critical are log at their level.    *)
LevelCall(t) == \E l \in DOMAIN Tops, lvl \in Levels : log(t, l, lvl)

should_log(s, lvl) == lvl >= sinkLevel[s]
_should_flush_on(c) == c.lvl >= flushLevel[c.logger] /\ c.lvl # off
Visit(c, leaf, logged) == Append(c.visited, <<leaf, logged>>)

(* _sink_it's loop: a sink that takes the level is locked, by base_sink's  *)
(* log; the colour sink asks nothing of the sink it wraps.                 *)
_sink_it(t) ==
    LET c == call[t]  s == Top(t)[c.i] IN
    /\ c.pc = "sink"
    /\ IF c.i > Len(Top(t))
       THEN /\ Set(t, IF _should_flush_on(c) THEN [c EXCEPT !.pc = "flush", !.i = 1, !.saw = <<>>] ELSE Idle)
            /\ UNCHANGED holder
       ELSE IF ~should_log(s, c.lvl)
       THEN Set(t, [c EXCEPT !.i = @ + 1, !.visited = Visit(c, s, FALSE)]) /\ UNCHANGED holder
       ELSE /\ holder[Wrapped(s)] = Free
            /\ holder' = [holder EXCEPT ![Wrapped(s)] = t]
            /\ Set(t, IF s = "dist" THEN [c EXCEPT !.pc = "dist", !.j = 1, !.saw = children]
                      ELSE [c EXCEPT !.pc = "write", !.leaf = Wrapped(s)])
    /\ UNCHANGED <<level, flushLevel, sinkLevel, children, pend, calls, changes, time, lastErr>>

(* dist_sink::_sink_it: its own mutex is held throughout.                  *)
DistSinkIt(t) ==
    LET c == call[t]  s == children[c.j] IN
    /\ c.pc = "dist"
    /\ IF c.j > Len(children)
       THEN /\ holder' = [holder EXCEPT !["dist"] = Free]
            /\ Set(t, [c EXCEPT !.pc = "sink", !.i = @ + 1, !.j = 0])
       ELSE IF ~should_log(s, c.lvl)
       THEN Set(t, [c EXCEPT !.j = @ + 1, !.visited = Visit(c, s, FALSE)]) /\ UNCHANGED holder
       ELSE /\ holder[s] = Free
            /\ holder' = [holder EXCEPT ![s] = t]
            /\ Set(t, [c EXCEPT !.pc = "write", !.leaf = s])
    /\ UNCHANGED <<level, flushLevel, sinkLevel, children, pend, calls, changes, time, lastErr>>

(* The mutexes after an exception: those of the leaf and of dist_sink are  *)
(* given back.  A lock without a guard would be kept (UnwoundLeaf).        *)
UnwoundLeaf(t) == [holder EXCEPT ![call[t].leaf] = Free]
Unwound(t) == [s \in Sinks |-> IF holder[s] = t THEN Free ELSE holder[s]]

(* A leaf writes the line and flushes it or keeps it, or throws.           *)
LeafSinkIt(t) ==
    LET c == call[t] IN
    /\ c.pc = "write"
    /\ \/ /\ pend' = [pend EXCEPT ![c.leaf] = IF FlushesItself(c.leaf) THEN {} ELSE @ \cup {c.msg}]
          /\ holder' = [holder EXCEPT ![c.leaf] = Free]
          /\ Set(t, IF c.j = 0 THEN [c EXCEPT !.pc = "sink", !.i = @ + 1, !.visited = Visit(c, c.leaf, TRUE)]
                    ELSE [c EXCEPT !.pc = "dist", !.j = @ + 1, !.visited = Visit(c, c.leaf, TRUE)])
       \/ /\ holder' = Unwound(t) /\ Set(t, [c EXCEPT !.pc = "handler", !.j = 0])
          /\ UNCHANGED pend
    /\ UNCHANGED <<level, flushLevel, sinkLevel, children, calls, changes, time, lastErr>>

(* flush: a leaf's flush takes no mutex, that of dist_sink takes its own.  *)
(* A dist_sink that read its vector without the mutex would be Mutex_No.   *)
Mutex_No(t) == TRUE
DistMutex(t) == holder["dist"] = Free
flush(t) ==
    LET c == call[t]  s == Top(t)[c.i] IN
    /\ c.pc = "flush"
    /\ IF c.i > Len(Top(t)) THEN Set(t, Idle) /\ UNCHANGED <<holder, pend>>
       ELSE IF s = "dist"
       THEN /\ DistMutex(t) /\ holder' = [holder EXCEPT !["dist"] = t] /\ UNCHANGED pend
            /\ Set(t, [c EXCEPT !.pc = "distflush", !.j = 1, !.saw = children])
       ELSE /\ pend' = [pend EXCEPT ![Wrapped(s)] = {}] /\ UNCHANGED holder
            /\ Set(t, [c EXCEPT !.i = @ + 1])
    /\ UNCHANGED <<level, flushLevel, sinkLevel, children, calls, changes, time, lastErr>>

DistFlush(t) ==
    LET c == call[t] IN
    /\ c.pc = "distflush"
    /\ IF c.j > Len(children)
       THEN /\ holder' = [holder EXCEPT !["dist"] = Free] /\ UNCHANGED pend
            /\ Set(t, [c EXCEPT !.pc = "flush", !.i = @ + 1, !.j = 0])
       ELSE /\ pend' = [pend EXCEPT ![children[c.j]] = {}] /\ UNCHANGED holder
            /\ Set(t, [c EXCEPT !.j = @ + 1])
    /\ UNCHANGED <<level, flushLevel, sinkLevel, children, calls, changes, time, lastErr>>

(* _default_err_handler: at most one report a minute goes to stderr's sink *)
(* as far as this thread can tell; another may be between the same two     *)
(* lines.                                                                  *)
_default_err_handler(t) ==
    LET c == call[t] IN
    /\ \/ /\ c.pc = "handler" /\ time - lastErr < Minute
          /\ Set(t, Idle) /\ UNCHANGED <<holder, lastErr>>
       \/ /\ c.pc = "handler" /\ time - lastErr >= Minute /\ holder["err"] = Free
          /\ holder' = [holder EXCEPT !["err"] = t]
          /\ Set(t, [c EXCEPT !.pc = "report", !.stamp = time]) /\ UNCHANGED lastErr
       \/ /\ c.pc = "report" /\ holder' = [holder EXCEPT !["err"] = Free]
          /\ lastErr' = c.stamp /\ Set(t, Idle)
    /\ UNCHANGED <<level, flushLevel, sinkLevel, children, pend, calls, changes, time>>

(* add_sink and remove_sink, which drops every occurrence.                 *)
ChangeVector ==
    /\ changes < MaxChanges /\ holder["dist"] = Free
    /\ \E s \in Addable : children' \in {Append(children, s), SelectSeq(children, LAMBDA x : x # s)}
    /\ changes' = changes + 1
    /\ UNCHANGED <<level, flushLevel, sinkLevel, holder, pend, call, calls, time, lastErr>>

(* set_level and flush_on of a logger, set_level of a sink: atomic stores. *)
ChangeLevel ==
    /\ changes < MaxChanges /\ changes' = changes + 1
    /\ \E lvl \in Levels :
          \/ \E l \in DOMAIN Tops : level' = [level EXCEPT ![l] = lvl] /\ UNCHANGED <<flushLevel, sinkLevel>>
          \/ \E l \in DOMAIN Tops : flushLevel' = [flushLevel EXCEPT ![l] = lvl] /\ UNCHANGED <<level, sinkLevel>>
          \/ \E s \in Adjusted : sinkLevel' = [sinkLevel EXCEPT ![s] = lvl] /\ UNCHANGED <<level, flushLevel>>
    /\ UNCHANGED <<children, holder, pend, call, calls, time, lastErr>>

Tick == /\ time < MaxTime /\ time' = time + 1
        /\ UNCHANGED <<level, flushLevel, sinkLevel, children, holder, pend, call, calls, changes, lastErr>>

Step(t) == \/ _sink_it(t) \/ DistSinkIt(t) \/ LeafSinkIt(t)
           \/ flush(t) \/ DistFlush(t) \/ _default_err_handler(t)
LoggerNext == \/ \E t \in Threads : LevelCall(t) \/ Step(t)
              \/ ChangeVector \/ ChangeLevel \/ Tick
------------------------------------------------------------------------------
(* No sink's _sink_it runs in two threads at once.  A call that comes to   *)
(* the end of _sink_it's loop without an exception has visited every sink  *)
(* of its logger, and for dist_sink exactly the vector as it was when the  *)
(* call locked it, once each and in order, whatever other threads added or *)
(* removed.  One that flushes leaves no line of its own in a leaf that it  *)
(* still reaches.  A thread outside a call holds no sink's mutex, whatever *)
(* was thrown in the call.                                                 *)
LeavesOf(c) == FlattenSeq([i \in DOMAIN Tops[c.logger] |->
    LET s == Tops[c.logger][i] IN
    IF s # "dist" THEN <<s>>
    ELSE IF \E k \in DOMAIN c.visited : c.visited[k] = <<"dist", FALSE>> THEN <<"dist">> ELSE c.saw])
AtEnd(c, pc) == c.pc = pc /\ c.i > Len(Tops[c.logger])
LineDelivered ==
    /\ \A s \in Sinks : holder[s] # Free => call[holder[s]].pc # "idle"
    /\ \A t, u \in Threads : t # u /\ call[t].pc = "write" /\ call[u].pc = "write" => call[t].leaf # call[u].leaf
    /\ \A t \in Threads : LET c == call[t] IN
         /\ AtEnd(c, "sink") =>
              /\ Len(c.visited) = Len(LeavesOf(c))
              /\ \A k \in DOMAIN c.visited : c.visited[k][1] \in {LeavesOf(c)[k], Wrapped(LeavesOf(c)[k])}
         /\ AtEnd(c, "flush") =>
              \A s \in {Wrapped(x) : x \in ToSet(LeavesOf(c)) \ {"dist"}} : c.msg \notin pend[s]

(* Every log call returns, whichever sinks throw and whatever is locked:   *)
(* the handler's own use of stderr's sink included.                        *)
LogCallsReturn == \A t \in Threads : call[t].pc # "idle" ~> call[t].pc = "idle"
=============================================================================
