------------------------------- MODULE Registry -------------------------------
(***************************************************************************)
(* spdlog's registry of loggers (details/registry.h, L) and the settings a  *)
(* logger keeps (details/logger_impl.h): threads create, register, drop and *)
(* configure loggers.  A call that takes the mutex and only touches the     *)
(* registry is one step; one that visits every logger takes a step for each.*)
(***************************************************************************)
EXTENDS Integers, Sequences, FiniteSets

CONSTANTS Threads, Names, Kinds, Values, Default, Free, MaxLoggers

(* Kinds: what set_level(), set_pattern() or formatter(), and              *)
(* set_error_handler() set, for every logger and for those to come.        *)
Locked(k) == k # "handler"

ASSUME RegistryAssumption ==
    Kinds \subseteq {"level", "formatter", "handler"}
    /\ Default \in Values /\ Free \notin Threads /\ MaxLoggers \in Nat

(* obj: the loggers made so far, with own[k] when setting k was not given  *)
(* by the registry, which is not in the code; loggers: the object under    *)
(* each name, 0 for none; reg: the settings of the registry; async: its    *)
(* _async_mode; call: the setting a thread is giving to the loggers todo.  *)
VARIABLES mutex, loggers, obj, reg, async, call, todo
vars == <<mutex, loggers, obj, reg, async, call, todo>>

NoCall == [kind |-> "none", value |-> Default]
Registered == {loggers[n] : n \in Names} \ {0}

Init ==
    /\ mutex = Free
    /\ loggers = [n \in Names |-> 0]
    /\ obj = <<>>
    /\ reg = [k \in Kinds |-> Default]
    /\ async = FALSE
    /\ call = [t \in Threads |-> NoCall]
    /\ todo = [t \in Threads |-> {}]

Idle(t) == call[t] = NoCall

(* Logger l with setting k at v, by its user (own) or by the registry.     *)
Given(l, k, v, own) ==
    [set |-> [l.set EXCEPT ![k] = v], own |-> [l.own EXCEPT ![k] = own],
     async |-> l.async]
------------------------------------------------------------------------------
(* Mutant: a second logger of the same name takes the place of the first.  *)
Insert_Replaces(n, o) ==
    /\ mutex = Free
    /\ Len(obj) < MaxLoggers
    /\ obj' = Append(obj, o)
    /\ loggers' = [loggers EXCEPT ![n] = Len(obj) + 1]
    /\ UNCHANGED <<mutex, reg, async, call, todo>>

(* Under the mutex: throw_if_exists(), or the new logger o is added.       *)
Insert(n, o) ==
    /\ mutex = Free
    /\ \/ /\ loggers[n] = 0
          /\ Len(obj) < MaxLoggers
          /\ obj' = Append(obj, o)
          /\ loggers' = [loggers EXCEPT ![n] = Len(obj) + 1]
       \/ loggers[n] # 0 /\ UNCHANGED <<obj, loggers>>
    /\ UNCHANGED <<mutex, reg, async, call, todo>>

(* Mutant: create() leaves the settings to the logger's constructor.       *)
Create_Default(t, n) ==
    /\ Idle(t)
    /\ Insert(n, [set |-> [k \in Kinds |-> Default],
                     own |-> [k \in Kinds |-> FALSE], async |-> async])

(* create(): the logger has the settings of the registry.                  *)
Create(t, n) ==
    /\ Idle(t)
    /\ Insert(n, [set |-> reg, own |-> [k \in Kinds |-> FALSE], async |-> async])

(* register_logger(): the logger keeps the settings of its constructor.    *)
Register(t, n) ==
    /\ Idle(t)
    /\ Insert(n, [set |-> [k \in Kinds |-> Default],
                     own |-> [k \in Kinds |-> TRUE], async |-> FALSE])

Drop(t, n) ==
    /\ Idle(t) /\ mutex = Free
    /\ loggers' = [loggers EXCEPT ![n] = 0]
    /\ UNCHANGED <<mutex, obj, reg, async, call, todo>>

DropAll(t) ==
    /\ Idle(t) /\ mutex = Free
    /\ loggers' = [n \in Names |-> 0]
    /\ UNCHANGED <<mutex, obj, reg, async, call, todo>>

(* set_async_mode() and set_sync_mode().                                   *)
SetMode(t, b) ==
    /\ Idle(t) /\ mutex = Free
    /\ async' = b
    /\ UNCHANGED <<mutex, loggers, obj, reg, call, todo>>

(* A user sets the level, formatter or error handler of logger o itself.   *)
LoggerSet(t, o, k, v) ==
    /\ Idle(t)
    /\ o \in DOMAIN obj
    /\ obj' = [obj EXCEPT ![o] = Given(@, k, v, TRUE)]
    /\ UNCHANGED <<mutex, loggers, reg, async, call, todo>>
------------------------------------------------------------------------------
(* The registry's setters: take the mutex, unless it is the error handler; *)
(* the formatter is noted before the loggers get it.                       *)
SetAll(t, k, v) ==
    /\ Idle(t)
    /\ IF Locked(k) THEN mutex = Free /\ mutex' = t ELSE UNCHANGED mutex
    /\ call' = [call EXCEPT ![t] = [kind |-> k, value |-> v]]
    /\ todo' = [todo EXCEPT ![t] = Registered]
    /\ reg' = IF k = "formatter" THEN [reg EXCEPT ![k] = v] ELSE reg
    /\ UNCHANGED <<loggers, obj, async>>

(* The loop over _loggers.  Without the mutex it may also meet a logger    *)
(* that is added meanwhile, and miss one that is dropped.                  *)
SetOne(t, o) ==
    /\ o \in todo[t] \/ (~Idle(t) /\ ~Locked(call[t].kind) /\ o \in Registered)
    /\ obj' = [obj EXCEPT ![o] = Given(@, call[t].kind, call[t].value, FALSE)]
    /\ todo' = [todo EXCEPT ![t] = @ \ {o}]
    /\ UNCHANGED <<mutex, loggers, reg, async, call>>

(* After the last logger the value is noted and the mutex is released.     *)
SetDone(t) ==
    /\ ~Idle(t)
    /\ todo[t] \cap Registered = {}
    /\ todo' = [todo EXCEPT ![t] = {}]
    /\ reg' = [reg EXCEPT ![call[t].kind] = call[t].value]
    /\ mutex' = IF Locked(call[t].kind) THEN Free ELSE mutex
    /\ call' = [call EXCEPT ![t] = NoCall]
    /\ UNCHANGED <<loggers, obj, async>>

Visit(t) == SetDone(t) \/ \E o \in DOMAIN obj : SetOne(t, o)

Next ==
    \E t \in Threads :
        \/ \E n \in Names : Create(t, n) \/ Register(t, n) \/ Drop(t, n)
        \/ DropAll(t)
        \/ \E b \in BOOLEAN : SetMode(t, b)
        \/ \E o \in DOMAIN obj, k \in Kinds, v \in Values : LoggerSet(t, o, k, v)
        \/ \E k \in Kinds, v \in Values : SetAll(t, k, v)
        \/ Visit(t)

Spec == Init /\ [][Next]_vars
------------------------------------------------------------------------------
Logger == [set : [Kinds -> Values], own : [Kinds -> BOOLEAN], async : BOOLEAN]

(* Every variable holds a value of its type.                               *)
TypeOK ==
    /\ mutex \in Threads \cup {Free}
    /\ loggers \in [Names -> 0 .. Len(obj)]
    /\ obj \in Seq(Logger)
    /\ reg \in [Kinds -> Values]
    /\ async \in BOOLEAN
    /\ call \in [Threads -> [kind : Kinds \cup {"none"}, value : Values]]
    /\ todo \in [Threads -> SUBSET (1 .. Len(obj))]

(* Setting k of every registered logger is the registry's, unless a user   *)
(* has set it for that logger, whenever no setter of k is running.         *)
Uniform(k) ==
    (\A t \in Threads : call[t].kind # k) =>
        \A o \in Registered : ~obj[o].own[k] => obj[o].set[k] = reg[k]

(* Level and formatter: create() and the setters exclude each other        *)
(* (L50-72, L103-125).                                                     *)
LockedSettingsUniform == \A k \in Kinds : Locked(k) => Uniform(k)

(* A thread that visits loggers under the mutex visits all there are: none *)
(* is added or dropped meanwhile.                                          *)
LockedVisitComplete ==
    \A t \in Threads : (~Idle(t) /\ Locked(call[t].kind)) =>
            /\ mutex = t
            /\ todo[t] \subseteq Registered
            /\ \A o \in Registered \ todo[t] :
                  obj[o].own[call[t].kind] \/ obj[o].set[call[t].kind] = call[t].value

(* A thread has loggers to visit only inside a setter, and the mutex is    *)
(* held by a setter that takes it: none keeps it when it returns.          *)
CallsMarked ==
    \A t \in Threads :
        /\ call[t].kind = "none" => Idle(t)
        /\ Idle(t) => todo[t] = {}
        /\ mutex = t => ~Idle(t) /\ Locked(call[t].kind)

(* The setters that take the mutex: with every variable of its type, a     *)
(* setter that has released the mutex has met every registered logger, and *)
(* all of them, those created since included, have the setting; it is      *)
(* inductive.                                                              *)
LockedSetters ==
    TypeOK /\ CallsMarked /\ LockedSettingsUniform /\ LockedVisitComplete

(* A name is given to another logger only after it was dropped (L162-166). *)
NeverReplaced ==
    [][\A n \in Names : loggers[n] # 0 => loggers'[n] \in {0, loggers[n]}]_vars
==============================================================================
