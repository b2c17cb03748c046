------------------------------ MODULE DailySink ------------------------------
(***************************************************************************)
(* spdlog's daily_file_sink (sinks/file_sinks.h, L): the clock is read      *)
(* three times in one log() call, to decide on a rotation, to name the new  *)
(* file and to plan the next rotation, and it moves in between.             *)
(***************************************************************************)
EXTENDS Integers

CONSTANTS DayLen,    \* ticks in a day
          Rotation,  \* the tick of the day of _rotation_h and _rotation_m
          MaxDelay,  \* bound: ticks that pass during a call
          MaxTime    \* bound: ticks in a run

(* open: is _fd set?  opened: when the file got its name, which is of that *)
(* day; now: the time that _sink_it() compared; delay: the ticks since the *)
(* call began.                                                             *)
VARIABLES clock, pc, open, opened, rotation_tp, now, delay
vars == <<clock, pc, open, opened, rotation_tp, now, delay>>

Init ==
    /\ clock \in 0 .. DayLen - 1
    /\ pc = "construct"
    /\ open = FALSE
    /\ opened = 0
    /\ rotation_tp = 0
    /\ now = 0
    /\ delay = 0

InCall == pc \notin {"idle", "down"}

Tick ==
    /\ clock < MaxTime
    /\ InCall => delay < MaxDelay
    /\ clock' = clock + 1
    /\ delay' = IF InCall THEN delay + 1 ELSE 0
    /\ UNCHANGED <<pc, open, opened, rotation_tp, now>>

RotationTime(t) == (t \div DayLen) * DayLen + Rotation


next_rotation_tp(t) ==
    IF RotationTime(t) > t THEN RotationTime(t) ELSE RotationTime(t) + DayLen

Construct ==
    /\ pc = "construct"
    /\ rotation_tp' = next_rotation_tp(clock)
    /\ pc' = "first_open"
    /\ UNCHANGED <<clock, open, opened, now, delay>>

(* file_helper::open() closes the file, and opens the new one or throws    *)
(* after five tries; a constructor that throws leaves no sink.             *)
FirstOpen ==
    /\ pc = "first_open"
    /\ \/ pc' = "idle" /\ open' = TRUE /\ opened' = clock
       \/ pc' = "down" /\ UNCHANGED <<open, opened>>
    /\ delay' = 0
    /\ UNCHANGED <<clock, rotation_tp, now>>

SinkIt ==
    /\ pc = "idle"
    /\ now' = clock
    /\ pc' = IF clock >= rotation_tp THEN "open" ELSE "write"
    /\ UNCHANGED <<clock, open, opened, rotation_tp, delay>>

Open ==
    /\ pc = "open"
    /\ \/ pc' = "plan" /\ open' = TRUE /\ opened' = clock /\ UNCHANGED delay
       \/ pc' = "idle" /\ open' = FALSE /\ delay' = 0 /\ UNCHANGED opened
    /\ UNCHANGED <<clock, rotation_tp, now>>

Plan ==
    /\ pc = "plan"
    /\ rotation_tp' = next_rotation_tp(clock)
    /\ pc' = "write"
    /\ UNCHANGED <<clock, open, opened, now, delay>>

Write ==
    /\ pc = "write"
    /\ pc' = "idle"
    /\ delay' = 0
    /\ UNCHANGED <<clock, open, opened, rotation_tp, now>>

Over == (clock = MaxTime \/ pc = "down") /\ UNCHANGED vars

Next ==
    Tick \/ Construct \/ FirstOpen \/ SinkIt \/ Open \/ Plan \/ Write \/ Over

Spec == Init /\ [][Next]_vars
------------------------------------------------------------------------------
(* Every variable holds a value of its type.                               *)
TypeOK ==
    /\ clock \in 0 .. MaxTime
    /\ pc \in {"construct", "first_open", "idle", "down", "open", "plan", "write"}
    /\ open \in BOOLEAN
    /\ opened \in 0 .. MaxTime
    /\ rotation_tp \in Nat
    /\ now \in 0 .. MaxTime
    /\ delay \in 0 .. MaxDelay

(* The number of rotation times up to t.                                   *)
Period(t) == (t + DayLen - Rotation) \div DayLen

(* A message is written to an open file, also after an open() that threw   *)
(* with the old file closed: the next call opens again (L205-210).         *)
WritesToOpenFile == pc = "write" => open

==============================================================================
