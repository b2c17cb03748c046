----------------------------- MODULE PosixFiles -----------------------------
(***************************************************************************)
(* fmt's File and BufferedFile: objects that own a descriptor of the       *)
(* process.  The kernel's table maps the numbers in use to what they are   *)
(* open on; a new number is the lowest free one, as POSIX says.  A close   *)
(* that reports an error has released the number.  FMT_RETRY repeats a     *)
(* call that EINTR ended, and such a call has done nothing, so a call is   *)
(* one step that succeeds or fails.  Each thread works on objects of its   *)
(* own.                                                                    *)
(***************************************************************************)
EXTENDS Integers, FiniteSetsExt, Functions

CONSTANTS Files,       \* File objects
          Streams,     \* BufferedFile objects
          MaxFd,       \* the largest number of the kernel's table
          MaxOpens     \* bound on what is opened over time

VARIABLES fd,          \* fd_ or the number under file_, by object; -1: none
          table,       \* the kernel's table: what each number is open on
          opened,      \* how much has been opened so far
          holds,       \* what each object was last given, for the property
          given,       \* the numbers that the caller of dup2 asked for
          badClose     \* a number was closed that was not open
posixVars == <<fd, table, opened, holds, given, badClose>>

Objects == Files \cup Streams
NoFd == -1
Nothing == 0
Free == (0..MaxFd) \ DOMAIN table
Lowest == Min(Free)
Another == opened < MaxOpens /\ Free # {}

(* The standard stream 0 belongs to the process.                           *)
PosixInit ==
    /\ fd = [o \in Objects |-> NoFd] /\ holds = [o \in Objects |-> Nothing]
    /\ table = [n \in {0} |-> 1] /\ opened = 1 /\ given = {0} /\ badClose = FALSE
------------------------------------------------------------------------------
(* The constructor that opens a path; one that fails throws, and the       *)
(* object does not come to be.                                             *)
Open(o) ==
    /\ fd[o] = NoFd /\ Another
    /\ fd' = [fd EXCEPT ![o] = Lowest]
    /\ table' = [n \in DOMAIN table \cup {Lowest} |-> IF n = Lowest THEN opened + 1 ELSE table[n]]
    /\ opened' = opened + 1 /\ holds' = [holds EXCEPT ![o] = opened + 1]
    /\ UNCHANGED <<given, badClose>>

(* The kernel's part of closing what o has: nothing for an empty object.   *)
Released(o) == DOMAIN table \ {fd[o]}
WrongClose(o) == fd[o] # NoFd /\ fd[o] \notin DOMAIN table

(* close() and the destructor, whether or not the call reports an error:   *)
(* the object is empty afterwards.                                         *)
close(o) ==
    /\ fd[o] # NoFd
    /\ table' = Restrict(table, Released(o)) /\ badClose' = (badClose \/ WrongClose(o))
    /\ fd' = [fd EXCEPT ![o] = NoFd] /\ holds' = [holds EXCEPT ![o] = Nothing]
    /\ UNCHANGED <<opened, given>>

(* What a move leaves: the target has the number, the source has none.     *)
(* A move that forgot to empty its source would be MovedKept.              *)
MovedKept(o, other) == [fd EXCEPT ![o] = fd[other]]
Moved(o, other) == IF o = other THEN [fd EXCEPT ![o] = NoFd]
                   ELSE [fd EXCEPT ![o] = fd[other], ![other] = NoFd]

(* operator=(T&&): close() throws after it has emptied the target, and the *)
(* source is as it was.  The move constructor is the case of a target that *)
(* has nothing to close.                                                   *)
MoveAssign(o, other) ==
    /\ fd[other] # NoFd
    /\ table' = Restrict(table, Released(o)) /\ badClose' = (badClose \/ WrongClose(o))
    /\ \/ /\ fd' = Moved(o, other)
          /\ holds' = IF o = other THEN [holds EXCEPT ![o] = Nothing]
                      ELSE [holds EXCEPT ![o] = holds[other], ![other] = Nothing]
       \/ /\ fd[o] # NoFd                                   \* close() throws
          /\ fd' = [fd EXCEPT ![o] = NoFd] /\ holds' = [holds EXCEPT ![o] = Nothing]
    /\ UNCHANGED <<opened, given>>

(* dup(fd): the result is a new object.                                    *)
dup(o, n) ==
    /\ fd[o] = NoFd /\ Free # {} /\ n \in DOMAIN table
    /\ table' = [m \in DOMAIN table \cup {Lowest} |-> IF m = Lowest THEN table[n] ELSE table[m]]
    /\ fd' = [fd EXCEPT ![o] = Lowest] /\ holds' = [holds EXCEPT ![o] = table[n]]
    /\ UNCHANGED <<opened, given, badClose>>

(* dup2(fd): the number is a copy of this file; the kernel closes what was *)
(* there.  The number stays with the object that has it, if one does.      *)
dup2(o, n) ==
    /\ fd[o] \in DOMAIN table
    /\ table' = [m \in DOMAIN table \cup {n} |-> IF m = n THEN table[fd[o]] ELSE table[m]]
    /\ given' = IF \E p \in Objects : fd[p] = n THEN given ELSE given \cup {n}
    /\ holds' = [p \in Objects |-> IF fd[p] = n THEN table[fd[o]] ELSE holds[p]]
    /\ UNCHANGED <<fd, opened, badClose>>

(* pipe(read_end, write_end): both ends are closed first, and either close *)
(* may throw; then the two new numbers are assigned.  One object given for *)
(* both ends closes the first number in the second assignment.             *)
PipeCloses(r, w, both) ==
    LET closed == IF both THEN {r, w} ELSE {r} IN
    /\ table' = Restrict(table, DOMAIN table \ {fd[o] : o \in closed})
    /\ badClose' = (badClose \/ \E o \in closed : WrongClose(o))
    /\ fd' = [o \in Objects |-> IF o \in closed THEN NoFd ELSE fd[o]]
    /\ holds' = [o \in Objects |-> IF o \in closed THEN Nothing ELSE holds[o]]
    /\ UNCHANGED <<opened, given>>
PipeFails(r, w) == \E both \in BOOLEAN : (\E o \in {r, w} : fd[o] # NoFd) /\ PipeCloses(r, w, both)
pipe(r, w) ==
    LET left == Restrict(table, DOMAIN table \ {fd[r], fd[w]})
        free == (0..MaxFd) \ DOMAIN left
        first == Min(free)
        second == Min(free \ {first})
        kept == IF r = w THEN {second} ELSE {first, second}
        What(n) == IF n = first THEN opened + 1 ELSE IF n = second THEN opened + 2 ELSE left[n]
    IN  /\ opened + 2 <= MaxOpens /\ Cardinality(free) >= 2
        /\ table' = [n \in DOMAIN left \cup kept |-> What(n)]
        /\ fd' = [fd EXCEPT ![r] = first, ![w] = second]
        /\ holds' = [holds EXCEPT ![r] = opened + 1, ![w] = opened + 2]
        /\ opened' = opened + 2 /\ UNCHANGED given
        /\ badClose' = (badClose \/ WrongClose(r) \/ WrongClose(w))

(* fdopen: on success the number goes from the File to a BufferedFile.     *)
fdopen(f, s) ==
    /\ fd[f] # NoFd /\ fd[s] = NoFd
    /\ fd' = Moved(s, f)
    /\ holds' = [holds EXCEPT ![s] = holds[f], ![f] = Nothing]
    /\ UNCHANGED <<table, opened, given, badClose>>

(* The caller closes a number that it asked dup2 for.                      *)
CallerCloses(n) ==
    /\ n \in given
    /\ given' = given \ {n} /\ table' = Restrict(table, DOMAIN table \ {n})
    /\ UNCHANGED <<fd, opened, holds, badClose>>

(* The same for a FILE that a BufferedFile owns.                           *)
BufferedOpen(s) == Open(s)
BufferedClose(s) == close(s)
BufferedMove(s, other) == MoveAssign(s, other)

PosixNext ==
    \/ \E f \in Files : Open(f) \/ close(f)
    \/ \E s \in Streams : BufferedOpen(s) \/ BufferedClose(s)
    \/ \E f, other \in Files : MoveAssign(f, other)
    \/ \E s, other \in Streams : BufferedMove(s, other)
    \/ \E o \in Files, n \in 0..MaxFd : dup(o, n) \/ dup2(o, n)
    \/ \E r, w \in Files : pipe(r, w) \/ PipeFails(r, w)
    \/ \E f \in Files, s \in Streams : fdopen(f, s)
    \/ \E n \in 0..MaxFd : CallerCloses(n)

(* Every open number belongs to exactly one object or to the caller of     *)
(* dup2, every object reaches what it was given, and nothing is closed     *)
(* twice, through any sequence of moves, failing closes, pipes whose ends  *)
(* are one object, and fdopen (posix.cc: "make sure that assignments don't *)
(* throw and there are no leaks").                                         *)
DescriptorsOwned ==
    /\ ~badClose
    /\ \A o, p \in Objects : o # p /\ fd[o] # NoFd => fd[o] # fd[p]
    /\ \A o \in Objects : fd[o] # NoFd => fd[o] \in DOMAIN table /\ table[fd[o]] = holds[o]
    /\ DOMAIN table \subseteq given \cup {fd[o] : o \in Objects}
=============================================================================
