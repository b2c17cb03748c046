---------------------------- MODULE RegistryProofs ----------------------------
(***************************************************************************)
(* The setters of the registry that take its mutex reach every logger, and *)
(* a name never changes hands without drop(), for any threads, names and   *)
(* values.                                                                 *)
(***************************************************************************)
EXTENDS Registry, TLAPS

(* One setting of one logger is changed, by its user or by a setter.       *)
OnlySetting(f, g, o, k, v, b) ==
    /\ g \in Seq(Logger) /\ Len(g) = Len(f) /\ DOMAIN g = DOMAIN f
    /\ \A p \in DOMAIN f, j \in Kinds : (p # o \/ j # k) =>
          g[p].set[j] = f[p].set[j] /\ g[p].own[j] = f[p].own[j]
    /\ g[o].set[k] = v /\ g[o].own[k] = b

LEMMA OneSetting ==
    ASSUME NEW f \in Seq(Logger), NEW o \in DOMAIN f, NEW k \in Kinds,
           NEW v \in Values, NEW b \in BOOLEAN
    PROVE  OnlySetting(f, [f EXCEPT ![o] = Given(f[o], k, v, b)], o, k, v, b)
<1> DEFINE g == [f EXCEPT ![o] = Given(f[o], k, v, b)]
<1>1. DOMAIN f = 1 .. Len(f) /\ Len(f) \in Nat
  OBVIOUS
<1> DEFINE r == Given(f[o], k, v, b)
<1>2. f[o] \in Logger
  OBVIOUS
<1>3. r \in Logger
  BY <1>2 DEF Logger, Given
<1>8. /\ \A j \in Kinds : j # k => r.set[j] = f[o].set[j]
      /\ \A j \in Kinds : j # k => r.own[j] = f[o].own[j]
      /\ r.set[k] = v /\ r.own[k] = b
  BY <1>2 DEF Logger, Given
<1>4. g = [i \in 1 .. Len(f) |-> IF i = o THEN r ELSE f[i]]
  BY Zenon, <1>1
<1> HIDE DEF r, g
<1>5. g \in Seq(Logger) /\ Len(g) = Len(f) /\ DOMAIN g = DOMAIN f
  BY <1>1, <1>3, <1>4
<1>6. \A p \in DOMAIN f : p # o => g[p] = f[p]
  BY <1>4
<1>7. g[o] = r
  BY <1>4
<1>9. \A p \in DOMAIN f, j \in Kinds : (p # o \/ j # k) =>
         g[p].set[j] = f[p].set[j] /\ g[p].own[j] = f[p].own[j]
  BY <1>6, <1>7, <1>8
<1> QED
  BY <1>5, <1>7, <1>8, <1>9 DEF OnlySetting, g

LEMMA ObjOneSetting ==
    ASSUME TypeOK, NEW o \in DOMAIN obj, NEW k \in Kinds, NEW v \in Values, NEW b \in BOOLEAN,
           obj' = [obj EXCEPT ![o] = Given(obj[o], k, v, b)]
    PROVE  OnlySetting(obj, obj', o, k, v, b)
<1>1. obj \in Seq(Logger)
  BY DEF TypeOK
<1> QED
  BY Zenon, <1>1, OneSetting

LEMMA InitLocked == Init => LockedSetters
<1> SUFFICES ASSUME Init PROVE LockedSetters
  OBVIOUS
<1>1. TypeOK
  <2>1. obj \in Seq(Logger) /\ Len(obj) = 0
    BY DEF Init
  <2>2. async \in BOOLEAN
    BY Zenon DEF Init
  <2>3. call \in [Threads -> [kind : Kinds \cup {"none"}, value : Values]]
    BY RegistryAssumption DEF Init, NoCall
  <2>4. /\ mutex \in Threads \cup {Free} /\ loggers \in [Names -> 0 .. Len(obj)]
        /\ reg \in [Kinds -> Values] /\ todo \in [Threads -> SUBSET (1 .. Len(obj))]
    BY <2>1, RegistryAssumption DEF Init
  <2> QED
    BY <2>1, <2>2, <2>3, <2>4 DEF TypeOK
<1>2. CallsMarked
  BY RegistryAssumption DEF Init, CallsMarked, Idle
<1>3. Registered = {}
  BY DEF Init, Registered
<1>4. LockedSettingsUniform
  BY <1>3 DEF LockedSettingsUniform, Uniform
<1>5. LockedVisitComplete
  BY DEF Init, LockedVisitComplete, Idle
<1> QED
  BY <1>1, <1>2, <1>4, <1>5 DEF LockedSetters

(* Every registered logger is one of obj.                                  *)
LEMMA RegisteredIn ==
    ASSUME TypeOK PROVE Registered \subseteq DOMAIN obj
<1>1. DOMAIN obj = 1 .. Len(obj) /\ Len(obj) \in Nat
  BY DEF TypeOK
<1> QED
  BY <1>1 DEF TypeOK, Registered

(* A thread in a setter has a kind; the mutex is free only when no setter  *)
(* that takes it runs.                                                     *)
LEMMA KindOfCall ==
    ASSUME TypeOK, CallsMarked, NEW t \in Threads, ~Idle(t)
    PROVE  call[t].kind \in Kinds /\ call[t].value \in Values
BY DEF TypeOK, CallsMarked

LEMMA NoneIsIdle ==
    ASSUME NEW t \in Threads, Idle(t) PROVE call[t].kind = "none"
BY DEF Idle, NoCall

LEMMA FreeIsIdle ==
    ASSUME LockedSetters, mutex = Free
    PROVE  \A t \in Threads : Idle(t) \/ ~Locked(call[t].kind)
BY RegistryAssumption DEF LockedSetters, LockedVisitComplete

(* A step that changes nothing.                                            *)
LEMMA SameLocked == LockedSetters /\ UNCHANGED vars => LockedSetters'
<1> SUFFICES ASSUME LockedSetters, UNCHANGED vars PROVE LockedSetters'
  OBVIOUS
<1> USE DEF vars
<1>1. TypeOK'
  BY Zenon DEF LockedSetters, TypeOK
<1>2. CallsMarked'
  BY Zenon DEF LockedSetters, CallsMarked, Idle
<1>3. Registered' = Registered
  BY DEF Registered
<1>4. LockedSettingsUniform'
  BY Zenon, <1>3 DEF LockedSetters, LockedSettingsUniform, Uniform
<1>5. LockedVisitComplete'
  BY Zenon, <1>3 DEF LockedSetters, LockedVisitComplete, Idle
<1> QED
  BY <1>1, <1>2, <1>4, <1>5 DEF LockedSetters

(* create() and register_logger() (L50-93, L162-166): throw, or add the    *)
(* logger with the registry's settings, or with its own.                   *)
LEMMA InsertLocked ==
    ASSUME LockedSetters, NEW n \in Names, NEW o \in Logger, Insert(n, o),
           \A k \in Kinds : ~o.own[k] => o.set[k] = reg[k]
    PROVE  LockedSetters'
<1>0. TypeOK /\ CallsMarked /\ LockedSettingsUniform /\ mutex = Free
  BY DEF LockedSetters, Insert
<1>1. UNCHANGED <<mutex, reg, async, call, todo>>
  BY DEF Insert
<1>2. CASE UNCHANGED <<obj, loggers>>
  BY <1>1, <1>2, SameLocked DEF vars
<1>3. CASE /\ obj' = Append(obj, o)
           /\ loggers' = [loggers EXCEPT ![n] = Len(obj) + 1]
  <2>1. /\ obj \in Seq(Logger) /\ Len(obj) \in Nat /\ DOMAIN obj = 1 .. Len(obj)
        /\ obj' \in Seq(Logger) /\ Len(obj') = Len(obj) + 1
        /\ \A p \in DOMAIN obj : obj'[p] = obj[p]
        /\ obj'[Len(obj) + 1] = o
    BY <1>0, <1>3 DEF TypeOK
  <2>2. TypeOK'
    <3>1. loggers' \in [Names -> 0 .. Len(obj')]
      BY <1>0, <1>3, <2>1 DEF TypeOK
    <3>2. todo' \in [Threads -> SUBSET (1 .. Len(obj'))]
      <4>1. 1 .. Len(obj) \subseteq 1 .. Len(obj')
        BY <2>1
      <4> QED
        BY <1>0, <1>1, <4>1 DEF TypeOK
    <3> QED
      BY <1>0, <1>1, <2>1, <3>1, <3>2 DEF TypeOK
  <2>3. CallsMarked'
    BY Zenon, <1>0, <1>1 DEF CallsMarked, Idle
  <2>4. \A p \in Registered' : p \in Registered \/ p = Len(obj) + 1
    BY <1>0, <1>3 DEF Registered, TypeOK
  <2>5. Registered \subseteq DOMAIN obj
    BY <1>0, RegisteredIn
  <2>6. LockedSettingsUniform'
    <3> SUFFICES ASSUME NEW k \in Kinds, Locked(k), \A t \in Threads : call'[t].kind # k,
                        NEW p \in Registered', ~obj'[p].own[k]
                 PROVE  obj'[p].set[k] = reg'[k]
      BY DEF LockedSettingsUniform, Uniform
    <3>1. CASE p \in Registered
      <4>1. obj'[p] = obj[p] /\ ~obj[p].own[k]
        BY <2>1, <2>5, <3>1
      <4>2. obj[p].set[k] = reg[k]
        BY <1>0, <1>1, <3>1, <4>1 DEF LockedSettingsUniform, Uniform
      <4> QED
        BY <1>1, <4>1, <4>2
    <3>2. CASE p = Len(obj) + 1
      BY <1>1, <2>1, <3>2
    <3> QED
      BY <2>4, <3>1, <3>2
  <2>7. LockedVisitComplete'
    <3>1. \A t \in Threads : Idle(t)' \/ ~Locked(call'[t].kind)
      BY <1>0, <1>1, FreeIsIdle DEF Idle
    <3> QED
      BY <3>1 DEF LockedVisitComplete, Locked
  <2> QED
    BY <2>2, <2>3, <2>6, <2>7 DEF LockedSetters
<1> QED
  BY <1>2, <1>3 DEF Insert

LEMMA CreateLocked ==
    ASSUME LockedSetters, NEW t \in Threads, NEW n \in Names,
           Create(t, n) \/ Register(t, n)
    PROVE  LockedSetters'
<1>0. TypeOK
  BY DEF LockedSetters
<1>1. CASE Create(t, n)
  <2> DEFINE o == [set |-> reg, own |-> [k \in Kinds |-> FALSE], async |-> async]
  <2>1. o \in Logger /\ Insert(n, o) /\ \A k \in Kinds : o.set[k] = reg[k]
    BY <1>0, <1>1 DEF Create, TypeOK, Logger
  <2> HIDE DEF o
  <2> QED
    BY <2>1, InsertLocked
<1>2. CASE Register(t, n)
  <2> DEFINE o == [set |-> [k \in Kinds |-> Default], own |-> [k \in Kinds |-> TRUE],
                   async |-> FALSE]
  <2>1. o \in Logger /\ Insert(n, o)
    BY <1>2, RegistryAssumption DEF Register, Logger
  <2>2. \A k \in Kinds : o.own[k]
    OBVIOUS
  <2> HIDE DEF o
  <2> QED
    BY <2>1, <2>2, InsertLocked
<1> QED
  BY <1>1, <1>2

(* drop() and drop_all() (L95-101, L127-131): under the mutex, so no       *)
(* setter that takes it is at work.                                        *)
LEMMA DropLocked ==
    ASSUME LockedSetters, mutex = Free,
           loggers' \in [Names -> 0 .. Len(obj)], Registered' \subseteq Registered,
           UNCHANGED <<mutex, obj, reg, call, todo>>, async' \in BOOLEAN
    PROVE  LockedSetters'
<1>0. TypeOK /\ CallsMarked /\ LockedSettingsUniform
  BY DEF LockedSetters
<1>1. TypeOK'
  BY Zenon, <1>0 DEF TypeOK
<1>2. CallsMarked'
  BY Zenon, <1>0 DEF CallsMarked, Idle
<1>3. LockedSettingsUniform'
  BY Zenon, <1>0 DEF LockedSettingsUniform, Uniform
<1>4. LockedVisitComplete'
  <2>1. \A t \in Threads : Idle(t)' \/ ~Locked(call'[t].kind)
    BY FreeIsIdle DEF Idle
  <2> QED
    BY <2>1 DEF LockedVisitComplete, Locked
<1> QED
  BY <1>1, <1>2, <1>3, <1>4 DEF LockedSetters

(* A user changes a setting of one logger: it no longer counts as the      *)
(* registry's (logger_impl.h L236-295).                                    *)
LEMMA LoggerSetLocked ==
    ASSUME LockedSetters, NEW t \in Threads, NEW o \in DOMAIN obj, NEW k \in Kinds,
           NEW v \in Values, LoggerSet(t, o, k, v)
    PROVE  LockedSetters'
<1>0. TypeOK /\ CallsMarked /\ LockedSettingsUniform /\ LockedVisitComplete
  BY DEF LockedSetters
<1>1. UNCHANGED <<mutex, loggers, reg, async, call, todo>>
  BY DEF LoggerSet
<1>2. obj' = [obj EXCEPT ![o] = Given(@, k, v, TRUE)]
  BY DEF LoggerSet
<1>3. /\ obj' \in Seq(Logger) /\ Len(obj') = Len(obj) /\ DOMAIN obj' = DOMAIN obj
      /\ \A p \in DOMAIN obj, j \in Kinds : (p # o \/ j # k) =>
            obj'[p].set[j] = obj[p].set[j] /\ obj'[p].own[j] = obj[p].own[j]
      /\ obj'[o].own[k] = TRUE
  <2>1. PICK b \in BOOLEAN : b = TRUE
    BY Zenon
  <2>2. obj' = [obj EXCEPT ![o] = Given(obj[o], k, v, b)]
    BY <1>2, <2>1
  <2>3. OnlySetting(obj, obj', o, k, v, b)
    BY Zenon, <1>0, <2>2, ObjOneSetting
  <2> QED
    BY Zenon, <2>1, <2>3 DEF OnlySetting
<1>4. Registered' = Registered /\ Registered \subseteq DOMAIN obj
  BY <1>0, <1>1, RegisteredIn DEF Registered
<1>5. TypeOK'
  BY <1>0, <1>1, <1>3 DEF TypeOK
<1>6. CallsMarked'
  BY Zenon, <1>0, <1>1 DEF CallsMarked, Idle
<1>7. ASSUME NEW p \in Registered, NEW j \in Kinds
      PROVE  obj'[p].own[j] \/ /\ obj'[p].set[j] = obj[p].set[j]
                               /\ obj'[p].own[j] = obj[p].own[j]
  BY Zenon, <1>3, <1>4
<1>8. LockedSettingsUniform'
  <2> SUFFICES ASSUME NEW j \in Kinds, Locked(j), \A u \in Threads : call'[u].kind # j,
                      NEW p \in Registered', ~obj'[p].own[j]
               PROVE  obj'[p].set[j] = reg'[j]
    BY DEF LockedSettingsUniform, Uniform
  <2>1. obj'[p].set[j] = obj[p].set[j] /\ ~obj[p].own[j]
    BY <1>4, <1>7
  <2>2. obj[p].set[j] = reg[j]
    BY <1>0, <1>1, <1>4, <2>1 DEF LockedSettingsUniform, Uniform
  <2> QED
    BY <1>1, <2>1, <2>2
<1>9. LockedVisitComplete'
  <2> SUFFICES ASSUME NEW u \in Threads, ~Idle(u)', Locked(call'[u].kind)
               PROVE  /\ mutex' = u
                      /\ todo'[u] \subseteq Registered'
                      /\ \A p \in Registered' \ todo'[u] :
                            \/ obj'[p].own[call'[u].kind]
                            \/ obj'[p].set[call'[u].kind] = call'[u].value
    BY Zenon DEF LockedVisitComplete
  <2>1. ~Idle(u) /\ Locked(call[u].kind)
    BY <1>1 DEF Idle
  <2>2. call[u].kind \in Kinds
    BY <1>0, <2>1, KindOfCall
  <2>3. /\ mutex = u /\ todo[u] \subseteq Registered
        /\ \A p \in Registered \ todo[u] :
              \/ obj[p].own[call[u].kind]
              \/ obj[p].set[call[u].kind] = call[u].value
    BY Zenon, <1>0, <2>1 DEF LockedVisitComplete
  <2> QED
    BY Zenon, <1>1, <1>4, <1>7, <2>2, <2>3
<1> QED
  BY <1>5, <1>6, <1>8, <1>9 DEF LockedSetters
(* set_level(), set_formatter() and set_error_handler() of the registry    *)
(* begin (L103-125): a setter that takes the mutex finds it free, and so   *)
(* runs alone.                                                             *)
LEMMA SetAllLocked ==
    ASSUME LockedSetters, NEW t \in Threads, NEW k \in Kinds, NEW v \in Values,
           SetAll(t, k, v)
    PROVE  LockedSetters'
<1>0. TypeOK /\ CallsMarked /\ LockedSettingsUniform /\ LockedVisitComplete
  BY DEF LockedSetters
<1>1. /\ Idle(t)
      /\ call' = [call EXCEPT ![t] = [kind |-> k, value |-> v]]
      /\ todo' = [todo EXCEPT ![t] = Registered]
      /\ UNCHANGED <<loggers, obj, async>>
  BY DEF SetAll
<1>2. /\ Locked(k) => mutex = Free /\ mutex' = t
      /\ ~Locked(k) => mutex' = mutex
  BY DEF SetAll
<1>3. reg' \in [Kinds -> Values] /\ \A j \in Kinds : j # k => reg'[j] = reg[j]
  BY <1>0 DEF SetAll, TypeOK
<1>4. /\ call'[t] = [kind |-> k, value |-> v] /\ todo'[t] = Registered
      /\ \A u \in Threads : u # t => call'[u] = call[u] /\ todo'[u] = todo[u]
  BY <1>0, <1>1 DEF TypeOK
<1>5. Registered' = Registered /\ Registered \subseteq DOMAIN obj
  BY <1>0, <1>1, RegisteredIn DEF Registered
<1>6. k # "none"
  BY RegistryAssumption
<1>7. ~Idle(t)' /\ \A u \in Threads : u # t => (Idle(u)' <=> Idle(u))
  BY <1>4, <1>6 DEF Idle, NoCall
<1>8. TypeOK'
  <2>1. todo' \in [Threads -> SUBSET (1 .. Len(obj))]
    BY <1>0, <1>1, <1>5 DEF TypeOK
  <2>2. call' \in [Threads -> [kind : Kinds \cup {"none"}, value : Values]]
    BY <1>0, <1>1 DEF TypeOK
  <2>3. mutex' \in Threads \cup {Free}
    BY <1>0, <1>2 DEF TypeOK
  <2> QED
    BY <1>0, <1>1, <1>3, <2>1, <2>2, <2>3 DEF TypeOK
<1>9. CallsMarked'
  <2> SUFFICES ASSUME NEW u \in Threads
               PROVE  /\ call'[u].kind = "none" => Idle(u)'
                      /\ Idle(u)' => todo'[u] = {}
                      /\ mutex' = u => ~Idle(u)' /\ Locked(call'[u].kind)
    BY DEF CallsMarked, Locked
  <2>1. CASE u = t
    <3>1. mutex' = t => Locked(k)
      BY <1>0, <1>1, <1>2 DEF CallsMarked
    <3> QED
      BY <1>4, <1>6, <1>7, <2>1, <3>1
  <2>2. CASE u # t
    <3>1. mutex' = u => mutex = u
      BY <1>2, <2>2
    <3> QED
      BY <1>0, <1>4, <1>7, <2>2, <3>1 DEF CallsMarked
  <2> QED
    BY <2>1, <2>2
<1>10. LockedSettingsUniform'
  <2> SUFFICES ASSUME NEW j \in Kinds, Locked(j), \A u \in Threads : call'[u].kind # j,
                      NEW p \in Registered', ~obj'[p].own[j]
               PROVE  obj'[p].set[j] = reg'[j]
    BY DEF LockedSettingsUniform, Uniform
  <2>1. j # k /\ j # "none"
    BY <1>4, RegistryAssumption
  <2>2. \A u \in Threads : call[u].kind # j
    <3>1. call[t].kind = "none"
      BY <1>1, NoneIsIdle
    <3> QED
      BY <1>4, <2>1, <3>1
  <2>3. obj[p].set[j] = reg[j]
    BY <1>0, <1>1, <1>5, <2>2 DEF LockedSettingsUniform, Uniform
  <2> QED
    BY <1>1, <1>3, <2>1, <2>3
<1>11. LockedVisitComplete'
  <2> SUFFICES ASSUME NEW u \in Threads, ~Idle(u)', Locked(call'[u].kind)
               PROVE  /\ mutex' = u
                      /\ todo'[u] \subseteq Registered'
                      /\ \A p \in Registered' \ todo'[u] :
                            \/ obj'[p].own[call'[u].kind]
                            \/ obj'[p].set[call'[u].kind] = call'[u].value
    BY Zenon DEF LockedVisitComplete
  <2>1. CASE u = t
    BY <1>2, <1>4, <1>5, <2>1
  <2>2. CASE u # t
    <3>1. ~Idle(u) /\ Locked(call[u].kind) /\ call'[u] = call[u] /\ todo'[u] = todo[u]
      BY <1>4, <1>7, <2>2
    <3>2. /\ mutex = u /\ todo[u] \subseteq Registered
          /\ \A p \in Registered \ todo[u] :
                \/ obj[p].own[call[u].kind]
                \/ obj[p].set[call[u].kind] = call[u].value
      BY Zenon, <1>0, <3>1 DEF LockedVisitComplete
    <3>3. mutex' = mutex
      BY <1>2, <3>2, RegistryAssumption
    <3> QED
      BY Zenon, <1>1, <1>5, <3>1, <3>2, <3>3
  <2> QED
    BY <2>1, <2>2
<1> QED
  BY <1>8, <1>9, <1>10, <1>11 DEF LockedSetters

(* A setter visits logger o (L107-124).  A setter that takes the mutex     *)
(* visits a logger it has still to visit; what another one gives is not    *)
(* among the settings spoken of.                                           *)
LEMMA SetOneLocked ==
    ASSUME LockedSetters, NEW t \in Threads, NEW o \in DOMAIN obj, SetOne(t, o)
    PROVE  LockedSetters'
<1>0. TypeOK /\ CallsMarked /\ LockedSettingsUniform /\ LockedVisitComplete
  BY DEF LockedSetters
<1>1. /\ o \in todo[t] \/ (~Idle(t) /\ ~Locked(call[t].kind))
      /\ UNCHANGED <<mutex, loggers, reg, async, call>>
      /\ todo' = [todo EXCEPT ![t] = todo[t] \ {o}]
  BY DEF SetOne
<1>2. ~Idle(t)
  BY <1>0, <1>1 DEF CallsMarked
<1>3. PICK k \in Kinds, v \in Values : k = call[t].kind /\ v = call[t].value
  BY <1>0, <1>2, KindOfCall
<1>4. PICK b \in BOOLEAN : b = FALSE
  BY Zenon
<1>5. obj' = [obj EXCEPT ![o] = Given(obj[o], k, v, b)]
  BY Zenon, <1>3, <1>4 DEF SetOne
<1>6. /\ obj' \in Seq(Logger) /\ Len(obj') = Len(obj) /\ DOMAIN obj' = DOMAIN obj
      /\ \A p \in DOMAIN obj, j \in Kinds : (p # o \/ j # k) =>
            obj'[p].set[j] = obj[p].set[j] /\ obj'[p].own[j] = obj[p].own[j]
      /\ obj'[o].set[k] = v
  <2>1. OnlySetting(obj, obj', o, k, v, b)
    BY Zenon, <1>0, <1>5, ObjOneSetting
  <2> QED
    BY Zenon, <2>1 DEF OnlySetting
<1>7. Registered' = Registered /\ Registered \subseteq DOMAIN obj
  BY <1>0, <1>1, RegisteredIn DEF Registered
<1>8. /\ todo'[t] = todo[t] \ {o}
      /\ \A u \in Threads : u # t => todo'[u] = todo[u]
  BY <1>0, <1>1 DEF TypeOK
<1>9. \A u \in Threads : Idle(u)' <=> Idle(u)
  BY <1>1 DEF Idle
<1>10. TypeOK'
  <2>1. todo' \in [Threads -> SUBSET (1 .. Len(obj'))]
    BY <1>0, <1>1, <1>6 DEF TypeOK
  <2> QED
    BY <1>0, <1>1, <1>6, <2>1 DEF TypeOK
<1>11. CallsMarked'
  <2> SUFFICES ASSUME NEW u \in Threads
               PROVE  /\ call'[u].kind = "none" => Idle(u)'
                      /\ Idle(u)' => todo'[u] = {}
                      /\ mutex' = u => ~Idle(u)' /\ Locked(call'[u].kind)
    BY DEF CallsMarked, Locked
  <2>1. Idle(u)' => todo'[u] = {}
    BY <1>0, <1>2, <1>8, <1>9 DEF CallsMarked
  <2> QED
    BY <1>0, <1>1, <1>9, <2>1 DEF CallsMarked
<1>12. LockedSettingsUniform'
  <2> SUFFICES ASSUME NEW j \in Kinds, Locked(j), \A u \in Threads : call'[u].kind # j,
                      NEW p \in Registered', ~obj'[p].own[j]
               PROVE  obj'[p].set[j] = reg'[j]
    BY DEF LockedSettingsUniform, Uniform
  <2>1. j # k
    BY <1>1, <1>3
  <2>2. obj'[p].set[j] = obj[p].set[j] /\ obj'[p].own[j] = obj[p].own[j]
    BY <1>6, <1>7, <2>1
  <2>3. ~obj[p].own[j]
    BY Zenon, <2>2
  <2>4. obj[p].set[j] = reg[j]
    BY <1>0, <1>1, <1>7, <2>3 DEF LockedSettingsUniform, Uniform
  <2> QED
    BY <1>1, <2>2, <2>4
<1>13. LockedVisitComplete'
  <2> SUFFICES ASSUME NEW u \in Threads, ~Idle(u)', Locked(call'[u].kind)
               PROVE  /\ mutex' = u
                      /\ todo'[u] \subseteq Registered'
                      /\ \A p \in Registered' \ todo'[u] :
                            \/ obj'[p].own[call'[u].kind]
                            \/ obj'[p].set[call'[u].kind] = call'[u].value
    BY Zenon DEF LockedVisitComplete
  <2>1. ~Idle(u) /\ Locked(call[u].kind) /\ call'[u] = call[u]
    BY <1>1, <1>9
  <2>2. PICK j \in Kinds, w \in Values : j = call[u].kind /\ w = call[u].value
    BY <1>0, <2>1, KindOfCall
  <2>3. /\ mutex = u /\ todo[u] \subseteq Registered
        /\ \A p \in Registered \ todo[u] : obj[p].own[j] \/ obj[p].set[j] = w
    BY Zenon, <1>0, <2>1, <2>2 DEF LockedVisitComplete
  <2>4. ASSUME NEW p \in Registered' \ todo'[u] PROVE obj'[p].own[j] \/ obj'[p].set[j] = w
    <3>1. CASE p = o /\ u = t
      BY <1>3, <1>6, <2>2, <3>1
    <3>2. CASE u = t /\ p # o
      <4>1. p \in Registered \ todo[u]
        BY <1>7, <1>8, <3>2
      <4>2. obj'[p].set[j] = obj[p].set[j] /\ obj'[p].own[j] = obj[p].own[j]
        BY <1>6, <1>7, <3>2
      <4> QED
        BY Zenon, <2>3, <4>1, <4>2
    <3>3. CASE u # t
      <4>1. p \in Registered \ todo[u]
        BY <1>7, <1>8, <3>3
      <4>2. ~Locked(k)
        <5>1. Locked(k) => mutex = t
          BY <1>0, <1>2, <1>3 DEF LockedVisitComplete
        <5> QED
          BY <2>3, <3>3, <5>1
      <4>3. j # k
        BY <2>1, <2>2, <4>2
      <4>4. obj'[p].set[j] = obj[p].set[j] /\ obj'[p].own[j] = obj[p].own[j]
        BY <1>6, <1>7, <4>3
      <4> QED
        BY Zenon, <2>3, <4>1, <4>4
    <3> QED
      BY <3>1, <3>2, <3>3
  <2>5. todo'[u] \subseteq Registered'
    BY <1>7, <1>8, <2>3
  <2> QED
    BY Zenon, <1>1, <2>1, <2>2, <2>3, <2>4, <2>5
<1> QED
  BY <1>10, <1>11, <1>12, <1>13 DEF LockedSetters

(* A setter ends (L107-125): under the mutex no logger it had to visit was *)
(* dropped, so it has visited them all and the value it notes is theirs.   *)
LEMMA SetDoneLocked ==
    ASSUME LockedSetters, NEW t \in Threads, SetDone(t)
    PROVE  LockedSetters'
<1>0. TypeOK /\ CallsMarked /\ LockedSettingsUniform /\ LockedVisitComplete
  BY DEF LockedSetters
<1>1. /\ ~Idle(t) /\ todo[t] \cap Registered = {}
      /\ todo' = [todo EXCEPT ![t] = {}]
      /\ call' = [call EXCEPT ![t] = NoCall]
      /\ UNCHANGED <<loggers, obj, async>>
  BY DEF SetDone
<1>2. PICK k \in Kinds, v \in Values : k = call[t].kind /\ v = call[t].value
  BY <1>0, <1>1, KindOfCall
<1>3. /\ reg' = [reg EXCEPT ![k] = v]
      /\ Locked(k) => mutex' = Free
      /\ ~Locked(k) => mutex' = mutex
  BY <1>2 DEF SetDone
<1>4. /\ reg' \in [Kinds -> Values] /\ reg'[k] = v
      /\ \A j \in Kinds : j # k => reg'[j] = reg[j]
  BY <1>0, <1>3 DEF TypeOK
<1>5. /\ call'[t] = NoCall /\ todo'[t] = {}
      /\ \A u \in Threads : u # t => call'[u] = call[u] /\ todo'[u] = todo[u]
  BY <1>0, <1>1 DEF TypeOK
<1>6. Registered' = Registered
  BY <1>1 DEF Registered
<1>7. Idle(t)' /\ \A u \in Threads : u # t => (Idle(u)' <=> Idle(u))
  BY <1>5 DEF Idle, NoCall
<1>8. TypeOK'
  <2>1. todo' \in [Threads -> SUBSET (1 .. Len(obj))]
    BY <1>0, <1>1 DEF TypeOK
  <2>2. call' \in [Threads -> [kind : Kinds \cup {"none"}, value : Values]]
    <3>1. NoCall \in [kind : Kinds \cup {"none"}, value : Values]
      BY RegistryAssumption DEF NoCall
    <3> QED
      BY <1>0, <1>1, <3>1 DEF TypeOK
  <2>3. mutex' \in Threads \cup {Free}
    BY <1>0, <1>3 DEF TypeOK
  <2> QED
    BY <1>0, <1>1, <1>4, <2>1, <2>2, <2>3 DEF TypeOK
<1>9. CallsMarked'
  <2> SUFFICES ASSUME NEW u \in Threads
               PROVE  /\ call'[u].kind = "none" => Idle(u)'
                      /\ Idle(u)' => todo'[u] = {}
                      /\ mutex' = u => ~Idle(u)' /\ Locked(call'[u].kind)
    BY DEF CallsMarked, Locked
  <2>1. CASE u = t
    <3>1. mutex' # t
      <4>1. mutex = t => Locked(k)
        BY <1>0, <1>2 DEF CallsMarked
      <4> QED
        BY <1>3, <4>1, RegistryAssumption
    <3> QED
      BY <1>5, <1>7, <2>1, <3>1
  <2>2. CASE u # t
    <3>1. mutex' = u => mutex = u
      BY <1>3, <2>2, RegistryAssumption
    <3> QED
      BY <1>0, <1>5, <1>7, <2>2, <3>1 DEF CallsMarked
  <2> QED
    BY <2>1, <2>2
<1>10. LockedSettingsUniform'
  <2> SUFFICES ASSUME NEW j \in Kinds, Locked(j), \A u \in Threads : call'[u].kind # j,
                      NEW p \in Registered', ~obj'[p].own[j]
               PROVE  obj'[p].set[j] = reg'[j]
    BY DEF LockedSettingsUniform, Uniform
  <2>1. CASE j = k
    <3>1. /\ todo[t] \subseteq Registered
          /\ \A q \in Registered \ todo[t] : obj[q].own[k] \/ obj[q].set[k] = v
      BY Zenon, <1>0, <1>1, <1>2, <2>1 DEF LockedVisitComplete
    <3>2. p \in Registered \ todo[t]
      BY <1>1, <1>6
    <3>3. ~obj[p].own[k] /\ obj'[p].set[j] = obj[p].set[k]
      BY <1>1, <2>1
    <3> QED
      BY Zenon, <1>4, <2>1, <3>1, <3>2, <3>3
  <2>2. CASE j # k
    <3>1. \A u \in Threads : call[u].kind # j
      BY <1>2, <1>5, <2>2
    <3>2. obj[p].set[j] = reg[j]
      BY <1>0, <1>1, <1>6, <3>1 DEF LockedSettingsUniform, Uniform
    <3> QED
      BY <1>1, <1>4, <2>2, <3>2
  <2> QED
    BY <2>1, <2>2
<1>11. LockedVisitComplete'
  <2> SUFFICES ASSUME NEW u \in Threads, ~Idle(u)', Locked(call'[u].kind)
               PROVE  /\ mutex' = u
                      /\ todo'[u] \subseteq Registered'
                      /\ \A p \in Registered' \ todo'[u] :
                            \/ obj'[p].own[call'[u].kind]
                            \/ obj'[p].set[call'[u].kind] = call'[u].value
    BY Zenon DEF LockedVisitComplete
  <2>1. u # t
    BY <1>7
  <2>2. ~Idle(u) /\ Locked(call[u].kind) /\ call'[u] = call[u] /\ todo'[u] = todo[u]
    BY <1>5, <1>7, <2>1
  <2>3. /\ mutex = u /\ todo[u] \subseteq Registered
        /\ \A p \in Registered \ todo[u] :
              \/ obj[p].own[call[u].kind]
              \/ obj[p].set[call[u].kind] = call[u].value
    BY Zenon, <1>0, <2>2 DEF LockedVisitComplete
  <2>4. mutex' = mutex
    <3>1. Locked(k) => mutex = t
      BY <1>0, <1>1, <1>2 DEF LockedVisitComplete
    <3> QED
      BY <1>3, <2>1, <2>3, <3>1
  <2> QED
    BY Zenon, <1>1, <1>6, <2>2, <2>3, <2>4
<1> QED
  BY <1>8, <1>9, <1>10, <1>11 DEF LockedSetters

(* Every step of every thread keeps the invariant.                         *)
LEMMA StepLocked == LockedSetters /\ [Next]_vars => LockedSetters'
<1> SUFFICES ASSUME LockedSetters, [Next]_vars PROVE LockedSetters'
  OBVIOUS
<1>0. TypeOK
  BY DEF LockedSetters
<1>1. ASSUME NEW t \in Threads, NEW n \in Names, Drop(t, n) PROVE LockedSetters'
  <2>1. /\ loggers' \in [Names -> 0 .. Len(obj)] /\ Registered' \subseteq Registered
    <3>1. Len(obj) \in Nat
      BY <1>0 DEF TypeOK
    <3> QED
      BY <1>0, <1>1, <3>1 DEF Drop, TypeOK, Registered
  <2>2. mutex = Free /\ UNCHANGED <<mutex, obj, reg, call, todo>> /\ async' \in BOOLEAN
    BY <1>0, <1>1 DEF Drop, TypeOK
  <2> QED
    BY <2>1, <2>2, DropLocked
<1>2. ASSUME NEW t \in Threads, DropAll(t) PROVE LockedSetters'
  <2>1. /\ loggers' \in [Names -> 0 .. Len(obj)] /\ Registered' \subseteq Registered
    <3>1. Len(obj) \in Nat
      BY <1>0 DEF TypeOK
    <3> QED
      BY <1>0, <1>2, <3>1 DEF DropAll, TypeOK, Registered
  <2>2. mutex = Free /\ UNCHANGED <<mutex, obj, reg, call, todo>> /\ async' \in BOOLEAN
    BY <1>0, <1>2 DEF DropAll, TypeOK
  <2> QED
    BY <2>1, <2>2, DropLocked
<1>3. ASSUME NEW t \in Threads, NEW b \in BOOLEAN, SetMode(t, b) PROVE LockedSetters'
  <2>1. /\ loggers' \in [Names -> 0 .. Len(obj)] /\ Registered' \subseteq Registered
    BY <1>0, <1>3 DEF SetMode, TypeOK, Registered
  <2>2. mutex = Free /\ UNCHANGED <<mutex, obj, reg, call, todo>> /\ async' \in BOOLEAN
    BY Zenon, <1>3 DEF SetMode
  <2> QED
    BY <2>1, <2>2, DropLocked
<1>4. ASSUME NEW t \in Threads, Visit(t) PROVE LockedSetters'
  BY <1>4, SetOneLocked, SetDoneLocked DEF Visit
<1> QED
  BY <1>1, <1>2, <1>3, <1>4, CreateLocked, LoggerSetLocked, SetAllLocked, SameLocked DEF Next

(* For any threads, names and values: every logger in the registry, those  *)
(* created since included, has the level and the format the last setter    *)
(* gave, unless its user changed them (L50-72, L103-125).                  *)
THEOREM SettersReachAll == Spec => []LockedSetters
BY InitLocked, StepLocked, PTL DEF Spec

(* No logger takes the name of another one before drop() or drop_all()     *)
(* (L95-101, L127-131, L162-166).                                          *)
THEOREM NamesAreKept == Spec => NeverReplaced
<1>1. ASSUME LockedSetters, [Next]_vars
      PROVE  [\A n \in Names : loggers[n] # 0 => loggers'[n] \in {0, loggers[n]}]_vars
  <2> SUFFICES ASSUME Next, NEW n \in Names, loggers[n] # 0
               PROVE  loggers'[n] \in {0, loggers[n]}
    BY <1>1
  <2>0. loggers \in [Names -> 0 .. Len(obj)]
    BY <1>1 DEF LockedSetters, TypeOK
  <2>1. ASSUME NEW m \in Names, NEW o, Insert(m, o) PROVE loggers'[n] = loggers[n]
    BY <2>0, <2>1 DEF Insert
  <2>2. ASSUME NEW t \in Threads, NEW m \in Names, Create(t, m) \/ Register(t, m)
        PROVE  loggers'[n] = loggers[n]
    BY <2>1, <2>2 DEF Create, Register
  <2>3. ASSUME NEW t \in Threads, NEW m \in Names, Drop(t, m)
        PROVE  loggers'[n] \in {0, loggers[n]}
    BY <2>0, <2>3 DEF Drop
  <2>4. ASSUME NEW t \in Threads, DropAll(t) PROVE loggers'[n] = 0
    BY <2>4 DEF DropAll
  <2>5. ASSUME NEW t \in Threads, NEW b \in BOOLEAN, SetMode(t, b) PROVE loggers' = loggers
    BY <2>5 DEF SetMode
  <2>6. ASSUME NEW t \in Threads, NEW k \in Kinds, NEW v \in Values,
               SetAll(t, k, v) \/ \E o \in DOMAIN obj : LoggerSet(t, o, k, v)
        PROVE  loggers' = loggers
    BY Zenon, <2>6 DEF SetAll, LoggerSet
  <2>7. ASSUME NEW t \in Threads, Visit(t) PROVE loggers' = loggers
    BY Zenon, <2>7 DEF Visit, SetOne, SetDone
  <2> QED
    BY <2>2, <2>3, <2>4, <2>5, <2>6, <2>7 DEF Next
<1> QED
  BY <1>1, SettersReachAll, PTL DEF Spec, NeverReplaced
===============================================================================
