------------------------------ MODULE PciUnbind ------------------------------
(***************************************************************************)
(* scripts/dpdk/pci_unbind.py: moves network devices between the kernel's  *)
(* drivers and igb_uio by writing to /sys.  The script reads the devices   *)
(* into a dictionary, parses its command line and then works from the      *)
(* dictionary, while the kernel's bindings may be changed by others.       *)
(***************************************************************************)
EXTENDS Integers, Sequences, SequencesExt

CONSTANTS Devices,      \* the Ethernet devices, by PCI address
          Supported,    \* driver -> the devices it takes; DOMAIN: the drivers that are loaded
          Interface,    \* device -> its interface name while a kernel driver has it
          Names,        \* the names a user may give
          Commands,     \* the option lists a user may give
          MaxNames      \* bound on the devices on a command line

VARIABLES bound,        \* the kernel: the driver of each device, or none
          routes,       \* the kernel: the devices that have a route
          devices,      \* the dictionary
          cmd,          \* the command line: options and names
          flags,        \* b_flag, status_flag, force_flag
          todo,         \* the devices that remain to be handled
          shown,        \* what show_status displayed
          pc,
          start,        \* the kernel's side when the dictionary was read, for the properties
          touched       \* the devices that others have moved
pciVars == <<bound, routes, devices, cmd, flags, todo, shown, pc, start, touched>>

none == "none"
igb_uio == "igb_uio"
Drivers == DOMAIN Supported

(* What the kernel shows of a device; only a kernel driver makes an        *)
(* interface of it.  Driver_str is missing from the dictionary, as absent, *)
(* or holds a name, or the empty string that bind_one writes.              *)
absent == "absent"
HasInterface(b, d) == b[d] \notin {none, igb_uio}
Details(b, r) ==
    [d \in Devices |->
        [Driver_str |-> IF b[d] = none THEN absent ELSE b[d],
         Interface  |-> IF HasInterface(b, d) THEN Interface[d] ELSE "",
         Ssh_if     |-> HasInterface(b, d) /\ d \in r,
         Module_str |-> {m \in Drivers : d \in Supported[m]} \ {b[d]}]]
has_driver(d) == devices[d].Driver_str # absent

(* Any bindings that the drivers support; a route needs an interface.      *)
PciInit ==
    /\ bound \in {b \in [Devices -> Drivers \cup {none}] :
                     \A d \in Devices : b[d] # none => d \in Supported[b[d]]}
    /\ routes \in SUBSET {d \in Devices : HasInterface(bound, d)}
    /\ cmd \in [opts : Commands, args : UNION {[1..n -> Names] : n \in 0..MaxNames}]
    /\ devices = <<>> /\ flags = [b |-> "", status |-> FALSE, force |-> FALSE]
    /\ todo = <<>> /\ shown = <<>> /\ pc = "check_modules"
    /\ start = [bound |-> bound, active |-> routes] /\ touched = {}

(* check_modules: igb_uio must be loaded, and its .ko found in one of the  *)
(* three places find_module looks; its device ids are Supported's.         *)
check_modules ==
    /\ pc = "check_modules"
    /\ \E found \in BOOLEAN :
          pc' = IF igb_uio \in Drivers /\ found THEN "get_nic_details" ELSE "refused"
    /\ UNCHANGED <<bound, routes, devices, cmd, flags, todo, shown, start, touched>>

get_nic_details ==
    /\ pc = "get_nic_details"
    /\ devices' = Details(bound, routes) /\ start' = [bound |-> bound, active |-> routes]
    /\ pc' = "parse_args"
    /\ UNCHANGED <<bound, routes, cmd, flags, todo, shown, touched>>

(* dev_id_from_dev_name: an address, or an interface of the dictionary.    *)
dev_id_from_dev_name(n) ==
    IF n \in Devices THEN {n} ELSE {d \in Devices : devices[d].Interface = n}

(* The flags of an option list, or a refusal: --help, or a second bind.    *)
Option(opts, o) == \E i \in DOMAIN opts : opts[i][1] = o
Binds(opts) == SelectSeq(opts, LAMBDA o : o[1] \in {"-b", "-u"})
FlagsOf(opts) ==
    [b      |-> IF Binds(opts) = <<>> THEN "" ELSE IF Binds(opts)[1][1] = "-u" THEN none
                ELSE Binds(opts)[1][2],
     status |-> Option(opts, "--status"),
     force  |-> Option(opts, "--force")]
Refused(opts, args) ==
    \/ Option(opts, "--help") \/ Len(Binds(opts)) > 1
    \/ FlagsOf(opts).b = "" /\ ~FlagsOf(opts).status
    \/ FlagsOf(opts).b # "" /\ args = <<>>

(* parse_args up to the loops of unbind_all and bind_all: every name is    *)
(* resolved before the first device is handled.                            *)
parse_args ==
    /\ pc = "parse_args"
    /\ LET known == \A i \in DOMAIN cmd.args : dev_id_from_dev_name(cmd.args[i]) # {}
           f == FlagsOf(cmd.opts)
       IN IF Refused(cmd.opts, cmd.args) \/ (f.b # "" /\ ~known)
          THEN pc' = "refused" /\ UNCHANGED <<flags, todo>>
          ELSE /\ flags' = f
               /\ todo' = IF f.b = "" THEN <<>>
                          ELSE [i \in DOMAIN cmd.args |->
                                   CHOOSE d \in dev_id_from_dev_name(cmd.args[i]) : TRUE]
               /\ pc' = "devices"
    /\ UNCHANGED <<bound, routes, devices, cmd, shown, start, touched>>

(* What a device's handling leaves: the kernel's binding, Driver_str, and  *)
(* whether the script ended.  Driver s's unbind file takes a device only   *)
(* while s has it, and the error is not caught.                            *)
unbind_one(k, d) ==
    IF k.str = absent \/ (devices[d].Ssh_if /\ ~flags.force) THEN k
    ELSE IF k.str \notin Drivers \/ k.drv # k.str THEN [k EXCEPT !.died = TRUE]
    ELSE [k EXCEPT !.drv = none]

(* A driver's bind file takes a device that no driver has and that the     *)
(* driver supports; otherwise the driver that was saved is bound again.    *)
RECURSIVE bind_one(_, _, _)
bind_one(k, d, driver) ==
    LET saved == k.str
        free == IF saved = absent THEN k ELSE [unbind_one(k, d) EXCEPT !.str = ""]
        taken == driver \in Drivers /\ free.drv = none /\ d \in Supported[driver]
    IN  IF (devices[d].Ssh_if /\ ~flags.force) \/ saved = driver THEN k
        ELSE IF free.died THEN free
        ELSE IF taken THEN [free EXCEPT !.drv = driver]
        ELSE IF saved = absent THEN free
        ELSE bind_one(free, d, saved)

(* The body of the loops of unbind_all and bind_all.                       *)
HandleDevice ==
    /\ pc = "devices" /\ todo # <<>>
    /\ LET d == Head(todo)
           k == [drv |-> bound[d], str |-> devices[d].Driver_str, died |-> FALSE]
           r == IF flags.b = none THEN unbind_one(k, d) ELSE bind_one(k, d, flags.b)
       IN /\ bound' = [bound EXCEPT ![d] = r.drv]
          /\ routes' = IF HasInterface(bound', d) THEN routes ELSE routes \ {d}
          /\ devices' = [devices EXCEPT ![d].Driver_str = r.str]
          /\ pc' = IF r.died THEN "died" ELSE pc
    /\ todo' = Tail(todo)
    /\ UNCHANGED <<cmd, flags, shown, start, touched>>

(* show_status: the dictionary is read again if anything may have changed. *)
Category(dev) == IF dev.Driver_str = absent THEN none
                 ELSE IF dev.Driver_str = igb_uio THEN "uio" ELSE "kernel"
Refreshed_Never == devices
Refreshed == IF flags.b # "" THEN Details(bound, routes) ELSE devices
show_status ==
    /\ pc = "devices" /\ todo = <<>>
    /\ IF flags.status
       THEN /\ devices' = Refreshed
            /\ shown' = [d \in Devices |-> [at |-> Category(devices'[d]), unused |-> devices'[d].Module_str]]
       ELSE UNCHANGED <<devices, shown>>
    /\ pc' = "exit"
    /\ UNCHANGED <<bound, routes, cmd, flags, todo, start, touched>>

(* Someone else moves a device while the script runs.                      *)
OthersMove ==
    /\ pc \in {"parse_args", "devices"} /\ touched = {}
    /\ \E d \in Devices, m \in Drivers \cup {none} :
          /\ m # bound[d] /\ (m # none => d \in Supported[m])
          /\ bound' = [bound EXCEPT ![d] = m] /\ touched' = {d}
          /\ routes' = IF m \in {none, igb_uio} THEN routes \ {d} ELSE routes
    /\ UNCHANGED <<devices, cmd, flags, todo, shown, pc, start>>

PciNext ==
    \/ check_modules \/ get_nic_details \/ parse_args \/ HandleDevice \/ show_status \/ OthersMove
------------------------------------------------------------------------------
(* A command that is refused changes nothing, even if only its last name   *)
(* is unknown.  One that runs to its end leaves every device it names at   *)
(* the driver it asks for, or as it was if the device is active and not    *)
(* forced, or free if the driver did not take a free device; it leaves the *)
(* others alone.  The status displayed after a bind or unbind is the       *)
(* kernel's at that moment.  Devices that someone else moves meanwhile are *)
(* exempt from all but the last.                                           *)
Named(d) == \E i \in DOMAIN cmd.args :
               d = cmd.args[i] \/ (Interface[d] = cmd.args[i] /\ HasInterface(start.bound, d))
Asked(d) == flags.b # "" /\ Named(d) /\ (flags.force \/ d \notin start.active)
PciOutcome ==
    /\ pc = "refused" => \A d \in Devices \ touched : bound[d] = start.bound[d]
    /\ pc = "exit" =>
         /\ \A d \in Devices \ touched :
               IF Asked(d) THEN \/ bound[d] = flags.b
                                \/ bound[d] = none /\ start.bound[d] = none
               ELSE bound[d] = start.bound[d]
         /\ shown # <<>> => \A d \in Devices \ (IF flags.b # "" THEN {} ELSE touched) :
               /\ shown[d].at = IF bound[d] = igb_uio THEN "uio"
                                ELSE IF bound[d] = none THEN none ELSE "kernel"
               /\ shown[d].unused = {m \in Drivers : d \in Supported[m] /\ m # bound[d]}

(* A device that is named once keeps its driver when the one asked for     *)
(* does not take it, however the script ends: bind_one saves the driver    *)
(* "to rollback any unbind in case of failure".                            *)
PreviousDriverRestored ==
    pc \in {"exit", "died"} /\ flags.b \notin {"", none} /\ touched = {} /\ Len(cmd.args) = 1 =>
        \A d \in Devices : bound[d] \in {start.bound[d], flags.b}
=============================================================================
