------------------------------ MODULE CharDev ------------------------------
(***************************************************************************)
(* hw2/ticket.c, hw4/sleepy.c and hw4/shady.c: the life of a module with   *)
(* character devices.  The three have the same init, construct, destroy    *)
(* and cleanup functions, and differ in what a device is given after it    *)
(* has become live, and in what shady adds.  Sleepy models the read and    *)
(* write of sleepy.c; here a method of it, or of shady.c, is one use of    *)
(* the device, and ticket_read() is modelled whole.                        *)
(*                                                                         *)
(* One process loads the module, and removes it; the others open, use and  *)
(* close devices.  Of the kernel (Linux 3.2): an open succeeds from        *)
(* cdev_add() to cdev_del(), while the module is not on its way out, and   *)
(* holds a reference; rmmod fails while there is one; but when init fails  *)
(* the module is freed whatever the references.                            *)
(***************************************************************************)
EXTENDS Integers, Sequences, FiniteSets

CONSTANTS
  Process,
  Ndevices,               (* ticket_ndevices, sleepy_ndevices ...          *)
  FirstTicket,            (* 1000                                          *)
  MaxTickets              (* bound of the tickets given by a device        *)

ASSUME DeviceAssumption == Ndevices \in Nat \ {0} /\ FirstTicket \in Nat \ {0}
ASSUME ProcessAssumption == "nobody" \notin Process

VARIABLES
  driver,                 (* which of the three is loaded                  *)
  state,                  (* of the module, as the kernel has it           *)
  loader,                 (* what init or cleanup does next: [pc, i, last] *)
  region, class, devices, (* what the module has of the kernel             *)
  dev,                    (* the devices: [cdev, node, data, ready, num]   *)
  call_table, old_open,   (* sys_call_table[__NR_open], and shady's copy   *)
  proc,                   (* [pc, file, early, num]                        *)
  mutex,                  (* who holds the mutex of a device               *)
  given,                  (* history: the tickets each device gave         *)
  hasty                   (* history: devices read before they were ready  *)

hook   == <<call_table, old_open>>
kernel == <<region, class, devices>>
users  == <<proc, mutex, given, hasty>>
vars   == <<driver, state, loader, kernel, dev, hook, users>>

Device == 0 .. Ndevices - 1
Nobody == "nobody"
NoFile == -1

Init ==
  /\ driver \in {"ticket", "sleepy", "shady"}
  /\ state = "coming"
  /\ loader = [pc |-> "region", i |-> 0, last |-> 0]
  /\ region = FALSE /\ class = "none" /\ devices = "none"
  /\ dev = [d \in Device |-> [cdev |-> FALSE, node |-> FALSE, data |-> FALSE,
                              ready |-> FALSE, num |-> 0]]
  /\ call_table = "sys_open" /\ old_open = "unset"
  /\ proc = [p \in Process |-> [pc |-> "idle", file |-> NoFile, early |-> FALSE, num |-> 0]]
  /\ mutex = [d \in Device |-> Nobody]
  /\ given = [d \in Device |-> <<>>]
  /\ hasty = {}

-----------------------------------------------------------------------------
(* ticket_init_module(), sleepy_init_module(), shady_init_module()         *)

At(pc) == loader.pc = pc
Goto(pc) == loader' = [loader EXCEPT !.pc = pc]
Fail(n) == loader' = [pc |-> "destroy", i |-> 0, last |-> n]

AllocRegion ==
  /\ At("region")
  /\ \/ region' = TRUE /\ Goto("class") /\ UNCHANGED state
     \/ region' = FALSE /\ Goto("end") /\ state' = "gone"
  /\ UNCHANGED <<driver, class, devices, dev, hook, users>>

(* An error of class_create() stays in the pointer, for cleanup to pass to *)
(* class_destroy(), which ignores it.                                      *)
CreateClass ==
  /\ At("class")
  /\ \/ class' = "created" /\ Goto("devices")
     \/ class' = "error" /\ Fail(0)
  /\ UNCHANGED <<driver, state, region, devices, dev, hook, users>>

AllocDevices ==
  /\ At("devices")
  /\ \/ devices' = "allocated" /\ Goto("cdev")
     \/ devices' = "none" /\ Fail(0)
  /\ UNCHANGED <<driver, state, region, class, dev, hook, users>>

(* ..._construct_device(): mutex_init() and cdev_add()                     *)
AddDevice ==
  /\ At("cdev")
  /\ \/ dev' = [dev EXCEPT ![loader.i].cdev = TRUE] /\ Goto("node")
     \/ Fail(loader.i) /\ UNCHANGED dev
  /\ UNCHANGED <<driver, state, kernel, hook, users>>

(* Variant: the cdev is not deleted when device_create() fails.            *)
CreateDeviceKeepsCdev ==
  /\ At("node")
  /\ \/ dev' = [dev EXCEPT ![loader.i].node = TRUE] /\ Goto("ready")
     \/ Fail(loader.i) /\ UNCHANGED dev
  /\ UNCHANGED <<driver, state, kernel, hook, users>>

CreateDevice ==
  /\ At("node")
  /\ \/ dev' = [dev EXCEPT ![loader.i].node = TRUE] /\ Goto("ready")
     \/ dev' = [dev EXCEPT ![loader.i].cdev = FALSE] /\ Fail(loader.i)
  /\ UNCHANGED <<driver, state, kernel, hook, users>>

(* The loop over the devices goes on, or init has succeeded.               *)
NextDevice ==
  IF loader.i + 1 < Ndevices
  THEN loader' = [loader EXCEPT !.pc = "cdev", !.i = @ + 1] /\ UNCHANGED state
  ELSE IF driver = "shady" THEN Goto("old_open") /\ UNCHANGED state
  ELSE Goto("loaded") /\ state' = "live"

(* ticket.c: ticket_num gets its first value.                              *)
SetTicketNum ==
  /\ At("ready") /\ driver = "ticket"
  /\ dev' = [dev EXCEPT ![loader.i].num = FirstTicket, ![loader.i].ready = TRUE]
  /\ NextDevice
  /\ UNCHANGED <<driver, kernel, hook, users>>

(* sleepy.c: data is allocated; if that fails, the device stays.           *)
AllocData ==
  /\ At("ready") /\ driver = "sleepy"
  /\ \/ dev' = [dev EXCEPT ![loader.i].data = TRUE] /\ Goto("queue")
     \/ Fail(loader.i) /\ UNCHANGED dev
  /\ UNCHANGED <<driver, state, kernel, hook, users>>

(* sleepy.c: flag and wait queue.                                          *)
InitQueue ==
  /\ At("queue")
  /\ dev' = [dev EXCEPT ![loader.i].ready = TRUE]
  /\ NextDevice
  /\ UNCHANGED <<driver, kernel, hook, users>>

(* shady.c: nothing is left to do for a device.                            *)
Constructed ==
  /\ At("ready") /\ driver = "shady"
  /\ dev' = [dev EXCEPT ![loader.i].ready = TRUE]
  /\ NextDevice
  /\ UNCHANGED <<driver, kernel, hook, users>>

(* Variant: the entry is replaced before it has been saved.                *)
SaveOldOpenLate ==
  /\ At("old_open")
  /\ call_table' = "my_open"
  /\ Goto("call_table")
  /\ UNCHANGED <<driver, state, kernel, dev, old_open, users>>

SaveOldOpen ==
  /\ At("old_open")
  /\ old_open' = call_table
  /\ Goto("call_table")
  /\ UNCHANGED <<driver, state, kernel, dev, call_table, users>>

(* The stores of one processor are seen in their order.  list_del_init()   *)
(* hides the module: it cannot be removed any more.                        *)
ReplaceOpen ==
  /\ At("call_table")
  /\ call_table' = "my_open"
  /\ Goto("hidden")
  /\ state' = "live"
  /\ UNCHANGED <<driver, kernel, dev, old_open, users>>

-----------------------------------------------------------------------------
(* ..._cleanup_module(), at the end of an init that fails, and of rmmod.   *)

Open == {p \in Process : proc[p].file # NoFile}

(* Variant: rmmod does not look at the references.                         *)
RemoveForced ==
  /\ At("loaded")
  /\ state' = "going"
  /\ Fail(Ndevices)
  /\ UNCHANGED <<driver, kernel, dev, hook, users>>

Remove ==
  /\ At("loaded") /\ Open = {}
  /\ state' = "going"
  /\ Fail(Ndevices)
  /\ UNCHANGED <<driver, kernel, dev, hook, users>>

(* ..._destroy_device(), of the devices that were constructed.             *)
DestroyDevice ==
  /\ At("destroy") /\ devices = "allocated" /\ loader.i < loader.last
  /\ dev' = [dev EXCEPT ![loader.i].node = FALSE, ![loader.i].cdev = FALSE,
                        ![loader.i].data = FALSE]
  /\ loader' = [loader EXCEPT !.i = @ + 1]
  /\ UNCHANGED <<driver, state, kernel, hook, users>>

FreeDevices ==
  /\ At("destroy") /\ (devices = "allocated" => loader.i = loader.last)
  /\ devices' = IF devices = "allocated" THEN "freed" ELSE devices
  /\ Goto("unregister")
  /\ UNCHANGED <<driver, state, region, class, dev, hook, users>>

(* class_destroy(), unregister_chrdev_region() and the end of the module.  *)
Unregister ==
  /\ At("unregister")
  /\ class' = "none" /\ region' = FALSE
  /\ state' = "gone"
  /\ Goto("end")
  /\ UNCHANGED <<driver, devices, dev, hook, users>>

Loader ==
  \/ AllocRegion \/ CreateClass \/ AllocDevices \/ AddDevice \/ CreateDevice
  \/ SetTicketNum \/ AllocData \/ InitQueue \/ Constructed
  \/ SaveOldOpen \/ ReplaceOpen
  \/ Remove \/ DestroyDevice \/ FreeDevices \/ Unregister

-----------------------------------------------------------------------------
(* Processes                                                               *)

Step(p, from, to) ==
  proc[p].pc = from /\ proc' = [proc EXCEPT ![p].pc = to]
Mine(p) == dev[proc[p].file]

(* open(): sys_open(), or my_open() and then what old_open has.  early:    *)
(* the file is opened before the load has ended.                           *)
LoadCallTable(p) ==
  /\ proc[p].file = NoFile
  /\ Step(p, "idle", call_table)
  /\ UNCHANGED <<driver, state, loader, kernel, dev, hook, mutex, given, hasty>>

CallOldOpen(p) ==
  /\ Step(p, "my_open", old_open)
  /\ UNCHANGED <<driver, state, loader, kernel, dev, hook, mutex, given, hasty>>

OpenDevice(p) ==
  /\ proc[p].pc = "sys_open"
  /\ \/ \E d \in Device :
          /\ dev[d].cdev /\ state \in {"coming", "live"}
          /\ proc' = [proc EXCEPT ![p].pc = "idle", ![p].file = d,
                                  ![p].early = state = "coming"]
     \/ Step(p, "sys_open", "idle")
  /\ UNCHANGED <<driver, state, loader, kernel, dev, hook, mutex, given, hasty>>

Close(p) ==
  /\ proc[p].pc = "idle" /\ proc[p].file # NoFile
  /\ proc' = [proc EXCEPT ![p].file = NoFile, ![p].early = FALSE]
  /\ UNCHANGED <<driver, state, loader, kernel, dev, hook, mutex, given, hasty>>

(* mutex_lock_killable() of any method; -EINTR if a kill comes first.      *)
Lock(p) ==
  /\ proc[p].pc = "idle" /\ proc[p].file # NoFile
  /\ mutex[proc[p].file] = Nobody
  /\ mutex' = [mutex EXCEPT ![proc[p].file] = p]
  /\ proc' = [proc EXCEPT ![p].pc = IF driver = "ticket" THEN "copy" ELSE "use"]
  /\ hasty' = IF Mine(p).ready THEN hasty ELSE hasty \cup {proc[p].file}
  /\ UNCHANGED <<driver, state, loader, kernel, dev, hook, given>>

Unlock(p) == mutex' = [mutex EXCEPT ![proc[p].file] = Nobody]

(* A read or write of sleepy.c or shady.c.                                 *)
Use(p) ==
  /\ Step(p, "use", "idle")
  /\ Unlock(p)
  /\ UNCHANGED <<driver, state, loader, kernel, dev, hook, given, hasty>>

(* ticket_read(): copy_to_user(), unless count is not 4 or the copy fails. *)
CopyToUser(p) ==
  /\ proc[p].pc = "copy"
  /\ \/ /\ Len(given[proc[p].file]) < MaxTickets
        /\ given' = [given EXCEPT ![proc[p].file] = Append(@, Mine(p).num)]
        /\ Step(p, "copy", "load")
        /\ UNCHANGED mutex
     \/ Step(p, "copy", "idle") /\ Unlock(p) /\ UNCHANGED given
  /\ UNCHANGED <<driver, state, loader, kernel, dev, hook, hasty>>

(* Variant: the mutex is released before the number is increased.          *)
LoadNumUnlocked(p) ==
  /\ proc[p].pc = "load"
  /\ proc' = [proc EXCEPT ![p].pc = "store", ![p].num = Mine(p).num]
  /\ Unlock(p)
  /\ UNCHANGED <<driver, state, loader, kernel, dev, hook, given, hasty>>

(* ticket_num++, and the unlock                                            *)
LoadNum(p) ==
  /\ proc[p].pc = "load"
  /\ proc' = [proc EXCEPT ![p].pc = "store", ![p].num = Mine(p).num]
  /\ UNCHANGED <<driver, state, loader, kernel, dev, hook, mutex, given, hasty>>

StoreNum(p) ==
  /\ proc[p].pc = "store"
  /\ dev' = [dev EXCEPT ![proc[p].file].num = proc[p].num + 1]
  /\ proc' = [proc EXCEPT ![p].pc = "idle", ![p].num = 0]
  /\ Unlock(p)
  /\ UNCHANGED <<driver, state, loader, kernel, hook, given, hasty>>

Next ==
  \/ Loader
  \/ \E p \in Process :
       \/ LoadCallTable(p) \/ CallOldOpen(p) \/ OpenDevice(p) \/ Close(p)
       \/ Lock(p) \/ Use(p) \/ CopyToUser(p) \/ LoadNum(p) \/ StoreNum(p)

Spec == Init /\ [][Next]_vars

-----------------------------------------------------------------------------
(* Properties                                                              *)

TypeOK ==
  /\ driver \in {"ticket", "sleepy", "shady"}
  /\ state \in {"coming", "live", "going", "gone"}
  /\ loader \in [pc : {"region", "class", "devices", "cdev", "node", "ready", "queue",
                       "old_open", "call_table", "hidden", "loaded", "destroy",
                       "unregister", "end"},
                 i : 0 .. Ndevices, last : 0 .. Ndevices]
  /\ region \in BOOLEAN
  /\ class \in {"none", "created", "error"}
  /\ devices \in {"none", "allocated", "freed"}
  /\ dev \in [Device -> [cdev : BOOLEAN, node : BOOLEAN, data : BOOLEAN,
                         ready : BOOLEAN, num : Nat]]
  /\ call_table \in {"sys_open", "my_open"}
  /\ old_open \in {"unset", "sys_open"}
  /\ proc \in [Process -> [pc : {"idle", "sys_open", "my_open", "use", "copy", "load",
                                 "store"},
                           file : Device \cup {NoFile}, early : BOOLEAN, num : Nat]]
  /\ mutex \in [Device -> Process \cup {Nobody}]
  /\ given \in [Device -> Seq(Nat)]
  /\ hasty \subseteq Device

(* When the module is gone, by rmmod or because one of its steps failed,   *)
(* nothing of it is left in the kernel and its memory is freed, whichever  *)
(* step failed; but for the one device of sleepy.c whose data could not be *)
(* allocated, which stays registered.                                      *)
NothingLeftBehind ==
  state = "gone" =>
    /\ ~region /\ class = "none" /\ devices # "allocated"
    /\ \A d \in Device :
         \/ ~dev[d].cdev /\ ~dev[d].node /\ ~dev[d].data
         \/ driver = "sleepy" /\ d = loader.last /\ ~dev[d].data

(* A method that runs has a device that is allocated, registered and       *)
(* initialised, however loads, failures, opens, reads and rmmod            *)
(* interleave, unless the file was opened before the load had ended, and   *)
(* the load has still not ended well.                                      *)
UsesAreSound ==
  \A p \in Process :
    proc[p].pc \in {"use", "copy", "load", "store"} =>
      \/ devices = "allocated" /\ Mine(p).cdev /\ Mine(p).node /\ Mine(p).ready
      \/ proc[p].early /\ state # "live"

(* The tickets of a device are FirstTicket, and one more each time; and if *)
(* reads came before init stored the first number, it still gives no       *)
(* ticket twice, not even when a reader is in the midst of the increment   *)
(* then, before it has given as many as come below FirstTicket.            *)
TicketsGivenOnce ==
  \A d \in Device :
    /\ d \notin hasty => \A k \in DOMAIN given[d] : given[d][k] = FirstTicket + k - 1
    /\ Len(given[d]) <= FirstTicket =>
         \A j, k \in DOMAIN given[d] : given[d][j] = given[d][k] => j = k

(* A process that is in my_open() finds the open of before in old_open,    *)
(* and the module still there.                                             *)
HookSound ==
  \A p \in Process : proc[p].pc = "my_open" => old_open = "sys_open" /\ state # "gone"

=============================================================================
