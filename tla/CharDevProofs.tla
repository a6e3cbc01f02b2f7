--------------------------- MODULE CharDevProofs ---------------------------
(***************************************************************************)
(* The inductive invariant of CharDev, and the theorems that follow from   *)
(* it for every number of devices, processes and tickets: what a load that *)
(* fails at any of its steps leaves behind, which devices a method can     *)
(* meet, and which tickets a device gives.                                 *)
(***************************************************************************)
EXTENDS CharDev, TLAPS

Building == {"cdev", "node", "ready", "queue"}
Built == {"old_open", "call_table", "hidden", "loaded"}
Section == {"use", "copy", "load", "store"}

Bare(d) == ~ dev[d].cdev /\ ~ dev[d].node /\ ~ dev[d].data
Complete(d) == dev[d].cdev /\ dev[d].node /\ dev[d].ready
Leftover(d) == Bare(d) \/ (driver = "sleepy" /\ ~ dev[d].data)

(* Where the loader is tells what the module has of the kernel.            *)
LoaderInv ==
  /\ loader.pc \in Building => loader.i < Ndevices
  /\ loader.pc = "destroy" => loader.i <= loader.last
  /\ loader.pc = "queue" => driver = "sleepy"
  /\ CASE loader.pc \in {"hidden", "loaded"} -> state = "live"
       [] loader.pc \in {"destroy", "unregister"} -> state \in {"coming", "going"}
       [] loader.pc = "end" -> state = "gone"
       [] OTHER -> state = "coming"
  /\ loader.pc \in {"region", "class", "devices"} => devices = "none" /\ loader.i = 0
  /\ loader.pc \in Building \cup Built => devices = "allocated"
  /\ loader.pc \in {"unregister", "end"} => devices # "allocated"
  /\ loader.pc \in {"region", "end"} => class = "none"
  /\ loader.pc = "end" => ~ region

(* And how far each device is.                                             *)
DeviceInv(d) ==
  /\ loader.pc \in {"region", "class", "devices"} => Bare(d) /\ ~ dev[d].ready
  /\ loader.pc \in Building =>
       /\ d < loader.i => Complete(d)
       /\ d > loader.i => Bare(d) /\ ~ dev[d].ready
       /\ d = loader.i =>
            /\ ~ dev[d].ready
            /\ loader.pc = "cdev" => Bare(d)
            /\ loader.pc = "node" => dev[d].cdev /\ ~ dev[d].node /\ ~ dev[d].data
            /\ loader.pc \in {"ready", "queue"} => dev[d].cdev /\ dev[d].node
            /\ loader.pc = "ready" => ~ dev[d].data
  /\ loader.pc \in Built => Complete(d)
  /\ loader.pc = "destroy" =>
       /\ (d < loader.i \/ d > loader.last \/ devices # "allocated") => Bare(d)
       /\ d = loader.last => Leftover(d)
  /\ loader.pc \in {"unregister", "end"} =>
       IF d = loader.last THEN Leftover(d) ELSE Bare(d)

(* A file that was opened after the load keeps the module.                 *)
FileInv ==
  \A p \in Process :
    /\ proc[p].file # NoFile /\ ~ proc[p].early => state = "live"
    /\ proc[p].pc \in Section => proc[p].file # NoFile /\ mutex[proc[p].file] = p
    /\ proc[p].pc \in {"copy", "load", "store"} => driver = "ticket"

MutexInv ==
  \A d \in Device :
    mutex[d] # Nobody => proc[mutex[d]].pc \in Section /\ proc[mutex[d]].file = d

(* my_open() is in the table when the module can no longer be removed.     *)
HookInv ==
  /\ call_table = IF loader.pc = "hidden" THEN "my_open" ELSE "sys_open"
  /\ loader.pc \in {"call_table", "hidden"} => old_open = "sys_open"
  /\ \A p \in Process : proc[p].pc = "my_open" => loader.pc = "hidden"

(* The number that ticket_num has when the reader inside, if it has given  *)
(* its ticket, is out.                                                     *)
NextTicket(d) ==
  CASE mutex[d] # Nobody /\ proc[mutex[d]].pc = "load" -> dev[d].num + 1
    [] mutex[d] # Nobody /\ proc[mutex[d]].pc = "store" -> proc[mutex[d]].num + 1
    [] OTHER -> dev[d].num

(* Before init has stored the first number a device counts from 0; then    *)
(* from FirstTicket, or, if it was read before, from either.               *)
TicketInv(d) ==
  /\ ~ dev[d].ready =>
       /\ \A k \in 1 .. Len(given[d]) : given[d][k] = k - 1
       /\ NextTicket(d) = Len(given[d])
       /\ d \notin hasty => given[d] = <<>> /\ mutex[d] = Nobody
  /\ dev[d].ready /\ d \notin hasty =>
       /\ \A k \in 1 .. Len(given[d]) : given[d][k] = FirstTicket + k - 1
       /\ NextTicket(d) = FirstTicket + Len(given[d])
  /\ dev[d].ready /\ d \in hasty /\ Len(given[d]) <= FirstTicket =>
       /\ \A j, k \in 1 .. Len(given[d]) : j < k => given[d][j] < given[d][k]
       /\ \A k \in 1 .. Len(given[d]) : given[d][k] < NextTicket(d)

TicketsInv ==
  IF driver = "ticket" THEN \A d \in Device : TicketInv(d)
  ELSE \A d \in Device : given[d] = <<>>

(* The inductive invariant.                                                *)
IInv ==
  /\ TypeOK
  /\ LoaderInv
  /\ \A d \in Device : DeviceInv(d)
  /\ FileInv
  /\ MutexInv
  /\ HookInv
  /\ TicketsInv

-----------------------------------------------------------------------------
(* Records                                                                 *)

LoaderPc == {"region", "class", "devices"} \cup Building \cup Built
            \cup {"destroy", "unregister", "end"}
LoaderRec == [pc : LoaderPc, i : 0 .. Ndevices, last : 0 .. Ndevices]
DeviceRec == [cdev : BOOLEAN, node : BOOLEAN, data : BOOLEAN, ready : BOOLEAN, num : Nat]
ProcRec == [pc : {"idle", "sys_open", "my_open"} \cup Section,
            file : Device \cup {NoFile}, early : BOOLEAN, num : Nat]

Typed ==
  /\ driver \in {"ticket", "sleepy", "shady"}
  /\ state \in {"coming", "live", "going", "gone"}
  /\ loader \in LoaderRec
  /\ region \in BOOLEAN
  /\ class \in {"none", "created", "error"}
  /\ devices \in {"none", "allocated", "freed"}
  /\ dev \in [Device -> DeviceRec]
  /\ call_table \in {"sys_open", "my_open"}
  /\ old_open \in {"unset", "sys_open"}
  /\ proc \in [Process -> ProcRec]
  /\ mutex \in [Device -> Process \cup {Nobody}]
  /\ given \in [Device -> Seq(Nat)]
  /\ hasty \subseteq Device

LEMMA Types == TypeOK <=> Typed
<1>1. LoaderPc = {"region", "class", "devices", "cdev", "node", "ready", "queue", "old_open",
                  "call_table", "hidden", "loaded", "destroy", "unregister", "end"}
  BY DEF LoaderPc, Building, Built
<1>2. {"idle", "sys_open", "my_open"} \cup Section
        = {"idle", "sys_open", "my_open", "use", "copy", "load", "store"}
  BY DEF Section
<1>. QED  BY <1>1, <1>2 DEF TypeOK, Typed, LoaderRec, DeviceRec, ProcRec

LEMMA TypesNext == TypeOK' <=> Typed'
BY Types, PTL

LEMMA TypeFrame ==
  ASSUME TypeOK, UNCHANGED <<driver, hook, users>>,
         state' \in {"coming", "live", "going", "gone"}, loader' \in LoaderRec,
         region' \in BOOLEAN, class' \in {"none", "created", "error"},
         devices' \in {"none", "allocated", "freed"}, dev' \in [Device -> DeviceRec]
  PROVE  TypeOK'
<1>1. UNCHANGED <<call_table, old_open, proc, mutex, given, hasty>>
  BY DEF hook, users
<1>2. Typed'
  BY <1>1, Types DEF Typed
<1>. QED  BY <1>2, TypesNext

LEMMA GotoShape ==
  ASSUME loader \in LoaderRec, NEW pc \in LoaderPc, Goto(pc)
  PROVE  loader' \in LoaderRec /\ loader'.pc = pc /\ loader'.i = loader.i /\ loader'.last = loader.last
BY DEF Goto, LoaderRec

LEMMA FailShape ==
  ASSUME NEW n \in 0 .. Ndevices, Fail(n)
  PROVE  loader' \in LoaderRec /\ loader'.pc = "destroy" /\ loader'.i = 0 /\ loader'.last = n
BY DeviceAssumption DEF Fail, LoaderRec, LoaderPc

LEMMA DevShape ==
  ASSUME dev \in [Device -> DeviceRec], NEW n \in Device, NEW r \in DeviceRec,
         dev' = [dev EXCEPT ![n] = r]
  PROVE  /\ dev' \in [Device -> DeviceRec] /\ dev'[n] = r
         /\ \A d \in Device : d # n => dev'[d] = dev[d]
OBVIOUS

LEMMA Base ==
  ASSUME IInv
  PROVE  /\ loader \in LoaderRec /\ dev \in [Device -> DeviceRec] /\ loader.i \in 0 .. Ndevices
         /\ TypeOK /\ LoaderInv /\ Ndevices \in Nat \ {0}
         /\ loader.pc \in Building => loader.i \in Device
         /\ \A d \in Device : DeviceInv(d)
<1>1. TypeOK /\ LoaderInv /\ Ndevices \in Nat \ {0} /\ \A d \in Device : DeviceInv(d)
  BY DeviceAssumption DEF IInv
<1>2. loader \in LoaderRec /\ dev \in [Device -> DeviceRec]
  BY <1>1, Types DEF Typed
<1>3. loader.i \in 0 .. Ndevices
  BY <1>2 DEF LoaderRec
<1>4. loader.pc \in Building => loader.i \in Device
  BY <1>1, <1>3 DEF LoaderInv, Device
<1>. QED  BY <1>1, <1>2, <1>3, <1>4

-----------------------------------------------------------------------------
(* Steps of init and cleanup                                               *)

(* The processes and their tickets in a step of the loader.                *)
LEMMA UsersStill ==
  ASSUME IInv, UNCHANGED <<driver, users>>,
         state = "live" => state' = "live" \/ Open = {},
         \A d \in Device : dev'[d].num = dev[d].num /\ dev'[d].ready = dev[d].ready
  PROVE  FileInv' /\ MutexInv' /\ TicketsInv'
<1>1. UNCHANGED <<proc, mutex, given, hasty>>
  BY DEF users
<1>2. FileInv'
  BY <1>1 DEF IInv, FileInv, Open
<1>3. MutexInv'
  BY <1>1 DEF IInv, MutexInv
<1>4. \A d \in Device : NextTicket(d)' = NextTicket(d)
  BY <1>1 DEF NextTicket
<1>5. TicketsInv'
  BY <1>1, <1>4 DEF IInv, TicketsInv, TicketInv
<1>. QED  BY <1>2, <1>3, <1>5

LEMMA HookStill ==
  ASSUME IInv, UNCHANGED <<hook, users>>, loader.pc # "hidden",
         loader'.pc \notin {"hidden", "call_table"}
  PROVE  HookInv'
BY DEF IInv, HookInv, hook, users

LEMMA AllocRegionStep ==
  ASSUME IInv, AllocRegion
  PROVE  IInv'
<1>0. /\ TypeOK /\ LoaderInv /\ loader \in LoaderRec /\ loader.pc = "region" /\ state = "coming"
      /\ UNCHANGED <<driver, class, devices, dev, hook, users>> /\ region' \in BOOLEAN
      /\ \A d \in Device : DeviceInv(d)
      /\ dev \in [Device -> DeviceRec]
      /\ class = "none" /\ devices = "none" /\ loader.i = 0
  BY Base DEF AllocRegion, At, LoaderInv, Building
<1>1. \/ loader'.pc = "class" /\ state' = "coming"
      \/ loader'.pc = "end" /\ state' = "gone" /\ ~ region'
  BY <1>0, GotoShape DEF AllocRegion, LoaderPc
<1>2. loader' \in LoaderRec /\ loader'.i = loader.i /\ loader'.last = loader.last
  BY <1>0, GotoShape DEF AllocRegion, LoaderPc
<1>3. TypeOK'
  BY <1>0, <1>1, <1>2, TypeFrame DEF TypeOK
<1>4. LoaderInv'
  BY <1>0, <1>1, <1>2 DEF LoaderInv, Building, Built
<1>5. HookInv'
  BY <1>0, <1>1, HookStill
<1>6. \A d \in Device : DeviceInv(d)'
  BY <1>0, <1>1 DEF DeviceInv, Bare, Leftover, Building, Built
<1>7. FileInv' /\ MutexInv' /\ TicketsInv'
  BY <1>0, UsersStill
<1>. QED  BY <1>3, <1>4, <1>5, <1>6, <1>7 DEF IInv

LEMMA CreateClassStep ==
  ASSUME IInv, CreateClass
  PROVE  IInv'
<1>0. /\ TypeOK /\ LoaderInv /\ loader \in LoaderRec /\ loader.pc = "class" /\ state = "coming"
      /\ UNCHANGED <<driver, state, region, devices, dev, hook, users>>
      /\ \A d \in Device : DeviceInv(d)
      /\ dev \in [Device -> DeviceRec]
      /\ devices = "none" /\ loader.i = 0 /\ 0 \in 0 .. Ndevices
  BY Base DEF CreateClass, At, LoaderInv, Building
<1>1. \/ loader'.pc = "devices" /\ class' = "created" /\ loader'.i = 0 /\ loader' \in LoaderRec
      \/ /\ loader'.pc = "destroy" /\ class' = "error" /\ loader'.i = 0 /\ loader'.last = 0
         /\ loader' \in LoaderRec
  BY <1>0, GotoShape, FailShape DEF CreateClass, LoaderPc
<1>2. TypeOK'
  BY <1>0, <1>1, TypeFrame DEF TypeOK
<1>3. LoaderInv'
  BY <1>0, <1>1 DEF LoaderInv, Building, Built
<1>4. HookInv'
  BY <1>0, <1>1, HookStill
<1>5. \A d \in Device : DeviceInv(d)'
  BY <1>0, <1>1 DEF DeviceInv, Bare, Leftover, Building, Built
<1>6. FileInv' /\ MutexInv' /\ TicketsInv'
  BY <1>0, UsersStill
<1>. QED  BY <1>2, <1>3, <1>4, <1>5, <1>6 DEF IInv

LEMMA AllocDevicesStep ==
  ASSUME IInv, AllocDevices
  PROVE  IInv'
<1>0. /\ TypeOK /\ LoaderInv /\ loader \in LoaderRec /\ loader.pc = "devices" /\ state = "coming"
      /\ UNCHANGED <<driver, state, region, class, dev, hook, users>>
      /\ \A d \in Device : DeviceInv(d)
      /\ dev \in [Device -> DeviceRec]
      /\ devices = "none" /\ loader.i = 0 /\ 0 \in 0 .. Ndevices
      /\ Ndevices \in Nat \ {0}
  BY Base DEF AllocDevices, At, LoaderInv, Building
<1>1. \/ loader'.pc = "cdev" /\ devices' = "allocated" /\ loader'.i = 0 /\ loader' \in LoaderRec
      \/ /\ loader'.pc = "destroy" /\ devices' = "none" /\ loader'.i = 0 /\ loader'.last = 0
         /\ loader' \in LoaderRec
  BY <1>0, GotoShape, FailShape DEF AllocDevices, LoaderPc, Building
<1>2. TypeOK'
  BY <1>0, <1>1, TypeFrame DEF TypeOK
<1>3. LoaderInv'
  BY <1>0, <1>1 DEF LoaderInv, Building, Built
<1>4. HookInv'
  BY <1>0, <1>1, HookStill
<1>5. \A d \in Device : DeviceInv(d)'
  BY <1>0, <1>1 DEF DeviceInv, Bare, Leftover, Building, Built, Device
<1>6. FileInv' /\ MutexInv' /\ TicketsInv'
  BY <1>0, UsersStill
<1>. QED  BY <1>2, <1>3, <1>4, <1>5, <1>6 DEF IInv

LEMMA AddDeviceStep ==
  ASSUME IInv, AddDevice
  PROVE  IInv'
<1>. DEFINE n == loader.i
            r == [dev[n] EXCEPT !.cdev = TRUE]
<1>0. /\ TypeOK /\ LoaderInv /\ loader \in LoaderRec /\ loader.pc = "cdev" /\ state = "coming"
      /\ UNCHANGED <<driver, state, region, class, devices, hook, users>>
      /\ \A d \in Device : DeviceInv(d)
      /\ dev \in [Device -> DeviceRec] /\ n \in Device /\ n \in 0 .. Ndevices
      /\ devices = "allocated" /\ n < Ndevices /\ Ndevices \in Nat \ {0}
  BY Base DEF AddDevice, At, LoaderInv, Building, kernel
<1>1. /\ r \in DeviceRec /\ r.cdev = TRUE /\ r.node = dev[n].node /\ r.data = dev[n].data
      /\ r.ready = dev[n].ready /\ r.num = dev[n].num
  BY <1>0 DEF DeviceRec
<1>. HIDE DEF r
<1>2. \/ /\ loader'.pc = "node" /\ loader'.i = n /\ loader' \in LoaderRec
         /\ dev' \in [Device -> DeviceRec] /\ dev'[n] = r
         /\ \A d \in Device : d # n => dev'[d] = dev[d]
      \/ /\ loader'.pc = "destroy" /\ dev' = dev /\ loader'.i = 0 /\ loader'.last = n
         /\ loader' \in LoaderRec
  <2>1. \/ dev' = [dev EXCEPT ![n] = r] /\ Goto("node")
        \/ dev' = dev /\ Fail(n)
    BY DEF AddDevice, r
  <2>2. CASE dev' = [dev EXCEPT ![n] = r] /\ Goto("node")
    BY <1>0, <1>1, <2>2, GotoShape, DevShape DEF LoaderPc, Building
  <2>3. CASE dev' = dev /\ Fail(n)
    BY <1>0, <2>3, FailShape
  <2>. QED  BY <2>1, <2>2, <2>3
<1>3. TypeOK'
  BY <1>0, <1>2, TypeFrame DEF TypeOK
<1>4. LoaderInv'
  BY <1>0, <1>2 DEF LoaderInv, Building, Built
<1>5. HookInv'
  BY <1>0, <1>2, HookStill
<1>6. \A d \in Device : DeviceInv(d)'
  <2>. SUFFICES ASSUME NEW d \in Device PROVE DeviceInv(d)'
    OBVIOUS
  <2>1. /\ d < n => Complete(d)
        /\ d > n => Bare(d) /\ ~ dev[d].ready
        /\ d = n => Bare(d) /\ ~ dev[d].ready
        /\ d \in Int
    BY <1>0 DEF DeviceInv, Building, Device
  <2>2. /\ d < n => Complete(d)'
        /\ d > n => Bare(d)' /\ ~ dev'[d].ready
    <3>1. CASE d # n
      BY <1>2, <2>1, <3>1 DEF Bare, Complete
    <3>2. CASE d = n
      BY <1>0, <3>2
    <3>. QED  BY <3>1, <3>2
  <2>3. CASE loader'.pc # "destroy"
    <3>1. d = n => ~ dev'[d].ready /\ dev'[d].cdev /\ ~ dev'[d].node /\ ~ dev'[d].data
      BY <1>1, <1>2, <2>1, <2>3 DEF Bare
    <3>2. loader'.pc = "node" /\ loader'.i = n
      BY <1>2, <2>3
    <3>. QED  BY <2>2, <3>1, <3>2 DEF DeviceInv, Building, Built
  <2>4. CASE loader'.pc = "destroy"
    <3>1. loader'.i = 0 /\ loader'.last = n /\ devices' = "allocated"
      BY <1>0, <1>2, <2>4
    <3>2. d = n => Leftover(d)'
      BY <1>0, <1>1, <1>2, <2>1, <2>4 DEF Bare, Leftover
    <3>. QED  BY <1>0, <2>1, <2>2, <2>4, <3>1, <3>2 DEF DeviceInv, Building, Built, Device
  <2>. QED  BY <2>3, <2>4
<1>7. FileInv' /\ MutexInv' /\ TicketsInv'
  BY <1>0, <1>1, <1>2, UsersStill
<1>. QED  BY <1>3, <1>4, <1>5, <1>6, <1>7 DEF IInv

LEMMA CreateDeviceStep ==
  ASSUME IInv, CreateDevice
  PROVE  IInv'
<1>. DEFINE n == loader.i
            r == [dev[n] EXCEPT !.node = TRUE]
            s == [dev[n] EXCEPT !.cdev = FALSE]
<1>0. /\ TypeOK /\ LoaderInv /\ loader \in LoaderRec /\ loader.pc = "node" /\ state = "coming"
      /\ UNCHANGED <<driver, state, region, class, devices, hook, users>>
      /\ \A d \in Device : DeviceInv(d)
      /\ dev \in [Device -> DeviceRec] /\ n \in Device /\ n \in 0 .. Ndevices
      /\ devices = "allocated" /\ n < Ndevices /\ Ndevices \in Nat \ {0}
  BY Base DEF CreateDevice, At, LoaderInv, Building, kernel
<1>1. /\ r \in DeviceRec /\ r.cdev = dev[n].cdev /\ r.node = TRUE /\ r.data = dev[n].data
      /\ r.ready = dev[n].ready /\ r.num = dev[n].num
      /\ s \in DeviceRec /\ s.cdev = FALSE /\ s.node = dev[n].node /\ s.data = dev[n].data
      /\ s.ready = dev[n].ready /\ s.num = dev[n].num
  BY <1>0 DEF DeviceRec
<1>. HIDE DEF r, s
<1>2. /\ dev' \in [Device -> DeviceRec] /\ loader' \in LoaderRec
      /\ \A d \in Device : d # n => dev'[d] = dev[d]
      /\ \/ loader'.pc = "ready" /\ loader'.i = n /\ dev'[n] = r
         \/ loader'.pc = "destroy" /\ loader'.i = 0 /\ loader'.last = n /\ dev'[n] = s
  <2>1. \/ dev' = [dev EXCEPT ![n] = r] /\ Goto("ready")
        \/ dev' = [dev EXCEPT ![n] = s] /\ Fail(n)
    BY DEF CreateDevice, r, s
  <2>2. CASE dev' = [dev EXCEPT ![n] = r] /\ Goto("ready")
    BY <1>0, <1>1, <2>2, GotoShape, DevShape DEF LoaderPc, Building
  <2>3. CASE dev' = [dev EXCEPT ![n] = s] /\ Fail(n)
    BY <1>0, <1>1, <2>3, FailShape, DevShape
  <2>. QED  BY <2>1, <2>2, <2>3
<1>3. TypeOK'
  BY <1>0, <1>2, TypeFrame DEF TypeOK
<1>4. LoaderInv'
  BY <1>0, <1>2 DEF LoaderInv, Building, Built
<1>5. HookInv'
  BY <1>0, <1>2, HookStill
<1>6. \A d \in Device : DeviceInv(d)'
  <2>. SUFFICES ASSUME NEW d \in Device PROVE DeviceInv(d)'
    OBVIOUS
  <2>1. /\ d < n => Complete(d)
        /\ d > n => Bare(d) /\ ~ dev[d].ready
        /\ d = n => dev[d].cdev /\ ~ dev[d].node /\ ~ dev[d].data /\ ~ dev[d].ready
        /\ d \in Int
    BY <1>0 DEF DeviceInv, Building, Device
  <2>2. /\ d < n => Complete(d)'
        /\ d > n => Bare(d)' /\ ~ dev'[d].ready
    <3>1. CASE d # n
      BY <1>2, <2>1, <3>1 DEF Bare, Complete
    <3>2. CASE d = n
      BY <1>0, <3>2
    <3>. QED  BY <3>1, <3>2
  <2>3. CASE loader'.pc # "destroy"
    <3>1. d = n => ~ dev'[d].ready /\ dev'[d].cdev /\ dev'[d].node /\ ~ dev'[d].data
      BY <1>1, <1>2, <2>1, <2>3 DEF Bare
    <3>2. loader'.pc = "ready" /\ loader'.i = n
      BY <1>2, <2>3
    <3>. QED  BY <2>2, <3>1, <3>2 DEF DeviceInv, Building, Built
  <2>4. CASE loader'.pc = "destroy"
    <3>1. loader'.i = 0 /\ loader'.last = n /\ devices' = "allocated"
      BY <1>0, <1>2, <2>4
    <3>2. d = n => Leftover(d)'
      BY <1>0, <1>1, <1>2, <2>1, <2>4 DEF Bare, Leftover
    <3>. QED  BY <1>0, <2>1, <2>2, <2>4, <3>1, <3>2 DEF DeviceInv, Building, Built, Device
  <2>. QED  BY <2>3, <2>4
<1>7. FileInv' /\ MutexInv' /\ TicketsInv'
  BY <1>0, <1>1, <1>2, UsersStill
<1>. QED  BY <1>3, <1>4, <1>5, <1>6, <1>7 DEF IInv

LEMMA AllocDataStep ==
  ASSUME IInv, AllocData
  PROVE  IInv'
<1>. DEFINE n == loader.i
            r == [dev[n] EXCEPT !.data = TRUE]
<1>0. /\ TypeOK /\ LoaderInv /\ loader \in LoaderRec /\ loader.pc = "ready" /\ state = "coming"
      /\ UNCHANGED <<driver, state, region, class, devices, hook, users>>
      /\ \A d \in Device : DeviceInv(d)
      /\ dev \in [Device -> DeviceRec] /\ n \in Device /\ n \in 0 .. Ndevices
      /\ devices = "allocated" /\ n < Ndevices /\ Ndevices \in Nat \ {0} /\ driver = "sleepy"
  BY Base DEF AllocData, At, LoaderInv, Building, kernel
<1>1. /\ r \in DeviceRec /\ r.cdev = dev[n].cdev /\ r.node = dev[n].node /\ r.data = TRUE
      /\ r.ready = dev[n].ready /\ r.num = dev[n].num
  BY <1>0 DEF DeviceRec
<1>. HIDE DEF r
<1>2. \/ /\ loader'.pc = "queue" /\ loader'.i = n /\ loader' \in LoaderRec
         /\ dev' \in [Device -> DeviceRec] /\ dev'[n] = r
         /\ \A d \in Device : d # n => dev'[d] = dev[d]
      \/ /\ loader'.pc = "destroy" /\ dev' = dev /\ loader'.i = 0 /\ loader'.last = n
         /\ loader' \in LoaderRec
  <2>1. \/ dev' = [dev EXCEPT ![n] = r] /\ Goto("queue")
        \/ dev' = dev /\ Fail(n)
    BY DEF AllocData, r
  <2>2. CASE dev' = [dev EXCEPT ![n] = r] /\ Goto("queue")
    BY <1>0, <1>1, <2>2, GotoShape, DevShape DEF LoaderPc, Building
  <2>3. CASE dev' = dev /\ Fail(n)
    BY <1>0, <2>3, FailShape
  <2>. QED  BY <2>1, <2>2, <2>3
<1>3. TypeOK'
  BY <1>0, <1>2, TypeFrame DEF TypeOK
<1>4. LoaderInv'
  BY <1>0, <1>2 DEF LoaderInv, Building, Built
<1>5. HookInv'
  BY <1>0, <1>2, HookStill
<1>6. \A d \in Device : DeviceInv(d)'
  <2>. SUFFICES ASSUME NEW d \in Device PROVE DeviceInv(d)'
    OBVIOUS
  <2>1. /\ d < n => Complete(d)
        /\ d > n => Bare(d) /\ ~ dev[d].ready
        /\ d = n => dev[d].cdev /\ dev[d].node /\ ~ dev[d].data /\ ~ dev[d].ready
        /\ d \in Int
    BY <1>0 DEF DeviceInv, Building, Device
  <2>2. /\ d < n => Complete(d)'
        /\ d > n => Bare(d)' /\ ~ dev'[d].ready
    <3>1. CASE d # n
      BY <1>2, <2>1, <3>1 DEF Bare, Complete
    <3>2. CASE d = n
      BY <1>0, <3>2
    <3>. QED  BY <3>1, <3>2
  <2>3. CASE loader'.pc # "destroy"
    <3>1. d = n => ~ dev'[d].ready /\ dev'[d].cdev /\ dev'[d].node
      BY <1>1, <1>2, <2>1, <2>3 DEF Bare
    <3>2. loader'.pc = "queue" /\ loader'.i = n
      BY <1>2, <2>3
    <3>. QED  BY <2>2, <3>1, <3>2 DEF DeviceInv, Building, Built
  <2>4. CASE loader'.pc = "destroy"
    <3>1. loader'.i = 0 /\ loader'.last = n /\ devices' = "allocated"
      BY <1>0, <1>2, <2>4
    <3>2. d = n => Leftover(d)'
      BY <1>0, <1>1, <1>2, <2>1, <2>4 DEF Bare, Leftover
    <3>. QED  BY <1>0, <2>1, <2>2, <2>4, <3>1, <3>2 DEF DeviceInv, Building, Built, Device
  <2>. QED  BY <2>3, <2>4
<1>7. FileInv' /\ MutexInv' /\ TicketsInv'
  BY <1>0, <1>1, <1>2, UsersStill
<1>. QED  BY <1>3, <1>4, <1>5, <1>6, <1>7 DEF IInv

(* A device is complete; the next one follows, or the load goes on to its  *)
(* end.                                                                    *)
LEMMA NextDeviceStep ==
  ASSUME IInv, NextDevice, loader.pc \in {"ready", "queue"},
         UNCHANGED <<driver, kernel, hook, users>>, NEW n \in Device, n = loader.i,
         Complete(n)', \A d \in Device : d # n => dev'[d] = dev[d]
  PROVE  /\ LoaderInv' /\ HookInv' /\ FileInv' /\ MutexInv'
         /\ \A d \in Device : DeviceInv(d)'
         /\ dev' \in [Device -> DeviceRec] => TypeOK'
<1>0. /\ loader.i \in Device /\ loader.i \in 0 .. Ndevices - 1 /\ state = "coming"
      /\ loader \in LoaderRec /\ Ndevices \in Nat \ {0} /\ devices = "allocated"
      /\ TypeOK /\ LoaderInv
      /\ \A d \in Device : DeviceInv(d)
      /\ UNCHANGED <<driver, region, class, devices, hook, users>>
  BY Base DEF LoaderInv, Building, kernel
<1>1. CASE loader.i + 1 < Ndevices
  <2>1. loader' = [loader EXCEPT !.pc = "cdev", !.i = @ + 1] /\ state' = state
    BY <1>1 DEF NextDevice
  <2>2. /\ loader'.pc = "cdev" /\ loader'.i = loader.i + 1 /\ state' = "coming"
        /\ loader' \in LoaderRec /\ loader'.i < Ndevices
    <3>1. loader.i + 1 \in 0 .. Ndevices /\ "cdev" \in LoaderPc
      BY <1>0, <1>1 DEF LoaderPc, Building
    <3>. QED  BY <1>0, <1>1, <2>1, <3>1 DEF LoaderRec
  <2>3. LoaderInv' /\ HookInv'
    BY <1>0, <2>2, HookStill DEF LoaderInv, Building, Built
  <2>4. ASSUME NEW d \in Device PROVE DeviceInv(d)'
    <3>1. d \in Int /\ DeviceInv(d)
      BY <1>0 DEF Device
    <3>2. d < loader.i + 1 => Complete(d)'
      BY <1>0, <3>1 DEF DeviceInv, Building, Complete
    <3>3. d > loader.i => Bare(d)' /\ ~ dev'[d].ready
      BY <1>0, <3>1 DEF DeviceInv, Building, Bare
    <3>. QED  BY <1>0, <2>2, <3>1, <3>2, <3>3 DEF DeviceInv, Building, Built
  <2>5. FileInv' /\ MutexInv'
    BY <1>0, <2>2 DEF IInv, FileInv, MutexInv, users
  <2>6. dev' \in [Device -> DeviceRec] => TypeOK'
    BY <1>0, <2>2, TypeFrame DEF TypeOK
  <2>. QED  BY <2>3, <2>4, <2>5, <2>6
<1>2. CASE ~ (loader.i + 1 < Ndevices)
  <2>1. \/ /\ driver = "shady" /\ loader'.pc = "old_open" /\ state' = "coming"
           /\ loader' \in LoaderRec
        \/ loader'.pc = "loaded" /\ state' = "live" /\ loader' \in LoaderRec
    BY <1>0, <1>2, GotoShape DEF NextDevice, LoaderPc, Built
  <2>2. LoaderInv' /\ HookInv'
    BY <1>0, <2>1, HookStill DEF LoaderInv, Building, Built
  <2>3. ASSUME NEW d \in Device PROVE DeviceInv(d)'
    <3>1. d \in Int /\ d <= loader.i /\ DeviceInv(d)
      BY <1>0, <1>2 DEF Device
    <3>2. Complete(d)'
      BY <1>0, <3>1 DEF DeviceInv, Building, Complete
    <3>. QED  BY <2>1, <3>2 DEF DeviceInv, Building, Built
  <2>4. FileInv' /\ MutexInv'
    BY <1>0, <2>1 DEF IInv, FileInv, MutexInv, users
  <2>5. dev' \in [Device -> DeviceRec] => TypeOK'
    BY <1>0, <2>1, TypeFrame DEF TypeOK
  <2>. QED  BY <2>2, <2>3, <2>4, <2>5
<1>. QED  BY <1>1, <1>2

(* A device of another driver gives no ticket.                             *)
LEMMA NoTickets ==
  ASSUME IInv, driver # "ticket", UNCHANGED <<driver, given>>
  PROVE  TicketsInv'
BY DEF IInv, TicketsInv

LEMMA InitQueueStep ==
  ASSUME IInv, InitQueue, NEW n \in Device, n = loader.i
  PROVE  IInv'
<1>. DEFINE r == [dev[n] EXCEPT !.ready = TRUE]
<1>0. /\ LoaderInv /\ loader.pc = "queue" /\ dev \in [Device -> DeviceRec] /\ n \in Device
      /\ driver = "sleepy" /\ DeviceInv(n)
      /\ UNCHANGED <<driver, kernel, hook, users>> /\ NextDevice
  BY Base DEF InitQueue, At, LoaderInv, Building
<1>1. /\ r \in DeviceRec /\ r.cdev = dev[n].cdev /\ r.node = dev[n].node /\ r.ready = TRUE
      /\ dev' = [dev EXCEPT ![n] = r]
  BY <1>0 DEF DeviceRec, InitQueue
<1>. HIDE DEF r
<1>2. /\ dev' \in [Device -> DeviceRec] /\ dev'[n] = r
      /\ \A d \in Device : d # n => dev'[d] = dev[d]
  BY <1>0, <1>1, DevShape
<1>3. Complete(n)'
  BY <1>0, <1>1, <1>2 DEF DeviceInv, Building, Complete
<1>4. TicketsInv'
  BY <1>0, NoTickets DEF users
<1>. QED  BY <1>0, <1>2, <1>3, <1>4, NextDeviceStep DEF IInv

LEMMA ConstructedStep ==
  ASSUME IInv, Constructed, NEW n \in Device, n = loader.i
  PROVE  IInv'
<1>. DEFINE r == [dev[n] EXCEPT !.ready = TRUE]
<1>0. /\ LoaderInv /\ loader.pc = "ready" /\ dev \in [Device -> DeviceRec] /\ n \in Device
      /\ driver = "shady" /\ DeviceInv(n)
      /\ UNCHANGED <<driver, kernel, hook, users>> /\ NextDevice
  BY Base DEF Constructed, At, LoaderInv, Building
<1>1. /\ r \in DeviceRec /\ r.cdev = dev[n].cdev /\ r.node = dev[n].node /\ r.ready = TRUE
      /\ dev' = [dev EXCEPT ![n] = r]
  BY <1>0 DEF DeviceRec, Constructed
<1>. HIDE DEF r
<1>2. /\ dev' \in [Device -> DeviceRec] /\ dev'[n] = r
      /\ \A d \in Device : d # n => dev'[d] = dev[d]
  BY <1>0, <1>1, DevShape
<1>3. Complete(n)'
  BY <1>0, <1>1, <1>2 DEF DeviceInv, Building, Complete
<1>4. TicketsInv'
  BY <1>0, NoTickets DEF users
<1>. QED  BY <1>0, <1>2, <1>3, <1>4, NextDeviceStep DEF IInv

(* init stores the first number, whatever a reader is about to do to it.   *)
LEMMA SetTicketNumStep ==
  ASSUME IInv, SetTicketNum, NEW n \in Device, n = loader.i
  PROVE  IInv'
<1>. DEFINE r == [dev[n] EXCEPT !.num = FirstTicket, !.ready = TRUE]
<1>0. /\ LoaderInv /\ loader.pc = "ready" /\ dev \in [Device -> DeviceRec] /\ n \in Device
      /\ driver = "ticket" /\ DeviceInv(n) /\ FirstTicket \in Nat \ {0}
      /\ UNCHANGED <<driver, kernel, hook, users>> /\ NextDevice
      /\ given \in [Device -> Seq(Nat)] /\ mutex \in [Device -> Process \cup {Nobody}]
      /\ proc \in [Process -> ProcRec] /\ MutexInv
  BY Base, Types, DeviceAssumption DEF Typed, SetTicketNum, At, LoaderInv, Building, IInv
<1>1. /\ r \in DeviceRec /\ r.cdev = dev[n].cdev /\ r.node = dev[n].node /\ r.ready = TRUE
      /\ r.num = FirstTicket /\ dev' = [dev EXCEPT ![n] = r]
  BY <1>0 DEF DeviceRec, SetTicketNum
<1>. HIDE DEF r
<1>2. /\ dev' \in [Device -> DeviceRec] /\ dev'[n] = r
      /\ \A d \in Device : d # n => dev'[d] = dev[d]
  BY <1>0, <1>1, DevShape
<1>3. Complete(n)'
  BY <1>0, <1>1, <1>2 DEF DeviceInv, Building, Complete
<1>4. UNCHANGED <<proc, mutex, given, hasty>>
  BY <1>0 DEF users
<1>5. TicketsInv'
  <2>. SUFFICES ASSUME NEW d \in Device PROVE TicketInv(d)'
    BY <1>0 DEF TicketsInv
  <2>0. TicketInv(d)
    BY <1>0 DEF IInv, TicketsInv
  <2>1. CASE d # n
    <3>1. dev'[d] = dev[d] /\ NextTicket(d)' = NextTicket(d)
      BY <1>2, <1>4, <2>1 DEF NextTicket
    <3>. QED  BY <1>4, <2>0, <3>1 DEF TicketInv
  <2>2. CASE d = n
    <3>0. /\ ~ dev[n].ready /\ dev'[n].ready /\ dev'[n].num = FirstTicket
          /\ dev[n].num \in Nat
      BY <1>0, <1>1, <1>2 DEF DeviceInv, Building, DeviceRec
    <3>1. /\ \A k \in 1 .. Len(given[n]) : given[n][k] = k - 1
          /\ NextTicket(n) = Len(given[n]) /\ Len(given[n]) \in Nat
          /\ n \notin hasty => given[n] = <<>> /\ mutex[n] = Nobody
      BY <1>0, <2>0, <2>2, <3>0 DEF TicketInv
    <3>2. ASSUME n \notin hasty
          PROVE  NextTicket(n)' = FirstTicket + Len(given[n]) /\ Len(given[n]) = 0
      BY <1>0, <1>4, <3>0, <3>1, <3>2 DEF NextTicket
    <3>3. NextTicket(n)' \in {NextTicket(n), FirstTicket, FirstTicket + 1}
      BY <1>4, <3>0 DEF NextTicket
    <3>4. ASSUME Len(given[n]) <= FirstTicket
          PROVE  /\ \A j, k \in 1 .. Len(given[n]) : j < k => given[n][j] < given[n][k]
                 /\ \A k \in 1 .. Len(given[n]) : given[n][k] < NextTicket(n)'
      BY <1>0, <3>1, <3>3, <3>4
    <3>. QED  BY <1>4, <2>2, <3>0, <3>2, <3>4 DEF TicketInv
  <2>. QED  BY <2>1, <2>2
<1>. QED  BY <1>0, <1>2, <1>3, <1>5, NextDeviceStep DEF IInv

LEMMA SaveOldOpenStep ==
  ASSUME IInv, SaveOldOpen
  PROVE  IInv'
<1>0. /\ TypeOK /\ LoaderInv /\ loader \in LoaderRec /\ loader.pc = "old_open"
      /\ state = "coming" /\ dev \in [Device -> DeviceRec]
      /\ UNCHANGED <<driver, state, region, class, devices, dev, call_table, users>>
      /\ \A d \in Device : DeviceInv(d)
      /\ HookInv /\ call_table = "sys_open" /\ old_open' = "sys_open"
  BY Base DEF SaveOldOpen, At, LoaderInv, Building, Built, kernel, IInv, HookInv
<1>1. loader' \in LoaderRec /\ loader'.pc = "call_table"
  BY <1>0, GotoShape DEF SaveOldOpen, LoaderPc, Built
<1>2. TypeOK'
  <2>1. UNCHANGED <<proc, mutex, given, hasty>>
    BY <1>0 DEF users
  <2>2. Typed'
    BY <1>0, <1>1, <2>1, Types DEF Typed
  <2>. QED  BY <2>2, TypesNext
<1>3. LoaderInv'
  BY <1>0, <1>1 DEF LoaderInv, Building, Built
<1>4. HookInv'
  BY <1>0, <1>1 DEF HookInv, users
<1>5. \A d \in Device : DeviceInv(d)'
  BY <1>0, <1>1 DEF DeviceInv, Complete, Building, Built
<1>6. FileInv' /\ MutexInv' /\ TicketsInv'
  BY <1>0, UsersStill
<1>. QED  BY <1>2, <1>3, <1>4, <1>5, <1>6 DEF IInv

LEMMA ReplaceOpenStep ==
  ASSUME IInv, ReplaceOpen
  PROVE  IInv'
<1>0. /\ TypeOK /\ LoaderInv /\ loader \in LoaderRec /\ loader.pc = "call_table"
      /\ state = "coming" /\ state' = "live" /\ dev \in [Device -> DeviceRec]
      /\ UNCHANGED <<driver, region, class, devices, dev, old_open, users>>
      /\ \A d \in Device : DeviceInv(d)
      /\ HookInv /\ call_table' = "my_open" /\ old_open = "sys_open"
  BY Base DEF ReplaceOpen, At, LoaderInv, Building, Built, kernel, IInv, HookInv
<1>1. loader' \in LoaderRec /\ loader'.pc = "hidden"
  BY <1>0, GotoShape DEF ReplaceOpen, LoaderPc, Built
<1>2. TypeOK'
  <2>1. UNCHANGED <<proc, mutex, given, hasty>>
    BY <1>0 DEF users
  <2>2. Typed'
    BY <1>0, <1>1, <2>1, Types DEF Typed
  <2>. QED  BY <2>2, TypesNext
<1>3. LoaderInv'
  BY <1>0, <1>1 DEF LoaderInv, Building, Built
<1>4. HookInv'
  BY <1>0, <1>1 DEF HookInv, users
<1>5. \A d \in Device : DeviceInv(d)'
  BY <1>0, <1>1 DEF DeviceInv, Complete, Building, Built
<1>6. FileInv' /\ MutexInv' /\ TicketsInv'
  BY <1>0, UsersStill
<1>. QED  BY <1>2, <1>3, <1>4, <1>5, <1>6 DEF IInv

(* No file is open when the module is removed.                             *)
LEMMA RemoveStep ==
  ASSUME IInv, Remove
  PROVE  IInv'
<1>0. /\ TypeOK /\ LoaderInv /\ loader \in LoaderRec /\ loader.pc = "loaded"
      /\ state' = "going" /\ dev \in [Device -> DeviceRec] /\ Open = {}
      /\ UNCHANGED <<driver, region, class, devices, dev, hook, users>>
      /\ \A d \in Device : DeviceInv(d)
      /\ devices = "allocated" /\ Ndevices \in 0 .. Ndevices /\ Ndevices \in Nat \ {0}
  BY Base DEF Remove, At, LoaderInv, Building, Built, kernel
<1>1. loader' \in LoaderRec /\ loader'.pc = "destroy" /\ loader'.i = 0 /\ loader'.last = Ndevices
  BY <1>0, FailShape DEF Remove
<1>2. TypeOK'
  BY <1>0, <1>1, TypeFrame DEF TypeOK
<1>3. LoaderInv'
  BY <1>0, <1>1 DEF LoaderInv, Building, Built
<1>4. HookInv'
  BY <1>0, <1>1, HookStill
<1>5. \A d \in Device : DeviceInv(d)'
  BY <1>0, <1>1 DEF DeviceInv, Building, Built, Device
<1>6. FileInv' /\ MutexInv' /\ TicketsInv'
  BY <1>0, UsersStill
<1>. QED  BY <1>2, <1>3, <1>4, <1>5, <1>6 DEF IInv

LEMMA DestroyDeviceStep ==
  ASSUME IInv, DestroyDevice
  PROVE  IInv'
<1>. DEFINE n == loader.i
            r == [dev[n] EXCEPT !.node = FALSE, !.cdev = FALSE, !.data = FALSE]
<1>0. /\ TypeOK /\ LoaderInv /\ loader \in LoaderRec /\ loader.pc = "destroy"
      /\ state \in {"coming", "going"} /\ dev \in [Device -> DeviceRec]
      /\ UNCHANGED <<driver, state, region, class, devices, hook, users>>
      /\ devices = "allocated" /\ n < loader.last
      /\ loader' = [loader EXCEPT !.i = @ + 1]
      /\ Ndevices \in Nat \ {0} /\ n \in 0 .. Ndevices
  BY Base DEF DestroyDevice, At, LoaderInv, Building, Built, kernel
<1>1. n \in Device /\ loader.last \in 0 .. Ndevices /\ n + 1 \in 0 .. Ndevices
  BY <1>0 DEF LoaderRec, Device
<1>2. /\ loader' \in LoaderRec /\ loader'.pc = "destroy" /\ loader'.i = n + 1
      /\ loader'.last = loader.last
  BY <1>0, <1>1 DEF LoaderRec
<1>3. /\ r \in DeviceRec /\ ~ r.cdev /\ ~ r.node /\ ~ r.data
      /\ r.ready = dev[n].ready /\ r.num = dev[n].num /\ dev' = [dev EXCEPT ![n] = r]
  BY <1>0, <1>1 DEF DeviceRec, DestroyDevice
<1>. HIDE DEF r
<1>4. /\ dev' \in [Device -> DeviceRec] /\ dev'[n] = r
      /\ \A d \in Device : d # n => dev'[d] = dev[d]
  BY <1>0, <1>1, <1>3, DevShape
<1>5. TypeOK'
  BY <1>0, <1>2, <1>4, TypeFrame DEF TypeOK
<1>6. LoaderInv'
  BY <1>0, <1>1, <1>2 DEF LoaderInv, Building, Built
<1>7. HookInv'
  BY <1>0, <1>2, HookStill
<1>8. ASSUME NEW d \in Device PROVE DeviceInv(d)'
  <2>0. d \in Int /\ n \in Int /\ loader.last \in Int
    BY <1>1 DEF Device
  <2>1. /\ d < n \/ d > loader.last => Bare(d)
        /\ d = loader.last => Leftover(d)
    BY <1>0, Base DEF DeviceInv
  <2>2. CASE d = n
    <3>1. Bare(d)'
      BY <1>3, <1>4, <2>2 DEF Bare
    <3>. QED  BY <1>2, <3>1 DEF DeviceInv, Leftover, Building, Built
  <2>3. CASE d # n
    <3>1. Bare(d)' = Bare(d) /\ Leftover(d)' = Leftover(d)
      BY <1>0, <1>4, <2>3 DEF Bare, Leftover
    <3>2. d < n + 1 => d < n
      BY <2>0, <2>3
    <3>. QED  BY <1>0, <1>2, <2>1, <3>1, <3>2 DEF DeviceInv, Building, Built
  <2>. QED  BY <2>2, <2>3
<1>9. FileInv' /\ MutexInv' /\ TicketsInv'
  BY <1>0, <1>3, <1>4, UsersStill
<1>. QED  BY <1>5, <1>6, <1>7, <1>8, <1>9 DEF IInv

LEMMA FreeDevicesStep ==
  ASSUME IInv, FreeDevices
  PROVE  IInv'
<1>0. /\ TypeOK /\ LoaderInv /\ loader \in LoaderRec /\ loader.pc = "destroy"
      /\ state \in {"coming", "going"} /\ dev \in [Device -> DeviceRec]
      /\ UNCHANGED <<driver, state, region, class, dev, hook, users>>
      /\ \A d \in Device : DeviceInv(d)
      /\ devices = "allocated" => loader.i = loader.last
      /\ devices' = IF devices = "allocated" THEN "freed" ELSE devices
      /\ devices \in {"none", "allocated", "freed"}
  BY Base DEF FreeDevices, At, LoaderInv, Building, Built, TypeOK
<1>1. /\ loader' \in LoaderRec /\ loader'.pc = "unregister" /\ loader'.last = loader.last
      /\ loader.last \in Int
  BY <1>0, GotoShape, DeviceAssumption DEF FreeDevices, LoaderPc, LoaderRec
<1>2. TypeOK'
  BY <1>0, <1>1, TypeFrame DEF TypeOK
<1>3. LoaderInv'
  BY <1>0, <1>1 DEF LoaderInv, Building, Built
<1>4. HookInv'
  BY <1>0, <1>1, HookStill
<1>5. ASSUME NEW d \in Device PROVE DeviceInv(d)'
  <2>1. Bare(d)' = Bare(d) /\ Leftover(d)' = Leftover(d) /\ d \in Int
    BY <1>0 DEF Bare, Leftover, Device
  <2>2. (d < loader.last \/ d > loader.last => Bare(d)) /\ (d = loader.last => Leftover(d))
    BY <1>0 DEF DeviceInv
  <2>. QED  BY <1>0, <1>1, <2>1, <2>2 DEF DeviceInv, Building, Built
<1>6. FileInv' /\ MutexInv' /\ TicketsInv'
  BY <1>0, UsersStill
<1>. QED  BY <1>2, <1>3, <1>4, <1>5, <1>6 DEF IInv

LEMMA UnregisterStep ==
  ASSUME IInv, Unregister
  PROVE  IInv'
<1>0. /\ TypeOK /\ LoaderInv /\ loader \in LoaderRec /\ loader.pc = "unregister"
      /\ state \in {"coming", "going"} /\ state' = "gone" /\ dev \in [Device -> DeviceRec]
      /\ class' = "none" /\ region' = FALSE
      /\ UNCHANGED <<driver, devices, dev, hook, users>>
      /\ \A d \in Device : DeviceInv(d)
      /\ devices # "allocated"
  BY Base DEF Unregister, At, LoaderInv, Building, Built
<1>1. loader' \in LoaderRec /\ loader'.pc = "end" /\ loader'.last = loader.last
  BY <1>0, GotoShape DEF Unregister, LoaderPc
<1>2. TypeOK'
  BY <1>0, <1>1, TypeFrame DEF TypeOK
<1>3. LoaderInv'
  BY <1>0, <1>1 DEF LoaderInv, Building, Built
<1>4. HookInv'
  BY <1>0, <1>1, HookStill
<1>5. \A d \in Device : DeviceInv(d)'
  BY <1>0, <1>1 DEF DeviceInv, Bare, Leftover, Building, Built
<1>6. FileInv' /\ MutexInv' /\ TicketsInv'
  BY <1>0, UsersStill
<1>. QED  BY <1>2, <1>3, <1>4, <1>5, <1>6 DEF IInv

LEMMA LoaderStep ==
  ASSUME IInv, Loader
  PROVE  IInv'
<1>1. loader.pc \in Building => loader.i \in Device
  BY Base
<1>2. CASE SetTicketNum
  BY <1>1, <1>2, SetTicketNumStep DEF SetTicketNum, At, Building
<1>3. CASE InitQueue
  BY <1>1, <1>3, InitQueueStep DEF InitQueue, At, Building
<1>4. CASE Constructed
  BY <1>1, <1>4, ConstructedStep DEF Constructed, At, Building
<1>. QED
  BY <1>2, <1>3, <1>4, AllocRegionStep, CreateClassStep, AllocDevicesStep, AddDeviceStep,
     CreateDeviceStep, AllocDataStep, SaveOldOpenStep, ReplaceOpenStep, RemoveStep,
     DestroyDeviceStep, FreeDevicesStep, UnregisterStep DEF Loader

-----------------------------------------------------------------------------
(* Steps of the processes                                                  *)

LEMMA NobodyElse == Nobody \notin Process
BY ProcessAssumption DEF Nobody

LEMMA UserBase ==
  ASSUME IInv
  PROVE  /\ TypeOK /\ FileInv /\ MutexInv /\ HookInv /\ TicketsInv
         /\ dev \in [Device -> DeviceRec] /\ proc \in [Process -> ProcRec]
         /\ mutex \in [Device -> Process \cup {Nobody}] /\ given \in [Device -> Seq(Nat)]
         /\ hasty \subseteq Device
<1>1. Typed
  BY Types DEF IInv
<1>. QED  BY <1>1 DEF IInv, Typed

LEMMA UserTypes ==
  ASSUME TypeOK, UNCHANGED <<driver, state, loader, kernel, hook>>,
         dev' \in [Device -> DeviceRec], proc' \in [Process -> ProcRec],
         mutex' \in [Device -> Process \cup {Nobody}], given' \in [Device -> Seq(Nat)],
         hasty' \subseteq Device
  PROVE  TypeOK'
<1>1. UNCHANGED <<region, class, devices, call_table, old_open>>
  BY DEF kernel, hook
<1>2. Typed'
  BY <1>1, Types DEF Typed
<1>. QED  BY <1>2, TypesNext

LEMMA LoaderStill ==
  ASSUME IInv, UNCHANGED <<driver, state, loader, kernel>>,
         \A d \in Device : /\ dev'[d].cdev = dev[d].cdev /\ dev'[d].node = dev[d].node
                           /\ dev'[d].data = dev[d].data /\ dev'[d].ready = dev[d].ready
  PROVE  LoaderInv' /\ \A d \in Device : DeviceInv(d)'
<1>1. UNCHANGED <<region, class, devices>>
  BY DEF kernel
<1>2. LoaderInv'
  BY <1>1 DEF IInv, LoaderInv
<1>3. ASSUME NEW d \in Device PROVE DeviceInv(d)'
  <2>1. /\ Bare(d)' = Bare(d) /\ Complete(d)' = Complete(d) /\ Leftover(d)' = Leftover(d)
        /\ DeviceInv(d)
    BY DEF Bare, Complete, Leftover, IInv
  <2>. QED  BY <1>1, <2>1 DEF DeviceInv
<1>. QED  BY <1>2, <1>3

LEMMA ProcShape ==
  ASSUME proc \in [Process -> ProcRec], NEW p \in Process, NEW r \in ProcRec,
         proc' = [proc EXCEPT ![p] = r]
  PROVE  /\ proc' \in [Process -> ProcRec] /\ proc'[p] = r
         /\ \A q \in Process : q # p => proc'[q] = proc[q]
OBVIOUS

LEMMA StepShape ==
  ASSUME proc \in [Process -> ProcRec], NEW p \in Process, NEW from, NEW to,
         to \in {"idle", "sys_open", "my_open"} \cup Section, Step(p, from, to)
  PROVE  /\ proc' \in [Process -> ProcRec] /\ proc[p].pc = from
         /\ proc'[p].pc = to /\ proc'[p].file = proc[p].file
         /\ proc'[p].early = proc[p].early /\ proc'[p].num = proc[p].num
         /\ \A q \in Process : q # p => proc'[q] = proc[q]
<1>. DEFINE r == [proc[p] EXCEPT !.pc = to]
<1>1. /\ r \in ProcRec /\ r.pc = to /\ r.file = proc[p].file /\ r.early = proc[p].early
      /\ r.num = proc[p].num /\ proc[p].pc = from
  BY DEF ProcRec, Step
<1>2. proc' = [proc EXCEPT ![p] = r]
  BY DEF Step
<1>. HIDE DEF r
<1>. QED  BY <1>1, <1>2, ProcShape

(* A step of a process outside of its methods.                             *)
LEMMA Outside ==
  ASSUME IInv, NEW p \in Process, proc[p].pc \notin Section, proc'[p].pc \notin Section,
         proc' \in [Process -> ProcRec],
         \A q \in Process : q # p => proc'[q] = proc[q],
         proc'[p].file # NoFile /\ ~ proc'[p].early => state = "live",
         proc'[p].pc = "my_open" => loader.pc = "hidden",
         UNCHANGED <<driver, state, loader, kernel, dev, hook, mutex, given, hasty>>
  PROVE  IInv'
<1>0. /\ TypeOK /\ FileInv /\ MutexInv /\ HookInv /\ TicketsInv
      /\ dev \in [Device -> DeviceRec] /\ mutex \in [Device -> Process \cup {Nobody}]
      /\ given \in [Device -> Seq(Nat)] /\ hasty \subseteq Device
  BY UserBase
<1>1. TypeOK'
  BY <1>0, UserTypes
<1>2. LoaderInv' /\ \A d \in Device : DeviceInv(d)'
  BY LoaderStill
<1>3. \A d \in Device : mutex[d] # Nobody => mutex[d] \in Process /\ mutex[d] # p
  BY <1>0 DEF MutexInv
<1>4. FileInv'
  <2>1. {"copy", "load", "store"} \subseteq Section
    BY DEF Section
  <2>. QED  BY <1>0, <2>1 DEF FileInv
<1>5. MutexInv'
  BY <1>0, <1>3 DEF MutexInv
<1>6. HookInv'
  BY <1>0 DEF HookInv, hook
<1>7. TicketsInv'
  <2>1. \A d \in Device : NextTicket(d)' = NextTicket(d)
    BY <1>3 DEF NextTicket
  <2>. QED  BY <1>0, <2>1 DEF TicketsInv, TicketInv
<1>. QED  BY <1>1, <1>2, <1>4, <1>5, <1>6, <1>7 DEF IInv

LEMMA LoadCallTableStep ==
  ASSUME IInv, NEW p \in Process, LoadCallTable(p)
  PROVE  IInv'
<1>1. /\ proc[p].file = NoFile /\ Step(p, "idle", call_table) /\ HookInv
      /\ call_table \in {"sys_open", "my_open"} /\ proc \in [Process -> ProcRec]
      /\ UNCHANGED <<driver, state, loader, kernel, dev, hook, mutex, given, hasty>>
  BY UserBase DEF LoadCallTable, TypeOK
<1>2. /\ proc' \in [Process -> ProcRec] /\ proc[p].pc = "idle" /\ proc'[p].pc = call_table
      /\ proc'[p].file = NoFile
      /\ \A q \in Process : q # p => proc'[q] = proc[q]
  BY <1>1, StepShape
<1>3. proc[p].pc \notin Section /\ proc'[p].pc \notin Section
  BY <1>1, <1>2 DEF Section
<1>4. proc'[p].pc = "my_open" => loader.pc = "hidden"
  BY <1>1, <1>2 DEF HookInv
<1>. QED  BY <1>1, <1>2, <1>3, <1>4, Outside

LEMMA CallOldOpenStep ==
  ASSUME IInv, NEW p \in Process, CallOldOpen(p)
  PROVE  IInv'
<1>1. /\ Step(p, "my_open", old_open) /\ HookInv /\ FileInv /\ proc \in [Process -> ProcRec]
      /\ UNCHANGED <<driver, state, loader, kernel, dev, hook, mutex, given, hasty>>
  BY UserBase DEF CallOldOpen
<1>2. old_open = "sys_open"
  BY <1>1 DEF HookInv, Step
<1>3. /\ proc' \in [Process -> ProcRec] /\ proc[p].pc = "my_open" /\ proc'[p].pc = "sys_open"
      /\ proc'[p].file = proc[p].file /\ proc'[p].early = proc[p].early
      /\ \A q \in Process : q # p => proc'[q] = proc[q]
  BY <1>1, <1>2, StepShape
<1>4. proc[p].pc \notin Section /\ proc'[p].pc \notin Section
  BY <1>3 DEF Section
<1>5. proc'[p].file # NoFile /\ ~ proc'[p].early => state = "live"
  BY <1>1, <1>3 DEF FileInv
<1>. QED  BY <1>1, <1>3, <1>4, <1>5, Outside

LEMMA OpenDeviceStep ==
  ASSUME IInv, NEW p \in Process, OpenDevice(p)
  PROVE  IInv'
<1>1. /\ proc[p].pc = "sys_open" /\ FileInv /\ proc \in [Process -> ProcRec]
      /\ UNCHANGED <<driver, state, loader, kernel, dev, hook, mutex, given, hasty>>
      /\ proc[p].pc \notin Section /\ "idle" \notin Section
  BY UserBase DEF OpenDevice, Section
<1>2. CASE Step(p, "sys_open", "idle")
  <2>1. /\ proc' \in [Process -> ProcRec] /\ proc'[p].pc = "idle"
        /\ proc'[p].file = proc[p].file /\ proc'[p].early = proc[p].early
        /\ \A q \in Process : q # p => proc'[q] = proc[q]
    BY <1>1, <1>2, StepShape
  <2>2. proc'[p].file # NoFile /\ ~ proc'[p].early => state = "live"
    BY <1>1, <2>1 DEF FileInv
  <2>. QED  BY <1>1, <2>1, <2>2, Outside
<1>3. ASSUME NEW d \in Device, state \in {"coming", "live"},
             proc' = [proc EXCEPT ![p].pc = "idle", ![p].file = d,
                                  ![p].early = state = "coming"]
      PROVE  IInv'
  <2>. DEFINE r == [proc[p] EXCEPT !.pc = "idle", !.file = d, !.early = state = "coming"]
  <2>1. r \in ProcRec /\ r.pc = "idle" /\ r.file = d /\ r.early = (state = "coming")
    BY <1>1 DEF ProcRec
  <2>2. proc' = [proc EXCEPT ![p] = r]
    BY <1>1, <1>3
  <2>. HIDE DEF r
  <2>3. /\ proc' \in [Process -> ProcRec] /\ proc'[p] = r
        /\ \A q \in Process : q # p => proc'[q] = proc[q]
    BY <1>1, <2>1, <2>2, ProcShape
  <2>4. proc'[p].file # NoFile /\ ~ proc'[p].early => state = "live"
    BY <1>3, <2>1, <2>3
  <2>5. proc'[p].pc = "idle"
    BY <2>1, <2>3
  <2>. QED  BY <1>1, <2>3, <2>4, <2>5, Outside
<1>. QED  BY <1>2, <1>3 DEF OpenDevice

LEMMA CloseStep ==
  ASSUME IInv, NEW p \in Process, Close(p)
  PROVE  IInv'
<1>. DEFINE r == [proc[p] EXCEPT !.file = NoFile, !.early = FALSE]
<1>1. /\ proc[p].pc = "idle" /\ proc \in [Process -> ProcRec]
      /\ UNCHANGED <<driver, state, loader, kernel, dev, hook, mutex, given, hasty>>
      /\ "idle" \notin Section
  BY UserBase DEF Close, Section
<1>2. r \in ProcRec /\ r.pc = "idle" /\ r.file = NoFile /\ proc' = [proc EXCEPT ![p] = r]
  BY <1>1 DEF ProcRec, Close
<1>. HIDE DEF r
<1>3. /\ proc' \in [Process -> ProcRec] /\ proc'[p] = r
      /\ \A q \in Process : q # p => proc'[q] = proc[q]
  BY <1>1, <1>2, ProcShape
<1>. QED  BY <1>1, <1>2, <1>3, Outside

(* What a method does but for the tickets.                                 *)
LEMMA Inside ==
  ASSUME IInv, NEW p \in Process, proc' \in [Process -> ProcRec],
         \A q \in Process : q # p => proc'[q] = proc[q],
         proc'[p].file = proc[p].file, proc'[p].early = proc[p].early,
         proc'[p].pc # "my_open", proc'[p].pc \in {"copy", "load", "store"} => driver = "ticket",
         \/ proc[p].pc = "idle" /\ proc'[p].pc \in Section /\ proc[p].file # NoFile
            /\ mutex[proc[p].file] = Nobody /\ mutex' = [mutex EXCEPT ![proc[p].file] = p]
         \/ proc[p].pc \in Section /\ proc'[p].pc \in Section /\ mutex' = mutex
         \/ proc[p].pc \in Section /\ proc'[p].pc \notin Section /\ Unlock(p),
         UNCHANGED <<driver, state, loader, kernel, hook>>
  PROVE  /\ mutex' \in [Device -> Process \cup {Nobody}]
         /\ FileInv' /\ MutexInv' /\ HookInv'
<1>. DEFINE f == proc[p].file
<1>0. /\ FileInv /\ MutexInv /\ HookInv /\ mutex \in [Device -> Process \cup {Nobody}]
      /\ proc \in [Process -> ProcRec] /\ Nobody \notin Process /\ "idle" \notin Section
      /\ {"copy", "load", "store"} \subseteq Section
  BY UserBase, NobodyElse DEF Section
<1>1. f \in Device /\ f # NoFile
  <2>1. f \in Device \cup {NoFile}
    BY <1>0 DEF ProcRec
  <2>2. f # NoFile
    BY <1>0 DEF FileInv
  <2>. QED  BY <2>1, <2>2
<1>2. mutex[f] \in {p, Nobody} /\ (proc[p].pc \in Section => mutex[f] = p)
  BY <1>0 DEF FileInv
<1>3. \A q \in Process : q # p /\ proc[q].pc \in Section => proc[q].file # f
  BY <1>0, <1>2 DEF FileInv
<1>4. \A d \in Device : d # f => mutex[d] # p
  BY <1>0 DEF MutexInv
<1>5. /\ mutex' \in [Device -> Process \cup {Nobody}]
      /\ mutex'[f] = IF proc'[p].pc \in Section THEN p ELSE Nobody
      /\ \A d \in Device : d # f => mutex'[d] = mutex[d]
  BY <1>0, <1>1, <1>2 DEF Unlock
<1>6. FileInv'
  <2>. SUFFICES ASSUME NEW q \in Process
                PROVE  /\ proc'[q].file # NoFile /\ ~ proc'[q].early => state' = "live"
                       /\ proc'[q].pc \in Section =>
                            proc'[q].file # NoFile /\ mutex'[proc'[q].file] = q
                       /\ proc'[q].pc \in {"copy", "load", "store"} => driver' = "ticket"
    BY DEF FileInv
  <2>1. CASE q = p
    BY <1>0, <1>1, <1>5, <2>1 DEF FileInv
  <2>2. CASE q # p
    <3>1. proc'[q] = proc[q] /\ proc[q].file \in Device \cup {NoFile}
      BY <1>0, <2>2 DEF ProcRec
    <3>. QED  BY <1>0, <1>3, <1>5, <2>2, <3>1 DEF FileInv
  <2>. QED  BY <2>1, <2>2
<1>7. MutexInv'
  <2>. SUFFICES ASSUME NEW d \in Device, mutex'[d] # Nobody
                PROVE  proc'[mutex'[d]].pc \in Section /\ proc'[mutex'[d]].file = d
    BY DEF MutexInv
  <2>1. CASE d = f
    BY <1>5, <2>1
  <2>2. CASE d # f
    <3>1. mutex'[d] = mutex[d] /\ mutex[d] # p /\ mutex[d] \in Process
      BY <1>0, <1>4, <1>5, <2>2
    <3>. QED  BY <1>0, <3>1 DEF MutexInv
  <2>. QED  BY <2>1, <2>2
<1>8. HookInv'
  BY <1>0 DEF HookInv, hook
<1>. QED  BY <1>5, <1>6, <1>7, <1>8

(* The tickets, in a step that gives none.                                 *)
LEMMA SameTickets ==
  ASSUME IInv, UNCHANGED <<driver, given, hasty>>,
         \A d \in Device : /\ dev'[d].ready = dev[d].ready /\ NextTicket(d)' = NextTicket(d)
                           /\ mutex[d] = Nobody => mutex'[d] = Nobody
  PROVE  TicketsInv'
<1>1. TicketsInv
  BY DEF IInv
<1>2. ASSUME NEW d \in Device, TicketInv(d) PROVE TicketInv(d)'
  BY <1>2 DEF TicketInv
<1>. QED  BY <1>1, <1>2 DEF TicketsInv

(* The device of the process that is in a method of it.                    *)
LEMMA InMethod ==
  ASSUME IInv, NEW p \in Process, proc[p].pc \in Section
  PROVE  /\ proc[p].file \in Device /\ mutex[proc[p].file] = p /\ p # Nobody
         /\ \A d \in Device : d # proc[p].file => mutex[d] # p
<1>1. /\ FileInv /\ MutexInv /\ proc \in [Process -> ProcRec] /\ p # Nobody
  BY UserBase, NobodyElse
<1>2. proc[p].file \in Device \cup {NoFile}
  BY <1>1 DEF ProcRec
<1>. QED  BY <1>1, <1>2 DEF FileInv, MutexInv

LEMMA LockStep ==
  ASSUME IInv, NEW p \in Process, Lock(p)
  PROVE  IInv'
<1>. DEFINE f == proc[p].file
            to == IF driver = "ticket" THEN "copy" ELSE "use"
<1>0. /\ TypeOK /\ TicketsInv /\ MutexInv /\ proc \in [Process -> ProcRec]
      /\ dev \in [Device -> DeviceRec] /\ given \in [Device -> Seq(Nat)]
      /\ hasty \subseteq Device /\ mutex \in [Device -> Process \cup {Nobody}]
      /\ proc[p].pc = "idle" /\ f # NoFile /\ mutex[f] = Nobody
      /\ mutex' = [mutex EXCEPT ![f] = p]
      /\ UNCHANGED <<driver, state, loader, kernel, dev, hook, given>>
      /\ Step(p, "idle", to)
      /\ to \in Section /\ to # "my_open" /\ (to \in {"copy", "load", "store"} => driver = "ticket")
      /\ "idle" \notin Section
      /\ to \in {"copy", "use"}
  BY UserBase DEF Lock, Step, Section
<1>. HIDE DEF to
<1>1. f \in Device
  BY <1>0 DEF ProcRec
<1>2. /\ proc' \in [Process -> ProcRec] /\ proc'[p].pc = to /\ proc'[p].file = f
      /\ proc'[p].early = proc[p].early
      /\ \A q \in Process : q # p => proc'[q] = proc[q]
  BY <1>0, StepShape
<1>3. /\ mutex' \in [Device -> Process \cup {Nobody}]
      /\ FileInv' /\ MutexInv' /\ HookInv'
  BY <1>0, <1>2, Inside
<1>4. hasty' = IF dev[f].ready THEN hasty ELSE hasty \cup {f}
  BY DEF Lock, Mine
<1>5. TypeOK'
  <2>1. hasty' \subseteq Device
    BY <1>0, <1>1, <1>4
  <2>. QED  BY <1>0, <1>2, <1>3, <2>1, UserTypes
<1>6. LoaderInv' /\ \A d \in Device : DeviceInv(d)'
  BY <1>0, LoaderStill
<1>7. \A d \in Device : NextTicket(d)' = NextTicket(d)
  <2>. SUFFICES ASSUME NEW d \in Device PROVE NextTicket(d)' = NextTicket(d)
    OBVIOUS
  <2>1. CASE d = f
    <3>1. mutex'[d] = p /\ mutex[d] = Nobody /\ proc'[p].pc \notin {"load", "store"}
      BY <1>0, <1>1, <1>2, <2>1
    <3>. QED  BY <1>0, <3>1 DEF NextTicket
  <2>2. CASE d # f
    <3>1. mutex'[d] = mutex[d] /\ (mutex[d] # Nobody => mutex[d] \in Process /\ mutex[d] # p)
      BY <1>0, <2>2 DEF MutexInv
    <3>. QED  BY <1>0, <1>2, <3>1 DEF NextTicket
  <2>. QED  BY <2>1, <2>2
<1>8. TicketsInv'
  <2>1. ASSUME NEW d \in Device, TicketInv(d) PROVE TicketInv(d)'
    <3>1. CASE d = f
      <4>1. ~ dev[d].ready => d \in hasty'
        BY <1>4, <3>1
      <4>2. dev[d].ready => hasty' = hasty
        BY <1>4, <3>1
      <4>. QED  BY <1>0, <1>7, <2>1, <4>1, <4>2 DEF TicketInv
    <3>2. CASE d # f
      <4>1. (d \in hasty') = (d \in hasty) /\ mutex'[d] = mutex[d]
        BY <1>0, <1>4, <3>2
      <4>. QED  BY <1>0, <1>7, <2>1, <4>1 DEF TicketInv
    <3>. QED  BY <3>1, <3>2
  <2>. QED  BY <1>0, <2>1 DEF TicketsInv
<1>. QED  BY <1>3, <1>5, <1>6, <1>8 DEF IInv

LEMMA UseStep ==
  ASSUME IInv, NEW p \in Process, Use(p)
  PROVE  IInv'
<1>. DEFINE f == proc[p].file
<1>0. /\ TypeOK /\ proc \in [Process -> ProcRec] /\ mutex \in [Device -> Process \cup {Nobody}]
      /\ dev \in [Device -> DeviceRec] /\ given \in [Device -> Seq(Nat)]
      /\ hasty \subseteq Device /\ Step(p, "use", "idle") /\ Unlock(p)
      /\ UNCHANGED <<driver, state, loader, kernel, dev, hook, given, hasty>>
      /\ "idle" \notin Section
  BY UserBase DEF Use, Section
<1>1. /\ proc' \in [Process -> ProcRec] /\ proc[p].pc = "use" /\ proc'[p].pc = "idle"
      /\ proc'[p].file = f /\ proc'[p].early = proc[p].early
      /\ \A q \in Process : q # p => proc'[q] = proc[q]
  BY <1>0, StepShape
<1>2. /\ f \in Device /\ mutex[f] = p /\ \A d \in Device : d # f => mutex[d] # p
      /\ proc[p].pc \in Section
  BY <1>1, InMethod DEF Section
<1>3. /\ mutex' \in [Device -> Process \cup {Nobody}]
      /\ FileInv' /\ MutexInv' /\ HookInv'
  BY <1>0, <1>1, <1>2, Inside
<1>4. TypeOK'
  BY <1>0, <1>1, <1>3, UserTypes
<1>5. LoaderInv' /\ \A d \in Device : DeviceInv(d)'
  BY <1>0, LoaderStill
<1>6. \A d \in Device : d # f => mutex'[d] = mutex[d]
  BY <1>0 DEF Unlock
<1>7. mutex'[f] = Nobody
  BY <1>0, <1>2 DEF Unlock
<1>8. \A d \in Device : NextTicket(d)' = NextTicket(d)
  <2>. SUFFICES ASSUME NEW d \in Device PROVE NextTicket(d)' = NextTicket(d)
    OBVIOUS
  <2>1. CASE d = f
    BY <1>0, <1>1, <1>2, <1>7, <2>1 DEF NextTicket
  <2>2. CASE d # f
    <3>1. mutex'[d] = mutex[d] /\ (mutex[d] # Nobody => mutex[d] \in Process /\ mutex[d] # p)
      BY <1>0, <1>2, <1>6, <2>2
    <3>. QED  BY <1>0, <1>1, <3>1 DEF NextTicket
  <2>. QED  BY <2>1, <2>2
<1>9. TicketsInv'
  BY <1>0, <1>6, <1>7, <1>8, SameTickets
<1>. QED  BY <1>3, <1>4, <1>5, <1>9 DEF IInv

LEMMA AppendShape ==
  ASSUME NEW s \in Seq(Nat), NEW v \in Nat
  PROVE  /\ Append(s, v) \in Seq(Nat) /\ Len(Append(s, v)) = Len(s) + 1 /\ Len(s) \in Nat
         /\ \A k \in 1 .. Len(s) : Append(s, v)[k] = s[k] /\ s[k] \in Nat
         /\ Append(s, v)[Len(s) + 1] = v
OBVIOUS

(* The ticket given is the next one.                                       *)
LEMMA GiveTicket ==
  ASSUME IInv, NEW p \in Process, proc[p].pc = "copy", proc'[p].pc = "load",
         NEW f \in Device, f = proc[p].file, TicketInv(f),
         given'[f] = Append(given[f], dev[f].num), UNCHANGED <<dev, mutex, hasty>>
  PROVE  TicketInv(f)'
<1>. DEFINE s == given[f]
            v == dev[f].num
            t == given'[f]
<1>0. /\ s \in Seq(Nat) /\ v \in Nat /\ FirstTicket \in Nat
      /\ mutex[f] = p /\ mutex'[f] = p /\ p # Nobody
  BY UserBase, InMethod, DeviceAssumption DEF DeviceRec, Section
<1>1. NextTicket(f) = v /\ NextTicket(f)' = v + 1
  BY <1>0 DEF NextTicket
<1>2. /\ t = Append(s, v) /\ Len(t) = Len(s) + 1 /\ Len(s) \in Nat
      /\ \A k \in 1 .. Len(s) : t[k] = s[k] /\ s[k] \in Nat
      /\ t[Len(s) + 1] = v
  <2>1. t = Append(s, v)
    OBVIOUS
  <2>. HIDE DEF s, v, t
  <2>. QED  BY <1>0, <2>1, AppendShape
<1>3. \A k \in 1 .. Len(t) : k \in 1 .. Len(s) \/ k = Len(s) + 1
  BY <1>2
<1>4. CASE ~ dev[f].ready
  <2>1. (\A k \in 1 .. Len(s) : s[k] = k - 1) /\ v = Len(s) /\ f \in hasty
    BY <1>0, <1>1, <1>4 DEF TicketInv
  <2>2. \A k \in 1 .. Len(t) : t[k] = k - 1
    BY <1>2, <1>3, <2>1
  <2>. QED  BY <1>1, <1>2, <1>4, <2>1, <2>2 DEF TicketInv
<1>5. CASE dev[f].ready /\ f \notin hasty
  <2>1. (\A k \in 1 .. Len(s) : s[k] = FirstTicket + k - 1) /\ v = FirstTicket + Len(s)
    BY <1>1, <1>5 DEF TicketInv
  <2>2. \A k \in 1 .. Len(t) : t[k] = FirstTicket + k - 1
    BY <1>0, <1>2, <1>3, <2>1
  <2>. QED  BY <1>0, <1>1, <1>2, <1>5, <2>1, <2>2 DEF TicketInv
<1>6. CASE dev[f].ready /\ f \in hasty
  <2>1. ASSUME Len(t) <= FirstTicket
        PROVE  /\ \A j, k \in 1 .. Len(t) : j < k => t[j] < t[k]
               /\ \A k \in 1 .. Len(t) : t[k] < v + 1
    <3>0. Len(s) <= FirstTicket
      BY <1>0, <1>2, <2>1
    <3>1. /\ \A j, k \in 1 .. Len(s) : j < k => s[j] < s[k]
          /\ \A k \in 1 .. Len(s) : s[k] < v
      BY <1>1, <1>6, <3>0 DEF TicketInv
    <3>2. \A k \in 1 .. Len(t) : t[k] \in Nat /\ t[k] <= v
      BY <1>0, <1>2, <1>3, <3>1
    <3>3. \A j, k \in 1 .. Len(t) : j < k => j \in 1 .. Len(s)
      BY <1>2
    <3>4. \A j, k \in 1 .. Len(t) : j < k => t[j] < t[k]
      <4>. SUFFICES ASSUME NEW j \in 1 .. Len(t), NEW k \in 1 .. Len(t), j < k
                    PROVE  t[j] < t[k]
        OBVIOUS
      <4>1. j \in 1 .. Len(s) /\ t[j] = s[j]
        BY <1>2, <3>3
      <4>2. CASE k \in 1 .. Len(s)
        BY <1>2, <3>1, <4>1, <4>2
      <4>3. CASE k = Len(s) + 1
        BY <1>2, <3>1, <4>1, <4>3
      <4>. QED  BY <1>3, <4>2, <4>3
    <3>5. \A k \in 1 .. Len(t) : t[k] < v + 1
      <4>. HIDE DEF s, v, t
      <4>. QED  BY <1>0, <3>2
    <3>. QED  BY <3>4, <3>5
  <2>. QED  BY <1>1, <1>6, <2>1 DEF TicketInv
<1>. QED  BY <1>4, <1>5, <1>6

LEMMA CopyToUserStep ==
  ASSUME IInv, NEW p \in Process, CopyToUser(p)
  PROVE  IInv'
<1>. DEFINE f == proc[p].file
<1>0. /\ TypeOK /\ TicketsInv /\ FileInv /\ proc \in [Process -> ProcRec]
      /\ mutex \in [Device -> Process \cup {Nobody}]
      /\ dev \in [Device -> DeviceRec] /\ given \in [Device -> Seq(Nat)]
      /\ hasty \subseteq Device /\ proc[p].pc = "copy" /\ proc[p].pc \in Section
      /\ UNCHANGED <<driver, state, loader, kernel, dev, hook, hasty>>
      /\ "idle" \notin Section /\ "load" \in Section
  BY UserBase DEF CopyToUser, Section
<1>1. f \in Device /\ mutex[f] = p /\ p # Nobody /\ \A d \in Device : d # f => mutex[d] # p
  BY <1>0, InMethod
<1>2. driver = "ticket"
  BY <1>0 DEF FileInv
<1>3. LoaderInv' /\ \A d \in Device : DeviceInv(d)'
  BY <1>0, LoaderStill
<1>4. CASE Step(p, "copy", "idle") /\ Unlock(p) /\ UNCHANGED given
  <2>1. /\ proc' \in [Process -> ProcRec] /\ proc'[p].pc = "idle"
        /\ proc'[p].file = f /\ proc'[p].early = proc[p].early
        /\ \A q \in Process : q # p => proc'[q] = proc[q]
    BY <1>0, <1>4, StepShape
  <2>2. /\ mutex' \in [Device -> Process \cup {Nobody}]
        /\ FileInv' /\ MutexInv' /\ HookInv'
    BY <1>0, <1>4, <2>1, Inside
  <2>3. TypeOK'
    BY <1>0, <1>4, <2>1, <2>2, UserTypes
  <2>4. mutex'[f] = Nobody /\ \A d \in Device : d # f => mutex'[d] = mutex[d]
    BY <1>0, <1>1, <1>4 DEF Unlock
  <2>5. \A d \in Device : NextTicket(d)' = NextTicket(d)
    <3>. SUFFICES ASSUME NEW d \in Device PROVE NextTicket(d)' = NextTicket(d)
      OBVIOUS
    <3>1. CASE d = f
      BY <1>0, <1>1, <2>4, <3>1 DEF NextTicket
    <3>2. CASE d # f
      <4>1. mutex'[d] = mutex[d] /\ (mutex[d] # Nobody => mutex[d] \in Process /\ mutex[d] # p)
        BY <1>0, <1>1, <2>4, <3>2
      <4>. QED  BY <1>0, <2>1, <4>1 DEF NextTicket
    <3>. QED  BY <3>1, <3>2
  <2>6. TicketsInv'
    BY <1>0, <1>4, <2>4, <2>5, SameTickets
  <2>. QED  BY <1>3, <2>2, <2>3, <2>6 DEF IInv
<1>5. CASE /\ given' = [given EXCEPT ![f] = Append(@, dev[f].num)]
           /\ Step(p, "copy", "load") /\ UNCHANGED mutex
  <2>1. /\ proc' \in [Process -> ProcRec] /\ proc'[p].pc = "load"
        /\ proc'[p].file = f /\ proc'[p].early = proc[p].early
        /\ \A q \in Process : q # p => proc'[q] = proc[q]
    BY <1>0, <1>5, StepShape
  <2>2. FileInv' /\ MutexInv' /\ HookInv'
    BY <1>0, <1>2, <1>5, <2>1, Inside
  <2>3. given[f] \in Seq(Nat) /\ dev[f].num \in Nat
    BY <1>0, <1>1 DEF DeviceRec
  <2>4. /\ given' \in [Device -> Seq(Nat)] /\ given'[f] = Append(given[f], dev[f].num)
        /\ \A d \in Device : d # f => given'[d] = given[d]
    BY <1>0, <1>1, <1>5, <2>3, AppendShape
  <2>5. TypeOK'
    BY <1>0, <1>5, <2>1, <2>4, UserTypes
  <2>6. ASSUME NEW d \in Device, d # f, TicketInv(d) PROVE TicketInv(d)'
    <3>1. mutex[d] # Nobody => mutex[d] \in Process /\ mutex[d] # p
      BY <1>0, <1>1, <2>6
    <3>2. NextTicket(d)' = NextTicket(d)
      BY <1>0, <1>5, <2>1, <3>1 DEF NextTicket
    <3>. QED  BY <1>0, <1>5, <2>4, <2>6, <3>2 DEF TicketInv
  <2>7. ASSUME NEW d \in Device, d = f, TicketInv(d) PROVE TicketInv(d)'
    BY <1>0, <1>1, <1>5, <2>1, <2>4, <2>7, GiveTicket
  <2>8. TicketsInv'
    BY <1>0, <1>2, <2>6, <2>7 DEF TicketsInv
  <2>. QED  BY <1>3, <2>2, <2>5, <2>8 DEF IInv
<1>. QED  BY <1>4, <1>5 DEF CopyToUser, Mine

LEMMA LoadNumStep ==
  ASSUME IInv, NEW p \in Process, LoadNum(p)
  PROVE  IInv'
<1>. DEFINE f == proc[p].file
            r == [proc[p] EXCEPT !.pc = "store", !.num = dev[f].num]
<1>0. /\ TypeOK /\ FileInv /\ proc \in [Process -> ProcRec]
      /\ mutex \in [Device -> Process \cup {Nobody}]
      /\ dev \in [Device -> DeviceRec] /\ given \in [Device -> Seq(Nat)]
      /\ hasty \subseteq Device /\ proc[p].pc = "load" /\ proc[p].pc \in Section
      /\ UNCHANGED <<driver, state, loader, kernel, dev, hook, mutex, given, hasty>>
      /\ "store" \in Section
  BY UserBase DEF LoadNum, Section
<1>1. /\ f \in Device /\ mutex[f] = p /\ p # Nobody /\ \A d \in Device : d # f => mutex[d] # p
      /\ driver = "ticket"
  BY <1>0, InMethod DEF FileInv
<1>2. /\ r \in ProcRec /\ r.pc = "store" /\ r.file = f /\ r.early = proc[p].early
      /\ r.num = dev[f].num /\ proc' = [proc EXCEPT ![p] = r]
  <2>1. dev[f].num \in Nat /\ "store" \in {"idle", "sys_open", "my_open"} \cup Section
    BY <1>0, <1>1 DEF DeviceRec
  <2>. QED  BY <1>0, <2>1 DEF ProcRec, LoadNum, Mine
<1>. HIDE DEF r
<1>3. /\ proc' \in [Process -> ProcRec] /\ proc'[p] = r
      /\ \A q \in Process : q # p => proc'[q] = proc[q]
  BY <1>0, <1>2, ProcShape
<1>4. FileInv' /\ MutexInv' /\ HookInv'
  BY <1>0, <1>1, <1>2, <1>3, Inside
<1>5. TypeOK'
  BY <1>0, <1>3, UserTypes
<1>6. LoaderInv' /\ \A d \in Device : DeviceInv(d)'
  BY <1>0, LoaderStill
<1>7. \A d \in Device : NextTicket(d)' = NextTicket(d)
  <2>. SUFFICES ASSUME NEW d \in Device PROVE NextTicket(d)' = NextTicket(d)
    OBVIOUS
  <2>1. CASE d = f
    BY <1>0, <1>1, <1>2, <1>3, <2>1 DEF NextTicket
  <2>2. CASE d # f
    <3>1. mutex[d] # Nobody => mutex[d] \in Process /\ mutex[d] # p
      BY <1>0, <1>1, <2>2
    <3>. QED  BY <1>0, <1>3, <3>1 DEF NextTicket
  <2>. QED  BY <2>1, <2>2
<1>8. TicketsInv'
  BY <1>0, <1>7, SameTickets
<1>. QED  BY <1>4, <1>5, <1>6, <1>8 DEF IInv

LEMMA StoreNumStep ==
  ASSUME IInv, NEW p \in Process, StoreNum(p)
  PROVE  IInv'
<1>. DEFINE f == proc[p].file
            r == [proc[p] EXCEPT !.pc = "idle", !.num = 0]
            e == [dev[f] EXCEPT !.num = proc[p].num + 1]
<1>0. /\ TypeOK /\ FileInv /\ proc \in [Process -> ProcRec]
      /\ mutex \in [Device -> Process \cup {Nobody}]
      /\ dev \in [Device -> DeviceRec] /\ given \in [Device -> Seq(Nat)]
      /\ hasty \subseteq Device /\ proc[p].pc = "store" /\ proc[p].pc \in Section
      /\ UNCHANGED <<driver, state, loader, kernel, hook, given, hasty>> /\ Unlock(p)
      /\ "idle" \notin Section
  BY UserBase DEF StoreNum, Section
<1>1. f \in Device /\ mutex[f] = p /\ p # Nobody /\ \A d \in Device : d # f => mutex[d] # p
  BY <1>0, InMethod
<1>2. /\ r \in ProcRec /\ r.pc = "idle" /\ r.file = f /\ r.early = proc[p].early
      /\ proc' = [proc EXCEPT ![p] = r] /\ proc[p].num \in Nat
  BY <1>0 DEF ProcRec, StoreNum
<1>3. /\ e \in DeviceRec /\ e.cdev = dev[f].cdev /\ e.node = dev[f].node
      /\ e.data = dev[f].data /\ e.ready = dev[f].ready /\ e.num = proc[p].num + 1
      /\ dev' = [dev EXCEPT ![f] = e]
  <2>. DEFINE v == proc[p].num + 1
  <2>1. dev' = [dev EXCEPT ![f] = [@ EXCEPT !.num = v]] /\ v \in Nat
    BY <1>0, <1>1, <1>2 DEF StoreNum
  <2>2. dev[f] \in DeviceRec /\ e = [dev[f] EXCEPT !.num = v]
    BY <1>0, <1>1
  <2>. HIDE DEF v
  <2>3. /\ e \in DeviceRec /\ e.cdev = dev[f].cdev /\ e.node = dev[f].node
        /\ e.data = dev[f].data /\ e.ready = dev[f].ready /\ e.num = v
    <3>. HIDE DEF e
    <3>. QED  BY <2>1, <2>2 DEF DeviceRec
  <2>4. dev' = [dev EXCEPT ![f] = e]
    BY <1>0, <1>1, <2>1, <2>2
  <2>. QED  BY <2>3, <2>4 DEF v
<1>. HIDE DEF r, e
<1>4. /\ proc' \in [Process -> ProcRec] /\ proc'[p] = r
      /\ \A q \in Process : q # p => proc'[q] = proc[q]
  BY <1>0, <1>2, ProcShape
<1>5. /\ dev' \in [Device -> DeviceRec] /\ dev'[f] = e
      /\ \A d \in Device : d # f => dev'[d] = dev[d]
  BY <1>0, <1>1, <1>3, DevShape
<1>6. /\ mutex' \in [Device -> Process \cup {Nobody}]
      /\ FileInv' /\ MutexInv' /\ HookInv'
  BY <1>0, <1>2, <1>4, Inside
<1>7. TypeOK'
  BY <1>0, <1>4, <1>5, <1>6, UserTypes
<1>8. \A d \in Device : /\ dev'[d].cdev = dev[d].cdev /\ dev'[d].node = dev[d].node
                        /\ dev'[d].data = dev[d].data /\ dev'[d].ready = dev[d].ready
  BY <1>3, <1>5
<1>9. LoaderInv' /\ \A d \in Device : DeviceInv(d)'
  BY <1>0, <1>8, LoaderStill
<1>10. mutex'[f] = Nobody /\ \A d \in Device : d # f => mutex'[d] = mutex[d]
  BY <1>0, <1>1 DEF Unlock
<1>11. \A d \in Device : NextTicket(d)' = NextTicket(d)
  <2>. SUFFICES ASSUME NEW d \in Device PROVE NextTicket(d)' = NextTicket(d)
    OBVIOUS
  <2>1. CASE d = f
    <3>1. NextTicket(d) = proc[p].num + 1
      BY <1>0, <1>1, <2>1 DEF NextTicket
    <3>2. NextTicket(d)' = proc[p].num + 1
      BY <1>3, <1>5, <1>10, <2>1 DEF NextTicket
    <3>. QED  BY <2>1, <3>1, <3>2
  <2>2. CASE d # f
    <3>1. mutex'[d] = mutex[d] /\ (mutex[d] # Nobody => mutex[d] \in Process /\ mutex[d] # p)
      BY <1>0, <1>1, <1>10, <2>2
    <3>. QED  BY <1>4, <1>5, <2>2, <3>1 DEF NextTicket
  <2>. QED  BY <2>1, <2>2
<1>12. TicketsInv'
  BY <1>0, <1>8, <1>10, <1>11, SameTickets
<1>. QED  BY <1>6, <1>7, <1>9, <1>12 DEF IInv

-----------------------------------------------------------------------------
(* The theorems                                                            *)

LEMMA InitInv == Init => IInv
<1>. SUFFICES ASSUME Init PROVE IInv
  OBVIOUS
<1>0. Ndevices \in Nat \ {0}
  BY DeviceAssumption
<1>1. TypeOK
  <2>1. loader \in LoaderRec /\ dev \in [Device -> DeviceRec] /\ proc \in [Process -> ProcRec]
    BY <1>0 DEF Init, LoaderRec, LoaderPc, DeviceRec, ProcRec
  <2>2. /\ mutex \in [Device -> Process \cup {Nobody}] /\ given \in [Device -> Seq(Nat)]
        /\ hasty \subseteq Device
    BY DEF Init
  <2>3. /\ driver \in {"ticket", "sleepy", "shady"} /\ state = "coming" /\ region = FALSE
        /\ class = "none" /\ devices = "none" /\ call_table = "sys_open" /\ old_open = "unset"
    BY DEF Init
  <2>. QED  BY <2>1, <2>2, <2>3, Types DEF Typed
<1>2. LoaderInv /\ \A d \in Device : DeviceInv(d)
  BY DEF Init, LoaderInv, DeviceInv, Bare, Building, Built
<1>3. FileInv /\ MutexInv /\ HookInv
  BY DEF Init, FileInv, MutexInv, HookInv, Section
<1>4. TicketsInv
  BY DEF Init, TicketsInv, TicketInv, NextTicket
<1>. QED  BY <1>1, <1>2, <1>3, <1>4 DEF IInv

LEMMA StutterInv == IInv /\ UNCHANGED vars => IInv'
<1>. SUFFICES ASSUME IInv, UNCHANGED vars PROVE IInv'
  OBVIOUS
<1>1. UNCHANGED <<driver, state, loader, kernel, dev, hook, users, proc, mutex, given, hasty>>
  BY DEF vars, users
<1>2. TypeOK'
  BY <1>1, UserBase, UserTypes
<1>3. LoaderInv' /\ \A d \in Device : DeviceInv(d)'
  BY <1>1, LoaderStill
<1>4. FileInv' /\ MutexInv' /\ TicketsInv'
  BY <1>1, UsersStill
<1>5. HookInv'
  BY <1>1, UserBase DEF HookInv, hook
<1>. QED  BY <1>2, <1>3, <1>4, <1>5 DEF IInv

(* The inductive invariant holds of the load, the removal and the uses of  *)
(* any of the three modules, for any number of devices and processes.      *)
THEOREM Inductive == Spec => []IInv
<1>1. Init => IInv
  BY InitInv
<1>2. IInv /\ [Next]_vars => IInv'
  <2>. SUFFICES ASSUME IInv, [Next]_vars PROVE IInv'
    OBVIOUS
  <2>1. CASE Loader
    BY <2>1, LoaderStep
  <2>2. ASSUME NEW p \in Process,
               \/ LoadCallTable(p) \/ CallOldOpen(p) \/ OpenDevice(p) \/ Close(p)
               \/ Lock(p) \/ Use(p) \/ CopyToUser(p) \/ LoadNum(p) \/ StoreNum(p)
        PROVE  IInv'
    BY <2>2, LoadCallTableStep, CallOldOpenStep, OpenDeviceStep, CloseStep, LockStep,
       UseStep, CopyToUserStep, LoadNumStep, StoreNumStep
  <2>3. CASE UNCHANGED vars
    BY <2>3, StutterInv
  <2>. QED  BY <2>1, <2>2, <2>3 DEF Next
<1>. QED  BY <1>1, <1>2, PTL DEF Spec

(* Every variable keeps its type: the loader never counts past the last    *)
(* device, and what it leaves in old_open is the open of before.           *)
THEOREM TypeCorrect == Spec => []TypeOK
<1>1. IInv => TypeOK
  BY DEF IInv
<1>. QED  BY <1>1, Inductive, PTL

(* However a load fails, and after rmmod, cleanup leaves no region, class, *)
(* device or allocation behind; of sleepy.c the device whose data could    *)
(* not be allocated stays registered, and no other.                        *)
THEOREM NothingLeftBehindHolds == Spec => []NothingLeftBehind
<1>1. IInv => NothingLeftBehind
  <2>. SUFFICES ASSUME IInv, state = "gone" PROVE NothingLeftBehind
    BY DEF NothingLeftBehind
  <2>1. loader.pc = "end"
    BY DEF IInv, LoaderInv
  <2>2. ~ region /\ class = "none" /\ devices # "allocated"
    BY <2>1 DEF IInv, LoaderInv
  <2>3. \A d \in Device : IF d = loader.last THEN Leftover(d) ELSE Bare(d)
    BY <2>1 DEF IInv, DeviceInv
  <2>. QED  BY <2>2, <2>3 DEF NothingLeftBehind, Leftover, Bare
<1>. QED  BY <1>1, Inductive, PTL

(* A method runs on a device that is registered and initialised, unless    *)
(* its file was opened in the window between cdev_add() and the end of the *)
(* load.                                                                   *)
THEOREM UsesAreSoundHolds == Spec => []UsesAreSound
<1>1. IInv => UsesAreSound
  <2>. SUFFICES ASSUME IInv, NEW p \in Process, proc[p].pc \in Section
                PROVE  \/ devices = "allocated" /\ Mine(p).cdev /\ Mine(p).node /\ Mine(p).ready
                       \/ proc[p].early /\ state # "live"
    BY DEF UsesAreSound, Section
  <2>1. proc[p].file \in Device /\ proc[p].file # NoFile
    BY InMethod DEF IInv, FileInv
  <2>2. CASE state = "live"
    <3>1. loader.pc \in Built /\ devices = "allocated"
      BY <2>2 DEF IInv, LoaderInv, Built
    <3>. QED  BY <2>1, <3>1 DEF IInv, DeviceInv, Complete, Mine
  <2>3. CASE state # "live"
    BY <2>1, <2>3, UserBase DEF FileInv, ProcRec
  <2>. QED  BY <2>2, <2>3
<1>. QED  BY <1>1, Inductive, PTL

(* The tickets of a device count from FirstTicket; and if the device is    *)
(* read before init has stored that, they are still all different until it *)
(* has given FirstTicket of them.                                          *)
THEOREM TicketsGivenOnceHolds == Spec => []TicketsGivenOnce
<1>1. IInv => TicketsGivenOnce
  <2>. SUFFICES ASSUME IInv, NEW d \in Device
                PROVE  /\ d \notin hasty =>
                            \A k \in DOMAIN given[d] : given[d][k] = FirstTicket + k - 1
                       /\ Len(given[d]) <= FirstTicket =>
                            \A j, k \in DOMAIN given[d] : given[d][j] = given[d][k] => j = k
    BY DEF TicketsGivenOnce
  <2>0. /\ given[d] \in Seq(Nat) /\ FirstTicket \in Nat
        /\ DOMAIN given[d] = 1 .. Len(given[d]) /\ Len(given[d]) \in Nat
        /\ \A k \in 1 .. Len(given[d]) : given[d][k] \in Nat
    BY UserBase, DeviceAssumption
  <2>1. CASE given[d] = <<>>
    BY <2>1
  <2>2. CASE TicketInv(d)
    <3>1. d \notin hasty => \A k \in 1 .. Len(given[d]) : given[d][k] = FirstTicket + k - 1
      BY <2>0, <2>2 DEF TicketInv
    <3>2. Len(given[d]) <= FirstTicket =>
            \A j, k \in 1 .. Len(given[d]) : j < k => given[d][j] < given[d][k]
      <4>1. CASE ~ dev[d].ready
        BY <2>0, <2>2, <4>1 DEF TicketInv
      <4>2. CASE dev[d].ready /\ d \notin hasty
        BY <2>0, <2>2, <4>2 DEF TicketInv
      <4>3. CASE dev[d].ready /\ d \in hasty
        BY <2>2, <4>3 DEF TicketInv
      <4>. QED  BY <4>1, <4>2, <4>3
    <3>3. ASSUME Len(given[d]) <= FirstTicket, NEW j \in 1 .. Len(given[d]),
                 NEW k \in 1 .. Len(given[d]), given[d][j] = given[d][k]
          PROVE  j = k
      <4>1. ~ (j < k) /\ ~ (k < j)
        BY <2>0, <3>2, <3>3
      <4>. QED  BY <2>0, <4>1
    <3>. QED  BY <2>0, <3>1, <3>3
  <2>. QED  BY <2>1, <2>2 DEF IInv, TicketsInv
<1>. QED  BY <1>1, Inductive, PTL

(* A process that has entered my_open() finds the open of before to call,  *)
(* and the code of the module in memory.                                   *)
THEOREM HookSoundHolds == Spec => []HookSound
<1>1. IInv => HookSound
  <2>. SUFFICES ASSUME IInv, NEW p \in Process, proc[p].pc = "my_open"
                PROVE  old_open = "sys_open" /\ state # "gone"
    BY DEF HookSound
  <2>1. loader.pc = "hidden"
    BY DEF IInv, HookInv
  <2>. QED  BY <2>1 DEF IInv, HookInv, LoaderInv, Building
<1>. QED  BY <1>1, Inductive, PTL
=============================================================================
