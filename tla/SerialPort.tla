----------------------------- MODULE SerialPort -----------------------------
(***************************************************************************)
(* The shared serial ports of serial_port.c, used by several threads, on   *)
(* the drivers of serial_unix.c and serial_win.c and the list of list.h.   *)
(*                                                                         *)
(* A serial_t and the serial_manger_t that counts its users are created    *)
(* and freed together: one element of Ctx is both.  Each thread is inside  *)
(* at most one call, and call[t].pc is the statement it has reached:       *)
(*                                                                         *)
(*   new -> register -> (share | create)                      serial_new   *)
(*   walk -> count -> driver -> opening -> count_up           serial_open  *)
(*   walk -> check -> count_down -> last -> restore -> closing -> closed   *)
(*                                                            serial_close *)
(*   walk -> acquire, walk -> release     serial_lock, serial_unlock       *)
(*   walk -> io -> (wait | transfer) ...  serial_read, serial_write        *)
(*   walk -> flush                        serial_clean                     *)
(*   destory -> drop -> bury                               serial_destory  *)
(*                                                                         *)
(* Env names what the threads are not kept from doing.                     *)
(***************************************************************************)
EXTENDS Integers, FiniteSets, LinkedList

CONSTANTS Thread,
          Ctx,         (* the memory of serial_new                          *)
          None,        (* a NULL pointer; the owner of a free mutex         *)
          Device,
          Setting,     (* baud, parity, data_bit and stop_bit               *)
          Invalid,     (* the settings whose parity is not N, E or O        *)
          Request,     (* what serial_new is asked for                      *)
          Fd,
          Driver,      (* "unix" or "win32", as the build has it            *)
          serial_mangers,  (* the head of the list                          *)
          MaxRefs,     (* the references of a thread (a bound)              *)
          MaxOpens,    (* the opens of a port (a bound)                     *)
          Env

Hazard == {
  "open_race",    (* two threads are in serial_open or serial_close of a    *)
                  (* port at once                                           *)
  "held_calls",   (* a thread that has locked a port does more than I/O     *)
  "open_fail",    (* open() or tcsetattr() fails in the driver's open       *)
  "close_fail",   (* tcsetattr() fails in the driver's close                *)
  "io_race",      (* a thread closes a port for another that is in I/O      *)
  "stray_fd" }    (* memory from malloc holds the number of an open file    *)

ASSUME SerialPortAssumption ==
  /\ None \notin Ctx \cup Thread \cup Device
  /\ serial_mangers \notin Ctx \cup {None}
  /\ {LIST_POISON1, LIST_POISON2} \cap (Ctx \cup {serial_mangers}) = {}
  /\ IsFiniteSet(Thread) /\ IsFiniteSet(Ctx)
  /\ Driver \in {"unix", "win32"}
  /\ Invalid \subseteq Setting
  /\ Fd \subseteq Nat
  /\ Request \subseteq [device : Device, setting : Setting, shared : BOOLEAN]
  /\ MaxRefs \in Nat /\ MaxOpens \in Nat
  /\ Env \subseteq Hazard

VARIABLES
  port,        (* serial_t, serial_rtu_t and serial_manger_t                *)
  links,       (* serial_mangers and the node of each serial_manger_t       *)
  g,           (* the thread that holds g_mangers                           *)
  call,        (* where each thread is                                      *)
  held,        (* how many references to each port each thread has          *)
  fds,         (* the open descriptors of the process                       *)
  fault        (* freed memory has been used                                *)

vars == <<port, links, g, call, held, fds, fault>>

NoFd == -1

(* A port as serial_new makes it for request r. *)
NewPort(r) == [device |-> r.device, setting |-> r.setting, shared |-> r.shared,
               is_open |-> FALSE, s |-> NoFd,
               refcount |-> 1, opencount |-> 0, mt |-> None]

(* A port that is not allocated. *)
Freed == [device |-> None, setting |-> None, shared |-> FALSE, is_open |-> FALSE,
          s |-> NoFd, refcount |-> 0, opencount |-> 0, mt |-> None]

Idle == [pc |-> "idle", op |-> "none", ctx |-> None, pos |-> None, want |-> {}]

Op == {"open", "close", "lock", "unlock", "io", "clean"}

(* The statement after find_serial, for each call. *)
Found == [open |-> "count", close |-> "check", lock |-> "acquire",
          unlock |-> "release", io |-> "io", clean |-> "flush"]

(* The ports that are allocated: RegistryRing says that they are listed.   *)
Listed == {c \in Ctx : port[c] # Freed}

(* find_serial under g_mangers, where nobody else changes the list. *)
On(device) == {c \in Listed : port[c].device = device}

Goto(t, pc) == call' = [call EXCEPT ![t].pc = pc]
Return(t) == call' = [call EXCEPT ![t] = Idle]
AtPc(t, pc) == call[t].pc = pc /\ ~fault

Owned(t) == {c \in Listed : port[c].mt = t}
Walking(t) == call[t].pc = "walk"
Io == {"io", "clean"}
InIo(t, c) == call[t].ctx = c /\ call[t].op \in Io
Closing(t, c) == call[t].ctx = c /\ call[t].op = "close"
InOpenOrClose(t, c) == call[t].ctx = c /\ call[t].op \in {"open", "close"}

(* What the application's threads do not do to each other.                 *)
Polite(t, op, c) ==
  /\ "held_calls" \in Env \/ Owned(t) = {}
     \/ (op \in {"unlock"} \cup Io /\ c \in Owned(t))
  /\ "open_race" \in Env \/ op \notin {"open", "close"}
     \/ \A u \in Thread : ~InOpenOrClose(u, c)
  /\ "io_race" \in Env \/ port[c].opencount > 1
     \/ \A u \in Thread \ {t} :
          (op \in Io => ~Closing(u, c)) /\ (op = "close" => ~InIo(u, c))

-----------------------------------------------------------------------------

Init ==
  /\ port = [c \in Ctx |-> Freed]
  /\ links = [n \in Ctx \cup {serial_mangers} |->
                IF n = serial_mangers THEN Alone(n) ELSE Poisoned]
  /\ g = None
  /\ call = [t \in Thread |-> Idle]
  /\ held = [t \in Thread |-> [c \in Ctx |-> 0]]
  /\ fds = {}
  /\ fault = FALSE

-----------------------------------------------------------------------------
(* serial_new                                                              *)

NewStarts(t, r) ==
  /\ AtPc(t, "idle")
  /\ "held_calls" \in Env \/ Owned(t) = {}
  /\ Cardinality({p \in Ctx \X (1..MaxRefs) : p[2] <= held[t][p[1]]}) < MaxRefs
  /\ call' = [call EXCEPT ![t].pc = "new", ![t].op = "new", ![t].want = {r}]
  /\ UNCHANGED <<port, links, g, held, fds, fault>>

(* Variant: g_mangers is not taken. *)
NewLocksNothing(t) ==
  /\ AtPc(t, "new")
  /\ Goto(t, "register")
  /\ UNCHANGED <<port, links, g, held, fds, fault>>

NewLocks(t) ==
  /\ AtPc(t, "new") /\ g = None
  /\ g' = t
  /\ Goto(t, "register")
  /\ UNCHANGED <<port, links, held, fds, fault>>

(* Variant: the settings are not compared. *)
CompatibleIfShared(c, r) == port[c].shared /\ r.shared

(* Both must share, with the same settings. *)
Compatible(c, r) == port[c].shared /\ r.shared /\ port[c].setting = r.setting

(* Variant: the early return keeps g_mangers. *)
NewRefusesLocked(t) ==
  /\ AtPc(t, "register")
  /\ \E r \in call[t].want : \E c \in On(r.device) : ~Compatible(c, r)
  /\ Return(t)
  /\ UNCHANGED <<port, links, g, held, fds, fault>>

NewRefuses(t) ==
  /\ AtPc(t, "register")
  /\ \E r \in call[t].want : \E c \in On(r.device) : ~Compatible(c, r)
  /\ g' = None
  /\ Return(t)
  /\ UNCHANGED <<port, links, held, fds, fault>>

NewFinds(t) ==
  /\ AtPc(t, "register")
  /\ \E r \in call[t].want :
       \/ /\ On(r.device) = {}
          /\ Goto(t, "create")
       \/ \E c \in On(r.device) :
            /\ Compatible(c, r)
            /\ call' = [call EXCEPT ![t].pc = "share", ![t].ctx = c]
  /\ UNCHANGED <<port, links, g, held, fds, fault>>

(* Variant: the new reference is not counted. *)
NewSharesUncounted(t) ==
  LET c == call[t].ctx
  IN  /\ AtPc(t, "share") /\ port[c].mt = None
      /\ held' = [held EXCEPT ![t][c] = @ + 1]
      /\ g' = None
      /\ Return(t)
      /\ UNCHANGED <<port, links, fds, fault>>

(* Waits for the port's mutex inside g_mangers. *)
NewShares(t) ==
  LET c == call[t].ctx
  IN  /\ AtPc(t, "share") /\ port[c].mt = None
      /\ port' = [port EXCEPT ![c].refcount = @ + 1]
      /\ held' = [held EXCEPT ![t][c] = @ + 1]
      /\ g' = None
      /\ Return(t)
      /\ UNCHANGED <<links, fds, fault>>

(* add_serial *)
NodeAdded(c) == list_add(INIT_LIST_HEAD(links, c), c, serial_mangers)

NewCreates(t) ==
  /\ AtPc(t, "create")
  /\ \E r \in call[t].want, c \in Ctx \ Listed :
       /\ r.setting \notin Invalid
       /\ port' = [port EXCEPT ![c] = NewPort(r)]
       /\ links' = NodeAdded(c)
       /\ held' = [held EXCEPT ![t][c] = 1]
  /\ g' = None
  /\ Return(t)
  /\ UNCHANGED <<fds, fault>>

(* The driver's destory closes a descriptor that nobody has set.           *)
NewRejects(t) ==
  /\ AtPc(t, "create")
  /\ \E r \in call[t].want : r.setting \in Invalid
  /\ \E s \in {NoFd} \cup IF "stray_fd" \in Env THEN fds ELSE {} : fds' = fds \ {s}
  /\ g' = None
  /\ Return(t)
  /\ UNCHANGED <<port, links, held, fault>>

-----------------------------------------------------------------------------
(* The calls that look the port up without g_mangers.                      *)

CallStarts(t, op, c) ==
  /\ AtPc(t, "idle")
  /\ held[t][c] > 0
  /\ Polite(t, op, c)
  /\ op = "unlock" => c \in Owned(t)
  /\ op = "open" => port[c].opencount < MaxOpens
  /\ call' = [call EXCEPT ![t] = [pc |-> "walk", op |-> op, ctx |-> c,
                                  pos |-> links[serial_mangers].next, want |-> {}]]
  /\ UNCHANGED <<port, links, g, held, fds, fault>>

(* One entry of find_serial: it may have been freed since the last one.    *)
Walk(t) ==
  LET pos == call[t].pos
  IN  /\ AtPc(t, "walk")
      /\ IF pos = serial_mangers THEN Return(t) /\ UNCHANGED fault
         ELSE IF pos \notin Listed THEN fault' = TRUE /\ UNCHANGED call
         ELSE IF port[pos].device = port[call[t].ctx].device
         THEN Goto(t, Found[call[t].op]) /\ UNCHANGED fault
         ELSE call' = [call EXCEPT ![t].pos = links[pos].next] /\ UNCHANGED fault
      /\ UNCHANGED <<port, links, g, held, fds>>

(* serial_open: an open port is only counted. *)
OpenTests(t) ==
  /\ AtPc(t, "count")
  /\ Goto(t, IF port[call[t].ctx].opencount > 0 THEN "count_up" ELSE "driver")
  /\ UNCHANGED <<port, links, g, held, fds, fault>>

(* unix_serial_open *)
DriverTests(t) ==
  /\ AtPc(t, "driver")
  /\ Goto(t, IF port[call[t].ctx].is_open THEN "count_up" ELSE "opening")
  /\ UNCHANGED <<port, links, g, held, fds, fault>>

(* CreateFileA opens a device for one handle only. *)
Exclusive(c) == Driver = "win32" /\ \E d \in Listed : port[d].device = port[c].device
                                                     /\ port[d].s \in fds

DriverOpens(t) ==
  /\ AtPc(t, "opening")
  /\ ~Exclusive(call[t].ctx)
  /\ \E f \in Fd \ fds :
       /\ port' = [port EXCEPT ![call[t].ctx].s = f, ![call[t].ctx].is_open = TRUE]
       /\ fds' = fds \cup {f}
  /\ Goto(t, "count_up")
  /\ UNCHANGED <<links, g, held, fault>>

(* On Windows the handle is kept when SetCommState can neither set the new *)
(* parameters nor, in win32_serial_close, the old ones.                    *)
WinKeeps(c) ==
  IF Driver = "win32" /\ "close_fail" \in Env /\ ~Exclusive(c)
  THEN {<<[port[c] EXCEPT !.s = f], fds \cup {f}>> : f \in Fd \ fds} ELSE {}

DriverOpenFails(t) ==
  LET c == call[t].ctx
  IN  /\ AtPc(t, "opening")
      /\ "open_fail" \in Env \/ Fd = fds \/ Exclusive(c)
      /\ \E failed \in {<<[port[c] EXCEPT !.s = NoFd], fds>>} \cup WinKeeps(c) :
           port' = [port EXCEPT ![c] = failed[1]] /\ fds' = failed[2]
      /\ Return(t)
      /\ UNCHANGED <<links, g, held, fault>>

OpenCounts(t) ==
  /\ AtPc(t, "count_up") /\ port[call[t].ctx].mt = None
  /\ port' = [port EXCEPT ![call[t].ctx].opencount = @ + 1, ![call[t].ctx].is_open = TRUE]
  /\ Return(t)
  /\ UNCHANGED <<links, g, held, fds, fault>>

(* Variant: a port is counted down without a look at its count. *)
CloseTestsNothing(t) ==
  /\ AtPc(t, "check")
  /\ Goto(t, "count_down")
  /\ UNCHANGED <<port, links, g, held, fds, fault>>

(* serial_close *)
CloseTests(t) ==
  /\ AtPc(t, "check")
  /\ Goto(t, IF port[call[t].ctx].opencount > 0 THEN "count_down" ELSE "last")
  /\ UNCHANGED <<port, links, g, held, fds, fault>>

CloseCounts(t) ==
  /\ AtPc(t, "count_down") /\ port[call[t].ctx].mt = None
  /\ port' = [port EXCEPT ![call[t].ctx].opencount = @ - 1]
  /\ Goto(t, "last")
  /\ UNCHANGED <<links, g, held, fds, fault>>

(* Variant: every serial_close closes the device. *)
CloseEndsAlways(t) ==
  /\ AtPc(t, "last")
  /\ Goto(t, "restore")
  /\ UNCHANGED <<port, links, g, held, fds, fault>>

(* The last serial_close goes on to the driver. *)
CloseEnds(t) ==
  /\ AtPc(t, "last")
  /\ IF port[call[t].ctx].opencount # 0 THEN Return(t) ELSE Goto(t, "restore")
  /\ UNCHANGED <<port, links, g, held, fds, fault>>

(* unix_serial_close: tcsetattr() fails on what is not an open device.     *)
DriverRestores(t) ==
  /\ AtPc(t, "restore")
  /\ \/ port[call[t].ctx].s \in fds /\ Goto(t, "closing")
     \/ (port[call[t].ctx].s \notin fds \/ "close_fail" \in Env) /\ Return(t)
  /\ UNCHANGED <<port, links, g, held, fds, fault>>

(* Variant: the descriptor is not closed. *)
DriverClosesNothing(t) ==
  /\ AtPc(t, "closing")
  /\ Goto(t, "closed")
  /\ UNCHANGED <<port, links, g, held, fds, fault>>

(* close(), of a descriptor that may be another's by now.  CloseHandle()   *)
(* fails when the handle is closed already.                                *)
DriverCloses(t) ==
  LET s == port[call[t].ctx].s
  IN  /\ AtPc(t, "closing")
      /\ fds' = fds \ {s}
      /\ IF Driver = "win32" /\ s \notin fds THEN Return(t) ELSE Goto(t, "closed")
      /\ UNCHANGED <<port, links, g, held, fault>>

DriverForgets(t) ==
  /\ AtPc(t, "closed")
  /\ port' = [port EXCEPT ![call[t].ctx].s = NoFd, ![call[t].ctx].is_open = FALSE]
  /\ Return(t)
  /\ UNCHANGED <<links, g, held, fds, fault>>

(* serial_lock and serial_unlock *)
LockAcquires(t) ==
  /\ AtPc(t, "acquire") /\ port[call[t].ctx].mt = None
  /\ port' = [port EXCEPT ![call[t].ctx].mt = t]
  /\ Return(t)
  /\ UNCHANGED <<links, g, held, fds, fault>>

UnlockReleases(t) ==
  /\ AtPc(t, "release")
  /\ port' = [port EXCEPT ![call[t].ctx].mt = None]
  /\ Return(t)
  /\ UNCHANGED <<links, g, held, fds, fault>>

(* serial_read and serial_write: the driver tests that the port is open,   *)
(* waits for bytes when it reads with a timeout, transfers some and, when  *)
(* it reads, goes on until it has what it was asked for.  On Windows the   *)
(* handle is not looked at.                                                *)
IoTests(t) ==
  /\ AtPc(t, "io")
  /\ LET p == port[call[t].ctx]
     IN  IF p.is_open /\ (Driver = "win32" \/ p.s # NoFd)
         THEN \E pc \in {"wait", "transfer"} : Goto(t, pc)
         ELSE Return(t)
  /\ UNCHANGED <<port, links, g, held, fds, fault>>

IoWaits(t) ==
  /\ AtPc(t, "wait")
  /\ Return(t) \/ Goto(t, "transfer")
  /\ UNCHANGED <<port, links, g, held, fds, fault>>

IoTransfers(t) ==
  /\ AtPc(t, "transfer")
  /\ Return(t) \/ Goto(t, "wait")
  /\ UNCHANGED <<port, links, g, held, fds, fault>>

(* serial_clean: the driver tests nothing, and flushes whatever s is.      *)
CleanFlushes(t) ==
  /\ AtPc(t, "flush")
  /\ Return(t)
  /\ UNCHANGED <<port, links, g, held, fds, fault>>

-----------------------------------------------------------------------------
(* serial_destory                                                          *)

DestoryStarts(t, c) ==
  /\ AtPc(t, "idle")
  /\ held[t][c] > 0
  /\ Polite(t, "destory", c)
  /\ call' = [call EXCEPT ![t].pc = "destory", ![t].op = "destory", ![t].ctx = c]
  /\ UNCHANGED <<port, links, g, held, fds, fault>>

DestoryLocks(t) ==
  /\ AtPc(t, "destory") /\ g = None
  /\ g' = t
  /\ Goto(t, "drop")
  /\ UNCHANGED <<port, links, held, fds, fault>>

(* Waits for the port's mutex inside g_mangers. *)
DestoryCounts(t) ==
  /\ AtPc(t, "drop")
  /\ \E c \in On(port[call[t].ctx].device) :
       IF port[c].refcount > 0
       THEN port[c].mt = None /\ port' = [port EXCEPT ![c].refcount = @ - 1]
       ELSE UNCHANGED port
  /\ held' = [held EXCEPT ![t][call[t].ctx] = @ - 1]
  /\ Goto(t, "bury")
  /\ UNCHANGED <<links, g, fds, fault>>

(* What the driver's close leaves open when a port is freed.               *)
LeftOpen(c) == {fds \ {port[c].s}} \cup IF "close_fail" \in Env THEN {fds} ELSE {}

(* Variant: the port is freed one reference early. *)
DestoryEndsEarly(t) ==
  LET c == call[t].ctx
  IN  /\ AtPc(t, "bury")
      /\ IF port[c].refcount > 1 THEN UNCHANGED <<port, links, fds>>
         ELSE /\ fds' \in LeftOpen(c)
              /\ port' = [port EXCEPT ![c] = Freed]
              /\ links' = list_del(links, c)
      /\ g' = None
      /\ Return(t)
      /\ UNCHANGED <<held, fault>>

(* The driver closes a port that is still open, and frees it. *)
DestoryEnds(t) ==
  LET c == call[t].ctx
  IN  /\ AtPc(t, "bury")
      /\ IF port[c].refcount > 0 THEN UNCHANGED <<port, links, fds>>
         ELSE /\ fds' \in LeftOpen(c)
              /\ port' = [port EXCEPT ![c] = Freed]
              /\ links' = list_del(links, c)
      /\ g' = None
      /\ Return(t)
      /\ UNCHANGED <<held, fault>>

-----------------------------------------------------------------------------

Starts(t) ==
  \/ \E r \in Request : NewStarts(t, r)
  \/ \E op \in Op, c \in Ctx : CallStarts(t, op, c)
  \/ \E c \in Ctx : DestoryStarts(t, c)

Runs(t) ==
  \/ NewLocks(t) \/ NewRefuses(t) \/ NewFinds(t) \/ NewShares(t) \/ NewCreates(t) \/ NewRejects(t)
  \/ Walk(t) \/ OpenTests(t) \/ DriverTests(t) \/ DriverOpens(t) \/ DriverOpenFails(t)
  \/ OpenCounts(t) \/ CloseTests(t) \/ CloseCounts(t) \/ CloseEnds(t)
  \/ DriverRestores(t) \/ DriverCloses(t) \/ DriverForgets(t)
  \/ LockAcquires(t) \/ UnlockReleases(t)
  \/ IoTests(t) \/ IoWaits(t) \/ IoTransfers(t) \/ CleanFlushes(t)
  \/ DestoryLocks(t) \/ DestoryCounts(t) \/ DestoryEnds(t)

Next == \E t \in Thread : Starts(t) \/ Runs(t)

Spec == Init /\ [][Next]_vars

Node == Ctx \cup {serial_mangers}

Place == {"idle", "new", "register", "share", "create", "walk", "count", "driver", "opening", "count_up",
          "check", "count_down", "last", "restore", "closing", "closed",
          "acquire", "release", "io", "wait", "transfer", "flush",
          "destory", "drop", "bury"}

Port(Count) == [device : Device, setting : Setting, shared : BOOLEAN, is_open : BOOLEAN,
                s : Fd \cup {NoFd}, refcount : Nat, opencount : Count,
                mt : Thread \cup {None}]

(* Every variable has its type. *)
TypeOK ==
  /\ links \in Links(Node, Node \cup {LIST_POISON1}, Node \cup {LIST_POISON2})
  /\ port \in [Ctx -> Port(Nat) \cup {Freed}]
  /\ g \in Thread \cup {None}
  /\ call \in [Thread -> [pc : Place, op : Op \cup {"none", "new", "destory"},
                          ctx : Ctx \cup {None}, pos : Node \cup {None},
                          want : SUBSET Request]]
  /\ held \in [Thread -> [Ctx -> Nat]]
  /\ fds \subseteq Fd
  /\ fault \in BOOLEAN

(* The nodes of the ports that are allocated and the head make up one ring,*)
(* so that find_serial under g_mangers meets every port and ends, and the  *)
(* links of a freed port are poisoned (list_add, list_del).                *)
RegistryRing ==
  /\ Ring(links, Listed \cup {serial_mangers})
  /\ \A c \in Ctx \ Listed : links[c] = Poisoned

(* Two threads that ask for one device get one port: no device is listed   *)
(* twice (serial_new looks and adds under g_mangers).                      *)
OnePortPerDevice == \A c, d \in Listed : port[c].device = port[d].device => c = d

(* refcount is the number of references in the hands of the threads, those *)
(* being destroyed included until serial_destory has counted them; so no   *)
(* port a thread may still use is ever freed.                              *)
References(c) == {p \in Thread \X (1..MaxRefs) : p[2] <= held[p[1]][c]}
RefcountExact ==
  \A c \in Ctx : Cardinality(References(c)) = IF c \in Listed THEN port[c].refcount ELSE 0

(* A thread that walks the list without g_mangers never comes past its own *)
(* port to the end, nor ends at another's, whatever other threads put on   *)
(* the list and take off it meanwhile; it only may stand on a port of      *)
(* another device when that is freed, and use freed memory (find_serial).  *)
WalkFindsItsPort ==
  \A t \in Thread : Walking(t) =>
    /\ call[t].ctx \in Listed /\ call[t].pos # serial_mangers
    /\ call[t].pos \in On(port[call[t].ctx].device) => call[t].pos = call[t].ctx

(* Unless a call is under way, a port is counted as open exactly when the  *)
(* driver holds a descriptor for it.                                       *)
OpenMatchesDevice ==
  \A c \in Listed :
    \/ \E t \in Thread : InOpenOrClose(t, c)
    \/ /\ port[c].opencount > 0 <=> port[c].s # NoFd
       /\ port[c].is_open <=> port[c].s # NoFd

(* A thread that has found its port open reads and writes an open device:  *)
(* closing one share of a port does not close it for the others            *)
(* (serial_close counts down; the drivers test is_open only once).         *)
(* serial_clean, which tests nothing, flushes the open device or no file.  *)
IoOnOpenDevice ==
  \A t \in Thread :
    /\ call[t].pc \in {"wait", "transfer"} => port[call[t].ctx].s \in fds
    /\ call[t].pc = "flush" => port[call[t].ctx].s \in fds \cup {NoFd}

(* Every open descriptor is the one of exactly one port: none is lost when *)
(* ports are opened, closed and destroyed, opened twice or left open.  The *)
(* driver's close forgets a descriptor only after it has closed it.        *)
Forgetting(c) == \E t \in Thread : call[t].ctx = c /\ call[t].pc = "closed"
FdOf(c) == IF Forgetting(c) THEN NoFd ELSE port[c].s
NoDescriptorLost ==
  /\ fds = {FdOf(c) : c \in Listed} \ {NoFd}
  /\ \A c, d \in Listed : FdOf(c) = FdOf(d) /\ FdOf(c) # NoFd => c = d

(* The registry leases each device to one holder, or to several that agree *)
(* on the terms: those who are about to join included (serial_new,         *)
(* serial_destory).                                                        *)
TermsOf(r) == [setting |-> r.setting, shared |-> r.shared]
Joining(c) == {t \in Thread : call[t].pc = "share" /\ call[t].ctx = c}
LeaseOf(d) ==
  LET leased == {c \in On(d) : port[c].refcount > 0}
  IN  [terms |-> UNION {{TermsOf(port[c])} \cup
                        UNION {{TermsOf(r) : r \in call[t].want} : t \in Joining(c)}
                        : c \in leased},
       holders |-> IF leased = {} THEN 0 ELSE port[CHOOSE c \in leased : TRUE].refcount]

Lease == INSTANCE PortLease WITH Setting <- Setting \ Invalid,
                                 lease <- [d \in Device |-> LeaseOf(d)]
ImplementsPortLease == Lease!Spec

(* No threads wait for each other: serial_new and serial_destory wait for a*)
(* port's mutex inside g_mangers, but whoever holds the port's mutex does  *)
(* not want g_mangers.                                                     *)
Awaited(t) ==
  CASE call[t].pc \in {"new", "destory"} -> g
    [] call[t].pc \in {"share", "drop", "count_up", "count_down", "acquire"} ->
         port[call[t].ctx].mt
    [] OTHER -> None
NoDeadlock == \A S \in (SUBSET Thread) \ {{}} : \E t \in S : Awaited(t) \notin S

(* "If it has not been opened, open it" (the comment in serial_open): the  *)
(* driver opens a device only when the port has no descriptor for it.      *)
OpensOnlyWhenClosed ==
  [][\A t \in Thread : call[t].pc = "opening" /\ call'[t].pc # "opening"
                        => port[call[t].ctx].s = NoFd]_vars

=============================================================================
