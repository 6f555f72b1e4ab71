----------------------------- MODULE Lifecycle -----------------------------
(***************************************************************************)
(* The driver's life: module_init and module_exit, probe and remove with   *)
(* their failures, unbinding and binding through sysfs, and the processes  *)
(* that call the driver through the interfaces probe registers, at any     *)
(* moment from the registration on.  The driver core runs one of these     *)
(* functions at a time.  Of a callback only its use of ug_201x_lock and of *)
(* the mapped power register is kept; EcCalls and LedDriver say what it    *)
(* does to the controller.                                                 *)
(*                                                                         *)
(* The functions are the lists of their statements, so that the order is   *)
(* in one place; withdrawing an interface first stops new calls and then   *)
(* waits for those that run, as the kernel does for all of them.           *)
(***************************************************************************)
EXTENDS Integers, Sequences, FiniteSets

CONSTANTS
  Clients,     \* processes that use the interfaces
  Worker,      \* the workqueue, running mcu_work
  Binder,      \* whoever loads, unloads, binds or unbinds
  NoOne,
  Words,       \* what is written to /proc/it86/startup
  FirmwareWord, \* what the firmware left in the power register
  MaxLost      \* bound on the registrations of the watchdog that fail

ASSUME LifecycleAssumption ==
  /\ Worker \notin Clients
  /\ {Binder, NoOne} \cap (Clients \cup {Worker}) = {} /\ Binder # NoOne
  /\ Words \subseteq {"on", "off", "last"}
  /\ FirmwareWord \in Nat /\ MaxLost \in Nat

Threads == Clients \cup {Worker}
Entries == {"fan", "startup", "temp"}          \* of /proc/it86
Interfaces == Entries \cup {"wdt", "hwmon", "leds"}

VARIABLES
  doing,   \* "out", "init", "probe", "bound", "unbound", "remove"
  pc,      \* the statement of probe or remove to come
  region,  \* the super I/O ports: reserved by "nobody" or the "driver"
  maps,    \* live mappings of the power register
  addr,    \* amd_poafp_addr is "null", one of them ("mapped") or "stale"
  lock,    \* ug_201x_lock is "raw", "ready" or "destroyed"
  owner,   \* its owner
  up,      \* the interfaces that can be called; "stray" are entries of
           \* /proc that were lost, but that a process may still have open
  call,    \* the interface each thread has called, or "none"
  inside,  \* the threads that have the lock, or believe they have
  flag,    \* remove_or_shutdown, 0 or 1
  work,    \* an LED's work item is "idle" or "queued"
  power,   \* the power register
  slow,    \* history: what is queued was still queued when remove had slept
  asked,   \* history: the mode last asked for
  lost     \* history: failed registrations of the watchdog

core == <<doing, pc>>
chip == <<region, maps, addr, lock>>
vars == <<doing, pc, region, maps, addr, lock, owner, up, call,
          inside, flag, work, slow, power, asked, lost>>

-----------------------------------------------------------------------------
(* The order of things in probe and remove, and slips in it.               *)

WatchdogBeforeSetup ==
  <<"enter", "chip", "map", "lock", "wdt", "setup", "fan", "startup", "temp",
    "hwmon", "leds", "init", "unlock">>

LockAfterWatchdog ==
  <<"enter", "chip", "setup", "map", "wdt", "lock", "fan", "startup", "temp",
    "hwmon", "leds", "init", "unlock">>

NeverMapped ==
  <<"enter", "chip", "setup", "lock", "wdt", "fan", "startup", "temp", "hwmon",
    "leds", "init", "unlock">>

probe_steps ==
  <<"enter", "chip", "setup", "map", "lock", "wdt", "fan", "startup", "temp",
    "hwmon", "leds", "init", "unlock">>

UnmapFirst ==
  <<"flow", "stop", "unlock", "unmap", "wdt", "fan", "startup", "temp", "flag",
    "cancel", "leds", "settle", "destroy", "hwmon">>

DoNotSettle ==
  <<"flow", "stop", "unlock", "wdt", "fan", "startup", "temp", "flag", "cancel",
    "leds", "destroy", "unmap", "hwmon">>

(* What devm registered goes after ug_cs201x_remove has returned.          *)
remove_steps ==
  <<"flow", "stop", "unlock", "wdt", "fan", "startup", "temp", "flag", "cancel",
    "leds", "settle", "destroy", "unmap", "hwmon">>

Probing(s)  == doing = "probe" /\ probe_steps[pc] = s
Removing(s) == doing = "remove" /\ pc <= Len(remove_steps) /\ remove_steps[pc] = s

GoOn == pc' = pc + 1 /\ UNCHANGED doing
Quit == doing' = "unbound" /\ pc' = 1

-----------------------------------------------------------------------------
(* module_init and module_exit.                                            *)

(* The static data of a module loaded afresh; what goes on in the text of  *)
(* one that is gone is not followed.                                       *)
platform_driver_register ==
  /\ doing = "out"
  /\ doing' = "init" /\ pc' = 1
  /\ addr' = "null" /\ lock' = "raw" /\ owner' = NoOne
  /\ up' = {} /\ inside' = {} /\ call' = [t \in Threads |-> "none"]
  /\ flag' = 0 /\ work' = "idle" /\ slow' = FALSE
  /\ UNCHANGED <<region, maps, power, asked, lost>>

(* If the device cannot be registered the driver is unregistered, else it  *)
(* is probed; init does not hear of a probe that fails.                    *)
platform_device_register ==
  /\ doing = "init"
  /\ doing' \in {"out", "probe"}
  /\ UNCHANGED <<pc, chip, owner, up, call, inside, flag, work, slow, power, asked, lost>>

(* The driver is taken from the device by module_exit, which an open       *)
(* watchdog holds off, or through sysfs, which nothing does; and given to  *)
(* it again through sysfs.                                                 *)
Unbind ==
  /\ doing = "bound"
  /\ doing' = "remove" /\ pc' = 1
  /\ UNCHANGED <<chip, owner, up, call, inside, flag, work, slow, power, asked, lost>>

cs201x_exit ==
  /\ doing = "unbound"
  /\ doing' = "out" /\ pc' = 1
  /\ UNCHANGED <<chip, owner, up, call, inside, flag, work, slow, power, asked, lost>>

Bind ==
  /\ doing = "unbound"
  /\ doing' = "probe" /\ pc' = 1
  /\ UNCHANGED <<chip, owner, up, call, inside, flag, work, slow, power, asked, lost>>

-----------------------------------------------------------------------------
(* ug_cs201x_probe.                                                        *)

(* request_muxed_region waits while a driver that shares the ports has     *)
(* them, and fails if one has them for good.                               *)
superio_enter ==
  /\ Probing("enter")
  /\ region = "nobody" /\ region' = "driver"
  /\ GoOn
  /\ UNCHANGED <<maps, addr, lock, owner, up, call, inside, flag, work, slow, power, asked, lost>>

superio_enter_busy ==
  /\ Probing("enter")
  /\ Quit
  /\ UNCHANGED <<chip, owner, up, call, inside, flag, work, slow, power, asked, lost>>

superio_exit == region = "driver" /\ region' = "nobody"

UnknownChipLeft ==
  /\ Probing("chip")
  /\ Quit
  /\ UNCHANGED <<chip, owner, up, call, inside, flag, work, slow, power, asked, lost>>

UnknownChip ==
  /\ Probing("chip")
  /\ superio_exit
  /\ Quit
  /\ UNCHANGED <<maps, addr, lock, owner, up, call, inside, flag, work, slow, power, asked, lost>>

(* InitEc finds the port of the controller and enables fans and sensors.   *)
InitEc ==
  /\ Probing("chip")
  /\ superio_exit
  /\ GoOn
  /\ UNCHANGED <<maps, addr, lock, owner, up, call, inside, flag, work, slow, power, asked, lost>>

(* The power switch, the LED flow, Wdt_init: nothing takes the lock.       *)
Setup ==
  /\ Probing("setup")
  /\ GoOn
  /\ UNCHANGED <<chip, owner, up, call, inside, flag, work, slow, power, asked, lost>>

ioremap ==
  /\ Probing("map")
  /\ \/ Quit /\ UNCHANGED <<maps, addr>>
     \/ GoOn /\ maps' = maps + 1 /\ addr' = "mapped"
  /\ UNCHANGED <<region, lock, owner, up, call, inside, flag, work, slow, power, asked, lost>>

mutex_init ==
  /\ Probing("lock")
  /\ lock' = "ready" /\ owner' = NoOne
  /\ GoOn
  /\ UNCHANGED <<region, maps, addr, up, call, inside, flag, work, slow, power, asked, lost>>

(* Registering the watchdog may fail; the mapping stays.                   *)
watchdog_register_device ==
  /\ Probing("wdt")
  /\ \/ GoOn /\ up' = up \cup {"wdt"} /\ UNCHANGED lost
     \/ lost < MaxLost /\ lost' = lost + 1 /\ Quit /\ UNCHANGED up
  /\ UNCHANGED <<chip, owner, call, inside, flag, work, slow, power, asked>>

(* procfs_create: if an entry cannot be made the directory is removed with *)
(* those made before still in it, and nobody is told.                      *)
procfs_create(e) ==
  /\ Probing(e)
  /\ up' = up \cup {e}
  /\ GoOn
  /\ UNCHANGED <<chip, owner, call, inside, flag, work, slow, power, asked, lost>>

procfs_create_fails(e) ==
  /\ Probing(e)
  /\ up' = (up \ Entries) \cup (IF up \cap Entries = {} THEN {} ELSE {"stray"})
  /\ call' = [t \in Threads |-> IF call[t] \in Entries THEN "stray" ELSE call[t]]
  /\ pc' = CHOOSE n \in DOMAIN probe_steps : probe_steps[n] = "hwmon"
  /\ UNCHANGED <<doing, chip, owner, inside, flag, work, slow, power, asked, lost>>

(* Not fatal: the driver goes on without.                                  *)
hwmon_device_register ==
  /\ Probing("hwmon")
  /\ up' \in {up, up \cup {"hwmon"}}
  /\ GoOn
  /\ UNCHANGED <<chip, owner, call, inside, flag, work, slow, power, asked, lost>>

(* The flag, INIT_WORK and the registration of the LEDs.  Work that is     *)
(* still queued from an earlier binding runs all the same or is lost.      *)
ug_201_leds_init ==
  /\ Probing("leds")
  /\ flag' = 0
  /\ up' = up \cup {"leds"}
  /\ work' \in {work, "idle"} /\ slow' = FALSE
  /\ GoOn
  /\ UNCHANGED <<chip, owner, call, inside, power, asked, lost>>

Bound == doing' = "bound" /\ pc' = 1

(* init_leds programs all LEDs under the lock, unless a signal ends its    *)
(* wait; the processes use every interface meanwhile.                      *)
init_leds ==
  /\ Probing("init")
  /\ \/ owner = NoOne /\ owner' = Binder /\ GoOn
     \/ owner # NoOne /\ UNCHANGED owner /\ Bound
  /\ UNCHANGED <<chip, up, call, inside, flag, work, slow, power, asked, lost>>

init_leds_done ==
  /\ Probing("unlock")
  /\ owner' = NoOne
  /\ Bound
  /\ UNCHANGED <<chip, up, call, inside, flag, work, slow, power, asked, lost>>

-----------------------------------------------------------------------------
(* ug_cs201x_remove.                                                       *)

StopFlow ==
  /\ Removing("flow")
  /\ GoOn
  /\ UNCHANGED <<chip, owner, up, call, inside, flag, work, slow, power, asked, lost>>

(* wdt_stop; a signal may end its wait.                                    *)
StopWatchdog ==
  /\ Removing("stop")
  /\ owner = NoOne /\ owner' = Binder
  /\ GoOn
  /\ UNCHANGED <<chip, up, call, inside, flag, work, slow, power, asked, lost>>

StopInterrupted ==
  /\ Removing("stop")
  /\ owner # NoOne
  /\ pc' = pc + 2 /\ UNCHANGED doing
  /\ UNCHANGED <<chip, owner, up, call, inside, flag, work, slow, power, asked, lost>>

(* Not giving the lock back until all is done.                             *)
HoldTheLock ==
  /\ Removing("unlock")
  /\ GoOn
  /\ UNCHANGED <<chip, owner, up, call, inside, flag, work, slow, power, asked, lost>>

Stopped ==
  /\ Removing("unlock")
  /\ owner' = NoOne
  /\ GoOn
  /\ UNCHANGED <<chip, up, call, inside, flag, work, slow, power, asked, lost>>

Withdraw(i) ==
  /\ Removing(i)
  /\ i \in up /\ up' = up \ {i}
  /\ UNCHANGED <<core, chip, owner, call, inside, flag, work, slow, power, asked, lost>>

Drained(i) ==
  /\ Removing(i)
  /\ i \notin up /\ \A t \in Threads : call[t] # i
  /\ GoOn
  /\ UNCHANGED <<chip, owner, up, call, inside, flag, work, slow, power, asked, lost>>

(* ug_201_leds_remove: the flag, cancel_work_sync, the LEDs and a sleep of *)
(* 80 ms, within which the workqueue may get round to what was queued      *)
(* since, or not.                                                          *)
SetFlag ==
  /\ Removing("flag")
  /\ flag' = 1
  /\ GoOn
  /\ UNCHANGED <<chip, owner, up, call, inside, work, slow, power, asked, lost>>

cancel_work_sync ==
  /\ Removing("cancel")
  /\ call[Worker] = "none"
  /\ work' = "idle"
  /\ GoOn
  /\ UNCHANGED <<chip, owner, up, call, inside, flag, slow, power, asked, lost>>

Settle ==
  /\ Removing("settle")
  /\ slow' = (work = "queued")
  /\ GoOn
  /\ UNCHANGED <<chip, owner, up, call, inside, flag, work, power, asked, lost>>

mutex_destroy ==
  /\ Removing("destroy")
  /\ lock' = "destroyed"
  /\ GoOn
  /\ UNCHANGED <<region, maps, addr, owner, up, call, inside, flag, work, slow, power, asked, lost>>

iounmap ==
  /\ Removing("unmap")
  /\ maps' = maps - 1 /\ addr' = "stale"
  /\ GoOn
  /\ UNCHANGED <<region, lock, owner, up, call, inside, flag, work, slow, power, asked, lost>>

Removed ==
  /\ doing = "remove" /\ pc > Len(remove_steps)
  /\ doing' = "unbound" /\ pc' = 1
  /\ UNCHANGED <<chip, owner, up, call, inside, flag, work, slow, power, asked, lost>>

-----------------------------------------------------------------------------
(* The callbacks.                                                          *)

Call(c, i) ==
  /\ call[c] = "none" /\ i \in up /\ doing # "out"
  /\ i = "leds" => flag = 0
  /\ call' = [call EXCEPT ![c] = i]
  /\ UNCHANGED <<core, chip, owner, up, inside, flag, work, slow, power, asked, lost>>

Return(t) == call' = [call EXCEPT ![t] = "none"]

(* schedule_work, past the flag; and mcu_work, which a module that is gone *)
(* no longer has.                                                          *)
ScheduleWork(c) ==
  /\ call[c] = "leds" /\ c \notin inside
  /\ work' = "queued"
  /\ Return(c)
  /\ UNCHANGED <<core, chip, owner, up, inside, flag, slow, power, asked, lost>>

RunWork ==
  /\ work = "queued" /\ call[Worker] = "none" /\ doing # "out"
  /\ work' = "idle" /\ slow' = FALSE
  /\ call' = [call EXCEPT ![Worker] = IF flag = 1 THEN "none" ELSE "work"]
  /\ UNCHANGED <<core, chip, owner, up, inside, flag, power, asked, lost>>

Acquire(t) ==
  /\ call[t] # "none" /\ t \notin inside
  /\ owner = NoOne /\ owner' = t
  /\ inside' = inside \cup {t}
  /\ UNCHANGED <<core, chip, up, call, flag, work, slow, power, asked, lost>>

(* Most wait for the lock interruptibly; those of "startup" and "temp" and *)
(* the writers of a fan's duty do not.                                     *)
Interrupted(c) ==
  /\ call[c] \in {"fan", "hwmon", "wdt", "leds", "stray"} /\ c \notin inside
  /\ Return(c)
  /\ UNCHANGED <<core, chip, owner, up, inside, flag, work, slow, power, asked, lost>>

(* mutex_unlock does not ask who the owner is.                             *)
Release(t) ==
  /\ inside' = inside \ {t}
  /\ owner' = NoOne
  /\ Return(t)
  /\ UNCHANGED <<core, chip, up, flag, work, slow, lost>>

Leave(t) ==
  /\ t \in inside
  /\ Release(t)
  /\ UNCHANGED <<power, asked>>

AutoPowerOnGet == power % 4

(* Or-ing the mode in without clearing what was there.                     *)
OrModeIn(mode) ==
  power' = power - AutoPowerOnGet
           + (IF mode = 0 \/ AutoPowerOnGet = 3 THEN AutoPowerOnGet
              ELSE IF AutoPowerOnGet = 0 THEN mode
              ELSE IF mode = AutoPowerOnGet THEN mode ELSE 3)

AutoPowerOnSet(mode) == power' = power - AutoPowerOnGet + mode

ModeOf(word) == IF word = "on" THEN 1 ELSE IF word = "off" THEN 0 ELSE 3

startup_write(c, word) ==
  /\ call[c] = "startup" /\ c \in inside
  /\ AutoPowerOnSet(ModeOf(word))
  /\ asked' = ModeOf(word)
  /\ Release(c)

-----------------------------------------------------------------------------

Init ==
  /\ doing = "out" /\ pc = 1
  /\ region = "nobody"
  /\ maps = 0 /\ addr = "null"
  /\ lock = "raw" /\ owner = NoOne
  /\ up = {} /\ inside = {}
  /\ call = [t \in Threads |-> "none"]
  /\ flag = 0 /\ work = "idle" /\ slow = FALSE
  /\ power = FirmwareWord /\ asked = FirmwareWord % 4
  /\ lost = 0

Module ==
  \/ platform_driver_register \/ platform_device_register
  \/ cs201x_exit \/ Unbind \/ Bind

Probe ==
  \/ superio_enter \/ superio_enter_busy \/ UnknownChip \/ InitEc \/ Setup
  \/ ioremap \/ mutex_init \/ watchdog_register_device
  \/ \E e \in Entries : procfs_create(e) \/ procfs_create_fails(e)
  \/ hwmon_device_register \/ ug_201_leds_init \/ init_leds \/ init_leds_done

Remove ==
  \/ StopFlow \/ StopWatchdog \/ Stopped
  \/ \E i \in Interfaces : Withdraw(i) \/ Drained(i)
  \/ SetFlag \/ cancel_work_sync \/ Settle
  \/ mutex_destroy \/ iounmap \/ Removed

Client(c) ==
  \/ \E i \in Interfaces \cup {"stray"} : Call(c, i)
  \/ ScheduleWork(c) \/ Interrupted(c)
  \/ \E word \in Words : startup_write(c, word)

Next ==
  \/ Module \/ Probe \/ Remove \/ StopInterrupted \/ RunWork
  \/ \E c \in Clients : Client(c)
  \/ \E t \in Threads : Acquire(t) \/ Leave(t)

Spec == Init /\ [][Next]_vars

(* Remove once begun goes on, without counting on a signal; the holder of  *)
(* the lock gives it back, and a kernel mutex is handed to a waiter that   *)
(* was passed over.                                                        *)
Fairness ==
  /\ WF_vars(Remove) /\ SF_vars(StopWatchdog)
  /\ \A t \in Threads : SF_vars(Acquire(t)) /\ WF_vars(Leave(t))

FairSpec == Spec /\ Fairness

-----------------------------------------------------------------------------
(* Properties.                                                             *)

(* Every variable has its type.                                            *)
TypeOK ==
  /\ doing \in {"out", "init", "probe", "bound", "unbound", "remove"}
  /\ pc \in 1 .. Len(remove_steps) + 1
  /\ region \in {"nobody", "driver"}
  /\ maps \in 0 .. MaxLost + 1 /\ addr \in {"null", "mapped", "stale"}
  /\ lock \in {"raw", "ready", "destroyed"}
  /\ owner \in Threads \cup {Binder, NoOne}
  /\ up \subseteq Interfaces \cup {"stray"}
  /\ call \in [Threads -> Interfaces \cup {"none", "stray", "work"}]
  /\ inside \subseteq Threads
  /\ flag \in {0, 1} /\ work \in {"idle", "queued"} /\ slow \in BOOLEAN
  /\ asked \in 0 .. 3 /\ power \in Nat
  /\ lost \in 0 .. MaxLost

(* Probe's accesses to the controller, up to Wdt_init, take no lock: no    *)
(* callback runs beside them, not even one of an earlier binding, other    *)
(* than through an entry that procfs_create lost.                          *)
ProbeIsAlone ==
  \A t \in inside :
    call[t] # "stray" => ~ (Probing("chip") \/ Probing("setup"))

(* A callback finds the lock initialized and not destroyed, and a write to *)
(* "startup" finds the register mapped; the worker too, however late it    *)
(* runs what was queued while the LEDs went, for it then sees the flag.    *)
(* The exceptions: the hwmon device is unregistered by devm when remove    *)
(* has destroyed the lock, and the entries procfs_create lost.             *)
CallbacksFindWhatTheyUse ==
  \A t \in Threads :
    /\ call[t] \notin {"none", "stray", "hwmon"} => lock = "ready"
    /\ call[t] = "hwmon" => lock # "raw"
    /\ call[t] = "startup" => addr = "mapped"

(* Whoever has taken the lock owns it until he gives it back, so no two    *)
(* callbacks are in it at a time, nor one beside init_leds in probe or     *)
(* wdt_stop in remove: through every binding, which initializes the lock   *)
(* again, as long as procfs_create has not lost an entry, whose callback   *)
(* may have the lock then.                                                 *)
LockIsExclusive ==
  "stray" \notin up =>
    /\ \A t \in inside : owner = t
    /\ Probing("unlock") \/ Removing("unlock") => owner = Binder

(* When the module is out, or the driver unbound, nothing of it is         *)
(* registered, running or queued, whatever failed before, but for lost     *)
(* entries and work that 80 ms were too short for; and it has left no      *)
(* mapping, but those of probes in which registering the watchdog failed.  *)
NothingBehind ==
  doing \in {"out", "unbound"} =>
    /\ up \subseteq {"stray"} /\ (work = "idle" \/ slow)
    /\ \A t \in Threads : call[t] \in {"none", "stray"}
    /\ maps = lost

(* The super I/O ports are given back on every way out of probe.           *)
PortsAreGivenBack == region = "driver" => Probing("chip")

(* The power mode is the last one asked for, in the machine's register and *)
(* through unloading and loading, and the rest of the word is not touched. *)
PowerModeIsKept ==
  AutoPowerOnGet = asked /\ power - AutoPowerOnGet = FirmwareWord - (FirmwareWord % 4)

(* Whoever owns the lock can give it back without anyone: a callback is    *)
(* past its wait for it, and remove and probe, which wait for callbacks    *)
(* that wait for the lock, have it in wdt_stop and init_leds only.         *)
OwnerCanGoOn ==
  /\ owner \in Threads => owner \in inside /\ call[owner] # "none"
  /\ owner = Binder => Probing("unlock") \/ Removing("unlock")

(* Removing ends, though it waits for the callbacks of every interface and *)
(* they wait for the lock.                                                 *)
RemovalEnds == doing = "remove" ~> doing = "unbound"

=============================================================================
