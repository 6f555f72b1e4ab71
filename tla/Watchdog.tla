------------------------------ MODULE Watchdog ------------------------------
(***************************************************************************)
(* The hardware watchdog: the timer in the embedded controller, the three  *)
(* operations the driver gives the kernel's watchdog core, and the core's  *)
(* own idea of the device.  A process opens /dev/watchdog, feeds it and    *)
(* goes away, with or without the magic character; signals interrupt the   *)
(* waits for ug_201x_lock; the module is loaded and unloaded, the driver   *)
(* unbound from the device and bound again through sysfs, with             *)
(* /dev/watchdog open or not; the machine is shut down.  The core          *)
(* serializes the calls on the device, and the controller's accesses of    *)
(* one call are made under the lock, so a call is one step.  A call whose  *)
(* wait for the lock is interrupted returns -EAGAIN; where it leaves       *)
(* something changed all the same it is a step of its own, otherwise it is *)
(* none.                                                                   *)
(*                                                                         *)
(* Nothing in the driver writes WDT_FEED: it feeds the timer by enabling   *)
(* it once more.  That this restarts the count is the hardware's part.     *)
(***************************************************************************)
EXTENDS Integers

Calls == INSTANCE EcCalls

CONSTANTS
  Requests,         \* the timeouts processes ask for
  Lapses,           \* the amounts of time that may pass between two steps
  DEFAULT_TIMEOUT

min_timeout == 30
max_timeout == Calls!max_units * 60

ASSUME WatchdogAssumption ==
  /\ Requests \subseteq Nat
  /\ Lapses \subseteq Nat \ {0}
  /\ DEFAULT_TIMEOUT \in Nat
  /\ min_timeout <= DEFAULT_TIMEOUT /\ DEFAULT_TIMEOUT <= Calls!max_units

VARIABLES
  cfg,       \* WDT_CFG2: 1 lets the timer run
  limit,     \* WDT_TIMEOUT_H and WDT_TIMEOUT_L
  elapsed,   \* what the controller has counted
  phase,     \* the module is "gone"; "loaded"; in remove between stopping and
             \* unregistering, for "unbinding" or "exiting"; loaded but "unbound";
             \* or the machine is "down" or "reset"
  status,    \* the bits of the core: open, active, allow (the last write held
             \* the magic character); orphan: a file of a removed device is open
  timeout,   \* wdd->timeout
  promised,  \* history: the time the last replies let the process count on
  age,       \* history: time since the process last fed the timer
  past       \* history: the timeout was set after the watchdog was stopped
             \* (rearmed), or the last attempt to set it was interrupted (failed),
             \* or the last stop by remove or shutdown was (stranded); it was
             \* armed between remove's stop and the unregistering (late), or is
             \* still active from before an unbind and not started since (stale)

timer == <<cfg, limit, elapsed>>
vars  == <<cfg, limit, elapsed, phase, status, timeout, promised, age, past>>

-----------------------------------------------------------------------------
(* The driver's operations on the controller.                              *)

Least(a, b) == IF a < b THEN a ELSE b

(* The two bytes of the timer, and slips: milliseconds, one byte only.     *)
SecondsInThousands(t) == t * 1000
SecondsInOneByte(t) == t % 256

Seconds(t) == t % 65536

(* Wdt_init, with the timer disabled first; wdt_dev.timeout.               *)
Wdt_init(t) ==
  /\ cfg' = 0
  /\ limit' = Seconds(t)
  /\ elapsed' = 0

(* Leaving out what looks like a second start.                             *)
WdtStartOnce(enable) ==
  IF cfg = enable
  THEN UNCHANGED timer
  ELSE cfg' = enable /\ elapsed' = 0 /\ UNCHANGED limit

WdtStart(enable) ==
  /\ cfg' = enable
  /\ elapsed' = 0
  /\ UNCHANGED limit

(* Reprogrammed, and left stopped for the core's keepalive to start.       *)
SetWithoutStart(t) ==
  /\ cfg' = 0
  /\ limit' = Seconds(t)
  /\ elapsed' = 0

Wdt_cfg_timeout(t) ==
  /\ cfg' = 1
  /\ limit' = Seconds(t)
  /\ elapsed' = 0

-----------------------------------------------------------------------------
(* The watchdog core.                                                      *)

Running == phase = "loaded"
Served  == phase \in {"loaded", "unbinding"}
Active  == "active" \in status
Open    == "open" \in status

Armed(p)   == (p \ {"rearmed", "stale"}) \cup (IF phase = "unbinding" THEN {"late"} ELSE {})
Stopped(p) == p \ {"rearmed", "stranded", "late"}

(* wdt_start, for watchdog_start and, as there is no ping operation, for   *)
(* watchdog_ping.                                                          *)
wdt_start ==
  WdtStart(1) /\ age' = 0 /\ past' = Armed(past) /\ UNCHANGED <<timeout, promised>>

wdt_stop ==
  WdtStart(0) /\ past' = Stopped(past) /\ UNCHANGED <<timeout, promised, age>>

(* A call that is interrupted, or finds nothing to do.                     *)
Nothing == UNCHANGED <<cfg, limit, elapsed, timeout, promised, age, past>>

Feed == Active /\ wdt_start
Ping == Nothing \/ Feed

(* Opening starts the watchdog, unless a process or an unbind left it      *)
(* active.                                                                 *)
OpenIdle ==
  /\ Served /\ ~ Open /\ ~ Active
  /\ wdt_start
  /\ status' = status \cup {"open", "active"}
  /\ UNCHANGED phase

OpenActive ==
  /\ Served /\ ~ Open /\ Active
  /\ status' = status \cup {"open"}
  /\ UNCHANGED <<cfg, limit, elapsed, phase, timeout, promised, age, past>>

(* A write looks for the magic character in what is written, then pings if *)
(* the watchdog is active.                                                 *)
Write ==
  /\ Served /\ Open
  /\ status' = status \ {"allow"}
  /\ Ping
  /\ UNCHANGED phase

WriteMagic ==
  /\ Served /\ Open
  /\ status' = status \cup {"allow"}
  /\ Ping
  /\ UNCHANGED phase

(* WDIOC_SETOPTIONS.                                                       *)
Enable ==
  /\ Served /\ Open /\ ~ Active
  /\ wdt_start
  /\ status' = status \cup {"active"}
  /\ UNCHANGED phase

Disable ==
  /\ Served /\ Open /\ Active
  /\ wdt_stop
  /\ status' = status \ {"active"}
  /\ UNCHANGED phase

(* WDIOC_SETTIMEOUT, refused out of range.                                 *)
Valid(t) == t \in min_timeout .. max_timeout

(* The timeout is rounded and stored before the wait for the lock.         *)
SetTimeoutInterrupted(t) ==
  /\ Served /\ Open /\ Valid(t)
  /\ timeout' = Calls!Rounded(t)
  /\ promised' = Least(promised, Calls!Rounded(t))
  /\ age' = Least(age, Least(promised, Calls!Rounded(t)))
  /\ past' = past \cup {"failed"}
  /\ UNCHANGED <<cfg, limit, elapsed, phase, status>>

wdt_set_timeout(t) ==
  /\ timeout' = Calls!Rounded(t)
  /\ Wdt_cfg_timeout(Calls!Rounded(t))
  /\ age' = 0
  /\ UNCHANGED <<phase, status>>

(* Having set the timeout the core feeds an active watchdog, which changes *)
(* nothing more.  If that is interrupted the request fails although the    *)
(* new timeout is in force.                                                *)
SetTimeoutUnfed(t) ==
  /\ Served /\ Open /\ Valid(t) /\ Active
  /\ wdt_set_timeout(t)
  /\ promised' = Least(promised, Calls!Rounded(t))
  /\ past' = Armed(past \ {"failed"})

SetTimeout(t) ==
  /\ Served /\ Open /\ Valid(t) /\ Active
  /\ wdt_set_timeout(t)
  /\ promised' = Calls!Rounded(t)
  /\ past' = Armed(past \ {"failed"})

SetTimeoutStopped(t) ==
  /\ Served /\ Open /\ Valid(t) /\ ~ Active
  /\ wdt_set_timeout(t)
  /\ promised' = Calls!Rounded(t)
  /\ past' = Armed(past \ {"failed"}) \cup {"rearmed"}

(* watchdog_release, when the process closes the device or dies: without   *)
(* the magic character, or when stopping is interrupted, the watchdog      *)
(* stays and is fed once more.                                             *)
ReleaseStopping ==
  /\ Served /\ Open /\ "allow" \in status /\ Active
  /\ wdt_stop
  /\ status' = status \ {"open", "allow", "active"}
  /\ UNCHANGED phase

Release ==
  /\ Served /\ Open
  /\ Ping
  /\ status' = status \ {"open", "allow"}
  /\ UNCHANGED phase

(* Every call on a file whose device was removed fails; closing it lets go *)
(* of the module.                                                          *)
ReleaseOrphan ==
  /\ "orphan" \in status
  /\ status' = status \ {"orphan"}
  /\ UNCHANGED <<cfg, limit, elapsed, phase, timeout, promised, age, past>>

-----------------------------------------------------------------------------
(* The driver's life, and the machine's.                                   *)

(* ug_cs201x_probe, of a module loaded afresh or of a device bound again.  *)
(* The static wdt_dev keeps the bit of a watchdog that was active, so the  *)
(* core will not start it when it is opened, but the timer is disabled.    *)
ug_cs201x_probe ==
  /\ phase' = "loaded"
  /\ Wdt_init(DEFAULT_TIMEOUT)
  /\ timeout' = DEFAULT_TIMEOUT
  /\ promised' = DEFAULT_TIMEOUT
  /\ age' = 0
  /\ past' = IF Active THEN {"stale"} ELSE {}
  /\ UNCHANGED status

Load == phase = "gone" /\ ug_cs201x_probe
Bind == phase = "unbound" /\ ug_cs201x_probe

StopInterrupted ==
  /\ past' = past \cup {"stranded"}
  /\ UNCHANGED <<cfg, limit, elapsed, timeout, promised, age>>

(* Leaving alone a watchdog that the core does not call active.            *)
StopIfActive == IF Active THEN wdt_stop \/ StopInterrupted ELSE Nothing

(* ug_cs201x_remove stops the timer and does not look at the result.       *)
ug_cs201x_remove == wdt_stop \/ StopInterrupted

(* Through sysfs the device is unbound whoever has it open, and processes  *)
(* reach it until it is unregistered.                                      *)
Unbind ==
  /\ Running
  /\ phase' = "unbinding"
  /\ ug_cs201x_remove
  /\ UNCHANGED status

Unregister ==
  /\ phase = "unbinding"
  /\ phase' = "unbound"
  /\ status' = (status \ {"open", "allow"}) \cup (IF Open THEN {"orphan"} ELSE {})
  /\ UNCHANGED <<cfg, limit, elapsed, timeout, promised, age, past>>

(* An open file holds the module, and none is opened once it is going.     *)
Unused == status \cap {"open", "orphan"} = {}

Exit ==
  /\ Running /\ Unused
  /\ phase' = "exiting"
  /\ ug_cs201x_remove
  /\ UNCHANGED status

Unload ==
  /\ phase = "exiting" \/ (phase = "unbound" /\ Unused)
  /\ phase' = "gone"
  /\ status' = {}
  /\ UNCHANGED <<cfg, limit, elapsed, timeout, promised, age, past>>

(* watchdog_stop_on_reboot: the notifier stops an active watchdog, as long *)
(* as the device is registered.                                            *)
Registered == Served \/ phase = "exiting"

Shutdown ==
  /\ Registered /\ Active
  /\ phase' = "down"
  /\ wdt_stop \/ StopInterrupted
  /\ UNCHANGED status

ShutdownIdle ==
  /\ phase \notin {"down", "reset"} /\ ~ (Registered /\ Active)
  /\ phase' = "down"
  /\ UNCHANGED <<cfg, limit, elapsed, status, timeout, promised, age, past>>

(* Time passes, and the timer expires.                                     *)
Pass(d) ==
  /\ phase # "reset" /\ cfg = 0
  /\ age' = Least(age + d, promised)
  /\ UNCHANGED <<cfg, limit, elapsed, phase, status, timeout, promised, past>>

Count(d) ==
  /\ phase # "reset" /\ cfg = 1 /\ elapsed + d < limit
  /\ age' = Least(age + d, promised)
  /\ elapsed' = elapsed + d
  /\ UNCHANGED <<cfg, limit, phase, status, timeout, promised, past>>

Bite(d) ==
  /\ phase # "reset"
  /\ cfg = 1 /\ elapsed + d >= limit
  /\ phase' = "reset"
  /\ age' = Least(age + d, promised)
  /\ elapsed' = limit
  /\ UNCHANGED <<cfg, limit, status, timeout, promised, past>>

(* A machine that was reset or has been shut down starts without the       *)
(* driver.                                                                 *)
Boot ==
  /\ phase \in {"reset", "down"}
  /\ phase' = "gone"
  /\ cfg' = 0 /\ elapsed' = 0
  /\ status' = {}
  /\ age' = 0
  /\ past' = past \cap {"failed"}
  /\ UNCHANGED <<limit, timeout, promised>>

-----------------------------------------------------------------------------

Init ==
  /\ cfg = 0 /\ limit = 0 /\ elapsed = 0
  /\ phase = "gone"
  /\ status = {}
  /\ timeout = 0 /\ promised = 0 /\ age = 0
  /\ past = {}

Process ==
  \/ OpenIdle \/ OpenActive \/ Enable \/ Disable
  \/ Write \/ WriteMagic \/ ReleaseStopping \/ Release \/ ReleaseOrphan
  \/ \E t \in Requests :
       \/ SetTimeout(t) \/ SetTimeoutStopped(t)
       \/ SetTimeoutUnfed(t) \/ SetTimeoutInterrupted(t)

Machine ==
  \/ Load \/ Bind \/ Unbind \/ Unregister \/ Exit \/ Unload
  \/ Shutdown \/ ShutdownIdle \/ Boot

Time == \E d \in Lapses : Pass(d) \/ Count(d) \/ Bite(d)

Next == Process \/ Machine \/ Time

Spec == Init /\ [][Next]_vars

FairSpec == Spec /\ WF_vars(Time)

-----------------------------------------------------------------------------
(* Properties.                                                             *)

(* The timer's two bytes, the core's bits and the clocks have their types. *)
TypeOK ==
  /\ cfg \in {0, 1} /\ elapsed \in Nat
  /\ limit \in Nat /\ limit < 65536
  /\ phase \in {"gone", "loaded", "unbinding", "exiting", "unbound", "down", "reset"}
  /\ status \subseteq {"open", "active", "allow", "orphan"}
  /\ timeout \in Nat /\ promised \in Nat /\ age \in Nat
  /\ past \subseteq {"rearmed", "failed", "stranded", "late", "stale"}

(* The timer runs at least as long as the replies of the driver let the    *)
(* process count on: after a failed request (wdd->timeout is stored before *)
(* the wait that failed) the shorter of the old and the new timeout.  If   *)
(* the last request did not fail it runs as long as the core says.         *)
TimerCoversPromise ==
  limit >= promised /\ ("failed" \notin past => limit = timeout)

(* A process that feeds the watchdog in time is never reset, through       *)
(* interrupted calls, changes of the timeout, other processes that died    *)
(* with the device open, and unbinding, binding and reloading the driver.  *)
NoEarlyReset == phase = "reset" => age >= promised

(* What the core calls active is armed, and while the driver is bound the  *)
(* timer runs for nobody else, with two exceptions the code makes:         *)
(* wdt_set_timeout enables the timer of a watchdog that had been stopped,  *)
(* and Wdt_init disables the timer of one that was active when the driver  *)
(* was unbound, until it is started or pinged again.                       *)
CoreKnowsTheTimer ==
  Running => /\ Active => cfg = 1 \/ "stale" \in past
             /\ cfg = 1 => Active \/ "rearmed" \in past

(* The timer is left running behind a driver whose module goes only if a   *)
(* signal interrupted the stop (whose result remove ignores).  Behind a    *)
(* driver that was unbound it also runs on when a process that had the     *)
(* device open armed it between the stop and the unregistering; behind a   *)
(* machine that goes down also for a timeout set on a stopped watchdog,    *)
(* which the notifier does not see.                                        *)
StoppedInTheEnd ==
  cfg = 1 =>
    /\ phase = "exiting" => "stranded" \in past
    /\ phase \in {"unbinding", "unbound", "gone"} => {"stranded", "late"} \cap past # {}
    /\ phase = "down" => {"stranded", "late", "rearmed"} \cap past # {}

(* With an active watchdog a process that died or hangs does not leave the *)
(* machine hanging: the timer resets it if nobody feeds it any more.  One  *)
(* that is only still called active after an unbind does not count.        *)
HungMachineIsReset ==
  ~ <>[](Running /\ Active /\ "stale" \notin past /\ age > 0)

=============================================================================
