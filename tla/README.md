# Verification of the DXP2800GT driver and its scripts

TLA+ models of the code under `src/`: the kernel module for the CSCS201X
embedded controller (EC) of the UGREEN DXP2800GT (`driver/ug_201x-hwmon.c`,
`driver/upstream/leds-sio-201x.c`), and the user-space parts around it (the fan
failsafe cron script, the LED daemon, the boot script).
TLC checks small instances; TLAPS proves the main safety properties for every
instance.

## The system

| part | state it keeps | operations | talks to |
|---|---|---|---|
| Host2EC window (`Chipsea_Host2ec_Outb/Inb`) | the four-byte address latch `IMA_ADDR`, the EC's registers | byte write, byte read; five or six port accesses each | shared by everything below |
| `ug_201x_lock` | owner | lock, interruptible lock, unlock | every callback |
| `/proc/it86/{fan,temp,startup}` | none | reads and textual commands | window; `startup` an MMIO word |
| hwmon device | none | read temp/fan/pwm, write pwm | window |
| hardware watchdog | `wdd->timeout`, timer in the EC | start, stop, set_timeout | window, watchdog core |
| LED driver | `cur_state` (a cache), `value`, a work item per LED, `remove_or_shutdown` | brightness, trigger delays, colour, init, remove | window, LED core, workqueue |
| CoolerControl and `coolercontrold-watchdog.sh` | the fans' duty, the script's `HWMON_DIR` | daemon writes, failsafe every two minutes | hwmon sysfs |
| LED daemon | `led_state`, counters | prime, set colours, poll and toggle | LED sysfs |
| boot script | the built module, the installed unit | rebuild, insmod, restore the unit | docker, kernel, systemd |
| preconfiguration | ZFS datasets, migrated files | create, copy | middleware |

What is hard here: everything shares one address latch, so the whole driver
stands on one lock, taken in a dozen places, half of them interruptible with an
early return; the LED driver updates its cache after it gave the lock back, and
requests are coalesced by a work item that races with removal; start and removal
of the module happen while interfaces are live; the user-space parts act on
state (a sysfs directory, a cached LED state, a vermagic string) that may have
changed since they looked.

What makes each part correct: an access reaches its own register, calls are
atomic and end (window and lock); the cache agrees with the hardware, the last
request is shown, and a removed LED is left alone (LEDs); values survive two
scales, and a fan is never stuck when its controller dies (fans). `hazards` in
PROJECT.json lists what can go wrong line by line.

## Modules

### EcCalls, EcBus, EcEffects, EcAtomic, EcRefinement, EcDriver: the window and its lock

`EcCalls` gives the register map and, for each callback of the driver, the steps
it makes: lock, accesses, unlock, with the same function names as the source
(`SetFanDuty`, `fan_read`, `ug201x_hwmon_read`, `wdt_set_timeout`,
`led_blink_or_breath`, `init_leds`, ...). Addresses are pairs of bytes because the upper half
of every register is 0x2000: writing it changes nothing any access can see, so
those two port writes, and `IMA_CTRL`, which is always 0, are left out.

`EcBus` runs those programs on any number of threads. A thread is a user process
inside a callback or the LED worker. One port write or read is one step:
`AddressHi`, `AddressLo`, then `Outb` or `Inb`. `AcquireLock` serves
`mutex_lock` and `mutex_lock_interruptible`; `Interrupted` is a signal during the
latter: the function that asked returns an error and its caller goes on behind
it. (The worker gets no signals; letting it is harmless here, it only adds
behaviours.) Sleeps are not steps: any thread may take any time anyway.

`got[t]` holds what thread `t` has read since it last took the lock, step by step.

`EcEffects` says, without any state, what a stretch of a call does to the registers
(`After`: the last write to a register wins) and what its reads see (`Seen`).
`EcAtomic` is what the lock promises: a call happens at one instant, with exactly
these effects. `EcRefinement` maps the window to it. A call takes effect when it
takes the lock; while it holds it, the abstract registers (`Settled`) are those that
will be there when the accesses ahead of it have been made, and its abstract answer
(`Answer`) is what it has read completed by what it is going to read.

`EcDriver` puts the calls of the driver on the window (`DriverCall`: every
interface with every argument it lets through) and says what users can count on:
`OnlyLegalValues`, and `SettingsAreWhole` for the registers that mean something
only together (the channels of a colour, a mode with its period and duty, the two
bytes of the watchdog's timeout).

### LedDriver: one LED

The four LEDs share only the lock and the removal flag, so one is modelled.
Programming the EC under the lock is one step, which is what EcRefinement
justifies. State: `hw` is what the EC was last given, per facet (mode with its
times, light level, colour), `cache` is `cur_state`, `value` and `queued` are the
work item, `trigger` and `access` belong to the LED core (`led_access` is held by
the brightness and trigger stores; delay and colour stores run without it). A
request goes through `check` (compare with the cache), `write` (under the lock)
and `store` (update the cache), as the code does; `asked` is a brightness request
between the removal check and `schedule_work`. The worker runs `mcu_work`.
`InitLedsStats` and `InitLeds` run after the attributes exist, `SetRemoved`,
`CancelWork`, `Unregister` are `ug_201_leds_remove`. What the LED core does
(removing a trigger requests brightness 0, selecting one asks for blinking with
delays 0, deleting its attributes waits for their stores) is taken from the
kernel interface the driver is written against.

`mixed` and `trusted` are history variables. An update of a facet is mixed when
another update of the same facet had programmed the EC and not yet updated the
cache. The code really can lose the race of two such updates, in the window
between `mutex_unlock` and `atomic_set`, so `CacheIsReal` claims agreement only
for facets whose last update ran alone. It is about everything else that could
break the cache: signals, skipped requests, coalesced work and triggers. What the
start of the module does to a store that overlaps it, or a signal to `init_leds`, is
left out of `trusted` too; `TwoRequestsHeal` (below) is about putting that right.

Numbers keep their width. The registers are bytes (`Programmed`), a delay is an
`unsigned long` and the cache keeps it in an `int` (`AsInt`, read back by `AsLong`).
`IntLimit` and `LongLimit` stand for 2^31 and 2^64; TLC gets smaller ones in the
same relation, because its integers have 32 bits. From 2^31 ms on the cache does
not hold what it is given, and `CacheIsReal` is stated for delays that fit
(`DelaysFit`): all that is checked, and the hypothesis of the theorem.

### FanControl: who sets the fans

`duty` are the EC's duty registers in percent; `ToDuty` and `ToPwm` are the two
conversions of `SetFanDuty` and `ug201x_hwmon_read`. The CoolerControl daemon
writes when it runs, an operator may write through /proc, the driver may be
unloaded and loaded and then has another hwmon directory or none (a failed
registration is not fatal). The cron script is modelled statement by statement
that matters: the API check, the lookup of the directory, and one write per
channel, each of which may find the directory gone.

### Watchdog: the timer and the kernel's watchdog core

The timer (`cfg`, `limit`, `elapsed`) is what the controller has in `WDT_CFG2`
and the two timeout bytes, and what it has counted; `timeout` is `wdd->timeout`
and `status` holds the core's bits (open, active, magic character seen). The
core serialises the calls on a device, and EcRefinement makes each of the
driver's operations one step. An operation whose wait for the lock is
interrupted changes nothing, except where the code had changed something before
(`SetTimeoutInterrupted`) or ignores the result (`StopInterrupted`). Every write
to the device, and every close without the magic character, is a ping, and as
the driver has no ping operation that is `wdt_start`.

`phase` follows the driver. Unloading (`Exit`, `Unload`) needs the device closed;
unbinding through sysfs (`Unbind`, `Unregister`) does not, and between the stop and
the unregistering processes still reach the device. A file left open across that is
an `orphan`: it holds the module, and every call on it fails. Nothing clears
WDOG_ACTIVE in the static `wdt_dev` when the device is unregistered, so after
`Bind` the core still calls a watchdog active whose timer `Wdt_init` has disabled.

`promised`, `age` and `past` are history: what the replies let the process count
on, the time since it fed the timer, and which exceptional things have happened.
The properties name them where the code does not do better: a timeout set on a
stopped watchdog enables it (`rearmed`), a request failed half-way (`failed`), a stop
was interrupted (`stranded`), a process armed the timer behind the stop of an unbind
(`late`), the core's idea is left from before an unbind (`stale`). A hung machine is
not reset while the watchdog is `stale`, that is until somebody pings it.

### Lifecycle: init, probe, remove, exit

`probe_steps` and `remove_steps` are the statements of the two functions in
order, so a slip in the order is a change of one list. Every step that can fail
has its failure: the super I/O ports are busy, the chip is another one, the
mapping or the registration of the watchdog fails, an entry of /proc cannot be
made, hwmon cannot be registered. Binding and unbinding through sysfs are there
beside loading and unloading, so a second probe meets the static data of the
first. Client processes call whatever is registered, and the worker runs what is
queued; of a callback only the lock and the mapped power register matter here.
Probe and remove take the lock themselves, in `init_leds` and `wdt_stop` (`Binder`
is then its owner), while every interface is live.
Withdrawing an interface first stops new calls and then waits for those that run,
which is what the kernel does for proc entries, LEDs, hwmon and the watchdog.
The AutoPowerOn word (`/proc/it86/startup`) is here because its mapping is.

What the code does not guarantee is excluded by name in the properties: entries
lost when `procfs_create` fails half-way ("stray"), the hwmon device, which devm
unregisters after remove has destroyed the lock, the mapping left by a probe
whose watchdog registration fails, and work for which the 80 ms sleep in
`ug_201_leds_remove` was too short (`slow`: `Settle` does not wait). Such work is
harmless as long as the module stays, since it sees the flag, which is part of
`CallbacksFindWhatTheyUse`. Two things are not followed: what becomes of a work item
that is still queued when `INIT_WORK` initializes it again (it runs or is lost), and
code that runs on in the text of a module that is gone.

### BootScript: after every boot

Each statement of `ug201x-boot.sh` is a step; power may fail between any two
(`Boot`), an update may change the kernel and lose /etc, TrueNAS may give the
script up while its container goes on (`orphan`), and an administrator may run
it again. The container, `insmod`, `cp` and `systemctl` may fail; the script goes on
(it does not use `set -e`), and `failed` remembers what of this run did, so that the
properties can say that the other parts are done all the same. The module file is absent, torn, or built for some kernel; the
vermagic test is a substring search, so `Confusable` says which kernel's name
occurs in which other's vermagic. `lsmod | grep -q` under pipefail may overlook
a loaded module.

### LedDaemon: the activity daemon over LedDriver

EXTENDS `LedDriver` with one user, the daemon. `stage` is where `main` is; a
request after a sleep (`Slept`) finds the work item done, which is what the
comment in `prime_led` asks for. The daemon may die anywhere, ends when its LED's
directory is gone, and is started again by systemd (`Restart`), the driver may be removed and loaded under it, and `Tamper` is
`ugreen_leds_cli` writing the registers without the cache.

## Runs

| run | instance | checks | states |
|---|---|---|---|
| `ec_mixed` | 2 threads, 7 calls over fans, temperatures, colour, LED mode, watchdog | `TypeOK`, `OwnerIsInside`, `AccessReachesItsRegister`, `OnlyLegalValues`, `SettingsAreWhole`, `CallsAreAtomic` | 249536 |
| `ec_crowd` | 3 threads, 4 calls, fairness | `OwnerNeverWaits`, `EveryCallReturns` | 87654 |
| `ec_removal` | 2 threads, a LED call and the remove callback | violation of `AccessReachesItsRegister` | |
| `led_modes` | 2 symmetric processes and the worker, 2 colours, triggers breath and normal, a period that wraps in a byte | `TypeOK`, `CacheIsReal`, `LeftAloneAfterRemoval` | 2944260 |
| `led_liveness` | 1 process and the worker, on, off and one level, trigger timer, fairness | `LastRequestIsShown` | 139905 |
| `led_timer` | 1 process, trigger timer | violation of `TimerDoesNothing` | |
| `fan_control` | 2 directories, 4 values, fairness | `TypeOK`, `ReadBackIsClose`, `NoFanIsStuck` | 4320 |
| `wdt_seconds` | timeouts 20 (refused), 30, 90 and the default, time in steps of 15 and 600 s, fairness | `TypeOK`, `TimerCoversPromise`, `NoEarlyReset`, `CoreKnowsTheTimer`, `StoppedInTheEnd`, `HungMachineIsReset` | 48260 |
| `wdt_hours` | timeouts of 65536 and 983040 s | violation of `NoEarlyReset` | |
| `lifecycle` | 2 processes and the worker, one failing watchdog registration, fairness | `TypeOK`, `ProbeIsAlone`, `CallbacksFindWhatTheyUse`, `NothingBehind`, `PortsAreGivenBack`, `PowerModeIsKept`, `LockIsExclusive`, `OwnerCanGoOn`, `RemovalEnds` | 379238 |
| `boot` | 3 kernels, one name part of another | `TypeOK`, `EndsLoaded`, `UnitIsRestored`, `UsableModuleIsKept` | 8475 |
| `led_daemon` | a disk's LED, 3 modes set behind the driver's back, fairness | `TwoRequestsHeal`, `DaemonComesBack` | 22658 |

Bounds and why they are enough. Two threads are enough for one access to run into
another, and three for a waiter to be overtaken; calls of every shape occur (one
access and several, reads and writes, interruptible and not, refused). The mixed
run has registers whose two low bytes differ in either byte, so a torn address
lands somewhere. In the LED runs two processes and the worker give every overlap
of two updates with a third party; two colours let one differ from the other;
`breath` and `normal` together exercise the clamping and the way back to off. No
run bounds the number of requests: threads call again and again. The values of
the fan run lie at 0, at the top, and where both roundings bite (63, 127).
The watchdog run has a timeout shorter and one longer than the step of time and
one out of range; time since the last feeding is counted only up to what was
promised, which is all the properties ask. In the life cycle two processes can
be in two different interfaces (or the same one) while a third party removes
them; `MaxLost` bounds only the failures that leak a mapping. `FirmwareWord` 6 has
a bit outside the power mode, and a mode (2) that the driver never writes. Three
kernels allow an update, a rollback and a confusable pair; `GiveUp` allows one
abandoned container at a time.

Fairness. A thread in the driver keeps running (weak fairness of its steps), and
the kernel's mutex hands itself over to a waiter it has passed too often (strong
fairness of `AcquireLock`). The workqueue runs what is queued. Cron starts the
script again and again and the script ends. Time passes (`HungMachineIsReset`). A
remove once begun goes on, and like every waiter gets the lock in the end
(`RemovalEnds`; it does not count on the signal that would end its wait). systemd
restarts the LED daemon, which runs on when its sleeps are over (`DaemonComesBack`,
which supposes only that the driver stays and that nothing ends the daemon any more,
not that it is running). Nothing is assumed about users, signals, failures, or
loading and unloading.

`CHECK_DEADLOCK FALSE` is set only for the LED, which really stops when its driver
has been removed.

### Disagreements found

* `ec_removal`: the remove callback writes `ARGB_FLOW_CONTROL` without the lock
  before it withdraws any interface (`ug_201x-hwmon.c:1010`), and so moves the address
  latch under an access in progress. The run ends with one of the two about to access
  the data port while the latch holds the register the other one addressed. The LED daemon's docstring relies on
  every writer being serialised by the lock.
* `led_timer`: that docstring also says the kernel's `timer` trigger silently
  does nothing. `mcu_led_blink_set` has no branch for unknown triggers and
  programs blinking with a period of zero.
* `wdt_hours`: `max_timeout` is 65535 *minutes*, and `wdt_set_timeout` rounds long
  timeouts to minutes, but the timer keeps counting the seconds `Wdt_init`
  selected and has sixteen bits: 65536 s is accepted, reported as 65580 s, and
  expires after 44 s.

## Proofs

* `EcBusProofs`. `TypeCorrect`, and `WindowIsSafe`: for any threads, registers
  and calls, if every call is `Disciplined`, then the lock has exactly the owner
  the programs say, and each access reaches its register. `AccessReachesItsRegister`
  alone is not inductive: that nobody moves the latch needs that whoever is at a
  port holds the lock, so the invariant adds `OwnerIsInside`, and that each thread
  is in a disciplined call, within it or just past its end, and at the first port
  outside an access.
  `LockIsGivenBack`: the owner of the lock is always at a step that needs no other
  thread (`OwnerNeverWaits`), from the same invariant; it is the safety half of
  `EveryCallReturns`, whose other half is fairness.
  `CallsHappenAtOnce` is the refinement `Spec => CallsAreAtomic`, for any calls that
  are one critical section each (`OneSection`; disciplined calls that take the lock
  twice are not atomic). Taking the lock is the abstract step (`AcquireIsDo`), every
  other step a stutter: an access moves an effect from "ahead" to "done"
  (`EffectOfOut`, `EffectOfOther`), giving the lock back has nothing ahead of it
  (`ReleaseIsStutter`), entering and being interrupted touch nothing. Beyond the
  invariant above it needs that the owner's answer so far consists of exactly the
  reads it has passed (`GotSoFar`). `After` is the *latest* write to a register
  rather than a recursion over the steps, so no induction over the call is needed,
  only that a non-empty set of steps has a latest one (`LatestIsMax`, from the
  well-foundedness of the naturals).
  `RegistersHoldWhatCallsWrite`: a register never holds a value that no call writes to
  that register. `GroupsHoldOneCall`: registers of which every call writes all or none
  hold one call's values while the lock is free. Its proof takes one step on the
  atomic calls and is carried over by `CallsHappenAtOnce`.
* `EcCallsProofs`. Every callback, for every argument, is one critical section, writes
  only legal values, and writes registers that belong together together
  (`DriverCallsAreGood`, one lemma per interface, with the arithmetic of duties and
  bytes and the distances between the registers). Hence `DriverWindowIsSafe`,
  `DriverGivesLockBack`, `DriverCallsAreAtomic`, `RegistersAreLegal` and
  `SettingsComeFromOneCall`, with `init_leds` among the calls. The remove callback is the exception, and the run `ec_removal` shows what that means.
* `LedDriverProofs`. `TypeCorrect`, `CacheIsTrusted` and `RemovedLedIsLeftAlone` for
  any processes, levels, colours and triggers; the second supposes that the delays
  fit an int (`DelaysFit`), the others hold for any. `CacheIsTrusted` needs what each
  thread in `store` has programmed (it is still in `hw` unless its update is
  mixed), and that an int is read back as it was stored (`ConversionsAgree`);
  `RemovedLedIsLeftAlone` that after `cancel_work_sync` the worker only ever sees the
  flag, and that unregistering has waited for the stores.
* `FanControlProofs`. `FansAreAsAsked` for every set of values and directories,
  from the arithmetic of the two roundings (`ReadBack`), and
  `WriteBackNeverRaises`: writing back what was read never speeds a fan up and
  slows it down by at most one percent.

* `WatchdogProofs`. `TypeCorrect`, `FedMachineIsNotReset` and `TimerHasAnOwner` for
  every set of timeouts and every way time may pass. `NoEarlyReset` is not
  inductive: the invariant `Timing` adds that the timer's limit covers what was
  promised and that its count is never ahead of the time since it was fed
  (`NotAhead`). It needs `RequestsFit` (no request above 65535 s); `wdt_hours` shows
  that this is needed. `TimerHasAnOwner` needs no such assumption: its two halves
  are inductive together (`Owners`), because each step that arms the timer without the
  core, or leaves it running, leaves its mark in `past`.
* `LifecycleProofs`. `LifecycleIsSafe` for any number of processes and of failing
  registrations. None of the properties is inductive: each follows from where
  probe or remove is, so the invariant says of every lock, mapping, interface,
  callback and queued work item between which step of probe and which step of
  remove it can exist (`Between`, `Position`, `InTime`). `LockIsOwned`: whoever has taken the lock owns it, though every
  binding initializes the lock and `mutex_unlock` does not ask who gives it back
  (`LockIsExclusive`), and the owner needs nobody to give it back (`OwnerCanGoOn`, the
  safety half of `RemovalEnds`). It rests on `InTime`, which has nobody inside when the
  lock is initialized, and on `Ownership`, which says what is left of it once
  `procfs_create` has lost an entry. `PowerModeSurvives` is the arithmetic of
  `AutoPowerOnSet` for every word the firmware may leave.
* `LedDaemonProofs`. `TwoRequestsAreEnough`, over `LedDriverProofs`: a step of the
  composition is one of the driver's, a reload, or a write behind its back
  (`DriverOrWorld`). After one request the cache holds what the daemon remembers,
  or the worker is about to make it so (`CacheFollows`); the second request then
  differs from the cache, so the driver does not skip it (`LedFollows`).
* `BootScriptProofs`. `BootRestores` and `ModuleIsKept` for any kernels. That the
  module is loaded at the end rests on what the run has achieved at each step
  (`Progress`), and only if nothing disturbed it (`Undisturbed`: no build or insmod of its own that
  failed, no other container).

The assumptions are the named ones of the modules (`BusAssumption`,
`LedAssumption`, `FanAssumption`, `WatchdogAssumption`, `LifecycleAssumption`,
`BootAssumption`, `DaemonAssumption`), which TLC evaluates in the runs.

Only model-checked: liveness (`EveryCallReturns`, `LastRequestIsShown`,
`NoFanIsStuck`, `HungMachineIsReset`, `RemovalEnds`, `DaemonComesBack`), which rests on
`ENABLED` and fairness and is out of the prover's reach. Everything else the passing
runs check is also proved.

## Not modelled

`preconfigure.sh` (run once by hand: middleware calls, each behind one test; that an
interrupted copy passes the test of the next run is listed as a hazard),
`app-install.sh`, `coolercontrold-backup.sh` and `docker-compose.yml` (calls to
the middleware, zip and docker with no state of their own), the Makefile, the
patch (it is applied in the modelled file), `upstream/ug_201x.c` (the pristine
original, not built), and dead code (`ug_mutex_trylock`,
`ug_201_leds_shutdown`). Electrical behaviour of the EC, temperatures and fan
curves are outside the code.
