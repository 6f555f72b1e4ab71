-------------------------- MODULE LedDaemonProofs --------------------------
(***************************************************************************)
(* Two requests of the daemon bring the LED and the driver's cache         *)
(* together again, for a LED of either kind and whatever ugreen_leds_cli   *)
(* writes.                                                                 *)
(***************************************************************************)
EXTENDS LedDaemon, LedDriverProofs

Switches(v) == Mode(v, 0, 0)

Asking == pc[Daemon] = "asked"

Stages == {"start", "primed", "color", "loop", "dead"}

(* The daemon asks for what it remembers, the worker switches on or off,   *)
(* and only the daemon gives colours.                                      *)
Orderly ==
  /\ phase \in {"registered", "reset", "live"} => ~ flag
  /\ value \in {0, 1}
  /\ pc[Worker] # "asked"
  /\ pc[Worker] # "idle" => task[Worker] \in {Switches(0), Switches(1)}
  /\ Asking => task[Daemon] = Switches(led_state)
  /\ pc[Daemon] \in {"check", "write", "store"} => task[Daemon] = Colour(Colour0)

Daemonic ==
  /\ stage \in Stages /\ led_state \in {0, 1} /\ writes \in 0 .. 2
  /\ stage = "start" => writes = 0
  /\ stage = "primed" => led_state = Opposite(Primed)

(* After one request, the cache holds what the daemon remembers, or will.  *)
CacheFollows ==
  phase = "live" /\ writes # 0 /\ ~ Asking =>
    /\ value = led_state
    /\ ~ queued /\ Idle(Worker) => cache.run = led_state
    /\ ~ queued /\ ~ Idle(Worker) => task[Worker] = Switches(led_state)

(* The second request is one the cache does not make the driver skip, and  *)
(* it is alone.                                                            *)
LedFollows ==
  phase = "live" /\ writes = 2 =>
    /\ Asking => ~ queued
    /\ Asking \/ queued => Idle(Worker) /\ cache.run # led_state
    /\ pc[Worker] = "check" => cache.run # led_state
    /\ ~ Asking /\ ~ queued /\ pc[Worker] \in {"idle", "store"}
         => hw.mode = <<led_state, 0, 0>>

DInv == Orderly /\ Daemonic /\ CacheFollows /\ LedFollows

-----------------------------------------------------------------------------
(* Facts about the commands of this LED.                                   *)

LEMMA TwoThreads ==
  /\ Threads = {Daemon, Worker} /\ Daemon # Worker
  /\ Users = {Daemon} /\ Daemon # NoOne
BY DaemonAssumption, LedAssumption DEF Threads

LEMMA Switching ==
  ASSUME NEW v \in {0, 1}
  PROVE  /\ do_brightness_set(v) = Switches(v)
         /\ Requested(Switches(v)) = v
         /\ Switches(v).facet = "mode"
         /\ AlreadySet(Switches(v)) <=> cache.run = v
         /\ Programmed(Switches(v)) = <<v, 0, 0>>
<1> USE DEF Switches, Mode
<1>1. do_brightness_set(v) = Switches(v)
  BY DEF do_brightness_set, LED_OFF, LED_ON
<1>2. Requested(Switches(v)) = v /\ Switches(v).facet = "mode"
  BY DEF Requested
<1>3. AlreadySet(Switches(v)) <=> cache.run = v
  BY DEF AlreadySet, RUN_STATE_BLINK, RUN_STATE_BREATH
<1>4. Programmed(Switches(v)) = <<v, 0, 0>>
  BY Arithmetic DEF Programmed
<1> QED
  BY <1>1, <1>2, <1>3, <1>4

LEMMA SwitchRemembered ==
  ASSUME TypeOK, NEW v \in {0, 1}
  PROVE  Remembered(Switches(v)).run = v
BY DEF Switches, Mode, Remembered, RememberedMode

LEMMA ColourRemembered ==
  ASSUME TypeOK
  PROVE  /\ Colour(Colour0).facet = "color"
         /\ Remembered(Colour(Colour0)).run = cache.run
BY DEF Colour, Remembered, TypeOK

LEMMA SwitchesDiffer == Switches(0) # Switches(1)
BY DEF Switches, Mode

-----------------------------------------------------------------------------
(* Every step of the composition is one of the driver's, or one of the two *)
(* things that happen to the LED behind its back.                          *)

LEMMA DriverOrWorld ==
  ASSUME Daemonic, [DaemonNext]_dvars
  PROVE  [Next]_vars \/ Reload \/ Tamper
<1> USE TwoThreads, DaemonAssumption
<1>1. ASSUME NEW v, set_led(v), v \in {0, 1} PROVE Next
  BY <1>1 DEF set_led, Next, Store, LED_OFF, LED_ON
<1>2. CASE DaemonRuns
  <2>1. Opposite(Primed) \in {0, 1} /\ Primed \in {0, 1} /\ Opposite(led_state) \in {0, 1}
    BY DEF Opposite, LED_OFF, LED_ON, Daemonic
  <2>2. CASE Prime
    BY <1>1, <2>1, <2>2 DEF Prime
  <2>3. CASE PrimeAgain
    BY <1>1, <2>1, <2>3 DEF PrimeAgain
  <2>4. CASE Toggle
    BY <1>1, <2>1, <2>4 DEF Toggle
  <2>5. CASE set_color
    BY <2>5 DEF set_color, Next, Store
  <2> QED
    BY <1>2, <2>2, <2>3, <2>4, <2>5 DEF DaemonRuns
<1>3. CASE InDriver
  BY <1>3 DEF InDriver, Next
<1> QED
  BY <1>2, <1>3 DEF DaemonNext, NoSuchLed, Die, Restart, Loading, Next, dvars

LEMMA DriverTyped ==
  ASSUME Typed, Daemonic, [DaemonNext]_dvars
  PROVE  Typed'
<1>1. CASE [Next]_vars
  BY <1>1, TypedNext
<1>2. CASE Reload
  <2>1. /\ cache' \in [run : 0 .. 3, blink : Int \X Int, breath : Int \X Int,
                       light : 0 .. 255, color : 0 .. 5]
        /\ value' \in 0 .. LED_BRIGHTNESS_MAX
    BY <1>2 DEF Reload, LED_OFF, COLOR_NONE, LED_BRIGHTNESS_MAX
  <2>2. mixed' \subseteq Threads /\ trusted' \subseteq Facets
    BY <1>2 DEF Reload, Facets
  <2>3. queued' \in BOOLEAN /\ flag' \in BOOLEAN
    BY <1>2, Zenon DEF Reload
  <2> QED
    BY <1>2, <2>1, <2>2, <2>3, Zenon DEF Reload, Typed, TypeOK, TasksArePlain, Plain
<1>3. CASE Tamper
  <2>1. hw' \in [mode : (0 .. 3) \X (0 .. 255) \X (0 .. 255),
                 light : {<<b>> : b \in 0 .. 255}, color : {<<c>> : c \in 0 .. 5}]
    BY <1>3, DaemonAssumption DEF Tamper, Typed, TypeOK
  <2>2. mixed' \subseteq Threads /\ trusted' \subseteq Facets
    BY <1>3 DEF Tamper, Updating, Typed, TypeOK
  <2> QED
    BY <1>3, <2>1, <2>2, Zenon DEF Tamper, Typed, TypeOK, TasksArePlain, Plain
<1> QED
  BY <1>1, <1>2, <1>3, DriverOrWorld

-----------------------------------------------------------------------------
(* The invariant, step by step.                                            *)

Follows == Orderly /\ CacheFollows /\ LedFollows

LEMMA SetLedFollows ==
  ASSUME Typed, DInv, NEW v \in {0, 1}, set_led(v), writes # 0 => Slept /\ v # led_state
  PROVE  Follows' /\ led_state' = v /\ writes' \in 1 .. 2
<1> USE TwoThreads DEF set_led, StoreBrightness
<1>1. led_state' = v /\ writes' \in 1 .. 2 /\ (writes' = 2 => writes # 0)
  BY DEF DInv, Daemonic
<1>2. do_brightness_set(v) = Switches(v)
  BY Switching
<1>3. CASE UNCHANGED <<pc, task, access>> /\ flag
  BY <1>3 DEF DInv, Orderly, Follows, CacheFollows, LedFollows, Asking, Idle
<1>4. CASE ~ flag /\ pc' = [pc EXCEPT ![Daemon] = "asked"]
           /\ task' = [task EXCEPT ![Daemon] = Switches(v)]
  <2>1. pc'[Daemon] = "asked" /\ task'[Daemon] = Switches(v)
        /\ pc'[Worker] = pc[Worker] /\ task'[Worker] = task[Worker]
    BY <1>4 DEF Typed, TypeOK
  <2>2. Orderly'
    BY <1>1, <1>4, <2>1 DEF DInv, Orderly, Asking
  <2>3. CacheFollows'
    BY <2>1 DEF CacheFollows, Asking
  <2>4. LedFollows'
    BY <1>1, <2>1 DEF LedFollows, DInv, CacheFollows, Asking, Slept, Idle
  <2> QED
    BY <1>1, <2>2, <2>3, <2>4 DEF Follows
<1> QED
  BY <1>1, <1>2, <1>3, <1>4

LEMMA DaemonRunsFollows ==
  ASSUME Typed, DInv, DaemonRuns
  PROVE  Follows' /\ Daemonic'
<1> USE TwoThreads, DaemonAssumption DEF Stages
<1>1. Opposite(Primed) \in {0, 1} /\ Primed \in {0, 1} /\ Opposite(led_state) \in {0, 1}
      /\ Opposite(led_state) # led_state /\ Opposite(Primed) # Primed
  BY DEF Opposite, LED_OFF, LED_ON, DInv, Daemonic
<1>2. CASE Prime
  BY <1>1, <1>2, SetLedFollows DEF Prime, DInv, Daemonic
<1>3. CASE PrimeAgain
  BY <1>1, <1>3, SetLedFollows DEF PrimeAgain, DInv, Daemonic
<1>4. CASE Toggle
  BY <1>1, <1>4, SetLedFollows DEF Toggle, DInv, Daemonic
<1>5. CASE set_color
  <2>1. Daemonic'
    BY <1>5 DEF set_color, DInv, Daemonic
  <2>2. /\ UNCHANGED <<hw, cache, value, queued, flag, phase, led_state, writes>>
        /\ pc[Daemon] = "idle" /\ pc'[Daemon] \in {"idle", "check"}
        /\ pc'[Daemon] = "check" => task'[Daemon] = Colour(Colour0)
        /\ pc'[Worker] = pc[Worker] /\ task'[Worker] = task[Worker]
    BY <1>5 DEF set_color, StoreColour, Begin, Idle, Typed, TypeOK
  <2> QED
    BY <2>1, <2>2 DEF Follows, DInv, Orderly, CacheFollows, LedFollows, Asking, Idle
<1> QED
  BY <1>2, <1>3, <1>4, <1>5 DEF DaemonRuns

LEMMA ReturnEnds ==
  ASSUME Typed, NEW t \in Threads, Return(t)
  PROVE  /\ pc'[t] = "idle"
         /\ \A u \in Threads \ {t} : pc'[u] = pc[u] /\ task'[u] = task[u]
BY DEF Return, Typed, TypeOK

LEMMA WorkerFollows ==
  ASSUME Typed, DInv, StartWork \/ Continue(Worker), UNCHANGED <<stage, led_state, writes>>
  PROVE  Follows'
<1> USE TwoThreads DEF DInv, Orderly, Daemonic, Follows, CacheFollows, LedFollows, Asking, Idle
<1>0. \A v \in {0, 1} :
        /\ do_brightness_set(v) = Switches(v)
        /\ Switches(v).facet = "mode"
        /\ AlreadySet(Switches(v)) <=> cache.run = v
        /\ Programmed(Switches(v)) = <<v, 0, 0>>
        /\ Remembered(Switches(v)).run = v
  BY Switching, SwitchRemembered DEF Typed
<1>1. CASE StartWork
  <2>1. /\ queued /\ ~ queued'
        /\ UNCHANGED <<hw, cache, value, flag, phase>>
        /\ pc'[Daemon] = pc[Daemon] /\ task'[Daemon] = task[Daemon]
        /\ pc[Worker] = "idle"
        /\ ~ flag => pc'[Worker] = "check" /\ task'[Worker] = Switches(value)
        /\ pc'[Worker] # "idle" => pc'[Worker] = "check" /\ task'[Worker] = Switches(value)
    BY <1>0, <1>1 DEF StartWork, Begin, Typed, TypeOK
  <2> QED
    BY <2>1
<1>2. CASE CheckCache(Worker)
  <2>1. /\ UNCHANGED <<hw, cache, value, queued, flag, phase>>
        /\ pc[Worker] = "check"
        /\ pc'[Daemon] = pc[Daemon] /\ task'[Daemon] = task[Daemon]
        /\ \/ pc'[Worker] = "idle" /\ (AlreadySet(task[Worker]) \/ flag)
           \/ pc'[Worker] = "write" /\ task'[Worker] = task[Worker]
    BY <1>2, ReturnEnds DEF CheckCache, Typed, TypeOK
  <2> QED
    BY <1>0, <2>1, SwitchesDiffer
<1>3. CASE Program(Worker)
  <2>1. /\ UNCHANGED <<cache, value, queued, flag, phase, task>>
        /\ pc[Worker] = "write" /\ pc'[Worker] = "store" /\ pc'[Daemon] = pc[Daemon]
        /\ hw'[task[Worker].facet] = Programmed(task[Worker])
    BY <1>0, <1>3 DEF Program, Typed, TypeOK
  <2> QED
    BY <1>0, <2>1
<1>4. CASE UpdateCache(Worker)
  <2>1. /\ UNCHANGED <<hw, value, queued, flag, phase>>
        /\ pc[Worker] = "store" /\ pc'[Worker] = "idle"
        /\ pc'[Daemon] = pc[Daemon] /\ task'[Daemon] = task[Daemon]
        /\ cache' = Remembered(task[Worker])
    BY <1>4, ReturnEnds DEF UpdateCache
  <2> QED
    BY <1>0, <2>1
<1> QED
  BY <1>1, <1>2, <1>3, <1>4 DEF Continue

LEMMA ColouringFollows ==
  ASSUME Typed, DInv, UNCHANGED <<stage, led_state, writes>>,
         ScheduleWork(Daemon) \/ ProgramInterrupted(Daemon) \/ Continue(Daemon)
  PROVE  Follows'
<1> USE TwoThreads DEF DInv, Orderly, Daemonic, Follows, CacheFollows, LedFollows, Asking, Idle
<1>1. CASE ScheduleWork(Daemon)
  <2>1. /\ UNCHANGED <<hw, cache, flag, phase>>
        /\ pc[Daemon] = "asked" /\ pc'[Daemon] = "idle"
        /\ pc'[Worker] = pc[Worker] /\ task'[Worker] = task[Worker]
        /\ value' = led_state /\ queued'
    BY <1>1, ReturnEnds, Switching DEF ScheduleWork
  <2> QED
    BY <2>1
<1>2. CASE ProgramInterrupted(Daemon) \/ CheckCache(Daemon)
  <2>1. /\ UNCHANGED <<hw, cache, value, queued, flag, phase>>
        /\ pc[Daemon] \in {"check", "write"}
        /\ pc'[Worker] = pc[Worker] /\ task'[Worker] = task[Worker]
        /\ \/ pc'[Daemon] = "idle"
           \/ pc'[Daemon] = "write" /\ task'[Daemon] = task[Daemon]
    BY <1>2, ReturnEnds DEF ProgramInterrupted, CheckCache, Typed, TypeOK
  <2> QED
    BY <2>1
<1>3. CASE Program(Daemon)
  <2>1. /\ UNCHANGED <<cache, value, queued, flag, phase, task>>
        /\ pc[Daemon] = "write" /\ pc'[Daemon] = "store" /\ pc'[Worker] = pc[Worker]
        /\ hw'.mode = hw.mode
    BY <1>3, ColourRemembered DEF Program, Typed, TypeOK
  <2> QED
    BY <2>1
<1>4. CASE UpdateCache(Daemon)
  <2>1. /\ UNCHANGED <<hw, value, queued, flag, phase>>
        /\ pc[Daemon] = "store" /\ pc'[Daemon] = "idle"
        /\ pc'[Worker] = pc[Worker] /\ task'[Worker] = task[Worker]
        /\ cache'.run = cache.run
    BY <1>4, ReturnEnds, ColourRemembered DEF UpdateCache, Typed
  <2> QED
    BY <2>1
<1> QED
  BY <1>1, <1>2, <1>3, <1>4 DEF Continue

LEMMA DisturbedFollows ==
  ASSUME Typed, DInv, Loading \/ Reload \/ Tamper
  PROVE  Follows' /\ Daemonic'
<1> USE TwoThreads DEF DInv, Orderly, Daemonic, Follows, CacheFollows, LedFollows, Asking
<1>1. writes' = 0 /\ UNCHANGED <<stage, led_state, pc, task>>
  BY DEF Loading, Reload, Tamper, Module, InitLedsStats, InitLeds, InitLedsInterrupted,
         SetRemoved, CancelWork, Unregister
<1>2. /\ value' \in {0, 1}
      /\ phase' \in {"registered", "reset", "live"} => ~ flag'
  BY DEF Loading, Reload, Tamper, Module, InitLedsStats, InitLeds, InitLedsInterrupted,
         SetRemoved, CancelWork, Unregister
<1> QED
  BY <1>1, <1>2

LEMMA DInvNext == Typed /\ DInv /\ [DaemonNext]_dvars => DInv'
<1> SUFFICES ASSUME Typed, DInv, [DaemonNext]_dvars PROVE Follows' /\ Daemonic'
  BY DEF DInv, Follows
<1>1. CASE DaemonRuns
  BY <1>1, DaemonRunsFollows
<1>2. CASE InDriver
  <2>1. Daemonic'
    BY <1>2 DEF InDriver, DInv, Daemonic
  <2> QED
    BY <1>2, <2>1, TwoThreads, WorkerFollows, ColouringFollows DEF InDriver
<1>3. CASE Loading \/ Reload \/ Tamper
  BY <1>3, DisturbedFollows
<1>4. CASE NoSuchLed \/ Die \/ Restart \/ UNCHANGED dvars
  <2>1. UNCHANGED <<vars, led_state>> /\ writes' \in {0, writes}
        /\ stage' \in {stage, "dead", "start"} /\ (stage' = "start" => writes' = 0)
    BY <1>4 DEF NoSuchLed, Die, Restart, dvars, DInv, Daemonic
  <2>2. UNCHANGED <<hw, cache, value, queued, pc, task, flag, phase>>
    BY <2>1 DEF vars
  <2> QED
    BY <2>1, <2>2 DEF DInv, Orderly, Daemonic, Follows, CacheFollows, LedFollows, Asking,
       Idle, Stages
<1> QED
  BY <1>1, <1>2, <1>3, <1>4 DEF DaemonNext

-----------------------------------------------------------------------------

(* Two requests of the daemon, spaced as prime_led and the polling loop    *)
(* space them, leave the LED showing the second one, whatever had come     *)
(* between the cache and the controller before (a write of                 *)
(* ugreen_leds_cli, a new load of the driver, a daemon that died), for     *)
(* either kind of LED; and the driver's state keeps its types throughout.  *)
THEOREM TwoRequestsAreEnough == DaemonSpec => [](TypeOK /\ TwoRequestsHeal)
<1>1. DaemonInit => Typed /\ DInv
  <2> SUFFICES ASSUME DaemonInit PROVE Typed /\ DInv
    OBVIOUS
  <2>1. Init => IInv
    BY InitGood
  <2>2. Typed
    BY <2>1 DEF DaemonInit, IInv, Typed
  <2>3. DInv
    BY TwoThreads DEF DaemonInit, Init, DInv, Orderly, Daemonic, CacheFollows, LedFollows,
       Asking, Stages, Opposite, LED_OFF
  <2> QED
    BY <2>2, <2>3
<1>2. Typed /\ DInv /\ [DaemonNext]_dvars => (Typed /\ DInv)'
  BY DriverTyped, DInvNext DEF DInv
<1>3. Typed /\ DInv => TypeOK /\ TwoRequestsHeal
  BY Switching DEF Typed, DInv, Daemonic, LedFollows, TwoRequestsHeal, Settled, Shown,
     Asking, Idle
<1> QED
  BY <1>1, <1>2, <1>3, PTL DEF DaemonSpec

=============================================================================
