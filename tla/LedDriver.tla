----------------------------- MODULE LedDriver -----------------------------
(***************************************************************************)
(* One front-panel LED of leds-sio-201x.c; the four LEDs share nothing but *)
(* ug_201x_lock and remove_or_shutdown.  The driver keeps a cache of what  *)
(* it last programmed, skips a request the cache already holds, programs   *)
(* the controller under ug_201x_lock, and updates the cache after giving   *)
(* the lock back.  Brightness requests go through a work item; colours and *)
(* blinking are programmed by the process that asks.                       *)
(*                                                                         *)
(* Programming under the lock is one step here: EcRefinement shows that    *)
(* the calls made under the lock are atomic.                               *)
(***************************************************************************)
EXTENDS Integers, FiniteSets

CONSTANTS
  Users,      \* processes writing the LED's sysfs attributes
  Worker,     \* the system workqueue, running mcu_work
  NoOne,
  Lights,     \* brightness requests other than 0 and 1
  Colours,    \* colours requested
  Triggers,   \* LED triggers that may be selected
  Delays,     \* pairs <<delay_on, delay_off>> that may be requested
  IntLimit,   \* 2^31: an int is less, and not less than the negative of it
  LongLimit,  \* 2^64: an unsigned long is less
  FirstState, \* what init_leds_stats puts in run_state: LED_ON for power
  BootMode    \* the mode the firmware leaves the LED in

LED_OFF == 0
LED_ON == 1
RUN_STATE_BLINK == 2
RUN_STATE_BREATH == 3
COLOR_NONE == 0
LED_BRIGHTNESS_MAX == 255

ASSUME LedAssumption ==
  /\ Worker \notin Users /\ NoOne \notin Users \cup {Worker}
  /\ Lights \subseteq 2 .. LED_BRIGHTNESS_MAX
  /\ Colours \subseteq 1 .. 5
  /\ Triggers \subseteq {"timer", "timer2", "breath", "normal"}
  /\ IntLimit \in Nat /\ IntLimit > 1500
  /\ LongLimit \in Nat /\ LongLimit >= 2 * IntLimit
  /\ Delays \subseteq (0 .. LongLimit - 1) \X (0 .. LongLimit - 1)
  /\ FirstState \in {LED_OFF, LED_ON}
  /\ BootMode \in {LED_OFF, LED_ON}

Threads == Users \cup {Worker}
Facets  == {"mode", "light", "color"}

VARIABLES
  hw,      \* what the controller was last given, for each facet
  cache,   \* cur_state
  value,   \* led->value, the brightness the work item is to apply
  queued,  \* the work item is pending
  trigger, \* cdev->trigger
  access,  \* the owner of cdev->led_access
  pc,      \* where each thread is in its request
  task,    \* what it is to program
  flag,    \* remove_or_shutdown
  phase,   \* how far probe and remove have come
  mixed,   \* history: updates another update of the same facet ran into
  trusted  \* history: facets whose last update ran alone

vars == <<hw, cache, value, queued, trigger, access, pc, task, flag, phase,
          mixed, trusted>>

-----------------------------------------------------------------------------
(* What is programmed, and what is remembered of it.                       *)

Mode(run, hight, low) == [facet |-> "mode", to |-> <<run, hight, low>>]
Light(v)  == [facet |-> "light", to |-> <<v>>]
Colour(c) == [facet |-> "color", to |-> <<c>>]

ProgrammedInMilliseconds(cmd) == cmd.to

(* ArgbModeSet is given the times in units of 50 ms, and Outb casts to u8. *)
Programmed(cmd) ==
  IF cmd.facet = "mode"
  THEN <<cmd.to[1], (cmd.to[2] \div 50) % 256, (cmd.to[3] \div 50) % 256>>
  ELSE cmd.to

(* atomic_set keeps an unsigned long as an int; comparing an int with an   *)
(* unsigned long extends its sign.                                         *)
AsInt(d) ==
  IF d < IntLimit THEN d ELSE ((d + IntLimit) % (2 * IntLimit)) - IntLimit

AsLong(n) == IF n < 0 THEN n + LongLimit ELSE n

Kept(times) == <<AsInt(times[1]), AsInt(times[2])>>
Read(times) == <<AsLong(times[1]), AsLong(times[2])>>

(* The requests the cache makes the driver skip.                           *)
AlreadySet(cmd) ==
  \/ cmd.facet = "light" /\ cache.light = cmd.to[1]
  \/ cmd.facet = "color" /\ cache.color = cmd.to[1]
  \/ /\ cmd.facet = "mode"
     /\ cache.run = cmd.to[1]
     /\ cmd.to[1] = RUN_STATE_BLINK  => Read(cache.blink) = <<cmd.to[2], cmd.to[3]>>
     /\ cmd.to[1] = RUN_STATE_BREATH => Read(cache.breath) = <<cmd.to[2], cmd.to[3]>>

RememberedMode(run, times) ==
  [run    |-> run,
   blink  |-> IF run = RUN_STATE_BLINK THEN Kept(times) ELSE cache.blink,
   breath |-> IF run = RUN_STATE_BREATH THEN Kept(times) ELSE cache.breath,
   light  |-> cache.light,
   color  |-> cache.color]

Remembered(cmd) ==
  IF cmd.facet = "mode" THEN RememberedMode(cmd.to[1], <<cmd.to[2], cmd.to[3]>>)
  ELSE IF cmd.facet = "light" THEN [cache EXCEPT !.light = cmd.to[1]]
  ELSE [cache EXCEPT !.color = cmd.to[1]]

(* do_brightness_set: 0 and 1 are modes, anything else a light level.      *)
do_brightness_set(brightness) ==
  IF brightness \in {LED_OFF, LED_ON} THEN Mode(brightness, 0, 0)
  ELSE Light(brightness)

AtLeast(n, min) == IF n < min THEN min ELSE n

(* mcu_led_blink_set: what a trigger's delays turn into, if anything.      *)
Together(on, off) == IF on + off < LongLimit THEN on + off ELSE on + off - LongLimit

Blink(on, off)  == Mode(RUN_STATE_BLINK, Together(on, off), on)
Breath(on, off) == Mode(RUN_STATE_BREATH, Together(on, off), on)

BlinkCommands(name, on, off) ==
  IF name = "normal"
  THEN IF cache.run \in {LED_OFF, LED_ON} THEN {} ELSE {Mode(LED_OFF, 0, 0)}
  ELSE IF name \in {"timer2", "breath"} /\ 0 \in {on, off} THEN {}
  ELSE IF name = "timer2" THEN {Blink(AtLeast(on, 100), AtLeast(off, 100))}
  ELSE IF name = "breath" THEN {Breath(AtLeast(on, 1000), AtLeast(off, 500))}
  ELSE {Blink(on, off)}

-----------------------------------------------------------------------------

Idle(t) == pc[t] = "idle"
NoTask  == Mode(LED_OFF, 0, 0)

Init ==
  /\ hw = [mode |-> <<BootMode, 0, 0>>, light |-> <<255>>, color |-> <<COLOR_NONE>>]
  /\ cache = [run |-> LED_OFF, blink |-> <<0, 0>>, breath |-> <<0, 0>>,
              light |-> 0, color |-> COLOR_NONE]
  /\ value = 0
  /\ queued = FALSE
  /\ trigger = "none"
  /\ access = NoOne
  /\ pc = [t \in Threads |-> "idle"]
  /\ task = [t \in Threads |-> NoTask]
  /\ flag = FALSE
  /\ phase = "registered"
  /\ mixed = {}
  /\ trusted = {"color"}

(* led_classdev_register has made the attributes; led_classdev_unregister  *)
(* takes them away and waits for the stores that are running.              *)
Writable == phase \in {"registered", "reset", "live", "flagged"}

(* The caller goes on to check its request against the cache, or returns.  *)
Begin(t, cmds, held) ==
  /\ Idle(t)
  /\ \/ /\ flag \/ cmds = {}
        /\ UNCHANGED <<pc, task, access>>
     \/ /\ ~ flag
        /\ \E cmd \in cmds : task' = [task EXCEPT ![t] = cmd]
        /\ pc' = [pc EXCEPT ![t] = "check"]
        /\ access' = IF held THEN t ELSE access

Return(t) ==
  /\ pc' = [pc EXCEPT ![t] = "idle"]
  /\ task' = [task EXCEPT ![t] = NoTask]
  /\ access' = IF access = t THEN NoOne ELSE access

(* Nobody is in a store of the trigger's delay attributes.                 *)
NoDelayStore ==
  \A u \in Users : Idle(u) \/ task[u].facet # "mode" \/ access = u

(* brightness_store of the LED core: zero removes the trigger, and then    *)
(* leds_brightness_set.                                                    *)
StoreBrightness(u, v) ==
  /\ Writable /\ Idle(u) /\ access = NoOne
  /\ v = 0 => NoDelayStore
  /\ trigger' = IF v = 0 THEN "none" ELSE trigger
  /\ \/ /\ flag
        /\ UNCHANGED <<pc, task, access>>
     \/ /\ ~ flag
        /\ pc' = [pc EXCEPT ![u] = "asked"]
        /\ task' = [task EXCEPT ![u] = do_brightness_set(v)]
        /\ access' = u
  /\ UNCHANGED <<hw, cache, value, queued, flag, phase, mixed, trusted>>

Requested(cmd) == cmd.to[1]

ScheduleUnlessRunning(u) ==
  /\ pc[u] = "asked"
  /\ value' = Requested(task[u])
  /\ queued' = (queued \/ Idle(Worker))
  /\ Return(u)
  /\ UNCHANGED <<hw, cache, trigger, flag, phase, mixed, trusted>>

ScheduleWork(u) ==
  /\ pc[u] = "asked"
  /\ value' = Requested(task[u])
  /\ queued' = TRUE
  /\ Return(u)
  /\ UNCHANGED <<hw, cache, trigger, flag, phase, mixed, trusted>>

(* trigger_store of the LED core: the old trigger is removed, which        *)
(* requests brightness 0, and the new one asks for blinking with the       *)
(* delays it starts with.                                                  *)
StoreTrigger(u, name) ==
  /\ Writable /\ access = NoOne /\ NoDelayStore
  /\ name # trigger
  /\ trigger' = name
  /\ IF trigger # "none" /\ ~ flag
     THEN value' = 0 /\ queued' = TRUE
     ELSE UNCHANGED <<value, queued>>
  /\ Begin(u, IF name = "none" THEN {} ELSE BlinkCommands(name, 0, 0), TRUE)
  /\ UNCHANGED <<hw, cache, flag, phase, mixed, trusted>>

(* A store to the trigger's delay_on or delay_off, outside led_access.     *)
StoreDelays(u, d) ==
  /\ Writable /\ trigger # "none"
  /\ Begin(u, BlinkCommands(trigger, d[1], d[2]), FALSE)
  /\ UNCHANGED <<hw, cache, value, queued, trigger, flag, phase, mixed, trusted>>

(* color_set.                                                              *)
StoreColour(u, c) ==
  /\ Writable
  /\ Begin(u, {Colour(c)}, FALSE)
  /\ UNCHANGED <<hw, cache, value, queued, trigger, flag, phase, mixed, trusted>>

(* mcu_work: the item leaves the queue before its function runs, and can   *)
(* be queued again while it does.                                          *)
StartWork ==
  /\ queued
  /\ queued' = FALSE
  /\ Begin(Worker, {do_brightness_set(value)}, FALSE)
  /\ UNCHANGED <<hw, cache, value, trigger, flag, phase, mixed, trusted>>

CheckCache(t) ==
  /\ pc[t] = "check"
  /\ IF AlreadySet(task[t]) \/ (t = Worker /\ flag)
     THEN Return(t)
     ELSE pc' = [pc EXCEPT ![t] = "write"] /\ UNCHANGED <<access, task>>
  /\ UNCHANGED <<hw, cache, value, queued, trigger, flag, phase, mixed, trusted>>

(* The updates of a facet that have programmed the controller and not yet  *)
(* updated the cache.                                                      *)
Updating(f) == {t \in Threads : pc[t] = "store" /\ task[t].facet = f}

(* mutex_lock_interruptible, ArgbModeSet / ArgbLightSet / ArgbRgbSet,      *)
(* mutex_unlock.                                                           *)
Program(t) ==
  /\ pc[t] = "write"
  /\ hw' = [hw EXCEPT ![task[t].facet] = Programmed(task[t])]
  /\ pc' = [pc EXCEPT ![t] = "store"]
  /\ mixed' = LET others == Updating(task[t].facet)
              IN  IF others = {} THEN mixed ELSE mixed \cup others \cup {t}
  /\ UNCHANGED <<cache, value, queued, trigger, access, task, flag, phase, trusted>>

(* A signal while waiting for the lock: -EAGAIN, and the cache is left     *)
(* alone.  The worker is a kernel thread and gets no signals.              *)
ProgramInterruptedCached(u) ==
  /\ pc[u] = "write"
  /\ pc' = [pc EXCEPT ![u] = "store"]
  /\ UNCHANGED <<hw, cache, value, queued, trigger, access, task, flag, phase, mixed, trusted>>

ProgramInterrupted(u) ==
  /\ pc[u] = "write"
  /\ Return(u)
  /\ UNCHANGED <<hw, cache, value, queued, trigger, flag, phase, mixed, trusted>>

UpdateCache(t) ==
  /\ pc[t] = "store"
  /\ cache' = Remembered(task[t])
  /\ trusted' = IF t \in mixed THEN trusted \ {task[t].facet}
                ELSE trusted \cup {task[t].facet}
  /\ mixed' = mixed \ {t}
  /\ Return(t)
  /\ UNCHANGED <<hw, value, queued, trigger, flag, phase>>

-----------------------------------------------------------------------------
(* ug_201_leds_init, after the LEDs are registered, and ug_201_leds_remove. *)

InitLedsStats ==
  /\ phase = "registered"
  /\ cache' = [run |-> FirstState, blink |-> cache.blink, breath |-> cache.breath,
               light |-> LED_BRIGHTNESS_MAX, color |-> COLOR_NONE]
  /\ phase' = "reset"
  /\ trusted' = {"color"}
  /\ UNCHANGED <<hw, value, queued, trigger, access, pc, task, flag, mixed>>

(* init_leds programs the mode without its times.                          *)
InitLeds ==
  /\ phase = "reset"
  /\ phase' = "live"
  /\ hw' = [mode |-> <<cache.run, 0, 0>>, light |-> <<cache.light>>, color |-> hw.color]
  /\ mixed' = mixed \cup Updating("mode") \cup Updating("light")
  /\ trusted' = (trusted \ {"mode"}) \cup {"light"}
                \cup (IF cache.run \in {LED_OFF, LED_ON} THEN {"mode"} ELSE {})
  /\ UNCHANGED <<cache, value, queued, trigger, access, pc, task, flag>>

InitLedsInterrupted ==
  /\ phase = "reset"
  /\ phase' = "live"
  /\ UNCHANGED <<hw, cache, value, queued, trigger, access, pc, task, flag, mixed, trusted>>

SetRemoved ==
  /\ phase = "live"
  /\ flag' = TRUE
  /\ phase' = "flagged"
  /\ UNCHANGED <<hw, cache, value, queued, trigger, access, pc, task, mixed, trusted>>

CancelWorkAsync ==
  /\ phase = "flagged"
  /\ queued' = FALSE
  /\ phase' = "cancelled"
  /\ UNCHANGED <<hw, cache, value, trigger, access, pc, task, flag, mixed, trusted>>

(* cancel_work_sync waits for a running mcu_work.                          *)
CancelWork ==
  /\ phase = "flagged"
  /\ Idle(Worker)
  /\ queued' = FALSE
  /\ phase' = "cancelled"
  /\ UNCHANGED <<hw, cache, value, trigger, access, pc, task, flag, mixed, trusted>>

(* Unregistering waits for the stores; its own request for brightness 0    *)
(* ends at the flag.                                                       *)
Unregister ==
  /\ phase = "cancelled"
  /\ \A u \in Users : Idle(u)
  /\ trigger' = "none"
  /\ phase' = "gone"
  /\ UNCHANGED <<hw, cache, value, queued, access, pc, task, flag, mixed, trusted>>

-----------------------------------------------------------------------------

Store(u) ==
  \/ \E v \in {LED_OFF, LED_ON} \cup Lights : StoreBrightness(u, v)
  \/ \E name \in Triggers \cup {"none"} : StoreTrigger(u, name)
  \/ \E d \in Delays : StoreDelays(u, d)
  \/ \E c \in Colours : StoreColour(u, c)

Continue(t) == CheckCache(t) \/ Program(t) \/ UpdateCache(t)

Module == InitLedsStats \/ InitLeds \/ InitLedsInterrupted
          \/ SetRemoved \/ CancelWork \/ Unregister

Next ==
  \/ \E u \in Users : Store(u) \/ ScheduleWork(u) \/ ProgramInterrupted(u)
  \/ \E t \in Threads : Continue(t)
  \/ StartWork
  \/ Module

Spec == Init /\ [][Next]_vars

(* The workqueue runs what is queued, and a thread in the driver goes on.  *)
Fairness ==
  /\ WF_vars(StartWork)
  /\ \A t \in Threads : WF_vars(Continue(t))
  /\ \A u \in Users : WF_vars(ScheduleWork(u))

FairSpec == Spec /\ Fairness

-----------------------------------------------------------------------------
(* Properties.                                                             *)

Command ==
  [facet : {"mode"}, to : (0 .. 3) \X Nat \X Nat]
  \cup [facet : {"light"}, to : {<<v>> : v \in 2 .. LED_BRIGHTNESS_MAX}]
  \cup [facet : {"color"}, to : {<<c>> : c \in 1 .. 5}]

TypeOK ==
  /\ hw \in [mode : (0 .. 3) \X (0 .. 255) \X (0 .. 255),
             light : {<<b>> : b \in 0 .. 255}, color : {<<c>> : c \in 0 .. 5}]
  /\ cache \in [run : 0 .. 3, blink : Int \X Int, breath : Int \X Int,
                light : 0 .. 255, color : 0 .. 5]
  /\ value \in 0 .. LED_BRIGHTNESS_MAX
  /\ queued \in BOOLEAN /\ flag \in BOOLEAN
  /\ trigger \in Triggers \cup {"none"}
  /\ access \in Users \cup {NoOne}
  /\ pc \in [Threads -> {"idle", "asked", "check", "write", "store"}]
  /\ task \in [Threads -> Command]
  /\ phase \in {"registered", "reset", "live", "flagged", "cancelled", "gone"}
  /\ mixed \subseteq Threads /\ trusted \subseteq Facets

(* What the cache says of a facet is what the controller was given.        *)
Times == IF cache.run = RUN_STATE_BLINK THEN Read(cache.blink)
         ELSE IF cache.run = RUN_STATE_BREATH THEN Read(cache.breath)
         ELSE <<0, 0>>

Agrees(f) ==
  /\ f = "mode"  => hw.mode = Programmed(Mode(cache.run, Times[1], Times[2]))
  /\ f = "light" => hw.light = <<cache.light>>
  /\ f = "color" => cache.color = COLOR_NONE \/ hw.color = <<cache.color>>

(* The delays fit an int, with what mcu_led_blink_set makes of them.       *)
DelaysFit == \A d \in Delays : d[1] + d[2] + 1500 < IntLimit

(* cur_state is the real state of the LED (struct led_state) whenever no   *)
(* update is under way, unless the last update of that facet overlapped    *)
(* another one: through coalesced work, skipped requests, signals,         *)
(* triggers and the start of the module.  With delays of 2^31 ms and more, *)
(* which do not fit, the cache would not hold what it was given.           *)
CacheIsReal == \A f \in trusted : Updating(f) = {} => Agrees(f)

(* After ug_201_leds_remove has returned nothing programs the LED any      *)
(* more, even if a request was on its way to schedule_work when the flag   *)
(* was set.                                                                *)
LeftAloneAfterRemoval == [][phase = "gone" => UNCHANGED hw]_vars

(* A brightness request that no later one replaces reaches the controller, *)
(* however requests are coalesced: mcu_work may skip it only because the   *)
(* controller already shows it.                                            *)
Shown(v) == hw[do_brightness_set(v).facet] = Programmed(do_brightness_set(v))

LastRequestIsShown ==
  \A v \in {LED_OFF, LED_ON} \cup Lights :
    /\ <>(phase = "live" /\ value = v /\ queued)
    /\ <>[](/\ phase = "live" /\ trigger = "none" /\ value = v
            /\ do_brightness_set(v).facet \in trusted)
    => <>[]Shown(v)

(* The daemon's docstring: writing the standard "timer" trigger silently   *)
(* does nothing.                                                           *)
TimerDoesNothing == trigger = "timer" => hw.mode[1] # RUN_STATE_BLINK

=============================================================================
