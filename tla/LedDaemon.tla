----------------------------- MODULE LedDaemon -----------------------------
(***************************************************************************)
(* ugreen-led-activity.py and its systemd unit on top of LedDriver, for    *)
(* one LED: the daemon primes it, gives it its colour and then toggles it  *)
(* with the activity it sees.  The driver may be unloaded and loaded under *)
(* it, ugreen_leds_cli may write the controller behind the driver's back,  *)
(* and the daemon may die at any moment and is started again.              *)
(***************************************************************************)
EXTENDS LedDriver

CONSTANTS
  Daemon,
  Primed,   \* what the LED is primed to: 1 for power, 0 for the others
  Colour0,  \* its entry in LED_COLORS
  Modes     \* what ugreen_leds_cli may set

ASSUME DaemonAssumption ==
  /\ Users = {Daemon}
  /\ Primed \in {LED_OFF, LED_ON} /\ Colour0 \in Colours
  /\ Modes \subseteq (0 .. 3) \X (0 .. 255) \X (0 .. 255)

VARIABLES
  stage,     \* where the daemon is in main()
  led_state, \* what it last wrote
  writes     \* history: brightness requests, up to two, of this run of the
             \* daemon and since the driver or the LED was last disturbed

dvars == <<vars, stage, led_state, writes>>

-----------------------------------------------------------------------------
(* The daemon.  Every brightness request is followed by half a second,     *)
(* time.sleep(0.5) or POLL_INTERVAL, "well past normal workqueue           *)
(* scheduling latency": the work item has run.                             *)

Opposite(v) == 1 - v

NoSleep == Idle(Daemon)
Slept   == Idle(Daemon) /\ ~ queued /\ Idle(Worker)

(* Opens the brightness file, writes, closes.                              *)
set_led(v) ==
  /\ StoreBrightness(Daemon, v)
  /\ led_state' = v
  /\ writes' = IF writes = 0 THEN 1 ELSE 2

Prime ==
  /\ stage = "start" /\ Idle(Daemon)
  /\ set_led(Opposite(Primed))
  /\ stage' = "primed"

PrimeAgain ==
  /\ stage = "primed" /\ Slept
  /\ set_led(Primed)
  /\ stage' = "color"

set_color ==
  /\ stage = "color" /\ Slept
  /\ StoreColour(Daemon, Colour0)
  /\ stage' = "loop"
  /\ UNCHANGED <<led_state, writes>>

(* want_on differs from led_state.  The power LED is left alone.           *)
Toggle ==
  /\ stage = "loop" /\ Slept /\ Primed = LED_OFF
  /\ set_led(Opposite(led_state))
  /\ UNCHANGED stage

(* The LED's directory is not there: the OSError ends the daemon.          *)
NoSuchLed ==
  /\ stage # "dead" /\ Idle(Daemon) /\ ~ Writable
  /\ stage' = "dead"
  /\ UNCHANGED <<vars, led_state, writes>>

(* A counter that cannot be read at the start, a signal.                   *)
Die ==
  /\ stage # "dead"
  /\ stage' = "dead"
  /\ UNCHANGED <<vars, led_state, writes>>

(* Restart=on-failure, where being killed is none.                         *)
RestartOnFailure ==
  /\ stage = "dead" /\ Idle(Daemon) /\ ~ Writable
  /\ stage' = "start"
  /\ writes' = 0
  /\ UNCHANGED <<vars, led_state>>

(* Restart=always; what the dead process had begun in the kernel is over.  *)
Restart ==
  /\ stage = "dead" /\ Idle(Daemon)
  /\ stage' = "start"
  /\ writes' = 0
  /\ UNCHANGED <<vars, led_state>>

-----------------------------------------------------------------------------
(* What happens to the LED otherwise.                                      *)

(* A write of the daemon or the worker goes on in the driver.              *)
InDriver ==
  /\ \/ ScheduleWork(Daemon) \/ ProgramInterrupted(Daemon) \/ StartWork
     \/ \E t \in Threads : Continue(t)
  /\ UNCHANGED <<stage, led_state, writes>>

Loading ==
  /\ Module
  /\ writes' = 0
  /\ UNCHANGED <<stage, led_state>>

(* The module is loaded once more, its static data as they were at first.  *)
Reload ==
  /\ phase = "gone"
  /\ phase' = "registered"
  /\ flag' = FALSE /\ queued' = FALSE /\ value' = 0
  /\ cache' = [run |-> LED_OFF, blink |-> <<0, 0>>, breath |-> <<0, 0>>,
               light |-> 0, color |-> COLOR_NONE]
  /\ mixed' = {} /\ trusted' = {"color"}
  /\ writes' = 0
  /\ UNCHANGED <<hw, trigger, access, pc, task, stage, led_state>>

(* ugreen_leds_cli writes the registers and leaves the cache alone.        *)
Tamper ==
  /\ \E m \in Modes : hw' = [hw EXCEPT !.mode = m]
  /\ trusted' = trusted \ {"mode"}
  /\ mixed' = mixed \cup Updating("mode")
  /\ writes' = 0
  /\ UNCHANGED <<cache, value, queued, trigger, access, pc, task, flag, phase,
                 stage, led_state>>

-----------------------------------------------------------------------------

DaemonInit == Init /\ stage = "dead" /\ led_state = LED_OFF /\ writes = 0

DaemonRuns == Prime \/ PrimeAgain \/ set_color \/ Toggle

DaemonNext ==
  \/ DaemonRuns \/ NoSuchLed \/ Die \/ Restart
  \/ InDriver \/ Loading \/ Reload \/ Tamper

DaemonSpec == DaemonInit /\ [][DaemonNext]_dvars

(* systemd restarts the daemon, the daemon goes on, and so does what it    *)
(* and the workqueue have begun in the driver.                             *)
FairDaemonSpec ==
  /\ DaemonSpec
  /\ WF_dvars(Restart) /\ WF_dvars(DaemonRuns) /\ WF_dvars(NoSuchLed)
  /\ WF_dvars(InDriver)

-----------------------------------------------------------------------------
(* Properties.                                                             *)

(* After two requests of a daemon, those of prime_led or of two blips, the *)
(* LED shows what it last asked for, however the driver's cache and the    *)
(* LED had come apart: a write of ugreen_leds_cli, a new load of the       *)
(* driver, a daemon that died between or during requests.                  *)
Settled == phase = "live" /\ Idle(Daemon) /\ ~ queued /\ Idle(Worker)

TwoRequestsHeal == Settled /\ writes = 2 => Shown(led_state)

(* When the driver stays and nothing ends the daemon any more, it gets to  *)
(* watching activity, even if it had died before: Restart=always.          *)
DaemonComesBack ==
  <>[](phase = "live") /\ <>[][stage' # "dead"]_stage => <>[](stage = "loop")

=============================================================================
