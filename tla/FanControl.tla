----------------------------- MODULE FanControl -----------------------------
(***************************************************************************)
(* Who sets the fans.  The duty registers of the controller hold a         *)
(* percentage; hwmon speaks 0 .. 255.  The CoolerControl daemon sets them  *)
(* from its curves, an operator may use /proc/it86/fan, and a cron job     *)
(* (coolercontrold-watchdog.sh) sets both to 60% when the daemon's API     *)
(* does not answer.  The driver may be unloaded and loaded again at any    *)
(* moment, and its hwmon device then has another directory, or none.       *)
(***************************************************************************)
EXTENDS Integers

CONSTANTS
  Dirs,       \* hwmon directories the device may get
  NoDir,      \* there is no hwmon directory
  PwmValues,  \* the values written by the daemon and by the operator
  FirstDuty   \* the duty the firmware leaves in both registers

Fans == {0, 1}                        \* pwm1 the CPU fan, pwm2 the system fan
PWM_MAX == 255
FAILSAFE_PERCENT == 60
PWM_VALUE == (PWM_MAX * FAILSAFE_PERCENT) \div 100

ASSUME FanAssumption ==
  /\ NoDir \notin Dirs
  /\ PwmValues \subseteq 0 .. PWM_MAX
  /\ FirstDuty \in 0 .. 100

VARIABLES
  duty,    \* the duty registers
  asked,   \* history: the value last written to each fan, or what it was worth
  loaded,  \* the driver is loaded
  dir,     \* the directory of its hwmon device
  daemon,  \* "up", "deaf" (runs, but its API does not answer) or "down"
  pc,      \* where the watchdog script is
  found    \* HWMON_DIR of this run of the script

vars == <<duty, asked, loaded, dir, daemon, pc, found>>

-----------------------------------------------------------------------------
(* SetFanDuty takes the hwmon scale; ug201x_hwmon_read converts back.      *)
ToDutyUnscaled(pwm) == pwm
ToDutyBy256(pwm) == (pwm * 100) \div 256

ToDuty(pwm)  == (pwm * 100) \div 255
ToPwm(d)     == (d * 255) \div 100
GetFanPwm(f) == ToPwm(duty[f])

SetFanDuty(f, pwm) ==
  /\ duty' = [duty EXCEPT ![f] = ToDuty(pwm)]
  /\ asked' = [asked EXCEPT ![f] = pwm]

Init ==
  /\ duty = [f \in Fans |-> FirstDuty]
  /\ asked = [f \in Fans |-> ToPwm(FirstDuty)]
  /\ loaded = FALSE
  /\ dir = NoDir
  /\ daemon = "down"
  /\ pc = "idle"
  /\ found = NoDir

-----------------------------------------------------------------------------
(* The driver, the daemon and the operator.                                *)

(* A failure to register the hwmon device is not fatal to the probe.       *)
Load ==
  /\ ~ loaded
  /\ loaded' = TRUE
  /\ dir' \in Dirs \cup {NoDir}
  /\ UNCHANGED <<duty, asked, daemon, pc, found>>

Unload ==
  /\ loaded
  /\ loaded' = FALSE
  /\ dir' = NoDir
  /\ UNCHANGED <<duty, asked, daemon, pc, found>>

DaemonChanges ==
  /\ daemon' \in {"up", "deaf", "down"} \ {daemon}
  /\ UNCHANGED <<duty, asked, loaded, dir, pc, found>>

DaemonWrites(f, pwm) ==
  /\ daemon # "down"
  /\ dir # NoDir
  /\ SetFanDuty(f, pwm)
  /\ UNCHANGED <<loaded, dir, daemon, pc, found>>

(* fan_write: "on" and "off" are 127 and 0, and "set <n>" refuses 0.       *)
ProcWrites(f, pwm) ==
  /\ loaded
  /\ SetFanDuty(f, pwm)
  /\ UNCHANGED <<loaded, dir, daemon, pc, found>>

-----------------------------------------------------------------------------
(* One run of the cron job every two minutes; it is over long before the   *)
(* next one.                                                               *)

(* curl /handshake: anything but 200 engages the failsafe.                 *)
CheckApi ==
  /\ pc = "idle"
  /\ pc' = IF daemon = "up" THEN "idle" ELSE "find"
  /\ UNCHANGED <<duty, asked, loaded, dir, daemon, found>>

FindHwmonDir ==
  /\ pc = "find"
  /\ found' = dir
  /\ pc' = IF dir = NoDir THEN "idle" ELSE "pwm1"
  /\ UNCHANGED <<duty, asked, loaded, dir, daemon>>

(* echo "$PWM_VALUE" > "$pwm", channel by channel; a channel that is not   *)
(* there (any more) is passed over.                                        *)
FailsafeFirstOnly(f) ==
  /\ pc = IF f = 0 THEN "pwm1" ELSE "pwm2"
  /\ pc' = "idle"
  /\ IF found = dir THEN SetFanDuty(f, PWM_VALUE) ELSE UNCHANGED <<duty, asked>>
  /\ UNCHANGED <<loaded, dir, daemon, found>>

Failsafe(f) ==
  /\ pc = IF f = 0 THEN "pwm1" ELSE "pwm2"
  /\ pc' = IF f = 0 THEN "pwm2" ELSE "idle"
  /\ IF found = dir THEN SetFanDuty(f, PWM_VALUE) ELSE UNCHANGED <<duty, asked>>
  /\ UNCHANGED <<loaded, dir, daemon, found>>

Script == CheckApi \/ FindHwmonDir \/ \E f \in Fans : Failsafe(f)

Next ==
  \/ Script
  \/ Load \/ Unload \/ DaemonChanges
  \/ \E f \in Fans, pwm \in PwmValues : DaemonWrites(f, pwm) \/ ProcWrites(f, pwm)

Spec == Init /\ [][Next]_vars

(* Cron starts the script again and again, and the script runs to its end. *)
FairSpec == Spec /\ WF_vars(Script)

-----------------------------------------------------------------------------
(* Properties.                                                             *)

TypeOK ==
  /\ duty \in [Fans -> 0 .. 100]
  /\ asked \in [Fans -> 0 .. PWM_MAX]
  /\ loaded \in BOOLEAN
  /\ dir \in Dirs \cup {NoDir} /\ found \in Dirs \cup {NoDir}
  /\ daemon \in {"up", "deaf", "down"}
  /\ pc \in {"idle", "find", "pwm1", "pwm2"}

(* What hwmon reads back is what was last asked for, rounded down by at    *)
(* most 3 of 255, whichever interface asked (SetFanDuty and GetFanDuty in  *)
(* their two roundings); the failsafe value is read back exactly.          *)
ReadBackIsClose ==
  \A f \in Fans :
    /\ GetFanPwm(f) \in asked[f] - 3 .. asked[f]
    /\ asked[f] = PWM_VALUE => duty[f] = FAILSAFE_PERCENT /\ GetFanPwm(f) = PWM_VALUE

(* No fan is stuck when the API stays unreachable and the hwmon device     *)
(* stays: each is set to 60% again and again, whatever the other fan's     *)
(* write did, whatever a run in progress had found before, and whatever    *)
(* the operator or a deaf daemon writes.                                   *)
NoFanIsStuck ==
  \A d \in Dirs :
    <>[](daemon # "up" /\ dir = d)
      => \A f \in Fans : []<>(duty[f] = FAILSAFE_PERCENT)

=============================================================================
