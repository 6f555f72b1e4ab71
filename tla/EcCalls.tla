------------------------------ MODULE EcCalls ------------------------------
(***************************************************************************)
(* The register map of the CSCS201X embedded controller and the sequence   *)
(* of steps each callback of the driver makes on it: taking and giving     *)
(* back ug_201x_lock, and the register accesses in between.  Every         *)
(* register lies at 0x2000hhll, so an address is the pair <<hh, ll>> of    *)
(* the two bytes that differ.                                              *)
(***************************************************************************)
EXTENDS Integers, Sequences

Fans == {0, 1}                        \* 0 the CPU fan, 1 the system fan
Leds == 0 .. 3                        \* power, network_stat, disk1, disk2

FAN_DUTY(f)    == <<\h53, \hF4 + f>>
FAN_SPEED_H(f) == <<\h53, \hF8 + 2 * f>>
FAN_SPEED_L(f) == <<\h53, \hF9 + 2 * f>>
NTC_TEMP(i)    == <<\h53, \hE2 + 2 * i>>
WDT_CFG2       == <<\h54, \h81>>
WDT_TIMEOUT_H  == <<\h54, \h82>>
WDT_TIMEOUT_L  == <<\h54, \h83>>
ARGB_FLOW_CONTROL == <<\h54, \h40>>
ARGB_DATA(i)   == [B |-> <<\h54, \h44 + 4 * i>>,
                   R |-> <<\h54, \h45 + 4 * i>>,
                   G |-> <<\h54, \h46 + 4 * i>>]
ARGB_MOD(i)    == <<\h54, \h00 + i>>
ARGB_LIGHT(i)  == <<\h54, \h04 + i>>
ARGB_PERIOD(i) == <<\h54, \h08 + i>>
ARGB_DUTY(i)   == <<\h54, \h0C + i>>

-----------------------------------------------------------------------------
(* The steps a call is made of.  Outb casts its value to u8.               *)

Lock     == [op |-> "lock"]           \* mutex_lock
LockIntr == [op |-> "lock_intr"]      \* mutex_lock_interruptible
Unlock   == [op |-> "unlock"]         \* mutex_unlock

Out(r, v) == [op |-> "out", reg |-> r, val |-> v % 256]
In(r)     == [op |-> "in", reg |-> r, val |-> 0]

-----------------------------------------------------------------------------
(* Fans and temperatures.                                                  *)

(* A writer that leaves the locking to its callers.                        *)
SetFanDutyUnlocked(f, duty) == <<Out(FAN_DUTY(f), (duty * 100) \div 255)>>

SetFanDuty(f, duty) ==
  <<Lock, Out(FAN_DUTY(f), (duty * 100) \div 255), Unlock>>

GetFanRpm(f)          == <<In(FAN_SPEED_L(f)), In(FAN_SPEED_H(f))>>
GetNTCTemperature(i)  == <<In(NTC_TEMP(i))>>
GetFanDuty(f)         == <<In(FAN_DUTY(f))>>

fan_read == <<LockIntr>> \o GetFanRpm(0) \o GetFanRpm(1) \o <<Unlock>>

temp_read ==
  <<Lock>> \o GetNTCTemperature(0) \o GetNTCTemperature(1) \o <<Unlock>>

(* "on", "off" and "set <n>" address the system fan, "con", "coff" and     *)
(* "cpu <n>" the CPU fan; <n> must be in 1 .. 255.                         *)
fan_write(f, word, n) ==
  IF word = "on" THEN SetFanDuty(f, 127)
  ELSE IF word = "off" THEN SetFanDuty(f, 0)
  ELSE IF word = "set" /\ n \in 1 .. 255 THEN SetFanDuty(f, n)
  ELSE <<>>

(* What the callback reads of a channel; it refuses other types.           *)
Sensor(type, channel) ==
  IF type = "temp" THEN GetNTCTemperature(channel)
  ELSE IF type = "fan" THEN GetFanRpm(channel)
  ELSE IF type = "pwm" THEN GetFanDuty(channel)
  ELSE <<>>

ug201x_hwmon_read(type, channel) ==
  <<LockIntr>> \o Sensor(type, channel) \o <<Unlock>>

(* SetFanDuty takes the lock itself; taking it here as well would be the   *)
(* deadlock the source's comment warns of.                                 *)
HwmonWriteLockedTwice(channel, val) ==
  <<Lock>> \o SetFanDuty(channel, val) \o <<Unlock>>

ug201x_hwmon_write(channel, val) ==
  IF channel \in Fans /\ val \in 0 .. 255 THEN SetFanDuty(channel, val) ELSE <<>>

-----------------------------------------------------------------------------
(* The hardware watchdog.                                                  *)

WdtStart(enable) == <<Out(WDT_CFG2, enable)>>

wdt_start == <<LockIntr>> \o WdtStart(1) \o <<Unlock>>
wdt_stop  == <<LockIntr>> \o WdtStart(0) \o <<Unlock>>

max_units == 65535
Rounded(t) == IF t > max_units THEN ((t + 59) \div 60) * 60 ELSE t

(* The timer counts down from two bytes; a second passes between           *)
(* programming them and enabling it.                                       *)
Wdt_cfg_timeout(t) ==
  <<Out(WDT_CFG2, 0), Out(WDT_TIMEOUT_H, t \div 256), Out(WDT_TIMEOUT_L, t),
    Out(WDT_CFG2, 1)>>

(* Giving the lock back for that second.                                   *)
SetTimeoutUnlockedSleep(t) ==
  <<LockIntr>> \o SubSeq(Wdt_cfg_timeout(Rounded(t)), 1, 3) \o <<Unlock>> \o wdt_start

wdt_set_timeout(t) == <<LockIntr>> \o Wdt_cfg_timeout(Rounded(t)) \o <<Unlock>>

-----------------------------------------------------------------------------
(* The front-panel LEDs.                                                   *)

ArgbRgbSet(i, r, g, b) ==
  <<Out(ARGB_DATA(i).B, b), Out(ARGB_DATA(i).R, r), Out(ARGB_DATA(i).G, g)>>

ArgbLightSet(i, light) == <<Out(ARGB_LIGHT(i), light)>>

ArgbModeSet(i, mode, period, duty) ==
  <<Out(ARGB_MOD(i), mode), Out(ARGB_PERIOD(i), period), Out(ARGB_DUTY(i), duty)>>

led_set_on_off(i, run_state) ==
  <<LockIntr>> \o ArgbModeSet(i, run_state, 0, 0) \o <<Unlock>>

led_brightness(i, light) == <<LockIntr>> \o ArgbLightSet(i, light) \o <<Unlock>>

led_blink_or_breath(i, mode, hight, low) ==
  <<LockIntr>> \o ArgbModeSet(i, mode, hight \div 50, low \div 50) \o <<Unlock>>

(* All LEDs in one section, while the interfaces are already used.         *)
InitLed(i, brightness, run_state) ==
  ArgbLightSet(i, brightness) \o ArgbModeSet(i, run_state, 0, 0)

init_leds(brightness, run_state) ==
  <<LockIntr>> \o InitLed(0, brightness[0], run_state[0])
    \o InitLed(1, brightness[1], run_state[1]) \o InitLed(2, brightness[2], run_state[2])
    \o InitLed(3, brightness[3], run_state[3]) \o <<Unlock>>

led_color_table ==
  <<<<255, 255, 255>>, <<220, 40, 0>>, <<255, 0, 0>>, <<0, 255, 0>>, <<0, 0, 255>>>>

(* Locking each channel for itself.                                        *)
ColorSetByChannel(i, color) ==
  LET rgb == led_color_table[color]
      Locked(step) == <<LockIntr, step, Unlock>>
  IN  Locked(Out(ARGB_DATA(i).B, rgb[3])) \o Locked(Out(ARGB_DATA(i).R, rgb[1]))
        \o Locked(Out(ARGB_DATA(i).G, rgb[2]))

do_color_set(i, color) ==
  LET rgb == led_color_table[color]
  IN  <<LockIntr>> \o ArgbRgbSet(i, rgb[1], rgb[2], rgb[3]) \o <<Unlock>>

-----------------------------------------------------------------------------
(* Removal: the flow-control register is written without the lock, before  *)
(* any of the interfaces is withdrawn; then wdt_stop.                      *)

ug_cs201x_remove == <<Out(ARGB_FLOW_CONTROL, 0)>> \o wdt_stop

=============================================================================
