------------------------------ MODULE EcDriver ------------------------------
(***************************************************************************)
(* The window with the driver's own calls: fans, temperatures, watchdog    *)
(* and LEDs, each with every argument its interface lets through.          *)
(***************************************************************************)
EXTENDS EcRefinement, EcCalls

(* What the interfaces of the driver may call, and init_leds, with which   *)
(* probe programs the LEDs when all interfaces are registered.  The remove *)
(* callback is not among them: it writes without the lock.  Nor is         *)
(* /proc/it86/startup, which takes the lock around a word of its own and   *)
(* no register (see module Lifecycle).                                     *)
DriverCall(c) ==
  \/ c \in {fan_read, temp_read, wdt_start, wdt_stop}
  \/ \E f \in Fans, word \in {"on", "off", "set"}, n \in Nat : c = fan_write(f, word, n)
  \/ \E type \in {"temp", "fan", "pwm"}, channel \in {0, 1} :
       c = ug201x_hwmon_read(type, channel)
  \/ \E channel \in {0, 1}, val \in Int : c = ug201x_hwmon_write(channel, val)
  \/ \E t \in Nat : c = wdt_set_timeout(t)
  \/ \E i \in Leds, run_state \in {0, 1} : c = led_set_on_off(i, run_state)
  \/ \E i \in Leds, light \in 0 .. 255 : c = led_brightness(i, light)
  \/ \E i \in Leds, mode \in {2, 3}, hight, low \in Nat :
       c = led_blink_or_breath(i, mode, hight, low)
  \/ \E i \in Leds, color \in 1 .. 5 : c = do_color_set(i, color)
  \/ \E brightness \in [Leds -> 0 .. 255], run_state \in [Leds -> 0 .. 3] :
       c = init_leds(brightness, run_state)

(* Registers that mean something only together: the channels of a colour,  *)
(* an LED's mode with its period and duty, the bytes of a timeout.         *)
ColourOf(i) == {ARGB_DATA(i).R, ARGB_DATA(i).G, ARGB_DATA(i).B}
ModeOf(i)   == {ARGB_MOD(i), ARGB_PERIOD(i), ARGB_DUTY(i)}
TimeoutPair == {WDT_TIMEOUT_H, WDT_TIMEOUT_L}

Together == {ColourOf(i) : i \in Leds} \cup {ModeOf(i) : i \in Leds} \cup {TimeoutPair}

(* The registers each of them may write, with the values that make sense:  *)
(* percent of duty, a timer on or off, one of four LED modes.              *)
Permitted ==
  ({FAN_DUTY(f) : f \in Fans} \X (0 .. 100))
  \cup ({WDT_CFG2} \X {0, 1})
  \cup (TimeoutPair \X Byte)
  \cup ({ARGB_MOD(i) : i \in Leds} \X (0 .. 3))
  \cup ((UNION {{ARGB_PERIOD(i), ARGB_DUTY(i), ARGB_LIGHT(i)} \cup ColourOf(i) :
                  i \in Leds}) \X Byte)

(* However the calls' port writes interleave, a register of the controller *)
(* holds what the firmware put there or a legal value of the driver's: no  *)
(* fan above 100 per cent, no mode the LEDs do not have, and nothing       *)
(* outside the registers the driver is for (half an address of one thread  *)
(* and half of another would reach them).                                  *)
OnlyLegalValues == \A r \in Addr : mem[r] = Boot[r] \/ <<r, mem[r]>> \in Permitted

(* While nobody holds the lock the controller works with settings somebody *)
(* asked for: no colour with a channel of another, no mode with another's  *)
(* period, no timeout made of two (ArgbRgbSet, ArgbModeSet and             *)
(* Wdt_cfg_timeout write them one register at a time).                     *)
SettingsAreWhole ==
  lock = NoThread => \A G \in Together : G \subseteq Addr => OfOneCall(mem, G)

=============================================================================
