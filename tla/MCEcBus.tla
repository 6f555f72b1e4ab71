------------------------------ MODULE MCEcBus ------------------------------
(***************************************************************************)
(* The bus with calls of every kind of interface: fan speeds set through   *)
(* hwmon and /proc and read back, temperatures, a LED colour, level and    *)
(* blinking, the watchdog, and the accesses of the remove callback.        *)
(***************************************************************************)
EXTENDS EcDriver

Accesses(c)   == {c[i] : i \in {j \in DOMAIN c : c[j].op \in {"in", "out"}}}
RegsOf(calls) == {s.reg : s \in UNION {Accesses(c) : c \in calls}}
HiOf(calls) == {r[1] : r \in RegsOf(calls)}
LoOf(calls) == {r[2] : r \in RegsOf(calls)}

MixedCalls ==
  {ug201x_hwmon_write(0, 153), ug201x_hwmon_read("pwm", 0), temp_read,
   do_color_set(1, 2), led_blink_or_breath(1, 2, 500, 250),
   wdt_set_timeout(1800), wdt_start}
MixedHi == HiOf(MixedCalls)
MixedLo == LoOf(MixedCalls)
MixedBoot == [a \in MixedHi \X MixedLo |-> 0]

CrowdCalls ==
  {ug201x_hwmon_write(0, 153), fan_write(0, "set", 40), led_brightness(0, 40),
   led_blink_or_breath(0, 2, 500, 250)}
CrowdHi == HiOf(CrowdCalls)
CrowdLo == LoOf(CrowdCalls)
CrowdBoot == [a \in CrowdHi \X CrowdLo |-> 45]

RemovalCalls == {led_set_on_off(2, 1), ug_cs201x_remove}
RemovalHi == HiOf(RemovalCalls)
RemovalLo == LoOf(RemovalCalls)
RemovalBoot == [a \in RemovalHi \X RemovalLo |-> 0]

=============================================================================
