--------------------------- MODULE EcCallsProofs ---------------------------
(***************************************************************************)
(* The calls of the driver, each of them for every argument: all are one   *)
(* critical section of ug_201x_lock, what they write is legal, and they    *)
(* write registers that belong together together.  So what EcBusProofs     *)
(* shows of such calls holds of the driver as long as it is not being      *)
(* removed.                                                                *)
(***************************************************************************)
EXTENDS EcDriver, EcBusProofs

(* A call's accesses: steps that use the data port.                        *)
OnlyAccesses(s) == \A i \in 1 .. Len(s) : s[i].op \in {"in", "out"}

(* What a call writes, as pairs of a register and a value.                 *)
Outs(c) == {<<c[i].reg, c[i].val>> : i \in {j \in 1 .. Len(c) : c[j].op = "out"}}

(* One critical section that writes W.                                     *)
Makes(c, W) == OneSection(c) /\ Outs(c) = W

(* What a sequence of writes alone writes.                                 *)
Pairs(s) == {<<s[i].reg, s[i].val>> : i \in 1 .. Len(s)}

(* Taking the lock, doing something, giving the lock back.                 *)
Section(first, body) == <<first>> \o body \o <<Unlock>>

(* Taking the lock, accesses, giving it back: one critical section, which  *)
(* writes what its accesses write. *)
LEMMA LockedCall ==
  ASSUME NEW S, NEW body \in Seq(S), OnlyAccesses(body),
         NEW first \in {Lock, LockIntr}
  PROVE  /\ OneSection(Section(first, body))
         /\ Outs(Section(first, body)) = Outs(body)
<1> DEFINE c == Section(first, body)
<1>1. /\ Len(c) = Len(body) + 2
      /\ c[1] = first
      /\ \A i \in 2 .. Len(body) + 1 : c[i] = body[i - 1]
      /\ c[Len(body) + 2] = Unlock
  BY DEF Section
<1>2. Len(body) \in Nat
  OBVIOUS
<1>3. c[1].op \in {"lock", "lock_intr"}
  BY <1>1 DEF Lock, LockIntr
<1>4. \A i \in 2 .. Len(body) + 1 : c[i].op \in {"in", "out"}
  BY <1>1, <1>2 DEF OnlyAccesses
<1>5. c[Len(body) + 2].op = "unlock"
  BY <1>1 DEF Unlock
<1> HIDE DEF c
<1>6. OneSection(c)
  <2> SUFFICES ASSUME NEW i \in 1 .. Len(c)
               PROVE  /\ c[i].op \in {"lock", "lock_intr"} <=> i = 1
                      /\ c[i].op = "unlock" <=> i = Len(c)
    BY DEF OneSection
  <2>1. CASE i = 1
    BY <1>1, <1>2, <1>3, <2>1
  <2>2. CASE i \in 2 .. Len(body) + 1
    BY <1>1, <1>2, <1>4, <2>2
  <2>3. CASE i = Len(body) + 2
    BY <1>1, <1>2, <1>5, <2>3
  <2> QED
    BY <1>1, <1>2, <2>1, <2>2, <2>3
<1>7. Outs(c) = Outs(body)
  <2>1. ASSUME NEW i \in 1 .. Len(c), c[i].op = "out"
        PROVE  i - 1 \in 1 .. Len(body) /\ c[i] = body[i - 1]
    <3>1. i # 1 /\ i # Len(body) + 2
      BY <1>3, <1>5, <2>1
    <3> QED
      BY <1>1, <1>2, <3>1
  <2>2. ASSUME NEW i \in 1 .. Len(body)
        PROVE  i + 1 \in 1 .. Len(c) /\ c[i + 1] = body[i]
    BY <1>1, <1>2
  <2>3. Outs(c) \subseteq Outs(body)
    BY <2>1 DEF Outs
  <2>4. Outs(body) \subseteq Outs(c)
    BY <2>2 DEF Outs
  <2> QED
    BY <2>3, <2>4
<1> QED
  BY <1>6, <1>7 DEF c

(* A call that is refused before it takes the lock.                        *)
LEMMA RefusedCall == OneSection(<<>>) /\ Outs(<<>>) = {}
  BY DEF OneSection, Outs

(* What a section of reads writes, and a section of writes.                *)
LEMMA ReadingCall ==
  ASSUME NEW first \in {Lock, LockIntr}, NEW S, NEW body \in Seq(S),
         \A i \in 1 .. Len(body) : body[i].op = "in"
  PROVE  /\ OneSection(Section(first, body))
         /\ Outs(Section(first, body)) = {}
<1>1. OnlyAccesses(body)
  BY DEF OnlyAccesses
<1>2. Outs(body) = {}
  BY DEF Outs
<1> QED
  BY <1>1, <1>2, LockedCall

LEMMA WritingCall ==
  ASSUME NEW first \in {Lock, LockIntr}, NEW S, NEW body \in Seq(S),
         \A i \in 1 .. Len(body) : body[i].op = "out"
  PROVE  /\ OneSection(Section(first, body))
         /\ Outs(Section(first, body)) = Pairs(body)
<1>1. OnlyAccesses(body)
  BY DEF OnlyAccesses
<1>2. Outs(body) = Pairs(body)
  BY DEF Outs, Pairs
<1> QED
  BY <1>1, <1>2, LockedCall

(* Writes one after the other.                                             *)
OnlyWrites(s) == \A i \in 1 .. Len(s) : s[i].op = "out"

LEMMA WritesJoined ==
  ASSUME NEW S, NEW s \in Seq(S), NEW t \in Seq(S), OnlyWrites(s), OnlyWrites(t)
  PROVE  /\ s \o t \in Seq(S) /\ OnlyWrites(s \o t)
         /\ Pairs(s \o t) = Pairs(s) \cup Pairs(t)
<1> DEFINE u == s \o t
<1>1. u \in Seq(S) /\ Len(u) = Len(s) + Len(t) /\ Len(s) \in Nat /\ Len(t) \in Nat
  OBVIOUS
<1>2. /\ \A i \in 1 .. Len(s) : u[i] = s[i]
      /\ \A i \in Len(s) + 1 .. Len(s) + Len(t) : u[i] = t[i - Len(s)]
  OBVIOUS
<1> HIDE DEF u
<1>3. \A i \in 1 .. Len(u) :
        \/ i \in 1 .. Len(s) /\ u[i] = s[i]
        \/ i - Len(s) \in 1 .. Len(t) /\ u[i] = t[i - Len(s)]
  BY <1>1, <1>2
<1>4. OnlyWrites(u)
  BY <1>3 DEF OnlyWrites
<1>5. Pairs(u) \subseteq Pairs(s) \cup Pairs(t)
  BY <1>3 DEF Pairs
<1>6. \A i \in 1 .. Len(s) : i \in 1 .. Len(u) /\ u[i] = s[i]
  BY <1>1, <1>2
<1>7. \A i \in 1 .. Len(t) : i + Len(s) \in 1 .. Len(u) /\ u[i + Len(s)] = t[i]
  BY <1>1, <1>2
<1>8. Pairs(s) \cup Pairs(t) \subseteq Pairs(u)
  BY <1>6, <1>7 DEF Pairs
<1> QED
  BY <1>1, <1>4, <1>5, <1>8 DEF u

(* The sections the driver has: one, three or four registers are written.  *)
LEMMA WriteOne ==
  ASSUME NEW first \in {Lock, LockIntr}, NEW r1, NEW v1
  PROVE  Makes(Section(first, <<Out(r1, v1)>>),
               {<<r1, v1 % 256>>})
<1> DEFINE b == <<Out(r1, v1)>>
           S == {Out(r1, v1)}
<1>1. \A r, v : Out(r, v).op = "out" /\ Out(r, v).reg = r /\ Out(r, v).val = v % 256
  BY DEF Out
<1>2. b \in Seq(S) /\ Len(b) = 1
  OBVIOUS
<1>3. \A i \in 1 .. Len(b) : b[i].op = "out"
  BY <1>1
<1>4. Pairs(b) = {<<r1, v1 % 256>>}
  BY <1>1, <1>2 DEF Pairs
<1> HIDE DEF S, b
<1>5. /\ OneSection(Section(first, b))
      /\ Outs(Section(first, b)) = Pairs(b)
  BY <1>2, <1>3, WritingCall
<1> QED
  BY <1>4, <1>5, Zenon DEF b, Makes

LEMMA WriteThree ==
  ASSUME NEW first \in {Lock, LockIntr}, NEW r1, NEW v1, NEW r2, NEW v2, NEW r3, NEW v3
  PROVE  Makes(Section(first, <<Out(r1, v1), Out(r2, v2), Out(r3, v3)>>),
               {<<r1, v1 % 256>>, <<r2, v2 % 256>>, <<r3, v3 % 256>>})
<1> DEFINE b == <<Out(r1, v1), Out(r2, v2), Out(r3, v3)>>
           S == {Out(r1, v1), Out(r2, v2), Out(r3, v3)}
<1>1. \A r, v : Out(r, v).op = "out" /\ Out(r, v).reg = r /\ Out(r, v).val = v % 256
  BY DEF Out
<1>2. b \in Seq(S) /\ Len(b) = 3
  OBVIOUS
<1>3. \A i \in 1 .. Len(b) : b[i].op = "out"
  BY <1>1
<1>4. Pairs(b) = {<<r1, v1 % 256>>, <<r2, v2 % 256>>, <<r3, v3 % 256>>}
  BY <1>1, <1>2 DEF Pairs
<1> HIDE DEF S, b
<1>5. /\ OneSection(Section(first, b))
      /\ Outs(Section(first, b)) = Pairs(b)
  BY <1>2, <1>3, WritingCall
<1> QED
  BY <1>4, <1>5, Zenon DEF b, Makes

LEMMA WriteFour ==
  ASSUME NEW first \in {Lock, LockIntr}, NEW r1, NEW v1, NEW r2, NEW v2,
         NEW r3, NEW v3, NEW r4, NEW v4
  PROVE  Makes(Section(first, <<Out(r1, v1), Out(r2, v2), Out(r3, v3), Out(r4, v4)>>),
               {<<r1, v1 % 256>>, <<r2, v2 % 256>>, <<r3, v3 % 256>>, <<r4, v4 % 256>>})
<1> DEFINE b == <<Out(r1, v1), Out(r2, v2), Out(r3, v3), Out(r4, v4)>>
           S == {Out(r1, v1), Out(r2, v2), Out(r3, v3), Out(r4, v4)}
<1>1. \A r, v : Out(r, v).op = "out" /\ Out(r, v).reg = r /\ Out(r, v).val = v % 256
  BY DEF Out
<1>2. b \in Seq(S) /\ Len(b) = 4
  OBVIOUS
<1>3. \A i \in 1 .. Len(b) : b[i].op = "out"
  BY <1>1
<1>4. Pairs(b) = {<<r1, v1 % 256>>, <<r2, v2 % 256>>, <<r3, v3 % 256>>, <<r4, v4 % 256>>}
  BY <1>1, <1>2 DEF Pairs
<1> HIDE DEF S, b
<1>5. /\ OneSection(Section(first, b))
      /\ Outs(Section(first, b)) = Pairs(b)
  BY <1>2, <1>3, WritingCall
<1> QED
  BY <1>4, <1>5, Zenon DEF b, Makes

-----------------------------------------------------------------------------
(* The registers a call writes, and whether it writes groups as a whole.   *)
Regs(c) == {p[1] : p \in Outs(c)}

WholeGroups(c) == \A G \in Together : G \cap Regs(c) = {} \/ G \subseteq Regs(c)

Good(c) == OneSection(c) /\ Outs(c) \subseteq Permitted /\ WholeGroups(c)

(* Registers of different groups differ, and a register that belongs to no *)
(* group is in none.                                                       *)
LEMMA GroupsAreDisjoint ==
  /\ \A f \in Fans, G \in Together : FAN_DUTY(f) \notin G
  /\ \A G \in Together : WDT_CFG2 \notin G
  /\ \A i \in Leds, G \in Together : ARGB_LIGHT(i) \notin G
  /\ \A G, H \in Together : G = H \/ G \cap H = {}
<1> DEFINE Two(G, H) == G = H \/ G \cap H = {}
<1>a. ASSUME NEW G \in Together
      PROVE  (\E i \in Leds : G = ColourOf(i)) \/ (\E i \in Leds : G = ModeOf(i)) \/ G = TimeoutPair
  BY DEF Together
<1>0. \A i \in Leds :
        /\ \A f \in Fans : FAN_DUTY(f) \notin ColourOf(i) /\ FAN_DUTY(f) \notin ModeOf(i)
        /\ WDT_CFG2 \notin ColourOf(i) /\ WDT_CFG2 \notin ModeOf(i)
        /\ \A j \in Leds : ARGB_LIGHT(j) \notin ColourOf(i) /\ ARGB_LIGHT(j) \notin ModeOf(i)
  BY DEF Fans, Leds, FAN_DUTY, WDT_CFG2, ARGB_LIGHT, ColourOf, ModeOf, ARGB_DATA,
         ARGB_MOD, ARGB_PERIOD, ARGB_DUTY
<1>1. /\ \A f \in Fans : FAN_DUTY(f) \notin TimeoutPair
      /\ WDT_CFG2 \notin TimeoutPair
      /\ \A j \in Leds : ARGB_LIGHT(j) \notin TimeoutPair
  BY DEF Fans, Leds, FAN_DUTY, WDT_CFG2, ARGB_LIGHT, TimeoutPair, WDT_TIMEOUT_H, WDT_TIMEOUT_L
<1>2. \A i, j \in Leds : Two(ColourOf(i), ColourOf(j))
  BY DEF Leds, ColourOf, ARGB_DATA
<1>3. \A i, j \in Leds : Two(ModeOf(i), ModeOf(j))
  BY DEF Leds, ModeOf, ARGB_MOD, ARGB_PERIOD, ARGB_DUTY
<1>4. \A i, j \in Leds : ColourOf(i) \cap ModeOf(j) = {}
  BY DEF Leds, ColourOf, ModeOf, ARGB_DATA, ARGB_MOD, ARGB_PERIOD, ARGB_DUTY
<1>5. \A i \in Leds : TimeoutPair \cap ColourOf(i) = {} /\ TimeoutPair \cap ModeOf(i) = {}
  BY DEF Leds, ColourOf, ModeOf, TimeoutPair, ARGB_DATA, ARGB_MOD, ARGB_PERIOD, ARGB_DUTY,
         WDT_TIMEOUT_H, WDT_TIMEOUT_L
<1>6. \A f \in Fans, G \in Together : FAN_DUTY(f) \notin G
  BY <1>a, <1>0, <1>1
<1>7. \A G \in Together : WDT_CFG2 \notin G
  BY <1>a, <1>0, <1>1
<1>8. \A i \in Leds, G \in Together : ARGB_LIGHT(i) \notin G
  BY <1>a, <1>0, <1>1
<1>9. ASSUME NEW G \in Together, NEW H \in Together PROVE Two(G, H)
  <2>1. ASSUME NEW i \in Leds, G = ColourOf(i) PROVE Two(G, H)
    BY <2>1, <1>2, <1>4, <1>5, <1>a
  <2>2. ASSUME NEW i \in Leds, G = ModeOf(i) PROVE Two(G, H)
    BY <2>2, <1>3, <1>4, <1>5, <1>a
  <2>3. ASSUME G = TimeoutPair PROVE Two(G, H)
    BY <2>3, <1>5, <1>a
  <2> QED
    BY <2>1, <2>2, <2>3, <1>a
<1> QED
  BY <1>6, <1>7, <1>8, <1>9

(* A call that writes nothing but legal values, and of every group nothing *)
(* or, if it is a group's own, all.                                        *)
LEMMA ReadersAreGood ==
  ASSUME NEW c, OneSection(c), Outs(c) = {} PROVE Good(c)
  BY DEF Good, Regs, WholeGroups

LEMMA SettersAreGood ==
  ASSUME NEW c, OneSection(c), Outs(c) \subseteq Permitted,
         \A G \in Together : Regs(c) \cap G = {}
  PROVE  Good(c)
  BY DEF Good, WholeGroups

LEMMA GroupSettersAreGood ==
  ASSUME NEW c, OneSection(c), Outs(c) \subseteq Permitted,
         NEW G \in Together, G \subseteq Regs(c),
         \A r \in Regs(c) : r \in G \/ \A H \in Together : r \notin H
  PROVE  Good(c)
<1>1. ASSUME NEW H \in Together PROVE H \cap Regs(c) = {} \/ H \subseteq Regs(c)
  BY GroupsAreDisjoint
<1> QED
  BY <1>1 DEF Good, WholeGroups

LEMMA ReadsAreGood ==
  /\ Good(fan_read) /\ Good(temp_read)
  /\ \A type \in {"temp", "fan", "pwm"}, channel \in {0, 1} : Good(ug201x_hwmon_read(type, channel))
<1>0. \A r : In(r).op = "in"
  BY DEF In
<1>1. ASSUME NEW first \in {Lock, LockIntr}, NEW r1, NEW r2, NEW r3, NEW r4
      PROVE  /\ Good(Section(first, <<In(r1)>>))
             /\ Good(Section(first, <<In(r1), In(r2)>>))
             /\ Good(Section(first, <<In(r1), In(r2), In(r3), In(r4)>>))
  <2> DEFINE S == {In(r1), In(r2), In(r3), In(r4)}
             b1 == <<In(r1)>>
             b2 == <<In(r1), In(r2)>>
             b4 == <<In(r1), In(r2), In(r3), In(r4)>>
  <2>1. b1 \in Seq(S) /\ \A i \in 1 .. Len(b1) : b1[i].op = "in"
    BY <1>0
  <2>2. b2 \in Seq(S) /\ \A i \in 1 .. Len(b2) : b2[i].op = "in"
    BY <1>0
  <2>3. b4 \in Seq(S) /\ \A i \in 1 .. Len(b4) : b4[i].op = "in"
    BY <1>0
  <2> HIDE DEF S, b1, b2, b4
  <2>4. Good(Section(first, b1))
    BY <2>1, ReadingCall, ReadersAreGood
  <2>5. Good(Section(first, b2))
    BY <2>2, ReadingCall, ReadersAreGood
  <2>6. Good(Section(first, b4))
    BY <2>3, ReadingCall, ReadersAreGood
  <2> QED
    BY <2>4, <2>5, <2>6 DEF b1, b2, b4
<1>2. Good(fan_read)
  <2>1. fan_read = Section(LockIntr, <<In(FAN_SPEED_L(0)), In(FAN_SPEED_H(0)),
                                     In(FAN_SPEED_L(1)), In(FAN_SPEED_H(1))>>)
    BY DEF fan_read, GetFanRpm, Section
  <2> QED
    BY <1>1, <2>1
<1>3. Good(temp_read)
  <2>1. temp_read = Section(Lock, <<In(NTC_TEMP(0)), In(NTC_TEMP(1))>>)
    BY DEF temp_read, Section, GetNTCTemperature
  <2> QED
    BY <1>1, <2>1
<1>4. ASSUME NEW type \in {"temp", "fan", "pwm"}, NEW channel
      PROVE  Good(ug201x_hwmon_read(type, channel))
  <2>1. CASE type = "temp"
    BY <1>1, <2>1 DEF ug201x_hwmon_read, Section, Sensor, GetNTCTemperature
  <2>2. CASE type = "fan"
    BY <1>1, <2>2 DEF ug201x_hwmon_read, Section, Sensor, GetFanRpm
  <2>3. CASE type = "pwm"
    BY <1>1, <2>3 DEF ug201x_hwmon_read, Section, Sensor, GetFanDuty
  <2> QED
    BY <2>1, <2>2, <2>3
<1> QED
  BY <1>2, <1>3, <1>4

(* The duty a fan is given: never above 100 per cent.                      *)
LEMMA FanWritesAreGood ==
  /\ \A f \in Fans, duty \in 0 .. 255 : Good(SetFanDuty(f, duty))
  /\ Good(<<>>)
<1>1. ASSUME NEW f \in Fans, NEW duty \in 0 .. 255 PROVE Good(SetFanDuty(f, duty))
  <2> DEFINE c == SetFanDuty(f, duty)
             v == (duty * 100) \div 255
  <2>1. c = Section(Lock, <<Out(FAN_DUTY(f), v)>>)
    BY DEF SetFanDuty, Section
  <2>2. v % 256 \in 0 .. 100
    OBVIOUS
  <2> HIDE DEF c, v
  <2>3. Makes(c, {<<FAN_DUTY(f), v % 256>>})
    BY <2>1, WriteOne
  <2>4. Outs(c) \subseteq Permitted
    BY <2>2, <2>3 DEF Makes, Permitted
  <2>5. \A G \in Together : Regs(c) \cap G = {}
    BY <2>3, GroupsAreDisjoint DEF Makes, Regs
  <2>6. Good(c)
    BY <2>3, <2>4, <2>5, SettersAreGood DEF Makes
  <2> QED
    BY <2>6 DEF c
<1> QED
  BY <1>1, RefusedCall, ReadersAreGood

LEMMA WatchdogCallsAreGood ==
  /\ Good(wdt_start) /\ Good(wdt_stop)
  /\ \A t \in Nat : Good(wdt_set_timeout(t))
<1>1. ASSUME NEW e \in {0, 1} PROVE Good(Section(LockIntr, WdtStart(e)))
  <2> DEFINE c == Section(LockIntr, <<Out(WDT_CFG2, e)>>)
  <2>1. Makes(c, {<<WDT_CFG2, e % 256>>})
    BY WriteOne
  <2> HIDE DEF c
  <2>2. e % 256 \in {0, 1}
    OBVIOUS
  <2>3. Outs(c) \subseteq Permitted
    BY <2>1, <2>2 DEF Makes, Permitted
  <2>4. \A G \in Together : Regs(c) \cap G = {}
    BY <2>1, GroupsAreDisjoint DEF Makes, Regs
  <2>5. Good(c)
    BY <2>1, <2>3, <2>4, SettersAreGood DEF Makes
  <2> QED
    BY <2>5 DEF c, WdtStart
<1>2. ASSUME NEW t \in Nat PROVE Good(wdt_set_timeout(t))
  <2> DEFINE c == wdt_set_timeout(t)
             hi == Rounded(t) \div 256
             lo == Rounded(t)
  <2>1. Rounded(t) \in Nat
    BY DEF Rounded
  <2>2. hi % 256 \in Byte /\ lo % 256 \in Byte
    BY <2>1 DEF Byte
  <2> HIDE DEF hi, lo
  <2>3. c = Section(LockIntr, <<Out(WDT_CFG2, 0), Out(WDT_TIMEOUT_H, hi),
                              Out(WDT_TIMEOUT_L, lo), Out(WDT_CFG2, 1)>>)
    BY DEF wdt_set_timeout, Wdt_cfg_timeout, Section, hi, lo
  <2> HIDE DEF c
  <2>4. Makes(c, {<<WDT_CFG2, 0 % 256>>, <<WDT_TIMEOUT_H, hi % 256>>,
                  <<WDT_TIMEOUT_L, lo % 256>>, <<WDT_CFG2, 1 % 256>>})
    BY <2>3, WriteFour
  <2>5. 0 % 256 = 0 /\ 1 % 256 = 1
    OBVIOUS
  <2>6. Outs(c) \subseteq Permitted
    BY <2>2, <2>4, <2>5 DEF Makes, Permitted, TimeoutPair
  <2>7. Regs(c) = {WDT_CFG2, WDT_TIMEOUT_H, WDT_TIMEOUT_L}
    BY <2>4 DEF Makes, Regs
  <2>8. TimeoutPair \in Together /\ TimeoutPair \subseteq Regs(c)
    BY <2>7 DEF Together, TimeoutPair
  <2>9. \A r \in Regs(c) : r \in TimeoutPair \/ \A H \in Together : r \notin H
    BY <2>7, GroupsAreDisjoint DEF TimeoutPair
  <2>10. Good(c)
    BY <2>4, <2>6, <2>8, <2>9, GroupSettersAreGood DEF Makes
  <2> QED
    BY <2>10 DEF c
<1> QED
  BY <1>1, <1>2 DEF wdt_start, wdt_stop, Section

(* Colour, level, mode: the LED's own registers, each with a byte.         *)
LEMMA LedCallsAreGood ==
  ASSUME NEW i \in Leds
  PROVE  /\ \A run_state \in {0, 1} : Good(led_set_on_off(i, run_state))
         /\ \A light \in 0 .. 255 : Good(led_brightness(i, light))
         /\ \A mode \in {2, 3}, hight \in Nat, low \in Nat :
              Good(led_blink_or_breath(i, mode, hight, low))
         /\ \A color \in 1 .. 5 : Good(do_color_set(i, color))
<1>0. \A v \in Nat : v % 256 \in Byte
  BY DEF Byte
<1>1. ASSUME NEW mode \in 0 .. 3, NEW period \in Nat, NEW duty \in Nat
      PROVE  Good(Section(LockIntr, ArgbModeSet(i, mode, period, duty)))
  <2> DEFINE c == Section(LockIntr, ArgbModeSet(i, mode, period, duty))
  <2>1. Makes(c, {<<ARGB_MOD(i), mode % 256>>, <<ARGB_PERIOD(i), period % 256>>,
                  <<ARGB_DUTY(i), duty % 256>>})
    BY WriteThree DEF ArgbModeSet
  <2> HIDE DEF c
  <2>2. mode % 256 \in 0 .. 3 /\ period % 256 \in Byte /\ duty % 256 \in Byte
    BY <1>0
  <2>3. Outs(c) \subseteq Permitted
    BY <2>1, <2>2 DEF Makes, Permitted
  <2>4. Regs(c) = ModeOf(i)
    BY <2>1 DEF Makes, Regs, ModeOf
  <2>5. ModeOf(i) \in Together
    BY DEF Together
  <2>6. Good(c)
    BY <2>1, <2>3, <2>4, <2>5, GroupSettersAreGood DEF Makes
  <2> QED
    BY <2>6 DEF c
<1>2. ASSUME NEW light \in 0 .. 255 PROVE Good(led_brightness(i, light))
  <2> DEFINE c == Section(LockIntr, <<Out(ARGB_LIGHT(i), light)>>)
  <2>1. Makes(c, {<<ARGB_LIGHT(i), light % 256>>})
    BY WriteOne
  <2> HIDE DEF c
  <2>2. Outs(c) \subseteq Permitted
    BY <1>0, <2>1 DEF Makes, Permitted
  <2>3. \A G \in Together : Regs(c) \cap G = {}
    BY <2>1, GroupsAreDisjoint DEF Makes, Regs
  <2>4. Good(c)
    BY <2>1, <2>2, <2>3, SettersAreGood DEF Makes
  <2> QED
    BY <2>4 DEF c, led_brightness, ArgbLightSet, Section
<1>3. ASSUME NEW r \in Nat, NEW g \in Nat, NEW b \in Nat
      PROVE  Good(Section(LockIntr, ArgbRgbSet(i, r, g, b)))
  <2> DEFINE c == Section(LockIntr, ArgbRgbSet(i, r, g, b))
  <2>1. Makes(c, {<<ARGB_DATA(i).B, b % 256>>, <<ARGB_DATA(i).R, r % 256>>,
                  <<ARGB_DATA(i).G, g % 256>>})
    BY WriteThree DEF ArgbRgbSet
  <2> HIDE DEF c
  <2>2. r % 256 \in Byte /\ g % 256 \in Byte /\ b % 256 \in Byte
    BY <1>0
  <2>3. {ARGB_DATA(i).R, ARGB_DATA(i).G, ARGB_DATA(i).B} = ColourOf(i)
    BY DEF ColourOf
  <2>4. Outs(c) \subseteq ColourOf(i) \X Byte
    BY <2>1, <2>2, <2>3 DEF Makes
  <2>5. Outs(c) \subseteq Permitted
    BY <2>4 DEF Permitted
  <2>6. Regs(c) = ColourOf(i)
    BY <2>1, <2>3 DEF Makes, Regs
  <2>7. ColourOf(i) \in Together
    BY DEF Together
  <2>8. Good(c)
    BY <2>1, <2>5, <2>6, <2>7, GroupSettersAreGood DEF Makes
  <2> QED
    BY <2>8 DEF c
<1>4. ASSUME NEW run_state \in {0, 1} PROVE Good(led_set_on_off(i, run_state))
  BY <1>1 DEF led_set_on_off, Section
<1>5. ASSUME NEW mode \in {2, 3}, NEW hight \in Nat, NEW low \in Nat
      PROVE  Good(led_blink_or_breath(i, mode, hight, low))
  <2>1. hight \div 50 \in Nat /\ low \div 50 \in Nat /\ mode \in 0 .. 3
    OBVIOUS
  <2> QED
    BY <1>1, <2>1 DEF led_blink_or_breath, Section
<1>6. ASSUME NEW color \in 1 .. 5 PROVE Good(do_color_set(i, color))
  <2>1. /\ led_color_table[color][1] \in Nat
        /\ led_color_table[color][2] \in Nat
        /\ led_color_table[color][3] \in Nat
    BY DEF led_color_table
  <2> QED
    BY <1>3, <2>1 DEF do_color_set, Section
<1> QED
  BY <1>2, <1>4, <1>5, <1>6

(* All LEDs at once: every mode they write they write whole.               *)
LEMMA InitLedsIsGood ==
  ASSUME NEW brightness \in [Leds -> 0 .. 255], NEW run_state \in [Leds -> 0 .. 3]
  PROVE  Good(init_leds(brightness, run_state))
<1> DEFINE light(i) == <<ARGB_LIGHT(i), brightness[i] % 256>>
           mode(i) == {<<ARGB_MOD(i), run_state[i] % 256>>, <<ARGB_PERIOD(i), 0>>,
                       <<ARGB_DUTY(i), 0>>}
           led(i) == InitLed(i, brightness[i], run_state[i])
           S == [op : {"out"}, reg : Nat \X Nat, val : Nat]
           c == init_leds(brightness, run_state)
<1>1. ASSUME NEW i \in Leds
      PROVE  led(i) \in Seq(S) /\ OnlyWrites(led(i)) /\ Pairs(led(i)) = {light(i)} \cup mode(i)
  <2> DEFINE b1 == <<Out(ARGB_LIGHT(i), brightness[i])>>
             b2 == <<Out(ARGB_MOD(i), run_state[i]), Out(ARGB_PERIOD(i), 0), Out(ARGB_DUTY(i), 0)>>
  <2>1. led(i) = b1 \o b2
    BY DEF InitLed, ArgbLightSet, ArgbModeSet
  <2>2. \A r, v : Out(r, v).op = "out" /\ Out(r, v).reg = r /\ Out(r, v).val = v % 256
    BY DEF Out
  <2>3. brightness[i] \in Nat /\ run_state[i] \in Nat /\ 0 % 256 = 0
    OBVIOUS
  <2>4. ARGB_LIGHT(i) \in Nat \X Nat /\ ARGB_MOD(i) \in Nat \X Nat
        /\ ARGB_PERIOD(i) \in Nat \X Nat /\ ARGB_DUTY(i) \in Nat \X Nat
    BY DEF ARGB_LIGHT, ARGB_MOD, ARGB_PERIOD, ARGB_DUTY, Leds
  <2>5. \A r \in Nat \X Nat, v \in Nat : Out(r, v) \in S
    BY DEF Out
  <2>6. b1 \in Seq(S) /\ OnlyWrites(b1) /\ Pairs(b1) = {light(i)}
    <3>1. b1 \in Seq(S) /\ Len(b1) = 1
      BY <2>3, <2>4, <2>5
    <3> QED
      BY <2>2, <3>1 DEF OnlyWrites, Pairs
  <2>7. b2 \in Seq(S) /\ OnlyWrites(b2) /\ Pairs(b2) = mode(i)
    <3>1. b2 \in Seq(S) /\ Len(b2) = 3
      BY <2>3, <2>4, <2>5
    <3> QED
      BY <2>2, <2>3, <3>1 DEF OnlyWrites, Pairs
  <2> HIDE DEF b1, b2, led, light, mode, S
  <2> QED
    BY <2>1, <2>6, <2>7, WritesJoined
<1> DEFINE body == led(0) \o led(1) \o led(2) \o led(3)
<1>2. /\ body \in Seq(S) /\ OnlyWrites(body)
      /\ Pairs(body) = UNION {{light(i)} \cup mode(i) : i \in Leds}
  <2>1. Leds = {0, 1, 2, 3}
    BY DEF Leds
  <2> DEFINE two   == led(0) \o led(1)
             three == two \o led(2)
             four  == three \o led(3)
             P(i)  == {light(i)} \cup mode(i)
  <2>2. \A i \in Leds : led(i) \in Seq(S) /\ OnlyWrites(led(i)) /\ Pairs(led(i)) = P(i)
    BY <1>1
  <2>3. body = four
    OBVIOUS
  <2> HIDE DEF led, P, S, body, four
  <2>4. two \in Seq(S) /\ OnlyWrites(two) /\ Pairs(two) = P(0) \cup P(1)
    BY <2>1, <2>2, WritesJoined
  <2> HIDE DEF two
  <2>5. three \in Seq(S) /\ OnlyWrites(three) /\ Pairs(three) = P(0) \cup P(1) \cup P(2)
    BY <2>1, <2>2, <2>4, WritesJoined
  <2> HIDE DEF three
  <2>6. /\ four \in Seq(S) /\ OnlyWrites(four)
        /\ Pairs(four) = P(0) \cup P(1) \cup P(2) \cup P(3)
    BY <2>1, <2>2, <2>5, WritesJoined DEF four
  <2>7. UNION {P(i) : i \in Leds} = P(0) \cup P(1) \cup P(2) \cup P(3)
    BY <2>1
  <2> QED
    BY <2>3, <2>6, <2>7 DEF P
<1>3. c = Section(LockIntr, body)
  BY DEF init_leds, Section, InitLed, ArgbLightSet, ArgbModeSet, Out, LockIntr, Unlock
<1> HIDE DEF body, c, S
<1>4. Makes(c, UNION {{light(i)} \cup mode(i) : i \in Leds})
  BY <1>2, <1>3, WritingCall DEF Makes, OnlyWrites
<1>5. \A i \in Leds : {light(i)} \cup mode(i) \subseteq Permitted
  <2> SUFFICES ASSUME NEW i \in Leds PROVE {light(i)} \cup mode(i) \subseteq Permitted
    OBVIOUS
  <2>1. brightness[i] % 256 \in Byte /\ run_state[i] % 256 \in 0 .. 3 /\ 0 \in Byte
    BY DEF Byte
  <2> QED
    BY <2>1 DEF Permitted
<1>6. Regs(c) = UNION {{ARGB_LIGHT(i)} \cup ModeOf(i) : i \in Leds}
  <2>1. \A i \in Leds : {p[1] : p \in {light(i)} \cup mode(i)} = {ARGB_LIGHT(i)} \cup ModeOf(i)
    BY DEF ModeOf
  <2> HIDE DEF light, mode
  <2> QED
    BY <1>4, <2>1 DEF Makes, Regs
<1>7. WholeGroups(c)
  <2> SUFFICES ASSUME NEW G \in Together, NEW r \in G \cap Regs(c) PROVE G \subseteq Regs(c)
    BY DEF WholeGroups
  <2>1. PICK i \in Leds : r \in ModeOf(i)
    BY <1>6, GroupsAreDisjoint
  <2>2. ModeOf(i) \in Together
    BY DEF Together
  <2>3. G = ModeOf(i)
    BY <2>1, <2>2, GroupsAreDisjoint
  <2> QED
    BY <1>6, <2>3
<1>8. Good(c)
  <2> HIDE DEF light, mode
  <2> QED
    BY <1>4, <1>5, <1>7 DEF Good, Makes
<1> QED
  BY <1>8 DEF c

(* Every callback of the driver, whatever its arguments: one critical      *)
(* section, legal values, groups as a whole. *)
LEMMA DriverCallsAreGood ==
  ASSUME NEW c, DriverCall(c) PROVE Good(c)
<1>1. ASSUME NEW f \in Fans, NEW word, NEW n PROVE Good(fan_write(f, word, n))
  <2>1. 127 \in 0 .. 255 /\ 0 \in 0 .. 255 /\ (n \in 1 .. 255 => n \in 0 .. 255)
    OBVIOUS
  <2>2. CASE word = "on"
    BY <2>1, <2>2, FanWritesAreGood DEF fan_write
  <2>3. CASE word = "off"
    BY <2>1, <2>3, FanWritesAreGood DEF fan_write
  <2>4. CASE word \notin {"on", "off"}
    BY <2>1, <2>4, FanWritesAreGood DEF fan_write
  <2> QED
    BY <2>2, <2>3, <2>4
<1>2. ASSUME NEW channel, NEW val PROVE Good(ug201x_hwmon_write(channel, val))
  BY FanWritesAreGood DEF ug201x_hwmon_write
<1> QED
  BY <1>1, <1>2, ReadsAreGood, WatchdogCallsAreGood, LedCallsAreGood, InitLedsIsGood
     DEF DriverCall

-----------------------------------------------------------------------------
(* What this says of the driver.                                           *)

(* No callback of the driver leaves the others waiting: one that owns      *)
(* ug_201x_lock never asks for it again and has not returned, whatever     *)
(* was asked of it (ug201x_hwmon_write calls SetFanDuty unlocked). *)
THEOREM DriverGivesLockBack ==
  ASSUME \A c \in Calls : DriverCall(c)
  PROVE  Spec => []OwnerNeverWaits
<1>1. \A c \in Calls : Disciplined(c)
  BY BusAssumption, DriverCallsAreGood, OneSectionIsDisciplined DEF Good
<1> QED
  BY <1>1, LockIsGivenBack

(* Until it is removed the driver, with any number of threads in it and    *)
(* whatever they ask, keeps the lock where its code says and lets every    *)
(* access reach its register: no callback returns with ug_201x_lock held,  *)
(* uses the window without it, or asks for it twice. *)
THEOREM DriverWindowIsSafe ==
  ASSUME \A c \in Calls : DriverCall(c)
  PROVE  Spec => [](OwnerIsInside /\ AccessReachesItsRegister)
<1>1. \A c \in Calls : Disciplined(c)
  BY BusAssumption, DriverCallsAreGood, OneSectionIsDisciplined DEF Good
<1> QED
  BY <1>1, WindowIsSafe

(* Each callback of the driver happens at one instant as far as any other  *)
(* can tell, for any number of threads and all arguments: the interleaved  *)
(* port writes implement the atomic calls. *)
THEOREM DriverCallsAreAtomic ==
  ASSUME \A c \in Calls : DriverCall(c)
  PROVE  Spec => CallsAreAtomic
<1>1. \A c \in Calls : OneSection(c)
  BY DriverCallsAreGood DEF Good
<1> QED
  BY <1>1, CallsHappenAtOnce

(* The registers of the controller hold the firmware's values or legal     *)
(* ones of the driver's, at every moment: a duty of at most 100 per cent   *)
(* whatever was asked of SetFanDuty, a mode the LEDs have, and nothing     *)
(* outside the driver's registers. *)
THEOREM RegistersAreLegal ==
  ASSUME \A c \in Calls : DriverCall(c)
  PROVE  Spec => []OnlyLegalValues
<1>1. \A c \in Calls : Disciplined(c)
  BY BusAssumption, DriverCallsAreGood, OneSectionIsDisciplined DEF Good
<1>2. ASSUME NEW r, NEW v, Written(r, v) PROVE <<r, v>> \in Permitted
  <2>1. PICK c \in Calls : \E i \in 1 .. Len(c) :
          c[i].op = "out" /\ c[i].reg = r /\ c[i].val = v
    BY <1>2 DEF Written
  <2>2. <<r, v>> \in Outs(c)
    BY <2>1 DEF Outs
  <2> QED
    BY <2>2, DriverCallsAreGood DEF Good
<1>3. HoldsWritten => OnlyLegalValues
  BY <1>2 DEF HoldsWritten, OnlyLegalValues
<1>4. Spec => []HoldsWritten
  BY <1>1, RegistersHoldWhatCallsWrite
<1> QED
  BY <1>3, <1>4, PTL

(* While the lock is free every colour, every LED mode and the watchdog's  *)
(* timeout are what one callback asked for, never a mixture of two. *)
THEOREM SettingsComeFromOneCall ==
  ASSUME \A c \in Calls : DriverCall(c)
  PROVE  Spec => []SettingsAreWhole
<1>1. \A c \in Calls : OneSection(c)
  BY DriverCallsAreGood DEF Good
<1>2. ASSUME NEW c \in Calls, NEW r PROVE r \in Regs(c) <=> Writes(c, 1, Len(c), r) # {}
  <2>1. ASSUME r \in Regs(c) PROVE Writes(c, 1, Len(c), r) # {}
    <3>1. PICK i \in 1 .. Len(c) : c[i].op = "out" /\ r = <<c[i].reg, c[i].val>>[1]
      BY <2>1 DEF Regs, Outs
    <3> QED
      BY <3>1 DEF Writes
  <2>2. ASSUME Writes(c, 1, Len(c), r) # {} PROVE r \in Regs(c)
    <3>1. PICK i \in 1 .. Len(c) : c[i].op = "out" /\ c[i].reg = r
      BY <2>2 DEF Writes
    <3>2. <<r, c[i].val>> \in Outs(c)
      BY <3>1 DEF Outs
    <3>3. <<r, c[i].val>>[1] = r
      OBVIOUS
    <3> QED
      BY <3>2, <3>3, Zenon DEF Regs
  <2> QED
    BY <2>1, <2>2
<1>3. ASSUME NEW G \in Together, G \subseteq Addr PROVE G \in CallGroups
  <2>1. \A c \in Calls : G \cap Regs(c) = {} \/ G \subseteq Regs(c)
    BY DriverCallsAreGood DEF Good, WholeGroups
  <2> QED
    BY <1>2, <1>3, <2>1 DEF CallGroups
<1>4. (lock = NoThread => \A G \in CallGroups : OfOneCall(mem, G)) => SettingsAreWhole
  BY <1>3 DEF SettingsAreWhole
<1> QED
  BY <1>1, <1>4, GroupsHoldOneCall, PTL

=============================================================================
