-------------------------- MODULE FanControlProofs --------------------------
(***************************************************************************)
(* The two roundings of the fan duty, for every value, and what they mean  *)
(* for everyone who sets the fans.                                         *)
(***************************************************************************)
EXTENDS FanControl, TLAPS

(* What integer division by a positive constant returns. *)
LEMMA Quotient ==
  ASSUME NEW n \in Nat, NEW d \in Nat \ {0}
  PROVE  /\ n \div d \in Nat
         /\ d * (n \div d) <= n
         /\ n < d * (n \div d) + d
  OBVIOUS

(* A pwm value becomes a percentage, and is read back at most 3 lower. *)
LEMMA ReadBack ==
  ASSUME NEW p \in 0 .. PWM_MAX
  PROVE  ToDuty(p) \in 0 .. 100 /\ ToPwm(ToDuty(p)) \in p - 3 .. p
<1> DEFINE q == (p * 100) \div 255
           r == (q * 255) \div 100
<1>1. p \in Nat /\ p <= 255
  BY DEF PWM_MAX
<1>2. q \in Nat /\ 255 * q <= p * 100 /\ p * 100 < 255 * q + 255
  BY <1>1, Quotient
<1>3. r \in Nat /\ 100 * r <= q * 255 /\ q * 255 < 100 * r + 100
  BY <1>2, Quotient
<1> HIDE DEF q, r
<1>4. q <= 100 /\ r <= p /\ p - 3 <= r
  BY <1>1, <1>2, <1>3
<1> QED
  BY <1>1, <1>2, <1>3, <1>4 DEF q, r, ToDuty, ToPwm

(* A percentage is shown as a value whose own percentage is at most 1 lower *)
(* and never higher: whoever writes back what it read never speeds a fan up. *)
THEOREM WriteBackNeverRaises ==
  ASSUME NEW d \in 0 .. 100
  PROVE  ToPwm(d) \in 0 .. PWM_MAX /\ ToDuty(ToPwm(d)) \in d - 1 .. d
<1> DEFINE r == (d * 255) \div 100
           q == (r * 100) \div 255
<1>1. d \in Nat /\ d <= 100
  OBVIOUS
<1>2. r \in Nat /\ 100 * r <= d * 255 /\ d * 255 < 100 * r + 100
  BY <1>1, Quotient
<1>3. q \in Nat /\ 255 * q <= r * 100 /\ r * 100 < 255 * q + 255
  BY <1>2, Quotient
<1> HIDE DEF q, r
<1>4. r <= 255 /\ q <= d /\ d - 1 <= q
  BY <1>1, <1>2, <1>3
<1> QED
  BY <1>1, <1>2, <1>3, <1>4 DEF q, r, ToDuty, ToPwm, PWM_MAX

-----------------------------------------------------------------------------
(* The invariant: a register holds what was last asked for, converted once, *)
(* or still what the firmware left in it.                                  *)

Converted ==
  \A f \in Fans : duty[f] = ToDuty(asked[f]) \/ asked[f] = ToPwm(duty[f])

IInv == TypeOK /\ Converted

(* The failsafe is a value of the hwmon scale, and worth exactly 60%. *)
LEMMA FailsafeValue ==
  PWM_VALUE = 153 /\ ToDuty(PWM_VALUE) = FAILSAFE_PERCENT
<1>1. PWM_VALUE = 153
  BY DEF PWM_VALUE, PWM_MAX, FAILSAFE_PERCENT
<1> QED
  BY <1>1 DEF ToDuty, FAILSAFE_PERCENT

LEMMA SettingAFan ==
  ASSUME IInv, NEW f \in Fans, NEW pwm \in 0 .. PWM_MAX, SetFanDuty(f, pwm)
  PROVE  /\ duty' \in [Fans -> 0 .. 100]
         /\ asked' \in [Fans -> 0 .. PWM_MAX]
         /\ Converted'
<1>1. ToDuty(pwm) \in 0 .. 100
  BY ReadBack
<1>2. /\ duty \in [Fans -> 0 .. 100] /\ asked \in [Fans -> 0 .. PWM_MAX]
      /\ duty' = [duty EXCEPT ![f] = ToDuty(pwm)]
      /\ asked' = [asked EXCEPT ![f] = pwm]
  BY DEF IInv, TypeOK, SetFanDuty
<1>3. ASSUME NEW g \in Fans
      PROVE  duty'[g] = ToDuty(asked'[g]) \/ asked'[g] = ToPwm(duty'[g])
  <2>1. CASE g = f
    BY <1>2, <2>1
  <2>2. CASE g # f
    BY <1>2, <2>2 DEF IInv, Converted
  <2> QED
    BY <2>1, <2>2
<1> QED
  BY <1>1, <1>2, <1>3 DEF Converted

LEMMA FanInductive == IInv /\ [Next]_vars => IInv'
<1> SUFFICES ASSUME IInv, [Next]_vars PROVE IInv'
  OBVIOUS
<1> USE FanAssumption
<1>1. CASE UNCHANGED <<duty, asked>> /\ (Script \/ Load \/ Unload \/ DaemonChanges)
  <2>1. TypeOK'
    BY <1>1 DEF IInv, TypeOK, Script, CheckApi, FindHwmonDir, Failsafe, Load, Unload,
                DaemonChanges
  <2>2. Converted'
    BY <1>1 DEF IInv, Converted
  <2> QED
    BY <2>1, <2>2 DEF IInv
<1>2. ASSUME NEW f \in Fans, NEW pwm \in PwmValues,
             DaemonWrites(f, pwm) \/ ProcWrites(f, pwm)
      PROVE  IInv'
  <2>1. SetFanDuty(f, pwm) /\ UNCHANGED <<loaded, dir, daemon, pc, found>>
    BY <1>2 DEF DaemonWrites, ProcWrites
  <2> QED
    BY <2>1, SettingAFan DEF IInv, TypeOK
<1>3. ASSUME NEW f \in Fans, Failsafe(f), SetFanDuty(f, PWM_VALUE)
      PROVE  IInv'
  <2>1. PWM_VALUE \in 0 .. PWM_MAX
    BY FailsafeValue DEF PWM_MAX
  <2>2. /\ duty' \in [Fans -> 0 .. 100] /\ asked' \in [Fans -> 0 .. PWM_MAX]
        /\ Converted'
    BY <1>3, <2>1, SettingAFan
  <2>3. UNCHANGED <<loaded, dir, daemon, found>> /\ pc' \in {"pwm2", "idle"}
    BY <1>3 DEF Failsafe
  <2> QED
    BY <2>2, <2>3 DEF IInv, TypeOK
<1>4. CASE UNCHANGED vars
  BY <1>4 DEF vars, IInv, TypeOK, Converted
<1>5. Script => UNCHANGED <<duty, asked>>
                \/ \E f \in Fans : Failsafe(f) /\ SetFanDuty(f, PWM_VALUE)
  BY DEF Script, CheckApi, FindHwmonDir, Failsafe
<1>6. Load \/ Unload \/ DaemonChanges => UNCHANGED <<duty, asked>>
  BY DEF Load, Unload, DaemonChanges
<1> QED
  BY <1>1, <1>2, <1>3, <1>4, <1>5, <1>6 DEF Next

LEMMA ConvertedIsClose == IInv => ReadBackIsClose
<1> SUFFICES ASSUME IInv, NEW f \in Fans
             PROVE  /\ GetFanPwm(f) \in asked[f] - 3 .. asked[f]
                    /\ asked[f] = PWM_VALUE => /\ duty[f] = FAILSAFE_PERCENT
                                               /\ GetFanPwm(f) = PWM_VALUE
  BY DEF ReadBackIsClose
<1>1. asked[f] \in 0 .. PWM_MAX /\ duty[f] \in 0 .. 100
  BY DEF IInv, TypeOK
<1>2. CASE duty[f] = ToDuty(asked[f])
  <2>1. GetFanPwm(f) \in asked[f] - 3 .. asked[f]
    BY <1>1, <1>2, ReadBack DEF GetFanPwm
  <2>2. ToPwm(FAILSAFE_PERCENT) = PWM_VALUE
    BY FailsafeValue DEF ToPwm, FAILSAFE_PERCENT
  <2> QED
    BY <1>2, <2>1, <2>2, FailsafeValue DEF GetFanPwm
<1>3. CASE asked[f] = ToPwm(duty[f])
  <2>1. GetFanPwm(f) = asked[f] /\ asked[f] \in Nat
    BY <1>1, <1>3 DEF GetFanPwm, PWM_MAX
  <2>2. ASSUME asked[f] = PWM_VALUE PROVE duty[f] = FAILSAFE_PERCENT
    <3>1. (duty[f] * 255) \div 100 = 153
      BY <1>3, <2>2, FailsafeValue DEF ToPwm
    <3>2. 100 * 153 <= duty[f] * 255 /\ duty[f] * 255 < 100 * 153 + 100
      BY <1>1, <3>1, Quotient
    <3> QED
      BY <1>1, <3>2 DEF FAILSAFE_PERCENT
  <2> QED
    BY <2>1, <2>2
<1> QED
  BY <1>2, <1>3 DEF IInv, Converted

(* Whatever the curves, the operators, the failsafe and the reloads of the *)
(* driver do, the registers hold percentages, and hwmon shows what was     *)
(* asked for within the two roundings. *)
THEOREM FansAreAsAsked == Spec => [](TypeOK /\ ReadBackIsClose)
<1>1. Init => IInv
  <2> SUFFICES ASSUME Init PROVE IInv
    OBVIOUS
  <2>1. ToPwm(FirstDuty) \in 0 .. PWM_MAX
    BY FanAssumption, WriteBackNeverRaises
  <2> QED
    BY <2>1, FanAssumption DEF Init, IInv, TypeOK, Converted
<1>2. IInv => TypeOK /\ ReadBackIsClose
  BY ConvertedIsClose DEF IInv
<1> QED
  BY <1>1, <1>2, FanInductive, PTL DEF Spec

=============================================================================
