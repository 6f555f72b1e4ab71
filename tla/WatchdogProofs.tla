--------------------------- MODULE WatchdogProofs ---------------------------
(***************************************************************************)
(* Proofs about Watchdog, for every set of timeouts that fit the timer and *)
(* every way time may pass.  How long the timer runs (Timing) and who it   *)
(* runs for (Owners) are independent of each other.                        *)
(***************************************************************************)
EXTENDS Watchdog, TLAPS

(* The timer never runs ahead of the time since it was fed, as long as the *)
(* promise stands, so it cannot expire early.                              *)
NotAhead == cfg = 1 => elapsed <= age \/ age >= promised

Timing == TimerCoversPromise /\ NoEarlyReset /\ NotAhead

Owners == CoreKnowsTheTimer /\ StoppedInTheEnd

(* No request exceeds the sixteen bits of the timer.                       *)
RequestsFit == \A t \in Requests : t <= Calls!max_units

LEMMA SecondsFit ==
  \A t \in Nat : Seconds(t) \in Nat /\ Seconds(t) < 65536 /\ (t < 65536 => Seconds(t) = t)
BY DEF Seconds

LEMMA RoundedIsNat == \A t \in Nat : Calls!Rounded(t) \in Nat
BY DEF Calls!Rounded, Calls!max_units

LEMMA RoundedFits ==
  \A t \in Nat : t <= Calls!max_units => Calls!Rounded(t) = t /\ Seconds(t) = t
BY DEF Calls!Rounded, Calls!max_units, Seconds

LEMMA LeastIsNat ==
  ASSUME NEW a \in Nat, NEW b \in Nat
  PROVE  /\ Least(a, b) \in Nat
         /\ Least(a, b) <= a /\ Least(a, b) <= b
         /\ Least(a, b) = a \/ Least(a, b) = b
BY DEF Least

LEMMA DefaultFits ==
  DEFAULT_TIMEOUT \in Nat /\ Seconds(DEFAULT_TIMEOUT) = DEFAULT_TIMEOUT
  /\ DEFAULT_TIMEOUT < 65536
BY WatchdogAssumption, SecondsFit DEF min_timeout, Calls!max_units

(* What a request for t can store, and how the history records it.         *)
LEMMA RequestTypes ==
  ASSUME TypeOK, NEW t \in Requests
  PROVE  /\ Calls!Rounded(t) \in Nat
         /\ Seconds(Calls!Rounded(t)) \in Nat /\ Seconds(Calls!Rounded(t)) < 65536
         /\ Least(promised, Calls!Rounded(t)) \in Nat
         /\ Least(age, Least(promised, Calls!Rounded(t))) \in Nat
<1>1. promised \in Nat /\ age \in Nat
  BY DEF TypeOK
<1>2. t \in Nat
  BY WatchdogAssumption
<1>3. Calls!Rounded(t) \in Nat
  BY <1>2, RoundedIsNat
<1>4. Seconds(Calls!Rounded(t)) \in Nat /\ Seconds(Calls!Rounded(t)) < 65536
  BY <1>3, SecondsFit
<1>5. Least(promised, Calls!Rounded(t)) \in Nat
  BY <1>1, <1>3, LeastIsNat
<1>6. Least(age, Least(promised, Calls!Rounded(t))) \in Nat
  BY <1>1, <1>5, LeastIsNat
<1> QED
  BY <1>3, <1>4, <1>5, <1>6

LEMMA RequestTimes ==
  ASSUME TypeOK, RequestsFit, NEW t \in Requests
  PROVE  /\ Seconds(Calls!Rounded(t)) = Calls!Rounded(t)
         /\ Least(promised, Calls!Rounded(t)) <= promised
         /\ Least(promised, Calls!Rounded(t)) <= Calls!Rounded(t)
         /\ \/ Least(age, Least(promised, Calls!Rounded(t))) = age
            \/ Least(age, Least(promised, Calls!Rounded(t)))
                 = Least(promised, Calls!Rounded(t))
<1>1. promised \in Nat /\ age \in Nat
  BY DEF TypeOK
<1>2. t \in Nat /\ t <= Calls!max_units
  BY WatchdogAssumption DEF RequestsFit
<1>3. Calls!Rounded(t) = t /\ Seconds(t) = t
  BY <1>2, RoundedFits
<1>4. /\ Least(promised, t) \in Nat
      /\ Least(promised, t) <= promised /\ Least(promised, t) <= t
  BY <1>1, <1>2, LeastIsNat
<1>5. \/ Least(age, Least(promised, t)) = age
      \/ Least(age, Least(promised, t)) = Least(promised, t)
  BY <1>1, <1>4, LeastIsNat
<1> QED
  BY <1>3, <1>4, <1>5

(* What a lapse of d does to the clocks.                                   *)
LEMMA LapseTypes ==
  ASSUME TypeOK, NEW d \in Lapses
  PROVE  d \in Nat /\ d > 0 /\ Least(age + d, promised) \in Nat
<1>1. promised \in Nat /\ age \in Nat
  BY DEF TypeOK
<1>2. d \in Nat /\ d > 0
  BY WatchdogAssumption
<1>3. age + d \in Nat
  BY <1>1, <1>2
<1> QED
  BY <1>1, <1>2, <1>3, LeastIsNat

LEMMA LapseTimes ==
  ASSUME TypeOK, NEW d \in Lapses
  PROVE  Least(age + d, promised) = age + d \/ Least(age + d, promised) = promised
BY DEF Least


-----------------------------------------------------------------------------
(* Types.                                                                  *)

LEMMA TypeInductive == TypeOK /\ [Next]_vars => TypeOK'
<1> SUFFICES ASSUME TypeOK, [Next]_vars PROVE TypeOK'
  OBVIOUS
<1> USE DEF TypeOK, Armed, Stopped
<1>1. CASE OpenIdle
  BY <1>1 DEF OpenIdle, wdt_start, WdtStart
<1>2. CASE OpenActive
  BY <1>2 DEF OpenActive
<1>3. CASE Enable
  BY <1>3 DEF Enable, wdt_start, WdtStart
<1>4. CASE Disable
  BY <1>4 DEF Disable, wdt_stop, WdtStart
<1>5. CASE ReleaseStopping
  BY <1>5 DEF ReleaseStopping, wdt_stop, WdtStart
<1>6. CASE Release
  <2>1. CASE Nothing
    BY <1>6, <2>1 DEF Release, Nothing
  <2>2. CASE Feed
    BY <1>6, <2>2 DEF Release, Feed, wdt_start, WdtStart
  <2> QED
    BY <1>6, <2>1, <2>2 DEF Release, Ping
<1>7. CASE Write
  <2>1. CASE Nothing
    BY <1>7, <2>1 DEF Write, Nothing
  <2>2. CASE Feed
    BY <1>7, <2>2 DEF Write, Feed, wdt_start, WdtStart
  <2> QED
    BY <1>7, <2>1, <2>2 DEF Write, Ping
<1>8. CASE WriteMagic
  <2>1. CASE Nothing
    BY <1>8, <2>1 DEF WriteMagic, Nothing
  <2>2. CASE Feed
    BY <1>8, <2>2 DEF WriteMagic, Feed, wdt_start, WdtStart
  <2> QED
    BY <1>8, <2>1, <2>2 DEF WriteMagic, Ping
<1>9. ASSUME NEW t \in Requests, SetTimeout(t)
      PROVE  TypeOK'
  BY <1>9, RequestTypes DEF SetTimeout, wdt_set_timeout, Wdt_cfg_timeout
<1>10. ASSUME NEW t \in Requests, SetTimeoutStopped(t)
      PROVE  TypeOK'
  BY <1>10, RequestTypes DEF SetTimeoutStopped, wdt_set_timeout, Wdt_cfg_timeout
<1>11. ASSUME NEW t \in Requests, SetTimeoutUnfed(t)
      PROVE  TypeOK'
  BY <1>11, RequestTypes DEF SetTimeoutUnfed, wdt_set_timeout, Wdt_cfg_timeout
<1>12. ASSUME NEW t \in Requests, SetTimeoutInterrupted(t)
      PROVE  TypeOK'
  BY <1>12, RequestTypes DEF SetTimeoutInterrupted
<1>13. CASE Load
  BY <1>13, DefaultFits DEF Load, ug_cs201x_probe, Wdt_init
<1>14. CASE Bind
  BY <1>14, DefaultFits DEF Bind, ug_cs201x_probe, Wdt_init
<1>15. CASE Unbind
  <2>1. CASE wdt_stop
    BY <1>15, <2>1 DEF Unbind, wdt_stop, WdtStart
  <2>2. CASE StopInterrupted
    BY <1>15, <2>2 DEF Unbind, StopInterrupted
  <2> QED
    BY <1>15, <2>1, <2>2 DEF Unbind, ug_cs201x_remove
<1>16. CASE Unregister
  BY <1>16 DEF Unregister
<1>17. CASE Exit
  <2>1. CASE wdt_stop
    BY <1>17, <2>1 DEF Exit, wdt_stop, WdtStart
  <2>2. CASE StopInterrupted
    BY <1>17, <2>2 DEF Exit, StopInterrupted
  <2> QED
    BY <1>17, <2>1, <2>2 DEF Exit, ug_cs201x_remove
<1>18. CASE Unload
  BY <1>18 DEF Unload
<1>19. CASE Shutdown
  <2>1. CASE wdt_stop
    BY <1>19, <2>1 DEF Shutdown, wdt_stop, WdtStart
  <2>2. CASE StopInterrupted
    BY <1>19, <2>2 DEF Shutdown, StopInterrupted
  <2> QED
    BY <1>19, <2>1, <2>2 DEF Shutdown
<1>20. CASE ShutdownIdle
  BY <1>20 DEF ShutdownIdle
<1>21. CASE Boot
  BY <1>21 DEF Boot
<1>22. CASE ReleaseOrphan
  BY <1>22 DEF ReleaseOrphan
<1>23. ASSUME NEW d \in Lapses, Pass(d)
      PROVE  TypeOK'
  BY <1>23, LapseTypes DEF Pass
<1>24. ASSUME NEW d \in Lapses, Count(d)
      PROVE  TypeOK'
  BY <1>24, LapseTypes DEF Count
<1>25. ASSUME NEW d \in Lapses, Bite(d)
      PROVE  TypeOK'
  BY <1>25, LapseTypes DEF Bite
<1>26. CASE UNCHANGED vars
  BY <1>26 DEF vars
<1> QED
  BY <1>1, <1>2, <1>3, <1>4, <1>5, <1>6, <1>7, <1>8, <1>9, <1>10, <1>11, <1>12, <1>13,
     <1>14, <1>15, <1>16, <1>17, <1>18, <1>19, <1>20, <1>21, <1>22, <1>23, <1>24, <1>25,
     <1>26 DEF Next, Process, Machine, Time

(* The timer's bytes stay in sixteen bits and every clock is a number.     *)
THEOREM TypeCorrect == Spec => []TypeOK
<1>1. Init => TypeOK
  BY DEF Init, TypeOK
<1> QED
  BY <1>1, TypeInductive, PTL DEF Spec

-----------------------------------------------------------------------------
(* How long the timer runs.                                                *)

LEMMA TimingInductive ==
  ASSUME TypeOK, Timing, RequestsFit, [Next]_vars
  PROVE  Timing'
<1> SUFFICES ASSUME TypeOK, Timing, RequestsFit, [Next]_vars PROVE Timing'
  OBVIOUS
<1> USE DEF TypeOK, Timing, TimerCoversPromise, NoEarlyReset, NotAhead, Served, Armed,
       Stopped
<1>1. CASE OpenIdle
  BY <1>1 DEF OpenIdle, wdt_start, WdtStart
<1>2. CASE OpenActive
  BY <1>2 DEF OpenActive
<1>3. CASE Enable
  BY <1>3 DEF Enable, wdt_start, WdtStart
<1>4. CASE Disable
  BY <1>4 DEF Disable, wdt_stop, WdtStart
<1>5. CASE ReleaseStopping
  BY <1>5 DEF ReleaseStopping, wdt_stop, WdtStart
<1>6. CASE Release
  <2>1. CASE Nothing
    BY <1>6, <2>1 DEF Release, Nothing
  <2>2. CASE Feed
    BY <1>6, <2>2 DEF Release, Feed, wdt_start, WdtStart
  <2> QED
    BY <1>6, <2>1, <2>2 DEF Release, Ping
<1>7. CASE Write
  <2>1. CASE Nothing
    BY <1>7, <2>1 DEF Write, Nothing
  <2>2. CASE Feed
    BY <1>7, <2>2 DEF Write, Feed, wdt_start, WdtStart
  <2> QED
    BY <1>7, <2>1, <2>2 DEF Write, Ping
<1>8. CASE WriteMagic
  <2>1. CASE Nothing
    BY <1>8, <2>1 DEF WriteMagic, Nothing
  <2>2. CASE Feed
    BY <1>8, <2>2 DEF WriteMagic, Feed, wdt_start, WdtStart
  <2> QED
    BY <1>8, <2>1, <2>2 DEF WriteMagic, Ping
<1>9. ASSUME NEW t \in Requests, SetTimeout(t)
      PROVE  Timing'
  BY <1>9, RequestTypes, RequestTimes DEF SetTimeout, wdt_set_timeout, Wdt_cfg_timeout
<1>10. ASSUME NEW t \in Requests, SetTimeoutStopped(t)
      PROVE  Timing'
  BY <1>10, RequestTypes, RequestTimes DEF SetTimeoutStopped, wdt_set_timeout,
     Wdt_cfg_timeout
<1>11. ASSUME NEW t \in Requests, SetTimeoutUnfed(t)
      PROVE  Timing'
  BY <1>11, RequestTypes, RequestTimes DEF SetTimeoutUnfed, wdt_set_timeout,
     Wdt_cfg_timeout
<1>12. ASSUME NEW t \in Requests, SetTimeoutInterrupted(t)
      PROVE  Timing'
  BY <1>12, RequestTypes, RequestTimes DEF SetTimeoutInterrupted
<1>13. CASE Load
  BY <1>13, DefaultFits DEF Load, ug_cs201x_probe, Wdt_init
<1>14. CASE Bind
  BY <1>14, DefaultFits DEF Bind, ug_cs201x_probe, Wdt_init
<1>15. CASE Unbind
  <2>1. CASE wdt_stop
    BY <1>15, <2>1 DEF Unbind, wdt_stop, WdtStart
  <2>2. CASE StopInterrupted
    BY <1>15, <2>2 DEF Unbind, StopInterrupted
  <2> QED
    BY <1>15, <2>1, <2>2 DEF Unbind, ug_cs201x_remove
<1>16. CASE Unregister
  BY <1>16 DEF Unregister
<1>17. CASE Exit
  <2>1. CASE wdt_stop
    BY <1>17, <2>1 DEF Exit, wdt_stop, WdtStart
  <2>2. CASE StopInterrupted
    BY <1>17, <2>2 DEF Exit, StopInterrupted
  <2> QED
    BY <1>17, <2>1, <2>2 DEF Exit, ug_cs201x_remove
<1>18. CASE Unload
  BY <1>18 DEF Unload
<1>19. CASE Shutdown
  <2>1. CASE wdt_stop
    BY <1>19, <2>1 DEF Shutdown, wdt_stop, WdtStart
  <2>2. CASE StopInterrupted
    BY <1>19, <2>2 DEF Shutdown, StopInterrupted
  <2> QED
    BY <1>19, <2>1, <2>2 DEF Shutdown
<1>20. CASE ShutdownIdle
  BY <1>20 DEF ShutdownIdle
<1>21. CASE Boot
  BY <1>21 DEF Boot
<1>22. CASE ReleaseOrphan
  BY <1>22 DEF ReleaseOrphan
<1>23. ASSUME NEW d \in Lapses, Pass(d)
      PROVE  Timing'
  BY <1>23, LapseTypes, LapseTimes DEF Pass
<1>24. ASSUME NEW d \in Lapses, Count(d)
      PROVE  Timing'
  BY <1>24, LapseTypes, LapseTimes DEF Count
<1>25. ASSUME NEW d \in Lapses, Bite(d)
      PROVE  Timing'
  BY <1>25, LapseTypes, LapseTimes DEF Bite
<1>26. CASE UNCHANGED vars
  BY <1>26 DEF vars
<1> QED
  BY <1>1, <1>2, <1>3, <1>4, <1>5, <1>6, <1>7, <1>8, <1>9, <1>10, <1>11, <1>12, <1>13,
     <1>14, <1>15, <1>16, <1>17, <1>18, <1>19, <1>20, <1>21, <1>22, <1>23, <1>24, <1>25,
     <1>26 DEF Next, Process, Machine, Time

-----------------------------------------------------------------------------
(* Who it runs for.                                                        *)

LEMMA OwnersInductive == TypeOK /\ Owners /\ [Next]_vars => Owners'
<1> SUFFICES ASSUME TypeOK, Owners, [Next]_vars PROVE Owners'
  OBVIOUS
<1> USE DEF TypeOK, Owners, CoreKnowsTheTimer, StoppedInTheEnd, Running,
       Served, Active, Armed, Stopped
<1>1. CASE OpenIdle
  BY <1>1 DEF OpenIdle, wdt_start, WdtStart
<1>2. CASE OpenActive
  BY <1>2 DEF OpenActive
<1>3. CASE Enable
  BY <1>3 DEF Enable, wdt_start, WdtStart
<1>4. CASE Disable
  BY <1>4 DEF Disable, wdt_stop, WdtStart
<1>5. CASE ReleaseStopping
  BY <1>5 DEF ReleaseStopping, wdt_stop, WdtStart
<1>6. CASE Release
  <2>1. CASE Nothing
    BY <1>6, <2>1 DEF Release, Nothing
  <2>2. CASE Feed
    BY <1>6, <2>2 DEF Release, Feed, wdt_start, WdtStart
  <2> QED
    BY <1>6, <2>1, <2>2 DEF Release, Ping
<1>7. CASE Write
  <2>1. CASE Nothing
    BY <1>7, <2>1 DEF Write, Nothing
  <2>2. CASE Feed
    BY <1>7, <2>2 DEF Write, Feed, wdt_start, WdtStart
  <2> QED
    BY <1>7, <2>1, <2>2 DEF Write, Ping
<1>8. CASE WriteMagic
  <2>1. CASE Nothing
    BY <1>8, <2>1 DEF WriteMagic, Nothing
  <2>2. CASE Feed
    BY <1>8, <2>2 DEF WriteMagic, Feed, wdt_start, WdtStart
  <2> QED
    BY <1>8, <2>1, <2>2 DEF WriteMagic, Ping
<1>9. ASSUME NEW t \in Requests, SetTimeout(t)
      PROVE  Owners'
  BY <1>9 DEF SetTimeout, wdt_set_timeout, Wdt_cfg_timeout
<1>10. ASSUME NEW t \in Requests, SetTimeoutStopped(t)
      PROVE  Owners'
  BY <1>10 DEF SetTimeoutStopped, wdt_set_timeout, Wdt_cfg_timeout
<1>11. ASSUME NEW t \in Requests, SetTimeoutUnfed(t)
      PROVE  Owners'
  BY <1>11 DEF SetTimeoutUnfed, wdt_set_timeout, Wdt_cfg_timeout
<1>12. ASSUME NEW t \in Requests, SetTimeoutInterrupted(t)
      PROVE  Owners'
  BY <1>12 DEF SetTimeoutInterrupted
<1>13. CASE Load
  BY <1>13 DEF Load, ug_cs201x_probe, Wdt_init
<1>14. CASE Bind
  BY <1>14 DEF Bind, ug_cs201x_probe, Wdt_init
<1>15. CASE Unbind
  <2>1. CASE wdt_stop
    BY <1>15, <2>1 DEF Unbind, wdt_stop, WdtStart
  <2>2. CASE StopInterrupted
    BY <1>15, <2>2 DEF Unbind, StopInterrupted
  <2> QED
    BY <1>15, <2>1, <2>2 DEF Unbind, ug_cs201x_remove
<1>16. CASE Unregister
  BY <1>16 DEF Unregister
<1>17. CASE Exit
  <2>1. CASE wdt_stop
    BY <1>17, <2>1 DEF Exit, wdt_stop, WdtStart
  <2>2. CASE StopInterrupted
    BY <1>17, <2>2 DEF Exit, StopInterrupted
  <2> QED
    BY <1>17, <2>1, <2>2 DEF Exit, ug_cs201x_remove
<1>18. CASE Unload
  BY <1>18 DEF Unload
<1>19. CASE Shutdown
  <2>1. CASE wdt_stop
    BY <1>19, <2>1 DEF Shutdown, wdt_stop, WdtStart
  <2>2. CASE StopInterrupted
    BY <1>19, <2>2 DEF Shutdown, StopInterrupted
  <2> QED
    BY <1>19, <2>1, <2>2 DEF Shutdown
<1>20. CASE ShutdownIdle
  BY <1>20 DEF ShutdownIdle, Registered
<1>21. CASE Boot
  BY <1>21 DEF Boot
<1>22. CASE ReleaseOrphan
  BY <1>22 DEF ReleaseOrphan
<1>23. ASSUME NEW d \in Lapses, Pass(d)
      PROVE  Owners'
  BY <1>23 DEF Pass
<1>24. ASSUME NEW d \in Lapses, Count(d)
      PROVE  Owners'
  BY <1>24 DEF Count
<1>25. ASSUME NEW d \in Lapses, Bite(d)
      PROVE  Owners'
  BY <1>25 DEF Bite
<1>26. CASE UNCHANGED vars
  BY <1>26 DEF vars
<1> QED
  BY <1>1, <1>2, <1>3, <1>4, <1>5, <1>6, <1>7, <1>8, <1>9, <1>10, <1>11, <1>12, <1>13,
     <1>14, <1>15, <1>16, <1>17, <1>18, <1>19, <1>20, <1>21, <1>22, <1>23, <1>24, <1>25,
     <1>26 DEF Next, Process, Machine, Time

-----------------------------------------------------------------------------

(* A process that feeds the watchdog in time is never reset, provided no   *)
(* request exceeds the sixteen bits of the timer (wdt_set_timeout).        *)
THEOREM FedMachineIsNotReset ==
  ASSUME RequestsFit
  PROVE  Spec => [](TimerCoversPromise /\ NoEarlyReset)
<1>1. Init => TypeOK /\ Timing
  BY DEF Init, TypeOK, Timing, TimerCoversPromise, NoEarlyReset, NotAhead
<1>2. TypeOK /\ Timing /\ [Next]_vars => TypeOK' /\ Timing'
  BY TypeInductive, TimingInductive
<1>3. Timing => TimerCoversPromise /\ NoEarlyReset
  BY DEF Timing
<1> QED
  BY <1>1, <1>2, <1>3, PTL DEF Spec

(* The timer runs for an active watchdog and is stopped in the end, but    *)
(* for what the invariants name: wdt_set_timeout on a stopped watchdog,    *)
(* Wdt_init under one left active by an unbind, an interrupted wdt_stop in *)
(* remove or at shutdown, a process that arms the timer while the driver   *)
(* is being unbound.                                                       *)
THEOREM TimerHasAnOwner == Spec => [](CoreKnowsTheTimer /\ StoppedInTheEnd)
<1>1. Init => TypeOK /\ Owners
  BY DEF Init, TypeOK, Owners, CoreKnowsTheTimer, StoppedInTheEnd,
     Running, Active
<1>2. TypeOK /\ Owners /\ [Next]_vars => TypeOK' /\ Owners'
  BY TypeInductive, OwnersInductive
<1>3. Owners => CoreKnowsTheTimer /\ StoppedInTheEnd
  BY DEF Owners
<1> QED
  BY <1>1, <1>2, <1>3, PTL DEF Spec

=============================================================================
