-------------------------- MODULE LifecycleProofs --------------------------
(***************************************************************************)
(* Proofs about Lifecycle, for any number of processes, any word the       *)
(* firmware left and any number of failing registrations.                  *)
(***************************************************************************)
EXTENDS Lifecycle, TLAPS

(* From after the n-th step of probe until the m-th step of remove is over. *)
Between(n, m) ==
  \/ doing = "probe" /\ pc > n
  \/ doing = "bound"
  \/ doing = "remove" /\ pc <= m

Position ==
  /\ doing = "init" => pc = 1
  /\ doing = "probe" => pc <= 13
  /\ region = "driver" => doing = "probe" /\ pc = 2
  /\ Between(4, 13) => maps = lost + 1 /\ addr = "mapped"
  /\ ~ Between(4, 13) => maps = lost
  /\ Between(5, 12) => lock = "ready"
  /\ doing = "remove" => lock # "raw"
  /\ doing = "remove" /\ pc > 8 => flag = 1
  /\ slow => flag = 1 /\ ~ Between(11, 11)

(* What is registered, called or queued at which times.                    *)
UpInTime ==
  /\ "wdt" \in up => Between(6, 4)
  /\ "fan" \in up => Between(7, 5)
  /\ "startup" \in up => Between(8, 6)
  /\ "temp" \in up => Between(9, 7)
  /\ "hwmon" \in up => Between(10, 14)
  /\ "leds" \in up => Between(11, 10)
  /\ work = "queued" => Between(11, 11) \/ slow

CalledInTime(t) ==
  /\ call[t] = "wdt" => Between(6, 4)
  /\ call[t] = "fan" => Between(7, 5)
  /\ call[t] = "startup" => Between(8, 6)
  /\ call[t] = "temp" => Between(9, 7)
  /\ call[t] = "hwmon" => Between(10, 14)
  /\ call[t] = "leds" => Between(11, 10)
  /\ call[t] = "work" => t = Worker /\ Between(11, 9)
  /\ t \in inside => call[t] # "none"

InTime == UpInTime /\ \A t \in Threads : CalledInTime(t)

IInv == TypeOK /\ Position /\ InTime

(* Where remove and probe have the lock; who else may; and which calls are *)
(* in entries that were lost.                                              *)
AtUnlock ==
  \/ doing = "probe" /\ pc = 13
  \/ doing = "remove" /\ pc = 3

Ownership ==
  /\ owner \in Threads => owner \in inside
  /\ owner = Binder => AtUnlock
  /\ "stray" \notin up =>
       /\ \A t \in inside : owner = t
       /\ AtUnlock => owner = Binder
       /\ \A t \in Threads : call[t] # "stray"
  /\ doing = "probe" =>
       \A t \in Threads : call[t] \in Entries => call[t] \in up

LEMMA ProbeOrder ==
  ASSUME doing = "probe" => pc \in 1 .. 13
  PROVE  /\ Probing("enter") => doing = "probe" /\ pc = 1
         /\ Probing("chip") => doing = "probe" /\ pc = 2
         /\ Probing("setup") => doing = "probe" /\ pc = 3
         /\ Probing("map") => doing = "probe" /\ pc = 4
         /\ Probing("lock") => doing = "probe" /\ pc = 5
         /\ Probing("wdt") => doing = "probe" /\ pc = 6
         /\ Probing("fan") => doing = "probe" /\ pc = 7
         /\ Probing("startup") => doing = "probe" /\ pc = 8
         /\ Probing("temp") => doing = "probe" /\ pc = 9
         /\ Probing("hwmon") => doing = "probe" /\ pc = 10
         /\ Probing("leds") => doing = "probe" /\ pc = 11
         /\ Probing("init") => doing = "probe" /\ pc = 12
         /\ Probing("unlock") => doing = "probe" /\ pc = 13
BY DEF Probing, probe_steps

LEMMA RemoveOrder ==
  ASSUME pc \in 1 .. 15
  PROVE  /\ Removing("flow") => doing = "remove" /\ pc = 1
         /\ Removing("stop") => doing = "remove" /\ pc = 2
         /\ Removing("unlock") => doing = "remove" /\ pc = 3
         /\ Removing("wdt") => doing = "remove" /\ pc = 4
         /\ Removing("fan") => doing = "remove" /\ pc = 5
         /\ Removing("startup") => doing = "remove" /\ pc = 6
         /\ Removing("temp") => doing = "remove" /\ pc = 7
         /\ Removing("flag") => doing = "remove" /\ pc = 8
         /\ Removing("cancel") => doing = "remove" /\ pc = 9
         /\ Removing("leds") => doing = "remove" /\ pc = 10
         /\ Removing("settle") => doing = "remove" /\ pc = 11
         /\ Removing("destroy") => doing = "remove" /\ pc = 12
         /\ Removing("unmap") => doing = "remove" /\ pc = 13
         /\ Removing("hwmon") => doing = "remove" /\ pc = 14
BY DEF Removing, remove_steps

LEMMA Lengths == Len(remove_steps) = 14
BY DEF remove_steps

LEMMA WithdrawalOrder ==
  ASSUME pc \in 1 .. 15, NEW i \in Interfaces, Removing(i)
  PROVE  /\ doing = "remove"
         /\ \/ i = "wdt" /\ pc = 4
            \/ i = "fan" /\ pc = 5
            \/ i = "startup" /\ pc = 6
            \/ i = "temp" /\ pc = 7
            \/ i = "leds" /\ pc = 10
            \/ i = "hwmon" /\ pc = 14
BY DEF Removing, remove_steps, Interfaces, Entries

LEMMA EntryOrder ==
  ASSUME doing = "probe" => pc \in 1 .. 13, NEW e \in Entries, Probing(e)
  PROVE  doing = "probe" /\ pc \in 7 .. 9
BY DEF Probing, probe_steps, Entries

LEMMA HwmonStep == (CHOOSE n \in DOMAIN probe_steps : probe_steps[n] = "hwmon") = 10
BY DEF probe_steps

LEMMA TypeNext == TypeOK /\ Position /\ [Next]_vars => TypeOK'
<1> SUFFICES ASSUME TypeOK /\ Position, [Next]_vars PROVE TypeOK'
  OBVIOUS
<1> USE LifecycleAssumption, ProbeOrder, RemoveOrder, Lengths DEF TypeOK, Position, Between
<1>1. CASE platform_driver_register
  <2>1. call' \in [Threads -> Interfaces \cup {"none", "stray", "work"}]
    BY <1>1 DEF platform_driver_register
  <2>2. inside' \subseteq Threads /\ slow' \in BOOLEAN
    BY <1>1 DEF platform_driver_register
  <2>3. UNCHANGED <<region, maps, power, asked, lost>>
    BY <1>1 DEF platform_driver_register
  <2> QED
    BY <1>1, <2>1, <2>2, <2>3 DEF platform_driver_register
<1>2. CASE platform_device_register
  BY <1>2 DEF platform_device_register, chip
<1>3. CASE cs201x_exit
  BY <1>3 DEF cs201x_exit, chip
<1>4. CASE Unbind
  BY <1>4 DEF Unbind, chip
<1>5. CASE Bind
  BY <1>5 DEF Bind, chip
<1>6. CASE superio_enter
  BY <1>6 DEF superio_enter, GoOn
<1>7. CASE superio_enter_busy
  BY <1>7 DEF superio_enter_busy, Quit, chip
<1>8. CASE UnknownChip
  BY <1>8 DEF UnknownChip, superio_exit, Quit
<1>9. CASE InitEc
  BY <1>9 DEF InitEc, superio_exit, GoOn
<1>10. CASE Setup
  BY <1>10 DEF Setup, GoOn, chip
<1>11. CASE ioremap
  <2>1. maps' \in 0 .. MaxLost + 1
    BY <1>11 DEF ioremap, GoOn, Quit
  <2>2. pc' \in 1 .. Len(remove_steps) + 1
    BY <1>11 DEF ioremap, GoOn, Quit
  <2> QED
    BY <1>11, <2>1, <2>2 DEF ioremap, GoOn, Quit
<1>12. CASE mutex_init
  BY <1>12 DEF mutex_init, GoOn
<1>13. CASE watchdog_register_device
  <2>1. up' \subseteq Interfaces \cup {"stray"}
    BY <1>13 DEF watchdog_register_device, Interfaces
  <2>2. lost' \in 0 .. MaxLost
    BY <1>13 DEF watchdog_register_device
  <2>3. pc' \in 1 .. Len(remove_steps) + 1
    BY <1>13 DEF watchdog_register_device, GoOn, Quit
  <2> QED
    BY <1>13, <2>1, <2>2, <2>3 DEF watchdog_register_device, GoOn, Quit, chip
<1>14. CASE \E e \in Entries : procfs_create(e)
  <2> PICK e \in Entries : procfs_create(e)
    BY <1>14
  <2>1. up' \subseteq Interfaces \cup {"stray"}
    BY DEF procfs_create, Interfaces
  <2> QED
    BY <2>1 DEF procfs_create, Entries, GoOn, chip
<1>15. CASE \E e \in Entries : procfs_create_fails(e)
  BY <1>15, HwmonStep DEF procfs_create_fails, Entries, chip
<1>16. CASE hwmon_device_register
  <2>1. up' \subseteq Interfaces \cup {"stray"}
    BY <1>16 DEF hwmon_device_register, Interfaces
  <2> QED
    BY <1>16, <2>1 DEF hwmon_device_register, GoOn, chip
<1>17. CASE ug_201_leds_init
  <2>1. up' \subseteq Interfaces \cup {"stray"}
    BY <1>17 DEF ug_201_leds_init, Interfaces
  <2>2. work' \in {"idle", "queued"} /\ slow' \in BOOLEAN
    BY <1>17 DEF ug_201_leds_init
  <2> QED
    BY <1>17, <2>1, <2>2 DEF ug_201_leds_init, GoOn, chip
<1>18. CASE StopFlow
  BY <1>18 DEF StopFlow, GoOn, chip
<1>19. CASE StopWatchdog
  BY <1>19 DEF StopWatchdog, GoOn, chip
<1>20. CASE StopInterrupted
  BY <1>20 DEF StopInterrupted, chip
<1>21. CASE \E i \in Interfaces : Withdraw(i)
  BY <1>21 DEF Withdraw, core, chip
<1>22. CASE \E i \in Interfaces : Drained(i)
  <2> PICK i \in Interfaces : Drained(i)
    BY <1>22
  <2>1. pc' \in 1 .. Len(remove_steps) + 1
    BY DEF Drained, GoOn, Removing
  <2> QED
    BY <2>1 DEF Drained, GoOn, chip
<1>23. CASE SetFlag
  BY <1>23 DEF SetFlag, GoOn, chip
<1>24. CASE cancel_work_sync
  BY <1>24 DEF cancel_work_sync, GoOn, chip
<1>25. CASE Settle
  BY <1>25 DEF Settle, GoOn, chip
<1>26. CASE mutex_destroy
  BY <1>26 DEF mutex_destroy, GoOn
<1>27. CASE iounmap
  BY <1>27 DEF iounmap, GoOn
<1>28. CASE Removed
  BY <1>28 DEF Removed, chip
<1>29. CASE RunWork
  BY <1>29 DEF RunWork, core, chip
<1>30. CASE \E c \in Clients, i \in Interfaces \cup {"stray"} : Call(c, i)
  <2> PICK c \in Clients, i \in Interfaces \cup {"stray"} : Call(c, i)
    BY <1>30
  <2>1. call' \in [Threads -> Interfaces \cup {"none", "stray", "work"}]
    BY DEF Call, Threads
  <2> QED
    BY <2>1 DEF Call, core, chip
<1>31. CASE \E c \in Clients : ScheduleWork(c)
  BY <1>31 DEF ScheduleWork, Return, core, chip
<1>32. CASE \E c \in Clients : Interrupted(c)
  <2> PICK c \in Clients : Interrupted(c)
    BY <1>32
  <2>1. call' \in [Threads -> Interfaces \cup {"none", "stray", "work"}]
    BY DEF Interrupted, Return, Threads
  <2> QED
    BY <2>1 DEF Interrupted, core, chip
<1>33. CASE \E c \in Clients, word \in Words : startup_write(c, word)
  BY <1>33 DEF startup_write, Release, Return, AutoPowerOnSet, AutoPowerOnGet, ModeOf,
     core, chip
<1>34. CASE \E t \in Threads : Acquire(t)
  BY <1>34 DEF Acquire, core, chip
<1>35. CASE \E t \in Threads : Leave(t)
  BY <1>35 DEF Leave, Release, Return, core, chip
<1>36. CASE UNCHANGED vars
  BY <1>36 DEF vars
<1>37. CASE init_leds
  BY <1>37 DEF init_leds, Bound, GoOn, chip
<1>38. CASE init_leds_done
  BY <1>38 DEF init_leds_done, Bound, chip
<1>39. CASE Stopped
  BY <1>39 DEF Stopped, GoOn, chip
<1> QED
  BY <1>1, <1>2, <1>3, <1>4, <1>5, <1>6, <1>7, <1>8, <1>9, <1>10, <1>11, <1>12,
     <1>13, <1>14, <1>15, <1>16, <1>17, <1>18, <1>19, <1>20, <1>21, <1>22, <1>23, <1>24,
     <1>25, <1>26, <1>27, <1>28, <1>29, <1>30, <1>31, <1>32, <1>33, <1>34, <1>35, <1>36,
     <1>37, <1>38, <1>39 DEF Next, Module, Probe, Remove, Client

LEMMA PositionNext == TypeOK /\ Position /\ [Next]_vars => Position'
<1> SUFFICES ASSUME TypeOK /\ Position, [Next]_vars PROVE Position'
  OBVIOUS
<1> USE LifecycleAssumption, ProbeOrder, RemoveOrder, Lengths DEF TypeOK, Position, Between
<1>1. CASE platform_driver_register
  BY <1>1 DEF platform_driver_register
<1>2. CASE platform_device_register
  BY <1>2 DEF platform_device_register, chip
<1>3. CASE cs201x_exit
  BY <1>3 DEF cs201x_exit, chip
<1>4. CASE Unbind
  BY <1>4 DEF Unbind, chip
<1>5. CASE Bind
  BY <1>5 DEF Bind, chip
<1>6. CASE superio_enter
  BY <1>6 DEF superio_enter, GoOn
<1>7. CASE superio_enter_busy
  BY <1>7 DEF superio_enter_busy, Quit, chip
<1>8. CASE UnknownChip
  BY <1>8 DEF UnknownChip, superio_exit, Quit
<1>9. CASE InitEc
  BY <1>9 DEF InitEc, superio_exit, GoOn
<1>10. CASE Setup
  BY <1>10 DEF Setup, GoOn, chip
<1>11. CASE ioremap
  BY <1>11 DEF ioremap, GoOn, Quit
<1>12. CASE mutex_init
  BY <1>12 DEF mutex_init, GoOn
<1>13. CASE watchdog_register_device
  BY <1>13 DEF watchdog_register_device, GoOn, Quit, chip
<1>14. CASE \E e \in Entries : procfs_create(e)
  BY <1>14 DEF procfs_create, Entries, GoOn, chip
<1>15. CASE \E e \in Entries : procfs_create_fails(e)
  <2> PICK e \in Entries : procfs_create_fails(e)
    BY <1>15
  <2>1. doing = "probe" /\ pc \in 7 .. 9
    BY EntryOrder DEF procfs_create_fails
  <2>2. pc' = 10 /\ doing' = "probe"
    BY <2>1, HwmonStep DEF procfs_create_fails
  <2>3. UNCHANGED <<region, maps, addr, lock, flag, slow, lost>>
    BY DEF procfs_create_fails, chip
  <2> QED
    BY <2>1, <2>2, <2>3
<1>16. CASE hwmon_device_register
  BY <1>16 DEF hwmon_device_register, GoOn, chip
<1>17. CASE ug_201_leds_init
  BY <1>17 DEF ug_201_leds_init, GoOn, chip
<1>18. CASE StopFlow
  BY <1>18 DEF StopFlow, GoOn, chip
<1>19. CASE StopWatchdog
  BY <1>19 DEF StopWatchdog, GoOn, chip
<1>20. CASE StopInterrupted
  BY <1>20 DEF StopInterrupted, chip
<1>21. CASE \E i \in Interfaces : Withdraw(i)
  BY <1>21 DEF Withdraw, core, chip
<1>22. CASE \E i \in Interfaces : Drained(i)
  <2> PICK i \in Interfaces : Drained(i)
    BY <1>22
  <2>1. doing = "remove" /\ pc \in {4, 5, 6, 7, 10, 14}
    BY WithdrawalOrder DEF Drained
  <2>2. doing' = "remove" /\ pc' = pc + 1 /\ UNCHANGED <<region, maps, addr, lock, flag, slow, lost>>
    BY <2>1 DEF Drained, GoOn, chip
  <2> QED
    BY <2>1, <2>2
<1>23. CASE SetFlag
  BY <1>23 DEF SetFlag, GoOn, chip
<1>24. CASE cancel_work_sync
  BY <1>24 DEF cancel_work_sync, GoOn, chip
<1>25. CASE Settle
  BY <1>25 DEF Settle, GoOn, chip
<1>26. CASE mutex_destroy
  BY <1>26 DEF mutex_destroy, GoOn
<1>27. CASE iounmap
  BY <1>27 DEF iounmap, GoOn
<1>28. CASE Removed
  BY <1>28 DEF Removed, chip
<1>29. CASE RunWork
  BY <1>29 DEF RunWork, core, chip
<1>30. CASE \E c \in Clients, i \in Interfaces \cup {"stray"} : Call(c, i)
  BY <1>30 DEF Call, core, chip
<1>31. CASE \E c \in Clients : ScheduleWork(c)
  BY <1>31 DEF ScheduleWork, Return, core, chip
<1>32. CASE \E c \in Clients : Interrupted(c)
  BY <1>32 DEF Interrupted, Return, core, chip
<1>33. CASE \E c \in Clients, word \in Words : startup_write(c, word)
  BY <1>33 DEF startup_write, Release, Return, AutoPowerOnSet, AutoPowerOnGet, ModeOf,
     core, chip
<1>34. CASE \E t \in Threads : Acquire(t)
  BY <1>34 DEF Acquire, core, chip
<1>35. CASE \E t \in Threads : Leave(t)
  BY <1>35 DEF Leave, Release, Return, core, chip
<1>36. CASE UNCHANGED vars
  BY <1>36 DEF vars
<1>37. CASE init_leds
  BY <1>37 DEF init_leds, Bound, GoOn, chip
<1>38. CASE init_leds_done
  BY <1>38 DEF init_leds_done, Bound, chip
<1>39. CASE Stopped
  BY <1>39 DEF Stopped, GoOn, chip
<1> QED
  BY <1>1, <1>2, <1>3, <1>4, <1>5, <1>6, <1>7, <1>8, <1>9, <1>10, <1>11, <1>12,
     <1>13, <1>14, <1>15, <1>16, <1>17, <1>18, <1>19, <1>20, <1>21, <1>22, <1>23, <1>24,
     <1>25, <1>26, <1>27, <1>28, <1>29, <1>30, <1>31, <1>32, <1>33, <1>34, <1>35, <1>36,
     <1>37, <1>38, <1>39 DEF Next, Module, Probe, Remove, Client

LEMMA InTimeNext == TypeOK /\ Position /\ InTime /\ [Next]_vars => InTime'
<1> SUFFICES ASSUME TypeOK /\ Position /\ InTime, [Next]_vars PROVE InTime'
  OBVIOUS
<1> USE LifecycleAssumption, ProbeOrder, RemoveOrder, Lengths DEF TypeOK, Position, Between,
       InTime, UpInTime, CalledInTime, Threads
<1>1. CASE platform_driver_register
  BY <1>1 DEF platform_driver_register
<1>2. CASE platform_device_register
  BY <1>2 DEF platform_device_register, chip
<1>3. CASE cs201x_exit
  BY <1>3 DEF cs201x_exit, chip
<1>4. CASE Unbind
  BY <1>4 DEF Unbind, chip
<1>5. CASE Bind
  BY <1>5 DEF Bind, chip
<1>6. CASE superio_enter
  BY <1>6 DEF superio_enter, GoOn
<1>7. CASE superio_enter_busy
  BY <1>7 DEF superio_enter_busy, Quit, chip
<1>8. CASE UnknownChip
  BY <1>8 DEF UnknownChip, superio_exit, Quit
<1>9. CASE InitEc
  BY <1>9 DEF InitEc, superio_exit, GoOn
<1>10. CASE Setup
  BY <1>10 DEF Setup, GoOn, chip
<1>11. CASE ioremap
  BY <1>11 DEF ioremap, GoOn, Quit
<1>12. CASE mutex_init
  BY <1>12 DEF mutex_init, GoOn
<1>13. CASE watchdog_register_device
  BY <1>13 DEF watchdog_register_device, GoOn, Quit, chip
<1>14. CASE \E e \in Entries : procfs_create(e)
  BY <1>14 DEF procfs_create, Entries, GoOn, chip
<1>15. CASE \E e \in Entries : procfs_create_fails(e)
  <2> PICK e \in Entries : procfs_create_fails(e)
    BY <1>15
  <2>1. doing = "probe" /\ pc \in 7 .. 9
    BY EntryOrder DEF procfs_create_fails
  <2>2. pc' = 10 /\ doing' = "probe"
    BY <2>1, HwmonStep DEF procfs_create_fails
  <2>3. up' \subseteq (up \ {"fan", "startup", "temp"}) \cup {"stray"} /\ UNCHANGED <<inside, work, slow>>
    BY DEF procfs_create_fails, Entries
  <2>4. UpInTime'
    BY <2>1, <2>2, <2>3
  <2>5. ASSUME NEW t \in Threads PROVE CalledInTime(t)'
    <3>1. \/ call'[t] = "stray" /\ call[t] \in Entries
          \/ call'[t] = call[t] /\ call[t] \notin {"fan", "startup", "temp"}
      BY DEF procfs_create_fails, Entries
    <3>2. CASE call'[t] = "stray"
      BY <2>3, <3>1, <3>2 DEF Entries
    <3>3. CASE call'[t] = call[t] /\ call[t] \notin {"fan", "startup", "temp"}
      BY <2>1, <2>2, <2>3, <3>3
    <3> QED
      BY <3>1, <3>2, <3>3
  <2> QED
    BY <2>4, <2>5
<1>16. CASE hwmon_device_register
  BY <1>16 DEF hwmon_device_register, GoOn, chip
<1>17. CASE ug_201_leds_init
  BY <1>17 DEF ug_201_leds_init, GoOn, chip
<1>18. CASE StopFlow
  BY <1>18 DEF StopFlow, GoOn, chip
<1>19. CASE StopWatchdog
  BY <1>19 DEF StopWatchdog, GoOn, chip
<1>20. CASE StopInterrupted
  BY <1>20 DEF StopInterrupted, chip
<1>21. CASE \E i \in Interfaces : Withdraw(i)
  BY <1>21 DEF Withdraw, core, chip
<1>22. CASE \E i \in Interfaces : Drained(i)
  <2> PICK i \in Interfaces : Drained(i)
    BY <1>22
  <2>1. doing = "remove" /\ i \notin up /\ (\A t \in Threads : call[t] # i)
    BY WithdrawalOrder DEF Drained
  <2>2. /\ i = "wdt" => pc = 4
        /\ i = "fan" => pc = 5
        /\ i = "startup" => pc = 6
        /\ i = "temp" => pc = 7
        /\ i = "leds" => pc = 10
        /\ i = "hwmon" => pc = 14
        /\ i \in {"wdt", "fan", "startup", "temp", "leds", "hwmon"}
    BY WithdrawalOrder DEF Drained
  <2>3. doing' = "remove" /\ pc' = pc + 1 /\ UNCHANGED <<up, call, inside, work, slow>>
    BY <2>1 DEF Drained, GoOn
  <2>4. UpInTime'
    BY <2>1, <2>2, <2>3
  <2>5. ASSUME NEW t \in Threads PROVE CalledInTime(t)'
    BY <2>1, <2>2, <2>3
  <2> QED
    BY <2>4, <2>5
<1>23. CASE SetFlag
  BY <1>23 DEF SetFlag, GoOn, chip
<1>24. CASE cancel_work_sync
  BY <1>24 DEF cancel_work_sync, GoOn, chip
<1>25. CASE Settle
  <2>1. work' = "queued" => slow'
    BY <1>25 DEF Settle
  <2>2. doing = "remove" /\ pc = 11 /\ doing' = "remove" /\ pc' = 12
    BY <1>25 DEF Settle, GoOn
  <2>3. UNCHANGED <<up, call, inside>>
    BY <1>25 DEF Settle
  <2>4. UpInTime'
    BY <2>1, <2>2, <2>3
  <2>5. ASSUME NEW t \in Threads PROVE CalledInTime(t)'
    BY <2>2, <2>3
  <2> QED
    BY <2>4, <2>5
<1>26. CASE mutex_destroy
  BY <1>26 DEF mutex_destroy, GoOn
<1>27. CASE iounmap
  BY <1>27 DEF iounmap, GoOn
<1>28. CASE Removed
  BY <1>28 DEF Removed, chip
<1>29. CASE RunWork
  BY <1>29 DEF RunWork, core, chip
<1>30. CASE \E c \in Clients, i \in Interfaces \cup {"stray"} : Call(c, i)
  <2> PICK c \in Clients, i \in Interfaces \cup {"stray"} : Call(c, i)
    BY <1>30
  <2>1. UpInTime'
    BY DEF Call, core, chip
  <2>2. ASSUME NEW t \in Threads PROVE CalledInTime(t)'
    <3>1. CASE t = c
      <4>1. call'[t] = i /\ i \in up
        BY <3>1 DEF Call
      <4> QED
        BY <4>1 DEF Call, core, Interfaces, Entries
    <3>2. CASE t # c
      BY <3>2 DEF Call, core
    <3> QED
      BY <3>1, <3>2
  <2> QED
    BY <2>1, <2>2
<1>31. CASE \E c \in Clients : ScheduleWork(c)
  BY <1>31 DEF ScheduleWork, Return, core, chip
<1>32. CASE \E c \in Clients : Interrupted(c)
  BY <1>32 DEF Interrupted, Return, core, chip
<1>33. CASE \E c \in Clients, word \in Words : startup_write(c, word)
  BY <1>33 DEF startup_write, Release, Return, AutoPowerOnSet, AutoPowerOnGet, ModeOf,
     core, chip
<1>34. CASE \E t \in Threads : Acquire(t)
  BY <1>34 DEF Acquire, core, chip
<1>35. CASE \E t \in Threads : Leave(t)
  BY <1>35 DEF Leave, Release, Return, core, chip
<1>36. CASE UNCHANGED vars
  BY <1>36 DEF vars
<1>37. CASE init_leds
  BY <1>37 DEF init_leds, Bound, GoOn, chip
<1>38. CASE init_leds_done
  BY <1>38 DEF init_leds_done, Bound, chip
<1>39. CASE Stopped
  BY <1>39 DEF Stopped, GoOn, chip
<1> QED
  BY <1>1, <1>2, <1>3, <1>4, <1>5, <1>6, <1>7, <1>8, <1>9, <1>10, <1>11, <1>12,
     <1>13, <1>14, <1>15, <1>16, <1>17, <1>18, <1>19, <1>20, <1>21, <1>22, <1>23, <1>24,
     <1>25, <1>26, <1>27, <1>28, <1>29, <1>30, <1>31, <1>32, <1>33, <1>34, <1>35, <1>36,
     <1>37, <1>38, <1>39 DEF Next, Module, Probe, Remove, Client

-----------------------------------------------------------------------------

LEMMA Inductive ==
  /\ Init => IInv
  /\ IInv /\ [Next]_vars => IInv'
<1>1. Init => TypeOK
  <2>1. FirmwareWord % 4 \in 0 .. 3
    BY LifecycleAssumption
  <2>2. Init => slow \in BOOLEAN /\ asked \in 0 .. 3
    BY <2>1 DEF Init
  <2>3. Init => call \in [Threads -> Interfaces \cup {"none", "stray", "work"}]
    BY DEF Init
  <2> QED
    BY <2>2, <2>3, LifecycleAssumption, Lengths DEF Init, TypeOK
<1>2. Init => Position
  BY DEF Init, Position, Between
<1>3. Init => InTime
  BY DEF Init, InTime, UpInTime, CalledInTime
<1> QED
  BY <1>1, <1>2, <1>3, TypeNext, PositionNext, InTimeNext DEF IInv

LEMMA NobodyBesideProbe == IInv => ProbeIsAlone
<1> SUFFICES ASSUME IInv, NEW t \in inside, call[t] # "stray"
             PROVE  ~ (Probing("chip") \/ Probing("setup"))
  BY DEF ProbeIsAlone
<1>1. t \in Threads /\ CalledInTime(t)
  BY DEF IInv, TypeOK, InTime
<1>2. call[t] \in {"fan", "startup", "temp", "wdt", "hwmon", "leds", "work"}
  BY <1>1 DEF IInv, TypeOK, CalledInTime, Interfaces, Entries
<1>3. pc \in Nat
  BY Lengths DEF IInv, TypeOK
<1>4. doing = "probe" => pc > 6
  BY <1>1, <1>2, <1>3 DEF CalledInTime, Between
<1> QED
  BY <1>3, <1>4, ProbeOrder, Lengths DEF IInv, TypeOK, Position

LEMMA CallbacksAreServed == IInv => CallbacksFindWhatTheyUse
<1> SUFFICES ASSUME IInv, NEW t \in Threads
             PROVE  /\ call[t] \notin {"none", "stray", "hwmon"} => lock = "ready"
                    /\ call[t] = "hwmon" => lock # "raw"
                    /\ call[t] = "startup" => addr = "mapped"
  BY DEF CallbacksFindWhatTheyUse
<1>1. CalledInTime(t) /\ pc \in Nat /\ Position
  BY Lengths DEF IInv, InTime, TypeOK
<1>2. call[t] \in {"none", "stray", "fan", "startup", "temp", "wdt", "hwmon", "leds", "work"}
  BY DEF IInv, TypeOK, Interfaces, Entries
<1>3. call[t] = "hwmon" => lock # "raw"
  BY <1>1 DEF CalledInTime, Between, Position
<1>4. call[t] = "startup" => addr = "mapped"
  BY <1>1 DEF CalledInTime, Between, Position
<1>5. call[t] \notin {"none", "stray", "hwmon"} => Between(5, 12)
  BY <1>1, <1>2 DEF CalledInTime, Between
<1> QED
  BY <1>1, <1>3, <1>4, <1>5 DEF Position

LEMMA NothingStays == IInv => NothingBehind
<1> SUFFICES ASSUME IInv, doing \in {"out", "unbound"}
             PROVE  /\ up \subseteq {"stray"} /\ (work = "idle" \/ slow)
                    /\ \A t \in Threads : call[t] \in {"none", "stray"}
                    /\ maps = lost
  BY DEF NothingBehind
<1>1. \A n, m : ~ Between(n, m)
  BY DEF Between
<1>2. up \subseteq {"stray"} /\ (work = "idle" \/ slow)
  BY <1>1 DEF IInv, InTime, UpInTime, TypeOK, Interfaces, Entries
<1>3. \A t \in Threads : call[t] \in {"none", "stray"}
  BY <1>1 DEF IInv, InTime, CalledInTime, TypeOK, Interfaces, Entries
<1> QED
  BY <1>1, <1>2, <1>3 DEF IInv, Position

LEMMA PortsAreFree == IInv => PortsAreGivenBack
BY DEF IInv, Position, PortsAreGivenBack, Probing, probe_steps

(* Through every failure of probe, binding, unbinding and unloading a      *)
(* callback finds the lock and the mapping it uses (but those of hwmon and *)
(* of entries procfs_create lost), none runs beside probe's unlocked       *)
(* accesses (but one of a lost entry), nothing is left behind (but lost    *)
(* entries, work that 80 ms were too short for, and the mappings of probes *)
(* that failed to register the watchdog) and the super I/O ports are given *)
(* back (ug_cs201x_probe, ug_cs201x_remove).                               *)
THEOREM LifecycleIsSafe ==
  Spec => [](/\ TypeOK /\ ProbeIsAlone /\ CallbacksFindWhatTheyUse
             /\ NothingBehind /\ PortsAreGivenBack)
BY Inductive, NobodyBesideProbe, CallbacksAreServed, NothingStays, PortsAreFree, PTL
   DEF Spec, IInv

-----------------------------------------------------------------------------

LEMMA UnlockIs ==
  TypeOK /\ Position => (AtUnlock <=> Probing("unlock") \/ Removing("unlock"))
<1> SUFFICES ASSUME TypeOK, Position
             PROVE  AtUnlock <=> Probing("unlock") \/ Removing("unlock")
  OBVIOUS
<1>1. doing = "probe" => pc \in 1 .. 13
  BY Lengths DEF TypeOK, Position
<1>2. pc \in 1 .. 15
  BY Lengths DEF TypeOK
<1>3. AtUnlock => Probing("unlock") \/ Removing("unlock")
  BY Lengths DEF AtUnlock, Probing, Removing, probe_steps, remove_steps
<1> QED
  BY <1>1, <1>2, <1>3, ProbeOrder, RemoveOrder DEF AtUnlock

(* Outside a binding no callback runs but in a lost entry.                 *)
LEMMA NobodyInside ==
  ASSUME TypeOK, InTime, Ownership, ~ Between(5, 14)
  PROVE  /\ \A t \in Threads : call[t] \in {"none", "stray"}
         /\ "stray" \notin up => inside = {}
<1>1. \A n \in 5 .. 14, m \in 1 .. 14 : ~ Between(n, m)
  BY Lengths DEF Between, TypeOK
<1>2. \A t \in Threads : call[t] \in {"none", "stray"}
  BY <1>1 DEF InTime, CalledInTime, TypeOK, Interfaces, Entries
<1> QED
  BY <1>2 DEF Ownership, InTime, CalledInTime, TypeOK

LEMMA ReleaseKeepsOwnership ==
  ASSUME TypeOK, Ownership, NEW t \in inside, Release(t)
  PROVE  Ownership'
<1> USE DEF TypeOK, Ownership, AtUnlock, Release, Return, core, chip, Threads
<1>1. t \in Threads /\ owner' = NoOne /\ inside' = inside \ {t}
  OBVIOUS
<1>2. "stray" \notin up' => inside' = {} /\ ~ AtUnlock'
  BY <1>1, LifecycleAssumption
<1>3. \A u \in Threads : call'[u] = call[u] \/ call'[u] = "none"
  OBVIOUS
<1> QED
  BY <1>1, <1>2, <1>3, LifecycleAssumption DEF Entries

LEMMA OwnershipNext ==
  TypeOK /\ Position /\ InTime /\ Ownership /\ [Next]_vars => Ownership'
<1> SUFFICES ASSUME TypeOK, Position, InTime, Ownership, [Next]_vars
             PROVE  Ownership'
  OBVIOUS
<1>0. \A t \in Threads : t # Binder /\ t # NoOne
  BY LifecycleAssumption DEF Threads
<1>a. Binder # NoOne
  BY LifecycleAssumption
<1>b. /\ owner \in Threads \cup {Binder, NoOne} /\ inside \subseteq Threads
      /\ pc \in 1 .. 15 /\ (doing = "probe" => pc \in 1 .. 13)
  BY Lengths DEF TypeOK, Position
<1>c. call \in [Threads -> Interfaces \cup {"none", "stray", "work"}]
  BY DEF TypeOK
<1> USE <1>0, <1>a, <1>b, <1>c, ProbeOrder, RemoveOrder DEF Ownership, AtUnlock
<1>1. CASE platform_driver_register
  BY <1>1 DEF platform_driver_register, Entries
<1>2. CASE platform_device_register
  <2>1. ~ Between(5, 14)
    BY <1>2 DEF platform_device_register, Between
  <2>2. \A t \in Threads : call[t] \notin Entries
    BY <2>1, NobodyInside DEF Entries
  <2>3. pc = 1 /\ pc' = 1 /\ UNCHANGED <<owner, up, call, inside>>
    BY <1>2 DEF platform_device_register, Position
  <2> QED
    BY <1>2, <2>2, <2>3 DEF platform_device_register
<1>3. CASE cs201x_exit
  BY <1>3 DEF cs201x_exit, chip
<1>4. CASE Unbind
  BY <1>4 DEF Unbind, chip
<1>5. CASE Bind
  <2>1. ~ Between(5, 14)
    BY <1>5 DEF Bind, Between
  <2>2. \A t \in Threads : call[t] \notin Entries
    BY <2>1, NobodyInside DEF Entries
  <2> QED
    BY <1>5, <2>2 DEF Bind, chip
<1>6. CASE superio_enter
  BY <1>6 DEF superio_enter, GoOn
<1>7. CASE superio_enter_busy
  BY <1>7 DEF superio_enter_busy, Quit, chip
<1>8. CASE UnknownChip
  BY <1>8 DEF UnknownChip, superio_exit, Quit
<1>9. CASE InitEc
  BY <1>9 DEF InitEc, superio_exit, GoOn
<1>10. CASE Setup
  BY <1>10 DEF Setup, GoOn, chip
<1>11. CASE ioremap
  BY <1>11 DEF ioremap, GoOn, Quit
<1>12. CASE watchdog_register_device
  BY <1>12 DEF watchdog_register_device, GoOn, Quit, chip
<1>13. CASE \E e \in Entries : procfs_create(e)
  <2> PICK e \in Entries : procfs_create(e)
    BY <1>13
  <2>1. doing = "probe" /\ pc \in 7 .. 9
    BY EntryOrder DEF procfs_create
  <2> QED
    BY <2>1 DEF procfs_create, GoOn, chip, Entries
<1>14. CASE \E e \in Entries : procfs_create_fails(e)
  <2> PICK e \in Entries : procfs_create_fails(e)
    BY <1>14
  <2>1. doing = "probe" /\ pc \in 7 .. 9 /\ doing' = "probe" /\ pc' = 10
    BY EntryOrder, HwmonStep DEF procfs_create_fails
  <2>2. UNCHANGED <<owner, inside>> /\ owner # Binder
    BY <2>1 DEF procfs_create_fails
  <2>3. \A t \in Threads : call'[t] \notin Entries
    BY DEF procfs_create_fails, Entries
  <2>4. CASE "stray" \in up'
    BY <2>1, <2>2, <2>3, <2>4
  <2>5. CASE "stray" \notin up'
    <3>1. "stray" \notin up /\ up \cap Entries = {}
      BY <2>5 DEF procfs_create_fails, Entries
    <3>2. \A t \in Threads : call'[t] = call[t]
      BY <2>1, <3>1 DEF procfs_create_fails
    <3> QED
      BY <2>1, <2>2, <2>3, <3>1, <3>2
  <2> QED
    BY <2>4, <2>5
<1>15. CASE hwmon_device_register
  BY <1>15 DEF hwmon_device_register, GoOn, chip
<1>16. CASE ug_201_leds_init
  BY <1>16 DEF ug_201_leds_init, GoOn, chip
<1>17. CASE init_leds
  BY <1>17 DEF init_leds, Bound, GoOn, chip
<1>18. CASE init_leds_done
  BY <1>18 DEF init_leds_done, Bound, chip
<1>19. CASE StopFlow
  BY <1>19 DEF StopFlow, GoOn, chip
<1>20. CASE StopWatchdog
  BY <1>20 DEF StopWatchdog, GoOn, chip
<1>21. CASE StopInterrupted
  BY <1>21 DEF StopInterrupted, chip
<1>22. CASE Stopped
  BY <1>22 DEF Stopped, GoOn, chip
<1>23. CASE \E i \in Interfaces : Withdraw(i)
  <2> PICK i \in Interfaces : Withdraw(i)
    BY <1>23
  <2>1. doing = "remove" /\ i # "stray"
    BY WithdrawalOrder DEF Withdraw
  <2> QED
    BY <2>1 DEF Withdraw, core, chip
<1>24. CASE \E i \in Interfaces : Drained(i)
  <2> PICK i \in Interfaces : Drained(i)
    BY <1>24
  <2>1. doing = "remove" /\ pc \in {4, 5, 6, 7, 10, 14}
    BY WithdrawalOrder DEF Drained
  <2> QED
    BY <2>1 DEF Drained, GoOn, chip
<1>25. CASE SetFlag
  BY <1>25 DEF SetFlag, GoOn, chip
<1>26. CASE cancel_work_sync
  BY <1>26 DEF cancel_work_sync, GoOn, chip
<1>27. CASE Settle
  BY <1>27 DEF Settle, GoOn, chip
<1>28. CASE mutex_destroy
  BY <1>28 DEF mutex_destroy, GoOn
<1>29. CASE iounmap
  BY <1>29 DEF iounmap, GoOn
<1>30. CASE Removed
  BY <1>30, Lengths DEF Removed, chip
<1>31. CASE RunWork
  <2>1. \A t \in Threads : call'[t] \in {call[t], "none", "work"}
    BY <1>31 DEF RunWork
  <2> QED
    BY <1>31, <2>1 DEF RunWork, core, Entries
<1>32. CASE \E c \in Clients, i \in Interfaces \cup {"stray"} : Call(c, i)
  <2> PICK c \in Clients, i \in Interfaces \cup {"stray"} : Call(c, i)
    BY <1>32
  <2>1. i \in up /\ UNCHANGED <<core, owner, up, inside>>
    BY DEF Call
  <2>2. \A t \in Threads : call'[t] = call[t] \/ call'[t] = i
    BY DEF Call
  <2> QED
    BY <2>1, <2>2 DEF core
<1>33. CASE \E c \in Clients : ScheduleWork(c)
  <2> PICK c \in Clients : ScheduleWork(c)
    BY <1>33
  <2>1. \A t \in Threads : call'[t] = call[t] \/ call'[t] = "none"
    BY DEF ScheduleWork, Return
  <2> QED
    BY <2>1 DEF ScheduleWork, core, Entries
<1>34. CASE \E c \in Clients : Interrupted(c)
  <2> PICK c \in Clients : Interrupted(c)
    BY <1>34
  <2>1. \A t \in Threads : call'[t] = call[t] \/ call'[t] = "none"
    BY DEF Interrupted, Return
  <2> QED
    BY <2>1 DEF Interrupted, core, Entries
<1>35. CASE \E t \in Threads : Acquire(t)
  <2> PICK t \in Threads : Acquire(t)
    BY <1>35
  <2>1. "stray" \notin up => inside = {} /\ ~ AtUnlock
    BY DEF Acquire
  <2> QED
    BY <2>1 DEF Acquire, core
<1>36. CASE mutex_init
  <2>1. "stray" \notin up => inside = {}
    BY <1>36, NobodyInside DEF mutex_init, Between
  <2> QED
    BY <1>36, <2>1 DEF mutex_init, GoOn
<1>37. CASE \E t \in Threads : Leave(t)
  BY <1>37, ReleaseKeepsOwnership DEF Leave
<1>38. CASE \E c \in Clients, word \in Words : startup_write(c, word)
  BY <1>38, ReleaseKeepsOwnership DEF startup_write
<1>39. CASE UNCHANGED vars
  BY <1>39 DEF vars
<1> QED
  BY <1>1, <1>2, <1>3, <1>4, <1>5, <1>6, <1>7, <1>8, <1>9, <1>10, <1>11,
     <1>12, <1>13, <1>14, <1>15, <1>16, <1>17, <1>18, <1>19, <1>20, <1>21,
     <1>22, <1>23, <1>24, <1>25, <1>26, <1>27, <1>28, <1>29, <1>30, <1>31,
     <1>32, <1>33, <1>34, <1>35, <1>36, <1>37, <1>38, <1>39
     DEF Next, Module, Probe, Remove, Client

(* A callback that has taken the lock, or init_leds, or wdt_stop, owns it  *)
(* until he gives it back, and then can give it back without anyone: no    *)
(* two are in it at a time, through every failure of probe, every removal  *)
(* and every binding, which initializes the lock again (mutex_init in      *)
(* ug_cs201x_probe), unless procfs_create lost an entry.                   *)
THEOREM LockIsOwned == Spec => [](LockIsExclusive /\ OwnerCanGoOn)
<1>1. Init => Ownership
  BY LifecycleAssumption DEF Init, Ownership, AtUnlock, Threads, Entries
<1>2. IInv /\ Ownership => LockIsExclusive
  BY UnlockIs DEF IInv, Ownership, LockIsExclusive
<1>3. IInv /\ Ownership => OwnerCanGoOn
  BY UnlockIs DEF IInv, TypeOK, Ownership, OwnerCanGoOn, InTime, CalledInTime
<1> QED
  BY <1>1, <1>2, <1>3, Inductive, OwnershipNext, PTL DEF Spec, IInv

-----------------------------------------------------------------------------

LEMMA ModeReplaced ==
  ASSUME NEW p \in Nat, NEW mode \in 0 .. 3
  PROVE  /\ (p - (p % 4) + mode) % 4 = mode
         /\ p - (p % 4) + mode \in Nat
OBVIOUS

LEMMA PowerNext == TypeOK /\ PowerModeIsKept /\ [Next]_vars => PowerModeIsKept'
<1> SUFFICES ASSUME TypeOK, PowerModeIsKept, [Next]_vars PROVE PowerModeIsKept'
  OBVIOUS
<1>1. CASE \E c \in Clients, word \in Words : startup_write(c, word)
  <2> PICK c \in Clients, word \in Words : startup_write(c, word)
    BY <1>1
  <2> DEFINE mode == ModeOf(word)
  <2>1. mode \in 0 .. 3
    BY DEF ModeOf
  <2>2. power' = power - (power % 4) + mode /\ asked' = mode
    BY DEF startup_write, AutoPowerOnSet, AutoPowerOnGet
  <2> HIDE DEF mode
  <2>3. power' % 4 = mode
    BY <2>1, <2>2, ModeReplaced DEF TypeOK
  <2> QED
    BY <2>1, <2>2, <2>3 DEF PowerModeIsKept, AutoPowerOnGet, TypeOK
<1>2. CASE UNCHANGED <<power, asked>>
  BY <1>2 DEF PowerModeIsKept, AutoPowerOnGet
<1>3. UNCHANGED <<power, asked>> \/ \E c \in Clients, word \in Words : startup_write(c, word)
  BY DEF Next, Module, Probe, Remove, Client, vars, platform_driver_register,
     platform_device_register, cs201x_exit, Unbind, Bind, superio_enter,
     superio_enter_busy, UnknownChip, InitEc, Setup, ioremap, mutex_init,
     watchdog_register_device, procfs_create, procfs_create_fails,
     hwmon_device_register, ug_201_leds_init, StopFlow, StopWatchdog,
     StopInterrupted, Withdraw, Drained, SetFlag, cancel_work_sync, Settle,
     mutex_destroy, iounmap, Removed, RunWork, Call, ScheduleWork, Interrupted,
     Acquire, Leave, init_leds, init_leds_done, Stopped
<1> QED
  BY <1>1, <1>2, <1>3

(* The power mode read back is the last one written through                *)
(* /proc/it86/startup, and AutoPowerOnSet leaves the rest of the word      *)
(* alone, for any word of the firmware.                                    *)
THEOREM PowerModeSurvives == Spec => []PowerModeIsKept
<1>1. Init => PowerModeIsKept
  BY LifecycleAssumption DEF Init, PowerModeIsKept, AutoPowerOnGet
<1> QED
  BY <1>1, Inductive, PowerNext, PTL DEF Spec, IInv

=============================================================================
