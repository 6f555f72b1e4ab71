-------------------------- MODULE LedDriverProofs --------------------------
(***************************************************************************)
(* The cache of a LED is real, and a removed LED is left alone, for any    *)
(* number of processes and any brightness, colours and triggers: the cache *)
(* for delays that fit an int, the rest for any delays.                    *)
(***************************************************************************)
EXTENDS LedDriver, TLAPS

(* Switching on or off carries no times, and other times fit an int when   *)
(* the delays do.                                                          *)
Plain(cmd) ==
  /\ cmd.facet = "mode" /\ cmd.to[1] \in {LED_OFF, LED_ON}
       => cmd.to[2] = 0 /\ cmd.to[3] = 0
  /\ DelaysFit /\ cmd.facet = "mode"
       => cmd.to[2] < IntLimit /\ cmd.to[3] < IntLimit

TasksArePlain == \A t \in Threads : Plain(task[t])

(* An update no other one has run into is the only one of its facet, and   *)
(* the controller still holds what it programmed.                          *)
UpdatesAreFresh ==
  \A t \in Threads :
    pc[t] = "store" /\ t \notin mixed =>
      /\ hw[task[t].facet] = Programmed(task[t])
      /\ \A u \in Updating(task[t].facet) : u = t

IInv == TypeOK /\ TasksArePlain /\ UpdatesAreFresh /\ CacheIsReal

-----------------------------------------------------------------------------
(* Facts about commands.                                                   *)

LEMMA Arithmetic ==
  /\ \A n \in Nat : (n \div 50) % 256 \in 0 .. 255
  /\ (0 \div 50) % 256 = 0
<1>1. \A n \in Nat : n \div 50 \in Nat
  OBVIOUS
<1>2. \A n \in Nat : n % 256 \in 0 .. 255
  OBVIOUS
<1> QED
  BY <1>1, <1>2

LEMMA CommandCases ==
  ASSUME NEW cmd \in Command
  PROVE  \/ cmd.facet = "mode" /\ cmd.to \in (0 .. 3) \X Nat \X Nat
         \/ cmd.facet = "light" /\ \E v \in 2 .. LED_BRIGHTNESS_MAX : cmd.to = <<v>>
         \/ cmd.facet = "color" /\ \E c \in 1 .. 5 : cmd.to = <<c>>
  BY DEF Command

(* What fits an int is read from the cache as it was kept.                 *)
LEMMA ConversionsAgree ==
  /\ \A n \in Nat : AsInt(n) \in Int
  /\ \A n \in Nat : n < IntLimit => AsLong(AsInt(n)) = n
<1> USE LedAssumption
<1>1. ASSUME NEW n \in Nat PROVE AsInt(n) \in Int
  <2>1. 2 * IntLimit \in Nat \ {0}
    OBVIOUS
  <2>2. \A m \in Nat, k \in Nat \ {0} : m % k \in Int
    OBVIOUS
  <2>3. n + IntLimit \in Nat
    OBVIOUS
  <2>4. (n + IntLimit) % (2 * IntLimit) \in Int
    BY <2>1, <2>2, <2>3
  <2> QED
    BY <2>4 DEF AsInt
<1>2. ASSUME NEW n \in Nat, n < IntLimit PROVE AsLong(AsInt(n)) = n
  BY <1>2 DEF AsInt, AsLong
<1> QED
  BY <1>1, <1>2

LEMMA NothingToSay == Mode(LED_OFF, 0, 0) \in Command /\ Plain(Mode(LED_OFF, 0, 0))
BY LedAssumption DEF Mode, Command, Plain, LED_OFF

LEMMA BrightnessCommand ==
  ASSUME NEW v \in 0 .. LED_BRIGHTNESS_MAX
  PROVE  do_brightness_set(v) \in Command /\ Plain(do_brightness_set(v))
<1>1. CASE v \in {LED_OFF, LED_ON}
  BY <1>1, LedAssumption DEF do_brightness_set, Mode, Command, Plain, LED_OFF, LED_ON
<1>2. CASE v \notin {LED_OFF, LED_ON}
  BY <1>2 DEF do_brightness_set, Light, Command, Plain, LED_OFF, LED_ON,
              LED_BRIGHTNESS_MAX
<1> QED
  BY <1>1, <1>2

LEMMA BlinkCommand ==
  ASSUME NEW name,
         NEW on \in 0 .. LongLimit - 1, NEW off \in 0 .. LongLimit - 1,
         DelaysFit => on + off + 1500 < IntLimit,
         NEW cmd \in BlinkCommands(name, on, off)
  PROVE  cmd \in Command /\ Plain(cmd)
<1> USE LedAssumption
<1>1. ASSUME NEW b \in Nat, NEW c \in Nat, DelaysFit => b + c < IntLimit
      PROVE  /\ Blink(b, c) \in Command /\ Plain(Blink(b, c))
             /\ Breath(b, c) \in Command /\ Plain(Breath(b, c))
  <2>1. Together(b, c) \in Nat /\ (DelaysFit => Together(b, c) < IntLimit /\ b < IntLimit)
    BY <1>1 DEF Together
  <2> QED
    BY <2>1 DEF Blink, Breath, Mode, Command, Plain, LED_OFF, LED_ON, RUN_STATE_BLINK,
                RUN_STATE_BREATH
<1>2. \/ cmd = Mode(LED_OFF, 0, 0)
      \/ cmd = Blink(AtLeast(on, 100), AtLeast(off, 100))
      \/ cmd = Breath(AtLeast(on, 1000), AtLeast(off, 500))
      \/ cmd = Blink(on, off)
  BY DEF BlinkCommands
<1>4. /\ AtLeast(on, 100) \in Nat /\ AtLeast(off, 100) \in Nat
      /\ AtLeast(on, 1000) \in Nat /\ AtLeast(off, 500) \in Nat
      /\ DelaysFit => /\ AtLeast(on, 100) + AtLeast(off, 100) < IntLimit
                      /\ AtLeast(on, 1000) + AtLeast(off, 500) < IntLimit
  BY DEF AtLeast
<1>5. CASE cmd = Blink(AtLeast(on, 100), AtLeast(off, 100))
  BY <1>1, <1>4, <1>5
<1>6. CASE cmd = Breath(AtLeast(on, 1000), AtLeast(off, 500))
  BY <1>1, <1>4, <1>6
<1>7. CASE cmd = Blink(on, off)
  BY <1>1, <1>7
<1> QED
  BY <1>2, <1>5, <1>6, <1>7, NothingToSay

LEMMA ProgrammedType ==
  ASSUME NEW cmd \in Command
  PROVE  /\ cmd.facet = "mode" =>
              Programmed(cmd) \in (0 .. 3) \X (0 .. 255) \X (0 .. 255)
         /\ cmd.facet = "light" => Programmed(cmd) \in {<<b>> : b \in 0 .. 255}
         /\ cmd.facet = "color" => Programmed(cmd) \in {<<c>> : c \in 0 .. 5}
<1>1. CASE cmd.facet = "mode"
  <2>1. cmd.to \in (0 .. 3) \X Nat \X Nat
    BY <1>1, CommandCases
  <2>2. cmd.to[1] \in 0 .. 3 /\ cmd.to[2] \in Nat /\ cmd.to[3] \in Nat
    BY <2>1
  <2> DEFINE hight == (cmd.to[2] \div 50) % 256
             low   == (cmd.to[3] \div 50) % 256
  <2>3. hight \in 0 .. 255 /\ low \in 0 .. 255
    BY <2>2, Arithmetic
  <2>4. Programmed(cmd) = <<cmd.to[1], hight, low>>
    BY <1>1, Zenon DEF Programmed
  <2> HIDE DEF hight, low
  <2>5. <<cmd.to[1], hight, low>> \in (0 .. 3) \X (0 .. 255) \X (0 .. 255)
    BY <2>2, <2>3
  <2> QED
    BY <1>1, <2>4, <2>5, Zenon
<1>2. CASE cmd.facet # "mode"
  BY <1>2, CommandCases DEF Programmed, LED_BRIGHTNESS_MAX
<1> QED
  BY <1>1, <1>2

LEMMA RememberedType ==
  ASSUME TypeOK, NEW cmd \in Command
  PROVE  Remembered(cmd) \in [run : 0 .. 3, blink : Int \X Int, breath : Int \X Int,
                              light : 0 .. 255, color : 0 .. 5]
<1>1. cache \in [run : 0 .. 3, blink : Int \X Int, breath : Int \X Int,
                 light : 0 .. 255, color : 0 .. 5]
  BY DEF TypeOK
<1>2. CASE cmd.facet = "mode"
  <2>1. cmd.to[1] \in 0 .. 3 /\ cmd.to[2] \in Nat /\ cmd.to[3] \in Nat
    BY <1>2, CommandCases
  <2>2. Kept(<<cmd.to[2], cmd.to[3]>>) \in Int \X Int
    BY <2>1, ConversionsAgree DEF Kept
  <2> QED
    BY <1>1, <1>2, <2>1, <2>2 DEF Remembered, RememberedMode
<1>3. CASE cmd.facet = "light"
  <2>1. cmd.to[1] \in 0 .. 255
    BY <1>3, CommandCases DEF LED_BRIGHTNESS_MAX
  <2>2. Remembered(cmd) = [cache EXCEPT !.light = cmd.to[1]]
    BY <1>3, Zenon DEF Remembered
  <2> QED
    BY <1>1, <2>1, <2>2
<1>4. CASE cmd.facet = "color"
  <2>1. cmd.to[1] \in 0 .. 5
    BY <1>4, CommandCases
  <2>2. Remembered(cmd) = [cache EXCEPT !.color = cmd.to[1]]
    BY <1>4 DEF Remembered
  <2> QED
    BY <1>1, <2>1, <2>2
<1> QED
  BY <1>2, <1>3, <1>4, CommandCases

-----------------------------------------------------------------------------
(* The type invariant.                                                     *)

Typed == TypeOK /\ TasksArePlain

LEMMA BeginTyped ==
  ASSUME Typed, NEW t \in Threads, NEW cmds, NEW held \in BOOLEAN, Begin(t, cmds, held),
         \A cmd \in cmds : cmd \in Command /\ Plain(cmd), held => t \in Users
  PROVE  /\ pc' \in [Threads -> {"idle", "asked", "check", "write", "store"}]
         /\ task' \in [Threads -> Command]
         /\ access' \in Users \cup {NoOne}
         /\ TasksArePlain'
<1> USE DEF Typed, TypeOK, TasksArePlain
<1>1. CASE UNCHANGED <<pc, task, access>>
  BY <1>1
<1>2. ASSUME NEW cmd \in cmds, task' = [task EXCEPT ![t] = cmd],
             pc' = [pc EXCEPT ![t] = "check"],
             access' = IF held THEN t ELSE access
      PROVE  /\ pc' \in [Threads -> {"idle", "asked", "check", "write", "store"}]
             /\ task' \in [Threads -> Command]
             /\ access' \in Users \cup {NoOne}
             /\ TasksArePlain'
  <2>1. cmd \in Command /\ Plain(cmd)
    OBVIOUS
  <2>2. task' \in [Threads -> Command]
    BY <1>2, <2>1
  <2>3. \A u \in Threads : Plain(task'[u])
    BY <1>2, <2>1
  <2> QED
    BY <1>2, <2>2, <2>3 DEF Plain
<1> QED
  BY <1>1, <1>2 DEF Begin

LEMMA ReturnTyped ==
  ASSUME Typed, NEW t \in Threads, Return(t)
  PROVE  /\ pc' \in [Threads -> {"idle", "asked", "check", "write", "store"}]
         /\ task' \in [Threads -> Command]
         /\ access' \in Users \cup {NoOne}
         /\ TasksArePlain'
<1>1. NoTask \in Command /\ Plain(NoTask)
  BY NothingToSay DEF NoTask
<1>2. \A u \in Threads : Plain(task'[u])
  BY <1>1 DEF Typed, TypeOK, TasksArePlain, Return
<1> QED
  BY <1>1, <1>2 DEF Typed, TypeOK, TasksArePlain, Return, Plain

LEMMA TypedNext == Typed /\ [Next]_vars => Typed'
<1> SUFFICES ASSUME Typed, [Next]_vars PROVE Typed'
  OBVIOUS
<1> USE LedAssumption DEF Typed
<1>threads. Worker \in Threads /\ Users \subseteq Threads
  BY DEF Threads
<1>1. ASSUME NEW u \in Users, NEW v \in {LED_OFF, LED_ON} \cup Lights, StoreBrightness(u, v)
      PROVE  Typed'
  <2>1. v \in 0 .. LED_BRIGHTNESS_MAX
    BY DEF LED_OFF, LED_ON, LED_BRIGHTNESS_MAX
  <2>2. do_brightness_set(v) \in Command /\ Plain(do_brightness_set(v))
    BY <2>1, BrightnessCommand
  <2>3. task' \in [Threads -> Command] /\ \A t \in Threads : Plain(task'[t])
    BY <1>1, <2>2, <1>threads DEF StoreBrightness, TypeOK, TasksArePlain
  <2>4. TasksArePlain'
    BY <2>3 DEF TasksArePlain, Plain
  <2>5. /\ pc' \in [Threads -> {"idle", "asked", "check", "write", "store"}]
        /\ access' \in Users \cup {NoOne}
        /\ trigger' \in Triggers \cup {"none"}
    BY <1>1, <1>threads DEF StoreBrightness, TypeOK
  <2> QED
    BY <1>1, <2>3, <2>4, <2>5 DEF StoreBrightness, TypeOK
<1>2. ASSUME NEW u \in Users, NEW name \in Triggers \cup {"none"}, StoreTrigger(u, name)
      PROVE  Typed'
  <2> DEFINE cmds == IF name = "none" THEN {} ELSE BlinkCommands(name, 0, 0)
  <2>1. \A cmd \in cmds : cmd \in Command /\ Plain(cmd)
    <3>1. 0 \in 0 .. LongLimit - 1 /\ 0 + 0 + 1500 < IntLimit
      OBVIOUS
    <3> QED
      BY <3>1, BlinkCommand
  <2>2. Begin(u, cmds, TRUE)
    BY <1>2 DEF StoreTrigger
  <2> HIDE DEF cmds
  <2>3. /\ pc' \in [Threads -> {"idle", "asked", "check", "write", "store"}]
        /\ task' \in [Threads -> Command]
        /\ access' \in Users \cup {NoOne}
        /\ TasksArePlain'
    BY <2>1, <2>2, <1>threads, BeginTyped
  <2>4. value' \in 0 .. LED_BRIGHTNESS_MAX /\ queued' \in BOOLEAN
        /\ trigger' \in Triggers \cup {"none"}
    <3>1. 0 \in 0 .. LED_BRIGHTNESS_MAX
      BY DEF LED_BRIGHTNESS_MAX
    <3>2. value \in 0 .. LED_BRIGHTNESS_MAX /\ queued \in BOOLEAN
      BY DEF TypeOK
    <3>3. /\ value' = value \/ value' = 0
          /\ queued' = queued \/ queued' = TRUE
          /\ trigger' = name
      BY <1>2, Zenon DEF StoreTrigger
    <3> QED
      BY <3>1, <3>2, <3>3, Zenon
  <2> QED
    BY <1>2, <2>3, <2>4 DEF StoreTrigger, TypeOK
<1>3. ASSUME NEW u \in Users, NEW d \in Delays, StoreDelays(u, d)
      PROVE  Typed'
  <2> DEFINE cmds == BlinkCommands(trigger, d[1], d[2])
  <2>1. \A cmd \in cmds : cmd \in Command /\ Plain(cmd)
    <3>1. /\ d[1] \in 0 .. LongLimit - 1 /\ d[2] \in 0 .. LongLimit - 1
          /\ DelaysFit => d[1] + d[2] + 1500 < IntLimit
      BY DEF DelaysFit
    <3> QED
      BY <3>1, BlinkCommand
  <2>3. Begin(u, cmds, FALSE)
    BY <1>3 DEF StoreDelays
  <2> HIDE DEF cmds
  <2>2. /\ pc' \in [Threads -> {"idle", "asked", "check", "write", "store"}]
        /\ task' \in [Threads -> Command]
        /\ access' \in Users \cup {NoOne}
        /\ TasksArePlain'
    BY <2>1, <2>3, <1>threads, BeginTyped
  <2> QED
    BY <1>3, <2>2 DEF StoreDelays, TypeOK
<1>4. ASSUME NEW u \in Users, NEW c \in Colours, StoreColour(u, c)
      PROVE  Typed'
  <2> DEFINE cmds == {Colour(c)}
  <2>1. \A cmd \in cmds : cmd \in Command /\ Plain(cmd)
    <3>1. c \in 1 .. 5
      BY DEF LedAssumption
    <3>2. Colour(c) \in [facet : {"color"}, to : {<<k>> : k \in 1 .. 5}]
      BY <3>1 DEF Colour
    <3>3. Colour(c).facet = "color"
      BY DEF Colour
    <3>4. Plain(Colour(c))
      BY <3>3 DEF Plain
    <3>5. Colour(c) \in Command
      BY <3>2, Zenon DEF Command
    <3> QED
      BY <3>4, <3>5
  <2>3. Begin(u, cmds, FALSE)
    BY <1>4 DEF StoreColour
  <2> HIDE DEF cmds
  <2>2. /\ pc' \in [Threads -> {"idle", "asked", "check", "write", "store"}]
        /\ task' \in [Threads -> Command]
        /\ access' \in Users \cup {NoOne}
        /\ TasksArePlain'
    BY <2>1, <2>3, <1>threads, BeginTyped
  <2> QED
    BY <1>4, <2>2 DEF StoreColour, TypeOK
<1>5. ASSUME NEW u \in Users, ScheduleWork(u), Requested(task[u]) \in 0 .. LED_BRIGHTNESS_MAX
      PROVE  Typed'
  BY <1>5, <1>threads, ReturnTyped DEF ScheduleWork, TypeOK
<1>6. ASSUME NEW u \in Users, ProgramInterrupted(u) PROVE Typed'
  BY <1>6, <1>threads, ReturnTyped DEF ProgramInterrupted, TypeOK
<1>7. ASSUME NEW t \in Threads, CheckCache(t) PROVE Typed'
  <2>1. CASE Return(t)
    BY <1>7, <2>1, ReturnTyped DEF CheckCache, TypeOK
  <2>2. CASE pc' = [pc EXCEPT ![t] = "write"] /\ UNCHANGED <<access, task>>
    BY <1>7, <2>2 DEF CheckCache, TypeOK, TasksArePlain
  <2> QED
    BY <1>7, <2>1, <2>2 DEF CheckCache
<1>8. ASSUME NEW t \in Threads, Program(t) PROVE Typed'
  <2>1. task[t] \in Command
    BY DEF TypeOK
  <2>2. hw' \in [mode : (0 .. 3) \X (0 .. 255) \X (0 .. 255),
                light : {<<b>> : b \in 0 .. 255}, color : {<<c>> : c \in 0 .. 5}]
    <3> DEFINE f == task[t].facet
               now == Programmed(task[t])
    <3>1. /\ f \in {"mode", "light", "color"}
          /\ f = "mode" => now \in (0 .. 3) \X (0 .. 255) \X (0 .. 255)
          /\ f = "light" => now \in {<<b>> : b \in 0 .. 255}
          /\ f = "color" => now \in {<<c>> : c \in 0 .. 5}
      BY <2>1, ProgrammedType, CommandCases
    <3>2. hw' = [hw EXCEPT ![f] = now]
      BY <1>8 DEF Program
    <3>3. hw \in [mode : (0 .. 3) \X (0 .. 255) \X (0 .. 255),
                 light : {<<b>> : b \in 0 .. 255}, color : {<<c>> : c \in 0 .. 5}]
      BY DEF TypeOK
    <3> HIDE DEF f, now, Typed
    <3>4. CASE f = "mode"
      BY <3>1, <3>2, <3>3, <3>4
    <3>5. CASE f = "light"
      BY <3>1, <3>2, <3>3, <3>5
    <3>6. CASE f = "color"
      BY <3>1, <3>2, <3>3, <3>6
    <3> QED
      BY <3>1, <3>4, <3>5, <3>6
  <2>3. mixed' \subseteq Threads
    BY <1>8 DEF Program, TypeOK, Updating
  <2> QED
    BY <1>8, <2>2, <2>3 DEF Program, TypeOK, TasksArePlain
<1>9. ASSUME NEW t \in Threads, UpdateCache(t) PROVE Typed'
  <2>1. task[t] \in Command
    BY DEF TypeOK
  <2>2. cache' \in [run : 0 .. 3, blink : Int \X Int, breath : Int \X Int,
                   light : 0 .. 255, color : 0 .. 5]
    BY <1>9, <2>1, RememberedType DEF UpdateCache
  <2>3. trusted' \subseteq Facets /\ mixed' \subseteq Threads
    BY <1>9, <2>1, CommandCases DEF UpdateCache, TypeOK, Facets
  <2>4. Return(t) /\ UNCHANGED <<hw, value, queued, trigger, flag, phase>>
    BY <1>9 DEF UpdateCache
  <2> QED
    BY <2>2, <2>3, <2>4, ReturnTyped DEF TypeOK
<1>10. ASSUME StartWork PROVE Typed'
  <2> DEFINE cmds == {do_brightness_set(value)}
  <2>1. \A cmd \in cmds : cmd \in Command /\ Plain(cmd)
    BY BrightnessCommand DEF TypeOK
  <2>3. Begin(Worker, cmds, FALSE)
    BY <1>10 DEF StartWork
  <2> HIDE DEF cmds
  <2>2. /\ pc' \in [Threads -> {"idle", "asked", "check", "write", "store"}]
        /\ task' \in [Threads -> Command]
        /\ access' \in Users \cup {NoOne}
        /\ TasksArePlain'
    BY <2>1, <2>3, <1>threads, BeginTyped
  <2> QED
    BY <1>10, <2>2 DEF StartWork, TypeOK
<1>11. ASSUME Module PROVE Typed'
  <2> USE DEF TypeOK, TasksArePlain
  <2>1. CASE InitLedsStats
    BY <2>1 DEF InitLedsStats, LED_OFF, LED_ON, LED_BRIGHTNESS_MAX, COLOR_NONE, Facets
  <2>2. CASE InitLeds
    <3>1. cache.run \in 0 .. 3 /\ cache.light \in 0 .. 255
      OBVIOUS
    <3>2. hw' \in [mode : (0 .. 3) \X (0 .. 255) \X (0 .. 255),
                  light : {<<b>> : b \in 0 .. 255}, color : {<<c>> : c \in 0 .. 5}]
      BY <2>2, <3>1 DEF InitLeds
    <3>3. mixed' \subseteq Threads /\ trusted' \subseteq Facets
      BY <2>2 DEF InitLeds, Updating, Facets
    <3> QED
      BY <2>2, <3>2, <3>3 DEF InitLeds
  <2>3. CASE InitLedsInterrupted
    BY <2>3 DEF InitLedsInterrupted
  <2>4. CASE SetRemoved
    BY <2>4 DEF SetRemoved
  <2>5. CASE CancelWork
    BY <2>5 DEF CancelWork
  <2>6. CASE Unregister
    BY <2>6 DEF Unregister
  <2> QED
    BY <1>11, <2>1, <2>2, <2>3, <2>4, <2>5, <2>6 DEF Module
<1>12. CASE UNCHANGED vars
  BY <1>12 DEF vars, TypeOK, TasksArePlain
<1>13. \A u \in Users : Requested(task[u]) \in 0 .. LED_BRIGHTNESS_MAX
  <2> SUFFICES ASSUME NEW u \in Users
               PROVE  Requested(task[u]) \in 0 .. LED_BRIGHTNESS_MAX
    OBVIOUS
  <2>1. task[u] \in Command
    BY <1>threads DEF TypeOK
  <2>2. CASE task[u].facet = "mode"
    BY <2>1, <2>2, CommandCases DEF Requested, LED_BRIGHTNESS_MAX
  <2>3. CASE task[u].facet # "mode"
    BY <2>1, <2>3, CommandCases DEF Requested, LED_BRIGHTNESS_MAX
  <2> QED
    BY <2>2, <2>3
<1> QED
  BY <1>1, <1>2, <1>3, <1>4, <1>5, <1>6, <1>7, <1>8, <1>9, <1>10, <1>11, <1>12, <1>13
  DEF Next, Store, Continue

-----------------------------------------------------------------------------
(* The cache.                                                              *)

CacheType == cache \in [run : 0 .. 3, blink : Int \X Int, breath : Int \X Int,
                        light : 0 .. 255, color : 0 .. 5]

(* Remembering what the controller holds makes the facet agree, if the     *)
(* cache can hold it. *)
LEMMA RememberedAgrees ==
  ASSUME DelaysFit, CacheType, NEW cmd \in Command, Plain(cmd),
         cache' = Remembered(cmd), hw' = hw, hw[cmd.facet] = Programmed(cmd)
  PROVE  Agrees(cmd.facet)'
<1>1. CASE cmd.facet = "mode"
  <2>1. cmd.to \in (0 .. 3) \X Nat \X Nat
    BY <1>1, CommandCases
  <2>2. cache' = RememberedMode(cmd.to[1], <<cmd.to[2], cmd.to[3]>>)
    BY <1>1 DEF Remembered
  <2>3. /\ cache'.run = cmd.to[1]
        /\ cmd.to[1] = RUN_STATE_BLINK => cache'.blink = Kept(<<cmd.to[2], cmd.to[3]>>)
        /\ cmd.to[1] = RUN_STATE_BREATH => cache'.breath = Kept(<<cmd.to[2], cmd.to[3]>>)
    BY <2>2 DEF RememberedMode, RUN_STATE_BLINK, RUN_STATE_BREATH
  <2>6. Read(Kept(<<cmd.to[2], cmd.to[3]>>)) = <<cmd.to[2], cmd.to[3]>>
    <3>1. /\ cmd.to[2] \in Nat /\ cmd.to[3] \in Nat
          /\ cmd.to[2] < IntLimit /\ cmd.to[3] < IntLimit
      BY <1>1, <2>1 DEF Plain
    <3> QED
      BY <3>1, ConversionsAgree DEF Read, Kept
  <2>4. Times' = <<cmd.to[2], cmd.to[3]>>
    BY <1>1, <2>1, <2>3, <2>6
    DEF Times, Plain, LED_OFF, LED_ON, RUN_STATE_BLINK, RUN_STATE_BREATH
  <2>5. hw'.mode = <<cmd.to[1], (cmd.to[2] \div 50) % 256, (cmd.to[3] \div 50) % 256>>
    BY <1>1 DEF Programmed
  <2> QED
    BY <1>1, <2>3, <2>4, <2>5 DEF Agrees, Programmed, Mode
<1>2. CASE cmd.facet = "light"
  BY <1>2, CommandCases DEF Agrees, Remembered, Programmed, CacheType
<1>3. CASE cmd.facet = "color"
  BY <1>3, CommandCases DEF Agrees, Remembered, Programmed, CacheType
<1> QED
  BY <1>1, <1>2, <1>3, CommandCases

(* Remembering one facet says nothing about another. *)
LEMMA RememberedKeeps ==
  ASSUME CacheType, NEW cmd \in Command, NEW f \in Facets \ {cmd.facet},
         cache' = Remembered(cmd), hw' = hw, Agrees(f)
  PROVE  Agrees(f)'
<1>1. CASE cmd.facet = "mode"
  BY <1>1 DEF Agrees, Remembered, RememberedMode, Facets
<1>2. CASE cmd.facet = "light"
  BY <1>2 DEF Agrees, Remembered, CacheType, Facets, Times
<1>3. CASE cmd.facet = "color"
  BY <1>3 DEF Agrees, Remembered, CacheType, Facets, Times
<1> QED
  BY <1>1, <1>2, <1>3, CommandCases

(* A step that neither programs the controller nor updates the cache, nor  *)
(* starts or ends an update, keeps the invariant. *)
LEMMA QuietStep ==
  ASSUME UpdatesAreFresh, CacheIsReal,
         UNCHANGED <<hw, cache, mixed, trusted>>,
         \A t \in Threads : /\ pc'[t] = "store" <=> pc[t] = "store"
                            /\ pc[t] = "store" => task'[t] = task[t]
  PROVE  UpdatesAreFresh' /\ CacheIsReal'
<1>1. UpdatesAreFresh'
  <2> SUFFICES ASSUME NEW t \in Threads, pc'[t] = "store", t \notin mixed'
               PROVE  /\ hw'[task'[t].facet] = Programmed(task'[t])
                      /\ \A u \in Threads :
                           pc'[u] = "store" /\ task'[u].facet = task'[t].facet => u = t
    BY DEF UpdatesAreFresh, Updating, Programmed
  <2>1. pc[t] = "store" /\ t \notin mixed /\ task'[t] = task[t] /\ hw' = hw
    OBVIOUS
  <2>2. hw[task[t].facet] = Programmed(task[t])
    BY <2>1 DEF UpdatesAreFresh
  <2>3. \A u \in Threads : pc[u] = "store" /\ task[u].facet = task[t].facet => u = t
    BY <2>1 DEF UpdatesAreFresh, Updating
  <2> QED
    BY <2>1, <2>2, <2>3
<1>2. CacheIsReal'
  <2>1. \A f : Updating(f)' = Updating(f)
    BY DEF Updating
  <2> QED
    BY <2>1 DEF CacheIsReal, Agrees, Times, Programmed, Mode
<1> QED
  BY <1>1, <1>2

LEMMA ProgramStep ==
  ASSUME Typed, UpdatesAreFresh, CacheIsReal, NEW t \in Threads, Program(t)
  PROVE  UpdatesAreFresh' /\ CacheIsReal'
<1> DEFINE f == task[t].facet
           others == Updating(f)
<1>1. /\ f \in {"mode", "light", "color"}
      /\ hw' = [hw EXCEPT ![f] = Programmed(task[t])]
      /\ pc' = [pc EXCEPT ![t] = "store"]
      /\ mixed' = IF others = {} THEN mixed ELSE mixed \cup others \cup {t}
      /\ UNCHANGED <<cache, task, trusted>>
      /\ pc[t] = "write"
      /\ pc \in [Threads -> {"idle", "asked", "check", "write", "store"}]
      /\ DOMAIN hw = {"mode", "light", "color"}
  BY CommandCases DEF Program, Typed, TypeOK
<1>2. \A u \in Threads : pc'[u] = "store" <=> u = t \/ pc[u] = "store"
  BY <1>1
<1>3. UpdatesAreFresh'
  <2> SUFFICES ASSUME NEW u \in Threads, pc'[u] = "store", u \notin mixed'
               PROVE  /\ hw'[task[u].facet] = Programmed(task[u])
                      /\ \A w \in Threads :
                           pc'[w] = "store" /\ task[w].facet = task[u].facet => w = u
    BY <1>1 DEF UpdatesAreFresh, Updating, Programmed
  <2>1. CASE u = t
    <3>1. others = {}
      BY <1>1, <2>1
    <3> QED
      BY <1>1, <1>2, <2>1, <3>1 DEF Updating
  <2>2. CASE u # t
    <3>1. pc[u] = "store" /\ u \notin mixed
      BY <1>1, <1>2, <2>2
    <3>2. task[u].facet # f
      BY <1>1, <2>2, <3>1 DEF Updating
    <3>3. hw[task[u].facet] = Programmed(task[u])
      BY <3>1 DEF UpdatesAreFresh
    <3>4. hw'[task[u].facet] = hw[task[u].facet]
      BY <1>1, <3>2
    <3>5. \A w \in Threads : pc[w] = "store" /\ task[w].facet = task[u].facet => w = u
      BY <3>1 DEF UpdatesAreFresh, Updating
    <3> QED
      BY <1>2, <3>2, <3>3, <3>4, <3>5
  <2> QED
    BY <2>1, <2>2
<1>4. CacheIsReal'
  <2> SUFFICES ASSUME NEW g \in trusted, Updating(g)' = {} PROVE Agrees(g)'
    BY <1>1 DEF CacheIsReal
  <2>1. g # f /\ Updating(g) = {}
    BY <1>1, <1>2 DEF Updating
  <2>2. Agrees(g) /\ g \in {"mode", "light", "color"}
    BY <2>1 DEF CacheIsReal, Typed, TypeOK, Facets
  <2>3. hw'[g] = hw[g]
    BY <1>1, <2>1, <2>2
  <2> QED
    BY <1>1, <2>2, <2>3 DEF Agrees, Times, Programmed, Mode
<1> QED
  BY <1>3, <1>4

LEMMA UpdateStep ==
  ASSUME DelaysFit, Typed, UpdatesAreFresh, CacheIsReal, NEW t \in Threads, UpdateCache(t)
  PROVE  UpdatesAreFresh' /\ CacheIsReal'
<1> DEFINE f == task[t].facet
<1>1. /\ pc[t] = "store" /\ pc' = [pc EXCEPT ![t] = "idle"]
      /\ task' = [task EXCEPT ![t] = NoTask]
      /\ cache' = Remembered(task[t]) /\ hw' = hw
      /\ trusted' = IF t \in mixed THEN trusted \ {f} ELSE trusted \cup {f}
      /\ mixed' = mixed \ {t}
      /\ pc \in [Threads -> {"idle", "asked", "check", "write", "store"}]
      /\ task \in [Threads -> Command] /\ task[t] \in Command /\ Plain(task[t])
      /\ CacheType /\ trusted \subseteq Facets
  BY DEF UpdateCache, Return, Typed, TypeOK, TasksArePlain, CacheType
<1>2. \A u \in Threads : /\ pc'[u] = "store" <=> u # t /\ pc[u] = "store"
                         /\ u # t => task'[u] = task[u]
  BY <1>1
<1>3. UpdatesAreFresh'
  <2> SUFFICES ASSUME NEW u \in Threads, pc'[u] = "store", u \notin mixed'
               PROVE  /\ hw[task'[u].facet] = Programmed(task'[u])
                      /\ \A w \in Threads :
                           pc'[w] = "store" /\ task'[w].facet = task'[u].facet => w = u
    BY <1>1 DEF UpdatesAreFresh, Updating, Programmed
  <2>1. u # t /\ pc[u] = "store" /\ u \notin mixed /\ task'[u] = task[u]
    BY <1>1, <1>2
  <2>2. hw[task[u].facet] = Programmed(task[u])
    BY <2>1 DEF UpdatesAreFresh
  <2>3. \A w \in Threads : pc[w] = "store" /\ task[w].facet = task[u].facet => w = u
    BY <2>1 DEF UpdatesAreFresh, Updating
  <2> QED
    BY <1>2, <2>1, <2>2, <2>3
<1>4. CacheIsReal'
  <2> SUFFICES ASSUME NEW g \in trusted', Updating(g)' = {} PROVE Agrees(g)'
    BY DEF CacheIsReal
  <2>1. CASE g = f
    <3>1. t \notin mixed
      BY <1>1, <2>1
    <3>2. hw[f] = Programmed(task[t])
      BY <1>1, <3>1 DEF UpdatesAreFresh
    <3> QED
      BY <1>1, <2>1, <3>2, RememberedAgrees
  <2>2. CASE g # f
    <3>1. g \in trusted /\ g \in Facets \ {f}
      BY <1>1, <2>2
    <3>2. Updating(g) = {}
      BY <1>1, <1>2, <2>2 DEF Updating
    <3>3. Agrees(g)
      BY <3>1, <3>2 DEF CacheIsReal
    <3> QED
      BY <1>1, <3>1, <3>3, RememberedKeeps
  <2> QED
    BY <2>1, <2>2
<1> QED
  BY <1>3, <1>4

LEMMA InitStep ==
  ASSUME Typed, UpdatesAreFresh, CacheIsReal, InitLedsStats \/ InitLeds
  PROVE  UpdatesAreFresh' /\ CacheIsReal'
<1> USE DEF Typed, TypeOK, Facets
<1>0. UNCHANGED <<pc, task>> /\ \A f : Updating(f)' = Updating(f)
  BY DEF InitLedsStats, InitLeds, Updating
<1>1. CASE InitLedsStats
  <2>1. /\ UNCHANGED <<hw, mixed>> /\ trusted' = {"color"}
        /\ cache'.color = COLOR_NONE
    BY <1>1 DEF InitLedsStats
  <2>2. UpdatesAreFresh'
    BY <1>0, <2>1 DEF UpdatesAreFresh, Programmed
  <2>3. CacheIsReal'
    BY <2>1 DEF CacheIsReal, Agrees
  <2> QED
    BY <2>2, <2>3
<1>2. CASE InitLeds
  <2>1. /\ hw' = [mode |-> <<cache.run, 0, 0>>, light |-> <<cache.light>>, color |-> hw.color]
        /\ mixed' = mixed \cup Updating("mode") \cup Updating("light")
        /\ cache' = cache
        /\ trusted' = (trusted \ {"mode"}) \cup {"light"}
              \cup (IF cache.run \in {LED_OFF, LED_ON} THEN {"mode"} ELSE {})
    BY <1>2 DEF InitLeds
  <2>2. UpdatesAreFresh'
    <3> SUFFICES ASSUME NEW t \in Threads, pc[t] = "store", t \notin mixed'
                 PROVE  /\ hw'[task[t].facet] = Programmed(task[t])
                        /\ \A u \in Updating(task[t].facet) : u = t
      BY <1>0 DEF UpdatesAreFresh, Programmed
    <3>1. t \notin mixed /\ task[t].facet \notin {"mode", "light"}
      BY <2>1 DEF Updating
    <3>2. task[t].facet = "color"
      BY <3>1, CommandCases
    <3>3. /\ hw[task[t].facet] = Programmed(task[t])
          /\ \A u \in Updating(task[t].facet) : u = t
      BY <3>1 DEF UpdatesAreFresh
    <3> QED
      BY <2>1, <3>2, <3>3
  <2>3. CacheIsReal'
    <3> SUFFICES ASSUME NEW f \in trusted', Updating(f) = {} PROVE Agrees(f)'
      BY <1>0 DEF CacheIsReal
    <3>1. CASE f = "mode"
      <4>1. cache.run \in {LED_OFF, LED_ON}
        BY <2>1, <3>1
      <4>2. Times' = <<0, 0>>
        BY <2>1, <4>1 DEF Times, LED_OFF, LED_ON, RUN_STATE_BLINK, RUN_STATE_BREATH
      <4>3. Programmed(Mode(cache.run, 0, 0)) = <<cache.run, 0, 0>>
        BY Arithmetic DEF Programmed, Mode
      <4> QED
        BY <2>1, <3>1, <4>2, <4>3 DEF Agrees, Programmed, Mode
    <3>2. CASE f = "light"
      BY <2>1, <3>2 DEF Agrees
    <3>3. CASE f = "color"
      <4>1. Agrees("color")
        BY <2>1, <3>3 DEF CacheIsReal
      <4> QED
        BY <2>1, <3>3, <4>1 DEF Agrees
    <3> QED
      BY <2>1, <3>1, <3>2, <3>3
  <2> QED
    BY <2>2, <2>3
<1> QED
  BY <1>1, <1>2

(* Every other step is quiet. *)
LEMMA OtherSteps ==
  ASSUME Typed, Typed', UpdatesAreFresh, CacheIsReal, [Next]_vars,
         \A t \in Threads : ~ Program(t) /\ ~ UpdateCache(t),
         ~ InitLedsStats, ~ InitLeds
  PROVE  UpdatesAreFresh' /\ CacheIsReal'
<1> USE DEF Typed, TypeOK
<1> DEFINE Quiet == /\ UNCHANGED <<hw, cache, mixed, trusted>>
                    /\ \A t \in Threads : /\ pc'[t] = "store" <=> pc[t] = "store"
                                          /\ pc[t] = "store" => task'[t] = task[t]
<1>threads. Worker \in Threads /\ Users \subseteq Threads
  BY DEF Threads
<1>begin. ASSUME NEW t \in Threads, NEW cmds, NEW held, Begin(t, cmds, held),
                 UNCHANGED <<hw, cache, mixed, trusted>>
          PROVE  Quiet
  BY <1>begin DEF Begin, Idle
<1>return. ASSUME NEW t \in Threads, pc[t] # "store", Return(t),
                  UNCHANGED <<hw, cache, mixed, trusted>>
           PROVE  Quiet
  BY <1>return DEF Return
<1>1. ASSUME NEW u \in Users, NEW v \in {LED_OFF, LED_ON} \cup Lights, StoreBrightness(u, v)
      PROVE  Quiet
  BY <1>1, <1>threads DEF StoreBrightness, Idle
<1>2. ASSUME NEW u \in Users, NEW name \in Triggers \cup {"none"}, StoreTrigger(u, name)
      PROVE  Quiet
  BY <1>2, <1>threads, <1>begin DEF StoreTrigger
<1>3. ASSUME NEW u \in Users, NEW d \in Delays, StoreDelays(u, d) PROVE Quiet
  BY <1>3, <1>threads, <1>begin DEF StoreDelays
<1>4. ASSUME NEW u \in Users, NEW c \in Colours, StoreColour(u, c) PROVE Quiet
  BY <1>4, <1>threads, <1>begin DEF StoreColour
<1>5. ASSUME NEW u \in Users, ScheduleWork(u) \/ ProgramInterrupted(u) PROVE Quiet
  BY <1>5, <1>threads, <1>return DEF ScheduleWork, ProgramInterrupted
<1>6. ASSUME NEW t \in Threads, CheckCache(t) PROVE Quiet
  BY <1>6, <1>return DEF CheckCache
<1>7. ASSUME StartWork PROVE Quiet
  BY <1>7, <1>threads, <1>begin DEF StartWork
<1>8. ASSUME InitLedsInterrupted \/ SetRemoved \/ CancelWork \/ Unregister PROVE Quiet
  BY <1>8 DEF InitLedsInterrupted, SetRemoved, CancelWork, Unregister
<1>9. ASSUME UNCHANGED vars PROVE Quiet
  BY <1>9 DEF vars
<1>10. Quiet
  BY <1>1, <1>2, <1>3, <1>4, <1>5, <1>6, <1>7, <1>8, <1>9
  DEF Next, Store, Continue, Module
<1> QED
  BY <1>10, QuietStep

LEMMA InitGood == Init => IInv
<1> SUFFICES ASSUME Init PROVE IInv
  OBVIOUS
<1>1. NoTask \in Command /\ Plain(NoTask)
  BY NothingToSay DEF NoTask
<1>2. TypeOK
  <2>1. /\ hw = [mode |-> <<BootMode, 0, 0>>, light |-> <<255>>, color |-> <<0>>]
        /\ cache = [run |-> 0, blink |-> <<0, 0>>, breath |-> <<0, 0>>,
                    light |-> 0, color |-> 0]
        /\ BootMode \in 0 .. 3
    BY LedAssumption DEF Init, LED_OFF, LED_ON, COLOR_NONE
  <2>2. hw \in [mode : (0 .. 3) \X (0 .. 255) \X (0 .. 255),
               light : {<<b>> : b \in 0 .. 255}, color : {<<c>> : c \in 0 .. 5}]
    BY <2>1
  <2>3. cache \in [run : 0 .. 3, blink : Int \X Int, breath : Int \X Int,
                  light : 0 .. 255, color : 0 .. 5]
    BY <2>1
  <2> QED
    BY <1>1, <2>2, <2>3 DEF Init, TypeOK, LED_BRIGHTNESS_MAX, Facets
<1>3. TasksArePlain
  BY <1>1 DEF Init, TasksArePlain
<1>4. UpdatesAreFresh
  BY DEF Init, UpdatesAreFresh
<1>5. CacheIsReal
  BY DEF Init, CacheIsReal, Agrees, COLOR_NONE
<1> QED
  BY <1>2, <1>3, <1>4, <1>5 DEF IInv

(* The driver's state keeps its types, whatever the delays: the registers  *)
(* hold bytes, and the cache holds an int for each time. *)
THEOREM TypeCorrect == Spec => []TypeOK
<1>1. Init => Typed
  BY InitGood DEF IInv, Typed
<1>2. Typed /\ [Next]_vars => Typed'
  BY TypedNext
<1>3. Typed => TypeOK
  BY DEF Typed
<1> QED
  BY <1>1, <1>2, <1>3, PTL DEF Spec

(* With delays that fit an int, and except where updates of a facet        *)
(* overlap, cur_state is the real state of the LED: whatever requests the  *)
(* driver skips because of it, it skips rightly (do_brightness_set,        *)
(* do_color_set, led_blink_or_breath). *)
THEOREM CacheIsTrusted == ASSUME DelaysFit PROVE Spec => []CacheIsReal
<1>1. Init => IInv
  BY InitGood
<1>2. IInv /\ [Next]_vars => IInv'
  <2> SUFFICES ASSUME IInv, [Next]_vars PROVE IInv'
    OBVIOUS
  <2>1. Typed /\ Typed'
    BY TypedNext DEF IInv, Typed
  <2>2. UpdatesAreFresh' /\ CacheIsReal'
    <3>1. CASE \E t \in Threads : Program(t) \/ UpdateCache(t)
      BY <2>1, <3>1, ProgramStep, UpdateStep DEF IInv
    <3>2. CASE InitLedsStats \/ InitLeds
      BY <2>1, <3>2, InitStep DEF IInv
    <3> QED
      BY <2>1, <3>1, <3>2, OtherSteps DEF IInv
  <2> QED
    BY <2>1, <2>2 DEF IInv, Typed
<1>3. IInv => CacheIsReal
  BY DEF IInv
<1> QED
  BY <1>1, <1>2, <1>3, PTL DEF Spec

-----------------------------------------------------------------------------
(* Removal.                                                                *)

(* From cancel_work_sync on the worker finds the flag set and does nothing, *)
(* and once the LED is unregistered nobody is in the driver.               *)
Removal ==
  /\ phase \in {"flagged", "cancelled", "gone"} => flag = TRUE
  /\ phase \in {"cancelled", "gone"} => Idle(Worker)
  /\ phase = "gone" => \A t \in Threads : Idle(t)

LEMMA RemovalNext ==
  ASSUME TypeOK, Removal, [Next]_vars
  PROVE  Removal'
<1> USE DEF Removal
<1>pc. /\ pc \in [Threads -> {"idle", "asked", "check", "write", "store"}]
       /\ Worker \in Threads /\ Users \subseteq Threads /\ Threads = Users \cup {Worker}
  BY DEF TypeOK, Threads
<1>live. ASSUME phase' = phase, flag' = flag, NEW t \in Threads,
                \A u \in Threads \ {t} : pc'[u] = pc[u],
                \/ pc[t] # "idle" /\ pc'[t] = pc[t]
                \/ pc[t] # "idle" /\ pc'[t] = "idle"
                \/ pc[t] # "idle" /\ phase \notin {"cancelled", "gone"}
                \/ t \in Users /\ phase \notin {"cancelled", "gone"}
                \/ t = Worker /\ flag = FALSE
                \/ pc'[t] = pc[t]
         PROVE  Removal'
  BY <1>live, <1>pc DEF Idle
<1>1. ASSUME NEW u \in Users, Store(u) PROVE Removal'
  <2>1. /\ Writable /\ UNCHANGED <<phase, flag>>
        /\ \A t \in Threads \ {u} : pc'[t] = pc[t]
    BY <1>1, <1>pc
    DEF Store, StoreBrightness, StoreTrigger, StoreDelays, StoreColour, Begin
  <2> QED
    BY <2>1, <1>live, <1>pc DEF Writable
<1>2. ASSUME NEW t \in Threads, pc[t] # "idle", UNCHANGED <<phase, flag>>,
             Return(t) PROVE Removal'
  BY <1>2, <1>live, <1>pc DEF Return
<1>3. ASSUME NEW t \in Threads, pc[t] # "idle", UNCHANGED <<phase, flag>>,
             NEW step \in {"write", "store"}, pc' = [pc EXCEPT ![t] = step]
      PROVE  Removal'
  BY <1>3, <1>pc DEF Idle
<1>4. ASSUME NEW u \in Users, ScheduleWork(u) \/ ProgramInterrupted(u) PROVE Removal'
  BY <1>4, <1>2, <1>pc DEF ScheduleWork, ProgramInterrupted
<1>5. ASSUME NEW t \in Threads, Continue(t) PROVE Removal'
  BY <1>5, <1>2, <1>3 DEF Continue, CheckCache, Program, UpdateCache
<1>6. ASSUME StartWork PROVE Removal'
  <2>1. UNCHANGED <<phase, flag>> /\ (UNCHANGED pc \/ (~ flag /\ pc' = [pc EXCEPT ![Worker] = "check"]))
    BY <1>6 DEF StartWork, Begin
  <2> QED
    BY <2>1, <1>pc DEF Idle
<1>7. ASSUME Module PROVE Removal'
  <2>1. CASE InitLedsStats \/ InitLeds \/ InitLedsInterrupted
    BY <2>1 DEF InitLedsStats, InitLeds, InitLedsInterrupted, Idle
  <2>2. CASE SetRemoved
    BY <2>2 DEF SetRemoved
  <2>3. CASE CancelWork
    BY <2>3 DEF CancelWork, Idle
  <2>4. CASE Unregister
    BY <2>4, <1>pc DEF Unregister, Idle
  <2> QED
    BY <1>7, <2>1, <2>2, <2>3, <2>4 DEF Module
<1>8. CASE UNCHANGED vars
  BY <1>8 DEF vars, Idle
<1> QED
  BY <1>1, <1>4, <1>5, <1>6, <1>7, <1>8 DEF Next

(* Only programming a LED and init_leds write to the controller. *)
LEMMA GoneIsQuiet ==
  ASSUME TypeOK, Removal, phase = "gone", [Next]_vars
  PROVE  UNCHANGED hw
<1>1. \A t \in Threads : pc[t] = "idle"
  BY DEF Removal, Idle
<1>2. ASSUME NEW u \in Users, Store(u) \/ ScheduleWork(u) \/ ProgramInterrupted(u)
      PROVE  UNCHANGED hw
  BY <1>2 DEF Store, StoreBrightness, StoreTrigger, StoreDelays, StoreColour,
              ScheduleWork, ProgramInterrupted
<1>3. ASSUME NEW t \in Threads, Continue(t) PROVE UNCHANGED hw
  BY <1>1, <1>3 DEF Continue, CheckCache, Program, UpdateCache
<1>4. ASSUME StartWork \/ Module PROVE UNCHANGED hw
  BY <1>4 DEF StartWork, Module, InitLedsStats, InitLeds, InitLedsInterrupted,
              SetRemoved, CancelWork, Unregister
<1> QED
  BY <1>2, <1>3, <1>4 DEF Next, vars

(* Once ug_201_leds_remove has returned, no request still on its way, and  *)
(* no work item queued behind cancel_work_sync, programs the LED. *)
THEOREM RemovedLedIsLeftAlone == Spec => LeftAloneAfterRemoval
<1>1. Init => Removal
  BY DEF Init, Removal
<1>2. TypeOK /\ Removal /\ [Next]_vars => Removal'
  BY RemovalNext
<1>3. TypeOK /\ Removal /\ [Next]_vars => [phase = "gone" => UNCHANGED hw]_vars
  BY GoneIsQuiet
<1>4. Spec => []TypeOK
  BY TypeCorrect
<1> QED
  BY <1>1, <1>2, <1>3, <1>4, PTL DEF Spec, LeftAloneAfterRemoval

=============================================================================
