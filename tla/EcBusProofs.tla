---------------------------- MODULE EcBusProofs ----------------------------
(***************************************************************************)
(* For any number of threads and any set of disciplined calls, whatever    *)
(* their length and the registers they touch.                              *)
(***************************************************************************)
EXTENDS EcRefinement, WellFoundedInduction, TLAPS

(* What each thread is doing: a disciplined call, at one of its steps or   *)
(* just past the end, and between two port writes only during an access.   *)
InCall ==
  \A t \in Threads :
    /\ Disciplined(call[t])
    /\ at[t] <= Len(call[t]) + 1
    /\ port[t] # "hi" => Inside(t) /\ Cur(t).op \in {"in", "out"}

IInv == TypeOK /\ InCall /\ OwnerIsInside /\ AccessReachesItsRegister

-----------------------------------------------------------------------------
(* Facts about calls.                                                      *)

(* A step of a call is a step. *)
LEMMA StepType ==
  ASSUME NEW c \in Seq(Step), NEW i \in 1 .. Len(c)
  PROVE  /\ c[i] \in Step
         /\ c[i].op \in {"lock", "lock_intr", "unlock", "in", "out"}
         /\ c[i].op \in {"in", "out"} => c[i].reg \in Addr /\ c[i].val \in Byte
<1>1. c[i] \in Step
  OBVIOUS
<1> QED
  BY <1>1 DEF Step

(* Holding the lock, one step on: a lock step takes it, an unlock step     *)
(* gives it back, an access changes nothing. *)
LEMMA HeldNext ==
  ASSUME NEW c \in Seq(Step), NEW i \in 1 .. Len(c)
  PROVE  Held(c, i + 1) <=> \/ c[i].op \in {"lock", "lock_intr"}
                            \/ Held(c, i) /\ c[i].op # "unlock"
<1>1. CASE c[i].op \in {"lock", "lock_intr"}
  BY <1>1 DEF Held
<1>2. CASE c[i].op = "unlock"
  BY <1>2 DEF Held
<1>3. CASE c[i].op \in {"in", "out"}
  BY <1>3 DEF Held
<1> QED
  BY <1>1, <1>2, <1>3, StepType

(* No call holds the lock before its first step. *)
LEMMA HeldFirst == \A c : ~ Held(c, 1)
  BY DEF Held

-----------------------------------------------------------------------------
(* The type invariant.                                                     *)

(* Every variable keeps its type: in particular the registers hold bytes   *)
(* and the latch an address, however the threads' port writes interleave. *)
THEOREM TypeCorrect == Spec => []TypeOK
<1> USE BusAssumption
<1>1. Init => TypeOK
  BY DEF Init, TypeOK
<1>2. TypeOK /\ [Next]_vars => TypeOK'
  <2> SUFFICES ASSUME TypeOK, [Next]_vars PROVE TypeOK'
    OBVIOUS
  <2> USE DEF TypeOK
  <2>1. ASSUME NEW t \in Threads, NEW c \in Calls, Enter(t, c) PROVE TypeOK'
    BY <2>1 DEF Enter
  <2>2. ASSUME NEW t \in Threads, AcquireLock(t) PROVE TypeOK'
    BY <2>2 DEF AcquireLock, Next1
  <2>3. ASSUME NEW t \in Threads, Interrupted(t) PROVE TypeOK'
    BY <2>3 DEF Interrupted
  <2>4. ASSUME NEW t \in Threads, ReleaseLock(t) PROVE TypeOK'
    BY <2>4 DEF ReleaseLock, Next1
  <2>5. ASSUME NEW t \in Threads, Access(t) PROVE TypeOK'
    <3>1. /\ Inside(t) /\ Cur(t).op \in {"in", "out"}
          /\ at[t] \in 1 .. Len(call[t]) /\ call[t] \in Seq(Step)
      BY <2>5 DEF Access, AddressHi, AddressLo, Outb, Inb, AtPort, Inside
    <3>2. Cur(t).reg \in Addr /\ Cur(t).val \in Byte
      BY <3>1, StepType DEF Cur
    <3>3. CASE AddressHi(t)
      BY <3>2, <3>3 DEF AddressHi, Addr
    <3>4. CASE AddressLo(t)
      BY <3>2, <3>4 DEF AddressLo, Addr
    <3>5. CASE Outb(t)
      BY <3>2, <3>5 DEF Outb, Next1
    <3>6. CASE Inb(t)
      BY <3>2, <3>6 DEF Inb, Next1
    <3> QED
      BY <2>5, <3>3, <3>4, <3>5, <3>6 DEF Access
  <2>6. CASE UNCHANGED vars
    BY <2>6 DEF vars
  <2> QED
    BY <2>1, <2>2, <2>3, <2>4, <2>5, <2>6 DEF Next, Run
<1> QED
  BY <1>1, <1>2, PTL DEF Spec

-----------------------------------------------------------------------------
(* The lock and the window.                                                *)

(* A thread in an access holds the lock, so no other thread is in one. *)
LEMMA AccessIsExclusive ==
  ASSUME TypeOK, InCall, OwnerIsInside,
         NEW t \in Threads, Inside(t), Cur(t).op \in {"in", "out", "unlock"}
  PROVE  /\ lock = t
         /\ Held(call[t], at[t])
         /\ at[t] \in 1 .. Len(call[t])
         /\ \A u \in Threads \ {t} : ~ AtPort(u, "lo") /\ ~ AtPort(u, "data")
<1>1. \A u \in Threads :
        Inside(u) => at[u] \in 1 .. Len(call[u]) /\ call[u] \in Seq(Step)
  BY DEF TypeOK, Inside
<1>2. \A u \in Threads :
        Inside(u) /\ Cur(u).op \in {"in", "out", "unlock"} => Held(call[u], at[u])
  BY <1>1 DEF InCall, Disciplined, Cur
<1>3. \A u \in Threads :
        Inside(u) /\ Cur(u).op \in {"in", "out", "unlock"} => lock = u
  BY <1>2 DEF OwnerIsInside
<1> QED
  BY <1>1, <1>2, <1>3 DEF AtPort

(* The invariant is inductive. *)
LEMMA BusInductive ==
  ASSUME \A c \in Calls : Disciplined(c),
         IInv, TypeOK', [Next]_vars
  PROVE  IInv'
<1> USE BusAssumption
<1> USE DEF IInv
<1>type. \A t \in Threads :
           /\ call[t] \in Seq(Step) /\ at[t] \in Nat \ {0}
           /\ Inside(t) => at[t] \in 1 .. Len(call[t])
  BY DEF TypeOK, Inside
<1>fun. /\ DOMAIN at = Threads /\ DOMAIN call = Threads /\ DOMAIN port = Threads
        /\ NoThread \notin Threads
  BY DEF TypeOK
<1>1. ASSUME NEW t \in Threads, NEW c \in Calls, Enter(t, c) PROVE IInv'
  <2>1. InCall'
    BY <1>1, <1>type, <1>fun DEF Enter, InCall, Inside, Cur
  <2>2. OwnerIsInside'
    <3>1. ~ Held(call[t], at[t])
      BY <1>1, <1>type DEF Enter, InCall, Disciplined, Inside
    <3> QED
      BY <1>1, <1>fun, <3>1, HeldFirst DEF Enter, OwnerIsInside
  <2>3. AccessReachesItsRegister'
    <3>1. ~ (AtPort(t, "lo") \/ AtPort(t, "data"))' 
      BY <1>1, <1>fun DEF Enter, InCall, AtPort, Inside
    <3> QED
      BY <1>1, <1>fun, <3>1
      DEF Enter, AccessReachesItsRegister, AtPort, Inside, Cur
  <2> QED
    BY <2>1, <2>2, <2>3
<1>2. ASSUME NEW t \in Threads, AcquireLock(t) PROVE IInv'
  <2>1. at[t] \in 1 .. Len(call[t]) /\ call[t][at[t]].op \in {"lock", "lock_intr"}
    BY <1>2, <1>type DEF AcquireLock, Cur
  <2>2. Held(call[t], at[t] + 1)
    BY <2>1, <1>type, HeldNext
  <2>3. InCall'
    BY <1>2, <2>1, <1>type, <1>fun DEF AcquireLock, Next1, InCall, Inside, Cur
  <2>4. OwnerIsInside'
    BY <1>2, <2>2, <1>fun DEF AcquireLock, Next1, OwnerIsInside
  <2>5. AccessReachesItsRegister'
    <3>1. port[t] = "hi"
      BY <1>2, <2>1, <1>type DEF TypeOK, InCall, Cur
    <3> QED
      BY <1>2, <3>1, <1>fun
      DEF AcquireLock, Next1, AccessReachesItsRegister, AtPort, Inside, Cur
  <2> QED
    BY <2>3, <2>4, <2>5
<1>3. ASSUME NEW t \in Threads, Interrupted(t) PROVE IInv'
  <2>1. PICK i \in at[t] .. Len(call[t]) :
          call[t][i].op = "unlock" /\ at' = [at EXCEPT ![t] = i + 1]
    BY <1>3 DEF Interrupted
  <2>2. i \in 1 .. Len(call[t])
    BY <2>1, <1>type
  <2>3. ~ Held(call[t], i + 1)
    BY <2>1, <2>2, <1>type, HeldNext
  <2>4. port[t] = "hi"
    BY <1>3 DEF Interrupted, InCall
  <2>5. lock # t
    <3>1. at[t] \in 1 .. Len(call[t]) /\ call[t][at[t]].op = "lock_intr"
      BY <1>3, <1>type DEF Interrupted, Cur
    <3>2. ~ Held(call[t], at[t])
      BY <3>1 DEF InCall, Disciplined
    <3> QED
      BY <3>2 DEF OwnerIsInside
  <2>6. InCall'
    BY <1>3, <2>1, <2>2, <2>4, <1>type, <1>fun DEF Interrupted, InCall, Inside, Cur
  <2>7. OwnerIsInside'
    BY <1>3, <2>1, <2>3, <2>5, <1>fun DEF Interrupted, OwnerIsInside
  <2>8. AccessReachesItsRegister'
    BY <1>3, <2>1, <2>4, <1>fun
    DEF Interrupted, AccessReachesItsRegister, AtPort, Inside, Cur
  <2> QED
    BY <2>6, <2>7, <2>8
<1>4. ASSUME NEW t \in Threads, ReleaseLock(t) PROVE IInv'
  <2>1. at[t] \in 1 .. Len(call[t]) /\ call[t][at[t]].op = "unlock"
    BY <1>4, <1>type DEF ReleaseLock, Cur
  <2>2. ~ Held(call[t], at[t] + 1)
    BY <2>1, <1>type, HeldNext
  <2>3. lock = t
    BY <1>4, AccessIsExclusive DEF ReleaseLock
  <2>4. port[t] = "hi"
    BY <1>4 DEF ReleaseLock, InCall
  <2>5. InCall'
    BY <1>4, <2>1, <2>4, <1>type, <1>fun DEF ReleaseLock, Next1, InCall, Inside, Cur
  <2>6. OwnerIsInside'
    BY <1>4, <2>2, <2>3, <1>fun DEF ReleaseLock, Next1, OwnerIsInside
  <2>7. AccessReachesItsRegister'
    BY <1>4, <2>4, <1>fun
    DEF ReleaseLock, Next1, AccessReachesItsRegister, AtPort, Inside, Cur
  <2> QED
    BY <2>5, <2>6, <2>7
<1>5. ASSUME NEW t \in Threads, Access(t) PROVE IInv'
  <2>1. Inside(t) /\ Cur(t).op \in {"in", "out"}
    BY <1>5 DEF Access, AddressHi, AddressLo, Outb, Inb, AtPort
  <2>2. /\ lock = t
        /\ at[t] \in 1 .. Len(call[t])
        /\ Held(call[t], at[t])
        /\ \A u \in Threads \ {t} : ~ AtPort(u, "lo") /\ ~ AtPort(u, "data")
    BY <2>1, AccessIsExclusive
  <2>3. ASSUME AddressHi(t) \/ AddressLo(t) PROVE IInv'
    <3>1. InCall'
      BY <2>1, <2>3, <1>fun DEF AddressHi, AddressLo, InCall, Inside, Cur
    <3>2. OwnerIsInside'
      BY <2>3 DEF AddressHi, AddressLo, OwnerIsInside
    <3>3. AccessReachesItsRegister'
      <4>1. \A u \in Threads \ {t} : ~ AtPort(u, "lo")' /\ ~ AtPort(u, "data")'
        BY <2>2, <2>3, <1>fun DEF AddressHi, AddressLo, AtPort, Inside, Cur
      <4>2. Cur(t).reg \in Addr /\ latch \in Addr
        BY <2>1, <2>2, <1>type, StepType DEF TypeOK, Cur
      <4>3. CASE AddressHi(t)
        BY <4>1, <4>2, <4>3, <1>fun
        DEF AddressHi, AccessReachesItsRegister, AtPort, Inside, Cur
      <4>4. CASE AddressLo(t)
        <5>1. latch[1] = Cur(t).reg[1]
          BY <4>4 DEF AddressLo, AccessReachesItsRegister
        <5>2. latch' = Cur(t).reg
          BY <5>1, <4>2, <4>4 DEF AddressLo, Addr
        <5> QED
          BY <4>1, <4>2, <4>4, <5>2, <1>fun
          DEF AddressLo, AccessReachesItsRegister, AtPort, Inside, Cur
      <4> QED
        BY <2>3, <4>3, <4>4
    <3> QED
      BY <3>1, <3>2, <3>3
  <2>4. ASSUME Outb(t) \/ Inb(t) PROVE IInv'
    <3>1. /\ port' = [port EXCEPT ![t] = "hi"]
          /\ at' = [at EXCEPT ![t] = @ + 1]
          /\ UNCHANGED <<lock, latch, call>>
      BY <2>4 DEF Outb, Inb, Next1
    <3>2. Held(call[t], at[t] + 1)
      BY <2>1, <2>2, <1>type, HeldNext DEF Cur
    <3>3. InCall'
      BY <3>1, <2>2, <1>type, <1>fun DEF InCall, Inside, Cur
    <3>4. OwnerIsInside'
      BY <3>1, <3>2, <2>2, <1>fun DEF OwnerIsInside
    <3>5. AccessReachesItsRegister'
      BY <3>1, <1>fun DEF AccessReachesItsRegister, AtPort, Inside, Cur
    <3> QED
      BY <3>3, <3>4, <3>5
  <2> QED
    BY <1>5, <2>3, <2>4 DEF Access
<1>6. CASE UNCHANGED vars
  BY <1>6 DEF vars, TypeOK, InCall, OwnerIsInside, AccessReachesItsRegister,
              AtPort, Inside, Cur
<1> QED
  BY <1>1, <1>2, <1>3, <1>4, <1>5, <1>6 DEF Next, Run

(* It holds when the module is loaded. *)
LEMMA InitialBus ==
  ASSUME Init PROVE IInv
<1>1. TypeOK
  BY BusAssumption DEF Init, TypeOK
<1>2. InCall
  <2>1. Disciplined(<<>>)
    <3>1. Len(<<>>) = 0
      OBVIOUS
    <3> QED
      BY <3>1, HeldFirst DEF Disciplined
  <2>2. \A t \in Threads : call[t] = <<>> /\ at[t] = 1 /\ port[t] = "hi"
    BY DEF Init
  <2>3. ASSUME NEW t \in Threads
        PROVE  /\ Disciplined(call[t])
               /\ at[t] <= Len(call[t]) + 1
               /\ port[t] = "hi"
    <3>1. Len(call[t]) = 0
      BY <2>2
    <3> QED
      BY <2>1, <2>2, <3>1
  <2> QED
    BY <2>3 DEF InCall
<1>3. OwnerIsInside
  BY BusAssumption, HeldFirst DEF Init, OwnerIsInside
<1>4. AccessReachesItsRegister
  BY DEF Init, AccessReachesItsRegister, AtPort
<1> QED
  BY <1>1, <1>2, <1>3, <1>4 DEF IInv

(* With disciplined calls every access reaches the register it was made    *)
(* for, and the lock belongs exactly to the thread inside a critical       *)
(* section: what the driver relies on each time it calls                   *)
(* Chipsea_Host2ec_Outb or Chipsea_Host2ec_Inb. *)
THEOREM WindowIsSafe ==
  ASSUME \A c \in Calls : Disciplined(c)
  PROVE  Spec => [](OwnerIsInside /\ AccessReachesItsRegister)
<1>1. Init => IInv
  BY InitialBus
<1>2. IInv /\ TypeOK' /\ [Next]_vars => IInv'
  BY BusInductive
<1>3. IInv => OwnerIsInside /\ AccessReachesItsRegister
  BY DEF IInv
<1> QED
  BY <1>1, <1>2, <1>3, TypeCorrect, PTL DEF Spec

LEMMA OwnerGoesOn == IInv /\ TypeOK => OwnerNeverWaits
<1> SUFFICES ASSUME IInv, TypeOK, NEW t \in Threads, lock = t
             PROVE  Inside(t) /\ Cur(t).op \in {"in", "out", "unlock"}
  BY DEF OwnerNeverWaits
<1>1. Held(call[t], at[t])
  BY DEF IInv, OwnerIsInside
<1>2. Disciplined(call[t]) /\ at[t] \in 1 .. Len(call[t]) + 1
  BY DEF IInv, InCall, TypeOK
<1>3. Len(call[t]) \in Nat
  BY DEF TypeOK
<1>4. at[t] \in 1 .. Len(call[t])
  BY <1>1, <1>2, <1>3 DEF Disciplined
<1> QED
  BY <1>1, <1>2, <1>3, <1>4 DEF Disciplined, Inside, Cur

(* With disciplined calls nobody waits for a lock that is not given back:  *)
(* whoever owns ug_201x_lock is at a step that needs no other thread, a    *)
(* port access or the release. *)
THEOREM LockIsGivenBack ==
  ASSUME \A c \in Calls : Disciplined(c)
  PROVE  Spec => []OwnerNeverWaits
<1>1. Init => IInv
  BY InitialBus
<1>2. IInv /\ TypeOK' /\ [Next]_vars => IInv'
  BY BusInductive
<1> QED
  BY <1>1, <1>2, OwnerGoesOn, TypeCorrect, PTL DEF Spec

-----------------------------------------------------------------------------
(* Facts about the effect of a call.                                       *)

Less == {p \in Nat \X Nat : p[1] < p[2]}

(* No sequence of numbers descends for ever. *)
LEMMA LessIsWellFounded == IsWellFoundedOn(Less, Nat)
<1>1. OpToRel(<, Nat) = Less
  BY DEF OpToRel, Less
<1> QED
  BY <1>1, NatLessThanWellFounded

(* A set of steps of a call has a latest one. *)
LEMMA LatestIsMax ==
  ASSUME NEW n \in Nat, NEW S, S \subseteq 1 .. n, S # {}
  PROVE  Latest(S) \in S /\ \A j \in S : j <= Latest(S)
<1> DEFINE T == {n - j : j \in S}
<1>1. \A j \in S : j \in Int /\ n - j \in Nat
  OBVIOUS
<1>2. T \subseteq Nat /\ T # {}
  BY <1>1
<1>3. \E x \in T : \A y \in T : ~ (<<y, x>> \in Less)
  <2> HIDE DEF T
  <2> QED
    BY <1>2, LessIsWellFounded, WFMin
<1>4. PICK i \in S : \A j \in S : ~ (<<n - j, n - i>> \in Less)
  BY <1>3
<1>5. ASSUME NEW j \in S PROVE j <= i
  <2>1. ~ (n - j < n - i)
    BY <1>1, <1>4 DEF Less
  <2> QED
    BY <1>1, <2>1
<1> QED
  BY <1>5 DEF Latest

(* The converse: what is largest in a set is its latest element.           *)
LEMMA LatestIs ==
  ASSUME NEW S, NEW k \in S, S \subseteq Int, \A j \in S : j <= k
  PROVE  Latest(S) = k
<1> DEFINE l == Latest(S)
<1>1. l \in S /\ \A j \in S : j <= l
  BY DEF Latest
<1> HIDE DEF l
<1>2. l \in Int /\ k \in Int /\ l <= k /\ k <= l
  BY <1>1
<1>3. l = k
  BY <1>2
<1> QED
  BY <1>3 DEF l

(* A call that has no steps left changes nothing.                          *)
LEMMA EffectOfNothing ==
  ASSUME NEW m \in [Addr -> Byte], NEW c, NEW i \in Int, NEW n \in Int, n < i
  PROVE  After(m, c, i, n) = m
<1>1. \A r : Writes(c, i, n, r) = {}
  BY DEF Writes
<1> QED
  BY <1>1 DEF After

(* A step that writes nothing is not seen in the effect of the rest.       *)
LEMMA EffectOfOther ==
  ASSUME NEW m \in [Addr -> Byte], NEW c,
         NEW i \in Int, NEW n \in Int, i <= n, c[i].op # "out"
  PROVE  After(m, c, i + 1, n) = After(m, c, i, n)
<1>1. ASSUME NEW r PROVE Writes(c, i + 1, n, r) = Writes(c, i, n, r)
  <2>1. \A j \in i .. n : c[j].op = "out" => j \in i + 1 .. n
    OBVIOUS
  <2> QED
    BY <2>1 DEF Writes
<1> QED
  BY <1>1 DEF After

(* Making a write now or counting it among the writes ahead is the same:   *)
(* the later of two writes to one register wins either way.                *)
LEMMA EffectOfOut ==
  ASSUME NEW m \in [Addr -> Byte], NEW c,
         NEW i \in Nat \ {0}, NEW n \in Nat, i <= n,
         c[i].op = "out", c[i].reg \in Addr, c[i].val \in Byte
  PROVE  After([m EXCEPT ![c[i].reg] = c[i].val], c, i + 1, n) = After(m, c, i, n)
<1> DEFINE mm == [m EXCEPT ![c[i].reg] = c[i].val]
           Later(r) == Writes(c, i + 1, n, r)
           All(r)   == Writes(c, i, n, r)
<1>1. mm \in [Addr -> Byte]
  OBVIOUS
<1>2. ASSUME NEW r \in Addr
      PROVE  After(mm, c, i + 1, n)[r] = After(m, c, i, n)[r]
  <2>1. Later(r) \subseteq 1 .. n /\ All(r) \subseteq 1 .. n /\ Later(r) \subseteq i + 1 .. n
    BY DEF Writes
  <2>2. \A j \in i .. n : j \in i + 1 .. n \/ j = i
    OBVIOUS
  <2>3. CASE r # c[i].reg
    <3>1. All(r) = Later(r)
      BY <2>2, <2>3 DEF Writes
    <3>2. mm[r] = m[r]
      BY <2>3
    <3> HIDE DEF Later, All, mm
    <3> QED
      BY <1>1, <3>1, <3>2 DEF After, Later, All
  <2>4. CASE r = c[i].reg
    <3>1. i \in All(r) /\ All(r) = Later(r) \cup {i}
      BY <2>2, <2>4 DEF Writes
    <3>2. mm[r] = c[i].val
      BY <2>4
    <3>3. After(m, c, i, n)[r] = c[Latest(All(r))].val
      BY <3>1 DEF After
    <3> HIDE DEF Later, All, mm
    <3>4. CASE Later(r) = {}
      <4>1. Latest(All(r)) = i
        BY <3>1, <3>4, LatestIs
      <4>2. After(mm, c, i + 1, n)[r] = mm[r]
        BY <1>1, <3>4 DEF After, Later
      <4> QED
        BY <3>2, <3>3, <4>1, <4>2 DEF mm
    <3>5. CASE Later(r) # {}
      <4> DEFINE k == Latest(Later(r))
      <4>1. k \in Later(r) /\ \A j \in Later(r) : j <= k
        BY <2>1, <3>5, LatestIsMax
      <4> HIDE DEF k
      <4>2. k \in All(r) /\ All(r) \subseteq Int
        BY <3>1, <2>1, <4>1
      <4>3. k \in Int /\ i < k
        BY <2>1, <4>1
      <4>4. \A j \in All(r) : j <= k
        BY <3>1, <4>1, <4>3
      <4>5. Latest(All(r)) = k
        BY <4>2, <4>4, LatestIs
      <4>6. After(mm, c, i + 1, n)[r] = c[k].val
        BY <1>1, <3>5 DEF After, Later, k
      <4> QED
        BY <3>3, <4>5, <4>6
    <3> QED
      BY <3>4, <3>5
  <2> QED
    BY <2>3, <2>4
<1> HIDE DEF mm
<1>3. DOMAIN mm = Addr /\ DOMAIN m = Addr
  BY <1>1
<1>4. After(mm, c, i + 1, n) = After(m, c, i, n)
  BY <1>2, <1>3 DEF After
<1> QED
  BY <1>4 DEF mm

-----------------------------------------------------------------------------
(* The refinement.                                                         *)

(* A call with one critical section, from its first step to its last.      *)
OneSection(c) ==
  \A i \in 1 .. Len(c) :
    /\ c[i].op \in {"lock", "lock_intr"} <=> i = 1
    /\ c[i].op = "unlock" <=> i = Len(c)

(* Such a call keeps the discipline of the lock.                           *)
LEMMA OneSectionIsDisciplined ==
  ASSUME NEW c \in Seq(Step), OneSection(c)
  PROVE  Disciplined(c)
<1>1. Len(c) \in Nat
  OBVIOUS
<1>2. ASSUME NEW i \in 1 .. Len(c) + 1 PROVE Held(c, i) <=> i \in 2 .. Len(c)
  <2>1. CASE i = 1
    BY <2>1, HeldFirst
  <2>2. CASE i \in 2 .. Len(c)
    BY <1>1, <2>2 DEF Held, OneSection
  <2>3. CASE i = Len(c) + 1
    BY <1>1, <2>3 DEF Held, OneSection
  <2> QED
    BY <1>1, <2>1, <2>2, <2>3
<1>3. ASSUME NEW i \in 1 .. Len(c)
      PROVE  i \in 2 .. Len(c) <=> c[i].op \in {"in", "out", "unlock"}
  BY <1>1, StepType DEF OneSection
<1> QED
  BY <1>1, <1>2, <1>3 DEF Disciplined

(* What the steps of a critical section have read so far, and no more: the *)
(* answer of a call is made of its own reads.                              *)
GotSoFar ==
  \A t \in Threads :
    lock = t => DOMAIN got[t] = {i \in Reads(call[t]) : i < at[t]}

KnownCalls == \A t \in Threads : call[t] \in Calls \cup {<<>>}

RInv == IInv /\ GotSoFar /\ KnownCalls

(* A thread is in a call it entered, or has entered none. *)
LEMMA KnownCallsStep ==
  ASSUME TypeOK, KnownCalls, [Next]_vars
  PROVE  KnownCalls'
<1>1. ASSUME NEW t \in Threads, NEW c \in Calls, Enter(t, c) PROVE KnownCalls'
  BY <1>1 DEF Enter, KnownCalls, TypeOK
<1>2. CASE call' = call
  BY <1>2 DEF KnownCalls
<1> QED
  BY <1>1, <1>2
  DEF Next, Run, Access, AcquireLock, Interrupted, ReleaseLock,
      AddressHi, AddressLo, Outb, Inb, vars

(* The owner of the lock is between its first step and its last.           *)
LEMMA OwnerIsInSection ==
  ASSUME RInv, \A c \in Calls : OneSection(c), NEW t \in Threads, lock = t
  PROVE  /\ Inside(t)
         /\ call[t] \in Seq(Step)
         /\ OneSection(call[t])
         /\ at[t] \in 2 .. Len(call[t])
<1> USE DEF RInv, IInv
<1>1. call[t] \in Seq(Step) /\ at[t] \in Nat \ {0} /\ Len(call[t]) \in Nat
  BY DEF TypeOK
<1>2. Held(call[t], at[t])
  BY DEF OwnerIsInside
<1>3. at[t] \in 2 .. Len(call[t])
  <2>1. at[t] # 1
    BY <1>2, HeldFirst
  <2>2. at[t] # Len(call[t]) + 1
    BY <1>2 DEF InCall, Disciplined
  <2> QED
    BY <1>1, <2>1, <2>2 DEF InCall
<1>4. call[t] # <<>>
  BY <1>3
<1>5. OneSection(call[t])
  BY <1>4 DEF KnownCalls
<1> QED
  BY <1>1, <1>3, <1>5 DEF Inside

(* The two invariants the refinement adds are inductive. *)
LEMMA RefinementInductive ==
  ASSUME \A c \in Calls : OneSection(c), RInv, IInv', [Next]_vars
  PROVE  RInv'
<1> USE DEF RInv
<1>known. KnownCalls'
  BY KnownCallsStep DEF IInv
<1>type. /\ DOMAIN at = Threads /\ DOMAIN call = Threads /\ DOMAIN got = Threads
         /\ NoThread \notin Threads
         /\ \A t \in Threads : call[t] \in Seq(Step) /\ at[t] \in Nat \ {0}
  BY BusAssumption DEF IInv, TypeOK
<1>1. ASSUME NEW t \in Threads, NEW c \in Calls, Enter(t, c) PROVE RInv'
  <2>1. lock # t
    BY <1>1, OwnerIsInSection DEF Enter
  <2> QED
    BY <1>1, <2>1, <1>known, <1>type DEF Enter, GotSoFar
<1>2. ASSUME NEW t \in Threads, AcquireLock(t) PROVE RInv'
  <2>1. at[t] \in 1 .. Len(call[t]) /\ call[t][at[t]].op \in {"lock", "lock_intr"}
    BY <1>2, <1>known, <1>type DEF AcquireLock, Inside, Cur
  <2>2. at[t] = 1
    <3>1. call[t] # <<>>
      BY <2>1
    <3>2. OneSection(call[t])
      BY <3>1 DEF KnownCalls
    <3> QED
      BY <2>1, <3>2 DEF OneSection
  <2>3. {i \in Reads(call[t]) : i < 2} = {}
    BY <2>1, <2>2 DEF Reads
  <2>4. DOMAIN got'[t] = {}
    BY <1>2, <1>known, <1>type DEF AcquireLock
  <2>5. GotSoFar'
    BY <1>2, <2>2, <2>3, <2>4, <1>known, <1>type DEF AcquireLock, Next1, GotSoFar
  <2> QED
    BY <2>5, <1>known
<1>3. ASSUME NEW t \in Threads, Interrupted(t) PROVE RInv'
  <2>1. lock # t
    <3>1. at[t] \in 1 .. Len(call[t]) /\ call[t][at[t]].op = "lock_intr"
      BY <1>3, <1>known, <1>type DEF Interrupted, Inside, Cur
    <3>2. ~ (lock = t /\ at[t] \in 2 .. Len(call[t]) /\ OneSection(call[t]))
      BY <3>1 DEF OneSection
    <3> QED
      BY <3>2, OwnerIsInSection
  <2>2. at' = [at EXCEPT ![t] = at'[t]]
    BY <1>3, <1>known, <1>type DEF Interrupted
  <2> QED
    BY <1>3, <2>1, <2>2, <1>known, <1>type DEF Interrupted, GotSoFar
<1>4. ASSUME NEW t \in Threads, ReleaseLock(t) PROVE RInv'
  BY <1>4, <1>known, <1>type DEF ReleaseLock, GotSoFar
<1>5. ASSUME NEW t \in Threads, Access(t) PROVE RInv'
  <2>1. Inside(t) /\ Cur(t).op \in {"in", "out"}
    BY <1>5 DEF Access, AddressHi, AddressLo, Outb, Inb, AtPort
  <2>2. lock = t /\ at[t] \in 1 .. Len(call[t])
    BY <2>1, AccessIsExclusive DEF IInv
  <2>3. CASE AddressHi(t) \/ AddressLo(t)
    BY <2>3, <1>known DEF AddressHi, AddressLo, GotSoFar
  <2>4. CASE Outb(t)
    <3>1. {i \in Reads(call[t]) : i < at[t] + 1} = {i \in Reads(call[t]) : i < at[t]}
      BY <2>2, <2>4 DEF Outb, AtPort, Cur, Reads
    <3> QED
      BY <2>2, <2>4, <3>1, <1>known, <1>type DEF Outb, Next1, GotSoFar
  <2>5. CASE Inb(t)
    <3>1. {i \in Reads(call[t]) : i < at[t] + 1}
            = {i \in Reads(call[t]) : i < at[t]} \cup {at[t]}
      BY <2>2, <2>5 DEF Inb, AtPort, Cur, Reads
    <3>2. DOMAIN got'[t] = DOMAIN got[t] \cup {at[t]}
      BY <2>5, <1>known, <1>type DEF Inb
    <3>3. GotSoFar'
      BY <2>2, <2>5, <3>1, <3>2, <1>known, <1>type DEF Inb, Next1, GotSoFar
    <3> QED
      BY <3>3, <1>known
  <2> QED
    BY <1>5, <2>3, <2>4, <2>5 DEF Access
<1>6. CASE UNCHANGED vars
  BY <1>6, <1>known DEF vars, GotSoFar
<1> QED
  BY <1>1, <1>2, <1>3, <1>4, <1>5, <1>6 DEF Next, Run

(* The abstract effects are the effects of module EcEffects.               *)
LEMMA AtomicEffects ==
  /\ \A m, c, i, n : Atomic!After(m, c, i, n) = After(m, c, i, n)
  /\ \A m, c, i, n : Atomic!Seen(m, c, i, n) = Seen(m, c, i, n)
  /\ \A c : Atomic!Reads(c) = Reads(c)
<1>1. \A c, i, n, r : Atomic!Writes(c, i, n, r) = Writes(c, i, n, r)
  BY DEF Atomic!Writes, Writes
<1>2. \A S : Atomic!Latest(S) = Latest(S)
  BY DEF Atomic!Latest, Latest
<1>3. \A m, c, i, n : Atomic!After(m, c, i, n) = After(m, c, i, n)
  BY <1>1, <1>2 DEF Atomic!After, After
<1> QED
  BY <1>3 DEF Atomic!Seen, Seen, Atomic!Reads, Reads

(* A step of a thread outside its critical section that touches nothing    *)
(* but its own place is not seen from above.                               *)
LEMMA OutsideStep ==
  ASSUME TypeOK, NEW t \in Threads, lock # t, UNCHANGED <<lock, mem, got>>,
         \A u \in Threads \ {t} : call'[u] = call[u] /\ at'[u] = at[u]
  PROVE  Settled' = Settled /\ \A u \in Threads : Answer(u)' = Answer(u)
<1>1. Settled' = Settled
  <2>1. CASE lock = NoThread
    BY <2>1 DEF Settled
  <2>2. CASE lock # NoThread
    <3>1. lock \in Threads \ {t}
      BY <2>2 DEF TypeOK
    <3> QED
      BY <3>1 DEF Settled
  <2> QED
    BY <2>1, <2>2
<1>2. ASSUME NEW u \in Threads PROVE Answer(u)' = Answer(u)
  BY DEF Answer
<1> QED
  BY <1>1, <1>2

(* Taking the lock is the instant at which the call happens.               *)
LEMMA AcquireIsDo ==
  ASSUME RInv, \A c \in Calls : OneSection(c), NEW t \in Threads, AcquireLock(t)
  PROVE  Atomic!Do(t, call[t]) /\ call[t] \in Calls
<1> USE DEF RInv, IInv
<1> DEFINE c == call[t]
<1>1. /\ c \in Seq(Step) /\ at[t] \in 1 .. Len(c) /\ c[at[t]].op \in {"lock", "lock_intr"}
      /\ Len(c) \in Nat /\ t # NoThread /\ DOMAIN got = Threads /\ DOMAIN at = Threads
      /\ mem \in [Addr -> Byte]
  BY BusAssumption DEF TypeOK, AcquireLock, Inside, Cur
<1>2. c \in Calls /\ OneSection(c)
  <2>1. c # <<>>
    BY <1>1
  <2> QED
    BY <2>1 DEF KnownCalls
<1>3. at[t] = 1 /\ c[1].op # "out" /\ c[1].op # "in"
  BY <1>1, <1>2 DEF OneSection
<1>4. /\ lock = NoThread /\ lock' = t /\ mem' = mem /\ call' = call
      /\ at'[t] = 2 /\ got' = [got EXCEPT ![t] = <<>>]
  BY <1>1, <1>3 DEF AcquireLock, Next1
<1>5. ASSUME NEW n \in Int, 1 <= n PROVE After(mem, c, 2, n) = After(mem, c, 1, n)
  <2>1. After(mem, c, 1 + 1, n) = After(mem, c, 1, n)
    BY <1>1, <1>3, <1>5, EffectOfOther
  <2> QED
    BY <2>1
<1>6. Settled' = After(Settled, c, 1, Len(c))
  BY <1>1, <1>4, <1>5 DEF Settled
<1>7. Answer(t)' = [i \in Reads(c) |-> Seen(Settled, c, 1, i)]
  <2>1. ASSUME NEW i \in Reads(c) PROVE ~ (i < 2) /\ Seen(mem, c, 2, i) = Seen(mem, c, 1, i)
    <3>1. i \in Int /\ i >= 2
      BY <1>1, <1>3 DEF Reads
    <3> QED
      BY <1>5, <3>1 DEF Seen
  <2>2. Settled = mem
    BY <1>4 DEF Settled
  <2>3. Answer(t)' = [i \in Reads(c) |-> IF i < 2 THEN got'[t][i] ELSE Seen(mem, c, 2, i)]
    BY <1>4 DEF Answer
  <2> QED
    BY <2>1, <2>2, <2>3
<1>8. \A u \in Threads \ {t} : Answer(u)' = Answer(u)
  BY <1>1, <1>4, BusAssumption DEF Answer
<1>9. [u \in Threads |-> Answer(u)]'
        = [[u \in Threads |-> Answer(u)] EXCEPT ![t] = [i \in Reads(c) |-> Seen(Settled, c, 1, i)]]
  BY <1>7, <1>8
<1> QED
  BY <1>2, <1>6, <1>9, AtomicEffects DEF Atomic!Do

(* Giving the lock back is not seen: nothing of the call is ahead.         *)
LEMMA ReleaseIsStutter ==
  ASSUME RInv, \A c \in Calls : OneSection(c), NEW t \in Threads, ReleaseLock(t)
  PROVE  Settled' = Settled /\ \A u \in Threads : Answer(u)' = Answer(u)
<1> DEFINE c == call[t]
<1>1. /\ c \in Seq(Step) /\ at[t] \in 1 .. Len(c) /\ c[at[t]].op = "unlock"
      /\ Len(c) \in Nat /\ t # NoThread /\ NoThread \notin Threads
      /\ mem \in [Addr -> Byte] /\ got[t] \in [DOMAIN got[t] -> Byte]
  BY BusAssumption DEF RInv, IInv, TypeOK, ReleaseLock, Inside, Cur
<1>2. lock = t
  BY AccessIsExclusive DEF RInv, IInv, ReleaseLock
<1>3. OneSection(c) /\ at[t] = Len(c)
  BY <1>1, <1>2, OwnerIsInSection DEF OneSection
<1>4. /\ lock' = NoThread /\ mem' = mem /\ got' = got /\ call' = call
  BY DEF ReleaseLock
<1>5. Settled = mem
  <2>1. After(mem, c, Len(c) + 1, Len(c)) = After(mem, c, Len(c), Len(c))
    BY <1>1, <1>3, EffectOfOther
  <2>2. After(mem, c, Len(c) + 1, Len(c)) = mem
    BY <1>1, EffectOfNothing
  <2> QED
    BY <1>1, <1>2, <1>3, <2>1, <2>2 DEF Settled
<1>6. Answer(t) = got[t]
  <2>1. DOMAIN got[t] = Reads(c)
    <3>1. DOMAIN got[t] = {i \in Reads(c) : i < Len(c)}
      BY <1>2, <1>3 DEF RInv, GotSoFar
    <3>2. \A i \in Reads(c) : i < Len(c)
      BY <1>1, <1>3 DEF Reads
    <3> QED
      BY <3>1, <3>2
  <2>2. Answer(t) = [i \in Reads(c) |-> got[t][i]]
    <3>1. \A i \in Reads(c) : i < at[t]
      BY <1>1, <1>3 DEF Reads
    <3> QED
      BY <1>2, <3>1 DEF Answer
  <2> QED
    BY <1>1, <2>1, <2>2
<1>7. Settled' = mem
  BY <1>4 DEF Settled
<1>8. \A u \in Threads : Answer(u)' = got[u]
  BY <1>1, <1>4 DEF Answer
<1>9. \A u \in Threads \ {t} : Answer(u) = got[u]
  BY <1>2 DEF Answer
<1> QED
  BY <1>5, <1>6, <1>7, <1>8, <1>9

(* An access of the owner is not seen: what it did to the registers or     *)
(* read from them was already counted among what was ahead.                *)
LEMMA AccessIsStutter ==
  ASSUME RInv, \A c \in Calls : OneSection(c), NEW t \in Threads, Access(t)
  PROVE  Settled' = Settled /\ \A u \in Threads : Answer(u)' = Answer(u)
<1> DEFINE c == call[t]
           n == Len(c)
           a == at[t]
<1>1. Inside(t) /\ Cur(t).op \in {"in", "out"}
  BY DEF Access, AddressHi, AddressLo, Outb, Inb, AtPort
<1>2. /\ c \in Seq(Step) /\ a \in 1 .. n /\ a \in Nat \ {0} /\ n \in Nat /\ a <= n
      /\ t # NoThread /\ mem \in [Addr -> Byte] /\ DOMAIN at = Threads /\ DOMAIN got = Threads
      /\ lock = t
  BY <1>1, AccessIsExclusive, BusAssumption DEF RInv, IInv, TypeOK, Inside
<1>3. c[a].op \in {"in", "out"} /\ c[a].reg \in Addr /\ c[a].val \in Byte
  BY <1>1, <1>2, StepType DEF Cur
<1>4. lock' = lock /\ call' = call
  BY DEF Access, AddressHi, AddressLo, Outb, Inb
<1>5. CASE AddressHi(t) \/ AddressLo(t)
  <2>1. mem' = mem /\ at' = at /\ got' = got
    BY <1>5 DEF AddressHi, AddressLo
  <2> QED
    BY <1>4, <2>1 DEF Settled, Answer
<1>6. ASSUME Outb(t) \/ Inb(t),
             \A l \in Int : a <= l => After(mem', c, a + 1, l) = After(mem, c, a, l),
             \A i \in Reads(c) : i < a => got'[t][i] = got[t][i],
             \A i \in Reads(c) : i = a => got'[t][i] = Seen(mem, c, a, i),
             \A u \in Threads \ {t} : got'[u] = got[u]
      PROVE  Settled' = Settled /\ \A u \in Threads : Answer(u)' = Answer(u)
  <2>1. at'[t] = a + 1
    BY <1>2, <1>6 DEF Outb, Inb, Next1
  <2>2. Settled' = Settled
    BY <1>2, <1>4, <1>6, <2>1 DEF Settled
  <2>3. ASSUME NEW i \in Reads(c)
        PROVE  (IF i < a + 1 THEN got'[t][i] ELSE Seen(mem', c, a + 1, i))
                 = (IF i < a THEN got[t][i] ELSE Seen(mem, c, a, i))
    <3>1. i \in Int
      BY DEF Reads
    <3>2. CASE i < a
      BY <1>2, <1>6, <3>1, <3>2
    <3>3. CASE i = a
      BY <1>2, <1>6, <3>1, <3>3
    <3>4. CASE i > a
      <4>1. i - 1 \in Int /\ a <= i - 1 /\ ~ (i < a + 1) /\ ~ (i < a)
        BY <1>2, <3>1, <3>4
      <4> QED
        BY <1>6, <4>1 DEF Seen
    <3> QED
      BY <1>2, <3>1, <3>2, <3>3, <3>4
  <2>4. Answer(t)' = Answer(t)
    BY <1>2, <1>4, <2>1, <2>3 DEF Answer
  <2>5. \A u \in Threads \ {t} : Answer(u)' = Answer(u)
    BY <1>2, <1>4, <1>6 DEF Answer
  <2> QED
    BY <2>2, <2>4, <2>5
<1>7. CASE Outb(t)
  <2>1. latch = c[a].reg /\ c[a].op = "out"
    BY <1>7 DEF Outb, RInv, IInv, AccessReachesItsRegister, Cur
  <2>2. mem' = [mem EXCEPT ![c[a].reg] = c[a].val] /\ got' = got
    BY <1>7, <2>1 DEF Outb, Cur
  <2>3. ASSUME NEW l \in Int, a <= l
        PROVE  After(mem', c, a + 1, l) = After(mem, c, a, l)
    <3>1. l \in Nat
      BY <1>2, <2>3
    <3> HIDE DEF c, a
    <3> QED
      BY <1>2, <1>3, <2>1, <2>2, <2>3, <3>1, EffectOfOut
  <2>4. \A i \in Reads(c) : i # a
    BY <2>1 DEF Reads
  <2> QED
    BY <1>6, <1>7, <2>2, <2>3, <2>4
<1>8. CASE Inb(t)
  <2>1. latch = c[a].reg /\ c[a].op # "out"
    BY <1>8 DEF Inb, RInv, IInv, AccessReachesItsRegister, Cur
  <2>2. /\ mem' = mem
        /\ got' = [got EXCEPT ![t] = [i \in DOMAIN @ \cup {a} |->
                                       IF i = a THEN mem[latch] ELSE @[i]]]
    BY <1>8 DEF Inb
  <2>3. ASSUME NEW l \in Int, a <= l
        PROVE  After(mem', c, a + 1, l) = After(mem, c, a, l)
    <3> HIDE DEF c, a
    <3> QED
      BY <1>2, <2>1, <2>2, <2>3, EffectOfOther
  <2>4. After(mem, c, a, a - 1) = mem
    <3> HIDE DEF c, a
    <3>1. a \in Int /\ a - 1 \in Int /\ a - 1 < a
      BY <1>2
    <3> QED
      BY <1>2, <3>1, EffectOfNothing
  <2>5. got'[t] = [i \in DOMAIN got[t] \cup {a} |-> IF i = a THEN mem[latch] ELSE got[t][i]]
    BY <1>2, <2>2
  <2>6. got'[t][a] = Seen(mem, c, a, a)
    BY <2>1, <2>4, <2>5 DEF Seen
  <2>7. \A i \in Reads(c) : i < a => i \in DOMAIN got[t] /\ i # a
    <3>1. DOMAIN got[t] = {i \in Reads(c) : i < a}
      BY <1>2 DEF RInv, GotSoFar
    <3>2. \A i \in Reads(c) : i \in Int
      BY DEF Reads
    <3> QED
      BY <1>2, <3>1, <3>2
  <2>8. \A i \in Reads(c) : i < a => got'[t][i] = got[t][i]
    BY <2>5, <2>7
  <2>9. \A u \in Threads \ {t} : got'[u] = got[u]
    BY <1>2, <2>2
  <2> QED
    BY <1>6, <1>8, <2>3, <2>6, <2>8, <2>9
<1> QED
  BY <1>5, <1>7, <1>8 DEF Access

(* The window with its lock implements the atomic calls: for any number of *)
(* threads and any calls of one critical section each, every behaviour of  *)
(* the interleaved port writes is one in which each call took effect, and  *)
(* read all it read, at a single instant.  Calls that are refused or       *)
(* interrupted before they get the lock take no effect at all. *)
THEOREM CallsHappenAtOnce ==
  ASSUME \A c \in Calls : OneSection(c)
  PROVE  Spec => CallsAreAtomic
<1>0. \A c \in Calls : Disciplined(c)
  BY BusAssumption, OneSectionIsDisciplined
<1>1. Init => RInv
  <2> SUFFICES ASSUME Init PROVE RInv
    OBVIOUS
  <2>1. IInv
    BY InitialBus
  <2>2. GotSoFar
    BY BusAssumption DEF Init, GotSoFar
  <2>3. \A t \in Threads : call[t] = <<>>
    BY DEF Init
  <2> QED
    BY <2>1, <2>2, <2>3 DEF RInv, KnownCalls
<1>2. RInv /\ TypeOK' /\ [Next]_vars => RInv'
  BY <1>0, BusInductive, RefinementInductive DEF RInv
<1>3. Init => Atomic!Init
  BY BusAssumption DEF Init, Atomic!Init, Settled, Answer
<1>4. RInv /\ [Next]_vars => [Atomic!Next]_<<Settled, [t \in Threads |-> Answer(t)]>>
  <2> SUFFICES ASSUME RInv, [Next]_vars
               PROVE  \/ Atomic!Next
                      \/ Settled' = Settled /\ \A u \in Threads : Answer(u)' = Answer(u)
    OBVIOUS
  <2>1. TypeOK
    BY DEF RInv, IInv
  <2>2. ASSUME NEW t \in Threads, NEW c \in Calls, Enter(t, c)
        PROVE  Settled' = Settled /\ \A u \in Threads : Answer(u)' = Answer(u)
    <3>1. lock # t
      BY <2>2, OwnerIsInSection DEF Enter
    <3>2. \A u \in Threads \ {t} : call'[u] = call[u] /\ at'[u] = at[u]
      BY <2>1, <2>2 DEF Enter, TypeOK
    <3> QED
      BY <2>1, <2>2, <3>1, <3>2, OutsideStep DEF Enter
  <2>3. ASSUME NEW t \in Threads, AcquireLock(t) PROVE Atomic!Next
    BY <2>3, AcquireIsDo DEF Atomic!Next
  <2>4. ASSUME NEW t \in Threads, Interrupted(t)
        PROVE  Settled' = Settled /\ \A u \in Threads : Answer(u)' = Answer(u)
    <3>1. lock # t
      <4>1. Inside(t) /\ Cur(t).op = "lock_intr"
        BY <2>4 DEF Interrupted
      <4>2. at[t] \in 1 .. Len(call[t]) /\ call[t][at[t]].op = "lock_intr"
        BY <2>1, <4>1 DEF TypeOK, Inside, Cur
      <4>3. ~ (at[t] \in 2 .. Len(call[t]) /\ OneSection(call[t]))
        BY <4>2 DEF OneSection
      <4> QED
        BY <4>3, OwnerIsInSection
    <3>2. \A u \in Threads \ {t} : call'[u] = call[u] /\ at'[u] = at[u]
      BY <2>1, <2>4 DEF Interrupted, TypeOK
    <3> QED
      BY <2>1, <2>4, <3>1, <3>2, OutsideStep DEF Interrupted
  <2>5. ASSUME NEW t \in Threads, ReleaseLock(t)
        PROVE  Settled' = Settled /\ \A u \in Threads : Answer(u)' = Answer(u)
    BY <2>5, ReleaseIsStutter
  <2>6. ASSUME NEW t \in Threads, Access(t)
        PROVE  Settled' = Settled /\ \A u \in Threads : Answer(u)' = Answer(u)
    BY <2>6, AccessIsStutter
  <2>7. CASE UNCHANGED vars
    BY <2>7 DEF vars, Settled, Answer
  <2> QED
    BY <2>2, <2>3, <2>4, <2>5, <2>6, <2>7 DEF Next, Run
<1> QED
  BY <1>1, <1>2, <1>3, <1>4, TypeCorrect, PTL DEF Spec, CallsAreAtomic, Atomic!Spec

-----------------------------------------------------------------------------
(* What the registers can hold.                                            *)

(* A register holds what the firmware put there or what some step of some  *)
(* call writes there.                                                      *)
Written(r, v) ==
  \E c \in Calls : \E i \in 1 .. Len(c) :
    c[i].op = "out" /\ c[i].reg = r /\ c[i].val = v

HoldsWritten == \A r \in Addr : mem[r] = Boot[r] \/ Written(r, mem[r])

(* However the port writes of disciplined calls interleave, no register    *)
(* ever holds a value that no call writes to that very register: the only  *)
(* write to the controller, in Chipsea_Host2ec_Outb, lands where it was    *)
(* aimed. *)
THEOREM RegistersHoldWhatCallsWrite ==
  ASSUME \A c \in Calls : Disciplined(c)
  PROVE  Spec => []HoldsWritten
<1> DEFINE J == IInv /\ KnownCalls /\ HoldsWritten
<1>1. Init => J
  <2>1. Init => IInv
    BY InitialBus
  <2>2. Init => KnownCalls /\ HoldsWritten
    BY DEF Init, KnownCalls, HoldsWritten
  <2> QED
    BY <2>1, <2>2
<1>2. J /\ TypeOK' /\ [Next]_vars => J'
  <2> SUFFICES ASSUME J, TypeOK', [Next]_vars PROVE J'
    OBVIOUS
  <2>1. IInv'
    BY BusInductive
  <2>2. KnownCalls'
    BY KnownCallsStep DEF IInv
  <2>3. HoldsWritten'
    <3>1. CASE mem' = mem
      BY <3>1 DEF HoldsWritten
    <3>2. ASSUME NEW t \in Threads, Outb(t) PROVE HoldsWritten'
      <4>1. at[t] \in 1 .. Len(call[t]) /\ Cur(t).op = "out" /\ mem \in [Addr -> Byte]
        BY <3>2 DEF Outb, AtPort, Inside, IInv, TypeOK
      <4>2. call[t] \in Calls
        <5>1. call[t] # <<>>
          BY <4>1
        <5> QED
          BY <5>1 DEF KnownCalls
      <4>3. latch = Cur(t).reg
        BY <3>2 DEF Outb, IInv, AccessReachesItsRegister
      <4>4. Written(latch, Cur(t).val)
        BY <4>1, <4>2, <4>3 DEF Written, Cur
      <4>5. \A r \in Addr : mem'[r] = IF r = latch THEN Cur(t).val ELSE mem[r]
        BY <3>2, <4>1 DEF Outb
      <4> QED
        BY <4>4, <4>5 DEF HoldsWritten, Written
    <3> QED
      BY <3>1, <3>2
      DEF Next, Run, Access, Enter, AcquireLock, Interrupted, ReleaseLock,
          AddressHi, AddressLo, Inb, vars
  <2> QED
    BY <2>1, <2>2, <2>3
<1>3. J => HoldsWritten
  OBVIOUS
<1> HIDE DEF J
<1> QED
  BY <1>1, <1>2, <1>3, TypeCorrect, PTL DEF Spec

(* Registers of which every call writes all or none.                       *)
CallGroups ==
  {G \in SUBSET Addr :
     \A c \in Calls : \/ \A r \in G : Writes(c, 1, Len(c), r) = {}
                      \/ \A r \in G : Writes(c, 1, Len(c), r) # {}}

(* Such registers hold what one call left there whenever the lock is free. *)
(* The argument is that of the atomic calls, where it takes one step;      *)
(* CallsHappenAtOnce carries it over to the port writes. *)
THEOREM GroupsHoldOneCall ==
  ASSUME \A c \in Calls : OneSection(c)
  PROVE  Spec => [](lock = NoThread => \A G \in CallGroups : OfOneCall(mem, G))
<1> DEFINE J == DOMAIN Settled = Addr /\ \A G \in CallGroups : OfOneCall(Settled, G)
<1>1. Atomic!Init => J
  BY BusAssumption DEF Atomic!Init, OfOneCall, CallGroups
<1>2. J /\ [Atomic!Next]_<<Settled, [t \in Threads |-> Answer(t)]>> => J'
  <2> SUFFICES ASSUME J, [Atomic!Next]_<<Settled, [t \in Threads |-> Answer(t)]>> PROVE J'
    OBVIOUS
  <2>1. CASE Settled' = Settled
    BY <2>1 DEF OfOneCall
  <2>2. ASSUME NEW t \in Threads, NEW c \in Calls, Atomic!Do(t, c) PROVE J'
    <3> DEFINE n == Len(c)
    <3>1. Settled' = After(Settled, c, 1, n)
      BY <2>2, AtomicEffects DEF Atomic!Do
    <3>2. DOMAIN Settled' = Addr
      BY <3>1 DEF After
    <3>3. ASSUME NEW G \in CallGroups PROVE OfOneCall(Settled', G)
      <4>1. CASE \A r \in G : Writes(c, 1, n, r) = {}
        <5>1. \A r \in G : Settled'[r] = Settled[r]
          BY <3>1, <4>1 DEF After, CallGroups
        <5>2. OfOneCall(Settled, G)
          OBVIOUS
        <5>3. ASSUME NEW d \in Calls,
                     \A r \in G : /\ Writes(d, 1, Len(d), r) # {}
                                  /\ Settled[r] = After(Settled, d, 1, Len(d))[r]
              PROVE  \A r \in G : /\ Writes(d, 1, Len(d), r) # {}
                                  /\ Settled'[r] = After(Settled', d, 1, Len(d))[r]
          BY <3>2, <5>1, <5>3 DEF After, CallGroups
        <5> QED
          BY <5>1, <5>2, <5>3 DEF OfOneCall
      <4>2. CASE \A r \in G : Writes(c, 1, n, r) # {}
        <5>1. \A r \in G : Settled'[r] = After(Settled', c, 1, n)[r]
          BY <3>1, <3>2, <4>2 DEF After, CallGroups
        <5> QED
          BY <4>2, <5>1 DEF OfOneCall
      <4> QED
        BY <4>1, <4>2 DEF CallGroups
    <3> QED
      BY <3>2, <3>3
  <2> QED
    BY <2>1, <2>2 DEF Atomic!Next
<1>3. J => (lock = NoThread => \A G \in CallGroups : OfOneCall(mem, G))
  BY DEF Settled
<1> HIDE DEF J
<1>4. Spec => CallsAreAtomic
  BY CallsHappenAtOnce
<1> QED
  BY <1>1, <1>2, <1>3, <1>4, PTL DEF CallsAreAtomic, Atomic!Spec

=============================================================================
