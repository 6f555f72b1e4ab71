------------------------------- MODULE EcBus -------------------------------
(***************************************************************************)
(* The Host2EC window.  The embedded controller's registers are reached    *)
(* through one set of I/O ports: the address of a register is written byte *)
(* by byte to the IMA_ADDR latch, then its value goes through IMA_DATA.    *)
(* The latch is shared by every thread in the driver, and ug_201x_lock is  *)
(* what keeps one access from running into another.  Here any number of    *)
(* threads (user processes in a proc, hwmon, watchdog or LED callback, and *)
(* the kernel worker of the LEDs) make calls, and every port write is a    *)
(* step of its own.                                                        *)
(***************************************************************************)
EXTENDS Integers, Sequences

CONSTANTS
  Threads,   \* threads that may be inside the driver
  NoThread,  \* the owner of the free lock
  Calls,     \* the calls the threads make, as sequences of steps
  Hi, Lo,    \* the values of the two address bytes that occur
  Boot       \* what the registers hold when the module is loaded

Byte == 0 .. 255
Addr == Hi \X Lo                      \* every mix of two address bytes

Step == [op : {"lock", "lock_intr", "unlock"}]
          \cup [op : {"in", "out"}, reg : Addr, val : Byte]

ASSUME BusAssumption ==
  /\ NoThread \notin Threads
  /\ Hi \subseteq Byte /\ Lo \subseteq Byte
  /\ Calls \subseteq Seq(Step)
  /\ Boot \in [Addr -> Byte]

VARIABLES
  lock,   \* the owner of ug_201x_lock
  latch,  \* the address latch, <<high byte, low byte>>
  mem,    \* the registers of the controller
  call,   \* the call each thread is in, or was last in
  at,     \* the step it is at; past the end when the thread is outside
  port,   \* the port it writes next within an access
  got     \* what its steps have read since it last took the lock

vars == <<lock, latch, mem, call, at, port, got>>

Inside(t) == at[t] <= Len(call[t])
Cur(t)    == call[t][at[t]]

Init ==
  /\ lock = NoThread
  /\ latch \in Addr
  /\ mem = Boot
  /\ call = [t \in Threads |-> <<>>]
  /\ at = [t \in Threads |-> 1]
  /\ port = [t \in Threads |-> "hi"]
  /\ got = [t \in Threads |-> <<>>]

-----------------------------------------------------------------------------

(* A thread outside the driver enters a callback.                          *)
Enter(t, c) ==
  /\ ~ Inside(t)
  /\ call' = [call EXCEPT ![t] = c]
  /\ at' = [at EXCEPT ![t] = 1]
  /\ UNCHANGED <<lock, latch, mem, port, got>>

Next1(t) == at' = [at EXCEPT ![t] = @ + 1]

AcquireLock(t) ==
  /\ Inside(t)
  /\ Cur(t).op \in {"lock", "lock_intr"}
  /\ lock = NoThread
  /\ lock' = t
  /\ got' = [got EXCEPT ![t] = <<>>]
  /\ Next1(t)
  /\ UNCHANGED <<latch, mem, call, port>>

(* A caller that does not look at what mutex_lock_interruptible returns.   *)
InterruptedIgnored(t) ==
  /\ Inside(t)
  /\ Cur(t).op = "lock_intr"
  /\ lock # NoThread
  /\ Next1(t)
  /\ UNCHANGED <<lock, latch, mem, call, port, got>>

(* A signal while waiting for the lock: the function that asked for it     *)
(* returns an error, and its caller goes on behind that function.          *)
Interrupted(t) ==
  /\ Inside(t)
  /\ Cur(t).op = "lock_intr"
  /\ lock # NoThread
  /\ \E i \in at[t] .. Len(call[t]) :
       /\ call[t][i].op = "unlock"
       /\ \A j \in at[t] .. i - 1 : call[t][j].op # "unlock"
       /\ at' = [at EXCEPT ![t] = i + 1]
  /\ UNCHANGED <<lock, latch, mem, call, port, got>>

ReleaseLock(t) ==
  /\ Inside(t)
  /\ Cur(t).op = "unlock"
  /\ lock' = NoThread
  /\ Next1(t)
  /\ UNCHANGED <<latch, mem, call, port, got>>

(* Chipsea_Host2ec_Outb and Chipsea_Host2ec_Inb: the address, high byte    *)
(* first, then the data port.                                              *)
AtPort(t, p) ==
  /\ Inside(t)
  /\ Cur(t).op \in {"in", "out"}
  /\ port[t] = p

AddressHiSwapped(t) ==
  /\ AtPort(t, "hi")
  /\ latch' = <<Cur(t).reg[2], latch[2]>>
  /\ port' = [port EXCEPT ![t] = "lo"]
  /\ UNCHANGED <<lock, mem, call, at, got>>

AddressHi(t) ==
  /\ AtPort(t, "hi")
  /\ latch' = <<Cur(t).reg[1], latch[2]>>
  /\ port' = [port EXCEPT ![t] = "lo"]
  /\ UNCHANGED <<lock, mem, call, at, got>>

AddressLo(t) ==
  /\ AtPort(t, "lo")
  /\ latch' = <<latch[1], Cur(t).reg[2]>>
  /\ port' = [port EXCEPT ![t] = "data"]
  /\ UNCHANGED <<lock, mem, call, at, got>>

Outb(t) ==
  /\ AtPort(t, "data")
  /\ Cur(t).op = "out"
  /\ mem' = [mem EXCEPT ![latch] = Cur(t).val]
  /\ port' = [port EXCEPT ![t] = "hi"]
  /\ Next1(t)
  /\ UNCHANGED <<lock, latch, call, got>>

Inb(t) ==
  /\ AtPort(t, "data")
  /\ Cur(t).op = "in"
  /\ got' = [got EXCEPT ![t] = [i \in DOMAIN @ \cup {at[t]} |->
                                  IF i = at[t] THEN mem[latch] ELSE @[i]]]
  /\ port' = [port EXCEPT ![t] = "hi"]
  /\ Next1(t)
  /\ UNCHANGED <<lock, latch, mem, call>>

Access(t) == AddressHi(t) \/ AddressLo(t) \/ Outb(t) \/ Inb(t)

Run(t) == AcquireLock(t) \/ Interrupted(t) \/ ReleaseLock(t) \/ Access(t)

Next == \E t \in Threads : Run(t) \/ \E c \in Calls : Enter(t, c)

Spec == Init /\ [][Next]_vars

(* A thread inside the driver keeps running, and the kernel mutex hands    *)
(* itself to a waiter it has passed over, so a thread that keeps finding   *)
(* the lock free in turns gets it.                                         *)
Fairness == \A t \in Threads :
              /\ WF_vars(ReleaseLock(t) \/ Access(t))
              /\ SF_vars(AcquireLock(t))

FairSpec == Spec /\ Fairness

-----------------------------------------------------------------------------
(* Properties.                                                             *)

TypeOK ==
  /\ lock \in Threads \cup {NoThread}
  /\ latch \in Addr
  /\ mem \in [Addr -> Byte]
  /\ call \in [Threads -> Seq(Step)]
  /\ at \in [Threads -> Nat \ {0}]
  /\ port \in [Threads -> {"hi", "lo", "data"}]
  /\ DOMAIN got = Threads /\ \A t \in Threads : got[t] \in [DOMAIN got[t] -> Byte]

(* A call holds the lock at step i when it took it before and has not      *)
(* given it back since.                                                    *)
Held(c, i) ==
  \E j \in 1 .. i - 1 :
    /\ c[j].op \in {"lock", "lock_intr"}
    /\ \A k \in j + 1 .. i - 1 : c[k].op # "unlock"

(* A call is disciplined when it touches the controller only with the lock *)
(* held, takes the lock only when it does not hold it, gives back only     *)
(* what it holds, and keeps nothing at its end.                            *)
Disciplined(c) ==
  /\ \A i \in 1 .. Len(c) :
       Held(c, i) <=> c[i].op \in {"in", "out", "unlock"}
  /\ ~ Held(c, Len(c) + 1)

(* The lock is where the code says it is: its owner is exactly the thread  *)
(* that is between taking and giving it back, through every interruption   *)
(* (the early returns with -EAGAIN or -EINTR must not leave it behind).    *)
OwnerIsInside == \A t \in Threads : lock = t <=> Held(call[t], at[t])

(* Every access reaches the register it was made for: when a thread is     *)
(* about to use the data port, the shared latch holds the address it put   *)
(* there, whatever the other threads did in between                        *)
(* (Chipsea_Host2ec_Outb/Inb under ug_201x_lock).                          *)
AccessReachesItsRegister ==
  \A t \in Threads :
    /\ AtPort(t, "lo") => latch[1] = Cur(t).reg[1]
    /\ AtPort(t, "data") => latch = Cur(t).reg

(* The owner of ug_201x_lock is inside a callback and at a step that it    *)
(* can take without anyone: it does not ask for the lock again, the        *)
(* deadlock the comment in ug201x_hwmon_write is about, and has not left.  *)
OwnerNeverWaits ==
  \A t \in Threads : lock = t => Inside(t) /\ Cur(t).op \in {"in", "out", "unlock"}

(* Every callback that was entered returns: no thread waits for            *)
(* ug_201x_lock for ever, though others keep asking for it.                *)
EveryCallReturns == \A t \in Threads : Inside(t) ~> ~ Inside(t)

=============================================================================
