---------------------------- MODULE EcRefinement ----------------------------
(***************************************************************************)
(* The window with its lock implements the atomic calls.  A call takes     *)
(* effect when it takes the lock: from then on the registers are seen as   *)
(* they will be when the holder has made the accesses still ahead of it.   *)
(***************************************************************************)
EXTENDS EcBus, EcEffects

Settled ==
  IF lock = NoThread THEN mem
  ELSE After(mem, call[lock], at[lock], Len(call[lock]))

Answer(t) ==
  IF lock = t
  THEN [i \in Reads(call[t]) |->
          IF i < at[t] THEN got[t][i] ELSE Seen(mem, call[t], at[t], i)]
  ELSE got[t]

Atomic == INSTANCE EcAtomic WITH
  mem <- Settled, got <- [t \in Threads |-> Answer(t)]

(* Calls are atomic: a colour is never half of one and half of another, a  *)
(* watchdog timeout is never seen with one byte of each of two values or   *)
(* with the timer enabled in the middle, and a reader gets the registers   *)
(* as one call left them (every caller of ug_201x_lock).                   *)
CallsAreAtomic == Atomic!Spec

(* Registers m hold in all of G what one and the same call leaves there,   *)
(* or what the firmware did.                                               *)
OfOneCall(m, G) ==
  \/ \A r \in G : m[r] = Boot[r]
  \/ \E c \in Calls : \A r \in G :
       Writes(c, 1, Len(c), r) # {} /\ m[r] = After(m, c, 1, Len(c))[r]

=============================================================================
