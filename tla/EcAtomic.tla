------------------------------ MODULE EcAtomic ------------------------------
(***************************************************************************)
(* What ug_201x_lock promises: a call of the driver happens at one         *)
(* instant.  All its register writes and reads take effect together, and   *)
(* no other call sees the controller between two of them.                  *)
(***************************************************************************)
EXTENDS EcEffects

CONSTANTS Threads, Calls, Boot

VARIABLES mem, got

Init == mem = Boot /\ got = [t \in Threads |-> <<>>]

Do(t, c) ==
  /\ mem' = After(mem, c, 1, Len(c))
  /\ got' = [got EXCEPT ![t] = [i \in Reads(c) |-> Seen(mem, c, 1, i)]]

Next == \E t \in Threads, c \in Calls : Do(t, c)

Spec == Init /\ [][Next]_<<mem, got>>

=============================================================================
