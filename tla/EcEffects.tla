----------------------------- MODULE EcEffects -----------------------------
(***************************************************************************)
(* What the steps of a call do to the controller's registers when nothing  *)
(* comes between them: a register ends as the last step that wrote it left *)
(* it, and a step that reads sees what the steps before it left.           *)
(***************************************************************************)
EXTENDS Integers, Sequences

Latest(S) == CHOOSE i \in S : \A j \in S : j <= i

Writes(c, first, last, r) == {i \in first .. last : c[i].op = "out" /\ c[i].reg = r}
Reads(c) == {i \in 1 .. Len(c) : c[i].op = "in"}

(* Registers that hold m, after the steps first .. last of call c.         *)
After(m, c, first, last) ==
  [r \in DOMAIN m |-> IF Writes(c, first, last, r) = {} THEN m[r]
                      ELSE c[Latest(Writes(c, first, last, r))].val]

(* What step i of the call then reads.                                     *)
Seen(m, c, first, i) == After(m, c, first, i - 1)[c[i].reg]

=============================================================================
