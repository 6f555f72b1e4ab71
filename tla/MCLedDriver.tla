---------------------------- MODULE MCLedDriver ----------------------------
EXTENDS LedDriver, TLC

SymmetricUsers == Permutations(Users)

HalfSecond == {<<500, 500>>}

(* Together more than the 12.75 s a register can say.                      *)
Long == {<<500, 12400>>}

=============================================================================
