---------------------------- MODULE MCBootScript ----------------------------
EXTENDS BootScript

CONSTANTS k6612, k66123, k618

(* "6.6.12" occurs in "6.6.123".                                           *)
Prefixes == {<<k6612, k66123>>}

=============================================================================
