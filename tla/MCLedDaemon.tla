---------------------------- MODULE MCLedDaemon ----------------------------
EXTENDS LedDaemon

None == {}

(* Off, on, and blinking.                                                  *)
CliModes == {<<0, 0, 0>>, <<1, 0, 0>>, <<2, 20, 10>>}

=============================================================================
