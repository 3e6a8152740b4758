----------------------------- MODULE MCSession -----------------------------
(***************************************************************************)
(* Instances of Session for TLC.                                           *)
(***************************************************************************)
EXTENDS Session

\* Another serial device is tried before the seismometer.
TwoPorts == <<"ttyUSB0", "ttyACM0">>
=============================================================================
