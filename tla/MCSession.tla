----------------------------- MODULE MCSession -----------------------------
(* Small instances of EoSession.  The base is 11, so the server draws its    *)
(* starts from 0..2 and the highest stamp, 2 + 9, is the base itself.  A     *)
(* client sends twelve packets from one start, past the wrap after ten.      *)
EXTENDS EoSession
=============================================================================
