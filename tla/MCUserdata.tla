----------------------------- MODULE MCUserdata -----------------------------
(* Two readers of one string or of two, a writer beside a reader, a slot    *)
(* left over and two errors.                                                  *)
EXTENDS EoUserdata
=============================================================================
