--------------------------- MODULE MCSigningSession ---------------------------
(* SigningSession on small sets for TLC. *)
EXTENDS SigningSession, TLC
=============================================================================
