--------------------------- MODULE MCMicroSession ---------------------------
(* TLC instance of MicroSession: small channels, up to two failures of the *)
(* provider, so that a reconnected subscription can fail in its turn.      *)
EXTENDS MicroSession
=============================================================================
