----------------------------- MODULE MCConnection -----------------------------
(* Connection with one task, its proof and a socket that breaks.           *)
EXTENDS Connection
=============================================================================
