-------------------------- MODULE MCSessionManager --------------------------
(* Instance of SessionManager: three or four sessions, room for two.        *)
EXTENDS SessionManager
=============================================================================
