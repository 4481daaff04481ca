-------------------------- MODULE MCNativeSession --------------------------
(* Model-checking instance of NativeSession.                               *)
EXTENDS NativeSession
=============================================================================
