----------------------------- MODULE MCEventPump -----------------------------
(***************************************************************************)
(* The instance of EventPump for TLC: channels that are large enough for   *)
(* the lock requests of the others, and too small for the changes of the   *)
(* net.                                                                    *)
(***************************************************************************)
EXTENDS EventPump
=============================================================================
