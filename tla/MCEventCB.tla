----------------------------- MODULE MCEventCB -----------------------------
(***************************************************************************)
(* EventCB with the callbacks of one feed (clear its books, reconnect it)  *)
(* and one number the admin command may queue that has no callback.        *)
(***************************************************************************)
EXTENDS EventCB

MCRegistered == {"book_clear", "ws_connect"}
MCUnknown    == {"other"}
=============================================================================
