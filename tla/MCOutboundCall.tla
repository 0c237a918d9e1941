--------------------------- MODULE MCOutboundCall ---------------------------
(* Two agent requests, or one agent call, one softphone call or one caller; two tries a job. *)
EXTENDS OutboundCall
=============================================================================
