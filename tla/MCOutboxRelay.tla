---------------------------- MODULE MCOutboxRelay ----------------------------
(* A small instance of OutboxRelay for TLC.                                *)
EXTENDS OutboxRelay

\* Every module handler subscribed to "*" or to a prefix of every event type.
MCMatch == Events \X Handlers
=============================================================================
