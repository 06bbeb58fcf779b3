----------------------------- MODULE MCReceiver -----------------------------
(* Instance of Receiver: one waiting thread, replies of six bytes.          *)
EXTENDS Receiver

MCConsumers == {"waiter"}
=============================================================================
