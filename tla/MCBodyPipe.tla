----------------------------- MODULE MCBodyPipe -----------------------------
(* Consumers for model-checking BodyPipe: the second one is a retry. *)
EXTENDS BodyPipe

MCConsumers == {"first", "second"}
=============================================================================
