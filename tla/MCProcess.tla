----------------------------- MODULE MCProcess ------------------------------
(***************************************************************************)
(* For the model checking of Process, with the constants of MCCatalog.     *)
(***************************************************************************)
EXTENDS MCCatalog, Process
=============================================================================
