-------------------------- MODULE MCInstanceTable ---------------------------
(***************************************************************************)
(* For the model checking of InstanceTable, with the constants of MCBroker.*)
(***************************************************************************)
EXTENDS MCBroker, InstanceTable
=============================================================================
