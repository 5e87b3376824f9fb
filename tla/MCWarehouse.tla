----------------------------- MODULE MCWarehouse -----------------------------
(* A small instance of Warehouse for TLC.                                  *)
EXTENDS Warehouse, TLC

=============================================================================
