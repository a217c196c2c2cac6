---------------------------- MODULE MCModuleCall ----------------------------
(* Two calls of up to two fragments each over rings of one slot. *)
EXTENDS ModuleCall
=============================================================================
