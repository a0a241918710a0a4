------------------------------ MODULE MCSysBus ------------------------------
(***************************************************************************)
(* SysBus on a small instance: two masters share one word, which a write   *)
(* may change at any time.                                                 *)
(***************************************************************************)
EXTENDS SysBus
=============================================================================
