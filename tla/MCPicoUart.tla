----------------------------- MODULE MCPicoUart -----------------------------
(***************************************************************************)
(* PicoUart for TLC.  Rings of three cells, which hold two bytes, and      *)
(* FIFOs of two bytes: writes longer than ring and FIFO together, and more *)
(* bytes coming in than there is room for.                                 *)
(***************************************************************************)
EXTENDS PicoUart
=============================================================================
