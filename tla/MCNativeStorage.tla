--------------------------- MODULE MCNativeStorage ---------------------------
(***************************************************************************)
(* NativeStorage for TLC: a capacity that is no multiple of its chunks.    *)
(***************************************************************************)
EXTENDS NativeStorage

CONSTANTS g1, g2
=============================================================================
