--------------------------- MODULE MCOrderListing ---------------------------
(***************************************************************************)
(* Small instances of OrderListing for TLC.                                *)
(***************************************************************************)
EXTENDS OrderListing, TLC

CONSTANTS s1, s2
=============================================================================
