----------------------------- MODULE MCListings -----------------------------
(***************************************************************************)
(* A small instance of the three listings for TLC.                         *)
(***************************************************************************)
EXTENDS Listings, TLC

CONSTANTS s1, s2
=============================================================================
