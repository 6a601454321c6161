--------------------------- MODULE MCRingAnimation ---------------------------
(* One animation whose ring holds three frames, played up to its eighth.    *)
EXTENDS RingAnimation, TLC
=============================================================================
