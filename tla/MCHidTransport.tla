--------------------------- MODULE MCHidTransport ---------------------------
(* HidTransport with channels that are interchangeable.                    *)
EXTENDS HidTransport, TLC

Symmetry == Permutations(Channels)
=============================================================================
