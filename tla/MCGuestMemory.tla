---------------------------- MODULE MCGuestMemory ----------------------------
(* Four frames; ranges that are equal, nested, adjacent and overlapping. *)
EXTENDS GuestMemory

Rng(s, l) == [start |-> s, len |-> l]
MCRanges == {Rng(0, 1), Rng(0, 2), Rng(1, 2), Rng(3, 1)}
=============================================================================
