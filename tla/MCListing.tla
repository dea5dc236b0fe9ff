------------------------------ MODULE MCListing ------------------------------
(* Two sources of up to four rows in pages of two, one change under way. *)
EXTENDS Listing

MCSourceOrder == <<"inband", "oob">>
MCRows == 1 .. 5
MCInitialRows == {SubSeq(<<1, 2, 3, 4>>, 1, n) : n \in {0, 2, 3, 4}}
=============================================================================
