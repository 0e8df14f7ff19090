----------------------------- MODULE MCListing ------------------------------
(* Five requested transactions, pages of two or three.  Amounts are int8, of
   which a float keeps four bits: exact below 16, above in steps; 127 rounds to
   128, which no int8 is, and 92, half way between 88 and 96, comes out as 100. *)
EXTENDS Listing

ZeroOrBelow == {0, -1}
Amounts == <<16, 17, 127, 101, 92>>

=============================================================================
