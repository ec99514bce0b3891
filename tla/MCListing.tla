----------------------------- MODULE MCListing -----------------------------
(* Listing on all short headers, for TLC.  What a `{}`, or a brace in a     *)
(* comment, may lead to shows in four lines.                               *)
EXTENDS Listing

MCSources ==
  UNION {[0..n-1 -> Texts] : n \in 1..MaxLines-1}
    \cup [0..MaxLines-1 -> Texts \ {"open_close", "comment_close"}]
=============================================================================
