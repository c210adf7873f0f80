----------------------------- MODULE MCSegmenter -----------------------------
(* Five items.  The strong edges are any of a triangle with a tail of two, so that cut     *)
(* nodes differ in what they leave, and there may be more of them than hints; the ordering *)
(* edges are any of a path of all five and of the edge that closes a cycle at its end.     *)
(* Together they have two cycles in one pass, cycles of three and chains of five.          *)
EXTENDS SegmentHints

MCNode == 1..5
MCEdge == {<<5, 2>>, <<2, 4>>, <<4, 1>>, <<1, 3>>, <<3, 1>>}
MCStrongPair == {<<1, 2>>, <<2, 3>>, <<3, 1>>, <<4, 3>>, <<4, 5>>}
=============================================================================
