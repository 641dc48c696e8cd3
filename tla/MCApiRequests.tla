---------------------------- MODULE MCApiRequests ----------------------------
(* Two reads and one write of a URL                                          *)
EXTENDS ApiRequests
CONSTANTS r1, r2, w1
MCCall == {r1, r2, w1}
MCReads == {r1, r2}
=============================================================================
