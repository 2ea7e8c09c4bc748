--------------------------- MODULE MCStateStreams ---------------------------
(* StateStreams on a small instance.                                        *)
EXTENDS StateStreams

WallClocks == {0, 1, 2}
=============================================================================
