-------------------------- MODULE MCTileDownloader --------------------------
(* Small instances of TileDownloader for TLC, whose batches are prepared by BatchTasks. *)
EXTENDS TileDownloader, BatchTasks

CONSTANTS b1, b2, b3

MCWidth == [z \in 0..2 |-> 2^z]

Corner(a, b) == [x |-> a, y |-> b]

\* An area of level 0, on a map that ends at level 1: two tiles, of which b2 finds one on disk.
Area == Requested(0, 3, 1, Corner(0, 0), Corner(3, 1))
OnDisk(b) == IF b = b2 THEN {<<2, 0, 0>>} ELSE {}

\* Batches of two, one and two tiles.
MCTotal == [b \in Batch |-> NumDlTotal(Area, OnDisk(b), {})]

\* b1 and b3 have the same number of tiles, and nothing else tells batches or tiles apart.
MCSymmetry == Permutations({b1, b3}) \cup Permutations(Tile)
=============================================================================
