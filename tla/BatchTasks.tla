----------------------------- MODULE BatchTasks -----------------------------
(***************************************************************************)
(* What a batch download consists of (tile_batch_download in               *)
(* ctx_dl_tiles.c, batch_download_prepare in tile_dl.c): the tiles of an   *)
(* area on the levels below the one it was marked on.  The projection of   *)
(* wgs84.c is left out: a corner of an area is a pixel of level 0, which   *)
(* is Scale pixels wide, and may lie outside the map.                      *)
(***************************************************************************)
EXTENDS Integers, FiniteSets

CONSTANTS
  Scale,    \* pixels of level 0, in both directions
  Level,    \* the levels
  Width     \* Width[z]: tiles of level z in both directions, 1 << z

ASSUME GridAssumption ==
  /\ Scale \in Nat \ {0}
  /\ Level \subseteq Nat
  /\ \A z \in Level : Width[z] \in Nat \ {0}

\* tile_batch_download: the levels asked for, as far as the map has them
Requested(zoom, levels, max_zoom, tl, br) ==
  LET most == IF zoom + levels > max_zoom THEN max_zoom - zoom ELSE levels
  IN  [min_zoom |-> zoom + 1, max_zoom |-> zoom + most, tl |-> tl, br |-> br]

\* wgs84_to_tile: the tile of a coordinate on level z, rounded down
TileOf(p, z) == (p * Width[z]) \div Scale

\* cur_zoom is incremented before it is used.
LevelsOf(batch) == batch.min_zoom + 1 .. batch.max_zoom + 1

\* MIN(MAX(.., 0), max_tile_no), for the top left corner only
Clamped(i, z) == IF i < 0 THEN 0 ELSE IF i > Width[z] - 1 THEN Width[z] - 1 ELSE i

LevelRange(batch, z) ==
  {<<z, x, y>> : x \in Clamped(TileOf(batch.tl.x, z), z) .. TileOf(batch.br.x, z),
                 y \in Clamped(TileOf(batch.tl.y, z), z) .. TileOf(batch.br.y, z)}

\* num_in_range counts these, num_dl_total those of them that get a task: there is no file of the
\* tile yet, and the map has a URL for it.
InRange(batch) == UNION {LevelRange(batch, z) : z \in LevelsOf(batch)}
Tasks(batch, onDisk, noUrl) == InRange(batch) \ (onDisk \cup noUrl)
NumDlTotal(batch, onDisk, noUrl) == Cardinality(Tasks(batch, onDisk, noUrl))
=============================================================================
