------------------------- MODULE BatchTasks_proofs -------------------------
(***************************************************************************)
(* What the user marks is what is downloaded: every place of the area that *)
(* is on the map lies on a tile of the batch, on every level of it,        *)
(* although only one of the two corners is clamped to the map.             *)
(***************************************************************************)
EXTENDS BatchTasks, TLAPS

Point == [x : Int, y : Int]
Batches == [min_zoom : Nat, max_zoom : Nat, tl : Point, br : Point]

\* Rounding down keeps the order of places.
LEMMA DivMonotone ==
  ASSUME NEW a \in Int, NEW b \in Int, NEW d \in Nat \ {0}, a <= b
  PROVE  a \div d <= b \div d
  BY SMT

LEMMA MulMonotone ==
  ASSUME NEW a \in Int, NEW b \in Int, NEW w \in Nat, a <= b
  PROVE  a * w <= b * w
  BY SMT

\* The tile of a place is a number, and grows with the place.
LEMMA TileMonotone ==
  ASSUME NEW z \in Level, NEW a \in Int, NEW b \in Int, a <= b
  PROVE  TileOf(a, z) \in Int /\ TileOf(a, z) <= TileOf(b, z)
<1>1. Scale \in Nat \ {0} /\ Width[z] \in Nat \ {0}
  BY GridAssumption
<1>2. a * Width[z] \in Int /\ b * Width[z] \in Int
  BY <1>1, SMT
<1>3. a * Width[z] <= b * Width[z]
  BY <1>1, MulMonotone
<1>4. (a * Width[z]) \div Scale <= (b * Width[z]) \div Scale
  BY <1>1, <1>2, <1>3, DivMonotone
<1>5. (a * Width[z]) \div Scale \in Int
  BY <1>1, <1>2, SMT
<1> QED
  BY <1>4, <1>5 DEF TileOf

\* A place on the map is on one of its tiles.
LEMMA TileOnMap ==
  ASSUME NEW z \in Level, NEW p \in 0 .. Scale - 1
  PROVE  TileOf(p, z) \in 0 .. Width[z] - 1
<1>1. Scale \in Nat \ {0} /\ Width[z] \in Nat \ {0}
  BY GridAssumption
<1> DEFINE n == p * Width[z]
<1>2. n \in Nat /\ n < Scale * Width[z]
  <2>1. p \in Nat /\ p + 1 <= Scale
    BY <1>1
  <2>2. (p + 1) * Width[z] <= Scale * Width[z]
    BY <1>1, <2>1, MulMonotone
  <2>3. (p + 1) * Width[z] = p * Width[z] + Width[z]
    BY <1>1, <2>1, SMT
  <2>4. p * Width[z] \in Nat
    BY <1>1, <2>1, SMT
  <2> QED
    BY <1>1, <2>2, <2>3, <2>4
<1>3. \A a \in Nat, w \in Nat, d \in Nat \ {0} : a < d * w => a \div d \in Nat /\ a \div d < w
  BY SMT
<1> QED
  BY <1>1, <1>2, <1>3 DEF TileOf

\* What is clamped stays on the near side of every tile of the map it was on the near side of.
LEMMA ClampedBelow ==
  ASSUME NEW z \in Level, NEW i \in Int, NEW j \in 0 .. Width[z] - 1, i <= j
  PROVE  Clamped(i, z) \in Int /\ Clamped(i, z) <= j
  BY GridAssumption DEF Clamped

\* batch_download_prepare: a place of the marked area that is on the map is on a tile of the batch,
\* on each of its levels, wherever the corners of the area lie.
THEOREM AreaCovered ==
  ASSUME NEW batch \in Batches, NEW z \in LevelsOf(batch) \cap Level,
         NEW px \in 0 .. Scale - 1, batch.tl.x <= px, px <= batch.br.x,
         NEW py \in 0 .. Scale - 1, batch.tl.y <= py, py <= batch.br.y
  PROVE  <<z, TileOf(px, z), TileOf(py, z)>> \in InRange(batch)
<1>1. /\ batch.tl.x \in Int /\ batch.tl.y \in Int
      /\ batch.br.x \in Int /\ batch.br.y \in Int
  BY DEF Batches, Point
<1>2. px \in Int /\ py \in Int
  BY GridAssumption
<1>3. TileOf(px, z) \in Clamped(TileOf(batch.tl.x, z), z) .. TileOf(batch.br.x, z)
  <2>1. TileOf(batch.tl.x, z) \in Int /\ TileOf(batch.tl.x, z) <= TileOf(px, z)
    BY <1>1, <1>2, TileMonotone
  <2>2. TileOf(px, z) \in Int /\ TileOf(px, z) <= TileOf(batch.br.x, z)
    BY <1>1, <1>2, TileMonotone
  <2>3. TileOf(batch.br.x, z) \in Int
    BY <1>1, TileMonotone
  <2>4. Clamped(TileOf(batch.tl.x, z), z) \in Int /\ Clamped(TileOf(batch.tl.x, z), z) <= TileOf(px, z)
    BY <2>1, TileOnMap, ClampedBelow
  <2> QED
    BY <2>2, <2>3, <2>4
<1>4. TileOf(py, z) \in Clamped(TileOf(batch.tl.y, z), z) .. TileOf(batch.br.y, z)
  <2>1. TileOf(batch.tl.y, z) \in Int /\ TileOf(batch.tl.y, z) <= TileOf(py, z)
    BY <1>1, <1>2, TileMonotone
  <2>2. TileOf(py, z) \in Int /\ TileOf(py, z) <= TileOf(batch.br.y, z)
    BY <1>1, <1>2, TileMonotone
  <2>3. TileOf(batch.br.y, z) \in Int
    BY <1>1, TileMonotone
  <2>4. Clamped(TileOf(batch.tl.y, z), z) \in Int /\ Clamped(TileOf(batch.tl.y, z), z) <= TileOf(py, z)
    BY <2>1, TileOnMap, ClampedBelow
  <2> QED
    BY <2>2, <2>3, <2>4
<1>5. <<z, TileOf(px, z), TileOf(py, z)>> \in LevelRange(batch, z)
  BY <1>3, <1>4 DEF LevelRange
<1> QED
  BY <1>5 DEF InRange

=============================================================================
