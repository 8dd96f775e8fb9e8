------------------------- MODULE MapSession_proofs -------------------------
(***************************************************************************)
(* Proofs about MapSession, for any maps, any batches and any number of    *)
(* A-GPS requests, and for a session of any length: types, the locks of    *)
(* the view, the menu, the caches of the layers, and what a step may never *)
(* do to the mouse, the marks and the zoom levels.                         *)
(*                                                                         *)
(* An operator of MapView is described once, by what it keeps of a view    *)
(* (Unpainted, LayersKept, MarksKept, Released, Shown ...); a step then    *)
(* keeps a view fit (Fit), and every step of the session is one lemma.     *)
(***************************************************************************)
EXTENDS MapSession, TLAPS

USE MapAssumption

-----------------------------------------------------------------------------
(* Views *)

Batch == {b \in [map : Maps, zoom : Int] : b.zoom <= MaxZoom[b.map]}

View ==
  [tab : {"view", "menu", "tiles"}, ctx : Lockable \cup {"none", "gps"},
   gps : {"SUSPENDING", "STARTING", "RUNNING"}, menu : BOOLEAN,
   zin : BOOLEAN, zout : BOOLEAN, frozen : BOOLEAN,
   mouse : Lockable \cup {"default"}, redraw : Lockable \cup {"default", "gps"},
   locks : SUBSET Lockable, fg : Maps, bg : Maps \cup {NoMap},
   zoom : [Maps -> Int], dirty : BOOLEAN, fgTiles : SUBSET Maps, bgTiles : SUBSET Maps,
   marks : [Marks -> Place], chosen : BOOLEAN, geo : BOOLEAN, rows : SUBSET Batch,
   fixable : BOOLEAN, settable : BOOLEAN, corrected : SUBSET Maps,
   lockable : BOOLEAN, submittable : BOOLEAN]

\* What drawing leaves alone.
Unpainted(v, w) ==
  /\ w.tab = v.tab /\ w.ctx = v.ctx /\ w.gps = v.gps /\ w.menu = v.menu
  /\ w.frozen = v.frozen /\ w.mouse = v.mouse /\ w.redraw = v.redraw /\ w.locks = v.locks
  /\ w.fg = v.fg /\ w.bg = v.bg /\ w.chosen = v.chosen /\ w.geo = v.geo /\ w.rows = v.rows
  /\ w.fixable = v.fixable /\ w.settable = v.settable /\ w.corrected = v.corrected
  /\ w.lockable = v.lockable /\ w.submittable = v.submittable

\* What drawing does to the layers: it adds tiles of the maps shown, and takes the level of no
\* map out of its range.
LayersKept(v, w) ==
  /\ w.fgTiles \subseteq v.fgTiles \cup {v.fg}
  /\ w.bgTiles \subseteq v.bgTiles \cup {v.bg}
  /\ \A m \in Maps : v.zoom[m] \in Levels(m) => w.zoom[m] \in Levels(m)

\* The rectangle of a batch that is shown is computed anew; nothing else happens to the marks.
MarksKept(v, w) ==
  \A k \in Marks : \/ w.marks[k] = v.marks[k]
                   \/ k = "area" /\ v.redraw = "dl" /\ v.geo /\ w.marks[k] = "here"

\* The map moved under the marks.
MarksShifted(v, w) ==
  \A k \in Marks : \/ w.marks[k] = IF v.marks[k] = "here" THEN "moved" ELSE v.marks[k]
                   \/ k = "area" /\ v.redraw = "dl" /\ v.geo /\ w.marks[k] = "here"

\* The marks ks are set to p.
Marked(v, ks, p, w) ==
  /\ w \in View /\ Unpainted(v, w)
  /\ w.zoom = v.zoom /\ w.fgTiles = v.fgTiles /\ w.bgTiles = v.bgTiles /\ w.dirty = v.dirty
  /\ \A k \in Marks : w.marks[k] = IF k \in ks THEN p ELSE v.marks[k]

\* Set changes the marks only.
LEMMA SetView ==
  ASSUME NEW v \in View, NEW ks \in SUBSET Marks, NEW p \in Place
  PROVE  Marked(v, ks, p, Set(v, ks, p))
BY DEF View, Set, Unpainted, Marked

\* map_invalidate_view: painting, blending and the redraw function of the context.
LEMMA InvalidatedView ==
  ASSUME NEW v \in View
  PROVE  /\ Invalidated(v) \in View
         /\ Unpainted(v, Invalidated(v))
         /\ LayersKept(v, Invalidated(v))
         /\ MarksKept(v, Invalidated(v))
         /\ Invalidated(v).dirty = v.dirty
         /\ Invalidated(v).zoom[v.fg] = v.zoom[v.fg]
<1> DEFINE p == [v EXCEPT !.fgTiles = Held(@, v.fg)]
           b == Blended(p)
<1>1. /\ p \in View /\ Unpainted(v, p) /\ p.fgTiles = v.fgTiles \cup {v.fg}
      /\ p.bgTiles = v.bgTiles /\ p.zoom = v.zoom /\ p.marks = v.marks /\ p.dirty = v.dirty
  BY DEF View, Unpainted, Held
<1> HIDE DEF p
<1>2. /\ b \in View /\ Unpainted(p, b) /\ b.fgTiles = p.fgTiles
      /\ b.bgTiles \subseteq p.bgTiles \cup {p.bg} /\ b.marks = p.marks /\ b.dirty = p.dirty
      /\ b.zoom[p.fg] = p.zoom[p.fg]
      /\ \A m \in Maps : p.zoom[m] \in Levels(m) => b.zoom[m] \in Levels(m)
  <2>1. CASE p.bg # NoMap /\ p.zoom[p.fg] \in MinZoom[p.bg] .. MaxZoom[p.bg]
    <3>1. b = [p EXCEPT !.zoom[p.bg] = p.zoom[p.fg], !.bgTiles = Held(@, p.bg)]
      BY <2>1 DEF Blended
    <3>2. p.fg \in Maps /\ p.bg \in Maps /\ p.zoom \in [Maps -> Int]
      BY <1>1, <2>1 DEF View
    <3>3. b.zoom = [p.zoom EXCEPT ![p.bg] = p.zoom[p.fg]] /\ b.bgTiles = p.bgTiles \cup {p.bg}
      BY <1>1, <3>1 DEF View, Held
    <3>4. Unpainted(p, b) /\ b.fgTiles = p.fgTiles /\ b.marks = p.marks /\ b.dirty = p.dirty
      BY <1>1, <3>1 DEF View, Unpainted
    <3>5. b.zoom \in [Maps -> Int]
      BY <3>2, <3>3
    <3>6. b \in View
      BY <1>1, <3>1, <3>2, <3>3, <3>5, ZenonT(40) DEF View
    <3>7. \A m \in Maps : p.zoom[m] \in Levels(m) => b.zoom[m] \in Levels(m)
      BY <2>1, <3>2, <3>3 DEF Levels
    <3>8. b.zoom[p.fg] = p.zoom[p.fg]
      BY <3>2, <3>3
    <3>9. QED
      BY <3>3, <3>4, <3>6, <3>7, <3>8
  <2>2. CASE ~(p.bg # NoMap /\ p.zoom[p.fg] \in MinZoom[p.bg] .. MaxZoom[p.bg])
    <3>1. b = p
      BY <2>2 DEF Blended
    <3>2. QED
      BY <1>1, <3>1 DEF Unpainted
  <2>3. QED
    BY <2>1, <2>2
<1> HIDE DEF b
<1>3. /\ Redrawn(b) \in View /\ Unpainted(b, Redrawn(b)) /\ MarksKept(b, Redrawn(b))
      /\ Redrawn(b).fgTiles = b.fgTiles /\ Redrawn(b).bgTiles = b.bgTiles
      /\ Redrawn(b).dirty = b.dirty /\ Redrawn(b).zoom = b.zoom
  BY <1>2, SetView DEF Redrawn, Unpainted, MarksKept, Marks, Place, Marked
<1>4. QED
  BY <1>1, <1>2, <1>3 DEF Invalidated, Painted, p, b, Unpainted, LayersKept, MarksKept

\* The map moves: every mark on the screen is now over another place.
LEMMA ShiftedView ==
  ASSUME NEW v \in View
  PROVE  /\ Shifted(v) \in View
         /\ Unpainted(v, Shifted(v))
         /\ Shifted(v).zoom = v.zoom /\ Shifted(v).dirty = v.dirty
         /\ Shifted(v).fgTiles = v.fgTiles /\ Shifted(v).bgTiles = v.bgTiles
         /\ \A k \in Marks :
              Shifted(v).marks[k] = IF v.marks[k] = "here" THEN "moved" ELSE v.marks[k]
<1>1. {k \in Marks : v.marks[k] = "here"} \in SUBSET Marks /\ "moved" \in Place
  BY DEF Place
<1>2. QED
  BY <1>1, SetView DEF Shifted, Marked

\* map_zoom_to: the level of the foreground map is the only one that may leave its range.
LEMMA ZoomedView ==
  ASSUME NEW v \in View, NEW z \in Int
  PROVE  /\ ZoomedTo(v, z) \in View
         /\ Unpainted(v, ZoomedTo(v, z))
         /\ ZoomedTo(v, z).fgTiles \subseteq v.fgTiles \cup {v.fg}
         /\ ZoomedTo(v, z).bgTiles \subseteq v.bgTiles \cup {v.bg}
         /\ \A m \in Maps : (v.zoom[m] \in Levels(m) /\ (m = v.fg => z \in Levels(m))) =>
                              ZoomedTo(v, z).zoom[m] \in Levels(m)
         /\ MarksShifted(v, ZoomedTo(v, z))
         /\ ZoomedTo(v, z).dirty = v.dirty
<1> DEFINE u == [v EXCEPT !.zin = z < MaxZoom[v.fg], !.zout = z > MinZoom[v.fg],
                          !.zoom[v.fg] = z]
           s == Shifted(u)
<1>0. v.fg \in Maps /\ v.zoom \in [Maps -> Int]
  BY DEF View
<1>1. /\ u.zoom = [v.zoom EXCEPT ![v.fg] = z]
      /\ Unpainted(v, u) /\ u.fgTiles = v.fgTiles /\ u.bgTiles = v.bgTiles
      /\ u.marks = v.marks /\ u.dirty = v.dirty
  BY DEF View, Unpainted
<1>2. u \in View
  <2>1. [v.zoom EXCEPT ![v.fg] = z] \in [Maps -> Int]
    BY <1>0
  <2>2. (z < MaxZoom[v.fg]) \in BOOLEAN /\ (z > MinZoom[v.fg]) \in BOOLEAN
    OBVIOUS
  <2>3. QED
    BY <2>1, <2>2 DEF View
<1> HIDE DEF u
<1>3. /\ s \in View /\ Unpainted(u, s) /\ s.zoom = u.zoom /\ s.dirty = u.dirty
      /\ s.fgTiles = u.fgTiles /\ s.bgTiles = u.bgTiles
      /\ \A k \in Marks : s.marks[k] = IF u.marks[k] = "here" THEN "moved" ELSE u.marks[k]
  BY <1>2, ShiftedView
<1> HIDE DEF s
<1>4. /\ Invalidated(s) \in View
      /\ Unpainted(s, Invalidated(s)) /\ LayersKept(s, Invalidated(s))
      /\ MarksKept(s, Invalidated(s)) /\ Invalidated(s).dirty = s.dirty
  BY <1>3, InvalidatedView
<1>5. ZoomedTo(v, z) = Invalidated(s)
  BY DEF ZoomedTo, s, u
<1>6. \A m \in Maps : (v.zoom[m] \in Levels(m) /\ (m = v.fg => z \in Levels(m))) =>
                        s.zoom[m] \in Levels(m)
  BY <1>0, <1>1, <1>3
<1>7. Unpainted(v, Invalidated(s)) /\ s.fg = v.fg /\ s.bg = v.bg
  BY <1>1, <1>3, <1>4 DEF Unpainted
<1>8. MarksShifted(v, Invalidated(s))
  BY <1>1, <1>3, <1>4 DEF Unpainted, MarksKept, MarksShifted
<1>9. QED
  BY <1>1, <1>3, <1>4, <1>5, <1>6, <1>7, <1>8 DEF LayersKept

\* map_centralize: the map moves under the marks, and every level stays in range.
LEMMA CenteredView ==
  ASSUME NEW v \in View
  PROVE  /\ Centered(v) \in View
         /\ Unpainted(v, Centered(v))
         /\ LayersKept(v, Centered(v))
         /\ MarksShifted(v, Centered(v))
         /\ Centered(v).dirty = v.dirty
<1> DEFINE s == Shifted(v)
<1>1. /\ s \in View /\ Unpainted(v, s) /\ s.zoom = v.zoom /\ s.dirty = v.dirty
      /\ s.fgTiles = v.fgTiles /\ s.bgTiles = v.bgTiles
      /\ \A k \in Marks : s.marks[k] = IF v.marks[k] = "here" THEN "moved" ELSE v.marks[k]
  BY ShiftedView
<1> HIDE DEF s
<1>2. /\ Invalidated(s) \in View
      /\ Unpainted(s, Invalidated(s)) /\ LayersKept(s, Invalidated(s))
      /\ MarksKept(s, Invalidated(s)) /\ Invalidated(s).dirty = s.dirty
  BY <1>1, InvalidatedView
<1>3. Centered(v) = Invalidated(s)
  BY DEF Centered, s
<1>4. QED
  BY <1>1, <1>2, <1>3 DEF Unpainted, MarksKept, MarksShifted, LayersKept

\* drawing_area_expose_event: the map moves under the marks only when a layer was changed.
LEMMA ExposedView ==
  ASSUME NEW v \in View
  PROVE  /\ Exposed(v) \in View
         /\ Unpainted(v, Exposed(v))
         /\ LayersKept(v, Exposed(v))
         /\ v.dirty => MarksShifted(v, Exposed(v))
         /\ ~v.dirty => MarksKept(v, Exposed(v))
         /\ ~Exposed(v).dirty
<1>0. /\ v.fg \in Maps /\ v.bg \in Maps \cup {NoMap} /\ v.zoom \in [Maps -> Int]
      /\ v.dirty \in BOOLEAN
  BY DEF View
<1>1. CASE v.dirty
  <2> DEFINE u == [v EXCEPT !.dirty = FALSE]
             z == IF u.bg = NoMap THEN u.zoom[u.fg] ELSE Least(u.zoom[u.fg], MaxZoom[u.bg])
  <2>1. u \in View /\ Unpainted(v, u) /\ u.zoom = v.zoom /\ ~u.dirty /\ u.marks = v.marks
        /\ u.fgTiles = v.fgTiles /\ u.bgTiles = v.bgTiles /\ u.fg = v.fg /\ u.bg = v.bg
    BY ZenonT(40) DEF View, Unpainted
  <2>2. z \in Int /\ (v.zoom[v.fg] \in Levels(v.fg) => z \in Levels(v.fg))
    <3>1. CASE v.bg = NoMap
      BY <1>0, <2>1, <3>1
    <3>2. CASE v.bg # NoMap
      <4>1. /\ MinZoom[v.fg] <= MaxZoom[v.bg] /\ MinZoom[v.fg] \in Nat /\ MaxZoom[v.bg] \in Nat
            /\ MaxZoom[v.fg] \in Nat
        BY <1>0, <3>2
      <4>2. QED
        BY <1>0, <2>1, <3>2, <4>1 DEF Least, Levels
    <3>3. QED
      BY <3>1, <3>2
  <2>3. Exposed(v) = ZoomedTo(u, z)
    BY <1>1, <2>1 DEF Exposed
  <2> HIDE DEF u, z
  <2>4. /\ ZoomedTo(u, z) \in View
        /\ Unpainted(u, ZoomedTo(u, z))
        /\ ZoomedTo(u, z).fgTiles \subseteq u.fgTiles \cup {u.fg}
        /\ ZoomedTo(u, z).bgTiles \subseteq u.bgTiles \cup {u.bg}
        /\ \A m \in Maps : (u.zoom[m] \in Levels(m) /\ (m = u.fg => z \in Levels(m))) =>
                             ZoomedTo(u, z).zoom[m] \in Levels(m)
        /\ MarksShifted(u, ZoomedTo(u, z))
        /\ ZoomedTo(u, z).dirty = u.dirty
    BY <2>1, <2>2, ZoomedView
  <2>5. LayersKept(v, ZoomedTo(u, z))
    BY <2>1, <2>2, <2>4 DEF LayersKept
  <2>6. QED
    BY <1>1, <2>1, <2>3, <2>4, <2>5 DEF Unpainted, MarksShifted
<1>2. CASE ~v.dirty
  <2>1. Exposed(v) = Redrawn(v)
    BY <1>2 DEF Exposed
  <2>2. {"area"} \in SUBSET Marks /\ "here" \in Place
    BY DEF Marks, Place
  <2>3. QED
    BY <1>2, <2>1, <2>2, SetView DEF Redrawn, Unpainted, MarksKept, LayersKept, Marked
<1>3. QED
  BY <1>0, <1>1, <1>2

-----------------------------------------------------------------------------
(* Locking *)

\* LockOwnsView of a view.
Owned(v) ==
  /\ v.frozen => v.locks # {}
  /\ v.mouse # "default" => v.frozen /\ v.mouse \in v.locks
  /\ v.redraw \in Lockable => v.redraw \in v.locks

\* What locking and showing a context leave alone.
Unswitched(v, w) ==
  /\ w.tab = v.tab /\ w.gps = v.gps
  /\ w.fg = v.fg /\ w.bg = v.bg /\ w.corrected = v.corrected /\ w.dirty = v.dirty

\* The marks of a context are marks.
LEMMA MarkOfType == \A c \in Lockable : MarkOf[c] \in SUBSET Marks
BY DEF Lockable, MarkOf, Marks

\* map_set_redraw_func(NULL): no context draws the view any more.
LEMMA DefaultRedrawView ==
  ASSUME NEW v \in View
  PROVE  /\ DefaultRedraw(v) \in View
         /\ DefaultRedraw(v) = [v EXCEPT !.redraw = DefaultRedraw(v).redraw]
         /\ DefaultRedraw(v).redraw \in {"gps", "default"}
BY DEF View, DefaultRedraw

\* The toggle button of a context, pressed.
Locked(v, c, w) ==
  /\ w \in View
  /\ Unswitched(v, w) /\ w.ctx = v.ctx /\ w.menu = v.menu /\ w.geo = v.geo
  /\ w.rows = v.rows /\ w.marks = v.marks
  /\ w.zoom = v.zoom /\ w.fgTiles = v.fgTiles /\ w.bgTiles = v.bgTiles
  /\ w.locks = v.locks \cup {c}
  /\ w.frozen /\ w.mouse = c /\ w.redraw = c

LEMMA LockedView ==
  ASSUME NEW v \in View, NEW c \in Lockable
  PROVE  Locked(v, c, LockedBy([v EXCEPT !.locks = @ \cup {c}], c))
BY ZenonT(40) DEF View, LockedBy, Frozen, Unswitched, Locked

\* map_config_main_view(FALSE): whoever had the mouse, the view has it again.
LEMMA ThawedView ==
  ASSUME NEW v \in View
  PROVE  /\ Thawed(v) \in View
         /\ Unswitched(v, Thawed(v)) /\ Thawed(v).ctx = v.ctx /\ Thawed(v).menu = v.menu
         /\ Thawed(v).geo = v.geo /\ Thawed(v).rows = v.rows
         /\ Thawed(v).locks = v.locks /\ Thawed(v).redraw = v.redraw
         /\ ~Thawed(v).frozen /\ Thawed(v).mouse = "default"
         /\ LayersKept(v, Thawed(v)) /\ MarksKept(v, Thawed(v))
<1> DEFINE in == v.zoom[v.fg] # MaxZoom[v.fg]
           out == v.zoom[v.fg] = MaxZoom[v.fg] \/ v.zoom[v.fg] # MinZoom[v.fg]
           u == [v EXCEPT !.frozen = FALSE, !.zin = in, !.zout = out]
           w == Invalidated(u)
<1>0. in \in BOOLEAN /\ out \in BOOLEAN
  OBVIOUS
<1>1. Thawed(v) = [w EXCEPT !.mouse = "default"]
  BY DEF Thawed
<1> HIDE DEF in, out
<1>2. /\ u \in View /\ ~u.frozen
      /\ u.tab = v.tab /\ u.ctx = v.ctx /\ u.gps = v.gps /\ u.menu = v.menu
      /\ u.redraw = v.redraw /\ u.locks = v.locks
      /\ u.fg = v.fg /\ u.bg = v.bg /\ u.geo = v.geo /\ u.rows = v.rows
      /\ u.corrected = v.corrected /\ u.dirty = v.dirty /\ u.zoom = v.zoom /\ u.marks = v.marks
      /\ u.fgTiles = v.fgTiles /\ u.bgTiles = v.bgTiles
  <2>1. u \in View
    BY <1>0 DEF View
  <2>2. /\ u.tab = v.tab /\ u.ctx = v.ctx /\ u.gps = v.gps /\ u.menu = v.menu
        /\ u.redraw = v.redraw /\ u.locks = v.locks /\ ~u.frozen
        /\ u.fg = v.fg /\ u.bg = v.bg /\ u.geo = v.geo /\ u.rows = v.rows
        /\ u.corrected = v.corrected /\ u.dirty = v.dirty /\ u.zoom = v.zoom
        /\ u.marks = v.marks /\ u.fgTiles = v.fgTiles /\ u.bgTiles = v.bgTiles
    BY DEF View
  <2>3. QED
    BY <2>1, <2>2
<1> HIDE DEF u
<1>3. /\ w \in View /\ Unpainted(u, w) /\ LayersKept(u, w) /\ MarksKept(u, w)
      /\ w.dirty = u.dirty
  BY <1>2, InvalidatedView
<1> HIDE DEF w
<1>4. Thawed(v) \in View
  BY <1>1, <1>3 DEF View
<1>5. /\ Thawed(v).tab = w.tab /\ Thawed(v).ctx = w.ctx /\ Thawed(v).gps = w.gps
      /\ Thawed(v).menu = w.menu /\ Thawed(v).redraw = w.redraw /\ Thawed(v).locks = w.locks
      /\ Thawed(v).fg = w.fg /\ Thawed(v).bg = w.bg /\ Thawed(v).geo = w.geo
      /\ Thawed(v).rows = w.rows /\ Thawed(v).corrected = w.corrected
      /\ Thawed(v).dirty = w.dirty /\ Thawed(v).zoom = w.zoom /\ Thawed(v).marks = w.marks
      /\ Thawed(v).fgTiles = w.fgTiles /\ Thawed(v).bgTiles = w.bgTiles
      /\ Thawed(v).frozen = w.frozen /\ Thawed(v).mouse = "default"
  BY <1>1, <1>3 DEF View
<1>6. QED
  BY <1>2, <1>3, <1>4, <1>5 DEF Unpainted, Unswitched, LayersKept, MarksKept

\* The toggle button of a context, released: its marks are withdrawn and the view is thawed.
Unlocked(v, c, w) ==
  /\ w \in View
  /\ Unswitched(v, w) /\ w.ctx = v.ctx /\ w.menu = v.menu /\ w.geo = v.geo
  /\ w.rows = v.rows
  /\ \A k \in Marks : w.marks[k] = IF k \in MarkOf[c] THEN "none" ELSE v.marks[k]
  /\ LayersKept(v, w)
  /\ w.locks = v.locks \ {c}
  /\ ~w.frozen /\ w.mouse = "default" /\ w.redraw \in {"gps", "default"}

LEMMA UnlockedView ==
  ASSUME NEW v \in View, NEW c \in Lockable
  PROVE  Unlocked(v, c, UnlockedBy([v EXCEPT !.locks = @ \ {c}], c))
<1> DEFINE a == [v EXCEPT !.locks = @ \ {c}]
           b == Set(a, MarkOf[c], "none")
           d == DefaultRedraw(b)
<1>1. /\ a \in View /\ a.locks = v.locks \ {c}
      /\ a.tab = v.tab /\ a.ctx = v.ctx /\ a.gps = v.gps /\ a.menu = v.menu
      /\ a.fg = v.fg /\ a.bg = v.bg /\ a.geo = v.geo /\ a.rows = v.rows
      /\ a.corrected = v.corrected /\ a.dirty = v.dirty /\ a.zoom = v.zoom /\ a.marks = v.marks
      /\ a.fgTiles = v.fgTiles /\ a.bgTiles = v.bgTiles
  BY DEF View
<1>2. UnlockedBy(a, c) = Thawed(d)
  BY DEF UnlockedBy
<1> HIDE DEF a
<1>3. PICK ks \in SUBSET Marks : ks = MarkOf[c]
  BY MarkOfType
<1>4. b = Set(a, ks, "none") /\ "none" \in Place
  BY <1>3 DEF Place
<1>5. Marked(a, ks, "none", b)
  BY <1>1, <1>4, SetView
<1> HIDE DEF b
<1>6. d \in View /\ d = [b EXCEPT !.redraw = d.redraw] /\ d.redraw \in {"gps", "default"}
  <2>1. b \in View
    BY <1>5 DEF Marked
  <2>2. QED
    BY <2>1, DefaultRedrawView
<1> HIDE DEF d
<1>7. /\ d.tab = b.tab /\ d.ctx = b.ctx /\ d.gps = b.gps /\ d.menu = b.menu
      /\ d.fg = b.fg /\ d.bg = b.bg /\ d.geo = b.geo /\ d.rows = b.rows
      /\ d.corrected = b.corrected /\ d.dirty = b.dirty /\ d.zoom = b.zoom /\ d.marks = b.marks
      /\ d.fgTiles = b.fgTiles /\ d.bgTiles = b.bgTiles /\ d.locks = b.locks
  BY <1>5, <1>6 DEF View, Marked
<1>8. /\ Thawed(d) \in View
      /\ Unswitched(d, Thawed(d)) /\ Thawed(d).ctx = d.ctx /\ Thawed(d).menu = d.menu
      /\ Thawed(d).geo = d.geo /\ Thawed(d).rows = d.rows
      /\ Thawed(d).locks = d.locks /\ Thawed(d).redraw = d.redraw
      /\ ~Thawed(d).frozen /\ Thawed(d).mouse = "default"
      /\ LayersKept(d, Thawed(d)) /\ MarksKept(d, Thawed(d))
  BY <1>6, ThawedView
<1>9. Unlocked(v, c, Thawed(d))
  BY <1>3, <1>1, <1>5, <1>6, <1>7, <1>8
  DEF Unlocked, Unswitched, Unpainted, LayersKept, MarksKept, Marked
<1>10. QED
  BY <1>2, <1>9 DEF a

\* gtk_toggle_button_set_active(TRUE)
Pressed(v, c, w) ==
  /\ w \in View
  /\ Unswitched(v, w) /\ LayersKept(v, w) /\ w.ctx = v.ctx /\ w.menu = v.menu
  /\ w.geo = v.geo /\ w.rows = v.rows /\ w.marks = v.marks
  /\ w.locks = v.locks \cup {c}
  /\ w.mouse = IF c \in v.locks THEN v.mouse ELSE c
  /\ Owned(v) => Owned(w)

LEMMA PressedView ==
  ASSUME NEW v \in View, NEW c \in Lockable
  PROVE  Pressed(v, c, Toggled(v, c, TRUE))
<1>0. v.locks \in SUBSET Lockable
  BY DEF View
<1>1. CASE c \in v.locks
  <2>1. Toggled(v, c, TRUE) = v
    BY <1>1 DEF Toggled
  <2>2. Pressed(v, c, v)
    BY <1>0, <1>1 DEF Pressed, Unswitched, LayersKept
  <2>3. QED
    BY <2>1, <2>2
<1>2. CASE c \notin v.locks
  <2> DEFINE w == LockedBy([v EXCEPT !.locks = @ \cup {c}], c)
  <2>1. Toggled(v, c, TRUE) = w
    BY <1>2 DEF Toggled
  <2>2. Locked(v, c, w)
    BY LockedView
  <2> HIDE DEF w
  <2>3. Pressed(v, c, w)
    BY <1>2, <2>2 DEF Pressed, Locked, Owned, LayersKept
  <2>4. QED
    BY <2>1, <2>3
<1>3. QED
  BY <1>1, <1>2

\* gtk_toggle_button_set_active(FALSE)
Released(v, c, w) ==
  /\ w \in View
  /\ Unswitched(v, w) /\ LayersKept(v, w) /\ w.ctx = v.ctx /\ w.menu = v.menu
  /\ w.geo = v.geo /\ w.rows = v.rows
  /\ \A k \in Marks : \/ w.marks[k] = v.marks[k]
                      \/ k \in MarkOf[c] /\ w.marks[k] = "none"
  /\ c \in v.locks => \A k \in MarkOf[c] : w.marks[k] = "none"
  /\ w.locks = v.locks \ {c}
  /\ w.mouse = IF c \in v.locks THEN "default" ELSE v.mouse
  /\ Owned(v) => Owned(w)

LEMMA ReleasedView ==
  ASSUME NEW v \in View, NEW c \in Lockable
  PROVE  Released(v, c, Toggled(v, c, FALSE))
<1>0. v.locks \in SUBSET Lockable
  BY DEF View
<1>1. CASE c \notin v.locks
  <2>1. Toggled(v, c, FALSE) = v
    BY <1>1 DEF Toggled
  <2>2. Released(v, c, v)
    BY <1>0, <1>1 DEF Released, Unswitched, LayersKept
  <2>3. QED
    BY <2>1, <2>2
<1>2. CASE c \in v.locks
  <2> DEFINE w == UnlockedBy([v EXCEPT !.locks = @ \ {c}], c)
  <2>1. Toggled(v, c, FALSE) = w
    BY <1>2 DEF Toggled
  <2>2. Unlocked(v, c, w)
    BY UnlockedView
  <2> HIDE DEF w
  <2>3. Owned(w)
    BY <2>2 DEF Unlocked, Owned, Lockable
  <2>4. \A k \in MarkOf[c] : w.marks[k] = "none"
    BY <2>2, MarkOfType DEF Unlocked
  <2>5. Released(v, c, w)
    BY <1>2, <2>2, <2>3, <2>4 DEF Unlocked, Released
  <2>6. QED
    BY <2>1, <2>5
<1>3. QED
  BY <1>1, <1>2

-----------------------------------------------------------------------------
(* Showing a context *)

\* update_batch_dl_status changes the rows only.
LEMMA ListedView ==
  ASSUME NEW v \in View, NEW bs \in SUBSET Batch
  PROVE  /\ Listed(v, bs) \in View
         /\ Listed(v, bs) = [v EXCEPT !.rows = Listed(v, bs).rows]
         /\ Listed(v, bs).rows \subseteq v.rows \cup bs
<1> DEFINE own == {b \in bs : b.map = v.fg}
<1>1. own \subseteq bs /\ own \subseteq Batch
  OBVIOUS
<1>2. Listed(v, bs) = IF own = {} THEN v ELSE [v EXCEPT !.rows = own]
  BY DEF Listed
<1> HIDE DEF own
<1>3. CASE own = {}
  BY <1>2, <1>3 DEF View
<1>4. CASE own # {}
  BY <1>1, <1>2, <1>4 DEF View
<1>5. QED
  BY <1>3, <1>4

\* What a context does to the view when it is shown: its marks are withdrawn, and the A-GPS
\* context releases its own lock.
Shown(v, c, bs, w) ==
  /\ w \in View
  /\ Unswitched(v, w) /\ LayersKept(v, w) /\ w.ctx = v.ctx /\ w.menu = v.menu
  /\ w.rows \subseteq v.rows \cup bs
  /\ Owned(v) => Owned(w)
  /\ w.locks = IF c = "agps" THEN v.locks \ {c} ELSE v.locks
  /\ w.mouse = IF c = "agps" /\ c \in v.locks THEN "default" ELSE v.mouse
  /\ \A k \in Marks : w.marks[k] = v.marks[k] \/ w.marks[k] = "none"
  /\ c \in Lockable => \A k \in MarkOf[c] : w.marks[k] = "none"
  /\ w.geo = IF c = "dl" THEN FALSE ELSE v.geo

LEMMA OnShowView ==
  ASSUME NEW v \in View, NEW c \in Lockable \cup {"none", "gps"}, NEW bs \in SUBSET Batch
  PROVE  Shown(v, c, bs, OnShow(v, c, bs))
<1>1. "none" \in Place /\ v \in View
  BY DEF Place
<1>2. MarkOf["agps"] = {"point"} /\ MarkOf["scratch"] = {} /\ MarkOf["dl"] = {"area", "last"}
      /\ MarkOf["fix"] = {"click", "src", "dst"}
  BY DEF MarkOf
<1>3. CASE c = "gps"
  <2> DEFINE w == DefaultRedraw(v)
  <2>1. OnShow(v, c, bs) = w
    BY <1>3 DEF OnShow
  <2>2. w \in View /\ w = [v EXCEPT !.redraw = w.redraw] /\ w.redraw \in {"gps", "default"}
    BY DefaultRedrawView
  <2> HIDE DEF w
  <2>3. /\ Unswitched(v, w) /\ w.ctx = v.ctx /\ w.menu = v.menu /\ w.geo = v.geo
        /\ w.rows = v.rows /\ w.zoom = v.zoom /\ w.marks = v.marks /\ w.fgTiles = v.fgTiles
        /\ w.bgTiles = v.bgTiles /\ w.locks = v.locks /\ w.mouse = v.mouse
        /\ w.frozen = v.frozen
    BY <2>2 DEF View, Unswitched
  <2>4. Owned(v) => Owned(w)
    BY <2>2, <2>3 DEF Owned, Lockable
  <2>5. Shown(v, c, bs, w)
    BY <1>3, <2>2, <2>3, <2>4 DEF Shown, LayersKept, Lockable
  <2>6. QED
    BY <2>1, <2>5
<1>4. CASE c \in {"none", "scratch"}
  <2>1. OnShow(v, c, bs) = v
    BY <1>4 DEF OnShow
  <2>2. Shown(v, c, bs, v)
    BY <1>2, <1>4 DEF Shown, Unswitched, LayersKept, Lockable
  <2>3. QED
    BY <2>1, <2>2
<1>5. CASE c = "fix"
  <2>1. PICK ks \in SUBSET Marks : ks = {"click", "src", "dst"}
    BY DEF Marks
  <2> DEFINE s == Set(v, ks, "none")
             w == [s EXCEPT !.fixable = FALSE, !.settable = FALSE]
  <2>2. OnShow(v, c, bs) = w
    BY <1>5, <2>1 DEF OnShow, FixOnShow
  <2>3. Marked(v, ks, "none", s)
    BY <1>1, SetView
  <2> HIDE DEF s
  <2>4. w \in View
    <3>1. s \in View
      BY <2>3 DEF Marked
    <3>2. QED
      BY <3>1, ZenonT(40) DEF View
  <2>5. /\ Unswitched(s, w) /\ w.ctx = s.ctx /\ w.menu = s.menu /\ w.geo = s.geo
        /\ w.rows = s.rows /\ w.zoom = s.zoom /\ w.marks = s.marks /\ w.fgTiles = s.fgTiles
        /\ w.bgTiles = s.bgTiles /\ w.locks = s.locks /\ w.mouse = s.mouse
        /\ w.frozen = s.frozen /\ w.redraw = s.redraw
    BY <2>3 DEF View, Unswitched, Marked
  <2> HIDE DEF w
  <2>6. Shown(v, c, bs, w)
    BY <1>2, <1>5, <2>1, <2>3, <2>4, <2>5
    DEF Shown, Marked, Unswitched, Unpainted, LayersKept, Owned
  <2>7. QED
    BY <2>2, <2>6
<1>6. CASE c = "dl"
  <2>1. PICK ks \in SUBSET Marks : ks = {"area", "last"}
    BY DEF Marks
  <2> DEFINE l == Listed(v, bs)
             s == Set(l, ks, "none")
             w == [s EXCEPT !.chosen = FALSE, !.geo = FALSE]
  <2>2. OnShow(v, c, bs) = w
    BY <1>6, <2>1 DEF OnShow, DlOnShow
  <2>3. l \in View /\ l = [v EXCEPT !.rows = l.rows] /\ l.rows \subseteq v.rows \cup bs
    BY ListedView
  <2> HIDE DEF l
  <2>4. /\ Unswitched(v, l) /\ l.ctx = v.ctx /\ l.menu = v.menu
        /\ l.zoom = v.zoom /\ l.marks = v.marks /\ l.fgTiles = v.fgTiles
        /\ l.bgTiles = v.bgTiles /\ l.locks = v.locks /\ l.mouse = v.mouse
        /\ l.frozen = v.frozen /\ l.redraw = v.redraw
    BY <2>3 DEF View, Unswitched
  <2>5. Marked(l, ks, "none", s)
    BY <1>1, <2>3, SetView
  <2> HIDE DEF s
  <2>6. w \in View
    <3>1. s \in View
      BY <2>5 DEF Marked
    <3>2. QED
      BY <3>1, ZenonT(40) DEF View
  <2>7. /\ Unswitched(s, w) /\ w.ctx = s.ctx /\ w.menu = s.menu /\ w.geo = FALSE
        /\ w.rows = s.rows /\ w.zoom = s.zoom /\ w.marks = s.marks /\ w.fgTiles = s.fgTiles
        /\ w.bgTiles = s.bgTiles /\ w.locks = s.locks /\ w.mouse = s.mouse
        /\ w.frozen = s.frozen /\ w.redraw = s.redraw
    BY <2>5 DEF View, Unswitched, Marked
  <2> HIDE DEF w
  <2>8. Unswitched(v, w) /\ LayersKept(v, w) /\ (Owned(v) => Owned(w))
    BY <2>4, <2>5, <2>7 DEF Unswitched, Unpainted, LayersKept, Owned, Marked
  <2>9. /\ w.ctx = v.ctx /\ w.menu = v.menu /\ w.rows \subseteq v.rows \cup bs
        /\ w.locks = v.locks /\ w.mouse = v.mouse
    BY <2>3, <2>4, <2>5, <2>7 DEF Unpainted, Marked
  <2>10. \A k \in Marks : w.marks[k] = IF k \in ks THEN "none" ELSE v.marks[k]
    BY <2>4, <2>5, <2>7 DEF Marked
  <2>11. Shown(v, c, bs, w)
    BY <1>2, <1>6, <2>1, <2>6, <2>7, <2>8, <2>9, <2>10 DEF Shown
  <2>12. QED
    BY <2>2, <2>11
<1>7. CASE c = "agps"
  <2>1. PICK ks \in SUBSET Marks : ks = {"point"}
    BY DEF Marks
  <2> DEFINE s == Set(v, ks, "none")
             t == Toggled(s, "agps", FALSE)
             w == [t EXCEPT !.lockable = TRUE, !.submittable = FALSE]
  <2>2. OnShow(v, c, bs) = w
    BY <1>7, <2>1 DEF OnShow, AgpsOnShow
  <2>3. Marked(v, ks, "none", s)
    BY <1>1, SetView
  <2> HIDE DEF s
  <2>4. "agps" \in Lockable
    BY DEF Lockable
  <2>5. Released(s, "agps", t)
    <3>1. s \in View
      BY <2>3 DEF Marked
    <3>2. QED
      BY <2>4, <3>1, ReleasedView
  <2> HIDE DEF t
  <2>6. t \in View
    BY <2>5 DEF Released
  <2>7. w \in View
    BY <2>6, ZenonT(40) DEF View
  <2>8. /\ Unswitched(t, w) /\ w.ctx = t.ctx /\ w.menu = t.menu /\ w.geo = t.geo
        /\ w.rows = t.rows /\ w.zoom = t.zoom /\ w.marks = t.marks /\ w.fgTiles = t.fgTiles
        /\ w.bgTiles = t.bgTiles /\ w.locks = t.locks /\ w.mouse = t.mouse
        /\ w.frozen = t.frozen /\ w.redraw = t.redraw
    BY <2>6 DEF View, Unswitched
  <2> HIDE DEF w
  <2>9. Owned(v) => Owned(w)
    BY <2>3, <2>5, <2>8 DEF Released, Unpainted, Owned, Marked
  <2>10. Shown(v, c, bs, w)
    BY <1>2, <1>7, <2>1, <2>3, <2>5, <2>7, <2>8, <2>9
    DEF Shown, Released, Unswitched, Unpainted, LayersKept, Marked
  <2>11. QED
    BY <2>2, <2>10
<1>8. QED
  BY <1>3, <1>4, <1>5, <1>6, <1>7 DEF Lockable

-----------------------------------------------------------------------------
(* The inductive invariant of the view *)

\* CacheOfLayer of a view.
Cached(v) == v.fgTiles \subseteq {v.fg} /\ v.bgTiles \subseteq {v.bg}

\* A click that the map moved under is newer than both marks.
ClickKept(v) ==
  v.marks["click"] = "moved" => v.marks["src"] # "here" /\ v.marks["dst"] # "here"

\* A context that works on the map is shown on the page of the map, with the menu out of reach.
Shut(v) == v.ctx \in Lockable => v.tab = "view" /\ ~v.menu

\* Nothing was marked since the layers were changed: the context was shown anew, or is not shown.
Quiet(v) ==
  v.dirty /\ v.ctx \in Lockable =>
    (\A k \in MarkOf[v.ctx] : v.marks[k] # "here") /\ (v.ctx = "dl" => ~v.geo)

Sound(v) == v \in View /\ Owned(v) /\ Cached(v) /\ ClickKept(v)
Fit(v) == Sound(v) /\ Shut(v) /\ Quiet(v)

\* What every step does that changes neither the page nor the maps.
Carried(v, w) == Unswitched(v, w) /\ LayersKept(v, w) /\ (Sound(v) => Sound(w))

\* Which marks belong to which context.
LEMMA ContextMarks ==
  /\ \A c \in Lockable : \A k \in MarkOf[c] : k \in Marks
  /\ "click" \in Marks /\ "src" \in Marks /\ "dst" \in Marks
  /\ \A k \in Marks : (k = "click" \/ k = "src" \/ k = "dst") => k # "area"
  /\ \A c \in Lockable : "area" \in MarkOf[c] => c = "dl"
BY DEF Lockable, MarkOf, Marks

\* Two steps that carry a view over carry it over together.
LEMMA CarriedTwice ==
  ASSUME NEW u, NEW v, NEW w, Carried(u, v), Carried(v, w)
  PROVE  Carried(u, w)
BY DEF Carried, Unswitched, LayersKept

\* Drawing keeps a view fit.
LEMMA PaintedFit ==
  ASSUME NEW v, NEW w \in View, Unpainted(v, w), w.fgTiles \subseteq v.fgTiles \cup {v.fg},
         w.bgTiles \subseteq v.bgTiles \cup {v.bg}, w.dirty => v.dirty,
         MarksKept(v, w) \/ MarksShifted(v, w)
  PROVE  (Sound(v) => Sound(w)) /\ (Fit(v) => Fit(w))
<1>1. Owned(v) => Owned(w)
  BY DEF Owned, Unpainted
<1>2. Cached(v) => Cached(w)
  BY DEF Cached, Unpainted
<1>3. ClickKept(v) => ClickKept(w)
  BY ContextMarks DEF ClickKept, MarksKept, MarksShifted
<1>4. Shut(v) => Shut(w)
  BY DEF Shut, Unpainted
<1>5. Quiet(v) /\ Owned(v) => Quiet(w)
  BY ContextMarks DEF Quiet, Unpainted, MarksKept, MarksShifted
<1>6. QED
  BY <1>1, <1>2, <1>3, <1>4, <1>5 DEF Sound, Fit

\* Pressing and releasing a lock keep a view fit.
LEMMA PressedFit ==
  ASSUME NEW v, NEW c \in Lockable, NEW w, Pressed(v, c, w) \/ Released(v, c, w)
  PROVE  Carried(v, w) /\ (Fit(v) => Fit(w))
<1>0. /\ w \in View /\ Unswitched(v, w) /\ LayersKept(v, w) /\ w.ctx = v.ctx /\ w.menu = v.menu
      /\ w.geo = v.geo /\ (Owned(v) => Owned(w))
      /\ \A k \in Marks : w.marks[k] = v.marks[k] \/ w.marks[k] = "none"
  BY DEF Pressed, Released
<1>1. Cached(v) => Cached(w)
  BY <1>0 DEF Cached, Unswitched, LayersKept
<1>2. ClickKept(v) => ClickKept(w)
  BY <1>0, ContextMarks DEF ClickKept
<1>3. Shut(v) => Shut(w)
  BY <1>0 DEF Shut, Unswitched
<1>4. Quiet(v) => Quiet(w)
  BY <1>0, ContextMarks DEF Quiet, Unswitched
<1>5. QED
  BY <1>0, <1>1, <1>2, <1>3, <1>4 DEF Sound, Fit, Carried

\* Showing a context keeps the view sound.
LEMMA ShownSound ==
  ASSUME NEW v, NEW c \in Lockable \cup {"none", "gps"}, NEW bs, NEW w, Shown(v, c, bs, w)
  PROVE  Carried(v, w)
<1>1. Cached(v) => Cached(w)
  BY DEF Cached, Unswitched, LayersKept, Shown
<1>2. ClickKept(v) => ClickKept(w)
  BY ContextMarks DEF ClickKept, Shown
<1>3. QED
  BY <1>1, <1>2 DEF Sound, Carried, Shown

\* switch_to_ctx_tab
Switched(v, c, bs, w) ==
  /\ w \in View /\ Carried(v, w) /\ Quiet(w)
  /\ w.ctx = IF c = "gps" /\ v.gps = "SUSPENDING" THEN "none" ELSE c
  /\ c \in Lockable => ~w.menu

\* switch_to_ctx_tab, whatever context was shown before.
LEMMA SwitchedView ==
  ASSUME NEW v \in View, NEW c \in Lockable \cup {"none", "gps"}, NEW bs \in SUBSET Batch
  PROVE  Switched(v, c, bs, SwitchedCtx(v, c, bs))
<1>0. "none" \notin Lockable /\ "gps" \notin Lockable
  BY DEF Lockable
<1>1. CASE c = "none" \/ (c = "gps" /\ v.gps = "SUSPENDING")
  <2> DEFINE w == SwitchedCtx(v, c, bs)
  <2>1. w = [v EXCEPT !.ctx = "none"] \/ w = [v EXCEPT !.menu = TRUE, !.ctx = "none"]
    BY <1>1 DEF SwitchedCtx
  <2> HIDE DEF w
  <2>2. w \in View
    <3>1. CASE w = [v EXCEPT !.ctx = "none"]
      BY <3>1 DEF View
    <3>2. CASE w = [v EXCEPT !.menu = TRUE, !.ctx = "none"]
      BY <3>2 DEF View
    <3>3. QED
      BY <2>1, <3>1, <3>2
  <2>3. /\ Unswitched(v, w) /\ w.ctx = "none" /\ w.zoom = v.zoom /\ w.marks = v.marks
        /\ w.fgTiles = v.fgTiles /\ w.bgTiles = v.bgTiles /\ w.locks = v.locks
        /\ w.mouse = v.mouse /\ w.frozen = v.frozen /\ w.redraw = v.redraw
    BY <2>1, ZenonT(40) DEF View, Unswitched
  <2>4. Owned(v) => Owned(w)
    BY <2>3 DEF Owned
  <2>5. Cached(v) /\ ClickKept(v) => Cached(w) /\ ClickKept(w)
    BY <2>3 DEF Cached, ClickKept, Unswitched
  <2>6. Carried(v, w) /\ Quiet(w)
    BY <1>0, <2>2, <2>3, <2>4, <2>5 DEF Carried, LayersKept, Sound, Quiet
  <2>7. Switched(v, c, bs, w)
    BY <1>0, <1>1, <2>2, <2>3, <2>6 DEF Switched
  <2>8. QED
    BY <2>7 DEF w
<1>2. CASE ~(c = "none" \/ (c = "gps" /\ v.gps = "SUSPENDING"))
  <2>1. PICK on \in BOOLEAN : on = (c = "gps")
    OBVIOUS
  <2> DEFINE u == [v EXCEPT !.menu = on]
             t == OnShow(u, c, bs)
             w == [t EXCEPT !.ctx = c]
  <2>2. c # "none" /\ ~(c = "gps" /\ v.gps = "SUSPENDING")
    BY <1>2
  <2>3. SwitchedCtx(v, c, bs) = w
    BY <2>1, <2>2 DEF SwitchedCtx
  <2>4. u \in View /\ u.menu = on
    BY DEF View
  <2>5. /\ Unswitched(v, u) /\ u.zoom = v.zoom /\ u.marks = v.marks /\ u.locks = v.locks
        /\ u.fgTiles = v.fgTiles /\ u.bgTiles = v.bgTiles
        /\ u.mouse = v.mouse /\ u.frozen = v.frozen /\ u.redraw = v.redraw
    BY DEF View, Unswitched
  <2> HIDE DEF u
  <2>6. Shown(u, c, bs, t)
    BY <2>4, OnShowView
  <2> HIDE DEF t
  <2>7. t \in View
    BY <2>6 DEF Shown
  <2>8. Carried(u, t)
    BY <2>6, ShownSound
  <2>9. t \in View /\ Carried(u, t)
    BY <2>7, <2>8
  <2>10. w \in View /\ w.ctx = c
    BY <2>9 DEF View
  <2>11. /\ Unswitched(t, w) /\ w.zoom = t.zoom /\ w.marks = t.marks /\ w.locks = t.locks
        /\ w.fgTiles = t.fgTiles /\ w.bgTiles = t.bgTiles /\ w.menu = t.menu /\ w.geo = t.geo
        /\ w.mouse = t.mouse /\ w.frozen = t.frozen /\ w.redraw = t.redraw
    BY <2>9 DEF View, Unswitched
  <2> HIDE DEF w
  <2>12. Carried(v, u)
    BY <2>4, <2>5 DEF Carried, Unswitched, LayersKept, Sound, Owned, Cached, ClickKept
  <2>13. Carried(t, w)
    BY <2>10, <2>11 DEF Carried, Unswitched, LayersKept, Sound, Owned, Cached, ClickKept
  <2>14. Carried(v, w)
    BY <2>9, <2>12, <2>13, CarriedTwice
  <2>15. Quiet(w)
    BY <2>6, <2>10, <2>11 DEF Quiet, Shown
  <2>16. c \in Lockable => ~w.menu
    BY <1>0, <2>1, <2>4, <2>6, <2>11 DEF Shown
  <2>17. Switched(v, c, bs, w)
    BY <1>2, <2>10, <2>14, <2>15, <2>16 DEF Switched
  <2>18. QED
    BY <2>3, <2>17
<1>3. QED
  BY <1>1, <1>2

\* view_tab_on_show: the context is shown anew, and the view may be centred.
Reshown(v, w) ==
  /\ w \in View /\ Carried(v, w) /\ Quiet(w) /\ w.ctx = v.ctx /\ w.menu = v.menu
  /\ v.ctx \in Lockable => /\ w.mouse = v.mouse \/ v.ctx \notin w.locks
                           /\ \A k \in MarkOf[v.ctx] : w.marks[k] # "moved"

\* view_tab_on_show, whether or not it centres the view.
LEMMA ReshownView ==
  ASSUME NEW v \in View, NEW bs \in SUBSET Batch, NEW x \in ShownViews(v, bs)
  PROVE  Reshown(v, x)
<1> DEFINE w == OnShow(v, v.ctx, bs)
<1>0. v.ctx \in Lockable \cup {"none", "gps"} /\ v.locks \in SUBSET Lockable
  BY DEF View
<1>1. Shown(v, v.ctx, bs, w)
  BY <1>0, OnShowView
<1>2. x = w \/ x = Centered(w)
  BY DEF ShownViews
<1> HIDE DEF w
<1>3. w \in View /\ Carried(v, w) /\ w.ctx = v.ctx /\ w.menu = v.menu
  <2>1. w \in View /\ w.ctx = v.ctx /\ w.menu = v.menu
    BY <1>1 DEF Shown
  <2>2. Carried(v, w)
    BY <1>0, <1>1, ShownSound
  <2>3. QED
    BY <2>1, <2>2
<1>4. v.ctx \in Lockable => /\ w.mouse = v.mouse \/ v.ctx \notin w.locks
                            /\ \A k \in MarkOf[v.ctx] : w.marks[k] = "none"
                            /\ v.ctx = "dl" => ~w.geo
  BY <1>0, <1>1 DEF Shown
<1>5. CASE x = w
  BY <1>3, <1>4, <1>5 DEF Reshown, Quiet
<1>6. CASE x = Centered(w)
  <2> DEFINE y == Centered(w)
  <2>1. /\ y \in View /\ Unpainted(w, y) /\ LayersKept(w, y) /\ MarksShifted(w, y)
        /\ y.dirty = w.dirty
    BY <1>3, CenteredView
  <2> HIDE DEF y
  <2>2. Sound(w) => Sound(y)
    BY <2>1, PaintedFit DEF LayersKept
  <2>3. Carried(w, y)
    BY <2>1, <2>2 DEF Carried, Unpainted, Unswitched
  <2>4. Carried(v, y)
    BY <1>3, <2>3, CarriedTwice
  <2>5. ASSUME v.ctx \in Lockable, NEW k \in MarkOf[v.ctx]
        PROVE  y.marks[k] = "none"
    <3>1. k \in Marks /\ (k = "area" => v.ctx = "dl") /\ w.marks[k] = "none"
      BY <1>4, <2>5, ContextMarks
    <3>2. ~(k = "area" /\ w.redraw = "dl" /\ w.geo)
      BY <1>4, <2>5, <3>1
    <3>3. QED
      BY <2>1, <3>1, <3>2 DEF MarksShifted
  <2>6. v.ctx \in Lockable => \A k \in MarkOf[v.ctx] : y.marks[k] = "none"
    BY <2>5
  <2>7. Reshown(v, y)
    BY <1>3, <1>4, <2>1, <2>4, <2>6 DEF Reshown, Unpainted, Quiet
  <2>8. QED
    BY <1>6, <2>7 DEF y
<1>7. QED
  BY <1>2, <1>5, <1>6

\* A context is opened or closed; the page of the map is shown when it was not.
Main(v, c, w) ==
  /\ w \in View /\ Quiet(w) /\ Shut(w) /\ (Sound(v) => Fit(w)) /\ LayersKept(v, w)
  /\ w.ctx = IF c = "gps" /\ v.gps = "SUSPENDING" THEN "none" ELSE c
  /\ w.tab = "view" /\ w.fg = v.fg

\* Opening or closing a context.
LEMMA MainView ==
  ASSUME NEW v \in View, NEW c \in Lockable \cup {"none", "gps"}, NEW bs \in SUBSET Batch,
         NEW x \in MainViews(v, c, bs)
  PROVE  Main(v, c, x)
<1> DEFINE w == SwitchedCtx(v, c, bs)
<1>0. "none" \notin Lockable /\ "gps" \notin Lockable
  BY DEF Lockable
<1>1. Switched(v, c, bs, w)
  BY SwitchedView
<1>2. x \in IF v.tab = "view" THEN {w} ELSE ShownViews([w EXCEPT !.tab = "view"], bs)
  BY DEF MainViews
<1> HIDE DEF w
<1>3. CASE v.tab = "view"
  <2>1. x = w /\ w.tab = "view" /\ w.fg = v.fg /\ LayersKept(v, w)
    BY <1>1, <1>2, <1>3 DEF Switched, Carried, Unswitched
  <2>2. Shut(w)
    BY <1>0, <1>1, <2>1 DEF Switched, Shut
  <2>3. QED
    BY <1>1, <2>1, <2>2 DEF Main, Switched, Carried, Fit
<1>4. CASE v.tab # "view"
  <2> DEFINE u == [w EXCEPT !.tab = "view"]
  <2>1. w \in View
    BY <1>1 DEF Switched
  <2>2. u \in View /\ u.tab = "view"
    BY <2>1 DEF View
  <2>3. /\ u.ctx = w.ctx /\ u.menu = w.menu /\ u.locks = w.locks /\ u.mouse = w.mouse
        /\ u.frozen = w.frozen /\ u.redraw = w.redraw /\ u.fg = w.fg /\ u.bg = w.bg
        /\ u.fgTiles = w.fgTiles /\ u.bgTiles = w.bgTiles /\ u.zoom = w.zoom
        /\ u.marks = w.marks
    BY <2>1 DEF View
  <2>4. x \in ShownViews(u, bs)
    BY <1>2, <1>4
  <2> HIDE DEF u
  <2>5. Reshown(u, x)
    BY <2>2, <2>4, ReshownView
  <2>6. Sound(w) => Sound(u)
    BY <2>2, <2>3 DEF Sound, Owned, Cached, ClickKept
  <2>7. x.tab = "view" /\ x.fg = v.fg /\ x.ctx = w.ctx /\ x.menu = w.menu /\ x.bg = v.bg
    BY <1>1, <2>2, <2>3, <2>5 DEF Reshown, Carried, Unswitched, Switched
  <2>8. LayersKept(v, x)
    BY <1>1, <2>3, <2>5 DEF Reshown, Carried, LayersKept, Switched, Unswitched
  <2>9. Sound(v) => Sound(x)
    BY <1>1, <2>5, <2>6 DEF Reshown, Carried, Switched
  <2>10. Shut(x)
    BY <1>0, <1>1, <2>7 DEF Switched, Shut
  <2>11. QED
    BY <1>1, <2>5, <2>7, <2>8, <2>9, <2>10 DEF Main, Reshown, Switched, Fit
<1>5. QED
  BY <1>3, <1>4

-----------------------------------------------------------------------------
(* The inductive invariant of the session *)

BatchesOK == batches \subseteq Batch

From == {<<>>} \cup (Maps \X Int)
Zoomer ==
  [pc : {"off", "born", "loop", "apply"}, up : BOOLEAN, hi : Int, i : Nat, z : Int,
   from : From, stray : BOOLEAN]

\* What the zoom thread knows is true of the map and the level at which it read its bound: as long
\* as it did not count from another one, it is i - 1 levels away from there, and in its range.
Counting ==
  LET m == zoomer.from[1]
      z == zoomer.from[2]
  IN  /\ zoomer.from \in Maps \X Int
      /\ zoomer.hi = IF zoomer.up THEN MaxZoom[m] - z ELSE z - MinZoom[m]
      /\ zoomer.i >= 1
      /\ ~zoomer.stray => zoomer.z = IF zoomer.up THEN z + (zoomer.i - 1) ELSE z - (zoomer.i - 1)

ZoomerOK ==
  /\ stop \in BOOLEAN /\ held \in BOOLEAN
  /\ zoomer \in Zoomer
  /\ zoomer.i <= zoomer.hi + 1 \/ zoomer.i = 1
  /\ zoomer.pc \in {"loop", "apply"} => Counting

\* The command slot is free or carries the data of the one request that was issued.
SlotOK ==
  /\ agps \in [Requests -> {"none", "asking", "issued", "over"}]
  /\ slot \in Requests \cup {"free"}
  /\ \A r \in Requests : slot = r <=> agps[r] = "issued"

IInv == Fit(view) /\ BatchesOK /\ ZoomerOK /\ SlotOK

-----------------------------------------------------------------------------
(* What a step does to a fit view *)

\* A context that is shown and has the view locked.
Mousing(v) == v.tab = "view" /\ v.ctx \in Lockable /\ v.mouse = v.ctx

KeepsMouse(v, w) == Mousing(v) /\ w.ctx = v.ctx /\ w.mouse # v.mouse => v.ctx \notin w.locks

KeepsMarks(v, w) ==
  \A k \in Marks :
    Mousing(v) /\ w.ctx = v.ctx /\ k \in MarkOf[v.ctx] /\ v.marks[k] = "here"
    => w.marks[k] # "moved"

KeepsLevels(v, w) == \A m \in Maps : v.zoom[m] \in Levels(m) => w.zoom[m] \in Levels(m)

Keeps(v, w) == Fit(w) /\ KeepsMouse(v, w) /\ KeepsMarks(v, w) /\ KeepsLevels(v, w)

\* A step that changes nothing of what the invariant speaks of.
Tuned(v, w) ==
  /\ w \in View
  /\ w.tab = v.tab /\ w.ctx = v.ctx /\ w.menu = v.menu /\ w.frozen = v.frozen
  /\ w.mouse = v.mouse /\ w.redraw = v.redraw /\ w.locks = v.locks
  /\ w.fg = v.fg /\ w.bg = v.bg /\ w.zoom = v.zoom /\ w.dirty = v.dirty
  /\ w.fgTiles = v.fgTiles /\ w.bgTiles = v.bgTiles /\ w.marks = v.marks /\ w.geo = v.geo

\* The fields that the invariant does not speak of may change at will.
LEMMA TunedFit ==
  ASSUME NEW v, NEW w, Tuned(v, w)
  PROVE  (Sound(v) => Sound(w)) /\ (Fit(v) => Fit(w))
<1>1. Sound(v) => Sound(w)
  BY DEF Tuned, Sound, Owned, Cached, ClickKept
<1>2. Shut(v) => Shut(w)
  BY DEF Tuned, Shut
<1>3. Quiet(v) => Quiet(w)
  BY DEF Tuned, Quiet
<1>4. QED
  BY <1>1, <1>2, <1>3 DEF Fit

\* A fit view has its type, and a context that has the mouse has its own lock.
LEMMA FitView ==
  ASSUME NEW v, Fit(v)
  PROVE  v \in View /\ Owned(v) /\ (Mousing(v) => v.ctx \in v.locks)
BY DEF Fit, Sound, Owned, Mousing, Lockable

\* The same, for the step properties.
LEMMA TunedKeeps ==
  ASSUME NEW v, Fit(v), NEW w, Tuned(v, w)
  PROVE  Keeps(v, w)
<1>1. Fit(w)
  BY TunedFit
<1>2. KeepsMouse(v, w) /\ KeepsMarks(v, w) /\ KeepsLevels(v, w)
  BY DEF Tuned, KeepsMouse, KeepsMarks, KeepsLevels
<1>3. QED
  BY <1>1, <1>2 DEF Keeps

\* Drawing without moving the map.
LEMMA InvalidatedKeeps ==
  ASSUME NEW v, Fit(v)
  PROVE  Keeps(v, Invalidated(v))
<1> DEFINE w == Invalidated(v)
<1>1. v \in View
  BY FitView
<1>2. /\ w \in View /\ Unpainted(v, w) /\ LayersKept(v, w) /\ MarksKept(v, w)
      /\ w.dirty = v.dirty
  BY <1>1, InvalidatedView
<1> HIDE DEF w
<1>3. Fit(w)
  BY <1>2, PaintedFit DEF LayersKept
<1>4. KeepsMouse(v, w) /\ KeepsLevels(v, w)
  BY <1>2 DEF KeepsMouse, KeepsLevels, Unpainted, LayersKept
<1>5. KeepsMarks(v, w)
  BY <1>2 DEF KeepsMarks, MarksKept
<1>6. QED
  BY <1>3, <1>4, <1>5 DEF Keeps, w

\* The map moves: whoever has the mouse keeps it, and levels stay in range.
LEMMA CenteredFit ==
  ASSUME NEW v, Fit(v)
  PROVE  /\ Fit(Centered(v)) /\ KeepsMouse(v, Centered(v)) /\ KeepsLevels(v, Centered(v))
         /\ ~Mousing(v) => KeepsMarks(v, Centered(v))
<1> DEFINE w == Centered(v)
<1>1. v \in View
  BY FitView
<1>2. /\ w \in View /\ Unpainted(v, w) /\ LayersKept(v, w) /\ MarksShifted(v, w)
      /\ w.dirty = v.dirty
  BY <1>1, CenteredView
<1> HIDE DEF w
<1>3. Fit(w)
  BY <1>2, PaintedFit DEF LayersKept
<1>4. KeepsMouse(v, w) /\ KeepsLevels(v, w) /\ (~Mousing(v) => KeepsMarks(v, w))
  BY <1>2 DEF KeepsMouse, KeepsLevels, KeepsMarks, Unpainted, LayersKept
<1>5. QED
  BY <1>3, <1>4 DEF w

LEMMA ZoomedFit ==
  ASSUME NEW v, Fit(v), NEW z \in Int
  PROVE  /\ Fit(ZoomedTo(v, z)) /\ KeepsMouse(v, ZoomedTo(v, z))
         /\ (v.zoom[v.fg] \in Levels(v.fg) => z \in Levels(v.fg)) =>
              KeepsLevels(v, ZoomedTo(v, z))
         /\ ZoomedTo(v, z).locks = v.locks /\ ZoomedTo(v, z).ctx = v.ctx
         /\ ZoomedTo(v, z).mouse = v.mouse
         /\ MarksShifted(v, ZoomedTo(v, z))
<1> DEFINE w == ZoomedTo(v, z)
<1>1. v \in View
  BY FitView
<1>2. /\ w \in View /\ Unpainted(v, w) /\ w.dirty = v.dirty /\ MarksShifted(v, w)
      /\ w.fgTiles \subseteq v.fgTiles \cup {v.fg} /\ w.bgTiles \subseteq v.bgTiles \cup {v.bg}
      /\ \A m \in Maps : (v.zoom[m] \in Levels(m) /\ (m = v.fg => z \in Levels(m))) =>
                           w.zoom[m] \in Levels(m)
  BY <1>1, ZoomedView
<1> HIDE DEF w
<1>3. Fit(w)
  BY <1>2, PaintedFit
<1>4. KeepsMouse(v, w) /\ w.locks = v.locks /\ w.ctx = v.ctx /\ w.mouse = v.mouse
  BY <1>2 DEF KeepsMouse, Unpainted
<1>5. (v.zoom[v.fg] \in Levels(v.fg) => z \in Levels(v.fg)) => KeepsLevels(v, w)
  BY <1>2 DEF KeepsLevels
<1>6. QED
  BY <1>2, <1>3, <1>4, <1>5 DEF w

\* A layer that was changed is drawn anew: no mark was made since then.
LEMMA ExposedKeeps ==
  ASSUME NEW v, Fit(v)
  PROVE  Keeps(v, Exposed(v))
<1> DEFINE w == Exposed(v)
<1>1. v \in View /\ v.dirty \in BOOLEAN
  BY FitView DEF View
<1>2. /\ w \in View /\ Unpainted(v, w) /\ LayersKept(v, w) /\ ~w.dirty
      /\ v.dirty => MarksShifted(v, w)
      /\ ~v.dirty => MarksKept(v, w)
  BY <1>1, ExposedView
<1> HIDE DEF w
<1>3. Fit(w)
  BY <1>1, <1>2, PaintedFit DEF LayersKept
<1>4. KeepsMouse(v, w) /\ KeepsLevels(v, w)
  BY <1>2 DEF KeepsMouse, KeepsLevels, Unpainted, LayersKept
<1>5. CASE v.dirty
  <2>1. Mousing(v) => \A k \in MarkOf[v.ctx] : v.marks[k] # "here"
    BY <1>5 DEF Fit, Quiet, Mousing
  <2>2. QED
    BY <1>3, <1>4, <2>1 DEF Keeps, KeepsMarks, w
<1>6. CASE ~v.dirty
  <2>1. KeepsMarks(v, w)
    BY <1>2, <1>6 DEF KeepsMarks, MarksKept
  <2>2. QED
    BY <1>3, <1>4, <2>1 DEF Keeps, w
<1>7. QED
  BY <1>5, <1>6

\* gtk_toggle_button_set_active
LEMMA ToggledKeeps ==
  ASSUME NEW v, Fit(v), NEW c \in Lockable, NEW on \in BOOLEAN
  PROVE  /\ Fit(Toggled(v, c, on)) /\ KeepsMarks(v, Toggled(v, c, on))
         /\ KeepsLevels(v, Toggled(v, c, on))
         /\ v.ctx = c => KeepsMouse(v, Toggled(v, c, on))
         /\ Toggled(v, c, on) \in View /\ Toggled(v, c, on).ctx = v.ctx
         /\ Toggled(v, c, on).fg = v.fg
<1>1. v \in View
  BY FitView
<1>2. PICK w : w = Toggled(v, c, on)
  OBVIOUS
<1>3. Pressed(v, c, w) \/ Released(v, c, w)
  BY <1>1, <1>2, PressedView, ReleasedView
<1>4. Carried(v, w) /\ Fit(w)
  BY <1>3, PressedFit
<1>5. KeepsLevels(v, w) /\ w \in View /\ w.ctx = v.ctx /\ w.fg = v.fg
  BY <1>3, <1>4 DEF KeepsLevels, Carried, LayersKept, Unswitched, Pressed, Released
<1>6. KeepsMarks(v, w)
  BY <1>3 DEF KeepsMarks, Pressed, Released
<1>7. v.ctx = c => KeepsMouse(v, w)
  BY <1>3, FitView DEF KeepsMouse, Pressed, Released
<1>8. QED
  BY <1>2, <1>4, <1>5, <1>6, <1>7

\* Marks are set: nothing else changes.
LEMMA SetFit ==
  ASSUME NEW v, Fit(v), ~v.dirty, NEW ks \in SUBSET Marks, NEW p \in Place,
         p = "none" \/ ("src" \notin ks /\ "dst" \notin ks),
         p # "moved" \/ "click" \notin ks
  PROVE  Fit(Set(v, ks, p)) /\ Marked(v, ks, p, Set(v, ks, p))
<1>1. v \in View
  BY FitView
<1>2. PICK w : w = Set(v, ks, p)
  OBVIOUS
<1>3. Marked(v, ks, p, w)
  BY <1>1, <1>2, SetView
<1>4. w \in View /\ Owned(w) /\ Cached(w) /\ Shut(w) /\ Quiet(w)
  BY <1>3 DEF Marked, Fit, Sound, Owned, Cached, Shut, Quiet, Unpainted
<1>5. ClickKept(w)
  BY <1>3, ContextMarks DEF Marked, Fit, Sound, ClickKept
<1>6. QED
  BY <1>2, <1>3, <1>4, <1>5 DEF Fit, Sound

-----------------------------------------------------------------------------
(* The steps: pages and layers *)

\* A page that is not the map's is shown: no context works on the map.
LEMMA ElsewhereKeeps ==
  ASSUME NEW v, Fit(v), v.tab # "view", NEW w, Fit(w), KeepsLevels(v, w)
  PROVE  Keeps(v, w)
BY DEF Keeps, KeepsMouse, KeepsMarks, Mousing

\* The menu can be left to only when it is in reach, so no context is shown.
LEMMA OpenPageStep ==
  ASSUME Fit(view), NEW from, NEW to \in {"menu", "tiles"}, OpenPage(from, to)
  PROVE  Keeps(view, view')
<1> DEFINE w == [view EXCEPT !.tab = to]
<1>0. view \in View /\ view' = w /\ view.tab = from /\ (from = "view" => view.menu)
  BY FitView DEF OpenPage, OnPage
<1>1. w \in View
  BY <1>0 DEF View
<1>2. /\ w.tab = to /\ w.ctx = view.ctx /\ w.menu = view.menu /\ w.frozen = view.frozen
      /\ w.mouse = view.mouse /\ w.redraw = view.redraw /\ w.locks = view.locks
      /\ w.fg = view.fg /\ w.bg = view.bg /\ w.zoom = view.zoom /\ w.dirty = view.dirty
      /\ w.fgTiles = view.fgTiles /\ w.bgTiles = view.bgTiles /\ w.marks = view.marks
      /\ w.geo = view.geo
  BY <1>0 DEF View
<1> HIDE DEF w
<1>3. view.ctx \notin Lockable
  BY <1>0 DEF Fit, Shut
<1>4. Sound(w)
  BY <1>1, <1>2 DEF Fit, Sound, Owned, Cached, ClickKept
<1>5. Fit(w)
  BY <1>2, <1>3, <1>4 DEF Fit, Shut, Quiet
<1>6. QED
  BY <1>0, <1>2, <1>3, <1>5 DEF Keeps, KeepsMouse, KeepsMarks, KeepsLevels, Mousing

\* The page of the map is shown again, and with it the context.
LEMMA BackToViewStep ==
  ASSUME Fit(view), BatchesOK, BackToView
  PROVE  Keeps(view, view')
<1> DEFINE u == [view EXCEPT !.tab = "view"]
<1>0. view \in View /\ view.tab # "view" /\ view' \in ShownViews(u, batches)
  BY FitView DEF BackToView
<1>1. u \in View
  BY <1>0 DEF View
<1>2. /\ u.tab = "view" /\ u.ctx = view.ctx /\ u.menu = view.menu /\ u.frozen = view.frozen
      /\ u.mouse = view.mouse /\ u.redraw = view.redraw /\ u.locks = view.locks
      /\ u.fg = view.fg /\ u.bg = view.bg /\ u.zoom = view.zoom /\ u.dirty = view.dirty
      /\ u.fgTiles = view.fgTiles /\ u.bgTiles = view.bgTiles /\ u.marks = view.marks
      /\ u.geo = view.geo
  BY <1>0 DEF View
<1> HIDE DEF u
<1>3. view.ctx \notin Lockable
  BY <1>0 DEF Fit, Shut
<1>4. Sound(u)
  BY <1>1, <1>2 DEF Fit, Sound, Owned, Cached, ClickKept
<1>5. batches \in SUBSET Batch
  BY DEF BatchesOK
<1>6. Reshown(u, view')
  BY <1>0, <1>1, <1>5, ReshownView
<1>7. Fit(view')
  BY <1>2, <1>3, <1>4, <1>6 DEF Fit, Reshown, Carried, Shut
<1>8. KeepsLevels(view, view')
  BY <1>2, <1>6 DEF Reshown, Carried, LayersKept, KeepsLevels
<1>9. QED
  BY <1>0, <1>7, <1>8, ElsewhereKeeps

\* set_fg_button_clicked and the pages that call it; set_bg_button_clicked
LEMMA SetFgFit ==
  ASSUME NEW v, Fit(v), v.tab # "view", NEW m \in Maps
  PROVE  Fit(SetFg(v, m)) /\ SetFg(v, m).tab = v.tab /\ SetFg(v, m).zoom = v.zoom
         /\ SetFg(v, m).bg = v.bg /\ SetFg(v, m).gps = v.gps
<1>0. v \in View /\ v.ctx \notin Lockable
  BY FitView DEF Fit, Shut
<1>1. CASE v.fg = m
  BY <1>1 DEF SetFg
<1>2. CASE v.fg # m
  <2> DEFINE w == [v EXCEPT !.fg = m, !.dirty = TRUE, !.fgTiles = {}]
  <2>1. SetFg(v, m) = w
    BY <1>2 DEF SetFg
  <2>2. w \in View
    BY <1>0 DEF View
  <2>3. /\ w.tab = v.tab /\ w.ctx = v.ctx /\ w.menu = v.menu /\ w.frozen = v.frozen
        /\ w.mouse = v.mouse /\ w.redraw = v.redraw /\ w.locks = v.locks /\ w.gps = v.gps
        /\ w.bg = v.bg /\ w.zoom = v.zoom /\ w.marks = v.marks
        /\ w.fgTiles = {} /\ w.bgTiles = v.bgTiles
    BY <1>0 DEF View
  <2> HIDE DEF w
  <2>4. Sound(w)
    BY <2>2, <2>3 DEF Fit, Sound, Owned, Cached, ClickKept
  <2>5. Fit(w)
    BY <1>0, <2>3, <2>4 DEF Fit, Shut, Quiet
  <2>6. QED
    BY <2>1, <2>3, <2>5
<1>3. QED
  BY <1>1, <1>2

LEMMA SetBgFit ==
  ASSUME NEW v, Fit(v), v.tab # "view", NEW m \in Maps \cup {NoMap}
  PROVE  Fit(SetBg(v, m)) /\ SetBg(v, m).tab = v.tab /\ SetBg(v, m).zoom = v.zoom
         /\ SetBg(v, m).fg = v.fg /\ SetBg(v, m).gps = v.gps
<1>0. v \in View /\ v.ctx \notin Lockable
  BY FitView DEF Fit, Shut
<1>1. CASE v.bg = m
  BY <1>1 DEF SetBg
<1>2. CASE v.bg # m
  <2> DEFINE w == [v EXCEPT !.bg = m, !.dirty = TRUE, !.bgTiles = {}]
  <2>1. SetBg(v, m) = w
    BY <1>2 DEF SetBg
  <2>2. w \in View
    BY <1>0 DEF View
  <2>3. /\ w.tab = v.tab /\ w.ctx = v.ctx /\ w.menu = v.menu /\ w.frozen = v.frozen
        /\ w.mouse = v.mouse /\ w.redraw = v.redraw /\ w.locks = v.locks /\ w.gps = v.gps
        /\ w.fg = v.fg /\ w.zoom = v.zoom /\ w.marks = v.marks
        /\ w.bgTiles = {} /\ w.fgTiles = v.fgTiles
    BY <1>0 DEF View
  <2> HIDE DEF w
  <2>4. Sound(w)
    BY <2>2, <2>3 DEF Fit, Sound, Owned, Cached, ClickKept
  <2>5. Fit(w)
    BY <1>0, <2>3, <2>4 DEF Fit, Shut, Quiet
  <2>6. QED
    BY <2>1, <2>3, <2>5
<1>3. QED
  BY <1>1, <1>2

\* A map is put on one layer or on both.
LEMMA SetLayersStep ==
  ASSUME Fit(view), NEW m \in Maps, NEW layers \in SUBSET {"fg", "bg"}, SetLayers(m, layers)
  PROVE  Keeps(view, view')
<1> DEFINE v == IF "fg" \in layers THEN SetFg(view, m) ELSE view
<1>1. view.tab # "view" /\ view' = IF "bg" \in layers THEN SetBg(v, m) ELSE v
  BY DEF SetLayers, OnPage
<1>2. Fit(v) /\ v.tab # "view" /\ v.zoom = view.zoom
  BY <1>1, SetFgFit
<1> HIDE DEF v
<1>3. m \in Maps \cup {NoMap}
  OBVIOUS
<1>4. Fit(view') /\ view'.zoom = view.zoom
  BY <1>1, <1>2, <1>3, SetBgFit
<1>5. QED
  BY <1>1, <1>4, ElsewhereKeeps DEF KeepsLevels

\* The background map is taken off.
LEMMA ClearBgStep ==
  ASSUME Fit(view), ClearBgClicked
  PROVE  Keeps(view, view')
<1>1. view.tab # "view" /\ view' = SetBg(view, NoMap) /\ NoMap \in Maps \cup {NoMap}
  BY DEF ClearBgClicked, ClearBg, OnPage
<1>2. Fit(view') /\ view'.zoom = view.zoom
  BY <1>1, SetBgFit
<1>3. QED
  BY <1>1, <1>2, ElsewhereKeeps DEF KeepsLevels

\* The layers are blended anew.
LEMMA AlphaStep ==
  ASSUME Fit(view), AlphaToggled
  PROVE  Keeps(view, view')
<1> DEFINE w == [view EXCEPT !.dirty = TRUE]
<1>0. view \in View /\ view.tab # "view" /\ view' = w /\ view.ctx \notin Lockable
  BY FitView DEF AlphaToggled, OnPage, Fit, Shut
<1>1. w \in View
  BY <1>0 DEF View
<1>2. /\ w.tab = view.tab /\ w.ctx = view.ctx /\ w.menu = view.menu /\ w.frozen = view.frozen
      /\ w.mouse = view.mouse /\ w.redraw = view.redraw /\ w.locks = view.locks
      /\ w.fg = view.fg /\ w.zoom = view.zoom /\ w.marks = view.marks /\ w.bg = view.bg
      /\ w.bgTiles = view.bgTiles /\ w.fgTiles = view.fgTiles
  BY <1>0 DEF View
<1> HIDE DEF w
<1>3. Sound(w)
  BY <1>1, <1>2 DEF Fit, Sound, Owned, Cached, ClickKept
<1>4. Fit(w)
  BY <1>0, <1>2, <1>3 DEF Fit, Shut, Quiet
<1>5. QED
  BY <1>0, <1>2, <1>4, ElsewhereKeeps DEF KeepsLevels

\* map_front_download_callback_func, drawing_area_expose_event
LEMMA DrawStep ==
  ASSUME Fit(view), FrontDownloaded \/ Expose
  PROVE  Keeps(view, view')
<1>1. view' = Invalidated(view) \/ view' = Exposed(view)
  BY DEF FrontDownloaded, Expose
<1>2. QED
  BY <1>1, InvalidatedKeeps, ExposedKeeps

\* Panning and centring by hand are off on a locked view.
LEMMA PanStep ==
  ASSUME Fit(view), Pan \/ Center
  PROVE  Keeps(view, view')
<1>1. view' = Centered(view) /\ (view.mouse = "default" \/ ~view.frozen)
  BY DEF Pan, Center
<1>2. ~Mousing(view)
  BY <1>1, FitView DEF Mousing, Owned, Lockable
<1>3. QED
  BY <1>1, <1>2, CenteredFit DEF Keeps

\* A context is opened from another page.
LEMMA OpenedKeeps ==
  ASSUME BatchesOK, Fit(view), view.tab # "view", NEW v, Fit(v), v.zoom = view.zoom,
         NEW c \in Lockable, OpenContext(v, c)
  PROVE  Keeps(view, view')
<1>1. view' \in MainViews(v, c, batches) /\ v \in View /\ batches \in SUBSET Batch
  BY FitView DEF OpenContext, BatchesOK
<1>2. Main(v, c, view')
  BY <1>1, MainView
<1>3. Fit(view') /\ KeepsLevels(view, view')
  BY <1>2 DEF Main, Fit, LayersKept, KeepsLevels
<1>4. QED
  BY <1>3, ElsewhereKeeps

\* The four contexts are opened from other pages.
LEMMA OpenStep ==
  ASSUME BatchesOK, Fit(view), NEW m \in Maps,
         OpenDownload(m) \/ OpenFixMap(m) \/ OpenScratch \/ OpenAgps
  PROVE  Keeps(view, view')
<1>0. /\ {"dl", "fix", "scratch", "agps"} \subseteq Lockable /\ NoMap \in Maps \cup {NoMap}
      /\ view.tab # "view"
  BY DEF Lockable, OpenDownload, OpenFixMap, OpenScratch, OpenAgps, OnPage
<1>1. Fit(ClearBg(view)) /\ ClearBg(view).tab # "view" /\ ClearBg(view).zoom = view.zoom
  BY <1>0, SetBgFit DEF ClearBg
<1>2. CASE OpenDownload(m)
  <2>1. PICK v : v = SetFg(ClearBg(view), m)
    OBVIOUS
  <2>2. Fit(v) /\ v.zoom = view.zoom
    BY <1>1, <2>1, SetFgFit
  <2>3. OpenContext(v, "dl")
    BY <1>2, <2>1 DEF OpenDownload
  <2>4. QED
    BY <1>0, <2>2, <2>3, OpenedKeeps
<1>3. CASE OpenFixMap(m)
  <2>1. PICK v : v = SetFg(IF view.bg = m THEN ClearBg(view) ELSE view, m)
    OBVIOUS
  <2>2. Fit(v) /\ v.zoom = view.zoom
    BY <1>0, <1>1, <2>1, SetFgFit
  <2>3. OpenContext(v, "fix")
    BY <1>3, <2>1 DEF OpenFixMap
  <2>4. QED
    BY <1>0, <2>2, <2>3, OpenedKeeps
<1>4. CASE OpenScratch
  BY <1>0, <1>4, OpenedKeeps DEF OpenScratch
<1>5. CASE OpenAgps
  BY <1>0, <1>5, OpenedKeeps DEF OpenAgps
<1>6. QED
  BY <1>2, <1>3, <1>4, <1>5

-----------------------------------------------------------------------------
(* The steps: contexts *)

\* A lock button is pressed or released by hand.
LEMMA LockClickedStep ==
  ASSUME Fit(view), NEW c \in Lockable, LockClicked(c)
  PROVE  Keeps(view, view')
<1>1. PICK on \in BOOLEAN : on = (c \notin view.locks)
  OBVIOUS
<1>2. view' = Toggled(view, c, on) /\ view.ctx = c
  BY <1>1 DEF LockClicked, InContext
<1>3. QED
  BY <1>2, ToggledKeeps DEF Keeps

\* agps_online_close
LEMMA AgpsClosedKeeps ==
  ASSUME Fit(view), BatchesOK, NEW v \in AgpsClosed(view)
  PROVE  Keeps(view, v) /\ v.ctx \notin Lockable
<1> DEFINE u == IF "agps" \in view.locks THEN [view EXCEPT !.mouse = "default"] ELSE view
<1>0. view \in View /\ "gps" \notin Lockable /\ "none" \notin Lockable
      /\ "gps" \in Lockable \cup {"none", "gps"}
  BY FitView DEF Lockable
<1>1. u \in View
  BY <1>0 DEF View
<1>2. /\ u.tab = view.tab /\ u.ctx = view.ctx /\ u.menu = view.menu /\ u.frozen = view.frozen
      /\ u.redraw = view.redraw /\ u.locks = view.locks /\ u.zoom = view.zoom
      /\ u.fg = view.fg /\ u.bg = view.bg /\ u.marks = view.marks /\ u.dirty = view.dirty
      /\ u.fgTiles = view.fgTiles /\ u.bgTiles = view.bgTiles
      /\ u.mouse = "default" \/ u.mouse = view.mouse
  BY <1>0 DEF View
<1>3. v \in MainViews(u, "gps", batches) /\ batches \in SUBSET Batch
  BY DEF AgpsClosed, BatchesOK
<1> HIDE DEF u
<1>4. Sound(u)
  BY <1>1, <1>2 DEF Fit, Sound, Owned, Cached, ClickKept
<1>5. Main(u, "gps", v)
  BY <1>0, <1>1, <1>3, MainView
<1>6. Fit(v) /\ KeepsLevels(view, v) /\ v.ctx \notin Lockable
  BY <1>0, <1>2, <1>4, <1>5 DEF Main, LayersKept, KeepsLevels
<1>7. QED
  BY <1>6 DEF Keeps, KeepsMouse, KeepsMarks, Mousing

\* A context that closes gives the mouse back.
LEMMA DefaultMouseFit ==
  ASSUME NEW v, Fit(v)
  PROVE  /\ Sound(DefaultMouse(v)) /\ DefaultMouse(v).zoom = v.zoom
         /\ DefaultMouse(v) \in View
         /\ DefaultMouse(v).dirty = v.dirty /\ Fit(DefaultMouse(v))
<1> DEFINE w == DefaultMouse(v)
<1>0. v \in View
  BY FitView
<1>1. w \in View
  BY <1>0 DEF View, DefaultMouse
<1>2. /\ w.tab = v.tab /\ w.ctx = v.ctx /\ w.menu = v.menu /\ w.frozen = v.frozen
      /\ w.redraw = v.redraw /\ w.locks = v.locks /\ w.zoom = v.zoom /\ w.geo = v.geo
      /\ w.fg = v.fg /\ w.bg = v.bg /\ w.marks = v.marks /\ w.dirty = v.dirty
      /\ w.fgTiles = v.fgTiles /\ w.bgTiles = v.bgTiles /\ w.mouse = "default"
  BY <1>0 DEF View, DefaultMouse
<1> HIDE DEF w
<1>3. Sound(w)
  BY <1>1, <1>2 DEF Fit, Sound, Owned, Cached, ClickKept
<1>4. Fit(w)
  BY <1>2, <1>3 DEF Fit, Shut, Quiet
<1>5. QED
  BY <1>1, <1>2, <1>3, <1>4 DEF w

\* close_button_clicked of the four contexts.
LEMMA CloseStep ==
  ASSUME Fit(view), BatchesOK, NEW c \in Lockable, Close(c)
  PROVE  Keeps(view, view')
<1>0. /\ "gps" \notin Lockable /\ "none" \notin Lockable
      /\ "gps" \in Lockable \cup {"none", "gps"} /\ "none" \in Place
      /\ ~view.dirty /\ view' \in ClosedViews(c)
  BY DEF Close, InContext, OnMap, Lockable, Place
<1>1. CASE c = "agps"
  BY <1>0, <1>1, AgpsClosedKeeps DEF ClosedViews
<1>2. CASE c # "agps"
  <2> DEFINE v == Toggled(view, c, FALSE)
  <2>1. PICK u : /\ u = CASE c = "dl"  -> Set(DefaultMouse(v), {"area", "last"}, "none")
                          [] c = "fix" -> DefaultMouse(v)
                          [] OTHER     -> v
    OBVIOUS
  <2>2. view' \in MainViews(u, "gps", batches)
    BY <1>0, <1>2, <2>1 DEF ClosedViews
  <2>3. PICK ks \in SUBSET Marks : ks = {"area", "last"}
    BY DEF Marks
  <2>4. Fit(v) /\ KeepsLevels(view, v) /\ v \in View
    BY ToggledKeeps
  <2> HIDE DEF v
  <2>5. Sound(DefaultMouse(v)) /\ DefaultMouse(v).zoom = v.zoom /\ DefaultMouse(v) \in View
    BY <2>4, DefaultMouseFit
  <2>6. Sound(u) /\ u.zoom = v.zoom
    <3>1. CASE c = "dl"
      <4>1. u = Set(DefaultMouse(v), ks, "none")
        BY <2>1, <2>3, <3>1
      <4>2. Marked(DefaultMouse(v), ks, "none", u)
        BY <1>0, <2>5, <4>1, SetView
      <4>3. /\ u \in View /\ u.zoom = v.zoom /\ Owned(u) /\ Cached(u)
        BY <2>5, <4>2 DEF Marked, Unpainted, Sound, Owned, Cached
      <4>4. ClickKept(u)
        BY <2>3, <2>5, <4>2, ContextMarks DEF Marked, Sound, ClickKept
      <4>5. QED
        BY <4>3, <4>4 DEF Sound
    <3>2. CASE c # "dl"
      <4>1. u = DefaultMouse(v) \/ u = v
        BY <2>1, <3>2
      <4>2. QED
        BY <2>4, <2>5, <4>1 DEF Fit
    <3>3. QED
      BY <3>1, <3>2
  <2>7. u \in View /\ batches \in SUBSET Batch
    BY <2>6 DEF Sound, BatchesOK
  <2>8. Main(u, "gps", view')
    BY <1>0, <2>2, <2>7, MainView
  <2>9. Fit(view') /\ KeepsLevels(view, view') /\ view'.ctx \notin Lockable
    BY <1>0, <2>4, <2>6, <2>8 DEF Main, LayersKept, KeepsLevels
  <2>10. QED
    BY <2>9 DEF Keeps, KeepsMouse, KeepsMarks, Mousing
<1>3. QED
  BY <1>1, <1>2

\* A mark is made, or put back: the marks that change belong to one context.
LEMMA MarkedKeeps ==
  ASSUME NEW v, NEW ks, NEW p, NEW w, Marked(v, ks, p, w), NEW x, Tuned(w, x)
  PROVE  KeepsMouse(v, x) /\ KeepsLevels(v, x) /\ (p # "moved" => KeepsMarks(v, x))
<1>1. KeepsMouse(v, x) /\ KeepsLevels(v, x)
  BY DEF Marked, Tuned, Unpainted, KeepsMouse, KeepsLevels
<1>2. p # "moved" => KeepsMarks(v, x)
  BY DEF Marked, Tuned, KeepsMarks
<1>3. QED
  BY <1>1, <1>2

\* dlarea_mouse_released
LEMMA DragStep ==
  ASSUME Fit(view), Drag
  PROVE  Fit(view') /\ KeepsMouse(view, view') /\ KeepsLevels(view, view')
<1>0. view \in View /\ ~view.dirty /\ view.tab = "view" /\ view.mouse = "dl"
  BY FitView DEF Drag, OnMap, OnPage
<1>1. view.marks["last"] \in Place /\ "here" \in Place
  BY <1>0 DEF View, Marks, Place
<1>2. PICK ks \in SUBSET Marks, p \in Place :
        /\ "click" \notin ks /\ "src" \notin ks /\ "dst" \notin ks
        /\ \/ view' = [Set(view, ks, p) EXCEPT !.chosen = TRUE, !.geo = FALSE]
           \/ view' = [Set(view, ks, p) EXCEPT !.geo = FALSE]
  <2>1. /\ {"area", "last"} \in SUBSET Marks /\ {"area"} \in SUBSET Marks
        /\ {"click", "src", "dst"} \cap {"area", "last"} = {}
    BY DEF Marks
  <2>2. CASE view' = [Set(view, {"area", "last"}, "here") EXCEPT !.chosen = TRUE, !.geo = FALSE]
    BY <1>1, <2>1, <2>2
  <2>3. CASE view' = [Set(view, {"area"}, view.marks.last) EXCEPT !.geo = FALSE]
    BY <1>1, <2>1, <2>3
  <2>4. QED
    BY <2>2, <2>3 DEF Drag
<1> DEFINE w == Set(view, ks, p)
<1>3. Fit(w) /\ Marked(view, ks, p, w)
  BY <1>0, <1>2, SetFit
<1>4. view' = [w EXCEPT !.chosen = TRUE, !.geo = FALSE] \/ view' = [w EXCEPT !.geo = FALSE]
  BY <1>2
<1> HIDE DEF w
<1>5. w \in View
  BY <1>3 DEF Marked
<1>6. view' \in View
  <2>1. [w EXCEPT !.chosen = TRUE, !.geo = FALSE] \in View /\ [w EXCEPT !.geo = FALSE] \in View
    BY <1>5, ZenonT(40) DEF View
  <2>2. QED
    BY <1>4, <2>1
<1>7. /\ view'.tab = w.tab /\ view'.ctx = w.ctx /\ view'.menu = w.menu
      /\ view'.frozen = w.frozen /\ view'.mouse = w.mouse /\ view'.redraw = w.redraw
      /\ view'.locks = w.locks /\ view'.fg = w.fg /\ view'.bg = w.bg /\ view'.zoom = w.zoom
      /\ view'.dirty = w.dirty /\ view'.fgTiles = w.fgTiles /\ view'.bgTiles = w.bgTiles
      /\ view'.marks = w.marks
  <2>1. CASE view' = [w EXCEPT !.chosen = TRUE, !.geo = FALSE]
    BY <1>5, <2>1 DEF View
  <2>2. CASE view' = [w EXCEPT !.geo = FALSE]
    BY <1>5, <2>2 DEF View
  <2>3. QED
    BY <1>4, <2>1, <2>2
<1>8. Fit(view')
  BY <1>0, <1>3, <1>6, <1>7
  DEF Fit, Sound, Owned, Cached, ClickKept, Shut, Quiet, Marked
<1>9. QED
  BY <1>3, <1>7, <1>8 DEF Marked, Unpainted, KeepsMouse, KeepsLevels

\* A click in the correction context or in the A-GPS context makes a mark.
LEMMA ClickStep ==
  ASSUME Fit(view), FixClick \/ AgpsClick
  PROVE  Keeps(view, view')
<1>0. view \in View /\ ~view.dirty /\ "here" \in Place
  BY FitView DEF FixClick, AgpsClick, OnMap, Place
<1>1. PICK ks \in SUBSET Marks :
        /\ "src" \notin ks /\ "dst" \notin ks
        /\ \/ view' = [Set(view, ks, "here") EXCEPT !.fixable = TRUE]
           \/ view' = [Set(view, ks, "here") EXCEPT !.submittable = TRUE]
  <2>1. /\ {"click"} \in SUBSET Marks /\ {"point"} \in SUBSET Marks
        /\ {"src", "dst"} \cap {"click", "point"} = {}
    BY DEF Marks
  <2>2. CASE FixClick
    <3>1. view' = [Set(view, {"click"}, "here") EXCEPT !.fixable = TRUE]
      BY <2>2 DEF FixClick
    <3>2. QED
      BY <2>1, <3>1
  <2>3. CASE AgpsClick
    <3>1. view' = [Set(view, {"point"}, "here") EXCEPT !.submittable = TRUE]
      BY <2>3 DEF AgpsClick
    <3>2. QED
      BY <2>1, <3>1
  <2>4. QED
    BY <2>2, <2>3
<1> DEFINE w == Set(view, ks, "here")
<1>2. Fit(w) /\ Marked(view, ks, "here", w)
  BY <1>0, <1>1, SetFit
<1>3. view' = [w EXCEPT !.fixable = TRUE] \/ view' = [w EXCEPT !.submittable = TRUE]
  BY <1>1
<1> HIDE DEF w
<1>4. w \in View
  BY <1>2 DEF Marked
<1>5. Tuned(w, view')
  <2>1. Tuned(w, [w EXCEPT !.fixable = TRUE])
    BY <1>4 DEF View, Tuned
  <2>2. Tuned(w, [w EXCEPT !.submittable = TRUE])
    BY <1>4 DEF View, Tuned
  <2>3. QED
    BY <1>3, <2>1, <2>2
<1>6. QED
  BY <1>2, <1>5, MarkedKeeps, TunedFit DEF Keeps

\* srcloc_button_clicked, destloc_button_clicked
LEMMA FixMarkStep ==
  ASSUME Fit(view), NEW k \in {"src", "dst"}, NEW other, FixMark(k, other)
  PROVE  Keeps(view, view')
<1> DEFINE n == [[view.marks EXCEPT ![k] = view.marks.click] EXCEPT !["click"] = "none"]
<1>0. view \in View /\ view.marks \in [Marks -> Place] /\ k \in Marks /\ "click" \in Marks
      /\ k # "click" /\ "none" \in Place /\ ~view.dirty
  BY FitView DEF View, Marks, Place, FixMark, InContext, OnMap
<1>1. n \in [Marks -> Place] /\ n["click"] = "none" /\ n[k] = view.marks["click"]
      /\ \A j \in Marks : j # k /\ j # "click" => n[j] = view.marks[j]
  BY <1>0
<1>2. PICK fx, st \in BOOLEAN :
        view' = [view EXCEPT !.marks = n, !.fixable = fx, !.settable = st]
  BY <1>0, ZenonT(40) DEF FixMark, View
<1> HIDE DEF n
<1>3. view' \in View
  BY <1>0, <1>1, <1>2, ZenonT(40) DEF View
<1>4. /\ view'.tab = view.tab /\ view'.ctx = view.ctx /\ view'.menu = view.menu
      /\ view'.frozen = view.frozen /\ view'.mouse = view.mouse /\ view'.redraw = view.redraw
      /\ view'.locks = view.locks /\ view'.fg = view.fg /\ view'.bg = view.bg
      /\ view'.zoom = view.zoom /\ view'.dirty = view.dirty /\ view'.fgTiles = view.fgTiles
      /\ view'.bgTiles = view.bgTiles /\ view'.marks = n
  BY <1>0, <1>2 DEF View
<1>5. Sound(view')
  BY <1>1, <1>3, <1>4 DEF Fit, Sound, Owned, Cached, ClickKept
<1>6. Fit(view')
  BY <1>0, <1>4, <1>5 DEF Fit, Shut, Quiet
<1>7. view.marks["click"] = "moved" => view.marks[k] # "here"
  BY DEF Fit, Sound, ClickKept
<1>8. KeepsMarks(view, view')
  BY <1>0, <1>1, <1>4, <1>7 DEF KeepsMarks
<1>9. QED
  BY <1>4, <1>6, <1>8 DEF Keeps, KeepsMouse, KeepsLevels

\* set_button_clicked: the marks are withdrawn and the lock released before the map moves.
LEMMA FixSetStep ==
  ASSUME Fit(view), FixSet
  PROVE  Keeps(view, view')
<1> DEFINE s == Set(view, MarkOf["fix"], "none")
           v == Toggled(s, "fix", FALSE)
           x == [v EXCEPT !.settable = FALSE, !.corrected = @ \cup {v.fg}]
<1>0. /\ view \in View /\ ~view.dirty /\ view.ctx = "fix" /\ "none" \in Place
      /\ "fix" \in Lockable /\ view' = ZoomedTo(x, v.zoom[v.fg])
  BY FitView DEF FixSet, InContext, OnMap, Place, Lockable
<1>1. PICK ks \in SUBSET Marks : ks = MarkOf["fix"]
  BY <1>0, MarkOfType
<1>2. Fit(s) /\ Marked(view, ks, "none", s)
  <2>1. s = Set(view, ks, "none")
    BY <1>1
  <2>2. QED
    BY <1>0, <2>1, SetFit
<1> HIDE DEF s
<1>3. s \in View
  BY <1>2, FitView
<1>4. Released(s, "fix", v) /\ Fit(v)
  BY <1>0, <1>2, <1>3, ReleasedView, PressedFit
<1> HIDE DEF v
<1>5. v \in View /\ v.fg \in Maps /\ v.zoom[v.fg] \in Int
  BY <1>4 DEF Released, View
<1>6. Tuned(v, x)
  <2>1. v.corrected \cup {v.fg} \in SUBSET Maps
    BY <1>5 DEF View
  <2>2. x \in View
    BY <1>5, <2>1 DEF View
  <2>3. QED
    BY <1>5, <2>2 DEF View, Tuned
<1>7. Fit(x) /\ x.zoom = v.zoom /\ x.fg = v.fg
  BY <1>4, <1>6, TunedFit DEF Tuned
<1> HIDE DEF x
<1>8. /\ Fit(view') /\ KeepsLevels(x, view') /\ view'.locks = x.locks /\ view'.ctx = x.ctx
      /\ view'.mouse = x.mouse /\ MarksShifted(x, view')
  BY <1>0, <1>5, <1>7, ZoomedFit
<1>9. KeepsLevels(view, view')
  BY <1>2, <1>4, <1>6, <1>8 DEF Marked, Released, LayersKept, Tuned, KeepsLevels
<1>10. KeepsMouse(view, view')
  BY <1>0, <1>2, <1>4, <1>6, <1>8, FitView
  DEF Marked, Unpainted, Released, Tuned, KeepsMouse
<1>11. KeepsMarks(view, view')
  <2>1. \A k \in MarkOf["fix"] : k \in Marks /\ k # "area" /\ x.marks[k] = "none"
    BY <1>0, <1>1, <1>2, <1>4, <1>6, ContextMarks DEF Marked, Released, Tuned
  <2>2. QED
    BY <1>0, <1>8, <2>1 DEF MarksShifted, KeepsMarks
<1>12. QED
  BY <1>8, <1>9, <1>10, <1>11 DEF Keeps

\* reset_button_clicked
LEMMA FixResetStep ==
  ASSUME Fit(view), FixReset
  PROVE  Keeps(view, view')
<1> DEFINE v == Set(view, MarkOf["fix"], "none")
           x == [v EXCEPT !.corrected = @ \ {v.fg}]
<1>0. /\ view \in View /\ ~view.dirty /\ view.ctx = "fix" /\ "none" \in Place
      /\ "fix" \in Lockable /\ view' = ZoomedTo(x, v.zoom[v.fg])
  BY FitView DEF FixReset, InContext, OnMap, Place, Lockable
<1>1. PICK ks \in SUBSET Marks : ks = MarkOf["fix"]
  BY <1>0, MarkOfType
<1>2. Fit(v) /\ Marked(view, ks, "none", v)
  <2>1. v = Set(view, ks, "none")
    BY <1>1
  <2>2. QED
    BY <1>0, <2>1, SetFit
<1> HIDE DEF v
<1>3. v \in View /\ v.fg \in Maps /\ v.zoom[v.fg] \in Int
  BY <1>2, FitView DEF View
<1>4. Tuned(v, x)
  <2>1. v.corrected \ {v.fg} \in SUBSET Maps
    BY <1>3 DEF View
  <2>2. x \in View
    BY <1>3, <2>1 DEF View
  <2>3. QED
    BY <1>3, <2>2 DEF View, Tuned
<1>5. Fit(x) /\ x.zoom = v.zoom /\ x.fg = v.fg
  BY <1>2, <1>4, TunedFit DEF Tuned
<1> HIDE DEF x
<1>6. /\ Fit(view') /\ KeepsLevels(x, view') /\ view'.locks = x.locks /\ view'.ctx = x.ctx
      /\ view'.mouse = x.mouse /\ MarksShifted(x, view')
  BY <1>0, <1>3, <1>5, ZoomedFit
<1>7. KeepsLevels(view, view') /\ KeepsMouse(view, view')
  BY <1>2, <1>4, <1>6 DEF Marked, Unpainted, Tuned, KeepsLevels, KeepsMouse
<1>8. KeepsMarks(view, view')
  <2>1. \A k \in MarkOf["fix"] : k \in Marks /\ k # "area" /\ x.marks[k] = "none"
    BY <1>0, <1>1, <1>2, <1>4, ContextMarks DEF Marked, Tuned
  <2>2. QED
    BY <1>0, <1>6, <2>1 DEF MarksShifted, KeepsMarks
<1>9. QED
  BY <1>6, <1>7, <1>8 DEF Keeps

-----------------------------------------------------------------------------
(* The steps: batches, the A-GPS request, the GPS and the zoom thread *)

\* The list of batches is refreshed.
LEMMA RefreshStep ==
  ASSUME Fit(view), BatchesOK, Refresh
  PROVE  Keeps(view, view')
<1> DEFINE w == Listed(view, batches)
<1>0. view \in View /\ batches \in SUBSET Batch /\ view' = w
  BY FitView DEF BatchesOK, Refresh
<1>1. w \in View /\ w = [view EXCEPT !.rows = w.rows]
  BY <1>0, ListedView
<1> HIDE DEF w
<1>2. Tuned(view, w)
  BY <1>0, <1>1 DEF View, Tuned
<1>3. QED
  BY <1>0, <1>2, TunedKeeps

\* A batch is cancelled.
LEMMA CancelStep ==
  ASSUME Fit(view), NEW b, Cancel(b)
  PROVE  Keeps(view, view')
<1> DEFINE r == view.rows \ {b}
<1>0. view \in View /\ view' = [view EXCEPT !.rows = r]
  BY FitView DEF Cancel
<1>1. r \in SUBSET Batch
  BY <1>0 DEF View
<1> HIDE DEF r
<1>2. view' \in View
  BY <1>0, <1>1 DEF View
<1>3. Tuned(view, view')
  BY <1>0, <1>2 DEF View, Tuned
<1>4. QED
  BY <1>3, TunedKeeps

\* Showing the range of a batch takes a map to the level at which the batch was asked for.
LEMMA ShowRangeStep ==
  ASSUME Fit(view), NEW b \in view.rows, ShowRange(b)
  PROVE  /\ Fit(view') /\ KeepsMouse(view, view')
         /\ b.map = view.fg /\ b.zoom >= MinZoom[b.map] => KeepsLevels(view, view')
<1> DEFINE u == [view EXCEPT !.geo = TRUE]
           v == Toggled(u, "dl", TRUE)
<1>0. /\ view \in View /\ ~view.dirty /\ view.ctx = "dl" /\ "dl" \in Lockable
      /\ view' = ZoomedTo(v, b.zoom) /\ b \in Batch
  BY FitView DEF ShowRange, InContext, OnMap, Lockable, View
<1>1. u \in View
  BY <1>0 DEF View
<1>2. /\ u.tab = view.tab /\ u.ctx = view.ctx /\ u.menu = view.menu /\ u.frozen = view.frozen
      /\ u.redraw = view.redraw /\ u.locks = view.locks /\ u.zoom = view.zoom
      /\ u.fg = view.fg /\ u.bg = view.bg /\ u.marks = view.marks /\ u.dirty = view.dirty
      /\ u.fgTiles = view.fgTiles /\ u.bgTiles = view.bgTiles /\ u.mouse = view.mouse
  BY <1>0 DEF View
<1> HIDE DEF u
<1>3. Sound(u)
  BY <1>1, <1>2 DEF Fit, Sound, Owned, Cached, ClickKept
<1>4. Fit(u)
  BY <1>0, <1>2, <1>3 DEF Fit, Shut, Quiet
<1>5. Pressed(u, "dl", v)
  BY <1>0, <1>1, PressedView
<1> HIDE DEF v
<1>6. Fit(v)
  BY <1>0, <1>4, <1>5, PressedFit
<1>7. b.zoom \in Int /\ b.map \in Maps /\ b.zoom <= MaxZoom[b.map]
  BY <1>0 DEF Batch
<1>8. /\ Fit(view') /\ view'.ctx = v.ctx /\ view'.mouse = v.mouse
      /\ (v.zoom[v.fg] \in Levels(v.fg) => b.zoom \in Levels(v.fg)) => KeepsLevels(v, view')
  BY <1>0, <1>6, <1>7, ZoomedFit
<1>9. KeepsMouse(view, view')
  BY <1>0, <1>2, <1>5, <1>8, FitView DEF Pressed, KeepsMouse
<1>10. v.fg = view.fg /\ LayersKept(u, v)
  BY <1>2, <1>5 DEF Pressed, Unswitched
<1>11. b.map = view.fg /\ b.zoom >= MinZoom[b.map] => b.zoom \in Levels(v.fg)
  BY <1>7, <1>10 DEF Levels
<1>12. b.map = view.fg /\ b.zoom >= MinZoom[b.map] => KeepsLevels(view, view')
  BY <1>2, <1>8, <1>10, <1>11 DEF LayersKept, KeepsLevels
<1>13. QED
  BY <1>8, <1>9, <1>12

\* The fields that the A-GPS context sets when the request is under way.
LEMMA SubmittedKeeps ==
  ASSUME Fit(view), NEW v, Keeps(view, v), v.ctx \notin Lockable \/ v = view, view.ctx = "agps"
  PROVE  Keeps(view, SubmittedFrom(v))
<1> DEFINE t == Toggled(v, "agps", FALSE)
           x == [t EXCEPT !.lockable = FALSE, !.submittable = FALSE]
<1>0. Fit(v) /\ v \in View /\ "agps" \in Lockable /\ SubmittedFrom(v) = x /\ FALSE \in BOOLEAN
  BY FitView DEF Keeps, SubmittedFrom, Lockable
<1>1. /\ Fit(t) /\ KeepsMarks(v, t) /\ KeepsLevels(v, t) /\ t \in View /\ t.ctx = v.ctx
      /\ v.ctx = "agps" => KeepsMouse(v, t)
  BY <1>0, ToggledKeeps
<1> HIDE DEF t
<1>2. x \in View
  BY <1>1 DEF View
<1>3. Tuned(t, x)
  BY <1>1, <1>2 DEF View, Tuned
<1> HIDE DEF x
<1>4. Fit(x)
  BY <1>1, <1>3, TunedFit
<1>5. KeepsLevels(view, x)
  BY <1>1, <1>3 DEF Keeps, KeepsLevels, Tuned
<1>6. CASE v.ctx \notin Lockable
  <2>1. x.ctx # view.ctx
    BY <1>0, <1>1, <1>3, <1>6 DEF Tuned
  <2>2. QED
    BY <1>0, <1>4, <1>5, <2>1 DEF Keeps, KeepsMouse, KeepsMarks
<1>7. CASE v = view
  <2>1. KeepsMouse(view, x) /\ KeepsMarks(view, x)
    BY <1>1, <1>3, <1>7 DEF KeepsMouse, KeepsMarks, Tuned
  <2>2. QED
    BY <1>0, <1>4, <1>5, <2>1 DEF Keeps
<1>8. QED
  BY <1>6, <1>7

\* The request is made, and the point and the lock are withdrawn.
LEMMA SubmitStep ==
  ASSUME Fit(view), BatchesOK, Submit
  PROVE  Keeps(view, view')
<1>1. view.ctx = "agps" /\ Keeps(view, view)
  BY DEF Submit, Keeps, KeepsMouse, KeepsMarks, KeepsLevels
<1>2. CASE view' = SubmittedFrom(view)
  BY <1>1, <1>2, SubmittedKeeps
<1>3. CASE \E v \in AgpsClosed(view) : view' = SubmittedFrom(v)
  BY <1>1, <1>3, AgpsClosedKeeps, SubmittedKeeps
<1>4. QED
  BY <1>2, <1>3 DEF Submit

\* A request that fails closes whatever context is shown by then.
LEMMA AgpsFailsStep ==
  ASSUME Fit(view), BatchesOK, NEW r, AgpsFails(r)
  PROVE  Keeps(view, view')
BY AgpsClosedKeeps DEF AgpsFails

\* An answer that cannot be written shows the buttons of the A-GPS context anew, and releases its
\* lock, whatever context is shown by then.
LEMMA AgpsRunsStep ==
  ASSUME Fit(view), BatchesOK, NEW r, AgpsRuns(r)
  PROVE  /\ Fit(view') /\ KeepsMarks(view, view') /\ KeepsLevels(view, view')
         /\ KeepsMouse(view, view') \/ "agps" \in view.locks \ view'.locks
<1>0. /\ view' \in AgpsClosed(view) \/ view' = OnShow(view, "agps", batches)
      /\ view \in View /\ batches \in SUBSET Batch /\ "agps" \in Lockable \cup {"none", "gps"}
  BY FitView DEF AgpsRuns, AgpsWritten, BatchesOK, Lockable
<1>1. CASE view' \in AgpsClosed(view)
  BY <1>1, AgpsClosedKeeps DEF Keeps
<1>2. CASE view' = OnShow(view, "agps", batches)
  <2>1. Shown(view, "agps", batches, view')
    BY <1>0, <1>2, OnShowView
  <2>2. Carried(view, view')
    BY <1>0, <2>1, ShownSound
  <2>3. Quiet(view')
    BY <2>1, ContextMarks DEF Shown, Unswitched, Fit, Quiet
  <2>4. Shut(view')
    BY <2>1 DEF Shown, Unswitched, Fit, Shut
  <2>5. Fit(view') /\ KeepsLevels(view, view')
    BY <2>2, <2>3, <2>4 DEF Fit, Carried, LayersKept, KeepsLevels
  <2>6. KeepsMarks(view, view')
    BY <2>1 DEF Shown, KeepsMarks
  <2>7. KeepsMouse(view, view') \/ "agps" \in view.locks \ view'.locks
    BY <2>1 DEF Shown, KeepsMouse
  <2>8. QED
    BY <2>5, <2>6, <2>7
<1>3. QED
  BY <1>0, <1>1, <1>2

\* The view after the GPS changed its state.
LEMMA GpsSetFit ==
  ASSUME Fit(view), NEW to \in {"SUSPENDING", "STARTING", "RUNNING"}
  PROVE  LET v == [view EXCEPT !.gps = to] IN Tuned(view, v) /\ v.gps = to
<1>0. view \in View
  BY FitView
<1>1. [view EXCEPT !.gps = to] \in View
  BY <1>0 DEF View
<1>2. QED
  BY <1>0, <1>1 DEF View, Tuned

\* The context is shown anew, or another one is switched to while none of the user's was.
LEMMA UpdatedKeeps ==
  ASSUME Fit(view), BatchesOK, NEW v, Tuned(view, v), NEW w,
         w = v \/ (v.ctx \notin Lockable /\ w.ctx \notin Lockable /\ Sound(w) /\ w.tab = v.tab
                   /\ KeepsLevels(v, w)),
         NEW x, IF w.tab = "view" THEN x \in ShownViews(w, batches) ELSE x = w
  PROVE  Keeps(view, x)
<1>1. Fit(v) /\ Keeps(view, v)
  BY TunedFit, TunedKeeps
<1>2. Fit(w) /\ KeepsLevels(view, w)
  BY <1>1 DEF Fit, Shut, Quiet, Keeps, KeepsLevels
<1>3. CASE w.tab # "view"
  <2>1. x = w /\ view.tab # "view"
    BY <1>3 DEF Tuned
  <2>2. QED
    BY <1>2, <2>1, ElsewhereKeeps
<1>4. CASE w.tab = "view"
  <2>1. w \in View /\ batches \in SUBSET Batch /\ x \in ShownViews(w, batches)
    BY <1>2, <1>4, FitView DEF BatchesOK
  <2>2. Reshown(w, x)
    BY <2>1, ReshownView
  <2>3. Fit(x)
    BY <1>2, <2>2 DEF Fit, Reshown, Carried, Shut, Unswitched
  <2>4. KeepsLevels(view, x)
    BY <1>2, <2>2 DEF Reshown, Carried, LayersKept, KeepsLevels
  <2>5. CASE w = v
    BY <2>2, <2>3, <2>4, <2>5 DEF Reshown, Tuned, Keeps, KeepsMouse, KeepsMarks, Mousing
  <2>6. CASE w.ctx \notin Lockable
    BY <2>2, <2>3, <2>4, <2>6 DEF Reshown, Keeps, KeepsMouse, KeepsMarks, Mousing
  <2>7. QED
    BY <2>5, <2>6
<1>5. QED
  BY <1>3, <1>4

\* The GPS starts, runs and suspends.
LEMMA GpsStep ==
  ASSUME Fit(view), BatchesOK, Gps
  PROVE  Keeps(view, view')
<1>0. /\ "gps" \notin Lockable /\ "none" \notin Lockable
      /\ "gps" \in Lockable \cup {"none", "gps"} /\ "none" \in Lockable \cup {"none", "gps"}
      /\ batches \in SUBSET Batch
  BY DEF Lockable, BatchesOK
<1>1. CASE GpsStarts
  <2>1. PICK v : v = [view EXCEPT !.gps = "STARTING"]
    OBVIOUS
  <2>2. Tuned(view, v) /\ v.gps = "STARTING"
    BY <2>1, GpsSetFit
  <2>3. view' \in MainViews(v, "gps", batches)
    BY <1>1, <2>1 DEF GpsStarts, GpsChanges
  <2>4. v \in View /\ Fit(v)
    BY <2>2, TunedFit DEF Tuned
  <2>5. Main(v, "gps", view')
    BY <1>0, <2>3, <2>4, MainView
  <2>6. Fit(view') /\ view'.ctx \notin Lockable /\ KeepsLevels(view, view')
    BY <1>0, <2>2, <2>4, <2>5 DEF Main, Fit, LayersKept, KeepsLevels, Tuned
  <2>7. QED
    BY <2>6 DEF Keeps, KeepsMouse, KeepsMarks, Mousing
<1>2. CASE GpsRuns
  <2>1. PICK v : v = [view EXCEPT !.gps = "RUNNING"]
    OBVIOUS
  <2>2. Tuned(view, v) /\ v.gps = "RUNNING"
    BY <2>1, GpsSetFit
  <2>3. PICK w : w = IF v.ctx = "none" THEN SwitchedCtx(v, "gps", batches) ELSE v
    OBVIOUS
  <2>4. view' \in IF w.tab = "view" THEN ShownViews(w, batches) ELSE {w}
    BY <1>2, <2>1, <2>3 DEF GpsRuns, GpsChanges
  <2>5. v \in View /\ Fit(v)
    BY <2>2, TunedFit DEF Tuned
  <2>6. CASE v.ctx = "none"
    <3>1. Switched(v, "gps", batches, w)
      BY <1>0, <2>3, <2>5, <2>6, SwitchedView
    <3>2. /\ v.ctx \notin Lockable /\ w.ctx \notin Lockable /\ Sound(w) /\ w.tab = v.tab
          /\ KeepsLevels(v, w)
      BY <1>0, <2>2, <2>5, <2>6, <3>1
      DEF Switched, Carried, Unswitched, LayersKept, KeepsLevels, Fit
    <3>3. QED
      BY <2>2, <2>4, <3>2, UpdatedKeeps
  <2>7. CASE v.ctx # "none"
    BY <2>2, <2>3, <2>4, <2>7, UpdatedKeeps
  <2>8. QED
    BY <2>6, <2>7
<1>3. CASE GpsSuspends
  <2>1. PICK v : v = [view EXCEPT !.gps = "SUSPENDING"]
    OBVIOUS
  <2>2. Tuned(view, v) /\ v.gps = "SUSPENDING"
    BY <2>1, GpsSetFit
  <2>3. PICK w : w = IF v.ctx = "gps" THEN SwitchedCtx(v, "none", batches) ELSE v
    OBVIOUS
  <2>4. view' \in IF w.tab = "view" THEN ShownViews(w, batches) ELSE {w}
    BY <1>3, <2>1, <2>3 DEF GpsSuspends, GpsChanges
  <2>5. v \in View /\ Fit(v)
    BY <2>2, TunedFit DEF Tuned
  <2>6. CASE v.ctx = "gps"
    <3>1. Switched(v, "none", batches, w)
      BY <1>0, <2>3, <2>5, <2>6, SwitchedView
    <3>2. /\ v.ctx \notin Lockable /\ w.ctx \notin Lockable /\ Sound(w) /\ w.tab = v.tab
          /\ KeepsLevels(v, w)
      BY <1>0, <2>2, <2>5, <2>6, <3>1
      DEF Switched, Carried, Unswitched, LayersKept, KeepsLevels, Fit
    <3>3. QED
      BY <2>2, <2>4, <3>2, UpdatedKeeps
  <2>7. CASE v.ctx # "gps"
    BY <2>2, <2>3, <2>4, <2>7, UpdatedKeeps
  <2>8. QED
    BY <2>6, <2>7
<1>4. QED
  BY <1>1, <1>2, <1>3 DEF Gps

-----------------------------------------------------------------------------
(* The steps: everything but the view *)

\* A batch is asked for at a level that its map has, or below.
LEMMA BatchesNext ==
  ASSUME Fit(view), BatchesOK, Next
  PROVE  BatchesOK'
<1>1. CASE RequestBatch
  <2> DEFINE b == [map |-> view.fg, zoom |-> view.zoom[view.fg]]
  <2>1. view.fg \in Maps /\ view.zoom[view.fg] \in Int /\ view \in View
    BY FitView DEF View
  <2>2. view.zoom[view.fg] <= MaxZoom[view.fg]
    BY <1>1, <2>1 DEF RequestBatch
  <2>3. b \in Batch
    BY <2>1, <2>2 DEF Batch
  <2>4. batches' = batches \cup {b}
    BY <1>1 DEF RequestBatch
  <2>5. QED
    BY <2>3, <2>4 DEF BatchesOK
<1>2. CASE \E b \in view.rows : Cancel(b)
  BY <1>2 DEF Cancel, BatchesOK
<1>3. CASE ~RequestBatch /\ ~\E b \in view.rows : Cancel(b)
  <2>1. batches' = batches
    <3>1. CASE Zooming
      BY <3>1 DEF Zooming, ZoomStarts, ZoomCounts, ZoomStops, ZoomApplies
    <3>2. CASE Pages
      BY <3>2 DEF Pages, PressZoom, ReleaseZoom, Expose, Configure, Pan, Center, BackToView,
                  OpenPage, SetLayers, OpenDownload, OpenFixMap, ClearBgClicked, AlphaToggled,
                  FrontDownloaded, OpenScratch, OpenAgps, OpenContext
    <3>3. CASE Contexts
      BY <1>3, <3>3 DEF Contexts, LockClicked, Close, Drag, Refresh, ShowRange, FixClick,
                        FixMark, FixSet, FixReset, AgpsClick, Submit
    <3>4. CASE Late
      BY <3>4 DEF Late, AgpsFails, AgpsAnswered, AgpsRuns
    <3>5. CASE Gps
      BY <3>5 DEF Gps, GpsStarts, GpsRuns, GpsSuspends, GpsChanges
    <3>6. QED
      BY <3>1, <3>2, <3>3, <3>4, <3>5 DEF Next
  <2>2. QED
    BY <2>1 DEF BatchesOK
<1>4. QED
  BY <1>1, <1>2, <1>3

\* A finger that is free leaves the threads alone.
LEMMA FreeSame ==
  ASSUME Free
  PROVE  zoomer' = zoomer /\ stop' = stop /\ held' = held /\ agps' = agps /\ slot' = slot
BY DEF Free, zoomVars, agpsVars

\* Every step of a finger that is free leaves the threads alone.
LEMMA ThreadsSame ==
  ASSUME Next, ~Zooming, \A up \in BOOLEAN : ~PressZoom(up), ~ReleaseZoom, ~Late, ~Submit
  PROVE  zoomer' = zoomer /\ stop' = stop /\ held' = held /\ agps' = agps /\ slot' = slot
<1>1. CASE Pages
  <2>1. CASE Expose \/ Configure \/ BackToView \/ FrontDownloaded
    BY <2>1 DEF Expose, Configure, BackToView, FrontDownloaded, zoomVars, agpsVars
  <2>2. CASE Free
    BY <2>2, FreeSame
  <2>3. QED
    BY <1>1, <2>1, <2>2 DEF Pages, Pan, Center, OpenPage, SetLayers, OpenDownload, OpenFixMap,
      ClearBgClicked, AlphaToggled, OpenScratch, OpenAgps, OnPage, OnMap
<1>2. CASE Contexts
  <2>1. CASE Refresh
    BY <2>1 DEF Refresh, zoomVars, agpsVars
  <2>2. CASE Free
    BY <2>2, FreeSame
  <2>3. QED
    BY <1>2, <2>1, <2>2 DEF Contexts, LockClicked, Close, Drag, RequestBatch, ShowRange, Cancel,
      FixClick, FixMark, FixSet, FixReset, AgpsClick, InContext, OnPage, OnMap
<1>3. CASE Gps
  BY <1>3 DEF Gps, GpsStarts, GpsRuns, GpsSuspends, GpsChanges, zoomVars, agpsVars
<1>4. QED
  BY <1>1, <1>2, <1>3 DEF Next

\* The command slot is taken when it is free only, and freed by the request that it holds.
LEMMA SlotNext ==
  ASSUME SlotOK, Next
  PROVE  SlotOK'
<1>1. CASE Zooming \/ (\E up \in BOOLEAN : PressZoom(up)) \/ ReleaseZoom
  <2>1. agps' = agps /\ slot' = slot
    BY <1>1 DEF Zooming, ZoomStarts, ZoomCounts, ZoomStops, ZoomApplies, PressZoom, ReleaseZoom,
                agpsVars
  <2>2. QED
    BY <2>1 DEF SlotOK
<1>2. CASE Submit
  <2>1. slot' = slot /\ (agps' = agps \/ \E r \in Requests :
                           agps[r] = "none" /\ agps' = [agps EXCEPT ![r] = "asking"])
    BY <1>2 DEF Submit
  <2>2. QED
    BY <2>1 DEF SlotOK
<1>3. CASE Late
  <2>1. PICK r \in Requests : AgpsFails(r) \/ AgpsAnswered(r) \/ AgpsRuns(r)
    BY <1>3 DEF Late
  <2>2. CASE AgpsFails(r)
    BY <2>2 DEF AgpsFails, SlotOK
  <2>3. CASE AgpsAnswered(r)
    BY <2>3, SessionAssumption DEF AgpsAnswered, SlotOK
  <2>4. CASE AgpsRuns(r)
    <3>1. \/ agps[r] = "issued" /\ slot = r /\ slot' = "free"
          \/ agps[r] = "asking" /\ slot' = slot
      BY <2>4 DEF AgpsRuns
    <3>2. agps' = [agps EXCEPT ![r] = "over"]
      BY <2>4 DEF AgpsRuns
    <3>3. QED
      BY <3>1, <3>2, SessionAssumption DEF SlotOK
  <2>5. QED
    BY <2>1, <2>2, <2>3, <2>4
<1>4. CASE /\ ~Zooming /\ (\A up \in BOOLEAN : ~PressZoom(up)) /\ ~ReleaseZoom
           /\ ~Late /\ ~Submit
  <2>1. agps' = agps /\ slot' = slot
    BY <1>4, ThreadsSame
  <2>2. QED
    BY <2>1 DEF SlotOK
<1>5. QED
  BY <1>1, <1>2, <1>3, <1>4

\* The current map and level.
LEMMA HereType ==
  ASSUME Fit(view)
  PROVE  /\ view.fg \in Maps /\ view.zoom[view.fg] \in Int
         /\ MinZoom[view.fg] \in Nat /\ MaxZoom[view.fg] \in Nat
         /\ Here \in Maps \X Int /\ Here[1] = view.fg /\ Here[2] = view.zoom[view.fg]
<1>1. view \in View
  BY FitView
<1>2. view.fg \in Maps /\ view.zoom \in [Maps -> Int]
  BY <1>1 DEF View
<1>3. QED
  BY <1>2 DEF Here

\* The zoom thread does nothing.
LEMMA ZoomerSame ==
  ASSUME ZoomerOK, zoomer' = zoomer, stop' \in BOOLEAN, held' \in BOOLEAN
  PROVE  ZoomerOK'
BY DEF ZoomerOK, Counting

Idle(pc, up) ==
  [pc |-> pc, up |-> up, hi |-> 0, i |-> 0, z |-> 0, from |-> <<>>, stray |-> FALSE]

\* The zoom thread is gone, or about to start.
LEMMA IdleZoomer ==
  ASSUME NEW up \in BOOLEAN, NEW pc \in {"off", "born"},
         zoomer' = Idle(pc, up), stop' \in BOOLEAN, held' \in BOOLEAN
  PROVE  ZoomerOK'
<1>1. PICK f \in From : f = <<>>
  BY DEF From
<1>2. zoomer' = [pc |-> pc, up |-> up, hi |-> 0, i |-> 0, z |-> 0, from |-> f, stray |-> FALSE]
  BY <1>1 DEF Idle
<1>3. zoomer' \in Zoomer
  BY <1>2 DEF Zoomer
<1>4. zoomer'.pc = pc /\ zoomer'.i = 0 /\ zoomer'.hi = 0
  BY <1>2
<1>5. QED
  BY <1>3, <1>4 DEF ZoomerOK

\* The zoom thread counts within the bound that it read at its start.
LEMMA ZoomerNext ==
  ASSUME Fit(view), ZoomerOK, Next
  PROVE  ZoomerOK'
<1>0. zoomer \in Zoomer /\ stop \in BOOLEAN /\ held \in BOOLEAN
  BY DEF ZoomerOK
<1>1. CASE \E up \in BOOLEAN : PressZoom(up)
  <2>1. PICK up \in BOOLEAN : PressZoom(up)
    BY <1>1
  <2>2. held' = TRUE /\ stop' = stop
    BY <2>1 DEF PressZoom
  <2>3. zoomer' = Idle("born", up) \/ zoomer' = zoomer
    <3>1. CASE zoomer' = [NoZoomer EXCEPT !.pc = "born", !.up = up]
      BY <3>1 DEF NoZoomer, Idle
    <3>2. QED
      BY <2>1, <3>1 DEF PressZoom
  <2>4. QED
    BY <1>0, <2>2, <2>3, ZoomerSame, IdleZoomer
<1>2. CASE ReleaseZoom
  BY <1>2, ZoomerSame DEF ReleaseZoom
<1>3. CASE ZoomStarts
  <2>1. PICK h : h = Room(view, zoomer.up)
    OBVIOUS
  <2>2. /\ zoomer' = [zoomer EXCEPT !.pc = "loop", !.hi = h, !.i = 1,
                              !.z = view.zoom[view.fg], !.from = Here]
        /\ stop' = FALSE /\ held' = held
    BY <1>3, <2>1 DEF ZoomStarts
  <2>3. /\ h \in Int
        /\ h = IF zoomer.up THEN MaxZoom[view.fg] - view.zoom[view.fg]
               ELSE view.zoom[view.fg] - MinZoom[view.fg]
    BY <2>1, HereType DEF Room
  <2>4. /\ zoomer' \in Zoomer /\ zoomer'.i = 1 /\ zoomer'.up = zoomer.up
        /\ zoomer'.hi = h /\ zoomer'.z = view.zoom[view.fg] /\ zoomer'.from = Here
    BY <1>0, <2>2, <2>3, HereType DEF Zoomer, From
  <2>5. Counting'
    BY <2>3, <2>4, HereType DEF Counting
  <2>6. QED
    BY <1>0, <2>2, <2>4, <2>5 DEF ZoomerOK
<1>4. CASE ZoomCounts
  <2>1. PICK z : z = IF zoomer.up THEN view.zoom[view.fg] + zoomer.i
                     ELSE view.zoom[view.fg] - zoomer.i
    OBVIOUS
  <2>2. PICK s \in BOOLEAN : s = (zoomer.stray \/ zoomer.from # Here)
    BY <1>0
  <2>3. zoomer.pc = "loop" /\ zoomer.i <= zoomer.hi /\ stop' = stop /\ held' = held
    BY <1>4 DEF ZoomCounts, ZoomGoesOn
  <2>4. zoomer' = [zoomer EXCEPT !.i = zoomer.i + 1, !.stray = s, !.z = z]
    BY <1>4, <2>1, <2>2 DEF ZoomCounts
  <2>5. zoomer.i \in Nat /\ zoomer.hi \in Int /\ zoomer.up \in BOOLEAN /\ z \in Int
    BY <1>0, <2>1, HereType DEF Zoomer
  <2>6. zoomer.i + 1 \in Nat
    BY <2>5
  <2>7. zoomer' \in Zoomer
    BY <1>0, <2>4, <2>5, <2>6 DEF Zoomer
  <2>8. /\ zoomer'.i = zoomer.i + 1 /\ zoomer'.up = zoomer.up
        /\ zoomer'.hi = zoomer.hi /\ zoomer'.z = z /\ zoomer'.from = zoomer.from
        /\ zoomer'.stray = s /\ zoomer'.pc = "loop"
    BY <1>0, <2>3, <2>4, <2>5 DEF Zoomer
  <2>9. Counting
    BY <2>3 DEF ZoomerOK
  <2>10. ~s => z = IF zoomer.up THEN zoomer.from[2] + zoomer.i ELSE zoomer.from[2] - zoomer.i
    BY <2>1, <2>2, HereType
  <2>11. Counting'
    BY <2>5, <2>8, <2>9, <2>10 DEF Counting
  <2>12. QED
    BY <1>0, <2>3, <2>5, <2>8, <2>11, <2>7 DEF ZoomerOK
<1>5. CASE ZoomStops \/ ZoomApplies
  <2>1. stop' = stop /\ held' = held
    BY <1>5 DEF ZoomStops, ZoomApplies
  <2>2. CASE zoomer' = NoZoomer
    <3>1. NoZoomer = Idle("off", FALSE)
      BY DEF NoZoomer, Idle
    <3>2. FALSE \in BOOLEAN /\ "off" \in {"off", "born"}
      OBVIOUS
    <3>3. QED
      BY <1>0, <2>1, <2>2, <3>1, <3>2, IdleZoomer
  <2>3. CASE zoomer.pc = "loop" /\ zoomer' = [zoomer EXCEPT !.pc = "apply"]
    <3>1. /\ zoomer' \in Zoomer /\ zoomer'.i = zoomer.i /\ zoomer'.up = zoomer.up
          /\ zoomer'.hi = zoomer.hi /\ zoomer'.z = zoomer.z /\ zoomer'.from = zoomer.from
          /\ zoomer'.stray = zoomer.stray
      BY <1>0, <2>3 DEF Zoomer
    <3>2. Counting /\ (zoomer.i <= zoomer.hi + 1 \/ zoomer.i = 1)
      BY <2>3 DEF ZoomerOK
    <3>3. Counting'
      BY <3>1, <3>2 DEF Counting
    <3>4. QED
      BY <1>0, <2>1, <3>1, <3>2, <3>3 DEF ZoomerOK
  <2>4. QED
    BY <1>5, <2>2, <2>3 DEF ZoomStops, ZoomApplies
<1>6. CASE Late \/ Submit
  <2>1. zoomer' = zoomer /\ stop' = stop /\ held' = held
    BY <1>6 DEF Late, AgpsFails, AgpsAnswered, AgpsRuns, Submit, zoomVars
  <2>2. QED
    BY <1>0, <2>1, ZoomerSame
<1>7. CASE /\ ~Zooming /\ (\A up \in BOOLEAN : ~PressZoom(up)) /\ ~ReleaseZoom
           /\ ~Late /\ ~Submit
  <2>1. zoomer' = zoomer /\ stop' = stop /\ held' = held
    BY <1>7, ThreadsSame
  <2>2. QED
    BY <1>0, <2>1, ZoomerSame
<1>8. QED
  BY <1>1, <1>2, <1>3, <1>4, <1>5, <1>6, <1>7 DEF Zooming

\* The zoom thread applies its level.
LEMMA ZoomAppliesStep ==
  ASSUME Fit(view), ZoomerOK, ZoomApplies
  PROVE  /\ Fit(view') /\ KeepsMouse(view, view')
         /\ ~zoomer.stray /\ zoomer.from = Here => KeepsLevels(view, view')
<1>0. /\ zoomer \in Zoomer /\ Counting /\ view' = ZoomedTo(view, zoomer.z)
      /\ zoomer.i <= zoomer.hi + 1 \/ zoomer.i = 1
  BY DEF ZoomApplies, ZoomerOK
<1>1. zoomer.z \in Int /\ zoomer.i \in Nat /\ zoomer.hi \in Int /\ zoomer.up \in BOOLEAN
  BY <1>0 DEF Zoomer
<1>2. ASSUME ~zoomer.stray, zoomer.from = Here, view.zoom[view.fg] \in Levels(view.fg)
      PROVE  zoomer.z \in Levels(view.fg)
  <2>1. /\ zoomer.i >= 1
        /\ zoomer.hi = IF zoomer.up THEN MaxZoom[view.fg] - view.zoom[view.fg]
                       ELSE view.zoom[view.fg] - MinZoom[view.fg]
        /\ zoomer.z = IF zoomer.up THEN view.zoom[view.fg] + (zoomer.i - 1)
                      ELSE view.zoom[view.fg] - (zoomer.i - 1)
    BY <1>0, <1>2, HereType DEF Counting
  <2>2. QED
    BY <1>0, <1>1, <1>2, <2>1, HereType DEF Levels
<1>3. QED
  BY <1>0, <1>1, <1>2, ZoomedFit

-----------------------------------------------------------------------------
(* The theorems *)

\* A step that leaves the view alone.
LEMMA SameKeeps ==
  ASSUME Fit(view), view' = view
  PROVE  Keeps(view, view')
BY DEF Keeps, KeepsMouse, KeepsMarks, KeepsLevels

\* What one step does to the view, with all the exceptions there are.
LEMMA ViewNext ==
  ASSUME IInv, Next
  PROVE  /\ Fit(view')
         /\ \/ KeepsMouse(view, view')
            \/ "agps" \in view.locks \ view'.locks /\ \E r \in Requests : AgpsRuns(r)
         /\ \/ KeepsMarks(view, view')
            \/ ZoomApplies \/ Configure \/ Drag \/ \E b \in view.rows : ShowRange(b)
         /\ \/ KeepsLevels(view, view')
            \/ ZoomApplies /\ (zoomer.stray \/ zoomer.from # Here)
            \/ \E b \in view.rows :
                 (b.map # view.fg \/ b.zoom < MinZoom[b.map]) /\ ShowRange(b)
<1>0. Fit(view) /\ BatchesOK /\ ZoomerOK /\ view \in View
  BY FitView DEF IInv
<1>1. CASE Zooming
  <2>1. CASE ZoomApplies
    BY <1>0, <2>1, ZoomAppliesStep, HereType DEF ZoomerOK, Zoomer
  <2>2. CASE ~ZoomApplies
    <3>1. view' = view
      BY <1>1, <2>2 DEF Zooming, ZoomStarts, ZoomCounts, ZoomStops
    <3>2. QED
      BY <1>0, <3>1, SameKeeps DEF Keeps
  <2>3. QED
    BY <2>1, <2>2
<1>2. CASE Pages
  <2>1. CASE (\E up \in BOOLEAN : PressZoom(up)) \/ ReleaseZoom
    <3>1. view' = view
      BY <2>1 DEF PressZoom, ReleaseZoom
    <3>2. QED
      BY <1>0, <3>1, SameKeeps DEF Keeps
  <2>2. CASE Configure
    <3>1. view' = Centered(view)
      BY <2>2 DEF Configure
    <3>2. QED
      BY <1>0, <2>2, <3>1, CenteredFit
  <2>3. CASE Expose \/ FrontDownloaded
    BY <1>0, <2>3, DrawStep DEF Keeps
  <2>4. CASE Pan \/ Center
    BY <1>0, <2>4, PanStep DEF Keeps
  <2>5. CASE BackToView
    BY <1>0, <2>5, BackToViewStep DEF Keeps
  <2>6. CASE OpenPage("view", "menu") \/ OpenPage("menu", "tiles") \/ OpenPage("tiles", "menu")
    BY <1>0, <2>6, OpenPageStep DEF Keeps
  <2>7. CASE \E m \in Maps : \E layers \in SUBSET {"fg", "bg"} : SetLayers(m, layers)
    BY <1>0, <2>7, SetLayersStep DEF Keeps
  <2>8. CASE (\E m \in Maps : OpenDownload(m) \/ OpenFixMap(m)) \/ OpenScratch \/ OpenAgps
    <3>1. PICK m \in Maps : OpenDownload(m) \/ OpenFixMap(m) \/ OpenScratch \/ OpenAgps
      BY <2>8, MapAssumption
    <3>2. QED
      BY <1>0, <3>1, OpenStep DEF Keeps
  <2>9. CASE ClearBgClicked
    BY <1>0, <2>9, ClearBgStep DEF Keeps
  <2>10. CASE AlphaToggled
    BY <1>0, <2>10, AlphaStep DEF Keeps
  <2>11. QED
    BY <1>2, <2>1, <2>2, <2>3, <2>4, <2>5, <2>6, <2>7, <2>8, <2>9, <2>10 DEF Pages
<1>3. CASE Contexts
  <2>1. CASE \E c \in Lockable : LockClicked(c)
    BY <1>0, <2>1, LockClickedStep DEF Keeps
  <2>2. CASE \E c \in Lockable : Close(c)
    BY <1>0, <2>2, CloseStep DEF Keeps
  <2>3. CASE Drag
    BY <1>0, <2>3, DragStep
  <2>4. CASE RequestBatch
    <3>1. view' = view
      BY <2>4 DEF RequestBatch
    <3>2. QED
      BY <1>0, <3>1, SameKeeps DEF Keeps
  <2>5. CASE Refresh
    BY <1>0, <2>5, RefreshStep DEF Keeps
  <2>6. CASE \E b \in view.rows : ShowRange(b)
    <3>1. PICK b \in view.rows : ShowRange(b)
      BY <2>6
    <3>2. b.zoom \in Int /\ b.map \in Maps /\ MinZoom[b.map] \in Int
      BY <1>0 DEF View, Batch
    <3>3. /\ Fit(view') /\ KeepsMouse(view, view')
          /\ b.map = view.fg /\ b.zoom >= MinZoom[b.map] => KeepsLevels(view, view')
      BY <1>0, <3>1, ShowRangeStep
    <3>4. \/ KeepsLevels(view, view')
          \/ b.map # view.fg \/ b.zoom < MinZoom[b.map]
      BY <3>2, <3>3
    <3>5. QED
      BY <3>1, <3>3, <3>4
  <2>7. CASE \E b \in view.rows : Cancel(b)
    BY <1>0, <2>7, CancelStep DEF Keeps
  <2>8. CASE FixClick \/ AgpsClick
    BY <1>0, <2>8, ClickStep DEF Keeps
  <2>9. CASE FixMark("src", "dst") \/ FixMark("dst", "src")
    BY <1>0, <2>9, FixMarkStep DEF Keeps
  <2>10. CASE FixSet
    BY <1>0, <2>10, FixSetStep DEF Keeps
  <2>11. CASE FixReset
    BY <1>0, <2>11, FixResetStep DEF Keeps
  <2>12. CASE Submit
    BY <1>0, <2>12, SubmitStep DEF Keeps
  <2>13. QED
    BY <1>3, <2>1, <2>2, <2>3, <2>4, <2>5, <2>6, <2>7, <2>8, <2>9, <2>10, <2>11, <2>12
    DEF Contexts
<1>4. CASE Late
  <2>1. PICK r \in Requests : AgpsFails(r) \/ AgpsAnswered(r) \/ AgpsRuns(r)
    BY <1>4 DEF Late
  <2>2. CASE AgpsFails(r)
    BY <1>0, <2>2, AgpsFailsStep DEF Keeps
  <2>3. CASE AgpsAnswered(r)
    <3>1. view' = view
      BY <2>3 DEF AgpsAnswered
    <3>2. QED
      BY <1>0, <3>1, SameKeeps DEF Keeps
  <2>4. CASE AgpsRuns(r)
    BY <1>0, <2>1, <2>4, AgpsRunsStep
  <2>5. QED
    BY <2>1, <2>2, <2>3, <2>4
<1>5. CASE Gps
  BY <1>0, <1>5, GpsStep DEF Keeps
<1>6. QED
  BY <1>1, <1>2, <1>3, <1>4, <1>5 DEF Next

\* The view of a new session, before and after the GPS runs.
LEMMA ViewInit ==
  ASSUME Init
  PROVE  Fit(view)
<1> DEFINE v == InitView(LastMap)
           w == [v EXCEPT !.gps = "RUNNING", !.ctx = "gps", !.redraw = "gps"]
<1>0. LastMap \in Maps /\ "none" \in Place
  BY SessionAssumption DEF Place
<1>1. view = v \/ view = w
  BY DEF Init
<1>2. PICK ms : ms = [k \in Marks |-> "none"]
  OBVIOUS
<1>3. ms \in [Marks -> Place] /\ \A k \in Marks : ms[k] = "none"
  BY <1>0, <1>2
<1>4. MinZoom \in [Maps -> Int] /\ {LastMap} \in SUBSET Maps
  BY <1>0
<1>5. v \in View
  BY <1>0, <1>2, <1>3, <1>4 DEF InitView, View
<1>6. /\ v.ctx = "none" /\ v.frozen = FALSE /\ v.mouse = "default" /\ v.redraw = "default"
      /\ v.fg = LastMap /\ v.fgTiles = {LastMap} /\ v.bgTiles = {} /\ v.marks = ms
  BY <1>2 DEF InitView
<1> HIDE DEF v
<1>7. w \in View
  BY <1>5 DEF View
<1>8. /\ w.ctx = "gps" /\ w.frozen = FALSE /\ w.mouse = "default" /\ w.redraw = "gps"
      /\ w.fg = LastMap /\ w.fgTiles = {LastMap} /\ w.bgTiles = {} /\ w.marks = ms
  BY <1>5, <1>6 DEF View
<1> HIDE DEF w
<1>9. Fit(v)
  BY <1>3, <1>5, <1>6, ContextMarks
  DEF Fit, Sound, Owned, Cached, ClickKept, Shut, Quiet, Lockable
<1>10. Fit(w)
  BY <1>3, <1>7, <1>8, ContextMarks
  DEF Fit, Sound, Owned, Cached, ClickKept, Shut, Quiet, Lockable
<1>11. QED
  BY <1>1, <1>9, <1>10

\* The invariant holds at the start.
LEMMA IInvInit == Init => IInv
<1> SUFFICES ASSUME Init PROVE IInv
  OBVIOUS
<1>1. Fit(view)
  BY ViewInit
<1>2. BatchesOK
  BY DEF Init, BatchesOK
<1>3. ZoomerOK
  <2>1. PICK f \in From : f = <<>>
    BY DEF From
  <2>2. zoomer = [pc |-> "off", up |-> FALSE, hi |-> 0, i |-> 0, z |-> 0, from |-> f,
                  stray |-> FALSE]
    BY <2>1 DEF Init, NoZoomer
  <2>3. zoomer \in Zoomer
    BY <2>2 DEF Zoomer
  <2>4. zoomer.pc = "off" /\ zoomer.i = 0 /\ zoomer.hi = 0
    BY <2>2
  <2>5. stop \in BOOLEAN /\ held \in BOOLEAN
    BY DEF Init
  <2>6. QED
    BY <2>3, <2>4, <2>5 DEF ZoomerOK
<1>4. SlotOK
  BY SessionAssumption DEF Init, SlotOK
<1>5. QED
  BY <1>1, <1>2, <1>3, <1>4 DEF IInv

\* Every step keeps the invariant.
LEMMA IInvNext == IInv /\ [Next]_vars => IInv'
<1> SUFFICES ASSUME IInv, [Next]_vars PROVE IInv'
  OBVIOUS
<1>1. CASE Next
  <2>1. Fit(view')
    BY <1>1, ViewNext
  <2>2. BatchesOK' /\ ZoomerOK' /\ SlotOK'
    BY <1>1, BatchesNext, ZoomerNext, SlotNext DEF IInv
  <2>3. Fit(view)'
    BY <2>1 DEF Fit, Sound, Owned, Cached, ClickKept, Shut, Quiet
  <2>4. QED
    BY <2>2, <2>3 DEF IInv
<1>2. CASE UNCHANGED vars
  <2>1. /\ view' = view /\ zoomer' = zoomer /\ stop' = stop /\ held' = held
        /\ batches' = batches /\ agps' = agps /\ slot' = slot
    BY <1>2 DEF vars, zoomVars, agpsVars
  <2>2. QED
    BY <2>1 DEF IInv, Fit, Sound, Owned, Cached, ClickKept, Shut, Quiet, BatchesOK, ZoomerOK,
                Counting, SlotOK
<1>3. QED
  BY <1>1, <1>2

\* The inductive invariant holds in every state of the session.
THEOREM SessionInvariant == Spec => []IInv
BY IInvInit, IInvNext, PTL DEF Spec

\* The types of the session, and the bound of the zoom thread (change_zoom_routine).
THEOREM SessionTypeCorrect == Spec => []MapTypeOK
<1>1. IInv => MapTypeOK
  <2> SUFFICES ASSUME IInv PROVE MapTypeOK
    OBVIOUS
  <2>1. view \in View /\ ZoomerOK /\ SlotOK
    BY FitView DEF IInv
  <2>2. /\ view.tab \in {"view", "menu", "tiles"} /\ view.ctx \in Lockable \cup {"none", "gps"}
        /\ view.gps \in {"SUSPENDING", "STARTING", "RUNNING"}
        /\ view.locks \subseteq Lockable
        /\ view.mouse \in Lockable \cup {"default"}
        /\ view.redraw \in Lockable \cup {"default", "gps"}
        /\ view.fg \in Maps /\ view.bg \in Maps \cup {NoMap}
        /\ view.corrected \cup view.fgTiles \cup view.bgTiles \subseteq Maps
        /\ view.zoom \in [Maps -> Int] /\ view.marks \in [Marks -> Place]
    BY <2>1 DEF View
  <2>3. \A b \in {view.menu, view.zin, view.zout, view.frozen, view.dirty, view.chosen,
                  view.geo, view.fixable, view.settable, view.lockable, view.submittable,
                  stop, held} : b \in BOOLEAN
    BY <2>1 DEF View, ZoomerOK
  <2>4. /\ zoomer.pc \in {"off", "born", "loop", "apply"} /\ zoomer.up \in BOOLEAN
        /\ zoomer.i <= zoomer.hi + 1 \/ zoomer.i = 1
    BY <2>1 DEF ZoomerOK, Zoomer
  <2>5. /\ agps \in [Requests -> {"none", "asking", "issued", "over"}]
        /\ \A r \in Requests : slot = r <=> agps[r] = "issued"
    BY <2>1 DEF SlotOK
  <2>6. QED
    BY <2>2, <2>3, <2>4, <2>5 DEF MapTypeOK
<1>2. QED
  BY <1>1, SessionInvariant, PTL

\* Whoever has the mouse or the drawing of the map has its own lock button down, and a frozen view
\* can be thawed (map_config_main_view, map_set_redraw_func).
THEOREM LockOwnsViewCorrect == Spec => []LockOwnsView
<1>1. IInv => LockOwnsView
  BY DEF IInv, Fit, Sound, Owned, LockOwnsView
<1>2. QED
  BY <1>1, SessionInvariant, PTL

\* The menu is out of reach while a context is shown that works on the map (switch_to_ctx_tab).
THEOREM MenuClosedCorrect == Spec => []MenuClosedInContext
<1>1. IInv => MenuClosedInContext
  BY DEF IInv, Fit, Shut, MenuClosedInContext
<1>2. QED
  BY <1>1, SessionInvariant, PTL

\* A layer holds no tile of a map it no longer shows (set_fg_button_clicked, tilecache_cleanup).
THEOREM CacheOfLayerCorrect == Spec => []CacheOfLayer
<1>1. IInv => CacheOfLayer
  BY DEF IInv, Fit, Sound, Cached, CacheOfLayer
<1>2. QED
  BY <1>1, SessionInvariant, PTL

\* A level leaves its range through a stray zoom thread or a stale row only.
THEOREM ZoomLeavesRangeCorrect == Spec => ZoomLeavesRange
<1> DEFINE A == \A m \in Maps :
       view.zoom[m] \in Levels(m) /\ view'.zoom[m] \notin Levels(m) =>
         \/ ZoomApplies /\ (zoomer.stray \/ zoomer.from # Here)
         \/ \E b \in view.rows :
              (b.map # view.fg \/ b.zoom < MinZoom[b.map]) /\ ShowRange(b)
<1>1. IInv /\ [Next]_vars => [A]_vars
  BY ViewNext DEF KeepsLevels
<1>2. QED
  BY <1>1, SessionInvariant, PTL DEF Spec, ZoomLeavesRange

\* A context that has the mouse loses it to its own button, or to a late A-GPS answer.
THEOREM LockKeepsMouseCorrect == Spec => LockKeepsMouse
<1> DEFINE A == OwnsMouse /\ view'.ctx = view.ctx /\ view'.mouse # view.mouse =>
       \/ view.ctx \notin view'.locks
       \/ "agps" \in view.locks \ view'.locks /\ \E r \in Requests : AgpsRuns(r)
<1>1. IInv /\ [Next]_vars => [A]_vars
  BY ViewNext DEF KeepsMouse, Mousing, OwnsMouse
<1>2. QED
  BY <1>1, SessionInvariant, PTL DEF Spec, LockKeepsMouse

\* The map does not move under a mark of a context that has the mouse, but for four causes.
THEOREM MarksHoldCorrect == Spec => MarksHold
<1> DEFINE A == \A k \in Marks :
       /\ OwnsMouse /\ view'.ctx = view.ctx /\ k \in MarkOf[view.ctx]
       /\ view.marks[k] = "here" /\ view'.marks[k] = "moved"
       => ZoomApplies \/ Configure \/ Drag \/ \E b \in view.rows : ShowRange(b)
<1>1. IInv /\ [Next]_vars => [A]_vars
  BY ViewNext DEF KeepsMarks, Mousing, OwnsMouse
<1>2. QED
  BY <1>1, SessionInvariant, PTL DEF Spec, MarksHold
=============================================================================
