------------------------------ MODULE MapView ------------------------------
(***************************************************************************)
(* The map view (tab_view.c, mouse.c, ctx_tab_* of tab_menu.c): what the   *)
(* callbacks of the main thread do to it, as operators from views to       *)
(* views, so that a handler is the composition of the calls it makes.      *)
(* MapSession has the handlers, the threads and the properties.            *)
(*                                                                         *)
(* A view is a record of the widgets and globals that decide what a touch  *)
(* of the screen means: the page and the context shown, the sensitivity of *)
(* the buttons, who handles the mouse and the drawing, the two layers and  *)
(* the zoom level of every map.  Pixels are abstracted to one question: is *)
(* a mark the user made on the screen still over the place it was made on? *)
(***************************************************************************)
EXTENDS Integers

CONSTANTS
  Maps,      \* the map repositories
  NoMap,     \* no background map
  MinZoom,   \* min_zoom of every map
  MaxZoom    \* max_zoom of every map

\* The ranges of any two maps overlap.  Expose clamps the zoom level of the foreground map to the
\* range of the background map, and to nothing else.
ASSUME MapAssumption ==
  /\ NoMap \notin Maps /\ Maps # {}
  /\ MinZoom \in [Maps -> Nat] /\ MaxZoom \in [Maps -> Nat]
  /\ \A m, n \in Maps : MinZoom[m] <= MaxZoom[n]

Lockable == {"agps", "dl", "fix", "scratch"}       \* contexts with a "lock view" button
Marks == {"area", "last", "click", "src", "dst", "point"}
MarkOf == [dl |-> {"area", "last"}, fix |-> {"click", "src", "dst"}, agps |-> {"point"},
           scratch |-> {}]

Place == {"none", "here", "moved"}    \* no mark; where it was made; the map moved under it

\* The buttons of a context that was not shown yet are off: its on_show sets them first.
InitView(m) ==
  [tab |-> "view", ctx |-> "none", gps |-> "SUSPENDING", menu |-> TRUE,
   zin |-> MinZoom[m] < MaxZoom[m], zout |-> MinZoom[m] = MaxZoom[m],
   frozen |-> FALSE, mouse |-> "default", redraw |-> "default", locks |-> {},
   fg |-> m, bg |-> NoMap, zoom |-> MinZoom, dirty |-> FALSE, fgTiles |-> {m}, bgTiles |-> {},
   marks |-> [k \in Marks |-> "none"], chosen |-> FALSE, geo |-> FALSE, rows |-> {},
   fixable |-> FALSE, settable |-> FALSE, corrected |-> {},
   lockable |-> FALSE, submittable |-> FALSE]

Set(v, ks, p) == [v EXCEPT !.marks = [k \in Marks |-> IF k \in ks THEN p ELSE @[k]]]

-----------------------------------------------------------------------------
(* Drawing.  dlarea_redraw_func computes the rectangle of a shown batch anew; a background map    *)
(* that covers the zoom level follows the foreground map.  A layer keeps the tiles it draws in a  *)
(* cache of its own, which knows them by level and position but not by map: fgTiles and bgTiles   *)
(* are the maps of which it may hold tiles.                                                       *)

Redrawn(v) == IF v.redraw = "dl" /\ v.geo THEN Set(v, {"area"}, "here") ELSE v

\* get_tile, tilecache_add
Held(tiles, m) == tiles \cup {m}

\* Slip: the level of the background map is set whatever its range.
Blended_anyLevel(v) ==
  IF v.bg # NoMap
  THEN [v EXCEPT !.zoom[v.bg] = v.zoom[v.fg], !.bgTiles = Held(@, v.bg)] ELSE v
Blended(v) ==
  IF v.bg # NoMap /\ v.zoom[v.fg] \in MinZoom[v.bg] .. MaxZoom[v.bg]
  THEN [v EXCEPT !.zoom[v.bg] = v.zoom[v.fg], !.bgTiles = Held(@, v.bg)]
  ELSE v

Painted(v) == Blended([v EXCEPT !.fgTiles = Held(@, v.fg)])
Invalidated(v) == Redrawn(Painted(v))

Shifted(v) == Set(v, {k \in Marks : v.marks[k] = "here"}, "moved")

\* map_zoom_to: sets the buttons whether or not the view is locked
ZoomedTo(v, z) ==
  Invalidated(Shifted([v EXCEPT !.zin = z < MaxZoom[v.fg], !.zout = z > MinZoom[v.fg],
                                !.zoom[v.fg] = z]))

Centered(v) == Invalidated(Shifted(v))

\* drawing_area_expose_event
Least(a, b) == IF a < b THEN a ELSE b
Exposed(v) ==
  IF v.dirty
  THEN ZoomedTo([v EXCEPT !.dirty = FALSE],
                IF v.bg = NoMap THEN v.zoom[v.fg] ELSE Least(v.zoom[v.fg], MaxZoom[v.bg]))
  ELSE Redrawn(v)

-----------------------------------------------------------------------------
(* Locking: map_set_redraw_func, map_config_main_view and the toggle handlers of the contexts.    *)

DefaultRedraw(v) == [v EXCEPT !.redraw = IF v.gps = "RUNNING" THEN "gps" ELSE "default"]

Frozen(v, c) ==
  [v EXCEPT !.zin = FALSE, !.zout = FALSE, !.frozen = TRUE, !.mouse = c]

\* map_init_zoom tests the upper bound first
Thawed(v) ==
  LET z == v.zoom[v.fg]
      w == Invalidated([v EXCEPT !.frozen = FALSE,
             !.zin = z # MaxZoom[v.fg], !.zout = z = MaxZoom[v.fg] \/ z # MinZoom[v.fg]])
  IN  [w EXCEPT !.mouse = "default"]

LockedBy(v, c) == [Frozen(v, c) EXCEPT !.redraw = c]
\* Slip: the context goes on drawing the view.
UnlockedBy_keepsDrawing(v, c) == Thawed(Set(v, MarkOf[c], "none"))
UnlockedBy(v, c) ==
  Thawed(DefaultRedraw(Set(v, MarkOf[c], "none")))

\* gtk_toggle_button_set_active: the handler runs only when the state of the button changes
Toggled(v, c, on) ==
  IF (c \in v.locks) = on THEN v
  ELSE IF on THEN LockedBy([v EXCEPT !.locks = @ \cup {c}], c)
  ELSE UnlockedBy([v EXCEPT !.locks = @ \ {c}], c)

-----------------------------------------------------------------------------
(* Contexts and pages.  Batches are the unfinished batch downloads, as records [map, zoom].       *)

\* update_batch_dl_status: returns early when the map has no batch, and leaves the rows
Listed(v, batches) ==
  LET own == {b \in batches : b.map = v.fg}
  IN  IF own = {} THEN v ELSE [v EXCEPT !.rows = own]

\* Slip: the view is thawed whether or not the button was down.
AgpsOnShow_thaws(v) ==
  [UnlockedBy([v EXCEPT !.locks = @ \ {"agps"}], "agps")
     EXCEPT !.lockable = TRUE, !.submittable = FALSE]
AgpsOnShow(v) ==
  [Toggled(Set(v, {"point"}, "none"), "agps", FALSE)
     EXCEPT !.lockable = TRUE, !.submittable = FALSE]
DlOnShow(v, batches) ==
  [Set(Listed(v, batches), {"area", "last"}, "none") EXCEPT !.chosen = FALSE, !.geo = FALSE]
\* Slip: the marks of the last time stay.
FixOnShow_keepsMarks(v) == [v EXCEPT !.fixable = FALSE, !.settable = FALSE]
FixOnShow(v) ==
  [Set(v, {"click", "src", "dst"}, "none") EXCEPT !.fixable = FALSE, !.settable = FALSE]

\* With no context, view_tab_on_show calls through g_ctx_panes[-1], the memory before the table:
\* a handler that is none of the panes' and leaves the view alone.
OnShow(v, c, batches) ==
  CASE c = "gps"  -> DefaultRedraw(v)
    [] c = "agps" -> AgpsOnShow(v)
    [] c = "dl"   -> DlOnShow(v, batches)
    [] c = "fix"  -> FixOnShow(v)
    [] OTHER      -> v

\* Slip: the menu button is left as it is.
SwitchedCtx_menuKept(v, c, batches) ==
  CASE c = "none" -> [v EXCEPT !.ctx = "none"]
    [] c = "gps" /\ v.gps = "SUSPENDING" -> [v EXCEPT !.menu = TRUE, !.ctx = "none"]
    [] OTHER -> [OnShow([v EXCEPT !.menu = @ \/ c = "gps"], c, batches) EXCEPT !.ctx = c]
SwitchedCtx(v, c, batches) ==
  CASE c = "none" -> [v EXCEPT !.ctx = "none"]
    [] c = "gps"  ->
         IF v.gps = "SUSPENDING" THEN [v EXCEPT !.menu = TRUE, !.ctx = "none"]
         ELSE [OnShow([v EXCEPT !.menu = TRUE], c, batches) EXCEPT !.ctx = c]
    [] OTHER      -> [OnShow([v EXCEPT !.menu = FALSE], c, batches) EXCEPT !.ctx = c]

\* view_tab_on_show: the context's handler, then poll_update_ui, which centres the view when the
\* cursor left it, frozen or not
ShownViews(v, batches) ==
  LET w == OnShow(v, v.ctx, batches) IN {w, Centered(w)}

MainViews(v, c, batches) ==
  LET w == SwitchedCtx(v, c, batches)
  IN  IF v.tab = "view" THEN {w} ELSE ShownViews([w EXCEPT !.tab = "view"], batches)
=============================================================================
