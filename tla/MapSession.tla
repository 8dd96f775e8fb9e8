---------------------------- MODULE MapSession ----------------------------
(***************************************************************************)
(* A session with the map view: the contexts that lock it (batch download, *)
(* map correction, scratch, A-GPS), the pages that change the maps under   *)
(* it, the GPS that takes it over, and the threads that act on it late:    *)
(* the zoom thread, which goes on after its button was released, and the   *)
(* A-GPS request, whose answer closes whatever context is shown by then.   *)
(* Every callback of the main thread holds the UI lock and is one action.  *)
(* The replay of a track is TrackReplay.                                   *)
(***************************************************************************)
EXTENDS MapView, FiniteSets

CONSTANTS
  LastMap,      \* the map of the last session, from the configuration
  Requests,     \* identifiers of the A-GPS threads
  MaxBatches,   \* bound of the model: batch downloads
  MaxActs       \* bound of the model: locks, zoom buttons, changes of a map or of the GPS state

\* "free" says that the command slot holds no request.
ASSUME SessionAssumption ==
  /\ LastMap \in Maps /\ "free" \notin Requests
  /\ MaxBatches \in Nat /\ MaxActs \in Nat

VARIABLES
  view,      \* the view, see MapView
  zoomer,    \* change_zoom_routine: pc and locals; pc is "off" when change_zoom_thread_tid is 0
  stop,      \* stop, which ends the zoom thread
  held,      \* is a finger on a zoom button?
  batches,   \* the batch downloads of all maps
  agps,      \* the A-GPS threads
  slot,      \* ctrl_cmd: free, or the request whose data it carries
  acts       \* bound of the model

zoomVars == <<zoomer, stop, held>>
agpsVars == <<agps, slot>>
vars == <<view, zoomVars, batches, agpsVars, acts>>

\* History: from, the map and the level at which the thread read its bound; stray, has it counted
\* from another one?
NoZoomer == [pc |-> "off", up |-> FALSE, hi |-> 0, i |-> 0, z |-> 0, from |-> <<>>,
             stray |-> FALSE]
Here == <<view.fg, view.zoom[view.fg]>>

Init ==
  /\ LET v == InitView(LastMap)
     IN  view \in {v, [v EXCEPT !.gps = "RUNNING", !.ctx = "gps", !.redraw = "gps"]}
  /\ zoomer = NoZoomer /\ stop = FALSE /\ held = FALSE
  /\ batches = {}
  /\ agps = [r \in Requests |-> "none"] /\ slot = "free"
  /\ acts = 0

Count == acts < MaxActs /\ acts' = acts + 1

\* A finger does one thing at a time, and touches the map only after it was painted.
Free == ~held /\ UNCHANGED <<zoomVars, agpsVars>>
OnPage(t) == view.tab = t /\ Free
OnMap == OnPage("view") /\ ~view.dirty
InContext(c) == OnMap /\ view.ctx = c

-----------------------------------------------------------------------------
(* The zoom buttons and the thread they start.                                                    *)

\* zoom_button_pressed; when the thread cannot be created nothing changes
PressZoom(up) ==
  /\ view.tab = "view" /\ ~held /\ IF up THEN view.zin ELSE view.zout
  /\ held' = TRUE
  /\ Count
  /\ \/ zoomer.pc = "off" /\ zoomer' = [NoZoomer EXCEPT !.pc = "born", !.up = up]
     \/ UNCHANGED zoomer
  /\ UNCHANGED <<view, stop, batches, agpsVars>>

ReleaseZoom ==
  /\ held
  /\ held' = FALSE /\ stop' = TRUE
  /\ UNCHANGED <<view, zoomer, batches, agpsVars, acts>>

\* How many levels are left, seen from the current one.
Room(v, up) ==
  IF up THEN MaxZoom[v.fg] - v.zoom[v.fg] ELSE v.zoom[v.fg] - MinZoom[v.fg]

ZoomStarts ==
  /\ zoomer.pc = "born"
  /\ stop' = FALSE
  /\ zoomer' = [zoomer EXCEPT !.pc = "loop", !.hi = Room(view, zoomer.up), !.i = 1,
                              !.z = view.zoom[view.fg], !.from = Here]
  /\ UNCHANGED <<view, held, batches, agpsVars, acts>>

\* Slip: the bound is not looked at.
ZoomGoesOn_unbounded == ~stop
ZoomGoesOn == ~stop /\ zoomer.i <= zoomer.hi

\* One round of the loop: the label shows the level, which is counted from the map's current one.
ZoomCounts ==
  /\ zoomer.pc = "loop" /\ ZoomGoesOn
  /\ zoomer' = [zoomer EXCEPT !.i = @ + 1, !.stray = @ \/ zoomer.from # Here,
       !.z = IF zoomer.up THEN view.zoom[view.fg] + zoomer.i ELSE view.zoom[view.fg] - zoomer.i]
  /\ UNCHANGED <<view, stop, held, batches, agpsVars, acts>>

ZoomStops ==
  /\ zoomer.pc = "loop" /\ ~ZoomGoesOn
  /\ zoomer' = IF zoomer.z = view.zoom[view.fg] THEN NoZoomer ELSE [zoomer EXCEPT !.pc = "apply"]
  /\ UNCHANGED <<view, stop, held, batches, agpsVars, acts>>

ZoomApplies ==
  /\ zoomer.pc = "apply"
  /\ view' = ZoomedTo(view, zoomer.z)
  /\ zoomer' = NoZoomer
  /\ UNCHANGED <<stop, held, batches, agpsVars, acts>>

-----------------------------------------------------------------------------
(* The map and the pages.                                                                         *)

Expose ==
  /\ view.tab = "view" /\ view' = Exposed(view)
  /\ UNCHANGED <<zoomVars, batches, agpsVars, acts>>

\* drawing_area_configure_event: the display was turned
Configure ==
  /\ view.tab = "view" /\ Count
  /\ view' = Centered(view)
  /\ UNCHANGED <<zoomVars, batches, agpsVars>>

\* mouse_released of the view pans, the center button centres; the button is off on a locked view
Pan == OnMap /\ view.mouse = "default" /\ view' = Centered(view) /\ UNCHANGED <<batches, acts>>
Center == OnMap /\ ~view.frozen /\ view' = Centered(view) /\ UNCHANGED <<batches, acts>>

OpenPage(from, to) ==
  /\ OnPage(from) /\ (from = "view" => view.menu)
  /\ view' = [view EXCEPT !.tab = to]
  /\ UNCHANGED <<batches, acts>>

BackToView ==
  /\ ~held /\ view.tab # "view"
  /\ view' \in ShownViews([view EXCEPT !.tab = "view"], batches)
  /\ UNCHANGED <<zoomVars, batches, agpsVars, acts>>

SetFg(v, m) == IF v.fg = m THEN v ELSE [v EXCEPT !.fg = m, !.dirty = TRUE, !.fgTiles = {}]

\* Slip: the cache of the layer is not emptied.
SetBg_keepsTiles(v, m) == IF v.bg = m THEN v ELSE [v EXCEPT !.bg = m, !.dirty = TRUE]
\* set_bg_button_clicked, clear_bg_button_clicked
SetBg(v, m) == IF v.bg = m THEN v ELSE [v EXCEPT !.bg = m, !.dirty = TRUE, !.bgTiles = {}]

\* A map is selected that is on no layer.  The second button stays on when the first was pressed,
\* so one map may come to be both.
SetLayers(m, layers) ==
  /\ OnPage("tiles") /\ m \notin {view.fg, view.bg} /\ layers # {}
  /\ Count
  /\ LET v == IF "fg" \in layers THEN SetFg(view, m) ELSE view
     IN  view' = IF "bg" \in layers THEN SetBg(v, m) ELSE v
  /\ UNCHANGED batches

ClearBg(v) == SetBg(v, NoMap)

ClearBgClicked ==
  /\ OnPage("tiles") /\ view.bg # NoMap
  /\ view' = ClearBg(view) /\ UNCHANGED <<batches, acts>>

AlphaToggled ==
  /\ OnPage("tiles") /\ view.bg # NoMap
  /\ view' = [view EXCEPT !.dirty = TRUE] /\ UNCHANGED <<batches, acts>>

\* map_front_download_callback_func, called by a download thread: a tile of a layer has come
FrontDownloaded ==
  /\ view.tab = "view" /\ view' = Invalidated(view)
  /\ UNCHANGED <<zoomVars, batches, agpsVars, acts>>

OpenContext(v, c) == view' \in MainViews(v, c, batches) /\ UNCHANGED <<batches, acts>>

OpenDownload(m) == OnPage("tiles") /\ OpenContext(SetFg(ClearBg(view), m), "dl")
OpenFixMap(m) ==
  OnPage("tiles") /\ OpenContext(SetFg(IF view.bg = m THEN ClearBg(view) ELSE view, m), "fix")
OpenScratch == OnPage("menu") /\ OpenContext(view, "scratch")
OpenAgps == OnPage("menu") /\ view.gps = "RUNNING" /\ OpenContext(view, "agps")

-----------------------------------------------------------------------------
(* The contexts.                                                                                  *)

LockClicked(c) ==
  /\ InContext(c) /\ (c = "agps" => view.lockable)
  /\ IF c \in view.locks THEN UNCHANGED acts ELSE Count
  /\ view' = Toggled(view, c, c \notin view.locks)
  /\ UNCHANGED batches

\* agps_online_close resets the mouse of a locked view and leaves it locked.
AgpsClosed(v) ==
  MainViews(IF "agps" \in v.locks THEN [v EXCEPT !.mouse = "default"] ELSE v, "gps", batches)

\* close_button_clicked of the four contexts
DefaultMouse(v) == [v EXCEPT !.mouse = "default"]
ClosedViews(c) ==
  IF c = "agps" THEN AgpsClosed(view)
  ELSE LET v == Toggled(view, c, FALSE)
       IN  MainViews(CASE c = "dl"  -> Set(DefaultMouse(v), {"area", "last"}, "none")
                       [] c = "fix" -> DefaultMouse(v)
                       [] OTHER     -> v, "gps", batches)
Close(c) == InContext(c) /\ view' \in ClosedViews(c) /\ UNCHANGED <<batches, acts>>

\* dlarea_mouse_released: an area too small restores the previous one, wherever that is by now
Drag ==
  /\ OnMap /\ view.mouse = "dl"
  /\ view' \in {[Set(view, {"area", "last"}, "here") EXCEPT !.chosen = TRUE, !.geo = FALSE],
                [Set(view, {"area"}, view.marks.last) EXCEPT !.geo = FALSE]}
  /\ UNCHANGED <<batches, acts>>

\* dlarea_level_button_clicked, tile_batch_download: a batch begins one level below the current one
RequestBatch ==
  /\ InContext("dl") /\ view.chosen /\ view.marks.area # "none"
  /\ view.zoom[view.fg] < MaxZoom[view.fg]
  /\ Cardinality(batches) < MaxBatches
  /\ batches' = batches \cup {[map |-> view.fg, zoom |-> view.zoom[view.fg]]}
  /\ UNCHANGED <<view, acts>>

\* the thread that refreshes the list every second, or for the last time
Refresh ==
  /\ view' = Listed(view, batches)
  /\ UNCHANGED <<zoomVars, batches, agpsVars, acts>>

\* batchlist_treeview_row_selected, show_batch_download_range
ShowRange(b) ==
  /\ InContext("dl") /\ b \in view.rows
  /\ view' = ZoomedTo(Toggled([view EXCEPT !.geo = TRUE], "dl", TRUE), b.zoom)
  /\ UNCHANGED <<batches, acts>>

\* cancel_batch_button_clicked
Cancel(b) ==
  /\ InContext("dl") /\ b \in view.rows
  /\ batches' = batches \ {b}
  /\ view' = [view EXCEPT !.rows = @ \ {b}]
  /\ UNCHANGED acts

FixClick ==
  /\ OnMap /\ view.mouse = "fix"
  /\ view' = [Set(view, {"click"}, "here") EXCEPT !.fixable = TRUE]
  /\ UNCHANGED <<batches, acts>>

\* check, srcloc_button_clicked, destloc_button_clicked: too close to the other mark is refused
FixMark(k, other) ==
  /\ InContext("fix") /\ view.fixable /\ view.marks.click # "none"
  /\ view' = [view EXCEPT !.marks[k] = view.marks.click, !.marks["click"] = "none",
                          !.fixable = view.marks[other] = "none",
                          !.settable = @ \/ view.marks[other] # "none"]
  /\ UNCHANGED <<batches, acts>>

\* set_button_clicked, reset_button_clicked: the correction moves the map under the cross
FixSet ==
  /\ InContext("fix") /\ view.settable
  /\ LET v == Toggled(Set(view, MarkOf["fix"], "none"), "fix", FALSE)
     IN  view' = ZoomedTo([v EXCEPT !.settable = FALSE, !.corrected = @ \cup {v.fg}],
                          v.zoom[v.fg])
  /\ UNCHANGED <<batches, acts>>
FixReset ==
  /\ InContext("fix") /\ view.fg \in view.corrected
  /\ LET v == Set(view, MarkOf["fix"], "none")
     IN  view' = ZoomedTo([v EXCEPT !.corrected = @ \ {v.fg}], v.zoom[v.fg])
  /\ UNCHANGED <<batches, acts>>

AgpsClick ==
  /\ OnMap /\ view.mouse = "agps"
  /\ view' = [Set(view, {"point"}, "here") EXCEPT !.submittable = TRUE]
  /\ UNCHANGED <<batches, acts>>

-----------------------------------------------------------------------------
(* The A-GPS request.  The point is withdrawn by the very handler that starts the thread that     *)
(* reads it.                                                                                      *)

SubmittedFrom(v) ==
  [Toggled(v, "agps", FALSE) EXCEPT !.lockable = FALSE, !.submittable = FALSE]

Submit ==
  /\ view.tab = "view" /\ ~held /\ view.ctx = "agps" /\ view.submittable
  /\ \/ UNCHANGED agps /\ view' = SubmittedFrom(view)                 \* the position is known
     \/ \E v \in AgpsClosed(view) : view' = SubmittedFrom(v) /\ UNCHANGED agps   \* no thread
     \/ \E r \in Requests :
          /\ agps[r] = "none"
          /\ agps' = [agps EXCEPT ![r] = "asking"] /\ view' = SubmittedFrom(view)
  /\ UNCHANGED <<zoomVars, batches, slot, acts>>

\* agps_online_routine: no memory, no answer, or a command slot that is taken, by another request
\* or by a command of the user
AgpsFails(r) ==
  /\ agps[r] = "asking"
  /\ agps' = [agps EXCEPT ![r] = "over"]
  /\ view' \in AgpsClosed(view)
  /\ UNCHANGED <<zoomVars, batches, slot, acts>>

AgpsAnswered(r) ==
  /\ agps[r] = "asking" /\ slot = "free"
  /\ slot' = r /\ agps' = [agps EXCEPT ![r] = "issued"]
  /\ UNCHANGED <<view, zoomVars, batches, acts>>

\* agps_online_cmd: data that cannot be written bring the context's buttons back
AgpsWritten(r, v) == v \in AgpsClosed(view) \cup {OnShow(view, "agps", batches)}

\* through the polling thread, or in the A-GPS thread itself when ogpsd polls the receiver
AgpsRuns(r) ==
  /\ \/ agps[r] = "issued" /\ slot = r /\ view.gps = "RUNNING" /\ slot' = "free"
     \/ agps[r] = "asking" /\ UNCHANGED slot
  /\ agps' = [agps EXCEPT ![r] = "over"]
  /\ AgpsWritten(r, view')
  /\ UNCHANGED <<zoomVars, batches, acts>>

-----------------------------------------------------------------------------
(* The GPS: ctx_gpsfix_on_poll_state_changed, update_tab_on_poll_state_changed.                   *)

GpsChanges(to) ==
  /\ Count
  /\ view' \in
       LET v == [view EXCEPT !.gps = to]
           Update(w) == IF w.tab = "view" THEN ShownViews(w, batches) ELSE {w}
       IN  CASE to = "STARTING"   -> MainViews(v, "gps", batches)
             [] to = "RUNNING"    ->
                  Update(IF v.ctx = "none" THEN SwitchedCtx(v, "gps", batches) ELSE v)
             [] to = "SUSPENDING" ->
                  Update(IF v.ctx = "gps" THEN SwitchedCtx(v, "none", batches) ELSE v)
  /\ UNCHANGED <<zoomVars, batches, agpsVars>>

GpsStarts == view.gps = "SUSPENDING" /\ GpsChanges("STARTING")
GpsRuns == view.gps = "STARTING" /\ GpsChanges("RUNNING")
GpsSuspends == view.gps \in {"STARTING", "RUNNING"} /\ GpsChanges("SUSPENDING")

-----------------------------------------------------------------------------
Zooming == ZoomStarts \/ ZoomCounts \/ ZoomStops \/ ZoomApplies
Pages ==
  \/ \E up \in BOOLEAN : PressZoom(up)
  \/ ReleaseZoom \/ Expose \/ Configure \/ Pan \/ Center \/ BackToView
  \/ OpenPage("view", "menu") \/ OpenPage("menu", "tiles") \/ OpenPage("tiles", "menu")
  \/ \E m \in Maps :
       \/ \E layers \in SUBSET {"fg", "bg"} : SetLayers(m, layers)
       \/ OpenDownload(m) \/ OpenFixMap(m)
  \/ ClearBgClicked \/ AlphaToggled \/ FrontDownloaded \/ OpenScratch \/ OpenAgps
Contexts ==
  \/ \E c \in Lockable : LockClicked(c) \/ Close(c)
  \/ Drag \/ RequestBatch \/ Refresh
  \/ \E b \in view.rows : ShowRange(b) \/ Cancel(b)
  \/ FixClick \/ FixMark("src", "dst") \/ FixMark("dst", "src") \/ FixSet \/ FixReset
  \/ AgpsClick \/ Submit
Late == \E r \in Requests : AgpsFails(r) \/ AgpsAnswered(r) \/ AgpsRuns(r)
Gps == GpsStarts \/ GpsRuns \/ GpsSuspends

Next == Zooming \/ Pages \/ Contexts \/ Late \/ Gps
Spec == Init /\ [][Next]_vars

-----------------------------------------------------------------------------
(* Properties.                                                                                    *)

\* The types of the session.  The zoom thread never counts past the bound it read at its start.
MapTypeOK ==
  /\ view.tab \in {"view", "menu", "tiles"} /\ view.ctx \in Lockable \cup {"none", "gps"}
  /\ view.gps \in {"SUSPENDING", "STARTING", "RUNNING"}
  /\ \A b \in {view.menu, view.zin, view.zout, view.frozen, view.dirty, view.chosen, view.geo,
               view.fixable, view.settable, view.lockable, view.submittable, stop, held} :
       b \in BOOLEAN
  /\ view.locks \subseteq Lockable
  /\ view.mouse \in Lockable \cup {"default"} /\ view.redraw \in Lockable \cup {"default", "gps"}
  /\ view.fg \in Maps /\ view.bg \in Maps \cup {NoMap}
  /\ view.corrected \cup view.fgTiles \cup view.bgTiles \subseteq Maps
  /\ view.zoom \in [Maps -> Int] /\ view.marks \in [Marks -> Place]
  /\ zoomer.pc \in {"off", "born", "loop", "apply"} /\ zoomer.up \in BOOLEAN
  /\ zoomer.i <= zoomer.hi + 1 \/ zoomer.i = 1
  /\ agps \in [Requests -> {"none", "asking", "issued", "over"}]
  /\ \A r \in Requests : slot = r <=> agps[r] = "issued"

\* The view is frozen only while some "lock view" button is down, so that the user can always
\* thaw it; and whoever handles the mouse or the drawing in place of the default has its own
\* button down.  Four contexts share one view, and the GPS, or a late A-GPS answer, closes them
\* without asking (switch_to_ctx_tab, map_config_main_view, map_set_redraw_func).
LockOwnsView ==
  /\ view.frozen => view.locks # {}
  /\ view.mouse # "default" => view.frozen /\ view.mouse \in view.locks
  /\ view.redraw \in Lockable => view.redraw \in view.locks

\* While a context is shown that works on the map, the menu is out of reach, and with it the page
\* that changes the maps: whatever opens and closes contexts, switch_to_ctx_tab keeps the menu
\* button in step.
MenuClosedInContext == view.tab = "view" /\ view.ctx \in Lockable => ~view.menu

\* A layer never holds tiles of a map it no longer shows: its cache, which would take them for
\* tiles of the new map, is emptied with every change of the map (set_fg_button_clicked and the
\* pages that call it, set_bg_button_clicked, clear_bg_button_clicked), and whatever draws the view
\* late, the zoom thread or a download that comes in, fills it with tiles of the new map only.
CacheOfLayer == view.fgTiles \subseteq {view.fg} /\ view.bgTiles \subseteq {view.bg}

\* The zoom level of a map leaves its range in two ways only: by a zoom thread that was started
\* on another map or at another level than it ends on (change_zoom_routine reads the bound once,
\* and the level in every round), or by a row of the batch list that stayed from another map
\* (update_batch_dl_status returns early) or was asked for below the range, where such a thread
\* had taken the map (tile_batch_download looks at the upper bound only).  Changing layers,
\* drawing and blending never do it.
Levels(m) == MinZoom[m] .. MaxZoom[m]
ZoomLeavesRange ==
  [][\A m \in Maps :
       view.zoom[m] \in Levels(m) /\ view'.zoom[m] \notin Levels(m) =>
         \/ ZoomApplies /\ (zoomer.stray \/ zoomer.from # Here)
         \/ \E b \in view.rows :
              (b.map # view.fg \/ b.zoom < MinZoom[b.map]) /\ ShowRange(b)]_vars

\* A context that is shown and has the view locked loses the mouse only to its own button, with one
\* exception: an A-GPS answer that could not be written shows the A-GPS buttons anew in the
\* background, and releases a lock left down there, which thaws the view under another context.
OwnsMouse == view.tab = "view" /\ view.ctx \in Lockable /\ view.mouse = view.ctx
LockKeepsMouse ==
  [][OwnsMouse /\ view'.ctx = view.ctx /\ view'.mouse # view.mouse =>
       \/ view.ctx \notin view'.locks
       \/ "agps" \in view.locks \ view'.locks /\ \E r \in Requests : AgpsRuns(r)]_vars

\* A mark on the screen stands for a place on the map.  While the context that made it stays shown
\* and has the mouse, the map does not move under the mark, except when the display is turned, by
\* a zoom thread that was released too late, and in the batch context by showing another batch's
\* range, after which a drag too short to be an area restores an area that has moved.
MarksHold ==
  [][\A k \in Marks :
       /\ OwnsMouse /\ view'.ctx = view.ctx /\ k \in MarkOf[view.ctx]
       /\ view.marks[k] = "here" /\ view'.marks[k] = "moved"
       => ZoomApplies \/ Configure \/ Drag \/ \E b \in view.rows : ShowRange(b)]_vars

=============================================================================
