# A TLA+ verification of omgps

omgps is a GPS and map viewer for a small Linux phone (C, GTK, D-Bus, pthreads).
This directory holds a TLA+ model of its concurrent core, the TLC runs that check
it on small instances, and TLAPS proofs of its safety properties. Paths below are
relative to `src/omgps/src/`.

## 1. Inventory

| Component | State | Operations | Talks to |
|---|---|---|---|
| Tile downloader, `tile_dl.c`, `tile.h` | per map: queue of front-end requests, list of batches, current batch, counters, thread slots; tile files and temporary files | prepare, add or cancel a batch, add a request, threads that serve both, fetch a tile, idle exit, deferred free | map view (requests, redraw), batch tab, HTTP, file system |
| HTTP client, `network.c` | sockets, descriptors, error state | connect with time-outs, send, read the answer into a file | downloader, A-GPS |
| GPS polling thread, `poll.c` | poll state, engine, `ask_suspend`, UART conflict, command slot | start, suspend, poll, switch engine, run a command | UBX over UART, gypsy over D-Bus, every tab, track recording |
| Batch tab, `ctx_dl_tiles.c` | rows of the list, refresh thread | create a batch, cancel with confirmation, refresh | tile downloader |
| Tile cache, `tile_cache.c` | FIFO list of at most 6 tiles | get, add, clear | map view |
| Map repositories, `map_repo.c` | list of maps and URL functions | parse configuration, build URLs | Python |
| Map view, `tab_view.c`, `mouse.c`, `tab_tile.c`, `ctx_*.c`, `wgs84.c`, ... | layers, level of every map, context shown, who handles mouse and drawing, marks | pan, zoom (with a thread), lock and unlock, switch contexts and pages, change maps, draw, request missing tiles | downloader, cache, GPS state, A-GPS |
| Menu and tabs, `tab_*.c`, `poll_ui.c`, `customized.c` | widgets, mostly copies of other state | buttons and dialogs | polling thread, settings |
| Track recording, `tab_track.c` | window of 300 records, file with a header | add, save a third, split, close | polling thread, settings |
| Replay, `ctx_track_replay.c` | records of a file, thread, five flags without a lock, sensitivity of the controls | open a file, start, pause, go to the end, turn, change the speed, close, exit | map view, GPS context, file |
| GPS protocol, `ubx.c`, `uart.c` | file descriptor, message buffers | open, read, write, poll a group, wait for an ACK | GPS device |
| D-Bus, `dbus_intf.c` | proxies, session, last fix | request and release the GPS, system and power signals | polling thread |
| A-GPS, `ctx_agps_online.c`, `network.c` | socket, dialogue state, received data | connect, log in, receive, hand over | polling thread |
| Settings, `settings.c` | configuration file | load, check, save | everything |
| Sound and Python, `sound.c`, `py_ext.c` | request flags, interpreter lock | play, set plug-in | polling thread, maps |
| Life cycle, `main.c`, `util.c` | pid file, signal handlers | start, clean up once | everything |

Three locks order the system: the GDK UI lock (held by every GTK callback, and
taken by the other threads to touch a widget; `confirm_dialog` releases it while
the dialog is open), the lock of each tile downloader (taken with or without the
UI lock, never the other way round), and the lock of the polling thread. Much
shared state is under none of them: `ask_suspend`, `ctrl_cmd`, `poll_engine`,
the list of pending frees.

What makes each component correct, and what is hard about it:

* **Tile downloader.** Threads download without the lock, so batches and
  requests change underneath them; five counters are kept by hand. Correct means:
  counters agree with what they count, each task is downloaded once, batches are
  served in order, no wake-up is lost, no freed memory is touched, every batch
  settles whose own downloads end, whatever hangs beside it.
* **Polling thread.** A flag and a condition variable carry four kinds of
  requests from two contexts. Correct means: a requested suspension is reached,
  a stop never starts, the session with the daemon is open exactly while it is
  the source of positions, a command runs with its own arguments.
* **Batch tab.** The tiles of a batch cover the marked area. Rows hold pointers to
  batches; a row may outlive its batch or stay from another map.
* **Tile files and HTTP.** A published tile is all of that tile, whatever a broken
  answer, a second thread or an earlier process left in its temporary file; no
  path loses a descriptor.
* **Map view.** Four contexts lock one view, and the GPS, a zoom thread and a late
  A-GPS answer act on it without asking. Correct means: whoever has the mouse has
  its button down, a level stays in the range of its map, marks stay on their
  places, a layer draws only tiles of its map.
* **Track recording.** Every record reaches the file once and the header counts
  them. **Replay.** There is one thread, its records outlive it, a pass is gapless
  and comes to an end, and the view is given back.
* **GPS protocol.** An acknowledgement is matched to its command; a partial
  read or write loses nothing.
* **D-Bus, A-GPS, settings, life cycle.** What was acquired is released once, in
  every error path; a file read at start is one a run has written completely.

`PROJECT.json` lists the hazards at their lines.

## 2. Plan

Built, in this order:

1. `BatchJobs` - abstract service; `TileDownloader` - the downloader, refining it.
2. `PollThread` - the polling thread, its requests, and the end of the process.
3. `TileDownloader_proofs` - invariants of the downloader for all parameters.
4. `PollThread_proofs` - invariants of the polling thread.
5. `TrackLog` - track recording; `TrackLog_proofs` - its window, its account of
   records and its times.
6. `UbxLink` - the serial line: initialisation, commands, polls, recovery.
7. `TrackReplay` - the replay thread against its controls, closing and exit.
8. `TileFetch` - the download of one tile: files, locks, sockets, crashes.
9. `MapView` and `MapSession` - the contexts, pages, threads and GPS that share
   the map view.
10. `BatchTasks` - the tiles of a batch, which give the downloader's runs their
    batches; `BatchTasks_proofs`.
11. The refinement of `BatchJobs`, in `TileDownloader_proofs`.
12. `MapSession_proofs`, `TileFetch_proofs`, `TrackReplay_proofs` and
    `UbxLink_proofs` - every safety property of their runs.

Every invariant and action property of the runs that pass has its theorem now
(section 6); a new property gets one together with its run.

Next, models: the proxies and asynchronous answers of the D-Bus session, the
teardown of the downloader at the exit, the row of a batch that was cancelled
twice, and the dump of aiding data.

## 3. The modules

### TileDownloader (`tile_dl.c`, `tile.h`)

The unit of interleaving is the critical section: what the code does between
`LOCK_MUTEX(&td->lock)` and the next `UNLOCK_MUTEX` is one action, because no
other lock is taken inside. What a thread does in between is a value of `pc`:

| `pc[w]` | the thread of slot `w` ... |
|---|---|
| `none` | the slot is free (`tid = 0`) |
| `loop` | holds or awaits the lock at the top of the loop of `download_routine` |
| `front`, `batch` | downloads a front-end tile, or a task of the batch in `job[w]` |
| `report` | finished a batch and waits for the UI lock to count it out |
| `nap` | sleeps in `download_next_batch`, having found no current batch |
| `wait` | waits on the condition variable |

`BatchDownload`, `AddFront` and `CancelBatch` are calls of the main thread;
`CreateAndBroadcast` is the creation of threads both of the first two end with;
creation may fail (`CreateMayFail`). `IdleExit` gives the slot back, and
`FreePendingFrees` is what remains of the thread after its last unlock: it runs
without a lock, so it is an action of its own, and `exiting` counts the threads
that have not reached it. A batch that was freed may read as anything: either
`DropCanceled` still happens, or the assertions abort the process
(`TouchFreedBatch`). A batch is identified with its address and is enqueued
once; a task is its index.

`BatchJobs` is the service without threads or counters: `Submit`, `HandOut`,
`Return`, `Cancel`. The mapping (`Jobs` in `TileDownloader`) takes the list of
batches as the queue, the state of a batch as its phase, and the tasks its
threads hold as what is busy.

### PollThread (`poll.c`, with its callers in `tab_menu.c` and `dbus_intf.c`)

`at` is the place of the polling thread: `boot`; the stages of `suspend_resume`
(`leave`, `mark`, `block`, `waiting`, `start`, `clear`, `choose`, `ready`); the
loop (`loop`, `poll`, `test`, `forget`, `forget args`, `failed`, `conflict`);
`joined` and `switched`, between the session with ogpsd and the engine that says so;
`gone`.
The stages are as fine as another thread can observe: `poll_state` is published
under the UI lock, `ask_suspend` is cleared under none, and the test, the set
and the two resets of the command slot are four steps. `main` is the main
thread inside the "Stop GPS?" dialog, or inside the loop of `system_action`;
`issuing` is each caller of `issue_ctrl_cmd` between its test and its
assignments. `ran` records the last command run and the arguments it got,
`woken_by` the request that ended the last wait, `killed` where the thread was when
it was killed: history for the properties.

The process ends through a callback, which keeps the UI lock to the end (`main` =
`quit`), or through SIGINT, which finds the main thread waiting for events without
it (`interrupted`). `stop_poll_thread` then clears `running`, wakes the thread up,
sleeps for a fifth of a second and sends SIGUSR1, which ends the thread wherever it
is (`Kill`, from every place, since nothing bounds what the thread does in that
time); `CleanUp` is the rest, which goes by the state and the engine it finds. A
SIGINT during the callback's clean-up finds `cleanup_lock` taken and calls `exit`
(`CutShort`).

### TrackLog (`tab_track.c`, `track.h`)

Every call runs under the UI lock, so each is one action, with all it does: a
`Record` that fills the window includes the save and the move of what remains.
The split at the end of a week saves, closes and starts anew in one action; it
drops the record that revealed the new week, as the code does. A position is
reduced to whether it moved (`Still`, or one of the others), time to whole
fixes, a record to its id and its offset. `disk` is the current file: its
records and the count and end time of its header. `lost` holds the ids given up
to make room and those deleted with their file, so that the rest can be
accounted for; `closed` is the file the last step closed.

`NewTrack` is guarded by the state of its button (`stop_track_button` and
`new_track_button` are sensitive in turn). `Delete` is the deletion of the
file that is being recorded, which its row in the list allows.

### UbxLink (`uart.c`, `ubx.c`, with the poll loop of `poll.c`)

`rx` and `out` are the two directions of the line, as sequences of messages; what
has no UBX header is `Noise`. `at` is the place of the polling thread: `closed`
(suspended, or polling through ogpsd), `open` (waiting in `uart_open`), `send` and
`ack` (a command), `flush`, `ready`, `read` (the answers of a group), `publish`,
`failed` and `failed on` (in and after `check_failure`). One write, and the reading
of one message, is one action. `back` is where a flush or an initialisation returns
to. The initialisation is the sequence `Configuration`; the commands of other
threads, `UserCommand`, run after a successful poll.

`ParseResponse` reads any message of class NAV, whatever the group asked for, as
the code does; its contents are reduced to valid, invalid, or of a wrong length.
The group loses TIMEUTC the moment the clock is set, which happens while its
answers are being read. `new` marks what belongs to the latest command or poll,
so that staleness can be spoken of without counting.

The receiver is external: it takes requests in their order and sends NMEA
sentences until it was told to keep to UBX. A request or its answer may be lost,
refused, or answered after the time-out; a write may stop; the device or the power
switch may be out of reach (`sysfs_set_gps_device_power` returns -1, which is
TRUE): `MaxFaults` of these. The power may go at any time. `Settled` is the
assumption behind the `sleep_ms` of `uart_flush_output`: by its end, the receiver
has written what it had to.

### TrackReplay (`ctx_track_replay.c`)

Every callback is one action under the UI lock, but for the closing and the exit,
which are two each: `cancel_replay_thread` sleeps between the wake-up and the
signal that ends the thread (`CancelBegins`, then `CloseEnds` or `ExitEnds`). A
thread goes `born`, `head` (of `while (running)`), `setup`, `loop`, `draw` and, for
a pause, `towait`, `paused`, `woken`, `label`; after a pass `stopping`, `torest`,
`rest`. The five flags are read and written by the thread outside any lock, one
step each; the wait has no predicate, and a signal sent before it is lost
(`Waits`). `WakeUp` wakes one of the waiting threads, whatever it waits for.

The file is read whenever the context is shown, not only when the user opens it:
each time the polling thread says that it suspends or runs (`poll.c:236`, `282`),
`update_tab_on_poll_state_changed` shows the page anew, and with it a replay that is
open. So a file can be read while a thread lives (`OpenReadable` replaces the array
that it reads, `OpenMalformed` frees it and forgets the tid); it can, too, when the
replay is opened again after the GPS took the view over. `tangled` records it, the
properties that it breaks are conditional on it, and the model then only follows the
threads, the closing and the exit. `ViewGivenBack` is not conditional on it: as far
as the model follows, only a thread whose tid was forgotten may keep the view. After
a malformed line, the thread and the drawing of the map meet the assertion of
`replay_calculate_pixel` without records (`SetupAsserts`, `Expose`). Whether a
record is drawn by itself is a choice; that the last one is drawn is not. A file is
unreadable, empty, malformed, or has one of `Lengths` records.

### TileFetch (`download_tile` in `tile_dl.c`, `network.c`)

`job[w]` is a worker's place with the locals of `download_tile` and `http_get`;
`fds` the descriptor table (the lowest free number is given out, as the kernel
does); `tmp`, `path` the two names of a tile and `content` what the files they lead
to hold, as a sequence of blocks. `flock` is a lock of an open file, so it goes
with the descriptor. The part of `download_tile` under the lock of the downloader is
one action (`Starts`, or `Refused` when another has the file), each block written
is one, and the close, and the rename or unlink that follows without any lock, are
two: between them the file is nobody's. An answer may be another body of another
length (`Page`), end early unnoticed (`CutShort`), or be read for ever (`spin`).
`Crash` is the end of the process anywhere and its next start: locks and
descriptors go, files stay.

`spoiled` names the tiles for which one of the three things happened that do leave
a wrong file, `clash` that one worker closed the socket of another (a failed `write`
closes the socket and leaves its number to be closed again): the properties say
that these are all.

### MapView, MapSession (`tab_view.c`, `mouse.c`, `tab_tile.c`, `tab_menu.c`, `ctx_dl_tiles.c`, `ctx_fixmap.c`, `tab_scratch.c`, `ctx_agps_online.c`, `poll_ui.c`)

`MapView` has the functions the handlers are composed of, as operators from views
to views: `ZoomedTo`, `Exposed`, `LockedBy`, `UnlockedBy`, `OnShow`, `SwitchedCtx`.
A view is a record of what decides the meaning of a touch. A mark (an area, a
clicked point) is `none`, `here` or `moved`, the last when the map moved under it;
a cache of tiles is the set of maps whose tiles it may hold.

`MapSession` has the callbacks, one action each, and two kinds of threads: the zoom
thread, which reads its bound once, counts levels while the finger is down and
applies the result later (`ZoomStarts`, `ZoomCounts`, `ZoomStops`, `ZoomApplies`), and the
A-GPS request, which closes or shows its context when it comes back
(`AgpsFails`, `AgpsRuns`). The GPS opens and closes contexts with its state.

### BatchTasks (`ctx_dl_tiles.c`, `tile_dl.c`)

Pure operators: the levels a request asks for, and the tiles `batch_download_prepare`
enumerates, with `cur_zoom` incremented before its use and one corner clamped.
`MCTileDownloader` takes the sizes of its batches from them: an area of two tiles,
and the same area with one tile on disk.

## 4. The runs

| Run | Question | Bounds | Result |
|---|---|---|---|
| `downloader_safety` | Do counters, queues and accounts stay consistent? | 3 batches of 2, 1 and 2 tiles, 2 front-end tiles, 2 threads, creation may fail | holds |
| `downloader_live` | Is `BatchJobs` implemented, and does every batch settle whose own downloads end? | 2 batches, 1 front-end tile, 2 threads | holds |
| `downloader_free` | Is a batch freed while a thread refers to it? | as above | it is |
| `poll_control` | Do session and display match the engine, is a requested suspension reached, does the end of the process release the GPS? | 2 issuers; all of the thread's paths, killed anywhere | holds |
| `poll_stop` | Can a stop start the GPS? | as above | it can |
| `poll_command` | Can a command run with the arguments of another? | as above | it can |
| `track_log` | Is the window gapless, is every record accounted for, is a file of one week? | window of 4, week of 4 fixes, 6 records per track and file, 2 rows per file | holds |
| `track_count` | Does the header count the records of its file? | window of 4, week of 5, no failures | it does not |
| `track_replay` | Is there one thread, do its records outlive it, is a pass gapless, does it end, and is the view given back? | 2 threads, files of 1 and 3 records, read 3 times, 1 takeover by the GPS, 3 clicks | holds |
| `tile_fetch` | Which tiles can be published broken, which descriptors stay open? | 3 threads, 1 tile of 2 blocks, 2 addresses, 5 descriptors, 2 failures, 1 crash | holds |
| `map_session` | Who owns the view, do levels, tiles and marks stay with their map? | maps of levels 0-2 and 0-1, 1 A-GPS request, 1 batch, 3 acts | holds |
| `ubx_link` | Is a polled receiver configured, is an acknowledgement that of its command, is a poll whole, does polling go on? | 2 failures, power losses without bound | holds |

What the properties say:

* `CountersAgree`: the four counters kept by hand are the cardinalities they
  stand for; the counter of the refresh thread is ahead by the threads that have
  finished a batch and not yet counted it out.
* `TaskAccounting`: tasks handed out = tasks back + tasks in threads, for every
  batch that is not cancelled; no two threads hold one task; the equality test
  that finishes a batch is never jumped over.
* `QueueInOrder`: exhausted batches, then the current one, then untouched ones.
* `WorkIsAttended`: with work queued, some thread is neither gone nor waiting,
  unless no thread could be created.
* `FrontQueueSound`: a counter that is not a length is still 0 exactly when the
  queue is empty.
* `JobsRefined`, `BatchSettles`: the service, and that it is rendered. A download that
  hangs keeps its own batch from its end, and no other one as long as some thread
  comes back.
* `SessionMatchesEngine`: no path leaves a session with ogpsd open, or none while
  polling through it.
* `StopHonoured`, `SuspendReturns`: a suspension asked of a running thread is
  reached, and the handler that waits for it comes back.
* `ExitReleases`: the GPS of ogpsd, which other processes share, is given back unless
  the thread was killed between joining ogpsd and saying so: the one place
  `stop_poll_thread` cannot see.
* `WindowContiguous`: array indices that drawing computes from ids are in range.
* `NothingLost`: window, file and what was given up cover the track.
* `FileWithinWeek`: no offset is negative, none exceeds the header's end time.
* `ConfiguredWhilePolling`: no loss, refusal or late answer makes `uart_init`
  succeed with a command not carried out.
* `AckMeansExecuted`: nor makes a user's command look done that was not.
* `CleanPollIsWhole`: a poll that starts on an empty line and succeeds has read its
  own answers and all of them. (One that starts behind a failed poll may not: the
  failure leaves answers on the line, and any NAV message counts.)
* `OneReplayer`, `RecordsOutlive`: start, close and exit never leave two threads, or
  one without a tid, or one without its records.
* `PassInOrder`: a pass keeps its direction, though the loop's condition follows the
  button, and what was drawn is a gapless stretch.
* `ResumeIsReal`, `PassEnds`: a button that says "resume" has a pause behind it, and
  no sequence of clicks keeps a pass from its end.
* `ViewGivenBack`: when there is no thread any more, the map is neither frozen nor drawn
  by the replay; after a takeover, opening the replay anew and closing it thaws the map.
* `PublishedWhole`, `WriterKeepsName`, `DescriptorsAccounted`: the exceptions named
  above are the only ones.
* `LockOwnsView`, `LockKeepsMouse`: a frozen view has a button to thaw it, and a
  context keeps the mouse until its own button is released, with one exception, a
  late A-GPS answer that could not be written.
* `MenuClosedInContext`: the page that changes maps is out of reach of a context.
* `CacheOfLayer`: no layer draws tiles of another map at the right position.
* `ZoomLeavesRange`: only a zoom thread that was overtaken, a row of another map's
  list, or a batch asked for where such a thread had taken the map, takes a level
  out of the range of its map. (The last came out of the proof: it takes more acts
  than the run has, since `tile_batch_download` checks only the upper bound.)
* `MarksHold`: what the user marked stays on its place, but for the named cases.
* `PollsGoOn`: failures do not accumulate into a loop that never publishes.

The four violations are statements of the repository that the code does not keep;
`PROJECT.json` quotes them under "findings". In short: a cancelled batch is freed
by any thread that ends, although others may be downloading for it; the one call
for "suspend" and "resume" starts a GPS that suspended by itself while the user
was asked whether to stop it; two threads can pass the test of the command slot
together, and the command of one then runs with the arguments of the other; a save
of the whole window leaves the window in place, so the next save writes it once
more and the header counts less than the file has.

Why the bounds are enough to be interesting. Two threads are what the races of
the downloader need: one that downloads, one that finishes, times out or frees.
Three batches give the list a head, a middle and a tail to cancel; a batch of one
tile is promoted and exhausted by one task, a batch of two has a task in flight
while its last one is taken. `MaxFrontCount` bounds `front_task_count`, which
only grows while the queue is not empty: with 2, a task is taken and another is
added before the reset. `MaxExiting` = 1 is one thread between its last unlock
and its end; a second one would free what the first would have. In `track_log`, a
window of 4 is the least whose third (1) and half (2) differ, a week of 4 fixes
wraps inside a window, and 6 records fill it twice. `MaxTotal`, `MaxLen` and
`MaxRows` only stop new records, saves and rows. The state of `PollThread` is
finite as it is. Two failures in `ubx_link` are what it takes to leave an answer on
the line and then fail again before it was read; the lengths of `rx` and `out`
follow from `MaxFaults`. In `track_replay`, three records have a first, a middle and
a last one, so that a gap, an early end and a turn can be told apart; one record is
the shortest pass; the second reading of the file meets what the first left, with or
without a takeover before it, and the third what a closing left; three clicks are a
pause, a jump to the end and a turn in one pass. In `tile_fetch`, three workers are one that writes, one that is
refused and one that opens the file in the gap; two blocks tell a prefix from a
whole, two addresses lose one socket, five descriptors run out, and two failures
with a crash combine a wrong body with its survival. In `map_session` the narrow
map is the one a level of the wide one is out of range for, in the foreground and
as a background; three acts are a lock, a zoom and a change of a map or of the GPS,
with panning, marking, drawing and pages without bound.

Deadlock is not checked where stopping is legal: in the downloader once every
batch is cancelled or finished and every thread has left, in `TrackLog`,
`TrackReplay`, `TileFetch` and `MapSession` at their bounds or once the process has
ended, and in `UbxLink` when a
receiver without power, or one told earlier to keep to UBX, gives `uart_open`
nothing to read: the code waits there without a time-out.

## 5. Fairness

`TileDownloader` has weak fairness per thread for each step it can take alone:
the scheduler runs it, a sleep ends, and the UI lock is released after every
callback, so a thread that waits for it gets it. There is none for a user, for a
thread that waits for work, for thread creation, or for the end of a download:
`connect_remote_with_timeouts` sets the time-outs of the socket at level
`IPPROTO_TCP`, where they do not take, and ignores the failure
(`network.c:124-126`), so a read may block for ever, and `read_http_header_line` may
read for ever. `BatchSettles` states what the code needs instead, as its premise, for
one batch: its own downloads end, it is again and again the case that not every
running thread is inside a download, and front-end requests stop for good (they go
first in `download_routine` and may starve the batches for as long as the view is
moved).

`PollThread` has weak fairness for the thread as a whole (its reads have
time-outs) and for the return of `system_action`, which looks every second. There
is none for a user's request: a thread that is suspended may stay so. The end of
the process goes on too: its sleep and its clean-up end (`Kill`, `CleanUp`).

`TrackReplay` has weak fairness for each thread and for the sleep of
`cancel_replay_thread`; none for a click, so a paused pass may stay paused.

`UbxLink` has weak fairness for the thread and for a powered receiver that has
requests to take; a time-out happens only when nothing is to come, or as one of
the failures.

`TrackLog`, `TileFetch` and `MapSession` are checked without fairness: their
properties are of states and steps. (A fetch may well not end: `spin`.)

## 6. What is proved

All theorems hold for any values of the constants that satisfy the assumptions of
the module, which TLC evaluates in the runs:

* `DownloaderAssumption`: a finite set of batches of at least one task, at least one
  slot, some work per thread.
* `IssuerAssumption`: `NULL` is no command.
* `TrackAssumption`: a window of at least three records, so that a third of it is at
  least one.
* `GridAssumption`: a level is at least one tile and one pixel wide.
* `MapAssumption`, `SessionAssumption`: some maps, of which any two have overlapping
  ranges of levels (section 7), and a name that no request has for the free slot.
* `FetchAssumption`: finitely many tiles and workers, tiles of at least one block,
  hosts of at least one address.
* `ReplayAssumption`: finitely many lengths of files, each at least one.
* `FaultAssumption`: the failures are a number.

The bounds `Max...` are any numbers: a theorem that holds for all of them holds
without them. Every proof has the same shape, an invariant `IInv` that implies what
is claimed and that the first state has and every action keeps. What had to be added
to the property to make it inductive is what the code relies on without saying so:

* **`TileDownloader_proofs`**: `TypeCorrect`, `FrontQueueCorrect`,
  `AccountCorrect`, `QueueOrderCorrect`, `CountersCorrect`, `AttendanceCorrect`. The
  account of a batch is inductive only with the order of the queue (the current batch
  is the one PROCESSING, so a batch behind it starts with nothing handed out), and
  with the uniqueness of the tasks in flight, which in turn needs that the next task
  is beyond every one in flight. A batch's threads in flight are counted by lemmas on
  cardinality: one thread that starts adds one, one that comes back takes one; the
  hand-kept counters are compared with cardinalities in the same way.
  `DownloaderImplementsJobs` is the refinement: the initial state maps to that of
  `BatchJobs`, and every action to one of `Submit`, `HandOut`, `Return` and `Cancel`,
  or to none that a user sees; it uses the account and the order of the queue.
* **`PollThread_proofs`**: `PollTypeCorrect`, `SessionCorrect`, `ExitCorrect`. The invariant
  adds what holds between the engine's choice and the first poll (`ready`), while
  the thread leaves, and before the first choice; it falls into parts that no
  action mixes: control, flags, commands, requests. `ExitCorrect` rests on
  `Opened`: a session is open under the engine and the state that make
  `stop_poll_thread` close it, or the thread is, or was killed, between joining ogpsd
  and saying so, or the clean-up was cut short.
* **`BatchTasks_proofs`**: `AreaCovered`. Every place of the marked area that is on
  the map is on a tile of the batch, on each of its levels, wherever the corners
  lie: rounding down is monotone, so the unclamped corner only adds tiles.
* **`TrackLog_proofs`**: `TrackTypeCorrect`, `WindowCorrect`,
  `NothingLostCorrect`, `WeekCorrect`. `WeekCorrect` needs `Running`: while
  recording, the offset of the last record in the window is the distance from the
  first fix to the previous one, the window goes on where the file ends, and a
  window without records has a file without records.
* **`MapSession_proofs`**: the invariants `SessionTypeCorrect`, `LockOwnsViewCorrect`,
  `MenuClosedCorrect`, `CacheOfLayerCorrect`, and the action properties
  `ZoomLeavesRangeCorrect`, `LockKeepsMouseCorrect`, `MarksHoldCorrect`. A lemma per
  operator of `MapView` says what it does to a fit view; the actions are composed of
  these. Levels need what a running zoom thread knows (`Counting`): how far it is from
  the level at which it read its bound, as long as nobody else changed the level.
* **`TileFetch_proofs`**: `FetchTypeCorrect`, `PublishedWholeCorrect`,
  `WriterKeepsNameCorrect`, `DescriptorsCorrect`. Without a clash, the descriptors of
  the workers are apart and every open one belongs to a worker (`DescriptorsOK`); for
  a tile that is not spoiled, one worker at most is at it (`Alone`), its temporary
  file holds its own blocks at their places, or a page that its worker will delete
  (`Clean`), and what is about to be renamed is complete (`Full`). The file numbers
  suffice by counting: there are two names per tile and one open file per worker.
* **`TrackReplay_proofs`**: `ReplayTypeCorrect`, `OneReplayerCorrect`,
  `RecordsOutliveCorrect`, `PassInOrderCorrect`, `ResumeIsRealCorrect`,
  `ViewGivenBackCorrect`. Until a file is read over a living thread, the tid is that
  of the only thread, the records it reads are loaded, and its controls fit its
  place (`Sound`). In any case that the model follows, `Bounds` holds of its
  indices, and `Owing`: there is one thread at most, which the tid names or nothing
  does; it has not touched the view before its first pass, and ends only in the
  hands of a callback that knows it, so whenever the view is held there is a thread,
  or a tid, to give it back.
* **`UbxLink_proofs`**: the invariants `UbxTypeCorrect`, `ConfiguredCorrect`,
  `CleanPollCorrect`, and the action property `AckMeansExecutedCorrect`. Outside a
  command and the flush after it there is neither a command nor a reply on the line
  (`Idle`); while an acknowledgement is awaited, the command is the last request and
  its reply the only one (`Answering`); what was acknowledged before the command that
  is sent is in force, if the power has not gone (`InForce`); noise comes before the
  acknowledgement of CFG-PRT (`NoiseEarly`); and a poll that began on an empty line
  has at most what it awaits still to come (`Whole`). This rests on `Settled`, the
  assumption on the flush: without it a late reply meets the next command.

The inductive invariants of the last four modules hold on the instances of their
runs, too, where TLC checked them before they were proved. Two proof attempts corrected the
project: `ZoomLeavesRange` was false beyond the bound of its run (section 4), and
the file numbers of `TileFetch` and the indices of `TrackReplay` mean something only
if workers, tiles and lengths are finitely many, which is now assumed.

Only model-checked: the liveness properties `BatchSettles`, `StopHonoured`,
`SuspendReturns`, `PassEnds` and `PollsGoOn`, which rest on fairness and ENABLED and
are beyond TLAPS; and, being false, the four properties of the violation runs.

## 7. What is not modelled

* The wait of a download thread is assumed to end by a wake-up or a time-out at any
  time. `wait_ms` (`util.c`) computes the nanoseconds of its deadline modulo 10^6
  instead of the milliseconds modulo 1000, which for ten seconds is often not a
  valid `timespec`; the wait then returns at once with the lock still held, which
  for the model is an early time-out.
* A batch is assumed to be cancelled at most once. A row can outlive its batch
  across the confirmation dialog; in `MapSession` dialogs are answered at once, and
  a row and its batch are one record.
* The teardown of a downloader at the exit (`cleanup_repo_tile_downloader` holds the
  lock of the downloader while it joins the threads, and goes through the first
  `dl_threads_count` slots), `map_cleanup`, and the export of tracks.
* In `TrackLog`: the save at process exit, two tracks started within one second
  (they share a name), a change of engine during a recording (the two engines
  fill the time field with different units), and gaps of a week or more.
* In `UbxLink`: the bytes of a message, checksums (the code compares none),
  partial writes, A-GPS messages, another program that reads from the line or
  switches the receiver on, and the power-off at process exit. While NMEA sentences
  still come, `ubx_read_header` searches them without end for an acknowledgement
  that was lost; the model shows this loop, and no property excludes it.
* In `PollThread`: SIGINT taken by another thread than the main one, which ends that
  thread only (the kernel prefers the main thread while it does not block the
  signal); the proxies of the D-Bus session, and its answers that come late.
* In `TrackReplay`: times and pixels, the cursor, and the labels; and, once a file
  was read over a living thread, further clicks and readings (a thread whose tid was
  forgotten before it ran lets "start" create a second one).
* In `TileFetch`: the parsing of URLs and headers, which succeeds or fails;
  the time-out of a connection, which is a failure; and what the workers do after one
  has closed the socket of another.
* In `MapSession`: a gesture is one action from press to release; pixels and the
  floating-point projection; the FIFO list of a cache and its capacity (a cache is
  the set of maps whose tiles it may hold). `MapAssumption` takes the level ranges
  of any two maps to overlap: the clamping in `drawing_area_expose_event` supposes
  it. With no context shown, `view_tab_on_show` calls a handler through
  `g_ctx_panes[-1]`, which is undefined; the model takes the outcome in which it
  leaves the view alone.
* Map repositories and settings: text files read at the start, without state that
  changes afterwards; the models take what they say as constants or as choices of
  `Init`. Sound and Python: external libraries.
* A-GPS: the dialogue with the server line by line, and the dump of aiding data.
* Drawing, labels and layout.
