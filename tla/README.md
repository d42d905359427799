# lens-daemon in TLA+

This directory holds a verification project for the daemon in `src/src`: TLA+
modules translated from its Go and Objective-C code, TLC runs that check them on
small instances, and TLAPS proofs of what can be proved for every instance.
`PROJECT.json` maps each definition to the lines it models and lists the runs,
the mutants that show each property can fail, the hazards, and the theorems.

Paths in this file are relative to the repository (`src/src/...` is its `src/`).

## 1. The system

`lensd` is a macOS daemon. A hotkey takes a screenshot, OCR and an AI service
turn it into an answer, and the answer is shown on an overlay window or sent to
Telegram subscribers. The CLI talks to the daemon over a Unix socket.

| component | state it keeps | operations | hard behaviour | what makes it correct |
|---|---|---|---|---|
| **pipeline core** `pipeline/run.go, phases.go, process.go` | trigger loop, `captureGroup`, the worker's group, `analyseQueue`, `extractor` | Run, capture (phase 1), analyse (phase 2), shutdown | a goroutine per trigger and per result; time limits that leave goroutines behind; a queue that drops; shutdown in the middle of it all | every trigger settles once; no send on the closed queue; Run returns with nothing it waits for still running |
| **overlay window** `bridges/appkit/window.go, runloop.go` | `gIntendedVisible`, `gMoveInProgress`, interpolation, alpha, generation, pending completions, bounds, spot, font size | show, hide, text, reposition, bounds, hide/restore for capture, fade out / commit / fade in for a move | fades complete later and overlap; globals, the bounds among them, are shared with other threads | the window ends up shown when it should be, with the last text, at the last spot and clear of the margin, and never inside a screenshot |
| **overlay trackers** `pipeline/tracker_*.go, output.go` | `intendedVisible`, grid position, debounce timers, `outputMethod`, `poller.active` | toggle, grid key, window change, SetOutputMethod | unsynchronised goroutines, timers that have already fired when they are stopped | see overlay window; the poller is active exactly for telegram |
| **hotkey listener, bounds** `modules/listener, pipeline/tracker_bounds.go` | key state, bounding box, six channels, `captureBounds` | event callback, Listen, trackBounds, drain at shutdown | key edges, twin keys, a tap the system disables, full channels, racing drain | a press is one trigger; the bounds are those of the last hold |
| **log broker, log stream** `ipc/log_broker.go, handler.go, client.go, frame.go` | ring buffer, subscribers' channels, sockets | Write, Subscribe, Unsubscribe, stream loop, client loop | slow and vanished clients, replay against live events, deadlines | recent history without gaps, in order; no logger is ever blocked |
| **IPC server** `ipc/server.go, handler.go` | socket file, connections | Serve, status, shutdown, set | stale sockets, shutdown while serving | the daemon that runs is the one that answers |
| **daemon lifecycle** `daemon/*.go, cmd/{daemon,start,stop,restart}.go` | PID file, socket file, processes | start, stop, restart, WritePID, ReadPID, WaitStop | several processes on one file; exits without cleanup | one daemon, named by the PID file |
| **subscriber store, poller** `adapters/im/store, poller` | subscriber set and file, update offset | Add, Remove, poll | a failed persist, a restart | the file and the set agree; no command is lost |
| **telegram sender** `adapters/im/im.go` | - | Broadcast, chunks, rate-limit retry | one recipient's failure, the common time limit | each subscriber gets all chunks in order or an error is reported |
| **capturer, geometry** `modules/capturer, bridges/browser, pipeline/process.go` | - | capture rectangle, canvas, crop | windows and bounds across the edge of the screen | what is captured is what was asked for and is on the screen; the OCR gets the canvas |
| **extractor/OCR, AI agent** | - | external calls | may take arbitrarily long, may fail | their outcomes are inputs of the pipeline |
| **commands, configuration, rendering** | - | one request, or start-up | - | not modelled: no state of their own |

How they interact: the listener's channels feed the pipeline's trigger loop and
the trackers; the pipeline calls the overlay through selectors dispatched to the
main thread; IPC handlers call SetOutputMethod and the log broker; the daemon's
context, cancelled by a signal or an IPC request, stops them all.

## 2. Modules

| module | what it is | theorems in |
|---|---|---|
| `CaptureLedger` | abstract specification: the fate of every trigger | |
| `Pipeline` | pipeline core, with the trigger channel of the listener; implements `CaptureLedger` | `PipelineProofs` |
| `GridSpot` | operators: grid positions and the frame of the overlay, in pixels | `GridSpotProofs` |
| `OverlayWindow` | the window as the main thread sees it | |
| `Overlay` | the window composed with every goroutine that moves it | `OverlayProofs`, `OverlayRestProofs` |
| `LogStream` | log broker, handlers, sockets and clients | `LogStreamProofs` |
| `Lifecycle` | daemons, PID file, socket file, start / stop / restart | `LifecycleProofs` |
| `Subscribers` | Telegram's updates, poller, store and file | |
| `Broadcast` | the sender, composed with `Subscribers` | `BroadcastProofs` |
| `CaptureArea` | operators: capture rectangle, picture, crop | |
| `HotkeyListener` | event tap, channels and `trackBounds`, composed with `CaptureArea` | `HotkeyProofs` |

`MCPipeline`, `MCOverlay`, `MCLogStream`, `MCLifecycle`, `MCBroadcast` and
`MCHotkeys` give the constants their values. A definition marked *Slip* is a wrong
variant of the one after it. It is no part of the specification; `PROJECT.json`
pairs it with the property that it breaks.

### Pipeline

`stage[t]` is where the goroutine of trigger `t` is, from `untaken` over the
capture stages, `queued` and the analysis stages to a settled one (`done`,
`dropped`, ...). `captureGroup` and `analyseGroup` are the sets the two wait
groups count, `analyseQueue` is the channel, `runPhase` and `worker` are program
counters of `Run` and `runAnalyseWorker`. The order of `Run`'s shutdown (wait for
captures, close the queue, wait for the worker, close the extractor) is one
action each. A screenshot and an OCR call that time out become orphans: the
goroutine goes on and nobody waits for it. `Run`'s `select` may take one more
trigger after the cancellation, as Go's does. Window data, images and texts are
abstracted to the outcomes that the code branches on.

### OverlayWindow and Overlay

`mainQueue` is the FIFO of selectors that other threads dispatch; one action per
selector executes it, and `completions` holds the completion handlers of fades
with the generation they were created under. `alphaValue` is the value the last
animation leads to; whether a fade-in still runs (`fadingIn`) matters only where
the code reads the animated alpha. `Overlay` has one action per step of each
goroutine between two points where another can interfere: the three steps of
showOverlay/hideOverlay (intent, test of `gMoveInProgress`, dispatch), the steps
of a debounce callback, of a capture, of SetOutputMethod. A *scenario* (variable
`limits`, constant during a behaviour) says how often the user and the
environment may act, so that one run covers several mixes of actors.

The captured window is a number of moves: `WindowAfter` gives its place after each.
A capture keeps the number it saw (`saw`), the callback of a settled window the one
it will use (`settled`), and both write the rectangle and the canvas for it, one
after the other (`gWindow`, `gCanvas`). Where the window is placed is kept as what the
frame was computed from (`placed`: bounds, spot, text, size), so that a property can
tell a frame that is right from one that is out of date; `Frame` is the rectangle.
Each of the two writes is one step, although the code assigns four globals: a
rectangle that is torn is a rectangle still, of which `MarginIsKept` is proved, and the
selector that commits a move is dispatched after its writes.

### GridSpot

`gridSpotFrame`, the frame at the edge of the screen that stands in for it, and
`wrapPercent`. A position is a whole number of `GridUnits`-ths of 100 %; frames are in
parts of a pixel (`Fine`) in which every half and percentage is whole, so nothing is
rounded; the code computes in doubles, and the rounding of these is not modelled. The
centre, where the code's spot is before the first commit, is rounded to the grid.
`KeepsMargin` says what the frame should be, without insets: it compares it with the
part of the area that keeps the margin, as an intersection of rectangles.

### LogStream

The lock of the broker is explicit only where it is held over more than one step,
in Subscribe, which sends the replay on a channel; Write is one step because
nothing in it blocks. A frame is two pieces, as WriteFrame makes two writes, and
the socket holds a bounded number of them. `first` and `dropped` are history
variables.

### Lifecycle

A daemon has two goroutines. The one in `Serve` is at `serve[d]`: one value for
each place where it is about to touch a file (unlink the old socket, bind, chmod,
open the PID file, read it, open it again, write it), for accepting (`accepts`), for
a failed Accept or Chmod whose deferred Close is yet to run (`closes`, `fails`) and for
the end (`returned`; `failed` if onReady was never reached). The other installs the
signal handler (`InstallsHandler`), runs the pipeline and ends the process once the
context is cancelled (`Exits`), wherever `Serve` is by then. A third closes the listener
on a cancellation (`ClosesListener`). The end of a process frees what was in its memory
and leaves both files: `os.Exit` skips `RemovePID`. The PID file is its writer and
whether the PID is in it yet, the socket file the daemon that bound the path.

Every operation on a file may fail for a reason of its own: bind and chmod
(server.go 44 to 53), Accept (77 to 80), opening, reading and writing the PID file, and
the removals of the socket and of a stale PID file, which only warn or are not checked.
One removal is taken to succeed, that of the file whose PID could not be written.

`ReadPID` is two steps, since another process may act between its test of the
process and its removal of the file; a reader in between is in `staleReaders`.
`Finds`, `RemovesStale` and `FindsNoDaemon` are its outcomes, and each caller
(WritePID, Daemonize, the wait of start, stop, restart, WaitStop) reacts to them
as the code does. `IsProcessRunning` holds of a dead child whose parent, the start
command, still runs: nobody has waited for it. SIGTERM kills a daemon that has not
installed its handler; `Interrupted` is a signal that the user sends without a command,
and `ServesShutdown` an IPC request, in a connection that may be older than the end of
`Serve`. The time limits of start and restart may pass at any moment (`GivesUp`,
`WaitsForStop`). `orderly` is a history variable: no command began while another ran,
nobody ran the daemon subcommand without start, and no start gave up on a child that
lives while its PID is not in the file.

### Subscribers and Broadcast

Update *i* is the *i*-th message to the bot. Telegram hands out what is not
confirmed and a request confirms what is below its offset; `offset` is the
poller's, in memory only. The poller is `BeginsPoll`, `PollAnswered` or
`PollFails` (the request or only its reply is lost) and `HandlesNext` for each
update of the reply. Add and Remove hold the lock from the change of the map to
the rename of the file, so a change with its persist is one step, which may fail
and leave the file as it was. `Restarts` is a crash or a restart at any point.
`Broadcast` adds `senderVars`: each call takes a snapshot of the store and then
visits the recipients in any order (a Go map), chunk by chunk, with rate-limit
retries and one time limit. It shares the store with the poller and the restart:
that is what `RecipientsAreSubscribed` is about. `handled`, `unsaved`, `lost`,
`received` and `refused` are history variables.

### CaptureArea and HotkeyListener

`CaptureArea` has `computeCaptureRect` (with the fullscreen rule of the browser
bridge and the clamp to the screen), the picture that comes back, and
`cropToCanvas`; `TakesVisiblePart` and `ReadsCanvas` are the reference they are
compared with, stated by pixels. Lengths are integers; a picture has `Scale` pixels
for each.

In `HotkeyListener` `KeyChanges`, `MouseMoves` and `ControlKeyPressed` are events:
each is what the user does followed, if the tap is enabled, by the whole callback
with its globals. The callback learns only which kinds of modifier are down, so a
key and its twin on the other side look alike. `TapDisabled` and `TapEnabled` are
the system's and the callback's part in a disabled tap. The history variables
(`strayed`, `hold`, `trail`, `lastTrail`, `owed`) record what the user did, and what of
it reached the tap, whatever the callback made of it; every property compares the globals and channels with
them. `hold` and `trail` are the hold of the bounds key as the tap sees it, from a change
of the key that looks like a press to one that looks like a release, so that
`LatestHoldWins` speaks of every hold and not only of those of which nothing was missed.
A drag with a button that is not in the mask of the tap moves the mouse unseen
(`OtherButtonDrags`). `Users` gives each behaviour a set of keys that are used in it.

## 3. Runs

Passing runs:

| run | instance | what it shows |
|---|---|---|
| `pipeline` | 3 triggers, queue of 1, trigger buffer 2, both output methods; 813 thousand states | no send on the closed queue, nothing left when Run returns, and the inductive invariant of the proofs |
| `pipeline_live` | 2 triggers, queue of 1 | the pipeline implements `CaptureLedger` with its fairness, and a cancellation ends Run |
| `overlay` | 11 scenarios (module `MCOverlay`); 1.2 million states | at rest the overlay is shown exactly when intent and method say so; a capture that shares the overlay with crossfades only never contains it; uncrossfaded texts are never lost; texts end up at the last spot, with the last size, in the window as it is, if callbacks do not overlap; frames keep the margin; the poller follows one client's switches |
| `logs` | 2 connections, ring of 2, buffer of 1, socket of 1 piece, 3 events, symmetric; 1.6 million states | ring, replay, registration and fan-out: history without gaps, no blocked replay, no send on a closed channel, and the inductive invariant |
| `logs_live` | 1 connection, 5 events | events arrive, vanished clients are unsubscribed |
| `lifecycle` | 3 daemons, 2 commands at a time, 3 of them, foreground daemons or interrupts in all, 1 death, any failure of a file operation or of Accept, symmetric; 1.4 million states | as long as commands come one by one and no start gives up on a live daemon that the PID file does not name, there are never two daemons, a daemon that is named is reachable until its shutdown or a failed Accept, and start reports its own child; in any race one that is named listens, is shutting down or has lost its Accept, the empty PID file of a live writer is about to be written, and the first PID file stays |
| `telegram` | 2 chats, 2 messages to the bot, 1 failed persist, 1 restart, 1 broadcast of 2 chunks with 1 retry; 243 thousand states | no command is lost and redelivery converges; a broadcast delivers in order, reports what it did not deliver, and goes to subscribers; updates are handled and broadcasts return |
| `hotkeys` | 3 mixes of keys, screen of 4 by 3 at scale 2, 3 places of the mouse, channels of 1; 280 thousand states | one token per press, bounds of the last hold that the tap saw, with what it keeps of one whose release was missed, captures and crops to the pixel, and the inductive invariant (held keys in step with the keyboard) |

Runs that find a violation of what the repository says of itself:

| run | statement | what happens |
|---|---|---|
| `overlay_two_captures` | ARCHITECTURE 265: the overlay is hidden during each capture | two captures overlap; the first restores the overlay while the second reads the screen |
| `logs_desync` | client.go 119: deadline expired normally, renew and retry | the deadline passes between length and payload; the payload is read as a length and the stream of a live daemon ends |
| `lifecycle_two_starts` | cmd/daemon.go 88: the PID file is a reliable "daemon ready" signal | a second daemon unlinks the socket before it meets the PID file, is refused, and leaves the first one named and unreachable |
| `hotkeys_configured` | README 146: left Command as capture key, right Control for bounds | the callback tests for Shift, Option and Command whatever keys are configured; the trigger key sends nothing |

Divergences that have no run of their own (those marked * are violations of a
definition in the modules, named with them; the others can be read off an action):

Pipeline and listener

* README 215, the text is cleared while a new result is processed: an older
  analysis displays its answer after the newer trigger has cleared the text
  (`ClearedWhileProcessing` *).
* ARCHITECTURE 296, phase 2 is "bounded by `analyseQueue` capacity":
  `WorkerReceives` starts an analysis for each result without any limit.
* listener.go 301, "so nothing leaks": the drain goroutine tests the length of
  `triggerCh` and then receives; Run may take the token in between. The trackers
  "exit when the channel is closed", but no channel is.
* While the twin of the trigger key is down a release fires as well (`OneTokenPerPress`
  excludes twins for that reason).
* listener.go 71, bounds are recorded "only if cursor moved and no grid/opacity keys were
  pressed during this hold": after a release that the tap missed, or that the twin key
  hid, the next press resets nothing (line 62). The bounds of the next hold then contain
  the places where the mouse was seen since the earlier press, are recorded even if it did
  not move during this hold, and are lost if a key was pressed in between. `LatestHoldWins`
  states what the code gives: such holds count as one. And any other key counts as a
  grid or opacity key (`KeyDown`).

Overlay

* ARCHITECTURE 288, a toggle during a grid move is deferred to the move's end: a
  toggle that hides makes `commit` skip FadeInAfterMove, and `gMoveInProgress` stays
  set (`ShownAsIntended` * with a toggle and a grid key).
* README 210, the hotkey shows the overlay: if the window moved while the overlay
  was hidden (tracker_window_changes.go 132) `gMoveInProgress` stays set and the
  toggle returns early (`ShownAsIntended` *).
* README 210, the hotkey hides the overlay: a text that arrives during the
  fade-out takes over the generation and fades the window in again (window.go 229;
  `ShownAsIntended` *).
* REQUIREMENTS 41, the poller idles unless the method is telegram: two `set`
  requests interleave between storing the method and activating the poller
  (`PollerMatchesMethod` *).
* A hide or a move discards the text of a pending crossfade, and after a capture
  that overlaps a crossfade the older text may overwrite a newer one
  (`LatestTextApplied` *). A toggle against a switch to telegram may leave the
  overlay shown (`ShownAsIntended` *).
* window.go 35, both globals are "only written on the main thread": showOverlay and
  hideOverlay write `gIntendedVisible` on the thread that calls them (`SetsIntent`).
* A capture between a move of the window and the next tick of its monitor stores the
  new rectangle, so that the monitor finds nothing changed, and the overlay stays where
  it was until the next text; and a move that settles after such a capture puts the
  rectangle that it had noticed back (`PlacedAsWanted` * with a capture and two moves).
* A text shown between the two writes of the bounds gets a frame for the window of one
  place and the canvas of another, and is shown so (`ShownFrameIsWhole` *).
* tracker_window_changes.go 91, a stale title at worst means the raw window: a
  browser's title that is stale subtracts a toolbar from another window.
* ARCHITECTURE 282, the overlay "always" has TELEPROMPTER_MARGIN of clearance: at a spot
  within the grid only the aligned point of the text does (`KeepsMargin`), and no such
  setting exists (`gMargin`, window.go 21).
* wrapPercent never yields 100 % (`WrapIsModulo`): once a key was pressed the text is
  not pinned to the right or the lower edge any more, whatever key comes next.
* README 127, the grid starts at the configured column and row: with
  OUTPUT_METHOD=telegram at the start Run does not commit it (run.go 52), and after a
  switch texts are at the centre until a move. With TELEPROMPTER_VISIBLE=true the overlay
  is shown at such a start (teleprompter.go 27).
* Appearance: README has a font of 5 to 48 pt, `setFontSize` clamps to 8 to 80; the
  grid step is 0.5 % in the README, 1 % in REQUIREMENTS.

Lifecycle

* REQUIREMENTS 7, the PID file is removed on exit: no exit removes it.
* pid.go 20, "atomically writes": creation and write are two steps; a daemon that
  dies in between leaves an empty file that makes each later start and stop fail.
* A daemon whose bind or chmod fails (server.go 44 to 53) lives on without server and
  PID file. The start that has spawned it gives up after its time limit, and the next start
  makes a second daemon: `OneDaemon` has the hypothesis that no start gave up on such a
  child. A failed write of the PID ends in the same way while its daemon shuts down.
* cmd/daemon.go 88, the PID file is a reliable "daemon ready" signal: after an Accept that
  fails without a cancellation (server.go 77 to 80) the deferred Close removes the socket
  and the daemon lives on, named and unreachable. `Ready` excludes it.
* pid.go 68: the start that polls for its child's PID file may be about to remove a stale
  file when the child replaces that; it removes the child's file, and the daemon runs
  without a name (`RemovesStale`).
* REQUIREMENTS 17, `lensd stop` asks for a shutdown over IPC: it sends SIGTERM.

Telegram

* ARCHITECTURE 257 and REQUIREMENTS 41, commands are ignored until the method is
  telegram: they wait at Telegram and are handled when the poller becomes active.
* A command whose persist failed is gone if the daemon restarts before the next
  successful persist (`lost`), and after a restart redelivered commands may
  subscribe a chat again for a moment, until its later `/stop` is handled again.
* im.go 60: with TELEGRAM_MAX_RETRIES below 0 a chunk counts as sent that was not;
  im.go 41: a chunk size below 0 panics and 0 sends empty chunks for ever.

Capture

* process.go 255 to 262: for a window that is partly off the screen, or larger than
  it, the crop is scaled by the wrong ratio and not shifted (`ReadsCanvas` speaks of
  windows on the screen).
* Bounds without area or off the screen make every capture fail until new ones are
  drawn.

### Bounds

Three triggers are needed for two captures to compete for one slot while a third
is analysed, and suffice for each pair of phases to overlap. A ring of two wraps
with three events; with one slot of buffer and one piece of socket, each of the
places an event can be in overflows. The overlay's scenarios have at most four
toggles (two overlapping pairs of fades), two grid keys and two window moves (a
timer that replaces one that has fired, and one that replaces one that has not).
The three places of the window in
`MCOverlay` are inside the screen, across its edge, and too low for a toolbar (so the
canvas comes and goes), on a grid of thirds in which both arrow keys used wrap around
or reach an end. Three processes allow a daemon that runs, one that is refused and one that comes
after; `MaxBegun` counts commands, daemons in the foreground and interrupts alike; one death gives each of them a stale file to find. Two updates of two chats
give every pair of commands; one restart and one failed persist meet in every
order. With one broadcast of two chunks to two chats each failure can hit the
first, the last or a middle chunk. Three places of the mouse, one of them off the
screen, give every shape of bounds, and the windows of `MCHotkeys` lie inside,
across and beside each edge.

All counters bounded by the models (`MaxTriggers`, `MaxEvents`, `MaxBegun`,
`MaxDeaths`, `MaxUpdates`, `MaxFailures`, `MaxRestarts`, the limits of a scenario)
count inputs: a larger bound adds repetitions, and the theorems of section 5 hold
for every value. Deadlock is checked in `hotkeys`, where the user never stops; in
the other runs a behaviour ends when its inputs are used up or the daemon has
exited, and `CHECK_DEADLOCK FALSE` says so.

The overlay's passing scenarios leave out the mixes of actors that its divergences
are about (toggle with move, toggle with text, captures that overlap, two switching
clients); what they show is that nothing else goes wrong.

### Fairness

Weak fairness stands for the Go scheduler and the run loop: a goroutine that can
take its next step takes it. The external calls are not assumed to return: a
screenshot or an OCR call may hang for ever and only its time limit is fair, as in
the code. In `Overlay` the main thread, the timers and the trackers are fair; no
user, window or client has to act. In `LogStream` handlers are fair and a client
that listens reads; neither writes, deadlines nor interrupts have to happen. In
`Broadcast` the poller and each broadcast are weakly fair, as each of their HTTP
calls has a time limit. That Telegram answers again and again (`SF` of
`PollAnswered`) is an assumption about the network, needed by `UpdatesAreHandled`
alone: a network that is down for good delivers nothing. `Lifecycle` and
`HotkeyListener` have safety properties only.

## 4. Refinement

`CaptureLedger` says what the pipeline promises: a trigger is unseen, capturing,
waiting, analysing or settled; it settles once; at most `QueueCapacity` wait, in
the order they were enqueued; after the ledger has stopped nothing changes.
`Pipeline` maps its stages to fates (`FateOf`) and its phases to the ledger's.
TLC checks `LedgerSpec` with fairness; `ImplementsLedger` proves the safety part.

## 5. Proofs

Checked by TLAPS, for every value of the constants that satisfies the modules'
assumptions: `PipelineAssumption`, `LogAssumption`, `LifecycleAssumption`,
`SubscribersAssumption`, `BroadcastAssumption`, `CaptureAreaAssumption`,
`ToolbarAssumption`, `NilAssumption`, `KeysAssumption`, `GridAssumption`,
`OverlayWindowAssumption` and `OverlayAssumption`. They say that sizes and
bounds are natural numbers, that the ring, the socket, a message, the grid and the
screen hold something, that the models' names for "nothing" are not values, and that
windows, labels and scenarios are what they are said to be. Each property that a
theorem lists in `PROJECT.json` is also checked by TLC in a run.

`PipelineProofs`:

* `TypeCorrect`: types; the queue never exceeds its capacity.
* `PipelineInvariant`: the inductive invariant `PipelineInv`. That no goroutine
  sends on the closed queue is not inductive: it needs that `captureGroup` counts
  exactly the capture goroutines (`GroupsCountGoroutines`), that new triggers are
  taken before the wait only (`ShutdownInOrder`), that the queue holds exactly the
  queued captures without repetition (`QueueHoldsQueued`), and that untaken
  triggers are the later ones (`TriggersInOrder`).
* `SendsAreSafe` and `ReturnIsClean` follow from it.
* `ImplementsLedger`: every step is a step of the ledger or leaves it unchanged.

`LogStreamProofs`:

* `RingIsRecent`: the ring holds the last events, oldest first. `StoreKeepsRing`
  does the index arithmetic modulo the ring's size with the lemmas `ModWithin`,
  `ModAround` and `SlotOf`.
* `LogInvariant`: the inductive invariant. `TypeOK` alone is not inductive, since
  the replay copies from the ring: that these are events needs `RingHoldsRecent`.
* `ReplayFitsChannel`: Subscribe never blocks with the lock held. It needs that the
  ring stands still while a replay runs (`LockHeldByReplay`) and that the channel
  holds exactly what was replayed (`ReplayFits`).
* `SendsAreSafe`: Write never sends on a closed channel (`StreamersRegistered`).
* `HistoryIsComplete`: what a listening client has read, the wire, its handler and its
  channel hold is the replay and every event since but for the dropped ones, in order
  and each once. Inductive is `StreamInv`: on top of that equation, a length frame is
  followed by the payload it announces (`FramesWhole`), a client whose replay is
  running has nothing behind it yet (`NothingSentYet`, `ReplayIsRecent`), and what was
  dropped or replayed was written before (`PastOnly`), so that the next event goes
  behind all of it.

`LifecycleProofs`, for any number of daemons and commands:

* `LifecycleInvariant`: the inductive invariant `LifecycleInv`. That a named daemon
  listens, is shutting down or has returned from Serve (`NamedListensAlways`) needs that a
  listener is open from bind to the end of onReady and from then on until a cancellation
  or the end of Serve (`ListensWhileServing`), and that a PID file's writer has come that
  far (`WriterIsReady`). Only a daemon that has been through onReady is named, hence
  signalled by a command (`NamedServes`, `TargetServes`).
* `EmptyFileIsTransient`: of whatever dies, the file without a PID of a live writer is
  about to get it, since a daemon leaves `writes` with the PID written or the file gone.
* `FirstWriterStaysAlways`: while nobody has died there is no reader that could remove a
  file, so the file of a daemon that writes is its own (`FileUndisturbed`).
* `OneDaemonAlways`, `OrderlyReadyAlwaysReachable`, `StartAlwaysReportsChild`: as long
  as behaviours are `orderly`, whoever dies, whatever fails and however often. A command
  checks the PID file and acts later on what it saw, so the inductive invariant
  `OrderlyInv` says what it may rely on meanwhile: every live daemon is named by the PID
  file or is the child of the start that is polling (`AloneWhenOrderly` follows), a file that is about to be
  removed as stale still is that of the dead daemon it was read from, and the socket of
  a daemon that serves is not unlinked by anybody (`ServesUndisturbed`).

`BroadcastProofs`, for any number of chats, broadcasts, chunks and retries:

* `TelegramInvariant`: the inductive invariant `TelegramInv`.
* `NoCommandLost` and `RedeliveryConverges`: what Telegram has been told to forget is
  in the store. Inductive is the stronger `StoreKeepsHandled`, about what the next
  request will confirm (`Confirmed`), together with `BatchIsNext`: the reply being
  handled goes on where that ends. A restart sets `Confirmed` back, and the store to
  the file, which is as new unless a persist failed (`FileIsStore`).
* `ChunksAlwaysInOrder`, `NilAlwaysMeansDelivered`, `FailureAlwaysIsolated`: from
  `TurnsInOrder`, which says of each recipient what the loop has done for it.
* `RecipientsAlwaysSubscribed`: an action property, from the two parts together.

`HotkeyProofs`:

* `CaptureIsVisiblePart` and `OCRIsGivenCanvas`: for every screen, scale, window,
  toolbar and bounds; `CapturesAlwaysVisiblePart` and `OCRAlwaysReadsCanvas` are the
  same of what the listener leaves behind.
* `HotkeyInvariant`, `HeldAlwaysInStep`, `AlwaysOneTokenPerPress`,
  `LatestHoldAlwaysWins`: for keys of the default kinds, which is a hypothesis of
  these theorems (`DefaultKinds`) since the callback has the kinds wired in; without
  it they are false (`hotkeys_configured`). The bounds need `HoldInStep`, which ties
  the globals to the hold that the tap sees and the box to the mouse's trail during it;
  truncation to pixels is monotone, so the smallest box becomes the smallest rectangle.
  The callback takes a change for a press exactly when it looks like one
  (`HeldLooksPressed`), so that nothing needs to be assumed of what the tap misses.

`GridSpotProofs`, without any state:

* `WrapIsModulo`: wrapPercent, which truncates towards zero and then corrects, is the
  remainder modulo 100 %.
* `EffectiveIsInner`: the four insets leave exactly the part of the area that keeps the
  margin, if there is one.
* `MarginIsKept`: so the aligned point of every frame is in it (`SpotOnLine`), and so is
  all of a frame that is pinned and fits (`PinnedOnLine`), for every area, window,
  screen, spot, alignment and text.

`OverlayProofs`, for all scenarios, windows and texts:

* `OverlayTypes`: types; in particular positions stay on the grid, for which the presses
  need `WrapIsModulo`, and a text that is dispatched has a size.
* `FrameAlwaysKeepsMargin`: `MarginIsKept` applied to whatever bounds the main thread
  found; the types of `placed` are all that it takes.
* `LonePollerAlwaysMatches`: `PollerFollows` is the inductive part: while the only client
  is about to set the poller it does so for the method that is in force, and at all
  other times the poller is right already. `AtMostOne` turns the cardinality into that.
* `LoneCaptureAlwaysIsolated`: `CaptureStaysOut` says that with nothing else going on
  the queue holds only texts and the selectors of the capture itself, in their order, so
  that a window ordered out stays out until the picture is taken.
* `UnfadedTextAlwaysApplied`: `LatestTextUnderWay` says that the text displayed last is
  the label's, or that of the last `updateText:` in the queue, and that no completion
  handler has one: it is the crossfade's handlers that could put an older text back.

`OverlayRestProofs`, for all scenarios, windows and bounds, about the moment at which
everything has come to rest:

* `PromptMoveAlwaysReachesSpot`: the frame is the one for the last spot, window and font
  size. The inductive invariant `FrameInv` says of each of the inputs of the frame where
  its latest value is: in the global already, or with the debounce timer that is yet to
  fire, the callback that holds it, or a selector in the queue (`SpotFollows`,
  `FontFollows`, `WindowFollows`, `BoundsFollow`), and that the frame was placed from the
  globals as they are or will be placed again (`PlacedFollows`). That an older callback
  cannot overwrite a later one is `TimerOrder`, from the scenario's promise that callbacks
  do not overlap (`limits.prompt`). Its hypothesis `OneApplication` says that the captured
  window belongs to the same application after each move: the tracker follows one window
  ID. Without it a new canvas in an unchanged rectangle would go unnoticed.
* `UnaskedAlwaysShown`: `ShownAsIntended` as long as nobody toggles the overlay or switches
  the method (`Unasked`), with any number of moves, crossfades and captures that overlap.
  A move that has begun to hide the window has a fade-in yet to come, from an armed timer,
  a callback or further back in the queue (`MoveEnds`); a window ordered out for a capture
  has its restoration there (`ComesBack`); a configured hidden window is never ordered in
  (`StaysHidden`).
* `AskedAlwaysShown`: `ShownAsIntended` as long as nothing moves (`StoodStill`), only the
  toggle key or only one client asks (`SoleCaller`), and no text crossfades, with any
  number of captures. `TurnsAsWanted` says that the last `showWindow` or `hideWindow` of
  the queue, or if there is none the window, is what intent and method want, unless the
  caller is yet to say so (`CallsWanted`).

Each scenario of the run `overlay` satisfies `Unasked` or `Asked`, so that the two
theorems state for all bounds what the run shows of `ShownAsIntended` for its own. Where
neither holds the property is not always true: section 3 says which mixtures of moves,
toggles and crossfades break it.

Model-checked only: the liveness properties `CancelledRunReturns`, `EventsArrive`,
`DeadSubscriberLeaves`, `UpdatesAreHandled` and `BroadcastsReturn`, and the fairness of
`LedgerSpec`, since liveness under fairness and ENABLED are out of the prover's reach.
Every other property of the passing runs is stated by a theorem, `ShownAsIntended` in the
two parts above.

## 6. What could come next

1. Proofs: `ShownAsIntended` with crossfades and one caller, or with moves and one caller,
   as far as it is true there; what is left of `PromptMoveReachesSpot` when captures
   publish windows on the move.
2. The end of the process within `Overlay`: trackers and timers that outlive Run.

## 7. Not modelled

* Configuration, factories, and the other commands: they keep no state. What the
  configuration sets is a constant of the modules; that it is sensible is assumed.
* Colours (the strip of the adaptive ones and its fallback frame too), the value of the
  opacity, and the rounding of floating point: no other component reads them.
* Text and pixels: `parseSlogLine`, JSON, prompts, the Markdown conversion, the
  parsing of osascript output and of retry-after: data that no property distinguishes.
* The Vision, Cocoa and HTTP libraries, but for the outcomes the code handles.
* `status` and malformed requests: answers without a change of state.
* A frame larger than `IPCMaxFrameSize`, and partial writes within one piece.
* The end of the process inside `Overlay`; the drains of the listener's channels other
  than the trigger's, which race with the trackers as that one does with Run.
* PID reuse by the operating system.
