# A TLA+ development of dgbwm

dgbwm is an X11 desktop put together from C programs and shell scripts: a heavily patched dwm
(window manager and bar), dwmblocks-async (the text of the status bar), dunst (notifications), st
(terminal) and the scripts that install, start and configure them. This directory holds TLA+
modules of its core logic, TLC configurations that check them on small instances, and TLAPS proofs
of main properties for instances of every size.

Contents: [inventory](#inventory), [plan](#plan), [modules](#modules-and-code),
[runs](#runs), [fairness](#fairness), [proofs](#proofs), [findings](#findings-and-divergences),
[limits](#what-is-not-modelled).

To repeat the checks: `tlc -config X.cfg M.tla` with the pairs of the table under [runs](#runs), and
`tlapm M.tla` for each module that ends in `Proofs`.

## Inventory

### How the parts interact

    dgwm-init --starts--> dwmblocks   dunst   xrdb, wallpaper, scripts   `while true; do dwm; done`

    scripts/keys --SIGRTMIN+n--> dwmblocks --fork/pipe--> block scripts
                                     |  XStoreName(root)
                                     v
    X server <--requests/events--> dwm  --sigqueue(SIGRTMIN+n) on a click--> dwmblocks
       ^    ^                       |  exec (restart), window properties
       |    |                       v
       |   programs                dwm (next instance, finds the windows again)
       |
       +--selections, events--> st <--pseudoterminal--> shell and programs

    D-Bus clients --Notify/CloseNotification--> dunst --NotificationClosed/ActionInvoked--> clients
    dunstctl      --pause/history/rules/reload--> dunst --PropertiesChanged--> bars
    compositor or X server <--window, seats, idle, screens--> dunst --fork--> dmenu, rule scripts

### dwmblocks-async (`dwmblocks-async/src`)

* State: `timer` (time, tick, reset_value), the armed `alarm(2)`, the signals pending for the
  signalfd, per block a pipe, `fork_pid` and `output`; the watcher's list of active blocks; the
  previous and the current status text; the name of the root window. Each command is a child process.
* Operations: `trigger_event`, `refresh`, the block signals, `block_execute`, `block_update`,
  `status_update`/`status_write`, start and stop.
* Hard: three sources ask for the same block while its child is anywhere between fork and exit;
  the list of readable pipes is taken before the signal of the round is handled and used after it;
  `read` and `waitpid` block the only thread; children fail or are killed; standard signals merge,
  real-time signals queue; the counter of the timer wraps.
* Correct when: one child per block; a pipe holds one message of the child that `fork_pid` names;
  nothing blocks for ever; an output is never replaced by an older one; the root window shows the
  outputs; blocks with an interval run on time and end up showing their present value.

### dwm (`dwm/dwm.c`, `dwm/patch/*`)

* State: the monitors, each with two views, a client list, a focus stack and `sel`; the clients
  (tags, floating, fullscreen, urgent, geometry, hints); `selmon`; in the X server the mapped windows,
  their geometry, the input focus, `WM_STATE`, `_NET_CLIENT_LIST`; the properties written for the next
  instance; the settings per tag (`Pertag`); what the bar shows where.
* Operations: the event handlers, some 40 commands bound to keys and clicks, the loops of
  `movemouse`/`resizemouse`, the layouts, `drawbar`, `updategeom`, start, restart, crash.
* Hard: events describe an older state of the X server than the one the handler acts on; programs
  unmap, destroy and focus windows on their own; clients move between four linked lists; monitors
  vanish with their clients; a drag handles requests in a loop of its own; geometry is kept in two
  places; what a click means is computed apart from what was drawn; a restart rebuilds everything
  from properties in the order the X server lists the windows.
* Correct when: each client is once in the list and once in the stack of its monitor; `sel` is the
  most recently focused client that is shown and has the input focus; exactly the clients are
  mapped, where dwm believes them; tiles fill the screen and do not overlap; the settings of the
  current tag are in force; a click acts on what is drawn; a restart changes nothing.

### dunst (`dunst/src`)

* State: the queues `waiting`, `displayed` and `history`, the notifications (id, urgency, timeout,
  locks, marks, tags for stacking), the rules and the values that rules have replaced, the pause level,
  the counter of ids, the context menu's child, the single timer of the main loop; on Wayland the
  surface, its two buffers and its frame callback, outputs, seats, pointers, toplevels; on X11 the
  window, the keys it grabs, screens and focus; on the bus the properties that others have read.
* Operations: the D-Bus methods and signals, mouse clicks, the timer, the result of the menu, signals,
  reload, every event of compositor and X server, drawing and hiding.
* Hard: replacement, stacking, closing, limits and seeping move notifications between queues while
  they are locked or marked; ids are chosen by clients as well as by dunst; the menu answers after
  the queues have changed; `wl_display_roundtrip` runs handlers in the middle of others; outputs and
  windows go while notifications wait for them; a reload takes back what rules have done; geometry is
  measured three times; a second dunst starts.
* Correct when: a notification is in one queue; each id handed to a client is closed once, with a
  signal; the limit holds; nothing is locked for ever; the window shows what is displayed; a click
  hits what was drawn; whoever watches the properties knows them.

### st (`st/st.c`, `st/x.c`)

* State: two ring buffers of lines, the cursor, scroll region, modes, the view, the selection and the
  marks of rows to draw; the parser of escape sequences and the bytes it keeps; the pseudoterminal;
  the X selections and transfers; pixmap, window, colours and the cache of fonts.
* Operations: `ttyread`, `ttywrite`, every control function, keys and mouse, resize, zoom, selection
  events, `run` with its wait for a good moment to draw.
* Hard: a byte stream cut anywhere by `read`; reads inside of writes inside of reads; ring arithmetic
  under resize, scroll and view; a selection that refers to lines that scroll away; characters of two
  columns; text pasted piece by piece while other windows take the selection; rows that nobody marked.
* Correct when: the ring is a list of lines; copied text is what was typed; cutting the stream changes
  nothing; nothing typed or written is lost, doubled or reordered; the window shows the terminal.

### Scripts

`install_dgwm.sh` and `dgwm-config` copy files and edit settings; `dgwm-init` starts everything
and starts dwm again whenever it ends; `dgwm-run` is a launcher. The scripts of the blocks print one line.

## Plan

The order is that of importance for a user of the desktop, and within it, of what is hard to test.

| step | modules | state |
|------|---------|-------|
| 1 | `BlockTimer`, `BlockSchedule`, `DwmBlocks`: the bar's event loop, its children and its timer | done, proved |
| 2 | `ClientList`, `Dwm`: windows, views, focus, monitors, drags, restart | done, proved |
| 3 | `Pertag`: the settings per tag, across restarts | done, proved |
| 4 | `StatusClick`, `DwmBar`: what the bar shows and what a click there does | done, checked |
| 5 | `DwmGeometry`: layouts, gaps, hints, fullscreen, drags, against the server's geometry | done, checked |
| 6 | `DunstQueues`, `DunstRules`, `DunstBus`: queues, rules, programs on the bus | done, checked; the queues proved |
| 7 | `DunstWayland`, `DunstX11`, `DunstSeats`, `DunstLayout`: the window and its surroundings | done, checked |
| 8 | `StLines`, the promise, and `StScreen`, the ring that implements it | done, refinement proved |
| 9 | `StCells`, `StParser`, `StTty`, `StDraw`: text, sequences, transport, picture | done, checked; the transport proved |
| 10 | `StSelection`: highlight, PRIMARY, CLIPBOARD and pasting | done, proved |
| 11 | invariants of `Dwm` and `DunstQueues` by proof: `AlgorithmProofs`, `DwmProofs`, `DunstQueuesProofs` | done |
| 12 | `InOrder` of `StTty`, the refinement of `StLines` and `SelectionKept` by proof: `StTtyProofs`, `StScreenProofs` | done |
| 13 | dunst's clock (ages, `show_age_threshold`), keyboard and mouse reports of st | open |

Modules compose by `EXTENDS` (`DwmBlocks` and `BlockSchedule` on the functions of `BlockTimer`, `Dwm`
on those of `ClientList`) and by `INSTANCE`: `StScreen` instantiates `StLines` under its refinement
mapping, and the modules `MCDwmScreen`, `MCDunst` and `MCSt` instantiate the parts of one program side
by side. In a behaviour of these three one part moves, which the variable `part` names, and the others
keep an initial state: a run then visits the states of each part once instead of all their
combinations, and a property of the run says what holds where its part moves. The `Proofs` modules
hold theorems only; what they use has recursive functions and folds, no RECURSIVE operators.

## Modules and code

### dwmblocks

**`BlockTimer`** is `timer.c` and `gcd` of `util.c` as functions: the tick, the reset value, the
new value of `timer->time`, and which blocks it runs.

**`BlockSchedule`** lets the seconds go by: one action, `TriggerEvent`, is a call of
`trigger_event` and the wait for the next alarm. The initial state chooses the intervals.

**`DwmBlocks`** is the process. `pc` tells where `event_loop` is: `watcher_poll` takes the snapshot
`active`; `ProcessTimer`, `ProcessRefresh`, `ProcessTerm`, `ProcessBlock` are the branches of
`signal_handler_process`, one signal per round; `block_read` and `block_wait` are the two halves of
`block_update`, because `waitpid` may have to wait for a child that has written but not exited;
`status_update` ends the round. `execute_blocks` may fail at any block (`fork`, `pipe`) and then has
executed those before. A child is a small process: sample the value, write, exit, fail or be killed
at any of these points. What a command prints is abstracted to the number of changes of the value
it shows (`world`), so that a fresh output can be told from a stale one; `Empty` is the NUL byte
that a failing child writes. Pipes, `fork_pid`, `output` keep their names.

### dwm

**`ClientList`** holds the linked lists as sequences; `attachx` keeps the loop of the patch,
with the case in which it would drop the clients before the insertion point.

**`Dwm`** keeps dwm's memory and the part of the X server it depends on in one record `d`, so that
each C function is an operator from a desktop to a desktop and a handler composes them in the order
of the code: `unmanage` is detach, detachstack, setclientstate, focus, updateclientlist. Events wait
in `queue`, which the X server and the programs fill (`ClientMap`, `ClientUnmap`, `ClientDestroy`,
`ClientWithdraw`, `ClientTakesFocus`) while handlers and commands run, so a handler acts on a
desktop newer than its event. One action per handler and command; a command given on the bar of
another monitor first selects that monitor (`Before_command`). `pc = "drag"` is the loop of
`movemouse`/`resizemouse`, which takes `MapRequest`s out of order; `pc = "scan"` the loop of
`scan`. `Restart` writes the properties (`setclientfields`, `setclienttagprop`, `setmonitortags`)
and starts over with memory empty and the windows in an arbitrary order; `Crash` does so without
writing. `noinput` are the windows whose `WM_HINTS` refuse input as dwm has read them (`c->neverfocus`):
`setfocus` leaves the focus where it is for these, and `updatewmhints` reads them again when a program
changes its hints. The constant `Uses` turns optional behaviour on, so that each run can afford its own.

**`Pertag`** is one monitor's view and settings: `view`, `toggleview` with `pertagview`, the
commands that change a setting in two places, and the two steps in which `createmon` restores them.
Where C leaves the order of evaluation open (`createmon` passes an argument that depends on a
global that another argument changes) both results are explored.

**`StatusClick`** joins `status.c` of dwmblocks, `drawstatusbar` and `click_statusbar` of dwm, and
the way back by a real-time signal. A text is its control characters with their positions.

**`DwmGeometry`** keeps, for each client, the geometry in dwm's memory and the one the server has.
`arrange` runs the layout of `config.h` that the monitor has (`tile` with the gaps of vanitygaps,
monocle, none); `resize` goes through `applysizehints` and, when the geometry changes, `resizeclient`
with the border that `noborder` takes away. `MoveMotion` and `ResizeMotion` are one motion of a drag,
with snapping and the change to floating; `Drop` sends the client to the monitor under it.
`configurenotify` is a screen that changes its width.

**`DwmBar`** is `drawbarwin`: the areas left and right that the rules of `barrules` take modules from,
then `buttonpress`, which goes through what was drawn, and the click functions, which compute again
what is where inside a module.

### dunst

**`DunstQueues`** keeps the three queues, the notifications by address and the ids that clients
believe to be open in one record `q`, and each function of `queues.c` is an operator on it. A
handler (D-Bus method, key, click, answer of the menu, signal) and the `wake_up()` it ends with are
one action, because dunst runs them in one callback of its main loop: the handler's operator, then
`Run`, which asks for the fullscreen state, applies `queues_update` and frees what nothing refers
to. Only the D-Bus calls that open a menu do not update. `queues_update` is the composition of its
five loops, `move_back`, `displayed_limit`, `show_waiting`, `push_back` and `seep`; each loop walks
the list as it was when the loop began (`InTurn`), as the code does with `nextiter`. Time is
abstracted: any displayed notification with a timeout may be found to have timed out, unless its
display has just begun. A notification is described by its `kind`: what the client asked for after
the rules have been applied.

**`DunstRules`** is how a message becomes a notification: the hints of `dbus_message_to_notification`,
`notification_init` with its defaults, `rule_apply_all` and the values it saves in `original`, the
icon, scripts at each display (with `always_run_script` and without it), `RuleEnable`, and a reload that takes the rules back and applies the new
ones. A pattern is the set of values it accepts; a configuration is a value of a constant.

**`DunstBus`** is dunst among other programs: every D-Bus method with its answer, the signals for
properties, closings and actions, the pause level, `dunstctl set-paused toggle` with its read and its
write, Unix signals, the bus name, and a second dunst that finds the name taken. What dunst sends waits
in the inbox of a program, in order; a program's view is made of what it has read. Its queues are those
of `DunstQueues` without urgency and timeouts.

**`DunstWayland`** is `wl.c`, `wl_output.c` and `pool-buffer.c` between `run()` and a compositor. A
handler that ends in `wl_display_roundtrip` leaves its rest on a stack, and events are dispatched from
there, which may enter `run()` again. `w` holds `ctx`, the pending and the committed surface state and
what the compositor owes (configure, frame done, release). Objects that dunst destroyed drop their events.

**`DunstSeats`** is `wl_seat.c`, `idle.c` and `foreign_toplevel.c`: seats that come, gain and lose
pointers and touch, an idle watch per seat, toplevels with pending and current state, outputs that come
and go, and `is_fullscreen`, `is_idle` and the coordinates of a click, as the rest of dunst asks for them.
`mouse_over` is kept with and without `pause_on_mouse_over`.

**`DunstX11`** is `x.c` and `screen.c` with the server's side: mapping, position, the grabs of the
shortcuts and who else has taken a key, covers by other windows, the focused window's screen, screens.
A move, a resize or a raise of dunst's own window comes back as a `ConfigureNotify`, on which dunst looks
for its screen again.

**`DunstLayout`** is `draw.c` and what `input.c` finds under a click, as functions of settings and
notifications: dimensions before drawing, places while drawing, heights added up by a click. Pixels
are counted at scale 1, with C's integer division.

### st

**`StLines`** promises a page, an alternate page and a history of whole lines. **`StScreen`** is the
ring: `TLINE`, `tscrollup`, `tscrolldown` with the exchange of lines outside of the region,
`tclearregion`, `tresize`, `treset`, `kscrollup`, the selection by lines with `selscroll`, and the
dirty marks. A line is one cell wide (the text in it is the number of the write), which leaves out
nothing but columns. The mapping reads the page from the ring at `cur` and the history from the slots
before it, as many as `hist` says.

**`StCells`** adds columns: characters of one and two cells, wrapping, insertion, deletion, erasure,
tabs, and `getsel` and `selsnap` on the result; `typed` and `where` remember what the program wrote and
where each character is. **`StParser`** feeds `twrite` with the bytes that one `read` returned and the
rest of those before; sequences become entries of `out`. **`StTty`** has the calls of `ttywriteraw` and
`ttyread` on a stack, because each calls the other, two bounded queues for the pseudoterminal, and
`run` with `select`, events, `timeout` and `drawing`. **`StSelection`** has the button events that
select, the X server's owners, requests and property events in the order the server sends them, the
INCR protocol and bracketed paste. `SelectionClear` has no handler in st (x.c:210 is commented out), so
a highlight stays when another window takes PRIMARY; `xsel` says which text st keeps, relative to what
is highlighted; `selnotify` is a loop of steps (`ReadPiece`,
`DeleteAgain`) during which owners write on. **`StDraw`** draws rows into a pixmap of squares (each a
glyph with the colours it was drawn in), moves the cursor, copies to a window that the server covers,
uncovers and resizes, and keeps the cache of fallback fonts.

### Conventions

`…Uses` holds sets of optional behaviours; a behaviour of the specification draws one of them at its
start, so that one run covers several mixtures. Where a mixture shows something that the code does not
keep, it is left out of the run's constant and named under [findings](#findings-and-divergences).
A definition whose name ends in `_` and a word (`selscroll_Stays`) is a plausible mistake in the
definition before the `_`: with it, the property it is paired with in `PROJECT.json` fails.

## Runs

All states within the bounds are visited; no run replaces a definition. Where a run covers several
parts, one part moves in each behaviour (see [plan](#plan)).

| run | module, cfg | what it shows | bounds, and why they are enough |
|-----|-------------|---------------|---------------------------------|
| `block_schedule` | `BlockSchedule`, `BlockSchedule.cfg` | the tick is the gcd of the intervals; in harmonic configurations an alarm runs exactly the blocks whose interval divides the elapsed time | 3 blocks, all intervals up to 6, 24 s: four turns of the longest interval. Proved for all |
| `blocks_safety` | `MCDwmBlocks`, `blocks_safety.cfg` | one child per block, pipes belong to their child, no blocking call, the root window shows the outputs, outputs never go back | one periodic and one signalled block, 1 change, 1 refresh, 1 kill, any failures and SIGTERM: two requests meet a child at each stage, and the round's signal meets each snapshot. Proved for all |
| `blocks_live` | same, `blocks_live.cfg` | blocks with an interval end up with their present value; only a killed child's block stops | 1 change, 1 kill. Only the last change matters for convergence |
| `blocks_signalled` | same, `blocks_signalled.cfg` | violation: a signal during the child's life is lost | 1 change is enough to lose |
| `dwm_views` | `MCDwm`, `dwm_views.cfg` | no list is broken, `sel` follows the focus stack and has the input focus unless it refuses it, the server maps what dwm manages; with tags and moves; with floating, fullscreen, drags and urgency; with programs that take the focus, refuse input, change their hints and destroy | a fixed window and its transient, 2 monitors, 2 tags: a window can be shown by one view, both or none; 2 events in the queue, so that a `FocusIn` is read after what followed it. Proved for all |
| `dwm_windows` | same, `dwm_windows.cfg` | no list or `sel` keeps a window that is gone or a monitor that is removed; `_NET_CLIENT_LIST` is exact | 2 windows, 1 to 3 screens, 2 events in the queue: unmap and destroy both outstanding while a command runs; two monitors can go at once. Proved for all |
| `dwm_restart` | same, `dwm_restart.cfg` | after a restart every window is on its monitor, with its tags, state and place in the list | 3 windows, one a dialog: the smallest number for which `attachx` can meet a window between, before and after others. Proved for all |
| `dwm_drag` | same, `dwm_drag.cfg` | violation: a drag toggles a window that is mapped meanwhile | 2 windows |
| `dwm_screen` | `MCDwmScreen`, `dwm_screen.cfg` | settings follow the view and survive a restart; a click on the status runs its block, on the bar hits what is drawn; the server's geometry is dwm's, tiles fill the area and do not overlap, fullscreen covers the monitor | settings: 2 tags, 2 layouts, 2 changes, 1 restart (proved for all). Status: 3 blocks, one before and one after the clicked one, widths to 2. Geometry: 2 windows of which one has hints, 2 screens of which one widens from 8 to 11 pixels, gaps of 0 and 1: odd and even widths, a column of one and of two. Bar: 3 alignments of five modules, 3 widths: nothing, some and all fits |
| `dunst_queues` | `MCDunst`, `dunst_queues.cfg` | a notification is in one queue, ids are closed once, limit and order hold, what the menu locks stays; rules are taken back and applied afresh; watchers and clients know what they should; the window (Wayland and X11) shows what is displayed, contents do not overlap, clicks hit | queues: 3 notifications and ids, limit 2 with the line for hidden ones, so that the limit in force changes, history 1, so that it overflows (proved for all). Rules: 3 messages, 7 configurations, 5 calls, with and without `always_run_script`: two rules where the first changes what the second matches, displays again, then a reload. Bus: a watcher, a client, 3 ids, 5 moves. Wayland: 3 runs, 3 events, 2 outputs: each handler met by each event in its roundtrip. Seats: 2 outputs, seats and toplevels, 5 changes pending. X11: 2 windows, 5 steps. Layout: 5 settings, 7 kinds of notification, two shown |
| `st_screen` | `MCSt`, `st_screen.cfg` | the ring of lines implements `StLines`; selection and marks keep up with scrolling; copied text is what was typed; where `read` cuts does not matter; what is highlighted is kept, claimed and offered, and pasted text arrives whole; the window shows the terminal | screen: a ring of 4 slots, 3 rows, 3 texts: history wraps after two scrolls (the refinement, and with `Undisturbed` selection and marks, proved for all). Cells: 3 columns, 2 rows, 6 characters: a wide character meets every column, a line wraps twice. Parser: 4 alphabets, 5 bytes, buffers of 4 and 5, so that both overflow. Selection: 2 pastes of 1 or 2 pieces, 3 events in the queue (proved for all). Drawing: 3 frames, 2 sizes, 2 fonts |
| `st_live` | `MCStTty`, `st_live.cfg` | nothing is lost or doubled between st and its program; what is typed arrives; what is written is drawn | queues of 2 and 1 bytes: any write may fill them; paste of 4 with pieces of 2; 4 keys; programs that ask for reports, flood, echo; latency 2. `InOrder` proved for all |

`Symmetric` permutes windows in `dwm_windows` and `dwm_drag`, where they are interchangeable and only
invariants and an action property over all windows are checked; no liveness property is checked under
symmetry. Deadlock is checked except in `block_schedule`, which stops at `MaxClock` or at once
when no block has an interval (`alarm(0)`), and in `dunst_queues`, `st_screen` and `st_live`, whose
bounded supplies of messages, bytes and frames run out.

Action properties: `OutputNeverGoesBack` (blocks), `RestartKeeps` (dwm), `MenuLocks` (dunst),
`SelectionKept` (st). `ImplementsLines` is the refinement of `StLines` by `StScreen`.

## Fairness

`Spec` has none. `blocks_live` and `blocks_signalled` use `FairSpec` of `DwmBlocks`:

* `WF(Main)`: the process is scheduled.
* `WF(Child(p))`: a command ends unless it is killed. A command that hangs stops its block for ever
  and is outside of what is claimed; `SiblingsReaped` says that others do not suffer from one that
  is *killed*. A command that closes its output and hangs would stop the loop in `waitpid`.
* `WF(AlarmFires)`: an armed alarm fires.
* `SF` of each branch of the signal handler: a pending signal is not passed over for ever. Linux
  delivers lower signal numbers first, so `SIGALRM` and `SIGUSR1` come before the real-time signals
  and could only starve them if they arrived in every round; alarms are seconds apart.

`st_live` uses the fairness of `StTty`:

* st is scheduled (`WF` of its steps), and time passes (`WF` of `Tick`, which the latency counts).
* The program reads what is in its queue (`WF` of `ProgramReads`). One that has stopped reading makes
  typed bytes wait for ever, as on every terminal.
* A program that echoes does so (`WF` of its writes while it owes an echo). A program that writes
  without end need not be fair to st, and does not have to stop: `OutputDrawn` says that st draws
  while it goes on, which is what `maxlatency` is for.

Nothing is assumed of the user, of other windows, of the compositor or of the bus.

## Proofs

TLAPS checks the theorems of eight modules, for every value of the constants that satisfies the
`ASSUME` of the module (TLC evaluates these on each run).

* `AlgorithmProofs` holds what several modules use: a set of naturals has a least element, a loop that
  is a recursive function exists, and what attaching, detaching and `attachx` make of the members of a list (used
  by `DwmProofs` and `DunstQueuesProofs`). Of `timer.c` it shows that `gcd` is defined for all naturals
  (its recursion is justified by least counterexamples), divides both arguments and is divided by each
  common divisor (`gcd_correct`); hence `TickCorrect` and `ResetValueBounds`.
* `DwmBlocksProofs`: `ChildInv` = types, `fork_pid` names a child of its own block
  (`OwnChild`), `OneChildPerBlock`, `PipeBelongsToChild`, `SnapshotStaysValid`, and `MessageTaken`:
  between `read` and `waitpid` the message is in the local buffer only and the later blocks of the
  round still have theirs. The last is what makes the others inductive: a block that is executed in
  the middle of a round must not be one of the round's. `Fresh` adds that each sample on its way
  (child, pipe, buffer) lies between the output and the present value, which gives
  `OutputNeverGoesBack`. `StatusInv` follows `current` and `root_name` through the round and gives
  `RootShowsOutputs`. `RestType` completes `TypeOK`. Its last part is about `BlockSchedule`: `SchedInv` says that
  `timer->time` is the elapsed time modulo the longest interval, except in the first round, where it is the longest
  interval itself. With harmonic intervals, `(clock % Reset) % interval = clock % interval`, which is `OnScheduleHolds`.
* `DwmProofs`: `DesktopInv` = `Good` of the desktop (types; each client once in the client list and once in the
  focus stack of its monitor, which exists; `sel` is a client of its monitor and the first visible one of the focus
  stack; `_NET_CLIENT_LIST` is what dwm manages), `WaitingOK` (what the scan and the drag still have to do),
  `PersistedOK` (what a restart will read). The functions that a handler composes do not keep `Good`: between `detach`
  and `attach` a client is in no list, between `attach` and `focus` the selection is that of before, while
  `updategeom` removes a monitor its clients are on their way. Each function has a lemma of its own with the part
  that is true when it is called and when it returns (`LinkedBut`, `Listed`, `Linked`); the handlers chain the lemmas.
  `ListsSoundHolds`, `SelIsLastFocusedHolds` and `ClientListExactHolds` follow from `DesktopHolds`.

  `ServerInStep` compares dwm with the X server when no event is left, so its invariant `ServerInv` is about
  what the events left still explain (`InStep`): a managed window that is not mapped has its `UnmapNotify` in the queue,
  a focus that is not where `sel` is a `FocusIn`; no event tells of what is no longer so (`Current`); and the events
  about one window come in the order unmapped, to be mapped, destroyed (`Ordered`), for handling a `MapRequest` before
  an older `UnmapNotify` would unmanage the window just mapped. `Found` says that what is mapped and not managed is
  what a scan has yet to look at, `Fresh` that before the first restart no such window exists. A drag handles the
  `MapRequest`s first; that is harmless while `Fresh` holds. `ServerInStepHolds` therefore supposes
  `Simple`: no window is hidden, none begins to take input while it is selected, and no restart comes before a drag.
  `dwm_views` satisfies it; without each part TLC finds a counterexample (see below). A selected window that refuses
  input claims nothing about the focus, and `HintsStep` is the step by which one that took it refuses it.

  `RestartRestores` relates what dwm stored when it was last ready to restart to what the new dwm has when its scan
  ends. `FloatsInv` says that what is stored is what the new dwm would decide by itself: a client of a fixed size
  floats, and one that is fullscreen is known to be so and floats. While dwm scans, `ScanInv` says that the client list
  of every monitor is in the order of the stored places (`Ascending`) and that every client whose placement was stored
  has it back. `attachx` looks for the first client stored behind the new one and therefore keeps an ascending list
  ascending, wherever the X server lists the windows (`AscendingAttachx`); `manage` puts a window where `placement`
  read it from (`ManageIs`, `PlacementStored`). An ascending list of clients with different places is in their order
  (`AscendingOrder`), which is the property. `RestartRestoresHolds` supposes `Restorable`: no window is fullscreen,
  or none has a fixed size and `Simple` holds. `dwm_restart` satisfies it; without each part TLC finds a counterexample
  (see below).
* `PertagProofs`: `IInv` = types of the settings and of what is saved, and `CurrentTagInForce`,
  which is inductive with them: each command writes the same field of `mon` and
  `pertag[curtag]`, each change of the view copies. `RestartIsSeamless` is an action property from
  the types alone.
* `DunstQueuesProofs`: `QueuesInv` = `Good(q, Note, Locks)` and the types of the rest. `Good(s, H, L)` says that
  no notification is in two queues or twice in one (`Apart`), that what is held has been received under an id that
  was given (`Known`), that the history keeps its length, that the queues hold some of `H` and only members of `L` are
  locked, if clients are `Tidy`, that ids in use and notifications to be signalled are `Paired`, and, if
  replacements are `Graded` (as urgent as what they replace, of no reused id), that the queues are sorted. `H` and
  `L` are parameters because the answer of a menu unlocks one notification after the other and frees the others. A loop
  of `queues_update` walks a queue from which it takes elements, and closing by id may take another than the one
  visited: `Suffix` says that what has not been visited is still the end of the queue.
  `InOneQueueHolds` has no hypothesis. `IdsClosedOnceHolds` supposes `Tidy` (no program reuses a closed id, none
  replaces by a notification without text), `MenuLocksHolds` also `Single` (no second menu); TLC finds a counterexample
  without each (see below).

  `Settled`, the other part of `QueuesInv`, says what the last update left behind, and `UpdateSettles` that every update
  does. Its loops are counted along: the second one fills what it can and lets only suppressed and skipping ones go
  (`ShowWaitingFills`), the third ends at the limit (`PushBackKeeps`), the last swaps the first that waits with the last
  displayed, so that those not served yet become fewer (`SwapServes`, `SeepServes`: a set whose cardinality
  falls). That the lines fit the limit needs no hypothesis (`LinesAlwaysFit`). That none waits while there
  is room (`LimitKept`) supposes `Steady`: `displayed_limit` takes a line off for the hidden ones before the second
  loop may close some of them, so that with this line none may skip the display, and what a fullscreen window
  suppresses must come last. `ImportantFirstHolds` supposes `Graded` and `Sound` (a notification that is closed by its id
  is closed itself, or none skips the display). The constants of `dunst_queues.cfg` satisfy all of them.
* `StScreenProofs`: `LinesImplemented`, `ScreenSpec => ImplementsLines`, that is `StLines!Spec` under the
  refinement mapping. Its invariant `ScreenInv` says that sizes, cursor, region and both rings are sound and that every
  row of both pages holds text; a line of the history may not be allocated, and no property of the lines depends
  on it. The heart is the loop of `tscrollup` and `tscrolldown` that exchanges lines `n` apart: after `j`
  exchanges the first `j` slots of its path have what was `n` further on and the next `n` hold, in some order,
  what the first `n` held (`Window`, `ExchangeKeepsWindow`). Which order it is does not matter, because
  these `n` lines are cleared or become the history in the order in which `cur` moves over them
  (`RingScrollsUp`, `RingScrollsDown`; `ScrolledPast` for the history). Each function of `st.c` has a lemma that says
  what becomes of the lines (`tscrollupMoves`, `tclearregionErases`, `tresizeResizes`, ...), each operation of
  `StLines` one that says what becomes of the list (`UpPages`, `ErasePages`, `NewestPages`, ...), and they meet in
  `UpBySteps` and its like; `Viewed` is what StLines does not see. Nothing is supposed of the sizes; supposed is
  `Counted`: no count overflows to -1, for then `SU` clears two rows that no terminal would (see below).
* `StScreenProofs`, second part: `SelectionKeptHolds`, `ScreenSpec => SelectionKept`. Its invariant `SelInv`, beside
  `ScreenInv`, says that a selection lies in the window, its ends in order, and that the view is at its end where one is
  possible. `Attends(s, u)` says that from `s` to `u` each row is marked or reads and shows as before, and that a
  selection left is one of the same text; it is reflexive and transitive, so each function of `st.c` has one lemma
  (`tclearregionAttends`, `tscrollupAttends`, ...) and a handler that calls several composes them. The heart is
  `ScrolledAttends`: `tscrollup` first clears what scrolls in, which takes a selection there away, then marks, and
  `selscroll` moves what is left by as many rows as the lines moved, or takes it away if it would leave the
  region, marking its rows; the lines of the region are where `UpBy` says. Writing into the selection
  (`tputcTends`) and swapping pages (`swapscreenSwapped`, which marks all) are cases of their own. Supposed is
  `Undisturbed` beside `Counted`: a selection does not come with `DL`, with a resize, with Page Up and Page Down or
  with `RIS`; with each of them the code leaves it on other text (see below).
* `StSelectionProofs`, first part: `OwnInv` = types, `HighlightIsKept`, `OffersHaveText`, and
  `CopiedFromPrimary`: a clipboard text was copied from a primary one, and that is replaced but never
  freed. It is needed for `clipcopy`, which drops the clipboard's text before it looks at the primary
  one. `Claimed`, the action part of `SelectionsAgree`, follows for each step under the invariant. The
  case that matters is a release that st handles after another window took PRIMARY: `setsel` asks who
  the owner is.
* `StSelectionProofs`, second part: `PasteInv` says that there is at most one transfer and in which of eight
  phases it is (`Waits`, `Answered`, `Reads`, `ReadWhole`, `Accepts`, `PieceComes`, `ReadsPiece`,
  `PieceRead`), each with what it implies for the queue, the event mask, the property and the owner.
  `Counting` says that what was read, what is unread in the property and what the owner still has are
  the pieces that were asked for, by their numbers: a relation on naturals that each step moves along.
  The theorem `PastesAlwaysArrive` supposes `Steady`: no owner that sends between two deletions, no
  overlapping pastes, no program that changes the mode of brackets meanwhile; with each of these TLC
  finds a counterexample (see below).
* `StTtyProofs`: `InOrder` speaks of bytes that have arrived, so `IInv` adds those on their way: `ToLine`
  (what the program has read, its queue, the rest of the paste in `ttywriteraw`, the event st has not taken) and
  `FromLine` (the screen, what `twrite` has still to process, the queue) hold every number once and in order, and
  `Answered` counts one reply, written or being written, for each request processed. Where a byte is depends on
  the calls: `CallsNest` allows at most `ttywriteraw` of a paste, in it the `twrite` of a `ttyread`, in it
  `ttywriteraw` of one reply, which finds room and therefore never reads. Each step moves bytes from the head of
  one part to the end of another (`KeySent`, `ByteRead`, `ByteProcessed`, `ReplySent`), and `CountedInsert` says
  that replies between the keys do not change their numbering. `InOrderHolds` supposes `Roomy` (no program both
  asks for reports and clogs the line); without it `ttyread` runs inside of itself, and TLC finds bytes twice.

The handlers of `Dwm` and `DunstQueues` are compositions of folds over lists. What a fold *computes* needs
induction over data, for which this prover has no rule. That each value of the recursive function
satisfies an invariant of its index does not: the set of indices at which it fails would have a least element
(`LeastElement`), which is not 0 and has a predecessor at which it holds (`LoopExists`, `VisitsExist`, `VisitsKeep`).
TLC checked `DesktopInv`, `ServerInv`, `FloatsInv`, `ScanInv`, `QueuesInv`, `SelInv` and the `IInv` of `StTty` as invariants of the runs before they were proved.

Only model-checked: geometry and bar, `StatusClick`, the other parts of
dunst, and the other modules of st. Out of this prover's reach are
liveness under fairness and what the recursive functions of the parser and of `getsel` compute.

## Findings and divergences

Runs that show a violation:

* `blocks_signalled`: `block_execute` ignores a request while the block's child is alive; a volume
  changed after the running `volume.sh` has read it stays stale until the next key press.
* `dwm_drag`: `movemouse` toggles `sel`, not the dragged client, after a window was mapped during the drag.

The rest was met while modelling. Where a set of behaviours and a property are named, adding the set to
the module's `…Uses` makes TLC find the violation; the runs leave those sets out.

**dwmblocks.** A block without a signal takes the clicks of the block before it. With intervals that
do not divide the longest one, blocks run early after each wrap. A block's signal between `exec` and
`sigprocmask` ends dwmblocks. A block whose child was killed never runs again: its pipe stays
unreadable and `fork_pid` set.

**dwm, windows and views**

* A window that is hidden and shown again before dwm has read an `UnmapNotify` caused by its
  program is unmanaged while mapped (the server's state is therefore compared without `hide`).
* A window that is selected while its hints refuse input, and then begins to take it, is given the focus only by
  the next `focus` or `FocusIn`, not by the `PropertyNotify` of its hints (`ServerInStep`, `"late input"`).
* A window unmapped while dwm scans, whose program asks to map it during a drag, is managed by the drag's
  `MapRequest` and unmanaged by the older `UnmapNotify` when the drag ends, and stays mapped (the server's state is
  therefore compared with a drag or with a restart, not with both).
* A window of a fixed size that is withdrawn while fullscreen and mapped again starts as floating only through
  its fullscreen state; when it leaves that it is tiled, and floats again after a restart (`RestartRestores`,
  `{"fullscreen"}` and a fixed window).
* A window that stays mapped and unmanaged as in the first two points is found by a later restart, which restores it
  from what an earlier one stored; if it was made fullscreen since, it floats although it was stored as tiled
  (`RestartRestores`, `{"fullscreen", "hide"}` or `{"fullscreen", "drag"}`, two windows, two restarts).
* `setclientfields` stores three bits of the monitor's number and eight of the place in the list: `Persisted` has
  both whole, so what is said of restarts is for up to 8 monitors and places up to 255.
* `cleanup` makes hidden windows `Withdrawn`; after a restart they are not found again. A window whose
  `WM_TRANSIENT_FOR` is set between the two passes of `scan` is managed twice or not at all.
* `createmon` sets `curtag` to 1 while another view is restored, so that commands change the settings
  of a tag that is not shown until the view changes (`CurrentTagInForce` is claimed up to a restart).
* `toggleview` leaves the gaps of the tag before in force. With `curtag` 0 it shifts by -1; on the
  machines dgbwm supports the result is no tag.

**dwm, geometry and bar**

* `ServerAgrees` fails with `{"view", "configure"}` (a hidden client's request changes dwm's geometry
  only), `{"border"}` and `{"configure", "float"}`; `FullscreenCovers` fails with `{"full", "send"}`: a
  fullscreen window sent to another monitor keeps the size of the first.
* A window of a fixed size that is fullscreen when it is mapped floats only through its fullscreen state, and is
  tiled when it leaves that (`FixedFloats`).
* A change of screens or a configure request during fullscreen overwrites the geometry to go back
  to. `setfullscreen` does not arrange the other tiles again.
* The first pixel after the tags is a click on a tag that does not exist. The pixels that a division
  of the titles leaves over are drawn and clicked differently. A click on the bar of an inactive
  monitor first redraws it with the status, so what is hit may not be what was seen. The branch for
  `RIGHT_CENTER` adds `w` where the others subtract it (unused in `config.h`).

**dunst, queues**

* `context_menu` locks its notifications before `context_menu_for` refuses to open a second
  menu; those that the first menu does not hold stay locked for ever (`LockedByMenu`, `"second menu"`).
* A client may reuse an id that is closed. If the closed notification then comes back from
  the history, two have the id, and closing takes both and accounts for one (`IdsClosedOnce`,
  `"replace closed"`). A replacement without text is reported as closed although the old one is
  still displayed (an `empty` kind with `"replace"`).
* A replacement of another urgency keeps its place, so that the queue is unsorted, and more
  urgent ones may wait (`ImportantFirst`, `"regrade"`); `seep` looks only at the head of
  `waiting`, so that one that is not ready there keeps all others from seeping in, which is why
  `ImportantFirst` supposes that all are ready.
* With `skip_display`, `notification.h` promises "skipping initial waiting and display", but
  such a notification waits while the window is full or dunst is paused, and the room that
  its closing makes is used at the next update only (`LimitHolds`, a `skip` kind and pause). The same
  room is lost when a fullscreen window suppresses one that is more urgent than others that wait (`LimitHolds`,
  `{"pause", "fullscreen"}`, an urgent kind with `"suppress"`, four notifications).
* The dmenu thread reads the texts of notifications that the main loop may change meanwhile.

**dunst, rules**

* `ReappliedIsFresh`, that a reload gives what the new rules give to the message, fails under `"override"`
  and for messages with a colour or a timeout of their own, without a tag or without an icon, since the
  values to restore are those after the first rules; also under `"default icon"` with `"no icon"`,
  `"raw icon"`, `"icon off"`, `"icon size"` and `"settings"`. Text is never formatted again.
* A reload appends scripts to those there are, so a notification displayed after it, for the first time
  or, with `always_run_script` (the default), again, runs one three times (`ScriptsOnce`,
  `"late script"`). The runs reload only when no script is to run any more. `RuleEnable` is not applied to
  what there is and is lost on reload. Messages that are empty, which are never displayed and run their
  scripts at once with `always_run_script`, are not in `DunstRules`.

**dunst, bus**

* `WatcherKnows` fails with `"startup"` (properties change before the name is taken), `LevelIsWanted`
  with `"reload"` (pause level 0) and `"race"` (`dunstctl set-paused toggle` reads, then writes),
  `NamesWhatItKnows` with `"slow"`. Ids begin at 1 again after a restart.
* A menu action while the menu is open locks its notification for ever (`"stuck"` in `DunstBus`): updates, pauses
  and clicks to close then pass over it, and only the bus, a replacement or a later menu that shows it end that.
* `NotificationAction` compares the position with the number of waiting notifications
  (`dbus.c:293`), not of displayed ones. `close-all` closes waiting ones too. A pause level of 2^31 and
  more becomes negative. A second dunst that was refused ends even if the first one ends meanwhile.

**dunst, window**

* Wayland: hiding and showing again around a reload sends a frame without a buffer
  (`BuffersSafe`, `{"hide", "reload", "reload shown"}`), and the same without a reload when the compositor held
  both buffers at the last draw (`"hold"`, where `BuffersSafe` asks only that no held buffer is drawn into);
  `"wake"` leaves two timers (`OneTimer`). With both buffers held nothing is drawn until the next run:
  `ShownIsWanted` leaves that case out. A size that the compositor
  proposes while a frame is pending is attached and not committed.
* Seats: a fullscreen window that is closed, moved or unplugged does not wake dunst (`StatusFresh`);
  a pointer that did not move since the surface came is where it last was (`PointedAt`,
  `{"point", "still"}`); `{"state", "move", "unnamed"}` breaks `FullscreenSeen`. An output that is destroyed before its
  windows leave it stays referred to. Two pointers share one `mouse_over`.
* X11: `OnActiveScreen` and `WindowShown` fail with `{"keyboard", "focus", "race"}`; `StatusSeen` with
  `{"notes", "fullscreen", "race"}`; `GrabsFollow` with `"half"` and `"remap"`. `follow = mouse` moves only
  on focus events; a change of monitors does not redraw; at offset 0 a window is never moved.
* Layout: a gap with corners only at one side, or a screen narrower than width and offset, breaks
  `WindowFits`; an icon on top with `height.max` lies under the progress bar; with
  `text_icon_padding` larger than `padding` and `hide_text` an icon lies outside. Padding 0 and an odd
  icon overlap by a pixel. With an odd separator the last row of pixels is not clickable.
  `frame_internal_radius` overflows when radius times height reaches 8192.

**st**

* Screen: lines that were never allocated can be shown (`LinesExist`: `{"index", "resize", "view"}`,
  `{"index", "reverse", "reset", "resize"}`, reverse index and Page Up). Deleting lines inside of a
  selection leaves it where it was, and so do Page Up, a resize and `RIS` (`SelectionKept`: `{"select", "delete"}`,
  `{"select", "view", "write"}`, `{"select", "resize", "index"}`, `{"select", "reset"}`).
  A count that overflows to -1 makes `SU`, `SD`, `IL` and `DL` clear two rows. A scroll by more than one
  with lines above the region reorders the history.
* Cells: a blank at the end of a wrapped line is lost when copied; a wide character that wraps early
  leaves no mark, so a newline is copied; `DCH`, `ICH`, `EL` and `IRM` split wide characters; a wrapped
  line of blanks makes `getsel` read before the line; a double click on a blank after a wide character
  selects the word.
* Parser: after `ESC c` the chosen character set, the modes of `xsetmode` and saved state stay
  (`ResetIsInitial`).
* Transport: a report that does not fit into the pseudoterminal is written from inside `ttyread`,
  which then reads inside of itself (`InOrder`, `"clog"`). With queues that are too tight for what it
  echoes, a program that waits to write before it reads stops both (`TypedArrives`, `"tight"`).
* Pasting: an owner that sends between the two deletions loses a piece (`PastedWhole`,
  `{"paste", "incr", "race"}`); two pastes at once mix or lose pieces (`"overlap"`); a mode that changes
  during a paste leaves brackets open (`Bracketed`, `{"paste", "bracket", "mode"}`).
* Drawing: blinking text in the last row or column does not blink (`"blink anywhere"`); resetting the
  palette redraws nothing (`"colour reset"`). Half of a wide character shifts or hides glyphs. The
  block cursor is invisible on a reversed blank. A release of the button after the program has switched
  mouse reports off claims PRIMARY again, with the old text.

## What is not modelled

* dwm: the IPC sources (not built), text drawing, the indicators and the systray (off in `config.h`),
  stacking order, the aspect of size hints, the parsing of X properties, the attributes that `hide` saves
  and sets to keep its own `UnmapNotify` away (for a window destroyed by then these calls fail without effect). `wintomon`, which asks the X
  server for the pointer, is any monitor. X errors other than requests about destroyed windows end dwm and are `Crash`.
* dwmblocks: the scripts beyond "read a value, print it, maybe fail"; PIDs are abstract: a block's
  child takes a free one of two, so that a reused pid is covered.
* dunst: the clock (timeouts are nondeterministic, so nothing is said of when, nor of ages), the option
  tables and their parser, markup, icon files and themes, the other values of `sort`,
  `ignore_dbusclose`, URLs, what scripts and actions start, allocation and drawing inside of cairo and pango.
* st: loading fonts, ligatures (off), sixel (not in this source), mouse and keyboard encodings beyond
  "a key writes bytes", input methods, the printer, locales.
* Generated and vendored code (Wayland protocol headers, `utils` of dunst, `drw` beyond what the bar
  uses), the installer, `dgwm-config`, `dgwm-run`.
