# amprack: a TLA+ verification of the guitar rack

amprack-6-pc is a JACK/GTK guitar effects rack: audio from JACK passes through
a chain of LV2 plugins, is copied to a queue, and a worker thread writes what it
takes from that queue to a file while a recording is on. The GTK thread changes
the plugin chain, starts and stops recordings, edits presets and exchanges them
with another computer. Almost nothing in the program takes a lock: the callback,
the worker and the GTK thread share plain variables, guarded by flags and by the
order in which they are written. This directory holds the specifications of that
core, the TLC configurations that check them on small instances and the proofs
that hold for every instance.

## Inventory

Threads: the JACK callback (`jack.cc:3-15`, `process.cc`), the GTK main thread
(everything under a signal handler), the worker started by
`LockFreeQueueManager::init`, and, while the Sync window is open, a server thread
(`sync.cc:48-61`).

| Component | State it keeps | Operations | Hard behaviour | What makes it correct |
|---|---|---|---|---|
| LockFreeQueue (`LockFreeQueue.h`) | slots, read and write counter | push, pop, peek, size | two threads, wrapping counters | behaves as a bounded FIFO; no slot is overwritten before it is taken |
| LockFreeQueueManager (`LockFreeQueue.cpp`) | buffer pool, `buffer_counter`, `ready`, functions | init, process (callback), main (worker), add_function, pop_function, quit | the pool is as long as the queue; a refused push is ignored | every block delivered once, whole and in order while the worker keeps up; how wrong it may get when it does not |
| FileWriter (`FileWriter.cpp`) | `ready`, file and encoder handles, file type | startRecording, stopRecording, disk_write, setters | the worker writes while the GTK thread closes | a recording is one run of blocks, none written twice, interrupted only by what is known to be dropped |
| Processor and Engine chain (`process.cc`, `engine.cc`) | per-slot ports and instances, `activePlugins`, `bypass`, list of plugins | process; addPlugin, moveActivePluginUp/Down, delete, clear, on/off, buildPluginChain | the chain is rebuilt under the running callback | a pass over a settled chain runs every enabled plugin once, in rack order |
| Rack (`rack.cc`, `pluginui.cpp`) | rows on screen and their indices | add, delete, move, bypass, load preset, clear | indices kept in two places | row i drives plugin i |
| Plugin, PluginControl (`Plugin.cpp`, `PluginControl.cpp`, `pluginui.cpp`) | controls, their values, their sliders | make the controls of a plugin, move a slider, load and save values | fields nobody sets; controls, sliders and values counted differently | a row shows what its plugin plays, and a loaded preset is what is played |
| Presets (`presets.cc`, `rack.cc`, `util.cc`) | four tabs of rows, lists for the arrows, one position for all of them, the page of the library, JSON files | page, load, save, delete, favourite, import, export, arrows | rows and lists kept apart; three numbers for one page; files written in place | nothing out of reach, the page shown is the one displayed, files whole |
| Main window, settings (`main.cc`, `settings.cc`, `lily.cc`) | the files that outlive a session | start, list the plugins, show, quit, change a setting | quitting writes three files in a row, and does not wait for the server thread | the rack and the favourites of one session |
| Sync (`sync.cc`, `server.cc`, `client.cc`) | sockets, thread, received presets | send, serve, import, close | threads joined while blocked, half-closed sockets | both sides end with the union of the presets |
| upwaker, vringbuffer, ringbuffer (`upwaker.c`, `vringbuffer.c`, `ringbuffer.c`; kept in the tree, not in the Makefile) | flag and condition; semaphores and two rings; byte ring | sleep, wake_up; get/return reading and writing, increase; read, write, peek | lost wakeups, growth while in use | a wake is never lost; a buffer is in one ring at a time |
| symap, urid maps (`symap.c`, `lv2_ext.cpp`, `Plugin.cpp:691`) | symbols | map, unmap | none that is reached | ids are stable and distinct |
| Audio drivers (`jack.cc`, `pa.cc`) | client and ports | open, activate, auto connect | the callback runs before the queue manager exists | |

## How the parts interact

```
 JACK thread                worker thread               GTK thread            server thread
 Processor::process         LockFreeQueueManager::main  signal handlers       Server::serve
   | bypass? -> return        | pop                       | Rack: rows          | accept
   | pass over the slots <----|---------------------------| buildPluginChain    | get_request
   | manager.process          | disk_write  <-- ready ----| start/stopRecording | import, send
   v                          | check_notify              | Sync window --------> close, join
 LockFreeQueue --------------->
```

The arrows are plain shared variables. The callback reads `bypass` and the slot
arrays that the GTK thread writes; the queue's two counters are the only atomics;
the pool of buffers is shared by agreement of a counter with the queue's length;
`FileWriter::ready` is all that stands between `disk_write` and the file that the
GTK thread closes.

## Modules

| Module | Models | State and actions against the code |
|---|---|---|
| `BoundedFifo` | what LockFreeQueue promises | an atomic queue of bounded length |
| `LockFreeQueue` | `LockFreeQueue<T, CAPACITY, INDEX_TYPE>` | the slots and both counters; `push` is test, store, publish, and `pop` and `peek` are test, load and (pop) release: one step per shared access, counters modulo the index range |
| `LockFreeQueueManager` | `init`, `add_function`, `process`, `main` | one step per sample copied and per sample read, so that a fill and a read can meet in one buffer; the queue is the atomic one, which `LockFreeQueue` implements |
| `Recorder` | `startRecording`, `stopRecording`, `openFile`, `closeFile`, `disk_write` for MP3 | every use and every release of encoder, file and buffer is a step of its own; the callback and the chain changes that silence it are there, since they decide which blocks exist |
| `PluginChain` | `buildPluginChain`, `Processor::process`, `Engine::check_notify` | the slots store by store, the pass slot by slot, the worker's walk over the vector of plugins access by access; every change of the rack that rebuilds |
| `Rack` | rows and positions | `index`, the card's name and `CallbackData::index` per row, `plugs`, `uiv`; each signal handler is one step, because all run on the GTK thread |
| `Controls` | `PluginControl`, the sliders, `getPreset`, `load_preset` | per control its port, its type and its range, what the plugin plays (`def`) and what its slider shows; a field that nobody sets holds any value |
| `PresetLists` | the tabs, the lists of the arrows, the files behind them | each handler of the GTK thread is one step; the directories are read in any order at a start |
| `LibraryPages` | the buttons and the spin button of the library | `page`, the value of the adjustment and the page on screen, and the call of `change_value` only when GTK sees a change |
| `SavedState` | every JSON file that the program writes and reads again by itself: presets, hearts, `default`, `fav.json`, `config.json`, `library.json`, the three lists of plugins | emptying a file and writing it are two steps, of the GTK thread or of the server thread, with kills, uncaught exceptions and restarts anywhere; the library is what its server answers, whole or malformed, and a file the user chooses to import may be malformed too |
| `Sync` | server thread, clients, closing the window | sockets as streams of pieces, a terminator that may come late, imports file by file |
| `Upwaker` | `upwaker_sleep`, `upwaker_wake_up` | flag, wait and broadcast as separate steps |
| `ByteStream` | what the ring buffer promises | bytes appended to and taken from one sequence |
| `RingBuffer` | `ringbuffer.c` | one step per `memcpy` and per store of a pointer, both sides at once |
| `Selection` | a loop over a vector that takes some of its elements | `Kept`, a recursive function and no operator, so that it can be reasoned about; used by `PluginChain`, `Rack` and `Controls` |
| `PresetNames` | the names of presets | the constant that `PresetLists` and `Sync` share |
| `CommonLemmas` | lemmas about `%`, counting, `Kept` and sequences | used by the proofs |
| `LockFreeQueue_proofs`, `LockFreeQueueManager_proofs`, `Recorder_proofs` | the theorems about the module of that name | see below |
| `Engine_proofs` | the theorems about `PluginChain` | |
| `Rack_proofs` | the theorems about `Rack` and `Controls` | |
| `Presets_proofs` | the theorems about `SavedState`, `LibraryPages`, `PresetLists` and `Sync` | |
| `Vringbuffer_proofs` | the theorems about `RingBuffer` and `Upwaker` | |

A module of theorems extends all modules it is about, which therefore have no name in
common: `SyncInit` and `ListsInit`, `UpwakerFairSpec` and `SyncFairSpec`.

`LockFreeQueueManager` and `Recorder` build on what is shown of the module below
them: the first uses a queue whose operations are atomic (`ImplementsFifo`), the
second blocks that arrive whole (`WholeAndInOrder`). `Rack` leaves the callback to
`PluginChain`, and `PluginChain` lets any row be moved or deleted, as `Rack` shows
that it may happen. `Controls` has rows where their plugins are, which `Rack` delimits.
`PresetLists` has files that are whole, which `SavedState` delimits, and `SavedState`
has both threads write any preset, which `Sync` refines. The `MC*` modules give the
constants of a run a symmetry or a bound; a definition whose comment begins with
"mutation" is a plausible bug, used to see that a property would notice it, and takes
no part in any specification.

## Runs

| Run | Question | Bounds and why they are enough |
|---|---|---|
| `lock_free_queue` | does every interleaving of push, pop and peek implement a FIFO? | 4 slots, counters modulo 8, 3 items: the counters wrap twice per range, every slot is reused across the wrap. Larger sizes: proofs |
| `manager` | what can the worker rely on while it keeps up, how late must it be before something is overwritten or refused, what holds however late it is? | 3 buffers, 5 blocks of one or two samples: two buffers are filled twice, a buffer can be torn; fair worker. Larger sizes: proofs |
| `recorder` | which blocks are in which file, and when is stopping unsafe? | 4 blocks, 2 recordings, a queue of 2: a block can be carried from one recording to the next, the queue can refuse, start and stop can fall at any step of `disk_write`. Larger sizes: proofs |
| `plugin_chain` | what do a pass and a walk meet while the chain changes? | 3 plugins, 3 slots, 5 changes: chains of every length and order. Any number: proofs |
| `rack` | which rows still drive their own plugin, and what ends the program? | 5 rows ever made, 3 moves: two presets after each other, a row passing another twice; any number of deletes and clears. Any number: proofs |
| `controls` | when does a row show what its plugin plays, and is a loaded preset played? | two plugins of two kinds, one with an atom port before its control; values in and above the range, and one too few; every content of the unset fields. Any plugins, ports and presets: proofs |
| `controls_saved` (violation) | is a saved rack loaded again? | as above |
| `preset_lists` | can everything be reached, and what do the arrows do? | 2 names, 2 rows a tab, an empty and a filled page of the library: rows of one name, a row deleted beside another. Any library: proofs |
| `saved_state` | which files survive, and what makes a start or a session fail? | 2 presets, 4 starts: a first one that may end in its lists, a quit, another end and the start after it; a view leaves out what a thread had open before. Any number: proofs |
| `sync` | who ends up with which presets, is every client let go, does closing return? | 2 clients, 2 names, all initial directories; clients killed and window closed anywhere; fair threads. Any clients and names: proofs of the safety properties |
| `upwaker` | how many sleeps does a wake end, does it free a waiting sleeper? | 6 wakes, 2 spurious returns. Any number: proof |
| `upwaker_guarantee` (violation) | is no wake lost? | 3 wakes |

Deadlock is checked except where the system really may stop: the process has died
(`recorder`, `rack`, `controls*`, `plugin_chain`), no start is left (`saved_state`),
everybody is done (`sync`), nobody wakes the sleeper (`upwaker*`).

### What they show

- **Queue.** The order of store and counter update is right, the wrap is right, and
  `peek` leaves the item.
- **Manager.** The pool and the queue are equally long, so a late worker always
  loses *queued* audio to newer audio (`OverrunNeedsFullPool`) before the queue ever
  refuses anything (`RefusedOnlyAfterOverrun`). Until then blocks are whole, in order
  and unique; afterwards samples may be newer than they should be, never older.
- **Recorder.** A file has the blocks from the start on, with those that were waiting
  before it, and lacks what was waiting at the stop and what was dropped: bypassed,
  refused by the queue, or refused by lame (`FileWriter.cpp:284-285`), which refuses
  every block if its parameters could not be set (`FileWriter.cpp:179-182`). Every file
  ends in memory nobody wrote: closing writes a fresh buffer of 24 KB as a whole, however
  little `lame_encode_flush` put there (`FileWriter.cpp:199-201`). A stop that falls
  between `disk_write`'s test and its end may put one block, or more garbage, around
  that memory, one block of the last recording, or garbage, at the beginning of the next
  one, or end the process; in no other case does it end (`DiesOnlyInFlight`), except that
  a recording whose file could not be opened writes to a null file.
- **Chain.** A pass is disturbed only by a reset of the slots under it; a pass that
  merely begins during a rebuild runs a prefix of the chain. No caller waits for
  a pass to end, with `bypass` or without. `check_notify` asks every plugin exactly
  once, and safely, unless the vector changes under it (`WalkDiesOnlyByEdits`).
- **Rack.** As to rows, cards and positions, adding, loading presets and clearing are
  right in any order, although `uiv` is never cleared. What else can end the program there
  is not the rack's: an eleventh plugin overruns the slots (`engine.cc:185`, assumed not
  to come), and a preset that reaches an atom port stores through a null pointer
  (`pluginui.cpp:89`, in `Controls`). After one move the knobs are still right and the delete
  button and switch of the moved rows are not; after moves by a wrong index, or a
  delete of a row that is not the last, nothing is promised. Moving the last row of
  a fresh rack up ends the program (`uiv.at` throws), moving the last row down leaves
  the vector, and clearing after a delete uses a freed card.
- **Controls.** A new row may show any value of the range while the plugin plays its
  default; the first change that GTK sees puts that right, and a preset's value that
  equals what happens to be shown is not a change. Loading goes slider by slider, and
  an atom port has a slider but no value in a preset: the controls behind one get
  each other's values. A saved rack is loaded as an empty one.
- **Presets.** Whatever has a file has a row, and whatever has a row can be reached
  with the arrows. The arrows' position is shared by the tabs: going back in a tab
  with fewer presets than the one it was set in ends the program.
- **Library.** The page on screen is the one the button displays, except the first
  one after a start or a refresh. `>` counts on past the last page and takes as many
  `<` to come back. The last, partly filled page is never shown, unless a refresh has brought a
  smaller library: then it may be, and so may an empty one.
- **Files.** No session gets past its start with a file that a kill has cut; the
  start after such a kill fails. In a running session a file of the program's own is
  unreadable only if both threads touch it at once or if it is the library and the server
  has answered with something malformed: that ends the session, and every start after
  it, because the answer is on the disk before it is parsed (`presets.cc:29-33`, 232). A
  malformed file chosen for an import ends the session only (`presets.cc:51`). The rack
  and the favourites of a start are of one session, unless the last one was killed inside
  `quit`. That holds for an empty rack too: `getPreset` makes it `json {}`, a null value,
  and `preset == NULL` in `engine.cc:294` compares that with the number 0 (`NULL` is an
  integer to the overloads of `json.hpp:23829`; only `nullptr` is null), so that the early
  return is never taken and the file is written.
- **Sync.** An import is never half done on the host between requests, the last
  client wins per name, later clients get what earlier ones brought. Closing the
  window before the server thread has a socket never returns or ends the program;
  that case is left out of `CloseReturns` and named there.
- **Upwaker.** A wake between the sleeper's test and its wait is lost. One that the
  sleeper overtakes, by taking the flag before the broadcast, ends two sleeps; all others
  end one at the most.

### Disagreements with the text of the code

| Run | Text | Code |
|---|---|---|
| `upwaker_guarantee` | `upwaker.h:5-7`: a wake is guaranteed to be noticed | `upwaker.c:23-24` tests and then waits without holding the mutex across both |
| `controls_saved` | `main.cc:115`: "Last saved preset", loaded at the next start (`main.cc:88-89`) | `engine.cc:261` writes each plugin under `lv2_name`, which the constructor for LV2 plugins never sets: the saved rack names no plugin |

Four more have no run of their own. `upwaker.h:9-11` says that a row of wakes will wake
the sleeper "_only_ one time"; a single one wakes it twice if the sleeper takes the flag of
`upwaker.c:32` and sleeps again before the broadcast of line 33, and
`OncePerWakeUnlessOvertaken` shows that nothing else does. The comment above `size()`
(`LockFreeQueue.h:146-147`) gives 105 in its example where `LockFreeQueue.h:150`
returns 106. `server.cc:109` says "break if the client is done" and the break at
`server.cc:112` is commented out: a client that has gone is let go only because a
send fails (`GoneIsLetGo`). `ringbuffer.c:37` promises room for "at least `sz' bytes",
and a ring made for a power of two of them holds one less.

## Fairness

`FairSpec` of the manager assumes that the worker, an ordinary thread whose sleep
ends, takes its next step; nothing is assumed of JACK or of the user. `UpwakerFairSpec` lets a call that has begun go on, and assumes nothing of who calls. `SyncFairSpec`
lets the server thread, a client that has connected and the join go on, and
TCP deliver a reset: nobody has to connect or to close the window, and a client may
be killed at any time, which closes its connection. A client that stays connected and
silent is not excluded by the code but by the fairness of the client, which always
sends what it has; with a foreign client that does not, closing the window hangs.
The other modules have safety properties only and assume no fairness.

## Proofs

Every invariant and every action property of the passing runs is a theorem, for every
value of the constants. The assumptions are those of the modules: `QueueAssumption` (the
capacity divides the index range, as a power of two does by the static asserts of the
class, and is smaller, as 128 is for 32 bits), `ManagerAssumption` (the pool is no
larger than the queue, and a block no longer than a buffer), `RecorderAssumption`,
`UpwakerAssumption` and `RackAssumption` (bounds are numbers), `ChainAssumption` (the
same, and no plugin is a null pointer; the guards of `PluginChain` keep the rack within
the slots, as said there), `ControlsAssumption` (the default of a port is in its range,
as LV2 demands; values are numbers; the empty name is no plugin's),
`PresetListsAssumption` (a page of the library is a list of names), `SyncAssumption`
(the host is no client), `SavedStateAssumption` (presets, hearts and the files of
the program's other files are different, as they are in different directories), `RingAssumption`
(the size is at least two, a power of two in the code) and `PagesAssumption` (a page is
not empty). The last two are hypotheses of the theorems.

- `CommonLemmas`. The library's induction theorems take an operator for the statement to
  be proved, which the provers cannot instantiate, but a set of numbers has a smallest
  element (`SmallestNumber`, from `NatLessThanWellFounded`), and a statement that fails
  fails somewhere first: `Counting`. With it `KeptBySteps` shows that the function
  `Kept` exists step by step, and the other lemmas what is kept: elements in the set
  (`KeptIsIn`), an initial part as long as nothing is left out (`KeptPrefix`),
  increasing numbers in their order (`KeptIncreases`).
- `LockFreeQueue_proofs`. The inductive invariant, `QueueInv`, ties each thread's place
  to the state: the producer stores only while there is room and has filled the slot
  before it publishes it, the consumer works on the head only while there is one and has
  loaded it before it releases it. From it follow `QueueTyped`, `NoOverwrite`,
  `LoadedStaysHead` and `Refinement`: every step is a step of `BoundedFifo` or a stutter
  under the mapping "the items between the counters". The safety properties are not
  inductive alone, because a full slot is protected only by the test the producer made
  earlier.
- `LockFreeQueueManager_proofs`. `ManagerTyped` gives types and the positions inside
  `process` and `main`. `OrderInv` says that the buffers in use are consecutive turns of
  the ring, the queue holding them in order and the counter being the next: it makes
  `OverrunTakesFullPool` and `RefusalComesTooLate` counting arguments. `ContentInv`
  adds, until the first overrun, that every buffer in use holds its block and that what
  has been read of one is a prefix; `WholeUntilOverrun` follows. `AgeInv` needs no such
  condition: the callback replaces samples by newer ones only and sets a length only
  over samples of one block (`PoolGrows`), so a buffer pushed for a block holds nothing
  older until the worker is done with it. `LateIsNewer` follows.
- `Recorder_proofs`. `Guarded` says that while `ready` is set encoder and buffer are
  open and the file is if it could be, and that while it is not, a `disk_write` past its
  test is in flight; `Toggled` ties `ready` to the list of recordings. `OneBlockLate`
  and `DeathNeedsFlight` follow. For `BacklogFromBefore` every waiting block must belong
  to the recording that is on, and for `LosesNothingElse` every block since the start must
  be dropped, waiting or written, which holds because `disk_write` gives up no block
  while `ready` is set that lame does not refuse (`NoneGivenUp`). `GapsOnlyDropped` needs the order of what waits
  (`Sorted`: the block in hand is the oldest) and that nothing but dropped blocks is
  missing from it (`Gapless`); `NoneBetween` carries this over to the newest block of
  the file, and `GarbageAtEnds` says where the flush, and a `disk_write` that a stop overtook, may
  leave garbage. `LeavesOnlyDone` is the common lemma: how each step changes the backlog.
- `Engine_proofs`. `FillInv` says that what `buildPluginChain` has copied and what it
  has still to copy make up the chain of the plugins that are on, from which
  `SettledAtRest` follows when nothing is left to copy. `PassInv` says what an
  undisturbed pass has run: the chain up to the slot it is at, and that slot is in use.
  It stays so while slots are only filled, because filling never changes a slot that is
  counted; the reset at the start of a rebuild is what `disturbed` records.
  `PassRunsPrefix` and `PassRunsAll` follow. `WalkInv` says of the worker's walk that
  what it has read is the rack up to its place, and which change must have come between
  its test and its access if the plugin or the storage is gone: `WalkSafe`,
  `WalkReadsAll`.
- `Rack_proofs`, the rack. `OrderOK` keeps the rows on screen and in the engine distinct
  and known to `clear`, `CourseInv` says which copies of a row's position each course
  keeps right, and `EditInv` that without a move or a delete the cards that clear
  removes are those on screen. The last is what makes clearing any number of times safe
  although `uiv` and `plugs` are treated differently. From `RackInv`, their conjunction,
  `RowsRight`, `KnobsRight` and `AddingIsSafe` are read off; `RowsDriveTheirPlugins`
  alone is not inductive, for a cleared rack starts with rows whose numbers go on.
- `Rack_proofs`, the controls. `Made` says how the heap's accidents are contained:
  whatever `type` holds, a control port's range is set and an atom port's type is.
  `SlidersOf` says that sliders stand in the order of their controls, hence that without
  an atom port or a missing slider before it the control c has the slider c
  (`KeptPrefix`, `KeptIncreases`): `PresetsArePlayed`. `SavedIsLost` proves what the run
  `controls_saved` finds on an instance: a saved rack always comes back empty.
- `Presets_proofs`, the files of a session. `Positions` says which file a write of the
  GTK thread is of, from what comes after it, and `Quitting` what has been written by
  then: `RackOfLastQuit`. `OpenAreCut` and `OnlyOpenUnreadable` say that a file is
  unreadable only while it is open, until the threads meet, a malformed library comes or,
  for a process not past its start, one has ended inside a write: `FailsOnly`.
- `Presets_proofs`, the library. `PagesInv` bounds the value by the end of the
  adjustment, and the end by the size, unless a refresh has shrunk the library.
- `Presets_proofs`, the tabs. `ListsInv` adds to the properties that the directories are
  finite, so that reading one lists every file of it (`EachListed`), and that the
  arrows' position is one of the tab it was set in (`ArrowOK`): `AllInReach`,
  `ThrowsInShorterTab`.
- `Presets_proofs`, the exchange. `SendsOnce` says that a client sends one message, of
  the presets it had when it connected, and that nothing of it is imported before its
  end has come; `ServingOK` that the answer holds what all clients handled before
  brought; `HostOK` splits the host's files into those the import under way has written
  and those that are still the last import's; `Writes` and `Reaches` carry this to the
  files of the client. No property of the run is inductive without the messages in
  flight: `AnsweredIsImported`, `HostHasLast`, `LaterClientsHaveThem`.
- `Vringbuffer_proofs`, the ring. `WriterInv` and `ReaderInv` say of each side which
  slots it has claimed, how much of them it has copied and how much released. The other
  side's pointer may move in between, but only towards more room, which is why a claim
  made from an old pointer stays good. `SidesApart` (the two copies never touch one
  slot) and `Refinement` (the ring implements `ByteStream`) follow for every size.
- `Vringbuffer_proofs`, the waker. `Owed` counts what is over and what is due: a wake,
  an overtaking and a spurious return add one at the most, `OncePerWake`.

`RingBuffer` and `LibraryPages` have no run: the ring's and the pages' sizes are what
their properties are about, and the theorems hold for all of them.

Only model-checked: liveness (`EveryBlockProcessed`, `WaitingIsWoken`, `GoneIsLetGo`,
`CloseReturns`), which needs fairness and is beyond the prover. The properties of the
two runs that end in a violation are refuted, not proved.

## Not modelled

- `FileWriter`'s WAV and OPUS branches (`fileType` starts as MP3 and its setter is
  never called) and everything that used the vringbuffer (`false &&`,
  `FileWriter.cpp:409`), and with it `vringbuffer.c`.
- `pop_function`, `quit`, `attach` and `detach` of the manager: never called.
- The exchange of file names through atom ports (`atom.cpp`, `engine.cc:362-387`):
  only `Plugin::load` sets `filePort`, and only `addPlugin_`, which nothing calls,
  calls it. The LADSPA constructor and `symap.c` are out of reach for the same reason.
- Weak memory: stores are seen in source order. The queue's counters are atomics, accessed
  in sequentially consistent order, so for it this is exact; for the slots of the chain, for
  the pointers of the ring and for `ready` it is the best the hardware may do, and a weaker
  order only adds to what the models show to go wrong.
- The newline the server appends after the terminator (`server.cc:197`). The client stops
  at `}}}` (`client.cc:96`) and may close with it unread, which can reset a connection
  that both sides are done with.
- Memory inside vectors and GTK: an access past the end of a vector or of a freed
  card ends a behaviour of `Rack`, and a freed vector under `check_notify` one of
  `PluginChain`. Two threads inside GTK or inside the preset lists at once
  (`server.cc:130`) are seen only in the files they write.
- An eleventh plugin, a JACK period longer than the buffers, recordings named by the
  same second: assumed not to happen, and named where they are.
- `ringbuffer_create`'s loop that rounds the size up, and locking the memory.
- The file a user exports presets to, which nothing reads but an import, and JSON of the
  wrong shape (a preset without controls, say), which throws where it is used. The
  directories under `~/.config/amprack` are taken to exist. A download that gets no
  answer ends the process (`util.cc:175` looks into an empty result) and counts as a kill.
- Drivers, encoders, LV2 plugins, GTK, drawing and layout, the knob widget, JSON and
  HTTP: external. Most lines of the tree are of this kind (`json.hpp`, `httplib.h`,
  the headers of lilv, lame and opus, copies of other programs' hosts and widgets), so the
  share of all lines that the models cover is small; of the program's own core
  (queue, manager, recorder, chain, rack, presets, files, sync) every handler that changes
  state is an action of a module, with the exceptions above.

## Plan

Modelled and checked: everything above. What would come next:

1. Proofs: that `Sync` writes only what `SavedState` lets the server thread write, and
   that the queue `LockFreeQueueManager` uses may be replaced by `LockFreeQueue`.
2. `Vringbuffer`, should the program use it again: three rings and two upwakers, growth
   whose limit is tested outside the lock, `stop_callbacks`. `RingBuffer` and `Upwaker`
   are its parts.
3. The atom port exchange, should a plugin's `filePort` be set again.

Runs stay small, the largest at a few million states; a theorem, not a larger instance, is the
answer to doubts about a bound.
