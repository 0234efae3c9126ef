# GoTube in TLA+

A verification project for the GoTube client in this repository: a video player
for the PlayStation Portable written in C. The modules here model the parts of
`src/src/` that keep state: where threads meet, where buttons, dialogs and delayed
actions meet, and where both change the files of the memory stick. TLC checks them
on small instances and TLAPS proves their safety for every size.

Tools: TLC with the community modules, and TLAPS 1.4.5. `PROJECT.json` holds the
machine-readable index: components, runs, mutants, the map from definitions to
source lines, findings, hazards and theorems. `player.c`, `thumbnail.c` and so on
stand for files under `src/src/`.

## 1. The system

One process, a handful of kernel threads, no protection between them but
semaphores, `volatile` flags, one compare-and-swap and the order in which things
are created and joined. The scheduler is preemptive by priority; a lower number
is a stronger thread.

| Thread | Priority | Code | Lives |
|---|---|---|---|
| callback | 0x11 | `boot/callbacks.c` | always; only delivers the exit |
| audio worker | 0x1f | `player.c` `audio_decode_worker` | one session |
| main | 0x22 | `boot/main.c`, `boot/input.c`, `gui/*` | always |
| player | 0x22 | `player.c` `player_worker`, `decode_file` | one session |
| video worker | 0x22 | `player.c` `video_decode_worker` | one session |
| save | 0x25 | `media/save.c` `save_worker` | one download |
| thumbnail | 0x28 | `gui/thumbnail.c` `thumbnail_worker` | always |

### Inventory

| Component | State | Operations | Meets | Hard because |
|---|---|---|---|---|
| Playback pipeline (`media/player.c`) | two packet queues (list, `bytes`, `ended`, `abort`, lock), codec lock, codecs, picture, SRC channel, two AVPackets | `decode_file`, `packet_queue_*`, both workers | player, video and audio threads; main through four flags | flags read outside locks, ownership handed over, a dozen points of failure, destruction after a join |
| Playback control (`media/player.c`) | `player_thread`, `player_status`, `player_cancel`, `player_pause`, `frame_index`, `player_url`, `player_source_url` | start, start file, stop, pause, planes, matches | main against the player thread | a restart while the old thread still ends; the main thread blocks in a join |
| Network initialization (`natives/http.c`) | `g_net_inited`, `g_http_inited` | `ensure_network`, `ensure_http` | main, player, save, thumbnail | one initializer among many; failures are final |
| HTTP transfers (`natives/http.c`) | a request per call | stream, download, GetContents, PostContents | all of the above | cancel flags, partial bodies, files left or removed |
| Thumbnail cache (`gui/thumbnail.c`) | a slot per row, `thumb_cancel`, `thumb_suspended` | get, reset, suspend, worker | main, save against the worker | no lock: only the slot's state and the priorities |
| Save job (`media/save.c`) | `save_state`, static URLs and paths | prepare, start, worker | main against save | static buffers reused by the next job |
| Favorites (`media/local.c`) | current folder, result list | load page, enter, parent, rename, delete | main | pages and counters that must agree |
| Playlist (`gui/menu.c`) | up to 64 items, cursor | add, remove, first, step, load page | main | an index that removals make stale |
| Menu, screens, input (`gui/menu.c`, `gui/gui.c`, `boot/input.c`) | `g_screen`, `g_menu_phase`, `g_osk_mode`, `g_source_delay`, `g_network_page` | one poll and one render per frame | main, firmware dialogs | delayed actions that fire on another screen |
| Dialogs (`gui/osk.c`, `gui/netconf.c`) | active flags | open, update | main, firmware | polled status protocols |
| Boot and splash (`boot/main.c`, `gui/splash.c`) | frame counter | sequence | main | meets the network dialog |
| Connection state, video output (`net/net.c`, `video/video.c`) | cached flags | poll | main | polled every 1 and 32 frames |
| Comments (`media/comments.c`) | bounded array | load | main | parsing, a limit, a sort |
| Script bridge and natives (`bridge/*`, `js/eval.c`, `natives/psptube.c`) | result list, site list | search, video URL, encode, decode | main, SpiderMonkey | conversions at the end of a string |
| Renderer (`gui/gui.c`), fonts, FFmpeg, FAAD, SpiderMonkey | | | | drawing or vendored |

What would make each correct: the pipeline must deliver packets in order, keep
its limit, lose and double-free nothing, and end when told; control must never
disturb a running thread, show an old picture or block for good; the network must
come up once, in order, and everyone must learn the truth; a slot must not be
freed under the worker's hands; pages must show each entry once; a save must never
mix two jobs; no sequence of buttons may leave the program without input.

`PROJECT.json` lists 40 hazards at their lines, each with the properties that
cover it, or the reason why none does or how far they go.

## 2. The modules

| Module | Lines of | Models |
|---|---|---|
| `PlayerPipeline` | `player.c` 67-440, 524-533 | one session: player thread, workers, queues, stop and pause |
| `PlayerSession` | the same, from outside | abstract: what the main thread may rely on of a session |
| `PlayerControl` | `player.c` 442-522, `boot/input.c` 20-35 and 205-231, `gui/gui.c` 888-905 | the main thread over many sessions, on top of `PlayerSession` |
| `NetInit` | `natives/http.c` 13-63 | `ensure_network` and `ensure_http` by any set of threads |
| `Thumbnails` | `gui/thumbnail.c`, its callers | worker, main and save thread on the slots |
| `ThumbnailCache` | the same, as the drawing sees it | abstract: a row asks, and some time later has the whole image it asked for |
| `Shell` | `boot/input.c`, `boot/main.c` 231-255, `gui/gui.c` 826-979, `gui/menu.c` 146-151, `gui/osk.c`, `gui/netconf.c`, `gui/splash.c`, `net/net.c` | the main thread's loop, frame by frame, with the firmware's two dialogs |
| `Stick` | `media/save.c` 92-109, the firmware's file calls | the files that the next two share |
| `Browse` | `media/local.c`, `gui/menu.c` 26-87, `boot/input.c` 141-203 | Favorites, the playlist, pages, rename and delete |
| `SaveJob` | `media/save.c` 111-182, `natives/http.c` 160-213 | the save: main thread and save thread |
| `Library` | `boot/main.c` 231-255 | `Browse` and `SaveJob` on one stick |
| `MCPlayerControl`, `MCLibrary` | | small instances, a symmetry |
| `Counting` | | facts about numbers and finite sets: least number, induction, ranks |
| `PlayerPipelineProofs`, `PlayerQueueProofs`, `PlayerControlProofs`, `NetInitProofs`, `ThumbnailsProofs`, `ShellProofs`, `LibraryProofs` | | theorems |

`PlayerPipeline` implements `PlayerSession` (the property `SessionSpec`, checked by
TLC and proved by TLAPS), and `PlayerControl` takes `PlayerSession`'s player steps
as its own. So the pipeline's detail never has to be multiplied with the main
thread's. `SessionUndisturbed` is the other half: while a session is on, all that
`PlayerControl` does to it is a step of `PlayerSession`, and a session begins as
`PlayerSession`'s do. `Thumbnails` implements `ThumbnailCache` (`CacheSpec`, checked
and proved). `Library` composes `Browse` and `SaveJob` directly: both change the same
files, and a button waits while the main thread joins the old save thread. `Shell`
abstracts a list to the source it came from, which is what `Browse` details, and the
player to its screen, which is what `PlayerControl` details.

An operator `Mutant...` is the operator after it with a plausible mistake in it.
No action uses it; the index says which property each one breaks.

### PlayerPipeline

`pc` is the place of the player thread in `decode_file`, `wpc` that of each worker.
Steps are as small as the shared reads and writes: `packet_queue_put` is
`PutAdmit` (the room is there) or `PutRefused`, `PutLock`, `PutLink`;
`packet_queue_get` is `GetCheck`, `GetLock`, `GetUnlink`, `GetEnded`. A payload is
an id that is in `alive` between its allocation and its `av_free_packet`. `live`
holds the resources acquired, and each step of opening may fail, with any
combination of what it acquires in hand.

Abstractions, all of data: a packet is a stream and a size; timestamps, the
video worker's clock, progress and duration are left out; the loop in which one
packet yields several pictures is one step that may publish; `release_audio_src`
is taken to succeed within its hundred tries. A block of PCM that the worker's size test
refuses is freed like one that is played.

An `AVPacket` from `av_read_frame` is modelled as owning its data. The configured
FFmpeg has the FLV and MOV demuxers only, and neither asks for a parser for
video, so this is true of every packet that is queued. The packets of an MP3
stream do borrow from a parser; they are decoded before the next read and never
queued.

### PlayerControl

The main thread is idle, resolving a media URL, or joining the old player thread;
in the last two it polls no input. `go_player_start` and `go_player_start_file`
are the same protocol and one set of actions. `frame_of` is a history variable.
A start that fails after the join leaves the previous status if the thread could not
be created and -1 if it could not be started.

### NetInit

Calls 1 to 4 are the network's libraries, 5 is `sceHttpInit`. `sceNetInit`'s second
try with other arguments is part of call 1. The compare-and-swap is one step, the
look before it another.

### Thumbnails

The main thread is stronger than the worker, so what it does between two sleeps is
one step, and it may come between any two steps of the worker; the scan looks at one
slot per step. An image is the URL it was decoded from; `file` is what the one
temporary file holds. The save thread is modelled by its end, which resumes the worker.
Square on the half-open list shows the player again without suspending the worker:
`ShowPlayer`. A delayed search may reset the list while the player's screen is on, and
takes the screen away without resuming the worker: `NewList` asks for no screen.

### Shell

A frame is a sequence of steps that `pc` orders: the poll returns (`PollReturns`) or goes on
(`PollResumes`, `PollDelay`), takes the branch of its `switch` once, handles the buttons of
that branch in the order of the code, any subset of them (`rank`), and ends;
then come the bootstrap, the renderer, the keyboard's update, the network dialog's
update, the start of the main state and the tick of the connection. That the
branch is taken once and the buttons are not exclusive is what makes the
interesting cases: a button acts on a screen that an earlier button of
the same poll has left.

Both dialogs have the firmware's status protocol (`OskMoves`, `NetconfMoves`),
which moves between two frames. The network dialog's end may be missed,
which `netconf.c` provides for (`HasEnded`); the keyboard's may not, which `osk.c` relies
on.

Source 0 is Favorites and source 1 the playlist, as `callgate.c` registers them; any number
of sites follows. `list` is the source whose results are shown, be they rows or, from a
site, counts alone. Entering a folder always lists Favorites, also where the folder
stands in the playlist (`EnterFolder`); `strayed` records that the results came about so.
`stale` is a history variable too: since the
keyboard opened, the results were loaded again or its purpose was changed. Text, labels,
positions and drawing are left out. The menu's `SlideMenu` takes any number of frames.

### Stick, Browse, SaveJob, Library

A path holds nothing, a part of a file that is being written or was given up, a file
that its server cut short, a whole file, or a feed; names are values,
and `Sidecar` names the `.THM` after each media file, so that two files which differ
in their extension share one, as `go_sidecar_path` has it. The `.xml` sidecar of
comments is treated as the `.THM` is and left out.

In `Browse` the rows of the list are a set: a button acts on the selected row, and
any row may be selected. `Slot` is the order of a directory, in which no two entries
have the same place because a scan meets them one after another, and a page is made of
the entries whose rank in it falls on the page; the counters `first`, `last`,
`total` are computed from the rows as the code computes them, and may become stale
as the code's do. `turned` is a history variable: the rows are not those of page
`page`. Entering a folder or a feed may fail (`EnterFails`), which resets `page` all
the same. A site answers with some video, one of up to `SiteTotal` results, or nothing.

In `SaveJob` the buffers that the save thread reads are one variable, `path`: a
start writes them one after the other and may fail after it has written some.
`Opens`, `Completes` and `Fails` are `go_http_download` for each of the two files;
`Fails` removes what is at the path, also what was there before, and `lost` records
it. `go_http_download` does not compare what it read with the length that was announced, so
`Completes` may leave a video short and still reports success; of a thumbnail the two
are not told apart. `fd` is the file the thread has open, which a rename carries along and a
deletion takes away. `touched` records a rename of the open file. Onsen and the
cancel flag of the save, which nothing sets, are left out.

## 3. The runs

| Run | Module | Distinct states | Shows |
|---|---|---|---|
| `PlayerPipelineSafety` | `PlayerPipeline` | 739,808 | all safety of a session, that no two of its threads wait for each other, and that it implements `PlayerSession` |
| `PlayerPipelineLiveness` | `PlayerPipeline` | 45,977 | a stopped session ends; an unattended one too |
| `PlayerControl` | `MCPlayerControl` | 3,456 | safety over any number of sessions, starts return |
| `NetInit` | `NetInit` | 21,352 | one initializer, order, truth, return |
| `Thumbnails` | `Thumbnails` | 245,961 | no slot freed in use, images whole, waits end, and that it implements `ThumbnailCache` |
| `Shell` | `Shell` | 917,262 | no menu, keyboard or dialog without a way out, results of the right source but for one named case, input comes back |
| `Library` | `MCLibrary` | 2,909,421 | playlist, pages and buffers stay consistent, a failed download leaves no part of its file |
| `PlayerPipelineEnd` | `PlayerPipeline` | violation | finding 1 |
| `PlayerPipelineFrame` | `PlayerPipeline` | violation | finding 2 |
| `PlayerBorder` | `MCPlayerControl` | violation | finding 3 |
| `ThumbnailsOwn` | `Thumbnails` | violation | finding 4 |
| `ShellKeyboard` | `Shell` | violation | finding 5 |

No run turns deadlock checking off: the main thread and the thumbnail worker
never stop.

**Bounds.** `MaxPayloads` counts the packets and PCM blocks of a session. With
`Limit = 3`, sizes 1 to 3 and four payloads a queue fills up, drains and fills
again, the audio and the video queue are in use together, and a put waits for
room in each; a fifth payload adds no new place. In the liveness run `Limit = 2`
is smaller than the largest packet, which is the case its property excepts.
`MaxPayloads` is the only bound in a guard (`ReadFrame`, `DecodeAudio`): beyond it
the file ends. `PlayerControl` needs no bound: its state is finite over any number
of sessions; two videos are enough to tell the old one from the new. `NetInit`
has three threads, so that two wait for one, and starts of further calls are not
bounded. `Thumbnails` has two slots, so that one is loaded while the other is
queued, two remote URLs and one local one. `Shell` has three sources, Favorites, the playlist and a site,
a delay of two frames, so that buttons are read between the change of the source and its
search, and a splash of one frame; its state is finite without further bounds. `Library`
has a folder that holds only "..", a file and a feed that share a sidecar, a
video, pages of one row, a playlist of two and a site that announces one result or
two: there are second pages of every list, the
playlist fills up, and the feed's name may be taken by a save or a rename.

**Fairness.** Each thread of the pipeline that can step does so (`WF`): the wait
loops all sleep, and a thread at the same priority or a weaker one then runs. A
semaphore's waiters queue in the order they came, so a thread that waits for a lock
which is released again and again gets it (`SF` on the two lock steps). The user
owes nothing: neither stop nor pause is fair. `SessionEnds` therefore excepts a
session that is paused again and again. In `PlayerControl` a start that has begun
goes on, a stopped session closes and a closing one ends; that they do is what
`StopEnds` shows of the threads. In `NetInit` a thread inside `ensure_*` keeps
running, in `Thumbnails` the worker and the main thread's two wait loops do. All of
them assume that a call into the network library, a decoder or the audio hardware
returns. In `Shell` the loop goes on (`WF` on `Frame`: a frame has finitely many
steps) and a dialog that may move does so at last (`SF`, since it moves only at the
end of a frame): the user answers a dialog, but never has to press a button.
`Library` states no fairness and checks safety only.

**Properties worth a word.**

- `SingleOwner` counts the owners of each payload over all AVPackets and nodes: one
  while it is alive, none after. It covers leaks, double frees and use after free in
  any interleaving with a stop.
- `BytesExact` says that a queue's counter is the size of what is in it, and that it
  never passes the limit, although the room is tested outside the lock: only the
  player thread adds.
- `WaitsAreServed` says, of each place where a thread of the session waits, that what
  it waits for is in the hands of a thread that does not wait for it: no cycle of
  waits. It excepts a packet that is larger than the limit.
- `WorkersHaveTheirResources` and `NothingLeft` cover every way out of
  `decode_file`, also those where one worker runs and the other could not be
  created.
- `JoinsOnlyEnding` and `StartReturns` together say that the join in
  `go_player_start` cannot hang the program.
- `SlotIsMine` is what stands in for the missing lock of the slots. `CacheSpec` is
  what the drawing gets of it: an image appears whole, in the row that asked, is the
  one it asked for, and goes only when the cache is told that the list changes. That
  the cache is not always told is a step of the abstract specification, `Relist`, and
  finding 4.
- `MenuAlive` and `KeyboardKept` look at what a second writer of `g_screen` leaves
  behind: a menu that comes back in phase 0 would answer no button, a keyboard on a
  list loaded anew would rename another row.
- `WaitsForDialog` and `InputReturns` together say that a search that waits for the
  connection is resumed or dropped, and that no dialog holds the buttons for ever.
- `PagingFindsRows` relates counters that were taken when the page was loaded to the
  list as it is now, and excepts what really changes it: files that appear or go
  meanwhile, a feed that does not parse, and the pages that `turned` marks.
- `ListIsOfSource` excepts the folder entered from the playlist, which shows Favorites'
  files under the playlist's name, and says how far this goes: under no other
  name, and not beyond the next search or change of the source.
- `NoPartLeft` is about downloads that fail, at any of their points and whatever the
  user does to the file meanwhile. A body that ends early is no failure to the code: the
  file stays, and the save reports success.
- `PlaylistPlayable` excepts files lost to a failed save onto their own name.
- `Truthful` forbids the answer "failed" while an initialization is under way, as
  much as a premature "ready".

### Findings

1. **A packet may be lost at the end of a stream** (`EndMeansDrained`,
   `player.c:123`). A worker sees its queue empty, releases the lock and then tests
   `ended`. If the player thread puts the last packet and finishes the queue in
   between, the worker is told that the stream ended and the packet is destroyed
   with the queue. `player.c:104` says `0=end`. The player thread has to run between
   two neighbouring statements of the worker; nothing excludes it.
2. **The last picture outlives its decoder** (`FrameBacked`, `player.c:408`). When a
   session ends by itself its codec is closed, which frees the planes, but
   `frame_index` stays 0 and the GUI draws at status 3 (`gui.c:852`). `player.c:15`
   has the renderer use the decoder's planes directly.
3. **The border marks a row that does not play** (`BorderOnPlayingItem`,
   `input.c:23`). The source URL is set before the URL is resolved and the player
   has accepted the start, and is not set back. `docs/re/qualification.md:26` calls
   it the "playing-item border".
4. **A row shows another row's thumbnail** (`OwnThumbnail`, `local.c:289`). Entering
   a folder, renaming and deleting replace the rows, but not the slots, which are
   indexed by row. `docs/re/evidence-ledger.md:28` puts image source and texture in
   one node.
5. **A keyboard may be left open behind another screen** (`OskLeftByRender`,
   `input.c:196`). Cross opens the keyboard; Triangle or Square in the same poll, or
   a delayed search some frames later, replaces its screen. `g_osk_active` stays
   set, no other keyboard opens, and `go_osk_update`, which runs on the keyboard's
   screen only, never ends it. `input.c:137` says that the transitions are handled
   in `go_gui_render`.

## 4. The proofs

Every theorem holds for every value of the constants under the module's named
assumption (`PipelineAssumption`, `ControlAssumption`, `ThumbnailsAssumption`,
`ShellAssumption`, `StickAssumption`, `BrowseAssumption`; `NetInit` needs none): any
limit, any set of packet sizes, any number of payloads, videos, threads, rows,
sources and delays, any files and folders with any sidecars.

**Counting.** The library's induction theorems take a predicate as a parameter, which
the provers cannot instantiate. Its theorem that strict inclusion of finite sets is well-founded takes
none. `LeastNatural` gets the least element of a set of numbers from it, as
the smallest of the intervals `0 .. n`; `InductionUpTo` is induction stated with a
set instead of a predicate, which a proof can then name. `RankOrder`, `RankedBetween`
and `RankTaken` say of a finite set in some order that the ranks are the numbers
below its cardinality, each taken once.

**PlayerPipelineProofs.** None of the safety properties is inductive: each depends on
where the threads are. `IInv` is a conjunction of parts:

- `Lifecycle` (`Resources`, `Life`): what has been acquired at each place of
  `decode_file`, when a worker may run, and what it then finds. It gives
  `WorkersHaveTheirResources` and half of `NothingLeft`.
- `LockHolders`: a semaphore is held by exactly the thread between its wait and its
  signal. It gives `MutualExclusion`.
- `Rooms`: the room found before the lock is still there when the node is linked. It
  gives `BytesBounded`, the half of `BytesExact` about the limit.
- `Holding`, `Fresh`, `Ordered`: where AVPackets may have data, that a new id is
  larger than every held one, and the order in the queues. They give `InOrder`.
- `NoOrphan`, `Live`, `Apart`, `Emptied`: what is alive is held, what is held is
  alive, no two places hold the same, and nothing is alive after the queues are
  destroyed. They give `SingleOwner` (through a lemma on sets with one element) and
  the rest of `NothingLeft`.
- `Opened`: which decoders exist at which places; the refinement needs it.

Each part has a step lemma with one step per action; `Invariance` puts them together.
`ImplementsSession` proves `Spec => SessionSpec`: the initial states map to initial
states and, under `IInv`, every step maps to a session step or a stutter.

**PlayerQueueProofs.** The sum of the sizes in a queue is a recursive function over its
prefixes. That a put adds the size of its packet to it and a get takes that of the
head away is shown with `InductionUpTo`; with it and the pipeline's `IInv`, `BytesExact` is
inductive. `WaitsAreServed` follows from `IInv`, `BytesExact` (a queue without room is
not empty, unless the packet is too large) and a few facts of its own: which workers
still run when the player joins them, and what they have been told.

**PlayerControlProofs.** `IInv` adds to the properties only `Attended`: a session
that is on has its thread, and its status says so. Without it nothing would connect
the status that the start tests with the thread it would join. `SessionUndisturbed`
is an action property and follows from the same invariant. `MainDoes` names the steps
that the main thread takes of a session, which are those `PlayerSession` allows; so
what `ImplementsSession` shows of the threads is all that `PlayerControl` needs.

**NetInitProofs.** `IInv` says where a thread may be given the flags (`Place`), that
one thread at most initializes each flag's libraries (`OneInitializer`), what the
flags say about the calls made (`Meaning`), and how far the initializer is
(`Progress`). `SleepersAreWoken` adds that a flag which says "in progress" has someone
at it: a thread that sleeps has another to wait for that does not sleep, which is the
safety half of `EnsureReturns`. `SettledForGood` is an action property: ready and failed are
never taken back.

**ThumbnailsProofs.** `WorkerSlot` says that the slot the worker is about to mark
has not been filled, and that the one it has marked is the only one loading: `Mark`
does not look at the state again, so `SlotIsMine` alone does not survive a reset in
between. `SlotImage` ties the temporary file to the slot's URL. With them
`SlotIsMine` and `ReadyIsWhole` are inductive. `WaitsForTheWorker` says that a slot
which is loading is the one the worker is at, so that a reset or a suspension never waits
for a slot that nobody will finish. `ImplementsCache` proves `Spec => CacheSpec` for the refinement in which a
slot's image is shown from state 3 on: most steps are hidden
(`HiddenStep`), and the worker's last step on a slot is `Fill`.

**ShellProofs.** The properties are nearly inductive. `ScreenOfBranch` adds which screens
the buttons handled so far can have left behind in the branch that the poll took, and
`RenamesInFavorites` that a keyboard which renames was opened on Favorites' menu and its
source has not changed, so that the folder loaded after it is of the source the header
names. Each property has its own step lemma.

**LibraryProofs.** `Threads` gives the protocol of the buffers: a save thread that
may read them has `save_state` at 1, and a main thread that joins has found it
elsewhere; `BuffersUndisturbed` follows as an action property. `OpenFile` says that
the only part of a file is the open one, and that the open one is the one the
thread is after; it gives `NoPartLeft`. `RowsThere` says of the rows what
`PlaylistPlayable` says of the playlist, since items enter the playlist from the
rows. `WithoutRemoves` is the lemma on lists behind `PlaylistUnique` and
`PlaylistPlayable`; `RenamedContent`, `RenameStick`, `RenameParts` and `DeleteStick`
are those on files.

`PagesFit`, `PagesPartition` and `PagesReach` are about any directory: a page has at
most `PageRows` entries, the pages together show every entry and each one once, and
a page is not empty when those before it do not hold all. `NextPageHasRows` proves `PagingFindsRows`. The
counters were taken when the page was loaded and the stick has changed since, so the
invariant speaks of a stick that was (`Counted`): there is a content `c` of which the
counters are exact, and which differs from the present one only by what a save may have
done meanwhile (`SavedSince`). Under the property's own exceptions the two have the same
entries (`SameEntries`), and `PagesReach` does the rest. `SongsCounted` is what the playlist
needs instead, and `OpenListed` says that an open file is there, so that only
the save's own path comes and goes.

TLC checked the properties of each inductive invariant on the instances of the runs
before it was proved.

**Model-checked only.** `StopEnds`, `SessionEnds`, `StartReturns`, `EnsureReturns`,
`MainReturns`, `InputReturns` and `KeyboardLeaves` are liveness under fairness,
which the prover cannot show. The safety that they rest on is proved: nobody waits for
a thread that waits (`WaitsAreServed`, `SleepersAreWoken`, `WaitsForTheWorker`), and
joins are of sessions that end (`JoinsOnlyEnding`). Every other property of the runs is a theorem.

## 5. What is not modelled

- **Player modes** are three independent cycles that only the renderer reads: no
  step depends on another.
- **Video output, audio tick**: a cable and a flag are polled, and the last answer
  is kept.
- **Comments, script bridge, natives**: parsers and conversions of character
  strings, called by the main thread alone. Their results appear in the models as
  outcomes: a list or nothing, a URL or none. What they compute of a string is not a
  question of states, and a model of them would be the same text in another
  language.
- **HTTP transfers** are modelled where their outcome is a state: initialization
  (`NetInit`), downloads (`SaveJob`, `Thumbnails`), the stream (`PlayerPipeline`).
  `GetContents` and `PostContents` return a string to a script.
- **The renderer's drawing, fonts, FFmpeg, FAAD, SpiderMonkey, PSPSDK and the site
  scripts** are drawing, vendored, or data of services. About three quarters of the
  repository's C and header lines are vendored headers (`lib/include/`), which
  declare and do nothing.
- **Between components**: `Shell` is not composed with `PlayerControl` and
  `Thumbnails`. Their main threads are each free to do at any time what `Shell` lets
  the buttons do at some times, so that the properties shown of them hold of the
  composition.
