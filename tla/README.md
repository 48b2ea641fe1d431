# OCAP2 web: a TLA+ model of the server and the browser

OCAP2 web stores recordings of Arma missions, converts them for streaming and plays
them in the browser; an optional map tool imports maps. This directory models the
server's work on shared rows, files and jobs, the browser's pages over a network that
answers late, and the path of a recording from its JSON to what is on the screen. TLC
checks the models on small instances; TLAPS proves the invariants of the recording
store, the job manager and its event stream, the playback, the pages and the screen
for every instance. `PROJECT.json` lists the components, runs, mutants, hazards and
theorems, and maps every definition to the lines it models.

    tlc -workers 2 -config StoreReplace.cfg MCRecordingStore.tla
    tlapm RecordingStore_proofs.tla

## The system

| Component | State | Operations | Interacts with | Module |
|---|---|---|---|---|
| Recording store (`internal/server/handler.go`, `handler_admin.go`, `operation.go`) | SQLite rows; `<name>.json.gz`, its `.tmp`, `<name>/` | upload (replace by name), delete, retry, edit, list | triggers the worker; shares rows and files with it, without a lock | `RecordingStore`, `RecordingLife` |
| Conversion worker (`internal/conversion/worker.go`) | the rows' status, format and statistics | start-up clean-up, backfill, batch per tick, triggered conversion | one goroutine for the ticker, one per trigger; runs the converter | `RecordingStore` |
| Converter (`internal/storage/streaming_converter.go`, `chunk_bucket.go`) and parser | `<name>/.tmp_chunks`, `chunks/`, `manifest.pb` | bucket the positions, assemble chunks, write manifest | called by the worker and the convert command | `RecordingStore` (steps), `Recording` (contents) |
| Map job manager (`internal/maptool/jobmanager.go`, `pipeline.go`, `internal/server/handler_maptool.go`) | job table, queue, per-job context; map directories, `error.json`, temporary files | submit, run, cancel, delete a map, restyle, shutdown | event hub; stages run external tools | `MapJobs` |
| Event hub and stream, browser view (`jobmanager.go`, `handler_maptool.go`, `ui/src/pages/map-manager/useMapToolEvents.ts`) | subscriber channels; the list of jobs shown | snapshot, subscribe, forward, drop, reconnect | job manager | `JobEvents` |
| Chunk cache (`ui/src/data/chunkManager.ts`) | 3 chunks in memory, loads in flight | load, prefetch, evict, clear | engine, HTTP | `ChunkCache`, `LruMemory` |
| Playback engine and page (`ui/src/playback/engine.ts`, `pages/recording-playback`) | frame, snapshots, followed unit, focus range | play, seek, load, follow, drag, edit the range | chunk cache, renderers | `Playback` |
| Decoders, entities and events (`ui/src/data/decoders`, `ui/src/playback/entityManager.ts`, `eventManager.ts`) | none | decode, snapshot, count | engine, panels | `Recording` |
| Markers (`ui/src/playback/markerManager.ts`) | tracked markers and their handles | load, update to a frame, filter, blacklist | renderer | `Markers` |
| Renderers (`ui/src/renderers/leaflet`) | what stands on the map | add, update, remove, settings, styles | bridge, markers | `MapView` |
| Panels and bridge (`pages/recording-playback/components`, `useRenderBridge.ts`) | signals of tabs and settings | clicks | all of the browser's above | `Scene`, `Timeline` |
| Session and API client (`ui/src/data/apiClient.ts`, `hooks/useAuth.tsx`; `handler_auth.go`, `jwt.go`, `allowlist.go`) | token, role; requests in flight; allowlist | sign in and out, expire, refuse, redirect | every page | `Session` |
| Pages (`pages/recording-selector`, `pages/admin`, `pages/map-manager`) | lists, selections, dialogs | fetch, select, edit, delete, retry, upload | session | `SelectorPage`, `AllowlistPage`, `MapManagerPage`, `App` |
| Migrations, convert command, map tool command, settings, images, stream ingest | | sequential | | not modelled |

What makes the behaviour hard: nothing locks a recording. An upload handler, a
triggered conversion, the worker's batch, the start-up clean-up and two admin
handlers all address the row by id and the files by name, one statement or
system call at a time; each can fail or die between two of them, and the server
may come back with conversion switched off. The map tool has one worker
goroutine and a bounded queue, cancellation through contexts that are read and
called outside the job's lock, maps deleted under a running import, and events
that are dropped rather than awaited. The browser runs one handler at a time, but
everything it awaits comes back in any order or not at all, to a page that may
have moved on; its signals run effects inside the handler that sets them, so one
click is a chain of assignments that see each other half-way; and what is on the
map is kept by differences, never drawn afresh.

What makes it correct, component by component: a completed recording plays and a
stored one can be converted again; no row comes back, no directory leaks; every
recording settles. Jobs run one at a time, end, and keep the status they ended
with; a map's `error.json` tells of its last run, if that run could write it. A connected browser shows the
jobs as they are. The cache drops what was used the longest ago; a late answer
never overwrites a later seek; playback goes on, inside its focus range. A
streamed recording shows what its JSON shows; a jump to a frame shows what playing
to it shows; the panels count the same kills. A page's list differs from the
server's only by what the server has accepted; no spinner stays; a refused tab
comes to rest.

## Modules

**`RecordingStore`** models the upload handler from its temporary file on, retry
and delete, the worker and the conversion. An upload names its row, its inode and
its content; an inode's content is two halves, enough to see a torn or mixed
file. A directory is whether it exists, whether it has `.tmp_chunks`, what
conversions bucketed there, whose chunks (and whether with exactly their
positions) and whose manifest it holds. `up`, `task`, `wpc`/`list` and `adm` are
the program counters of the handlers, conversions, worker goroutine and admin
requests: one action per statement or system call. `CrashAndRestart` drops the
processes and keeps rows and files. Graceful shutdown is covered by a crash after
some prefix of each process's remaining steps. `race` and `uploadRace` are
history: names two processes (two uploads) worked on at once.

**`RecordingLife`** is what the store promises, a specification of its own, without
rows, files or processes: of each upload whether it is unknown, waits, plays, has
failed or is gone, and on which filenames two processes have met. In `LifeOf` a row
counts as what its status says only if its source is there and, once it is
completed, plays in its format; else it is `"broken"`, which `RecordingLife` does not know.

Left out: authentication and validation of the form (no state), what a recording
contains, edits of the metadata, the migrations, failures of the worker's SELECTs
and of `RemoveAll` (logged, not acted upon, in the code). A row's second trigger
while its first still runs is not taken.

**`MapJobs`** models the job manager, its pipeline and handlers. A submission is
register, announce, send; `wk` is the goroutine of `Start` inside `processJob`. A
stage is one step that succeeds, fails by itself (`Faulty`), or fails because its
context is cancelled or its directory is gone; `Optional` stages are skipped.
`CancelRead`/`CancelCall` are the two halves of `CancelJob`, and a request that
finds no cancel function does nothing, which needs no action. `lost` as a status
is a job of an earlier server process. `lastEnd` (the last import of a map that
ended, and whether it was done, failed, left `error.json` as it was or cut its
writing), `found` (what it found there) and `torn` are history. `Persist` writes or
removes `error.json`, which may fail and is then only logged. What a stage writes, and `RestyleWorld` on one map, are abstracted. The hub is in this
module because the manager broadcasts to it; without subscribers it is inert.

**`JobEvents`** extends `MapJobs` with the event stream and the browser's list.
`Connect` is the snapshot, `Subscribe` the subscription after it, `Forward` one
event reaching the browser. The wire adds delay like the channel, so it is not a
variable of its own. `lost[s]` (in `MapJobs`) is history: the ids whose latest
event did not go to `s`.

**`ChunkCache`** is the cache as operators from one of its states to the next,
because the script runs to completion between two answers: `memory` and
`accessOrder` (`loaded`, `order`), the fetches in flight and who waits for one.
`UsedNow` keeps the history of the calls that use a chunk, beside the order the code
keeps. **`LruMemory`** is what the cache promises, a specification of its own: what is
in memory, which of two chunks was used after the other, and what was asked for. Only
a full memory loses a chunk to an answer, and it is the one whose last use is the
longest ago; a cache that evicts in the order of arrival does not implement it.

**`Playback`** composes the engine with the cache, the page, the keyboard, the
timeline's pointer and the focus editor. An action is a handler with the effects of
the signals it sets (`Clamp` is the page's focus effect inside a seek) and the
promise callbacks ready behind it (`After`). `ChunkArrives`, `ChunkFails` are the
network;
`tracked` and `stray` are the animation frame the engine remembers and those it has
lost track of, which fire all the same. The range that is loaded and the drafts of
the editor are any integers: the server asks of a range only that it begins before it
ends (`Accepted`; `handler.go:424`), and an administrator may begin to edit before
the recording is there or after its load has failed. An entity's state is reduced to who is
alive; a tick advances up to `MaxAdvance` frames, whatever the speed.

**`Session`**, **`AllowlistPage`**, **`SelectorPage`**, **`MapManagerPage`** and
**`App`** are one browser tab. `tab` is the record a handler finds and leaves;
`tab.net` holds the requests in flight, each with what its continuation needs;
`Network` delivers an answer, a failure or a refusal to any of them. When the page
that sent it is gone the continuation still runs, without its signals. `server` is
what the server stores as far as the pages see it; `server.added` and `removed` are
history.

**`Recording`** holds pure functions: the browser's JSON decoder, the server's
converter and the browser's protobuf decoder over a raw recording, then snapshots,
events and counts. A raw event says whether its parts stand in a list (`listed`), a
raw position in which of the parsers' forms it is written and whether with an alpha:
the shapes the two readers take apart. **`MapView`** is the state of a renderer and its operations;
Leaflet's popups and layers, and MapLibre's styles, are external and modelled from
their use. **`Markers`** puts briefing markers on it, **`Timeline`** is the heatmap
and its tooltips, **`Scene`** composes them into the page: each action is one click,
tick or answer with all the effects of the bridge.

The `MC...` modules give the constants values.

## Runs

| Run | Shows | Bounds |
|---|---|---|
| `store_replace` | what completes plays; sources, statistics and directories are right; a recording lives as `RecordingLife` says | 2 uploads of one name, 2 admins, 2 deaths, conversion on or off after each; constraint `NoRace` |
| `store_races` | one row per name, whole sources, no row comes back, under every interleaving | 2 uploads of one name, their conversions, the worker |
| `store_settles` | every stored recording settles | 1 upload, 1 admin, 2 deaths |
| `map_jobs` | one job at a time, ends stay, error.json, temporary files, every job ends | 2 imports with one id, a restyle, queue of 1, 2 stages, 1 cancel, 1 delete, 1 restart |
| `job_events` | the browser's list is current and never goes back | 1 import, 1 restyle, channel of 2, 2 connections, 1 restart |
| `playback` | what is shown is the frame, the range holds, the loop lives and goes on, the cache evicts what was used the longest ago | 4 chunks of a frame, memory for 3; 4 sessions, one with a range past the end; 2 edits in flight; ticks of 1 or 2 frames, 1 stray callback; constraint `Bounded` |
| `pages` | rows agree with the server, one upload, spinners end, redirects end | 10 visits of 1 to 4 clicks, at most 1 failure, 1 expiry, 2 requests in flight |
| `scene` | both decoders, jumps, panels, renderer and settings agree | 3 recordings of 5 and 6 frames in chunks of 3, 6 visits of 2 clicks among frames without bound |
| `store_torn_upload`, `store_streaming`, `map_cancel`, `job_events_done` | violations, see Findings | |

Why the bounds suffice: two uploads of one name are what a replacement, a shared
temporary file and a stale directory need, and more only repeat them; two deaths
allow one inside the recovery from another; two names would not interact (files
and rows are addressed by one name). A queue of one makes submitters wait; a
channel of two drops events already with one job. Memory for three of four chunks
evicts as the code does; a chunk of one frame makes every frame a chunk's edge.
Chunks of three frames in `scene` give a recording with a short last chunk and one
that ends on an edge, and the mission has a unit of each kind the code tells apart:
a late one, one that dies, a respawned player, a vehicle with ranges across an
edge, an entity without positions, a marker of each shape, owner and lifetime, a position
without alpha; a third recording has the other shapes of events and positions.
With 4 bars (120 in the code), 2 events of a type and 3 in all (3 and 8) the tooltip
truncates and bars hold several events. Two
requests in flight are what it takes to overlap; a third adds no new pair. The
pages' budgets (`clicks`, `faults`, `expiries`) are spread over visits that each
start where something is at stake, rather than one visit that has them all;
`Unmatched` is what a search leaves out.

Each property has a mutant, a plausible bug in a mapped definition (`Mut...`, kept
beside its original), that TLC finds under the run's own configuration.

`store_replace` uses a state constraint: it leaves behaviours aside from the
moment two processes work on one name. What the code promises there is only what
`store_races` checks; the races listed below break `Playable`.

`playback` uses one too: entities are followed and kills sought only where no focus
range is in the way, only who edits leaves the range for the full timeline, edits are
sent while the range is the one that was loaded, and a second one in flight clears it
while nothing is dragged. These features meet only in
the seek they both call; the constraint keeps the run within minutes. A tick of
the loop never leaves it, so it hides no counterexample of `Advances`.

Deadlock is not checked: a server that has treated all requests of the instance
stops, and so does a tab without clicks left.

### Fairness

`Settles`: a handler or goroutine that has begun goes on (the Go scheduler), the
worker's loop goes on, and the last status update of a conversion is executed.
Were that update to fail, the row would stay converting until the next start
(`worker.go:341` only logs it). Requests and failures are never promised. Only
stated for a server with conversion on: with it off a retried row stays pending.

`JobsEnd`: the goroutine of `Start` and submitters go on and every stage returns.
Of the `select` between queue and context neither case is promised alone, so after
a shutdown nothing is. `ShownInTheEnd` adds that a connected handler goes on
sending. No fairness is assumed of cancelling, deleting, connecting, crashing.

`Advances` assumes the browser calls its animation frames while one is requested
(`WF` of `Tick`): a page in the background is not meant. `BusyEnds` and
`SettlesDown` assume that some request in flight is answered, fails or is refused
(`WF` of `Network`, all requests together: they are finitely many, so each is in
the end); that it succeeds is never assumed. Answers of chunks are not promised:
`Advances` holds without, for a tick does not wait for them.

## Findings

1. `store_torn_upload`: the comment at `handler.go:428` promises that an
   interrupted upload can never truncate the recording it would replace. Two
   uploads of one name share `<name>.json.gz.tmp`; the first renames the inode the
   second has truncated and is writing, whatever becomes of the second.
2. `store_streaming`: the clean-up of an interrupted conversion runs beside the
   handlers. A conversion triggered by a new upload may be among its rows
   (`worker.go:87` says they "were interrupted by shutdown"); its directory is
   removed and it may still complete as protobuf, without anything to stream.
3. `map_cancel`: a cancellation that meets a running stage becomes a failure with
   an `error.json` (`jobmanager.go:317`: "not cancellations").
4. `job_events_done`: the snapshot precedes the subscription; the last event of a
   job in between is lost and the list of maps is not refreshed
   (`MapManager.tsx:125`).

Seen while modelling, and not promised otherwise by any document: a deletion while
a conversion runs leaves a directory without a row; a deletion that overlaps an
upload of the same name removes the new source; the ticker and a trigger convert
one row twice into one directory; a server that dies, or fails, between the rename
and the store leaves the old row with the new source (`Sources` in the model; the
comment at `operation.go:516` is about the rows only); with conversion off, a row
stored just before a death stays pending; a pending job cannot be cancelled, the
request succeeds without effect; failed and cancelled jobs leave their temporary
files; a job id can be shared within one millisecond, which hides the first job
and is otherwise harmless, for jobs run one at a time (`TempLifetime`); a map
deleted during its import may end done, incomplete.

In the browser, none of it contradicted by a document:

- two toggles of the blacklist under way: the later answer undoes the earlier on
  the screen (`RecordingPlayback.tsx:92` computes the next list before it awaits);
- two lists asked for by the selector may arrive in the wrong order, and the older
  is shown (`RecordingSelector.tsx:58`); likewise two MapLibre styles
  (`leafletRenderer.ts:441`);
- a failed load of the map manager navigates away from whatever page has come since
  (`MapManager.tsx:109`); a dialog to delete a map that the filter has hidden comes
  back with it (`MapManager.tsx:382`);
- Enter in the edit dialog also launches the selected recording
  (`RecordingSelector.tsx:100`);
- the frames of kills are built once, and stay empty when that was before the
  events were there (`shortcuts.ts:132`);
- popups of projectiles switched off open again with those of the briefing markers
  (`leafletRenderer.ts:1340`), which `SettingsShown` therefore does not exclude;
- the heatmap counts an event of the last frame, the tooltip never tells it
  (`TimelineScrubber.tsx:145` and `117`), which `ToldOf` excepts;
- a focus clamp inside the seek of a recording loaded whole shows the frame that was
  asked for until the next one; `ShownIsCurrent` is about streamed recordings;
- a marker that a filter or the blacklist gives back waits for the next change of
  frame; `MarkersFollowFrame` is therefore a property of such changes;
- a marker whose first position is after its start would break the search for a
  position; the extension does not write one (`SceneAssumption`);
- the score of a kill is the one at its place in the list of events, the panels sort
  by frame first; they agree because the list is sorted (`eventManager.ts:76` says so
  and relies on it), which is part of `RecordingsAssumption`.

Where server and browser read a recording apart (`ReadApart`, `Opaque`), and
`DecodersAgree` therefore makes an exception, each branch being written and tested as
it is:

- the converter loses the counters' data and where a flag was captured, and puts the
  parts of a hack together;
- the end of a mission given as a text or as a list of one is a message to the server
  (`parser_v1.go:167`), while the JSON decoder takes the parts of a side and a message
  from it, letter by letter of a text (`jsonDecoder.ts:255`);
- of a kill or hit with the source first and no list (`parser_v1.go:263`) the JSON
  decoder makes the source the victim of entity 0 (`jsonDecoder.ts:226`);
- a position of a marker without alpha is stored with alpha 0 (`parser_v1.go:405`) and
  invisible when streamed, opaque from JSON (`markerManager.ts:48` and `87`);
- a marker without positions is dropped by the JSON decoder alone
  (`jsonDecoder.ts:314` against `parser_v1.go:297`), and positions that begin with the
  place, or are nothing else, are understood by the server alone (`parser_v1.go:432`).

On the server and in the playback page:

- `error.json` tells of an older failure after an import that could not begin
  (`jobmanager.go:279`), was cancelled between two stages, or could not remove or write
  it (`jobmanager.go:329`, `368`), which `ErrorDue` says;
- a focus range past the end of the recording, or before its begin, is accepted and
  holds playback at the last, or first, frame (`handler_admin.go:134`);
- an edit of the range begun before the load, or after it failed, drafts `{0, 0}`, and
  the playhead's buttons may make it `{-1, 0}` (`RecordingPlayback.tsx:119`, `228`);
  the server refuses the former;
- of two saves of the range in flight the later answer is what the page keeps
  (`RecordingPlayback.tsx:231`);
- a layer of MapLibre that is switched off before the first style is on the map with
  it, and until its switch is used again (`leafletRenderer.ts:401` and `1202`);
- the names of entities that went with their layer do not come back with it
  (`leafletRenderer.ts:1236` opens those of the other layers), and no mode of names
  opens them either.

`SettingsShown` states both as what happens (`SwitchedAlone`).

## Proofs

`RecordingStore_proofs` proves, from `StoreAssumption` alone:

- `TypeCorrect`: `Spec => []TypeOK`;
- `OneRowPerFilename`: `Spec => []UniqueFilename`;
- `DeletedForGood`: `Spec => NoResurrection`;
- `SourceWhole`: `Spec => []JsonWhole`.

Three inductive invariants carry them, each checked with TLC before it was proved.

`Types` adds to `TypeOK` that a handler past its `os.Create` has an open file
(`OpenFiles`) and that a conversion that parses has a source and one that writes
chunks knows whose (`Sourced`): without these the next step of a handler or a
conversion need not be typed.

`RowsInv` is `UniqueFilename` with `StoredOnce`: a row that exists has an id below
the counter and its handler is past the store, so that the insertion of a row can
neither meet nor revive one. `DeletedForGood` follows from the same fact and from
updates by id changing only live rows.

`FilesInv` is what makes `JsonWhole` inductive. As long as no two uploads of a
name have overlapped, the `.tmp` inode belongs to the one that writes it (`Owned`,
`Sole`), nobody's inode is another's before it is created (`Fresh`), its content
is as far as the handler's program counter says (`Progress`), and what is at the
final name was complete when it was renamed (`Landed`). An aborted upload removes
the name it wrote, a crash leaves an inode nobody writes again.

It goes on, with `RecordingStoreDirs_proofs`, with what is only promised of a
filename without a race:

- `SourceNeverLost`: `Spec => []SourceKept`; `CompletedStays`: `Spec => CompletedStable`
  (a step of `RecordingLife`, which the run checks);
- `CompletedPlays`: `Spec => []Playable`; `StatsOfTheRecording`: `Spec => []StatsMatch`;
- `NoGarbage`: `Spec => []NoOrphanDir`;
- `StoreIsRecordingLife`: `Spec => IsRecordingLife`.

`Alone` says what `race` means: at most one process is at a filename not in it, and
a process that hands over ends as the other begins. `Unfinished` adds that nobody
is at the filename of a completed row, which is `CompletedStable` once the stale
list of the worker is taken into account. With these, `DirsInv` follows one process
through the directory: what a conversion has left at each of its program counters
(`ConvAt`), that a stored row waits as json until then (`StoredAt`) and that what is
completed is whole (`FinishedAt`). Statistics (`StatsLive`, `Backfilled`) and the
claim on a directory (`WorkLive`, `DirsKept`) need it.

The refinement of `RecordingLife` is for every filename, with or without a race. Its
invariant, `LifeInv`, is what the others leave open: nobody but a retry is at work for
a filename with a failed row (`Unfailed`), so that no late conversion or selected row
makes one playable behind its back. `SourceKept` and `Playable` then reduce what a row
is to its status (`LifeIsStanding`), and a step to the status it sets: an update by
id ends, retries or strays (`LifeSet`), a store puts, a deletion removes, the
clean-up of a start retries all at once, and every other step of the server is at
most a meeting.

`MapJobs_proofs`: `JobsTyped` (`TypeOK`), `OneAtATime` (`OneActive`), `EndsAreFinal`
(`EndedStays`), `ErrorsAreOfLast` (`ErrorOfLastRun`), `FilesOutlastJobs`
(`TempLifetime`), for any number of jobs, any pipeline and any capacities. `Places`
says where a job is: with its submitter, in the queue (once), in the worker's hands
or nowhere, and what its status may be there. The worker ends only the job in its
hands, and a job that has ended is in nobody else's, nor does a later job of its id,
or a late cancellation, bring it back.
`Recorded` says what `error.json` holds by the way the last import of its map ended,
while the worker writes it and while the next import is under way, of which `found`
remembers what it must leave if it ends without writing. `TempLifetime` is inductive by itself, given `Places`.

`JobEvents_proofs`: `EventsTyped` (`EventsTypeOK`), `ViewsCurrent` (`ViewCurrent`),
`EndsAreShown` (`NoGoingBack`), for any number of browsers, connections and
restarts. What a browser knows of a job is the last event of it in the channel or,
without one, its view. `Shown` says this is the job's status unless an announcement
is due or the event was lost; `EndIsLast` that what tells of a job's end, and all
that follows in the channel, tells of its present state. A step of the server is
reduced to what it says of one job (`Heard`): nothing, and the job is as it was or
about to be announced; something of another job; or how it is now. `HasJob` (the
table holds a job from its submission to the server's death) makes the snapshot
right, `Channels` that it meets no older event.

`Playback_proofs`: `CacheStaysConsistent` (`CacheConsistent`), `PictureIsCurrent`
(`ShownIsCurrent`), `FocusIsKept` (`FocusHolds`), `PlayingGoesOn` (`PlayingHasLoop`),
`PlaybackTyped` (`TypeOK`) and `CacheEvictsLeastRecent` (`EvictsLeastRecent`), for any length of a recording, chunk
size, memory and session. `PlayInv` has the engine (`EngineState`: its frame, a cache
that is settled between two handlers, a frame loop that is requested whenever it
plays), the page, what a page that loads has asked for (`CacheOfSession`: nothing but
chunk 0), and what holds once it is ready (`WhenReady`: the picture is the frame's if
its chunk is there, and the engine is within the range). The lemmas follow the calls:
what moving an element to the end of a sequence without repetitions keeps, what a
load, an answer and an eviction do to the order, what each operator of the engine
leaves of all this. The refinement goes the same way: each step uses chunks, stores
one that came, gives one up or leaves the cache (`CacheStep`), which is a step of
`LruMemory`; that the evicted chunk is the one used the longest ago is because the
access order is the history of uses (`InOrder`), which every call keeps. `FocusHolds`
is about any range that begins before it ends, which is all the server sees to: where
the range is not in the recording the engine is at the nearest frame.

`App_proofs`: `PagesTyped` (`TypeOK`), `RowsAreAccounted` (`RowsAccounted`),
`SelectionIsListed` (`SelectionListed`), `OneUploadAtATime` (`OneUpload`), for any
accounts, recordings, maps, visits and bounds; from the modules' assumptions, that
accounts are finitely many and that no role or visit is ill-typed. `AppInv` is about
the requests in flight: what one was asked with and is answered with has the type its
handler takes (`WellTyped`); what was granted, and what a loop over a selection has
behind it, the server has done (`Accounted`); a live one is for the page that is
mounted, which waits for it (`ForPage`); at most one upload and one fetch of the
allowlist are live (`Single`). A page that is mounted over the requests of the last
one keeps this because all of those are dead. The candidates of a pasted list are a
recursive function over its lines; what it leaves out is shown by the first line for
which the claim would fail.

`Scene_proofs`: `ScreenTyped` (`TypeOK`), `HiddenStaysHidden` (`NoHiddenMarker`),
`RendererStandsForSnapshots` (`EntitiesAreSnapshots`), `SettingsHold`
(`SettingsShown`), `MarkersFollow` (`MarkersFollowFrame`), for any recordings, visits
and clicks. `SceneAssumption` is what the extension writes: a marker's positions, as
the server reads them, are in the order of their frames and the first is not after its
start. `SceneInv` says of
the renderer that layers, popups, names and labels obey the settings now in force
(`ViewOK`); of the markers that the icons on the map are those of the tracked
markers, one each (`HandlesOK`), each where its last update put it (`PlacesOK`), so
that an update that is skipped would have changed nothing; that the filters hold
(`Filtered`), that entities and lines stand for the snapshots (`Stands`), and that the
renderer smooths if and only if playback runs, without which an entity could glide
after a seek in a paused recording. `NoHiddenMarker` alone would not be inductive: a
new marker takes the least free handle, which must not be the one of another.
`SettingsHold` adds to the invariant what a step does: MapLibre's layers are not on the
map before the first style, which adds both, and names are open only with the entities'
layer (`Tidy`); each operator of the renderer switches one layer, or the names of one
mode, and leaves the rest (`LayerFollows`, `NamesFollow`).
`MarkersFollow` rests on two loops. The bisection keeps the last position so far
between its bounds and gets shorter until they are at most one apart (`Halved`,
`IndexFound`): the proof is of the loop as it is written, with its bounds that stop
moving. The turn of a marker in `updateFrame` makes it right for the frame and
leaves the others alone (`Updated`, `FrameUpdated`).

`Recording_proofs` is about the functions of `Recording` and `Timeline`, which have no
steps. `SnapshotsAgree`: of a well-formed recording the snapshots computed from the
manifest and the chunk of a frame are those computed from its JSON. Both put ranges
of states at their frames, one by expanding them and one by cutting them into chunks;
since ranges follow each other (`Consecutive`), both say the same of each frame, and the
chunk of a frame holds every state at it. `EventsAgree` (`EventsAlike`): events are
converted one by one, none is lost by one reader alone, and both conversions make the
same of each but of those that are read apart. The rest are lemmas on counting: the score that `resolveReferences`
leaves in an event is how many earlier ones there are of its kind (`ScoreCounts`, turn
by turn), the counts of the panels are the same sets counted by frame (`PanelCounts`),
the kills of the sides are all kills among units because each has one killer
(`SumOfFibres`, `KillsOfSides`), the bar of a frame is where the division puts it
(`BarOf`), and the first event of a bar survives deduplication, ordering and
truncation, so that a bar that counts something tells of something (`HoverTells`).

On these rest two theorems of `Scene_proofs`, for any recordings the extension writes
(`RecordingsAssumption`, see below), visits and clicks. `SnapshotsOfFrame` is their
inductive invariant: the snapshots are those of the frame, with its chunk if that is
at hand. Without it nothing ties what is on the screen to the recording. Then
`DecodersShowTheSame` (`DecodersAgree`) follows from `SnapshotsAgree` and
`EventsAgree`, and `PanelsCountAlike` (`TabsAgree`) from the counts. Proving the latter
corrected it twice: a kill by a vehicle is nobody's in the panels, so the sides' kills
are all kills among units, by a unit; and the top bar counts units by the side they
are on in the frame, the statistics by the side of the entity, so that comparison is of
recordings where nobody changes sides (`KeepsSides`).

`RecordingsAssumption` is `WellFormed`: ids are unique, a unit has a state per frame
and a vehicle neither player nor side, ranges follow each other, events are sorted
by frame, the victim of a kill is recorded, a marker that ends does so after frame 0,
and nothing is captured at the very origin of the map, where the decoders differ by
JavaScript's idea of what is false. TLC evaluates it on the recordings of `scene`.

Some modules are written to be reasoned about: the cache and the pages compute with
functions and sets rather than folds, `Markers`, `resolveReferences` and the timeline's
`Capped` have their loops as recursive functions over their turns, filters and sums are
`Those` and `Total`, the bisection goes
turn by turn, and the operators of `MapView` on one entity give back
that entity. An induction over the turns of a loop is by the least turn for which
the claim is false (`Least`, `Turns`), since an induction theorem over an operator
cannot be instantiated here.

Every invariant and action property of a passing run is proved. Only model-checked is
liveness (`Settles`, `JobsEnd`, `ShownInTheEnd`, `Advances`, `BusyEnds`,
`SettlesDown`), which is out of the prover's reach.

## What is left

Larger instances for the browser (three clicks in `scene`, a third request in
flight) take TLC beyond a few minutes. Worth adding next: the metadata edit with its lost
update (`handler_admin.go:85`) and the blacklist table shared by two administrators.

## Not modelled

- The fields `EditOperation` merges; they touch neither files nor status.
- Migrations: sequential, before any handler. The stream ingest
  (`handler_stream.go`) acknowledges messages and keeps nothing. The convert command
  is a loop over the worker's own steps, the map tool command a terminal front end
  of the job manager. Settings are read once.
- Bytes: protobuf, gzip, JSON; signatures, passwords and the OpenID exchange of a
  sign-in, which are a choice of outcome in `Session`; the external map tools and
  the data their stages produce; bucket files and buffering of the converter.
- States of an entity with fewer than three parts, which the server skips
  (`parser_v1.go:481`) and the JSON decoder keeps, and hits without a causer: the
  raw states and events of `Recording` are complete.
- The probes of MapLibre's styles: a world has all of them, or is one without MapLibre;
  the style switch offers those that are there (`MapControls.tsx:26`).
- Drawing: projection, camera, geometry, icons, colours, text, zoom animations; of
  movement on the canvas only whether it glides or jumps.
- Text search, translations, formatting of times and grid references, hints, share
  links, icons and generated code: data without state.
- Images: stateless file serving.
