# OpenAria Bridge SDK in TLA+

OpenAria Bridge takes recordings off a head-mounted capture device. It reads
them over the LAN (Device API v4) or from the device's memory card, verifies
every byte against the recording's manifest, renders them into one video, and
puts the result in a local directory (`src/openaria/bridge/sdk`), in an
S3-compatible bucket (`src/main.py`), or, with the desktop application written
in Go, in an output directory (`src/desktop/exporter`).

This directory holds TLA+ models of the parts of that program whose behaviour
depends on interleavings, interruptions, retries or crashes, the TLC
configurations that check them, and TLAPS proofs of their main properties.

| modules | what they model |
|---|---|
| `Destination` | the promise of a local export, seen by a reader of the directory |
| `ExportLayout`, `ExportTree` | `export_session_tree`: build, rebuild, upgrade (`_export.py`) |
| `ExportTreeProofs` | its theorems |
| `RetryPolicy` | when a LAN request is repeated (`_lan.py`) |
| `ArtifactDownload` | a download that is cut and resumed |
| `RemoteDelete` | a deletion over the LAN under one idempotency key |
| `CatalogPages` | a listing in pages under one revision |
| `SourceDiscovery` | discover, select, list, with their caches (`client.py`) |
| `BatchExport` | the window of concurrent exports (`client.py`) |
| `TakeGraph` | which recordings of a card form a take (`main.py`) |
| `MediaRender` | segments, frame times and audio times of one video, and its examination (`_media.py`, `_audio_clock.py`) |
| `Orders` | numbers in ascending order, for the two modules that sort them |
| `CardDelete` | deletion of chains on a card (`_card.py`) |
| `Workbench` | the terminal application and its history (`tui.py`, `_history.py`) |
| `CardPipeline` | verify, copy, normalise, publish, pass after pass (`main.py`) |
| `Catalogue` | the promise of a bucket publication, seen by a console |
| `BucketPublication` | `upload` and the publication lease (`main.py`) |
| `BucketPublicationProofs` | its theorems |
| `SerialTransfer` | the promise of the desktop copy: files in order, verified |
| `Transfer` | `transfer.go`: coordinator, verification worker, byte budget |
| `TransferProofs` | its theorems |
| `DesktopOutput` | `exportOnce`, the raw fallback and `DeleteLocalOutput` |
| `DesktopBatch` | `ExportBatch`: encoders, errors, cancellation, results |
| `StreamCache` | `mediaStream`: the block cache encoders share |
| `DesktopWindow` | the window, its card detector and its tasks |
| `MCExportTree`, `MCBucketPublication`, `MCTransfer`, `MCWorkbench`, `MCStreamCache`, `MCCardPipeline` | finite instances of one module |
| `MCLanClient`, `MCSdk`, `MCMain`, `MCDesktop` | instances of several modules, see 3 |
| `LanClientProofs` | theorems about the LAN client (`MCLanClient`) |
| `PythonProofs` | theorems about `main.py` (`MCMain`) and the SDK object (`MCSdk`) |
| `DesktopProofs` | theorems about the desktop application (`MCDesktop`) |
| `StreamCacheProofs`, `WorkbenchProofs` | theorems about those modules |

Contents: 1. Inventory. 2. The models and the code. 3. The runs. 4. What the
runs found. 5. Fairness. 6. The proofs. 7. What is not modelled. 8. Plan.

## 1. Inventory

### Local export commit (`_export.py`, `options.py`, file operations of `_media.py`)

State: the directory `<output>/<device>/<session>`; hidden siblings
`.<session>.partial-*` (staging) and `.<session>.previous-*` (the export being
replaced); inside an export `recording.mp4` and `.openaria/` with the source
files kept, `export.json` and `media.json`.

Operations: `export_session_tree` looks at the destination and reuses an
export that matches, rebuilds one that was made with other options
(`_rebuild_previous_export`: build privately, rename the old one away, rename
the new one in, rename back on failure), upgrades a version 0.3 tree in place
(`_upgrade_legacy_export`), or builds a new export and renames it in.

Called by: `client.export` (several threads, one session each) for LAN and card
sources; several processes may share an output directory and nothing locks it.

Hard: every check of the destination is followed by file operations at a later
moment; exceptions, Ctrl-C and kills fall between any two of them; the error
handlers themselves move and delete directories.

Correct when: only whole exports appear at the destination; an export that was
reported is never lost; a directory that is not ours is not touched; after any
interruption the next export succeeds.

### LAN client (`_lan.py`, `_json.py`)

State: one HTTP opener per client; per download an open file with a verified
offset. Operations: probe a device, list sessions in pages under one
`catalog_revision` (start over when it changes, at most three times), read
manifests with four workers, download an artifact with `Range` and `If-Range`
after an interruption, delete sessions with one idempotency key for all
attempts; `_retry_request` makes three attempts within 30 s of waiting.

Hard: lost answers and retries, a catalog or file that changes between two
requests, servers that ignore `Range`. Correct when: a file is either the one
its digest names or absent, a listing is one revision, a deletion is reported
as the device performed it, the server's `Retry-After` is honoured.

### SDK facade (`client.py`, `models.py`, `errors.py`)

State: cached card inventories and session lists. Operations: discover, list,
export (a window of up to eight concurrent exports, results collected in
catalog order, or sequential with stop on the first failure), delete. Correct
when: every chosen session is exported and reported exactly once, a failure
does not stop the others in a collecting batch and stops them in a fail-fast
one, a deletion drops what was cached.

### Recording card access (`_card.py`)

Reads sessions from a mounted card through `main.py`; deletes selected
recordings, continuations before the recording they continue, and stops at the
first failure. Correct when: after any failure what is left is a set of chains
that begin at their beginning, and only selected recordings are gone.

### Card pipeline (`main.py`: reading, normalising)

`read_sessions` and the closed take graph decide which recordings form a valid
chain; `verify` and `snapshot_session` copy a take; `normalize` encodes both
eyes and keeps a state file with the digests of its outputs so that a second
run can reuse them. Hard: interrupts between the encodes, a stale state file.

### Bucket publication (`main.py`: `upload`, `_upload_versioned_bucket_publication`)

State: in the bucket, per session, the data objects, `publication.json` and the
lease `publication.lock`; in each process its staged files and the lease
generation it was answered. Objects are keyed by their SHA-256 for Device
Session v1..v4 and by an id of their path for older sessions.

Operations: prove that the store honours conditional requests, acquire the
lease with `IfNoneMatch`, recover one that is older than 24 h with `IfMatch`,
compare what is there, withdraw `publication.json`, upload what differs, put
`publication.json` last, release the lease with `IfMatch`.

Hard: two publishers of one session, requests that take effect although the
answer is lost, crashes that strand the lease, a publisher that sleeps through
the staleness threshold. Correct when: a `publication.json` never names an
object that is missing or different; one writer at a time; success is reported
only for what is published; a dead publisher does not block a session.

### Desktop exporter, export core (`internal/core`)

`exportOnce` takes a lock file, claims `.name.partial`, fills it and publishes
it with a no-replace rename. `transfer` copies the files of a recording with a
coordinator, one verification goroutine, two temporary files and a budget of
128 MiB unverified bytes. `ExportBatch` runs up to two encoders that share one
block cache with a prefetcher; a processing failure may fall back to a raw
copy. `DeleteLocalOutput` removes exactly the recorded files, receipt last.

Hard: slots that are reused while the worker may still read them, errors of one
goroutine that reach the other as a cancellation, a partial directory left by
an earlier run, deadlock between the two channels.

### Desktop exporter, window (`main.go`, `cards.go`, `lifecycle.go`, `local_history.go`, `internal/history`)

All window state belongs to the UI thread; card detection, scans and exports
run in goroutines and post their results. `busy`, `refreshing` and `held` keep
a card source open exactly while somebody uses it. SQLite keeps export marks
and the receipts of outputs.

### Terminal workbench (`tui.py`, `_tui_widgets.py`, `cli.py`) and history (`_history.py`, `_storage.py`)

Async workers in exclusive groups (discovery, sessions, export, deletion)
update one window; flags `_exporting`, `_connecting`, `_deleting`,
`_sessions_loading` lock its controls; exported sessions are marked from an
SQLite history and from the receipts on disk. Hard: every `await` lets the
source, the output directory or the selection change.

### Media rendering (`_media.py`, `_audio_clock.py`, `_frame_index.py`)

State: a private directory per rendering. `build_media_plan` orders the
segments of both cameras and computes when each frame is shown and each sample
heard; FFmpeg encodes, with the graphics card first and without it after a
failure; the result is examined and renamed out. Correct when: every frame is
at its capture time and none is missing, whatever the encoder did; audio
follows its clock points.

### Other parts

Card
media readers (`internal/source/ext4.go`): a read-only ext4 parser. Privileged
helpers, diagnostics, updates, provenance and release tools, schemas: platform
calls, build-time scripts and data.

### How the parts interact

    tui.py / cli.py ──> client.py ──> _lan.py  ──┐  bytes + manifest
          │                 └──────> _card.py ──┤
          └── _history.py  <── receipts ── _export.py ──> _media.py (ffmpeg)
    main.py: card ──> verify/snapshot ──> normalize ──> upload ──> bucket
    main.go ──> cards.go ──> core.ExportBatch ──> exportOnce ──> transfer / render
        └── local_history.go ──> history.go <── receipts of outputs

The Python SDK, `main.py` and the desktop exporter share no code at run time:
three state spaces, which is why three families of modules exist.

## 2. The models and the code

Every definition that models code is listed in `PROJECT.json` under `map` with
its lines. The names of actions follow the code; `Wrong:` definitions are
variants with a plausible mistake, kept next to the action they vary, and show
that the properties notice the mistake. They are not part of any specification.

### 2.1 ExportTree

`final` is what is at the destination, `previous` the hidden backups, and per
exporter `pc`, `want` (options), `work` (its private staging directory), `todo`
(files to fetch), `moved` (what it has renamed away). A directory is a record:
the files of the 0.3 layout at its top, `.openaria`, `.openaria.upgrade.part`,
the options that rendered its video, and the exporters with a work directory in
it. File contents are abstracted to "there and verified", because every byte
the code keeps has been compared with a SHA-256; the options identify a video.

One step is one file system operation that another process can see; what
happens in private staging is a step per stage. `Begin`, `Exists`, `MatchExact`,
`MatchOld`, `MatchLegacy`, `Reuse` are the questions at the head of
`export_session_tree`; `Stage` ... `Publish` its build; `Backup`, `Install`,
`Restore` the rebuild; the `Upgrade*` actions `_upgrade_legacy_export` and its
error handler. `Interrupt` raises at any step and continues in the handler the
code has for that place; `Kill` ends the process. An interrupt that arrives
after the first rename of a rebuild and before the `try` that follows it has no
handler and is the same as a kill there.

`Destination` is what this implements (`KeepsPromise`): nothing, a finished
export, the old tree or somebody else's directory; exports appear whole and
leave only into the archive. The refinement maps the destination to its kind
and the hidden directories to the options of the exports among them.

### 2.2 BucketPublication

`lease` is the generation (ETag) of `publication.lock`, `old` the generations
past the threshold, `store` the objects, `manifest` the publication that
`publication.json` describes; per publisher `pc`, `want`, `held` and `seen`
(lease generations), `todo` and `wrong` (items to compare and to upload).

One step is one request. `Answer` lets a request that took effect lose its
answer; `Fail` lets one fail without effect; `Crash` ends the process after any
request. An exception while the lease is held runs the `finally` clause that
releases it (`OnError`). The comparison of the existing `publication.json`
belongs to the step that ends the object comparisons (`Decide`), as in the code
nothing observable lies between. `ContentKeys` chooses the layout.
`LongPauses` says whether the holder of a lease may still be running when the
lease passes the threshold. The store is not part of the repository: conditional puts
and deletes do what `main.py` relies on and probes for.

`Catalogue` is what this implements (`KeepsCatalogue`): a console sees nothing
or one complete publication, and one is withdrawn before another appears. The
mapping shows the content the record's objects really have, so that an
overwritten object is a publication nobody staged.

### 2.3 Transfer

The coordinator is `pc`, `at` (its place in the inventory), `slot`, `pending`,
`reserved`, `received`; the worker is `worker`, `job`, `verdict`; between them
are the channel `jobs`, the done channels `done`, and the context: `cause` is
what cancelled it first. `temp` and `data` are the two temporary files and
`source/`; they survive `Restart`, which is the next run after an end or a kill
anywhere. File contents are "some", "whole" or "bad".

`SeeCancelled` is every `ctx.Err()` of the loop and of `copyContext`; `Stumble`
is any I/O error or a source that differs from its manifest; `Copy` may write
something else than it read, without an error. `Finish` is the body of
`finish()`, used by the loop that makes room (`MustFinish`) and by `drain`.
`Return` followed by `Exit` and `Join` is the deferred function: cancel, close
the channel, wait for the worker, choose the error (`Outcome`).

`SerialTransfer` is what this implements (`AsSerial`): files appear whole, one
by one in inventory order, each in the receipt as it is found right; success
means all of them. The number received maps to `at - 1 - Len(pending)`.

### 2.4 The LAN client: RetryPolicy, ArtifactDownload, RemoteDelete, CatalogPages

Time is counted in steps of 0.15 s, the first delay of `_retry_request`;
`MayRetry` is its decision, and the three users of it keep `attempt` and
`waited`. The device and the network are external: an answer is chosen from
everything the client has to be ready for.

`ArtifactDownload`: a response is the versions of its bytes, so that a file put
together from two versions shows. `Accept` is the whole examination of a
response (status, `ETag`, `Content-Range`, `Content-Length`), `Chunk` one read,
`Cut` a connection that ends in the middle. `Change` replaces the device's data
between two requests. With `Lies` the device labels any bytes with the wanted
digest, and `Verify` is the caller's argument.

`RemoteDelete`: `List` and `Check` are the comparison of the fresh list with
what was confirmed; `LoseRequest`, `LoseAnswer` and `Answer` are one attempt.
The device knows the answers it gave by key and executes a new key. With
`Faulty` it answers anything. `Elsewhere` is another client of the device.

`CatalogPages`: `Read` is one page; a revision other than the first one's
restarts the listing (`Restart`), and `Resolve` is the reading of manifests the
catalog leaves open, in any order. The catalog's digest is represented by the
catalog. `Return` hands over the list in the order of the device, or, as soon as
one listed recording has a note on its time (`Noted`), the whole list with the
latest start first (`Started`; 0 is a time that cannot be read and comes last).

### 2.5 The SDK object: SourceDiscovery, BatchExport, CardDelete, TakeGraph, MediaRender

`SourceDiscovery` has the caches of `OpenAriaSDK` (`sources`, `cache`, `cards`)
and one call at a time: mDNS browsing, then the probes in any order, then the
selection; or the listing of a source. The network and the card reader move
devices between places at every step; two devices have one label. The history
variables `answered` and `current` say what an honest list may contain.

`BatchExport` submits, collects and raises as `client.export` does; a worker
ends with success, an error the batch collects, or one it does not. An export's
inside is `ExportTree`. The orders in which the code sorts (`Ascending` of
`Orders`, `InOrder`, `LastFirst` of `CardDelete`) say which sequence results, not
how.

`TakeGraph` translates the walk over predecessors and the checks of
`_validate_closed_device_session_take_graph` and `_readable_session_takes` as
functions of a set of sessions; `Chains` and `IsChain` are the definition they
are compared with: a take is one unbroken chain from a first session.
`CardDelete` uses it for every reading of a card, and removes the chosen
recordings newest first; a removal may stop after any of its files, with or
without the manifest.

`MediaRender` is one rendering. A frame is a segment and a place in it, so that
lost, doubled and mixed frames show; times are ticks of the capture clock.
`Lookup` and `Place` are the expressions FFmpeg evaluates, which halve a table
at each test, as recursive functions over the bounds of what is left of it;
`SampleTime` is the mapping they have to follow. `staged` and `target` are the
videos in the private directory and at the destination, one at most. `Made` is what the external encoder may yield; the timing of each frame
is examined (`Check`) where there is a frame index, and the number of frames
otherwise. That a rendering is killed, and when it is done, is `ExportTree`.

### 2.6 Workbench

`ui` holds the attributes of the application; `load` is the coroutine
`_load_sessions` with its phase, `threads` the worker threads that cannot be
cancelled, `scan` the probes awaited now and those of a cancelled scan.
Handlers run to their next `await`, and every `await` is the end of an action.
Textual's exclusive groups cancel the coroutine and let the thread go on:
`Live` says whose answer still counts. The sources, the receipts in the output
directories and the SQLite history are external; the user makes bounded
`moves` in any order, and recordings appear and disappear.

### 2.7 CardPipeline

One pass is `process` for each session found: `Verify` file by file, `Copy`
file by file, `VerifyCopy`, `Normalize` (take what is recorded or encode both
eyes), `Record`, `Upload`. The work directory, with the state file and the two
videos, survives passes, kills (`Killed`) and failures; `card`, `tool` and
`options` may be different in each. A video is a record of what it was made
from and with. `Publishable` is the comparison a device session's publication
makes with the recorded arguments, tool and digests, and the check that each
eye's video comes from the recordings of its own eye (`Uncrossed`). What an
upload does is `BucketPublication`.

### 2.8 The desktop application: DesktopOutput, DesktopBatch, StreamCache, DesktopWindow

`DesktopOutput`: per mode (video, raw) the published directory, the hidden one
and the lock; per process what it is at. A directory is a record of its claim,
originals, manifest, video, receipt and anything else, so that every leftover
of an interrupted write is a state (`"short"`, `"part"`, `"kept"`). `Fails` is
any error or cancellation of an export; it leaves a claim, a manifest, a receipt
or an original short that was being written. `Kill` ends a process and frees its
lock, `User` adds and removes things. `broken` tells that a kill or an earlier
version left something; `Retryable` is about what errors alone leave. Deletion confirms, compares and removes
one file at a time, and drops the row of the history afterwards.

`DesktopBatch`: each encoder takes a recording, renders, judges a failure
(source, encoder or cancellation, in the order of `core.go:489-498`), copies
raw, publishes, and reports under the lock. `StreamCache`: `block()` with its
lock and eviction, the HTTP slots, the prefetcher with its bounded channel, raw
copies that borrow the lock, and the stages of `Close`.

`DesktopWindow`: the UI thread's fields, one task (scan, export, local action
or its dialog), the detector, and the cards that come and go. Sources that are
open are a set, so that a leak or a double close shows.

## 3. The runs

| run | states | what it shows |
|---|---|---|
| `export` | 533 280 | two processes and one destination in every state it may be found in; one fault, or two where a 0.3 tree is upgraded by one process: whole exports only, none lost, foreign directories untouched, `Destination` kept, and exporting again brings an export back |
| `export_killed_upgrade` | | counterexample, see 4 |
| `bucket_versioned` | 417 000 | digest keys, two publishers that may sleep past the threshold, two faults: no false completion, a young lease is taken away by its own holder only |
| `bucket_fixed_keys` | 555 748 | path keys, nobody outlives the threshold, two faults: exclusion, true success, no needless withdrawal, and the session gets published |
| `transfer` | 122 108 | four files, budget, two faults, cancellation, two runs: the byte budget, temporary files untouched until their verdict, cancellations told apart from errors, `AsSerial`, and both goroutines end |
| `lan_client` | 310 846 | one call of the LAN client: a download from a device that keeps its word or does not, a deletion on a device that does or does not, a listing |
| `sdk` | 244 304 | calls of the SDK object: discovery on the LAN, discovery with cards, a batch, a deletion on a card, a rendering |
| `workbench` | 252 175 | three moves of the user among everything that answers late: one source on the screen, tasks on what is shown, one reader, and it comes to rest |
| `main` | 1 261 084 | three passes over a session of two eyes, two passes over two sessions with another ffmpeg and unreadable files (the rotation changes only in the former); both readings of every card of three sessions |
| `pipeline_retry` | | counterexample, see 4 |
| `desktop` | 398 468 | outputs with two processes, outputs with one, a batch of four with two encoders, the window |
| `desktop_stream` | 48 980 | two requests, prefetcher, raw copy, cancellation and `Close` |

**Composed instances.** `MCLanClient`, `MCSdk`, `MCMain` and `MCDesktop`
instantiate several modules side by side. `Init` chooses which of them runs
(`call`, `use`, `job`, `part`), and the variables of the others stay at their
first values: the behaviours are the disjoint union of those of the parts, not
their interleavings, which share no state in the code either. A property of
such a run is the conjunction of properties that the modules of its parts state
under names of their own; a conjunct is trivially true where another part runs,
or is said to be about one part only (`call = "download" => ...`). These modules
are also what the theorems are about: their constants stay open, and where a
part runs in several configurations the instance has a parameter
(`Calls(c)` of `MCSdk`, `Passes(c)` of `MCMain`, `Output(P)` of `MCDesktop`):
a theorem about it holds for every configuration, those of the run included.

| run | property | of the parts |
|---|---|---|
| `lan_client` | `Downloads` | `ArtifactDownload`: `OneVersion`, `Settled` |
| | `Patient` | `ArtifactDownload`: `NeverEarly`, `InBudget` |
| | `Deletions` | `RemoteDelete`: `Accounted`, `CacheFresh`, `ReportTrue`, `OnlyConfirmed` |
| | `Listings` | `CatalogPages`: `Snapshot`, `Resolved` |
| `sdk` | `Discoveries` | `SourceDiscovery`: `NoneHidden`, `OnlyChoice`, `CacheCurrent`, `RightDevice` |
| | `Renderings` | `MediaRender`: `FramesTrue`, `EyesPaired`, `AudioPlaced` |
| | `Batches` | `BatchExport`: `EachOnce`, `Sorted`, `Quiet`, `StopsAtFirst` |
| | `Deletions` | `CardDelete`: `StillChains`, `Reported`, `Untouched` |
| `workbench` | `Undisturbed` | `Workbench`: `TaskShown`, `OneTask`, `OneReader` |
| `main` | `Faithful` | `CardPipeline`: `CacheSound`, `Faithful` |
| | `Served` | `CardPipeline`: `RetryPublishes`, `Tried` |
| | `TakesExact` | `TakeGraph`: `Accepts` against `Chains`, `Readable` against `IsChain` |
| `desktop` | `Outputs` | `DesktopOutput`: `PublishedWhole`, `LeftoversUntouched`, `Remainder`, `Retryable` |
| | `Deletions` | `DesktopOutput`: `Confirmed`, `Remembers` |
| | `Batches` | `DesktopBatch`: `PublishedIsReported`, `SuccessIsWhole`, `GoesOn`, `FallbackIsForProcessing` |
| | `WindowTrue` | `DesktopWindow`: `SourcesOpen`, `ListOfSelected`, `UndisturbedWork` |
| `desktop_stream` | `Shared` | `StreamCache`: `OneReader`, `Accounted`, `Joined` |

The first conjunct of one property of each part is the part's type invariant.
The type invariants of `ExportTree`, `BucketPublication` and `Transfer`, and
`ReceiptTrue`, `SuccessWhole` and `OnlyVerified` of `Transfer`, are proved
(section 6) and left out of the runs.

Bounds. Two exporters or publishers: each protocol relates an actor to one
other at a time (the one that renamed, or that holds the lease), and the proofs
cover any number. Two options and one outdated one: enough for reuse, rebuild
and a rebuild that races with another. Two media files, of which one is kept,
and one sidecar: the removal and the retention of sources differ on them. Three
lease generations are alive at most with two publishers (the object, one held,
one seen), four leave a fresh one. `MaxFaults` bounds faults: two are one per
actor, or a fault and a fault during its handling. Four files in `Transfer`:
two that fit the budget together, a third that forces a finish, and one that is
larger than the budget; each may be there already, whole or damaged. `MaxRuns`
2 covers one partial directory and one recovery from it. Symmetry is used for
publishers and generations in `bucket_versioned`, which has no liveness
property and whose properties treat all of them alike.

`lan_client`: `MaxWait` 8 steps leave room for the code's two delays and for
`Retry-After` values that fit once, twice or not at all (the code has 200
steps, and delays of any length; what matters is on which side of the budget a
sum falls). Artifacts of 3 bytes, versions of 2, 3 and 4: shorter, equal and
longer. Two changes: away and back. Two recordings to delete, three in the
catalog with pages of one; one of them has a note on its time, so that catalogs
with and without it are listed, and one a time that cannot be read. `sdk`: two places, two devices, two moves of the
world (one with cards) and three calls: discover, list, list again. Batches of
four recordings with two workers: the window is refilled twice. Cards with a single
take and one of three. Renderings: all frame indexes of up to three rows with
times 0 to 5 at two ticks a microsecond, where both roundings, repeated and
falling times occur; clocks of two or three points among four samples. `workbench`: two sources, three recordings, two
directories, two catalog threads at a time, three moves: choosing, starting a
task and disturbing it. `main`: three passes are one that leaves something, one
that disturbs it, and one that finds it; `N` 3 sessions of two takes with four
identifiers contain every branch, cycle, gap and double there is between two
links. `desktop`: four exports, deletions or moves of the user; four
recordings; three insertions of two cards into two ports, one error that
passes. `desktop_stream`: one file of two blocks, a cache of two units of which
the first block needs both, one slot, a queue of one.

Deadlock is checked where a run goes on for ever (`export`, both bucket runs).
The others say `CHECK_DEADLOCK FALSE`: a call that has returned, a program that
has quit or a bounded user have no next step. There, that a
run does not stop too early is what `Ends`, `CallsEnd` and `Settles` say.

## 4. What the runs found

Two runs look for a violation:

* `export_killed_upgrade` (`_export.py:590`): a kill inside the in-place
  upgrade leaves files that every later export takes for a conflict; the README
  of the repository promises the upgrade "the next time that session is
  exported".
* `pipeline_retry` (`main.py:4157`): a session of one segment that was encoded
  and not published is refused by every later pass over the same `--work`,
  because the recorded ffmpeg arguments name the directory of the first copy.

Other disagreements between the code and its documents are left out of the
properties that are checked, by a constant, a guard of the instance or the
wording. Each can be seen by adding the definition named here to a run:

* `ExportTree!EvidenceRemains` (`_export.py:643`), with two upgraders: one
  removes the work path the other is filling, and a tree without its manifest
  is published. `MCExportTree` therefore lets one exporter work on a 0.3 tree.
* `ExportTree!NeverMissing` (`_export.py:535`): between the two renames of a
  rebuild the destination does not exist; the README says "atomically".
* `BucketPublication!NoFalseCompletion` with `ContentKeys = FALSE` and
  `LongPauses = TRUE` (`main.py:5003`): a publisher that wakes up after its
  lease was taken over overwrites objects under the other's record. With digest
  keys it cannot (`bucket_versioned`); it can still withdraw the other's record,
  so `CompleteKept` and `SuccessMeansPublished` are checked without long pauses.
* `ArtifactDownload!FromTheBeginning` (`_lan.py:511`): a retry resumes a partial
  file, while docs/workflow-stability.md:40 says it starts from the beginning.
  `OneVersion` and `Settled` show that resuming is sound.
* `SourceDiscovery!RightDevice` with `CardMode = TRUE` (`client.py:177`): a list
  of a card source that is read again can be that of another card at the same
  mount point. The property is stated for the LAN.
* `SourceDiscovery!SelectorFinds` (`_lan.py:748`): a device with two addresses,
  selected by one of them, is not found if the other one's probe ends first.
* `MediaRender!AlwaysPaired` (`_media.py:866`): only the totals of left and right
  frames are compared, so that segments with unequal counts of the two eyes can
  shift the halves of the picture against each other. `EyesPaired` is stated for
  segments with as many frames of either eye.
* `CardDelete!NoOrphan` with `Glitches = TRUE` (`_card.py:207`): a continuation
  that could not be read for the inventory does not keep its predecessor.
* `Workbench!LastScanOnly` (`tui.py:343`): a source found by a cancelled scan can
  still be added to the list of the new one. `Workbench!DestinationRead`
  (`tui.py:754`): a directory chosen while the list loads is never looked at.
* `CardPipeline!Tried` without its second disjunct (`main.py:2726`): a file that
  opens and then cannot be read ends the pass with an `OSError` although "one
  bad session must not strand the rest of the card". `Tried` allows this case
  only.
* `CardPipeline!RetryPublishes` without `~Uncrossed` (`main.py:4468`): a device
  session of two cameras, normalised with `--rotation 180`, is always refused.
  Turning the rig exchanges the eyes (`main.py:3209`), the provenance names the
  exchanged recordings (`main.py:4004`), and the publication expects each eye's
  own; `main.py:5231` offers the option "for an upside-down rig". No pass can
  publish such a session, whatever an earlier one left.
* `DesktopOutput!Retryable` with `FALSE` for `Unfinished`: two files that an
  error cuts short are never removed and refuse every later export of their
  kind. A `.claim` whose writing failed (`core.go:321-328`) is taken for a
  conflict of owners (`core.go:307-309`); a `receipt.json` or `UNPROCESSED.txt`
  of a raw copy (`core.go:533`) is neither rewritten nor, as it is in the mode
  video, removed first (`core.go:370`). `Retryable` excepts these two only.
* `DesktopOutput!Remembers` with two processes (`local_history.go:131`): a
  deletion forgets the output another process has recorded at the same path
  meanwhile. `Remembers` is checked for one process.
* `DesktopWindow!InsertedIsListed` (`cards.go:145`): a card that is pulled out
  during its scan and put back before the next detection is not scanned again.

## 5. Fairness

`ExportTree`: `WF(Run(e))`, a started export is a sequential program that goes
on, and somebody exports the session again (`Begin` is part of `Run`). Faults
have no fairness and are finitely many.

`BucketPublication`: `WF(Run(p))` for the same reason, and `WF(Age)`: a lease
that nobody releases becomes old. No fairness is assumed of faults.

`Transfer`: `WF(Coordinate)` and `WF(Work)`: two goroutines that the scheduler
runs while they can go on. A channel operation that is blocked is not enabled.
Neither cancellation nor restart is fair. `Ends` says that a run reaches its
end again and again; the last run has no successor and stays there.

LAN client, discovery, batches, workbench: `WF` of the steps of the program
itself (`Client`, `Find`, `Export`, `System`), as every socket operation has a
timeout and threads run. Devices, networks, cards and users have none.

`DesktopBatch`: `WF` of each encoder and of the return. `DesktopWindow`: `WF`
of the running task, of the detector at work and of an open dialog (a user
answers it in the end), `SF` of the start of a detection, since the ticker
fires again and again while tasks come between.

`StreamCache`: `SF` for the goroutines that wait for the lock, a slot or a
`select` (a Go mutex turns fair after a millisecond, a `select` takes every case
that is ready again and again), `WF` for a raw copy giving the lock back.

## 6. The proofs

All proofs are checked by TLAPS for every value of the constants; they assume
only the named assumptions of the modules, which TLC evaluates in the runs:
`LayoutAssumption`, `NoneAssumption`, `InitialAssumption` (exports),
`BucketAssumption`, `TransferAssumption`, `WorkbenchAssumption`,
`StreamAssumption`, and those of the composed instances,
`MCLanClientAssumption`, `MCSdkAssumption`, `MCMainAssumption` and
`MCDesktopAssumption`, which are the conditions each part states of its own
constants (`RetryConstants`, `BatchConstants`, ...). They say of which kind the
constants are: numbers are natural, positive where the code checks it, sets
that are counted are finite, and `None` is none of the things it stands beside.

| module | theorems | property of a run |
|---|---|---|
| `ExportTreeProofs` | `TypeCorrect`, `DestinationWhole`, `ReportedNeverLost`, `ForeignNeverTouched`, `PromiseKept` | `FinalWhole`, `ReportedKept`, `ForeignUntouched`, `KeepsPromise` |
| `BucketPublicationProofs` | `TypeCorrect`, `WritersExclude`, `YoungLeaseStays`, `CompletionTrue`, `SuccessTrue`, `RecordStays`, `CatalogueKept` | all of both runs but `CompleteReturns` |
| `TransferProofs` | `TypeCorrect`, `BudgetKept`, `CancellationTrue`, `ReceiptKept`, `SuccessKept`, `UnverifiedStays`, `VerifiedOnly`, `SerialKept` | all but `Ends` |
| `LanClientProofs` | `RetriesPatient`, `DownloadsWhole`, `ListsAreSnapshots`, `DeletionsTrue` | all but `Ends` |
| `PythonProofs` | `PassesFaithful`, `PassesTry`, `PassesRetry`, `MainFaithful`, `MainServed`, `AcceptsExactlyChains`, `TakesRead` | all of `main` |
| | `CallsFind`, `SdkDiscovers`, `SdkBatches`, `SdkDeletes`, `SdkRenders`, `AskedPasses` | all of `sdk` but `CallsEnd` |
| `WorkbenchProofs` | `ScreenOfOneSource`, `WorkUndisturbed` | all but `Settles` |
| `DesktopProofs` | `BatchesTell`, `WindowTold`, `OutputsSafe`, `DeletesConfirmed` | all of `desktop` but `Ends` |
| `StreamCacheProofs` | `ReadersShare` | `Shared` |

**ExportTree.** `TypeCorrect` needs that at each phase the private staging
directory holds exactly what the stages before produced (`TypeInv`); this is
what makes `Publish` install a finished export. The safety theorems strengthen
it to `SafeInv`: `FinalWhole`, `ReportedKept`, and for every exporter a `Claim`:
what it has moved aside is an export, what it is about to report is kept
somewhere, and inside an upgrade what the 0.3 tree looks like at each phase.
From it follow `DestinationWhole`, `ReportedNeverLost`, `ForeignNeverTouched`
and the refinement `PromiseKept`. All four assume `UpgradeAlone`: where a 0.3
tree is at the destination at the start, there is one exporter. Without it they
are false (section 4).

**BucketPublication.** `TypeCorrect` and the lease invariant `LeaseInv`
(a publisher at work under a lease that has not expired owns the lease object;
a generation that was seen expired is old) come first.
`YoungLeaseStays` follows without further assumptions; `WritersExclude` assumes
`~LongPauses`. `CompletionTrue` and the refinement `CatalogueKept` assume
`Layout == ContentKeys \/ ~LongPauses`: either an object under a digest can
only be that object, or nobody else writes. `SuccessTrue` and `RecordStays`
assume `~LongPauses`.

**Transfer.** `TypeInv` (with the arithmetic of `reserved`) gives
`TypeCorrect`. For the rest there is one lemma per part and action:
`Books` (pending jobs are the last files passed, in order; slots alternate; two
jobs fit the budget; without an error the loop ends at its end), `Line` (the
oldest pending jobs have verdicts, the next may be with the worker, the rest
are in the channel), `Verdicts` (a good verdict is about what still is in the
temporary file), `Missing` (what is copied or pending is not in `source/`) and
`Causes` (a cancellation seen is one that happened). The properties are not
inductive alone: that `Open` does not truncate a file under verification is a
matter of `Books`, that a rename publishes what was verified one of `Line` and
`Verdicts` together. All safety properties of the module, and the
refinement `SerialKept`, are proved from them.

**The LAN client.** Downloads: `DownloadInv`. That a finished file is of one
version needs `HonestInv`: below the offset is a prefix of the wanted version
(`Run`), and what a response still holds is exactly the rest; the file that was
there before is not ours until it has been created (`FileInv`). Against a device
that lies only the digest at the end counts. `Patient` carries, besides the
budget, that the sleep before an attempt is at least what the answer asked.
Listings: while pages are read, what is collected is the first part of *one*
catalog that existed (`Reading`), and a recording the catalog leaves open stays
among those that are looked at until it is resolved (`Looked`). Deletions:
the device has answered a key at most once, the answer it keeps tells of exactly
what was removed under it (`Told`), and only what was shown and confirmed was
(`Confirmed`).

**main.py.** `Passes(c)` is a pass after the other over any card in any
configuration. `CacheSound` is not inductive: the state file and the two videos
are written one by one. The invariant follows them: a state tells of the pair
of videos with which it was recorded, whatever has happened to them since;
while a session is encoded, its copies are those of the recording that was
found; and it is the comparison of the digests that turns both into "what is
reused was made from this" (`PassesFaithful`). `PassesTry` says that only an
open file that cannot be read ends a pass early. `PassesRetry` proves for
several segments and one ffmpeg that no session is refused for what earlier
passes left (but for two turned cameras, section 4), which is false for a single segment (run `pipeline_retry`, where
TLC shows it). `AcceptsExactlyChains` compares the walk of `main.py` over
predecessors with the definition of a chain, for finite sets of any size and
with all branches, cycles and gaps.

**The SDK object.** Discovery (`FindInv`, for any `c`): a place is probed for at
most one source (`Apart`), each source found is of a device that answered since
the discovery began, and each device that answered has one (`Stages`); what the
caches hold the history has seen (`Follows`). Batches (`BatchInv`): every chosen
recording is in exactly one of the rest, the window, and what was collected, and
what was collected is told as it ended; where there is one worker, they come in
turn (`InTurn`), so that the lists need no sorting. Deletions (`CardInv`): what
is left is closed under predecessors (`Linked`), the queue is closed under
continuations and ordered by them (`Planned`), so that the head of the queue
continues nothing that stays. The sequences the code sorts exist because an
element's place is the number of those before it (`Sortable`), and are unique
as far as the proofs use them.

Renderings (`RenderInv`): past the plan, the segments are contiguous, the frame
index and the clock points are good (`Sound`), and what is ready to be kept has
passed the check (`Shown`). A video made with a frame left out is too short
to pass, and one with a frame moved does not have the microseconds of the index;
a lookup by halving puts each frame at its row (`AskedPasses`), so that the
check refuses nothing FFmpeg was asked for. Around it stand four arguments about
data. Halving a range comes to the one place where the lower part ends, for
every test that is true of a lower part (`Halves`). The files of an eye, put
one after the other, are in the order of capture (`EyeInOrder`). What is rounded
to microseconds is the nearest one (`Rounded`). And the audio (`AudioIs`): between two
neighbours of the timeline lies no clock point, so that both of them are on, or
within the tolerance of, one line between clock points (`EntryNear`); what is
interpolated between them is within the same tolerance of that line
(`FitBetween`), and taking it from the recorded first time on adds the tolerance
once more (`FitMoved`), whence the `2 * Slack` of `AudioPlaced`.

**The workbench.** `IInv`: what is shown belongs to the source selected
(`Screen`), a load belongs to that source from its start to its end, whatever
threads come late (`LoadShown`), and one thread at most has the reader. That
a dialog is modal and a task locks the selection is part of it: without them
neither `OneSource` nor `Undisturbed` is inductive.

**The desktop application.** Batches (`IInv`): a recording is an encoder's own
job until it is told, results and the disk agree except for the job between its
rename and its report (`Reported`), and after an error every encoder stops or
has a reason to go on (`Stops`). The window (`WindowInv`): each task and each
phase of the detector holds exactly the sources it must close. Outputs
(`OutputInv`): who has the lock is the one who claims (`Holders`), a directory at
each stage holds what the stages before wrote (`Stages`), the shelf of published
outputs changes by whole directories (`Shelf`), and a deletion in progress
removes only what it has compared (`Deleting`). `PublishedWhole`,
`LeftoversUntouched` and `Retryable` are properties of steps.

**StreamCache.** `IInv`: who holds the lock is the only one reading; the count
of bytes is the weight of the cache, by induction over its length; the
prefetcher and each request are accounted for from start to end, so that after
`Close` nobody is left who would read.

*Induction.* The induction theorems of the library cannot be instantiated here.
Where a proof needs one, it is stated for a set of numbers: one that has 0 and
every successor has all of them (`NumbersByInduction`, from the well-founded
order of the numbers). It gives the weight of a cache, that the walk over
predecessors is defined and ends, that a set can be put in order, that a
chain is readable, that halving and flattening are defined and what they come
to, and that what rises from each to the next rises throughout.

*What the prover found in the model.* `CASE` expressions whose arms overlapped
and whose choice is then not determined (`DesktopBatch`, `DesktopOutput`,
`CardPipeline`: TLC takes the first arm); a `SUBSET S \ {{}}` that
needed its parentheses; assumptions that were used and not written down (finite
sets, `None` apart from the values it stands beside). They are corrected.

*Model-checked only.* Liveness (`ExportReturns`, `CompleteReturns`, `Ends`,
`CallsEnd`, `Settles`), which is beyond this prover, and the two
counterexamples.

## 7. What is not modelled

Digests, sizes and schema checks inside a file are abstracted to
"verified or not"; symbolic links, permissions and free space to "an operation may
fail". ffmpeg is an operation that yields its output or fails; an encoding is
determined by its input, options and version. A power loss that reorders
file system operations is not modelled: a kill keeps every operation that was
done. The store of the bucket is linearizable per object, as S3 documents it
for conditional requests. `transfer` is modelled without the other stages of
`exportOnce`; that a later stage fails is a `Restart`.

Media rendering: codec arguments, the tempo correction of audio without clock
points (one rate for the whole track), the bounds on rates and residuals of a
clock (a model track may be further off than the code accepts), byte counts.

LAN client: the JSON shapes and the choice of a network interface; a
`KeyboardInterrupt` in a download, which passes `except Exception`
(`_lan.py:497`) and leaves the partial file (`Give` removes it).
`session-list.v2` (one page) is `Paged = FALSE`, which no run checks: it is a
listing of one page. Selection: a source given as an object instead of by a
selector (`client.py:127-132`). Card access: the mount roots of the platform; the check of
the card's device before a deletion (`client.py:380`) compares constants. Take
graph: the order of sessions with equal times. Workbench: drawing, wording,
keys; `OneReader` counts the threads that list a catalog, not the readings
inside an export or a deletion. Card pipeline: two passes in one work directory at a time, parsing and
signatures of manifests, and `export-sbs`. `CardPipeline` takes no account of
disk space: no pass removes the copies below `--work`.

Desktop: the arguments of ffmpeg and the choice of an encoder, archive and
playback modes, marks by artifact revision, preferences, listing of devices; an
error while an output is deleted is like a kill; a removal of the clean-up that
fails itself; the dialog in which the user chooses the output directory, during
which the window is busy (`main.go:49`); a cached block is looked up
once per request; the detector opens and closes a card it probes in one step.
Components without modules are listed in section 1 and in `PROJECT.json` with
the reason: platform calls (card readers, privileged helper), build-time scripts and data.

## 8. Plan

Done: every part that section 2 lists, model-checked; every safety property and
action property of the runs proved for all values of the constants.

Next:

1. Refinements below `Destination`, `Catalogue` and `SerialTransfer` exist for
   three parts; the LAN download and the desktop outputs are stated by
   invariants alone, and an abstract specification of each would say what a
   caller may rely on.
2. `export-sbs` of `main.py`.
