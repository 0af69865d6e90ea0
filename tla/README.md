# Formal models of PeerStream

TLA+ modules for PeerStream, an asyncio BitTorrent client: what is requested of
whom, what is written and remembered, how peers, trackers and DHT nodes are found
and talked to, how torrents are run, stopped and shown. TLC checks the modules on
small instances; TLAPS proves most of them for every value of the constants.

    tlc -workers 2 -config MCDownload.cfg MCDownload      # any run of PROJECT.json
    tlapm DownloadProofs.tla                              # the proofs

`PROJECT.json` lists the components, the runs, a mutation for every checked
property (a plausible bug that makes the property fail), the lines of code each
definition stands for, the disagreements found, the hazards and the theorems.

## 1. Inventory

All network code of a process runs on one asyncio loop, so code between two
awaits is atomic; disk and hashing run in threads; the user interface runs on a
second thread behind a bridge.

| Component | State it keeps | Operations | Talks to | What is hard | What makes it correct |
|---|---|---|---|---|---|
| Download (`app/download`) | pieces and blocks, per-peer pipelines, request history, endgame table, cached count of unclaimed blocks, verification tasks | `start`, `stop`, `pump`, `on_block`, `on_have`, `on_disconnect`, `_verify` | connections, storage | seven paths give a request back; sends are awaited in the middle of a pass; racing copies of a block | the four records of a request agree; nothing corrupt is stored; a torrent completes |
| Storage (`app/storage`) | completed set, files, resume file and its temporary, pool of hashing threads | `load_resume`, `verify_completed`, `write_piece`, `save_resume`, `delete_files` | download, engine, upload | crashes between system calls; several saves in threads; writes that outlive a stop | what is called complete is on disk; the resume file is readable and honest |
| Peer session (`app/peer/state.py`, `bitfield.py`) | flags, bitfield object | `apply`, `mark_closed` | connection, download | the bitfield object is replaced while others hold it | availability counts match the swarm |
| Peer connection (`app/peer/connection.py`, `protocol.py`, `messages.py`, `handshake.py`, `extension.py`) | stream, read-loop and keep-alive tasks, negotiated numbers | `connect`, `attach`, `run`, `send`, `aclose` | pool, download, upload | tasks that cancel each other; bytes cut anywhere | every connection ends once; frames are read whole and in order |
| Peer pool (`app/peer/discovery/peer_manager.py`, `listener.py`) | candidates with back-off, connections by address, reapers | `add_peers`, `fill`, `adopt`, `_reap`, `stop` | trackers, DHT, PEX, listener | slots counted before an await | the cap holds; every connection is registered until it ends |
| PEX (`app/discovery/pex.py`, `exchange_peers`) | ledger of what each peer was told | `sync`, `build` | pool | differences against a changing swarm; a caller is known by a source port and reached at another | the ledger is what was told |
| Engine (`app/services/engine.py`) | running, paused and stopped flags, tasks | `start`, `pause`, `stop`, `aclose` | all of the above | no lock: calls overlap while files are prepared, the listener binds and `_stop_tasks` awaits | the flags say what runs |
| Session, torrent service, CLI (`app/services`, `cli`) | torrents, magnets being resolved, DHT node | `add`, `remove`, `toggle`, `close`, commands under Ctrl-C | engines, DHT | no lock between commands | a torrent of the session has an open engine; what ends is saved |
| Upload (`app/upload`) | request queues, unchoked set, token bucket | `on_request`, choke round, serve loop | storage, connections | cancels against serving, optimistic slot, bucket at zero | nothing is sent to a peer not allowed; everybody gets a turn |
| Trackers (`app/tracker`), mock trackers (`tools`) | tiers, announce state, UDP transactions; swarms | `announce`, periodic loop; registry | pool, engine | retries, expired ids, late answers | an answer is matched to its question; lists are true |
| DHT (`app/discovery/dht`, `dht_announcer.py`) | routing table, queries, tokens, kept peers | lookups, `announce`, answering | pool, session | lost, late and repeated answers | buckets divide the ids; lookups ask the nearest |
| Metadata and magnets (`app/peer/metadata_exchange.py`, `app/discovery/magnet_resolver.py`) | chunks, windows, sources | `fetch_metadata`, `resolve` | connections | time-outs between header and body; races of sources | a fetch waits for something; sources are tried |
| Events and bridge (`app/core/event_bus.py`, `app/ui/bridge.py`, `web_bridge.py`) | subscribers, queues between threads, page | `emit`, `drain`, ticks | everything | re-entrance, two threads | order is kept; a failing handler harms nobody |
| Statistics (`app/statistics`) | meters, series | `sample` | engine, display | windows at their borders | a rate is the bytes of its window |
| Input formats (`app/torrent`, `app/bencode`), torrents made for tests (`tools/make_test_torrent.py`) | none | parse, encode, make | - | malformed input | one spelling, one torrent; a made torrent is its payload |
| Configuration (`app/core/config.py`) | settings | load, override, save | - | crash during a save, files written by hand | saved or as before |
| Desktop (`app/ui/app.py`, `ipc.py`) | processes, two threads, pipe | launch, hand-over, exit | session | exit while the engine works | an exit in time is saved |
| Window (`app/ui/main_window.py`, `web/index.html`) | last snapshot, rows, torrent chosen, dialogs, log lines and notices | snapshots, views and filters, removal, tray and exit | bridge | rows patched or made anew as pages are left and entered; a dialog outlives what it was about | rows and particulars are of the snapshot; what is removed is what the dialog named |

The Qt views, view models and widgets of `app/ui` are opened by the tests alone, and
nothing imports `temp_git_main_window.py`; they are not modelled. Neither are charts,
painting and themes, logging formats, `packaging`, `scripts`, `mobile`: they keep no
protocol state. Nor are the scripts of `tools` that drive the application by hand
(`peer_probe`, `storage_check`, ...).

## 2. Modules

| Module | Models (under `src/`) |
|---|---|
| `Download` | `app/download`: manager, scheduler, piece, endgame, block |
| `Storage` | `app/storage/manager.py`, `resume.py` with the part of `Engine` and `TorrentService` that orders flush, stop, save and deletion |
| `SwarmView` | `_sync_peers`, `_update_interests`, `on_have`, `on_disconnect`, `PeerSession`, `PieceAvailability` |
| `PeerPool` | `peer_manager.py` and `listener.py`, with the part of `Engine` that starts and stops them |
| `PieceMaps` | bitfields and availability as bytes, `PieceSelector`; blocks of pieces, the requests accepted for them, the map a page draws of them |
| `Upload` | `UploadManager` with its choke policy; the token bucket as a machine of its own (`PaceSpec`) |
| `PeerWire` | one `PeerConnection`: read loop, keep-alive, closers, reaper |
| `WireCodec`, `Channel` | bytes of the wire protocol; the abstract channel both it and `EventBridge` implement |
| `Extensions` | handshakes and BEP 10 negotiation between two clients |
| `Pex` | `exchange_peers` and `PexLedger` |
| `Layout`, `ByteStream` | pieces across files, their ranges, writes and reads; the abstract stream of bytes it implements |
| `HashPool` | rechecks, the hashing pool and its shutdown |
| `ResumeFile` | the resume document: reading, quarantine, writing |
| `Announcer` | `TrackerManager`: tiers, health, announce loop |
| `UdpTracker` | UDP transactions over a lossy network |
| `TrackerServer` | the mock trackers and their clients |
| `Dht` | routing table and lookups (`DhtSpec`), answering side (`ServerSpec`) |
| `Krpc` | registry of DHT queries |
| `Metadata` | one fetch of a metadata dictionary (`MetaSpec`); the race of sources for a magnet link (`MagnetNext`) |
| `Replies` | what trackers, nodes and peers ask and answer about addresses, written and read on both sides, by the mock trackers too |
| `Session` | overlapping calls of the session, the DHT announcer's loop |
| `EngineLife` | `Engine.start`, `pause`, `stop`, `aclose` overlapping |
| `CommandLine` | `cli/main.py` under Ctrl-C |
| `EventBus` | dispatch with failing handlers (`BusNext`); one bus for several torrents (`SharedNext`) |
| `EventBridge`, `WebUi` | hand-over between threads; ticks, jobs and mail of the page |
| `MainWindow` | the page in its window: library and detail page (`WindowNext`), dialogs and tray (`DialogNext`), log and notices (`LinesNext`) |
| `Statistics` | samples of one torrent (`StatsNext`); the meters and series by themselves (`MetersNext`) |
| `Settings`, `Desktop` | as in the inventory |
| `Bencode`, `Metainfo` | bencode byte by byte, with the span that is hashed; torrent documents, those the tools make, and magnet links |

Proofs are in modules of their own (section 4): `DownloadProofs` and `StorageProofs` about
the module they are named for; `PeersProofs` about `PeerPool`, `SwarmView`, `Upload`,
`PeerWire`, `Extensions` and `Pex`; `DiscoveryProofs` about `Krpc`, `UdpTracker`,
`Metadata`, `Dht` and `TrackerServer`; `ServiceProofs` about `Session`, `EngineLife`,
`EventBridge`, `Settings`, `CommandLine`, `Desktop` and `HashPool`. `MCPeers`,
`MCDiscovery` and `MCServices` instantiate these and end with theorems about their own
properties.

`MCDownload` and `MCStorage` extend their module. The other components are
instantiated by five modules, each a *sum*: `MCPeers`, `MCDiscovery`, `MCServices`,
`MCCodecs`, `MCLive`. A behaviour of a sum chooses one component (`part`, out of
`Explored`) and takes steps of it only; the variables of the rest stay as they
are. So a run explores the disjoint union of its components' state spaces, and a
property guarded by `part = "x"` says of component x exactly what it would say alone;
it includes that part's type invariant. Operators under a comment "Faulty variant"
are not part of a specification: they are the mutations of `PROJECT.json`.

### Download

State: `pstate`, `bstate`, `breq`, `corrupt` are the `Piece` objects; `out` and
`age` the pipelines (`PeerSlot.outstanding`); `asked` the request history;
`ereq` the endgame table; `unclaimed` the cached count (`NoCount` is `None`);
`loop`, `todo`, `cur`, `sendq` say where the scheduling loop is; `conn` and
`choked` what the manager sees of a peer; `task`, `completed`, `verified` the
verification tasks and the two records of what is stored.

A pass is `PumpBegin` (the start of `_sync_peers`), `SyncGone` per departed peer,
`ExpireOne` per expired request, `PlanBegin`, `PlanPick`, `PlanAssign`,
`PlanPeerDone`, `PlanEnd`, then one awaited `SendOk` or `SendFail` per
assignment, and `PumpEnd`. `Scheduler.expire` and `Scheduler.plan` are synchronous:
their steps are separate only to keep the actions small, and the guard `Yielded`
of everybody else's actions keeps them from being interrupted. The wait for
interest messages (`loop = "interest"`) and every send can be interrupted by
`OnBlock`, `PeerLost`, `OnDisconnect`, `PeerChoke`, `VerifyPass`, `Stop` and the
rest. `OnBlock` is the whole handler: late copies, unrequested blocks, racing
copies, the piece that is complete with it and the withdrawal of its requests.

Abstractions: block contents are right or corrupt, time is ticks since a request
was stamped, the selector's order over untouched pieces is any order, a peer's
holdings are a constant (how they are learnt is `SwarmView`). A piece is checked
before it is written (`verify_before_write`, the default). Initially the pieces a
resume file supplied are verified, any subset of them.

### Storage

State: `good` (the piece and file chunks whose bytes are right), `present` (files
that exist), `wr` (the chunks each running `write_piece` has left), `completed`,
`resume`, `temp`, `content` (names, inodes and what each inode holds: a document,
or `Torn`), `spc`, `sdoc`, `sino` (the saves in their threads, system call by
system call), `mode`, `pc`, `loop`, `peersUp` (the engine and its callers),
`carried`, `served` (upload totals), `lost` (history: what something outside the
client damaged or removed).

Overlapping callers are the point: `Engine.pause`, `Engine.stop` and
`DownloadManager._finish` each start a save in a thread of its own; piece writes
go on while the engine stops; `flush` gives up after `FLUSH_TIMEOUT`; a crash may
come between any two steps. `os.replace` is atomic; the loss of unsynced pages
when the operating system itself dies is not modelled, and neither is adding a
removed torrent again in the same process.

### SwarmView

State: the connection, the session's first Bitfield object and the one a bitfield
message installs (`first`, `second`), which of the two the manager tracks
(`tracked`), the availability counters, the recorded interest decisions
(`interest`), and one pass of `pump` with its single await (`cur`). A connection
that dies during a pass is kept in `dead`, as the code keeps the object in its
list. Pieces move between wanted, verifying and verified only.

### PeerPool

State: `cand` and `reg` are `PeerManager._candidates` and `_connections`; `st`,
`addr`, `taken` and `own` describe the connection objects, registered or not,
and the candidate a dial was started for; `maintain`, `phase` and `closing` are
the maintain task and how far `Engine._stop_tasks` has come.

One action per stretch between two awaits: `FillBegin` counts the slots and
starts the dials of a round, `DialOk` and `DialFails` end one, `FillEnd` the
round; `Accept` is `adopt` up to its handshake, `AttachOk` and `AttachFails` the
rest; `Ended` is the end of a read loop and `Reap` the task that its callback
schedules; `StopBegin`, `CloseOne`, `CloseEnd` and `Settled` are the stop, with
everything else going on in between. Time appears as back-offs that are over.
Among candidates that failed equally often any order of dials is allowed (the
code takes the one tried longest ago), which gives up liveness and no safety.
`connect_to`, which nothing in the application calls, is not modelled.

### The others, in a sentence or two

- `Upload`: one task decides, tells and serves, and awaits at every send and every
  read; `Request`, `Cancel`, disconnects and interest come in between. `Serve` is the
  pop of a queue, `Sent` the return of the send. `PaceNext` is the bucket alone:
  byte costs and refills in units of time, with the delayed sends waiting on it.
- `PeerWire`: `RunGoes` is the read loop, message by message; `Close` begins an
  `aclose`, `CloseEnds` is its return; the reaper closes what ended by itself.
- `Extensions`: each side sends the 68 bytes, then its extension handshake, and a
  client that is not this program may send it again with other numbers.
- `Pex`: `PexBegin` takes the connections and their contacts as `_pex_contacts` makes them:
  a peer that called counts where its handshake said it listens, or not at all, and
  nobody twice; then one awaited send per connection that speaks `ut_pex`. Handshakes,
  first and later ones, arrive in between.
- `Metadata`: a window of requests; a frame is a header and a body, and the
  deadline of the window may fall between them. Its second machine: tracker and DHT
  answer in any order or time out, then fetches race and the losers are cancelled.
- `UdpTracker`: a caller takes the lock, opens the socket if need be, sends, and is
  answered, times out, retries or is cancelled; any reply to any packet sent from the
  open socket may arrive, twice or never. `Krpc` is the same for futures registered
  under a random id, which may be drawn twice (`FreshIds` excludes that).
- `Announcer`: `LoopStep` is the announce loop (tier by tier, back-off, interval);
  `Engine.announce` and `close` come in between. `TrackerServer`: requests may be
  answered after their client gave up; datagrams may be lost or doubled.
- `Dht`: several lookups ask rounds of nodes at once over one table; what a node
  answers is up to it. Its second machine answers queries, rotates secrets and
  keeps peers, with any token it or anybody else was given; a list that is full
  forgets its oldest entry.
- `Session`: every call is a coroutine with a stage per await; `Pass` and `Announced`
  are the DHT announcer; a start of the DHT node may bind its port after a close has
  returned, and starts may overlap. `EngineLife`: any call may begin while others wait for
  the files, the listener or the end of a part, any of which may fail; what overlapping
  calls leave behind, a task without a handle included, is part of the state.
- `EventBridge`: `emit` on the engine's thread and on the GUI's, one signal, the drain;
  `Channel` is what it implements. `WebUi`: a tick reads the engine's objects while the
  other thread changes them. `EventBus`: a thread's emissions are a stack, since a
  handler that fails is logged and the log record is itself an event; a coroutine told
  off the loop's thread raises out of its emission (`Raise`), and what it missed is kept.
- `MainWindow`: the page is patched by snapshots that come while its user filters, leaves
  and enters views; dialogs are opened, left and confirmed; the log is filtered while
  events come.
- `Layout` reads and writes ranges over files that may be short or empty, and
  implements `ByteStream`; `WireCodec` cuts a stream anywhere and implements `Channel`.
- `Bencode`, `Metainfo`, `Replies`, `PieceMaps`, `ResumeFile`: the functions of the
  code over every small input, with reference definitions beside them. `Bencode` has the
  info hash as the spelling that is hashed, and compares it with what the maker of the
  torrent hashed; `Metainfo` also makes torrents, as `tools/make_test_torrent.py` does,
  and compares what is read with the payload. `Replies` has both ends: what this program
  sends, and what the mock trackers of `tools/` read of it.

## 3. Runs

| Run | Instance | Shows |
|---|---|---|
| `download_races` | 2 peers that may both corrupt, 1 piece of 2 blocks, pipelines of 1, endgame threshold 1, disk faults | the records of a request agree (`RequestsAgree`) and are counted (`RequestsAreCounted`), the two records of storage agree, nothing corrupt is stored, a race only at the end |
| `download_live` | 2 peers, 1 block, endgame off, one may corrupt | the torrent completes under fairness |
| `download_stuck` (violation) | the same with endgame on | section 5 |
| `storage_restarts` | 2 pieces, one across 2 files, slow and faulty disk, crashes, damage, one save at a time | what is complete is intact, the resume file is honest and readable, restarts keep progress |
| `storage_stop_returns` | 1 piece whose write may never end | `stop` returns |
| `storage_torn_resume` (violation) | 1 piece, 2 saves at once | section 5 |
| `peers` | sum: `Download` without endgame, `SwarmView`, `PeerPool`, `Upload` and its bucket, `PeerWire`, `Extensions`, `Pex` | requests have one requester and are alive; a pass leaves nobody idle (`PlanKeepsPeersBusy`); counters cover the tracked peers; slots are held; sends are allowed and paid for; connections end once; two clients understand each other; the PEX ledger is what was told |
| `discovery` | sum: `UdpTracker`, `Announcer`, `TrackerServer`, both machines of `Dht`, of `Metadata`, `Krpc` | an answer goes to its own question; lookups ask the nearest; a fetch always waits for something and every source is tried; what is listed is true; retries slow down |
| `services` | sum: `Session`, `EngineLife`, `EventBridge`, `Settings`, `Desktop`, `CommandLine`, `ResumeFile`, `HashPool`, both machines of `Statistics` and of `EventBus`, `WebUi`, the three of `MainWindow` | the session holds together under overlapping calls; an engine is as its flags say; what was saved is there; a recheck believes what it read; what is shown happened; every subscriber that can be told is; the feed implements the channel |
| `resume_corrupt` (violation) | `ResumeFile` | section 5 |
| `codecs` | sum: `WireCodec`, `Layout`, `PieceMaps` (bits, blocks), `Bencode`, `Metainfo` (files, links), `Replies` | what is written is read as what it meant, and the forms of a list agree; torrents are whole and hashed as their makers did; blocks cover pieces; the two refinements `StreamIsChannel` and `LayoutIsStream` |
| `live` | sum: `UdpTracker`, `Announcer`, `Krpc`, `Metadata`, `Upload`, `SwarmView`, `PeerWire`, `Session`, `EventBridge`, `WebUi`, `Desktop`, `MainWindow`, each under its fairness | every question ends; no peer is forgotten; what was begun ends |

Instances and bounds. *Download.* Two peers are enough for every race the code
distinguishes: its tests are "another requester exists", never "how many". Two blocks
separate the last block of a piece from an earlier one. A time-out of two ticks with an
endgame delay of one separates young, raceable and expired requests. *Storage.* `Inodes`
bounds the files that exist at once (the resume file, and one per running save),
`MaxSavers` the simultaneous saves, `MaxUp` the upload total; a piece across two files has
a middle for a crash to hit. *SwarmView*, one peer that comes and goes: `MaxCount` bounds
the counters, and disables a `have`, never a pass or a disconnect. *PeerPool*: 2 addresses
that answer, 1 that calls, 2 connection objects, 1 slot, 2 failures; an object is used
again once nothing refers to it. An address that calls is its source port, taken to differ
from those that answer. *Upload*: 2 leechers, 1 slot, 1 request each; the bucket 3 units a
second, blocks of 1, 2 and 4, so that a block may exceed what the bucket holds.
*PeerWire*: 2 closers and 2 messages. *Extensions*: 2 torrents, 2 names, 3 ids of which
one means "disabled". *Pex*: 3 keys of which one is a source port, limits 2 and 1.
*UdpTracker*, *Krpc*: 2 callers. *Announcer*: 2 tiers. *TrackerServer*: 1 client and 1
seed. *Dht*: ids of 3 bits, buckets of 1, 2 lookups; 2 hosts, 2 torrents, a secret that
lasts 1 tick. *Metadata*: 3 chunks, windows of 2, 3 peers that answer a link. *Session*: 1
torrent, 2 callers. *EngineLife*: 2 callers, each with any number of calls, faults.
*EventBridge*: 4 events, room for 2. *Desktop*: 2 processes. *CommandLine*: 3 Ctrl-C, as
the third finds nobody. *HashPool*: 2 pieces, 2 pools. *EventBus*: 2 handlers, one of them
a coroutine, 2 threads; 2 torrents. *Settings*: 2 saves. *MainWindow*: 2 torrents, two of
three states that look alike, a line and a card kept less than there are events.
*WireCodec*: bytes of 2 bits, so that a length has a carry. *Layout*: up to 2 files,
*PieceMaps*: 3 pieces, pieces of at most 4 bytes in blocks of 2. *Bencode*: values two
deep in at most 20 bytes (`MaxLength`), one name `InfoKey` for the dictionary that is
hashed. *Metainfo*: names of at most 4 characters (`MaxName`), paths of 7 (`MaxPath`),
made payloads of 5 bytes (`MaxPayload`). *Replies*: 2 values of a byte (`Base`), an
address of one byte and a port of two, strings of at most 9 bytes, so that every list of
up to three records and every cut of one is there; caps of 2 peers, 1 node, 2 accepted and
2 hashes (`MaxHashes`). Numbers of attempts, messages and ticks are capped by constants
named `Max...` where a module has them.

The sums have 808104 (`peers`), 417434 (`discovery`), 638068 (`services`), 724041
(`codecs`) and 53034 (`live`) distinct states.

Deadlock is checked for `Download` and `Storage`. The sums say `CHECK_DEADLOCK FALSE`:
their components end (a connection is closed, a command returns, a document has
been read), and a component that has ended has no step.

Fairness. `Download`: the asyncio loop runs every ready task, so passes go on,
verification tasks end and the reaper reports; the clock ticks; these are strong because
the inner steps of a synchronous stretch, which the program executes as one, switch them
off in the model. Of the environment it is assumed only that a send tried again and again
on a live socket gets through, now and then before a tick, and that an unchoking peer
asked again and again answers in time now and then. Any single request may be lost.
Without the last assumption the property is false of the code: an unchoking peer that
never answers and comes first in the order of connections is asked for the last block
again after each time-out. The steps of a peer that comes or goes and `Start` and `Stop`
have no fairness. `Storage`: the steps of a caller of stop or pause and of a save's thread
are fair, piece writes are not. In `MCLive` the conjuncts `QuestionsGo`, `PeersGo` and
`ServicesGo` give each component the same: tasks and threads that are ready run, sleeps
and deadlines end (`DeadlinePasses`, `Lapses`, `TimesOut`, `LookupTimesOut`), a close of a
socket returns; nobody outside has to answer. Strong fairness is used where a message is
tried again and again on a live socket (`Told`), where a disconnect is noticed
(`OnDisconnect`), and for the choke interval, whose end other timers switch off.

## 4. Proofs

TLAPS checks the theorems below for every value of the constants. Each proof has one
lemma per action, or per group of actions that touch the same variables; the lemmas
about sequences, lists without repetition and finite sets stand where they are first
used.

| Module | Theorem | Assumes, beyond the module's assumptions on its constants |
|---|---|---|
| `DownloadProofs` | `TypeCorrect`, `RequestsAgreeAlways`, `VerifiedAgreeAlways`, `DiskIntegrityAlways`, `RequestsAreCountedAlways`, `RacesOnlyAtTheEnd` | - |
| | `PlanKeepsPeersBusyAlways` | no endgame |
| | `RequestsAreAliveAlways` | no endgame, no disk fault |
| `StorageProofs` | `StorageTypeCorrect`, `HaveIsOnDiskAlways`, `ResumeIsHonestAlways`, `RestartKeepsProgressAlways` | - |
| | `ResumeReadableAlone` | one save at a time (`MaxSavers = 1`) |
| `PeersProofs` | `PoolTypeCorrect`, `SlotsAreHeldAlways` | - |
| | `PoolIsAccountedAlways` | no address both answers and calls |
| | `AvailabilityCoversTrackedAlways`, `QueuedIsTrackedAlways`, `SendsAreAllowedAlways`, `PaidForAlways`, `ConnectionsEndAlways`, `PeersUnderstandAlways` | - |
| | `LedgerIsToldAlways` | (`PexAssumption`: a later message is no larger than a first one) |
| `DiscoveryProofs` | `RegistryIsLiveAlways`, `RepliesAreOwnAlways`, `FetchKeepsItsPipeline`, `ListedHaveAskedAlways`, `NewcomersForgetOldest`, `TrackerListsAreTrue` | - |
| | `WaitingIsRegisteredAlways` | a registered id is not drawn again |
| | `ResolvingKeepsWhatAnswers` | nobody cancels the resolve |
| `ServiceProofs` | `ManagedIsOpenAlways`, `SettingsAreSavedAlways`, `CommandsAreSavedAlways`, `ExitsAreSavedAlways`, `BelievedIsOnDiskAlways`, `WrittenIsKeptAlways`, `OneSignalAlways`, `EngineIsAsItSaysAlways`, `ReleasedLastAlways` | - |
| | `FeedImplementsChannel` | one thread emits |

Where something is assumed the property is false without it, and section 5 or TLC with the
constant changed shows how: two saves tear the resume file, an address that calls and
answers is registered twice, a redrawn id hides an older query, a disk that fails leaves a
piece in VERIFYING with nobody at work on it, a resolve that is cancelled leaves the race
it began to the event loop. That one thread emits is so for the events the engine's thread
produces; of two threads both may read the newer event (`EventFeed._on_change` reads the
state again), and the older is not shown. The limits of peer exchange are constants of
`pex.py`, for which the assumption holds.

The properties the runs `peers`, `discovery` and `services` check are about sums, so the
modules of the sums state them again and prove them from the lemmas above: a step of a
sum is a step of each component or leaves it (`EachMoves`), hence each component keeps its
invariant, whichever part is explored.

| Module | Theorem | States, of the run |
|---|---|---|
| `MCPeers` | `RequestsStayAlive`, `PlansKeepPeersBusy`, `AvailabilityStaysCovered`, `PoolStaysAccounted`, `SendsStayAllowed`, `ConnectionsStayEnded`, `PeersStayUnderstood`, `LedgersStayTold` | all eight properties of `peers` |
| `MCDiscovery` | `RepliesStayOwn`, `MetadataStaysPursued` | the two properties |
| | `ServersListsStayTrue` | `ListsAreTrue`, of the DHT node and the tracker; the routing table is left to TLC |
| `MCServices` | `SessionStaysTogether`, `EngineStaysAsItSays`, `FeedStaysChannel`, `BelievedStaysOnDisk` | the four properties |
| | `SavedStaysThere` | `SavedIsThere`, but for its part about resume files |

*Download.* The inductive invariant is `IInv == TypeOK /\ RequestInv /\ StoreInv`.
`RequestInv` is the conjunction of the four parts of `RequestsAgree`, which only
together survive a step: a receipt keeps `PipelinesMatchTracker` because every
requester the tracker names is one the piece names too, and keeps
`NothingOutstandingOnceAssembled` because the tracker and the pipelines agree on
what must be withdrawn. `StoreInv` joins the records of what is stored and adds
`TasksMatchPieces`: a verification task exists only for a piece in state
VERIFYING, and its verdict `good` was reached on blocks none of which is corrupt.
Without it `DiskIntegrity` is not inductive: nothing would keep a piece from
being reset and filled with corrupt blocks between the hash and the write. It
holds because a piece in VERIFYING accepts no block (`BlockTooLate`), which is
the heart of the argument.

`RequestsAreCounted` is inductive on top of `IInv`: no action adds more to the set of
unasked blocks than to the cached count, so a count that is present is never too low,
although a block that arrives unrequested leaves it too high (section 5).
`RaceOnlyAtTheEnd` is about steps: `PlanAssign` alone lengthens a pipeline
(`OnlyPlanAsks`), it races only while the cached count is within the threshold, and since
that count is never too low the blocks really free are within it too.

What the scheduler may forget needs a second invariant, `AliveInv`. `FreeIsFree`: a
missing block names no requester in its `Piece`, and no piece rests between its last block
and its check. `Tended`: every piece in VERIFYING has its task, unless a disk may fail.
`Lone`: without endgame the requesters a block names are those that have it in their
pipelines, one if it is requested. With the endgame this fails (run `download_stuck`),
and with it the torrent's completion. `PlanKeepsPeersBusy` then needs that the scheduler
finds something to give whenever there is something: the piece it prefers among finitely
many, and the first block of a piece, are least elements (`LeastElement`, `FirstPiece`,
`FirstBlock`).

*Storage.* `DiskInv` joins seven parts, of which four carry the argument. `AllHonest`: the
completed set, the document in every inode and the document every saving thread is about
to write claim only pieces that are intact or in `lost`. As a rename only gives another
name to an inode, it needs no argument of its own. `WritesMatch`: the part of a piece that
`write_piece` has behind it is on disk, so the piece that is marked complete at its end is
whole. `Kept` is the same without `lost`, from `build_engine` until files are deleted.
`Checking`: `verify_completed` works off the resume file's list and has judged right what
it has behind it, which is what `RestartKeepsProgress` comes from. None of this counts the
saves: any number may overlap and the file stays honest. That it can be read is another
matter and needs `OneSaver`: the temporary file is empty until its one thread writes,
whole when it renames, and never the inode the resume name denotes.

*PeerPool.* `PoolInv` says that an address has at most one connection and at most one
dial, not both if it is one that answers (`OnePerAddress`), that dials exist only during a
round of a running pool (`DialsAreFills`), and that a connection is registered under its
address until it is reaped or the pool has closed (`Accounted`), the only exceptions being
handshakes the listener still waits for. Nobody to whom there is a connection is a
candidate for another (`CandidatesAreFree`), which keeps `OnePerAddress` through the next
round. The bound on the dialled connections follows by counting, since `FillBegin` starts
no more dials than the slots it found free.

*Upload.* `Fine` describes one queue: within its limit, of blocks we have, no block twice.
The lemmas say that appending, cutting a head and removing an entry keep it. That no
block is queued twice is also why a cancel that removes one entry removes the request.
`SendsAreAllowed` is inductive by itself. For the bucket, `PaidFor` says that from any
block sent to any later one no more goes out than is earned in between, plus a full
bucket. `PaceInv` says it of every block that was taken, whether it has gone out or waits,
and of the stretch from any of them to now: what was charged since, with what the bucket
holds or owes, is within a full bucket and what was earned since.

*SwarmView.* `ViewInv`: for every piece the counter is at least the number of tracked
bitfields that show it, and it is an integer before it is known to be natural, since a
disconnect subtracts. The sets of holders before and after a step differ by the
departed and the new; counting the union gives the bound. The counter may be above:
`AvailabilityIsExact` is false (section 5).

*PeerWire.* `WireInv`: where the connection's task is tells what has been announced
(`AnnouncedSoFar`); the keep-alive task is there once `run` has begun and has ended when
the read loop is over (`KeepIsOfRun`); and a read loop that ended in an exception had
closed socket and session before (`RaisedIsClosed`), so the reaper that finds the
exception leaves nothing open behind.

*Extensions.* `ExtInv` follows what is on its way to each end. `MailIsSound`: a greeting
is of its sender's torrent, an offer is what the sender offers, a number it uses is one it
was given, and the last offer on the way is the sender's latest; when none is on the way,
the latest has been noted. From that, `NameSurvives`: a message is taken for what it was
meant as, or for nothing.

*Pex.* Ledgers are kept by the key of the connection, and what is told are contacts, which
for a peer that called are something else and change with its handshakes; nothing in the
proof relates the two. `LedgersInOrder`: nobody is to be added who was said, none dropped
who was not, and no list names anybody twice. `SaidIsKnown`: what the ledger says it told
is what the peer knows once the message under way has arrived, if the ledger was made for
this connection of the peer; `CountedFromOne` numbers the connections, and `LeftAreOnce`
says that nobody a pass has still to tell has a ledger of a later connection. A send that
fails breaks the connection, of which nothing is claimed any more.

*Krpc.* Removing entries keeps the rest live because an entry's id is the id its
caller waits under; the bound holds since an attempt looks at it before it adds.

*UdpTracker.* `UdpInv`: who has a call under way has one place in the queue of the lock
(`TurnsAreTaken`), and who waits for a packet is the head of that queue, has no answer yet
and asked under the id the answer must carry (`ArmedForHead`); so a datagram that matches
is its own.

*Metadata.* `AskedInOrder`: chunks are asked for in their order, so a window that was
given up only repeats what is in flight, and one is never empty while chunks are missing.
For a resolve, `PhasesInOrder`: which of the sources and fetches run in which phase.

*Dht, the answering side.* `TokensAge`: a token is of the secret in force, or of the one
before and no younger than the last rotation, or has had its window.
`NewcomersForgetOldest` is about the one step that shortens a list, and needs that a list
which is full has an oldest entry.

*TrackerServer.* `PacketsInOrder`: whoever waits asked for what it waits for in the packet
of its latest number, and an answer of that number comes from a list that has the client
since it asked (`Counted`), unless the client is silent beyond its time or told the
tracker to forget it. `ResultCounted` keeps that after the answer was taken. `Thinned`,
what a list has at some of its places in its order, is defined by ranks (`RanksAre`).

*EventBridge.* `SignalInv`: the feed is announced just while a signal is queued or one
thread is about to raise it, never both and never two threads; the lock makes the test and
the announcement one step. For the refinement, `FeedInv` says that what was emitted is
what was shown, then what is pending, then the event under way; the event under way is
still the last of the state when `_on_change` reads it back, although the state keeps only
the newest `Capacity` of them (`LastIsKept`). Then a drain is a step of `Channel` that
receives a batch, an emission one that sends, and every other step a stutter.

*EngineLife.* Any call may begin while others wait, so a start may bring up parts that a
stop has passed (`StopIsHeard` is false, section 5). What can be proved is that the next
pause or stop puts it right. The history `tangled` is set when a start and another call
overlap, or a start follows the release; a pause or stop that begins while no call is
under way clears it, if every task can be found by its handle. `LifeInv` says throughout
where handles and doubled parts can be (`CallsAreReal`, `StraysAre`), and that a metrics
collector which is quitting, and would end the task of a new start, is quitting only while
a stop waits for it (`QuittingIsAwaited`). `Tidy` holds while not tangled: a start has the
engine to itself (`StartsAreAlone`); the parts before the one a stop awaits have ended,
whatever other stops do, because all of them only take away (`StopsGoOn`); and between
calls the engine is down or up (`DownOrUp`). That the swarm refuses a second start, and
the other tasks are started only where no handle is held, is why no task is doubled,
tangled or not.

*Session.* `OwnInv`: every engine a call holds was built, no two torrents have one engine,
and the engine of a torrent that is being removed is no longer managed (`CallsAreOwned`,
`EnginesAreOwned`); so no `aclose` reaches an engine the session still manages.
`HeardInv`: a torrent the pass under way was not told of is still in its queue, or the
loop has been poked (`NewAreQueued`), and a loop has a node (`LoopHasNode`), both until a
start of the node binds its port after a close (`late`).

*Settings.* `SavedInv`: a temporary file that is about to be put in place is whole, and is
one of the configurations that were saved.

*CommandLine.* `CommandInv`: nothing is unwritten before the torrent is added, and code 0
is set at the end alone.

*Desktop.* `DeskInv`: the stop of the application is asked for once, when the window has
closed (`Asked`), and an exit that was not cut short has closed every torrent, of which a
closed one has nothing unsaved (`Departed`).

*HashPool.* `CheckGoes` and `StillGood`: what a recheck has read and found good is good
still, or was damaged after it was read; a write never concerns a piece that is believed
(`WritesAreNew`), so none can spoil what a recheck has read. `JobsAreWaitedFor`: every job
in the pool has a recheck or a write that waits for it, with the bytes that were read.

What is left to TLC, and why. All liveness, since fairness and ENABLED are beyond the
prover. The functions of the formats (`WireCodec`, `Bencode`, `Metainfo`, `Replies`,
`PieceMaps`, `Layout`, `ResumeFile`): their recursion needs induction over data, so
`MessagesMeanOneThing`, `TorrentsAreWhole`, `BlocksAreThePiece`, the part of
`SavedIsThere` about resume files and the refinements `StreamIsChannel` and
`LayoutIsStream` are checked and not proved. `NearestAreAsked` and `FailedLeave`: the
routing table is split and searched by folds over its buckets. `ShownIsTrue` and
`EveryoneIsTold`: sums and folds over listeners, samples and rows. `RetriesSlowDown`: a
power of two.## 5. Where the code and its documentation part

Checked as runs that must find a violation:

1. `download_stuck`. Two peers race a block in endgame and both requests are given
   back. `Scheduler.note_orphaned` tells the `Piece` to forget a requester only when
   the tracker knows no other, so the last to give up is forgotten and the first
   stays recorded. `requestable_block` never offers the block to the first again; in
   endgame it does offer it to the other. When the first is the only stable seed and
   the other keeps choking us or stays away, the torrent never completes.
2. `storage_torn_resume`. All saves of a torrent use one temporary name. A stop
   that overlaps a pause truncates the file the other save is about to rename: a
   crash leaves an empty resume file.
3. `resume_corrupt`. "Corrupt state is never fatal" (`storage/resume.py:29`), but a
   file of bytes that are no UTF-8 makes `read_text` raise `UnicodeDecodeError`, which
   `load_or_none` does not catch: nothing is set aside and the torrent cannot be opened.

The models also contain these properties, which the code does not have; each can
be seen by putting it into the cfg of the run that instantiates its module:

| Property | What happens |
|---|---|
| `SwarmView!AvailabilityIsExact` | a have received before the first pass is counted twice |
| `SwarmView!InterestIsTold` with corrupt pieces | a decision is cached under two counts that a failed piece leaves unchanged; the only peer that has it is never told |
| `PeerPool!CapHolds` | `adopt` checks the cap before its handshake only, so sockets taken in during a round of dials exceed `max_connections` |
| `PeerPool!LiveIsRegistered` where an address calls and answers | it is registered twice, and the first connection is forgotten while it lives |
| `PeerPool!StoppedIsEmpty` | a handshake the listener still waits for is adopted after `close_all` |
| `Storage!StoppedIsSaved`, `DeletedIsGone`, `UploadedIsCarried` | a piece completed between flush and stop is not in the state saved; a late write creates a deleted file again; `_finish` saves without the upload total of earlier runs |
| `CommandLine!SaidIsSaved` | a second Ctrl-C during the close loses progress the command reported (`cli/main.py:349-352`, `24-25`) |
| `EventBus!OfferedIsVerified`, `IdleCountsNothing`, `RemovedIsUnhooked` | an engine offers pieces other torrents verified on the shared bus (`engine.py:406-424`, `665-669`); a collector counts bytes of others (`metrics.py:251-268`); a removed torrent keeps its handlers |
| `EventBus!NobodyMissesAnEvent` | a coroutine handler told off the loop's thread raises out of `emit` and costs the handlers after it (`event_bus.py:132-133`, `193-204`, against `10-12`) |
| `Upload!ChokedGetsNothing` | a block the pacer delayed goes out although its peer was choked meanwhile (`upload/manager.py:426`, `451-453`) |
| `Session!ClosedIsQuiet` | a start of the DHT node that overlaps the close binds its port after it, and nobody closes it (`session.py:332-369`, `472-482`; `app/ui/app.py:202`, `228`) |
| `Desktop!NothingIsLost`, `LinkIsTaken` | the exit waits less (`app.py:225-229`) than a flush may take (`download/manager.py:72`); a link handed to an instance that leaves is lost (`app.py:191-197`) |
| `WebUi!RatesAreNotNegative`, `EveryTickPublishes`, `DialogCanBeConfirmed` | a peer of the selected torrent that reconnects counts from zero again (`web_bridge.py:92`); a tick reads collections the other thread changes (`session.py:504`, `bridge.py:139-140`); a dialog shown again after its torrent was taken finds the cache empty |
| `MainWindow!RowSaysState`, `OwnLogIsOwn` | a pill keeps its old word when two states look alike (`index.html:1134-1137`); the log of the detail page keeps another torrent's lines when the selection changes (`1144`, `1223-1241`) |
| `WireCodec!OwnFramesAreRead` with the default bounds | bitfields of very many pieces exceed the frame limit of the reader (`config.py:106`, `protocol.py:201`) |
| `Replies!OneBadEntryCostsItself` | one malformed entry of a list refuses the whole announce (`http_tracker.py:163`, against `149-152`) |
| `EngineLife!StopIsHeard`, `NothingOutlivesStorage` | a start that waits for its files or the port goes on after a stop that has returned, and every later stop is refused (`engine.py:308-311`); an aclose that finds the engine stopped releases storage while the stop still ends parts (`327-337`) |
| `EngineLife!RunningMeansUp` | `running` stays true when the listener failed to bind, and a later start returns at once (`engine.py:214`) |
| `Bencode!ResolutionIsForThisMagnet`, `Metainfo!LinkRoundTrips`, `HintsNeverRefuse`, `UsableTopicIsUsed`, `FilesCanBeMade` | links and torrents at the edge of what the parsers accept |
| `ResumeFile!OneBadFileCostsItself` | a file of such bytes, or one whose name is no hash, ends `load_all` (`resume.py:488-504`), which only tests call |
| `Pex!ToldOfOthers` | a caller that stated its listening port is told of its own address: the pass compares the contact with the address it calls from (`peer_manager.py:455`, `463-491`) |
| `Dht!OnlySilenceIsBlamed` | a KRPC error, a query refused at the limit and a closed socket count as failures of the contact (`dht/node.py:376-380`), while the table says it did not answer (`routing.py:107-108`) |
| `Pex!AddedIsConnected` | a peer that left while a pass awaited its sends is still announced |
| `Settings!SavedIsLoaded`, `CorruptStillLaunches` | the upload section is saved and not read back; a file that is not UTF-8 raises `UnicodeDecodeError`, which `load_or_default` does not catch (`config.py:14`, `338-346`) |
| `PeerWire!EndIsReported` | when the read loop ended in an exception the reaper raises too, and nobody is told |
| `Metadata!SlownessCostsAWindow` | a deadline between a frame's header and its body leaves the stream out of step, which costs the fetch and not the window (`metadata_exchange.py:99-102`) |
| `Metadata!WhateverAnswersIsKept` | the error of one source ends the resolution while another has peers (`magnet_resolver.py:238`) |
| `Layout!EmptyIsComplete` | a file of no bytes is not always shown as complete (`torrent_service.py:99`) |
| `Announcer!ClosedHasNoSession` | an announce under way when the manager closes opens a session again |
| `Krpc!RepliesMatch` | two queries that draw one id: the answer to one completes the other |

Met while reading, and stated by no property: the mock UDP tracker ignores "stopped" and
numwant, and its scrape counts peers it would no longer list; the mock HTTP tracker prunes
by its own interval, not `peer_ttl`; no part of the application sends the events "stopped"
and "completed"; old DHT tokens are dropped at the next rotation someone causes, not by
time (`dht/node.py:543`); a malformed DHT answer ends the lookup it was for (`382-392`);
`History.dropped` counts cleared samples; a click on the dashboard hands `NaN` to the
detail page (`index.html:1310`), which stays empty; the page restored from the tray stays
behind its chip until that is clicked too; `select_torrent`, "Called by the JS frontend
when a torrent row is clicked" (`web_bridge.py:34-38`), is never called by this page, so
the peers and rates of a selected torrent (`WebUi`) reach nobody; the saver of settings
the window is given (`main_window.py:102`) is never called; a second desktop instance
started without a link takes the name of the first one's pipe; `download --tracker` with
an unknown scheme ends in a traceback.

## 6. What could follow

Proved so far: section 4. Left open, in the order it would be worth doing: that the
buckets divide the ids and only failed queries take a contact out of the table
(`FailedLeave`), for which the folds over buckets and answers would have to be written as
functions with lemmas of their own; `LookedAt` and `NearestAreAsked` on top of it; the
refinement `StreamIsChannel`, which needs a history of what was framed and the codec's
functions without recursion; the resume documents.

## 7. What is left out

The Qt views and `temp_git_main_window.py`, which the application does not open, charts,
themes and the Qt machinery, the format of log lines, the identifiers, the packaging and
the scripts: no protocol state. Within modelled parts, as the notes of `components` say:
byte counters and snapshots for display, the penalties of peers that supplied bad pieces,
cancel messages to losers of a race (their loss changes nothing, late copies are covered),
the allocation strategies of files, saving and loading the DHT's table, the printing
commands of the command line, the hash function itself (a block, piece or dictionary is
right or wrong) and the HTTP client library. Time is in ticks throughout.
