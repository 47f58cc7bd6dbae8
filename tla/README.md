# Verification of tachyne-common

`tachyne-common` is the library behind the Minecraft gateways of the Tachyne project. A gateway
terminates the Java-edition protocol of one client, speaks the attach protocol to a world server
(a *pod*), and translates between the two; a world may be sharded, each pod owning some regions of
it, and a player who crosses a seam is handed from pod to pod behind an unchanged client
connection. This directory holds TLA+ modules of that code, TLC configurations that check them on
small instances, and TLAPS proofs for every value of the constants.

Contents: [the system](#the-system) · [the modules](#the-modules-and-the-code) ·
[the runs](#the-runs) · [fairness](#fairness) · [disagreements found](#disagreements-found) ·
[the proofs](#the-proofs) · [only model-checked](#only-model-checked) ·
[not modelled](#not-modelled) · [plan](#plan) · [running it](#running-it)

## The system

### A play session and its goroutines

Nearly all the concurrency is in one function, `play()` of `gwsession/session.go`. For one player
it runs:

| Goroutine | Loop | Writes to |
|---|---|---|
| world reader | reads attach frames of the pod, renders each into packets, starts and ends reconfigurations, dials the destination of a handover | client, pod |
| client reader | reads packets, lifts them into attach frames; runs `configure()` inside a reconfiguration | pod, and the client while configuring |
| keep-alive ticker | a challenge each interval; ends the session when the last one is unanswered | client |
| chunk workers | render queued chunk frames, in any order | promise channels |
| chunk pacer | sends rendered chunks in arrival order, in batches, as fast as the client acknowledges | client |
| `play` itself | waits for the first error of any of them, closes both ends | pod |

They share the client connection (`clientConn`, a mutex and a phase), the pod connection
(`attach.Backend`, a mutex around a connection that can be swapped), the chat state (`chatState`,
a mutex), atomics for the batch window and the spawn synchronisation, the chunk queues, and the
position of the player. Before `play()` there is a goroutine for each connection (`front.go`),
and these share two caches: the roster of the server-list ping and the verdicts of the access
service.

### Components

| Component | Source | State | Operations | What makes it correct |
|---|---|---|---|---|
| Client connection gate and reconfiguration | `gwsession/reconfigure.go`, `session.go` (`clientConn`, `configure`, parts of `play`) | phase, pending and current configuration, keep-alive challenge | send, startConfiguration, takeConfig, configure, configured, rejoin, keep-alive tick | no packet of one protocol state in the other; a player placed only once configured; a reconfiguration ends |
| Backend connection and rehoming | `attach/client.go`, `attach/attach.go` (`WriteFrame`), `session.go` (MsgRehome, MsgPing, MsgBye) | connection in force and its lock | Write, Get, Swap, Close, dialResume | frames whole; no write to a closed connection; the new pod knows what the old one knew; nothing left open |
| Chunk pacer and spawn synchronisation | `session.go` | queues, promises, batch window, dimension, owed position sync | queue, render, hold, batch, acknowledge, dimension switch, rejoin | order, pacing, no chunk lost, position after the ground, no goroutine left behind |
| Secure chat | `gwsession/securechat.go` | last-seen window, signature cache, global index, session and chain, command signatures, services keys | render, delete, ack, chat, command, session update, reset, load | an honest client is never kicked or refused; both mirrors agree |
| Shard map and entity-id lanes | `shard/shard.go` | the map of regions | Parse/Validate, ShardOf, Neighbours, NeighboursWithin, Canonical, Hash; MintEID, Minter | one owner per chunk; neighbours exact; the same hash everywhere; ids never meet |
| Player's place and view | `session.go` | chunk under the player, dimension, view distance, vehicle | move, teleport, passengers, vehicle, dimension, rejoin, rehome, client information | client, session and pod agree on the window |
| Entity view | `render770/entity.go`, `protocol/entity_substitute.go`, `session.go` | per-viewer baseline of each entity, the type the client was shown | Add, Move, Head, Remove, Reset, Tracked, metadata | no ghosts, bounded drift, metadata in the schema of the type shown |
| Screens and deeds | `session.go`, `gwsession/render.go`, `render770/`, `attach/` | the advancement tree and its index, open menus | one frame to packets, packets to one frame | the client shows what the world gave; the world hears what the player did |
| Server front | `gwsession/front.go`, `auth.go`, `proxyproto/` | one connection's protocol state | handshake, status ping, login, encryption | deadlines, fail-closed access, last words the client can read |
| Roster cache | `attach/client.go` (`StatusCache`) | last roster, its time | Get | one query at a time, last good answer kept |
| Access verdicts | `access/` | verdict cache | Check | fail-closed, bounded staleness |
| Protocol encoding and version translation | `protocol/` | tag and registry caches | remap, step up and down, configuration packets, tags | a client of each version reads what the world meant |
| Handover types | `handover/` | none | encode, decode | data only |
| Server icon, resource pack options, admin calls | `gwsession/respack.go`, `access/admin.go` | none | read, request | data only |

### How they interact

* Every packet to the client passes the gate, `clientConn.send`, which *drops* it, without an
  error, unless the phase is play. The one exception is `configure()`, which writes under no lock
  while the gate is shut. What a sender believes it sent and what the client got therefore differ
  during a reconfiguration: that is where most of the hazards are.
* A reconfiguration is a conversation of four parties. The world sends MsgStartConfiguration; the
  world reader shuts the gate and tells the client; the client acknowledges; the client reader
  configures it and reports MsgConfigured; the world sends MsgRejoin; the world reader reopens the
  gate with the login packet.
* A handover is started by the old pod (MsgRehome), carried out by the world reader (dial, hello
  with a resume token, swap, chat session again, MsgWant), while the client reader keeps writing.
* Chunks go world reader → jobs and renderQ → workers → pacer → gate → client, and come back as
  acknowledgements to the client reader.
* Chat state is written by both readers; its correctness is agreement with a mirror in the client
  that runs behind it by whatever is in flight. So it is with the entity view, the advancement tree
  and the menus: each composes the next packet against what the client *should* have.
* Every packet composed at the canonical version (770's layouts with 26.3's registries) goes
  through the translation chain to the client's version, and every packet read comes back through
  it. The registries, tags and recipes the numbers in it refer to were given in configuration.
* The shard map is not communicated at run time: pods and gateways each compute from their copy, and
  compare hashes.

### What is hard to test here

`PROJECT.json` lists the hazards line by line. The kinds that matter: gated packets that vanish
(interleavings of three senders with a phase change), locks held for one step of a two-step
operation (pong past the lock, configure without it), values read before and used after a blocking
call (dial, dimension check, chat session, access request), a deadline that nothing renews but an
acknowledgement (batch window),
mirrors kept in step by convention (signature cache, last-seen window, entity baselines,
advancement index), every goroutine blocked on another when a session ends, edges of rectangles
and of int32, and the translation tables, where a number is right or wrong only by the version of
the client, the nesting it stands in and the configuration it was sent under.

## The modules and the code

| Module | Models | Uses |
|---|---|---|
| `Reconfigure` | the gate, both readers around a reconfiguration, the ticker, the client and the world as peers | refines `PlayerConfig` |
| `PlayerConfig` | abstract: what a reconfiguration promises the world | |
| `MCReconfigure`, `ReconfigureProofs` | symmetry for TLC; theorems | `Reconfigure` |
| `Rehome`, `RehomeProofs` | `Backend` and the goroutines that write through it; theorems | |
| `ChunkPacer`, `MCChunkPacer`, `ChunkPacerProofs` | queues, workers, pacer, batch window, spawn sync; two scenarios; theorems | |
| `SecureChat`, `SecureChatProofs` | `chatState`, the services keys, and the client's mirror; theorems | |
| `Shard` | `shard.go`, and a map that grows a region at a time | |
| `Viewer` | the player's place, dimension and view as both readers move them | |
| `PlacementProofs` | theorems of both, where a player is and who owns the place | `Shard`, `Viewer` |
| `Entities`, `MCEntities`, `EntitiesProofs` | `EntityView`, stand-in types, the client's sums; theorems | |
| `FrontDoor`, `MCFrontDoor`, `FrontDoorProofs` | connections up to a session, the roster cache, the verdict cache, time; theorems | |
| `Screens`, `ScreensProofs` | sixteen screens, from the world's frames to what the client shows; theorems | `Deeds`; refines `Mirror` |
| `Deeds` | seven kinds of deeds, from what the player does to what the world hears | `Wire` |
| `Wire` | packets as names and labelled fields | |
| `Mirror` | abstract: each state shown, in order, none of the session's own making | |
| `Protocol`, `MCProtocol` | the three layers of package `protocol`, and what it promises | the next five |
| `Translate` | the chain of version steps: packet numbers, layouts, drops | |
| `Content` | registry ids, item stacks and components, metadata, particles, sections | `Registry` |
| `Registry` | one registry's table for one version: shift, stand-ins, the way back | |
| `DataPacks` | registries, tags and recipes of a configuration, with data packs and caches | `Pack` |
| `Pack` | the frames in which a world sends its data pack | |

Conventions shared by the modules. One goroutine has one program counter (`reader`, `at[g]`,
`rAt`, `pAt`, `aAt`, `todo[r]`), whose places are the points where another goroutine can come
between: a lock taken or released, a blocking channel operation, a socket write, an atomic.
Everything between two such points is one action. A channel or a connection is a sequence; a full
one blocks its writer. A definition next to an action with the same parameters and a slip in it
(`UngatedSend`, `OverlapsCorner`, `RehomeForgetful` ...) is not part of any specification; it
states a mistake that one of the properties tells apart from the code, and is put in the action's
place to see that it does. A next-state relation ends in an explicit stuttering step for the states
where the system rightly rests (`Over`, `Idle`, `Quiet`, `Settled`, `Rest`), so that TLC's deadlock
check stays on in every run.

### Reconfigure

`phase`, `pendingConfig` and `curConfig` are `clientConn.phase`, `clientConn.pendingConfig` and
play's `curConfig`; `kaPending` and `kaChallenge` are the atomics of the ticker; `reader` says whether the
client reader is in play's loop, inside `configure()` or about to report. `toClient`, `toGateway`,
`fromWorld` and `reports` are the four directions of the two connections. Packets are their
kind, the configuration they were composed from, and a number for keep-alives. `CcSend` is
`clientConn.send`: write in play, else nothing. The peers are external: a client that follows the
protocol, with a choice of when to read, move, answer or leave; and a world that keeps the contract
the doc comment of MsgStartConfiguration states (`Contract = TRUE`) or sends frames, requests and
rejoins whenever it likes (`FALSE`). With `Prompt`, keep-alive answers come within one interval.

Two granularities need a word. `send` is one step because it holds the lock; a full socket
disables it, so the writer blocks, and with it whoever wants the lock. `configure()` is
several steps, one for each packet it waits for, and its writes are not gated. What it has to say
at login, before the other goroutines exist, is the same code and not modelled twice.

### Rehome

`conn` and `lock` are `Backend`'s; `open` is the set of connections the gateway has not closed;
`wire[c]` is what was written to connection `c`, as units: `header` and `payload` of a frame (two
`Write` calls in `WriteFrame`), or `whole` for a pong (one). `at[g]` and `frame[g]` are each
goroutine's place and the frame it is sending, `got[g]` the connection it holds outside the lock.
Dialling succeeds or fails; the pod may close its end at any time. The client sends a chat session and
renews it, also while a handover runs: the swap, the world reader's look at `chat.current()` and its
`Write` are three steps, and the client reader's own look and `Write` two. `crossed` is a history variable: a
renewal came between the world reader's look and its `Write`, and the destination may have heard the older
session last.

### ChunkPacer

The world reader puts a promise into `renderQ` and the job into `jobs` in two separate steps, as the code
does; `Render` takes any job; the pacer's loop is Tick, Hold or GiveUp and StopHolding, StartBatch, Take,
CheckDim, SendChunk, SpawnSync, SendPosition, FinishBatch, CountBatch, split exactly where the client
reader or the world reader can move an atomic in between. `fresh` says that `lastAck` is younger than
`batchAckDeadline`: `Expire` takes it away at any time, and only an acknowledgement (`Stamp`, a step after
the one that lowers `unacked`) or the join gives it back; neither a batch sent nor the reset does, as in the
code. `lost` is a history variable: how many batches were in flight when the last reset took them out of
`unacked`. The gate is one variable, with the meaning
`Reconfigure` gives it. `client` is a record of what the client has made of the packets so far: the
chunks of its level, the batch it is counting, position syncs, whether it has ground under it. `sc` is
the scenario of a behaviour, chosen once: whether the client acknowledges (how soon is up to `Expire`), how
often the world switches dimension or reconfigures, whether the session may end.

### SecureChat

A signature is a number; a message is signed with its link of the chain and the last-seen list it
covers, which it therefore is not in, so it verifies when both agree with the gateway's; a checksum stands
for its list. `tracked` and `lastPending` are `lastSeenValidator`, `cache` is `sigCache` with its push order (an entry pushed
out, a known one moved up), `chain` is `chatChain` with its broken state. The client is the mirror a
vanilla client keeps: its own window, cache, chain and next index. `down` and `up` hold the packets
that are under way, so that either side judges with state the other has since changed. `keys` says
that the services keys have been fetched, which happens at any moment of a behaviour: until then
`enforce()` is false, sessions are ignored and unsigned chat goes through; after it, chat must be
signed.

### Shard

The functions one for one, on int32 arithmetic (`Int32` wraps sums and differences at a
width given by `MaxInt`), over a map that grows one region at a time, inserted anywhere in the list,
as long as `Validate` accepts it. `Canonical` is the *set* of orders that `sort.Slice`, which is not
stable, may return; that it is a singleton is a property. JSON and SHA-256 are left out: two
maps hash alike when their canonical lists are equal.

### Viewer

The session's `ccx`, `ccz`, `curDim`, `viewDist` and `myVehicle` are variables that both readers
write without a lock. A handler sets them and then goes on in four steps, as the code does: compose
the chunk centre, send it to the client, compose MsgWant, write it to the pod. `todo[r]` is what
reader `r` is in the middle of. The client reader runs `Move`, `ViewChange` and `Configured`; the world
reader `Teleport`, `Passengers`, `VehicleMoves`, `Dimension`, `StartConfiguration`, `Rejoin` and `Rehome`, each at
any point of a handler of the other reader. The client plays on until it acknowledges a configuration, and
a centre sent between the phases is dropped. `owed`
holds the world to its part: after a respawn it places the player. `tidy` is a history variable: two
handlers that cross may leave the client centred on one chunk and the pod streaming another, and
the property says that a handler that runs alone afterwards repairs it. `astray` is one too: the player was
handed over outside dimension 0 and has neither respawned nor joined since. One coordinate stands for
the two of a chunk.
`PlacementProofs` extends this module and `Shard`, so the operators here that a specification usually has
(`ViewInit`, `ViewNext`, `ViewSpec`, `ViewTypeOK`) carry the name of the module.

### Entities

`pos` and `sync` are `EntityView`'s maps, `entTypes` is `clientConn.entTypes`; `there` is what the
world in view has announced and `shown` what the client has. Positions count in parts of a delta
unit (1/4096 block), `Fine` parts to a unit, so that truncation loses something; one coordinate
stands for three. `OrdinaryMove` and `NoSyncMove` are the two halves of `EntityView.Move`; the resync
counter is kept modulo `SyncEvery`, of which the code only reads the remainder. `Dimension`, `Rejoin` and
`Rehome` are what the session does with the view in MsgDimension, MsgRejoin and a handover, where the
client keeps its level and everything rendered to it is destroyed by hand. `Rendered` maps a type to the
stand-in an old client is shown; metadata of an entity that goes by a stand-in is not sent.

### FrontDoor

One goroutine for each connection (`at` is where it waits, or for what), a connection deadline
(`left`), the roster's mutex (`holder`) and the verdict cache, for one player. A call to a service takes two
steps: the service decides, later the answer is read; in between the world and other connections
go on. Time passes in ticks, and a call or a read that is due ends before the next tick. The
gateway's options are chosen once (`Modes`): accounts authenticated or not, an access service or not, a
world or none.

### Screens, Deeds, Wire and Mirror

A screen is what the world keeps for the player: tab list, boss bar, effect, titles, scoreboard, team,
map, waypoint, default spawn, border, time, abilities, recipe book, ghost recipe, advancements, menu.
`board` is the world's state, a frame of it is rendered by the session into packets for the client's
`version` (operators named for the renderer: `BossBarPacket`, `TeamParams`, `AdvTree` ...), `net`
holds the packets under way, and the client reads each by the layout *its* version has, adding it to
`screen`. What it cannot read is `threw`. What the session remembers is little, and it is where
mistakes hide: `advTree` and `advReqs` (the tree of a join and its index of criteria), and `menus` (which
menu a window id stands for). The index outlives a MsgRejoin, so the tree of a rejoin is taken for an addition to
the one before unless the world marks it as a whole one, which it may or may not do here; `beside` is a history
variable, the advancements that are left standing beside the world's tree for that reason.

A deed goes the other way (`Deeds`): `Told` is what a vanilla client of a version sends of it, `Hears`
the client reader's switch with its parsers; what the world hears must be the deed, frame for frame:
keys and paddles, hands, blocks, clicks and creative slots, books and signs, requests, moves. A text has a
length in characters, which bounds what the client lets the player write, and one in bytes, which
the parsers bound: a book with a page or title beyond it is heard as nothing (`Heeded`).

Screens share no state with one another, nor do kinds of deeds, so each behaviour explores one
(`topic`). `Screens` refines `Mirror`, which knows only `said`, `owed` and `shown`: the mapping takes for
`owed` the states the packets under way will add up to, so a packet that leaves the client in a
state the world never gave, or in none, is a step `Mirror` does not have.

A packet is a name and labelled fields in wire order; a byte layout is the order of labels a version
reads. Versions 772, 775, 776 and 777 are the ones at which a modelled layout or rule changes.

### Protocol: Translate, Content, Registry, DataPacks

Package `protocol` promises that a client of any version reads what the world meant. It works in
three layers, and each hands the next whole packets at canonical ids; so `Protocol` composes the
modules as three layers explored one at a time (`layer`).

* `Translate`: a packet going up or down the chain 770 .. 777, one step per version. A step renumbers
  (`CbUp`, `SbDown`: the runs of ids that move together) and applies the rewriter registered under the id
  of the lower version, before renumbering on the way up and after it on the way down. A body is a
  sequence of named fields, each with the encoding it has now, and the one number in it that changes
  its meaning. What the reader at the end expects is stated from the protocol's side (`Reads`).
* `Registry`: the table of one registry and one version: `shift` is the binary search over runs,
  `reversed` the table inverted and sorted again, stand-ins for entries the client lacks. `Content` takes
  *every* table that short registries can have, and applies it at every nesting: slots, components
  in stacks in components, creative and clicked stacks on the way back, metadata by serializer,
  particles, block states, chunk palettes with the fluid count derived from them.
* `DataPacks`: configuration declares each dynamic registry as a list of names, and from then on an entry
  goes by its place. Tags, dialogs, dimension types, clocks, biomes, damage types, loom patterns and
  stonecutter rows are numbered that way, through data packs, reloads, reconfigurations, rejoins and
  other sessions that share the process's caches. The generated tables are samples of their rows.

## The runs

| Run | Module | Distinct states | Properties |
|---|---|---|---|
| `reconfigure` | MCReconfigure | 382 k | `HonestSurvive`, `ComposedFromClientConfig`, `KeepsPromise` (refinement of PlayerConfig), `Completes`, with peers that keep their contract |
| `rogue_world` | MCReconfigure | 177 k (symmetric) | `PlayGate`, `BothFollow`, `ConfigWritesAlone`, with a world that keeps none |
| `rehome` | Rehome | 502 k | `WritesArrive`, `PodKnowsSession`, `HandoversEnd` |
| `paced` | MCChunkPacer | 577 k | `PacedInOrder`, `OneStray`, `SyncedOnGround`, `NothingStalls` |
| `chat` | SecureChat | 3.5 M | `NeverKicked`, `MirrorsAgree`, `SignedInOrder` |
| `shard` | Shard | 281 k | `OneWriter`, `OwnersKept`, `NeighboursExact`, `OneTopology` |
| `entities` | MCEntities | 21 k | `NoGhosts`, `SeenWhereItIs`, `MetaFitsEntity`, `SmoothApproaches` |
| `front` | MCFrontDoor | 451 k | `LoginRight`, `CachesDated`, `NothingStale`, `ExchangesEnd` |
| `viewer` | Viewer | 147 k | `ViewAgrees` |
| `screens` | Screens | 275 k | `Readable`, `TreeIndexed`, `WindowAgrees`, `Mirrors` (refinement of Mirror) |
| `protocol` | MCProtocol | 369 k | `PacketsArrive`, `ContentRight`, `ReadBack`, `TagsRight`, `RegistriesRight`, `StationsAgree` |
| `painting_263` | Content | | `MetaRight`, violated: see below |

A property here is one promise, of which the module may state the parts: `BothFollow` is
`ClientFollows` and `ReaderFollows`; `WritesArrive` is `FramesIntact` and `WritesReachTheirPod`; and so on.
The type invariant of a module is checked with the promise nearest to it (`MirrorsAgree`,
`CachesDated`, `PacketsArrive` ...), that of the modules with a `Proofs` module of their
own is part of what is proved. What each says:

* `HonestSurvive`: no reconfiguration ends in a protocol error, and no session that is not
  reconfigured in a timeout, for a client and a world that keep to the protocol.
* `ComposedFromClientConfig`: the login and the tags fit the registries the client was configured with.
* `KeepsPromise`: the world places the player only in the configuration it last asked for.
* `PlayGate`, `BothFollow`, `ConfigWritesAlone`: neither end reads a packet of a protocol state it is not
  in; `configure()` writes beside nobody.
* `WritesArrive`: frames written through `Backend` stay whole, on a connection that is still open.
  `PodKnowsSession`: at rest the pod the player is on was told last of the current chat session, unless a
  renewal crossed the world reader's resume (disagreement 9). `HandoversEnd`: at the new
  pod, or with the session over; a pod told goodbye is closed.
* `PacedInOrder`: chunks in the world's order, batches counted right, and no more in flight than allowed but for
  those a deadline gave up on. `OneStray`: a level gets one chunk of another dimension at most, the one the
  pacer had in hand when the dimension changed. `SyncedOnGround`: the first position after the ground, once. `NothingStalls`: every chunk of a level
  arrives even if nothing is ever acknowledged, and at the end every goroutine returns.
* `NeverKicked`, `MirrorsAgree`, `SignedInOrder`: the client is never disconnected for its chat; an index
  packed by the gateway names the same signature in the client; what the world gets is in order, of
  one session after another, and a client that keeps time is not refused.
* `OneWriter`, `OwnersKept`, `NeighboursExact`, `OneTopology`: one owner for a chunk and one minter for an
  id; growing keeps owners; whom a pod hands over to and warms, chunk by chunk; one canonical list.
* `NoGhosts`, `SeenWhereItIs`, `MetaFitsEntity`, `SmoothApproaches`: the client has exactly the world's
  entities, where they are but for a bounded drift, with metadata of the type it shows; and an entity
  that may not be resynced gets nearer with every move.
* `LoginRight`: nobody enters without what the mode asks, and the last words are readable.
  `CachesDated`, `NothingStale`: a verdict or roster acted on is as young as its cache says, also when
  two requests overlap, and no roster gives way to an older one. `ExchangesEnd`: every exchange does.
* `ViewAgrees`: at rest client, session and pod mean the same window, unless two handlers crossed and
  none ran alone since; and the pod streams the client's dimension, unless a handover outside dimension 0
  led it astray (disagreement 6).
* `Readable`: a client reads every packet to its end and knows every number in it. `Mirrors`: see above.
  `TreeIndexed`: the index of criteria is that of the tree held, and the tree held is the one the client
  shows. `WindowAgrees`: an open window shows the world's data.
* `PacketsArrive`: a packet arrives with the fields, number and id its reader expects, and is dropped only
  if the reader has no notion of it. `ContentRight`: each id inside it shows what was sent. `ReadBack`:
  what a creative client says of a stack is what it saw. `TagsRight`, `RegistriesRight`,
  `StationsAgree`: tags, references, loom and stonecutter mean to the client what they mean to the world.

### Bounds, and why they are enough

* `reconfigure`, `rogue_world`: two registries and two tag sets tell "composed from the client's
  configuration" from "composed from any other"; two MsgStartConfiguration frames let a second
  request meet every step of the first; two further frames and two ticks let an ordinary packet and
  a keep-alive meet every phase; a socket of three packets lets a writer block with each kind of
  packet queued. Registries are symmetric in `rogue_world`, which has no liveness property; not in
  `reconfigure`, which has.
* `rehome`: two handovers, so that a connection swapped in is swapped out again; two chat sessions, so that
  the second renews the first at every step of a handover; one ping and one move, since each is
  written by a different goroutine and what is said of them is about pairs of frames.
* `paced`: three chunks in two columns with queues of capacity two, so that a queue fills and workers
  overtake; one dimension switch between any two of them; a window of one batch, and a deadline that passes
  whenever no acknowledgement is new, so that a hold gives way at once and again. The second
  scenario has a client that never acknowledges, two joins, and an end of the session with each
  goroutine blocked at each place.
* `chat`: window 2 (20 in the code), cache 2 (128): two messages or deletions over three signatures, with
  last-seen lists of up to two, wrap the window, fill the cache and push entries out; two chats and
  two sessions cross each other; two packets under way let each side be behind by two. Acknowledging
  after one message instead of 64 makes the acknowledgement meet everything else. The list may be 7
  long (4096), which is the room `ClientKept` asks for with two packets under way. Every signed message
  is in time (`Times`): with clocks that go back and keys that expire as well, or with a third message that
  meets what was pushed out, the run takes more than five minutes; there the theorems stand alone.
* `shard`: three regions of four lanes, the columns and rows chosen so that regions
  meet, touch at a corner, leave a gap of one and of two, and, at column 3 of an int32 whose
  greatest value is 3, overflow. Width 2 against `MaxInt` 3 stands for the code's last chunk column.
* `entities`: one entity, since entities do not interact (the proofs are for any number); three parts to
  a unit lose a remainder in either direction; 20 positions with a jump at 3 units and a limit of 4 let
  a move truncate, saturate and be absolute; three types of which one goes by a stand-in that is
  itself a type.
* `front`: two connections, so that one waits for the other's query or stores a verdict over the
  other's; deadlines of one tick for services against two for the client and for a verdict: an answer may
  come before, at and after each.
* `viewer`: three chunks, two dimensions and two view distances: two handlers that cross, and a third value
  for the one that repairs. Handovers happen in either dimension.
* `screens`: two frames under way, each screen with a few values that reach every branch of its renderer;
  the versions at which a layout or a rule changes; texts of one byte a character and of three, a page at its
  limit and one beyond it in bytes only. A tree that is never begun anew grows by what the world adds
  twice, so the session's is kept to four places (`Grown`), enough for each advancement twice.
* `protocol`: for `Translate` every clientbound and serverbound id of every version, so there is no
  bound but the numbers' ranges; for `Content` registries of four entries, which is enough for a run, an
  insertion, a removal and a stand-in side by side; for `DataPacks` packs with ids with and without
  namespace, entries that replace, that are new, and that are no JSON, and two configurations.

## Fairness

* `Reconfigure`: `GatewayFairness` is weak fairness of the two readers, the ticker and the read
  deadline: goroutines are scheduled, and the runtime delivers a deadline that was set.
  `PeerFairness` adds a client that keeps reading and answering, and a world that hears
  MsgConfigured and answers it with MsgRejoin. `Completes` needs both: the code cannot finish for a
  peer that is silent.
* `Rehome`: weak fairness of each goroutine while it is inside a handler (`Working`), not while it
  waits for a frame that may never come; of `ReadError`, since closing a connection ends its reader;
  and of `play`, which has only steps to take once a goroutine has reported.
* `ChunkPacer`: weak fairness of the goroutines, of the client's reading and of `Expire`: the acknowledgement
  deadline (2 s) passes in real time once no acknowledgement comes, whatever the pacer does meanwhile.
  World frames are not fair: the world may stop at any moment.
* `FrontDoor`: weak fairness of what the gateway and the services' timeouts do for a connection; strong
  fairness of the roster's lock for each waiter, since Go's mutex is handed over to one that has
  waited too long; strong fairness of time, since connections that come and go do not stop the
  clock. Of the clients nothing is expected.
* `Screens`: weak fairness of delivery, for the half of `Mirror` that says the client comes to the last
  state.

## Disagreements found

One is a run, whose only property quotes the repository and is violated by what the code does:

* `painting_263` (`protocol/paintingmeta.go:90`): the table of painting metadata (`:32`) has an entry for 776
  only, so a 26.3 client is handed the canonical index and serializer, although the comment says
  the metadata is rewritten "for the client's version".

Others the modules state as promises that no run checks, since the code does not keep them; put into
the configuration of their module's run, TLC shows each violated.

1. `NoFalseTimeout` (`Reconfigure`, `session.go:1683`): the ticker records its challenge as pending, then sends it
   through the gate. If a reconfiguration shuts the gate in between, the challenge is dropped with no
   error, nobody can answer it, and the next tick in play times the client out.
   Within a session that is not reconfigured this cannot happen (`HonestSurvive`).
2. `ConfigurationHasDeadline` (`Reconfigure`, `session.go:1739`): the ticker skips a client between phases because
   "the configuration phase has its own deadline". The deadline is set when the client acknowledges
   start_configuration; a client that keeps the connection and never acknowledges has neither.
   (Checked under `GatewayFairness` alone, because the claim is about silent clients.)
3. `StreamIntact` (`Rehome`, `session.go:1645`): a pong is written to `b.Get()`, past Backend's lock, and
   can land between the header and the payload of a frame the client reader is writing. Frames
   written through `Backend.Write` never mix (`WritesArrive`).
4. `NothingLeftOpen` (`Rehome`, `session.go:561`): `play` closes the connection in force when it returns. A world
   reader that is dialling at that moment swaps the destination's connection in afterwards, and
   nobody closes it. A pod that was told goodbye is always closed (`HandoversEnd`).
5. `SyncedOnGround` without its condition on the first join (`ChunkPacer`, `session.go:1351`): MsgRejoin
   marks the position sync as owed before the login packet reopens the gate. A chunk of the old level
   the pacer has in hand claims the sync in between, its position packet is dropped, and the new join is
   left without one. Marking it after `cc.rejoin` would do.
6. `InDimension` (`Viewer`, `session.go:1417`): after a handover the dimension is 0 whatever the welcome says, so
   one in another dimension asks the pod for the overworld's chunks and drops those it gets as stale,
   until the player respawns or joins again; `shard.go:73-74` has regions "apply to every dimension".
   `ViewAgrees` names the exception (`astray`) and says that there is no other.
7. `NothingBeside` (`Screens`, `session.go:1345`): the session keeps `advReqs` over a MsgRejoin, and the comments
   of `attach/entities.go:1016-1020` and `session.go:928` have the tree of a join come once. A world that
   sends it again without marking it as a whole one has it taken for an addition: the client goes on
   showing the advancements of the tree before. `Mirrors` and `TreeIndexed` say which (`beside`).
8. `WordsWhole` (`Screens`, `render770/parse.go:379,391`): the limits on pages and titles count bytes where
   the client counts characters, so a book with longer texts in another alphabet is dropped whole.
   `Mirrors` names the exception (`Heeded`); everything else a player writes is heard.
9. `PodKnowsNewest` (`Rehome`, `session.go:1412`): after a handover "only the destination world lacks the player's
   chat session", and the gateway means to tell it as the client's own update told the first
   (`session.go:1404-1411`). The world reader swaps the connection, looks at the session under the lock of
   the chat state and writes it after it. A renewal that comes in between is written by the client reader
   to the new pod already, and the older session over it: the pod then verifies the player's messages with
   a key that is no longer theirs, until the next renewal or handover. `PodKnowsSession` names the
   exception (`crossed`).
10. `SlowsTheStream` (`ChunkPacer`, `session.go:709`): "a client that is still meshing slows the stream instead of
   drowning" (`session.go:181-184,641-642`), as no more than `maxUnackedBatch` batches are in flight "before we
   hold" (`:187`). The deadline after which the session stops holding counts from the newest acknowledgement
   (`:709-712,1827`), and neither a batch sent nor the reset moves it. After two quiet seconds, which is any
   pause in the world's chunks, the next full window is given up at once, and every tick again until an
   acknowledgement comes, also for a client that acknowledges in time. `PacedInOrder` says what does hold: no
   more in flight than the window and what a reset gave up on (`lost`).

Further observations, not checked by a run:

* the dimension of a chunk is checked when it is taken (`session.go:739`); a respawn sent between the check
  and the write lets a chunk of the old level reach the new one.
* `attach/attach.go:169-171` says the gateway compares the topology hash of the welcome with its
  own at session start; nothing in `gwsession` reads it.
* `shard.go:70`: a region near the last int32 column has a far edge that wraps; `Validate` accepts it,
  and it contains no chunk. `OneWriter` and `OwnersKept` hold all the same; the neighbour properties
  are stated for maps whose edges and gaps fit (`Fits`).
* what the client does while the world reader dials goes to the old pod only (a chat session is carried over by
  the resume, see 9). A session sent before the services keys are there is ignored, and the
  player's signed chat is refused, once they are, until the client renews its session.
* a roster is served up to `StatusTTL` after its query ended, which began `QueryTimeout` before
  (`attach/client.go:128`). "At most once per StatusTTL" does not hold while the world is down: a failed query is
  not remembered (`:143`), each ping dials again, one at a time, and one that waits longer than its
  connection's deadline is answered into a closed connection.
* `recipebook.go:41` describes a replacing book where the code sends additions; a recipe's display id is the
  engine's, not the index `attach` speaks of.
* container_close carries no window id (as in vanilla); merchant offers pass through untouched for 770.
* `protocol`: components of an added item nested in a creative bundle are not mapped back; an absent key of
  a statistic goes by another's number; hashed components of a click are not translated (nor read); a body
  with both the golem's pose and its state is left alone; 775 gives two canonical components one id;
  sign_text_front is what an unknown component reads as before 777; the comment "the forward map is
  monotonic" does not hold for items, but the table is sorted again, which makes it right. A stand-in a
  creative client sends back is taken for the stand-in. The sulfur cube has no stand-in before 776.
* data packs: the pattern index of pots at 776 (`configextra.go:72`) and stonecutter rows whose stand-ins coincide
  (`stonecutter.go:59`, "the row must stay") go by canonical places; entries named before 26.x are not declared,
  which no served version meets (`MinServed` is 776); biomes and damage types a pack adds fall back to plains and
  generic; `configpackets.go:226` says "enchantment is never declared", and it is; a pack that replaces the
  `no_item_required` banner tag would part the loom from `LoomPatterns`.

## The proofs

| Theorem | Module | States |
|---|---|---|
| `TypeCorrect` | ReconfigureProofs | `Spec => []TypeOK` |
| `ConfigureAlone` | ReconfigureProofs | `Spec => []ConfigWritesAlone` |
| `GateHolds` | ReconfigureProofs | `Spec => []PlayGate` |
| `BothEndsFollow` | ReconfigureProofs | `Spec => []BothFollow` |
| `KeptInTime` | ReconfigureProofs | `Spec => []NoTimeoutInPlay` |
| `HonestSessionsSurvive` | ReconfigureProofs | `Contract` gives `Spec => []HonestSurvive` |
| `LoginsComposedRight` | ReconfigureProofs | `Contract` gives `Spec => []ComposedFromClientConfig` |
| `PromiseKept` | ReconfigureProofs | `Contract` gives `Spec => KeepsPromise`, the refinement of `PlayerConfig` |
| `WritesAlwaysArrive` | RehomeProofs | `Spec => []WritesArrive` |
| `PodHasSession` | RehomeProofs | at rest the pod was told of a chat session exactly when there is one |
| `PodKnowsCurrent` | RehomeProofs | `Spec => []PodKnowsSession` |
| `ChunksPaced` | ChunkPacerProofs | `Spec => []PacedInOrder` |
| `SpawnSynced` | ChunkPacerProofs | `Spec => []SyncedOnGround` |
| `StraysOnce` | ChunkPacerProofs | `Spec => []OneStray` |
| `ClientKept` | SecureChatProofs | `Roomy` gives `Spec => []NeverKicked` |
| `SignaturesInOrder` | SecureChatProofs | `Spec => []SignedInOrder` |
| `MirrorsKept` | SecureChatProofs | `Spec => []MirrorsAgree` |
| `ShardTyped`, `MapValid` | PlacementProofs | `Spec => []TypeOK`, `[]MapInv` |
| `ChunksHaveOneOwner` | PlacementProofs | `Spec => []OneOwner` |
| `IdsNeverMeet` | PlacementProofs | `Spec => []EidsApart` |
| `NothingHasTwoWriters` | PlacementProofs | `Spec => []OneWriter`, the two together |
| `GrowthKeepsOwners` | PlacementProofs | `Spec => OwnersKept`, an action property |
| `SeamsExact`, `ViewExact`, `AwareOfNeighbours` | PlacementProofs | Neighbours and NeighboursWithin against their definition chunk by chunk |
| `PeersExact` | PlacementProofs | `Spec => []NeighboursExact`, the three together |
| `TopologyIsOne` | PlacementProofs | `Spec => []OneTopology` |
| `ViewsAgree` | PlacementProofs | `Spec => []ViewAgrees` |
| `EntitiesTyped`, `EntitiesFollowed` | EntitiesProofs | `Spec => []TypeOK`, `[]Inv` |
| `NobodyLeftBehind` | EntitiesProofs | `Spec => []NoGhosts` |
| `SeenWithinDrift` | EntitiesProofs | `Spec => []SeenWhereItIs` |
| `NoForeignMetadata` | EntitiesProofs | `Spec => []MetaFitsEntity` |
| `SmoothConverges` | EntitiesProofs | `Spec => SmoothApproaches`, an action property |
| `LoginEarned` | FrontDoorProofs | `Spec => []LoginRight` |
| `CachesYoung` | FrontDoorProofs | `Spec => []CachesDated`, the type invariant included |
| `StaleNever` | FrontDoorProofs | `Spec => NothingStale`, two action properties |
| `ScreensTyped` | ScreensProofs | `Spec => []TypeOK` |
| `ScreensReadable` | ScreensProofs | `Spec => []Readable` |
| `WindowsAgree` | ScreensProofs | `Spec => []WindowAgrees` |
| `AdvancementsIndexed` | ScreensProofs | `Spec => []TreeIndexed` |
| `ScreensMirrored` | ScreensProofs | `Spec => M!Init /\ [][M!Next]_(M!vars)`, the refinement of `Mirror` but for its fairness |

### The gate

What makes a reconfiguration right is said of the next packet on a connection, which is not
inductive: reading it exposes the one behind. The strengthening says it of everything under way.
`Path(q, a, b)`: from state `a` a reader can take each packet of `q` where it stands in the protocol,
and is in state `b` then. The states are the client's (play, configuration, joining), the two loops of
the client reader, and the world reader's as the contract sees them. Then

    Dialogue == ConfigWritesAlone /\ ClientPath /\ ReaderPath /\ OneTurn /\ Pending

is inductive with `TypeOK`: what is on its way to the client leads from where the client is to where
the gateway takes it to be (`ClientPath`), what is on its way back leads from the loop the client reader
is in to the one the client has sent it to (`ReaderPath`), of the steps of a reconfiguration one is asked
or answered at a time and each in its stage (`OneTurn`), and a client that acknowledges finds a
configuration to load (`Pending`). `ConfigWritesAlone` belongs to it, since `configure()` writes past the
gate. `PlayGate` and `BothFollow` follow, for a world that keeps no contract, any socket size, and any
number of reconfigurations, frames and ticks.

The other four theorems add one conjunct each. `InTime`: in a session that was never reconfigured
nothing leaves play, and a challenge that is pending is on its way to the client or its answer on the way
back, so that an interval finds none pending (`KeptInTime`; no contract). The rest is about a world
that keeps the contract of the doc comment of MsgStartConfiguration (`Contract`, as in the run
`reconfigure`):

    Contracted == TypeOK /\ Dialogue /\ WorldTalk /\ Regs /\ Asked /\ NoProtocolError

`WorldTalk`: what is on its way from the world finds the world reader where the contract says (the third
use of `Path`), and the world hears of a reconfiguration once. `Regs`: whose registries the packets under way were
composed from; registries come before the end of a configuration, and what is composed in play before
the next start of one (`Before`, `Composed`). `Asked`: what the world asked for last is what the gateway
has, or will read. Then a step of `Reconfigure` is a step of `PlayerConfig` or none: the world's
MsgStartConfiguration is `Request`, the client's reading of the registries `Apply`, its MsgRejoin `Place`.

Assumptions: those `Reconfigure` states of its constants (`NoConfigAssumption`, `TagAssumption`,
`SwitchAssumption`, `BoundAssumption`).

### The shard map

    MapInv == TypeOK /\ NoOverlap(map.regions)

is what `Validate` establishes of each map, carried through growth (`InsertAtShape` says what
inserting a region does to a list). From it:

* no chunk is in two regions: two rectangles that cover one chunk have spans that meet on both axes,
  which `Overlaps` tests, and this holds with wrapped edges too, as both sides use the same edges;
* a new region changes no owned chunk's owner, as it would have to cover a chunk already covered;
* `Neighbours` is exact: an edge shared along at least a chunk (`Adjacent`) yields a pair of chunks
  side by side (`AdjacentBeside`) and the reverse (`BesideAdjacent`);
* `NeighboursWithin` is exact for every radius: the gap of two intervals is less than `n` exactly
  when a point of one is within `n` of a point of the other (`GapExact`), on both axes at once
  (`WithinExact`);
* ids: `MintEID` wraps at a power of two that the number of lanes divides (`WidthAssumption`, true of
  2^31 and 64), so an id keeps its lane modulo `MaxSIDs` (`LaneSurvives`) and `Minter` gives it back.

`TopologyIsOne` says that `Canonical` has one element, although `sort.Slice` is not stable, and the same one
for the list in any other order. On regions that do not overlap `LessRegion` is a total order (`LessOrder`),
since two with the same shard and corner would overlap. A sorted permutation exists (`CanonicalExists`: each
region goes to the place that as many come before) and there is only one (`CanonicalOnce`: at the first
place where two differ, the same elements would be counted differently on the two sides,
`PermutationCounts`).

The neighbour theorems use the condition `Fits` in their property: edges and gaps that do not
overflow.

### The entity view

None of the properties is inductive alone: that metadata fits needs the recorded type to be the
world's, and that an entity is seen where it is needs the baseline to be where the world has it.
`Followed(e)` says for one entity that client and world have it or neither, that it has a baseline with
the client within `sync[e] * (Fine - 1)` of it, that the type recorded is the world's and the type shown its
stand-in, that the baseline is exact if it may be resynced, and that its metadata is of the type shown;

    Inv == TypeOK /\ \A e \in EID : Followed(e)

is inductive. What a step leaves alone of an entity stays followed (`Kept`), so each action is a step about one
entity. A relative move adds at most `Fine - 1` to the drift, which is what truncation loses (the
lemmas of the section on arithmetic), and `sync` counts it; a move that must not be resynced moves
baseline and client by the same delta and loses nothing. The theorems hold for any entities, types,
stand-ins, unit, jump, limit and resync rate (`RenderedAssumption`, `UnitsAssumption`, `NoneAssumption`).

### The front door

    Inv == TypeOK /\ (\A c \in Conns : Good(conn[c], c)) /\ RosterDated /\ VerdictDated

`Good(r, c)` says of a connection in each place what the rest of its way relies on: `Timely`, its call has
not run past its limit, it holds the roster's lock exactly while it asks the world, and what the world told
it is no older than the roster held, because only the holder can have replaced that; `Earned`, the proof of
the account and the cipher it had to have by then, both ends in one cipher; `Dated`, an answer that is no
longer the service's was so since the request was made. `RosterDated` and `VerdictDated` give the caches the
slack that ageing leaves: a roster is at most a query older than it is held, and an untrue verdict was true
`AccessTTL` before it expires. `OneMoves` reduces a connection's step to the connection (the others see
nothing of it), `OneServes` does so for the steps that take or give back the lock, and `OlderGood` is the
tick, in which no call was due. The action properties are read off the invariant before the step. The
theorems hold for any number of connections, every mode and all timeouts and lifetimes with a request's
timeout below a verdict's lifetime (`TimesAssumption`: 5 s and 5 min in `access.go`; `NoneAssumption`).

### The view

    ViewInv == ViewTypeOK /\ Apart /\ AloneComposed /\ Agreed /\ InStep

`Agreed`, the part of `ViewAgrees` beside the types, speaks of a session at rest. Between rests a handler has composed a centre, sent it, composed a
Want: `AloneComposed` says that what a handler has composed so far is still true of the shared variables, if
it ran alone and the session is tidy or the handler tells everything, and the client is where it can be shown it
(`Shown`); `Apart`, that one marked as alone has no company, that in a tidy session every one is, and that no
handler is left when the client goes to its configuration; `InStep`, that the session's dimension is the
client's or the player was led astray. Any number of chunks, dimensions and view distances.

### The backend

    Inv == TypeOK /\ Places /\ Locked /\ Dialled /\ InForce /\ Streams

`Streams`: a header on a connection is followed by its payload, or the frame in the lock holder's hands is its
own, or the connection was closed. For that the lock is held from header to payload and the
connection in force does not change meanwhile (`Locked`), connections are new when they are dialled (`Dialled`)
and the one in force is open until play is done (`InForce`). `SessionKnown` adds who is about to tell the
pod in force of the chat session: its stream, a writer, or the world reader on its way to the resume.

`PodKnowsCurrent` adds `Newest`: a session the client reader is about to write is the newest; the world reader's
is too, or one crossed it, or it is being written while the newest waits for the lock behind it; and the pod
in force was told of the newest, or somebody is on the way. What is written last is heard last
(`HeardAppend`). Any number of handovers and sessions.

### The pacer

    Inv == Typed /\ OneStart /\ Window /\ Queued /\ Followed

The client is behind what the goroutines have sent. `Reaches(a, q, b, joins)` leads from its level `a`
through the packets `q` to the level `b` it will have, each batch end with the count the client has made, and
every level on the way with its chunks in order and its position synced once, after the ground. `Followed`:
the level the client will have is consistent with what the goroutines do: chunks still to come are newer
(`Newer`), its batch is the pacer's `n` (`Counted`), `spawnPending` says whether its position sync is out
(`Synced`), and it is in the session's dimension, with no stray chunk while the pacer has one in hand (`Settled`). `Queued` orders the queue, the chunk in the pacer's hands and the one in the world reader's; `Window`
counts the batches the client has not acknowledged, on the way and in the acknowledging reader's hands,
against `unacked` and what the last reset gave up on; `OneStart` says that one reconfiguration is under way at most. Any number of chunks,
joins and switches, any queue, socket, window and budget (`NoneAssumption`, `BoundAssumption`).

### Secure chat

    Inv == Typed /\ Handshake /\ Room /\ InStep /\ SessionHeld /\ Enforced /\ Due

Each end judges with state the other has since changed, so the invariant says what becomes of it once
everything under way is read. `InStep` (`Agree`): taking the acknowledgements under way, each of which fits
when its turn comes, makes of the gateway's list a list `t` (`LeadsTo`); reading the messages under way brings
the client to the end of `t`, to the last signature and the next index (`Brings`); and the client's window is a
stretch of `t`, but for messages it does not show and so cannot acknowledge (`Mirror`). `Handshake`: what is
on its way tells the phase, and which listener will read it, the client's own or the new one a login
makes. `SessionHeld`: the packets under way tell how the client signed before them and does now
(`SignsTo`), the session and the chain of the gateway are at that place, and what was accepted is
in order and ends there (`Ordered`, `Ends`), unless the client was out of time or its commands met
another tree (`Fair`). `Due` carries both exceptions along the packets.

`MirrorsKept` adds `Mirrored`: the packets under way make of the listener's cache the gateway's
(`CachesTo`), each packed against the cache it will meet (`Finds`). The step is `PushIsPushed`: the
gateway's loop and the client's push make the same cache. The loop's invariant is `Ahead`: after
`i` places the cache is the client's up to there and the old one beyond (`Filled`), and the queue holds, back to
front, what goes to the next places; once it is empty nothing moves any more (`Through`). It needs a cache in which nothing comes twice and no hole is
before an entry (`Proper`), and a message whose signatures are all different (`News`), which is why a
signature must not be in the list it covers; the push keeps the first. `Counted` bounds sessions and
keys by the number of sessions, for the type invariant.

`ClientKept` takes

    Roomy == Count + AckAfter + (AckAfter + 1) * InFlight <= MaxPending

since the list grows with what the client has not acknowledged, and a client acknowledges after `AckAfter` messages at
the latest. With the code's numbers (20, 64, 4096) that leaves 61 packets under way to a client that
keeps up; one that does not is what `maxPendingChats` is there for. The other theorems need no room. The
assumptions are `BoundAssumption` and `NullAssumption`; signatures, lists and sessions are unbounded.

### The screens

`ScreensReadable` is about packets that are on their way: `threw` changes when one is read, by the client's
layouts, long after it was composed. So the invariant speaks of all of them,

    Sound == threw = "nothing" /\ (topic # "menu" => every packet under way is Legible)

where `Legible(p)` is what `Deliver` asks of a packet, and each frame's lemma shows that what it composes
is: the labels it writes are the labels `Reads` expects of the version (`TeamLegible`, `SpawnLabels`,
`PlayerInfoAddLegible`), its numbers are the version's (`MapLegible`), its slot displays are laid out by the
version's table and no ingredient is air (`DisplayLaid`, `BookLegible`). A frame on which no client differs is
legible by its name (`PlainReads`). So the proof has one lemma for each screen and one for all deeds, and
`StepsAre` says that there are no other steps. Each loop of the model (`Kept`, `Once`, the folds of sequences) is used through a
lemma that says what it makes of any sequence (`KeptIs`, `OnceIs`, `FlatIs`), by induction over its places.

For a window, whether a data slot can be understood depends on the window that will be open when it is read.
`Trail(d, v, b, s, frames)`: `d` is what the client's screen will be after each of the packets under way, each
of them fits the screen it meets, and the last screen agrees with the window the world has open.

    MenuHeld == topic = "menu" => each frame is one packet, the session's menus are the world's, there is a Trail

`WindowsAgree` is its case of nothing under way, and `Sound` reads the fit of the packet delivered off its
first place. A player who closes the window breaks no trail: what follows falls on a closed screen until the
next window opens (`TrailCloses`).

    TreeHeld == Indexed /\ (topic = "advancements" => the tree held is the client's, or has in it what was announced)

gives `AdvancementsIndexed`. The frames between a tree and its progress are changes of the tree held, and
the index is made of the same tree as what is sent. What a rejoin leaves of the tree before is
`beside`, which has nothing of the world's tree in it.

`ScreensMirrored` is the refinement: the client shows the states the world gave, one after another, none
skipped and none of its own making. It says of the packets under way what they add up to,

    Along == \E g : Path(g, topic, version, screen, net) /\ g[Len(net)] = Showable(board)

where `g[i]` is what the client shows after `i` more frames and `Path` says that each frame, packet by packet
through the client's own reading (`Draw`), leads from one to the next. These are the states the refinement
mapping computes with its fold (`FramesAre`), so reading a frame is `Mirror`'s `Show` (`MirrorShows`), and a step of
the world is its `Say` as soon as the frames it sends lead from the old board to the new (`Mirrored`,
`MirrorSays`). That is one lemma for each operation: what the renderer writes for the version, what the client makes
of those labels, and that this is the board's change; the hard ones are those where one change is several
packets (`TitleMirrors`, a tab list entry with its optional actions, advancements that are cleared and sent
anew) and those where the client adds up what it has with what comes. Deeds go the other way: `DeedsHeard`
shows that the client reader's parsers make of every packet a client sends exactly the frame the deed
stands for, for each kind of deed and every version. The inductive invariant is

    Typed /\ TreeHeld /\ Formed /\ (topic # "menu" => Along)

with `Formed` for the shape of the boards whose parts the renderers look into, and `TreeHeld` because a change of
the tree is rendered from the tree the session holds. What the client shows for a board is `Showable(board)`:
what the world gave, in the version's terms, and the two exceptions `beside` and `Heeded`
(disagreements 7 and 8). A menu has no mirror, since player and world both
close it: what it promises is `WindowAgrees`.

The theorems hold for any clients, topics, number of frames under way and length of the tree. The assumptions are `ClientsAssumption`
(versions are numbers), `PendingAssumption` and `NoneAssumption` (the model value is none of the things it stands
for the absence of).

## Only model-checked

* Liveness, which the prover does not do under fairness: `Completes`, `HandoversEnd`, `NothingStalls`,
  `ExchangesEnd`, and the half of `Mirrors` that is about fairness.
* `Protocol`: `PacketsArrive`, `ContentRight`, `ReadBack`, `TagsRight`, `RegistriesRight`, `StationsAgree`. The
  layout layer has no constant that bounds it: TLC visits every packet of every version, and a proof would
  only do that again. The content layer walks stacks in stacks and searches tables, the packs layer numbers
  registries and tags by going through them, and what such a recursion computes for every input is an
  induction over data, which the prover cannot do.

## Not modelled

* The client's level but for its chunks' order and its entities: frames that render to one packet and
  that nobody remembers (sounds, particles, block changes, block entities, equipment, the stacks of a
  window). In the modules they are one action (`HandlePlayFrame`). Their bytes have oracles in the repository's
  tests.
* `handover/`: data types of the pods' mesh; the world pods' side of a handover is in another repository.
* The generated tables row by row: `Content` takes every table short registries can have and `DataPacks`
  samples of rows, so that a wrong row would not be found; how the rows are used would.
* Primitive encodings, NBT, compression, JSON; the text of a PROXY header; the icon, resource pack options,
  admin requests.
* Cryptography: a signature verifies or does not, a response fits or does not.
* A client that stops reading for good while a writer holds the client's lock: the ticker then neither sends
  nor times out (`session.go:1684`); that it is noticed is left to TCP.
* Crashes: nothing in this library is persisted, so a gateway that stops loses only its sessions.

## Plan

What was planned first is modelled: gate, connection, pacing, chat, map, then the view, entities, front
door, caches, screens, deeds and the translation. What is left:

1. The composition of `Rehome` with the gate: a handover during a reconfiguration.
2. Screens still missing: the stacks of an open window, merchant offers, command suggestions, dialogs.

## Running it

    tlc -workers 2 -config reconfigure.cfg MCReconfigure
    tlc -workers 2 -config protocol.cfg MCProtocol
    tlapm ReconfigureProofs.tla
    tlapm PlacementProofs.tla
    tlapm EntitiesProofs.tla
    tlapm FrontDoorProofs.tla
    tlapm RehomeProofs.tla
    tlapm ChunkPacerProofs.tla
    tlapm SecureChatProofs.tla
    tlapm ScreensProofs.tla

Every run ends within four minutes on two workers. `PROJECT.json` lists for each run its module,
configuration and properties, for each definition the source lines it models, and for each property
a slip in the code that it detects.
