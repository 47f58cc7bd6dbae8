----------------------------- MODULE ChunkPacer -----------------------------
(***************************************************************************)
(* Paced chunk delivery in play(): the world reader queues a promise per   *)
(* chunk frame and the job that renders it, workers render in any order,   *)
(* the pacer takes the promises in the order they came and sends them in   *)
(* batches, and the client reader counts the client's acknowledgements.    *)
(* Dimension switches and reconfigurations go on beside it.  The gate of   *)
(* clientConn (module Reconfigure) is one variable here.                   *)
(*                                                                         *)
(* A dimension and a column are the data of a chunk; join counts the login *)
(* packets, so that a chunk can be told from one of an earlier level.      *)
(***************************************************************************)
EXTENDS Integers, Sequences, FiniteSets

CONSTANTS
    Dims, Columns, \* dimensions and chunk columns
    QueueCap,      \* capacity of renderQ and of jobs (128 in the code)
    SockBuf,       \* bound: packets on the way to the client
    MaxUnacked,    \* maxUnackedBatch
    MaxDesired,    \* bound: what the client asks for per tick
    MaxBudget,     \* maxChunksTick
    MaxChunks,     \* bound: chunk frames
    Scenarios,     \* the peers a session may have: see below
    None

\* What the code does not decide: whether the client acknowledges batches,
\* whether the session may end; and the bounds: where the world has the
\* player, the dimension switches, and the joins, the first one included.
Scenario == [acks : BOOLEAN, ends : BOOLEAN,
             dims : SUBSET Dims, columns : SUBSET Columns,
             switches : 0 .. 2, joins : 1 .. 2]

\* A chunk frame: its place in the world's order, and its level.
Chunk == [id : 1 .. MaxChunks, dim : Dims, join : 1 .. 2, col : Columns]

ASSUME NoneAssumption == None \notin Nat \cup Chunk

ASSUME BoundAssumption ==
    /\ QueueCap \in Nat \ {0} /\ SockBuf \in Nat \ {0}
    /\ MaxUnacked \in Nat \ {0} /\ MaxDesired \in Nat /\ MaxBudget \in Nat \ {0}
    /\ MaxChunks \in Nat /\ Scenarios \subseteq Scenario

VARIABLES
    rAt, frame,          \* the world reader: where it is, the chunk it queues
    renderQ,             \* chunks in the order of their frames
    jobs,                \* chunks no worker has rendered
    pAt, cur,            \* the pacer: where it is, the chunk it took
    budget, n,           \*   its batch: how many it may send, how many it sent
    unacked, desired,    \* the atomics of play
    fresh,               \* lastAck is younger than batchAckDeadline
    lost,                \* history: the batches a reset took out of unacked
    curDim, spawnCol, spawnPending,
    gate,                \* clientConn.phase: "play", "configuring", "rejoining"
    aAt,                 \* the client reader
    down, up,            \* packets to the client, packets from it
    client,              \* what the client has: see ClientState
    over,                \* play has returned: stop is closed, so is the socket
    placed,              \* the world has the player in a level
    chunks, switches, joins,
    sc                   \* the scenario, chosen once

reader == <<rAt, frame, placed, chunks, switches, joins>>
queues == <<renderQ, jobs>>
pacer == <<pAt, cur, budget, n>>
window == <<unacked, desired, fresh, lost>>
spot == <<curDim, spawnCol, spawnPending>>
peer == <<down, up, client>>
vars == <<reader, queues, pacer, window, spot, gate, aAt, peer, over, sc>>

Packet(type, val) == [type |-> type, val |-> val]

\* The level the world last put the player in, numbered.
Level == joins + switches

\* The client's level: its number, dimension and join, the chunks it holds (it
\* drops them with the level), the size of the batch it is in, and for the
\* join whether it has the ground it spawns on and its position syncs.
NewLevel(level, dim, join, col) ==
    [level |-> level, dim |-> dim, join |-> join, col |-> col, has |-> << >>,
     batch |-> None, ground |-> FALSE, syncs |-> 0]

Init ==
    /\ rAt = "read" /\ frame = None /\ renderQ = << >> /\ jobs = {}
    /\ pAt = "tick" /\ cur = None /\ budget = 1 /\ n = 0
    /\ unacked = 0 /\ desired = MaxDesired /\ fresh = TRUE /\ lost = 0
    /\ sc \in Scenarios
    /\ curDim \in sc.dims /\ spawnCol \in sc.columns /\ spawnPending = TRUE
    /\ gate = "play" /\ aAt = "read" /\ down = << >> /\ up = << >>
    /\ client = NewLevel(1, curDim, 1, spawnCol)
    /\ over = FALSE /\ placed = TRUE
    /\ chunks = 0 /\ switches = 0 /\ joins = 1

\* clientConn.send: dropped between phases, an error once the socket is
\* closed, and blocked while the client does not read.
Blocked == ~over /\ gate = "play" /\ Len(down) = SockBuf
Failed == over /\ gate = "play"
Send(p) ==
    /\ ~Blocked
    /\ down' = IF over \/ gate # "play" THEN down ELSE Append(down, p)

----------------------------------------------------------------------------
(* The world reader.                                                       *)

Reading == rAt = "read" /\ ~over

\* MsgChunk.
ReadChunk ==
    /\ Reading /\ placed /\ chunks < MaxChunks
    /\ chunks' = chunks + 1
    /\ \E col \in sc.columns :
         frame' = [id |-> chunks', dim |-> curDim, join |-> joins, col |-> col]
    /\ rAt' = "queue"
    /\ UNCHANGED <<queues, pacer, window, spot, gate, aAt, peer, over, placed,
                   switches, joins>>

QueuePromise ==
    /\ rAt = "queue" /\ Len(renderQ) < QueueCap
    /\ renderQ' = Append(renderQ, frame)
    /\ rAt' = "job"
    /\ UNCHANGED <<jobs, pacer, window, spot, gate, aAt, peer, over, frame, placed,
                   chunks, switches, joins>>

QueueJob ==
    /\ rAt = "job" /\ Cardinality(jobs) < QueueCap
    /\ jobs' = jobs \cup {frame}
    /\ rAt' = "read" /\ frame' = None
    /\ UNCHANGED <<renderQ, pacer, window, spot, gate, aAt, peer, over, placed,
                   chunks, switches, joins>>

\* MsgDimension: curDim first, the respawn after it.
ReadDimension ==
    /\ Reading /\ placed /\ switches < sc.switches
    /\ switches' = switches + 1
    /\ \E dim \in sc.dims \ {curDim} : curDim' = dim
    /\ rAt' = "respawn"
    /\ UNCHANGED <<queues, pacer, window, spawnCol, spawnPending, gate, aAt, peer, over,
                   frame, placed, chunks, joins>>

SendRespawn ==
    /\ rAt = "respawn"
    /\ Send(Packet("respawn", [dim |-> curDim, level |-> Level]))
    /\ rAt' = "read"
    /\ UNCHANGED <<queues, pacer, window, spot, gate, aAt, up, client, over, frame, placed,
                   chunks, switches, joins>>

\* MsgStartConfiguration; the world has taken the player out of the level.
ReadStart ==
    /\ Reading /\ placed /\ joins < sc.joins /\ gate = "play"
    /\ Send(Packet("start_configuration", None))
    /\ gate' = "configuring" /\ placed' = FALSE
    /\ UNCHANGED <<queues, pacer, window, spot, aAt, up, client, over, rAt, frame, chunks,
                   switches, joins>>

\* MsgRejoin: the spawn is due again, and then the login.
ReadRejoin ==
    /\ Reading /\ ~placed /\ gate = "rejoining"
    /\ placed' = TRUE /\ joins' = joins + 1
    /\ curDim' \in sc.dims /\ spawnCol' \in sc.columns /\ spawnPending' = TRUE
    /\ rAt' = "login"
    /\ UNCHANGED <<queues, pacer, window, gate, aAt, peer, over, frame, chunks, switches>>

SendLogin ==
    /\ rAt = "login"
    /\ over \/ Len(down) < SockBuf
    /\ down' = IF over THEN down
               ELSE Append(down, Packet("login", NewLevel(Level, curDim, joins, spawnCol)))
    /\ gate' = "play" /\ rAt' = "read"
    /\ UNCHANGED <<queues, pacer, window, spot, aAt, up, client, over, frame, placed,
                   chunks, switches, joins>>

\* The connection is closed, or stop is.
ReaderExit ==
    /\ over /\ rAt \in {"read", "queue", "job"}
    /\ rAt' = "exit"
    /\ UNCHANGED <<queues, pacer, window, spot, gate, aAt, peer, over, frame, placed,
                   chunks, switches, joins>>

----------------------------------------------------------------------------
(* The workers and the pacer.                                              *)

Render ==
    /\ ~over
    /\ \E job \in jobs : jobs' = jobs \ {job}
    /\ UNCHANGED <<reader, renderQ, pacer, window, spot, gate, aAt, peer, over>>

\* Mutant: one batch too many.
TickLate ==
    /\ pAt = "tick" /\ ~over /\ renderQ # << >>
    /\ pAt' = IF unacked > MaxUnacked THEN "hold" ELSE "start"
    /\ UNCHANGED <<reader, queues, cur, budget, n, window, spot, gate, aAt, peer, over>>

\* A tick with chunks to send: hold for acknowledgements, or start a batch.
Tick ==
    /\ pAt = "tick" /\ ~over /\ renderQ # << >>
    /\ pAt' = IF unacked >= MaxUnacked THEN "hold" ELSE "start"
    /\ UNCHANGED <<reader, queues, cur, budget, n, window, spot, gate, aAt, peer, over>>

\* Batches the client was sent that the gateway has not counted back.
Outstanding ==
    Cardinality({i \in DOMAIN down : down[i].type = "finish"})
    + Cardinality({i \in DOMAIN up : up[i].type = "ack"})
    + (IF aAt = "release" THEN 1 ELSE 0)

\* Time passes: the newest acknowledgement (or the join) is batchAckDeadline
\* ago, whatever was sent since.
Expire ==
    /\ fresh /\ fresh' = FALSE
    /\ UNCHANGED <<reader, queues, pacer, unacked, desired, lost, spot, gate, aAt, peer, over>>

\* Within batchAckDeadline of the newest acknowledgement: the next tick.
Hold ==
    /\ pAt = "hold" /\ fresh
    /\ pAt' = "tick"
    /\ UNCHANGED <<reader, queues, cur, budget, n, window, spot, gate, aAt, peer, over>>

GiveUp ==
    /\ pAt = "hold" /\ ~fresh
    /\ pAt' = "reset"
    /\ UNCHANGED <<reader, queues, cur, budget, n, window, spot, gate, aAt, peer, over>>

\* Mutant: the session holds for ever.
HoldForGood ==
    /\ pAt = "reset"
    /\ pAt' = "tick"
    /\ UNCHANGED <<reader, queues, cur, budget, n, window, spot, gate, aAt, peer, over>>

\* The deadline is past: what is in flight is not waited for any more.
StopHolding ==
    /\ pAt = "reset"
    /\ unacked' = 0 /\ lost' = Outstanding
    /\ pAt' = "start"
    /\ UNCHANGED <<reader, queues, cur, budget, n, desired, fresh, spot, gate, aAt, peer, over>>

Clamp(d) == IF d < 1 THEN 1 ELSE IF d > MaxBudget THEN MaxBudget ELSE d

StartBatch ==
    /\ pAt = "start"
    /\ Send(Packet("start", None))
    /\ budget' = Clamp(desired) /\ n' = 0
    /\ pAt' = IF Failed THEN "exit" ELSE "drain"
    /\ UNCHANGED <<reader, queues, cur, window, spot, gate, aAt, up, client, over>>

Take ==
    /\ pAt = "drain" /\ n < budget /\ renderQ # << >>
    /\ cur' = Head(renderQ) /\ renderQ' = Tail(renderQ)
    /\ pAt' = "wait"
    /\ UNCHANGED <<reader, jobs, budget, n, window, spot, gate, aAt, peer, over>>

Drained ==
    /\ pAt = "drain" /\ (n >= budget \/ renderQ = << >>)
    /\ pAt' = "finish"
    /\ UNCHANGED <<reader, queues, cur, budget, n, window, spot, gate, aAt, peer, over>>

\* cur is rendered: its job was queued and a worker took it.
Rendered(c) == c \notin jobs /\ c # frame

\* Mutant: whatever dimension it is of.
CheckNothing ==
    /\ pAt = "wait" /\ Rendered(cur)
    /\ pAt' = "send"
    /\ UNCHANGED <<reader, queues, cur, budget, n, window, spot, gate, aAt, peer, over>>

\* The promise is kept: a chunk of another dimension is left out.
CheckDim ==
    /\ pAt = "wait" /\ Rendered(cur)
    /\ pAt' = IF cur.dim # curDim THEN "drain" ELSE "send"
    /\ UNCHANGED <<reader, queues, cur, budget, n, window, spot, gate, aAt, peer, over>>

\* A frame that does not decode, or stop: the pacer returns.  Where it
\* returns on an error, play returns too.
DecodeError ==
    /\ pAt = "wait" /\ Rendered(cur) /\ sc.ends
    /\ pAt' = "exit" /\ over' = TRUE
    /\ UNCHANGED <<reader, queues, cur, budget, n, window, spot, gate, aAt, peer>>

PacerStops ==
    /\ over /\ pAt \in {"tick", "wait"}
    /\ pAt' = "exit"
    /\ UNCHANGED <<reader, queues, cur, budget, n, window, spot, gate, aAt, peer, over>>

SendChunk ==
    /\ pAt = "send"
    /\ Send(Packet("chunk", cur))
    /\ pAt' = IF Failed THEN "exit" ELSE "sync"
    /\ UNCHANGED <<reader, queues, cur, budget, n, window, spot, gate, aAt, up, client, over>>

\* Mutant: the sync is sent with every chunk of the spawn column.
SyncAlways ==
    /\ pAt = "sync" /\ n' = n + 1
    /\ pAt' = IF cur.col = spawnCol THEN "position" ELSE "drain"
    /\ UNCHANGED <<reader, queues, cur, budget, window, spot, gate, aAt, peer, over>>

\* spawnSync's CompareAndSwap.
SpawnSync ==
    /\ pAt = "sync" /\ n' = n + 1
    /\ IF cur.col = spawnCol /\ spawnPending
       THEN pAt' = "position" /\ spawnPending' = FALSE
       ELSE pAt' = "drain" /\ UNCHANGED spawnPending
    /\ UNCHANGED <<reader, queues, cur, budget, window, curDim, spawnCol, gate, aAt, peer,
                   over>>

\* spawnSync's send; its error is not looked at.
SendPosition ==
    /\ pAt = "position"
    /\ Send(Packet("position", None))
    /\ pAt' = "drain"
    /\ UNCHANGED <<reader, queues, cur, budget, n, window, spot, gate, aAt, up, client, over>>

FinishBatch ==
    /\ pAt = "finish"
    /\ Send(Packet("finish", n))
    /\ pAt' = IF Failed THEN "exit" ELSE "count"
    /\ UNCHANGED <<reader, queues, cur, budget, n, window, spot, gate, aAt, up, client, over>>

CountBatch ==
    /\ pAt = "count"
    /\ unacked' = unacked + 1
    /\ pAt' = "tick" /\ cur' = None
    /\ UNCHANGED <<reader, queues, budget, n, desired, fresh, lost, spot, gate, aAt, peer, over>>

----------------------------------------------------------------------------
(* The client reader.                                                      *)

\* chunk_batch_received: the rate, and whether there is a batch to release.
\* If there is none, it answers one that a reset took out.
ReadAck ==
    /\ aAt = "read" /\ ~over /\ up # << >> /\ Head(up).type = "ack"
    /\ up' = Tail(up)
    /\ desired' = Head(up).val
    /\ IF unacked > 0
       THEN aAt' = "release" /\ UNCHANGED lost
       ELSE aAt' = "stamp" /\ lost' = IF lost > 0 THEN lost - 1 ELSE 0
    /\ UNCHANGED <<reader, queues, pacer, unacked, fresh, spot, gate, down, client, over>>

Release ==
    /\ aAt = "release"
    /\ unacked' = unacked - 1
    /\ aAt' = "stamp"
    /\ UNCHANGED <<reader, queues, pacer, desired, fresh, lost, spot, gate, peer, over>>

\* lastAck.
Stamp ==
    /\ aAt = "stamp"
    /\ fresh' = TRUE
    /\ aAt' = "read"
    /\ UNCHANGED <<reader, queues, pacer, unacked, desired, lost, spot, gate, peer, over>>

\* configuration_acknowledged, and the phase it starts: clientConn.configured.
ReadConfigured ==
    /\ aAt = "read" /\ ~over /\ up # << >> /\ Head(up).type = "configured"
    /\ up' = Tail(up)
    /\ gate' = "rejoining"
    /\ UNCHANGED <<reader, queues, pacer, window, spot, aAt, down, client, over>>

AckerExit ==
    /\ aAt = "read" /\ over
    /\ aAt' = "exit"
    /\ UNCHANGED <<reader, queues, pacer, window, spot, gate, peer, over>>

----------------------------------------------------------------------------
(* The Minecraft client, and the end of the session.                       *)

\* What a client makes of a packet.
After(c, p) ==
    CASE p.type = "start"    -> [c EXCEPT !.batch = 0]
      [] p.type = "chunk"    -> [c EXCEPT !.has = Append(@, p.val),
                                          !.batch = IF @ = None THEN None ELSE @ + 1,
                                          !.ground = @ \/ p.val.col = c.col]
      [] p.type = "finish"   -> [c EXCEPT !.batch = None]
      [] p.type = "position" -> [c EXCEPT !.syncs = @ + 1]
      [] p.type = "respawn"  -> [c EXCEPT !.dim = p.val.dim, !.level = p.val.level, !.has = << >>]
      [] p.type = "login"    -> p.val
      [] OTHER               -> c

ClientReads ==
    /\ down # << >> /\ ~over
    /\ down' = Tail(down)
    /\ client' = After(client, Head(down))
    /\ IF Head(down).type = "finish" /\ sc.acks
       THEN \E d \in {0, MaxDesired} : up' = Append(up, Packet("ack", d))
       ELSE up' = IF Head(down).type = "start_configuration"
                  THEN Append(up, Packet("configured", None)) ELSE up
    /\ UNCHANGED <<reader, queues, pacer, window, spot, gate, aAt, over>>

\* Another goroutine's error ends the session: play returns.
End ==
    /\ sc.ends /\ ~over
    /\ over' = TRUE
    /\ UNCHANGED <<reader, queues, pacer, window, spot, gate, aAt, peer>>

----------------------------------------------------------------------------
Reader == ReadChunk \/ ReadDimension \/ ReadStart \/ ReadRejoin
Queueing == QueuePromise \/ QueueJob \/ SendRespawn \/ SendLogin \/ ReaderExit
Pacer == \/ Tick \/ Hold \/ GiveUp \/ StopHolding \/ StartBatch \/ Take \/ Drained \/ CheckDim
         \/ PacerStops \/ SendChunk \/ SpawnSync \/ SendPosition \/ FinishBatch
         \/ CountBatch
Acker == ReadAck \/ Release \/ Stamp \/ ReadConfigured \/ AckerExit

\* Every goroutine waits for a frame, a packet or a chunk that need not come.
Idle == /\ rAt \in {"read", "exit"} /\ pAt \in {"tick", "exit"}
        /\ aAt \in {"read", "exit"}
        /\ over \/ (renderQ = << >> /\ jobs = {} /\ down = << >> /\ up = << >>)
        /\ UNCHANGED vars

Step == \/ Reader \/ Queueing \/ Render \/ Pacer \/ DecodeError \/ Acker
        \/ ClientReads \/ Expire \/ End \/ Idle

Next == Step /\ UNCHANGED sc

Spec == Init /\ [][Next]_vars

\* Goroutines run, the client reads, and time passes: batchAckDeadline is over
\* some time after the last acknowledgement.
FairSpec ==
    /\ Spec
    /\ WF_vars(Queueing /\ UNCHANGED sc) /\ WF_vars(Render /\ UNCHANGED sc)
    /\ WF_vars(Pacer /\ UNCHANGED sc) /\ WF_vars(Acker /\ UNCHANGED sc)
    /\ WF_vars(ClientReads /\ UNCHANGED sc) /\ WF_vars(Expire /\ UNCHANGED sc)

----------------------------------------------------------------------------
(* Properties.                                                             *)

\* The values every variable keeps to; the batch budget is at least one and
\* the queues stay within their capacity.
TypeOK ==
    /\ rAt \in {"read", "queue", "job", "respawn", "login", "exit"}
    /\ frame \in Chunk \cup {None}
    /\ renderQ \in Seq(Chunk) /\ Len(renderQ) <= QueueCap
    /\ jobs \subseteq Chunk /\ Cardinality(jobs) <= QueueCap
    /\ pAt \in {"tick", "hold", "reset", "start", "drain", "wait", "send", "sync",
                "position", "finish", "count", "exit"}
    /\ cur \in Chunk \cup {None} /\ budget \in 1 .. MaxBudget /\ n \in 0 .. budget
    /\ unacked \in Int /\ desired \in 0 .. MaxDesired /\ fresh \in BOOLEAN /\ lost \in Nat
    /\ curDim \in Dims /\ spawnCol \in Columns /\ spawnPending \in BOOLEAN
    /\ gate \in {"play", "configuring", "rejoining"} 
    /\ aAt \in {"read", "release", "stamp", "exit"}
    /\ over \in BOOLEAN /\ placed \in BOOLEAN
    /\ chunks \in 0 .. MaxChunks /\ switches \in 0 .. sc.switches /\ joins \in 1 .. sc.joins
    /\ sc \in Scenarios

\* Chunks reach the client in the order the world sent them, whichever worker
\* is done first ("the pacer consumes strictly in arrival order").
InArrivalOrder ==
    \A i, j \in DOMAIN client.has : i < j => client.has[i].id < client.has[j].id

\* chunk_batch_finished says how many chunks the batch had, of every batch that
\* began in the level the client is in.
BatchesCounted ==
    down # << >> /\ Head(down).type = "finish" =>
        Head(down).val = client.batch \/ (joins > 1 /\ client.batch = None)

\* The hold holds: besides the batches a reset gave up on, the client never has
\* more than maxUnackedBatch to mesh, however the reset races the release of
\* one (which takes the count below zero).
InFlightBounded == Outstanding <= MaxUnacked + lost

\* Pacing as the client sees it: the chunks of the world's order, in batches
\* counted right, no more of them in flight than the session waits for.
PacedInOrder == TypeOK /\ InArrivalOrder /\ BatchesCounted /\ InFlightBounded

\* "A client that is still meshing slows the stream instead of drowning": see
\* the README.
SlowsTheStream == Outstanding <= MaxUnacked

\* After a dimension switch or a rejoin the client gets one chunk of another
\* dimension at most, the one the pacer had in hand (the "stale chunk" check).
OneStray ==
    client.level = Level =>
        \A i, j \in DOMAIN client.has :
            client.has[i].dim # client.dim /\ client.has[j].dim # client.dim => i = j

\* The first join's position sync comes once, and after the ground under the
\* player's feet (spawnSync).  A rejoin's may be taken by a chunk of the level
\* before: see the README.
SyncedOnGround ==
    client.join = 1 => client.syncs <= 1 /\ (client.syncs = 1 => client.ground)

\* Every chunk frame of a level the player stays in gets to the client, even
\* to one that never acknowledges a batch ("must not leave the session
\* holding chunks forever").
ChunksArrive ==
    \A id \in 1 .. MaxChunks :
        (frame # None /\ frame.id = id /\ switches = sc.switches) ~>
            over \/ ~placed \/ \E i \in DOMAIN client.has : client.has[i].id = id

\* When the session is over the reader, the pacer and the client reader
\* return, wherever they are blocked.
GoroutinesReturn == over ~> (rAt = "exit" /\ pAt = "exit" /\ aAt = "exit")

\* Nothing waits forever: no chunk for the client, no goroutine for the end.
NothingStalls == ChunksArrive /\ GoroutinesReturn
=============================================================================
