-------------------------- MODULE ChunkPacerProofs --------------------------
(***************************************************************************)
(* Theorems about ChunkPacer, for every value of its constants: chunks     *)
(* reach the client in order, in batches counted right, no more in flight  *)
(* than allowed, and the first position sync after the ground.             *)
(*                                                                         *)
(* What the client has is behind what the goroutines have sent.  Reaches   *)
(* leads from the one to the other through the packets on the way, and the *)
(* invariant relates the goroutines to the level the client will have.     *)
(***************************************************************************)
EXTENDS ChunkPacer, FiniteSetTheorems, TLAPS

Up == [type : {"ack"}, val : 0 .. MaxDesired] \cup [type : {"configured"}, val : {None}]

Levels == [level : Nat, dim : Dims, join : 1 .. 2, col : Columns, has : Seq(Chunk),
           batch : Nat \cup {None}, ground : BOOLEAN, syncs : Nat]

Respawns == [dim : Dims, level : Nat]

Down == [type : {"start", "position", "start_configuration"}, val : {None}]
        \cup [type : {"chunk"}, val : Chunk] \cup [type : {"finish"}, val : Nat]
        \cup [type : {"respawn"}, val : Respawns] \cup [type : {"login"}, val : Levels]

\* A level with one chunk of another dimension at most.
OneOther(c) ==
    \A i, j \in DOMAIN c.has : c.has[i].dim # c.dim /\ c.has[j].dim # c.dim => i = j

\* What the properties ask of a level, and of a packet in it, when the world has
\* the player in this level or a later one.
Right(c, level) ==
    /\ c.level <= level /\ (c.level = level => OneOther(c))
    /\ \A i, j \in DOMAIN c.has : i < j => c.has[i].id < c.has[j].id
    /\ c.join = 1 => c.syncs <= 1 /\ (c.syncs = 1 => c.ground)
Fits(c, p, join) == p.type = "finish" => p.val = c.batch \/ (join > 1 /\ c.batch = None)

\* Reading q takes a client from level a to level b, each packet in its place.
Reaches(a, q, b, join, level) ==
    \E s \in [0 .. Len(q) -> Levels] :
        /\ s[0] = a /\ s[Len(q)] = b
        /\ \A i \in 1 .. Len(q) : s[i] = After(s[i - 1], q[i]) /\ Fits(s[i - 1], q[i], join)
        /\ \A i \in 0 .. Len(q) : Right(s[i], level)

-----------------------------------------------------------------------------
(* The invariant.                                                          *)

Typed ==
    /\ TypeOK
    /\ down \in Seq(Down) /\ up \in Seq(Up) /\ client \in Levels /\ IsFiniteSet(jobs)
    /\ pAt \in {"wait", "send", "sync", "position"} => cur \in Chunk
    /\ pAt \in {"wait", "send", "sync"} => n < budget
    /\ rAt \in {"queue", "job"} => frame \in Chunk
    /\ ~placed => joins < sc.joins

\* One reconfiguration at a time is under way, and only while the gate says so.
OneStart ==
    /\ \A i \in DOMAIN down :
          down[i].type = "start_configuration" =>
              /\ gate = "configuring"
              /\ \A j \in DOMAIN down : down[j].type = "start_configuration" => i = j
              /\ \A j \in DOMAIN up : up[j].type # "configured"
    /\ \A i \in DOMAIN up :
          up[i].type = "configured" =>
              /\ gate = "configuring"
              /\ \A j \in DOMAIN up : up[j].type = "configured" => i = j
    /\ rAt = "login" => gate = "rejoining" /\ joins > 1

\* Batches the client has not acknowledged are among those the pacer counts and
\* those a reset gave up on.
Counting == IF pAt = "count" THEN 1 ELSE 0
Window ==
    /\ Outstanding <= unacked + Counting + lost
    /\ unacked <= MaxUnacked
    /\ pAt \notin {"tick", "hold", "reset", "exit"} => unacked < MaxUnacked

\* The chunks to come are newer than one with this number.
Passed(id) ==
    /\ id <= chunks
    /\ \A j \in DOMAIN renderQ : id < renderQ[j].id
    /\ rAt = "queue" => id < frame.id

\* A packet sent now gets to the client.
Live == gate = "play" /\ ~over

Queued ==
    /\ \A i, j \in DOMAIN renderQ : i < j => renderQ[i].id < renderQ[j].id
    /\ \A j \in DOMAIN renderQ :
          renderQ[j].id <= chunks /\ (rAt = "queue" => renderQ[j].id < frame.id)
    /\ rAt = "queue" => frame.id = chunks
    /\ pAt \in {"wait", "send"} => Passed(cur.id)

\* The level c the client will have, beside what the goroutines are doing: its
\* chunks are older than those to come, its batch is the pacer's, its position
\* syncs are what spawnPending says, and a chunk of another dimension is in it or
\* in the pacer's hand, not both.
Newer(c) ==
    \A i \in DOMAIN c.has :
        Passed(c.has[i].id) /\ (pAt \in {"wait", "send"} => c.has[i].id < cur.id)
Counted(c) ==
    (Live /\ pAt \in {"drain", "wait", "send", "sync", "position", "finish"}) =>
        \/ c.batch = IF pAt = "sync" THEN n + 1 ELSE n
        \/ joins > 1 /\ c.batch = None
Synced(c) ==
    (Live /\ c.join = 1) =>
        /\ c.col = spawnCol
        /\ spawnPending => c.syncs = 0 /\ pAt # "position"
        /\ pAt = "position" => c.syncs = 0 /\ c.ground
        /\ pAt = "sync" /\ cur.col = c.col => c.ground

Settled(c) ==
    c.level = Level =>
        /\ c.dim = curDim
        /\ pAt = "send" /\ cur.dim # curDim => \A i \in DOMAIN c.has : c.has[i].dim = c.dim

Followed ==
    \E c \in Levels :
        Reaches(client, down, c, joins, Level) /\ Newer(c) /\ Counted(c) /\ Synced(c)
        /\ Settled(c)

Inv == Typed /\ OneStart /\ Window /\ Queued /\ Followed

-----------------------------------------------------------------------------
(* What a packet makes of a level.                                         *)

\* What a packet to the client can be, type by type.
LEMMA DownIs ==
    ASSUME NEW p \in Down
    PROVE  /\ p.type \in {"start", "position", "start_configuration", "chunk", "finish",
                          "respawn", "login"}
           /\ p.type = "chunk" => p.val \in Chunk
           /\ p.type = "finish" => p.val \in Nat
           /\ p.type = "respawn" => p.val \in Respawns
           /\ p.type = "login" => p.val \in Levels
<1> HIDE DEF Levels
<1> QED
  BY DEF Down

\* What each type of packet makes of a level (the client).
LEMMA AfterIs ==
    ASSUME NEW c \in Levels, NEW p \in Down
    PROVE  /\ p.type = "start" => After(c, p) = [c EXCEPT !.batch = 0]
           /\ p.type = "chunk" => After(c, p) =
                  [c EXCEPT !.has = Append(c.has, p.val),
                            !.batch = IF c.batch = None THEN None ELSE c.batch + 1,
                            !.ground = c.ground \/ p.val.col = c.col]
           /\ p.type = "finish" => After(c, p) = [c EXCEPT !.batch = None]
           /\ p.type = "position" => After(c, p) = [c EXCEPT !.syncs = c.syncs + 1]
           /\ p.type = "respawn" => After(c, p) =
                  [c EXCEPT !.dim = p.val.dim, !.level = p.val.level, !.has = << >>]
           /\ p.type = "login" => After(c, p) = p.val
           /\ p.type = "start_configuration" => After(c, p) = c
BY DEF After, Levels

\* A level that begins with a login or a respawn is a level.
LEMMA NewLevelTyped ==
    ASSUME NEW k \in Nat, NEW d \in Dims, NEW j \in 1 .. 2, NEW col \in Columns
    PROVE  NewLevel(k, d, j, col) \in Levels
BY DEF NewLevel, Levels

\* The fields of a level keep to their types.
LEMMA LevelFields ==
    ASSUME NEW c \in Levels
    PROVE  /\ c.level \in Nat /\ c.dim \in Dims /\ c.join \in 1 .. 2 /\ c.col \in Columns
           /\ c.has \in Seq(Chunk) /\ c.batch \in Nat \cup {None}
           /\ c.ground \in BOOLEAN /\ c.syncs \in Nat
BY DEF Levels

\* Whatever packet is read, the client has a level.
LEMMA AfterTyped ==
    ASSUME NEW c \in Levels, NEW p \in Down PROVE After(c, p) \in Levels
<1>1. CASE p.type = "chunk"
  <2>1. /\ Append(c.has, p.val) \in Seq(Chunk)
        /\ (IF c.batch = None THEN None ELSE c.batch + 1) \in Nat \cup {None}
        /\ (c.ground \/ p.val.col = c.col) \in BOOLEAN
    BY <1>1, DownIs, LevelFields
  <2> DEFINE has == Append(c.has, p.val)
             batch == IF c.batch = None THEN None ELSE c.batch + 1
             ground == c.ground \/ p.val.col = c.col
  <2>2. After(c, p) = [c EXCEPT !.has = has, !.batch = batch, !.ground = ground]
    BY <1>1, AfterIs
  <2> HIDE DEF has, batch, ground
  <2>3. has \in Seq(Chunk) /\ batch \in Nat \cup {None} /\ ground \in BOOLEAN
    BY <2>1 DEF has, batch, ground
  <2>4. QED
    BY <2>2, <2>3 DEF Levels
<1>2. CASE p.type = "login"
  BY <1>2, AfterIs, DownIs
<1>3. CASE p.type = "respawn"
  <2>1. p.val.dim \in Dims /\ p.val.level \in Nat /\ << >> \in Seq(Chunk)
    BY <1>3, DownIs DEF Respawns
  <2>2. After(c, p) = [c EXCEPT !.dim = p.val.dim, !.level = p.val.level, !.has = << >>]
    BY <1>3, AfterIs
  <2>3. QED
    BY <2>1, <2>2 DEF Levels
<1>4. CASE p.type = "start"
  <2>1. After(c, p) = [c EXCEPT !.batch = 0]
    BY <1>4, AfterIs
  <2>2. QED
    BY <2>1 DEF Levels
<1>5. CASE p.type = "finish"
  <2>1. After(c, p) = [c EXCEPT !.batch = None]
    BY <1>5, AfterIs
  <2>2. QED
    BY <2>1 DEF Levels
<1>6. CASE p.type = "position"
  <2>1. After(c, p) = [c EXCEPT !.syncs = c.syncs + 1]
    BY <1>6, AfterIs
  <2>2. PICK m \in Nat : m = c.syncs + 1
    BY LevelFields
  <2>3. After(c, p) = [c EXCEPT !.syncs = m]
    BY <2>1, <2>2
  <2>4. QED
    BY <2>3 DEF Levels
<1>7. CASE p.type = "start_configuration"
  BY <1>7, AfterIs
<1>8. QED
  BY <1>1, <1>2, <1>3, <1>4, <1>5, <1>6, <1>7, DownIs

\* What a packet leaves of a level, and what it changes.
LEMMA AfterFields ==
    ASSUME NEW c \in Levels, NEW p \in Down, NEW d, d = After(c, p)
    PROVE  /\ p.type \in {"start", "finish", "position", "respawn", "chunk"} =>
                  d.join = c.join /\ d.col = c.col
           /\ p.type \in {"start", "finish", "position", "chunk"} =>
                  d.level = c.level /\ d.dim = c.dim
           /\ p.type \in {"start", "finish", "position"} => d.has = c.has
           /\ p.type \in {"start", "finish", "respawn", "chunk"} => d.syncs = c.syncs
           /\ p.type \in {"start", "finish", "position", "respawn"} => d.ground = c.ground
           /\ p.type \in {"position", "respawn"} => d.batch = c.batch
           /\ p.type = "start" => d.batch = 0
           /\ p.type = "position" => d.syncs = c.syncs + 1
           /\ p.type = "respawn" =>
                  d.has = << >> /\ d.level = p.val.level /\ d.dim = p.val.dim
           /\ p.type = "chunk" =>
                  /\ d.has = Append(c.has, p.val)
                  /\ d.ground = (c.ground \/ p.val.col = c.col)
                  /\ d.batch = IF c.batch = None THEN None ELSE c.batch + 1
<1>1. CASE p.type = "start"
  <2>1. d = [c EXCEPT !.batch = 0]
    BY <1>1, AfterIs
  <2>2. QED
    BY <1>1, <2>1 DEF Levels
<1>2. CASE p.type = "finish"
  <2>1. d = [c EXCEPT !.batch = None]
    BY <1>2, AfterIs
  <2>2. QED
    BY <1>2, <2>1 DEF Levels
<1>3. CASE p.type = "position"
  <2>1. d = [c EXCEPT !.syncs = c.syncs + 1]
    BY <1>3, AfterIs
  <2>2. QED
    BY <1>3, <2>1 DEF Levels
<1>4. CASE p.type = "respawn"
  <2>1. d = [c EXCEPT !.dim = p.val.dim, !.level = p.val.level, !.has = << >>]
    BY <1>4, AfterIs
  <2>2. QED
    BY <1>4, <2>1 DEF Levels
<1>5. CASE p.type = "chunk"
  <2> DEFINE has == Append(c.has, p.val)
             batch == IF c.batch = None THEN None ELSE c.batch + 1
             ground == (c.ground \/ p.val.col = c.col)
  <2>1. d = [c EXCEPT !.has = has, !.batch = batch, !.ground = ground]
    BY <1>5, AfterIs
  <2> HIDE DEF has, batch, ground
  <2>2. /\ d.has = has /\ d.batch = batch /\ d.ground = ground
        /\ d.join = c.join /\ d.col = c.col /\ d.syncs = c.syncs
        /\ d.level = c.level /\ d.dim = c.dim
    BY <2>1 DEF Levels
  <2>3. QED
    BY <1>5, <2>2 DEF has, batch, ground
<1>6. QED
  BY <1>1, <1>2, <1>3, <1>4, <1>5

\* What is right of a level depends on six of its fields.
LEMMA SameRight ==
    ASSUME NEW c, NEW d, NEW level, Right(c, level), d.has = c.has, d.join = c.join,
           d.level = c.level, d.dim = c.dim, d.syncs = c.syncs,
           d.ground = c.ground
    PROVE  Right(d, level)
BY DEF Right, OneOther

-----------------------------------------------------------------------------
(* What is on the way grows at the tail and shrinks at the head.           *)

\* With nothing on its way the client has what it will have.
LEMMA ReachesNothing ==
    ASSUME NEW c \in Levels, NEW join, NEW level, Right(c, level)
    PROVE  Reaches(c, << >>, c, join, level)
<1> DEFINE s == [i \in 0 .. 0 |-> c]
<1>1. Len(<< >>) = 0 /\ 0 .. 0 = {0} /\ 1 .. 0 = {}
  OBVIOUS
<1>2. s \in [0 .. Len(<< >>) -> Levels] /\ s[0] = c
  BY <1>1
<1>3. QED
  BY <1>1, <1>2 DEF Reaches

\* A packet more on its way leads one level further (send).
LEMMA ReachesAppend ==
    ASSUME NEW q \in Seq(Down), NEW p \in Down, NEW a \in Levels, NEW b \in Levels, NEW join,
           NEW level, Reaches(a, q, b, join, level), Fits(b, p, join), Right(After(b, p), level)
    PROVE  Reaches(a, Append(q, p), After(b, p), join, level)
<1> DEFINE m == Len(q)
           r == Append(q, p)
<1>1. PICK s \in [0 .. m -> Levels] :
          /\ s[0] = a /\ s[m] = b
          /\ \A i \in 1 .. m : s[i] = After(s[i - 1], q[i]) /\ Fits(s[i - 1], q[i], join)
          /\ \A i \in 0 .. m : Right(s[i], level)
  BY DEF Reaches
<1>2. /\ m \in Nat /\ Len(r) = m + 1 /\ r[m + 1] = p
      /\ \A i \in 1 .. m : r[i] = q[i]
  OBVIOUS
<1> DEFINE u == [i \in 0 .. m + 1 |-> IF i = m + 1 THEN After(b, p) ELSE s[i]]
<1>3. u \in [0 .. Len(r) -> Levels]
  BY <1>2, AfterTyped
<1>4. u[0] = a /\ u[Len(r)] = After(b, p) /\ u[m] = b /\ \A i \in 0 .. m : u[i] = s[i]
  BY <1>1, <1>2
<1> HIDE DEF u, r
<1>5. ASSUME NEW i \in 1 .. Len(r)
      PROVE  u[i] = After(u[i - 1], r[i]) /\ Fits(u[i - 1], r[i], join)
  <2>1. CASE i = m + 1
    BY <1>2, <1>4, <2>1
  <2>2. CASE i \in 1 .. m
    BY <1>1, <1>2, <1>4, <2>2
  <2>3. QED
    BY <1>2, <2>1, <2>2
<1>6. \A i \in 0 .. Len(r) : Right(u[i], level)
  BY <1>1, <1>2, <1>4
<1>7. Reaches(a, r, After(b, p), join, level)
  BY <1>3, <1>4, <1>5, <1>6 DEF Reaches
<1>8. QED
  BY <1>7 DEF r

\* Once the first is read, the rest lead on from there.
LEMMA ReachesTail ==
    ASSUME NEW q \in Seq(Down), q # << >>, NEW a \in Levels, NEW b \in Levels, NEW join, NEW level,
           Reaches(a, q, b, join, level)
    PROVE  Reaches(After(a, Head(q)), Tail(q), b, join, level)
<1> DEFINE m == Len(q)
           r == Tail(q)
<1>1. PICK s \in [0 .. m -> Levels] :
          /\ s[0] = a /\ s[m] = b
          /\ \A i \in 1 .. m : s[i] = After(s[i - 1], q[i]) /\ Fits(s[i - 1], q[i], join)
          /\ \A i \in 0 .. m : Right(s[i], level)
  BY DEF Reaches
<1>2. /\ m \in Nat /\ m > 0 /\ Len(r) = m - 1 /\ Head(q) = q[1]
      /\ \A i \in 1 .. m - 1 : r[i] = q[i + 1]
  OBVIOUS
<1> DEFINE u == [i \in 0 .. m - 1 |-> s[i + 1]]
<1>3. u \in [0 .. Len(r) -> Levels]
  BY <1>2
<1>4. u[Len(r)] = b /\ \A i \in 0 .. m - 1 : u[i] = s[i + 1]
  BY <1>1, <1>2
<1>5. s[1] = After(s[0], q[1])
  BY <1>1, <1>2
<1>6. u[0] = After(a, Head(q))
  BY <1>1, <1>2, <1>4, <1>5
<1> HIDE DEF u, r
<1>7. ASSUME NEW i \in 1 .. Len(r)
      PROVE  u[i] = After(u[i - 1], r[i]) /\ Fits(u[i - 1], r[i], join)
  <2>1. /\ i + 1 \in 1 .. m /\ i - 1 \in 0 .. m - 1 /\ i \in 0 .. m - 1 /\ i \in 1 .. m - 1
        /\ (i + 1) - 1 = i /\ (i - 1) + 1 = i
    BY <1>2
  <2>2. s[i + 1] = After(s[i], q[i + 1]) /\ Fits(s[i], q[i + 1], join)
    BY <1>1, <2>1
  <2>3. u[i] = s[i + 1] /\ u[i - 1] = s[i] /\ r[i] = q[i + 1]
    BY <1>2, <1>4, <2>1
  <2>4. QED
    BY <2>2, <2>3
<1>8. \A i \in 0 .. Len(r) : Right(u[i], level)
  BY <1>1, <1>2, <1>4
<1>9. Reaches(After(a, Head(q)), r, b, join, level)
  BY <1>3, <1>4, <1>6, <1>7, <1>8 DEF Reaches
<1>10. QED
  BY <1>9 DEF r

\* The level here is right, and so is the next packet in it.
LEMMA ReachesHere ==
    ASSUME NEW q \in Seq(Down), NEW a \in Levels, NEW b \in Levels, NEW join, NEW level,
           Reaches(a, q, b, join, level)
    PROVE  Right(a, level) /\ Right(b, level) /\ (q # << >> => Fits(a, Head(q), join))
<1> DEFINE m == Len(q)
<1>1. PICK s \in [0 .. m -> Levels] :
          /\ s[0] = a /\ s[m] = b
          /\ \A i \in 1 .. m : s[i] = After(s[i - 1], q[i]) /\ Fits(s[i - 1], q[i], join)
          /\ \A i \in 0 .. m : Right(s[i], level)
  BY DEF Reaches
<1>2. m \in Nat /\ (q # << >> => m > 0 /\ Head(q) = q[1])
  OBVIOUS
<1>3. m > 0 => Fits(s[1 - 1], q[1], join)
  BY <1>1, <1>2
<1>4. QED
  BY <1>1, <1>2, <1>3

\* A later join or level asks no more of the packets on the way.
LEMMA ReachesLater ==
    ASSUME NEW a, NEW q, NEW b, NEW j \in Nat, NEW k \in Nat, j <= k,
           NEW l \in Nat, NEW m \in Nat, l <= m, Reaches(a, q, b, j, l)
    PROVE  Reaches(a, q, b, k, m)
<1>1. PICK s \in [0 .. Len(q) -> Levels] :
          /\ s[0] = a /\ s[Len(q)] = b
          /\ \A i \in 1 .. Len(q) : s[i] = After(s[i - 1], q[i]) /\ Fits(s[i - 1], q[i], j)
          /\ \A i \in 0 .. Len(q) : Right(s[i], l)
  BY DEF Reaches
<1>2. \A i \in 1 .. Len(q) : Fits(s[i - 1], q[i], k)
  BY <1>1 DEF Fits
<1>3. ASSUME NEW i \in 0 .. Len(q) PROVE Right(s[i], m)
  <2>1. Right(s[i], l) /\ s[i].level \in Nat
    BY <1>1, LevelFields
  <2>2. QED
    BY <2>1 DEF Right
<1>4. QED
  BY <1>1, <1>2, <1>3 DEF Reaches

-----------------------------------------------------------------------------
(* Types.                                                                  *)

\* The fields of the scenario keep to their types.
LEMMA ScenarioFields ==
    ASSUME TypeOK
    PROVE  /\ sc.dims \subseteq Dims /\ sc.columns \subseteq Columns
           /\ sc.switches \in Nat /\ sc.joins \in 1 .. 2
BY BoundAssumption DEF TypeOK, Scenario

\* The levels are counted from one.
LEMMA LevelTyped == ASSUME TypeOK PROVE Level \in Nat
<1>1. joins \in Nat /\ switches \in Nat
  BY ScenarioFields DEF TypeOK
<1>2. QED
  BY <1>1 DEF Level

\* The packets the goroutines send, typed.
LEMMA Packets ==
    /\ \A type \in {"start", "position", "start_configuration"} :
          Packet(type, None) \in Down /\ Packet(type, None).type = type
    /\ \A c \in Chunk : /\ Packet("chunk", c) \in Down /\ Packet("chunk", c).type = "chunk"
                        /\ Packet("chunk", c).val = c
    /\ \A k \in Nat : /\ Packet("finish", k) \in Down /\ Packet("finish", k).type = "finish"
                      /\ Packet("finish", k).val = k
    /\ \A l \in Respawns : /\ Packet("respawn", l) \in Down
                           /\ Packet("respawn", l).type = "respawn"
                           /\ Packet("respawn", l).val = l
    /\ \A c \in Levels : /\ Packet("login", c) \in Down /\ Packet("login", c).type = "login"
                         /\ Packet("login", c).val = c
    /\ \A d \in 0 .. MaxDesired : Packet("ack", d) \in Up /\ Packet("ack", d).type = "ack"
    /\ Packet("configured", None) \in Up /\ Packet("configured", None).type = "configured"
<1> HIDE DEF Levels, Chunk, Respawns
<1> QED
  BY DEF Packet, Down, Up

\* The respawn of a dimension switch among them.
LEMMA RespawnPacket ==
    ASSUME TypeOK
    PROVE  LET p == Packet("respawn", [dim |-> curDim, level |-> Level])
           IN p \in Down /\ p.type = "respawn" /\ p.val.dim = curDim /\ p.val.level = Level
<1>1. [dim |-> curDim, level |-> Level] \in Respawns
  BY LevelTyped DEF TypeOK, Respawns
<1>2. QED
  BY <1>1, Packets

\* A packet through the gate leaves a sequence of packets.
LEMMA SendTyped ==
    ASSUME down \in Seq(Down), NEW p \in Down, Send(p) PROVE down' \in Seq(Down)
BY DEF Send

\* The packets on the way, in both directions.
Traffic == down \in Seq(Down) /\ up \in Seq(Up) /\ client \in Levels

\* No step puts anything but packets on the connection.
LEMMA TrafficNext == ASSUME Typed, Step PROVE Traffic'
<1> USE DEF Typed, Traffic
<1>1. CASE StartBatch \/ SendPosition
  <2>1. \E p \in Down : Send(p)
    BY <1>1, Packets DEF StartBatch, SendPosition
  <2>2. QED
    BY <1>1, <2>1, SendTyped DEF StartBatch, SendPosition
<1>2. CASE SendChunk
  <2>1. Packet("chunk", cur) \in Down
    BY <1>2, Packets DEF SendChunk
  <2>2. QED
    BY <1>2, <2>1, SendTyped DEF SendChunk
<1>3. CASE FinishBatch
  <2>1. Packet("finish", n) \in Down
    BY Packets DEF TypeOK
  <2>2. QED
    BY <1>3, <2>1, SendTyped DEF FinishBatch
<1>4. CASE SendRespawn \/ ReadStart
  <2>1. \E p \in Down : Send(p)
    BY <1>4, Packets, RespawnPacket DEF SendRespawn, ReadStart
  <2>2. QED
    BY <1>4, <2>1, SendTyped DEF SendRespawn, ReadStart
<1>5. CASE SendLogin
  <2>1. Packet("login", NewLevel(Level, curDim, joins, spawnCol)) \in Down
    BY Packets, NewLevelTyped, ScenarioFields, LevelTyped DEF TypeOK
  <2>2. QED
    BY <1>5, <2>1 DEF SendLogin
<1>6. CASE ReadAck \/ ReadConfigured
  <2>1. up' = Tail(up) /\ up # << >> /\ down' = down /\ client' = client
    BY <1>6 DEF ReadAck, ReadConfigured
  <2>2. QED
    BY <2>1
<1>7. CASE ClientReads
  <2>1. Head(down) \in Down /\ Tail(down) \in Seq(Down)
    BY <1>7 DEF ClientReads
  <2>2. client' \in Levels
    BY <1>7, <2>1, AfterTyped DEF ClientReads
  <2>3. up' = up \/ \E p \in Up : up' = Append(up, p)
    <3>1. \A d \in {0, MaxDesired} : d \in 0 .. MaxDesired
      BY BoundAssumption
    <3>2. QED
      BY <1>7, <3>1, Packets DEF ClientReads
  <2>4. QED
    BY <1>7, <2>1, <2>2, <2>3 DEF ClientReads
<1>8. CASE ~(StartBatch \/ SendPosition \/ SendChunk \/ FinishBatch \/ SendRespawn
             \/ ReadStart \/ SendLogin \/ ReadAck \/ ReadConfigured \/ ClientReads)
  <2>1. UNCHANGED <<down, up, client>>
    BY <1>8 DEF Step, Reader, Queueing, Pacer, Acker, ReadChunk, ReadDimension, ReadRejoin,
                QueuePromise, QueueJob, ReaderExit, Render, Tick, Hold, GiveUp, StopHolding, Take,
                Drained, CheckDim, PacerStops, SpawnSync, CountBatch, DecodeError, Release,
                Stamp, Expire, AckerExit, End, Idle, peer, vars
  <2>2. QED
    BY <2>1
<1>9. QED
  BY <1>1, <1>2, <1>3, <1>4, <1>5, <1>6, <1>7, <1>8

\* Who writes what.
LEMMA Frames ==
    ASSUME Step
    PROVE  /\ \/ ReadChunk \/ QueuePromise \/ QueueJob \/ ReadDimension \/ SendRespawn
              \/ ReadStart \/ ReadRejoin \/ SendLogin \/ ReaderExit
              \/ UNCHANGED reader
           /\ QueuePromise \/ QueueJob \/ Render \/ Take \/ UNCHANGED queues
           /\ Pacer \/ DecodeError \/ UNCHANGED pacer
           /\ StopHolding \/ CountBatch \/ ReadAck \/ Release \/ Stamp \/ Expire
              \/ UNCHANGED window
           /\ ReadDimension \/ ReadRejoin \/ SpawnSync \/ UNCHANGED spot
           /\ ReadStart \/ SendLogin \/ ReadConfigured \/ gate' = gate
           /\ Acker \/ aAt' = aAt
           /\ DecodeError \/ End \/ over' = over
           /\ over => over'
<1> USE DEF reader, queues, pacer, window, spot, peer, vars
<1>1. CASE ReadChunk \/ QueuePromise \/ QueueJob \/ ReadDimension
  BY <1>1 DEF ReadChunk, QueuePromise, QueueJob, ReadDimension, Pacer, Acker
<1>2. CASE SendRespawn \/ ReadStart \/ ReadRejoin \/ SendLogin \/ ReaderExit
  BY <1>2 DEF SendRespawn, ReadStart, ReadRejoin, SendLogin, ReaderExit, Pacer, Acker
<1>3. CASE Render \/ DecodeError \/ ClientReads \/ Expire \/ End \/ Idle
  BY <1>3 DEF Render, DecodeError, ClientReads, Expire, End, Idle, Pacer, Acker
<1>4. CASE ReadAck \/ Release \/ Stamp \/ ReadConfigured \/ AckerExit
  BY <1>4 DEF ReadAck, Release, Stamp, ReadConfigured, AckerExit, Pacer, Acker
<1>5. CASE Tick \/ Hold \/ GiveUp \/ StopHolding \/ StartBatch \/ Take \/ Drained
  BY <1>5 DEF Tick, Hold, GiveUp, StopHolding, StartBatch, Take, Drained, Pacer, Acker
<1>6. CASE CheckDim \/ PacerStops \/ SendChunk \/ SpawnSync \/ SendPosition \/ FinishBatch
           \/ CountBatch
  BY <1>6 DEF CheckDim, PacerStops, SendChunk, SpawnSync, SendPosition, FinishBatch, CountBatch,
              Pacer, Acker
<1>7. QED
  BY <1>1, <1>2, <1>3, <1>4, <1>5, <1>6 DEF Step, Reader, Queueing, Pacer, Acker

\* The four parts of Typed that change together.
ReaderTyped ==
    /\ rAt \in {"read", "queue", "job", "respawn", "login", "exit"}
    /\ frame \in Chunk \cup {None} /\ placed \in BOOLEAN
    /\ chunks \in 0 .. MaxChunks /\ switches \in 0 .. sc.switches /\ joins \in 1 .. sc.joins
    /\ rAt \in {"queue", "job"} => frame \in Chunk
    /\ ~placed => joins < sc.joins
    /\ curDim \in Dims /\ spawnCol \in Columns /\ spawnPending \in BOOLEAN
QueuesTyped ==
    /\ renderQ \in Seq(Chunk) /\ Len(renderQ) <= QueueCap
    /\ jobs \subseteq Chunk /\ Cardinality(jobs) <= QueueCap /\ IsFiniteSet(jobs)
PacerTyped ==
    /\ pAt \in {"tick", "hold", "reset", "start", "drain", "wait", "send", "sync",
                "position", "finish", "count", "exit"}
    /\ cur \in Chunk \cup {None} /\ budget \in 1 .. MaxBudget /\ n \in 0 .. budget
    /\ pAt \in {"wait", "send", "sync", "position"} => cur \in Chunk
    /\ pAt \in {"wait", "send", "sync"} => n < budget
OthersTyped ==
    /\ unacked \in Int /\ desired \in 0 .. MaxDesired /\ fresh \in BOOLEAN /\ lost \in Nat
    /\ gate \in {"play", "configuring", "rejoining"}
    /\ aAt \in {"read", "release", "stamp", "exit"} /\ over \in BOOLEAN

\* Type correctness, goroutine by goroutine.
LEMMA TypedParts ==
    Typed <=> /\ ReaderTyped /\ QueuesTyped /\ PacerTyped /\ OthersTyped /\ Traffic
              /\ sc \in Scenarios
BY DEF Typed, TypeOK, ReaderTyped, QueuesTyped, PacerTyped, OthersTyped, Traffic

\* The world reader keeps its variables in their types.
LEMMA ReaderTypes == ASSUME Typed, Next PROVE ReaderTyped'
<1>1. /\ ReaderTyped /\ Step /\ sc' = sc /\ sc.dims \subseteq Dims /\ sc.columns \subseteq Columns
      /\ sc.switches \in Nat /\ sc.joins \in 1 .. 2
  BY ScenarioFields, TypedParts DEF Next, Typed
<1> USE BoundAssumption DEF ReaderTyped, Reading
<1>2. CASE ReadChunk
  <2>1. chunks' \in 1 .. MaxChunks /\ chunks' = chunks + 1
    BY <1>1, <1>2 DEF ReadChunk
  <2>2. frame' \in Chunk
    BY <1>1, <1>2, <2>1 DEF ReadChunk, Chunk
  <2>3. QED
    BY <1>1, <1>2, <2>1, <2>2 DEF ReadChunk, spot
<1>3. CASE QueuePromise \/ QueueJob \/ SendRespawn \/ ReaderExit
  BY <1>1, <1>3 DEF QueuePromise, QueueJob, SendRespawn, ReaderExit, spot
<1>4. CASE ReadDimension
  BY <1>1, <1>4 DEF ReadDimension
<1>5. CASE ReadStart
  BY <1>1, <1>5 DEF ReadStart, spot
<1>6. CASE ReadRejoin
  BY <1>1, <1>6 DEF ReadRejoin
<1>7. CASE SendLogin
  BY <1>1, <1>7 DEF SendLogin, spot
<1>8. CASE SpawnSync
  BY <1>1, <1>8 DEF SpawnSync, reader
<1>9. CASE UNCHANGED <<reader, spot>>
  BY <1>1, <1>9 DEF reader, spot
<1>10. QED
  BY <1>1, <1>2, <1>3, <1>4, <1>5, <1>6, <1>7, <1>8, <1>9, Frames
     DEF ReadDimension, ReadRejoin, SpawnSync

\* So do those who fill and empty renderQ, jobs and the promises.
LEMMA QueuesTypes == ASSUME Typed, Next PROVE QueuesTyped'
<1>1. /\ QueuesTyped /\ ReaderTyped /\ Step /\ Cardinality(jobs) \in Nat
  BY TypedParts, FS_CardinalityType DEF Next, QueuesTyped
<1> USE BoundAssumption DEF QueuesTyped
<1>2. CASE QueuePromise
  BY <1>1, <1>2 DEF QueuePromise, ReaderTyped
<1>3. CASE QueueJob
  <2>1. /\ IsFiniteSet(jobs \cup {frame})
        /\ Cardinality(jobs \cup {frame}) <= Cardinality(jobs) + 1
    <3>1. Cardinality(jobs \cup {frame}) = IF frame \in jobs THEN Cardinality(jobs)
                                           ELSE Cardinality(jobs) + 1
      BY <1>1, FS_AddElement
    <3>2. QED
      BY <1>1, <3>1, FS_AddElement
  <2>5. frame \in Chunk
    BY <1>1, <1>3 DEF QueueJob, ReaderTyped
  <2>2. jobs' = jobs \cup {frame} /\ renderQ' = renderQ /\ Cardinality(jobs) < QueueCap
    BY <1>3 DEF QueueJob
  <2>3. Cardinality(jobs') <= QueueCap
    BY <1>1, <2>1, <2>2, FS_CardinalityType
  <2>4. QED
    BY <1>1, <2>1, <2>2, <2>3, <2>5
<1>4. CASE Render
  <2>1. PICK job \in jobs : jobs' = jobs \ {job}
    BY <1>4 DEF Render
  <2>2. /\ IsFiniteSet(jobs') /\ Cardinality(jobs') <= Cardinality(jobs)
        /\ Cardinality(jobs') \in Nat /\ jobs' \subseteq Chunk
    BY <1>1, <2>1, FS_Subset, FS_CardinalityType
  <2>3. QED
    BY <1>1, <1>4, <2>2 DEF Render
<1>5. CASE Take
  <2>1. /\ renderQ # << >> /\ renderQ' = Tail(renderQ) /\ jobs' = jobs
    BY <1>5 DEF Take
  <2>2. renderQ' \in Seq(Chunk) /\ Len(renderQ') = Len(renderQ) - 1
    BY <1>1, <2>1
  <2>3. QED
    BY <1>1, <2>1, <2>2
<1>6. CASE UNCHANGED queues
  BY <1>1, <1>6 DEF queues
<1>7. QED
  BY <1>1, <1>2, <1>3, <1>4, <1>5, <1>6, Frames

\* So does the pacer.
LEMMA PacerTypes == ASSUME Typed, Next PROVE PacerTyped'
<1>1. PacerTyped /\ QueuesTyped /\ Step /\ desired \in 0 .. MaxDesired
  BY TypedParts DEF Next, OthersTyped
<1> USE BoundAssumption DEF PacerTyped
<1>2. CASE Tick \/ Hold \/ GiveUp \/ StopHolding \/ Drained \/ PacerStops \/ DecodeError
  BY <1>1, <1>2 DEF Tick, Hold, GiveUp, StopHolding, Drained, PacerStops, DecodeError
<1>3. CASE StartBatch
  BY <1>1, <1>3 DEF StartBatch, Clamp
<1>4. CASE Take
  <2>1. Head(renderQ) \in Chunk
    BY <1>1, <1>4 DEF Take, QueuesTyped
  <2>2. QED
    BY <1>1, <1>4, <2>1 DEF Take
<1>5. CASE CheckDim \/ SendChunk \/ SendPosition \/ FinishBatch
  BY <1>1, <1>5 DEF CheckDim, SendChunk, SendPosition, FinishBatch
<1>6. CASE SpawnSync
  BY <1>1, <1>6 DEF SpawnSync
<1>7. CASE CountBatch
  BY <1>1, <1>7 DEF CountBatch
<1>8. CASE UNCHANGED pacer
  BY <1>1, <1>8 DEF pacer
<1>9. QED
  BY <1>1, <1>2, <1>3, <1>4, <1>5, <1>6, <1>7, <1>8, Frames DEF Pacer

OfType(q, type) == {i \in DOMAIN q : q[i].type = type}

\* How many packets of a type are under way is a number.
LEMMA CountType ==
    ASSUME NEW S, NEW q \in Seq(S), NEW type
    PROVE  IsFiniteSet(OfType(q, type)) /\ Cardinality(OfType(q, type)) \in Nat
<1>1. IsFiniteSet(1 .. Len(q)) /\ OfType(q, type) \subseteq 1 .. Len(q)
  BY FS_Interval DEF OfType
<1>2. QED
  BY <1>1, FS_Subset, FS_CardinalityType

\* Batches not acknowledged: their ends on the way down, their acks up, and the
\* ack the client reader has in hand.
InFlight == Cardinality(OfType(down, "finish")) + Cardinality(OfType(up, "ack"))
Releasing == IF aAt = "release" THEN 1 ELSE 0

LEMMA OutstandingIs ==
    Outstanding = InFlight + Releasing /\ Outstanding' = InFlight' + Releasing'
BY DEF Outstanding, InFlight, Releasing, OfType

\* They are a number.
LEMMA OutstandingTyped ==
    ASSUME Typed PROVE InFlight \in Nat /\ Releasing \in {0, 1} /\ Outstanding \in Nat
<1>1. down \in Seq(Down) /\ up \in Seq(Up)
  BY DEF Typed
<1>2. Cardinality(OfType(down, "finish")) \in Nat /\ Cardinality(OfType(up, "ack")) \in Nat
  BY <1>1, CountType
<1>3. QED
  BY <1>2, OutstandingIs DEF InFlight, Releasing

\* So do the client reader and whoever moves the atomics.
LEMMA OthersTypes == ASSUME Typed, Next PROVE OthersTyped'
<1>1. OthersTyped /\ Step /\ up \in Seq(Up)
  BY TypedParts DEF Next, Traffic
<1>2. /\ desired' \in 0 .. MaxDesired /\ unacked' \in Int /\ fresh' \in BOOLEAN
      /\ lost' \in Nat
  <2>1. CASE CountBatch \/ Release
    BY <1>1, <2>1 DEF CountBatch, Release, OthersTyped
  <2>6. CASE Stamp \/ Expire
    BY <1>1, <2>6 DEF Stamp, Expire, OthersTyped
  <2>5. CASE StopHolding
    <3>1. lost' = Outstanding /\ unacked' = 0 /\ desired' = desired /\ fresh' = fresh
      BY <2>5 DEF StopHolding
    <3>2. Outstanding \in Nat
      BY OutstandingTyped
    <3>3. QED
      BY <1>1, <3>1, <3>2 DEF OthersTyped
  <2>2. CASE ReadAck
    <3>1. Head(up) \in Up /\ Head(up).type = "ack"
      BY <1>1, <2>2 DEF ReadAck
    <3>2. Head(up).val \in 0 .. MaxDesired
      BY <3>1 DEF Up
    <3>3. QED
      BY <1>1, <2>2, <3>2 DEF ReadAck, OthersTyped
  <2>3. CASE UNCHANGED window
    BY <1>1, <2>3 DEF window, OthersTyped
  <2>4. QED
    BY <1>1, <2>1, <2>2, <2>3, <2>5, <2>6, Frames
<1>3. gate' \in {"play", "configuring", "rejoining"}
  BY <1>1, Frames DEF ReadStart, SendLogin, ReadConfigured, OthersTyped
<1>4. aAt' \in {"read", "release", "stamp", "exit"}
  BY <1>1, Frames DEF Acker, ReadAck, Release, Stamp, ReadConfigured, AckerExit, OthersTyped
<1>5. over' \in BOOLEAN
  BY <1>1, Frames DEF DecodeError, End, OthersTyped
<1>6. QED
  BY <1>2, <1>3, <1>4, <1>5 DEF OthersTyped

\* No step takes a variable out of its type.
LEMMA TypedNext == ASSUME Typed, Next PROVE Typed'
<1>1. Traffic' /\ sc' \in Scenarios
  BY TrafficNext, TypedParts DEF Next
<1>2. ReaderTyped' /\ QueuesTyped' /\ PacerTyped' /\ OthersTyped'
  BY ReaderTypes, QueuesTypes, PacerTypes, OthersTypes
<1>3. QED
  BY <1>1, <1>2
     DEF Typed, TypeOK, ReaderTyped, QueuesTyped, PacerTyped, OthersTyped, Traffic

\* They are of their types to begin with.
LEMMA TypedInit == ASSUME Init PROVE Typed
<1>1. /\ sc \in Scenarios /\ sc.dims \subseteq Dims /\ sc.columns \subseteq Columns
      /\ sc.switches \in Nat /\ sc.joins \in 1 .. 2
  BY BoundAssumption DEF Init, Scenario
<1>2. ReaderTyped
  BY <1>1, BoundAssumption DEF Init, ReaderTyped
<1>3. OthersTyped
  <2>1. unacked = 0 /\ desired = MaxDesired /\ gate = "play" /\ aAt = "read" /\ over = FALSE
    BY DEF Init
  <2>2. MaxDesired \in 0 .. MaxDesired
    BY BoundAssumption
  <2>3. unacked \in Int /\ desired \in 0 .. MaxDesired /\ fresh \in BOOLEAN /\ lost \in Nat
    BY <2>1, <2>2 DEF Init
  <2>4. over \in BOOLEAN
    BY <2>1
  <2>5. QED
    BY <2>1, <2>3, <2>4 DEF OthersTyped
<1>4. QueuesTyped
  BY BoundAssumption, FS_EmptySet DEF Init, QueuesTyped
<1>5. PacerTyped
  BY BoundAssumption DEF Init, PacerTyped
<1>6. Traffic
  <2>1. 1 \in Nat /\ 1 \in 1 .. 2
    OBVIOUS
  <2>2. curDim \in Dims /\ spawnCol \in Columns
    BY <1>1 DEF Init
  <2>3. NewLevel(1, curDim, 1, spawnCol) \in Levels
    BY <2>1, <2>2, NewLevelTyped
  <2>4. QED
    BY <2>3 DEF Init, Traffic
<1>7. QED
  BY <1>1, <1>2, <1>3, <1>4, <1>5, <1>6, TypedParts

-----------------------------------------------------------------------------
(* One reconfiguration at a time.                                          *)

\* Start and its answer among the packets of a queue.
LEMMA StartKept ==
    ASSUME Typed, OneStart, gate' = gate \/ (gate' = "play" /\ gate = "rejoining"),
           up' = up,
           down' = down \/ \E p \in Down : p.type # "start_configuration"
                                        /\ down' = Append(down, p),
           rAt' = "login" => rAt = "login" /\ joins' = joins /\ gate' = gate
    PROVE  OneStart'
<1>1. /\ down \in Seq(Down)
      /\ \A i \in DOMAIN down' : down'[i].type = "start_configuration" =>
                                   i \in DOMAIN down /\ down'[i] = down[i]
  <2>1. CASE down' = down
    BY <2>1 DEF Typed
  <2>2. CASE down' # down
    <3>1. PICK p \in Down : p.type # "start_configuration" /\ down' = Append(down, p)
      BY <2>2
    <3>2. /\ Len(down') = Len(down) + 1 /\ down'[Len(down) + 1] = p /\ Len(down) \in Nat
          /\ \A i \in 1 .. Len(down) : down'[i] = down[i]
          /\ DOMAIN down' = 1 .. Len(down) + 1 /\ DOMAIN down = 1 .. Len(down)
      BY <3>1 DEF Typed
    <3>3. ASSUME NEW i \in DOMAIN down', down'[i].type = "start_configuration"
          PROVE  i \in DOMAIN down /\ down'[i] = down[i]
      <4>1. i \in 1 .. Len(down) \/ i = Len(down) + 1
        BY <3>2
      <4>2. QED
        BY <3>1, <3>2, <3>3, <4>1
    <3>4. QED
      BY <3>3 DEF Typed
  <2>3. QED
    BY <2>1, <2>2
<1>2. QED
  BY <1>1 DEF OneStart

\* No second start_configuration or answer to one comes to be under way.
LEMMA OneStartNext == ASSUME Typed, OneStart, Next PROVE OneStart'
<1> USE DEF OneStart
<1>1. /\ Step /\ down \in Seq(Down) /\ up \in Seq(Up)
  BY DEF Next, Typed
<1>2. CASE ReadStart
  <2>1. PICK p \in Down : p = Packet("start_configuration", None)
                          /\ p.type = "start_configuration"
    BY Packets
  <2>2. /\ gate = "play" /\ gate' = "configuring" /\ up' = up /\ ~over /\ rAt' = rAt
        /\ rAt = "read" /\ down' = Append(down, p)
    BY <1>2, <2>1 DEF ReadStart, Reading, Send
  <2>3. /\ Len(down') = Len(down) + 1 /\ down'[Len(down) + 1] = p /\ Len(down) \in Nat
        /\ \A i \in 1 .. Len(down) : down'[i] = down[i]
        /\ DOMAIN down' = 1 .. Len(down) + 1 /\ DOMAIN down = 1 .. Len(down)
    BY <1>1, <2>2
  <2>4. \A i \in DOMAIN down : down[i].type # "start_configuration"
    BY <2>2
  <2>5. \A i \in DOMAIN up : up[i].type # "configured"
    BY <2>2
  <2>6. \A i \in DOMAIN down' : down'[i].type = "start_configuration" => i = Len(down) + 1
    BY <2>3, <2>4
  <2>7. QED
    BY <2>2, <2>5, <2>6
<1>3. CASE SendLogin
  <2>1. PICK p \in Down : p = Packet("login", NewLevel(Level, curDim, joins, spawnCol))
                          /\ p.type = "login"
    BY Packets, NewLevelTyped, ScenarioFields, LevelTyped DEF Typed, TypeOK
  <2>2. /\ gate' = "play" /\ gate = "rejoining" /\ up' = up /\ rAt' = "read"
        /\ down' = down \/ down' = Append(down, p)
    BY <1>3, <2>1 DEF SendLogin
  <2>3. QED
    BY <2>1, <2>2, StartKept
<1>4. CASE ReadConfigured \/ ReadAck
  <2>1. /\ up # << >> /\ up' = Tail(up) /\ down' = down /\ rAt' = rAt /\ joins' = joins
    BY <1>4 DEF ReadConfigured, ReadAck, reader
  <2>2. /\ DOMAIN up' = 1 .. Len(up) - 1 /\ Len(up) \in Nat /\ DOMAIN up = 1 .. Len(up)
        /\ \A i \in 1 .. Len(up) - 1 : up'[i] = up[i + 1] /\ i + 1 \in 1 .. Len(up)
        /\ Head(up) = up[1] /\ 1 \in 1 .. Len(up)
    BY <1>1, <2>1
  <2>3. CASE ReadAck
    <3>1. gate' = gate
      BY <2>3 DEF ReadAck
    <3>2. ASSUME NEW i \in DOMAIN up', NEW j \in DOMAIN up',
                 up'[i].type = "configured", up'[j].type = "configured"
          PROVE  i = j
      <4>1. /\ i \in Nat /\ i + 1 \in DOMAIN up /\ up[i + 1].type = "configured"
            /\ j \in Nat /\ j + 1 \in DOMAIN up /\ up[j + 1].type = "configured"
        BY <2>2, <3>2
      <4>2. i + 1 = j + 1
        BY <4>1
      <4>3. QED
        BY <4>1, <4>2
    <3>3. QED
      BY <2>1, <2>2, <3>1, <3>2
  <2>4. CASE ReadConfigured
    <3>1. gate' = "rejoining" /\ up[1].type = "configured"
      BY <2>2, <2>4 DEF ReadConfigured
    <3>2. \A i \in DOMAIN up' : up'[i].type # "configured"
      BY <2>2, <3>1
    <3>3. \A i \in DOMAIN down : down[i].type # "start_configuration"
      BY <2>2, <3>1
    <3>4. QED
      BY <2>1, <3>1, <3>2, <3>3
  <2>5. QED
    BY <1>4, <2>3, <2>4
<1>5. CASE ClientReads
  <2>1. /\ down # << >> /\ down' = Tail(down) /\ gate' = gate /\ rAt' = rAt /\ joins' = joins
    BY <1>5 DEF ClientReads, reader
  <2>2. /\ DOMAIN down' = 1 .. Len(down) - 1 /\ Len(down) \in Nat /\ DOMAIN down = 1 .. Len(down)
        /\ \A i \in 1 .. Len(down) - 1 : down'[i] = down[i + 1] /\ i + 1 \in 1 .. Len(down)
        /\ Head(down) = down[1] /\ 1 \in 1 .. Len(down)
    BY <1>1, <2>1
  <2>3. ASSUME NEW i \in DOMAIN down', NEW j \in DOMAIN down',
               down'[i].type = "start_configuration", down'[j].type = "start_configuration"
        PROVE  i = j
    <3>1. /\ i \in Nat /\ i + 1 \in DOMAIN down /\ down[i + 1].type = "start_configuration"
          /\ j \in Nat /\ j + 1 \in DOMAIN down /\ down[j + 1].type = "start_configuration"
      BY <2>2, <2>3
    <3>2. i + 1 = j + 1
      BY <3>1
    <3>3. QED
      BY <3>1, <3>2
  <2>4. CASE down[1].type = "start_configuration"
    <3>1. PICK p \in Up : p = Packet("configured", None) /\ p.type = "configured"
      BY Packets
    <3>2. up' = Append(up, p)
      BY <1>5, <2>2, <2>4, <3>1 DEF ClientReads
    <3>3. /\ Len(up') = Len(up) + 1 /\ Len(up) \in Nat
          /\ \A i \in 1 .. Len(up) : up'[i] = up[i]
          /\ DOMAIN up' = 1 .. Len(up) + 1 /\ DOMAIN up = 1 .. Len(up)
      BY <1>1, <3>2
    <3>4. gate = "configuring" /\ \A i \in DOMAIN up : up[i].type # "configured"
      BY <2>2, <2>4
    <3>5. \A i \in DOMAIN down' : down'[i].type # "start_configuration"
      BY <2>2, <2>4
    <3>6. \A i \in DOMAIN up' : up'[i].type = "configured" => i = Len(up) + 1
      BY <3>3, <3>4
    <3>7. QED
      BY <2>1, <3>4, <3>5, <3>6
  <2>5. CASE down[1].type # "start_configuration"
    <3>1. \A i \in DOMAIN up' : up'[i].type = "configured" =>
                                   i \in DOMAIN up /\ up'[i] = up[i]
      <4>1. CASE up' = up
        BY <4>1
      <4>2. CASE up' # up
        <5>1. PICK d \in 0 .. MaxDesired : up' = Append(up, Packet("ack", d))
          BY <1>5, <2>2, <2>5, <4>2, BoundAssumption DEF ClientReads
        <5>2. Packet("ack", d) \in Up /\ Packet("ack", d).type = "ack"
          BY Packets
        <5> DEFINE p == Packet("ack", d)
        <5> HIDE DEF p
        <5>3. p \in Up /\ p.type = "ack" /\ up' = Append(up, p)
          BY <5>1, <5>2 DEF p
        <5>4. /\ Len(up') = Len(up) + 1 /\ Len(up) \in Nat /\ up'[Len(up) + 1] = p
              /\ \A i \in 1 .. Len(up) : up'[i] = up[i]
              /\ DOMAIN up' = 1 .. Len(up) + 1 /\ DOMAIN up = 1 .. Len(up)
          BY <1>1, <5>3
        <5>5. QED
          BY <5>3, <5>4
      <4>3. QED
        BY <4>1, <4>2
    <3>2. QED
      BY <2>1, <2>2, <2>3, <3>1
  <2>6. QED
    BY <2>4, <2>5
<1>6. CASE ReadRejoin
  BY <1>6 DEF ReadRejoin, Reading, peer, Typed, TypeOK
<1>7. CASE StartBatch \/ SendPosition \/ SendChunk \/ FinishBatch \/ SendRespawn
  <2>1. \E p \in Down : p.type # "start_configuration" /\ Send(p)
    <3>1. CASE StartBatch \/ SendPosition
      BY <3>1, Packets DEF StartBatch, SendPosition
    <3>2. CASE SendChunk
      BY <3>2, Packets DEF SendChunk, Typed
    <3>3. CASE FinishBatch
      BY <3>3, Packets DEF FinishBatch, Typed, TypeOK
    <3>4. CASE SendRespawn
      BY <3>4, Packets, RespawnPacket DEF SendRespawn, Typed
    <3>5. QED
      BY <1>7, <3>1, <3>2, <3>3, <3>4
  <2>4. \E p \in Down : p.type # "start_configuration"
                       /\ (down' = down \/ down' = Append(down, p))
    BY <2>1 DEF Send
  <2>2. gate' = gate /\ up' = up /\ (rAt' = "login" => rAt = "login" /\ joins' = joins)
    BY <1>7 DEF StartBatch, SendPosition, SendChunk, FinishBatch, SendRespawn, reader
  <2>3. QED
    BY <2>2, <2>4, StartKept
<1>8. CASE ~(StartBatch \/ SendPosition \/ SendChunk \/ FinishBatch \/ SendRespawn
             \/ ReadStart \/ SendLogin \/ ReadAck \/ ReadConfigured \/ ClientReads
             \/ ReadRejoin)
  <2>1. /\ UNCHANGED <<down, up, gate>>
        /\ rAt' = "login" => rAt = "login" /\ joins' = joins
    BY <1>1, <1>8
       DEF Step, Reader, Queueing, Pacer, Acker, ReadChunk, ReadDimension,
           QueuePromise, QueueJob, ReaderExit, Render, Tick, Hold, GiveUp, StopHolding, Take,
           Drained, CheckDim, PacerStops, SpawnSync, CountBatch, DecodeError, Release,
             Stamp, Expire, AckerExit, End, Idle, peer, vars, reader
  <2>2. QED
    BY <2>1, StartKept
<1>9. QED
  BY <1>1, <1>2, <1>3, <1>4, <1>5, <1>6, <1>7, <1>8

-----------------------------------------------------------------------------
(* The window of batches.                                                  *)

\* A packet more is one of its type more.
LEMMA CountAppend ==
    ASSUME NEW S, NEW q \in Seq(S), NEW p \in S, NEW type
    PROVE  Cardinality(OfType(Append(q, p), type))
              = Cardinality(OfType(q, type)) + (IF p.type = type THEN 1 ELSE 0)
<1> DEFINE k == Len(q) + 1
<1>1. /\ DOMAIN Append(q, p) = 1 .. k /\ DOMAIN q = 1 .. Len(q) /\ Len(q) \in Nat
      /\ Append(q, p)[k] = p /\ \A i \in 1 .. Len(q) : Append(q, p)[i] = q[i]
  OBVIOUS
<1>2. IsFiniteSet(OfType(q, type)) /\ Cardinality(OfType(q, type)) \in Nat
  BY CountType
<1>3. CASE p.type = type
  <2>1. OfType(Append(q, p), type) = OfType(q, type) \cup {k} /\ k \notin OfType(q, type)
    BY <1>1, <1>3 DEF OfType
  <2>2. QED
    BY <1>2, <1>3, <2>1, FS_AddElement
<1>4. CASE p.type # type
  <2>1. OfType(Append(q, p), type) = OfType(q, type)
    BY <1>1, <1>4 DEF OfType
  <2>2. QED
    BY <1>2, <1>4, <2>1
<1>5. QED
  BY <1>3, <1>4

\* A packet read is one of its type less.
LEMMA CountTail ==
    ASSUME NEW S, NEW q \in Seq(S), q # << >>, NEW type
    PROVE  Cardinality(OfType(Tail(q), type))
              <= Cardinality(OfType(q, type)) - (IF Head(q).type = type THEN 1 ELSE 0)
<1> DEFINE T == OfType(Tail(q), type)
           R == OfType(q, type) \ {1}
           f == [i \in T |-> i + 1]
<1>1. /\ DOMAIN Tail(q) = 1 .. Len(q) - 1 /\ DOMAIN q = 1 .. Len(q) /\ Len(q) \in Nat \ {0}
      /\ Head(q) = q[1] /\ \A i \in 1 .. Len(q) - 1 : Tail(q)[i] = q[i + 1]
  OBVIOUS
<1>2. IsFiniteSet(OfType(q, type)) /\ Cardinality(OfType(q, type)) \in Nat
  BY CountType
<1>3. /\ IsFiniteSet(R)
      /\ Cardinality(R) = Cardinality(OfType(q, type)) - (IF Head(q).type = type THEN 1 ELSE 0)
  <2>1. Head(q).type = type <=> 1 \in OfType(q, type)
    BY <1>1 DEF OfType
  <2>2. Cardinality(R) = IF 1 \in OfType(q, type) THEN Cardinality(OfType(q, type)) - 1
                         ELSE Cardinality(OfType(q, type))
    BY <1>2, FS_RemoveElement
  <2>3. QED
    BY <1>2, <2>1, <2>2, FS_RemoveElement
<1>4. f \in Injection(T, R)
  <2>1. \A i \in T : i \in 1 .. Len(q) - 1 /\ i + 1 \in R
    BY <1>1 DEF OfType
  <2>2. f \in [T -> R] /\ \A i, j \in T : f[i] = f[j] => i = j
    BY <1>1, <2>1
  <2>3. QED
    BY <2>2 DEF Injection, IsInjective
<1>5. Cardinality(T) <= Cardinality(R)
  <2> HIDE DEF T, R, f
  <2> QED
    BY <1>3, <1>4, FS_Injection
<1>6. QED
  BY <1>3, <1>5

\* What is done to the packets on the way changes the count by this much.
LEMMA InFlightStep ==
    ASSUME Typed, Step
    PROVE  /\ InFlight \in Nat /\ InFlight' \in Nat
           /\ InFlight' <= InFlight \/ (FinishBatch /\ ~over
                                             /\ InFlight' = InFlight + 1)
           /\ ReadAck => InFlight' <= InFlight - 1
<1> DEFINE F == Cardinality(OfType(down, "finish"))
           A == Cardinality(OfType(up, "ack"))
           F1 == Cardinality(OfType(down', "finish"))
           A1 == Cardinality(OfType(up', "ack"))
<1>1. /\ down \in Seq(Down) /\ up \in Seq(Up) /\ down' \in Seq(Down) /\ up' \in Seq(Up)
      /\ InFlight = F + A /\ InFlight' = F1 + A1
  BY TrafficNext DEF Typed, Traffic, InFlight
<1>2. F \in Nat /\ A \in Nat /\ F1 \in Nat /\ A1 \in Nat
  BY <1>1, CountType
<1> HIDE DEF F, A, F1, A1
<1>3. CASE UNCHANGED <<down, up>>
  <2>1. F1 = F /\ A1 = A
    BY <1>3 DEF F, A, F1, A1
  <2>2. ~ReadAck
    <3>1. SUFFICES ASSUME ReadAck PROVE FALSE
      OBVIOUS
    <3>2. up # << >> /\ up' = Tail(up)
      BY <3>1 DEF ReadAck
    <3>3. Len(up') = Len(up) - 1 /\ Len(up) \in Nat
      BY <1>1, <3>2
    <3>4. QED
      BY <1>3, <3>3
  <2>3. QED
    BY <1>1, <1>2, <2>1, <2>2
<1>4. ASSUME NEW p \in Down, up' = up, down' = Append(down, p),
             p.type = "finish" => FinishBatch /\ ~over, ~ReadAck
      PROVE  \/ InFlight' = InFlight
             \/ FinishBatch /\ ~over /\ InFlight' = InFlight + 1
  <2>1. F1 = F + (IF p.type = "finish" THEN 1 ELSE 0)
    BY <1>1, <1>4, CountAppend DEF F, F1
  <2>2. A1 = A
    BY <1>4 DEF A, A1
  <2>3. QED
    BY <1>1, <1>2, <1>4, <2>1, <2>2
<1>5. CASE ReadAck \/ ReadConfigured
  <2>1. up # << >> /\ up' = Tail(up) /\ down' = down
    BY <1>5 DEF ReadAck, ReadConfigured
  <2>2. A1 <= A - (IF Head(up).type = "ack" THEN 1 ELSE 0)
    BY <1>1, <2>1, CountTail DEF A, A1
  <2>3. F1 = F
    BY <2>1 DEF F, F1
  <2>4. ReadAck => Head(up).type = "ack"
    BY DEF ReadAck
  <2>5. QED
    BY <1>1, <1>2, <2>2, <2>3, <2>4
<1>6. CASE ClientReads
  <2>1. /\ down # << >> /\ down' = Tail(down) /\ Head(down) \in Down
        /\ \/ up' = up
           \/ \E d \in {0, MaxDesired} :
                 Head(down).type = "finish" /\ up' = Append(up, Packet("ack", d))
           \/ up' = Append(up, Packet("configured", None))
    BY <1>1, <1>6 DEF ClientReads
  <2>2. F1 <= F - (IF Head(down).type = "finish" THEN 1 ELSE 0)
    BY <1>1, <2>1, CountTail DEF F, F1
  <2>3. ~ReadAck
    <3>1. SUFFICES ASSUME ReadAck PROVE FALSE
      OBVIOUS
    <3>2. down' = down
      BY <3>1 DEF ReadAck
    <3>3. Len(down') = Len(down) - 1 /\ Len(down) \in Nat
      BY <1>1, <2>1
    <3>4. QED
      BY <3>2, <3>3
  <2>4. A1 <= A + (IF Head(down).type = "finish" THEN 1 ELSE 0)
    <3>1. CASE up' = up
      <4>1. A1 = A
        BY <3>1 DEF A, A1
      <4>2. QED
        BY <1>2, <4>1
    <3>2. ASSUME NEW d \in {0, MaxDesired}, Head(down).type = "finish",
                 up' = Append(up, Packet("ack", d))
          PROVE  A1 <= A + (IF Head(down).type = "finish" THEN 1 ELSE 0)
      <4>1. PICK p \in Up : p = Packet("ack", d) /\ p.type = "ack"
        <5>1. d \in 0 .. MaxDesired
          BY BoundAssumption
        <5>2. QED
          BY <5>1, Packets
      <4>2. A1 = A + 1
        BY <1>1, <3>2, <4>1, CountAppend DEF A, A1
      <4>3. QED
        BY <1>2, <3>2, <4>2
    <3>3. CASE up' = Append(up, Packet("configured", None))
      <4>1. PICK p \in Up : p = Packet("configured", None) /\ p.type = "configured"
        BY Packets
      <4>2. A1 = A + (IF p.type = "ack" THEN 1 ELSE 0)
        BY <1>1, <3>3, <4>1, CountAppend DEF A, A1
      <4>3. QED
        BY <1>2, <4>1, <4>2
    <3>4. QED
      BY <2>1, <3>1, <3>2, <3>3
  <2>5. QED
    BY <1>1, <1>2, <2>2, <2>3, <2>4
<1>7. CASE StartBatch \/ SendPosition \/ SendChunk \/ SendRespawn \/ ReadStart \/ SendLogin
           \/ FinishBatch
  <2>1. /\ up' = up
        /\ \/ down' = down
           \/ \E p \in Down :
                 down' = Append(down, p) /\ (p.type = "finish" => FinishBatch /\ ~over)
    <3>1. CASE StartBatch \/ SendPosition \/ ReadStart
      BY <3>1, Packets DEF StartBatch, SendPosition, ReadStart, Send
    <3>2. CASE SendChunk
      BY <3>2, Packets DEF SendChunk, Send, Typed
    <3>3. CASE FinishBatch
      BY <3>3, Packets DEF FinishBatch, Send, Typed, TypeOK
    <3>4. CASE SendRespawn
      BY <3>4, Packets, RespawnPacket DEF SendRespawn, Send, Typed
    <3>5. CASE SendLogin
      <4>1. NewLevel(Level, curDim, joins, spawnCol) \in Levels
        BY NewLevelTyped, ScenarioFields, LevelTyped DEF Typed, TypeOK
      <4>2. QED
        BY <3>5, <4>1, Packets DEF SendLogin
    <3>6. QED
      BY <1>7, <3>1, <3>2, <3>3, <3>4, <3>5
  <2>2. ~ReadAck
    <3>1. SUFFICES ASSUME ReadAck PROVE FALSE
      OBVIOUS
    <3>2. up # << >> /\ up' = Tail(up)
      BY <3>1 DEF ReadAck
    <3>3. Len(up') = Len(up) - 1 /\ Len(up) \in Nat
      BY <1>1, <3>2
    <3>4. QED
      BY <2>1, <3>3
  <2>3. CASE down' = down
    BY <1>3, <2>1, <2>3
  <2>4. CASE down' # down
    <3>1. PICK p \in Down :
              down' = Append(down, p) /\ (p.type = "finish" => FinishBatch /\ ~over)
      BY <2>1, <2>4
    <3>2. QED
      BY <1>1, <1>2, <1>4, <2>1, <2>2, <3>1
  <2>5. QED
    BY <2>3, <2>4
<1>8. CASE ~(StartBatch \/ SendPosition \/ SendChunk \/ FinishBatch \/ SendRespawn
             \/ ReadStart \/ SendLogin \/ ReadAck \/ ReadConfigured \/ ClientReads)
  <2>1. UNCHANGED <<down, up>>
    BY <1>8 DEF Step, Reader, Queueing, Pacer, Acker, ReadChunk, ReadDimension, ReadRejoin,
                QueuePromise, QueueJob, ReaderExit, Render, Tick, Hold, GiveUp, StopHolding, Take,
                Drained, CheckDim, PacerStops, SpawnSync, CountBatch, DecodeError, Release,
                Stamp, Expire, AckerExit, End, Idle, peer, vars
  <2>2. QED
    BY <1>3, <2>1
<1>9. QED
  BY <1>5, <1>6, <1>7, <1>8

\* No step has more batches in flight than the pacer counts.
LEMMA WindowNext == ASSUME Typed, Window, Next PROVE Window'
<1>0. Step /\ InFlight \in Nat /\ InFlight' \in Nat
  BY InFlightStep DEF Next
<1>p. PICK O \in Nat, P \in Nat : O = InFlight /\ P = InFlight'
  BY <1>0
<1>1. /\ sc' = sc /\ unacked \in Int /\ MaxUnacked \in Nat \ {0}
      /\ O + Releasing <= unacked + Counting + lost /\ lost \in Nat
      /\ unacked <= MaxUnacked
      /\ pAt \notin {"tick", "hold", "reset", "exit"} => unacked < MaxUnacked
  BY <1>p, OutstandingIs, BoundAssumption DEF Next, Window, Typed, TypeOK
<1>2. P <= O \/ (pAt = "finish" /\ pAt' = "count" /\ P = O + 1)
  <2>1. FinishBatch /\ ~over => pAt = "finish" /\ pAt' = "count"
    BY DEF FinishBatch, Failed
  <2>2. QED
    BY <1>0, <1>p, <2>1, InFlightStep
<1> SUFFICES /\ P + Releasing' <= unacked' + Counting' + lost'
             /\ unacked' <= MaxUnacked
             /\ pAt' \notin {"tick", "hold", "reset", "exit"} => unacked' < MaxUnacked
  BY <1>p, OutstandingIs DEF Window
<1>4. CASE FinishBatch
  <2>1. /\ unacked' = unacked /\ lost' = lost /\ aAt' = aAt
        /\ pAt = "finish" /\ pAt' \in {"exit", "count"}
    BY <1>4 DEF FinishBatch, window
  <2>2. P + Releasing' <= unacked' + Counting' + lost'
    BY <1>1, <1>2, <2>1 DEF Releasing, Counting
  <2>3. unacked' <= MaxUnacked
    BY <1>1, <2>1
  <2>4. pAt' \notin {"tick", "hold", "reset", "exit"} => unacked' < MaxUnacked
    BY <1>1, <2>1
  <2>5. QED
    BY <2>2, <2>3, <2>4
<1>5. CASE ReadAck
  <2>1. /\ unacked' = unacked /\ pAt' = pAt /\ aAt = "read" /\ P <= O - 1
        /\ IF unacked > 0 THEN aAt' = "release" /\ lost' = lost
           ELSE aAt' = "stamp" /\ lost' = IF lost > 0 THEN lost - 1 ELSE 0
    BY <1>0, <1>p, <1>5, InFlightStep DEF ReadAck, pacer
  <2>2. P + Releasing' <= unacked' + Counting' + lost'
    BY <1>1, <1>2, <2>1 DEF Releasing, Counting
  <2>3. unacked' <= MaxUnacked
    BY <1>1, <2>1
  <2>4. pAt' \notin {"tick", "hold", "reset", "exit"} => unacked' < MaxUnacked
    BY <1>1, <2>1
  <2>5. QED
    BY <2>2, <2>3, <2>4
<1>6. CASE Release
  <2>1. /\ unacked' = unacked - 1 /\ lost' = lost /\ pAt' = pAt /\ aAt = "release" /\ aAt' = "stamp"
    BY <1>6 DEF Release, pacer
  <2>2. P + Releasing' <= unacked' + Counting' + lost'
    BY <1>1, <1>2, <2>1 DEF Releasing, Counting
  <2>3. unacked' <= MaxUnacked
    BY <1>1, <2>1
  <2>4. pAt' \notin {"tick", "hold", "reset", "exit"} => unacked' < MaxUnacked
    BY <1>1, <2>1
  <2>5. QED
    BY <2>2, <2>3, <2>4
<1>7. CASE StopHolding
  <2>1. /\ unacked' = 0 /\ lost' = O + Releasing /\ aAt' = aAt /\ pAt = "reset"
        /\ pAt' = "start"
    BY <1>7, <1>p, OutstandingIs DEF StopHolding
  <2>2. P + Releasing' <= unacked' + Counting' + lost'
    BY <1>1, <1>2, <2>1 DEF Releasing, Counting
  <2>3. unacked' <= MaxUnacked
    BY <1>1, <2>1
  <2>4. pAt' \notin {"tick", "hold", "reset", "exit"} => unacked' < MaxUnacked
    BY <1>1, <2>1
  <2>5. QED
    BY <2>2, <2>3, <2>4
<1>8. CASE CountBatch
  <2>1. /\ unacked' = unacked + 1 /\ lost' = lost /\ pAt = "count" /\ pAt' = "tick" /\ aAt' = aAt
    BY <1>8 DEF CountBatch
  <2>2. P + Releasing' <= unacked' + Counting' + lost'
    BY <1>1, <1>2, <2>1 DEF Releasing, Counting
  <2>3. unacked' <= MaxUnacked
    BY <1>1, <2>1
  <2>4. pAt' \notin {"tick", "hold", "reset", "exit"} => unacked' < MaxUnacked
    BY <1>1, <2>1
  <2>5. QED
    BY <2>2, <2>3, <2>4
<1>9. CASE Tick
  <2>1. /\ unacked' = unacked /\ lost' = lost /\ aAt' = aAt
        /\ pAt = "tick" /\ pAt' \in {"hold", "start"}
        /\ pAt' = "start" => unacked < MaxUnacked
    BY <1>9, <1>1 DEF Tick, window
  <2>2. P + Releasing' <= unacked' + Counting' + lost'
    BY <1>1, <1>2, <2>1 DEF Releasing, Counting
  <2>3. unacked' <= MaxUnacked
    BY <1>1, <2>1
  <2>4. pAt' \notin {"tick", "hold", "reset", "exit"} => unacked' < MaxUnacked
    BY <1>1, <2>1
  <2>5. QED
    BY <2>2, <2>3, <2>4
<1>10. CASE ReadConfigured \/ Stamp \/ AckerExit
  <2>1. /\ unacked' = unacked /\ lost' = lost /\ pAt' = pAt /\ aAt # "release" /\ aAt' # "release"
    BY <1>10 DEF ReadConfigured, Stamp, AckerExit, window, pacer
  <2>2. P + Releasing' <= unacked' + Counting' + lost'
    BY <1>1, <1>2, <2>1 DEF Releasing, Counting
  <2>3. unacked' <= MaxUnacked
    BY <1>1, <2>1
  <2>4. pAt' \notin {"tick", "hold", "reset", "exit"} => unacked' < MaxUnacked
    BY <1>1, <2>1
  <2>5. QED
    BY <2>2, <2>3, <2>4
<1>11. CASE Hold \/ GiveUp \/ PacerStops \/ DecodeError
  <2>1. /\ unacked' = unacked /\ lost' = lost /\ pAt # "count" /\ aAt' = aAt
        /\ pAt' \in {"tick", "reset", "exit"}
    BY <1>11 DEF Hold, GiveUp, PacerStops, DecodeError, window
  <2>2. P + Releasing' <= unacked' + Counting' + lost'
    BY <1>1, <1>2, <2>1 DEF Releasing, Counting
  <2>3. unacked' <= MaxUnacked
    BY <1>1, <2>1
  <2>4. pAt' \notin {"tick", "hold", "reset", "exit"} => unacked' < MaxUnacked
    BY <1>1, <2>1
  <2>5. QED
    BY <2>2, <2>3, <2>4
<1>12. CASE StartBatch \/ Take \/ Drained \/ CheckDim \/ SendChunk \/ SpawnSync \/ SendPosition
  <2>1. /\ unacked' = unacked /\ lost' = lost /\ aAt' = aAt
        /\ pAt \notin {"tick", "hold", "reset", "exit", "count"}
        /\ pAt' # "count"
    BY <1>12 DEF StartBatch, Take, Drained, CheckDim, SendChunk, SpawnSync, SendPosition,
                window
  <2>2. P + Releasing' <= unacked' + Counting' + lost'
    BY <1>1, <1>2, <2>1 DEF Releasing, Counting
  <2>3. unacked' <= MaxUnacked
    BY <1>1, <2>1
  <2>4. pAt' \notin {"tick", "hold", "reset", "exit"} => unacked' < MaxUnacked
    BY <1>1, <2>1
  <2>5. QED
    BY <2>2, <2>3, <2>4
<1>13. CASE Expire \/ UNCHANGED <<pacer, window, aAt>>
  <2>1. /\ unacked' = unacked /\ lost' = lost /\ pAt' = pAt /\ aAt' = aAt
    BY <1>13 DEF pacer, window, Expire
  <2>2. P + Releasing' <= unacked' + Counting' + lost'
    BY <1>1, <1>2, <2>1 DEF Releasing, Counting
  <2>3. unacked' <= MaxUnacked
    BY <1>1, <2>1
  <2>4. pAt' \notin {"tick", "hold", "reset", "exit"} => unacked' < MaxUnacked
    BY <1>1, <2>1
  <2>5. QED
    BY <2>2, <2>3, <2>4
<1>14. QED
  <2>1. \/ Pacer \/ DecodeError \/ Acker \/ Expire \/ UNCHANGED <<pacer, window, aAt>>
    BY <1>0, Frames DEF Pacer, Acker
  <2>2. QED
    BY <2>1, <1>4, <1>5, <1>6, <1>7, <1>8, <1>9, <1>10, <1>11, <1>12, <1>13
       DEF Pacer, Acker

-----------------------------------------------------------------------------
(* The chunks to come are newer than those on the way.                     *)

\* How the promises move.
LEMMA QueueMoves ==
    ASSUME Typed, Queued, Step
    PROVE  /\ \/ renderQ' = renderQ
              \/ /\ renderQ' = Append(renderQ, frame)
                 /\ rAt = "queue" /\ rAt' = "job" /\ frame \in Chunk
              \/ renderQ # << >> /\ renderQ' = Tail(renderQ) /\ Take
           /\ \/ rAt' = rAt /\ frame' = frame /\ chunks' = chunks
              \/ rAt' # "queue" /\ chunks' = chunks
              \/ /\ chunks' = chunks + 1 /\ frame'.id = chunks' /\ renderQ' = renderQ
                 /\ rAt' = "queue" /\ rAt = "read"
           /\ chunks \in Nat /\ renderQ \in Seq(Chunk)
<1>1. chunks \in Nat /\ renderQ \in Seq(Chunk) /\ (rAt = "queue" => frame \in Chunk)
  BY BoundAssumption DEF Typed, TypeOK
<1>2. \/ renderQ' = renderQ
      \/ renderQ' = Append(renderQ, frame) /\ rAt = "queue" /\ rAt' = "job"
      \/ renderQ # << >> /\ renderQ' = Tail(renderQ) /\ Take
  BY Frames DEF QueuePromise, QueueJob, Render, Take, queues
<1>3. \/ rAt' = rAt /\ frame' = frame /\ chunks' = chunks
      \/ rAt' # "queue" /\ chunks' = chunks
      \/ /\ chunks' = chunks + 1 /\ frame'.id = chunks' /\ renderQ' = renderQ
         /\ rAt' = "queue" /\ rAt = "read"
  <2>1. CASE ReadChunk
    BY <2>1 DEF ReadChunk, Reading, queues
  <2>2. CASE QueuePromise \/ QueueJob \/ ReadDimension \/ SendRespawn \/ ReadRejoin
             \/ SendLogin \/ ReaderExit
    BY <2>2 DEF QueuePromise, QueueJob, ReadDimension, SendRespawn, ReadRejoin, SendLogin,
                ReaderExit
  <2>3. CASE ReadStart \/ UNCHANGED reader
    BY <2>3 DEF ReadStart, reader
  <2>4. QED
    BY <2>1, <2>2, <2>3, Frames
<1>4. QED
  BY <1>1, <1>2, <1>3

\* renderQ changes by the frame the world reader queues, or by a Take.
LEMMA QueueAfter ==
    ASSUME Typed, Queued, Step
    PROVE  /\ \A j \in DOMAIN renderQ' :
                 \/ \E k \in DOMAIN renderQ : renderQ'[j] = renderQ[k]
                 \/ renderQ'[j] = frame /\ rAt = "queue" /\ rAt' # "queue"
           /\ \A i, j \in DOMAIN renderQ' : i < j => renderQ'[i].id < renderQ'[j].id
           /\ \A j \in DOMAIN renderQ' : renderQ'[j] \in Chunk
<1>1. /\ renderQ \in Seq(Chunk)
      /\ rAt = "queue" => \A j \in DOMAIN renderQ : renderQ[j].id < frame.id
      /\ \A i, j \in DOMAIN renderQ : i < j => renderQ[i].id < renderQ[j].id
  BY DEF Typed, TypeOK, Queued
<1>2. CASE renderQ' = renderQ
  BY <1>1, <1>2
<1>3. CASE renderQ' = Append(renderQ, frame) /\ rAt = "queue" /\ rAt' = "job" /\ frame \in Chunk
  <2>1. /\ DOMAIN renderQ' = 1 .. Len(renderQ) + 1 /\ DOMAIN renderQ = 1 .. Len(renderQ)
        /\ Len(renderQ) \in Nat /\ renderQ'[Len(renderQ) + 1] = frame
        /\ \A j \in 1 .. Len(renderQ) : renderQ'[j] = renderQ[j] /\ renderQ[j] \in Chunk
    BY <1>1, <1>3
  <2>2. QED
    BY <1>1, <1>3, <2>1
<1>4. CASE renderQ # << >> /\ renderQ' = Tail(renderQ)
  <2>1. /\ DOMAIN renderQ' = 1 .. Len(renderQ) - 1 /\ DOMAIN renderQ = 1 .. Len(renderQ)
        /\ Len(renderQ) \in Nat
        /\ \A j \in 1 .. Len(renderQ) - 1 : /\ renderQ'[j] = renderQ[j + 1]
                                          /\ renderQ[j + 1] \in Chunk
                                          /\ j + 1 \in 1 .. Len(renderQ)
    BY <1>1, <1>4
  <2>2. ASSUME NEW i \in DOMAIN renderQ', NEW j \in DOMAIN renderQ', i < j
        PROVE  renderQ'[i].id < renderQ'[j].id
    <3>1. i + 1 \in DOMAIN renderQ /\ j + 1 \in DOMAIN renderQ /\ i + 1 < j + 1
      BY <2>1, <2>2
    <3>2. renderQ'[i] = renderQ[i + 1] /\ renderQ'[j] = renderQ[j + 1]
      BY <2>1, <2>2
    <3>3. QED
      BY <1>1, <3>1, <3>2
  <2>3. ASSUME NEW j \in DOMAIN renderQ'
        PROVE  renderQ'[j] \in Chunk /\ \E k \in DOMAIN renderQ : renderQ'[j] = renderQ[k]
    BY <2>1
  <2>4. QED
    BY <2>2, <2>3
<1>5. QED
  BY <1>2, <1>3, <1>4, QueueMoves

\* Chunks to come stay newer than those that came.
LEMMA PassedKept ==
    ASSUME Typed, Queued, Step, NEW id \in Nat, Passed(id)
    PROVE  Passed(id)'
<1>1. /\ id <= chunks /\ chunks \in Nat
      /\ \A j \in DOMAIN renderQ : id < renderQ[j].id
      /\ rAt = "queue" => id < frame.id
  BY QueueMoves DEF Passed
<1>2. id <= chunks'
  BY <1>1, QueueMoves
<1>3. \A j \in DOMAIN renderQ' : id < renderQ'[j].id
  BY <1>1, QueueAfter
<1>4. rAt' = "queue" => id < frame'.id
  BY <1>1, QueueMoves
<1>5. QED
  BY <1>2, <1>3, <1>4 DEF Passed

\* The queue stays in the order of arrival.
LEMMA QueuedNext == ASSUME Typed, Queued, Step PROVE Queued'
<1>1. /\ chunks \in Nat /\ (rAt = "queue" => frame.id = chunks)
      /\ \A j \in DOMAIN renderQ :
            renderQ[j].id <= chunks /\ (rAt = "queue" => renderQ[j].id < frame.id)
      /\ pAt \in {"wait", "send"} => Passed(cur.id)
      /\ \A i, j \in DOMAIN renderQ : i < j => renderQ[i].id < renderQ[j].id
      /\ renderQ \in Seq(Chunk) /\ \A c \in Chunk : c.id \in Nat
  BY QueueMoves, BoundAssumption DEF Queued, Chunk
<1>2. \A j \in DOMAIN renderQ' :
          renderQ'[j].id <= chunks' /\ (rAt' = "queue" => renderQ'[j].id < frame'.id)
  <2> TAKE j \in DOMAIN renderQ'
  <2>1. renderQ'[j].id \in Nat /\ renderQ'[j].id <= chunks
    BY <1>1, QueueAfter
  <2>2. renderQ'[j].id <= chunks'
    BY <1>1, <2>1, QueueMoves
  <2>3. ASSUME rAt' = "queue" PROVE renderQ'[j].id < frame'.id
    <3>1. CASE rAt = "read"
      BY <1>1, <2>1, <2>3, <3>1, QueueMoves
    <3>2. CASE rAt # "read"
      <4>1. rAt = "queue" /\ frame' = frame
        BY <2>3, <3>2, QueueMoves
      <4>2. \E k \in DOMAIN renderQ : renderQ'[j] = renderQ[k]
        BY <2>3, QueueAfter
      <4>3. QED
        BY <1>1, <4>1, <4>2
    <3>3. QED
      BY <3>1, <3>2
  <2>4. QED
    BY <2>2, <2>3
<1>3. rAt' = "queue" => frame'.id = chunks'
  BY <1>1, QueueMoves
<1>4. pAt' \in {"wait", "send"} => Passed(cur.id)' \/ Take
  <2>1. pAt' \in {"wait", "send"} => Take \/ (pAt \in {"wait", "send"} /\ cur' = cur)
    BY Frames DEF Pacer, Tick, Hold, GiveUp, StopHolding, StartBatch, Take, Drained, CheckDim,
       PacerStops, SendChunk, SpawnSync, SendPosition, FinishBatch, CountBatch, DecodeError,
       pacer
  <2>2. ASSUME pAt \in {"wait", "send"}, cur' = cur PROVE Passed(cur.id)'
    <3>1. PICK id \in Nat : id = cur.id
      BY <1>1, <2>2 DEF Typed
    <3>2. Passed(id)'
      BY <1>1, <2>2, <3>1, PassedKept
    <3>3. QED
      BY <2>2, <3>1, <3>2 DEF Passed
  <2>3. QED
    BY <2>1, <2>2
<1>5. Take => Passed(cur.id)'
  <2> SUFFICES ASSUME Take PROVE Passed(cur.id)'
    OBVIOUS
  <2>1. /\ renderQ # << >> /\ cur' = Head(renderQ) /\ renderQ' = Tail(renderQ)
        /\ rAt' = rAt /\ frame' = frame /\ chunks' = chunks
    BY DEF Take, reader
  <2>2. /\ cur' = renderQ[1] /\ 1 \in DOMAIN renderQ
        /\ \A j \in DOMAIN renderQ' : renderQ'[j] = renderQ[j + 1] /\ j + 1 \in DOMAIN renderQ
                                    /\ 1 < j + 1
    BY <1>1, <2>1
  <2>3. cur'.id <= chunks' /\ (rAt' = "queue" => cur'.id < frame'.id)
    BY <1>1, <2>1, <2>2
  <2>4. \A j \in DOMAIN renderQ' : cur'.id < renderQ'[j].id
    BY <1>1, <2>2
  <2>5. QED
    BY <2>3, <2>4 DEF Passed
<1>6. QED
  BY <1>2, <1>3, <1>4, <1>5, QueueAfter DEF Queued

-----------------------------------------------------------------------------
(* The level to come, step by step.                                        *)

\* A step nobody sends in, and every step for the chunks already under way.
LEMMA NewerKept ==
    ASSUME Typed, Queued, Step, NEW c \in Levels, Newer(c) PROVE Newer(c)'
<1>1. c.has \in Seq(Chunk) /\ \A k \in Chunk : k.id \in Nat
  <2>1. c.has \in Seq(Chunk)
    BY LevelFields
  <2>2. \A k \in Chunk : k.id \in Nat
    BY BoundAssumption DEF Chunk
  <2>3. QED
    BY <2>1, <2>2
<1> SUFFICES ASSUME NEW i \in DOMAIN c.has
             PROVE  /\ Passed(c.has[i].id)'
                    /\ pAt' \in {"wait", "send"} => c.has[i].id < cur'.id
  BY DEF Newer
<1>2. PICK id \in Nat : id = c.has[i].id
  BY <1>1
<1>3. Passed(id) /\ (pAt \in {"wait", "send"} => id < cur.id)
  BY <1>2 DEF Newer
<1>4. Passed(id)'
  BY <1>3, PassedKept
<1>5. pAt' \in {"wait", "send"} => id < cur'.id
  <2>1. pAt' \in {"wait", "send"} => Take \/ (pAt \in {"wait", "send"} /\ cur' = cur)
    BY Frames DEF Pacer, Tick, Hold, GiveUp, StopHolding, StartBatch, Take, Drained, CheckDim,
       PacerStops, SendChunk, SpawnSync, SendPosition, FinishBatch, CountBatch, DecodeError,
       pacer
  <2>2. ASSUME Take PROVE id < cur'.id
    <3>1. renderQ # << >> /\ cur' = renderQ[1] /\ renderQ \in Seq(Chunk)
      BY <2>2, QueueMoves DEF Take
    <3>2. 1 \in DOMAIN renderQ
      BY <3>1
    <3>3. QED
      BY <1>3, <3>1, <3>2 DEF Passed
  <2>3. QED
    BY <1>3, <2>1, <2>2
<1>6. QED
  BY <1>2, <1>4, <1>5 DEF Passed

\* Joins and levels are counted upwards, and a level keeps its dimension.
LEMMA JoinsGrow ==
    ASSUME Typed, Step
    PROVE  /\ joins \in Nat /\ joins' \in Nat /\ joins <= joins'
           /\ Level \in Nat /\ Level' \in Nat
           /\ (Level' = Level /\ curDim' = curDim) \/ Level < Level'
<1>1. joins \in Nat /\ switches \in Nat
  BY ScenarioFields DEF Typed, TypeOK
<1>2. \/ joins' = joins /\ switches' = switches /\ curDim' = curDim
      \/ joins' = joins + 1 /\ switches' = switches
      \/ joins' = joins /\ switches' = switches + 1
  <2>1. CASE ReadChunk \/ QueuePromise \/ QueueJob \/ SendRespawn
    BY <2>1 DEF ReadChunk, QueuePromise, QueueJob, SendRespawn, spot
  <2>2. CASE ReadStart \/ SendLogin \/ ReaderExit
    BY <2>2 DEF ReadStart, SendLogin, ReaderExit, spot
  <2>3. CASE ReadDimension \/ ReadRejoin
    BY <2>3 DEF ReadDimension, ReadRejoin
  <2>4. CASE UNCHANGED reader /\ ~ReadDimension /\ ~ReadRejoin
    BY <2>4, Frames DEF SpawnSync, reader, spot
  <2>5. QED
    BY <2>1, <2>2, <2>3, <2>4, Frames
<1>3. QED
  BY <1>1, <1>2 DEF Level

\* A step that sends no start, no chunk and no login leaves the count right.
LEMMA CountedKept ==
    ASSUME Typed, Queued, Step, NEW c \in Levels, Counted(c),
           ~(Live /\ (StartBatch \/ SendChunk)), ~SendLogin
    PROVE  Counted(c)'
<1> SUFFICES ASSUME Live', pAt' \in {"drain", "wait", "send", "sync", "position", "finish"}
             PROVE  \/ c.batch = IF pAt' = "sync" THEN n' + 1 ELSE n'
                    \/ joins' > 1 /\ c.batch = None
  BY DEF Counted
<1>1. Live
  BY Frames DEF Live, ReadStart, ReadConfigured
<1>2. joins' \in Nat /\ joins' >= joins /\ joins \in Nat /\ n \in Nat
  <2>1. n \in Nat
    BY BoundAssumption DEF Typed, TypeOK
  <2>2. QED
    BY <2>1, JoinsGrow
<1>3. \/ /\ pAt \in {"drain", "wait", "send", "sync", "position", "finish"}
         /\ (IF pAt' = "sync" THEN n' + 1 ELSE n') = (IF pAt = "sync" THEN n + 1 ELSE n)
  <2>1. CASE Take \/ Drained \/ CheckDim \/ SendPosition
    BY <1>1, <2>1 DEF Take, Drained, CheckDim, SendPosition
  <2>2. CASE SpawnSync
    BY <1>1, <1>2, <2>2 DEF SpawnSync
  <2>3. CASE Tick \/ Hold \/ GiveUp \/ StopHolding \/ PacerStops \/ FinishBatch \/ CountBatch
             \/ DecodeError
    BY <2>3 DEF Tick, Hold, GiveUp, StopHolding, PacerStops, FinishBatch, CountBatch, DecodeError
  <2>4. CASE UNCHANGED pacer
    BY <2>4 DEF pacer
  <2>5. QED
    BY <1>1, <2>1, <2>2, <2>3, <2>4, Frames DEF Pacer
<1>4. QED
  BY <1>1, <1>2, <1>3 DEF Counted

\* A step that sends no chunk, position or login leaves the sync as it is.
LEMMA SyncedKept ==
    ASSUME Typed, OneStart, Step, NEW c \in Levels, Synced(c),
           ~(Live /\ (SendChunk \/ SendPosition)), ~SendLogin
    PROVE  Synced(c)'
<1> SUFFICES ASSUME Live', c.join = 1
             PROVE  /\ c.col = spawnCol'
                    /\ spawnPending' => c.syncs = 0 /\ pAt' # "position"
                    /\ pAt' = "position" => c.syncs = 0 /\ c.ground
                    /\ pAt' = "sync" /\ cur'.col = c.col => c.ground
  BY DEF Synced
<1>1. Live
  BY Frames DEF Live, ReadStart, ReadConfigured
<1>2. /\ c.col = spawnCol
      /\ spawnPending => c.syncs = 0 /\ pAt # "position"
      /\ pAt = "position" => c.syncs = 0 /\ c.ground
      /\ pAt = "sync" /\ cur.col = c.col => c.ground
  BY <1>1 DEF Synced
<1>3. CASE SpawnSync
  BY <1>2, <1>3 DEF SpawnSync
<1>4. CASE ReadRejoin
  BY <1>1, <1>4 DEF ReadRejoin, Live
<1>5. CASE ~SpawnSync /\ ~ReadRejoin
  <2>1. spawnCol' = spawnCol /\ spawnPending' = spawnPending
    BY <1>5, Frames DEF ReadDimension, spot
  <2>2. \/ pAt' \notin {"position", "sync"}
        \/ pAt' = pAt /\ cur' = cur
    <3>1. CASE Take \/ Drained \/ CheckDim \/ Tick \/ Hold \/ GiveUp \/ StopHolding \/ StartBatch
      BY <3>1 DEF Take, Drained, CheckDim, Tick, Hold, GiveUp, StopHolding, StartBatch
    <3>2. CASE PacerStops \/ FinishBatch \/ CountBatch \/ DecodeError
      BY <3>2 DEF PacerStops, FinishBatch, CountBatch, DecodeError
    <3>3. CASE UNCHANGED pacer
      BY <3>3 DEF pacer
    <3>4. QED
      BY <1>1, <1>5, <3>1, <3>2, <3>3, Frames DEF Pacer
  <2>3. QED
    BY <1>2, <2>1, <2>2
<1>6. QED
  BY <1>3, <1>4, <1>5

\* A step that sends nothing leaves a chunk of another dimension where it is, and
\* the pacer takes none into hand.
LEMMA SettledKept ==
    ASSUME Typed, Step, NEW c \in Levels, Right(c, Level), Settled(c) PROVE Settled(c)'
<1> SUFFICES ASSUME c.level = Level'
             PROVE  /\ c.dim = curDim'
                    /\ pAt' = "send" /\ cur'.dim # curDim' =>
                          \A i \in DOMAIN c.has : c.has[i].dim = c.dim
  BY DEF Settled
<1>1. /\ Level' = Level /\ curDim' = curDim /\ c.dim = curDim
      /\ pAt = "send" /\ cur.dim # curDim => \A i \in DOMAIN c.has : c.has[i].dim = c.dim
  BY JoinsGrow, LevelFields DEF Right, Settled
<1>2. pAt' = "send" => \/ pAt = "send" /\ cur' = cur
                       \/ cur'.dim = curDim
  BY Frames DEF Pacer, Tick, Hold, GiveUp, StopHolding, StartBatch, Take, Drained, CheckDim,
     PacerStops, SendChunk, SpawnSync, SendPosition, FinishBatch, CountBatch, DecodeError, pacer
<1>3. QED
  BY <1>1, <1>2

\* A packet sent while it can arrive: the level to come is what it makes of it.
LEMMA Arrives ==
    ASSUME down \in Seq(Down), client \in Levels, NEW c \in Levels, NEW p \in Down,
           NEW d \in Levels, d = After(c, p), Reaches(client, down, c, joins, Level),
           down' = Append(down, p), client' = client, joins' = joins, Level' = Level,
           Fits(c, p, joins), Right(d, Level), Newer(d)', Counted(d)', Synced(d)', Settled(d)'
    PROVE  Followed'
<1>1. Reaches(client, Append(down, p), d, joins, Level)
  BY ReachesAppend
<1>2. Reaches(client, down, d, joins, Level)'
  BY <1>1
<1>3. QED
  BY <1>2 DEF Followed

\* A step that sends nothing the client will read.
LEMMA Stays ==
    ASSUME Typed, OneStart, Queued, Step, NEW c \in Levels, Newer(c), Counted(c), Synced(c),
           Settled(c), Reaches(client', down', c, joins, Level),
           ~(Live /\ (StartBatch \/ SendChunk \/ SendPosition)), ~SendLogin
    PROVE  Followed'
<1>1. Newer(c)' /\ Counted(c)' /\ Synced(c)' /\ Settled(c)'
  <2>1. Right(c, Level)
    BY ReachesHere, TrafficNext DEF Traffic
  <2>2. QED
    BY <2>1, NewerKept, CountedKept, SyncedKept, SettledKept
<1>2. /\ joins \in Nat /\ joins' \in Nat /\ joins <= joins'
      /\ Level \in Nat /\ Level' \in Nat /\ Level <= Level'
  BY JoinsGrow
<1>3. Reaches(client', down', c, joins', Level')
  BY <1>2, ReachesLater
<1>4. QED
  BY <1>1, <1>3 DEF Followed

\* The pacer sends one packet in a step, and the reader none.
LEMMA PacerSends ==
    ASSUME StartBatch \/ SendChunk \/ SendPosition \/ FinishBatch
    PROVE  /\ ~SendLogin
           /\ StartBatch => pAt = "start"
           /\ SendChunk => pAt = "send"
           /\ SendPosition => pAt = "position"
           /\ FinishBatch => pAt = "finish"
<1>1. rAt' = rAt
  BY DEF StartBatch, SendChunk, SendPosition, FinishBatch, reader
<1>2. ~SendLogin
  BY <1>1 DEF SendLogin
<1>3. QED
  BY <1>2 DEF StartBatch, SendChunk, SendPosition, FinishBatch

\* chunk_batch_start: the client counts a new batch from none.
LEMMA SendsStart ==
    ASSUME Typed, OneStart, Queued, Step, StartBatch, Live, NEW c \in Levels,
           Reaches(client, down, c, joins, Level), Newer(c), Counted(c), Synced(c),
           Settled(c)
    PROVE  Followed'
<1>1. PICK p \in Down : p = Packet("start", None) /\ p.type = "start"
  BY Packets
<1>2. /\ down' = Append(down, p) /\ client' = client /\ joins' = joins /\ Level' = Level
      /\ pAt = "start" /\ pAt' = "drain" /\ n' = 0
  BY <1>1 DEF StartBatch, Send, Live, Failed, reader, Level
<1>3. PICK d \in Levels : d = After(c, p)
  BY AfterTyped
<1>4. d.has = c.has /\ d.join = c.join /\ d.syncs = c.syncs /\ d.ground = c.ground
      /\ d.col = c.col /\ d.batch = 0 /\ d.level = c.level /\ d.dim = c.dim
  BY <1>1, <1>3, AfterFields
<1>5. Right(c, Level)
  BY ReachesHere DEF Typed
<1>6. Right(d, Level) /\ Fits(c, p, joins)
  <2>1. Right(d, Level)
    BY <1>4, <1>5, SameRight
  <2>2. Fits(c, p, joins)
    BY <1>1 DEF Fits
  <2>3. QED
    BY <2>1, <2>2
<1>7. Newer(c)' /\ Synced(c)' /\ Settled(c)'
  <2>1. ~SendChunk /\ ~SendPosition /\ ~SendLogin
    BY <1>2, PacerSends
  <2>2. QED
    BY <1>5, <2>1, NewerKept, SyncedKept, SettledKept
<1>8. Newer(d)'
  BY <1>4, <1>7 DEF Newer
<1>9. Synced(d)' /\ Settled(d)'
  BY <1>4, <1>7 DEF Synced, Settled
<1>10. Counted(d)'
  BY <1>2, <1>4 DEF Counted
<1>11. QED
  BY <1>2, <1>3, <1>6, <1>8, <1>9, <1>10, Arrives DEF Typed

\* A chunk: newer than all the client has, and one more of its batch.
LEMMA SendsChunk ==
    ASSUME Typed, OneStart, Queued, Step, SendChunk, Live, NEW c \in Levels,
           Reaches(client, down, c, joins, Level), Newer(c), Counted(c), Synced(c),
           Settled(c)
    PROVE  Followed'
<1>0. cur \in Chunk /\ pAt = "send"
  BY DEF Typed, SendChunk
<1>1. PICK p \in Down : p = Packet("chunk", cur) /\ p.type = "chunk" /\ p.val = cur
  BY <1>0, Packets
<1>2. /\ down' = Append(down, p) /\ client' = client /\ joins' = joins /\ Level' = Level
      /\ pAt' = "sync" /\ n' = n /\ cur' = cur /\ curDim' = curDim
  BY <1>1 DEF SendChunk, Send, Live, Failed, reader, spot, Level
<1>3. PICK d \in Levels : d = After(c, p)
  BY AfterTyped
<1>4. /\ d.has = Append(c.has, p.val) /\ d.join = c.join /\ d.syncs = c.syncs
      /\ d.col = c.col /\ d.ground = (c.ground \/ p.val.col = c.col)
      /\ d.level = c.level /\ d.dim = c.dim
      /\ d.batch = IF c.batch = None THEN None ELSE c.batch + 1
  BY <1>1, <1>3, AfterFields
<1>5. Right(c, Level)
  BY ReachesHere DEF Typed
<1>6. PICK k \in Chunk : k = cur
  BY <1>0
<1>7. /\ c.has \in Seq(Chunk) /\ d.has = Append(c.has, k)
      /\ \A i \in DOMAIN c.has : c.has[i].id < k.id
  BY <1>0, <1>1, <1>4, <1>6, LevelFields DEF Newer
<1>8. /\ DOMAIN d.has = 1 .. Len(c.has) + 1 /\ DOMAIN c.has = 1 .. Len(c.has)
      /\ Len(c.has) \in Nat /\ d.has[Len(c.has) + 1] = k
      /\ \A i \in DOMAIN c.has : d.has[i] = c.has[i]
  BY <1>7
<1>9. ASSUME NEW i \in DOMAIN d.has, NEW j \in DOMAIN d.has, i < j
      PROVE  d.has[i].id < d.has[j].id
  <2>1. i \in DOMAIN c.has /\ d.has[i] = c.has[i]
    BY <1>8, <1>9
  <2>2. CASE j \in DOMAIN c.has
    BY <1>5, <1>8, <1>9, <2>1, <2>2 DEF Right
  <2>3. CASE j = Len(c.has) + 1
    BY <1>7, <1>8, <2>1, <2>3
  <2>4. QED
    BY <1>8, <2>2, <2>3
<1>17. d.level = Level => OneOther(d)
  <2> SUFFICES ASSUME c.level = Level PROVE OneOther(d)
    BY <1>4
  <2>1. OneOther(c) /\ c.dim = curDim /\ d.dim = curDim
    BY <1>4, <1>5 DEF Right, Settled
  <2>2. k.dim # curDim => \A i \in DOMAIN c.has : c.has[i].dim = curDim
    BY <1>0, <1>6, <2>1 DEF Settled
  <2>3. ASSUME NEW i \in DOMAIN d.has, d.has[i].dim # curDim
        PROVE  \/ i \in DOMAIN c.has /\ c.has[i].dim # curDim /\ k.dim = curDim
               \/ i = Len(c.has) + 1 /\ k.dim # curDim
    <3>1. CASE i = Len(c.has) + 1
      BY <1>8, <2>3, <3>1
    <3>2. CASE i \in DOMAIN c.has
      <4>1. c.has[i].dim # curDim
        BY <1>8, <2>3, <3>2
      <4>2. QED
        BY <2>2, <3>2, <4>1
    <3>3. QED
      BY <1>8, <3>1, <3>2
  <2>4. SUFFICES ASSUME NEW i \in DOMAIN d.has, NEW j \in DOMAIN d.has,
                        d.has[i].dim # curDim, d.has[j].dim # curDim
                 PROVE  i = j
    BY <2>1 DEF OneOther
  <2>5. CASE k.dim = curDim
    <3>1. i \in DOMAIN c.has /\ c.has[i].dim # curDim
      BY <2>3, <2>4, <2>5
    <3>2. j \in DOMAIN c.has /\ c.has[j].dim # curDim
      BY <2>3, <2>4, <2>5
    <3>3. QED
      BY <2>1, <3>1, <3>2 DEF OneOther
  <2>6. CASE k.dim # curDim
    BY <2>3, <2>4, <2>6
  <2>7. QED
    BY <2>5, <2>6
<1>10. Right(d, Level) /\ Fits(c, p, joins)
  BY <1>1, <1>4, <1>5, <1>9, <1>17 DEF Right, Fits
<1>11. Newer(c)'
  BY NewerKept
<1>12. Passed(k.id)'
  <2>1. Passed(k.id)
    BY <1>0, <1>6 DEF Queued
  <2>2. k.id \in Nat
    BY BoundAssumption DEF Chunk
  <2>3. QED
    BY <2>1, <2>2, PassedKept
<1>13. Newer(d)'
  <2>1. \A i \in DOMAIN c.has : Passed(c.has[i].id)'
    BY <1>11 DEF Newer
  <2>2. \A i \in DOMAIN d.has : Passed(d.has[i].id)'
    BY <1>8, <1>12, <2>1
  <2>3. QED
    BY <1>2, <2>2 DEF Newer
<1>14. Synced(d)'
  <2>1. /\ c.join = 1 => c.col = spawnCol /\ (spawnPending => c.syncs = 0)
        /\ spawnCol' = spawnCol /\ spawnPending' = spawnPending
    BY DEF Synced, SendChunk, spot
  <2>2. d.ground = (c.ground \/ k.col = c.col) /\ cur' = k
    BY <1>1, <1>2, <1>4, <1>6
  <2>3. QED
    BY <1>2, <1>4, <2>1, <2>2 DEF Synced
<1>15. Counted(d)'
  <2>1. c.batch = n \/ (joins > 1 /\ c.batch = None)
    BY <1>0 DEF Counted
  <2>2. n \in Nat /\ n # None
    BY NoneAssumption, BoundAssumption DEF Typed, TypeOK
  <2>3. d.batch = n + 1 \/ (joins > 1 /\ d.batch = None)
    BY <1>4, <2>1, <2>2
  <2>4. QED
    BY <1>2, <2>3 DEF Counted
<1>16. QED
  <2>1. Settled(d)'
    BY <1>2, <1>4 DEF Settled
  <2>2. QED
    BY <1>2, <1>3, <1>10, <1>13, <1>14, <1>15, <2>1, Arrives DEF Typed

\* The position sync: the first one, and after the ground.
LEMMA SendsPosition ==
    ASSUME Typed, OneStart, Queued, Step, SendPosition, Live, NEW c \in Levels,
           Reaches(client, down, c, joins, Level), Newer(c), Counted(c), Synced(c),
           Settled(c)
    PROVE  Followed'
<1>1. PICK p \in Down : p = Packet("position", None) /\ p.type = "position"
  BY Packets
<1>2. /\ down' = Append(down, p) /\ client' = client /\ joins' = joins /\ Level' = Level
      /\ pAt = "position" /\ pAt' = "drain" /\ n' = n
      /\ spawnCol' = spawnCol /\ spawnPending' = spawnPending
  BY <1>1 DEF SendPosition, Send, Live, Failed, reader, spot, Level
<1>3. PICK d \in Levels : d = After(c, p)
  BY AfterTyped
<1>4. /\ d.has = c.has /\ d.join = c.join /\ d.syncs = c.syncs + 1
      /\ d.ground = c.ground /\ d.col = c.col /\ d.batch = c.batch
      /\ d.level = c.level /\ d.dim = c.dim
  BY <1>1, <1>3, AfterFields
<1>5. Right(c, Level)
  BY ReachesHere DEF Typed
<1>6. c.join = 1 => /\ c.col = spawnCol /\ ~spawnPending /\ c.syncs = 0 /\ c.ground
  <2>1. spawnPending \in BOOLEAN
    BY DEF Typed, TypeOK
  <2>2. QED
    BY <1>2, <2>1 DEF Synced
<1>7. Right(d, Level) /\ Fits(c, p, joins)
  <2>1. \A i, j \in DOMAIN d.has : i < j => d.has[i].id < d.has[j].id
    BY <1>4, <1>5 DEF Right
  <2>2. d.join = 1 => d.syncs <= 1 /\ (d.syncs = 1 => d.ground)
    BY <1>4, <1>6
  <2>3. QED
    BY <1>1, <1>4, <1>5, <2>1, <2>2 DEF Right, OneOther, Fits
<1>8. Newer(c)' /\ Counted(c)' /\ Settled(c)'
  <2>1. ~StartBatch /\ ~SendChunk /\ ~SendLogin
    BY <1>2, PacerSends
  <2>2. QED
    BY <1>5, <2>1, NewerKept, CountedKept, SettledKept
<1>9. Newer(d)'
  BY <1>4, <1>8 DEF Newer
<1>10. Counted(d)'
  BY <1>4, <1>8 DEF Counted
<1>11. Synced(d)' /\ Settled(d)'
  BY <1>2, <1>4, <1>6, <1>8 DEF Synced, Settled
<1>12. QED
  BY <1>2, <1>3, <1>7, <1>9, <1>10, <1>11, Arrives DEF Typed

\* chunk_batch_finished: it says how many the client has counted.
LEMMA SendsFinish ==
    ASSUME Typed, OneStart, Queued, Step, FinishBatch, Live, NEW c \in Levels,
           Reaches(client, down, c, joins, Level), Newer(c), Counted(c), Synced(c),
           Settled(c)
    PROVE  Followed'
<1>0. n \in Nat
  BY BoundAssumption DEF Typed, TypeOK
<1>1. PICK p \in Down : p = Packet("finish", n) /\ p.type = "finish" /\ p.val = n
  BY <1>0, Packets
<1>2. /\ down' = Append(down, p) /\ client' = client /\ joins' = joins /\ Level' = Level
      /\ pAt = "finish" /\ pAt' = "count"
  BY <1>1 DEF FinishBatch, Send, Live, Failed, reader, Level
<1>3. PICK d \in Levels : d = After(c, p)
  BY AfterTyped
<1>4. /\ d.has = c.has /\ d.join = c.join /\ d.syncs = c.syncs
      /\ d.ground = c.ground /\ d.col = c.col /\ d.level = c.level /\ d.dim = c.dim
  BY <1>1, <1>3, AfterFields
<1>5. Right(c, Level)
  BY ReachesHere DEF Typed
<1>6. Right(d, Level) /\ Fits(c, p, joins)
  <2>1. p.val = c.batch \/ (joins > 1 /\ c.batch = None)
    BY <1>1, <1>2 DEF Counted
  <2>2. Right(d, Level)
    BY <1>4, <1>5, SameRight
  <2>3. QED
    BY <1>1, <2>1, <2>2 DEF Fits
<1>7. Newer(c)' /\ Synced(c)' /\ Settled(c)'
  <2>1. ~SendChunk /\ ~SendPosition /\ ~SendLogin
    BY <1>2, PacerSends
  <2>2. QED
    BY <1>5, <2>1, NewerKept, SyncedKept, SettledKept
<1>8. Newer(d)'
  BY <1>4, <1>7 DEF Newer
<1>9. Synced(d)' /\ Settled(d)'
  BY <1>4, <1>7 DEF Synced, Settled
<1>10. Counted(d)'
  BY <1>2 DEF Counted
<1>11. QED
  BY <1>2, <1>3, <1>6, <1>8, <1>9, <1>10, Arrives DEF Typed

\* A respawn: a new level, into which older chunks do not come.
LEMMA SendsRespawn ==
    ASSUME Typed, OneStart, Queued, Step, SendRespawn, Live, NEW c \in Levels,
           Reaches(client, down, c, joins, Level), Newer(c), Counted(c), Synced(c),
           Settled(c)
    PROVE  Followed'
<1>1. PICK p \in Down :
          p = Packet("respawn", [dim |-> curDim, level |-> Level]) /\ p.type = "respawn"
          /\ p.val.dim = curDim /\ p.val.level = Level
  BY Packets, RespawnPacket DEF Typed
<1>2. /\ down' = Append(down, p) /\ client' = client /\ joins' = joins /\ Level' = Level
      /\ rAt = "respawn" /\ pAt' = pAt /\ curDim' = curDim
  BY <1>1 DEF SendRespawn, Send, Live, pacer, spot, Level
<1>3. PICK d \in Levels : d = After(c, p)
  BY AfterTyped
<1>4. /\ d.has = << >> /\ d.join = c.join /\ d.syncs = c.syncs
      /\ d.ground = c.ground /\ d.col = c.col /\ d.batch = c.batch
      /\ d.level = Level /\ d.dim = curDim
  BY <1>1, <1>3, AfterFields
<1>5. Right(c, Level)
  BY ReachesHere DEF Typed
<1>6. Right(d, Level) /\ Fits(c, p, joins)
  <2>1. \A i, j \in DOMAIN d.has : d.has[i].id < d.has[j].id
    BY <1>4
  <2>2. d.join = 1 => d.syncs <= 1 /\ (d.syncs = 1 => d.ground)
    BY <1>4, <1>5 DEF Right
  <2>3. Fits(c, p, joins)
    BY <1>1 DEF Fits
  <2>4. QED
    BY <1>4, <2>1, <2>2, <2>3, JoinsGrow DEF Right, OneOther
<1>7. ~StartBatch /\ ~SendChunk /\ ~SendPosition /\ ~SendLogin
  <2>1. ~StartBatch /\ ~SendChunk /\ ~SendPosition
    BY <1>2 DEF SendRespawn, StartBatch, SendChunk, SendPosition, reader
  <2>2. QED
    BY <1>2, <2>1 DEF SendLogin
<1>8. Counted(c)' /\ Synced(c)'
  BY <1>7, CountedKept, SyncedKept
<1>9. Newer(d)'
  BY <1>4 DEF Newer
<1>10. Counted(d)'
  BY <1>4, <1>8 DEF Counted
<1>11. Synced(d)' /\ Settled(d)'
  BY <1>2, <1>4, <1>8 DEF Synced, Settled
<1>12. QED
  BY <1>2, <1>3, <1>6, <1>9, <1>10, <1>11, Arrives DEF Typed

\* start_configuration: the last packet of the level.
LEMMA SendsStartConfiguration ==
    ASSUME Typed, OneStart, Queued, Step, ReadStart, Live, NEW c \in Levels,
           Reaches(client, down, c, joins, Level), Newer(c), Counted(c), Synced(c),
           Settled(c)
    PROVE  Followed'
<1>1. PICK p \in Down : p = Packet("start_configuration", None) /\ p.type = "start_configuration"
  BY Packets
<1>2. /\ down' = Append(down, p) /\ client' = client /\ joins' = joins /\ Level' = Level
      /\ rAt = "read" /\ gate' = "configuring"
  BY <1>1 DEF ReadStart, Reading, Send, Live, Level
<1>3. c = After(c, p)
  BY <1>1, AfterIs
<1>4. Right(c, Level) /\ Fits(c, p, joins)
  BY <1>1, ReachesHere DEF Typed, Fits
<1>5. Newer(c)' /\ Counted(c)' /\ Synced(c)' /\ Settled(c)'
  BY <1>2, <1>4, NewerKept, SettledKept DEF Counted, Synced, Live
<1>6. QED
  BY <1>2, <1>3, <1>4, <1>5, Arrives DEF Typed

\* The login of a rejoin: a new level whose position sync is owed.
LEMMA SendsLogin ==
    ASSUME Typed, OneStart, Queued, Step, SendLogin, NEW c \in Levels,
           Reaches(client, down, c, joins, Level), Newer(c), Counted(c), Synced(c),
           Settled(c)
    PROVE  Followed'
<1>1. /\ rAt = "login" /\ joins > 1 /\ client' = client /\ joins' = joins /\ Level' = Level
      /\ curDim' = curDim /\ Right(c, Level)
      /\ joins \in 1 .. 2 /\ curDim \in Dims /\ spawnCol \in Columns
  BY ScenarioFields, ReachesHere DEF SendLogin, OneStart, Typed, TypeOK, Level, spot
<1>2. CASE over
  <2>1. down' = down /\ ~Live'
    BY <1>2 DEF SendLogin, Live
  <2>2. Newer(c)' /\ Counted(c)' /\ Synced(c)' /\ Settled(c)'
    BY <1>1, <2>1, NewerKept, SettledKept DEF Counted, Synced
  <2>3. Reaches(client, down, c, joins, Level)'
    BY <1>1, <2>1
  <2>4. QED
    BY <2>2, <2>3 DEF Followed
<1>3. CASE ~over
  <2>1. PICK d \in Levels : d = NewLevel(Level, curDim, joins, spawnCol)
    BY <1>1, NewLevelTyped, LevelTyped DEF Typed
  <2>2. PICK p \in Down : p = Packet("login", d) /\ p.type = "login" /\ p.val = d
    BY Packets
  <2>3. down' = Append(down, p)
    BY <1>3, <2>1, <2>2 DEF SendLogin
  <2>4. d = After(c, p)
    BY <2>2, AfterIs
  <2>5. d.has = << >> /\ d.join > 1 /\ d.batch = None /\ d.level = Level /\ d.dim = curDim
    BY <1>1, <2>1 DEF NewLevel
  <2>6. Right(d, Level) /\ Fits(c, p, joins)
    BY <2>2, <2>5, JoinsGrow DEF Right, OneOther, Fits
  <2>7. Newer(d)' /\ Counted(d)' /\ Synced(d)' /\ Settled(d)'
    BY <1>1, <2>5 DEF Newer, Counted, Synced, Settled
  <2>8. QED
    BY <1>1, <2>3, <2>4, <2>6, <2>7, Arrives DEF Typed
<1>4. QED
  BY <1>2, <1>3

\* After every step the level the client will have is right.
LEMMA FollowedNext == ASSUME Typed, OneStart, Queued, Followed, Step PROVE Followed'
<1>1. PICK c \in Levels :
          Reaches(client, down, c, joins, Level) /\ Newer(c) /\ Counted(c) /\ Synced(c)
          /\ Settled(c)
  BY DEF Followed
<1>2. CASE Live /\ (StartBatch \/ SendChunk \/ SendPosition \/ FinishBatch \/ SendRespawn
                    \/ ReadStart)
  BY <1>1, <1>2, SendsStart, SendsChunk, SendsPosition, SendsFinish, SendsRespawn,
     SendsStartConfiguration
<1>3. CASE SendLogin
  BY <1>1, <1>3, SendsLogin
<1>4. CASE ClientReads
  <2>1. /\ down # << >> /\ down' = Tail(down) /\ client' = After(client, Head(down))
        /\ pAt' = pAt /\ rAt' = rAt /\ gate' = gate
    BY <1>4 DEF ClientReads, pacer, reader
  <2>2. Reaches(client', down', c, joins, Level)
    BY <1>1, <2>1, ReachesTail DEF Typed
  <2>3. ~(Live /\ (StartBatch \/ SendChunk \/ SendPosition)) /\ ~SendLogin
    <3>1. StartBatch \/ SendPosition \/ SendChunk => client' = client /\ pAt' # pAt
      BY DEF StartBatch, SendChunk, SendPosition
    <3>2. SendLogin => rAt' # rAt
      BY DEF SendLogin
    <3>3. QED
      BY <2>1, <3>1, <3>2
  <2>4. QED
    BY <1>1, <2>2, <2>3, Stays
<1>5. CASE /\ ~(Live /\ (StartBatch \/ SendChunk \/ SendPosition \/ FinishBatch \/ SendRespawn
                         \/ ReadStart))
           /\ ~SendLogin /\ ~ClientReads
  <2>1. down' = down /\ client' = client
    <3>1. CASE StartBatch \/ SendChunk \/ SendPosition \/ FinishBatch
      BY <1>5, <3>1 DEF StartBatch, SendChunk, SendPosition, FinishBatch, Send, Live
    <3>2. CASE SendRespawn \/ ReadStart
      BY <1>5, <3>2 DEF SendRespawn, ReadStart, Send, Live
    <3>3. CASE ~(StartBatch \/ SendChunk \/ SendPosition \/ FinishBatch \/ SendRespawn
                 \/ ReadStart)
      BY <1>5, <3>3
         DEF Step, Reader, Queueing, Pacer, Acker, ReadChunk, ReadDimension, ReadRejoin,
             QueuePromise, QueueJob, ReaderExit, Render, Tick, Hold, GiveUp, StopHolding, Take,
             Drained, CheckDim, PacerStops, SpawnSync, CountBatch, DecodeError, Release,
             Stamp, Expire, AckerExit, End, Idle, ReadAck, ReadConfigured, peer, vars
    <3>4. QED
      BY <3>1, <3>2, <3>3
  <2>2. Reaches(client', down', c, joins, Level)
    BY <1>1, <2>1
  <2>3. QED
    BY <1>1, <1>5, <2>2, Stays
<1>6. QED
  BY <1>2, <1>3, <1>4, <1>5

-----------------------------------------------------------------------------
(* The theorems.                                                           *)

\* A session begins with an empty level and nothing on its way.
LEMMA Start == ASSUME Init PROVE Inv
<1>1. Typed /\ gate = "play" /\ rAt = "read" /\ pAt = "tick" /\ aAt = "read" /\ unacked = 0
      /\ down = << >> /\ up = << >> /\ renderQ = << >>
  BY TypedInit DEF Init
<1>2. OneStart
  BY <1>1 DEF OneStart
<1>3. Window
  <2>1. Outstanding = 0 /\ lost = 0
    <3>1. OfType(down, "finish") = {} /\ OfType(up, "ack") = {}
      BY <1>1 DEF OfType
    <3>2. \A S : S = {} => Cardinality(S) = 0
      BY FS_EmptySet
    <3>3. QED
      <4>1. Cardinality(OfType(down, "finish")) = 0 /\ Cardinality(OfType(up, "ack")) = 0
        BY <3>1, <3>2
      <4>2. InFlight = 0 /\ Releasing = 0 /\ lost = 0
        BY <1>1, <4>1 DEF InFlight, Releasing, Init
      <4>3. QED
        BY <4>2, OutstandingIs
  <2>2. QED
    BY <1>1, <2>1, BoundAssumption DEF Window, Counting
<1>4. Queued
  BY <1>1 DEF Queued
<1>5. Followed
  <2>1. PICK c \in Levels : c = NewLevel(1, curDim, 1, spawnCol) /\ c = client
    <3>1. curDim \in Dims /\ spawnCol \in Columns
      BY <1>1 DEF Typed, TypeOK
    <3>2. QED
      BY <3>1, NewLevelTyped DEF Init
  <2>2. /\ c.has = << >> /\ c.join = 1 /\ c.col = spawnCol /\ c.batch = None /\ c.syncs = 0
        /\ ~c.ground /\ c.level = Level /\ c.dim = curDim
    BY <2>1 DEF NewLevel, Init, Level
  <2>3. Right(c, Level)
    BY <1>1, <2>2, LevelTyped DEF Right, OneOther, Typed
  <2>4. Reaches(client, down, c, joins, Level)
    BY <1>1, <2>1, <2>3, ReachesNothing
  <2>5. Newer(c) /\ Counted(c) /\ Synced(c) /\ Settled(c)
    BY <1>1, <2>2 DEF Newer, Counted, Synced, Settled
  <2>6. QED
    BY <2>4, <2>5 DEF Followed
<1>6. QED
  BY <1>1, <1>2, <1>3, <1>4, <1>5 DEF Inv

\* A step that changes nothing changes nothing of it.
LEMMA Stutters == ASSUME Inv, UNCHANGED vars PROVE Inv'
<1> USE DEF vars, reader, queues, pacer, window, spot, peer
<1>1. Typed'
  BY DEF Inv, Typed, TypeOK
<1>2. OneStart'
  BY DEF Inv, OneStart
<1>3. Window'
  BY DEF Inv, Window, Outstanding, Counting
<1>4. Queued'
  BY DEF Inv, Queued, Passed
<1>5. Followed'
  BY DEF Inv, Followed, Newer, Counted, Synced, Settled, Level, Passed, Live
<1>6. QED
  BY <1>1, <1>2, <1>3, <1>4, <1>5 DEF Inv

\* The invariant holds of every session.
LEMMA Invariant == Spec => []Inv
<1>1. Init => Inv
  BY Start
<1>2. Inv /\ [Next]_vars => Inv'
  <2>1. Inv /\ Next => Inv'
    BY TypedNext, OneStartNext, WindowNext, QueuedNext, FollowedNext DEF Inv, Next
  <2>2. QED
    BY <2>1, Stutters
<1>3. QED
  BY <1>1, <1>2, PTL DEF Spec

\* What the invariant says of the level to come it says of the one it has.
LEMMA PacedNow == ASSUME Inv PROVE PacedInOrder
<1>1. PICK c \in Levels : Reaches(client, down, c, joins, Level)
  BY DEF Inv, Followed
<1>2. Right(client, Level) /\ (down # << >> => Fits(client, Head(down), joins))
  BY <1>1, ReachesHere DEF Inv, Typed
<1>3. InArrivalOrder
  BY <1>2 DEF InArrivalOrder, Right
<1>4. BatchesCounted
  BY <1>2 DEF BatchesCounted, Fits
<1>5. InFlightBounded
  <2>1. /\ Outstanding <= unacked + Counting + lost /\ unacked <= MaxUnacked
        /\ pAt \notin {"tick", "hold", "reset", "exit"} => unacked < MaxUnacked
    BY DEF Inv, Window
  <2>2. Outstanding \in Nat /\ unacked \in Int /\ lost \in Nat /\ MaxUnacked \in Nat
    BY OutstandingTyped, BoundAssumption DEF Inv, Typed, TypeOK
  <2>3. Counting \in {0, 1} /\ (Counting = 1 => pAt = "count")
    BY DEF Counting
  <2>4. QED
    BY <2>1, <2>2, <2>3 DEF InFlightBounded
<1>6. QED
  BY <1>3, <1>4, <1>5 DEF PacedInOrder, Inv, Typed

\* Pacing: whichever worker renders first and however acknowledgements, hold
\* deadlines, dimension switches and reconfigurations interleave, the client
\* gets the chunks in the world's order, in batches whose size it is told
\* rightly, and besides the batches a hold deadline gave up on never more than
\* maxUnackedBatch (chunkPacer, and the ack handling of play).
THEOREM ChunksPaced == Spec => []PacedInOrder
<1>1. Inv => PacedInOrder
  BY PacedNow
<1>2. QED
  BY <1>1, Invariant, PTL

\* The first join's position sync is sent once, and the client has the chunk
\* it stands on by then, wherever the promises for the spawn column are in the
\* queue and whatever the dimension is by the time they are kept (spawnSync).
THEOREM SpawnSynced == Spec => []SyncedOnGround
<1>1. ASSUME Inv PROVE SyncedOnGround
  <2>1. PICK c \in Levels : Reaches(client, down, c, joins, Level)
    BY <1>1 DEF Inv, Followed
  <2>2. Right(client, Level)
    BY <1>1, <2>1, ReachesHere DEF Inv, Typed
  <2>3. QED
    BY <2>2 DEF SyncedOnGround, Right
<1>2. Inv => SyncedOnGround
  BY <1>1
<1>3. QED
  BY <1>2, Invariant, PTL

\* Whatever is queued and rendered when the player changes dimension or is
\* configured again, one chunk of another dimension at most gets into the level
\* the client then has (chunkPacer's check, and the respawn after curDim).
THEOREM StraysOnce == Spec => []OneStray
<1>1. ASSUME Inv PROVE OneStray
  <2>1. PICK c \in Levels : Reaches(client, down, c, joins, Level)
    BY <1>1 DEF Inv, Followed
  <2>2. Right(client, Level)
    BY <1>1, <2>1, ReachesHere DEF Inv, Typed
  <2>3. QED
    BY <2>2 DEF OneStray, Right, OneOther
<1>2. Inv => OneStray
  BY <1>1
<1>3. QED
  BY <1>2, Invariant, PTL

=============================================================================
