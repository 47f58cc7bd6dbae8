---------------------------- MODULE RehomeProofs ----------------------------
(***************************************************************************)
(* Theorems about Rehome, for any number of handovers, pings, moves and    *)
(* chat sessions: what the goroutines of play() write while the player     *)
(* changes pods arrives whole and at a pod that listens.  Inv says where   *)
(* each goroutine is, who holds Backend.mu there and which connection it   *)
(* has in hand, and that only the holder leaves a frame half written.      *)
(***************************************************************************)
EXTENDS Rehome, TLAPS, WellFoundedInduction

Unit == [type : {"move", "session", "want", "bye", "pong"}, val : Nat,
         part : {"header", "payload", "whole"}]

\* The places of each goroutine.
Places ==
    /\ at["reader"] \in {"read", "pong", "dial", "swap", "close", "chat", "want", "write",
                         "half", "exit"}
    /\ at["client"] \in {"read", "write", "half", "exit"}
    /\ at["play"] \in {"wait", "write", "half", "get", "closing", "done"}

\* Backend.mu is held from header to payload, and the connection stays the
\* one in force as long; a frame in hand is one on its way out.
Locked ==
    \A g \in Goroutines :
        /\ at[g] = "half" <=> lock = g
        /\ at[g] = "half" => got[g] = conn
        /\ at[g] \in {"write", "half"} <=> frame[g] # None

\* Connections come in the order of their handovers, each one new.
Dialled ==
    /\ conn <= rehomes
    /\ at["reader"] \in {"dial", "swap"} => conn < rehomes
    /\ at["reader"] = "swap" => got["reader"] = rehomes
    /\ at["reader"] = "close" => got["reader"] # conn
    /\ at["reader"] = "pong" => got["reader"] = conn
    /\ \A c \in Conns :
          c > rehomes \/ (c = rehomes /\ at["reader"] = "dial")
            => c \notin open /\ wire[c] = << >>

\* Until play is done the connection in force is open, and so is the next.
InForce ==
    at["play"] # "done" => conn \in open /\ (at["reader"] = "swap" => rehomes \in open)

\* A header that waits for its payload is the lock holder's, or its
\* connection has been closed.
HalfWritten(c, i) ==
    /\ LastWritten(wire[c], i)
    /\ c \in open => /\ lock # None /\ c = conn
                     /\ wire[c][i] = Part(frame[lock], "header")

Streams ==
    /\ wire \in [Conns -> Seq(Unit)]
    /\ \A c \in Conns : \A i \in DOMAIN wire[c] :
          wire[c][i].part = "header" => PayloadNext(wire[c], i) \/ HalfWritten(c, i)

Inv == TypeOK /\ Places /\ Locked /\ Dialled /\ InForce /\ Streams

-----------------------------------------------------------------------------
\* Nobody holds the session of the player back from the pod in force: it has
\* been told, or it is about to be.
Telling(g) == at[g] \in {"write", "half"} /\ frame[g].type = "session"
ToldOnce(c) == \E i \in DOMAIN wire[c] : wire[c][i].type = "session" /\ wire[c][i].part = "payload"
SessionKnown ==
    /\ \A g \in Goroutines : Telling(g) => 0 < frame[g].val /\ frame[g].val <= session
    /\ \A c \in Conns : \A i \in DOMAIN wire[c] :
          wire[c][i].type = "session" => 0 < wire[c][i].val /\ wire[c][i].val <= session
    /\ (session > 0 /\ at["play"] = "wait") =>
          \/ ToldOnce(conn)
          \/ Telling("client") \/ Telling("reader")
          \/ at["reader"] \in {"close", "chat"}
-----------------------------------------------------------------------------
(* What one more unit does to a stream.                                    *)

\* A payload that follows its header does so whatever is written next.
LEMMA AppendKeepsPayload ==
    ASSUME NEW s \in Seq(Unit), NEW u \in Unit, NEW i \in DOMAIN s, PayloadNext(s, i)
    PROVE  PayloadNext(Append(s, u), i)
<1> PICK j \in i + 1 .. Len(s) :
        PongsTo(s, i, j) /\ s[j] = [s[i] EXCEPT !.part = "payload"]
  BY DEF PayloadNext
<1>1. /\ i \in 1 .. Len(s) /\ Len(s) \in Nat /\ Len(Append(s, u)) = Len(s) + 1
      /\ j \in i + 1 .. Len(Append(s, u))
  OBVIOUS
<1>2. \A k \in 1 .. Len(s) : Append(s, u)[k] = s[k]
  OBVIOUS
<1>3. Append(s, u)[j] = [Append(s, u)[i] EXCEPT !.part = "payload"]
  BY <1>1, <1>2
<1>4. PongsTo(Append(s, u), i, j)
  BY <1>1, <1>2 DEF PongsTo
<1>5. QED
  BY <1>1, <1>3, <1>4 DEF PayloadNext

\* A pong leaves the header before it the last thing written.
LEMMA PongKeepsLast ==
    ASSUME NEW s \in Seq(Unit), NEW u \in Unit, u.part = "whole",
           NEW i \in DOMAIN s, LastWritten(s, i)
    PROVE  LastWritten(Append(s, u), i)
<1>1. i \in 1 .. Len(s) /\ Len(s) \in Nat /\ Len(Append(s, u)) = Len(s) + 1
  OBVIOUS
<1>2. Append(s, u)[Len(s) + 1] = u /\ \A k \in 1 .. Len(s) : Append(s, u)[k] = s[k]
  OBVIOUS
<1>3. QED
  BY <1>1, <1>2 DEF LastWritten, PongsTo

\* A payload written after the last header is that header's.
LEMMA PayloadAnswers ==
    ASSUME NEW s \in Seq(Unit), NEW i \in DOMAIN s, LastWritten(s, i),
           NEW u \in Unit, u = [s[i] EXCEPT !.part = "payload"]
    PROVE  PayloadNext(Append(s, u), i)
<1>1. i \in 1 .. Len(s) /\ Len(s) \in Nat /\ Len(Append(s, u)) = Len(s) + 1
  OBVIOUS
<1>2. Append(s, u)[Len(s) + 1] = u /\ \A k \in 1 .. Len(s) : Append(s, u)[k] = s[k]
  OBVIOUS
<1>3. PongsTo(Append(s, u), i, Len(s) + 1)
  BY <1>1, <1>2 DEF LastWritten, PongsTo
<1>4. Append(s, u)[Len(s) + 1] = [Append(s, u)[i] EXCEPT !.part = "payload"]
  BY <1>1, <1>2
<1>5. Len(s) + 1 \in i + 1 .. Len(Append(s, u))
  BY <1>1
<1>6. QED
  BY <1>3, <1>4, <1>5 DEF PayloadNext

\* A header that was just written is the last thing written.
LEMMA HeaderIsLast ==
    ASSUME NEW s \in Seq(Unit), NEW u \in Unit
    PROVE  LastWritten(Append(s, u), Len(s) + 1)
BY DEF LastWritten, PongsTo

\* Both parts of a frame are units of the stream.
LEMMA Parts ==
    ASSUME NEW f \in Frames, NEW part \in {"header", "payload"}
    PROVE  /\ Part(f, part) \in Unit /\ Part(f, part).part = part
           /\ Part(f, part).type = f.type /\ Part(f, part).val = f.val
           /\ Part(f, "payload") = [Part(f, "header") EXCEPT !.part = "payload"]
BY BoundAssumption DEF Frames, Part, Unit

\* A pong is one unit.
LEMMA PongUnit ==
    ASSUME NEW n \in Nat
    PROVE  /\ Part(Frame("pong", n), "whole") \in Unit
           /\ Part(Frame("pong", n), "whole").part = "whole"
           /\ Part(Frame("pong", n), "whole").type = "pong"
BY DEF Part, Frame, Unit

\* Writing adds a unit to an open connection, and to no other.
LEMMA PutShape ==
    ASSUME wire \in [Conns -> Seq(Unit)], NEW c \in Conns, NEW u \in Unit, Put(c, u)
    PROVE  /\ wire' \in [Conns -> Seq(Unit)]
           /\ \A d \in Conns : wire'[d] = wire[d] \/ (d = c /\ c \in open)
           /\ c \in open => wire'[c] = Append(wire[c], u)
<1>1. Append(wire[c], u) \in Seq(Unit)
  OBVIOUS
<1>2. QED
  BY <1>1 DEF Put

-----------------------------------------------------------------------------
(* Where everything is.                                                    *)

\* What the goroutines write are frames.
LEMMA FrameTyped ==
    /\ \A type \in {"move", "want", "bye"} : Frame(type, 0) \in Frames
    /\ \A n \in 0 .. MaxSessions : Frame("session", n) \in Frames
BY BoundAssumption DEF Frame, Frames

\* Every goroutine starts in a place of its own.
LEMMA TypeInit == Init => TypeOK /\ Places
<1> SUFFICES ASSUME Init PROVE TypeOK /\ Places
  OBVIOUS
<1>1. session \in 0 .. MaxSessions
  BY BoundAssumption DEF Init
<1>2. crossed \in BOOLEAN
  BY Zenon DEF Init
<1>3. QED
  BY <1>1, <1>2, BoundAssumption DEF Init, TypeOK, Places, Conns, Goroutines

\* No step takes a variable out of its type, or a goroutine out of its places.
LEMMA TypeNext ==
    ASSUME TypeOK, Places, Next PROVE TypeOK' /\ Places'
<1> USE DEF Goto, counters
<1>1. \A g \in Goroutines : frame[g] \in Frames \cup {None}
  BY DEF TypeOK
<1>2. ASSUME NEW g \in Goroutines, WriteHeader(g) PROVE TypeOK' /\ Places'
  BY <1>2 DEF WriteHeader, Put, TypeOK, Places, Goroutines
<1>3. ASSUME NEW g \in Goroutines, WritePayload(g) PROVE TypeOK' /\ Places'
  BY <1>3 DEF WritePayload, After, Put, TypeOK, Places, Goroutines
<1>4. CASE ReadPing \/ WritePong
  BY <1>4, BoundAssumption
     DEF ReadPing, WritePong, GetConn, Put, TypeOK, Places, Goroutines
<1>5. CASE ReadRehome \/ WorldCloses \/ ReadError
  BY <1>5, BoundAssumption DEF ReadRehome, WorldCloses, ReadError, TypeOK, Places, Goroutines
<1>6. CASE DialResume
  <2>1. got' \in [Goroutines -> Conns] /\ open' \subseteq Conns
    BY <1>6 DEF DialResume, TypeOK, Goroutines, Conns
  <2>2. at'["reader"] \in {"swap", "exit"} /\ at' = [at EXCEPT !["reader"] = at'["reader"]]
    BY <1>6 DEF DialResume, TypeOK, Goroutines
  <2>3. QED
    BY <1>6, <2>1, <2>2 DEF DialResume, TypeOK, Places, Goroutines
<1>7. CASE Swap \/ CloseOld
  BY <1>7 DEF Swap, CloseOld, TypeOK, Places, Goroutines
<1>8. CASE CurrentSession \/ Want
  <2>1. Frame("session", session) \in Frames /\ Frame("want", 0) \in Frames
    BY FrameTyped DEF TypeOK
  <2>2. CASE CurrentSession
    BY <2>1, <2>2 DEF CurrentSession, TypeOK, Places, Goroutines
  <2>3. CASE Want
    BY <2>1, <2>3 DEF Want, TypeOK, Places, Goroutines
  <2>4. QED
    BY <1>8, <2>2, <2>3
<1>9. CASE ReadMove \/ ReadEOF
  BY <1>9, FrameTyped, BoundAssumption DEF ReadMove, ReadEOF, TypeOK, Places, Goroutines
<1>10. CASE ReadChatSession
  <2>1. session' \in 0 .. MaxSessions
    BY <1>10, BoundAssumption DEF ReadChatSession, TypeOK
  <2>2. Frame("session", session') \in Frames
    BY <2>1, FrameTyped
  <2>3. crossed' \in BOOLEAN
    BY <1>10 DEF ReadChatSession, AboutToTell
  <2>4. QED
    BY <1>10, <2>1, <2>2, <2>3 DEF ReadChatSession, TypeOK, Places, Goroutines
<1>11. CASE FirstError \/ GetCurrent \/ CloseCurrent
  BY <1>11, FrameTyped DEF FirstError, GetCurrent, GetConn, CloseCurrent, TypeOK, Places,
                           Goroutines
<1>12. CASE UNCHANGED vars
  BY <1>12 DEF vars, TypeOK, Places
<1>13. QED
  BY <1>2, <1>3, <1>4, <1>5, <1>6, <1>7, <1>8, <1>9, <1>10, <1>11, <1>12
     DEF Next, WorldReader, ClientReader, Play, Idle, Goroutines

\* The frame a goroutine goes to write is one.
LEMMA LockedNext ==
    ASSUME TypeOK, Places, Locked, Next PROVE Locked'
<1> USE DEF Goto, counters
<1> USE NoneAssumption
<1>1. ASSUME NEW g \in Goroutines, WriteHeader(g) PROVE Locked'
  BY <1>1 DEF WriteHeader, TypeOK, Locked, Goroutines
<1>2. ASSUME NEW g \in Goroutines, WritePayload(g) PROVE Locked'
  <2>1. at' = [at EXCEPT ![g] = After(g)] /\ After(g) \notin {"write", "half"}
    BY <1>2 DEF WritePayload, After
  <2>2. QED
    BY <1>2, <2>1 DEF WritePayload, TypeOK, Locked, Goroutines
<1>3. CASE ReadPing \/ WritePong
  BY <1>3 DEF ReadPing, WritePong, GetConn, TypeOK, Locked, Goroutines
<1>4. CASE ReadRehome \/ WorldCloses \/ ReadError \/ ReadEOF
  BY <1>4 DEF ReadRehome, WorldCloses, ReadError, ReadEOF, TypeOK, Locked, Goroutines
<1>5. CASE DialResume
  BY <1>5 DEF DialResume, TypeOK, Locked, Goroutines
<1>6. CASE Swap
  BY <1>6 DEF Swap, TypeOK, Locked, Goroutines
<1>7. CASE CloseOld \/ CloseCurrent \/ GetCurrent
  BY <1>7 DEF CloseOld, CloseCurrent, GetCurrent, GetConn, TypeOK, Locked, Goroutines
<1>8. CASE CurrentSession
  <2>1. Frame("session", session) # None
    BY FrameTyped DEF TypeOK
  <2>2. QED
    BY <1>8, <2>1 DEF CurrentSession, TypeOK, Locked, Goroutines
<1>9. CASE Want \/ ReadMove \/ FirstError
  <2>1. \A type \in {"move", "want", "bye"} : Frame(type, 0) # None
    BY FrameTyped
  <2>2. QED
    BY <1>9, <2>1 DEF Want, ReadMove, FirstError, TypeOK, Locked, Goroutines
<1>10. CASE ReadChatSession
  <2>1. session' \in 0 .. MaxSessions
    BY <1>10, BoundAssumption DEF ReadChatSession, TypeOK
  <2>2. Frame("session", session') # None
    BY <2>1, FrameTyped
  <2>3. QED
    BY <1>10, <2>2 DEF ReadChatSession, TypeOK, Locked, Goroutines
<1>11. CASE UNCHANGED vars
  BY <1>11 DEF vars, Locked
<1>12. QED
  BY <1>1, <1>2, <1>3, <1>4, <1>5, <1>6, <1>7, <1>8, <1>9, <1>10, <1>11
     DEF Next, WorldReader, ClientReader, Play, Idle, Goroutines

\* A step that dials nothing, swaps nothing and closes nothing.
LEMMA SameConnections ==
    ASSUME TypeOK, Dialled, InForce, UNCHANGED <<conn, open, rehomes>>,
           got'["reader"] = got["reader"] \/ at'["reader"] \notin {"swap", "close"},
           at'["reader"] \in {"swap", "close"} => at["reader"] = at'["reader"],
           at'["reader"] = "dial" => at["reader"] = "dial",
           at["reader"] = "dial" => at'["reader"] = "dial",
           at'["reader"] = "pong" => got'["reader"] = conn,
           at'["play"] # "done" => at["play"] # "done",
           \A c \in Conns : wire'[c] = wire[c] \/ c \in open
    PROVE  Dialled' /\ InForce'
BY DEF TypeOK, Dialled, InForce

\* Swap puts a newer, open connection in force, and nothing else does.
LEMMA DialledNext ==
    ASSUME TypeOK, Places, Locked, Dialled, InForce, Streams, Next
    PROVE  Dialled' /\ InForce'
<1> USE DEF Goto, counters
<1>1. ASSUME NEW g \in Goroutines, WriteHeader(g) PROVE Dialled' /\ InForce'
  <2>1. \A c \in Conns : wire'[c] = wire[c] \/ c \in open
    BY <1>1 DEF WriteHeader, Put, Streams
  <2>2. /\ \/ at["reader"] = at'["reader"]
           \/ at["reader"] = "write" /\ at'["reader"] = "half"
        /\ at["play"] = at'["play"] \/ at["play"] = "write"
        /\ got'["reader"] = got["reader"] \/ at["reader"] = "write"
    BY <1>1 DEF WriteHeader, TypeOK, Goroutines
  <2>3. at'["reader"] = "pong" => got'["reader"] = conn
    BY <2>2 DEF Dialled
  <2>4. UNCHANGED <<conn, open, rehomes>>
    BY <1>1 DEF WriteHeader
  <2>5. QED
    BY <2>1, <2>2, <2>3, <2>4, SameConnections
<1>2. ASSUME NEW g \in Goroutines, WritePayload(g) PROVE Dialled' /\ InForce'
  <2>1. \A c \in Conns : wire'[c] = wire[c] \/ c \in open
    BY <1>2 DEF WritePayload, Put, Streams
  <2>2. /\ at' = [at EXCEPT ![g] = After(g)]
        /\ After(g) \notin {"swap", "close", "dial", "pong"}
        /\ g = "play" => After(g) # "done"
    BY <1>2 DEF WritePayload, After
  <2>3. /\ \/ at["reader"] = at'["reader"]
           \/ at["reader"] = "half" /\ at'["reader"] \notin {"swap", "close", "dial", "pong"}
        /\ at["play"] = at'["play"] \/ at["play"] = "half"
        /\ UNCHANGED <<conn, open, rehomes, got>>
    BY <1>2, <2>2 DEF WritePayload, TypeOK, Goroutines
  <2>4. at'["reader"] = "pong" => got'["reader"] = conn
    BY <2>3 DEF Dialled
  <2>5. QED
    BY <2>1, <2>3, <2>4, SameConnections
<1>3. CASE ReadPing
  BY <1>3, SameConnections DEF ReadPing, GetConn, TypeOK, Goroutines
<1>4. CASE WritePong
  <2>1. \A c \in Conns : wire'[c] = wire[c] \/ c \in open
    BY <1>4 DEF WritePong, Put, Streams
  <2>2. QED
    BY <1>4, <2>1, SameConnections DEF WritePong, TypeOK, Goroutines
<1>5. CASE ReadRehome
  <2>1. /\ conn \in 0 .. rehomes /\ rehomes \in Nat /\ rehomes' = rehomes + 1
        /\ at'["reader"] = "dial"
    BY <1>5, BoundAssumption DEF ReadRehome, Dialled, TypeOK, Conns, Goroutines
  <2>2. Dialled'
    BY <1>5, <2>1 DEF ReadRehome, Dialled, Conns
  <2>3. InForce'
    BY <1>5, <2>1 DEF ReadRehome, InForce, TypeOK, Goroutines
  <2>4. QED
    BY <2>2, <2>3
<1>6. CASE DialResume
  <2>1. CASE at'["reader"] = "swap"
    <3>1. /\ got'["reader"] = rehomes /\ open' = open \cup {rehomes}
          /\ UNCHANGED <<conn, wire, rehomes>> /\ at'["play"] = at["play"]
      BY <1>6, <2>1 DEF DialResume, TypeOK, Goroutines
    <3>2. conn < rehomes /\ at["reader"] = "dial" /\ rehomes \in Nat /\ Conns \subseteq Nat
      BY <1>6 DEF DialResume, Dialled, TypeOK, Conns
    <3>3. Dialled'
      BY <2>1, <3>1, <3>2 DEF Dialled
    <3>4. InForce'
      BY <2>1, <3>1, <3>2 DEF InForce
    <3>5. QED
      BY <3>3, <3>4
  <2>2. CASE at'["reader"] = "exit"
    <3>1. /\ UNCHANGED <<conn, open, wire, rehomes>> /\ at'["play"] = at["play"]
      BY <1>6, <2>2 DEF DialResume, TypeOK, Goroutines
    <3>2. QED
      BY <1>6, <2>2, <3>1 DEF DialResume, Dialled, InForce
  <2>3. QED
    BY <1>6, <2>1, <2>2 DEF DialResume, TypeOK, Goroutines
<1>7. CASE Swap
  <2>1. /\ conn' = rehomes /\ got'["reader"] = conn /\ conn # rehomes
        /\ at'["reader"] = "close" /\ at'["play"] = at["play"]
        /\ UNCHANGED <<open, wire, rehomes>>
    BY <1>7 DEF Swap, Dialled, TypeOK, Goroutines, Conns
  <2>2. rehomes \in Nat
    BY DEF TypeOK
  <2>3. QED
    BY <1>7, <2>1, <2>2 DEF Swap, Dialled, InForce
<1>8. CASE CloseOld
  <2>1. /\ open' = open \ {got["reader"]} /\ got["reader"] # conn
        /\ at'["reader"] = "chat" /\ at'["play"] = at["play"]
        /\ UNCHANGED <<conn, got, wire, rehomes>>
    BY <1>8 DEF CloseOld, Dialled, TypeOK, Goroutines
  <2>2. QED
    BY <1>8, <2>1 DEF CloseOld, Dialled, InForce
<1>9. CASE CloseCurrent
  BY <1>9 DEF CloseCurrent, Dialled, InForce, TypeOK, Goroutines
<1>10. CASE WorldCloses \/ ReadError \/ ReadEOF
  BY <1>10, SameConnections DEF WorldCloses, ReadError, ReadEOF, Dialled, TypeOK, Goroutines
<1>11. CASE CurrentSession \/ Want
  BY <1>11, SameConnections DEF CurrentSession, Want, Dialled, TypeOK, Goroutines
<1>12. CASE ReadMove \/ ReadChatSession
  BY <1>12, SameConnections DEF ReadMove, ReadChatSession, Dialled, TypeOK, Goroutines
<1>13. CASE FirstError \/ GetCurrent
  BY <1>13, SameConnections DEF FirstError, GetCurrent, GetConn, Dialled, TypeOK, Goroutines
<1>14. CASE UNCHANGED vars
  BY <1>14 DEF vars, Dialled, InForce
<1>15. QED
  BY <1>1, <1>2, <1>3, <1>4, <1>5, <1>6, <1>7, <1>8, <1>9, <1>10, <1>11, <1>12, <1>13, <1>14
     DEF Next, WorldReader, ClientReader, Play, Idle, Goroutines

-----------------------------------------------------------------------------
(* Frames stay whole.                                                      *)

\* A step that writes nothing and leaves a frame being written alone.
LEMMA StreamsKept ==
    ASSUME Streams, UNCHANGED wire, \A c \in Conns : c \in open' => c \in open \/ wire[c] = << >>,
           lock # None => UNCHANGED <<lock, conn>> /\ frame'[lock] = frame[lock]
    PROVE  Streams'
BY DEF Streams, HalfWritten

\* A header is written by the holder of the lock, behind whole frames.
LEMMA StreamsHeader ==
    ASSUME Inv, NEW g \in Goroutines, WriteHeader(g) PROVE Streams'
<1> DEFINE u == Part(frame[g], "header")
<1>1. frame[g] \in Frames /\ conn \in Conns
  BY DEF WriteHeader, Inv, TypeOK, Locked
<1>2. u \in Unit /\ u.part = "header"
  BY <1>1, Parts
<1>3. /\ wire' \in [Conns -> Seq(Unit)]
      /\ \A d \in Conns : wire'[d] = wire[d] \/ (d = conn /\ conn \in open)
      /\ conn \in open => wire'[conn] = Append(wire[conn], u)
  BY <1>1, <1>2, PutShape DEF WriteHeader, Inv, Streams
<1>4. lock = None /\ lock' = g /\ UNCHANGED <<conn, open, frame>> /\ lock' # None
  BY NoneAssumption DEF WriteHeader
<1>5. ASSUME NEW c \in Conns, NEW i \in DOMAIN wire'[c], wire'[c][i].part = "header"
      PROVE  PayloadNext(wire'[c], i) \/ HalfWritten(c, i)'
  <2>1. CASE wire'[c] = wire[c]
    <3>1. PayloadNext(wire[c], i) \/ (LastWritten(wire[c], i) /\ c \notin open)
      BY <1>4, <1>5, <2>1 DEF Inv, Streams, HalfWritten
    <3>2. QED
      BY <1>4, <2>1, <3>1 DEF HalfWritten
  <2>2. CASE c = conn /\ conn \in open
    <3>1. wire[c] \in Seq(Unit) /\ wire'[c] = Append(wire[c], u)
      BY <1>3, <2>2 DEF Inv, Streams
    <3>2. CASE i = Len(wire[c]) + 1
      <4>1. LastWritten(wire'[c], i) /\ wire'[c][i] = u
        BY <1>2, <3>1, <3>2, HeaderIsLast
      <4>2. QED
        BY <1>4, <2>2, <4>1 DEF HalfWritten
    <3>3. CASE i # Len(wire[c]) + 1
      <4>1. i \in DOMAIN wire[c] /\ wire'[c][i] = wire[c][i]
        BY <3>1, <3>3
      <4>2. PayloadNext(wire[c], i)
        BY <1>4, <1>5, <2>2, <4>1 DEF Inv, Streams, HalfWritten
      <4>3. QED
        BY <1>2, <3>1, <4>1, <4>2, AppendKeepsPayload
    <3>4. QED
      BY <3>2, <3>3
  <2>3. QED
    BY <1>3, <2>1, <2>2
<1>6. QED
  BY <1>3, <1>5 DEF Streams

\* Its payload follows, on the same connection.
LEMMA StreamsPayload ==
    ASSUME Inv, NEW g \in Goroutines, WritePayload(g) PROVE Streams'
<1> DEFINE u == Part(frame[g], "payload")
<1>1. frame[g] \in Frames /\ conn \in Conns /\ got[g] = conn /\ lock = g
  BY DEF WritePayload, Inv, TypeOK, Locked
<1>2. u \in Unit /\ u.part = "payload"
      /\ u = [Part(frame[g], "header") EXCEPT !.part = "payload"]
  BY <1>1, Parts
<1>3. /\ wire' \in [Conns -> Seq(Unit)]
      /\ \A d \in Conns : wire'[d] = wire[d] \/ (d = conn /\ conn \in open)
      /\ conn \in open => wire'[conn] = Append(wire[conn], u)
  BY <1>1, <1>2, PutShape DEF WritePayload, Inv, Streams
<1>4. UNCHANGED <<conn, open>>
  BY DEF WritePayload
<1>5. ASSUME NEW c \in Conns, NEW i \in DOMAIN wire'[c], wire'[c][i].part = "header"
      PROVE  PayloadNext(wire'[c], i) \/ HalfWritten(c, i)'
  <2>1. CASE c = conn /\ conn \in open
    <3>1. wire[c] \in Seq(Unit) /\ wire'[c] = Append(wire[c], u)
      BY <1>3, <2>1 DEF Inv, Streams
    <3>2. i \in DOMAIN wire[c] /\ wire'[c][i] = wire[c][i]
      BY <1>2, <1>5, <3>1
    <3>3. CASE PayloadNext(wire[c], i)
      BY <1>2, <3>1, <3>2, <3>3, AppendKeepsPayload
    <3>4. CASE HalfWritten(c, i)
      <4>1. LastWritten(wire[c], i) /\ wire[c][i] = Part(frame[g], "header")
        BY <1>1, <2>1, <3>4 DEF HalfWritten
      <4>2. QED
        BY <1>2, <3>1, <3>2, <4>1, PayloadAnswers
    <3>5. QED
      BY <1>5, <3>2, <3>3, <3>4 DEF Inv, Streams
  <2>2. CASE wire'[c] = wire[c] /\ ~(c = conn /\ conn \in open)
    BY <1>4, <1>5, <2>2 DEF Inv, Streams, HalfWritten
  <2>3. QED
    BY <1>3, <2>1, <2>2
<1>6. QED
  BY <1>3, <1>5 DEF Streams

\* A pong between a header and its payload changes nothing for the two.
LEMMA StreamsPong == ASSUME Inv, WritePong PROVE Streams'
<1> DEFINE u == Part(Frame("pong", pings), "whole")
           k == got["reader"]
<1>1. pings \in Nat /\ k \in Conns
  BY DEF Inv, TypeOK, Goroutines
<1>2. u \in Unit /\ u.part = "whole"
  BY <1>1, PongUnit
<1>3. /\ wire' \in [Conns -> Seq(Unit)]
      /\ \A d \in Conns : wire'[d] = wire[d] \/ (d = k /\ k \in open)
      /\ k \in open => wire'[k] = Append(wire[k], u)
  BY <1>1, <1>2, PutShape DEF WritePong, Inv, Streams
<1>4. UNCHANGED <<conn, open, lock, frame>>
  BY DEF WritePong
<1>5. ASSUME NEW c \in Conns, NEW i \in DOMAIN wire'[c], wire'[c][i].part = "header"
      PROVE  PayloadNext(wire'[c], i) \/ HalfWritten(c, i)'
  <2>1. CASE c = k /\ k \in open
    <3>1. wire[c] \in Seq(Unit) /\ wire'[c] = Append(wire[c], u)
      BY <1>3, <2>1 DEF Inv, Streams
    <3>2. i \in DOMAIN wire[c] /\ wire'[c][i] = wire[c][i]
      BY <1>2, <1>5, <3>1
    <3>3. CASE PayloadNext(wire[c], i)
      BY <1>2, <3>1, <3>2, <3>3, AppendKeepsPayload
    <3>4. CASE HalfWritten(c, i)
      <4>1. LastWritten(wire'[c], i)
        BY <1>2, <3>1, <3>2, <3>4, PongKeepsLast DEF HalfWritten
      <4>2. QED
        BY <1>4, <3>2, <3>4, <4>1 DEF HalfWritten
    <3>5. QED
      BY <1>5, <3>2, <3>3, <3>4 DEF Inv, Streams
  <2>2. CASE wire'[c] = wire[c]
    BY <1>4, <1>5, <2>2 DEF Inv, Streams, HalfWritten
  <2>3. QED
    BY <1>3, <2>1, <2>2
<1>6. QED
  BY <1>3, <1>5 DEF Streams

\* No other step leaves half a frame behind.
LEMMA StreamsNext == ASSUME Inv, Next PROVE Streams'
<1> USE DEF Goto, counters
<1>1. \A g \in Goroutines : lock = g => at[g] = "half"
  BY DEF Inv, Locked
<1>2. CASE ReadPing \/ GetCurrent
  BY <1>2, StreamsKept DEF ReadPing, GetCurrent, GetConn, Inv
<1>3. CASE ReadRehome \/ WorldCloses \/ ReadError \/ ReadEOF
  BY <1>3, StreamsKept DEF ReadRehome, WorldCloses, ReadError, ReadEOF, Inv
<1>4. CASE DialResume
  <2>1. at["reader"] = "dial" /\ rehomes \in Conns
    BY <1>4 DEF DialResume, Inv, TypeOK, Conns
  <2>2. wire[rehomes] = << >>
    BY <2>1 DEF Inv, Dialled
  <2>3. open' \subseteq open \cup {rehomes}
    BY <1>4 DEF DialResume
  <2>4. QED
    BY <1>4, <2>2, <2>3, StreamsKept DEF DialResume, Inv
<1>5. CASE Swap
  BY <1>5, StreamsKept DEF Swap, Inv
<1>6. CASE CloseOld \/ CloseCurrent
  BY <1>6, StreamsKept DEF CloseOld, CloseCurrent, Inv
<1>7. ASSUME NEW g \in Goroutines, at[g] # "half", UNCHANGED <<conn, lock, open, wire>>,
             \A h \in Goroutines \ {g} : frame'[h] = frame[h]
      PROVE  Streams'
  <2>1. lock # None => lock \in Goroutines \ {g}
    BY <1>1, <1>7 DEF Inv, TypeOK
  <2>2. QED
    BY <1>7, <2>1, StreamsKept DEF Inv
<1>8. CASE CurrentSession \/ Want
  BY <1>7, <1>8 DEF CurrentSession, Want, Inv, TypeOK, Goroutines
<1>9. CASE ReadMove \/ ReadChatSession
  BY <1>7, <1>9 DEF ReadMove, ReadChatSession, Inv, TypeOK, Goroutines
<1>10. CASE FirstError
  BY <1>7, <1>10 DEF FirstError, Inv, TypeOK, Goroutines
<1>11. CASE UNCHANGED vars
  BY <1>11, StreamsKept DEF vars, Inv
<1>12. QED
  BY <1>2, <1>3, <1>4, <1>5, <1>6, <1>8, <1>9, <1>10, <1>11, StreamsHeader, StreamsPayload,
     StreamsPong
     DEF Next, WorldReader, ClientReader, Play, Idle, Goroutines

\* A session starts with one connection and nothing written.
LEMMA InvInit == Init => Inv
<1> SUFFICES ASSUME Init PROVE Inv
  OBVIOUS
<1>1. Locked /\ Dialled /\ InForce
  BY NoneAssumption DEF Init, Locked, Dialled, InForce, Goroutines, Conns
<1>2. Streams
  <2>1. << >> \in Seq(Unit) /\ DOMAIN << >> = {}
    OBVIOUS
  <2>2. QED
    BY <2>1 DEF Init, Streams
<1>3. QED
  BY <1>1, <1>2, TypeInit DEF Inv

\* Every step of every goroutine keeps the invariant.
LEMMA InvNext == Inv /\ [Next]_vars => Inv'
<1> SUFFICES ASSUME Inv, [Next]_vars PROVE Inv'
  OBVIOUS
<1>1. CASE Next
  <2>1. TypeOK' /\ Places' /\ Locked'
    BY <1>1, TypeNext, LockedNext DEF Inv
  <2>2. Dialled' /\ InForce'
    BY <1>1, DialledNext DEF Inv
  <2>3. Streams'
    BY <1>1, StreamsNext
  <2>4. QED
    BY <2>1, <2>2, <2>3 DEF Inv
<1>2. CASE UNCHANGED vars
  BY <1>2 DEF vars, Inv, TypeOK, Places, Locked, Dialled, InForce, Streams, HalfWritten
<1>3. QED
  BY <1>1, <1>2

\* The invariant holds of every session.
LEMMA InvHolds == Spec => []Inv
BY InvInit, InvNext, PTL DEF Spec

\* Every frame that Write writes arrives whole, and at a pod that listens
\* until the session itself is over (Backend.Write, Swap).
THEOREM WritesAlwaysArrive == Spec => []WritesArrive
<1>1. Inv => WritesArrive
  <2> SUFFICES ASSUME Inv PROVE WritesArrive
    OBVIOUS
  <2>1. FramesIntact
    BY DEF Inv, Streams, HalfWritten, FramesIntact
  <2>2. WritesReachTheirPod
    BY DEF Inv, Places, Locked, Dialled, InForce, WritesReachTheirPod, Goroutines
  <2>3. QED
    BY <2>1, <2>2 DEF Inv, WritesArrive
<1>2. QED
  BY <1>1, InvHolds, PTL

-----------------------------------------------------------------------------
(* The chat session the pods are told of.                                  *)

\* Of some positions of a stream one is the last.
LEMMA HasMaximum ==
    ASSUME NEW n \in Nat, NEW T \in SUBSET (1 .. n), T # {}
    PROVE  \E m \in T : \A j \in T : j <= m
<1> DEFINE D == {n - i : i \in T}
<1>1. D \subseteq Nat /\ D # {}
  <2>1. ASSUME NEW d \in D PROVE d \in Nat
    <3>1. PICK i \in T : d = n - i
      OBVIOUS
    <3>2. i \in 1 .. n
      OBVIOUS
    <3>3. QED
      BY <3>1, <3>2
  <2>2. PICK i \in T : TRUE
    OBVIOUS
  <2>3. n - i \in D
    OBVIOUS
  <2>4. QED
    BY <2>1, <2>3
<1> DEFINE R == OpToRel(<, Nat)
<1>2. PICK x \in D : \A y \in D : ~(<<y, x>> \in R)
  <2> HIDE DEF D
  <2>1. IsWellFoundedOn(R, Nat)
    BY NatLessThanWellFounded
  <2> HIDE DEF R
  <2>2. QED
    BY <1>1, <2>1, WFMin
<1>3. PICK m \in T : x = n - m
  OBVIOUS
<1>4. ASSUME NEW j \in T PROVE j <= m
  <2>1. n - j \in D /\ n - j \in Nat /\ n - m \in Nat
    BY <1>1
  <2>2. ~(n - j < n - m)
    BY <1>2, <1>3, <2>1 DEF OpToRel
  <2>3. QED
    BY <2>1, <2>2
<1>5. QED
  BY <1>4

\* A pod that got a session's payload was told one it got.
LEMMA ToldOne ==
    ASSUME wire \in [Conns -> Seq(Unit)], NEW c \in Conns, ToldOnce(c)
    PROVE  \E i \in DOMAIN wire[c] : wire[c][i].type = "session" /\ Told(c) = wire[c][i].val
<1> DEFINE T == {i \in DOMAIN wire[c] : wire[c][i].type = "session"
                                        /\ wire[c][i].part = "payload"}
<1>1. T # {} /\ T \in SUBSET (1 .. Len(wire[c])) /\ Len(wire[c]) \in Nat
  BY DEF ToldOnce
<1>2. \E m \in T : \A j \in T : j <= m
  <2> HIDE DEF T
  <2>1. QED
    BY <1>1, HasMaximum
<1>3. Told(c) = wire[c][CHOOSE i \in T : \A j \in T : j <= i].val
  BY <1>1 DEF Told
<1>4. (CHOOSE i \in T : \A j \in T : j <= i) \in T
  <2> HIDE DEF T
  <2>1. QED
    BY <1>2
<1>5. QED
  BY <1>3, <1>4

\* A pod that was never told of a session knows none.
LEMMA ToldNone ==
    ASSUME NEW c \in Conns, ~ToldOnce(c) PROVE Told(c) = 0
<1>1. {i \in DOMAIN wire[c] : wire[c][i].type = "session" /\ wire[c][i].part = "payload"} = {}
  BY DEF ToldOnce
<1>2. QED
  BY <1>1 DEF Told

\* A unit that Put puts on a stream tells a session that is one of the
\* player's, and what was told stays told.
LEMMA PutKnown ==
    ASSUME wire \in [Conns -> Seq(Unit)], NEW c \in Conns, NEW u \in Unit, Put(c, u),
           NEW n \in Nat, u.type = "session" => 0 < u.val /\ u.val <= n,
           \A d \in Conns : \A i \in DOMAIN wire[d] :
               wire[d][i].type = "session" => 0 < wire[d][i].val /\ wire[d][i].val <= n
    PROVE  /\ \A d \in Conns : \A i \in DOMAIN wire'[d] :
                  wire'[d][i].type = "session" => 0 < wire'[d][i].val /\ wire'[d][i].val <= n
           /\ \A d \in Conns : ToldOnce(d) => ToldOnce(d)'
           /\ (c \in open /\ u.type = "session" /\ u.part = "payload") => ToldOnce(c)'
<1>1. /\ wire' \in [Conns -> Seq(Unit)]
      /\ \A d \in Conns : wire'[d] = wire[d] \/ (d = c /\ c \in open)
      /\ c \in open => wire'[c] = Append(wire[c], u)
  BY PutShape
<1>2. CASE c \in open
  <2>1. wire[c] \in Seq(Unit) /\ wire'[c] = Append(wire[c], u)
    BY <1>1, <1>2
  <2>2. /\ DOMAIN wire'[c] = 1 .. Len(wire[c]) + 1 /\ Len(wire[c]) \in Nat
        /\ wire'[c][Len(wire[c]) + 1] = u
        /\ \A i \in DOMAIN wire[c] : i \in DOMAIN wire'[c] /\ wire'[c][i] = wire[c][i]
        /\ \A i \in DOMAIN wire'[c] : i \in DOMAIN wire[c] \/ i = Len(wire[c]) + 1
    BY <2>1
  <2>3. ASSUME NEW d \in Conns, NEW i \in DOMAIN wire'[d], wire'[d][i].type = "session"
        PROVE  0 < wire'[d][i].val /\ wire'[d][i].val <= n
    BY <1>1, <2>2, <2>3
  <2>4. ASSUME NEW d \in Conns, ToldOnce(d) PROVE ToldOnce(d)'
    BY <1>1, <2>2, <2>4 DEF ToldOnce
  <2>5. (u.type = "session" /\ u.part = "payload") => ToldOnce(c)'
    BY SMTT(30), <2>2 DEF ToldOnce
  <2>6. QED
    BY <2>3, <2>4, <2>5
<1>3. CASE c \notin open
  <2>1. wire' = wire
    BY <1>3 DEF Put
  <2>2. QED
    BY <1>3, <2>1 DEF ToldOnce
<1>4. QED
  BY <1>2, <1>3

\* A step that writes nothing.
LEMMA KnownKept ==
    ASSUME SessionKnown, TypeOK, Streams, UNCHANGED wire, session' \in Nat, session <= session',
           \A g \in Goroutines : Telling(g)' => 0 < frame'[g].val /\ frame'[g].val <= session',
           at'["play"] = "wait" =>
               /\ at["play"] = "wait"
               /\ Telling("client") => Telling("client")'
               /\ Telling("reader") => Telling("reader")'
               /\ (session > 0 /\ at["reader"] \in {"close", "chat"}) =>
                      Telling("reader")' \/ at'["reader"] \in {"close", "chat"}
               /\ session' # session => Telling("client")'
               /\ conn' = conn \/ at'["reader"] = "close"
    PROVE  SessionKnown'
<1>1. session \in Nat /\ wire' = wire
  BY DEF TypeOK
<1>2. ASSUME NEW c \in Conns, NEW i \in DOMAIN wire[c], wire[c][i].type = "session"
      PROVE  0 < wire[c][i].val /\ wire[c][i].val <= session'
  <2>1. wire[c] \in Seq(Unit)
    BY DEF Streams
  <2>2. wire[c][i] \in Unit
    BY <2>1
  <2>3. wire[c][i].val \in Nat
    BY <2>2 DEF Unit
  <2>4. QED
    BY <1>1, <1>2, <2>3 DEF SessionKnown
<1>3. QED
  BY <1>1, <1>2 DEF SessionKnown, ToldOnce

\* A frame of the session in a goroutine's hand makes a unit of it.
LEMMA TellingUnit ==
    ASSUME Inv, SessionKnown, NEW g \in Goroutines, NEW part \in {"header", "payload"},
           at[g] \in {"write", "half"}
    PROVE  /\ Part(frame[g], part) \in Unit
           /\ Part(frame[g], part).type = "session" =>
                 0 < Part(frame[g], part).val /\ Part(frame[g], part).val <= session
           /\ Part(frame[g], part).type = "session" <=> Telling(g)
           /\ Part(frame[g], part).part = part
<1>1. frame[g] \in Frames
  BY DEF Inv, TypeOK, Locked
<1>2. QED
  BY <1>1, Parts DEF SessionKnown, Telling

\* A header of a session update: its goroutine is telling still.
LEMMA KnownHeader ==
    ASSUME Inv, SessionKnown, NEW g \in Goroutines, WriteHeader(g) PROVE SessionKnown'
<1> DEFINE u == Part(frame[g], "header")
<1>1. /\ conn \in Conns /\ session \in Nat /\ UNCHANGED <<conn, frame, session>>
      /\ Put(conn, u)
      /\ at[g] = "write" /\ at' = [at EXCEPT ![g] = "half"] /\ DOMAIN at = Goroutines
  BY DEF WriteHeader, Goto, Inv, TypeOK
<1>2. u \in Unit /\ (u.type = "session" => 0 < u.val /\ u.val <= session)
  BY <1>1, TellingUnit
<1>3. wire \in [Conns -> Seq(Unit)]
  BY DEF Inv, Streams
<1>4. /\ \A d \in Conns : \A i \in DOMAIN wire'[d] :
             wire'[d][i].type = "session" => 0 < wire'[d][i].val /\ wire'[d][i].val <= session
      /\ \A d \in Conns : ToldOnce(d) => ToldOnce(d)'
  <2>1. \A d \in Conns : \A i \in DOMAIN wire[d] :
            wire[d][i].type = "session" => 0 < wire[d][i].val /\ wire[d][i].val <= session
    BY DEF SessionKnown
  <2> HIDE DEF u
  <2>2. QED
    BY <1>1, <1>2, <1>3, <2>1, PutKnown
<1>5. \A h \in Goroutines : Telling(h)' <=> Telling(h)
  BY <1>1 DEF Telling
<1>6. at'["play"] = "wait" => at["play"] = "wait"
  BY <1>1 DEF Goroutines
<1>7. at["reader"] \in {"close", "chat"} => at'["reader"] = at["reader"]
  BY <1>1 DEF Goroutines
<1>8. QED
  BY <1>1, <1>4, <1>5, <1>6, <1>7 DEF SessionKnown, Goroutines

\* The payload of the session's frame is what tells the pod.
LEMMA KnownPayload ==
    ASSUME Inv, SessionKnown, NEW g \in Goroutines, WritePayload(g) PROVE SessionKnown'
<1> DEFINE u == Part(frame[g], "payload")
<1>1. /\ conn \in Conns /\ got[g] = conn /\ session \in Nat /\ UNCHANGED <<conn, session>>
      /\ Put(conn, u) /\ frame' = [frame EXCEPT ![g] = None]
      /\ at[g] = "half" /\ at' = [at EXCEPT ![g] = After(g)] /\ DOMAIN at = Goroutines
      /\ DOMAIN frame = Goroutines /\ After(g) \in {"get", "want", "read"}
  BY DEF WritePayload, After, Goto, Inv, TypeOK, Locked
<1>2. /\ u \in Unit /\ (u.type = "session" => 0 < u.val /\ u.val <= session)
      /\ u.type = "session" <=> Telling(g)
      /\ u.part = "payload"
  BY <1>1, TellingUnit
<1>3. wire \in [Conns -> Seq(Unit)]
  BY DEF Inv, Streams
<1>4. /\ \A d \in Conns : \A i \in DOMAIN wire'[d] :
             wire'[d][i].type = "session" => 0 < wire'[d][i].val /\ wire'[d][i].val <= session
      /\ \A d \in Conns : ToldOnce(d) => ToldOnce(d)'
      /\ (conn \in open /\ u.type = "session" /\ u.part = "payload") => ToldOnce(conn)'
  <2>1. \A d \in Conns : \A i \in DOMAIN wire[d] :
            wire[d][i].type = "session" => 0 < wire[d][i].val /\ wire[d][i].val <= session
    BY DEF SessionKnown
  <2> HIDE DEF u
  <2>2. QED
    BY <1>1, <1>2, <1>3, <2>1, PutKnown
<1>5. \A h \in Goroutines : Telling(h)' <=> Telling(h) /\ h # g
  BY <1>1 DEF Telling
<1>6. \A h \in Goroutines \ {g} : frame'[h] = frame[h] /\ at'[h] = at[h]
  BY <1>1
<1>7. at["reader"] \in {"close", "chat"} => at'["reader"] = at["reader"]
  BY <1>1 DEF Goroutines
<1>8. ASSUME session > 0, at'["play"] = "wait"
      PROVE  ToldOnce(conn)' \/ Telling("client")' \/ Telling("reader")'
             \/ at'["reader"] \in {"close", "chat"}
  <2>1. at["play"] = "wait" /\ g # "play"
    BY <1>1, <1>8 DEF Goroutines
  <2>2. conn \in open
    BY <2>1 DEF Inv, InForce
  <2>3. CASE Telling(g)
    BY <1>2, <1>4, <2>2, <2>3
  <2>4. CASE ~Telling(g)
    <3>1. \A h \in Goroutines : Telling(h) => Telling(h)'
      BY <1>5, <2>4
    <3>2. QED
      BY <1>1, <1>4, <1>7, <1>8, <2>1, <3>1 DEF SessionKnown, Goroutines
  <2>5. QED
    BY <2>3, <2>4
<1>9. \A h \in Goroutines : Telling(h)' => 0 < frame'[h].val /\ frame'[h].val <= session
  BY <1>5, <1>6 DEF SessionKnown
<1>10. QED
  BY <1>1, <1>4, <1>8, <1>9 DEF SessionKnown

\* A pong tells nothing and takes nothing back.
LEMMA KnownPong == ASSUME Inv, SessionKnown, WritePong PROVE SessionKnown'
<1> DEFINE u == Part(Frame("pong", pings), "whole")
           k == got["reader"]
<1>1. /\ k \in Conns /\ pings \in Nat /\ session \in Nat /\ UNCHANGED <<conn, frame, session>>
      /\ Put(k, u) /\ at["reader"] = "pong" /\ at' = [at EXCEPT !["reader"] = "read"]
      /\ DOMAIN at = Goroutines
  BY DEF WritePong, Goto, Inv, TypeOK, Goroutines
<1>2. u \in Unit /\ u.type # "session"
  BY <1>1, PongUnit
<1>3. wire \in [Conns -> Seq(Unit)]
  BY DEF Inv, Streams
<1>4. /\ \A d \in Conns : \A i \in DOMAIN wire'[d] :
             wire'[d][i].type = "session" => 0 < wire'[d][i].val /\ wire'[d][i].val <= session
      /\ \A d \in Conns : ToldOnce(d) => ToldOnce(d)'
  <2>1. \A d \in Conns : \A i \in DOMAIN wire[d] :
            wire[d][i].type = "session" => 0 < wire[d][i].val /\ wire[d][i].val <= session
    BY DEF SessionKnown
  <2> HIDE DEF u, k
  <2>2. QED
    BY <1>1, <1>2, <1>3, <2>1, PutKnown
<1>5. \A h \in Goroutines : Telling(h)' <=> Telling(h)
  BY <1>1 DEF Telling
<1>6. at'["play"] = at["play"] /\ at["reader"] = "pong"
  BY <1>1 DEF Goroutines
<1>7. \A g \in Goroutines : Telling(g)' => 0 < frame'[g].val /\ frame'[g].val <= session
  BY <1>1, <1>5 DEF SessionKnown
<1>8. ASSUME session > 0, at'["play"] = "wait"
      PROVE  ToldOnce(conn)' \/ Telling("client")' \/ Telling("reader")'
  <2>1. session > 0 /\ at["play"] = "wait" /\ at["reader"] = "pong" /\ conn' = conn
    BY <1>1, <1>6, <1>8
  <2>2. ToldOnce(conn) \/ Telling("client") \/ Telling("reader")
    BY <2>1 DEF SessionKnown
  <2>3. conn \in Conns
    BY DEF Inv, TypeOK
  <2>4. ToldOnce(conn) => ToldOnce(conn)'
    <3> HIDE DEF u, k
    <3>1. \A d \in Conns : ToldOnce(d) => (d = conn => ToldOnce(conn)')
      BY <1>4, <2>1 DEF ToldOnce
    <3>2. QED
      BY <2>3, <3>1
  <2>5. QED
    BY <1>5, <2>2, <2>4 DEF Goroutines
<1> HIDE DEF u, k
<1>9. QED
  BY <1>1, <1>4, <1>7, <1>8 DEF SessionKnown

\* No step leaves the pod in force without the session, once there is one.
LEMMA KnownNext == ASSUME Inv, SessionKnown, Next PROVE SessionKnown'
<1> USE DEF Goto, counters
<1>0. /\ session \in Nat /\ DOMAIN at = Goroutines /\ DOMAIN frame = Goroutines
      /\ Goroutines = {"reader", "client", "play"} /\ TypeOK /\ Streams
      /\ \A g \in Goroutines : Telling(g) => 0 < frame[g].val /\ frame[g].val <= session
  BY DEF Inv, TypeOK, SessionKnown, Goroutines
<1>1. CASE ReadPing \/ GetCurrent \/ CloseCurrent \/ CloseOld
  <2>1. CASE ReadPing \/ CloseOld
    BY <1>0, <2>1, KnownKept DEF ReadPing, CloseOld, GetConn, Telling
  <2>2. CASE GetCurrent \/ CloseCurrent
    BY <1>0, <2>2, KnownKept DEF GetCurrent, CloseCurrent, GetConn, Telling
  <2>3. QED
    BY <1>1, <2>1, <2>2
<1>2. CASE ReadRehome \/ WorldCloses \/ ReadError \/ ReadEOF
  BY <1>0, <1>2, KnownKept DEF ReadRehome, WorldCloses, ReadError, ReadEOF, Telling
<1>3. CASE DialResume
  <2>1. /\ at'["reader"] \in {"swap", "exit"} /\ at["reader"] = "dial"
        /\ \A g \in Goroutines \ {"reader"} : at'[g] = at[g]
    BY <1>0, <1>3 DEF DialResume
  <2>2. QED
    BY <1>0, <1>3, <2>1, KnownKept DEF DialResume, Telling
<1>4. CASE Swap
  BY <1>0, <1>4, KnownKept DEF Swap, Telling
<1>5. CASE CurrentSession
  <2>1. CASE session = 0
    BY <1>0, <1>5, <2>1, KnownKept DEF CurrentSession, Telling
  <2>2. CASE session # 0
    <3>1. frame'["reader"].type = "session" /\ frame'["reader"].val = session
      BY <1>0, <1>5, <2>2 DEF CurrentSession, Frame
    <3>2. Telling("reader")'
      BY <1>0, <1>5, <2>2, <3>1 DEF CurrentSession, Telling
    <3>3. \A g \in {"client", "play"} : (Telling(g)' <=> Telling(g)) /\ frame'[g] = frame[g]
      BY <1>0, <1>5, <2>2 DEF CurrentSession, Telling
    <3>4. \A g \in Goroutines : Telling(g)' => 0 < frame'[g].val /\ frame'[g].val <= session
      BY <1>0, <2>2, <3>1, <3>3
    <3>5. at'["play"] = at["play"]
      BY <1>0, <1>5, <2>2 DEF CurrentSession
    <3>6. QED
      BY <1>0, <1>5, <3>2, <3>3, <3>4, <3>5, KnownKept DEF CurrentSession
  <2>3. QED
    BY <2>1, <2>2
<1>6. ASSUME NEW g \in Goroutines, frame'[g].type # "session", at[g] \notin {"write", "half"},
             ~(g = "reader" /\ at[g] \in {"close", "chat"}), at'[g] \notin {"wait"},
             \A h \in Goroutines \ {g} : frame'[h] = frame[h] /\ at'[h] = at[h],
             UNCHANGED <<conn, wire, session>>
      PROVE  SessionKnown'
  <2>1. \A h \in Goroutines : Telling(h)' <=> Telling(h)
    BY <1>6 DEF Telling
  <2>2. \A h \in Goroutines : Telling(h)' => 0 < frame'[h].val /\ frame'[h].val <= session
    BY <1>0, <1>6, <2>1 DEF Telling
  <2>3. QED
    BY <1>0, <1>6, <2>1, <2>2, KnownKept
<1>7. \A type \in {"move", "want", "bye"} : Frame(type, 0).type # "session"
  BY DEF Frame
<1>8. CASE Want
  BY <1>0, <1>6, <1>7, <1>8 DEF Want
<1>9. CASE ReadMove
  BY <1>0, <1>6, <1>7, <1>9 DEF ReadMove
<1>10. CASE FirstError
  BY <1>0, <1>6, <1>7, <1>10 DEF FirstError
<1>11. CASE ReadChatSession
  <2>1. frame'["client"].type = "session" /\ frame'["client"].val = session + 1
        /\ session' = session + 1
    BY <1>0, <1>11 DEF ReadChatSession, Frame
  <2>2. Telling("client")'
    BY <1>0, <1>11, <2>1 DEF ReadChatSession, Telling
  <2>3. \A g \in {"reader", "play"} : (Telling(g)' <=> Telling(g)) /\ frame'[g] = frame[g]
    BY <1>0, <1>11 DEF ReadChatSession, Telling
  <2>4. \A g \in Goroutines : Telling(g)' => 0 < frame'[g].val /\ frame'[g].val <= session'
    <3>1. ASSUME NEW g \in {"reader", "play"}, Telling(g)
          PROVE  0 < frame'[g].val /\ frame'[g].val <= session'
      <4>1. frame[g] \in Frames /\ 0 < frame[g].val /\ frame[g].val <= session
        BY <1>0, <3>1 DEF Inv, TypeOK, Locked, Telling
      <4>2. frame[g].val \in Nat
        BY <4>1, BoundAssumption DEF Frames
      <4>3. QED
        BY <1>0, <2>1, <2>3, <4>1, <4>2
    <3>2. QED
      BY <1>0, <2>1, <2>3, <3>1
  <2>5. at'["play"] = at["play"] /\ at'["reader"] = at["reader"]
    BY <1>0, <1>11 DEF ReadChatSession
  <2>6. QED
    BY <1>0, <1>11, <2>1, <2>2, <2>3, <2>4, <2>5, KnownKept DEF ReadChatSession
<1>12. CASE UNCHANGED vars
  BY <1>12 DEF vars, SessionKnown, Telling, ToldOnce
<1>13. QED
  BY <1>1, <1>2, <1>3, <1>4, <1>5, <1>8, <1>9, <1>10, <1>11, <1>12, KnownHeader, KnownPayload,
     KnownPong
     DEF Next, WorldReader, ClientReader, Play, Idle, Goroutines

\* So it is in every session.
LEMMA KnownHolds == Spec => [](Inv /\ SessionKnown)
<1>1. Init => SessionKnown
  BY DEF Init, SessionKnown, Telling, Goroutines
<1>2. Inv /\ SessionKnown /\ [Next]_vars => SessionKnown'
  <2>1. UNCHANGED vars /\ SessionKnown => SessionKnown'
    BY DEF vars, SessionKnown, Telling, ToldOnce
  <2>2. QED
    BY <2>1, KnownNext
<1>3. QED
  BY <1>1, <1>2, InvInit, InvNext, PTL DEF Spec

\* When nothing is on its way, the pod in force has been told a session of the
\* player's, if the player has one.
LEMMA SettledTold ==
    ASSUME Inv, SessionKnown, Settled
    PROVE  /\ Told(conn) \in Nat /\ Told(conn) <= session
           /\ session > 0 => Told(conn) > 0
<1>1. wire \in [Conns -> Seq(Unit)] /\ conn \in Conns /\ session \in Nat
  BY DEF Inv, Streams, TypeOK
<1>2. CASE ToldOnce(conn)
  <2>1. PICK i \in DOMAIN wire[conn] :
            wire[conn][i].type = "session" /\ Told(conn) = wire[conn][i].val
    BY <1>1, <1>2, ToldOne
  <2>2. wire[conn] \in Seq(Unit)
    BY <1>1
  <2>3. wire[conn][i] \in Unit
    BY <2>2
  <2>4. wire[conn][i].val \in Nat
    BY <2>3 DEF Unit
  <2>5. QED
    BY <1>1, <2>1, <2>4 DEF SessionKnown
<1>3. CASE ~ToldOnce(conn)
  <2>1. Told(conn) = 0
    BY <1>1, <1>3, ToldNone
  <2>2. ~(session > 0)
    BY <1>3 DEF SessionKnown, Settled, Telling
  <2>3. QED
    BY <1>1, <2>1, <2>2
<1>4. QED
  BY <1>2, <1>3

\* Across handovers the pod the player is on knows of a chat session exactly
\* when there is one (play, MsgRehome, chat.current).
THEOREM PodHasSession == Spec => [](Settled => (Told(conn) = 0 <=> session = 0))
<1>1. Inv /\ SessionKnown => (Settled => (Told(conn) = 0 <=> session = 0))
  BY SettledTold DEF Inv, TypeOK
<1>2. QED
  BY <1>1, KnownHolds, PTL

\* The newest session is the one the pod in force was told of last, or it is
\* on its way there.  An older one is on its way only if the newest crossed it,
\* or if the client reader waits behind it with the newest.
Newest ==
    /\ Telling("client") => frame["client"].val = session
    /\ (Telling("reader") /\ frame["reader"].val # session) =>
          crossed \/ (at["reader"] = "half" /\ at["client"] = "write" /\ Telling("client"))
    /\ at["play"] = "wait" =>
          \/ Told(conn) = session \/ crossed
          \/ Telling("client") \/ (Telling("reader") /\ frame["reader"].val = session)
          \/ at["reader"] \in {"close", "chat"}

\* The last session in a stream.
Payloads(stream) == {i \in DOMAIN stream : stream[i].type = "session"
                                           /\ stream[i].part = "payload"}
Heard(stream) == IF Payloads(stream) = {} THEN 0
                 ELSE stream[CHOOSE i \in Payloads(stream) :
                                 \A j \in Payloads(stream) : j <= i].val

\* A session's payload is what the pod hears last; nothing else changes that.
LEMMA HeardAppend ==
    ASSUME NEW s \in Seq(Unit), NEW u \in Unit
    PROVE  Heard(Append(s, u)) =
               IF u.type = "session" /\ u.part = "payload" THEN u.val ELSE Heard(s)
<1> DEFINE t == Append(s, u)
           n == Len(s) + 1
           T == Payloads(s)
<1>1. /\ n \in Nat /\ DOMAIN t = 1 .. n /\ DOMAIN s = 1 .. Len(s) /\ Len(s) \in Nat
      /\ t[n] = u /\ \A i \in DOMAIN s : t[i] = s[i] /\ i \in DOMAIN t /\ i < n
      /\ \A i \in DOMAIN t : i \in DOMAIN s \/ i = n
  OBVIOUS
<1>2. CASE u.type = "session" /\ u.part = "payload"
  <2>1. n \in Payloads(t) /\ \A j \in Payloads(t) : j \in Nat /\ j <= n
    BY <1>1, <1>2 DEF Payloads
  <2> DEFINE m == CHOOSE i \in Payloads(t) : \A j \in Payloads(t) : j <= i
  <2>2. m \in Payloads(t) /\ \A j \in Payloads(t) : j <= m
    BY <2>1
  <2>3. m = n
    <3> HIDE DEF m, n, t
    <3>1. m \in Nat /\ m <= n
      BY <2>1, <2>2
    <3>2. n <= m
      BY <2>1, <2>2
    <3>3. QED
      BY <1>1, <3>1, <3>2
  <2>4. Heard(t) = t[m].val
    BY <2>1 DEF Heard
  <2>5. QED
    BY <1>1, <1>2, <2>3, <2>4
<1>3. CASE ~(u.type = "session" /\ u.part = "payload")
  <2>1. Payloads(t) = T
    <3>1. ASSUME NEW i PROVE i \in Payloads(t) <=> i \in T
      BY <1>1, <1>3 DEF Payloads
    <3>2. QED
      BY <3>1
  <2>2. CASE T = {}
    BY <1>3, <2>1, <2>2 DEF Heard
  <2>3. CASE T # {}
    <3> DEFINE m == CHOOSE i \in T : \A j \in T : j <= i
    <3>1. T \in SUBSET (1 .. Len(s))
      BY <1>1 DEF Payloads
    <3>2. m \in T
      <4> HIDE DEF T
      <4>1. \E i \in T : \A j \in T : j <= i
        BY <1>1, <2>3, <3>1, HasMaximum
      <4>2. QED
        BY <4>1
    <3>3. Heard(t) = t[m].val /\ Heard(s) = s[m].val
      BY <2>1, <2>3 DEF Heard
    <3>4. m \in DOMAIN s
      BY <1>1, <3>1, <3>2
    <3>5. QED
      BY <1>1, <1>3, <3>3, <3>4
  <2>4. QED
    BY <2>2, <2>3
<1>4. QED
  BY <1>2, <1>3

\* What the pod on a connection was told is what it heard last.
LEMMA ToldHeard == \A c \in Conns : Told(c) = Heard(wire[c])
BY DEF Told, Heard, Payloads

\* A unit put on a stream that stays in force.
LEMMA ToldPut ==
    ASSUME wire \in [Conns -> Seq(Unit)], conn \in Conns, UNCHANGED conn,
           NEW c \in Conns, NEW u \in Unit, Put(c, u)
    PROVE  /\ ~(u.type = "session" /\ u.part = "payload") => Told(conn)' = Told(conn)
           /\ (c = conn /\ c \in open /\ u.type = "session" /\ u.part = "payload") =>
                  Told(conn)' = u.val
<1>1. wire' = IF c \in open THEN [wire EXCEPT ![c] = Append(wire[c], u)] ELSE wire
  BY DEF Put
<1>2. wire[conn] \in Seq(Unit) /\ wire[c] \in Seq(Unit)
  OBVIOUS
<1>3. Told(conn) = Heard(wire[conn]) /\ Told(conn)' = Heard(wire'[conn])
  BY DEF Told, Heard, Payloads
<1>4. CASE c = conn /\ c \in open
  <2>1. wire'[conn] = Append(wire[conn], u)
    BY <1>1, <1>4
  <2>2. QED
    BY <1>2, <1>3, <2>1, HeardAppend
<1>5. CASE ~(c = conn /\ c \in open)
  <2>1. wire'[conn] = wire[conn]
    BY <1>1, <1>5
  <2>2. QED
    BY <1>3, <1>5, <2>1
<1>6. QED
  BY <1>4, <1>5

\* A step that writes nothing and renews nothing.
LEMMA NewestKept ==
    ASSUME Newest, UNCHANGED <<wire, session, crossed>>, conn' = conn \/ at'["reader"] = "close",
           \A g \in {"reader", "client"} : (Telling(g)' <=> Telling(g))
               /\ (Telling(g) => frame'[g] = frame[g] /\ at'[g] = at[g]),
           at'["play"] = "wait" => at["play"] = "wait",
           at["reader"] \in {"close", "chat"} => at'["reader"] \in {"close", "chat"}
    PROVE  Newest'
<1>1. conn' = conn => Told(conn)' = Told(conn)
  BY DEF Told
<1>2. at'["reader"] \in {"close", "chat"} \/ conn' = conn
  OBVIOUS
<1>3. Telling("reader")' => at["reader"] = at'["reader"]
  OBVIOUS
<1>4. QED
  BY <1>1, <1>2, <1>3 DEF Newest

\* The header of a frame tells nothing yet.
LEMMA NewestHeader ==
    ASSUME Inv, SessionKnown, Newest, NEW g \in Goroutines, WriteHeader(g) PROVE Newest'
<1> DEFINE u == Part(frame[g], "header")
<1>1. /\ conn \in Conns /\ UNCHANGED <<conn, frame, session, crossed>> /\ Put(conn, u)
      /\ at[g] = "write" /\ at' = [at EXCEPT ![g] = "half"] /\ DOMAIN at = Goroutines
      /\ lock = None /\ wire \in [Conns -> Seq(Unit)]
  BY DEF WriteHeader, Goto, Inv, TypeOK, Streams
<1>2. u \in Unit /\ u.part # "payload"
  BY <1>1, TellingUnit
<1>3. Told(conn)' = Told(conn)
  <2> HIDE DEF u
  <2>1. QED
    BY <1>1, <1>2, ToldPut
<1>4. \A h \in Goroutines : Telling(h)' <=> Telling(h)
  BY <1>1 DEF Telling
<1>5. at["reader"] # "half"
  BY <1>1, NoneAssumption DEF Inv, Locked, Goroutines
<1>6. /\ at'["play"] = "wait" => at["play"] = "wait"
      /\ at["reader"] \in {"close", "chat"} => at'["reader"] = at["reader"]
  BY <1>1 DEF Goroutines
<1>7. QED
  BY <1>1, <1>3, <1>4, <1>5, <1>6 DEF Newest, Goroutines

\* The payload of the session's frame tells the pod in force.
LEMMA NewestPayload ==
    ASSUME Inv, SessionKnown, Newest, NEW g \in Goroutines, WritePayload(g) PROVE Newest'
<1> DEFINE u == Part(frame[g], "payload")
<1>1. /\ conn \in Conns /\ got[g] = conn /\ UNCHANGED <<conn, session, crossed>>
      /\ Put(conn, u) /\ frame' = [frame EXCEPT ![g] = None]
      /\ at[g] = "half" /\ at' = [at EXCEPT ![g] = After(g)] /\ DOMAIN at = Goroutines
      /\ DOMAIN frame = Goroutines /\ After(g) \in {"get", "want", "read"} /\ lock = g
      /\ wire \in [Conns -> Seq(Unit)]
  BY DEF WritePayload, After, Goto, Inv, TypeOK, Locked, Streams
<1>2. u \in Unit /\ u.part = "payload" /\ (u.type = "session" <=> Telling(g))
  BY <1>1, TellingUnit
<1>3. u.val = frame[g].val
  BY DEF Part
<1>4. /\ ~Telling(g) => Told(conn)' = Told(conn)
      /\ (Telling(g) /\ conn \in open) => Told(conn)' = frame[g].val
  <2> HIDE DEF u
  <2>1. QED
    BY <1>1, <1>2, <1>3, ToldPut
<1>5. \A h \in Goroutines : Telling(h)' <=> Telling(h) /\ h # g
  BY <1>1 DEF Telling
<1>6. \A h \in Goroutines \ {g} : frame'[h] = frame[h] /\ at'[h] = at[h]
  BY <1>1
<1>7. /\ at'["play"] = "wait" => at["play"] = "wait" /\ g # "play"
      /\ at["reader"] \in {"close", "chat"} => at'["reader"] = at["reader"]
  BY <1>1 DEF Goroutines
<1>8. at["play"] = "wait" => conn \in open
  BY DEF Inv, InForce
<1>9. CASE g = "reader"
  BY <1>1, <1>4, <1>5, <1>6, <1>7, <1>8, <1>9 DEF Newest, Goroutines
<1>10. CASE g = "client"
  <2>1. at["reader"] # "half"
    BY <1>1, <1>10 DEF Inv, Locked, Goroutines
  <2>2. QED
    BY <1>1, <1>4, <1>5, <1>6, <1>7, <1>8, <1>10, <2>1 DEF Newest, Goroutines
<1>11. CASE g = "play"
  BY <1>1, <1>5, <1>6, <1>7, <1>11 DEF Newest, Goroutines
<1>12. QED
  BY <1>9, <1>10, <1>11 DEF Goroutines

\* A pong tells nothing.
LEMMA NewestPong == ASSUME Inv, Newest, WritePong PROVE Newest'
<1> DEFINE u == Part(Frame("pong", pings), "whole")
           k == got["reader"]
<1>1. /\ k \in Conns /\ pings \in Nat /\ UNCHANGED <<conn, frame, session, crossed>>
      /\ conn \in Conns /\ wire \in [Conns -> Seq(Unit)]
      /\ Put(k, u) /\ at["reader"] = "pong" /\ at' = [at EXCEPT !["reader"] = "read"]
      /\ DOMAIN at = Goroutines
  BY DEF WritePong, Goto, Inv, TypeOK, Streams, Goroutines
<1>2. u \in Unit /\ u.type # "session"
  BY <1>1, PongUnit
<1>3. Told(conn)' = Told(conn)
  <2> HIDE DEF u, k
  <2>1. QED
    BY <1>1, <1>2, ToldPut
<1>4. \A h \in Goroutines : Telling(h)' <=> Telling(h)
  BY <1>1 DEF Telling
<1>5. at'["play"] = at["play"] /\ at["reader"] = "pong" /\ ~Telling("reader")
  BY <1>1 DEF Telling, Goroutines
<1> HIDE DEF u, k
<1>6. QED
  BY <1>1, <1>3, <1>4, <1>5 DEF Newest, Goroutines

\* Every step keeps the newest session on its way to the pod in force.
LEMMA NewestNext == ASSUME Inv, SessionKnown, Newest, Next PROVE Newest'
<1> USE DEF Goto, counters
<1>0. /\ session \in Nat /\ DOMAIN at = Goroutines /\ DOMAIN frame = Goroutines
      /\ Goroutines = {"reader", "client", "play"} /\ wire \in [Conns -> Seq(Unit)]
      /\ conn \in Conns
  BY DEF Inv, TypeOK, Streams, Goroutines
<1>1. CASE ReadPing \/ CloseOld
  BY <1>0, <1>1, NewestKept DEF ReadPing, CloseOld, GetConn, Telling
<1>2. CASE GetCurrent \/ CloseCurrent \/ ReadRehome
  BY <1>0, <1>2, NewestKept DEF GetCurrent, CloseCurrent, GetConn, ReadRehome, Telling
<1>3. CASE WorldCloses \/ ReadError \/ ReadEOF
  BY <1>0, <1>3, NewestKept DEF WorldCloses, ReadError, ReadEOF, Telling
<1>4. CASE DialResume
  <2>1. /\ at'["reader"] \in {"swap", "exit"} /\ at["reader"] = "dial"
        /\ \A g \in Goroutines \ {"reader"} : at'[g] = at[g]
    BY <1>0, <1>4 DEF DialResume
  <2>2. QED
    BY <1>0, <1>4, <2>1, NewestKept DEF DialResume, Telling
<1>5. CASE Swap
  BY <1>0, <1>5, NewestKept DEF Swap, Telling
<1>6. CASE CurrentSession
  <2>1. /\ at["reader"] = "chat" /\ UNCHANGED <<conn, wire, session>>
        /\ at'["play"] = at["play"] /\ at'["client"] = at["client"]
        /\ frame'["client"] = frame["client"]
    BY <1>0, <1>6 DEF CurrentSession
  <2>2. Told(conn)' = Told(conn)
    BY <2>1 DEF Told
  <2>3. Telling("client")' <=> Telling("client")
    BY <2>1 DEF Telling
  <2>4. CASE session = 0
    <3>1. \A i \in DOMAIN wire[conn] : wire[conn][i].type # "session"
      <4>1. ASSUME NEW i \in DOMAIN wire[conn], wire[conn][i].type = "session" PROVE FALSE
        <5>1. 0 < wire[conn][i].val /\ wire[conn][i].val <= session
          BY <1>0, <4>1 DEF SessionKnown
        <5>2. wire[conn] \in Seq(Unit)
          BY <1>0
        <5>3. wire[conn][i] \in Unit
          BY <5>2
        <5>4. wire[conn][i].val \in Nat
          BY <5>3 DEF Unit
        <5>5. QED
          BY <2>4, <5>1, <5>4
      <4>2. QED
        BY <4>1
    <3>2. ~ToldOnce(conn)
      BY <3>1 DEF ToldOnce
    <3>3. Told(conn) = session
      BY <1>0, <2>4, <3>2, ToldNone
    <3>4. ~Telling("reader")'
      BY <1>0, <1>6, <2>4 DEF CurrentSession, Telling
    <3>5. QED
      BY <2>1, <2>2, <2>3, <3>3, <3>4 DEF Newest
  <2>5. CASE session # 0
    <3>1. Telling("reader")' /\ frame'["reader"].val = session
      BY <1>0, <1>6, <2>5 DEF CurrentSession, Telling, Frame
    <3>2. QED
      BY <2>1, <2>3, <3>1 DEF Newest
  <2>6. QED
    BY <2>4, <2>5
<1>7. CASE Want
  <2>1. ~Telling("reader")' /\ ~Telling("reader")
    BY <1>0, <1>7 DEF Want, Telling, Frame
  <2>2. QED
    BY <1>0, <1>7, <2>1, NewestKept DEF Want, Telling
<1>8. CASE ReadMove
  <2>1. ~Telling("client")' /\ ~Telling("client")
    BY <1>0, <1>8 DEF ReadMove, Telling, Frame
  <2>2. QED
    BY <1>0, <1>8, <2>1, NewestKept DEF ReadMove, Telling
<1>9. CASE FirstError
  <2>1. at'["play"] = "write"
    BY <1>0, <1>9 DEF FirstError
  <2>2. QED
    BY <1>0, <1>9, <2>1, NewestKept DEF FirstError, Telling
<1>10. CASE ReadChatSession
  <2>1. /\ at["client"] = "read" /\ session' = session + 1 /\ crossed' = AboutToTell
        /\ at'["client"] = "write" /\ at'["reader"] = at["reader"]
        /\ frame'["client"].type = "session" /\ frame'["client"].val = session'
        /\ frame'["reader"] = frame["reader"]
    BY <1>0, <1>10 DEF ReadChatSession, Frame
  <2>2. Telling("client")' /\ (Telling("reader")' <=> Telling("reader"))
    BY <2>1 DEF Telling
  <2>3. Telling("reader") => AboutToTell \/ at["reader"] = "half"
    BY DEF Telling, AboutToTell
  <2>4. QED
    BY <2>1, <2>2, <2>3 DEF Newest
<1>11. CASE UNCHANGED vars
  BY <1>11 DEF vars, Newest, Telling, Told
<1>12. QED
  BY <1>1, <1>2, <1>3, <1>4, <1>5, <1>6, <1>7, <1>8, <1>9, <1>10, <1>11, NewestHeader,
     NewestPayload, NewestPong
     DEF Next, WorldReader, ClientReader, Play, Idle, Goroutines

\* Across handovers and renewals, also those that race each other, the pod the
\* player is on was told last of the player's newest chat session, but for a
\* renewal that crosses the world reader's telling of the one before (play,
\* MsgRehome, chat.current).
THEOREM PodKnowsCurrent == Spec => []PodKnowsSession
<1>1. Init => Newest
  <2> SUFFICES ASSUME Init PROVE Newest
    OBVIOUS
  <2>1. conn \in Conns /\ wire[conn] = << >>
    BY BoundAssumption DEF Init, Conns
  <2>2. ~ToldOnce(conn)
    BY <2>1 DEF ToldOnce
  <2>3. Told(conn) = 0
    BY <2>1, <2>2, ToldNone
  <2>4. QED
    BY <2>3 DEF Init, Newest, Telling, Goroutines
<1>2. Inv /\ SessionKnown /\ Newest /\ [Next]_vars => Newest'
  <2>1. UNCHANGED vars /\ Newest => Newest'
    BY DEF vars, Newest, Telling, Told
  <2>2. QED
    BY <2>1, NewestNext
<1>3. Newest => PodKnowsSession
  BY DEF Newest, PodKnowsSession, Settled, Telling
<1>4. QED
  BY <1>1, <1>2, <1>3, KnownHolds, PTL DEF Spec
=============================================================================
