------------------------------- MODULE Rehome -------------------------------
(***************************************************************************)
(* The world side of a session while the player migrates between shards:   *)
(* attach.Backend (client.go) and the three goroutines of play() that use  *)
(* it.  The world reader dials the destination and swaps the connection,   *)
(* the client reader keeps writing frames, and play itself says goodbye    *)
(* and closes the connection when the session ends.                        *)
(*                                                                         *)
(* A frame goes out in two writes, header and payload (WriteFrame), under  *)
(* Backend's lock; a pong goes out in one write, past the lock.            *)
(***************************************************************************)
EXTENDS Naturals, Sequences, FiniteSets

CONSTANTS
    MaxRehomes,   \* bound: MsgRehome frames
    MaxPings,     \* bound: MsgPing frames
    MaxMoves,     \* bound: frames of the client other than chat sessions
    MaxSessions,  \* bound: chat_session_update packets of the client
    None          \* no goroutine, no frame

\* Connections are numbered in the order they are dialled; 0 is the login's.
Conns == 0 .. MaxRehomes
Goroutines == {"reader", "client", "play"}

\* What goroutines write through Backend.Write.
Frames == [type : {"move", "session", "want", "bye"}, val : 0 .. MaxSessions]

ASSUME NoneAssumption == None \notin Goroutines \cup Frames

ASSUME BoundAssumption ==
    MaxRehomes \in Nat /\ MaxPings \in Nat /\ MaxMoves \in Nat /\ MaxSessions \in Nat

VARIABLES
    conn,      \* Backend.conn
    lock,      \* who holds Backend.mu
    open,      \* connections the gateway has not closed
    wire,      \* what was written to each connection
    at,        \* where each goroutine is
    frame,     \* the frame each goroutine is writing
    got,       \* the connection each goroutine writes to, got from Get,
               \*   dialled or swapped out
    session,   \* chatState.session: the newest update, 0 = none
    crossed,   \* history: the newest update came while the world reader was
               \*   about to write the one before it to the destination
    rehomes, pings, moves

vars == <<conn, lock, open, wire, at, frame, got, session, crossed,
          rehomes, pings, moves>>
counters == <<rehomes, pings, moves>>

Frame(type, val) == [type |-> type, val |-> val]
Part(f, part) == [type |-> f.type, val |-> f.val, part |-> part]

Goto(g, place) == at' = [at EXCEPT ![g] = place]

Init ==
    /\ conn = 0 /\ lock = None /\ open = {0}
    /\ wire = [c \in Conns |-> << >>]
    /\ at = [reader |-> "read", client |-> "read", play |-> "wait"]
    /\ frame = [g \in Goroutines |-> None]
    /\ got = [g \in Goroutines |-> 0]
    /\ session = 0 /\ crossed = FALSE
    /\ rehomes = 0 /\ pings = 0 /\ moves = 0

----------------------------------------------------------------------------
(* Backend.                                                                *)

\* A write to a closed connection fails and its error is not looked at.
Put(c, unit) ==
    wire' = IF c \in open THEN [wire EXCEPT ![c] = Append(@, unit)] ELSE wire

\* Write: the lock, the connection of the moment, and WriteFrame's first write.
WriteHeader(g) ==
    /\ at[g] = "write" /\ lock = None
    /\ lock' = g
    /\ got' = [got EXCEPT ![g] = conn]
    /\ Put(conn, Part(frame[g], "header"))
    /\ Goto(g, "half")
    /\ UNCHANGED <<conn, open, frame, session, crossed, counters>>

\* What a goroutine does after a frame.
After(g) ==
    IF g = "play" THEN "get"
    ELSE IF g = "reader" /\ frame[g].type = "session" THEN "want"
    ELSE "read"

\* WriteFrame's second write, and the unlock.
WritePayload(g) ==
    /\ at[g] = "half"
    /\ lock' = None
    /\ Put(got[g], Part(frame[g], "payload"))
    /\ Goto(g, After(g))
    /\ frame' = [frame EXCEPT ![g] = None]
    /\ UNCHANGED <<conn, open, got, session, crossed, counters>>

\* Get.
GetConn(g) ==
    /\ lock = None
    /\ got' = [got EXCEPT ![g] = conn]

\* Mutant: the pointer is swapped without the lock.
UnlockedSwap ==
    /\ at["reader"] = "swap"
    /\ conn' = got["reader"]
    /\ got' = [got EXCEPT !["reader"] = conn]
    /\ Goto("reader", "close")
    /\ UNCHANGED <<lock, open, wire, frame, session, crossed, counters>>

\* Swap: the pointer under the lock, the old connection closed after it.
Swap ==
    /\ at["reader"] = "swap" /\ lock = None
    /\ conn' = got["reader"]
    /\ got' = [got EXCEPT !["reader"] = conn]
    /\ Goto("reader", "close")
    /\ UNCHANGED <<lock, open, wire, frame, session, crossed, counters>>

CloseOld ==
    /\ at["reader"] = "close"
    /\ open' = open \ {got["reader"]}
    /\ Goto("reader", "chat")
    /\ UNCHANGED <<conn, lock, wire, frame, got, session, crossed, counters>>

----------------------------------------------------------------------------
(* The world reader.                                                       *)

\* MsgPing: the pong goes to b.Get(), not through Write.
ReadPing ==
    /\ at["reader"] = "read" /\ pings < MaxPings /\ conn \in open
    /\ pings' = pings + 1
    /\ GetConn("reader")
    /\ Goto("reader", "pong")
    /\ UNCHANGED <<conn, lock, open, wire, frame, session, crossed, rehomes, moves>>

WritePong ==
    /\ at["reader"] = "pong"
    /\ Put(got["reader"], Part(Frame("pong", pings), "whole"))
    /\ Goto("reader", "read")
    /\ UNCHANGED <<conn, lock, open, frame, got, session, crossed, counters>>

\* MsgRehome.
ReadRehome ==
    /\ at["reader"] = "read" /\ rehomes < MaxRehomes /\ conn \in open
    /\ rehomes' = rehomes + 1
    /\ Goto("reader", "dial")
    /\ UNCHANGED <<conn, lock, open, wire, frame, got, session, crossed, pings, moves>>

\* dialResume: the destination welcomes the player, or the session ends.
DialResume ==
    /\ at["reader"] = "dial"
    /\ \/ /\ got' = [got EXCEPT !["reader"] = rehomes]
          /\ open' = open \cup {rehomes}
          /\ Goto("reader", "swap")
       \/ /\ Goto("reader", "exit")
          /\ UNCHANGED <<got, open>>
    /\ UNCHANGED <<conn, lock, wire, frame, session, crossed, counters>>

\* Mutant: without a session the handler is left early.
SessionOrNothing ==
    /\ at["reader"] = "chat"
    /\ IF session = 0
       THEN Goto("reader", "read") /\ UNCHANGED frame
       ELSE /\ Goto("reader", "write")
            /\ frame' = [frame EXCEPT !["reader"] = Frame("session", session)]
    /\ UNCHANGED <<conn, lock, open, wire, got, session, crossed, counters>>

\* Mutant: the destination is told of no session.
ForgetSession ==
    /\ at["reader"] = "chat"
    /\ Goto("reader", "want")
    /\ UNCHANGED <<conn, lock, open, wire, frame, got, session, crossed, counters>>

\* chat.current(): the session to tell the destination, if there is one.
CurrentSession ==
    /\ at["reader"] = "chat"
    /\ IF session = 0
       THEN Goto("reader", "want") /\ UNCHANGED frame
       ELSE /\ Goto("reader", "write")
            /\ frame' = [frame EXCEPT !["reader"] = Frame("session", session)]
    /\ crossed' = FALSE
    /\ UNCHANGED <<conn, lock, open, wire, got, session, counters>>

Want ==
    /\ at["reader"] = "want"
    /\ frame' = [frame EXCEPT !["reader"] = Frame("want", 0)]
    /\ Goto("reader", "write")
    /\ UNCHANGED <<conn, lock, open, wire, got, session, crossed, counters>>

\* The world says MsgBye or hangs up.
WorldCloses ==
    /\ at["reader"] = "read" /\ conn \in open
    /\ Goto("reader", "exit")
    /\ UNCHANGED <<conn, lock, open, wire, frame, got, session, crossed, counters>>

\* The connection was closed under the reader: it reports, and is gone.
ReadError ==
    /\ at["reader"] = "read" /\ conn \notin open
    /\ Goto("reader", "exit")
    /\ UNCHANGED <<conn, lock, open, wire, frame, got, session, crossed, counters>>

----------------------------------------------------------------------------
(* The client reader.                                                      *)

ReadMove ==
    /\ at["client"] = "read" /\ moves < MaxMoves
    /\ moves' = moves + 1
    /\ frame' = [frame EXCEPT !["client"] = Frame("move", 0)]
    /\ Goto("client", "write")
    /\ UNCHANGED <<conn, lock, open, wire, got, session, crossed, rehomes, pings>>

\* The world reader has read a session and not yet got to Write with it.
AboutToTell == at["reader"] = "write" /\ frame["reader"].type = "session"

\* chat_session_update: chat.sessionUpdate takes it, then it is forwarded.
ReadChatSession ==
    /\ at["client"] = "read" /\ session < MaxSessions
    /\ session' = session + 1
    /\ crossed' = AboutToTell
    /\ frame' = [frame EXCEPT !["client"] = Frame("session", session')]
    /\ Goto("client", "write")
    /\ UNCHANGED <<conn, lock, open, wire, got, counters>>

\* The client is gone: the client reader reports it and returns.
ReadEOF ==
    /\ at["client"] = "read"
    /\ Goto("client", "exit")
    /\ UNCHANGED <<conn, lock, open, wire, frame, got, session, crossed, counters>>

----------------------------------------------------------------------------
(* play: it waits for the first error, then says goodbye and closes.       *)

FirstError ==
    /\ at["play"] = "wait" /\ (at["reader"] = "exit" \/ at["client"] = "exit")
    /\ frame' = [frame EXCEPT !["play"] = Frame("bye", 0)]
    /\ Goto("play", "write")
    /\ UNCHANGED <<conn, lock, open, wire, got, session, crossed, counters>>

\* The deferred b.Get().Close().
GetCurrent ==
    /\ at["play"] = "get"
    /\ GetConn("play")
    /\ Goto("play", "closing")
    /\ UNCHANGED <<conn, lock, open, wire, frame, session, crossed, counters>>

CloseCurrent ==
    /\ at["play"] = "closing"
    /\ open' = open \ {got["play"]}
    /\ Goto("play", "done")
    /\ UNCHANGED <<conn, lock, wire, frame, got, session, crossed, counters>>

----------------------------------------------------------------------------
WorldReader == \/ ReadPing \/ WritePong \/ ReadRehome \/ DialResume \/ Swap
               \/ CloseOld \/ CurrentSession \/ Want
               \/ WorldCloses \/ ReadError
               \/ WriteHeader("reader") \/ WritePayload("reader")

ClientReader == \/ ReadMove \/ ReadChatSession \/ ReadEOF
                \/ WriteHeader("client") \/ WritePayload("client")

Play == \/ FirstError \/ GetCurrent \/ CloseCurrent
        \/ WriteHeader("play") \/ WritePayload("play")

\* Both readers wait for frames that need not come; play is done for good.
Idle == /\ at["reader"] \in {"read", "exit"} /\ at["client"] \in {"read", "exit"}
        /\ at["play"] \in {"wait", "done"}
        /\ UNCHANGED vars

Next == WorldReader \/ ClientReader \/ Play \/ Idle

Spec == Init /\ [][Next]_vars

\* A goroutine that can take its next step takes it; the frames and packets
\* it reads need not come.
Working(g) == at[g] \notin {"read", "wait"}
FairSpec == /\ Spec
            /\ WF_vars(WorldReader /\ Working("reader"))
            /\ WF_vars(ReadError)
            /\ WF_vars(ClientReader /\ Working("client"))
            /\ WF_vars(Play)

----------------------------------------------------------------------------
(* Properties.                                                             *)

\* The values every variable keeps to.
TypeOK ==
    /\ conn \in Conns /\ lock \in Goroutines \cup {None} /\ open \subseteq Conns
    /\ DOMAIN wire = Conns
    /\ at \in [Goroutines -> {"read", "pong", "dial", "swap", "close", "chat",
                              "want", "write", "half", "wait", "get",
                              "closing", "done", "exit"}]
    /\ frame \in [Goroutines -> Frames \cup {None}]
    /\ got \in [Goroutines -> Conns]
    /\ session \in 0 .. MaxSessions /\ crossed \in BOOLEAN
    /\ rehomes \in 0 .. MaxRehomes /\ pings \in 0 .. MaxPings /\ moves \in 0 .. MaxMoves

\* Each header in a stream is followed by its own payload.
Whole(stream) ==
    \A i \in DOMAIN stream :
        stream[i].part = "header" =>
            \/ i = Len(stream)
            \/ stream[i + 1] = [stream[i] EXCEPT !.part = "payload"]

\* The header at i has had nothing but pongs after it, up to j.
PongsTo(stream, i, j) == \A k \in i + 1 .. j - 1 : stream[k].part = "whole"

\* Its payload comes next of all that Write writes.
PayloadNext(stream, i) ==
    \E j \in i + 1 .. Len(stream) :
        PongsTo(stream, i, j) /\ stream[j] = [stream[i] EXCEPT !.part = "payload"]

\* It is the last thing Write wrote.
LastWritten(stream, i) == PongsTo(stream, i, Len(stream) + 1)

\* Write "holds the lock across the frame write, so a swap serialises cleanly
\* behind any in-flight write" (Backend's comment): the frames of the three
\* goroutines that write never mix, on any connection, the pongs left out.
FramesIntact ==
    \A c \in Conns : \A i \in DOMAIN wire[c] :
        wire[c][i].part = "header" => PayloadNext(wire[c], i) \/ LastWritten(wire[c], i)

\* The same with the pongs, which are frames of the same stream.
StreamIntact == \A c \in Conns : Whole(wire[c])

\* "No in-flight write targets a closed conn" (Swap's comment), until the
\* session itself is over.
WritesReachTheirPod ==
    \A g \in Goroutines :
        at[g] \in {"half", "pong"} => got[g] \in open \/ at["play"] = "done"

\* What the three goroutines write while the player is moved arrives: whole,
\* and at a pod that still listens (Backend's two promises together).
WritesArrive == TypeOK /\ FramesIntact /\ WritesReachTheirPod

\* What the pod on a connection was told of the player's chat session.
Told(c) ==
    LET s == {i \in DOMAIN wire[c] : wire[c][i].type = "session"
                                     /\ wire[c][i].part = "payload"}
    IN  IF s = {} THEN 0 ELSE wire[c][CHOOSE i \in s : \A j \in s : j <= i].val

Settled == at["reader"] = "read" /\ at["client"] \in {"read", "exit"}
           /\ at["play"] = "wait"

\* The pod the player is on knows the player's current chat session, across
\* handovers (MsgRehome, chat.current): without it no recipient there can
\* verify the player's messages.  A renewal may come between the world reader's
\* look at the session and its Write: then the older one may be the last the
\* destination hears, until the next renewal or handover.
PodKnowsSession == Settled => Told(conn) = session \/ crossed

\* "Tell it, as the client's chat_session_update told the first" (play's
\* comment) promises more, that no renewal is ever written over.
PodKnowsNewest == Settled => Told(conn) = session

\* The pod on a connection was sent a whole frame of a type.
Got(c, type) == \E i \in DOMAIN wire[c] : wire[c][i].type = type /\ wire[c][i].part = "payload"

\* Every handover completes (MsgRehome): the pod the player is moved to is
\* asked for the player's chunks, or the session ends.
RehomeCompletes ==
    \A pod \in Conns :
        (at["reader"] = "dial" /\ rehomes = pod) ~> (Got(pod, "want") \/ at["play"] # "wait")

\* A pod that was told goodbye has its connection closed, even when the
\* goodbye races a handover: nobody is left in its world (play's deferred
\* close, Swap's close of the old connection).
GoodbyeCloses == \A c \in Conns : Got(c, "bye") ~> (c \notin open)

\* A handover ends where it should: at the new pod with the player's chunks
\* asked for, or with the session over and the pod it said goodbye to closed.
HandoversEnd == RehomeCompletes /\ GoodbyeCloses

\* "Close the CURRENT backend (post-swap) on exit" (play): when the session is
\* over and the goroutines have nothing left to do, every connection is closed.
NothingLeftOpen ==
    at["play"] = "done" /\ at["reader"] \in {"read", "exit"} /\ at["client"] # "half"
        => open = {}
=============================================================================
