----------------------------- MODULE SecureChat -----------------------------
(***************************************************************************)
(* The secure chat of one connection (securechat.go): chatState, which the *)
(* world reader and the client reader share, and the client whose trackers *)
(* it mirrors.  The world reader renders player messages: each is packed   *)
(* against the signature cache and tracked as not yet seen.  The client    *)
(* reader takes acknowledgements, chat sessions and signed messages.       *)
(*                                                                         *)
(* A signature is a number; one that a message was signed with is the link *)
(* of its chain and the last-seen list it covers, so that it verifies when *)
(* they are equal.  A key is a number, the newer the later it expires.  A  *)
(* checksum stands for the list it is of.                                  *)
(***************************************************************************)
EXTENDS Naturals, Sequences, FiniteSets, SequencesExt

CONSTANTS
    Count,        \* LastSeenMax, the size of the window (20)
    CacheSize,    \* entries of the signature cache (128)
    MaxPending,   \* maxPendingChats (4096)
    AckAfter,     \* the client acknowledges after that many messages (64)
    Online,       \* accounts are authenticated: enforce-secure-profile is on
    Times,        \* what the clock makes of a signed message
    MaxMessages,  \* bound: player messages from the world
    MaxChats,     \* bound: messages and commands of the client
    MaxSids,      \* bound: chat sessions of the client
    MaxJoins,     \* bound: joins, the first one included
    MaxTrees,     \* bound: command trees after the first
    InFlight,     \* bound: packets on the way when one more is sent
    Null

ASSUME BoundAssumption ==
    /\ Count \in Nat \ {0} /\ CacheSize \in Nat \ {0} /\ MaxPending \in Nat
    /\ AckAfter \in Nat /\ Online \in BOOLEAN
    /\ Times \subseteq {"due", "expired", "back"}
    /\ {MaxMessages, MaxChats, MaxSids, MaxJoins, MaxTrees, InFlight} \subseteq Nat

VARIABLES
    tracked, lastPending, \* lastSeenValidator
    cache,                \* sigCache: the signatures, newest first
    nextIndex,            \* the next message's global index
    session, chain,       \* the client's chat session and its message chain
    signable,             \* message arguments of the command, as the tree says
    gate,                 \* clientConn.phase
    down, up,             \* packets to the client, packets from it
    client,               \* the client's trackers: see NewListener
    accepted,             \* links of what went on to the world
    outcome,              \* "ok", or what the client reader last refused or
                          \*   kicked the client for
    keys,                 \* the services keys have been fetched
    messages, chats, sids, joins, trees

state == <<tracked, lastPending, cache, nextIndex, session, chain, signable>>
counts == <<messages, chats, sids, joins, trees>>
vars == <<state, gate, down, up, client, accepted, outcome, keys, counts>>

\* The signatures of a behaviour: those of its messages, and one more.
Sigs == 1 .. MaxMessages + 1

Entry(sig, pending) == [sig |-> sig, pending |-> pending]
Blank == [i \in 1 .. Count |-> Null]
Empty == [i \in 1 .. CacheSize |-> Null]

\* The client's game listener: its window, what it has not acknowledged yet,
\* its cache and message count, its chat session and next link, and whether
\* every message it signed was due.
NewListener(key, args, timely) ==
    [window |-> Blank, offset |-> 0, last |-> Null, cache |-> Empty, index |-> 0,
     sid |-> 0, key |-> key, link |-> 0, args |-> args, timely |-> timely,
     place |-> "play"]

Init ==
    /\ tracked = Blank /\ lastPending = Null /\ cache = Empty /\ nextIndex = 0
    /\ session = Null /\ chain = Null /\ signable = 1
    /\ gate = "play" /\ down = << >> /\ up = << >>
    /\ client = NewListener(1, signable, TRUE)
    /\ accepted = << >> /\ outcome = "ok"
    /\ keys \in BOOLEAN
    /\ messages = 0 /\ chats = 0 /\ sids = 0 /\ joins = 1 /\ trees = 0

Playing == outcome # "kicked"

\* enforce: on, and able to validate profile keys at this moment.
enforce == Online /\ keys

----------------------------------------------------------------------------
(* The signature cache and the last-seen window.                           *)

\* sigCache.pack: the signature's place in the cache, or itself.
Pack(c, sig) ==
    LET at == {i \in 1 .. CacheSize : c[i] = sig}
    IN  IF at = {} THEN [id |-> 0, full |-> sig]
        ELSE [id |-> CHOOSE i \in at : \A j \in at : i <= j, full |-> Null]

\* sigCache.push at one place of the cache: the last of the queue goes in, and
\* what was there goes to the queue's front unless it was among the new ones.
PushAt(s, i, new) ==
    IF s.queue = << >> THEN s
    ELSE [cache |-> [s.cache EXCEPT ![i] = s.queue[Len(s.queue)]],
          queue |-> IF s.cache[i] = Null \/ Contains(new, s.cache[i]) THEN Front(s.queue)
                    ELSE <<s.cache[i]>> \o Front(s.queue)]

\* sigCache.push, place by place.
Push(c, last, sig) ==
    LET new == Append(last, sig)
        pushed[i \in 0 .. CacheSize] ==
            IF i = 0 THEN [cache |-> c, queue |-> new] ELSE PushAt(pushed[i - 1], i, new)
    IN  pushed[CacheSize].cache

\* What a vanilla client makes of the same message: the new ones, newest
\* first, then the rest in their order, as far as the cache goes.
Pushed(c, last, sig) ==
    LET new == Append(last, sig)
        rest == {i \in 1 .. CacheSize : c[i] # Null /\ ~Contains(new, c[i])}
        at(i) == {j \in rest : Len(new) + Cardinality({h \in rest : h <= j}) = i}
    IN  [i \in 1 .. CacheSize |->
            IF i <= Len(new) THEN new[Len(new) + 1 - i]
            ELSE IF at(i) # {} THEN c[CHOOSE j \in at(i) : TRUE] ELSE Null]

\* lastSeenValidator.addPending.
AddPending(sig) ==
    IF sig = lastPending THEN UNCHANGED <<tracked, lastPending>>
    ELSE tracked' = Append(tracked, Entry(sig, TRUE)) /\ lastPending' = sig

\* applyOffset: how far the window may move in a list of tracked entries.
OffsetFits(list, offset) == offset <= Len(list) - Count

\* The list once the first offset entries are dropped.
Moved(list, offset) == SubSeq(list, offset + 1, Len(list))

\* The signatures at some places of the window, oldest first.
InOrder(at) ==
    LET places == SelectSeq([i \in 1 .. Count |-> i], LAMBDA i : i \in DOMAIN at)
    IN  [i \in DOMAIN places |-> at[places[i]]]
Seen(window, acked) == InOrder([i \in acked |-> window[i].sig])

\* What a signature can cover.  Null is neither that nor any other record.
Lists == {InOrder(at) : at \in UNION {[acked -> Sigs] : acked \in SUBSET (1 .. Count)}}
ASSUME NullAssumption ==
    Null \notin Sigs \cup [sig : Sigs, pending : BOOLEAN]
                \cup [sid : Nat, key : Nat] \cup [sid : Nat, next : Nat, broken : BOOLEAN]
                \cup [sid : Nat, index : Nat, last : Lists]

\* applyUpdate: an acknowledged entry is one that was tracked, an entry that
\* was acknowledged before stays so, and the checksum agrees.
UpdateFits(list, u) ==
    /\ OffsetFits(list, u.offset)
    /\ LET window == Moved(list, u.offset)
       IN  /\ \A i \in 1 .. Count :
                 IF i \in u.acked THEN window[i] # Null
                 ELSE window[i] = Null \/ window[i].pending
           /\ Seen(window, u.acked) = u.sum

\* The entries after an update: what is acknowledged is no longer pending,
\* and what is not is forgotten.
Updated(list, u) ==
    LET rest == Moved(list, u.offset)
    IN  [i \in DOMAIN rest |->
            IF i > Count THEN rest[i]
            ELSE IF i \in u.acked THEN Entry(rest[i].sig, FALSE) ELSE Null]

----------------------------------------------------------------------------
(* The world reader.                                                       *)

To(packet) == Len(down \o up) < InFlight /\ down' = Append(down, packet)

\* Mutant: the body is packed against the cache the message is already in.
RenderPushed(sig, last) ==
    /\ Playing /\ gate = "play" /\ messages < MaxMessages
    /\ messages' = messages + 1
    /\ cache' = Push(cache, last, sig)
    /\ To([type |-> "message", index |-> nextIndex, sig |-> sig, last |-> last,
           packed |-> [i \in DOMAIN last |-> Pack(cache', last[i])]])
    /\ nextIndex' = nextIndex + 1
    /\ AddPending(sig)
    /\ outcome' = IF Len(tracked') > MaxPending THEN "kicked" ELSE outcome
    /\ UNCHANGED <<session, chain, signable, gate, up, client, accepted, chats, sids,
                   joins, trees>>

\* MsgPlayerChat (render).  A message the client already got may come again,
\* as another packet with the same signature.
Render(sig, last) ==
    /\ Playing /\ gate = "play" /\ messages < MaxMessages
    /\ messages' = messages + 1
    /\ To([type |-> "message", index |-> nextIndex, sig |-> sig, last |-> last,
           packed |-> [i \in DOMAIN last |-> Pack(cache, last[i])]])
    /\ nextIndex' = nextIndex + 1
    /\ cache' = Push(cache, last, sig)
    /\ AddPending(sig)
    /\ outcome' = IF Len(tracked') > MaxPending THEN "kicked" ELSE outcome
    /\ UNCHANGED <<session, chain, signable, gate, up, client, accepted, chats, sids,
                   joins, trees>>

\* MsgDeleteChat (renderDelete).
RenderDelete(sig) ==
    /\ Playing /\ gate = "play" /\ messages < MaxMessages
    /\ messages' = messages + 1
    /\ To([type |-> "delete", sig |-> sig, packed |-> Pack(cache, sig)])
    /\ UNCHANGED <<state, gate, up, client, accepted, outcome, chats, sids, joins, trees>>

\* MsgCommandTree (setCommandTree).
SetCommandTree(args) ==
    /\ Playing /\ gate = "play" /\ trees < MaxTrees
    /\ trees' = trees + 1
    /\ signable' = args
    /\ To([type |-> "commands", args |-> args])
    /\ UNCHANGED <<tracked, lastPending, cache, nextIndex, session, chain, gate, up,
                   client, accepted, outcome, messages, chats, sids, joins>>

\* reset.
Reset ==
    /\ tracked' = Blank /\ lastPending' = Null /\ cache' = Empty /\ nextIndex' = 0
    /\ session' = Null /\ chain' = Null

\* Mutant: reset comes with the request for a reconfiguration.
StartAndReset ==
    /\ Playing /\ gate = "play" /\ joins < MaxJoins
    /\ gate' = "configuring"
    /\ To([type |-> "start_configuration"])
    /\ Reset
    /\ UNCHANGED <<signable, up, client, accepted, outcome, counts>>

\* MsgStartConfiguration.
StartConfiguration ==
    /\ Playing /\ gate = "play" /\ joins < MaxJoins
    /\ gate' = "configuring"
    /\ To([type |-> "start_configuration"])
    /\ UNCHANGED <<state, up, client, accepted, outcome, counts>>

\* Mutant: the session and its chain outlive the listener.
RejoinKeepingChain ==
    /\ Playing /\ gate = "rejoining"
    /\ gate' = "play" /\ joins' = joins + 1
    /\ tracked' = Blank /\ lastPending' = Null /\ cache' = Empty /\ nextIndex' = 0
    /\ To([type |-> "login"])
    /\ UNCHANGED <<session, chain, signable, up, client, accepted, outcome, messages,
                   chats, sids, trees>>

\* MsgRejoin: chat.reset, and the login.
Rejoin ==
    /\ Playing /\ gate = "rejoining"
    /\ gate' = "play" /\ joins' = joins + 1
    /\ Reset
    /\ To([type |-> "login"])
    /\ UNCHANGED <<signable, up, client, accepted, outcome, messages, chats, sids, trees>>

----------------------------------------------------------------------------
(* The client reader.                                                      *)

Received(type) == Playing /\ up # << >> /\ Head(up).type = type
Taken == up' = Tail(up)
Kick == outcome' = "kicked" /\ UNCHANGED <<tracked, session, chain, accepted>>

\* unpack: the chain after a signed message, and whether it is accepted.  A
\* missing signature and an expired key leave the chain as it is.
Unpack(c, sig, when, seen) ==
    LET refused == [chain |-> c, ok |-> FALSE]
        broken == [chain |-> [c EXCEPT !.broken = TRUE], ok |-> FALSE]
    IN  IF sig = Null \/ when = "expired" \/ c.broken THEN refused
        ELSE IF when = "back" THEN broken
        ELSE IF sig = [sid |-> c.sid, index |-> c.next, last |-> seen]
        THEN [chain |-> [c EXCEPT !.next = @ + 1], ok |-> TRUE]
        ELSE broken

\* Every argument of a command is unpacked in turn, until one is refused.
UnpackAll(c, sigs, when, seen) ==
    LET unpacked(i) == Unpack([c EXCEPT !.next = @ + i - 1], sigs[i], when, seen)
        refused == {i \in DOMAIN sigs : ~unpacked(i).ok}
    IN  IF refused = {} THEN [chain |-> [c EXCEPT !.next = @ + Len(sigs)], ok |-> TRUE]
        ELSE unpacked(Min(refused))

Accept(sigs) == accepted' = accepted \o sigs /\ outcome' = "ok"
Refuse == outcome' = "refused" /\ UNCHANGED accepted

\* receiveChat: the window, then the chain.
ReceiveChat ==
    /\ Received("chat") /\ Taken
    /\ LET p == Head(up)
           seen == Seen(Moved(tracked, p.offset), p.acked)
           result == Unpack(chain, p.sigs[1], p.when, seen)
       IN  IF ~UpdateFits(tracked, p) THEN Kick
           ELSE /\ tracked' = Updated(tracked, p)
                /\ IF chain = Null
                   THEN UNCHANGED chain /\ IF enforce THEN Refuse ELSE Accept(<< >>)
                   ELSE chain' = result.chain /\ IF result.ok THEN Accept(p.sigs) ELSE Refuse
                /\ UNCHANGED session
    /\ UNCHANGED <<lastPending, cache, nextIndex, signable, gate, down, client, counts>>

\* receiveSignedCommand: as many signatures as the tree has arguments, or
\* none; a signature for an argument the command does not have breaks the
\* chain.  The arguments before it were unpacked already.
ReceiveCommand ==
    /\ Received("command") /\ Taken
    /\ LET p == Head(up)
           seen == Seen(Moved(tracked, p.offset), p.acked)
           known == SubSeq(p.sigs, 1, IF Len(p.sigs) < signable THEN Len(p.sigs) ELSE signable)
           result == UnpackAll(chain, known, p.when, seen)
           unknown == Len(p.sigs) > signable
       IN  IF ~UpdateFits(tracked, p) THEN Kick
           ELSE /\ tracked' = Updated(tracked, p)
                /\ IF p.sigs = << >>
                   THEN /\ UNCHANGED chain
                        /\ IF signable > 0 /\ (chain # Null \/ enforce)
                           THEN Refuse ELSE Accept(<< >>)
                   ELSE IF chain = Null
                   THEN /\ UNCHANGED chain
                        /\ IF unknown \/ enforce THEN Refuse ELSE Accept(<< >>)
                   ELSE /\ chain' = IF result.ok /\ unknown
                                    THEN [result.chain EXCEPT !.broken = TRUE]
                                    ELSE result.chain
                        /\ IF result.ok /\ ~unknown THEN Accept(p.sigs) ELSE Refuse
                /\ UNCHANGED session
    /\ UNCHANGED <<lastPending, cache, nextIndex, signable, gate, down, client, counts>>

\* ack.
ReceiveAck ==
    /\ Received("ack") /\ Taken
    /\ IF OffsetFits(tracked, Head(up).offset)
       THEN /\ tracked' = Moved(tracked, Head(up).offset)
            /\ UNCHANGED <<session, chain, accepted, outcome>>
       ELSE Kick
    /\ UNCHANGED <<lastPending, cache, nextIndex, signable, gate, down, client, counts>>

\* sessionUpdate: the same key again is no change, an older one is refused.
ReceiveSession ==
    /\ Received("session") /\ Taken
    /\ LET p == Head(up)
       IN  IF session # Null /\ p.key < session.key THEN Kick
           ELSE /\ IF ~enforce \/ (session # Null /\ p.key = session.key)
                   THEN UNCHANGED <<session, chain>>
                   ELSE /\ session' = [sid |-> p.sid, key |-> p.key]
                        /\ chain' = [sid |-> p.sid, next |-> 0, broken |-> FALSE]
                /\ UNCHANGED <<tracked, accepted, outcome>>
    /\ UNCHANGED <<lastPending, cache, nextIndex, signable, gate, down, client, counts>>

\* configuration_acknowledged, and the phase it starts.
ReceiveConfigured ==
    /\ Received("configured") /\ Taken
    /\ gate' = "rejoining"
    /\ UNCHANGED <<state, down, client, accepted, outcome, counts>>

----------------------------------------------------------------------------
(* The Minecraft client.                                                   *)

Incoming(type) == Playing /\ down # << >> /\ Head(down).type = type
Read == down' = Tail(down)

\* A message is shown, or filtered out, and tracked once; enough of them
\* unacknowledged are acknowledged without a message of its own.
ClientReadsMessage(shown) ==
    /\ Incoming("message") /\ Read
    /\ LET p == Head(down)
           fresh == p.sig # client.last
           offset == client.offset + IF fresh THEN 1 ELSE 0
           acks == offset > AckAfter
       IN  /\ client' = [client EXCEPT
                 !.index = @ + 1, !.cache = Pushed(@, p.last, p.sig), !.last = p.sig,
                 !.window = IF fresh
                            THEN Append(Tail(@), IF shown THEN Entry(p.sig, TRUE) ELSE Null)
                            ELSE @,
                 !.offset = IF acks THEN 0 ELSE offset]
           /\ up' = IF acks THEN Append(up, [type |-> "ack", offset |-> offset]) ELSE up
    /\ UNCHANGED <<state, gate, accepted, outcome, counts>>

ClientReadsDelete ==
    /\ Incoming("delete") /\ Read
    /\ LET sig == Head(down).sig
       IN  client' = [client EXCEPT !.window =
               [i \in 1 .. Count |-> IF @[i] # Null /\ @[i].pending /\ @[i].sig = sig
                                     THEN Null ELSE @[i]]]
    /\ UNCHANGED <<state, gate, up, accepted, outcome, counts>>

ClientReadsOther ==
    /\ \/ /\ Incoming("commands")
          /\ client' = [client EXCEPT !.args = Head(down).args]
          /\ UNCHANGED up
       \/ /\ Incoming("start_configuration")
          /\ client' = [client EXCEPT !.place = "configuration"]
          /\ up' = Append(up, [type |-> "configured"])
       \/ /\ Incoming("login")
          /\ client' = NewListener(client.key, client.args, client.timely)
          /\ UNCHANGED up
    /\ Read
    /\ UNCHANGED <<state, gate, accepted, outcome, counts>>

\* chat and chat_command_signed: the window is acknowledged with them, and a
\* client with a session signs what is to be signed, link after link.
ClientSays(type, when) ==
    /\ Playing /\ client.place = "play" /\ chats < MaxChats /\ Len(down \o up) < InFlight
    /\ chats' = chats + 1
    /\ LET acked == {i \in 1 .. Count : client.window[i] # Null}
           sum == Seen(client.window, acked)
           number == IF type = "chat" THEN 1 ELSE IF client.sid = 0 THEN 0 ELSE client.args
           sigs == [i \in 1 .. number |->
                       IF client.sid = 0 THEN Null
                       ELSE [sid |-> client.sid, index |-> client.link + i - 1, last |-> sum]]
       IN  /\ up' = Append(up, [type |-> type, offset |-> client.offset, acked |-> acked,
                                sum |-> sum, sigs |-> sigs, when |-> when])
           /\ client' = [client EXCEPT
                 !.offset = 0, !.timely = @ /\ when = "due",
                  !.link = IF client.sid = 0 THEN @ ELSE @ + number,
                 !.window = [i \in 1 .. Count |->
                     IF @[i] = Null THEN Null ELSE Entry(@[i].sig, FALSE)]]
    /\ UNCHANGED <<state, gate, down, accepted, outcome, messages, sids, joins, trees>>

\* chat_session_update: a new listener's first, or one with a renewed key.
ClientSession(key) ==
    /\ Playing /\ client.place = "play" /\ sids < MaxSids /\ Len(down \o up) < InFlight
    /\ key = client.key => client.sid = 0
    /\ sids' = sids + 1
    /\ client' = [client EXCEPT !.sid = sids', !.key = key, !.link = 0]
    /\ up' = Append(up, [type |-> "session", sid |-> sids', key |-> key])
    /\ UNCHANGED <<state, gate, down, accepted, outcome, messages, chats, joins, trees>>

----------------------------------------------------------------------------
\* What a message may be, and may cover: messages this client got, and some it
\* did not.  A signature covers its last-seen list, so it is not in it.
Known == {s \in Sigs : s <= messages + 2}
LastLists == {<< >>} \cup {<<s>> : s \in Known} \cup {l \in Known \X Known : l[1] # l[2]}

World == \/ \E sig \in Known, last \in LastLists :
                ~Contains(last, sig) /\ Render(sig, last)
         \/ \E sig \in Known : RenderDelete(sig)
         \/ \E args \in (0 .. 2) \ {signable} : SetCommandTree(args)
         \/ StartConfiguration \/ Rejoin

ClientReader == \/ ReceiveChat \/ ReceiveCommand \/ ReceiveAck \/ ReceiveSession
                \/ ReceiveConfigured

Client == \/ \E shown \in BOOLEAN : ClientReadsMessage(shown)
          \/ ClientReadsDelete \/ ClientReadsOther
          \/ \E type \in {"chat", "command"}, when \in Times : ClientSays(type, when)
          \/ \E key \in {client.key, client.key + 1} : ClientSession(key)

\* load: a fetch succeeds, this session's or another's; until one does it is
\* tried again, and what was fetched stays.
KeysArrive ==
    /\ ~keys
    /\ keys' = TRUE
    /\ UNCHANGED <<state, gate, down, up, client, accepted, outcome, counts>>

\* Nothing more is said, or the client is gone.
Quiet == (~Playing \/ down \o up = << >>) /\ UNCHANGED vars

Next == \/ (World \/ ClientReader \/ Client) /\ UNCHANGED keys
        \/ KeysArrive \/ Quiet

Spec == Init /\ [][Next]_vars

----------------------------------------------------------------------------
(* Properties.                                                             *)

\* The values every variable keeps to.
TypeOK ==
    /\ \A i \in DOMAIN tracked :
          tracked[i] = Null \/ tracked[i] \in [sig : Sigs, pending : BOOLEAN]
    /\ Len(tracked) >= Count
    /\ cache \in [1 .. CacheSize -> Sigs \cup {Null}]
    /\ nextIndex \in Nat /\ signable \in 0 .. 2
    /\ session = Null \/ session \in [sid : 1 .. MaxSids, key : 1 .. MaxSids + 1]
    /\ chain = Null \/ chain \in [sid : 1 .. MaxSids, next : Nat, broken : BOOLEAN]
    /\ gate \in {"play", "configuring", "rejoining"} /\ keys \in BOOLEAN
    /\ outcome \in {"ok", "refused", "kicked"}

\* A vanilla client is never disconnected for its chat: whatever messages
\* cross its acknowledgements, the window it acknowledges fits the gateway's,
\* and no session it renews counts as expired.
NeverKicked == outcome # "kicked"

\* The gateway's cache mirrors the client's: a signature packed as an index
\* is, in the client's cache when the packet gets there, that signature.
PackedResolve ==
    down # << >> =>
        LET p == Head(down)
            resolves(packed, sig) ==
                IF packed.id = 0 THEN packed.full = sig ELSE client.cache[packed.id] = sig
        IN  /\ p.type = "message" => \A i \in DOMAIN p.last : resolves(p.packed[i], p.last[i])
            /\ p.type = "delete" => resolves(p.packed, p.sig)

\* Every message carries the index the client's listener expects next.
IndexInOrder ==
    down # << >> /\ Head(down).type = "message" => Head(down).index = client.index

\* What the gateway keeps of a client, the client has: the signatures an
\* index stands for and the index it listens for, across reconfigurations.
MirrorsAgree == TypeOK /\ PackedResolve /\ IndexInOrder

\* What a client that keeps time signs is accepted: its session is known
\* before its first message, and the chain and the last-seen list agree with
\* the gateway's.  A command the world changed the tree of meanwhile, and an
\* unsigned message, may be refused.
SignedAccepted ==
    chain # Null /\ client.timely /\ trees = 0 => ~chain.broken

\* The world gets the messages of a chat session in the order they were
\* signed, none twice and none left out, and none of an older session after
\* one of a newer.
AcceptedInOrder ==
    \A i \in DOMAIN accepted :
        LET b == accepted[i]
        IN  IF i > 1 /\ accepted[i - 1].sid = b.sid THEN b.index = accepted[i - 1].index + 1
            ELSE b.index = 0 /\ (i > 1 => accepted[i - 1].sid < b.sid)

\* Signing is worth its price: an honest client's messages are accepted, and
\* no message out of its order ever is.
SignedInOrder == SignedAccepted /\ AcceptedInOrder
=============================================================================
