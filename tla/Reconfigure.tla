---------------------------- MODULE Reconfigure ----------------------------
(***************************************************************************)
(* A play session of the gateway that is sent back to configuration        *)
(* (gwsession/reconfigure.go and the goroutines of play() that use it).    *)
(*                                                                         *)
(* Three goroutines of one session share the client connection: the world  *)
(* reader, the client reader and the keep-alive ticker; the chunk pacer is *)
(* a fourth sender.  Their writes pass a gate, clientConn.send, that drops *)
(* every play packet while the client is between phases.  Only configure(),*)
(* run on the client reader, writes without the gate and without its lock. *)
(*                                                                         *)
(* The Minecraft client and the world server are outside this repository.  *)
(* They are modelled as the peers this code expects: a client that follows *)
(* the protocol, and a world that keeps the contract documented at         *)
(* MsgStartConfiguration (Contract = TRUE) or that does not (FALSE).       *)
(***************************************************************************)
EXTENDS Naturals, Sequences

CONSTANTS
    Registries,    \* what a ConfigData's dimensions and registries can be
    TagSets,       \* what its tags can be
    BuiltinTags,   \* no tags of the world's own: the built-in ones
    NoConfig,      \* no configuration data: a nil *StartConfiguration
    Contract,      \* the world sends nothing between MsgStartConfiguration
                   \*   and the MsgConfigured that answers it
    Prompt,        \* the client's keep-alive answers are back within one
                   \*   keep-alive interval
    ResourcePack,  \* cfg.ResourcePack # nil
    PackRequired,  \* cfg.ResourcePack.Required
    SockBuf,       \* packets the client's socket holds: a full one blocks
                   \*   the writer
    MaxStarts,     \* bound: MsgStartConfiguration frames of the world
    MaxFrames,     \* bound: other play packets and frames
    MaxTicks       \* bound: keep-alive intervals

Configs == [reg : Registries, tags : TagSets]

ASSUME NoConfigAssumption == NoConfig \notin Configs
ASSUME TagAssumption == BuiltinTags \in TagSets
ASSUME SwitchAssumption ==
    /\ Contract \in BOOLEAN /\ Prompt \in BOOLEAN
    /\ ResourcePack \in BOOLEAN /\ PackRequired \in BOOLEAN
ASSUME BoundAssumption ==
    /\ SockBuf \in Nat /\ MaxStarts \in Nat
    /\ MaxFrames \in Nat /\ MaxTicks \in Nat

VARIABLES
    phase,         \* clientConn.phase
    pendingConfig, \* clientConn.pendingConfig
    curConfig,     \* play's curConfig, the world reader's own
    reader,        \* what the client reader is doing
    taken,         \* the configuration data configure() runs with
    sent,          \* configure's flag: finish_configuration went out
    ticker,        \* the keep-alive goroutine's place in its loop
    kaPending, kaChallenge,
    ended,         \* why the session ended, or "no"
    toClient, toGateway,    \* the client connection
    fromWorld, reports,     \* the attach connection; reports counts the
                            \*   MsgConfigured frames not yet read
    client, clientConfig,   \* the client's protocol state and registries
    world, requested,       \* the world's view of the player
    starts, frames          \* bounds' counters

gateVars   == <<phase, pendingConfig, curConfig>>
readerVars == <<reader, taken, sent>>
kaVars     == <<ticker, kaPending, kaChallenge>>
clientVars == <<client, clientConfig>>
worldVars  == <<world, requested, starts, frames>>
vars == <<gateVars, readerVars, kaVars, ended, toClient, toGateway,
          fromWorld, reports, clientVars, worldVars>>

----------------------------------------------------------------------------
(* Packets: a kind, the configuration data it was composed from, and a     *)
(* keep-alive number.                                                      *)

PlayKinds   == {"play", "keepalive", "tags", "start", "disconnect"}
ConfigKinds == {"known", "registries", "push", "finish", "cfgDisconnect"}
ClientboundKinds == PlayKinds \cup ConfigKinds \cup {"login"}

ServerPlayKinds   == {"move", "kaReply", "ack"}
ServerConfigKinds == {"knownReply", "accepted", "loaded", "declined", "finished"}
ServerboundKinds  == ServerPlayKinds \cup ServerConfigKinds

FrameKinds == {"play", "tags", "start frame", "rejoin"}

\* What a client in state c takes.
ReadableBy(c) == IF c = "play" THEN PlayKinds
                 ELSE IF c = "config" THEN ConfigKinds ELSE {"login"}

Packet(kind, cfg, n) == [kind |-> kind, cfg |-> cfg, n |-> n]
Plain(kind) == Packet(kind, NoConfig, 0)

\* The packets composed from configuration data name it.
ComposedKinds == {"registries", "tags", "login", "start frame"}
Packets(kinds) ==
    {p \in [kind : kinds, cfg : Configs \cup {NoConfig}, n : Nat] :
        p.kind \in ComposedKinds => p.cfg \in Configs}

Room(k) == Len(toClient) + k <= SockBuf

\* A write that does not pass the gate: configure's send, and the packets
\* startConfiguration and rejoin write under the lock.
Write(p) == Room(1) /\ toClient' = Append(toClient, p)
WriteTwo(p, q) == Room(2) /\ toClient' = Append(Append(toClient, p), q)

\* Mutant: send without the phase check.
UngatedSend(p) == Write(p)

\* clientConn.send: a play packet is dropped between phases.
CcSend(p) ==
    IF phase = "play" THEN Write(p) ELSE UNCHANGED toClient

End(why) == ended' = why
Alive == ended = "no"

Init ==
    /\ phase = "play" /\ pendingConfig = NoConfig
    /\ curConfig \in Configs
    /\ reader = "play" /\ taken = NoConfig /\ sent = FALSE
    /\ ticker = "idle" /\ kaPending = FALSE /\ kaChallenge = 0
    /\ ended = "no"
    /\ toClient = << >> /\ toGateway = << >>
    /\ fromWorld = << >> /\ reports = 0
    /\ client = "play" /\ clientConfig = curConfig
    /\ world = "inLevel" /\ requested = curConfig
    /\ starts = 0 /\ frames = 0

----------------------------------------------------------------------------
(* The world reader: one frame, handled whole.                             *)

NextFrame(kind) ==
    /\ Alive
    /\ fromWorld # << >> /\ Head(fromWorld).kind = kind
    /\ fromWorld' = Tail(fromWorld)

\* Any frame whose handler renders a packet and sends it.
HandlePlayFrame ==
    /\ NextFrame("play")
    /\ CcSend(Plain("play"))
    /\ UNCHANGED <<gateVars, readerVars, kaVars, ended, toGateway, reports,
                   clientVars, worldVars>>

HandleUpdateTags ==
    /\ NextFrame("tags")
    /\ curConfig' = [curConfig EXCEPT !.tags = Head(fromWorld).cfg.tags]
    /\ CcSend(Packet("tags", curConfig', 0))
    /\ UNCHANGED <<phase, pendingConfig, readerVars, kaVars, ended, toGateway,
                   reports, clientVars, worldVars>>

\* Mutant: the pending configuration is the previous one.
StartPrevious(e) ==
    IF phase # "play"
    THEN UNCHANGED <<phase, pendingConfig, toClient>>
    ELSE /\ phase' = "configuring"
         /\ pendingConfig' = curConfig
         /\ Write(Plain("start"))

\* startConfiguration: a second request while one is under way is ignored.
StartConfiguration(e) ==
    IF phase # "play"
    THEN UNCHANGED <<phase, pendingConfig, toClient>>
    ELSE /\ phase' = "configuring"
         /\ pendingConfig' = e
         /\ Write(Plain("start"))

\* Mutant: curConfig keeps the configuration before.
HandleStartKeepingConfig ==
    /\ NextFrame("start frame")
    /\ StartConfiguration(Head(fromWorld).cfg)
    /\ UNCHANGED <<curConfig, readerVars, kaVars, ended, toGateway, reports,
                   clientVars, worldVars>>

HandleStartConfiguration ==
    /\ NextFrame("start frame")
    /\ curConfig' = Head(fromWorld).cfg
    /\ StartConfiguration(Head(fromWorld).cfg)
    /\ UNCHANGED <<readerVars, kaVars, ended, toGateway, reports, clientVars,
                   worldVars>>

\* Mutant: no errEarlyRejoin.
RejoinAnyTime ==
    /\ phase' = "play"
    /\ WriteTwo(Packet("login", curConfig, 0), Plain("play"))
    /\ UNCHANGED ended

\* rejoin: the login packet under the lock that reopens play; then the rest
\* of the join sequence passes the gate.
Rejoin ==
    IF phase # "rejoining"
    THEN End("earlyRejoin") /\ UNCHANGED <<phase, toClient>>
    ELSE /\ phase' = "play"
         /\ WriteTwo(Packet("login", curConfig, 0), Plain("play"))
         /\ UNCHANGED ended

HandleRejoin ==
    /\ NextFrame("rejoin")
    /\ Rejoin
    /\ UNCHANGED <<pendingConfig, curConfig, readerVars, kaVars, toGateway,
                   reports, clientVars, worldVars>>

\* The other goroutines that call send: the chunk pacer, the client reader.
OtherSend ==
    /\ Alive /\ frames < MaxFrames
    /\ frames' = frames + 1
    /\ CcSend(Plain("play"))
    /\ UNCHANGED <<gateVars, readerVars, kaVars, ended, toGateway, fromWorld,
                   reports, clientVars, world, requested, starts>>

----------------------------------------------------------------------------
(* The client reader: the play loop, and configure() inside it.            *)

NextPacket(state, kind) ==
    /\ Alive /\ reader = state
    /\ toGateway # << >> /\ Head(toGateway).kind = kind
    /\ toGateway' = Tail(toGateway)

ReadMove ==
    /\ NextPacket("play", "move")
    /\ UNCHANGED <<gateVars, readerVars, kaVars, ended, toClient, fromWorld,
                   reports, clientVars, worldVars>>

\* handleKeepAlive: only the right answer to a pending challenge clears it.
ReadKeepAlive ==
    /\ NextPacket("play", "kaReply")
    /\ kaPending' = (kaPending /\ Head(toGateway).n # kaChallenge)
    /\ UNCHANGED <<gateVars, readerVars, ticker, kaChallenge, ended, toClient,
                   fromWorld, reports, clientVars, worldVars>>

\* configuration_acknowledged: takeConfig, then configure's first packet.
TakeConfig == phase = "configuring" /\ pendingConfig # NoConfig

ReadAck ==
    /\ NextPacket("play", "ack")
    /\ IF TakeConfig
       THEN /\ reader' = "config" /\ taken' = pendingConfig /\ sent' = FALSE
            /\ pendingConfig' = NoConfig
            /\ Write(Plain("known"))
            /\ UNCHANGED ended
       ELSE /\ End("unrequested")
            /\ UNCHANGED <<readerVars, pendingConfig, toClient>>
    /\ UNCHANGED <<phase, curConfig, kaVars, fromWorld, reports, clientVars,
                   worldVars>>

\* The known packs are answered: the registries and tags, then the resource
\* pack, whose answer configuration waits for, or the end of configuration.
ReadKnownPacks ==
    /\ NextPacket("config", "knownReply")
    /\ WriteTwo(Packet("registries", taken, 0),
                Plain(IF ResourcePack THEN "push" ELSE "finish"))
    /\ sent' = (sent \/ ~ResourcePack)
    /\ UNCHANGED <<gateVars, reader, taken, kaVars, ended, fromWorld, reports,
                   clientVars, worldVars>>

\* Mutant: every answer about the pack ends configuration.
FinishOnEveryAnswer(kind) ==
    /\ NextPacket("config", kind)
    /\ Write(Plain("finish")) /\ sent' = TRUE
    /\ UNCHANGED <<gateVars, reader, taken, kaVars, ended, fromWorld, reports,
                   clientVars, worldVars>>

ReadPackAnswer(kind) ==
    /\ NextPacket("config", kind)
    /\ \/ /\ kind = "declined" /\ ResourcePack /\ PackRequired
          /\ Write(Plain("cfgDisconnect"))
          /\ End("declined")
          /\ UNCHANGED sent
       \/ /\ ~(kind = "declined" /\ ResourcePack /\ PackRequired)
          /\ IF kind # "accepted" /\ ~sent /\ ResourcePack
             THEN Write(Plain("finish")) /\ sent' = TRUE
             ELSE UNCHANGED <<toClient, sent>>
          /\ UNCHANGED ended
    /\ UNCHANGED <<gateVars, reader, taken, kaVars, fromWorld, reports,
                   clientVars, worldVars>>

\* Mutant: configured() left out.
NotConfigured == UNCHANGED phase

\* finish_configuration is answered: configure returns, and configured()
\* marks the client as waiting for the login.
Configured == phase' = "rejoining"

ReadFinished ==
    /\ NextPacket("config", "finished")
    /\ IF sent
       THEN /\ Configured /\ reader' = "report" /\ taken' = NoConfig
            /\ UNCHANGED ended
       ELSE End("finishEarly") /\ UNCHANGED <<phase, reader, taken>>
    /\ UNCHANGED <<pendingConfig, curConfig, sent, kaVars, toClient, fromWorld,
                   reports, clientVars, worldVars>>

\* Mutant: the world is not told.
ReportNothing ==
    /\ Alive /\ reader = "report"
    /\ reader' = "play"
    /\ UNCHANGED <<gateVars, taken, sent, kaVars, ended, toClient, toGateway,
                   fromWorld, reports, clientVars, worldVars>>

\* b.Write(MsgConfigured), after configured() and outside its lock.
ReportConfigured ==
    /\ Alive /\ reader = "report"
    /\ reader' = "play"
    /\ reports' = reports + 1
    /\ UNCHANGED <<gateVars, taken, sent, kaVars, ended, toClient, toGateway,
                   fromWorld, clientVars, worldVars>>

\* The deadline ReadAck sets around configure().
DeadlineExpires ==
    /\ Alive /\ reader = "config"
    /\ End("deadline")
    /\ UNCHANGED <<gateVars, readerVars, kaVars, toClient, toGateway,
                   fromWorld, reports, clientVars, worldVars>>

\* The client closed the connection: the reader's next read fails.
ReadEOF ==
    /\ Alive /\ reader # "report" /\ client = "gone" /\ toGateway = << >>
    /\ End("client")
    /\ UNCHANGED <<gateVars, readerVars, kaVars, toClient, toGateway,
                   fromWorld, reports, clientVars, worldVars>>

----------------------------------------------------------------------------
(* The keep-alive ticker: one challenge per interval, in three steps.      *)

InFlight == \/ \E i \in DOMAIN toClient : toClient[i].kind = "keepalive"
            \/ \E i \in DOMAIN toGateway : toGateway[i].kind = "kaReply"

\* The interval elapses; configuring() is asked.
Tick ==
    /\ Alive /\ ticker = "idle" /\ kaChallenge < MaxTicks
    /\ Prompt => ~InFlight
    /\ IF phase # "play"
       THEN kaPending' = FALSE /\ UNCHANGED ticker
       ELSE ticker' = "checked" /\ UNCHANGED kaPending
    /\ UNCHANGED <<gateVars, readerVars, kaChallenge, ended, toClient,
                   toGateway, fromWorld, reports, clientVars, worldVars>>

TimeOut ==
    /\ Alive /\ ticker = "checked" /\ kaPending
    /\ CcSend(Plain("disconnect"))
    /\ End("timeout")
    /\ UNCHANGED <<gateVars, readerVars, kaVars, toGateway, fromWorld,
                   reports, clientVars, worldVars>>

ArmChallenge ==
    /\ Alive /\ ticker = "checked" /\ ~kaPending
    /\ kaChallenge' = kaChallenge + 1
    /\ kaPending' = TRUE
    /\ ticker' = "armed"
    /\ UNCHANGED <<gateVars, readerVars, ended, toClient, toGateway,
                   fromWorld, reports, clientVars, worldVars>>

SendChallenge ==
    /\ Alive /\ ticker = "armed"
    /\ ticker' = "idle"
    /\ CcSend(Packet("keepalive", NoConfig, kaChallenge))
    /\ UNCHANGED <<gateVars, readerVars, kaPending, kaChallenge, ended,
                   toGateway, fromWorld, reports, clientVars, worldVars>>

----------------------------------------------------------------------------
(* The client (external): it follows the protocol of its state.            *)

ClientReads(state, kind) ==
    /\ client = state
    /\ toClient # << >> /\ Head(toClient).kind = kind
    /\ toClient' = Tail(toClient)
    /\ UNCHANGED <<gateVars, readerVars, kaVars, ended, fromWorld, reports,
                   worldVars>>

Answer(kind, n) == toGateway' = Append(toGateway, Packet(kind, NoConfig, n))

ClientReadsPlay ==
    /\ ClientReads("play", "play")
    /\ UNCHANGED <<toGateway, clientVars>>

ClientReadsKeepAlive ==
    /\ ClientReads("play", "keepalive")
    /\ Answer("kaReply", Head(toClient).n)
    /\ UNCHANGED clientVars

ClientReadsTags ==
    /\ ClientReads("play", "tags")
    /\ clientConfig' = [clientConfig EXCEPT !.tags = Head(toClient).cfg.tags]
    /\ UNCHANGED <<toGateway, client>>

\* start_configuration: the client drops its level, acknowledges and is in
\* configuration.
ClientReadsStart ==
    /\ ClientReads("play", "start")
    /\ client' = "config"
    /\ Answer("ack", 0)
    /\ UNCHANGED clientConfig

ClientReadsKnownPacks ==
    /\ ClientReads("config", "known")
    /\ Answer("knownReply", 0)
    /\ UNCHANGED clientVars

ClientReadsRegistries ==
    /\ ClientReads("config", "registries")
    /\ clientConfig' = Head(toClient).cfg
    /\ UNCHANGED <<toGateway, client>>

\* A resource pack is declined, or accepted and then loaded.
ClientReadsPush ==
    /\ ClientReads("config", "push")
    /\ \/ Answer("declined", 0)
       \/ toGateway' = Append(Append(toGateway, Plain("accepted")),
                              Plain("loaded"))
    /\ UNCHANGED clientVars

ClientReadsFinish ==
    /\ ClientReads("config", "finish")
    /\ client' = "joining"
    /\ Answer("finished", 0)
    /\ UNCHANGED clientConfig

ClientReadsLogin ==
    /\ ClientReads("joining", "login")
    /\ client' = "play"
    /\ UNCHANGED <<toGateway, clientConfig>>

ClientReadsDisconnect ==
    /\ \/ ClientReads("play", "disconnect")
       \/ ClientReads("config", "cfgDisconnect")
    /\ client' = "gone"
    /\ UNCHANGED <<toGateway, clientConfig>>

ClientSends ==
    /\ client = "play" /\ frames < MaxFrames
    /\ frames' = frames + 1
    /\ Answer("move", 0)
    /\ UNCHANGED <<gateVars, readerVars, kaVars, ended, toClient, fromWorld,
                   reports, clientVars, world, requested, starts>>

ClientLeaves ==
    /\ client # "gone"
    /\ client' = "gone"
    /\ UNCHANGED <<gateVars, readerVars, kaVars, ended, toClient, toGateway,
                   fromWorld, reports, clientConfig, worldVars>>

ClientRead ==
    \/ ClientReadsPlay \/ ClientReadsKeepAlive \/ ClientReadsTags
    \/ ClientReadsStart \/ ClientReadsKnownPacks \/ ClientReadsRegistries
    \/ ClientReadsPush \/ ClientReadsFinish \/ ClientReadsLogin
    \/ ClientReadsDisconnect

----------------------------------------------------------------------------
(* The world (external).                                                   *)

WorldWrites(kind, cfg) ==
    /\ fromWorld' = Append(fromWorld, Packet(kind, cfg, 0))
    /\ UNCHANGED <<gateVars, readerVars, kaVars, ended, toClient, toGateway,
                   clientVars>>

WorldSendsFrame ==
    /\ Alive /\ frames < MaxFrames
    /\ Contract => world = "inLevel"
    /\ frames' = frames + 1
    /\ WorldWrites("play", NoConfig)
    /\ UNCHANGED <<reports, world, requested, starts>>

WorldSendsTags(t) ==
    /\ Alive /\ frames < MaxFrames
    /\ Contract => world = "inLevel"
    /\ frames' = frames + 1
    /\ requested' = [requested EXCEPT !.tags = t]
    /\ WorldWrites("tags", requested')
    /\ UNCHANGED <<reports, world, starts>>

WorldStartsConfiguration(c) ==
    /\ Alive /\ starts < MaxStarts
    /\ Contract => world = "inLevel"
    /\ starts' = starts + 1
    /\ world' = "waiting" /\ requested' = c
    /\ WorldWrites("start frame", c)
    /\ UNCHANGED <<reports, frames>>

WorldHearsConfigured ==
    /\ Alive /\ reports > 0
    /\ reports' = reports - 1
    /\ world' = IF world = "waiting" THEN "placing" ELSE world
    /\ UNCHANGED <<gateVars, readerVars, kaVars, ended, toClient, toGateway,
                   fromWorld, clientVars, requested, starts, frames>>

\* A world that breaks the contract may also place the player unasked.
WorldRejoins ==
    /\ Alive
    /\ \/ world = "placing" /\ UNCHANGED frames
       \/ ~Contract /\ frames < MaxFrames /\ frames' = frames + 1
    /\ world' = "inLevel"
    /\ WorldWrites("rejoin", NoConfig)
    /\ UNCHANGED <<reports, requested, starts>>

WorldCloses ==
    /\ Alive
    /\ End("world")
    /\ UNCHANGED <<gateVars, readerVars, kaVars, toClient, toGateway,
                   fromWorld, reports, clientVars, worldVars>>

----------------------------------------------------------------------------
WorldReader == \/ HandlePlayFrame \/ HandleUpdateTags
               \/ HandleStartConfiguration \/ HandleRejoin

ClientReader == \/ ReadMove \/ ReadKeepAlive \/ ReadAck \/ ReadKnownPacks
                \/ \E k \in {"accepted", "loaded", "declined"} :
                       ReadPackAnswer(k)
                \/ ReadFinished \/ ReportConfigured \/ ReadEOF

KeepAlive == Tick \/ TimeOut \/ ArmChallenge \/ SendChallenge

ClientEnv == ClientRead \/ ClientSends \/ ClientLeaves

WorldEnv == \/ WorldSendsFrame \/ WorldHearsConfigured \/ WorldRejoins
            \/ WorldCloses
            \/ \E t \in TagSets : WorldSendsTags(t)
            \/ \E c \in Configs : WorldStartsConfiguration(c)

\* A session that ended, and the goroutines it leaves behind, do nothing more.
Over == ~Alive /\ UNCHANGED vars

Next == \/ WorldReader \/ ClientReader \/ KeepAlive \/ OtherSend
        \/ DeadlineExpires \/ ClientEnv \/ WorldEnv \/ Over

Spec == Init /\ [][Next]_vars

\* The gateway's goroutines run; the configuration deadline fires.
GatewayFairness ==
    /\ WF_vars(WorldReader) /\ WF_vars(ClientReader) /\ WF_vars(KeepAlive)
    /\ WF_vars(DeadlineExpires)

\* Peers that answer: the client keeps reading, the world answers
\* MsgConfigured with MsgRejoin.
PeerFairness ==
    /\ WF_vars(ClientRead)
    /\ WF_vars(WorldHearsConfigured)
    /\ WF_vars(world = "placing" /\ WorldRejoins)

GatewayFairSpec == Spec /\ GatewayFairness
FairSpec == Spec /\ GatewayFairness /\ PeerFairness

----------------------------------------------------------------------------
(* Properties.                                                             *)

\* The values every variable keeps to: the gate, the client reader, the
\* keep-alive ticker, the channels, the peers.
GateTypeOK ==
    /\ phase \in {"play", "configuring", "rejoining"}
    /\ pendingConfig \in Configs \cup {NoConfig}
    /\ curConfig \in Configs
    /\ ended \in {"no", "earlyRejoin", "unrequested", "declined",
                   "finishEarly", "deadline", "client", "timeout", "world"}
ReaderTypeOK ==
    /\ reader \in {"play", "config", "report"}
    /\ taken \in Configs \cup {NoConfig}
    /\ reader = "config" => taken \in Configs
    /\ sent \in BOOLEAN
KeepAliveTypeOK ==
    /\ ticker \in {"idle", "checked", "armed"}
    /\ kaPending \in BOOLEAN /\ kaChallenge \in Nat
ToClientOK  == toClient \in Seq(Packets(ClientboundKinds))
ToGatewayOK == toGateway \in Seq(Packets(ServerboundKinds))
AttachOK    == fromWorld \in Seq(Packets(FrameKinds)) /\ reports \in Nat
PeerTypeOK ==
    /\ client \in {"play", "config", "joining", "gone"}
    /\ clientConfig \in Configs
    /\ world \in {"inLevel", "waiting", "placing"}
    /\ requested \in Configs
    /\ starts \in Nat /\ frames \in Nat
TypeOK == /\ GateTypeOK /\ ReaderTypeOK /\ KeepAliveTypeOK
          /\ ToClientOK /\ ToGatewayOK /\ AttachOK /\ PeerTypeOK

\* The gate (send, startConfiguration, rejoin): what the client reads next is
\* a play packet only while it is in play, and anything else, the login
\* included, only while it is not.
PlayGate ==
    client # "gone" /\ toClient # << >> =>
        (Head(toClient).kind \in PlayKinds <=> client = "play")

\* Inside the reconfiguration too, the client reads only what its state
\* takes: one finish_configuration, no configuration packet after it, and
\* nothing but the login then (configure, rejoin).
ClientFollows ==
    client # "gone" /\ toClient # << >> =>
        Head(toClient).kind \in ReadableBy(client)

\* The client reader never reads a packet of the other protocol state: the
\* ids of the two overlap, and play's loop would take one for another.
ReaderFollows ==
    Alive /\ toGateway # << >> =>
        Head(toGateway).kind \in
            IF reader = "config" THEN ServerConfigKinds ELSE ServerPlayKinds

\* Neither end of the connection ever reads a packet of a protocol state it
\* is not in, whatever the world does and whenever the client answers.
BothFollow == ClientFollows /\ ReaderFollows

\* configure() writes to the connection without clientConn's lock: while it
\* runs, no goroutine that takes the lock finds the gate open.
ConfigWritesAlone == reader = "config" => phase = "configuring"

\* With a client that follows the protocol and a world that keeps the
\* contract, no reconfiguration ends the session by one of the protocol
\* errors (errUnrequestedConfig, errEarlyRejoin, finish before registries).
NoProtocolError == ended \notin {"unrequested", "earlyRejoin", "finishEarly"}

\* The login after a reconfiguration, and update_tags in play, are composed
\* from the registries the client configured with (curConfig against what
\* configure sent).
ComposedFromClientConfig ==
    client # "gone" /\ toClient # << >> /\ Head(toClient).kind \in {"login", "tags"}
        => Head(toClient).cfg.reg = clientConfig.reg

\* A client that answers its keep-alives in time, in a session that is not
\* reconfigured, is never timed out.
NoTimeoutInPlay == Prompt /\ starts = 0 => ended # "timeout"

\* A session between a client that follows the protocol and answers in time
\* and a world that keeps the contract is ended by neither of the two.
HonestSurvive == NoProtocolError /\ NoTimeoutInPlay

\* "If the last is still unanswered when the next is due, the client has
\* timed out" (session.go, the keep-alive ticker): a client that answers
\* every challenge in time never has.
NoFalseTimeout == Prompt => ended # "timeout"

\* The promise to the world: see PlayerConfig.
Promise == INSTANCE PlayerConfig WITH
    place <- IF world = "inLevel" THEN "inLevel" ELSE "between",
    want <- requested.reg,
    have <- clientConfig.reg
KeepsPromise == Promise!Spec

\* A reconfiguration ends: the client is in play again, or the session is
\* over (liveness, with peers that answer).
Completes == (phase # "play") ~> (phase = "play" \/ ~Alive)

\* "The configuration phase has its own deadline" (session.go, the keep-alive
\* ticker, which skips it for that reason): a client sent back to
\* configuration does not stay there forever, whatever it does.
ConfigurationHasDeadline ==
    (phase = "configuring") ~> (phase # "configuring" \/ ~Alive)
=============================================================================
