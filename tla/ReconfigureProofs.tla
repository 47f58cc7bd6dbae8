------------------------- MODULE ReconfigureProofs -------------------------
(***************************************************************************)
(* Proofs about Reconfigure, for every value of its constants: that each   *)
(* end reads what its state takes, that a client which answers in time is  *)
(* not timed out in play, and, of a world that keeps the contract, that    *)
(* sessions survive, that logins name the registries the client has, and   *)
(* that the promise of PlayerConfig is kept.                               *)
(*                                                                         *)
(* Most of these speak of the next packet on a channel and are inductive   *)
(* only with what they say of all those behind it: what is on a channel    *)
(* takes its reader, one packet after another, from the state it is in to  *)
(* the one the writer believes it to be in (Path).  To that come           *)
(*   Dialogue   the two ends of the client connection: both paths, and     *)
(*              that a reconfiguration is one ask or one answer at a time, *)
(*              in the stage of it that both ends are in;                  *)
(*   WorldTalk  the same of the world and its reader, under Contract;      *)
(*   InTime     what the ticker waits for is on its way;                   *)
(*   Regs       whose registries the client has, and is being sent;        *)
(*   Asked      that the gateway has, or reads last, what the world asked. *)
(***************************************************************************)
EXTENDS Reconfigure, Functions, TLAPS

----------------------------------------------------------------------------
(* Type correctness.                                                       *)

\* Configuration data with other tags is configuration data.
LEMMA RetagTyped ==
    ASSUME NEW c \in Configs, NEW t \in TagSets
    PROVE  [c EXCEPT !.tags = t] \in Configs
BY DEF Configs

\* Packets of either form are packets of every set of kinds that has theirs.
LEMMA PlainTyped ==
    ASSUME NEW K, NEW k \in K, k \notin ComposedKinds, NEW n \in Nat
    PROVE  Packet(k, NoConfig, n) \in Packets(K)
BY DEF Packet, Packets

\* A packet composed from configuration data is a packet.
LEMMA ComposedTyped ==
    ASSUME NEW K, NEW k \in K, NEW c \in Configs, NEW n \in Nat
    PROVE  Packet(k, c, n) \in Packets(K) /\ Packet(k, c, n).kind = k
BY DEF Packet, Packets

\* Writing a packet leaves the channel a sequence of packets (sendRaw).
LEMMA AppendTyped ==
    ASSUME NEW K, NEW q \in Seq(Packets(K)), NEW p \in Packets(K)
    PROVE  Append(q, p) \in Seq(Packets(K))
OBVIOUS

\* The next packet of a channel, and the rest of it.
LEMMA HeadTyped ==
    ASSUME NEW K, NEW q \in Seq(Packets(K)), q # << >>
    PROVE  /\ Head(q) \in Packets(K) /\ Tail(q) \in Seq(Packets(K))
           /\ Head(q).kind \in K /\ Head(q).n \in Nat
           /\ Head(q).kind \in ComposedKinds => Head(q).cfg \in Configs
<1>1. Head(q) \in Packets(K) /\ Tail(q) \in Seq(Packets(K))
  OBVIOUS
<1> QED
  BY <1>1 DEF Packets

\* A frame that names configuration data has it.
LEMMA FrameConfig ==
    ASSUME AttachOK, fromWorld # << >>,
           Head(fromWorld).kind \in {"tags", "start frame"}
    PROVE  Head(fromWorld).cfg \in Configs /\ Head(fromWorld).cfg.tags \in TagSets
<1>1. Head(fromWorld).cfg \in Configs
  BY HeadTyped DEF AttachOK, ComposedKinds
<1> QED
  BY <1>1 DEF Configs

\* A session starts well typed (play, before its goroutines run).
LEMMA TypeInit == Init => TypeOK
<1> SUFFICES ASSUME Init PROVE TypeOK
  OBVIOUS
<1>1. GateTypeOK
  BY DEF Init, GateTypeOK
<1>2. ReaderTypeOK
  <2>1. sent \in BOOLEAN
    BY DEF Init
  <2> QED
    BY <2>1 DEF Init, ReaderTypeOK
<1>3. KeepAliveTypeOK
  <2>1. kaPending \in BOOLEAN
    BY DEF Init
  <2> QED
    BY <2>1 DEF Init, KeepAliveTypeOK
<1>4. ToClientOK /\ ToGatewayOK /\ AttachOK
  BY DEF Init, ToClientOK, ToGatewayOK, AttachOK
<1>5. PeerTypeOK
  BY DEF Init, PeerTypeOK
<1> QED
  BY <1>1, <1>2, <1>3, <1>4, <1>5 DEF TypeOK

\* Every step keeps the types, one part of the state after another.
LEMMA GateTypes == TypeOK /\ [Next]_vars => GateTypeOK'
<1> SUFFICES ASSUME TypeOK, [Next]_vars PROVE GateTypeOK'
  OBVIOUS
<1> USE DEF GateTypeOK, TypeOK, gateVars, End
<1>1. CASE WorldReader
  <2>1. CASE HandlePlayFrame
    BY <2>1 DEF HandlePlayFrame
  <2>2. CASE HandleUpdateTags
    BY <2>2, FrameConfig, RetagTyped DEF HandleUpdateTags, NextFrame
  <2>3. CASE HandleStartConfiguration
    BY <2>3, FrameConfig DEF HandleStartConfiguration, StartConfiguration, NextFrame
  <2>4. CASE HandleRejoin
    BY <2>4 DEF HandleRejoin, Rejoin
  <2> QED
    BY <1>1, <2>1, <2>2, <2>3, <2>4 DEF WorldReader
<1>2. CASE ClientReader
  BY <1>2 DEF ClientReader, ReadMove, ReadKeepAlive, ReadAck, ReadKnownPacks,
     ReadPackAnswer, ReadFinished, Configured, ReportConfigured, ReadEOF
<1>3. CASE KeepAlive
  BY <1>3 DEF KeepAlive, Tick, TimeOut, ArmChallenge, SendChallenge
<1>4. CASE OtherSend \/ DeadlineExpires
  BY <1>4 DEF OtherSend, DeadlineExpires
<1>5. CASE ClientEnv
  BY <1>5 DEF ClientEnv, ClientRead, ClientReads, ClientSends, ClientLeaves,
     ClientReadsPlay, ClientReadsKeepAlive, ClientReadsTags, ClientReadsStart,
     ClientReadsKnownPacks, ClientReadsRegistries, ClientReadsPush,
     ClientReadsFinish, ClientReadsLogin, ClientReadsDisconnect
<1>6. CASE WorldEnv
  BY <1>6 DEF WorldEnv, WorldWrites, WorldSendsFrame, WorldHearsConfigured,
     WorldRejoins, WorldCloses, WorldSendsTags, WorldStartsConfiguration
<1>7. CASE UNCHANGED vars \/ Over
  BY <1>7 DEF vars, Over
<1> QED
  BY <1>1, <1>2, <1>3, <1>4, <1>5, <1>6, <1>7 DEF Next

\* The phase and the two readers' locals keep their types, whatever the step.
LEMMA ReaderTypes == TypeOK /\ [Next]_vars => ReaderTypeOK'
<1> SUFFICES ASSUME TypeOK, [Next]_vars PROVE ReaderTypeOK'
  OBVIOUS
<1> USE DEF ReaderTypeOK, TypeOK, readerVars
<1>1. CASE WorldReader
  BY <1>1 DEF WorldReader, HandlePlayFrame, HandleUpdateTags,
     HandleStartConfiguration, HandleRejoin
<1>2. CASE ClientReader
  <2>1. CASE ReadAck
    BY <2>1 DEF ReadAck, TakeConfig, NextPacket, GateTypeOK
  <2>2. CASE ReadKnownPacks
    <3>1. sent' \in BOOLEAN
      BY <2>2, Zenon DEF ReadKnownPacks
    <3> QED
      BY <2>2, <3>1 DEF ReadKnownPacks, NextPacket
  <2>3. CASE \E k \in {"accepted", "loaded", "declined"} : ReadPackAnswer(k)
    BY <2>3 DEF ReadPackAnswer
  <2>4. CASE ReadMove \/ ReadKeepAlive \/ ReadFinished \/ ReportConfigured \/ ReadEOF
    BY <2>4 DEF ReadMove, ReadKeepAlive, ReadFinished, ReportConfigured, ReadEOF
  <2> QED
    BY <1>2, <2>1, <2>2, <2>3, <2>4 DEF ClientReader
<1>3. CASE KeepAlive
  BY <1>3 DEF KeepAlive, Tick, TimeOut, ArmChallenge, SendChallenge
<1>4. CASE OtherSend \/ DeadlineExpires
  BY <1>4 DEF OtherSend, DeadlineExpires
<1>5. CASE ClientEnv
  BY <1>5 DEF ClientEnv, ClientRead, ClientReads, ClientSends, ClientLeaves,
     ClientReadsPlay, ClientReadsKeepAlive, ClientReadsTags, ClientReadsStart,
     ClientReadsKnownPacks, ClientReadsRegistries, ClientReadsPush,
     ClientReadsFinish, ClientReadsLogin, ClientReadsDisconnect
<1>6. CASE WorldEnv
  BY <1>6 DEF WorldEnv, WorldWrites, WorldSendsFrame, WorldHearsConfigured,
     WorldRejoins, WorldCloses, WorldSendsTags, WorldStartsConfiguration
<1>7. CASE UNCHANGED vars \/ Over
  BY <1>7 DEF vars, Over
<1> QED
  BY <1>1, <1>2, <1>3, <1>4, <1>5, <1>6, <1>7 DEF Next

\* The keep-alive bookkeeping keeps its types, whatever the step.
LEMMA KeepAliveTypes == TypeOK /\ [Next]_vars => KeepAliveTypeOK'
<1> SUFFICES ASSUME TypeOK, [Next]_vars PROVE KeepAliveTypeOK'
  OBVIOUS
<1> USE DEF KeepAliveTypeOK, TypeOK, kaVars
<1>1. CASE WorldReader
  BY <1>1 DEF WorldReader, HandlePlayFrame, HandleUpdateTags,
     HandleStartConfiguration, HandleRejoin
<1>2. CASE ClientReader
  <2>1. CASE ReadKeepAlive
    <3>1. kaPending' \in BOOLEAN
      BY <2>1, Zenon DEF ReadKeepAlive
    <3> QED
      BY <2>1, <3>1 DEF ReadKeepAlive
  <2>2. CASE \/ ReadMove \/ ReadAck \/ ReadKnownPacks \/ ReadFinished
             \/ ReportConfigured \/ ReadEOF
             \/ \E k \in {"accepted", "loaded", "declined"} : ReadPackAnswer(k)
    BY <2>2 DEF ReadMove, ReadAck, ReadKnownPacks, ReadPackAnswer,
       ReadFinished, ReportConfigured, ReadEOF
  <2> QED
    BY <1>2, <2>1, <2>2 DEF ClientReader
<1>3. CASE KeepAlive
  <2>1. CASE Tick
    <3>1. kaPending' \in BOOLEAN
      BY <2>1 DEF Tick
    <3> QED
      BY <2>1, <3>1 DEF Tick
  <2>2. CASE ArmChallenge
    <3>1. kaPending' \in BOOLEAN
      BY <2>2 DEF ArmChallenge
    <3> QED
      BY <2>2, <3>1 DEF ArmChallenge
  <2>3. CASE TimeOut \/ SendChallenge
    BY <2>3 DEF TimeOut, SendChallenge
  <2> QED
    BY <1>3, <2>1, <2>2, <2>3 DEF KeepAlive
<1>4. CASE OtherSend \/ DeadlineExpires
  BY <1>4 DEF OtherSend, DeadlineExpires
<1>5. CASE ClientEnv
  BY <1>5 DEF ClientEnv, ClientRead, ClientReads, ClientSends, ClientLeaves,
     ClientReadsPlay, ClientReadsKeepAlive, ClientReadsTags, ClientReadsStart,
     ClientReadsKnownPacks, ClientReadsRegistries, ClientReadsPush,
     ClientReadsFinish, ClientReadsLogin, ClientReadsDisconnect
<1>6. CASE WorldEnv
  BY <1>6 DEF WorldEnv, WorldWrites, WorldSendsFrame, WorldHearsConfigured,
     WorldRejoins, WorldCloses, WorldSendsTags, WorldStartsConfiguration
<1>7. CASE UNCHANGED vars \/ Over
  BY <1>7 DEF vars, Over
<1> QED
  BY <1>1, <1>2, <1>3, <1>4, <1>5, <1>6, <1>7 DEF Next

\* What is on its way to the client stays a bounded list of clientbound packets.
LEMMA ToClientTypes == TypeOK /\ [Next]_vars => ToClientOK'
<1> SUFFICES ASSUME TypeOK, [Next]_vars PROVE ToClientOK'
  OBVIOUS
<1> USE DEF ToClientOK, TypeOK, CcSend, Write, WriteTwo, Plain
<1>1. CASE WorldReader
  <2>1. CASE HandlePlayFrame
    <3>1. Plain("play") \in Packets(ClientboundKinds)
      BY PlainTyped DEF ClientboundKinds, PlayKinds, ComposedKinds
    <3> QED
      BY <2>1, <3>1 DEF HandlePlayFrame
  <2>2. CASE HandleUpdateTags
    <3>1. curConfig' \in Configs
      BY GateTypes DEF GateTypeOK
    <3>2. Packet("tags", curConfig', 0) \in Packets(ClientboundKinds)
      BY <3>1, ComposedTyped DEF ClientboundKinds, PlayKinds
    <3> QED
      BY <2>2, <3>2 DEF HandleUpdateTags
  <2>3. CASE HandleStartConfiguration
    <3>1. Plain("start") \in Packets(ClientboundKinds)
      BY PlainTyped DEF ClientboundKinds, PlayKinds, ComposedKinds
    <3>2. \/ toClient' = Append(toClient, Plain("start"))
          \/ toClient' = toClient
      BY <2>3 DEF HandleStartConfiguration, StartConfiguration
    <3> QED
      BY <3>1, <3>2
  <2>4. CASE HandleRejoin
    <3>1. Plain("play") \in Packets(ClientboundKinds)
      BY PlainTyped DEF ClientboundKinds, PlayKinds, ComposedKinds
    <3>2. Packet("login", curConfig, 0) \in Packets(ClientboundKinds)
      BY ComposedTyped DEF ClientboundKinds, GateTypeOK
    <3> QED
      BY SMTT(30), <2>4, <3>1, <3>2 DEF HandleRejoin, Rejoin
  <2> QED
    BY <1>1, <2>1, <2>2, <2>3, <2>4 DEF WorldReader
<1>2. CASE ClientReader
  <2>1. CASE ReadAck
    <3>1. Plain("known") \in Packets(ClientboundKinds)
      BY PlainTyped DEF ClientboundKinds, ConfigKinds, ComposedKinds
    <3> QED
      BY <2>1, <3>1 DEF ReadAck
  <2>2. CASE ReadKnownPacks
    <3>1. Plain(IF ResourcePack THEN "push" ELSE "finish")
              \in Packets(ClientboundKinds)
      BY PlainTyped DEF ClientboundKinds, ConfigKinds, ComposedKinds
    <3>2. taken \in Configs
      BY <2>2 DEF ReadKnownPacks, NextPacket, ReaderTypeOK
    <3>3. Packet("registries", taken, 0) \in Packets(ClientboundKinds)
      BY <3>2, ComposedTyped DEF ClientboundKinds, ConfigKinds
    <3> QED
      BY <2>2, <3>1, <3>3 DEF ReadKnownPacks
  <2>3. CASE \E k \in {"accepted", "loaded", "declined"} : ReadPackAnswer(k)
    <3>1. /\ Plain("finish") \in Packets(ClientboundKinds)
          /\ Plain("cfgDisconnect") \in Packets(ClientboundKinds)
      BY PlainTyped DEF ClientboundKinds, ConfigKinds, ComposedKinds
    <3> QED
      BY <2>3, <3>1 DEF ReadPackAnswer
  <2>4. CASE \/ ReadMove \/ ReadKeepAlive \/ ReadFinished
             \/ ReportConfigured \/ ReadEOF
    BY <2>4 DEF ReadMove, ReadKeepAlive, ReadFinished, ReportConfigured, ReadEOF
  <2> QED
    BY <1>2, <2>1, <2>2, <2>3, <2>4 DEF ClientReader
<1>3. CASE KeepAlive
  <2>1. /\ Plain("disconnect") \in Packets(ClientboundKinds)
        /\ Packet("keepalive", NoConfig, kaChallenge) \in Packets(ClientboundKinds)
    BY PlainTyped DEF ClientboundKinds, PlayKinds, ComposedKinds, KeepAliveTypeOK
  <2> QED
    BY <1>3, <2>1 DEF KeepAlive, Tick, TimeOut, ArmChallenge, SendChallenge
<1>4. CASE OtherSend \/ DeadlineExpires
  <2>1. Plain("play") \in Packets(ClientboundKinds)
    BY PlainTyped DEF ClientboundKinds, PlayKinds, ComposedKinds
  <2> QED
    BY <1>4, <2>1 DEF OtherSend, DeadlineExpires
<1>5. CASE ClientEnv
  BY SMTT(30), <1>5 DEF ClientEnv, ClientRead, ClientReads, ClientSends, ClientLeaves,
     ClientReadsPlay, ClientReadsKeepAlive, ClientReadsTags, ClientReadsStart,
     ClientReadsKnownPacks, ClientReadsRegistries, ClientReadsPush,
     ClientReadsFinish, ClientReadsLogin, ClientReadsDisconnect
<1>6. CASE WorldEnv
  BY <1>6 DEF WorldEnv, WorldWrites, WorldSendsFrame, WorldHearsConfigured,
     WorldRejoins, WorldCloses, WorldSendsTags, WorldStartsConfiguration
<1>7. CASE UNCHANGED vars \/ Over
  BY <1>7 DEF vars, Over
<1> QED
  BY <1>1, <1>2, <1>3, <1>4, <1>5, <1>6, <1>7 DEF Next

\* What is on its way from the client stays a list of serverbound packets.
LEMMA ToGatewayTypes == TypeOK /\ [Next]_vars => ToGatewayOK'
<1> SUFFICES ASSUME TypeOK, [Next]_vars PROVE ToGatewayOK'
  OBVIOUS
<1> USE DEF ToGatewayOK, TypeOK
<1>1. CASE WorldReader
  BY <1>1 DEF WorldReader, HandlePlayFrame, HandleUpdateTags,
     HandleStartConfiguration, HandleRejoin
<1>2. CASE ClientReader
  BY <1>2 DEF ClientReader, ReadMove, ReadKeepAlive, ReadAck, ReadKnownPacks,
     ReadPackAnswer, ReadFinished, ReportConfigured, ReadEOF, NextPacket
<1>3. CASE KeepAlive
  BY <1>3 DEF KeepAlive, Tick, TimeOut, ArmChallenge, SendChallenge
<1>4. CASE OtherSend \/ DeadlineExpires
  BY <1>4 DEF OtherSend, DeadlineExpires
<1>5. CASE ClientEnv
  <2>1. \A k \in ServerboundKinds, n \in Nat :
            Packet(k, NoConfig, n) \in Packets(ServerboundKinds)
    BY PlainTyped DEF ServerboundKinds, ServerPlayKinds, ServerConfigKinds,
       ComposedKinds
  <2>2. toClient # << >> => Head(toClient).n \in Nat
    BY HeadTyped DEF ToClientOK
  <2>3. {"kaReply", "ack", "knownReply", "accepted", "loaded", "declined",
         "finished", "move"} \subseteq ServerboundKinds
    BY DEF ServerboundKinds, ServerPlayKinds, ServerConfigKinds
  <2> QED
    BY SMTT(30), <1>5, <2>1, <2>2, <2>3 DEF ClientEnv, ClientRead, ClientReads,
       ClientSends, ClientLeaves, Answer, Plain, ClientReadsPlay,
       ClientReadsKeepAlive, ClientReadsTags, ClientReadsStart,
       ClientReadsKnownPacks, ClientReadsRegistries, ClientReadsPush,
       ClientReadsFinish, ClientReadsLogin, ClientReadsDisconnect
<1>6. CASE WorldEnv
  BY <1>6 DEF WorldEnv, WorldWrites, WorldSendsFrame, WorldHearsConfigured,
     WorldRejoins, WorldCloses, WorldSendsTags, WorldStartsConfiguration
<1>7. CASE UNCHANGED vars \/ Over
  BY <1>7 DEF vars, Over
<1> QED
  BY <1>1, <1>2, <1>3, <1>4, <1>5, <1>6, <1>7 DEF Next

\* What is on the attach connection, both ways, keeps its types.
LEMMA AttachTypes == TypeOK /\ [Next]_vars => AttachOK'
<1> SUFFICES ASSUME TypeOK, [Next]_vars PROVE AttachOK'
  OBVIOUS
<1> USE DEF AttachOK, TypeOK
<1>1. CASE WorldReader
  BY <1>1, HeadTyped DEF WorldReader, HandlePlayFrame, HandleUpdateTags,
     HandleStartConfiguration, HandleRejoin, NextFrame
<1>2. CASE ClientReader
  BY <1>2 DEF ClientReader, ReadMove, ReadKeepAlive, ReadAck, ReadKnownPacks,
     ReadPackAnswer, ReadFinished, Configured, ReportConfigured, ReadEOF
<1>3. CASE KeepAlive
  BY <1>3 DEF KeepAlive, Tick, TimeOut, ArmChallenge, SendChallenge
<1>4. CASE OtherSend \/ DeadlineExpires
  BY <1>4 DEF OtherSend, DeadlineExpires
<1>5. CASE ClientEnv
  BY <1>5 DEF ClientEnv, ClientRead, ClientReads, ClientSends, ClientLeaves,
     ClientReadsPlay, ClientReadsKeepAlive, ClientReadsTags, ClientReadsStart,
     ClientReadsKnownPacks, ClientReadsRegistries, ClientReadsPush,
     ClientReadsFinish, ClientReadsLogin, ClientReadsDisconnect
<1>6. CASE WorldEnv
  <2>1. CASE WorldSendsFrame \/ WorldRejoins
    <3>1. /\ Packet("play", NoConfig, 0) \in Packets(FrameKinds)
          /\ Packet("rejoin", NoConfig, 0) \in Packets(FrameKinds)
      BY PlainTyped DEF FrameKinds, ComposedKinds
    <3> QED
      BY <2>1, <3>1 DEF WorldSendsFrame, WorldRejoins, WorldWrites
  <2>2. CASE \E t \in TagSets : WorldSendsTags(t)
    <3>1. requested' \in Configs
      BY <2>2, RetagTyped DEF WorldSendsTags, PeerTypeOK
    <3>2. Packet("tags", requested', 0) \in Packets(FrameKinds)
      BY <3>1, ComposedTyped DEF FrameKinds
    <3> QED
      BY <2>2, <3>2 DEF WorldSendsTags, WorldWrites
  <2>3. CASE \E c \in Configs : WorldStartsConfiguration(c)
    <3>1. PICK c \in Configs : WorldStartsConfiguration(c)
      BY <2>3
    <3>2. Packet("start frame", c, 0) \in Packets(FrameKinds)
      BY ComposedTyped DEF FrameKinds
    <3>3. fromWorld' = Append(fromWorld, Packet("start frame", c, 0))
      BY <3>1 DEF WorldStartsConfiguration, WorldWrites
    <3>4. reports' = reports
      BY <3>1 DEF WorldStartsConfiguration
    <3>5. fromWorld' \in Seq(Packets(FrameKinds))
      BY <3>2, <3>3, AppendTyped, Zenon
    <3> QED
      BY <3>4, <3>5
  <2>4. CASE WorldHearsConfigured \/ WorldCloses
    BY <2>4 DEF WorldHearsConfigured, WorldCloses
  <2> QED
    BY <1>6, <2>1, <2>2, <2>3, <2>4 DEF WorldEnv
<1>7. CASE UNCHANGED vars \/ Over
  BY <1>7 DEF vars, Over
<1> QED
  BY <1>1, <1>2, <1>3, <1>4, <1>5, <1>6, <1>7 DEF Next

\* The client's and the world's own state keep their types, whatever the step.
LEMMA PeerTypes == TypeOK /\ [Next]_vars => PeerTypeOK'
<1> SUFFICES ASSUME TypeOK, [Next]_vars PROVE PeerTypeOK'
  OBVIOUS
<1> USE DEF PeerTypeOK, TypeOK, clientVars, worldVars
<1>1. CASE WorldReader
  BY <1>1 DEF WorldReader, HandlePlayFrame, HandleUpdateTags,
     HandleStartConfiguration, HandleRejoin
<1>2. CASE ClientReader
  BY <1>2 DEF ClientReader, ReadMove, ReadKeepAlive, ReadAck, ReadKnownPacks,
     ReadPackAnswer, ReadFinished, Configured, ReportConfigured, ReadEOF
<1>3. CASE KeepAlive
  BY <1>3 DEF KeepAlive, Tick, TimeOut, ArmChallenge, SendChallenge
<1>4. CASE OtherSend \/ DeadlineExpires
  BY <1>4 DEF OtherSend, DeadlineExpires
<1>5. CASE ClientEnv
  <2>1. CASE ClientReadsTags \/ ClientReadsRegistries
    <3>1. Head(toClient).cfg \in Configs /\ Head(toClient).cfg.tags \in TagSets
      <4>1. Head(toClient).cfg \in Configs
        BY <2>1, HeadTyped DEF ClientReadsTags, ClientReadsRegistries,
           ClientReads, ComposedKinds, ToClientOK
      <4> QED
        BY <4>1 DEF Configs
    <3>2. clientConfig' \in Configs
      BY <2>1, <3>1, RetagTyped DEF ClientReadsTags, ClientReadsRegistries
    <3> QED
      BY <2>1, <3>2 DEF ClientReadsTags, ClientReadsRegistries, ClientReads
  <2>2. CASE \/ ClientReadsPlay \/ ClientReadsKeepAlive \/ ClientReadsStart
             \/ ClientReadsKnownPacks \/ ClientReadsPush \/ ClientReadsFinish
             \/ ClientReadsLogin \/ ClientReadsDisconnect
    BY <2>2 DEF ClientReads, ClientReadsPlay, ClientReadsKeepAlive,
       ClientReadsStart, ClientReadsKnownPacks, ClientReadsPush,
       ClientReadsFinish, ClientReadsLogin, ClientReadsDisconnect
  <2>3. CASE ClientSends \/ ClientLeaves
    BY <2>3 DEF ClientSends, ClientLeaves
  <2> QED
    BY <1>5, <2>1, <2>2, <2>3 DEF ClientEnv, ClientRead
<1>6. CASE WorldEnv
  <2>1. CASE \E t \in TagSets : WorldSendsTags(t)
    BY <2>1, RetagTyped DEF WorldSendsTags, WorldWrites
  <2>2. CASE \/ WorldSendsFrame \/ WorldHearsConfigured \/ WorldRejoins
             \/ WorldCloses
    BY <2>2 DEF WorldWrites, WorldSendsFrame, WorldHearsConfigured,
       WorldRejoins, WorldCloses
  <2>3. CASE \E c \in Configs : WorldStartsConfiguration(c)
    <3>1. PICK c \in Configs : WorldStartsConfiguration(c)
      BY <2>3
    <3>2. world' = "waiting" /\ requested' \in Configs
      BY <3>1 DEF WorldStartsConfiguration
    <3>3. starts' = starts + 1 /\ UNCHANGED <<clientVars, frames>>
      BY <3>1 DEF WorldStartsConfiguration, WorldWrites
    <3> QED
      BY <3>2, <3>3
  <2> QED
    BY <1>6, <2>1, <2>2, <2>3 DEF WorldEnv
<1>7. CASE UNCHANGED vars \/ Over
  BY <1>7 DEF vars, Over
<1> QED
  BY <1>1, <1>2, <1>3, <1>4, <1>5, <1>6, <1>7 DEF Next

\* TypeOK: the values every variable keeps to, in every session.
THEOREM TypeCorrect == Spec => []TypeOK
<1>1. Init => TypeOK
  BY TypeInit
<1>2. TypeOK /\ [Next]_vars => TypeOK'
  BY GateTypes, ReaderTypes, KeepAliveTypes, ToClientTypes, ToGatewayTypes,
     AttachTypes, PeerTypes DEF TypeOK
<1> QED
  BY <1>1, <1>2, PTL DEF Spec

----------------------------------------------------------------------------
(* configure() writes alone.                                               *)

\* No step opens the gate to another goroutine while configure() writes.
LEMMA AloneStep ==
    TypeOK /\ ConfigWritesAlone /\ [Next]_vars => ConfigWritesAlone'
<1> SUFFICES ASSUME TypeOK, ConfigWritesAlone, [Next]_vars
             PROVE  ConfigWritesAlone'
  OBVIOUS
<1> USE DEF ConfigWritesAlone, gateVars, readerVars
<1>1. CASE WorldReader
  BY <1>1 DEF WorldReader, HandlePlayFrame, HandleUpdateTags,
     HandleStartConfiguration, StartConfiguration, HandleRejoin, Rejoin
<1>2. CASE ClientReader
  BY <1>2 DEF ClientReader, ReadMove, ReadKeepAlive, ReadAck, TakeConfig,
     ReadKnownPacks, ReadPackAnswer, ReadFinished, ReportConfigured, ReadEOF
<1>3. CASE KeepAlive
  BY <1>3 DEF KeepAlive, Tick, TimeOut, ArmChallenge, SendChallenge
<1>4. CASE OtherSend \/ DeadlineExpires
  BY <1>4 DEF OtherSend, DeadlineExpires
<1>5. CASE ClientEnv
  BY <1>5 DEF ClientEnv, ClientRead, ClientReads, ClientSends, ClientLeaves,
     ClientReadsPlay, ClientReadsKeepAlive, ClientReadsTags, ClientReadsStart,
     ClientReadsKnownPacks, ClientReadsRegistries, ClientReadsPush,
     ClientReadsFinish, ClientReadsLogin, ClientReadsDisconnect
<1>6. CASE WorldEnv
  BY <1>6 DEF WorldEnv, WorldWrites, WorldSendsFrame, WorldHearsConfigured,
     WorldRejoins, WorldCloses, WorldSendsTags, WorldStartsConfiguration
<1>7. CASE UNCHANGED vars \/ Over
  BY <1>7 DEF vars, Over
<1> QED
  BY <1>1, <1>2, <1>3, <1>4, <1>5, <1>6, <1>7 DEF Next

\* ConfigWritesAlone: while configure() writes without the lock, the gate is
\* closed to every other goroutine, whatever the peers do.
THEOREM ConfigureAlone == Spec => []ConfigWritesAlone
<1>1. Init => ConfigWritesAlone
  BY DEF Init, ConfigWritesAlone
<1> QED
  BY <1>1, AloneStep, TypeCorrect, PTL DEF Spec

\* The kind of a packet that carries no data.
LEMMA PlainKind == \A k, n : Packet(k, NoConfig, n).kind = k
BY DEF Packet

\* The kind of a packet composed from configuration data.
LEMMA ComposedKind == \A k, c : Packet(k, c, 0).kind = k
BY DEF Packet

----------------------------------------------------------------------------
(* What travels on a channel, and where its packets find their reader.     *)

\* The states of the readers of the three channels: the client's; the client
\* reader's two loops; the world reader's, which the world's frames find with
\* the player in the level, between MsgStartConfiguration and the answer to
\* it, or waiting to be placed.
States == {"play", "config", "joining", "reads play", "reads config",
           "level", "waiting", "placing"}

\* What a reader in state s takes, and where reading kind k leaves it.
ReadableIn(s) ==
    CASE s \in {"play", "config", "joining"} -> ReadableBy(s)
      [] s = "reads play"   -> ServerPlayKinds
      [] s = "reads config" -> ServerConfigKinds
      [] s = "level"        -> {"play", "tags", "start frame"}
      [] s = "waiting"      -> {}
      [] s = "placing"      -> {"rejoin"}
After(s, k) ==
    CASE k = "start"       -> "config"
      [] k = "finish"      -> "joining"
      [] k = "login"       -> "play"
      [] k = "ack"         -> "reads config"
      [] k = "finished"    -> "reads play"
      [] k = "start frame" -> "waiting"
      [] k = "rejoin"      -> "level"
      [] OTHER             -> s

\* Reading q takes a reader from state a to state b, each packet in its place.
Along(q, s) == \A i \in DOMAIN q : /\ q[i].kind \in ReadableIn(s[i])
                                   /\ s[i + 1] = After(s[i], q[i].kind)
Path(q, a, b) ==
    \E s \in [1 .. Len(q) + 1 -> States] :
        s[1] = a /\ s[Len(q) + 1] = b /\ Along(q, s)

\* The kinds on a channel, in no order.
Kinds(q) == {p.kind : p \in Range(q)}

\* No two packets of these kinds; behind every packet of kinds K one of L.
Once(q, K) == \A i, j \in DOMAIN q : q[i].kind \in K /\ q[j].kind \in K => i = j
Before(q, K, L) ==
    \A i \in DOMAIN q : q[i].kind \in K =>
        \E j \in DOMAIN q : j > i /\ q[j].kind \in L

\* The packets of these kinds were composed from the registries r.
Composed(q, K, r) == \A p \in Range(q) : p.kind \in K => p.cfg.reg = r

\* A state again, whatever is read.
LEMMA AfterTyped == ASSUME NEW s \in States, NEW k PROVE After(s, k) \in States
BY DEF After, States

\* Nothing to read: the reader stays where it is.
LEMMA PathEmpty ==
    ASSUME NEW a \in States
    PROVE  /\ Path(<< >>, a, a)
           /\ \A b : Path(<< >>, a, b) => b = a
<1> DEFINE s == [i \in 1 .. 1 |-> a]
<1>1. Len(<< >>) = 0 /\ DOMAIN << >> = {}
  OBVIOUS
<1>2. /\ s \in [1 .. Len(<< >>) + 1 -> States]
      /\ s[1] = a /\ s[Len(<< >>) + 1] = a
  BY <1>1
<1>3. Along(<< >>, s)
  BY <1>1 DEF Along
<1> HIDE DEF s
<1>4. Path(<< >>, a, a)
  BY <1>2, <1>3 DEF Path
<1>5. ASSUME NEW b, Path(<< >>, a, b) PROVE b = a
  BY <1>1, <1>5 DEF Path
<1> QED
  BY <1>4, <1>5

\* Writing one more packet the reader takes extends the path (Append).
LEMMA PathAppend ==
    ASSUME NEW S, NEW q \in Seq(S), NEW p \in S,
           NEW a \in States, NEW b \in States,
           Path(q, a, b), p.kind \in ReadableIn(b)
    PROVE  Path(Append(q, p), a, After(b, p.kind))
<1> DEFINE n == Len(q)
           r == Append(q, p)
           c == After(b, p.kind)
<1>1. PICK s \in [1 .. n + 1 -> States] : s[1] = a /\ s[n + 1] = b /\ Along(q, s)
  BY DEF Path
<1>2. n \in Nat /\ Len(r) = n + 1 /\ DOMAIN q = 1 .. n /\ DOMAIN r = 1 .. n + 1
  OBVIOUS
<1>3. c \in States
  BY AfterTyped
<1> DEFINE u == [i \in 1 .. n + 2 |-> IF i = n + 2 THEN c ELSE s[i]]
<1>4. u \in [1 .. Len(r) + 1 -> States]
  BY <1>2, <1>3
<1>5. u[1] = a /\ u[Len(r) + 1] = c
  BY <1>1, <1>2
<1>6. ASSUME NEW i \in DOMAIN r
      PROVE  r[i].kind \in ReadableIn(u[i]) /\ u[i + 1] = After(u[i], r[i].kind)
  <2>1. CASE i = n + 1
    <3>1. r[i] = p
      BY <2>1
    <3>2. u[i] = b /\ u[i + 1] = c
      BY <2>1, <1>1, <1>2
    <3> QED
      BY <3>1, <3>2
  <2>2. CASE i # n + 1
    <3>1. i \in 1 .. n
      BY <2>2, <1>2
    <3>2. r[i] = q[i]
      BY <3>1
    <3>3. u[i] = s[i] /\ u[i + 1] = s[i + 1]
      BY <3>1, <1>2
    <3> QED
      BY <3>1, <3>2, <3>3, <1>1, <1>2 DEF Along
  <2> QED
    BY <2>1, <2>2
<1>7. Along(r, u)
  BY <1>6 DEF Along
<1> HIDE DEF u
<1> QED
  BY <1>4, <1>5, <1>7 DEF Path

\* Reading the first packet of a path: it is taken, and the rest is a path.
LEMMA PathTail ==
    ASSUME NEW S, NEW q \in Seq(S), q # << >>,
           NEW a \in States, NEW b \in States, Path(q, a, b)
    PROVE  /\ Head(q).kind \in ReadableIn(a)
           /\ Path(Tail(q), After(a, Head(q).kind), b)
<1> DEFINE n == Len(q)
<1>1. PICK s \in [1 .. n + 1 -> States] : s[1] = a /\ s[n + 1] = b /\ Along(q, s)
  BY DEF Path
<1>2. /\ n \in Nat /\ n >= 1 /\ Len(Tail(q)) = n - 1 /\ Head(q) = q[1]
      /\ DOMAIN q = 1 .. n /\ DOMAIN Tail(q) = 1 .. n - 1
  OBVIOUS
<1> DEFINE u == [i \in 1 .. n |-> s[i + 1]]
<1>3. u \in [1 .. Len(Tail(q)) + 1 -> States]
  BY <1>2
<1>4. u[1] = After(a, Head(q).kind) /\ u[Len(Tail(q)) + 1] = b
  BY <1>1, <1>2 DEF Along
<1>5. ASSUME NEW i \in DOMAIN Tail(q)
      PROVE  /\ Tail(q)[i].kind \in ReadableIn(u[i])
             /\ u[i + 1] = After(u[i], Tail(q)[i].kind)
  <2>1. i + 1 \in 1 .. n /\ i \in 1 .. n /\ i + 1 + 1 \in 1 .. n + 1
    BY <1>2
  <2>2. Tail(q)[i] = q[i + 1]
    BY <1>2
  <2>3. u[i] = s[i + 1] /\ u[i + 1] = s[i + 1 + 1]
    BY <2>1
  <2> QED
    BY <2>1, <2>2, <2>3, <1>1, <1>2 DEF Along
<1>6. Along(Tail(q), u)
  BY <1>5 DEF Along
<1> HIDE DEF u
<1>7. Path(Tail(q), After(a, Head(q).kind), b)
  BY <1>3, <1>4, <1>6 DEF Path
<1>8. Head(q).kind \in ReadableIn(a)
  BY <1>1, <1>2 DEF Along
<1> QED
  BY <1>7, <1>8

\* A world whose frames end with the player in the level has no
\* MsgStartConfiguration on its way: nothing may follow one but its answer.
LEMMA PathOpen ==
    ASSUME NEW S, NEW q \in Seq(S), NEW a \in States, Path(q, a, "level")
    PROVE  \A p \in Range(q) : p.kind # "start frame"
<1> DEFINE n == Len(q)
<1>1. n \in Nat /\ DOMAIN q = 1 .. n
  OBVIOUS
<1> HIDE DEF n
<1>2. PICK s \in [1 .. n + 1 -> States] :
          s[1] = a /\ s[n + 1] = "level" /\ Along(q, s)
  BY DEF Path, n
<1>3. SUFFICES ASSUME NEW i \in DOMAIN q, q[i].kind = "start frame" PROVE FALSE
  BY DEF Range
<1>4. s[i + 1] = "waiting"
  <2>1. s[i + 1] = After(s[i], q[i].kind)
    BY <1>2 DEF Along
  <2>2. After(s[i], "start frame") = "waiting"
    BY DEF After
  <2> QED
    BY <2>1, <2>2, <1>3
<1>5. i + 1 \in DOMAIN q
  <2>1. i # n
    BY <1>2, <1>4
  <2> QED
    BY <2>1, <1>1
<1>6. q[i + 1].kind \in ReadableIn("waiting")
  BY <1>2, <1>4, <1>5 DEF Along
<1> QED
  BY <1>6 DEF ReadableIn

\* What is on a channel after a packet is written, and before one is read.
LEMMA RangeAppend ==
    ASSUME NEW S, NEW q \in Seq(S), NEW p \in S
    PROVE  Range(Append(q, p)) = Range(q) \cup {p}
<1> DEFINE r == Append(q, p)
<1>1. /\ Len(q) \in Nat /\ DOMAIN q = 1 .. Len(q) /\ DOMAIN r = 1 .. Len(q) + 1
      /\ r[Len(q) + 1] = p /\ \A i \in DOMAIN q : r[i] = q[i]
  OBVIOUS
<1> HIDE DEF r
<1>2. \A x : x \in Range(r) => x \in Range(q) \/ x = p
  BY <1>1 DEF Range
<1>3. \A x : x \in Range(q) => x \in Range(r)
  BY <1>1 DEF Range
<1>4. p \in Range(r)
  BY <1>1 DEF Range
<1>5. Range(r) = Range(q) \cup {p}
  BY <1>2, <1>3, <1>4
<1> QED
  BY <1>5 DEF r

\* Of what there is to read, the first packet and the rest are all.
LEMMA RangeTail ==
    ASSUME NEW S, NEW q \in Seq(S), q # << >>
    PROVE  Range(q) = Range(Tail(q)) \cup {Head(q)}
<1> DEFINE r == Tail(q)
<1>1. /\ Len(q) \in Nat /\ Len(q) >= 1 /\ Head(q) = q[1]
      /\ DOMAIN q = 1 .. Len(q) /\ DOMAIN r = 1 .. Len(q) - 1
      /\ \A i \in DOMAIN r : r[i] = q[i + 1]
  OBVIOUS
<1> HIDE DEF r
<1>2. ASSUME NEW i \in DOMAIN q PROVE q[i] \in Range(r) \/ q[i] = Head(q)
  <2>1. CASE i = 1
    BY <2>1, <1>1
  <2>2. CASE i # 1
    <3>1. i - 1 \in DOMAIN r
      BY <2>2, <1>1
    <3>2. r[i - 1] = q[i]
      BY <3>1, <1>1
    <3> QED
      BY <3>1, <3>2 DEF Range
  <2> QED
    BY <2>1, <2>2
<1>3. ASSUME NEW i \in DOMAIN r PROVE r[i] \in Range(q)
  <2>1. i + 1 \in DOMAIN q
    BY <1>1
  <2> QED
    BY <2>1, <1>1 DEF Range
<1>4. Head(q) \in Range(q)
  BY <1>1 DEF Range
<1>5. Range(q) = Range(r) \cup {Head(q)}
  BY <1>2, <1>3, <1>4 DEF Range
<1> QED
  BY <1>5 DEF r

\* The same, of the kinds.
LEMMA KindsAppend ==
    ASSUME NEW S, NEW q \in Seq(S), NEW p \in S
    PROVE  Kinds(Append(q, p)) = Kinds(q) \cup {p.kind}
BY RangeAppend DEF Kinds

\* The kinds there are to read: the first packet's, and those of the rest.
LEMMA KindsTail ==
    ASSUME NEW S, NEW q \in Seq(S), q # << >>
    PROVE  Kinds(q) = Kinds(Tail(q)) \cup {Head(q).kind}
BY RangeTail DEF Kinds

\* A channel with nothing on it has no kinds, and keeps to every order.
LEMMA NothingOn ==
    /\ Kinds(<< >>) = {} /\ \A K : Once(<< >>, K)
    /\ \A K, L : Before(<< >>, K, L) /\ \A r : Composed(<< >>, K, r)
<1>1. DOMAIN << >> = {}
  OBVIOUS
<1> QED
  BY <1>1 DEF Kinds, Range, Once, Before, Composed

\* A packet of the kinds there was none of; and one read, that was the only one.
LEMMA OnceAppend ==
    ASSUME NEW S, NEW q \in Seq(S), NEW p \in S, NEW K, Once(q, K),
           p.kind \notin K \/ Kinds(q) \cap K = {}
    PROVE  Once(Append(q, p), K)
<1> DEFINE r == Append(q, p)
<1>1. /\ Len(q) \in Nat /\ DOMAIN q = 1 .. Len(q) /\ DOMAIN r = 1 .. Len(q) + 1
      /\ r[Len(q) + 1] = p /\ \A i \in DOMAIN q : r[i] = q[i]
  OBVIOUS
<1> HIDE DEF r
<1>2. \A i \in DOMAIN q : q[i].kind \in Kinds(q)
  BY DEF Kinds, Range
<1>3. SUFFICES ASSUME NEW i \in DOMAIN r, NEW j \in DOMAIN r,
                      r[i].kind \in K, r[j].kind \in K
               PROVE  i = j
  BY DEF Once, r
<1>4. \A k \in DOMAIN r : k \in DOMAIN q \/ k = Len(q) + 1
  BY <1>1
<1>5. CASE i \in DOMAIN q /\ j \in DOMAIN q
  BY <1>1, <1>3, <1>5 DEF Once
<1>6. CASE ~(i \in DOMAIN q /\ j \in DOMAIN q)
  BY <1>1, <1>2, <1>3, <1>4, <1>6
<1> QED
  BY <1>5, <1>6

\* What is left of a channel with one such packet at most, and that there is
\* none once it has been read.
LEMMA OnceTail ==
    ASSUME NEW S, NEW q \in Seq(S), q # << >>, NEW K, Once(q, K)
    PROVE  /\ Once(Tail(q), K)
           /\ Head(q).kind \in K => Kinds(Tail(q)) \cap K = {}
<1> DEFINE r == Tail(q)
<1>1. /\ Len(q) \in Nat /\ Len(q) >= 1 /\ Head(q) = q[1]
      /\ DOMAIN q = 1 .. Len(q) /\ DOMAIN r = 1 .. Len(q) - 1
      /\ \A i \in DOMAIN r : r[i] = q[i + 1]
  OBVIOUS
<1> HIDE DEF r
<1>2. \A i \in DOMAIN r : i \in Nat /\ i >= 1 /\ i + 1 \in DOMAIN q
  BY <1>1
<1>3. Once(r, K)
  BY <1>1, <1>2 DEF Once
<1>4. \A i \in DOMAIN r : Head(q).kind \in K => r[i].kind \notin K
  BY <1>1, <1>2 DEF Once
<1>5. \A k \in Kinds(r) : \E i \in DOMAIN r : k = r[i].kind
  BY DEF Kinds, Range
<1> QED
  BY <1>3, <1>4, <1>5 DEF r

\* A packet of other kinds, or one that closes what came before it.
LEMMA BeforeAppend ==
    ASSUME NEW S, NEW q \in Seq(S), NEW p \in S, NEW K, NEW L,
           p.kind \notin K, Before(q, K, L) \/ p.kind \in L
    PROVE  Before(Append(q, p), K, L)
<1> DEFINE r == Append(q, p)
<1>1. /\ Len(q) \in Nat /\ DOMAIN q = 1 .. Len(q) /\ DOMAIN r = 1 .. Len(q) + 1
      /\ r[Len(q) + 1] = p /\ \A i \in DOMAIN q : r[i] = q[i]
  OBVIOUS
<1> HIDE DEF r
<1>2. SUFFICES ASSUME NEW i \in DOMAIN r, r[i].kind \in K
               PROVE  \E j \in DOMAIN r : j > i /\ r[j].kind \in L
  BY DEF Before, r
<1>3. i \in DOMAIN q /\ q[i].kind \in K
  BY <1>1, <1>2
<1>4. CASE Before(q, K, L)
  <2>1. PICK j \in DOMAIN q : j > i /\ q[j].kind \in L
    BY <1>3, <1>4 DEF Before
  <2>2. j \in DOMAIN r /\ r[j] = q[j]
    BY <1>1
  <2> QED
    BY <2>1, <2>2
<1>5. CASE p.kind \in L
  <2>1. Len(q) + 1 \in DOMAIN r /\ Len(q) + 1 > i
    BY <1>1, <1>3
  <2> QED
    BY <2>1, <1>1, <1>5
<1> QED
  BY <1>4, <1>5

\* Reading leaves the order of the rest.
LEMMA BeforeTail ==
    ASSUME NEW S, NEW q \in Seq(S), q # << >>, NEW K, NEW L, Before(q, K, L)
    PROVE  Before(Tail(q), K, L)
<1> DEFINE r == Tail(q)
<1>1. /\ Len(q) \in Nat /\ Len(q) >= 1
      /\ DOMAIN q = 1 .. Len(q) /\ DOMAIN r = 1 .. Len(q) - 1
      /\ \A i \in DOMAIN r : r[i] = q[i + 1]
  OBVIOUS
<1> HIDE DEF r
<1>2. SUFFICES ASSUME NEW i \in DOMAIN r, r[i].kind \in K
               PROVE  \E j \in DOMAIN r : j > i /\ r[j].kind \in L
  BY DEF Before, r
<1>3. i \in Nat /\ i >= 1 /\ i + 1 \in DOMAIN q /\ q[i + 1].kind \in K
  BY <1>1, <1>2
<1>4. PICK j \in DOMAIN q : j > i + 1 /\ q[j].kind \in L
  BY <1>3 DEF Before
<1>5. j - 1 \in DOMAIN r /\ j - 1 > i /\ j - 1 + 1 = j
  BY <1>1, <1>3, <1>4
<1>6. r[j - 1] = q[j]
  BY <1>1, <1>5
<1> QED
  BY <1>4, <1>5, <1>6

\* What must come behind is there, when there is something it must be behind.
LEMMA BeforeKinds ==
    ASSUME NEW S, NEW q \in Seq(S), NEW K, NEW L, Before(q, K, L),
           Kinds(q) \cap K # {}
    PROVE  Kinds(q) \cap L # {}
BY DEF Before, Kinds, Range

\* The packet everything waits for comes first only when nothing waits.
LEMMA BeforeHead ==
    ASSUME NEW S, NEW q \in Seq(S), q # << >>, NEW K, NEW L, NEW A,
           Before(q, K, L), Once(q, A), L \subseteq A, Head(q).kind \in A \ K
    PROVE  Kinds(q) \cap K = {}
<1>1. SUFFICES ASSUME NEW i \in DOMAIN q, q[i].kind \in K PROVE FALSE
  BY DEF Kinds, Range
<1>2. PICK j \in DOMAIN q : j > i /\ q[j].kind \in L
  BY <1>1 DEF Before
<1>3. 1 \in DOMAIN q /\ Head(q) = q[1] /\ DOMAIN q = 1 .. Len(q) /\ Len(q) \in Nat
  OBVIOUS
<1>4. j = 1
  BY <1>2, <1>3 DEF Once
<1> QED
  BY <1>2, <1>3, <1>4

----------------------------------------------------------------------------
(* The dialogue of the two ends of the client connection.                  *)

\* Where what is on its way to the client will leave it.
ClientTo == IF phase = "play" THEN "play"
            ELSE IF phase = "rejoining" \/ (reader = "config" /\ sent)
            THEN "joining" ELSE "config"
\* What is on its way to the client (toClient): it can read all of it, and
\* is then where the gateway takes it to be.
ClientPath == client # "gone" => Path(toClient, client, ClientTo)

\* Where the client reader is, and where a client that is still there sends
\* it; one that left may have left it anywhere.
ReaderAt == IF reader = "config" THEN "reads config" ELSE "reads play"
\* Where the client has sent it.
ReaderTo == IF client = "config" THEN "reads config" ELSE "reads play"
\* The same of what is on its way to the client reader (toGateway).
ReaderPath ==
    \E s \in {"reads play", "reads config"} :
        Path(toGateway, ReaderAt, s) /\ (client # "gone" => s = ReaderTo)

\* A reconfiguration is asked and answered, one packet at a time; each
\* belongs to one stage of it.
Asks    == {"start", "known", "push", "finish"}
\* What the client answers to them.
Answers == {"ack", "knownReply", "loaded", "declined", "finished"}
\* The stage a packet belongs to: the acknowledgement opens configure(), and
\* finish_configuration, once sent, is the last thing asked.
InTurn(k) ==
    /\ phase = "configuring"
    /\ IF k \in {"start", "ack"} THEN reader # "config"
       ELSE reader = "config" /\ (sent <=> k \in {"finish", "finished"})
\* One ask, or one answer, is on its way, in its stage.
OneTurn ==
    /\ client # "gone" =>
        /\ Once(toClient, Asks)
        /\ \A k \in Asks : k \in Kinds(toClient) =>
              InTurn(k) /\ Kinds(toGateway) \cap Answers = {}
    /\ Once(toGateway, Answers)
    /\ \A k \in Answers : k \in Kinds(toGateway) => InTurn(k)

\* takeConfig will find what startConfiguration left.
Pending == phase = "configuring" /\ reader # "config" => pendingConfig # NoConfig

\* The dialogue of the two ends: what GateHolds and BothEndsFollow rest on.
Dialogue == ConfigWritesAlone /\ ClientPath /\ ReaderPath /\ OneTurn /\ Pending

\* The places of the two ends are states of theirs.
LEMMA PlacesTyped ==
    /\ ClientTo \in States
    /\ ReaderAt \in States /\ ReaderTo \in {"reads play", "reads config"}
    /\ \A s \in {"reads play", "reads config"} : s \in States
    /\ PeerTypeOK /\ client # "gone" => client \in States
BY DEF ClientTo, ReaderAt, ReaderTo, States, PeerTypeOK

\* A step that writes nothing to the client and reads nothing from there.
LEMMA ClientKept ==
    ASSUME ClientPath, toClient' = toClient, ClientTo' = ClientTo,
           client' = client \/ client' = "gone"
    PROVE  ClientPath'
BY DEF ClientPath

\* A step that writes one packet, or two, where they will be taken.
LEMMA ClientWrite ==
    ASSUME ClientPath, ToClientOK, PeerTypeOK, client' = client,
           NEW p \in Packets(ClientboundKinds), toClient' = Append(toClient, p),
           p.kind \in ReadableIn(ClientTo), ClientTo' = After(ClientTo, p.kind)
    PROVE  ClientPath'
<1> SUFFICES ASSUME client # "gone"
             PROVE  Path(toClient', client, After(ClientTo, p.kind))
  BY DEF ClientPath
<1>1. Path(toClient, client, ClientTo)
  BY DEF ClientPath
<1> QED
  BY <1>1, PlacesTyped, PathAppend DEF ToClientOK

\* A step that writes two, each where it will be taken (rejoin, and the
\* registries with what follows them).
LEMMA ClientWriteTwo ==
    ASSUME ClientPath, ToClientOK, PeerTypeOK, client' = client,
           NEW p \in Packets(ClientboundKinds), NEW r \in Packets(ClientboundKinds),
           toClient' = Append(Append(toClient, p), r),
           p.kind \in ReadableIn(ClientTo),
           NEW b \in States, b = After(ClientTo, p.kind),
           r.kind \in ReadableIn(b), ClientTo' = After(b, r.kind)
    PROVE  ClientPath'
<1> SUFFICES ASSUME client # "gone"
             PROVE  Path(toClient', client, After(b, r.kind))
  BY DEF ClientPath
<1>1. Path(toClient, client, ClientTo)
  BY DEF ClientPath
<1> DEFINE q == Append(toClient, p)
<1>2. Path(q, client, b)
  BY <1>1, PlacesTyped, PathAppend DEF ToClientOK
<1>3. q \in Seq(Packets(ClientboundKinds))
  BY AppendTyped DEF ToClientOK
<1> QED
  BY <1>2, <1>3, PlacesTyped, PathAppend

\* What the client reads, it takes; the rest is a path from where that leaves it.
LEMMA ClientTakes ==
    ASSUME ClientPath, ToClientOK, PeerTypeOK, client # "gone", toClient # << >>
    PROVE  /\ Head(toClient).kind \in ReadableBy(client)
           /\ Path(Tail(toClient), After(client, Head(toClient).kind), ClientTo)
<1>1. Path(toClient, client, ClientTo)
  BY DEF ClientPath
<1>2. /\ Head(toClient).kind \in ReadableIn(client)
      /\ Path(Tail(toClient), After(client, Head(toClient).kind), ClientTo)
  BY <1>1, PlacesTyped, PathTail DEF ToClientOK
<1>3. ReadableIn(client) = ReadableBy(client)
  BY DEF ReadableIn, PeerTypeOK
<1> QED
  BY <1>2, <1>3

\* A step in which the client reads, and goes where that takes it or leaves.
LEMMA ClientRest ==
    ASSUME ClientPath, ToClientOK, PeerTypeOK, client # "gone", toClient # << >>,
           toClient' = Tail(toClient), ClientTo' = ClientTo,
           client' = After(client, Head(toClient).kind) \/ client' = "gone"
    PROVE  ClientPath'
BY ClientTakes DEF ClientPath

\* The same of the other direction.
LEMMA ReaderKept ==
    ASSUME ReaderPath, toGateway' = toGateway, ReaderAt' = ReaderAt,
           client' # "gone" => client # "gone" /\ ReaderTo' = ReaderTo
    PROVE  ReaderPath'
BY DEF ReaderPath

\* What the client reader reads, its loop takes (play's, or configure's).
LEMMA ReaderTakes ==
    ASSUME ReaderPath, ToGatewayOK, toGateway # << >>
    PROVE  Head(toGateway).kind \in ReadableIn(ReaderAt)
<1>1. PICK s \in {"reads play", "reads config"} : Path(toGateway, ReaderAt, s)
  BY DEF ReaderPath
<1> QED
  BY <1>1, PlacesTyped, PathTail DEF ToGatewayOK

\* A step in which the client reader reads, and changes loops if that does.
LEMMA ReaderRest ==
    ASSUME ReaderPath, ToGatewayOK, toGateway # << >>,
           toGateway' = Tail(toGateway), client' = client,
           ReaderAt' = After(ReaderAt, Head(toGateway).kind)
    PROVE  ReaderPath'
<1>1. PICK s \in {"reads play", "reads config"} :
          Path(toGateway, ReaderAt, s) /\ (client # "gone" => s = ReaderTo)
  BY DEF ReaderPath
<1>2. Path(toGateway', ReaderAt', s)
  BY <1>1, PlacesTyped, PathTail DEF ToGatewayOK
<1>3. ReaderTo' = ReaderTo
  BY DEF ReaderTo
<1> QED
  BY <1>1, <1>2, <1>3 DEF ReaderPath

\* A step in which the client answers, or moves.
LEMMA ReaderWrite ==
    ASSUME ReaderPath, ToGatewayOK, client # "gone", ReaderAt' = ReaderAt,
           NEW p \in Packets(ServerboundKinds), toGateway' = Append(toGateway, p),
           p.kind \in ReadableIn(ReaderTo), ReaderTo' = After(ReaderTo, p.kind)
    PROVE  ReaderPath'
<1>1. Path(toGateway, ReaderAt, ReaderTo)
  BY DEF ReaderPath
<1>2. Path(toGateway', ReaderAt', ReaderTo')
  BY <1>1, PlacesTyped, PathAppend DEF ToGatewayOK
<1>3. ReaderTo' \in {"reads play", "reads config"}
  BY DEF ReaderTo
<1> QED
  BY <1>2, <1>3 DEF ReaderPath

\* A step that brings no new ask and no new answer.
LEMMA TurnKept ==
    ASSUME OneTurn, client' # "gone" => client # "gone",
           UNCHANGED <<phase, reader, sent>>,
           Once(toClient, Asks) => Once(toClient', Asks),
           Kinds(toClient') \cap Asks \subseteq Kinds(toClient),
           Once(toGateway, Answers) => Once(toGateway', Answers),
           Kinds(toGateway') \cap Answers \subseteq Kinds(toGateway)
    PROVE  OneTurn'
<1>1. \A k : InTurn(k) => InTurn(k)'
  BY DEF InTurn
<1>2. Kinds(toGateway) \cap Answers = {} => Kinds(toGateway') \cap Answers = {}
  OBVIOUS
<1> QED
  BY <1>1, <1>2 DEF OneTurn

\* A step after which no answer is on its way, and one ask at most.
LEMMA TurnAsked ==
    ASSUME client' = client, NEW k \in Asks, InTurn(k)',
           client # "gone" =>
               Once(toClient', Asks) /\ Kinds(toClient') \cap Asks \subseteq {k},
           Once(toGateway', Answers), Kinds(toGateway') \cap Answers = {}
    PROVE  OneTurn'
BY DEF OneTurn

\* A step after which nothing is asked and nothing is answered.
LEMMA TurnOver ==
    ASSUME client' = client,
           client # "gone" =>
               Once(toClient', Asks) /\ Kinds(toClient') \cap Asks = {},
           Once(toGateway', Answers), Kinds(toGateway') \cap Answers = {}
    PROVE  OneTurn'
<1>1. \A k \in Answers : k \notin Kinds(toGateway')
  OBVIOUS
<1>2. client # "gone" => \A k \in Asks : k \notin Kinds(toClient')
  OBVIOUS
<1> QED
  BY <1>1, <1>2 DEF OneTurn

\* The client reader reads an answer: it is the only one, and no ask is out.
LEMMA AnswerRead ==
    ASSUME OneTurn, ToGatewayOK, toGateway # << >>,
           Head(toGateway).kind \in Answers
    PROVE  /\ InTurn(Head(toGateway).kind)
           /\ Once(Tail(toGateway), Answers)
           /\ Kinds(Tail(toGateway)) \cap Answers = {}
           /\ client # "gone" => Kinds(toClient) \cap Asks = {}
<1>1. Kinds(toGateway) = Kinds(Tail(toGateway)) \cup {Head(toGateway).kind}
  BY KindsTail DEF ToGatewayOK
<1>2. /\ Once(Tail(toGateway), Answers)
      /\ Kinds(Tail(toGateway)) \cap Answers = {}
  BY OnceTail DEF OneTurn, ToGatewayOK
<1> QED
  BY <1>1, <1>2 DEF OneTurn

\* The client reads an ask: it is the only one, and no answer is out.
LEMMA AskRead ==
    ASSUME OneTurn, ToClientOK, client # "gone", toClient # << >>,
           Head(toClient).kind \in Asks
    PROVE  /\ InTurn(Head(toClient).kind)
           /\ Once(Tail(toClient), Asks)
           /\ Kinds(Tail(toClient)) \cap Asks = {}
           /\ Kinds(toGateway) \cap Answers = {}
<1>1. Kinds(toClient) = Kinds(Tail(toClient)) \cup {Head(toClient).kind}
  BY KindsTail DEF ToClientOK
<1>2. /\ Once(Tail(toClient), Asks)
      /\ Kinds(Tail(toClient)) \cap Asks = {}
  BY OnceTail DEF OneTurn, ToClientOK
<1> QED
  BY <1>1, <1>2 DEF OneTurn

\* A write of one packet more: the kinds then, and whether asks stay single.
LEMMA AskWritten ==
    ASSUME ToClientOK, NEW p \in Packets(ClientboundKinds)
    PROVE  /\ Kinds(Append(toClient, p)) = Kinds(toClient) \cup {p.kind}
           /\ Once(toClient, Asks) /\ (p.kind \notin Asks \/ Kinds(toClient) \cap Asks = {})
                => Once(Append(toClient, p), Asks)
BY KindsAppend, OnceAppend DEF ToClientOK

\* The same of what the client writes.
LEMMA AnswerWritten ==
    ASSUME ToGatewayOK, NEW p \in Packets(ServerboundKinds)
    PROVE  /\ Kinds(Append(toGateway, p)) = Kinds(toGateway) \cup {p.kind}
           /\ Once(toGateway, Answers)
              /\ (p.kind \notin Answers \/ Kinds(toGateway) \cap Answers = {})
                => Once(Append(toGateway, p), Answers)
BY KindsAppend, OnceAppend DEF ToGatewayOK

\* The same of a write of two packets, the first of which asks nothing.
LEMMA TwoWritten ==
    ASSUME ToClientOK, NEW p \in Packets(ClientboundKinds), p.kind \notin Asks,
           NEW r \in Packets(ClientboundKinds)
    PROVE  /\ Kinds(Append(Append(toClient, p), r)) =
                  Kinds(toClient) \cup {p.kind, r.kind}
           /\ Once(toClient, Asks) /\ (r.kind \notin Asks \/ Kinds(toClient) \cap Asks = {})
                => Once(Append(Append(toClient, p), r), Asks)
<1> DEFINE q == Append(toClient, p)
<1>1. q \in Seq(Packets(ClientboundKinds))
  BY AppendTyped DEF ToClientOK
<1>2. Kinds(q) = Kinds(toClient) \cup {p.kind}
  BY AskWritten
<1>3. Once(toClient, Asks) => Once(q, Asks)
  BY AskWritten
<1> HIDE DEF q
<1>4. Kinds(Append(q, r)) = Kinds(q) \cup {r.kind}
  BY <1>1, KindsAppend
<1>5. Once(q, Asks) /\ (r.kind \notin Asks \/ Kinds(q) \cap Asks = {})
         => Once(Append(q, r), Asks)
  BY <1>1, OnceAppend
<1>6. Kinds(toClient) \cap Asks = {} => Kinds(q) \cap Asks = {}
  BY <1>2
<1>7. Kinds(Append(q, r)) = Kinds(toClient) \cup {p.kind, r.kind}
  BY <1>2, <1>4
<1> QED
  BY <1>3, <1>5, <1>6, <1>7 DEF q

\* Nothing of the dialogue changes; a client may leave.
LEMMA DialogueKept ==
    ASSUME Dialogue, UNCHANGED <<phase, reader, sent, toClient, toGateway>>,
           client' = client \/ client' = "gone",
           pendingConfig' = pendingConfig
    PROVE  Dialogue'
<1>1. ClientTo' = ClientTo /\ ReaderAt' = ReaderAt
  BY DEF ClientTo, ReaderAt
<1>2. client' # "gone" => client # "gone" /\ ReaderTo' = ReaderTo
  BY DEF ReaderTo
<1>3. ClientPath'
  BY <1>1, ClientKept DEF Dialogue
<1>4. ReaderPath'
  BY <1>1, <1>2, ReaderKept DEF Dialogue
<1>5. OneTurn'
  BY TurnKept DEF Dialogue
<1>6. ConfigWritesAlone' /\ Pending'
  BY DEF Dialogue, ConfigWritesAlone, Pending
<1> QED
  BY <1>3, <1>4, <1>5, <1>6 DEF Dialogue

\* The kinds the goroutines send in play.
SentKinds == {"play", "tags", "keepalive", "disconnect"}

\* A packet through the gate: dropped, or taken in play (send).
LEMMA GatedSend ==
    ASSUME ToClientOK, PeerTypeOK, Dialogue,
           NEW p \in Packets(ClientboundKinds), p.kind \in SentKinds, CcSend(p),
           UNCHANGED <<phase, reader, sent, toGateway, client, pendingConfig>>
    PROVE  Dialogue'
<1>1. CASE phase # "play"
  <2>1. toClient' = toClient
    BY <1>1 DEF CcSend
  <2> QED
    BY <2>1, DialogueKept
<1>2. CASE phase = "play"
  <2>1. toClient' = Append(toClient, p)
    BY <1>2 DEF CcSend, Write
  <2>2. ClientTo = "play" /\ ClientTo' = "play" /\ ReaderAt' = ReaderAt
        /\ ReaderTo' = ReaderTo
    BY <1>2 DEF ClientTo, ReaderAt, ReaderTo
  <2>3. p.kind \in ReadableIn("play") /\ After("play", p.kind) = "play"
    BY DEF ReadableIn, ReadableBy, PlayKinds, After, SentKinds
  <2>4. ClientPath'
    BY <2>1, <2>2, <2>3, ClientWrite DEF Dialogue
  <2>5. ReaderPath'
    BY <2>2, ReaderKept DEF Dialogue
  <2>6. p.kind \notin Asks
    BY DEF Asks, SentKinds
  <2>7. OneTurn'
    BY <2>1, <2>6, AskWritten, TurnKept DEF Dialogue
  <2>8. ConfigWritesAlone' /\ Pending'
    BY DEF Dialogue, ConfigWritesAlone, Pending
  <2> QED
    BY <2>4, <2>5, <2>7, <2>8 DEF Dialogue
<1> QED
  BY <1>1, <1>2

\* The packets of the gateway, typed.
LEMMA OutTyped ==
    /\ \A k \in (PlayKinds \cup ConfigKinds) \ ComposedKinds : \A n \in Nat :
           /\ Packet(k, NoConfig, n) \in Packets(ClientboundKinds)
           /\ Packet(k, NoConfig, n).kind = k
    /\ \A k \in ClientboundKinds : \A c \in Configs :
           /\ Packet(k, c, 0) \in Packets(ClientboundKinds)
           /\ Packet(k, c, 0).kind = k /\ Packet(k, c, 0).cfg = c
<1>1. ASSUME NEW k \in (PlayKinds \cup ConfigKinds) \ ComposedKinds, NEW n \in Nat
      PROVE  Packet(k, NoConfig, n) \in Packets(ClientboundKinds)
  <2>1. k \in ClientboundKinds
    BY DEF ClientboundKinds
  <2> QED
    BY <2>1, PlainTyped
<1>2. ASSUME NEW k \in ClientboundKinds, NEW c \in Configs
      PROVE  Packet(k, c, 0) \in Packets(ClientboundKinds)
  BY ComposedTyped
<1>3. \A k, c, n : Packet(k, c, n).kind = k /\ Packet(k, c, n).cfg = c
  BY DEF Packet
<1> QED
  BY <1>1, <1>2, <1>3

\* The packets without data, one by one.
LEMMA PlainOut ==
    \A k \in {"play", "keepalive", "start", "disconnect", "known", "push",
              "finish", "cfgDisconnect"} :
        /\ \A n \in Nat : /\ Packet(k, NoConfig, n) \in Packets(ClientboundKinds)
                          /\ Packet(k, NoConfig, n).kind = k
        /\ Plain(k) \in Packets(ClientboundKinds) /\ Plain(k).kind = k
<1> SUFFICES ASSUME NEW k \in {"play", "keepalive", "start", "disconnect",
                               "known", "push", "finish", "cfgDisconnect"}
             PROVE  \A n \in Nat : /\ Packet(k, NoConfig, n) \in Packets(ClientboundKinds)
                                   /\ Packet(k, NoConfig, n).kind = k
  BY DEF Plain
<1>1. k \in (PlayKinds \cup ConfigKinds) \ ComposedKinds
  BY DEF PlayKinds, ConfigKinds, ComposedKinds
<1> QED
  BY <1>1, OutTyped

\* The world reader and the pacer, the ticker's sends.
LEMMA DialogueSends ==
    ASSUME TypeOK, Dialogue,
           HandlePlayFrame \/ HandleUpdateTags \/ OtherSend \/ TimeOut \/ SendChallenge
    PROVE  Dialogue'
<1> USE DEF TypeOK
<1>1. UNCHANGED <<phase, reader, sent, toGateway, client, pendingConfig>>
  BY DEF HandlePlayFrame, HandleUpdateTags, OtherSend, TimeOut, SendChallenge,
     gateVars, readerVars, clientVars
<1>2. \E p \in Packets(ClientboundKinds) : p.kind \in SentKinds /\ CcSend(p)
  <2>1. CASE HandleUpdateTags
    <3>1. curConfig' \in Configs
      BY <2>1, FrameConfig, RetagTyped DEF HandleUpdateTags, NextFrame, GateTypeOK
    <3>2. /\ Packet("tags", curConfig', 0) \in Packets(ClientboundKinds)
          /\ Packet("tags", curConfig', 0).kind = "tags"
      BY <3>1, OutTyped DEF ClientboundKinds, PlayKinds
    <3>3. CcSend(Packet("tags", curConfig', 0))
      BY <2>1 DEF HandleUpdateTags
    <3> QED
      BY <3>2, <3>3 DEF SentKinds
  <2>2. CASE ~HandleUpdateTags
    <3>1. \E k \in {"play", "disconnect", "keepalive"}, n \in Nat :
              CcSend(Packet(k, NoConfig, n))
      BY <2>2 DEF HandlePlayFrame, TimeOut, SendChallenge, OtherSend, Plain,
         KeepAliveTypeOK
    <3> QED
      BY <3>1, PlainOut DEF SentKinds
  <2> QED
    BY <2>1, <2>2
<1> QED
  BY <1>1, <1>2, GatedSend

\* startConfiguration: from play only, when nothing is asked or answered.
LEMMA DialogueStart ==
    ASSUME TypeOK, Dialogue, HandleStartConfiguration
    PROVE  Dialogue'
<1> USE DEF TypeOK
<1>1. UNCHANGED <<reader, sent, toGateway, client>>
  BY DEF HandleStartConfiguration, readerVars, clientVars
<1>2. CASE phase # "play"
  <2>1. UNCHANGED <<phase, toClient, pendingConfig>>
    BY <1>2 DEF HandleStartConfiguration, StartConfiguration
  <2> QED
    BY <1>1, <2>1, DialogueKept
<1>3. CASE phase = "play"
  <2> DEFINE p == Plain("start")
  <2>1. /\ phase' = "configuring" /\ toClient' = Append(toClient, p)
        /\ pendingConfig' = Head(fromWorld).cfg
    BY <1>3 DEF HandleStartConfiguration, StartConfiguration, Write
  <2>2. p \in Packets(ClientboundKinds) /\ p.kind = "start"
    BY PlainOut
  <2> HIDE DEF p
  <2>3. reader # "config"
    BY <1>3 DEF Dialogue, ConfigWritesAlone
  <2>4. ClientTo = "play" /\ ClientTo' = "config" /\ ReaderAt' = ReaderAt
        /\ ReaderTo' = ReaderTo
    BY <1>1, <1>3, <2>1, <2>3 DEF ClientTo, ReaderAt, ReaderTo
  <2>5. "start" \in ReadableIn("play") /\ After("play", "start") = "config"
    BY DEF ReadableIn, ReadableBy, PlayKinds, After
  <2>6. ClientPath'
    BY <1>1, <2>1, <2>2, <2>4, <2>5, ClientWrite DEF Dialogue
  <2>7. ReaderPath'
    BY <1>1, <2>4, ReaderKept DEF Dialogue
  <2>8. \A k : ~InTurn(k)
    BY <1>3 DEF InTurn
  <2>9. InTurn("start")'
    BY <1>1, <2>1, <2>3 DEF InTurn
  <2>10. /\ Kinds(toGateway) \cap Answers = {} /\ Once(toGateway, Answers)
         /\ client # "gone" => Kinds(toClient) \cap Asks = {} /\ Once(toClient, Asks)
    BY <2>8 DEF Dialogue, OneTurn
  <2>11. OneTurn'
    BY <1>1, <2>1, <2>2, <2>9, <2>10, AskWritten, TurnAsked DEF Asks
  <2>12. ConfigWritesAlone' /\ Pending'
    <3>1. pendingConfig' # NoConfig
      BY <2>1, FrameConfig, NoConfigAssumption
         DEF HandleStartConfiguration, NextFrame
    <3> QED
      BY <1>1, <2>1, <3>1 DEF ConfigWritesAlone, Pending
  <2> QED
    BY <2>6, <2>7, <2>11, <2>12 DEF Dialogue
<1> QED
  BY <1>2, <1>3

\* rejoin: the login closes what finish_configuration opened.
LEMMA DialogueRejoin ==
    ASSUME TypeOK, Dialogue, HandleRejoin
    PROVE  Dialogue'
<1> USE DEF TypeOK
<1>1. UNCHANGED <<reader, sent, toGateway, client, pendingConfig>>
  BY DEF HandleRejoin, readerVars, clientVars
<1>2. CASE phase # "rejoining"
  <2>1. UNCHANGED <<phase, toClient>>
    BY <1>2 DEF HandleRejoin, Rejoin
  <2> QED
    BY <1>1, <2>1, DialogueKept
<1>3. CASE phase = "rejoining"
  <2> DEFINE p == Packet("login", curConfig, 0)
             r == Plain("play")
             q == Append(toClient, p)
  <2>1. phase' = "play" /\ toClient' = Append(q, r)
    BY <1>3 DEF HandleRejoin, Rejoin, WriteTwo
  <2>2. p \in Packets(ClientboundKinds) /\ p.kind = "login"
    BY OutTyped DEF ClientboundKinds, GateTypeOK
  <2>3. r \in Packets(ClientboundKinds) /\ r.kind = "play"
    BY PlainOut
  <2> HIDE DEF p, r
  <2>4. ClientTo = "joining" /\ ClientTo' = "play" /\ ReaderAt' = ReaderAt
        /\ ReaderTo' = ReaderTo
    BY <1>1, <1>3, <2>1 DEF ClientTo, ReaderAt, ReaderTo
  <2>5. /\ "login" \in ReadableIn("joining") /\ After("joining", "login") = "play"
        /\ "play" \in ReadableIn("play") /\ After("play", "play") = "play"
        /\ "play" \in States
    BY DEF ReadableIn, ReadableBy, PlayKinds, After, States
  <2>6. ClientPath'
    BY <1>1, <2>1, <2>2, <2>3, <2>4, <2>5, ClientWriteTwo DEF Dialogue
  <2>7. ReaderPath'
    BY <1>1, <2>4, ReaderKept DEF Dialogue
  <2>8. \A k : ~InTurn(k)
    BY <1>3 DEF InTurn
  <2>9. /\ Kinds(toGateway) \cap Answers = {} /\ Once(toGateway, Answers)
        /\ client # "gone" => Kinds(toClient) \cap Asks = {} /\ Once(toClient, Asks)
    BY <2>8 DEF Dialogue, OneTurn
  <2>10. /\ Kinds(toClient') = Kinds(toClient) \cup {"login", "play"}
         /\ Once(toClient, Asks) => Once(toClient', Asks)
    BY <2>1, <2>2, <2>3, TwoWritten DEF Asks
  <2>11. OneTurn'
    <3>1. client # "gone" => Kinds(toClient') \cap Asks = {} /\ Once(toClient', Asks)
      BY <2>9, <2>10 DEF Asks
    <3>2. Once(toGateway', Answers) /\ Kinds(toGateway') \cap Answers = {}
      BY <1>1, <2>9
    <3>3. client' = client
      BY <1>1
    <3> QED
      BY <3>1, <3>2, <3>3, TurnOver
  <2>12. ConfigWritesAlone' /\ Pending'
    BY <1>1, <1>3, <2>1 DEF ConfigWritesAlone, Pending, Dialogue
  <2> QED
    BY <2>6, <2>7, <2>11, <2>12 DEF Dialogue
<1> QED
  BY <1>2, <1>3

\* What the client reader reads is in its turn: an acknowledgement finds the
\* pending configuration, the end of configuration was asked for.
LEMMA AnswerInTurn ==
    ASSUME TypeOK, Dialogue, toGateway # << >>, Head(toGateway).kind \in Answers
    PROVE  /\ InTurn(Head(toGateway).kind)
           /\ Head(toGateway).kind = "ack" => TakeConfig
           /\ Head(toGateway).kind = "finished" => sent
           /\ Head(toGateway).kind \in {"knownReply", "loaded", "declined"} => ~sent
<1>1. InTurn(Head(toGateway).kind)
  BY AnswerRead DEF Dialogue, TypeOK
<1> QED
  BY <1>1 DEF InTurn, Dialogue, Pending, TakeConfig

\* A packet read that says nothing of the dialogue.
LEMMA DialogueReads ==
    ASSUME TypeOK, Dialogue, toGateway # << >>, toGateway' = Tail(toGateway),
           Head(toGateway).kind \notin {"ack", "finished"},
           UNCHANGED <<phase, reader, sent, toClient, client, pendingConfig>>
    PROVE  Dialogue'
<1> USE DEF TypeOK
<1>1. ClientTo' = ClientTo /\ ReaderAt' = ReaderAt
  BY DEF ClientTo, ReaderAt
<1>2. ClientPath'
  BY <1>1, ClientKept DEF Dialogue
<1>3. ReaderPath'
  <2>1. Head(toGateway).kind \in ReadableIn(ReaderAt)
    BY ReaderTakes DEF Dialogue
  <2>2. After(ReaderAt, Head(toGateway).kind) = ReaderAt
    BY <2>1 DEF After, ReaderAt, ReadableIn, ServerPlayKinds, ServerConfigKinds
  <2> QED
    BY <1>1, <2>2, ReaderRest DEF Dialogue
<1>4. OneTurn'
  BY KindsTail, OnceTail, TurnKept DEF Dialogue, ToGatewayOK
<1>5. ConfigWritesAlone' /\ Pending'
  BY DEF Dialogue, ConfigWritesAlone, Pending
<1> QED
  BY <1>2, <1>3, <1>4, <1>5 DEF Dialogue

\* configuration_acknowledged, and configure's first packet.
LEMMA DialogueAck ==
    ASSUME TypeOK, Dialogue, ReadAck
    PROVE  Dialogue'
<1> USE DEF TypeOK
<1> DEFINE p == Plain("known")
<1>1. /\ reader = "play" /\ toGateway # << >> /\ Head(toGateway).kind = "ack"
      /\ toGateway' = Tail(toGateway) /\ phase' = phase /\ client' = client
  BY DEF ReadAck, NextPacket, clientVars
<1>2. TakeConfig
  BY <1>1, AnswerInTurn DEF Answers
<1>3. /\ phase = "configuring" /\ reader' = "config" /\ sent' = FALSE
      /\ toClient' = Append(toClient, p)
  BY <1>2 DEF ReadAck, Write, TakeConfig
<1>4. p \in Packets(ClientboundKinds) /\ p.kind = "known"
  BY PlainOut
<1> HIDE DEF p
<1>5. /\ ClientTo = "config" /\ ClientTo' = "config"
      /\ ReaderAt = "reads play" /\ ReaderAt' = "reads config"
  BY <1>1, <1>3 DEF ClientTo, ReaderAt
<1>6. /\ "known" \in ReadableIn("config") /\ After("config", "known") = "config"
      /\ After("reads play", "ack") = "reads config"
  BY DEF ReadableIn, ReadableBy, ConfigKinds, After
<1>7. ClientPath'
  BY <1>1, <1>3, <1>4, <1>5, <1>6, ClientWrite DEF Dialogue
<1>8. ReaderPath'
  BY <1>1, <1>5, <1>6, ReaderRest DEF Dialogue
<1>9. InTurn("known")'
  BY <1>1, <1>3 DEF InTurn
<1>10. OneTurn'
  <2>1. /\ Once(toGateway', Answers) /\ Kinds(toGateway') \cap Answers = {}
        /\ client # "gone" => Kinds(toClient) \cap Asks = {}
    BY <1>1, AnswerRead DEF Dialogue, Answers
  <2>2. client # "gone" =>
            Once(toClient', Asks) /\ Kinds(toClient') \cap Asks \subseteq {"known"}
    BY <1>3, <1>4, <2>1, AskWritten DEF Dialogue, OneTurn
  <2> QED
    BY <1>1, <1>9, <2>1, <2>2, TurnAsked DEF Asks
<1>11. ConfigWritesAlone' /\ Pending'
  BY <1>1, <1>3 DEF ConfigWritesAlone, Pending
<1> QED
  BY <1>7, <1>8, <1>10, <1>11 DEF Dialogue

\* A packet of configure() that answers an answer and does not end it.
LEMMA DialogueKnownPacks ==
    ASSUME TypeOK, Dialogue, ReadKnownPacks
    PROVE  Dialogue'
<1> USE DEF TypeOK
<1> DEFINE k == IF ResourcePack THEN "push" ELSE "finish"
           p == Packet("registries", taken, 0)
           r == Plain(k)
<1>1. /\ reader = "config" /\ toGateway # << >> /\ toGateway' = Tail(toGateway)
      /\ Head(toGateway).kind = "knownReply"
      /\ UNCHANGED <<phase, reader, client, pendingConfig>>
  BY DEF ReadKnownPacks, NextPacket, clientVars, gateVars
<1>2. sent' = (sent \/ ~ResourcePack) /\ toClient' = Append(Append(toClient, p), r)
  BY DEF ReadKnownPacks, WriteTwo
<1>3. phase = "configuring" /\ taken \in Configs
  BY <1>1 DEF Dialogue, ConfigWritesAlone, ReaderTypeOK
<1>4. ~sent
  BY <1>1, AnswerInTurn DEF Answers
<1>5. p \in Packets(ClientboundKinds) /\ p.kind = "registries"
  BY <1>3, OutTyped DEF ClientboundKinds, ConfigKinds
<1>6. r \in Packets(ClientboundKinds) /\ r.kind = k
  BY PlainOut
<1>7. k \in {"push", "finish"} /\ (sent' <=> k = "finish")
  BY <1>2, <1>4, SwitchAssumption
<1> HIDE DEF p, r, k
<1>8. /\ ClientTo = "config" /\ ReaderAt = "reads config" /\ ReaderAt' = ReaderAt
      /\ ClientTo' = IF k = "finish" THEN "joining" ELSE "config"
  BY <1>1, <1>3, <1>4, <1>7 DEF ClientTo, ReaderAt
<1>9. /\ "registries" \in ReadableIn("config")
      /\ After("config", "registries") = "config"
      /\ k \in ReadableIn("config") /\ ClientTo' = After("config", k)
      /\ After("reads config", "knownReply") = "reads config" /\ "config" \in States
  BY <1>7, <1>8 DEF ReadableIn, ReadableBy, ConfigKinds, After, States
<1>10. ClientPath'
  BY <1>1, <1>2, <1>5, <1>6, <1>8, <1>9, ClientWriteTwo DEF Dialogue
<1>11. ReaderPath'
  BY <1>1, <1>8, <1>9, ReaderRest DEF Dialogue
<1>12. InTurn(k)'
  BY <1>1, <1>3, <1>7 DEF InTurn
<1>13. OneTurn'
  <2>1. /\ Once(toGateway', Answers) /\ Kinds(toGateway') \cap Answers = {}
        /\ client # "gone" => Kinds(toClient) \cap Asks = {}
    BY <1>1, AnswerRead DEF Dialogue, Answers
  <2>2. "registries" \notin Asks /\ k \in Asks
    BY <1>7 DEF Asks
  <2>3. client # "gone" =>
            Once(toClient', Asks) /\ Kinds(toClient') \cap Asks \subseteq {k}
    BY <1>2, <1>5, <1>6, <2>1, <2>2, TwoWritten DEF Dialogue, OneTurn
  <2> QED
    BY <1>1, <1>12, <2>1, <2>2, <2>3, TurnAsked
<1>14. ConfigWritesAlone' /\ Pending'
  BY <1>1, <1>3 DEF ConfigWritesAlone, Pending
<1> QED
  BY <1>10, <1>11, <1>13, <1>14 DEF Dialogue

\* An answer about the resource pack.
LEMMA DialoguePackAnswer ==
    ASSUME TypeOK, Dialogue, NEW a \in {"accepted", "loaded", "declined"},
           ReadPackAnswer(a)
    PROVE  Dialogue'
<1> USE DEF TypeOK
<1>1. /\ reader = "config" /\ toGateway # << >> /\ toGateway' = Tail(toGateway)
      /\ Head(toGateway).kind = a
      /\ UNCHANGED <<phase, reader, client, pendingConfig>>
  BY DEF ReadPackAnswer, NextPacket, clientVars, gateVars
<1>2. CASE UNCHANGED <<toClient, sent>>
  BY <1>1, <1>2, DialogueReads
<1>3. CASE ~UNCHANGED <<toClient, sent>>
  <2>1. /\ a # "accepted"
        /\ \/ toClient' = Append(toClient, Plain("cfgDisconnect")) /\ sent' = sent
           \/ toClient' = Append(toClient, Plain("finish")) /\ sent' = TRUE
    BY <1>3 DEF ReadPackAnswer, Write
  <2>2. a \in Answers /\ a \in {"knownReply", "loaded", "declined"}
    BY <2>1 DEF Answers
  <2>3. ~sent /\ phase = "configuring"
    BY <1>1, <2>2, AnswerInTurn DEF InTurn
  <2>4. PICK k \in {"cfgDisconnect", "finish"} :
            toClient' = Append(toClient, Plain(k)) /\ (sent' <=> k = "finish")
    BY <2>1, <2>3
  <2> DEFINE p == Plain(k)
  <2>5. p \in Packets(ClientboundKinds) /\ p.kind = k /\ toClient' = Append(toClient, p)
    BY <2>4, PlainOut
  <2> HIDE DEF p
  <2>6. /\ ClientTo = "config" /\ ReaderAt = "reads config" /\ ReaderAt' = ReaderAt
        /\ ClientTo' = IF k = "finish" THEN "joining" ELSE "config"
    BY <1>1, <2>3, <2>4 DEF ClientTo, ReaderAt
  <2>7. /\ k \in ReadableIn("config") /\ ClientTo' = After("config", k)
        /\ After("reads config", a) = "reads config"
    BY <2>6 DEF ReadableIn, ReadableBy, ConfigKinds, After
  <2>8. ClientPath'
    BY <1>1, <2>5, <2>6, <2>7, ClientWrite DEF Dialogue
  <2>9. ReaderPath'
    BY <1>1, <2>6, <2>7, ReaderRest DEF Dialogue
  <2>10. InTurn("finish")' \/ k # "finish"
    BY <1>1, <2>3, <2>4 DEF InTurn
  <2>11. OneTurn'
    <3>1. /\ Once(toGateway', Answers) /\ Kinds(toGateway') \cap Answers = {}
          /\ client # "gone" => Kinds(toClient) \cap Asks = {}
      BY <1>1, <2>2, AnswerRead DEF Dialogue
    <3>2. client # "gone" =>
              Once(toClient', Asks) /\ Kinds(toClient') \cap Asks \subseteq {k}
      BY <2>5, <3>1, AskWritten DEF Dialogue, OneTurn
    <3>3. CASE k = "finish"
      BY <1>1, <2>10, <3>1, <3>2, <3>3, TurnAsked DEF Asks
    <3>4. CASE k # "finish"
      <4>1. client # "gone" => Kinds(toClient') \cap Asks = {}
        BY <3>2, <3>4 DEF Asks
      <4> QED
        BY <1>1, <3>1, <3>2, <4>1, TurnOver
    <3> QED
      BY <3>3, <3>4
  <2>12. ConfigWritesAlone' /\ Pending'
    BY <1>1, <2>3 DEF ConfigWritesAlone, Pending
  <2> QED
    BY <2>8, <2>9, <2>11, <2>12 DEF Dialogue
<1> QED
  BY <1>2, <1>3

\* finish_configuration is answered: it had been sent, and was the last ask.
LEMMA DialogueFinished ==
    ASSUME TypeOK, Dialogue, ReadFinished
    PROVE  Dialogue'
<1> USE DEF TypeOK
<1>1. /\ reader = "config" /\ toGateway # << >> /\ toGateway' = Tail(toGateway)
      /\ Head(toGateway).kind = "finished"
      /\ UNCHANGED <<client, pendingConfig, sent, toClient>>
  BY DEF ReadFinished, NextPacket, clientVars
<1>2. sent /\ phase = "configuring"
  BY <1>1, AnswerInTurn DEF InTurn, Answers
<1>3. phase' = "rejoining" /\ reader' = "report"
  BY <1>2 DEF ReadFinished, Configured
<1>4. /\ ClientTo = "joining" /\ ClientTo' = "joining"
      /\ ReaderAt = "reads config" /\ ReaderAt' = "reads play"
      /\ After("reads config", "finished") = "reads play"
  BY <1>1, <1>2, <1>3 DEF ClientTo, ReaderAt, After
<1>5. ClientPath'
  BY <1>1, <1>4, ClientKept DEF Dialogue
<1>6. ReaderPath'
  BY <1>1, <1>4, ReaderRest DEF Dialogue
<1>7. OneTurn'
  <2>1. /\ Once(toGateway', Answers) /\ Kinds(toGateway') \cap Answers = {}
        /\ client # "gone" => Kinds(toClient) \cap Asks = {}
    BY <1>1, AnswerRead DEF Dialogue, Answers
  <2>2. client # "gone" => Once(toClient', Asks) /\ Kinds(toClient') \cap Asks = {}
    BY <1>1, <2>1 DEF Dialogue, OneTurn
  <2> QED
    BY <1>1, <2>1, <2>2, TurnOver
<1>8. ConfigWritesAlone' /\ Pending'
  BY <1>3 DEF ConfigWritesAlone, Pending
<1> QED
  BY <1>5, <1>6, <1>7, <1>8 DEF Dialogue

\* The client reader's other steps.
LEMMA DialogueOtherReads ==
    ASSUME TypeOK, Dialogue,
           ReadMove \/ ReadKeepAlive \/ ReportConfigured \/ ReadEOF
    PROVE  Dialogue'
<1> USE DEF TypeOK
<1>1. CASE ReadMove \/ ReadKeepAlive
  <2>1. /\ toGateway # << >> /\ toGateway' = Tail(toGateway)
        /\ Head(toGateway).kind \notin {"ack", "finished"}
        /\ UNCHANGED <<phase, reader, sent, toClient, client, pendingConfig>>
    BY <1>1 DEF ReadMove, ReadKeepAlive, NextPacket, gateVars, readerVars, clientVars
  <2> QED
    BY <2>1, DialogueReads
<1>2. CASE ReportConfigured
  <2>1. /\ reader = "report" /\ reader' = "play"
        /\ UNCHANGED <<phase, sent, toClient, toGateway, client, pendingConfig>>
    BY <1>2 DEF ReportConfigured, gateVars, clientVars
  <2>2. ClientTo' = ClientTo /\ ReaderAt' = ReaderAt /\ ReaderTo' = ReaderTo
    BY <2>1 DEF ClientTo, ReaderAt, ReaderTo
  <2>3. ClientPath'
    BY <2>1, <2>2, ClientKept DEF Dialogue
  <2>4. ReaderPath'
    BY <2>1, <2>2, ReaderKept DEF Dialogue
  <2>5. OneTurn'
    <3>1. \A k : InTurn(k) => InTurn(k)'
      BY <2>1 DEF InTurn
    <3> QED
      BY <2>1, <3>1 DEF Dialogue, OneTurn
  <2>6. ConfigWritesAlone' /\ Pending'
    BY <2>1 DEF Dialogue, ConfigWritesAlone, Pending
  <2> QED
    BY <2>3, <2>4, <2>5, <2>6 DEF Dialogue
<1>3. CASE ReadEOF
  <2>1. UNCHANGED <<phase, reader, sent, toClient, toGateway, client, pendingConfig>>
    BY <1>3 DEF ReadEOF, gateVars, readerVars, clientVars
  <2> QED
    BY <2>1, DialogueKept
<1> QED
  BY <1>1, <1>2, <1>3

\* The packets of the client, typed.
LEMMA AnswerTyped ==
    ASSUME NEW k \in ServerboundKinds, NEW n \in Nat
    PROVE  Packet(k, NoConfig, n) \in Packets(ServerboundKinds)
           /\ Packet(k, NoConfig, n).kind = k
<1>1. k \notin ComposedKinds
  BY DEF ServerboundKinds, ServerPlayKinds, ServerConfigKinds, ComposedKinds
<1> QED
  BY <1>1, PlainTyped, PlainKind

\* What the client answers to an ask, at last.
AnswerTo(k) == CASE k = "start"  -> {"ack"}
                 [] k = "known"  -> {"knownReply"}
                 [] k = "push"   -> {"loaded", "declined"}
                 [] k = "finish" -> {"finished"}

\* The client reads an ask, whatever it sends before the answer.
LEMMA TurnAnswered ==
    ASSUME TypeOK, OneTurn, client # "gone", toClient # << >>,
           NEW k \in Asks, Head(toClient).kind = k, toClient' = Tail(toClient),
           UNCHANGED <<phase, reader, sent>>,
           NEW a \in AnswerTo(k),
           Kinds(toGateway') \cap Answers \subseteq Kinds(toGateway) \cup {a},
           Once(toGateway, Answers) /\ Kinds(toGateway) \cap Answers = {}
               => Once(toGateway', Answers)
    PROVE  OneTurn'
<1> USE DEF TypeOK
<1>1. /\ InTurn(k) /\ Once(Tail(toClient), Asks)
      /\ Kinds(Tail(toClient)) \cap Asks = {}
      /\ Kinds(toGateway) \cap Answers = {}
  BY AskRead
<1>2. Once(toGateway', Answers) /\ Kinds(toGateway') \cap Answers \subseteq {a}
  BY <1>1 DEF OneTurn
<1>3. InTurn(a)'
  BY <1>1 DEF InTurn, AnswerTo, Asks
<1>4. \A j \in Answers : j \in Kinds(toGateway') => InTurn(j)'
  <2> SUFFICES ASSUME NEW j \in Answers, j \in Kinds(toGateway') PROVE InTurn(j)'
    OBVIOUS
  <2>1. j = a
    BY <1>2
  <2> QED
    BY <2>1, <1>3
<1>5. /\ Once(toClient', Asks)
      /\ \A j \in Asks : j \notin Kinds(toClient')
  BY <1>1
<1> QED
  BY <1>2, <1>4, <1>5 DEF OneTurn

\* What every packet the client reads leaves alone.
LEMMA ClientReadFrame ==
    ASSUME TypeOK, Dialogue, ClientRead
    PROVE  /\ client # "gone" /\ toClient # << >> /\ toClient' = Tail(toClient)
           /\ UNCHANGED <<phase, reader, sent, pendingConfig>>
           /\ ClientTo' = ClientTo /\ ReaderAt' = ReaderAt
           /\ ConfigWritesAlone' /\ Pending'
           /\ client' = After(client, Head(toClient).kind) \/ client' = "gone"
           /\ ClientPath'
<1> USE DEF TypeOK
<1>1. \E s, k : ClientReads(s, k) /\ s # "gone"
  BY DEF ClientRead, ClientReadsPlay, ClientReadsKeepAlive, ClientReadsTags,
     ClientReadsStart, ClientReadsKnownPacks, ClientReadsRegistries,
     ClientReadsPush, ClientReadsFinish, ClientReadsLogin, ClientReadsDisconnect
<1>2. /\ client # "gone" /\ toClient # << >> /\ toClient' = Tail(toClient)
      /\ UNCHANGED <<phase, reader, sent, pendingConfig>>
  BY <1>1 DEF ClientReads, gateVars, readerVars
<1>3. ClientTo' = ClientTo /\ ReaderAt' = ReaderAt
  BY <1>2 DEF ClientTo, ReaderAt
<1>4. client' = After(client, Head(toClient).kind) \/ client' = "gone"
  BY DEF ClientRead, ClientReads, ClientReadsPlay, ClientReadsKeepAlive,
     ClientReadsTags, ClientReadsStart, ClientReadsKnownPacks,
     ClientReadsRegistries, ClientReadsPush, ClientReadsFinish,
     ClientReadsLogin, ClientReadsDisconnect, clientVars, After
<1>5. ClientPath'
  BY <1>2, <1>3, <1>4, ClientRest DEF Dialogue
<1>6. ConfigWritesAlone' /\ Pending'
  BY <1>2 DEF Dialogue, ConfigWritesAlone, Pending
<1> QED
  BY <1>2, <1>3, <1>4, <1>5, <1>6

\* Packets that ask nothing.
LEMMA DialogueUnasked ==
    ASSUME TypeOK, Dialogue,
           \/ ClientReadsPlay \/ ClientReadsTags \/ ClientReadsRegistries
           \/ ClientReadsLogin \/ ClientReadsDisconnect \/ ClientReadsKeepAlive
    PROVE  Dialogue'
<1> USE DEF TypeOK
<1>1. ClientRead
  BY DEF ClientRead
<1>2. /\ client # "gone" /\ toClient # << >> /\ toClient' = Tail(toClient)
      /\ UNCHANGED <<phase, reader, sent, pendingConfig>>
      /\ ReaderAt' = ReaderAt
      /\ ConfigWritesAlone' /\ Pending' /\ ClientPath'
  BY <1>1, ClientReadFrame
<1>3. Head(toClient).kind \notin Asks
  BY DEF ClientReadsPlay, ClientReadsTags, ClientReadsRegistries, ClientReadsLogin,
     ClientReadsDisconnect, ClientReadsKeepAlive, ClientReads, Asks
<1>4. /\ Kinds(toClient') \subseteq Kinds(toClient)
      /\ Once(toClient, Asks) => Once(toClient', Asks)
  BY <1>2, KindsTail, OnceTail DEF ToClientOK
<1>5. client' = "gone" \/ ReaderTo' = ReaderTo
  BY DEF ClientReadsPlay, ClientReadsTags, ClientReadsRegistries, ClientReadsLogin,
     ClientReadsDisconnect, ClientReadsKeepAlive, ClientReads, ReaderTo, clientVars
<1>6. CASE ClientReadsKeepAlive
  <2> DEFINE p == Packet("kaReply", NoConfig, Head(toClient).n)
  <2>1. client = "play" /\ client' = client /\ toGateway' = Append(toGateway, p)
    BY <1>6 DEF ClientReadsKeepAlive, ClientReads, Answer, clientVars
  <2>2. p \in Packets(ServerboundKinds) /\ p.kind = "kaReply"
    BY <1>2, HeadTyped, AnswerTyped DEF ServerboundKinds, ServerPlayKinds, ToClientOK
  <2> HIDE DEF p
  <2>3. /\ ReaderTo = "reads play" /\ ReaderTo' = "reads play"
        /\ "kaReply" \in ReadableIn("reads play")
        /\ After("reads play", "kaReply") = "reads play" /\ "kaReply" \notin Answers
    BY <2>1 DEF ReaderTo, ReadableIn, After, ServerPlayKinds, Answers
  <2>4. ReaderPath'
    BY <1>2, <2>1, <2>2, <2>3, ReaderWrite DEF Dialogue
  <2>5. /\ Kinds(toGateway') \cap Answers \subseteq Kinds(toGateway)
        /\ Once(toGateway, Answers) => Once(toGateway', Answers)
    BY <2>1, <2>2, <2>3, AnswerWritten
  <2>6. OneTurn'
    BY <1>2, <1>4, <2>1, <2>5, TurnKept DEF Dialogue
  <2> QED
    BY <1>2, <2>4, <2>6 DEF Dialogue
<1>7. CASE ~ClientReadsKeepAlive
  <2>1. toGateway' = toGateway
    BY <1>7 DEF ClientReadsPlay, ClientReadsTags, ClientReadsRegistries,
       ClientReadsLogin, ClientReadsDisconnect
  <2>2. ReaderPath'
    BY <1>2, <1>5, <2>1, ReaderKept DEF Dialogue
  <2>3. OneTurn'
    <3>1. /\ Once(toGateway, Answers) => Once(toGateway', Answers)
          /\ Kinds(toGateway') \cap Answers \subseteq Kinds(toGateway)
          /\ Kinds(toClient') \cap Asks \subseteq Kinds(toClient)
          /\ client' # "gone" => client # "gone"
          /\ UNCHANGED <<phase, reader, sent>>
      BY <1>2, <1>4, <2>1
    <3> QED
      BY <1>4, <3>1, TurnKept DEF Dialogue
  <2> QED
    BY <1>2, <2>2, <2>3 DEF Dialogue
<1> QED
  BY <1>6, <1>7

\* An ask that takes one answer.
LEMMA DialogueAsked ==
    ASSUME TypeOK, Dialogue,
           ClientReadsStart \/ ClientReadsKnownPacks \/ ClientReadsFinish
    PROVE  Dialogue'
<1> USE DEF TypeOK
<1>1. ClientRead
  BY DEF ClientRead
<1>2. /\ client # "gone" /\ toClient # << >> /\ toClient' = Tail(toClient)
      /\ UNCHANGED <<phase, reader, sent, pendingConfig>>
      /\ ReaderAt' = ReaderAt
      /\ ConfigWritesAlone' /\ Pending' /\ ClientPath'
  BY <1>1, ClientReadFrame
<1>3. PICK k \in {"start", "known", "finish"}, a \in {"ack", "knownReply", "finished"} :
          /\ Head(toClient).kind = k /\ a \in AnswerTo(k)
          /\ toGateway' = Append(toGateway, Packet(a, NoConfig, 0))
          /\ client = IF k = "start" THEN "play" ELSE "config"
          /\ client' = IF k = "finish" THEN "joining" ELSE "config"
  <2>1. CASE ClientReadsStart
    BY <2>1 DEF ClientReadsStart, ClientReads, Answer, AnswerTo
  <2>2. CASE ClientReadsKnownPacks
    BY <2>2 DEF ClientReadsKnownPacks, ClientReads, Answer, AnswerTo, clientVars
  <2>3. CASE ClientReadsFinish
    BY <2>3 DEF ClientReadsFinish, ClientReads, Answer, AnswerTo
  <2> QED
    BY <2>1, <2>2, <2>3
<1> DEFINE p == Packet(a, NoConfig, 0)
<1>4. p \in Packets(ServerboundKinds) /\ p.kind = a /\ toGateway' = Append(toGateway, p)
  BY <1>3, AnswerTyped DEF ServerboundKinds, ServerPlayKinds, ServerConfigKinds
<1> HIDE DEF p
<1>5. /\ ReaderTo = IF k = "start" THEN "reads play" ELSE "reads config"
      /\ ReaderTo' = IF k = "finish" THEN "reads play" ELSE "reads config"
  BY <1>3 DEF ReaderTo
<1>6. a = CASE k = "start" -> "ack" [] k = "known" -> "knownReply"
            [] k = "finish" -> "finished"
  BY <1>3 DEF AnswerTo
<1>7. a \in ReadableIn(ReaderTo) /\ ReaderTo' = After(ReaderTo, a)
  BY <1>5, <1>6 DEF ReadableIn, After, ServerPlayKinds, ServerConfigKinds
<1>8. ReaderPath'
  BY <1>2, <1>4, <1>7, ReaderWrite DEF Dialogue
<1>9. OneTurn'
  <2>1. /\ Kinds(toGateway') = Kinds(toGateway) \cup {a}
        /\ Once(toGateway, Answers) /\ Kinds(toGateway) \cap Answers = {}
               => Once(toGateway', Answers)
    BY <1>4, AnswerWritten
  <2>2. k \in Asks
    BY DEF Asks
  <2> QED
    BY <1>2, <1>3, <2>1, <2>2, TurnAnswered DEF Dialogue
<1> QED
  BY <1>2, <1>8, <1>9 DEF Dialogue

\* The resource pack: declined, or accepted and then loaded.
LEMMA DialoguePush ==
    ASSUME TypeOK, Dialogue, ClientReadsPush
    PROVE  Dialogue'
<1> USE DEF TypeOK
<1>1. ClientRead
  BY DEF ClientRead
<1>2. /\ client # "gone" /\ toClient # << >> /\ toClient' = Tail(toClient)
      /\ UNCHANGED <<phase, reader, sent, pendingConfig>>
      /\ ReaderAt' = ReaderAt
      /\ ConfigWritesAlone' /\ Pending' /\ ClientPath'
  BY <1>1, ClientReadFrame
<1>3. /\ client = "config" /\ client' = "config" /\ Head(toClient).kind = "push"
      /\ \/ toGateway' = Append(toGateway, Plain("declined"))
         \/ toGateway' = Append(Append(toGateway, Plain("accepted")), Plain("loaded"))
  BY DEF ClientReadsPush, ClientReads, Answer, Plain, clientVars
<1>4. \A k \in {"declined", "accepted", "loaded"} :
          Plain(k) \in Packets(ServerboundKinds) /\ Plain(k).kind = k
  BY AnswerTyped DEF Plain, ServerboundKinds, ServerConfigKinds
<1>5. /\ ReaderTo = "reads config" /\ ReaderTo' = "reads config"
      /\ \A k \in {"declined", "accepted", "loaded"} :
            k \in ReadableIn("reads config") /\ After("reads config", k) = "reads config"
  BY <1>3 DEF ReaderTo, ReadableIn, After, ServerConfigKinds
<1>6. "push" \in Asks /\ {"loaded", "declined"} = AnswerTo("push")
      /\ "accepted" \notin Answers
  BY DEF Asks, AnswerTo, Answers
<1>7. CASE toGateway' = Append(toGateway, Plain("declined"))
  <2> DEFINE p == Plain("declined")
  <2>1. p \in Packets(ServerboundKinds) /\ p.kind = "declined"
    BY <1>4
  <2> HIDE DEF p
  <2>2. toGateway' = Append(toGateway, p)
    BY <1>7 DEF p
  <2>3. ReaderPath'
    BY <1>2, <1>5, <2>1, <2>2, ReaderWrite DEF Dialogue
  <2>4. /\ Kinds(toGateway') = Kinds(toGateway) \cup {"declined"}
        /\ Once(toGateway, Answers) /\ Kinds(toGateway) \cap Answers = {}
               => Once(toGateway', Answers)
    BY <2>1, <2>2, AnswerWritten
  <2>5. OneTurn'
    BY <1>2, <1>3, <1>6, <2>4, TurnAnswered DEF Dialogue
  <2> QED
    BY <1>2, <2>3, <2>5 DEF Dialogue
<1>8. CASE toGateway' = Append(Append(toGateway, Plain("accepted")), Plain("loaded"))
  <2> DEFINE p == Plain("accepted")
             r == Plain("loaded")
             q == Append(toGateway, p)
  <2>1. /\ p \in Packets(ServerboundKinds) /\ p.kind = "accepted"
        /\ r \in Packets(ServerboundKinds) /\ r.kind = "loaded"
    BY <1>4
  <2>2. toGateway' = Append(q, r)
    BY <1>8
  <2> HIDE DEF p, r
  <2>3. q \in Seq(Packets(ServerboundKinds))
    BY <2>1, AppendTyped DEF ToGatewayOK
  <2>4. /\ Kinds(q) = Kinds(toGateway) \cup {"accepted"}
        /\ Once(toGateway, Answers) => Once(q, Answers)
    BY <1>6, <2>1, AnswerWritten
  <2>5. Path(toGateway, ReaderAt, ReaderTo)
    BY <1>2 DEF Dialogue, ReaderPath
  <2>6. Path(q, ReaderAt, "reads config")
    BY <1>5, <2>1, <2>5, PlacesTyped, PathAppend DEF ToGatewayOK
  <2> HIDE DEF q
  <2>7. Path(toGateway', ReaderAt, "reads config")
    BY <1>5, <2>1, <2>2, <2>3, <2>6, PlacesTyped, PathAppend
  <2>8. ReaderPath'
    BY <1>2, <1>5, <2>7 DEF ReaderPath
  <2>9. /\ Kinds(toGateway') = Kinds(q) \cup {"loaded"}
        /\ Once(q, Answers) /\ Kinds(q) \cap Answers = {} => Once(toGateway', Answers)
    BY <2>1, <2>2, <2>3, KindsAppend, OnceAppend
  <2>10. OneTurn'
    <3>1. /\ Kinds(toGateway') \cap Answers \subseteq Kinds(toGateway) \cup {"loaded"}
          /\ Once(toGateway, Answers) /\ Kinds(toGateway) \cap Answers = {}
                 => Once(toGateway', Answers)
      BY <1>6, <2>4, <2>9
    <3> QED
      BY <1>2, <1>3, <1>6, <3>1, TurnAnswered DEF Dialogue
  <2> QED
    BY <1>2, <2>8, <2>10 DEF Dialogue
<1> QED
  BY <1>3, <1>7, <1>8

\* The client moves, or leaves.
LEMMA DialogueSpontaneous ==
    ASSUME TypeOK, Dialogue, ClientSends \/ ClientLeaves
    PROVE  Dialogue'
<1> USE DEF TypeOK
<1>1. CASE ClientLeaves
  <2>1. /\ UNCHANGED <<phase, reader, sent, toClient, toGateway, pendingConfig>>
        /\ client' = "gone"
    BY <1>1 DEF ClientLeaves, gateVars, readerVars
  <2> QED
    BY <2>1, DialogueKept
<1>2. CASE ClientSends
  <2> DEFINE p == Packet("move", NoConfig, 0)
  <2>1. /\ client = "play" /\ toGateway' = Append(toGateway, p)
        /\ UNCHANGED <<phase, reader, sent, toClient, client, pendingConfig>>
    BY <1>2 DEF ClientSends, Answer, gateVars, readerVars, clientVars
  <2>2. p \in Packets(ServerboundKinds) /\ p.kind = "move"
    BY AnswerTyped DEF ServerboundKinds, ServerPlayKinds
  <2> HIDE DEF p
  <2>3. /\ ReaderTo = "reads play" /\ ReaderTo' = "reads play"
        /\ "move" \in ReadableIn("reads play")
        /\ After("reads play", "move") = "reads play" /\ "move" \notin Answers
        /\ ReaderAt' = ReaderAt /\ ClientTo' = ClientTo
    BY <2>1 DEF ReaderTo, ReadableIn, After, ServerPlayKinds, Answers, ReaderAt,
       ClientTo
  <2>4. ReaderPath'
    BY <2>1, <2>2, <2>3, ReaderWrite DEF Dialogue
  <2>5. ClientPath'
    BY <2>1, <2>3, ClientKept DEF Dialogue
  <2>6. /\ Kinds(toGateway') \cap Answers \subseteq Kinds(toGateway)
        /\ Once(toGateway, Answers) => Once(toGateway', Answers)
    BY <2>1, <2>2, <2>3, AnswerWritten
  <2>7. OneTurn'
    <3>1. /\ Once(toClient, Asks) => Once(toClient', Asks)
          /\ Kinds(toClient') \cap Asks \subseteq Kinds(toClient)
          /\ client' # "gone" => client # "gone"
          /\ UNCHANGED <<phase, reader, sent>>
      BY <2>1
    <3> QED
      BY <3>1, <2>6, TurnKept DEF Dialogue
  <2>8. ConfigWritesAlone' /\ Pending'
    BY <2>1 DEF Dialogue, ConfigWritesAlone, Pending
  <2> QED
    BY <2>4, <2>5, <2>7, <2>8 DEF Dialogue
<1> QED
  BY <1>1, <1>2

\* Nothing is asked of a client that has just joined.
LEMMA DialogueInit == Init => Dialogue
<1> SUFFICES ASSUME Init PROVE Dialogue
  OBVIOUS
<1>1. /\ phase = "play" /\ reader = "play" /\ client = "play"
      /\ toClient = << >> /\ toGateway = << >>
  BY DEF Init
<1>2. ClientTo = "play" /\ ReaderAt = "reads play" /\ ReaderTo = "reads play"
  BY <1>1 DEF ClientTo, ReaderAt, ReaderTo
<1>3. Path(<< >>, "play", "play") /\ Path(<< >>, "reads play", "reads play")
  BY PathEmpty DEF States
<1>4. ClientPath /\ ReaderPath
  BY <1>1, <1>2, <1>3 DEF ClientPath, ReaderPath
<1>5. DOMAIN << >> = {}
  OBVIOUS
<1>6. Kinds(<< >>) = {} /\ \A K : Once(<< >>, K)
  BY <1>5 DEF Kinds, Range, Once
<1>7. OneTurn
  BY <1>1, <1>6 DEF OneTurn
<1>8. ConfigWritesAlone /\ Pending
  BY <1>1 DEF ConfigWritesAlone, Pending
<1> QED
  BY <1>4, <1>7, <1>8 DEF Dialogue

\* Every step of every goroutine, and of the peers, keeps the dialogue.
LEMMA DialogueStep ==
    ASSUME TypeOK, Dialogue, [Next]_vars
    PROVE  Dialogue'
<1>1. CASE \/ UNCHANGED vars \/ Over \/ WorldEnv
           \/ Tick \/ ArmChallenge \/ DeadlineExpires
  <2>1. UNCHANGED <<phase, reader, sent, toClient, toGateway, client, pendingConfig>>
    BY <1>1 DEF vars, Over, Tick, ArmChallenge, DeadlineExpires, WorldEnv,
       WorldWrites, WorldSendsFrame, WorldHearsConfigured, WorldRejoins,
       WorldCloses, WorldSendsTags, WorldStartsConfiguration, gateVars,
       readerVars, clientVars
  <2> QED
    BY <2>1, DialogueKept
<1>2. CASE WorldReader
  BY <1>2, DialogueSends, DialogueStart, DialogueRejoin DEF WorldReader
<1>3. CASE ClientReader
  BY <1>3, DialogueOtherReads, DialogueAck, DialogueKnownPacks,
     DialoguePackAnswer, DialogueFinished DEF ClientReader
<1>4. CASE OtherSend \/ TimeOut \/ SendChallenge
  BY <1>4, DialogueSends
<1>5. CASE ClientEnv
  BY <1>5, DialogueUnasked, DialogueAsked, DialoguePush, DialogueSpontaneous
     DEF ClientEnv, ClientRead
<1> QED
  BY <1>1, <1>2, <1>3, <1>4, <1>5 DEF Next, KeepAlive

\* No step of any goroutine or peer takes a variable out of its type.
LEMMA TypeStep == TypeOK /\ [Next]_vars => TypeOK'
BY GateTypes, ReaderTypes, KeepAliveTypes, ToClientTypes, ToGatewayTypes,
   AttachTypes, PeerTypes DEF TypeOK

\* The dialogue is an invariant, whatever the world does.
LEMMA DialogueHolds == Spec => [](TypeOK /\ Dialogue)
<1>1. Init => TypeOK /\ Dialogue
  BY TypeInit, DialogueInit
<1>2. TypeOK /\ Dialogue /\ [Next]_vars => (TypeOK /\ Dialogue)'
  BY TypeStep, DialogueStep
<1> QED
  BY <1>1, <1>2, PTL DEF Spec

\* The gate (send, startConfiguration, rejoin): for every peer and every
\* bound, the client reads play packets in play, and only there.
THEOREM GateHolds == Spec => []PlayGate
<1>1. TypeOK /\ Dialogue => PlayGate
  <2> SUFFICES ASSUME TypeOK, Dialogue, client # "gone", toClient # << >>
               PROVE  Head(toClient).kind \in PlayKinds <=> client = "play"
    BY DEF PlayGate
  <2>1. Head(toClient).kind \in ReadableBy(client)
    BY ClientTakes DEF Dialogue, TypeOK
  <2> QED
    BY <2>1 DEF ReadableBy, PlayKinds, ConfigKinds
<1> QED
  BY <1>1, DialogueHolds, PTL

\* Neither end reads a packet of a state it is not in: not the client inside
\* configure(), and not the client reader, whose two loops share packet ids.
THEOREM BothEndsFollow == Spec => []BothFollow
<1>1. TypeOK /\ Dialogue => BothFollow
  <2> SUFFICES ASSUME TypeOK, Dialogue PROVE BothFollow
    OBVIOUS
  <2>1. ClientFollows
    BY ClientTakes DEF ClientFollows, Dialogue, TypeOK
  <2>2. ReaderFollows
    <3> SUFFICES ASSUME toGateway # << >>
                 PROVE  Head(toGateway).kind \in
                            IF reader = "config" THEN ServerConfigKinds
                            ELSE ServerPlayKinds
      BY DEF ReaderFollows
    <3>1. Head(toGateway).kind \in ReadableIn(ReaderAt)
      BY ReaderTakes DEF Dialogue, TypeOK
    <3> QED
      BY <3>1 DEF ReadableIn, ReaderAt
  <2> QED
    BY <2>1, <2>2 DEF BothFollow
<1> QED
  BY <1>1, DialogueHolds, PTL

----------------------------------------------------------------------------
(* The dialogue of the gateway and a world that keeps its contract.        *)

\* Where the world reader is, and where the world has sent it.
Owes == phase = "configuring" \/ reader = "report" \/ reports > 0
\* Where the frames that are on their way find the gateway.
WorldAt == IF phase = "play" THEN "level"
           ELSE IF Owes THEN "waiting" ELSE "placing"
\* Where the world has left it.
WorldTo == IF world = "inLevel" THEN "level" ELSE world
\* Every frame will find the gateway as the contract says (fromWorld).
WorldPath == Path(fromWorld, WorldAt, WorldTo)

\* The world hears of one reconfiguration once, and only when it is over.
Told == /\ reader = "report" \/ reports > 0 => phase = "rejoining"
        /\ reader = "report" => reports = 0
        /\ reports <= 1
        /\ world = "placing" => phase = "rejoining" /\ fromWorld = << >>

\* The dialogue of the two.
WorldTalk == WorldPath /\ Told

\* Both are states of the world reader.
LEMMA WorldPlaces ==
    /\ WorldAt \in States
    /\ PeerTypeOK => WorldTo \in States
    /\ {"level", "waiting", "placing"} \subseteq States
BY DEF WorldAt, WorldTo, States, PeerTypeOK

\* The frame the world reader takes is one it expects, and what that says.
LEMMA FrameInTurn ==
    ASSUME TypeOK, WorldPath, fromWorld # << >>
    PROVE  /\ Head(fromWorld).kind \in {"play", "tags", "start frame"} => phase = "play"
           /\ Head(fromWorld).kind = "rejoin" => phase = "rejoining" /\ ~Owes
           /\ Path(Tail(fromWorld), After(WorldAt, Head(fromWorld).kind), WorldTo)
<1> USE DEF TypeOK
<1>1. /\ Head(fromWorld).kind \in ReadableIn(WorldAt)
      /\ Path(Tail(fromWorld), After(WorldAt, Head(fromWorld).kind), WorldTo)
  BY WorldPlaces, PathTail DEF AttachOK, WorldPath
<1>2. WorldAt \in {"level", "waiting", "placing"}
  BY DEF WorldAt
<1>3. /\ Head(fromWorld).kind \in {"play", "tags", "start frame"} => WorldAt = "level"
      /\ Head(fromWorld).kind = "rejoin" => WorldAt = "placing"
  BY <1>1, <1>2 DEF ReadableIn
<1>4. WorldAt = "level" => phase = "play"
  BY DEF WorldAt
<1>5. WorldAt = "placing" => phase = "rejoining" /\ ~Owes
  BY DEF WorldAt, GateTypeOK, Owes
<1> QED
  BY <1>1, <1>3, <1>4, <1>5

\* Steps that leave the world's dialogue alone.
LEMMA WorldTalkKept ==
    ASSUME WorldTalk, UNCHANGED <<phase, reader, reports, fromWorld, world>>
    PROVE  WorldTalk'
<1>1. WorldAt' = WorldAt /\ WorldTo' = WorldTo
  BY DEF WorldAt, WorldTo, Owes
<1>2. WorldPath'
  BY <1>1 DEF WorldTalk, WorldPath
<1>3. Told'
  BY DEF WorldTalk, Told
<1> QED
  BY <1>2, <1>3 DEF WorldTalk

\* The world reader takes a frame.
LEMMA WorldTalkReader ==
    ASSUME TypeOK, Dialogue, WorldTalk, WorldReader
    PROVE  WorldTalk'
<1> USE DEF TypeOK
<1>1. /\ fromWorld # << >> /\ fromWorld' = Tail(fromWorld)
      /\ UNCHANGED <<reader, reports, world>>
  BY DEF WorldReader, HandlePlayFrame, HandleUpdateTags, HandleStartConfiguration,
     HandleRejoin, NextFrame, readerVars, worldVars
<1>2. WorldTo' = WorldTo
  BY <1>1 DEF WorldTo
<1>3. world # "placing"
  BY <1>1 DEF WorldTalk, Told
<1>4. Path(Tail(fromWorld), After(WorldAt, Head(fromWorld).kind), WorldTo)
  BY <1>1, FrameInTurn DEF WorldTalk
<1>5. CASE HandlePlayFrame \/ HandleUpdateTags
  <2>1. Head(fromWorld).kind \in {"play", "tags"} /\ phase' = phase
    BY <1>5 DEF HandlePlayFrame, HandleUpdateTags, NextFrame, gateVars
  <2>2. After(WorldAt, Head(fromWorld).kind) = WorldAt /\ WorldAt' = WorldAt
    BY <1>1, <2>1 DEF After, WorldAt, Owes
  <2>3. WorldPath'
    BY <1>1, <1>2, <1>4, <2>2 DEF WorldPath
  <2>4. Told'
    BY <1>1, <1>3, <2>1 DEF WorldTalk, Told
  <2> QED
    BY <2>3, <2>4 DEF WorldTalk
<1>6. CASE HandleStartConfiguration
  <2>1. Head(fromWorld).kind = "start frame" /\ phase = "play"
    BY <1>1, <1>6, FrameInTurn DEF HandleStartConfiguration, NextFrame, WorldTalk
  <2>2. phase' = "configuring"
    BY <1>6, <2>1 DEF HandleStartConfiguration, StartConfiguration
  <2>3. After(WorldAt, "start frame") = "waiting" /\ WorldAt' = "waiting"
    BY <2>2 DEF After, WorldAt, Owes
  <2>4. WorldPath'
    BY <1>1, <1>2, <1>4, <2>1, <2>3 DEF WorldPath
  <2>5. Told'
    BY <1>1, <1>3, <2>1, <2>2 DEF WorldTalk, Told
  <2> QED
    BY <2>4, <2>5 DEF WorldTalk
<1>7. CASE HandleRejoin
  <2>1. Head(fromWorld).kind = "rejoin" /\ phase = "rejoining" /\ ~Owes
    BY <1>1, <1>7, FrameInTurn DEF HandleRejoin, NextFrame, WorldTalk
  <2>2. phase' = "play"
    BY <1>7, <2>1 DEF HandleRejoin, Rejoin
  <2>3. After(WorldAt, "rejoin") = "level" /\ WorldAt' = "level"
    BY <2>2 DEF After, WorldAt
  <2>4. WorldPath'
    BY <1>1, <1>2, <1>4, <2>1, <2>3 DEF WorldPath
  <2>5. Told'
    BY <1>1, <1>3, <2>1, <2>2 DEF WorldTalk, Told, Owes
  <2> QED
    BY <2>4, <2>5 DEF WorldTalk
<1> QED
  BY <1>5, <1>6, <1>7 DEF WorldReader

\* The client reader's steps: a reconfiguration that ends is reported.
LEMMA WorldTalkClientReader ==
    ASSUME TypeOK, Dialogue, WorldTalk, ClientReader
    PROVE  WorldTalk'
<1> USE DEF TypeOK
<1>1. UNCHANGED <<fromWorld, world>>
  BY DEF ClientReader, ReadMove, ReadKeepAlive, ReadAck, ReadKnownPacks,
     ReadPackAnswer, ReadFinished, ReportConfigured, ReadEOF, worldVars
<1>2. WorldTo' = WorldTo
  BY <1>1 DEF WorldTo
<1>3. CASE \/ ReadMove \/ ReadKeepAlive \/ ReadKnownPacks \/ ReadEOF
           \/ \E k \in {"accepted", "loaded", "declined"} : ReadPackAnswer(k)
  <2>1. UNCHANGED <<phase, reader, reports>>
    BY <1>3 DEF ReadMove, ReadKeepAlive, ReadKnownPacks, ReadPackAnswer, ReadEOF,
       gateVars, readerVars
  <2> QED
    BY <1>1, <2>1, WorldTalkKept
<1>4. CASE ReadAck
  <2>1. /\ toGateway # << >> /\ Head(toGateway).kind = "ack"
        /\ UNCHANGED <<phase, reports>> /\ reader = "play"
    BY <1>4 DEF ReadAck, NextPacket
  <2>2. TakeConfig
    BY <2>1, AnswerInTurn DEF Answers
  <2>3. reader' = "config" /\ phase = "configuring"
    BY <1>4, <2>2 DEF ReadAck, TakeConfig
  <2>4. WorldAt' = WorldAt
    BY <2>1, <2>3 DEF WorldAt, Owes
  <2>5. WorldPath'
    BY <1>1, <1>2, <2>4 DEF WorldTalk, WorldPath
  <2>6. Told'
    BY <1>1, <2>1, <2>3 DEF WorldTalk, Told
  <2> QED
    BY <2>5, <2>6 DEF WorldTalk
<1>5. CASE ReadFinished
  <2>1. /\ reader = "config" /\ toGateway # << >> /\ Head(toGateway).kind = "finished"
        /\ reports' = reports
    BY <1>5 DEF ReadFinished, NextPacket
  <2>2. sent /\ phase = "configuring"
    BY <2>1, AnswerInTurn DEF InTurn, Answers
  <2>3. phase' = "rejoining" /\ reader' = "report"
    BY <1>5, <2>2 DEF ReadFinished, Configured
  <2>4. WorldAt' = WorldAt
    BY <2>2, <2>3 DEF WorldAt, Owes
  <2>5. WorldPath'
    BY <1>1, <1>2, <2>4 DEF WorldTalk, WorldPath
  <2>6. Told'
    BY <1>1, <2>1, <2>2, <2>3 DEF WorldTalk, Told, AttachOK
  <2> QED
    BY <2>5, <2>6 DEF WorldTalk
<1>6. CASE ReportConfigured
  <2>1. /\ reader = "report" /\ reader' = "play" /\ reports' = reports + 1
        /\ phase' = phase
    BY <1>6 DEF ReportConfigured, gateVars
  <2>2. phase = "rejoining" /\ reports = 0
    BY <2>1 DEF WorldTalk, Told
  <2>3. WorldAt' = WorldAt
    BY <2>1, <2>2 DEF WorldAt, Owes
  <2>4. WorldPath'
    BY <1>1, <1>2, <2>3 DEF WorldTalk, WorldPath
  <2>5. Told'
    BY <1>1, <2>1, <2>2 DEF WorldTalk, Told
  <2> QED
    BY <2>4, <2>5 DEF WorldTalk
<1> QED
  BY <1>3, <1>4, <1>5, <1>6 DEF ClientReader

\* What the world writes, its reader will take.
LEMMA WorldTalkWrite ==
    ASSUME TypeOK, WorldTalk, NEW p \in Packets(FrameKinds),
           fromWorld' = Append(fromWorld, p), UNCHANGED <<phase, reader, reports>>,
           p.kind \in ReadableIn(WorldTo), WorldTo' = After(WorldTo, p.kind),
           world' # "placing"
    PROVE  WorldTalk'
<1> USE DEF TypeOK
<1>1. WorldAt' = WorldAt
  BY DEF WorldAt, Owes
<1>2. WorldPath'
  BY <1>1, WorldPlaces, PathAppend DEF WorldTalk, WorldPath, AttachOK
<1>3. Told'
  BY DEF WorldTalk, Told
<1> QED
  BY <1>2, <1>3 DEF WorldTalk

\* The frames of the world, typed.
LEMMA FrameTyped ==
    /\ \A k \in {"play", "rejoin"} :
          /\ Packet(k, NoConfig, 0) \in Packets(FrameKinds)
          /\ Packet(k, NoConfig, 0).kind = k
    /\ \A k \in {"tags", "start frame"} : \A c \in Configs :
          Packet(k, c, 0) \in Packets(FrameKinds) /\ Packet(k, c, 0).kind = k
<1>1. \A k \in {"play", "rejoin"} :
          k \in FrameKinds /\ k \notin ComposedKinds
  BY DEF FrameKinds, ComposedKinds
<1>2. \A k \in {"tags", "start frame"} : k \in FrameKinds
  BY DEF FrameKinds
<1> QED
  BY <1>1, <1>2, PlainTyped, PlainKind, ComposedTyped, ComposedKind

\* The world's steps.
LEMMA WorldTalkWorld ==
    ASSUME Contract, TypeOK, Dialogue, WorldTalk, WorldEnv
    PROVE  WorldTalk'
<1> USE DEF TypeOK
<1>1. UNCHANGED <<phase, reader>>
  BY DEF WorldEnv, WorldWrites, WorldSendsFrame, WorldHearsConfigured,
     WorldRejoins, WorldCloses, WorldSendsTags, WorldStartsConfiguration,
     gateVars, readerVars
<1>2. CASE WorldCloses
  <2>1. UNCHANGED <<reports, fromWorld, world>>
    BY <1>2 DEF WorldCloses, worldVars
  <2> QED
    BY <1>1, <2>1, WorldTalkKept
<1>3. CASE WorldHearsConfigured
  <2>1. /\ reports > 0 /\ reports' = reports - 1 /\ fromWorld' = fromWorld
        /\ world' = IF world = "waiting" THEN "placing" ELSE world
    BY <1>3 DEF WorldHearsConfigured
  <2>2. phase = "rejoining" /\ reports = 1 /\ reader # "report"
    BY <2>1 DEF WorldTalk, Told, AttachOK
  <2>3. WorldAt = "waiting" /\ WorldAt' = "placing"
    BY <1>1, <2>1, <2>2 DEF WorldAt, Owes
  <2>4. fromWorld = << >>
    <3> SUFFICES ASSUME fromWorld # << >> PROVE FALSE
      OBVIOUS
    <3>1. Head(fromWorld).kind \in ReadableIn("waiting")
      BY <2>3, WorldPlaces, PathTail DEF WorldTalk, WorldPath, AttachOK
    <3> QED
      BY <3>1 DEF ReadableIn
  <2>5. WorldTo = "waiting"
    BY <2>3, <2>4, PathEmpty, WorldPlaces DEF WorldTalk, WorldPath
  <2>6. world = "waiting"
    BY <2>5 DEF WorldTo
  <2>7. world' = "placing" /\ WorldTo' = "placing"
    BY <2>1, <2>6 DEF WorldTo
  <2>8. WorldPath'
    BY <2>1, <2>3, <2>4, <2>7, PathEmpty, WorldPlaces DEF WorldPath
  <2>9. Told'
    BY <1>1, <2>1, <2>2, <2>4 DEF Told
  <2> QED
    BY <2>8, <2>9 DEF WorldTalk
<1>4. CASE WorldSendsFrame \/ \E t \in TagSets : WorldSendsTags(t)
  <2>1. world = "inLevel" /\ world' = world /\ reports' = reports
    BY <1>4 DEF WorldSendsFrame, WorldSendsTags
  <2>2. PICK p \in Packets(FrameKinds) :
            p.kind \in {"play", "tags"} /\ fromWorld' = Append(fromWorld, p)
    <3>1. CASE WorldSendsFrame
      BY <3>1, FrameTyped DEF WorldSendsFrame, WorldWrites
    <3>2. CASE \E t \in TagSets : WorldSendsTags(t)
      <4>1. requested' \in Configs
        BY <3>2, RetagTyped DEF WorldSendsTags, PeerTypeOK
      <4>2. fromWorld' = Append(fromWorld, Packet("tags", requested', 0))
        BY <3>2 DEF WorldSendsTags, WorldWrites
      <4> QED
        BY <4>1, <4>2, FrameTyped
    <3> QED
      BY <1>4, <3>1, <3>2
  <2>3. WorldTo = "level" /\ WorldTo' = "level"
    BY <2>1 DEF WorldTo
  <2>4. p.kind \in ReadableIn("level") /\ After("level", p.kind) = "level"
    BY <2>2 DEF ReadableIn, After
  <2> QED
    BY <1>1, <2>1, <2>2, <2>3, <2>4, WorldTalkWrite
<1>5. CASE \E c \in Configs : WorldStartsConfiguration(c)
  <2>1. PICK c \in Configs : WorldStartsConfiguration(c)
    BY <1>5
  <2> DEFINE p == Packet("start frame", c, 0)
  <2>2. /\ world = "inLevel" /\ world' = "waiting" /\ reports' = reports
        /\ fromWorld' = Append(fromWorld, p)
    BY <2>1 DEF WorldStartsConfiguration, WorldWrites
  <2>3. p \in Packets(FrameKinds) /\ p.kind = "start frame"
    BY FrameTyped
  <2> HIDE DEF p
  <2>4. WorldTo = "level" /\ WorldTo' = "waiting"
    BY <2>2 DEF WorldTo
  <2>5. "start frame" \in ReadableIn("level")
        /\ After("level", "start frame") = "waiting"
    BY DEF ReadableIn, After
  <2> QED
    BY <1>1, <2>2, <2>3, <2>4, <2>5, WorldTalkWrite
<1>6. CASE WorldRejoins
  <2> DEFINE p == Packet("rejoin", NoConfig, 0)
  <2>1. /\ world = "placing" /\ world' = "inLevel" /\ reports' = reports
        /\ fromWorld' = Append(fromWorld, p)
    BY <1>6 DEF WorldRejoins, WorldWrites
  <2>2. p \in Packets(FrameKinds) /\ p.kind = "rejoin"
    BY FrameTyped
  <2> HIDE DEF p
  <2>3. WorldTo = "placing" /\ WorldTo' = "level"
    BY <2>1 DEF WorldTo
  <2>4. "rejoin" \in ReadableIn("placing") /\ After("placing", "rejoin") = "level"
    BY DEF ReadableIn, After
  <2> QED
    BY <1>1, <2>1, <2>2, <2>3, <2>4, WorldTalkWrite
<1> QED
  BY <1>2, <1>3, <1>4, <1>5, <1>6 DEF WorldEnv

\* A player that has just joined is in the level, and no frame is on its way.
LEMMA WorldTalkInit == Init => WorldTalk
<1> SUFFICES ASSUME Init PROVE WorldTalk
  OBVIOUS
<1>1. /\ phase = "play" /\ reader = "play" /\ reports = 0 /\ world = "inLevel"
      /\ fromWorld = << >>
  BY DEF Init
<1>2. WorldAt = "level" /\ WorldTo = "level"
  BY <1>1 DEF WorldAt, WorldTo
<1>3. WorldPath
  BY <1>1, <1>2, PathEmpty, WorldPlaces DEF WorldPath
<1> QED
  BY <1>1, <1>3 DEF WorldTalk, Told

\* Every step keeps it, of a world that keeps its contract.
LEMMA WorldTalkStep ==
    ASSUME Contract, TypeOK, Dialogue, WorldTalk, [Next]_vars
    PROVE  WorldTalk'
<1>1. CASE WorldReader \/ ClientReader \/ WorldEnv
  BY <1>1, WorldTalkReader, WorldTalkClientReader, WorldTalkWorld
<1>2. CASE ~(WorldReader \/ ClientReader \/ WorldEnv)
  <2>1. UNCHANGED <<phase, reader, reports, fromWorld, world>>
    BY <1>2 DEF Next, vars, Over, KeepAlive, Tick, TimeOut, ArmChallenge,
       SendChallenge, OtherSend, DeadlineExpires, ClientEnv, ClientSends,
       ClientLeaves, ClientRead, ClientReads, ClientReadsPlay,
       ClientReadsKeepAlive, ClientReadsTags, ClientReadsStart,
       ClientReadsKnownPacks, ClientReadsRegistries, ClientReadsPush,
       ClientReadsFinish, ClientReadsLogin, ClientReadsDisconnect,
       gateVars, readerVars, worldVars
  <2> QED
    BY <2>1, WorldTalkKept
<1> QED
  BY <1>1, <1>2

----------------------------------------------------------------------------
(* What ends a session.                                                    *)

\* NoProtocolError: an acknowledgement, a finish or a MsgRejoin is read when
\* it is expected.
LEMMA SurviveStep ==
    ASSUME TypeOK, Dialogue, WorldTalk, NoProtocolError, [Next]_vars
    PROVE  NoProtocolError'
<1> USE DEF TypeOK, NoProtocolError, End
<1>1. CASE WorldReader
  <2>1. CASE HandleRejoin
    <3>1. phase = "rejoining"
      BY <2>1, FrameInTurn DEF HandleRejoin, NextFrame, WorldTalk
    <3> QED
      BY <2>1, <3>1 DEF HandleRejoin, Rejoin
  <2> QED
    BY <1>1, <2>1 DEF WorldReader, HandlePlayFrame, HandleUpdateTags,
       HandleStartConfiguration
<1>2. CASE ClientReader
  <2>1. CASE ReadAck
    <3>1. TakeConfig
      BY <2>1, AnswerInTurn DEF ReadAck, NextPacket, Answers
    <3> QED
      BY <2>1, <3>1 DEF ReadAck
  <2>2. CASE ReadFinished
    <3>1. sent
      BY <2>2, AnswerInTurn DEF ReadFinished, NextPacket, Answers
    <3> QED
      BY <2>2, <3>1 DEF ReadFinished
  <2> QED
    BY <1>2, <2>1, <2>2 DEF ClientReader, ReadMove, ReadKeepAlive,
       ReadKnownPacks, ReadPackAnswer, ReportConfigured, ReadEOF
<1>3. CASE KeepAlive \/ OtherSend \/ DeadlineExpires
  BY <1>3 DEF KeepAlive, Tick, TimeOut, ArmChallenge, SendChallenge, OtherSend,
     DeadlineExpires
<1>4. CASE ClientEnv
  BY <1>4 DEF ClientEnv, ClientRead, ClientReads, ClientSends, ClientLeaves,
     ClientReadsPlay, ClientReadsKeepAlive, ClientReadsTags, ClientReadsStart,
     ClientReadsKnownPacks, ClientReadsRegistries, ClientReadsPush,
     ClientReadsFinish, ClientReadsLogin, ClientReadsDisconnect
<1>5. CASE WorldEnv
  BY <1>5 DEF WorldEnv, WorldWrites, WorldSendsFrame, WorldHearsConfigured,
     WorldRejoins, WorldCloses, WorldSendsTags, WorldStartsConfiguration
<1>6. CASE UNCHANGED vars \/ Over
  BY <1>6 DEF vars, Over
<1> QED
  BY <1>1, <1>2, <1>3, <1>4, <1>5, <1>6 DEF Next

\* The challenge last sent, or its answer, is on its way.
Challenged == \E p \in Range(toClient) : p.kind = "keepalive" /\ p.n = kaChallenge
Answered   == \E p \in Range(toGateway) : p.kind = "kaReply" /\ p.n = kaChallenge

\* A session that was never reconfigured is in play; what the ticker still
\* waits for will come before it asks again.
Undisturbed == phase = "play" /\ \A p \in Range(fromWorld) : p.kind # "start frame"
\* A challenge that is pending and was sent is on its way, or its answer is;
\* an interval that elapses finds nothing pending.
Awaited == /\ kaPending /\ ticker # "armed" => Challenged \/ Answered
           /\ ticker = "checked" => ~kaPending
\* What NoTimeoutInPlay rests on (the keep-alive ticker, handleKeepAlive).
InTime == starts = 0 => /\ Undisturbed
                        /\ Prompt => Awaited /\ ended # "timeout"

\* Nothing on its way is lost, but what is read and is no keep-alive.
LEMMA AwaitedKept ==
    ASSUME Awaited, UNCHANGED kaVars,
           \A p \in Range(toClient) :
               p.kind = "keepalive" => p \in Range(toClient'),
           \A p \in Range(toGateway) :
               p.kind = "kaReply" => p \in Range(toGateway')
    PROVE  Awaited'
<1>1. UNCHANGED <<ticker, kaPending, kaChallenge>>
  BY DEF kaVars
<1>2. Challenged => Challenged'
  BY <1>1 DEF Challenged
<1>3. Answered => Answered'
  BY <1>1 DEF Answered
<1> QED
  BY <1>1, <1>2, <1>3 DEF Awaited

\* A write loses nothing.
LEMMA Written ==
    /\ ToClientOK => \A p \in Packets(ClientboundKinds) :
          CcSend(p) => \A x \in Range(toClient) : x \in Range(toClient')
    /\ ToGatewayOK => \A p \in Packets(ServerboundKinds) :
          \A x \in Range(toGateway) : x \in Range(Append(toGateway, p))
<1>1. ASSUME ToClientOK, NEW p \in Packets(ClientboundKinds), CcSend(p)
      PROVE  \A x \in Range(toClient) : x \in Range(toClient')
  <2>1. Range(Append(toClient, p)) = Range(toClient) \cup {p}
    BY <1>1, RangeAppend DEF ToClientOK
  <2>2. toClient' = Append(toClient, p) \/ toClient' = toClient
    BY <1>1 DEF CcSend, Write
  <2> QED
    BY <2>1, <2>2
<1>2. ASSUME ToGatewayOK, NEW p \in Packets(ServerboundKinds)
      PROVE  \A x \in Range(toGateway) : x \in Range(Append(toGateway, p))
  BY <1>2, RangeAppend DEF ToGatewayOK
<1> QED
  BY <1>1, <1>2

\* The world reader has only play frames to handle.
LEMMA InTimeWorldReader ==
    ASSUME TypeOK, Dialogue, InTime, starts = 0, WorldReader
    PROVE  InTime'
<1> USE DEF TypeOK
<1>1. /\ fromWorld # << >> /\ fromWorld' = Tail(fromWorld)
      /\ UNCHANGED <<kaVars, toGateway, starts>>
  BY DEF WorldReader, HandlePlayFrame, HandleUpdateTags, HandleStartConfiguration,
     HandleRejoin, NextFrame, worldVars
<1>2. Undisturbed
  BY DEF InTime
<1>3. /\ Range(fromWorld) = Range(fromWorld') \cup {Head(fromWorld)}
  BY <1>1, RangeTail DEF AttachOK
<1>4. Head(fromWorld).kind # "start frame"
  BY <1>2, <1>3 DEF Undisturbed
<1>5. phase' = phase /\ (ended # "timeout" => ended' # "timeout")
  BY <1>2, <1>4 DEF WorldReader, HandlePlayFrame, HandleUpdateTags,
     HandleStartConfiguration, HandleRejoin, Rejoin, NextFrame, End, gateVars,
     Undisturbed
<1>6. \A x \in Range(toClient) : x \in Range(toClient')
  <2>1. CASE HandlePlayFrame
    BY <2>1, PlainOut, Written DEF HandlePlayFrame
  <2>2. CASE HandleUpdateTags
    <3>1. curConfig' \in Configs
      BY <2>2, FrameConfig, RetagTyped DEF HandleUpdateTags, NextFrame, GateTypeOK
    <3>2. Packet("tags", curConfig', 0) \in Packets(ClientboundKinds)
      BY <3>1, OutTyped DEF ClientboundKinds, PlayKinds
    <3> QED
      BY <2>2, <3>2, Written DEF HandleUpdateTags
  <2>3. CASE HandleRejoin
    BY <1>2, <2>3 DEF HandleRejoin, Rejoin, Undisturbed
  <2>4. CASE HandleStartConfiguration
    BY <1>4, <2>4 DEF HandleStartConfiguration, NextFrame
  <2> QED
    BY <2>1, <2>2, <2>3, <2>4 DEF WorldReader
<1>7. Undisturbed'
  BY <1>2, <1>3, <1>5 DEF Undisturbed
<1>8. Awaited => Awaited'
  BY <1>1, <1>6, AwaitedKept
<1> QED
  BY <1>5, <1>7, <1>8 DEF InTime

\* The client reader is in its play loop.
LEMMA InTimeClientReader ==
    ASSUME TypeOK, Dialogue, InTime, starts = 0, ClientReader
    PROVE  InTime'
<1> USE DEF TypeOK
<1>1. UNCHANGED <<fromWorld, starts>>
  BY DEF ClientReader, ReadMove, ReadKeepAlive, ReadAck, ReadKnownPacks,
     ReadPackAnswer, ReadFinished, ReportConfigured, ReadEOF, worldVars
<1>2. Undisturbed
  BY DEF InTime
<1>3. reader # "config"
  BY <1>2 DEF Undisturbed, Dialogue, ConfigWritesAlone
<1>4. ~ReadAck
  <2> SUFFICES ASSUME ReadAck PROVE FALSE
    OBVIOUS
  <2>1. TakeConfig
    BY AnswerInTurn DEF ReadAck, NextPacket, Answers
  <2> QED
    BY <1>2, <2>1 DEF TakeConfig, Undisturbed
<1>5. ReadMove \/ ReadKeepAlive \/ ReportConfigured \/ ReadEOF
  BY <1>3, <1>4 DEF ClientReader, ReadKnownPacks, ReadPackAnswer, ReadFinished,
     NextPacket
<1>6. /\ UNCHANGED <<phase, toClient>>
      /\ ended # "timeout" => ended' # "timeout"
  BY <1>5 DEF ReadMove, ReadKeepAlive, ReportConfigured, ReadEOF, gateVars, End
<1>7. Undisturbed'
  BY <1>1, <1>2, <1>6 DEF Undisturbed
<1>8. CASE ReadKeepAlive
  <2>1. /\ toGateway # << >> /\ toGateway' = Tail(toGateway)
        /\ kaPending' = (kaPending /\ Head(toGateway).n # kaChallenge)
        /\ UNCHANGED <<ticker, kaChallenge>>
    BY <1>8 DEF ReadKeepAlive, NextPacket
  <2>2. Range(toGateway) = Range(toGateway') \cup {Head(toGateway)}
    BY <2>1, RangeTail DEF ToGatewayOK
  <2>3. Challenged => Challenged'
    BY <1>6, <2>1 DEF Challenged
  <2>4. Answered => Answered' \/ Head(toGateway).n = kaChallenge
    BY <2>1, <2>2 DEF Answered
  <2>5. Awaited => Awaited'
    BY <2>1, <2>3, <2>4 DEF Awaited
  <2> QED
    BY <1>6, <1>7, <2>5 DEF InTime
<1>9. CASE ReadMove \/ ReportConfigured \/ ReadEOF
  <2>1. UNCHANGED kaVars
    BY <1>9 DEF ReadMove, ReportConfigured, ReadEOF
  <2>2. \A p \in Range(toGateway) : p.kind = "kaReply" => p \in Range(toGateway')
    <3>1. CASE ReadMove
      <4>1. /\ toGateway # << >> /\ toGateway' = Tail(toGateway)
            /\ Head(toGateway).kind = "move"
        BY <3>1 DEF ReadMove, NextPacket
      <4>2. Range(toGateway) = Range(toGateway') \cup {Head(toGateway)}
        BY <4>1, RangeTail DEF ToGatewayOK
      <4> QED
        BY <4>1, <4>2
    <3>2. CASE ReportConfigured \/ ReadEOF
      BY <3>2 DEF ReportConfigured, ReadEOF
    <3> QED
      BY <1>9, <3>1, <3>2
  <2>3. Awaited => Awaited'
    BY <1>6, <2>1, <2>2, AwaitedKept
  <2> QED
    BY <1>6, <1>7, <2>3 DEF InTime
<1> QED
  BY <1>5, <1>8, <1>9

\* The ticker asks again only when nothing is on its way.
LEMMA InTimeTicker ==
    ASSUME TypeOK, Dialogue, InTime, starts = 0, KeepAlive
    PROVE  InTime'
<1> USE DEF TypeOK
<1>1. UNCHANGED <<phase, fromWorld, toGateway, starts>>
  BY DEF KeepAlive, Tick, TimeOut, ArmChallenge, SendChallenge, gateVars, worldVars
<1>2. Undisturbed /\ Undisturbed'
  BY <1>1 DEF InTime, Undisturbed
<1>3. CASE Tick
  <2>1. /\ ticker = "idle" /\ ticker' = "checked" /\ (Prompt => ~InFlight)
        /\ UNCHANGED <<kaPending, kaChallenge, ended>>
    BY <1>2, <1>3 DEF Tick, Undisturbed
  <2>2. Challenged \/ Answered => InFlight
    BY DEF Challenged, Answered, InFlight, Range
  <2>3. Prompt /\ Awaited => Awaited'
    BY <2>1, <2>2 DEF Awaited
  <2> QED
    BY <1>2, <2>1, <2>3 DEF InTime
<1>4. CASE TimeOut
  <2>1. Prompt => FALSE
    BY <1>4 DEF TimeOut, InTime, Awaited
  <2> QED
    BY <1>2, <2>1 DEF InTime
<1>5. CASE ArmChallenge
  <2>1. Awaited'
    BY <1>5 DEF ArmChallenge, Awaited
  <2> QED
    BY <1>2, <1>5, <2>1 DEF InTime, ArmChallenge
<1>6. CASE SendChallenge
  <2> DEFINE p == Packet("keepalive", NoConfig, kaChallenge)
  <2>1. /\ ticker' = "idle" /\ UNCHANGED <<kaPending, kaChallenge, ended>>
        /\ toClient' = Append(toClient, p)
    BY <1>2, <1>6 DEF SendChallenge, CcSend, Write, Undisturbed
  <2>2. p \in Packets(ClientboundKinds) /\ p.kind = "keepalive" /\ p.n = kaChallenge
    BY PlainOut DEF KeepAliveTypeOK, Packet
  <2> HIDE DEF p
  <2>3. Range(toClient') = Range(toClient) \cup {p}
    BY <2>1, <2>2, RangeAppend DEF ToClientOK
  <2>4. Challenged'
    BY <2>1, <2>2, <2>3 DEF Challenged
  <2>5. Awaited'
    BY <2>1, <2>4 DEF Awaited
  <2> QED
    BY <1>2, <2>1, <2>5 DEF InTime
<1> QED
  BY <1>3, <1>4, <1>5, <1>6 DEF KeepAlive

\* A client that reads a challenge answers it.
LEMMA InTimeClient ==
    ASSUME TypeOK, Dialogue, InTime, starts = 0, ClientEnv
    PROVE  InTime'
<1> USE DEF TypeOK
<1>1. UNCHANGED <<phase, fromWorld, starts, ended, kaVars>>
  BY DEF ClientEnv, ClientRead, ClientReads, ClientSends, ClientLeaves,
     ClientReadsPlay, ClientReadsKeepAlive, ClientReadsTags, ClientReadsStart,
     ClientReadsKnownPacks, ClientReadsRegistries, ClientReadsPush,
     ClientReadsFinish, ClientReadsLogin, ClientReadsDisconnect, gateVars, worldVars
<1>2. Undisturbed'
  BY <1>1 DEF InTime, Undisturbed
<1>3. \A k \in ServerboundKinds : \A n \in Nat :
          \A x \in Range(toGateway) :
              x \in Range(Append(toGateway, Packet(k, NoConfig, n)))
  BY AnswerTyped, Written
<1>4. SUFFICES Awaited => Awaited'
  BY <1>1, <1>2 DEF InTime
<1>5. CASE ClientLeaves
  BY <1>1, <1>5, AwaitedKept DEF ClientLeaves
<1>6. CASE ClientSends
  <2>1. /\ toClient' = toClient
        /\ toGateway' = Append(toGateway, Packet("move", NoConfig, 0))
    BY <1>6 DEF ClientSends, Answer
  <2>2. \A x \in Range(toGateway) : x \in Range(toGateway')
    BY <1>3, <2>1 DEF ServerboundKinds, ServerPlayKinds
  <2> QED
    BY <1>1, <2>1, <2>2, AwaitedKept
<1>7. CASE ClientRead
  <2>1. toClient # << >> /\ toClient' = Tail(toClient)
    BY <1>7, ClientReadFrame
  <2>2. Range(toClient) = Range(toClient') \cup {Head(toClient)}
    BY <2>1, RangeTail DEF ToClientOK
  <2>3. CASE ClientReadsKeepAlive
    <3> DEFINE p == Packet("kaReply", NoConfig, Head(toClient).n)
    <3>1. toGateway' = Append(toGateway, p)
      BY <2>3 DEF ClientReadsKeepAlive, Answer
    <3>2. p \in Packets(ServerboundKinds) /\ p.kind = "kaReply" /\ p.n = Head(toClient).n
      BY <2>1, HeadTyped, AnswerTyped
         DEF ServerboundKinds, ServerPlayKinds, ToClientOK, Packet
    <3> HIDE DEF p
    <3>3. Range(toGateway') = Range(toGateway) \cup {p}
      BY <3>1, <3>2, RangeAppend DEF ToGatewayOK
    <3>4. UNCHANGED <<ticker, kaPending, kaChallenge>>
      BY <1>1 DEF kaVars
    <3>5. Answered => Answered'
      BY <3>3, <3>4 DEF Answered
    <3>6. Challenged => Challenged' \/ Answered'
      BY <2>2, <3>2, <3>3, <3>4 DEF Challenged, Answered
    <3> QED
      BY <3>4, <3>5, <3>6 DEF Awaited
  <2>4. CASE ~ClientReadsKeepAlive
    <3>1. Head(toClient).kind # "keepalive"
      BY <1>7, <2>4 DEF ClientRead, ClientReads, ClientReadsPlay, ClientReadsTags,
         ClientReadsStart, ClientReadsKnownPacks, ClientReadsRegistries,
         ClientReadsPush, ClientReadsFinish, ClientReadsLogin, ClientReadsDisconnect
    <3>2. \A x \in Range(toGateway) : x \in Range(toGateway')
      <4>1. CASE ClientReadsPush
        <5> DEFINE q == Append(toGateway, Plain("accepted"))
        <5>1. toGateway' = Append(toGateway, Plain("declined"))
              \/ toGateway' = Append(q, Plain("loaded"))
          BY <4>1 DEF ClientReadsPush, Answer, Plain
        <5>2. \A k \in {"declined", "accepted", "loaded"} :
                  Plain(k) \in Packets(ServerboundKinds)
          BY AnswerTyped DEF Plain, ServerboundKinds, ServerConfigKinds
        <5>3. Range(Append(toGateway, Plain("declined"))) =
                  Range(toGateway) \cup {Plain("declined")}
          BY <5>2, RangeAppend DEF ToGatewayOK
        <5>4. /\ q \in Seq(Packets(ServerboundKinds))
              /\ Range(q) = Range(toGateway) \cup {Plain("accepted")}
          BY <5>2, RangeAppend, AppendTyped DEF ToGatewayOK
        <5> HIDE DEF q
        <5>5. Range(Append(q, Plain("loaded"))) = Range(q) \cup {Plain("loaded")}
          BY <5>2, <5>4, RangeAppend
        <5> QED
          BY <5>1, <5>3, <5>4, <5>5
      <4>2. CASE ~ClientReadsPush
        <5>1. \/ toGateway' = toGateway
              \/ \E k \in {"ack", "knownReply", "finished"} :
                    toGateway' = Append(toGateway, Packet(k, NoConfig, 0))
          BY <1>7, <2>4, <4>2 DEF ClientRead, ClientReadsPlay, ClientReadsTags,
             ClientReadsStart, ClientReadsKnownPacks, ClientReadsRegistries,
             ClientReadsFinish, ClientReadsLogin, ClientReadsDisconnect, Answer
        <5>2. {"ack", "knownReply", "finished"} \subseteq ServerboundKinds
          BY DEF ServerboundKinds, ServerPlayKinds, ServerConfigKinds
        <5> QED
          BY <1>3, <5>1, <5>2
      <4> QED
        BY <4>1, <4>2
    <3> QED
      BY <1>1, <2>2, <3>1, <3>2, AwaitedKept
  <2> QED
    BY <2>3, <2>4
<1> QED
  BY <1>5, <1>6, <1>7 DEF ClientEnv

\* The world has asked for nothing.
LEMMA InTimeWorld ==
    ASSUME TypeOK, InTime, starts = 0, starts' = 0, WorldEnv
    PROVE  InTime'
<1> USE DEF TypeOK
<1>1. UNCHANGED <<phase, toClient, toGateway, kaVars>>
      /\ (ended # "timeout" => ended' # "timeout")
  BY DEF WorldEnv, WorldWrites, WorldSendsFrame, WorldHearsConfigured,
     WorldRejoins, WorldCloses, WorldSendsTags, WorldStartsConfiguration,
     gateVars, End
<1>2. ~\E c \in Configs : WorldStartsConfiguration(c)
  BY DEF WorldStartsConfiguration
<1>3. \/ fromWorld' = fromWorld
      \/ \E p \in Packets(FrameKinds) :
            p.kind # "start frame" /\ fromWorld' = Append(fromWorld, p)
  <2>1. CASE \E t \in TagSets : WorldSendsTags(t)
    <3>1. requested' \in Configs
      BY <2>1, RetagTyped DEF WorldSendsTags, PeerTypeOK
    <3>2. fromWorld' = Append(fromWorld, Packet("tags", requested', 0))
      BY <2>1 DEF WorldSendsTags, WorldWrites
    <3> QED
      BY <3>1, <3>2, FrameTyped
  <2>2. CASE WorldSendsFrame \/ WorldRejoins
    <3>1. \E k \in {"play", "rejoin"} :
              fromWorld' = Append(fromWorld, Packet(k, NoConfig, 0))
      BY <2>2 DEF WorldSendsFrame, WorldRejoins, WorldWrites
    <3> QED
      BY <3>1, FrameTyped
  <2>3. CASE WorldHearsConfigured \/ WorldCloses
    BY <2>3 DEF WorldHearsConfigured, WorldCloses
  <2> QED
    BY <1>2, <2>1, <2>2, <2>3 DEF WorldEnv
<1>4. \A x \in Range(fromWorld') : x \in Range(fromWorld) \/ x.kind # "start frame"
  <2>1. CASE \E p \in Packets(FrameKinds) :
                p.kind # "start frame" /\ fromWorld' = Append(fromWorld, p)
    <3>1. PICK p \in Packets(FrameKinds) :
              p.kind # "start frame" /\ fromWorld' = Append(fromWorld, p)
      BY <2>1
    <3>2. Range(Append(fromWorld, p)) = Range(fromWorld) \cup {p}
      BY RangeAppend DEF AttachOK
    <3> QED
      BY <3>1, <3>2
  <2>2. CASE fromWorld' = fromWorld
    BY <2>2
  <2> QED
    BY <1>3, <2>1, <2>2
<1>5. Undisturbed'
  BY <1>1, <1>4 DEF InTime, Undisturbed
<1>6. Awaited => Awaited'
  BY <1>1, AwaitedKept
<1> QED
  BY <1>1, <1>5, <1>6 DEF InTime

\* No challenge is pending when play begins.
LEMMA InTimeInit == Init => InTime
<1> SUFFICES ASSUME Init PROVE InTime
  OBVIOUS
<1>1. /\ phase = "play" /\ fromWorld = << >> /\ kaPending = FALSE
      /\ ticker = "idle" /\ ended = "no"
  BY DEF Init
<1>2. DOMAIN << >> = {}
  OBVIOUS
<1>3. Range(fromWorld) = {}
  BY <1>1, <1>2 DEF Range
<1> QED
  BY <1>1, <1>3 DEF InTime, Undisturbed, Awaited

\* Every step keeps it: the first MsgStartConfiguration ends what it speaks of.
LEMMA InTimeStep ==
    ASSUME TypeOK, Dialogue, InTime, [Next]_vars
    PROVE  InTime'
<1>1. starts \in Nat
  BY DEF TypeOK, PeerTypeOK
<1>2. starts' = starts \/ starts' = starts + 1
  BY DEF Next, vars, Over, WorldReader, HandlePlayFrame, HandleUpdateTags,
     HandleStartConfiguration, HandleRejoin, ClientReader, ReadMove, ReadKeepAlive,
     ReadAck, ReadKnownPacks, ReadPackAnswer, ReadFinished, ReportConfigured,
     ReadEOF, KeepAlive, Tick, TimeOut, ArmChallenge, SendChallenge, OtherSend,
     DeadlineExpires, ClientEnv, ClientSends, ClientLeaves, ClientRead,
     ClientReads, ClientReadsPlay, ClientReadsKeepAlive, ClientReadsTags,
     ClientReadsStart, ClientReadsKnownPacks, ClientReadsRegistries,
     ClientReadsPush, ClientReadsFinish, ClientReadsLogin, ClientReadsDisconnect,
     WorldEnv, WorldWrites, WorldSendsFrame, WorldHearsConfigured, WorldRejoins,
     WorldCloses, WorldSendsTags, WorldStartsConfiguration, worldVars
<1>3. CASE starts' # 0
  BY <1>3 DEF InTime
<1>4. CASE starts' = 0
  <2>1. starts = 0
    BY <1>1, <1>2, <1>4
  <2>2. CASE OtherSend
    <3>1. /\ UNCHANGED <<phase, fromWorld, toGateway, kaVars, ended>>
          /\ CcSend(Plain("play"))
      BY <2>2 DEF OtherSend, gateVars
    <3>2. \A x \in Range(toClient) : x \in Range(toClient')
      BY <3>1, PlainOut, Written DEF TypeOK
    <3>3. Undisturbed'
      BY <2>1, <3>1 DEF InTime, Undisturbed
    <3>4. Awaited => Awaited'
      BY <3>1, <3>2, AwaitedKept
    <3> QED
      BY <2>1, <3>1, <3>3, <3>4 DEF InTime
  <2>3. CASE UNCHANGED vars \/ Over \/ DeadlineExpires
    <3>1. /\ UNCHANGED <<phase, fromWorld, toClient, toGateway, kaVars>>
          /\ ended # "timeout" => ended' # "timeout"
      BY <2>3 DEF vars, Over, DeadlineExpires, gateVars, End
    <3>2. Undisturbed'
      BY <2>1, <3>1 DEF InTime, Undisturbed
    <3>3. Awaited => Awaited'
      BY <3>1, AwaitedKept
    <3> QED
      BY <2>1, <3>1, <3>2, <3>3 DEF InTime
  <2> QED
    BY <1>4, <2>1, <2>2, <2>3, InTimeWorldReader, InTimeClientReader,
       InTimeTicker, InTimeClient, InTimeWorld DEF Next
<1> QED
  BY <1>3, <1>4

----------------------------------------------------------------------------
(* Whose registries: what the client has, what it is about to be sent.     *)

\* The client has the registries the world reader composes packets from.
Same == clientConfig.reg = curConfig.reg

\* Of what the gateway holds, and of the answers that show what the client has.
Loaded == {"loaded", "declined", "finished"}
RegsHeld ==
    /\ phase # "configuring" => Same
    /\ Kinds(toGateway) \cap Loaded # {} => Same
    /\ phase = "configuring" /\ reader # "config" =>
           pendingConfig.reg = curConfig.reg
    /\ reader = "config" => taken.reg = curConfig.reg

\* Of what is on its way to the client: registries come before the end of
\* configuration, what is composed in play before the next start of it.
Closing == {"push", "finish"}
RegsSent ==
    client # "gone" =>
        /\ Before(toClient, {"registries"}, Closing)
        /\ Composed(toClient, {"registries"}, curConfig.reg)
        /\ Kinds(toClient) \cap Closing # {} /\ "registries" \notin Kinds(toClient)
               => Same
        /\ Composed(toClient, {"login", "tags"}, clientConfig.reg)
        /\ phase # "play" => Before(toClient, {"login", "tags"}, {"start"})

\* What ComposedFromClientConfig rests on (curConfig and what configure sent).
Regs == RegsHeld /\ RegsSent

\* A packet more, a packet less, or none of these kinds.
LEMMA ComposedAppend ==
    ASSUME NEW S, NEW q \in Seq(S), NEW p \in S, NEW K, NEW r, Composed(q, K, r),
           p.kind \in K => p.cfg.reg = r
    PROVE  Composed(Append(q, p), K, r)
<1>1. Range(Append(q, p)) = Range(q) \cup {p}
  BY RangeAppend
<1> QED
  BY <1>1 DEF Composed

\* The first of them, and the rest.
LEMMA ComposedTail ==
    ASSUME NEW S, NEW q \in Seq(S), q # << >>, NEW K, NEW r, Composed(q, K, r)
    PROVE  /\ Composed(Tail(q), K, r)
           /\ Head(q).kind \in K => Head(q).cfg.reg = r
<1>1. Range(q) = Range(Tail(q)) \cup {Head(q)}
  BY RangeTail
<1> QED
  BY <1>1 DEF Composed

\* None of these kinds: nothing was composed from another's registries.
LEMMA ComposedNone ==
    ASSUME NEW q, NEW K, NEW r, Kinds(q) \cap K = {}
    PROVE  Composed(q, K, r)
BY DEF Composed, Kinds

\* A step that sends the client nothing.
LEMMA SentKept ==
    ASSUME RegsSent, toClient' = toClient, curConfig'.reg = curConfig.reg,
           clientConfig'.reg = clientConfig.reg,
           client' = client \/ client' = "gone",
           phase' # "play" => phase # "play"
    PROVE  RegsSent'
BY DEF RegsSent, Same

\* A step that sends it a packet that bears no login and no registries.
LEMMA SentWritten ==
    ASSUME RegsSent, ToClientOK, NEW p \in Packets(ClientboundKinds),
           toClient' = Append(toClient, p), curConfig'.reg = curConfig.reg,
           clientConfig'.reg = clientConfig.reg, client' = client, phase' = phase,
           p.kind \notin Closing \cup {"registries", "login"},
           p.kind = "tags" => phase = "play" /\ p.cfg.reg = clientConfig.reg
    PROVE  RegsSent'
<1> SUFFICES ASSUME client # "gone"
             PROVE  /\ Before(toClient', {"registries"}, Closing)
                    /\ Composed(toClient', {"registries"}, curConfig.reg)
                    /\ Kinds(toClient') \cap Closing # {}
                       /\ "registries" \notin Kinds(toClient') => Same
                    /\ Composed(toClient', {"login", "tags"}, clientConfig.reg)
                    /\ phase # "play" => Before(toClient', {"login", "tags"}, {"start"})
  BY DEF RegsSent, Same
<1>1. Before(toClient', {"registries"}, Closing)
  BY BeforeAppend DEF RegsSent, ToClientOK
<1>2. Composed(toClient', {"registries"}, curConfig.reg)
  BY ComposedAppend DEF RegsSent, ToClientOK
<1>3. Kinds(toClient') = Kinds(toClient) \cup {p.kind}
  BY KindsAppend DEF ToClientOK
<1>4. Composed(toClient', {"login", "tags"}, clientConfig.reg)
  BY ComposedAppend DEF RegsSent, ToClientOK
<1>5. phase # "play" => Before(toClient', {"login", "tags"}, {"start"})
  BY BeforeAppend DEF RegsSent, ToClientOK
<1> QED
  BY <1>1, <1>2, <1>3, <1>4, <1>5 DEF RegsSent

\* A step that leaves the gateway's own view alone.
LEMMA HeldKept ==
    ASSUME RegsHeld, UNCHANGED <<phase, reader, pendingConfig, taken>>,
           curConfig'.reg = curConfig.reg, clientConfig'.reg = clientConfig.reg,
           Kinds(toGateway') \cap Loaded \subseteq Kinds(toGateway)
    PROVE  RegsHeld'
<1>1. Same' = Same
  BY DEF Same
<1> QED
  BY <1>1 DEF RegsHeld

\* The packets sent through the gate.
LEMMA RegsSends ==
    ASSUME TypeOK, Dialogue, Regs,
           HandlePlayFrame \/ HandleUpdateTags \/ OtherSend \/ TimeOut \/ SendChallenge
    PROVE  Regs'
<1> USE DEF TypeOK
<1>1. UNCHANGED <<phase, reader, pendingConfig, taken, toGateway, client, clientConfig>>
  BY DEF HandlePlayFrame, HandleUpdateTags, OtherSend, TimeOut, SendChallenge,
     gateVars, readerVars, clientVars
<1>2. curConfig'.reg = curConfig.reg
  <2>1. CASE HandleUpdateTags
    BY <2>1 DEF HandleUpdateTags, GateTypeOK, Configs
  <2>2. CASE ~HandleUpdateTags
    BY <2>2 DEF HandlePlayFrame, OtherSend, TimeOut, SendChallenge, gateVars
  <2> QED
    BY <2>1, <2>2
<1>3. RegsHeld'
  BY <1>1, <1>2, HeldKept DEF Regs
<1>4. PICK p \in Packets(ClientboundKinds) :
          /\ CcSend(p) /\ p.kind \in SentKinds
          /\ p.kind = "tags" => p.cfg.reg = curConfig.reg
  <2>1. CASE HandleUpdateTags
    <3>1. curConfig' \in Configs
      BY <2>1, FrameConfig, RetagTyped DEF HandleUpdateTags, NextFrame, GateTypeOK
    <3>2. /\ Packet("tags", curConfig', 0) \in Packets(ClientboundKinds)
          /\ Packet("tags", curConfig', 0).kind = "tags"
          /\ Packet("tags", curConfig', 0).cfg = curConfig'
      BY <3>1, OutTyped DEF ClientboundKinds, PlayKinds
    <3>3. CcSend(Packet("tags", curConfig', 0))
      BY <2>1 DEF HandleUpdateTags
    <3> QED
      BY <1>2, <3>2, <3>3 DEF SentKinds
  <2>2. CASE ~HandleUpdateTags
    <3>1. \E k \in {"play", "disconnect", "keepalive"}, n \in Nat :
              CcSend(Packet(k, NoConfig, n))
      BY <2>2 DEF HandlePlayFrame, TimeOut, SendChallenge, OtherSend, Plain,
         KeepAliveTypeOK
    <3> QED
      BY <3>1, PlainOut DEF SentKinds
  <2> QED
    BY <2>1, <2>2
<1>5. RegsSent'
  <2>1. CASE phase # "play"
    BY <1>1, <1>2, <1>4, <2>1, SentKept DEF CcSend, Regs
  <2>2. CASE phase = "play"
    <3>1. toClient' = Append(toClient, p) /\ Same
      BY <1>4, <2>2 DEF CcSend, Write, Regs, RegsHeld
    <3>2. p.kind \notin Closing \cup {"registries", "login"}
      BY <1>4 DEF SentKinds, Closing
    <3>3. p.kind = "tags" => phase = "play" /\ p.cfg.reg = clientConfig.reg
      BY <1>4, <2>2, <3>1 DEF Same
    <3> QED
      BY <1>1, <1>2, <3>1, <3>2, <3>3, SentWritten DEF Regs
  <2> QED
    BY <2>1, <2>2
<1> QED
  BY <1>3, <1>5 DEF Regs

\* A reconfiguration starts: no registries are on their way, no answers to any.
LEMMA RegsStart ==
    ASSUME TypeOK, Dialogue, WorldTalk, Regs, HandleStartConfiguration
    PROVE  Regs'
<1> USE DEF TypeOK
<1> DEFINE p == Plain("start")
<1>1. /\ UNCHANGED <<reader, taken, toGateway, client, clientConfig>>
      /\ curConfig' = Head(fromWorld).cfg
  BY DEF HandleStartConfiguration, readerVars, clientVars
<1>2. phase = "play"
  BY FrameInTurn DEF HandleStartConfiguration, NextFrame, WorldTalk
<1>3. /\ phase' = "configuring" /\ toClient' = Append(toClient, p)
      /\ pendingConfig' = Head(fromWorld).cfg
  BY <1>2 DEF HandleStartConfiguration, StartConfiguration, Write
<1>4. p \in Packets(ClientboundKinds) /\ p.kind = "start"
  BY PlainOut
<1> HIDE DEF p
<1>5. \A k : ~InTurn(k)
  BY <1>2 DEF InTurn
<1>6. /\ Kinds(toGateway) \cap Answers = {}
      /\ client # "gone" => Kinds(toClient) \cap Asks = {}
  BY <1>5 DEF Dialogue, OneTurn
<1>7. reader # "config"
  BY <1>2 DEF Dialogue, ConfigWritesAlone
<1>8. RegsHeld'
  <2>1. Kinds(toGateway') \cap Loaded = {}
    BY <1>1, <1>6 DEF Answers, Loaded
  <2> QED
    BY <1>1, <1>3, <1>7, <2>1 DEF RegsHeld
<1>9. RegsSent'
  <2> SUFFICES ASSUME client # "gone"
               PROVE  /\ Before(toClient', {"registries"}, Closing)
                      /\ Composed(toClient', {"registries"}, curConfig'.reg)
                      /\ Kinds(toClient') \cap Closing = {}
                      /\ Composed(toClient', {"login", "tags"}, clientConfig.reg)
                      /\ Before(toClient', {"login", "tags"}, {"start"})
    BY <1>1 DEF RegsSent
  <2>1. Before(toClient', {"registries"}, Closing)
    BY <1>3, <1>4, BeforeAppend DEF Regs, RegsSent, ToClientOK
  <2>2. Kinds(toClient) \cap Closing = {}
    BY <1>6 DEF Closing, Asks
  <2>3. Kinds(toClient) \cap {"registries"} = {}
    BY <2>2, BeforeKinds DEF Regs, RegsSent, ToClientOK
  <2>4. Kinds(toClient') = Kinds(toClient) \cup {"start"}
    BY <1>3, <1>4, KindsAppend DEF ToClientOK
  <2>5. Composed(toClient', {"registries"}, curConfig'.reg)
    <3>1. Kinds(toClient') \cap {"registries"} = {}
      BY <2>3, <2>4
    <3> QED
      BY <3>1, ComposedNone
  <2>6. Kinds(toClient') \cap Closing = {}
    BY <2>2, <2>4 DEF Closing
  <2>7. Composed(toClient', {"login", "tags"}, clientConfig.reg)
    BY <1>3, <1>4, ComposedAppend DEF Regs, RegsSent, ToClientOK
  <2>8. Before(toClient', {"login", "tags"}, {"start"})
    BY <1>3, <1>4, BeforeAppend DEF ToClientOK
  <2> QED
    BY <2>1, <2>5, <2>6, <2>7, <2>8
<1> QED
  BY <1>8, <1>9 DEF Regs

\* The login: composed from what the client has just configured with.
LEMMA RegsRejoin ==
    ASSUME TypeOK, Dialogue, WorldTalk, Regs, HandleRejoin
    PROVE  Regs'
<1> USE DEF TypeOK
<1> DEFINE p == Packet("login", curConfig, 0)
           r == Plain("play")
           q == Append(toClient, p)
<1>1. UNCHANGED <<reader, taken, toGateway, client, clientConfig, curConfig, pendingConfig>>
  BY DEF HandleRejoin, readerVars, clientVars
<1>2. phase = "rejoining"
  BY FrameInTurn DEF HandleRejoin, NextFrame, WorldTalk
<1>3. phase' = "play" /\ toClient' = Append(q, r)
  BY <1>2 DEF HandleRejoin, Rejoin, WriteTwo
<1>4. /\ p \in Packets(ClientboundKinds) /\ p.kind = "login" /\ p.cfg = curConfig
      /\ r \in Packets(ClientboundKinds) /\ r.kind = "play"
  BY ZenonT(30), OutTyped, PlainOut DEF ClientboundKinds, GateTypeOK
<1> HIDE DEF p, r
<1>5. q \in Seq(Packets(ClientboundKinds))
  BY <1>4, AppendTyped DEF ToClientOK
<1>6. Same
  BY <1>2 DEF Regs, RegsHeld
<1>7. RegsHeld'
  <2>1. Same'
    BY <1>1, <1>6 DEF Same
  <2>2. reader # "config"
    BY <1>2 DEF Dialogue, ConfigWritesAlone
  <2> QED
    BY <1>1, <1>3, <2>1, <2>2 DEF RegsHeld
<1>8. RegsSent'
  <2> SUFFICES ASSUME client # "gone"
               PROVE  /\ Before(toClient', {"registries"}, Closing)
                      /\ Composed(toClient', {"registries"}, curConfig.reg)
                      /\ Composed(toClient', {"login", "tags"}, clientConfig.reg)
    BY <1>1, <1>3, <1>6 DEF RegsSent, Same
  <2>1. Before(q, {"registries"}, Closing)
    BY <1>4, BeforeAppend DEF Regs, RegsSent, ToClientOK
  <2>2. Composed(q, {"registries"}, curConfig.reg)
    BY <1>4, ComposedAppend DEF Regs, RegsSent, ToClientOK
  <2>3. Composed(q, {"login", "tags"}, clientConfig.reg)
    BY <1>4, <1>6, ComposedAppend DEF Regs, RegsSent, ToClientOK, Same
  <2> HIDE DEF q
  <2> QED
    BY <1>3, <1>4, <1>5, <2>1, <2>2, <2>3, BeforeAppend, ComposedAppend
<1> QED
  BY <1>7, <1>8 DEF Regs

\* configure() takes the pending configuration.
LEMMA RegsAck ==
    ASSUME TypeOK, Dialogue, Regs, ReadAck
    PROVE  Regs'
<1> USE DEF TypeOK
<1> DEFINE p == Plain("known")
<1>1. /\ reader = "play" /\ toGateway # << >> /\ Head(toGateway).kind = "ack"
      /\ toGateway' = Tail(toGateway)
      /\ UNCHANGED <<phase, client, clientConfig, curConfig>>
  BY DEF ReadAck, NextPacket, clientVars
<1>2. TakeConfig
  BY <1>1, AnswerInTurn DEF Answers
<1>3. /\ phase = "configuring" /\ reader' = "config" /\ taken' = pendingConfig
      /\ toClient' = Append(toClient, p)
  BY <1>2 DEF ReadAck, Write, TakeConfig
<1>4. p \in Packets(ClientboundKinds) /\ p.kind = "known"
  BY PlainOut
<1> HIDE DEF p
<1>5. RegsSent'
  BY <1>1, <1>3, <1>4, SentWritten DEF Regs, Closing
<1>6. Kinds(toGateway) = Kinds(toGateway') \cup {"ack"}
  BY <1>1, KindsTail DEF ToGatewayOK
<1>7. RegsHeld'
  <2>1. Same' = Same
    BY <1>1 DEF Same
  <2>2. taken'.reg = curConfig'.reg
    BY <1>1, <1>3 DEF Regs, RegsHeld
  <2> QED
    BY <1>1, <1>3, <1>6, <2>1, <2>2 DEF Regs, RegsHeld
<1> QED
  BY <1>5, <1>7 DEF Regs

\* The registries, and what closes configuration behind them.
LEMMA RegsKnownPacks ==
    ASSUME TypeOK, Dialogue, Regs, ReadKnownPacks
    PROVE  Regs'
<1> USE DEF TypeOK
<1> DEFINE k == IF ResourcePack THEN "push" ELSE "finish"
           p == Packet("registries", taken, 0)
           r == Plain(k)
           q == Append(toClient, p)
<1>1. /\ reader = "config" /\ toGateway # << >> /\ toGateway' = Tail(toGateway)
      /\ UNCHANGED <<phase, reader, client, clientConfig, curConfig, pendingConfig, taken>>
      /\ toClient' = Append(q, r)
  BY DEF ReadKnownPacks, NextPacket, clientVars, gateVars, WriteTwo
<1>2. taken \in Configs /\ taken.reg = curConfig.reg
  BY <1>1 DEF Regs, RegsHeld, ReaderTypeOK
<1>3. p \in Packets(ClientboundKinds) /\ p.kind = "registries" /\ p.cfg = taken
  BY <1>2, OutTyped DEF ClientboundKinds, ConfigKinds
<1>4. r \in Packets(ClientboundKinds) /\ r.kind = k /\ k \in Closing
  BY PlainOut DEF Closing
<1>5. k \notin {"registries", "login", "tags"}
  OBVIOUS
<1> HIDE DEF p, r, k
<1>6. RegsHeld'
  <2>1. Kinds(toGateway) = Kinds(toGateway') \cup {Head(toGateway).kind}
    BY <1>1, KindsTail DEF ToGatewayOK
  <2> QED
    BY <1>1, <2>1, HeldKept DEF Regs
<1>7. RegsSent'
  <2> SUFFICES ASSUME client # "gone"
               PROVE  /\ Before(toClient', {"registries"}, Closing)
                      /\ Composed(toClient', {"registries"}, curConfig.reg)
                      /\ "registries" \in Kinds(toClient')
                      /\ Composed(toClient', {"login", "tags"}, clientConfig.reg)
                      /\ phase # "play" =>
                             Before(toClient', {"login", "tags"}, {"start"})
    BY <1>1 DEF RegsSent
  <2>1. q \in Seq(Packets(ClientboundKinds))
    BY <1>3, AppendTyped DEF ToClientOK
  <2>2. Kinds(q) = Kinds(toClient) \cup {"registries"}
    BY <1>3, KindsAppend DEF ToClientOK
  <2>3. Composed(q, {"registries"}, curConfig.reg)
    BY <1>2, <1>3, ComposedAppend DEF Regs, RegsSent, ToClientOK
  <2>4. Composed(q, {"login", "tags"}, clientConfig.reg)
    BY <1>3, ComposedAppend DEF Regs, RegsSent, ToClientOK
  <2>5. phase # "play" => Before(q, {"login", "tags"}, {"start"})
    BY <1>3, BeforeAppend DEF Regs, RegsSent, ToClientOK
  <2> HIDE DEF q
  <2>6. Kinds(toClient') = Kinds(q) \cup {k}
    BY <1>1, <1>4, <2>1, KindsAppend
  <2>7. Before(toClient', {"registries"}, Closing)
    BY <1>1, <1>4, <1>5, <2>1, BeforeAppend
  <2>8. /\ Composed(toClient', {"registries"}, curConfig.reg)
        /\ Composed(toClient', {"login", "tags"}, clientConfig.reg)
    BY <1>1, <1>4, <1>5, <2>1, <2>3, <2>4, ComposedAppend
  <2>9. phase # "play" => Before(toClient', {"login", "tags"}, {"start"})
    BY <1>1, <1>4, <1>5, <2>1, <2>5, BeforeAppend
  <2> QED
    BY <2>2, <2>6, <2>7, <2>8, <2>9
<1> QED
  BY <1>6, <1>7 DEF Regs

\* The end of configuration, once the pack's answer shows the registries taken.
LEMMA RegsPackAnswer ==
    ASSUME TypeOK, Dialogue, Regs, NEW a \in {"accepted", "loaded", "declined"},
           ReadPackAnswer(a)
    PROVE  Regs'
<1> USE DEF TypeOK
<1>1. /\ reader = "config" /\ toGateway # << >> /\ toGateway' = Tail(toGateway)
      /\ Head(toGateway).kind = a
      /\ UNCHANGED <<phase, reader, client, clientConfig, curConfig, pendingConfig, taken>>
  BY DEF ReadPackAnswer, NextPacket, clientVars, gateVars
<1>2. Kinds(toGateway) = Kinds(toGateway') \cup {a}
  BY <1>1, KindsTail DEF ToGatewayOK
<1>3. RegsHeld'
  BY <1>1, <1>2, HeldKept DEF Regs
<1>4. \/ toClient' = toClient
      \/ toClient' = Append(toClient, Plain("cfgDisconnect"))
      \/ toClient' = Append(toClient, Plain("finish")) /\ a # "accepted"
  BY DEF ReadPackAnswer, Write
<1>5. CASE toClient' = toClient
  BY <1>1, <1>3, <1>5, SentKept DEF Regs
<1>6. CASE toClient' = Append(toClient, Plain("cfgDisconnect"))
  <2> DEFINE p == Plain("cfgDisconnect")
  <2>1. p \in Packets(ClientboundKinds) /\ p.kind = "cfgDisconnect"
        /\ toClient' = Append(toClient, p)
    BY <1>6, PlainOut
  <2> HIDE DEF p
  <2>2. RegsSent'
    BY <1>1, <2>1, SentWritten DEF Regs, Closing
  <2> QED
    BY <1>3, <2>2 DEF Regs
<1>7. CASE toClient' = Append(toClient, Plain("finish")) /\ a # "accepted"
  <2> DEFINE p == Plain("finish")
  <2>1. p \in Packets(ClientboundKinds) /\ p.kind = "finish"
        /\ toClient' = Append(toClient, p)
    BY <1>7, PlainOut
  <2> HIDE DEF p
  <2>2. Same
    BY <1>2, <1>7 DEF Regs, RegsHeld, Loaded
  <2>3. RegsSent'
    <3> SUFFICES ASSUME client # "gone"
                 PROVE  /\ Before(toClient', {"registries"}, Closing)
                        /\ Composed(toClient', {"registries"}, curConfig.reg)
                        /\ Composed(toClient', {"login", "tags"}, clientConfig.reg)
                        /\ phase # "play" =>
                               Before(toClient', {"login", "tags"}, {"start"})
      BY <1>1, <2>2 DEF RegsSent, Same
    <3>1. Before(toClient', {"registries"}, Closing)
      BY <2>1, BeforeAppend DEF Regs, RegsSent, ToClientOK
    <3>2. /\ Composed(toClient', {"registries"}, curConfig.reg)
          /\ Composed(toClient', {"login", "tags"}, clientConfig.reg)
      BY <2>1, ComposedAppend DEF Regs, RegsSent, ToClientOK
    <3>3. phase # "play" => Before(toClient', {"login", "tags"}, {"start"})
      BY <2>1, BeforeAppend DEF Regs, RegsSent, ToClientOK
    <3> QED
      BY <3>1, <3>2, <3>3
  <2> QED
    BY <1>3, <2>3 DEF Regs
<1> QED
  BY <1>4, <1>5, <1>6, <1>7

\* Configuration ends: the client has what it was sent.
LEMMA RegsFinished ==
    ASSUME TypeOK, Dialogue, Regs, ReadFinished
    PROVE  Regs'
<1> USE DEF TypeOK
<1>1. /\ reader = "config" /\ toGateway # << >> /\ toGateway' = Tail(toGateway)
      /\ Head(toGateway).kind = "finished"
      /\ UNCHANGED <<client, clientConfig, curConfig, toClient>>
  BY DEF ReadFinished, NextPacket, clientVars
<1>2. sent /\ phase = "configuring"
  BY <1>1, AnswerInTurn DEF InTurn, Answers
<1>3. phase' = "rejoining" /\ reader' = "report"
  BY <1>2 DEF ReadFinished, Configured
<1>4. Kinds(toGateway) = Kinds(toGateway') \cup {"finished"}
  BY <1>1, KindsTail DEF ToGatewayOK
<1>5. Same
  BY <1>4 DEF Regs, RegsHeld, Loaded
<1>6. RegsHeld'
  BY <1>1, <1>3, <1>5 DEF RegsHeld, Same
<1>7. RegsSent'
  BY <1>1, <1>2, SentKept DEF Regs
<1> QED
  BY <1>6, <1>7 DEF Regs

\* The client reader's other steps.
LEMMA RegsOtherReads ==
    ASSUME TypeOK, Dialogue, Regs,
           ReadMove \/ ReadKeepAlive \/ ReportConfigured \/ ReadEOF
    PROVE  Regs'
<1> USE DEF TypeOK
<1>1. UNCHANGED <<phase, toClient, client, clientConfig, curConfig, pendingConfig, taken>>
  BY DEF ReadMove, ReadKeepAlive, ReportConfigured, ReadEOF, gateVars,
     readerVars, clientVars
<1>2. RegsSent'
  BY <1>1, SentKept DEF Regs
<1>3. Kinds(toGateway') \subseteq Kinds(toGateway)
  <2>1. \/ toGateway' = toGateway
        \/ toGateway # << >> /\ toGateway' = Tail(toGateway)
    BY DEF ReadMove, ReadKeepAlive, ReportConfigured, ReadEOF, NextPacket
  <2> QED
    BY <2>1, KindsTail DEF ToGatewayOK
<1>4. reader' = reader \/ (reader = "report" /\ reader' = "play")
  BY DEF ReadMove, ReadKeepAlive, ReportConfigured, ReadEOF, readerVars
<1>5. RegsHeld'
  <2>1. Same' = Same
    BY <1>1 DEF Same
  <2> QED
    BY <1>1, <1>3, <1>4, <2>1 DEF Regs, RegsHeld
<1> QED
  BY <1>2, <1>5 DEF Regs

\* The client reads a packet that is not the registries.
LEMMA SentRead ==
    ASSUME RegsSent, ToClientOK, client # "gone", toClient # << >>,
           toClient' = Tail(toClient), Head(toClient).kind # "registries",
           phase' = phase, curConfig' = curConfig,
           clientConfig'.reg = clientConfig.reg
    PROVE  RegsSent'
<1>1. Kinds(toClient) = Kinds(toClient') \cup {Head(toClient).kind}
  BY KindsTail DEF ToClientOK
<1>2. Before(toClient', {"registries"}, Closing)
  BY BeforeTail DEF RegsSent, ToClientOK
<1>3. /\ Composed(toClient', {"registries"}, curConfig.reg)
      /\ Composed(toClient', {"login", "tags"}, clientConfig.reg)
  BY ComposedTail DEF RegsSent, ToClientOK
<1>4. phase # "play" => Before(toClient', {"login", "tags"}, {"start"})
  BY BeforeTail DEF RegsSent, ToClientOK
<1>5. Kinds(toClient') \cap Closing # {} /\ "registries" \notin Kinds(toClient') => Same
  BY <1>1 DEF RegsSent
<1> QED
  BY <1>2, <1>3, <1>4, <1>5 DEF RegsSent, Same

\* What the client answers shows the registries taken where it should.
LEMMA LoadedShows ==
    ASSUME TypeOK, Dialogue, Regs, client # "gone", toClient # << >>,
           Head(toClient).kind \in Closing
    PROVE  Same
<1> USE DEF TypeOK
<1>1. Kinds(toClient) = Kinds(Tail(toClient)) \cup {Head(toClient).kind}
  BY KindsTail DEF ToClientOK
<1>2. Closing \subseteq Asks /\ Head(toClient).kind \in Asks \ {"registries"}
  BY DEF Closing, Asks
<1>3. Kinds(toClient) \cap {"registries"} = {}
  <2>1. Before(toClient, {"registries"}, Closing) /\ Once(toClient, Asks)
    BY <1>1, <1>2 DEF Regs, RegsSent, Dialogue, OneTurn
  <2> QED
    BY <1>2, <2>1, BeforeHead DEF ToClientOK
<1> QED
  BY <1>1, <1>3 DEF Regs, RegsSent

\* The client configures itself with the registries.
LEMMA RegsTaken ==
    ASSUME TypeOK, Dialogue, Regs, ClientReadsRegistries
    PROVE  clientConfig'.reg = curConfig.reg /\ phase = "configuring" /\ Regs'
<1> USE DEF TypeOK
<1>1. ClientRead
  BY DEF ClientRead
<1>2. /\ client # "gone" /\ toClient # << >> /\ toClient' = Tail(toClient)
      /\ UNCHANGED <<phase, reader, pendingConfig>>
  BY <1>1, ClientReadFrame
<1>3. /\ UNCHANGED <<toGateway, curConfig, taken, client>>
      /\ Head(toClient).kind = "registries" /\ clientConfig' = Head(toClient).cfg
  BY DEF ClientReadsRegistries, ClientReads, gateVars, readerVars
<1>4. /\ Composed(Tail(toClient), {"registries"}, curConfig.reg)
      /\ Head(toClient).cfg.reg = curConfig.reg
  BY <1>2, <1>3, ComposedTail DEF Regs, RegsSent, ToClientOK
<1>5. Same'
  BY <1>3, <1>4 DEF Same
<1>6. RegsHeld'
  BY <1>2, <1>3, <1>5 DEF Regs, RegsHeld
<1>7. Kinds(toClient) = Kinds(toClient') \cup {"registries"}
  BY <1>2, <1>3, KindsTail DEF ToClientOK
<1>8. phase = "configuring" /\ reader = "config"
  <2>1. Kinds(toClient) \cap Closing # {}
    BY <1>2, <1>7, BeforeKinds DEF Regs, RegsSent, ToClientOK
  <2>2. \A k \in Closing : k \in Asks /\ k \notin {"start", "ack"}
    BY DEF Closing, Asks
  <2>3. PICK k \in Closing : InTurn(k)
    BY <1>2, <2>1, <2>2 DEF Dialogue, OneTurn
  <2> QED
    BY <2>2, <2>3 DEF InTurn
<1>9. Kinds(toClient) \cap {"login", "tags"} = {}
  <2> SUFFICES ASSUME Kinds(toClient) \cap {"login", "tags"} # {} PROVE FALSE
    OBVIOUS
  <2>1. Kinds(toClient) \cap {"start"} # {}
    BY <1>2, <1>8, BeforeKinds DEF Regs, RegsSent, ToClientOK
  <2>2. InTurn("start")
    BY <1>2, <2>1 DEF Dialogue, OneTurn, Asks
  <2> QED
    BY <1>8, <2>2 DEF InTurn
<1>10. RegsSent'
  <2>1. Before(toClient', {"registries"}, Closing)
    BY <1>2, BeforeTail DEF Regs, RegsSent, ToClientOK
  <2>2. Kinds(toClient') \cap {"login", "tags"} = {}
    BY <1>7, <1>9
  <2>3. Composed(toClient', {"login", "tags"}, clientConfig'.reg)
    BY <2>2, ComposedNone
  <2>4. phase # "play" => Before(toClient', {"login", "tags"}, {"start"})
    BY <1>2, BeforeTail DEF Regs, RegsSent, ToClientOK
  <2> QED
    BY <1>2, <1>3, <1>4, <1>5, <2>1, <2>3, <2>4 DEF RegsSent
<1> QED
  BY <1>3, <1>4, <1>6, <1>8, <1>10 DEF Regs

\* The client reads anything else, moves or leaves.
LEMMA RegsClient ==
    ASSUME TypeOK, Dialogue, Regs, ClientEnv, ~ClientReadsRegistries
    PROVE  clientConfig'.reg = clientConfig.reg /\ Regs'
<1> USE DEF TypeOK
<1>1. UNCHANGED <<phase, reader, pendingConfig, taken, curConfig>>
  BY DEF ClientEnv, ClientRead, ClientReads, ClientSends, ClientLeaves,
     ClientReadsPlay, ClientReadsKeepAlive, ClientReadsTags, ClientReadsStart,
     ClientReadsKnownPacks, ClientReadsRegistries, ClientReadsPush,
     ClientReadsFinish, ClientReadsLogin, ClientReadsDisconnect, gateVars, readerVars
<1>2. clientConfig'.reg = clientConfig.reg
  <2>1. CASE ClientReadsTags
    BY <2>1 DEF ClientReadsTags, PeerTypeOK, Configs
  <2>2. CASE ~ClientReadsTags
    BY <2>2 DEF ClientEnv, ClientRead, ClientSends, ClientLeaves,
       ClientReadsPlay, ClientReadsKeepAlive, ClientReadsStart,
       ClientReadsKnownPacks, ClientReadsPush,
       ClientReadsFinish, ClientReadsLogin, ClientReadsDisconnect, clientVars
  <2> QED
    BY <2>1, <2>2
<1>3. Same' = Same
  BY <1>1, <1>2 DEF Same
<1>4. RegsSent'
  <2>1. CASE ClientSends \/ ClientLeaves
    <3>1. toClient' = toClient /\ (client' = client \/ client' = "gone")
      BY <2>1 DEF ClientSends, ClientLeaves, clientVars
    <3> QED
      BY <1>1, <1>2, <3>1, SentKept DEF Regs
  <2>2. CASE ClientRead
    <3>1. client # "gone" /\ toClient # << >> /\ toClient' = Tail(toClient)
      BY <2>2, ClientReadFrame
    <3>2. Head(toClient).kind # "registries"
      BY <2>2 DEF ClientRead, ClientReads, ClientReadsPlay, ClientReadsKeepAlive,
         ClientReadsTags, ClientReadsStart, ClientReadsKnownPacks, ClientReadsPush,
         ClientReadsFinish, ClientReadsLogin, ClientReadsDisconnect
    <3> QED
      BY <1>1, <1>2, <3>1, <3>2, SentRead DEF Regs
  <2> QED
    BY <2>1, <2>2 DEF ClientEnv
<1>5. RegsHeld'
  <2>1. CASE ClientReadsPush \/ ClientReadsFinish
    <3>1. Head(toClient).kind \in Closing /\ ClientRead
      BY <2>1 DEF ClientReadsPush, ClientReadsFinish, ClientReads, Closing, ClientRead
    <3>2. Same'
      BY <1>3, <3>1, ClientReadFrame, LoadedShows
    <3> QED
      BY <1>1, <3>2 DEF Regs, RegsHeld
  <2>2. CASE ~(ClientReadsPush \/ ClientReadsFinish)
    <3>1. \/ toGateway' = toGateway
          \/ \E k \in {"ack", "knownReply", "kaReply", "move"}, n \in Nat :
                toGateway' = Append(toGateway, Packet(k, NoConfig, n))
      <4>1. CASE ClientReadsKeepAlive
        <5>1. toClient # << >>
          BY <4>1, ClientReadFrame DEF ClientRead
        <5>2. Head(toClient).n \in Nat
          BY <5>1, HeadTyped DEF ToClientOK
        <5> QED
          BY <4>1, <5>2 DEF ClientReadsKeepAlive, Answer
      <4>2. CASE ~ClientReadsKeepAlive
        BY <2>2, <4>2 DEF ClientEnv, ClientRead, ClientSends, ClientLeaves,
           ClientReadsPlay, ClientReadsTags, ClientReadsStart,
           ClientReadsKnownPacks, ClientReadsLogin, ClientReadsDisconnect, Answer
      <4> QED
        BY <4>1, <4>2
    <3>2. \A k \in {"ack", "knownReply", "kaReply", "move"} : \A n \in Nat :
              /\ Packet(k, NoConfig, n) \in Packets(ServerboundKinds)
              /\ Packet(k, NoConfig, n).kind = k /\ k \notin Loaded
      BY AnswerTyped DEF ServerboundKinds, ServerPlayKinds, ServerConfigKinds, Loaded
    <3>3. Kinds(toGateway') \cap Loaded \subseteq Kinds(toGateway)
      <4>1. CASE toGateway' = toGateway
        BY <4>1
      <4>2. CASE \E k \in {"ack", "knownReply", "kaReply", "move"}, n \in Nat :
                     toGateway' = Append(toGateway, Packet(k, NoConfig, n))
        <5>1. PICK k \in {"ack", "knownReply", "kaReply", "move"}, n \in Nat :
                       toGateway' = Append(toGateway, Packet(k, NoConfig, n))
          BY <4>2
        <5> DEFINE p == Packet(k, NoConfig, n)
        <5>2. /\ p \in Packets(ServerboundKinds) /\ p.kind \notin Loaded
              /\ toGateway' = Append(toGateway, p)
          BY <3>2, <5>1
        <5> HIDE DEF p
        <5>3. Kinds(Append(toGateway, p)) = Kinds(toGateway) \cup {p.kind}
          BY <5>2, AnswerWritten
        <5> QED
          BY <5>2, <5>3
      <4> QED
        BY <3>1, <4>1, <4>2
    <3> QED
      BY <1>1, <1>2, <3>3, HeldKept DEF Regs
  <2> QED
    BY <2>1, <2>2
<1> QED
  BY <1>2, <1>4, <1>5 DEF Regs

\* The client starts with the registries the login packet named.
LEMMA RegsInit == Init => Regs
<1> SUFFICES ASSUME Init PROVE Regs
  OBVIOUS
<1>1. /\ phase = "play" /\ reader = "play" /\ toClient = << >> /\ toGateway = << >>
      /\ clientConfig = curConfig
  BY DEF Init
<1>2. DOMAIN << >> = {}
  OBVIOUS
<1>3. /\ Kinds(<< >>) = {} /\ \A K, L : Before(<< >>, K, L)
      /\ \A K, r : Composed(<< >>, K, r)
  BY <1>2 DEF Kinds, Range, Before, Composed
<1> QED
  BY <1>1, <1>3 DEF Regs, RegsHeld, RegsSent, Same

\* Every step keeps it, of a world that keeps its contract.
LEMMA RegsStep ==
    ASSUME TypeOK, Dialogue, WorldTalk, Regs, [Next]_vars
    PROVE  Regs'
<1>1. CASE \/ UNCHANGED vars \/ Over \/ WorldEnv
           \/ Tick \/ ArmChallenge \/ DeadlineExpires
  <2>1. UNCHANGED <<phase, reader, toClient, toGateway, client, pendingConfig,
                    taken, curConfig, clientConfig>>
    BY <1>1 DEF vars, Over, Tick, ArmChallenge, DeadlineExpires, WorldEnv,
       WorldWrites, WorldSendsFrame, WorldHearsConfigured, WorldRejoins,
       WorldCloses, WorldSendsTags, WorldStartsConfiguration, gateVars,
       readerVars, clientVars
  <2>2. RegsHeld'
    BY <2>1, HeldKept DEF Regs
  <2>3. RegsSent'
    BY <2>1, SentKept DEF Regs
  <2> QED
    BY <2>2, <2>3 DEF Regs
<1>2. CASE WorldReader
  BY <1>2, RegsSends, RegsStart, RegsRejoin DEF WorldReader
<1>3. CASE ClientReader
  BY <1>3, RegsOtherReads, RegsAck, RegsKnownPacks, RegsPackAnswer,
     RegsFinished DEF ClientReader
<1>4. CASE OtherSend \/ TimeOut \/ SendChallenge
  BY <1>4, RegsSends
<1>5. CASE ClientEnv
  BY <1>5, RegsTaken, RegsClient
<1> QED
  BY <1>1, <1>2, <1>3, <1>4, <1>5 DEF Next, KeepAlive

\* What the world asked for last is what the gateway has, or will read last.
Asked ==
    /\ Composed(fromWorld, {"start frame"}, requested.reg)
    /\ "start frame" \notin Kinds(fromWorld) => curConfig.reg = requested.reg

\* What is on its way from the world after one frame more.
LEMMA FrameWritten ==
    ASSUME AttachOK, NEW p \in Packets(FrameKinds)
    PROVE  Range(Append(fromWorld, p)) = Range(fromWorld) \cup {p}
BY RangeAppend DEF AttachOK

\* A frame that asks for no configuration.
LEMMA AskedWritten ==
    ASSUME TypeOK, Asked, NEW p \in Packets(FrameKinds), p.kind # "start frame",
           fromWorld' = Append(fromWorld, p), requested'.reg = requested.reg,
           curConfig' = curConfig
    PROVE  Asked'
<1>1. Composed(fromWorld', {"start frame"}, requested.reg)
  BY ComposedAppend DEF Asked, TypeOK, AttachOK
<1>2. Kinds(Append(fromWorld, p)) = Kinds(fromWorld) \cup {p.kind}
  BY ZenonT(30), KindsAppend DEF TypeOK, AttachOK
<1>3. Kinds(fromWorld') = Kinds(fromWorld) \cup {p.kind}
  BY <1>2
<1> QED
  BY <1>1, <1>3 DEF Asked

\* No step loses what the world asked for: a second MsgStartConfiguration
\* cannot be on its way, as the world waits for the answer to the first.
LEMMA AskedStep ==
    ASSUME Contract, TypeOK, Dialogue, WorldTalk, Asked, [Next]_vars
    PROVE  Asked'
<1> USE DEF TypeOK
<1>1. CASE WorldReader
  <2>1. /\ fromWorld # << >> /\ fromWorld' = Tail(fromWorld) /\ requested' = requested
    BY <1>1 DEF WorldReader, HandlePlayFrame, HandleUpdateTags,
       HandleStartConfiguration, HandleRejoin, NextFrame, worldVars
  <2>2. /\ Composed(fromWorld', {"start frame"}, requested.reg)
        /\ Head(fromWorld).kind = "start frame" =>
               Head(fromWorld).cfg.reg = requested.reg
    BY <2>1, ComposedTail DEF Asked, AttachOK
  <2>3. Kinds(fromWorld) = Kinds(fromWorld') \cup {Head(fromWorld).kind}
    BY <2>1, KindsTail DEF AttachOK
  <2>4. CASE HandleStartConfiguration
    <3>1. Head(fromWorld).kind = "start frame" /\ curConfig' = Head(fromWorld).cfg
      BY <2>4 DEF HandleStartConfiguration, NextFrame
    <3> QED
      BY <2>1, <2>2, <3>1 DEF Asked
  <2>5. CASE ~HandleStartConfiguration
    <3>1. Head(fromWorld).kind # "start frame"
      BY <1>1, <2>5 DEF WorldReader, HandlePlayFrame, HandleUpdateTags,
         HandleRejoin, NextFrame
    <3>2. curConfig'.reg = curConfig.reg
      <4>1. CASE HandleUpdateTags
        BY <4>1 DEF HandleUpdateTags, GateTypeOK, Configs
      <4>2. CASE ~HandleUpdateTags
        BY <1>1, <2>5, <4>2 DEF WorldReader, HandlePlayFrame, HandleRejoin, gateVars
      <4> QED
        BY <4>1, <4>2
    <3> QED
      BY <2>1, <2>2, <2>3, <3>1, <3>2 DEF Asked
  <2> QED
    BY <2>4, <2>5
<1>2. CASE \E c \in Configs : WorldStartsConfiguration(c)
  <2>1. PICK c \in Configs : WorldStartsConfiguration(c)
    BY <1>2
  <2> DEFINE p == Packet("start frame", c, 0)
  <2>2. /\ world = "inLevel" /\ requested' = c /\ fromWorld' = Append(fromWorld, p)
    BY <2>1 DEF WorldStartsConfiguration, WorldWrites
  <2>3. p \in Packets(FrameKinds) /\ p.kind = "start frame" /\ p.cfg = c
    BY FrameTyped DEF Packet
  <2> HIDE DEF p
  <2>4. \A x \in Range(fromWorld) : x.kind # "start frame"
    <3>1. Path(fromWorld, WorldAt, "level")
      BY <2>2 DEF WorldTalk, WorldPath, WorldTo
    <3> QED
      BY <3>1, WorldPlaces, PathOpen DEF AttachOK
  <2>5. Range(fromWorld') = Range(fromWorld) \cup {p}
    <3>1. Range(Append(fromWorld, p)) = Range(fromWorld) \cup {p}
      BY <2>3, FrameWritten
    <3> QED
      BY <2>2, <3>1
  <2>6. Composed(fromWorld', {"start frame"}, requested'.reg)
    BY <2>2, <2>3, <2>4, <2>5 DEF Composed
  <2>7. "start frame" \in Kinds(fromWorld')
    BY <2>3, <2>5 DEF Kinds
  <2> QED
    BY <2>6, <2>7 DEF Asked
<1>3. CASE \E t \in TagSets : WorldSendsTags(t)
  <2>1. PICK t \in TagSets : WorldSendsTags(t)
    BY <1>3
  <2> DEFINE p == Packet("tags", requested', 0)
  <2>2. /\ requested' = [requested EXCEPT !.tags = t]
        /\ fromWorld' = Append(fromWorld, p) /\ curConfig' = curConfig
    BY <2>1 DEF WorldSendsTags, WorldWrites, gateVars
  <2>3. requested' \in Configs /\ requested'.reg = requested.reg
    BY <2>2, RetagTyped DEF PeerTypeOK, Configs
  <2>4. p \in Packets(FrameKinds) /\ p.kind = "tags"
    BY <2>3, FrameTyped
  <2> HIDE DEF p
  <2> QED
    BY <2>2, <2>3, <2>4, AskedWritten
<1>4. CASE WorldSendsFrame \/ WorldRejoins
  <2>1. PICK k \in {"play", "rejoin"} :
            fromWorld' = Append(fromWorld, Packet(k, NoConfig, 0))
    BY <1>4 DEF WorldSendsFrame, WorldRejoins, WorldWrites
  <2>2. requested' = requested /\ curConfig' = curConfig
    BY <1>4 DEF WorldSendsFrame, WorldRejoins, WorldWrites, gateVars
  <2> DEFINE p == Packet(k, NoConfig, 0)
  <2>3. /\ p \in Packets(FrameKinds) /\ p.kind # "start frame"
        /\ fromWorld' = Append(fromWorld, p)
    BY <2>1, FrameTyped
  <2> HIDE DEF p
  <2> QED
    BY <2>2, <2>3, AskedWritten
<1>5. CASE \/ UNCHANGED vars \/ Over \/ ClientReader \/ KeepAlive \/ OtherSend
           \/ DeadlineExpires \/ ClientEnv \/ WorldHearsConfigured \/ WorldCloses
  <2>1. UNCHANGED <<fromWorld, requested, curConfig>>
    BY <1>5 DEF vars, Over, ClientReader, ReadMove, ReadKeepAlive,
       ReadAck, ReadKnownPacks, ReadPackAnswer, ReadFinished, ReportConfigured,
       ReadEOF, KeepAlive, Tick, TimeOut, ArmChallenge, SendChallenge, OtherSend,
       DeadlineExpires, ClientEnv, ClientSends, ClientLeaves, ClientRead,
       ClientReads, ClientReadsPlay, ClientReadsKeepAlive, ClientReadsTags,
       ClientReadsStart, ClientReadsKnownPacks, ClientReadsRegistries,
       ClientReadsPush, ClientReadsFinish, ClientReadsLogin, ClientReadsDisconnect,
       WorldHearsConfigured, WorldCloses, gateVars, worldVars
  <2> QED
    BY <2>1 DEF Asked
<1> QED
  BY <1>1, <1>2, <1>3, <1>4, <1>5 DEF Next, WorldEnv

\* The player was placed with the configuration the world has for it.
LEMMA AskedInit == Init => Asked
<1> SUFFICES ASSUME Init PROVE Asked
  OBVIOUS
<1>1. fromWorld = << >> /\ requested = curConfig
  BY DEF Init
<1>2. DOMAIN << >> = {}
  OBVIOUS
<1>3. \A K, r : Composed(<< >>, K, r)
  BY <1>2 DEF Range, Composed
<1> QED
  BY <1>1, <1>3 DEF Asked

\* What holds when the world keeps the contract.
Contracted == /\ TypeOK /\ Dialogue /\ WorldTalk /\ Regs /\ Asked
              /\ NoProtocolError

\* All of it is an invariant of a session whose world keeps the contract.
LEMMA ContractedHolds == ASSUME Contract PROVE Spec => []Contracted
<1>1. Init => Contracted
  BY TypeInit, DialogueInit, WorldTalkInit, RegsInit, AskedInit
     DEF Contracted, Init, NoProtocolError
<1>2. Contracted /\ [Next]_vars => Contracted'
  BY TypeStep, DialogueStep, WorldTalkStep, RegsStep, AskedStep, SurviveStep
     DEF Contracted
<1> QED
  BY <1>1, <1>2, PTL DEF Spec

\* The keep-alive ticker: a client that answers within an interval, in a
\* session that is not reconfigured, is not timed out, whatever the world does.
THEOREM KeptInTime == Spec => []NoTimeoutInPlay
<1> DEFINE Inv == TypeOK /\ Dialogue /\ InTime
<1>1. Init => Inv
  BY TypeInit, DialogueInit, InTimeInit
<1>2. Inv /\ [Next]_vars => Inv'
  BY TypeStep, DialogueStep, InTimeStep
<1>3. Inv => NoTimeoutInPlay
  BY DEF InTime, NoTimeoutInPlay
<1> QED
  BY <1>1, <1>2, <1>3, PTL DEF Spec

\* With a world that keeps the contract of MsgStartConfiguration, no session of
\* a client that follows the protocol ends by errUnrequestedConfig,
\* errEarlyRejoin or a finish before the registries, nor by a timeout in play.
THEOREM HonestSessionsSurvive == ASSUME Contract PROVE Spec => []HonestSurvive
<1>1. Contracted /\ NoTimeoutInPlay => HonestSurvive
  BY DEF Contracted, HonestSurvive
<1> QED
  BY <1>1, ContractedHolds, KeptInTime, PTL

\* With such a world, the login of rejoin and every update_tags are composed
\* from the registries the client configured itself with (curConfig).
THEOREM LoginsComposedRight ==
    ASSUME Contract PROVE Spec => []ComposedFromClientConfig
<1>1. Contracted => ComposedFromClientConfig
  <2> SUFFICES ASSUME Contracted, client # "gone", toClient # << >>,
                      Head(toClient).kind \in {"login", "tags"}
               PROVE  Head(toClient).cfg.reg = clientConfig.reg
    BY DEF ComposedFromClientConfig
  <2> QED
    BY ComposedTail DEF Contracted, Regs, RegsSent, TypeOK, ToClientOK
<1> QED
  BY <1>1, ContractedHolds, PTL

\* One step of the detailed specification is a step of the promise or none.
LEMMA PromiseStep ==
    ASSUME Contract, Contracted, [Next]_vars
    PROVE  [Promise!Next]_(Promise!absVars)
<1> USE DEF Contracted
<1>1. CASE \E c \in Configs : WorldStartsConfiguration(c)
  <2>1. PICK c \in Configs : WorldStartsConfiguration(c)
    BY <1>1
  <2>2. /\ world = "inLevel" /\ world' = "waiting" /\ requested' = c
        /\ clientConfig' = clientConfig /\ c.reg \in Registries
    BY <2>1 DEF WorldStartsConfiguration, WorldWrites, clientVars, Configs
  <2>3. Promise!Request(c.reg)
    BY <2>2 DEF Promise!Request
  <2> QED
    BY <2>2, <2>3 DEF Promise!Next
<1>2. CASE WorldRejoins
  <2>1. /\ world = "placing" /\ world' = "inLevel"
        /\ UNCHANGED <<requested, clientConfig>>
    BY <1>2 DEF WorldRejoins, WorldWrites, clientVars
  <2>2. phase = "rejoining" /\ fromWorld = << >>
    BY <2>1 DEF WorldTalk, Told
  <2>3. Same
    BY <2>2 DEF Regs, RegsHeld
  <2>4. curConfig.reg = requested.reg
    BY <2>2, NothingOn DEF Asked
  <2>5. Promise!Place
    BY <2>1, <2>3, <2>4 DEF Promise!Place, Same
  <2> QED
    BY <2>5 DEF Promise!Next
<1>3. CASE ClientReadsRegistries
  <2>1. UNCHANGED <<world, requested>>
    BY <1>3 DEF ClientReadsRegistries, ClientReads, worldVars
  <2>2. clientConfig'.reg = curConfig.reg /\ phase = "configuring"
    BY <1>3, RegsTaken
  <2>3. WorldAt = "waiting"
    BY <2>2 DEF WorldAt, Owes
  <2>4. fromWorld = << >>
    <3> SUFFICES ASSUME fromWorld # << >> PROVE FALSE
      OBVIOUS
    <3>1. Head(fromWorld).kind \in ReadableIn("waiting")
      BY <2>3, WorldPlaces, PathTail DEF WorldTalk, WorldPath, TypeOK, AttachOK
    <3> QED
      BY <3>1 DEF ReadableIn
  <2>5. WorldTo = "waiting"
    BY <2>3, <2>4, PathEmpty, WorldPlaces DEF WorldTalk, WorldPath
  <2>6. world # "inLevel"
    BY <2>5 DEF WorldTo
  <2>7. curConfig.reg = requested.reg
    BY <2>4, NothingOn DEF Asked
  <2>8. Promise!Apply
    BY <2>1, <2>2, <2>6, <2>7 DEF Promise!Apply
  <2> QED
    BY <2>8 DEF Promise!Next
<1>4. CASE ~(\/ \E c \in Configs : WorldStartsConfiguration(c)
             \/ WorldRejoins \/ ClientReadsRegistries)
  <2>1. clientConfig'.reg = clientConfig.reg
    <3>1. CASE ClientEnv
      BY <1>4, <3>1, RegsClient
    <3>2. CASE ~ClientEnv
      <4>1. clientConfig' = clientConfig
        BY <3>2 DEF Next, vars, Over, WorldReader, HandlePlayFrame, HandleUpdateTags,
           HandleStartConfiguration, HandleRejoin, ClientReader, ReadMove,
           ReadKeepAlive, ReadAck, ReadKnownPacks, ReadPackAnswer, ReadFinished,
           ReportConfigured, ReadEOF, KeepAlive, Tick, TimeOut, ArmChallenge,
           SendChallenge, OtherSend, DeadlineExpires, WorldEnv, WorldWrites,
           WorldSendsFrame, WorldHearsConfigured, WorldRejoins, WorldCloses,
           WorldSendsTags, WorldStartsConfiguration, clientVars
      <4> QED
        BY <4>1
    <3> QED
      BY <3>1, <3>2
  <2>2. /\ requested'.reg = requested.reg
        /\ world' = world \/ (world = "waiting" /\ world' = "placing")
    <3>1. CASE \E t \in TagSets : WorldSendsTags(t)
      BY <3>1 DEF WorldSendsTags, TypeOK, PeerTypeOK, Configs
    <3>2. CASE WorldSendsFrame \/ WorldHearsConfigured \/ WorldCloses
      BY <3>2 DEF WorldSendsFrame, WorldHearsConfigured, WorldCloses, worldVars
    <3>3. CASE ~WorldEnv
      <4>1. UNCHANGED <<requested, world>>
        BY <3>3 DEF Next, vars, Over, WorldReader, HandlePlayFrame, HandleUpdateTags,
           HandleStartConfiguration, HandleRejoin, ClientReader, ReadMove,
           ReadKeepAlive, ReadAck, ReadKnownPacks, ReadPackAnswer, ReadFinished,
           ReportConfigured, ReadEOF, KeepAlive, Tick, TimeOut, ArmChallenge,
           SendChallenge, OtherSend, DeadlineExpires, ClientEnv, ClientSends,
           ClientLeaves, ClientRead, ClientReads, ClientReadsPlay,
           ClientReadsKeepAlive, ClientReadsTags, ClientReadsStart,
           ClientReadsKnownPacks, ClientReadsRegistries, ClientReadsPush,
           ClientReadsFinish, ClientReadsLogin, ClientReadsDisconnect, worldVars
      <4> QED
        BY <4>1
    <3> QED
      BY <1>4, <3>1, <3>2, <3>3 DEF WorldEnv
  <2> QED
    BY <2>1, <2>2 DEF Promise!absVars
<1> QED
  BY <1>1, <1>2, <1>3, <1>4

\* With such a world, the gateway refines PlayerConfig: a player is placed again
\* only once its client has configured itself with what the world asked for.
THEOREM PromiseKept == ASSUME Contract PROVE Spec => KeepsPromise
<1>1. Init => Promise!Init
  BY DEF Init, Promise!Init, Configs
<1>2. Contracted /\ [Next]_vars => [Promise!Next]_(Promise!absVars)
  BY PromiseStep
<1> QED
  BY <1>1, <1>2, ContractedHolds, PTL DEF Spec, KeepsPromise, Promise!Spec
=============================================================================
