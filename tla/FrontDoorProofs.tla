--------------------------- MODULE FrontDoorProofs ---------------------------
(***************************************************************************)
(* Theorems about FrontDoor: nobody enters who has not earned it, the last *)
(* words of a login can be read, and what the two caches hold is as young  *)
(* as they say, for any number of connections, any timeouts and lifetimes  *)
(* and every mode.  Good says of one connection what its properties need   *)
(* of its goroutine's place; Inv says it of all of them, and dates what    *)
(* the caches hold.                                                        *)
(***************************************************************************)
EXTENDS FrontDoor, TLAPS

\* A connection's call is within its time, and has the lock if it asks the
\* world; what the world told it is no older than the roster held.
Timely(r, c, h, old) ==
    /\ r.at \in Calling => r.t <= Timeout(r)
    /\ r.at = "crypt" => r.t = 0
    /\ r.at \in {"query", "told"} <=> h = c
    /\ r.at = "query" => r.age = 0
    /\ r.at = "told" => r.age <= r.t /\ r.age <= old

\* What a login has shown so far, and in what words it ends.
Earned(r, m) ==
    /\ r.at # "over" => r.said = None /\ r.cipher = r.client
    /\ r.said # None => r.said = r.client
    /\ (m.online /\ r.at \in {"join", "check", "fetch", "judged", "session"}) => r.cipher
    /\ (m.online /\ r.at \in {"check", "fetch", "judged", "session"}) => r.genuine
    /\ r.at = "session" => m.linked /\ (m.gated => r.answer = TRUE)

\* The verdict it has is a real one, and was true since it was asked for.
Dated(r, a, f) ==
    /\ r.at \notin {"judged", "session", "over"} => r.answer = None
    /\ r.at = "judged" => r.answer \in BOOLEAN /\ (r.answer # a => f <= r.t)

Good(r, c) ==
    r \in Connection /\ Timely(r, c, holder, roster.old) /\ Earned(r, mode)
      /\ Dated(r, allowed, flipped)

RosterDated == (roster.have /\ roster.at < StatusTTL) => roster.old <= roster.at + QueryTimeout
VerdictDated == (verdict.left > 0 /\ verdict.allow # allowed) => flipped <= AccessTTL - verdict.left

Inv ==
    /\ TypeOK
    /\ \A c \in Conns : Good(conn[c], c)
    /\ RosterDated /\ VerdictDated

-----------------------------------------------------------------------------
(* A step of one connection.                                               *)

\* It becomes a good one.
Moves(c) == \E r : Is(c, r) /\ Good(r, c)

\* That leaves the others as they are.
LEMMA OneMoves ==
    ASSUME Inv, NEW c \in Conns, Moves(c), UNCHANGED <<mode, pings, allowed, flipped>>,
           verdict' \in [allow : BOOLEAN, left : 0 .. AccessTTL], VerdictDated'
    PROVE  Inv'
<1> PICK r : Is(c, r) /\ Good(r, c)
  BY DEF Moves
<1>1. conn' \in [Conns -> Connection]
  BY DEF Inv, TypeOK, Is, Good
<1>2. TypeOK'
  BY <1>1 DEF Inv, TypeOK, pings
<1>3. ASSUME NEW d \in Conns PROVE Good(conn[d], d)'
  <2>1. CASE d = c
    <3>1. conn'[d] = r
      BY <2>1 DEF Inv, TypeOK, Is
    <3>2. QED
      BY <2>1, <3>1 DEF Good, pings
  <2>2. CASE d # c
    <3>1. conn'[d] = conn[d]
      BY <2>2 DEF Inv, TypeOK, Is
    <3>2. QED
      BY <3>1 DEF Inv, Good, pings
  <2>3. QED
    BY <2>1, <2>2
<1>4. QED
  BY <1>2, <1>3 DEF Inv, RosterDated, pings

LEMMA OnlyMoves ==
    ASSUME Inv, NEW c \in Conns, Moves(c), UNCHANGED <<mode, pings, access>>
    PROVE  Inv'
BY OneMoves DEF Inv, TypeOK, VerdictDated, access

\* A step that takes or gives back the roster's lock.
LEMMA OneServes ==
    ASSUME Inv, NEW c \in Conns, conn' \in [Conns -> Connection],
           \A d \in Conns \ {c} : conn'[d] = conn[d],
           Good(conn[c], c)', holder \in {None, c}, holder' \in {None, c},
           roster' = roster \/ holder = c,
           roster' \in [have : BOOLEAN, at : 0 .. StatusTTL, old : 0 .. Oldest],
           RosterDated', UNCHANGED <<mode, access>>
    PROVE  Inv'
<1>1. TypeOK'
  BY DEF Inv, TypeOK, access
<1>2. ASSUME NEW d \in Conns PROVE Good(conn[d], d)'
  <2>1. CASE d = c
    BY <2>1
  <2>2. CASE d # c
    <3>1. conn'[d] = conn[d] /\ holder # d /\ holder' # d
      BY <2>2, NoneAssumption
    <3>2. Good(conn[d], d)
      BY DEF Inv
    <3>3. conn[d].at \notin {"query", "told"}
      BY <3>1, <3>2 DEF Good, Timely
    <3>4. QED
      BY <3>1, <3>2, <3>3 DEF Good, Timely, access
  <2>3. QED
    BY <2>1, <2>2
<1>3. VerdictDated'
  BY DEF Inv, VerdictDated, access
<1>4. QED
  BY <1>1, <1>2, <1>3 DEF Inv

-----------------------------------------------------------------------------
(* Connections that have become good ones.                                 *)

LEMMA Deadlines == ConnTimeout \in 0 .. ConnTimeout /\ 0 \in 0 .. ConnTimeout
<1>1. ConnTimeout \in Nat
  BY TimesAssumption
<1>2. QED
  BY <1>1

LEMMA NoConnGood ==
    ASSUME Inv, NEW c \in Conns, holder # c
    PROVE  Good(NoConn, c)
BY TimesAssumption DEF Good, NoConn, Connection, Places, Reading, Calling, Timely, Earned, Dated

LEMMA CloseMoves ==
    ASSUME Inv, NEW c \in Conns, holder # c, Closed(c)
    PROVE  Moves(c)
BY NoConnGood DEF Closed, Moves

\* Last words, from a login that is in step with its client.
LEMMA DisconnectMoves ==
    ASSUME Inv, NEW c \in Conns, NEW r \in Connection, holder # c, r.cipher = r.client,
           Disconnect(c, r)
    PROVE  Moves(c)
<1> DEFINE last == [NoConn EXCEPT !.at = "over", !.said = r.cipher, !.client = r.client,
                                  !.answer = r.answer]
<1>1. CASE r.left = 0
  BY <1>1, NoConnGood DEF Disconnect, Moves
<1>2. CASE r.left # 0
  <2>1. NoConn \in Connection
    BY NoConnGood DEF Good
  <2>2. last \in Connection
    BY <2>1 DEF Connection, Places
  <2>3. last.at = "over" /\ last.said = r.cipher /\ last.client = r.client
    BY <2>1 DEF Connection
  <2>4. Good(last, c)
    BY <2>3, <2>2 DEF Good, Timely, Earned, Dated, Calling
  <2>5. Is(c, last)
    BY <1>2 DEF Disconnect
  <2>6. QED
    BY <2>4, <2>5 DEF Moves
<1>3. QED
  BY <1>1, <1>2

\* A connection in a place where it neither asks the world nor has a verdict.
LEMMA ToMoves ==
    ASSUME Inv, NEW c \in Conns,
           NEW place \in Places \ {"query", "told", "judged", "session", "over"},
           holder # c, conn[c].at \notin {"judged", "session", "over"},
           mode.online /\ place \in {"join", "check", "fetch"} => conn[c].cipher,
           mode.online /\ place \in {"check", "fetch"} => conn[c].genuine,
           To(c, place)
    PROVE  Moves(c)
<1> DEFINE r == [conn[c] EXCEPT !.at = place, !.t = 0, !.age = 0]
<1>1. Good(conn[c], c)
  BY DEF Inv
<1>2. r \in Connection
  BY <1>1 DEF Good, Connection
<1>3. /\ r.at = place /\ r.t = 0 /\ r.cipher = conn[c].cipher /\ r.client = conn[c].client
      /\ r.genuine = conn[c].genuine /\ r.answer = conn[c].answer /\ r.said = conn[c].said
  BY <1>1 DEF Good, Connection
<1>4. Timely(r, c, holder, roster.old)
  BY <1>3, TimesAssumption DEF Timely, Calling, Timeout
<1>5. Earned(r, mode) /\ Dated(r, allowed, flipped)
  BY <1>1, <1>3 DEF Good, Earned, Dated
<1>6. Good(r, c)
  BY <1>2, <1>4, <1>5 DEF Good
<1>7. QED
  BY <1>6 DEF To, Moves

\* A session, once the login is authenticated and authorized.
LEMMA EnterMoves ==
    ASSUME Inv, NEW c \in Conns, NEW a \in BOOLEAN \cup {None},
           conn[c].at \in {"check", "judged"}, mode.gated => a = TRUE,
           Enter(c, [conn[c] EXCEPT !.answer = a])
    PROVE  Moves(c)
<1> DEFINE q == [conn[c] EXCEPT !.answer = a]
           r == [q EXCEPT !.at = "session", !.left = 0, !.t = 0]
<1>1. Good(conn[c], c)
  BY DEF Inv
<1>2. holder # c
  BY <1>1 DEF Good, Timely
<1>3. q \in Connection
  BY <1>1 DEF Good, Connection
<1>4. /\ q.cipher = conn[c].cipher /\ q.client = conn[c].client /\ q.said = conn[c].said
      /\ q.genuine = conn[c].genuine /\ q.answer = a
  BY <1>1 DEF Good, Connection
<1>5. q.cipher = q.client
  BY <1>1, <1>4 DEF Good, Earned
<1> HIDE DEF q
<1>6. CASE Disconnect(c, q)
  BY <1>2, <1>3, <1>5, <1>6, DisconnectMoves DEF q
<1>7. CASE mode.linked /\ Is(c, r)
  <2>1. r \in Connection
    <3>1. 0 \in 0 .. ConnTimeout /\ "session" \in Places
      BY TimesAssumption DEF Places
    <3>2. QED
      BY <1>3, <3>1 DEF Connection
  <2>2. /\ r.at = "session" /\ r.cipher = q.cipher /\ r.client = q.client /\ r.said = q.said
        /\ r.genuine = q.genuine /\ r.answer = q.answer
    BY <1>3 DEF Connection
  <2>3. Timely(r, c, holder, roster.old) /\ Dated(r, allowed, flipped)
    BY <1>2, <2>2 DEF Timely, Dated, Calling
  <2>4. Earned(r, mode)
    BY <1>1, <1>4, <1>7, <2>2 DEF Good, Earned
  <2>5. Good(r, c)
    BY <2>1, <2>3, <2>4 DEF Good
  <2>6. QED
    BY <1>7, <2>5 DEF Moves
<1>8. QED
  BY <1>6, <1>7 DEF Enter, q

\* A verdict is acted on.
LEMMA DecideMoves ==
    ASSUME Inv, NEW c \in Conns, NEW a \in BOOLEAN, conn[c].at \in {"check", "judged"},
           Decide(c, a)
    PROVE  Moves(c)
<1> DEFINE q == [conn[c] EXCEPT !.answer = a]
<1>1. Good(conn[c], c)
  BY DEF Inv
<1>2. holder # c
  BY <1>1 DEF Good, Timely
<1>3. q \in Connection
  BY <1>1 DEF Good, Connection
<1>4. q.cipher = conn[c].cipher /\ q.client = conn[c].client
  BY <1>1 DEF Good, Connection
<1>5. q.cipher = q.client
  BY <1>1, <1>4 DEF Good, Earned
<1>6. CASE a
  BY <1>6, EnterMoves DEF Decide
<1>7. CASE ~a
  <2>1. Disconnect(c, q)
    BY <1>7 DEF Decide
  <2> HIDE DEF q
  <2>2. QED
    BY <1>2, <1>3, <1>5, <2>1, DisconnectMoves
<1>8. QED
  BY <1>6, <1>7

-----------------------------------------------------------------------------
(* The steps of the client.                                                *)

LEMMA Idle == ASSUME Inv, NEW c \in Conns, conn[c].at \notin {"query", "told"}
              PROVE  holder # c /\ conn[c] \in Connection
BY DEF Inv, Good, Timely

LEMMA AcceptStep ==
    ASSUME Inv, NEW c \in Conns, Accept(c)
    PROVE  Inv'
<1> DEFINE r == [NoConn EXCEPT !.at = "hello", !.left = ConnTimeout]
<1>1. holder # c
  BY Idle DEF Accept, At
<1>2. Good(NoConn, c)
  BY <1>1, NoConnGood
<1>3. r \in Connection
  BY <1>2, Deadlines DEF Good, Connection, Places, Reading
<1>4. /\ r.at = "hello" /\ r.cipher = NoConn.cipher /\ r.client = NoConn.client
      /\ r.said = NoConn.said /\ r.answer = NoConn.answer
  BY <1>2 DEF Good, Connection
<1>5. Good(r, c)
  BY <1>1, <1>3, <1>4 DEF Good, Timely, Earned, Dated, Calling, NoConn
<1>6. QED
  BY <1>5, OnlyMoves DEF Accept, Moves

LEMMA DropStep ==
    ASSUME Inv, NEW c \in Conns, Drop(c)
    PROVE  Inv'
BY Idle, CloseMoves, OnlyMoves DEF Drop, Reading

LEMMA GoneStep ==
    ASSUME Inv, NEW c \in Conns, Gone(c)
    PROVE  Inv'
BY Idle, CloseMoves, OnlyMoves DEF Gone

\* The deadline of the exchange that follows is a new one.
LEMMA StatusGood ==
    ASSUME Inv, NEW c \in Conns, holder # c, conn[c].at = "hello"
    PROVE  Good([conn[c] EXCEPT !.at = "status", !.left = ConnTimeout], c)
<1> DEFINE r == [conn[c] EXCEPT !.at = "status", !.left = ConnTimeout]
<1>1. Good(conn[c], c)
  BY DEF Inv
<1>2. r \in Connection
  BY <1>1, Deadlines DEF Good, Connection, Places, Reading
<1>3. /\ r.at = "status" /\ r.cipher = conn[c].cipher /\ r.client = conn[c].client
      /\ r.said = conn[c].said /\ r.answer = conn[c].answer
  BY <1>1 DEF Good, Connection
<1>4. Timely(r, c, holder, roster.old)
  BY <1>3 DEF Timely, Calling
<1>5. Earned(r, mode) /\ Dated(r, allowed, flipped)
  BY <1>1, <1>3 DEF Good, Earned, Dated
<1>6. QED
  BY <1>2, <1>4, <1>5 DEF Good

LEMMA HandshakeStep ==
    ASSUME Inv, NEW c \in Conns, Handshake(c)
    PROVE  Inv'
<1>1. holder # c /\ conn[c].at = "hello" /\ UNCHANGED <<mode, pings, access>>
  BY Idle DEF Handshake, At
<1>2. conn[c] \in Connection /\ conn[c].cipher = conn[c].client
  BY <1>1 DEF Inv, Good, Earned
<1>3. CASE Is(c, [conn[c] EXCEPT !.at = "status", !.left = ConnTimeout])
  BY <1>1, <1>3, StatusGood, OnlyMoves DEF Moves
<1>4. CASE To(c, "start")
  BY <1>1, <1>4, ToMoves, OnlyMoves DEF Places, Reading
<1>5. CASE Disconnect(c, conn[c])
  BY <1>1, <1>2, <1>5, DisconnectMoves, OnlyMoves
<1>6. QED
  BY <1>3, <1>4, <1>5 DEF Handshake

LEMMA StatusRequestStep ==
    ASSUME Inv, NEW c \in Conns, StatusRequest(c)
    PROVE  Inv'
BY Idle, ToMoves, OnlyMoves DEF StatusRequest, At, Places

LEMMA LoginStartStep ==
    ASSUME Inv, NEW c \in Conns, LoginStart(c)
    PROVE  Inv'
<1>1. holder # c /\ conn[c].at = "start" /\ UNCHANGED <<mode, pings, access>>
  BY Idle DEF LoginStart, At
<1>2. CASE mode.online
  BY <1>1, <1>2, ToMoves, OnlyMoves DEF LoginStart, Places, Reading
<1>3. CASE ~mode.online
  BY <1>1, <1>3, ToMoves, OnlyMoves DEF LoginStart, Places
<1>4. QED
  BY <1>2, <1>3

LEMMA EncryptionStep ==
    ASSUME Inv, NEW c \in Conns, EncryptionResponse(c)
    PROVE  Inv'
<1>1. holder # c /\ conn[c].at = "crypt" /\ UNCHANGED <<mode, pings, access>>
  BY Idle DEF EncryptionResponse, At
<1>2. CASE Closed(c)
  BY <1>1, <1>2, CloseMoves, OnlyMoves
<1>3. ASSUME NEW own \in BOOLEAN,
             Is(c, [conn[c] EXCEPT !.at = "join", !.genuine = own, !.cipher = TRUE,
                                   !.client = TRUE])
      PROVE  Inv'
  <2> DEFINE r == [conn[c] EXCEPT !.at = "join", !.genuine = own, !.cipher = TRUE,
                                  !.client = TRUE]
  <2>1. Good(conn[c], c)
    BY DEF Inv
  <2>2. r \in Connection
    BY <2>1 DEF Good, Connection, Places, Calling
  <2>3. /\ r.at = "join" /\ r.cipher = TRUE /\ r.client = TRUE /\ r.t = conn[c].t
        /\ r.said = conn[c].said /\ r.answer = conn[c].answer
    BY <2>1 DEF Good, Connection
  <2>4. Timely(r, c, holder, roster.old)
    BY <1>1, <2>1, <2>3, TimesAssumption DEF Good, Timely, Timeout
  <2>5. Earned(r, mode) /\ Dated(r, allowed, flipped)
    BY <1>1, <2>1, <2>3 DEF Good, Earned, Dated
  <2>6. Good(r, c)
    BY <2>2, <2>4, <2>5 DEF Good
  <2>7. QED
    BY <1>1, <1>3, <2>6, OnlyMoves DEF Moves
<1>4. QED
  BY <1>1, <1>2, <1>3 DEF EncryptionResponse

-----------------------------------------------------------------------------
(* The steps that the services are waited for.                             *)

\* What a connection is after a response.
Answered == [NoConn EXCEPT !.at = "status", !.left = ConnTimeout]

\* The exchange is over, and the lock with it.
LEMMA RespondGood ==
    ASSUME Inv, NEW c \in Conns, Respond(c), holder' # c, UNCHANGED <<mode, access>>
    PROVE  /\ conn' \in [Conns -> Connection]
           /\ \A d \in Conns \ {c} : conn'[d] = conn[d]
           /\ Good(conn[c], c)'
<1>1. /\ NoConn \in Connection /\ NoConn.at = "idle" /\ NoConn.said = None
      /\ NoConn.cipher = NoConn.client /\ NoConn.answer = None
  BY TimesAssumption DEF NoConn, Connection, Places
<1>2. Answered \in Connection
  BY <1>1, Deadlines DEF Answered, Connection, Places, Reading
<1>3. /\ Answered.at = "status" /\ Answered.said = None
      /\ Answered.cipher = Answered.client /\ Answered.answer = None
  BY <1>1 DEF Answered, Connection
<1>4. Is(c, NoConn) \/ Is(c, Answered)
  BY DEF Respond, Answered
<1>5. conn' \in [Conns -> Connection] /\ conn'[c] \in {NoConn, Answered}
  BY <1>1, <1>2, <1>4 DEF Inv, TypeOK, Is
<1>6. \A d \in Conns \ {c} : conn'[d] = conn[d]
  BY <1>4 DEF Inv, TypeOK, Is
<1>7. /\ conn'[c].at \in {"idle", "status"} /\ conn'[c].said = None
      /\ conn'[c].cipher = conn'[c].client /\ conn'[c].answer = None
  BY <1>1, <1>3, <1>5
<1>8. QED
  BY <1>5, <1>6, <1>7 DEF Good, Timely, Earned, Dated, Calling

LEMMA GetStep ==
    ASSUME Inv, NEW c \in Conns, Get(c)
    PROVE  Inv'
<1>1. /\ conn[c].at = "lock" /\ holder = None /\ roster' = roster
      /\ UNCHANGED <<mode, access>>
  BY DEF Get, At
<1>2. roster' \in [have : BOOLEAN, at : 0 .. StatusTTL, old : 0 .. Oldest] /\ RosterDated'
  BY <1>1 DEF Inv, TypeOK, RosterDated
<1>3. CASE Respond(c) /\ UNCHANGED holder
  <2>1. holder' # c
    BY <1>1, <1>3, NoneAssumption
  <2>2. QED
    BY <1>1, <1>2, <1>3, <2>1, RespondGood, OneServes
<1>4. CASE To(c, "query") /\ holder' = c
  <2> DEFINE r == [conn[c] EXCEPT !.at = "query", !.t = 0, !.age = 0]
  <2>1. Good(conn[c], c)
    BY DEF Inv
  <2>2. r \in Connection
    BY <2>1 DEF Good, Connection, Places, Calling
  <2>3. /\ r.at = "query" /\ r.t = 0 /\ r.age = 0 /\ r.cipher = conn[c].cipher
        /\ r.client = conn[c].client /\ r.said = conn[c].said /\ r.answer = conn[c].answer
    BY <2>1 DEF Good, Connection
  <2>4. Timely(r, c, c, roster.old) /\ Earned(r, mode) /\ Dated(r, allowed, flipped)
    BY <1>1, <2>1, <2>3, TimesAssumption DEF Good, Timely, Earned, Dated, Timeout
  <2>5. Is(c, r)
    BY <1>4 DEF To
  <2> HIDE DEF r
  <2>6. conn' \in [Conns -> Connection] /\ conn'[c] = r
        /\ \A d \in Conns \ {c} : conn'[d] = conn[d]
    BY <2>2, <2>5 DEF Inv, TypeOK, Is
  <2>7. Good(conn[c], c)'
    BY <1>1, <1>4, <2>2, <2>4, <2>6 DEF Good, access
  <2>8. QED
    BY <1>1, <1>2, <1>4, <2>6, <2>7, OneServes
<1>5. QED
  BY <1>3, <1>4 DEF Get

LEMMA WorldAnswersStep ==
    ASSUME Inv, NEW c \in Conns, WorldAnswers(c)
    PROVE  Inv'
<1> DEFINE r == [conn[c] EXCEPT !.at = "told"]
<1>1. Good(conn[c], c) /\ conn[c].at = "query" /\ roster.old \in Nat
  BY TimesAssumption DEF Inv, TypeOK, WorldAnswers, At
<1>2. r \in Connection
  BY <1>1 DEF Good, Connection, Places, Calling
<1>3. /\ r.at = "told" /\ r.t = conn[c].t /\ r.age = conn[c].age /\ r.cipher = conn[c].cipher
      /\ r.client = conn[c].client /\ r.said = conn[c].said /\ r.answer = conn[c].answer
  BY <1>1 DEF Good, Connection
<1>4. conn[c].t \in Nat
  BY <1>1 DEF Good, Connection
<1>5. Timely(r, c, holder, roster.old)
  BY <1>1, <1>3, <1>4 DEF Good, Timely, Timeout, Calling
<1>6. Earned(r, mode) /\ Dated(r, allowed, flipped)
  BY <1>1, <1>3 DEF Good, Earned, Dated
<1>7. Good(r, c)
  BY <1>2, <1>5, <1>6 DEF Good
<1>8. QED
  BY <1>7, OnlyMoves DEF WorldAnswers, Moves

LEMMA RosterReadStep ==
    ASSUME Inv, NEW c \in Conns, RosterRead(c)
    PROVE  Inv'
<1>1. /\ Good(conn[c], c) /\ conn[c].at = "told" /\ Respond(c) /\ holder' = None
      /\ roster' = [have |-> TRUE, at |-> 0, old |-> conn[c].age] /\ UNCHANGED <<mode, access>>
  BY DEF Inv, RosterRead, At
<1>2. holder = c /\ holder' # c
  BY <1>1, NoneAssumption DEF Good, Timely
<1>3. conn[c].age \in Nat /\ conn[c].age <= QueryTimeout
  BY <1>1, TimesAssumption DEF Good, Timely, Connection, Timeout, Calling
<1>4. roster' \in [have : BOOLEAN, at : 0 .. StatusTTL, old : 0 .. Oldest] /\ RosterDated'
  BY <1>1, <1>3, TimesAssumption DEF RosterDated, Oldest
<1>5. QED
  BY <1>1, <1>2, <1>4, RespondGood, OneServes

LEMMA QueryFailsStep ==
    ASSUME Inv, NEW c \in Conns, QueryFails(c)
    PROVE  Inv'
<1>1. /\ Good(conn[c], c) /\ conn[c].at \in {"query", "told"} /\ Respond(c) /\ holder' = None
      /\ roster' = roster /\ UNCHANGED <<mode, access>>
  BY DEF Inv, QueryFails
<1>2. holder = c /\ holder' # c
  BY <1>1, NoneAssumption DEF Good, Timely
<1>3. roster' \in [have : BOOLEAN, at : 0 .. StatusTTL, old : 0 .. Oldest] /\ RosterDated'
  BY <1>1 DEF Inv, TypeOK, RosterDated
<1>4. QED
  BY <1>1, <1>2, <1>3, RespondGood, OneServes

LEMMA HasJoinedStep ==
    ASSUME Inv, NEW c \in Conns, HasJoined(c)
    PROVE  Inv'
<1>1. holder # c /\ conn[c].at = "join" /\ UNCHANGED <<mode, pings, access>>
  BY Idle DEF HasJoined, At
<1>2. Good(conn[c], c)
  BY DEF Inv
<1>3. CASE conn[c].genuine /\ To(c, "check")
  BY <1>1, <1>2, <1>3, ToMoves, OnlyMoves DEF Places, Good, Earned
<1>4. CASE Disconnect(c, conn[c])
  <2>1. conn[c] \in Connection /\ conn[c].cipher = conn[c].client
    BY <1>1, <1>2 DEF Good, Earned
  <2>2. QED
    BY <1>1, <1>4, <2>1, DisconnectMoves, OnlyMoves
<1>5. QED
  BY <1>3, <1>4 DEF HasJoined

LEMMA CheckStep ==
    ASSUME Inv, NEW c \in Conns, Check(c)
    PROVE  Inv'
<1>1. holder # c /\ conn[c].at = "check" /\ UNCHANGED <<mode, pings, access>>
  BY Idle DEF Check, At
<1>2. Good(conn[c], c)
  BY DEF Inv
<1>3. CASE ~mode.gated /\ Enter(c, conn[c])
  <2>1. conn[c].answer = None /\ conn[c] = [conn[c] EXCEPT !.answer = None]
    BY <1>1, <1>2 DEF Good, Dated, Connection
  <2>2. Enter(c, [conn[c] EXCEPT !.answer = None])
    BY <1>3, <2>1
  <2>3. Moves(c)
    BY <1>1, <1>3, <2>2, EnterMoves
  <2>4. QED
    BY <1>1, <2>3, OnlyMoves
<1>4. CASE Decide(c, verdict.allow)
  BY <1>1, <1>4, DecideMoves, OnlyMoves DEF Inv, TypeOK
<1>5. CASE To(c, "fetch")
  BY <1>1, <1>2, <1>5, ToMoves, OnlyMoves DEF Places, Calling, Good, Earned
<1>6. QED
  BY <1>3, <1>4, <1>5 DEF Check

LEMMA ServiceJudgesStep ==
    ASSUME Inv, NEW c \in Conns, ServiceJudges(c)
    PROVE  Inv'
<1> DEFINE r == [conn[c] EXCEPT !.at = "judged", !.answer = allowed]
<1>1. Good(conn[c], c) /\ conn[c].at = "fetch" /\ allowed \in BOOLEAN
  BY DEF Inv, TypeOK, ServiceJudges, At
<1>2. r \in Connection
  BY <1>1 DEF Good, Connection, Places, Calling
<1>3. /\ r.at = "judged" /\ r.t = conn[c].t /\ r.answer = allowed /\ r.cipher = conn[c].cipher
      /\ r.client = conn[c].client /\ r.said = conn[c].said /\ r.genuine = conn[c].genuine
  BY <1>1 DEF Good, Connection
<1>4. Timely(r, c, holder, roster.old)
  BY <1>1, <1>3 DEF Good, Timely, Timeout, Calling
<1>5. Earned(r, mode) /\ Dated(r, allowed, flipped)
  BY <1>1, <1>3 DEF Good, Earned, Dated
<1>6. Good(r, c)
  BY <1>2, <1>4, <1>5 DEF Good
<1>7. QED
  BY <1>6, OnlyMoves DEF ServiceJudges, Moves

LEMMA VerdictReadStep ==
    ASSUME Inv, NEW c \in Conns, VerdictRead(c)
    PROVE  Inv'
<1>1. /\ Good(conn[c], c) /\ conn[c].at = "judged" /\ Decide(c, conn[c].answer)
      /\ verdict' = [allow |-> conn[c].answer, left |-> AccessTTL - conn[c].t]
      /\ UNCHANGED <<mode, pings, allowed, flipped>>
  BY DEF Inv, VerdictRead, At
<1>2. conn[c].answer \in BOOLEAN /\ (conn[c].answer # allowed => flipped <= conn[c].t)
  BY <1>1 DEF Good, Dated
<1>3. conn[c].t \in Nat /\ conn[c].t <= CheckTimeout
  BY <1>1, TimesAssumption DEF Good, Timely, Connection, Timeout, Calling
<1>4. AccessTTL - conn[c].t \in 0 .. AccessTTL
  BY <1>3, TimesAssumption
<1>5. verdict' \in [allow : BOOLEAN, left : 0 .. AccessTTL]
  BY <1>1, <1>2, <1>4
<1>6. VerdictDated'
  <2>1. verdict'.allow = conn[c].answer /\ verdict'.left = AccessTTL - conn[c].t
    BY <1>1
  <2>2. AccessTTL - (AccessTTL - conn[c].t) = conn[c].t
    BY <1>3, TimesAssumption
  <2>3. QED
    BY <1>1, <1>2, <2>1, <2>2 DEF VerdictDated
<1>7. Moves(c)
  BY <1>1, <1>2, DecideMoves
<1>8. QED
  BY <1>1, <1>5, <1>6, <1>7, OneMoves

LEMMA FailClosedStep ==
    ASSUME Inv, NEW c \in Conns, FailClosed(c)
    PROVE  Inv'
<1> DEFINE q == [conn[c] EXCEPT !.answer = None]
<1>1. /\ holder # c /\ conn[c].at \in {"fetch", "judged"} /\ Disconnect(c, q)
      /\ UNCHANGED <<mode, pings, access>>
  BY Idle DEF FailClosed
<1>2. Good(conn[c], c)
  BY DEF Inv
<1>3. q \in Connection
  BY <1>2 DEF Good, Connection
<1>4. q.cipher = conn[c].cipher /\ q.client = conn[c].client
  BY <1>2 DEF Good, Connection
<1>5. q.cipher = q.client
  BY <1>1, <1>2, <1>4 DEF Good, Earned
<1> HIDE DEF q
<1>6. QED
  BY <1>1, <1>3, <1>5, DisconnectMoves, OnlyMoves

-----------------------------------------------------------------------------
(* The steps of no connection.                                             *)

LEMMA CacheClearedStep == ASSUME Inv, CacheCleared PROVE Inv'
<1>1. verdict' \in [allow : BOOLEAN, left : 0 .. AccessTTL] /\ verdict'.left = 0
  BY TimesAssumption DEF Inv, TypeOK, CacheCleared
<1>2. UNCHANGED <<mode, conn, holder, roster, allowed, flipped>>
  BY DEF CacheCleared, pings
<1>3. TypeOK'
  BY <1>1, <1>2 DEF Inv, TypeOK
<1>4. \A c \in Conns : Good(conn[c], c)'
  BY <1>2 DEF Inv, Good
<1>5. RosterDated' /\ VerdictDated'
  BY <1>1, <1>2 DEF Inv, RosterDated, VerdictDated
<1>6. QED
  BY <1>3, <1>4, <1>5 DEF Inv

\* Just now, whatever is thought of it.
LEMMA PolicyChangesStep == ASSUME Inv, PolicyChanges PROVE Inv'
<1>1. /\ UNCHANGED <<mode, conn, holder, roster, verdict>> /\ flipped' = 0
      /\ allowed' \in BOOLEAN
  BY DEF PolicyChanges, pings, Inv, TypeOK
<1>2. TypeOK'
  BY <1>1, TimesAssumption DEF Inv, TypeOK
<1>3. ASSUME NEW c \in Conns PROVE Good(conn[c], c)'
  <2>1. Good(conn[c], c) /\ conn[c].t \in Nat
    BY DEF Inv, Good, Connection
  <2>2. Dated(conn[c], allowed, flipped)'
    BY <1>1, <2>1 DEF Good, Dated
  <2>3. QED
    BY <1>1, <2>1, <2>2 DEF Good
<1>4. RosterDated' /\ VerdictDated'
  BY <1>1, TimesAssumption DEF Inv, TypeOK, RosterDated, VerdictDated
<1>5. QED
  BY <1>2, <1>3, <1>4 DEF Inv

-----------------------------------------------------------------------------
(* Time.                                                                   *)

\* One connection, a tick older: no call was due, so none is past its time.
LEMMA OlderGood ==
    ASSUME Inv, Tick, NEW c \in Conns
    PROVE  Good(conn[c], c)'
<1> DEFINE r == Older(conn[c])
<1>1. /\ Good(conn[c], c) /\ ~Due(conn[c]) /\ conn'[c] = r
      /\ roster'.old = Least(roster.old + 1, Oldest)
      /\ flipped' = Least(flipped + 1, AccessTTL) /\ UNCHANGED <<mode, holder, allowed>>
  BY DEF Inv, TypeOK, Tick
<1>2. /\ conn[c].left \in 0 .. ConnTimeout /\ conn[c].t \in Nat /\ conn[c].age \in Nat
      /\ conn[c] \in Connection
  BY <1>1 DEF Good, Connection
<1>3. /\ roster.old \in 0 .. Oldest /\ flipped \in 0 .. AccessTTL
      /\ Oldest \in Nat /\ Oldest > QueryTimeout
  BY TimesAssumption DEF Inv, TypeOK, Oldest
<1>4. Down(conn[c].left) \in 0 .. ConnTimeout
  BY <1>2, TimesAssumption DEF Down
<1>5. r \in Connection
  <2> DEFINE t == IF conn[c].at \in Calling THEN conn[c].t + 1 ELSE conn[c].t
             age == IF conn[c].at = "told" THEN conn[c].age + 1 ELSE conn[c].age
  <2>1. t \in Nat /\ age \in Nat
    BY <1>2
  <2>2. r = [conn[c] EXCEPT !.left = Down(conn[c].left), !.t = t, !.age = age]
    BY <1>2 DEF Older, Connection
  <2> HIDE DEF t, age, r
  <2>3. QED
    BY <1>2, <1>4, <2>1, <2>2 DEF Connection
<1>6. /\ r.at = conn[c].at /\ r.cipher = conn[c].cipher /\ r.client = conn[c].client
      /\ r.said = conn[c].said /\ r.genuine = conn[c].genuine /\ r.answer = conn[c].answer
  BY <1>2 DEF Older, Connection
<1>7. /\ r.t = IF conn[c].at \in Calling THEN conn[c].t + 1 ELSE conn[c].t
      /\ r.age = IF conn[c].at = "told" THEN conn[c].age + 1 ELSE conn[c].age
  BY <1>2 DEF Older, Connection
<1> HIDE DEF r
<1>8. Timely(r, c, holder, Least(roster.old + 1, Oldest))
  <2>1. conn[c].at \in Calling => r.t <= Timeout(r)
    <3>1. conn[c].at \in Calling => conn[c].t <= Timeout(conn[c]) /\ conn[c].t # Timeout(conn[c])
      BY <1>1 DEF Good, Timely, Due
    <3>2. Timeout(r) = Timeout(conn[c]) /\ Timeout(r) \in Nat
      BY <1>6, TimesAssumption DEF Timeout
    <3>3. QED
      BY <1>2, <1>7, <3>1, <3>2
  <2>2. conn[c].at = "crypt" => r.t = 0
    BY <1>1, <1>7 DEF Good, Timely, Calling
  <2>3. conn[c].at \in {"query", "told"} <=> holder = c
    BY <1>1 DEF Good, Timely
  <2>4. conn[c].at = "query" => r.age = 0
    BY <1>1, <1>7 DEF Good, Timely
  <2>5. ASSUME conn[c].at = "told" PROVE r.age <= r.t /\ r.age <= Least(roster.old + 1, Oldest)
    <3>1. conn[c].age <= conn[c].t /\ conn[c].age <= roster.old
      BY <1>1, <2>5 DEF Good, Timely
    <3>2. conn[c].t + 1 <= QueryTimeout
      BY <1>6, <1>7, <2>1, <2>5 DEF Timeout, Calling
    <3>3. r.age = conn[c].age + 1 /\ r.t = conn[c].t + 1
      BY <1>7, <2>5 DEF Calling
    <3>4. conn[c].age + 1 <= Oldest
      BY <1>2, <1>3, <3>1, <3>2, TimesAssumption
    <3>5. QED
      BY <1>2, <1>3, <3>1, <3>3, <3>4 DEF Least
  <2>6. QED
    BY <1>6, <2>1, <2>2, <2>3, <2>4, <2>5 DEF Timely
<1>9. Earned(r, mode)
  BY <1>1, <1>6 DEF Good, Earned
<1>10. Dated(r, allowed, Least(flipped + 1, AccessTTL))
  <2>1. ASSUME conn[c].at = "judged", conn[c].answer # allowed
        PROVE  Least(flipped + 1, AccessTTL) <= r.t
    <3>1. flipped <= conn[c].t /\ r.t = conn[c].t + 1
      BY <1>1, <1>7, <2>1 DEF Good, Dated, Calling
    <3>2. QED
      BY <1>2, <1>3, <3>1, TimesAssumption DEF Least
  <2>2. QED
    BY <1>1, <1>6, <2>1 DEF Good, Dated
<1>11. QED
  BY <1>1, <1>5, <1>8, <1>9, <1>10 DEF Good

LEMMA TickStep == ASSUME Inv, Tick PROVE Inv'
<1>1. \A c \in Conns : Good(conn[c], c)'
  BY OlderGood
<1>2. /\ roster \in [have : BOOLEAN, at : 0 .. StatusTTL, old : 0 .. Oldest]
      /\ verdict \in [allow : BOOLEAN, left : 0 .. AccessTTL] /\ flipped \in 0 .. AccessTTL
      /\ Oldest \in Nat /\ AccessTTL \in Nat /\ StatusTTL \in Nat
  BY TimesAssumption DEF Inv, TypeOK, Oldest
<1>3. /\ roster' = [roster EXCEPT !.at = Least(roster.at + 1, StatusTTL),
                                  !.old = Least(roster.old + 1, Oldest)]
      /\ verdict' = [verdict EXCEPT !.left = Down(verdict.left)]
      /\ flipped' = Least(flipped + 1, AccessTTL) /\ UNCHANGED <<mode, holder, allowed>>
  BY <1>2 DEF Tick
<1>4. /\ Least(roster.at + 1, StatusTTL) \in 0 .. StatusTTL
      /\ Least(roster.old + 1, Oldest) \in 0 .. Oldest
      /\ Down(verdict.left) \in 0 .. AccessTTL /\ Least(flipped + 1, AccessTTL) \in 0 .. AccessTTL
  BY <1>2 DEF Least, Down
<1>5. /\ roster' \in [have : BOOLEAN, at : 0 .. StatusTTL, old : 0 .. Oldest]
      /\ verdict' \in [allow : BOOLEAN, left : 0 .. AccessTTL]
      /\ roster'.have = roster.have /\ roster'.at = Least(roster.at + 1, StatusTTL)
      /\ roster'.old = Least(roster.old + 1, Oldest)
      /\ verdict'.allow = verdict.allow /\ verdict'.left = Down(verdict.left)
  BY <1>2, <1>3, <1>4
<1>6. conn' \in [Conns -> Connection]
  BY <1>1 DEF Tick, Good
<1>7. TypeOK'
  BY <1>3, <1>4, <1>5, <1>6 DEF Inv, TypeOK
<1>8. RosterDated'
  BY <1>2, <1>5, TimesAssumption DEF Inv, RosterDated, Least
<1>9. VerdictDated'
  <2>1. ASSUME verdict'.left > 0, verdict'.allow # allowed'
        PROVE  flipped' <= AccessTTL - verdict'.left
    <3>1. verdict.left > 0 /\ verdict'.left = verdict.left - 1
      BY <1>2, <1>5, <2>1 DEF Down
    <3>2. flipped <= AccessTTL - verdict.left
      BY <1>3, <1>5, <2>1, <3>1 DEF Inv, VerdictDated
    <3>3. flipped + 1 <= AccessTTL - verdict'.left
      BY <1>2, <3>1, <3>2
    <3>4. flipped' <= flipped + 1
      BY <1>2, <1>3 DEF Least
    <3>5. flipped' \in Int /\ verdict'.left \in Int
      BY <1>3, <1>4, <1>5
    <3>6. QED
      BY <1>2, <3>3, <3>4, <3>5
  <2>2. QED
    BY <2>1 DEF VerdictDated
<1>10. QED
  BY <1>1, <1>7, <1>8, <1>9 DEF Inv

-----------------------------------------------------------------------------
(* The invariant.                                                          *)

LEMMA Initially == ASSUME Init PROVE Inv
<1>1. NoConn \in Connection
  BY TimesAssumption DEF NoConn, Connection, Places
<1>2. TypeOK
  BY <1>1, TimesAssumption DEF Init, TypeOK, Oldest
<1>3. ASSUME NEW c \in Conns PROVE Good(conn[c], c)
  <2>1. conn[c] = NoConn /\ holder # c
    BY NoneAssumption DEF Init
  <2>2. QED
    BY <1>1, <2>1 DEF Good, Timely, Earned, Dated, NoConn, Calling
<1>4. RosterDated /\ VerdictDated
  BY DEF Init, RosterDated, VerdictDated
<1>5. QED
  BY <1>2, <1>3, <1>4 DEF Inv

LEMMA Stuttering == ASSUME Inv, UNCHANGED vars PROVE Inv'
<1>1. UNCHANGED <<mode, conn, holder, roster, verdict, allowed, flipped>>
  BY DEF vars
<1>2. TypeOK'
  BY <1>1 DEF Inv, TypeOK
<1>3. \A c \in Conns : Good(conn[c], c)'
  BY <1>1 DEF Inv, Good
<1>4. QED
  BY <1>1, <1>2, <1>3 DEF Inv, RosterDated, VerdictDated

LEMMA Steps == ASSUME Inv, [Next]_vars PROVE Inv'
<1>1. ASSUME NEW c \in Conns, Serve(c) PROVE Inv'
  BY <1>1, WorldAnswersStep, RosterReadStep, QueryFailsStep, HasJoinedStep, CheckStep,
     ServiceJudgesStep, VerdictReadStep, FailClosedStep DEF Serve
<1>2. ASSUME NEW c \in Conns, Client(c) PROVE Inv'
  BY <1>2, AcceptStep, HandshakeStep, StatusRequestStep, LoginStartStep, EncryptionStep,
     GoneStep DEF Client
<1>3. QED
  BY <1>1, <1>2, GetStep, DropStep, CacheClearedStep, PolicyChangesStep, TickStep, Stuttering
     DEF Next

LEMMA Invariance == Spec => []Inv
BY Initially, Steps, PTL DEF Spec

-----------------------------------------------------------------------------
(* The theorems.                                                           *)

\* Every login that ends in a session has earned it, and the last words of
\* every other one are in the cipher its client reads (Authenticator.Login,
\* Server.login).
THEOREM LoginEarned == Spec => []LoginRight
<1>1. Inv => LoginRight
  BY DEF Inv, Good, Earned, LoginRight, Admitted, Intelligible, At
<1>2. QED
  BY <1>1, Invariance, PTL

\* Every variable keeps its type, and the verdict and the roster that are
\* cached are as young as their caches take them for (Client.Check,
\* StatusCache.Get).
THEOREM CachesYoung == Spec => []CachesDated
<1>1. ASSUME Inv PROVE RosterFresh
  BY <1>1, TimesAssumption DEF Inv, TypeOK, RosterDated, RosterFresh, Oldest
<1>2. ASSUME Inv PROVE VerdictsDated
  BY <1>2 DEF Inv, Good, Dated, VerdictDated, VerdictsDated, At
<1>3. Inv => CachesDated
  BY <1>1, <1>2 DEF CachesDated, Inv
<1>4. QED
  BY <1>3, Invariance, PTL

-----------------------------------------------------------------------------
(* What a step may not do.                                                 *)

\* The roster held gives way to a younger one only.
LEMMA RosterStep ==
    ASSUME Inv, [Next]_vars
    PROVE  [roster.have => roster'.have /\ (roster'.at = 0 => roster'.old <= roster.old)]_vars
<1>1. roster.old \in Nat /\ roster.at \in Nat
  BY TimesAssumption DEF Inv, TypeOK
<1>2. ASSUME NEW c \in Conns, RosterRead(c) PROVE roster'.have /\ roster'.old <= roster.old
  BY <1>2 DEF RosterRead, Inv, Good, Timely, At
<1>3. CASE roster' = roster
  BY <1>1, <1>3
<1>4. CASE Tick
  <2>1. roster'.have = roster.have /\ roster'.at = Least(roster.at + 1, StatusTTL)
    BY <1>4 DEF Tick, Inv, TypeOK
  <2>2. roster'.at # 0
    BY <1>1, <2>1, TimesAssumption DEF Least
  <2>3. QED
    BY <2>1, <2>2
<1>5. (\E c \in Conns : RosterRead(c)) \/ roster' = roster \/ Tick
  BY DEF Next, Serve, Client, WorldAnswers, QueryFails, HasJoined, Check, ServiceJudges,
         VerdictRead, FailClosed, Accept, Handshake, StatusRequest, LoginStart,
         EncryptionResponse, Gone, Get, Drop, CacheCleared, PolicyChanges, pings, vars
<1>6. QED
  BY <1>2, <1>3, <1>4, <1>5

\* A verdict that is acted on is the service's, or was less than AccessTTL ago.
LEMMA VerdictStep ==
    ASSUME Inv, [Next]_vars, NEW c \in Conns, conn[c].at \in {"check", "judged"},
           conn'[c].at \in {"session", "over"}, conn'[c].answer \notin {None, allowed}
    PROVE  flipped < AccessTTL
<1>1. Good(conn[c], c) /\ conn[c] \in Connection /\ holder # c
  BY Idle DEF Inv, Good
<1>2. ASSUME NEW a, Decide(c, a), a \in BOOLEAN PROVE a = conn'[c].answer
  <2> DEFINE q == [conn[c] EXCEPT !.answer = a]
  <2>1. q \in Connection /\ q.answer = a
    BY <1>1, <1>2 DEF Connection
  <2>2. Enter(c, q) \/ Disconnect(c, q)
    BY <1>2 DEF Decide
  <2> HIDE DEF q
  <2>3. CASE Is(c, [q EXCEPT !.at = "session", !.left = 0, !.t = 0])
    BY <2>1, <2>3 DEF Is, Inv, TypeOK, Connection
  <2>4. CASE Disconnect(c, q)
    <3>1. CASE q.left = 0
      <4>1. conn'[c].at = "idle"
        BY <2>4, <3>1 DEF Disconnect, Is, Inv, TypeOK, NoConn
      <4>2. QED
        BY <4>1
    <3>2. CASE q.left # 0
      BY <2>1, <2>4, <3>2 DEF Disconnect, Is, Inv, TypeOK, NoConn
    <3>3. QED
      BY <3>1, <3>2
  <2>5. QED
    BY <2>2, <2>3, <2>4 DEF Enter
<1>3. ASSUME Check(c) PROVE flipped < AccessTTL
  <2>1. conn[c].at = "check" /\ conn[c].answer = None
    BY <1>1, <1>3 DEF Check, At, Good, Dated
  <2>2. CASE Enter(c, conn[c])
    <3>1. CASE Is(c, [conn[c] EXCEPT !.at = "session", !.left = 0, !.t = 0])
      BY <1>1, <2>1, <3>1 DEF Is, Inv, TypeOK, Connection
    <3>2. CASE Disconnect(c, conn[c])
      <4>1. conn'[c].answer = None
        BY <2>1, <3>2 DEF Disconnect, Is, Inv, TypeOK, NoConn
      <4>2. QED
        BY <4>1
    <3>3. QED
      BY <2>2, <3>1, <3>2 DEF Enter
  <2>3. CASE verdict.left > 0 /\ Decide(c, verdict.allow)
    <3>1. verdict.allow = conn'[c].answer
      BY <1>2, <2>3 DEF Inv, TypeOK
    <3>2. flipped <= AccessTTL - verdict.left
      BY <2>3, <3>1 DEF Inv, VerdictDated
    <3>3. QED
      BY <2>3, <3>2, TimesAssumption DEF Inv, TypeOK
  <2>4. CASE To(c, "fetch")
    <3>1. conn'[c].at = "fetch"
      BY <1>1, <2>4 DEF To, Is, Inv, TypeOK, Connection
    <3>2. QED
      BY <3>1
  <2>5. QED
    BY <1>3, <2>2, <2>3, <2>4 DEF Check
<1>4. ASSUME VerdictRead(c) PROVE flipped < AccessTTL
  <2>1. conn[c].at = "judged" /\ Decide(c, conn[c].answer)
    BY <1>4 DEF VerdictRead, At
  <2>2. conn[c].answer \in BOOLEAN /\ (conn[c].answer # allowed => flipped <= conn[c].t)
    BY <1>1, <2>1 DEF Good, Dated
  <2>3. conn[c].answer = conn'[c].answer
    BY <1>2, <2>1, <2>2
  <2>4. conn[c].t \in Nat /\ conn[c].t <= CheckTimeout
    BY <1>1, <2>1, TimesAssumption DEF Good, Timely, Connection, Timeout, Calling
  <2>5. QED
    BY <2>2, <2>3, <2>4, TimesAssumption DEF Inv, TypeOK
<1>5. ASSUME FailClosed(c) PROVE conn'[c].answer = None
  <2> DEFINE q == [conn[c] EXCEPT !.answer = None]
  <2>1. q \in Connection /\ q.answer = None /\ Disconnect(c, q)
    BY <1>1, <1>5 DEF Connection, FailClosed
  <2> HIDE DEF q
  <2>2. QED
    BY <2>1 DEF Disconnect, Is, Inv, TypeOK, NoConn
<1>6. ASSUME Tick PROVE FALSE
  <2>1. conn'[c] = Older(conn[c])
    BY <1>6 DEF Tick
  <2>2. conn'[c].at = conn[c].at
    BY <1>1, <2>1 DEF Older, Connection
  <2>3. QED
    BY <2>2
<1>7. ASSUME NEW d \in Conns, Serve(d) \/ Client(d) \/ Get(d) \/ Drop(d), d # c PROVE FALSE
  <2>1. \E r : Is(d, r)
    BY <1>7 DEF Serve, Client, WorldAnswers, QueryFails, HasJoined, Check, ServiceJudges,
         VerdictRead, FailClosed, Accept, Handshake, StatusRequest, LoginStart, RosterRead,
         EncryptionResponse, Gone, Get, Drop, Respond, Closed, To, Enter, Decide, Disconnect
  <2>2. conn'[c] = conn[c]
    BY <1>7, <2>1 DEF Is, Inv, TypeOK
  <2>3. QED
    BY <2>2
<1>8. Check(c) \/ VerdictRead(c) \/ FailClosed(c)
  <2>1. conn' # conn
    OBVIOUS
  <2>2. ~CacheCleared /\ ~PolicyChanges
    BY <2>1 DEF CacheCleared, PolicyChanges
  <2>3. Serve(c) \/ Client(c) \/ Get(c) \/ Drop(c)
    BY <1>6, <1>7, <2>1, <2>2 DEF Next, vars
  <2>4. ~ServiceJudges(c)
    BY DEF ServiceJudges, At
  <2>5. QED
    BY <2>3, <2>4 DEF Serve, Client, WorldAnswers, QueryFails, HasJoined, RosterRead, Accept,
         Handshake, StatusRequest, LoginStart, EncryptionResponse, Gone, Get, Drop, At, Reading
<1>9. QED
  BY <1>3, <1>4, <1>5, <1>8

\* No login is let in, or turned away, on a verdict older than AccessTTL, and
\* no roster held gives way to an older one (Client.Check, StatusCache.Get).
THEOREM StaleNever == Spec => NothingStale
<1>1. ASSUME Inv, [Next]_vars
      PROVE  [\A c \in Conns :
                (conn[c].at \in {"check", "judged"} /\ conn'[c].at \in {"session", "over"}
                   /\ conn'[c].answer \notin {None, allowed})
                => flipped < AccessTTL]_vars
  BY <1>1, VerdictStep
<1>2. QED
  BY <1>1, RosterStep, Invariance, PTL DEF Spec, NothingStale, VerdictFresh, RosterForward
=============================================================================
