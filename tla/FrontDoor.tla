----------------------------- MODULE FrontDoor ------------------------------
(***************************************************************************)
(* A gateway's front door, up to where a session begins: the listener's    *)
(* one goroutine per connection, the server-list ping with the roster that *)
(* all pings share, and the login, which asks Mojang's session service who *)
(* the player is, behind an encryption switch, and the access service      *)
(* whether they may enter, through a cache of verdicts.                    *)
(*                                                                         *)
(* Time passes in ticks.  A call to a service is answered in two steps:    *)
(* the service decides, later the answer is read; in between the world,    *)
(* and other connections, go on.                                           *)
(***************************************************************************)
EXTENDS Integers

CONSTANTS
    Conns,          \* connections; each is used again when it has ended
    Modes,          \* server configurations: [online, gated, linked : BOOLEAN]
    ConnTimeout,    \* connTimeout
    AuthTimeout,    \* authTimeout
    CheckTimeout,   \* the access client's HTTP timeout
    QueryTimeout,   \* QueryStatus's dial and read deadlines together
    AccessTTL,      \* how long a verdict is served
    StatusTTL,      \* how long a roster is served
    None

ASSUME TimesAssumption ==
    /\ {ConnTimeout, AuthTimeout, CheckTimeout, QueryTimeout, StatusTTL} \subseteq Nat \ {0}
    /\ AccessTTL \in Nat /\ CheckTimeout < AccessTTL
ASSUME NoneAssumption == None \notin Conns

VARIABLES
    mode,       \* this gateway's configuration
    conn,       \* the connections, see Connection
    holder,     \* who holds StatusCache.mu across a query
    roster,     \* StatusCache: have, ticks since at, ticks since the world said so
    verdict,    \* Client.cache, for the one player: the verdict and ticks to until
    allowed,    \* access service: may the player enter
    flipped     \* ticks since that last changed, no more than AccessTTL

vars == <<mode, conn, holder, roster, verdict, allowed, flipped>>

Least(a, b) == IF a < b THEN a ELSE b

\* The states of a connection's goroutine: where it waits, or for what.
Reading == {"hello", "status", "start", "crypt"}
Calling == {"query", "told", "join", "fetch", "judged"}
Places  == Reading \cup Calling \cup {"idle", "lock", "check", "session", "over"}

\* left: ticks to the deadline; t: ticks of the current call, age: since its
\* answer; cipher, client: whether the server writes and the client reads
\* encrypted; genuine: the player owns the account; answer: the access verdict;
\* said: whether the last words were written encrypted.
Connection ==
    [at : Places, left : 0 .. ConnTimeout, t : Nat, age : Nat, cipher : BOOLEAN,
     client : BOOLEAN, genuine : BOOLEAN, answer : BOOLEAN \cup {None},
     said : BOOLEAN \cup {None}]

NoConn == [at |-> "idle", left |-> 0, t |-> 0, age |-> 0, cipher |-> FALSE,
           client |-> FALSE, genuine |-> FALSE, answer |-> None, said |-> None]

Oldest == StatusTTL + QueryTimeout + 1   \* bound: ages are not told apart beyond

TypeOK ==
    /\ mode \in Modes
    /\ conn \in [Conns -> Connection]
    /\ holder \in Conns \cup {None}
    /\ roster \in [have : BOOLEAN, at : 0 .. StatusTTL, old : 0 .. Oldest]
    /\ verdict \in [allow : BOOLEAN, left : 0 .. AccessTTL]
    /\ allowed \in BOOLEAN /\ flipped \in 0 .. AccessTTL

Init ==
    /\ mode \in Modes
    /\ conn = [c \in Conns |-> NoConn]
    /\ holder = None
    /\ roster = [have |-> FALSE, at |-> 0, old |-> 0]
    /\ verdict = [allow |-> FALSE, left |-> 0]
    /\ allowed \in BOOLEAN /\ flipped = AccessTTL

At(c, place) == conn[c].at = place

Is(c, r) == conn' = [conn EXCEPT ![c] = r]

Closed(c) == Is(c, NoConn)

To(c, place) == Is(c, [conn[c] EXCEPT !.at = place, !.t = 0, !.age = 0])

\* Last words, which reach the client if the deadline has not passed.
Disconnect(c, r) ==
    Is(c, IF r.left = 0 THEN NoConn
          ELSE [NoConn EXCEPT !.at = "over", !.said = r.cipher, !.client = r.client,
                              !.answer = r.answer])

pings == <<holder, roster>>
access == <<verdict, allowed, flipped>>

-----------------------------------------------------------------------------
(* Listener.                                                               *)

\* handle: accepted, with a deadline on everything until it is set again.
Accept(c) ==
    /\ At(c, "idle")
    /\ Is(c, [NoConn EXCEPT !.at = "hello", !.left = ConnTimeout])
    /\ UNCHANGED <<mode, pings, access>>

\* A probe, a bad PROXY line or handshake, an unknown intent, any packet that
\* the phase does not take, a client gone, and the deadline, all end it.
Drop(c) ==
    /\ conn[c].at \in Reading
    /\ Closed(c)
    /\ UNCHANGED <<mode, pings, access>>

Handshake(c) ==
    /\ At(c, "hello") /\ conn[c].left > 0
    /\ \/ Is(c, [conn[c] EXCEPT !.at = "status", !.left = ConnTimeout])
       \/ To(c, "start")
       \/ Disconnect(c, conn[c])        \* not a version this gateway takes
    /\ UNCHANGED <<mode, pings, access>>

-----------------------------------------------------------------------------
(* Server-list ping.                                                       *)

StatusRequest(c) ==
    /\ At(c, "status") /\ conn[c].left > 0
    /\ To(c, "lock")
    /\ UNCHANGED <<mode, pings, access>>

\* The response is written, and the next exchange has a deadline of its own.
Respond(c) ==
    Is(c, IF conn[c].left = 0 THEN NoConn
          ELSE [NoConn EXCEPT !.at = "status", !.left = ConnTimeout])

\* StatusCache.Get, under the lock: the roster held, or a query to the world.
Get(c) ==
    /\ At(c, "lock") /\ holder = None
    /\ IF roster.have /\ roster.at < StatusTTL
       THEN Respond(c) /\ UNCHANGED holder
       ELSE To(c, "query") /\ holder' = c
    /\ UNCHANGED <<mode, roster, access>>

WorldAnswers(c) ==
    /\ At(c, "query")
    /\ Is(c, [conn[c] EXCEPT !.at = "told"])
    /\ UNCHANGED <<mode, pings, access>>

RosterRead(c) ==
    /\ At(c, "told")
    /\ roster' = [have |-> TRUE, at |-> 0, old |-> conn[c].age]
    /\ holder' = None
    /\ Respond(c)
    /\ UNCHANGED <<mode, access>>

\* Slip: a failed query keeps the lock.
QueryFailsLocked(c) ==
    /\ conn[c].at \in {"query", "told"}
    /\ Respond(c)
    /\ UNCHANGED <<mode, pings, access>>

\* The last good roster stands, and the failed attempt is not remembered.
QueryFails(c) ==
    /\ conn[c].at \in {"query", "told"}
    /\ holder' = None
    /\ Respond(c)
    /\ UNCHANGED <<mode, roster, access>>

-----------------------------------------------------------------------------
(* Login.                                                                  *)

\* Login Start; the encryption request, where accounts are authenticated.
LoginStart(c) ==
    /\ At(c, "start") /\ conn[c].left > 0
    /\ To(c, IF mode.online THEN "crypt" ELSE "check")
    /\ UNCHANGED <<mode, pings, access>>

\* The client's response, from which on it reads and writes encrypted.  A
\* response that does not fit, or data sent ahead of the switch, ends it.
EncryptionResponse(c) ==
    /\ At(c, "crypt") /\ conn[c].left > 0
    /\ \/ Closed(c)
       \/ \E own \in BOOLEAN :
             Is(c, [conn[c] EXCEPT !.at = "join", !.genuine = own,
                                   !.cipher = TRUE, !.client = TRUE])
    /\ UNCHANGED <<mode, pings, access>>

\* hasJoined: the profile, "not verified", or no answer from the service.
HasJoined(c) ==
    /\ At(c, "join")
    /\ \/ conn[c].genuine /\ To(c, "check")
       \/ Disconnect(c, conn[c])
    /\ UNCHANGED <<mode, pings, access>>

\* What follows the authorization: the session, if the gateway has a world and
\* the world takes the player; else words (loginDisconnect).
Enter(c, r) ==
    \/ mode.linked /\ Is(c, [r EXCEPT !.at = "session", !.left = 0, !.t = 0])
    \/ Disconnect(c, r)

Decide(c, allow) ==
    LET r == [conn[c] EXCEPT !.answer = allow]
    IN  IF allow THEN Enter(c, r) ELSE Disconnect(c, r)

\* Client.Check: no service, a verdict that is still good, or a request.
Check(c) ==
    /\ At(c, "check")
    /\ IF ~mode.gated THEN Enter(c, conn[c])
       ELSE IF verdict.left > 0 THEN Decide(c, verdict.allow)
       ELSE To(c, "fetch")
    /\ UNCHANGED <<mode, pings, access>>

ServiceJudges(c) ==
    /\ At(c, "fetch")
    /\ Is(c, [conn[c] EXCEPT !.at = "judged", !.answer = allowed])
    /\ UNCHANGED <<mode, pings, access>>

\* Slip: a verdict is good from when it arrives.
VerdictFromArrival(c) ==
    /\ At(c, "judged")
    /\ verdict' = [allow |-> conn[c].answer, left |-> AccessTTL]
    /\ Decide(c, conn[c].answer)
    /\ UNCHANGED <<mode, pings, allowed, flipped>>

\* The verdict is good from when the request was made, and replaces another's.
VerdictRead(c) ==
    /\ At(c, "judged")
    /\ verdict' = [allow |-> conn[c].answer, left |-> AccessTTL - conn[c].t]
    /\ Decide(c, conn[c].answer)
    /\ UNCHANGED <<mode, pings, allowed, flipped>>

\* Slips: no verdict lets the player in, or is remembered as a refusal.
FailOpen(c) ==
    /\ conn[c].at \in {"fetch", "judged"}
    /\ Enter(c, [conn[c] EXCEPT !.answer = None])
    /\ UNCHANGED <<mode, pings, access>>

FailRemembered(c) ==
    /\ conn[c].at \in {"fetch", "judged"}
    /\ verdict' = [allow |-> FALSE, left |-> AccessTTL]
    /\ Disconnect(c, [conn[c] EXCEPT !.answer = None])
    /\ UNCHANGED <<mode, pings, allowed, flipped>>

\* No verdict: refused, and nothing is remembered of it.
FailClosed(c) ==
    /\ conn[c].at \in {"fetch", "judged"}
    /\ Disconnect(c, [conn[c] EXCEPT !.answer = None])
    /\ UNCHANGED <<mode, pings, access>>

\* The cache is emptied when it has grown past its bound.
CacheCleared ==
    /\ verdict.left > 0
    /\ verdict' = [verdict EXCEPT !.left = 0]
    /\ UNCHANGED <<mode, conn, pings, allowed, flipped>>

\* The session, or the connection that was refused, is gone.
Gone(c) ==
    /\ conn[c].at \in {"session", "over"}
    /\ Closed(c)
    /\ UNCHANGED <<mode, pings, access>>

-----------------------------------------------------------------------------
(* The services, and time.                                                 *)

\* A ban, or a grant.
PolicyChanges ==
    /\ allowed' = ~allowed /\ flipped' = 0
    /\ UNCHANGED <<mode, conn, pings, verdict>>

Timeout(r) ==
    IF r.at \in {"query", "told"} THEN QueryTimeout
    ELSE IF r.at = "join" THEN AuthTimeout
    ELSE CheckTimeout

\* A call that has run out of time, or a read past its deadline, ends first.
Due(r) ==
    \/ r.at \in Calling /\ r.t = Timeout(r)
    \/ r.at \in Reading /\ r.left = 0

Down(n) == IF n = 0 THEN 0 ELSE n - 1

Older(r) ==
    [r EXCEPT !.left = Down(@),
              !.t    = IF r.at \in Calling THEN @ + 1 ELSE @,
              !.age  = IF r.at = "told" THEN @ + 1 ELSE @]

Tick ==
    /\ \A c \in Conns : ~Due(conn[c]) /\ conn[c].at # "check"
    /\ conn' = [c \in Conns |-> Older(conn[c])]
    /\ roster' = [roster EXCEPT !.at = Least(@ + 1, StatusTTL), !.old = Least(@ + 1, Oldest)]
    /\ verdict' = [verdict EXCEPT !.left = Down(@)]
    /\ flipped' = Least(flipped + 1, AccessTTL)
    /\ UNCHANGED <<mode, holder, allowed>>

Serve(c) ==
    \/ WorldAnswers(c) \/ RosterRead(c) \/ QueryFails(c)
    \/ HasJoined(c) \/ Check(c)
    \/ ServiceJudges(c) \/ VerdictRead(c) \/ FailClosed(c)

Client(c) ==
    \/ Accept(c) \/ Handshake(c) \/ StatusRequest(c)
    \/ LoginStart(c) \/ EncryptionResponse(c) \/ Gone(c)

Next ==
    \/ \E c \in Conns : Serve(c) \/ Client(c) \/ Get(c) \/ Drop(c)
    \/ CacheCleared \/ PolicyChanges
    \/ Tick

\* The goroutines are scheduled, time passes (strongly: however fast the
\* connections come and go), and the mutex is not withheld
\* from one waiter for ever (Go's is handed over to one that waits too long).
\* Of the clients nothing is expected: they may stop at any point.
Fairness ==
    /\ SF_vars(Tick)
    /\ \A c \in Conns : WF_vars(Serve(c)) /\ SF_vars(Get(c))
                        /\ WF_vars(conn[c].left = 0 /\ Drop(c))

Spec == Init /\ [][Next]_vars /\ Fairness

-----------------------------------------------------------------------------
(* Properties.                                                             *)

\* Nobody enters but an account that proved itself, on an encrypted
\* connection, with a verdict of the access service that says so, to a world.
Admitted ==
    \A c \in Conns : At(c, "session") =>
        /\ mode.linked
        /\ mode.online => conn[c].genuine /\ conn[c].cipher /\ conn[c].client
        /\ mode.gated => conn[c].answer = TRUE

\* Whatever the server last says, the client can read: plain before the
\* switch, encrypted after it (Authenticator.Login returns the connection
\* that a disconnect must be written to).
Intelligible == \A c \in Conns : conn[c].said # None => conn[c].said = conn[c].client

\* A login ends the way it ought to, on every path and with every service
\* failing: in a session that was earned, or in words the client can read.
LoginRight == Admitted /\ Intelligible

\* A verdict acted on, its own, a cached one or one that another login's
\* older request put back, was the service's less than AccessTTL ago: a ban
\* or a grant is not felt later than that.
VerdictFresh ==
    [][\A c \in Conns :
          (conn[c].at \in {"check", "judged"} /\ conn'[c].at \in {"session", "over"}
             /\ conn'[c].answer \notin {None, allowed})
          => flipped < AccessTTL]_vars

\* What the caches hold, from which that follows: an untrue verdict was true
\* since its request was made.
VerdictsDated ==
    /\ (verdict.left > 0 /\ verdict.allow # allowed) => flipped <= AccessTTL - verdict.left
    /\ \A c \in Conns : (At(c, "judged") /\ conn[c].answer # allowed) => flipped <= conn[c].t

\* A roster advertised as live is no older than a query and StatusTTL.
RosterFresh ==
    (roster.have /\ roster.at < StatusTTL) => roster.old < StatusTTL + QueryTimeout

\* What the two caches hold is as young as they say, whichever requests
\* overlapped on the way and whichever failed.
CachesDated == TypeOK /\ VerdictsDated /\ RosterFresh

\* The roster held never gives way to an older one, nor to none: only one
\* query is under way, and a failed one changes nothing.
RosterForward ==
    [][roster.have => roster'.have /\ (roster'.at = 0 => roster'.old <= roster.old)]_vars

\* No step acts on what is too old, and none puts older news before newer.
NothingStale == VerdictFresh /\ RosterForward

\* Every exchange comes to an end, with an answer, a session or a closed
\* connection, whatever the services and the client do, and however many
\* pings wait for the roster's lock.
Served(c) == conn[c].at \in {"idle", "status", "session", "over"}

ExchangesEnd == \A c \in Conns : ~Served(c) ~> Served(c)
=============================================================================
