-------------------------- MODULE SecureChatProofs --------------------------
(***************************************************************************)
(* Theorems about SecureChat, for a window and a cache of any size, any    *)
(* number of messages, sessions and joins: the gateway keeps up with a     *)
(* vanilla client whatever crosses on the way.  Inv says that the packets  *)
(* under way to the client reader make of its list what the client has in  *)
(* its window, once the client has read what is under way to it (Agree),   *)
(* that they lead from the session and the chain it keeps to the client's  *)
(* (Holds), and that a reconfiguration empties both ways before the new    *)
(* listener starts (Shake).  Mirrored says of the signature caches that    *)
(* the packets under way make of the client's the gateway's: push and a    *)
(* vanilla client's push come to the same (PushIsPushed).                  *)
(***************************************************************************)
EXTENDS SecureChat, TLAPS, FiniteSetTheorems, WellFoundedInduction

----------------------------------------------------------------------------
(* The list of tracked entries, packet by packet.                          *)
\* An entry of the list, a signature of the client, and what it sends.
Tracked == [sig : Sigs, pending : BOOLEAN] \cup {Null}
Link == [sid : Nat, index : Nat, last : Lists]
Says == [type : {"chat", "command"}, offset : Nat, acked : SUBSET (1 .. Count),
         sum : Lists, sigs : Seq(Link \cup {Null}), when : Times]
Up == Says \cup [type : {"ack"}, offset : Nat] \cup [type : {"configured"}]
           \cup [type : {"session"}, sid : Nat, key : Nat]

Talk(p) == p.type \in {"chat", "command"}

\* What the list must be when the client reader takes a packet, and is then.
Fits(list, p) ==
    /\ Talk(p) => UpdateFits(list, p)
    /\ p.type = "ack" => OffsetFits(list, p.offset)
After(list, p) ==
    IF Talk(p) THEN Updated(list, p)
    ELSE IF p.type = "ack" THEN Moved(list, p.offset) ELSE list

\* What the client sends moves the list by no more than that.
Stride == AckAfter + 1
Reach(k) == k * Stride

\* Taking the packets of u, each as it fits, makes t of the list; and no list
\* on the way is longer than the packets behind it shorten it.
Trace(s, list, u, t) ==
    /\ s[0] = list /\ s[Len(u)] = t
    /\ \A i \in 1 .. Len(u) : Fits(s[i - 1], u[i]) /\ s[i] = After(s[i - 1], u[i])
    /\ \A i \in 0 .. Len(u) :
          Count <= Len(s[i]) /\ Len(s[i]) <= Len(t) + Reach(Len(u) - i)
LeadsTo(list, u, t) == \E s \in [0 .. Len(u) -> Seq(Tracked)] : Trace(s, list, u, t)

\* What the assumptions say of the constants.
LEMMA Constants ==
    /\ Count \in Nat /\ Count >= 1 /\ Stride \in Nat /\ Stride >= 1 /\ AckAfter \in Nat
    /\ InFlight \in Nat /\ MaxPending \in Nat /\ MaxMessages \in Nat /\ MaxSids \in Nat
    /\ MaxTrees \in Nat
BY BoundAssumption DEF Stride

\* An entry of the list has its fields, and is not Null.
LEMMA EntryTyped ==
    ASSUME NEW sig \in Sigs, NEW b \in BOOLEAN
    PROVE  /\ Entry(sig, b) \in Tracked /\ Entry(sig, b) # Null
           /\ Entry(sig, b).sig = sig /\ Entry(sig, b).pending = b
BY NullAssumption DEF Entry, Tracked

\* What a packet of each type carries.
LEMMA UpFields ==
    ASSUME NEW p \in Up
    PROVE  /\ p.type \in {"chat", "command", "ack", "configured", "session"}
           /\ Talk(p) => /\ p.offset \in Nat /\ p.acked \subseteq 1 .. Count
                         /\ p.sum \in Lists /\ p.sigs \in Seq(Link \cup {Null})
                         /\ p.when \in Times
           /\ p.type = "ack" => p.offset \in Nat
           /\ p.type = "session" => p.sid \in Nat /\ p.key \in Nat
<1>1. CASE p \in Says
  BY <1>1 DEF Says, Talk
<1>2. CASE p \in [type : {"ack"}, offset : Nat]
  BY <1>2 DEF Talk
<1>3. CASE p \in [type : {"configured"}]
  BY <1>3 DEF Talk
<1>4. CASE p \in [type : {"session"}, sid : Nat, key : Nat]
  BY <1>4 DEF Talk
<1>5. QED
  BY <1>1, <1>2, <1>3, <1>4 DEF Up

\* Dropping entries from the front.
LEMMA MovedShape ==
    ASSUME NEW list \in Seq(Tracked), NEW o \in Nat, NEW n \in Nat, Len(list) = n + o
    PROVE  /\ Moved(list, o) \in Seq(Tracked)
           /\ Len(Moved(list, o)) = n
           /\ \A i \in 1 .. n : Moved(list, o)[i] = list[i + o]
BY DEF Moved

\* An entry more stays behind what is dropped.
LEMMA MovedAppend ==
    ASSUME NEW list \in Seq(Tracked), NEW o \in Nat, NEW n \in Nat, Len(list) = n + o,
           NEW e \in Tracked
    PROVE  Moved(Append(list, e), o) = Append(Moved(list, o), e)
<1> DEFINE l == Append(list, e)
           m == Moved(list, o)
<1>1. /\ l \in Seq(Tracked) /\ Len(l) = (n + 1) + o /\ n + 1 \in Nat
      /\ \A i \in 1 .. n + o : l[i] = list[i]
      /\ l[(n + 1) + o] = e
  OBVIOUS
<1>2. /\ m \in Seq(Tracked) /\ Len(m) = n
      /\ \A i \in 1 .. n : m[i] = list[i + o]
  BY MovedShape
<1> HIDE DEF m, l
<1>3. /\ Moved(l, o) \in Seq(Tracked) /\ Len(Moved(l, o)) = n + 1
      /\ \A i \in 1 .. n + 1 : Moved(l, o)[i] = l[i + o]
  <2>1. PICK g \in Seq(Tracked), k \in Nat : g = l /\ k = n + 1 /\ Len(g) = k + o
    BY <1>1
  <2>2. /\ Moved(g, o) \in Seq(Tracked) /\ Len(Moved(g, o)) = k
        /\ \A i \in 1 .. k : Moved(g, o)[i] = g[i + o]
    <3>1. Len(g) = k + o
      BY <2>1
    <3>2. QED
      BY <3>1, MovedShape
  <2>3. QED
    BY <2>1, <2>2
<1>4. /\ Append(m, e) \in Seq(Tracked) /\ Len(Append(m, e)) = n + 1
      /\ \A i \in 1 .. n : Append(m, e)[i] = m[i]
      /\ Append(m, e)[n + 1] = e
  BY <1>2
<1>5. ASSUME NEW i \in 1 .. n + 1 PROVE Moved(l, o)[i] = Append(m, e)[i]
  <2>1. CASE i = n + 1
    BY <1>1, <1>3, <1>4, <2>1
  <2>2. CASE i # n + 1
    <3>1. i \in 1 .. n /\ i + o \in 1 .. n + o
      BY <2>2
    <3>2. l[i + o] = list[i + o]
      BY <1>1, <3>1
    <3>3. QED
      BY <1>2, <1>3, <1>4, <3>1, <3>2
  <2>3. QED
    BY <2>1, <2>2
<1>6. Moved(l, o) = Append(m, e)
  BY <1>3, <1>4, <1>5
<1>7. QED
  BY <1>6 DEF l, m

\* An update moves the list like its offset, and keeps what is behind the
\* window.
LEMMA UpdatedShape ==
    ASSUME NEW list \in Seq(Tracked), NEW p \in Up, Talk(p), UpdateFits(list, p)
    PROVE  /\ p.offset \in Nat /\ p.acked \subseteq 1 .. Count
           /\ Count + p.offset <= Len(list)
           /\ Updated(list, p) \in Seq(Tracked)
           /\ Len(Updated(list, p)) = Len(list) - p.offset
           /\ \A i \in 1 .. Len(list) - p.offset :
                 Updated(list, p)[i] = IF i > Count THEN list[i + p.offset]
                                       ELSE IF i \in p.acked
                                       THEN Entry(list[i + p.offset].sig, FALSE)
                                       ELSE Null
<1> DEFINE rest == Moved(list, p.offset)
           n == Len(list) - p.offset
<1>1. p.offset \in Nat /\ p.acked \subseteq 1 .. Count
  BY UpFields
<1>2. Count + p.offset <= Len(list) /\ Len(list) \in Nat /\ p.offset <= Len(list)
  BY <1>1, Constants DEF UpdateFits, OffsetFits
<1>3. /\ rest \in Seq(Tracked) /\ Len(rest) = n /\ n \in Nat
      /\ \A i \in 1 .. n : rest[i] = list[i + p.offset]
  <2>1. n \in Nat /\ Len(list) = n + p.offset
    BY <1>1, <1>2
  <2> HIDE DEF n
  <2>2. QED
    BY <1>1, <2>1, MovedShape
<1>4. \A i \in 1 .. Count : i \in p.acked => rest[i] # Null
  BY <1>1 DEF UpdateFits
<1> HIDE DEF rest
<1>5. DOMAIN rest = 1 .. n /\ \A i \in 1 .. n : rest[i] \in Tracked
  BY <1>3
<1>6. Updated(list, p) = [i \in 1 .. n |-> IF i > Count THEN rest[i]
                                ELSE IF i \in p.acked THEN Entry(rest[i].sig, FALSE)
                                ELSE Null]
  BY <1>5 DEF Updated, rest
<1> HIDE DEF n
<1>7. ASSUME NEW i \in 1 .. n
      PROVE  (IF i > Count THEN rest[i] ELSE IF i \in p.acked THEN Entry(rest[i].sig, FALSE)
              ELSE Null) \in Tracked
  <2>1. CASE i \in p.acked
    <3>1. rest[i] \in [sig : Sigs, pending : BOOLEAN]
      BY <1>1, <1>4, <1>5, <2>1 DEF Tracked
    <3>2. Entry(rest[i].sig, FALSE) \in Tracked
      BY <3>1, EntryTyped
    <3>3. QED
      BY <1>5, <2>1, <3>2
  <2>2. CASE i \notin p.acked
    BY <1>5, <2>2 DEF Tracked
  <2>3. QED
    BY <2>1, <2>2
<1>8. Updated(list, p) \in Seq(Tracked) /\ Len(Updated(list, p)) = n
  <2> DEFINE entry(i) == IF i > Count THEN rest[i]
                         ELSE IF i \in p.acked THEN Entry(rest[i].sig, FALSE) ELSE Null
  <2>1. n \in Nat
    BY <1>1, <1>2 DEF n
  <2>2. /\ Updated(list, p) = [i \in 1 .. n |-> entry(i)]
        /\ \A i \in 1 .. n : entry(i) \in Tracked
    BY <1>6, <1>7
  <2> HIDE DEF entry
  <2>3. QED
    BY <2>1, <2>2
<1>9. QED
  BY <1>1, <1>2, <1>3, <1>6, <1>8 DEF n

\* The list is a list still, and no shorter than the window.
LEMMA AfterShape ==
    ASSUME NEW list \in Seq(Tracked), NEW p \in Up, Fits(list, p), Count <= Len(list)
    PROVE  /\ After(list, p) \in Seq(Tracked) /\ Count <= Len(After(list, p))
           /\ Talk(p) \/ p.type = "ack" => Len(After(list, p)) = Len(list) - p.offset
           /\ ~(Talk(p) \/ p.type = "ack") => After(list, p) = list
<1>1. CASE Talk(p)
  <2>1. /\ Updated(list, p) \in Seq(Tracked) /\ Count + p.offset <= Len(list)
        /\ Len(Updated(list, p)) = Len(list) - p.offset /\ p.offset \in Nat
    BY <1>1, UpdatedShape DEF Fits
  <2>2. QED
    BY <1>1, <2>1, Constants DEF After
<1>2. CASE p.type = "ack"
  <2>1. /\ p.offset \in Nat /\ Count + p.offset <= Len(list) /\ ~Talk(p)
        /\ Len(list) \in Nat /\ p.offset <= Len(list)
    BY <1>2, UpFields, Constants DEF Fits, OffsetFits, Talk
  <2>2. /\ Moved(list, p.offset) \in Seq(Tracked)
        /\ Len(Moved(list, p.offset)) = Len(list) - p.offset
    <3>1. Len(list) - p.offset \in Nat /\ Len(list) = (Len(list) - p.offset) + p.offset
      BY <2>1
    <3>2. QED
      BY <2>1, <3>1, MovedShape
  <2>3. QED
    BY <1>2, <2>1, <2>2, Constants DEF After
<1>3. CASE ~Talk(p) /\ p.type # "ack"
  BY <1>3 DEF After
<1>4. QED
  BY <1>1, <1>2, <1>3

\* A message more on the list comes through a packet unchanged.
LEMMA AfterAppend ==
    ASSUME NEW list \in Seq(Tracked), NEW p \in Up, Fits(list, p), Count <= Len(list),
           NEW e \in Tracked
    PROVE  /\ Fits(Append(list, e), p)
           /\ After(Append(list, e), p) = Append(After(list, p), e)
<1> DEFINE l == Append(list, e)
<1>1. /\ l \in Seq(Tracked) /\ Len(l) = Len(list) + 1 /\ l[Len(list) + 1] = e
      /\ \A i \in 1 .. Len(list) : l[i] = list[i]
      /\ Len(list) \in Nat
  OBVIOUS
<1>2. CASE Talk(p)
  <2> DEFINE o == p.offset
             m == Moved(list, o)
             n == Len(list) - o
  <2>1. /\ o \in Nat /\ p.acked \subseteq 1 .. Count /\ Count + o <= Len(list)
        /\ Updated(list, p) \in Seq(Tracked)
        /\ Len(Updated(list, p)) = n
        /\ \A i \in 1 .. n :
              Updated(list, p)[i] = IF i > Count THEN list[i + o]
                                    ELSE IF i \in p.acked THEN Entry(list[i + o].sig, FALSE)
                                    ELSE Null
    BY <1>2, UpdatedShape DEF Fits
  <2>a. o <= Len(list) /\ n \in Nat /\ Len(list) = n + o
    BY <1>1, <2>1, Constants
  <2> HIDE DEF o, n
  <2>b. Moved(l, o) = Append(m, e)
    BY <2>1, <2>a, MovedAppend
  <2>2. Moved(l, o) = Append(m, e) /\ m \in Seq(Tracked) /\ Len(m) = n
    BY <2>1, <2>a, <2>b, MovedShape
  <2> HIDE DEF l
  <2>3. /\ UpdateFits(list, p)
        /\ \A i \in 1 .. Count : IF i \in p.acked THEN m[i] # Null
                                 ELSE m[i] = Null \/ m[i].pending
        /\ Seen(m, p.acked) = p.sum
    BY <1>2 DEF Fits, UpdateFits, o
  <2> HIDE DEF m
  <2>4. \A i \in 1 .. Count : Moved(l, o)[i] = m[i]
    BY <2>1, <2>2, <2>a, Constants
  <2>5. Seen(Moved(l, o), p.acked) = Seen(m, p.acked)
    <3>1. [i \in p.acked |-> Moved(l, o)[i].sig] = [i \in p.acked |-> m[i].sig]
      BY <2>1, <2>4
    <3>2. QED
      BY <3>1 DEF Seen
  <2>6. OffsetFits(l, o)
    BY <1>1, <2>1, Constants DEF OffsetFits
  <2>7. UpdateFits(l, p)
    BY <2>3, <2>4, <2>5, <2>6 DEF UpdateFits, o
  <2>8. /\ Updated(l, p) \in Seq(Tracked) /\ Len(Updated(l, p)) = n + 1
        /\ \A i \in 1 .. n + 1 :
              Updated(l, p)[i] = IF i > Count THEN l[i + o]
                                 ELSE IF i \in p.acked THEN Entry(l[i + o].sig, FALSE)
                                 ELSE Null
    <3>1. Len(l) - o = n + 1
      BY <1>1, <2>1, <2>a
    <3>2. /\ Updated(l, p) \in Seq(Tracked) /\ Len(Updated(l, p)) = Len(l) - o
          /\ \A i \in 1 .. Len(l) - o :
                Updated(l, p)[i] = IF i > Count THEN l[i + o]
                                   ELSE IF i \in p.acked THEN Entry(l[i + o].sig, FALSE)
                                   ELSE Null
      BY <1>1, <1>2, <2>7, UpdatedShape DEF o
    <3>3. QED
      BY <3>1, <3>2
  <2> DEFINE up1 == Updated(list, p)
  <2>9. /\ Append(up1, e) \in Seq(Tracked) /\ Len(Append(up1, e)) = n + 1
        /\ Append(up1, e)[n + 1] = e /\ \A i \in 1 .. n : Append(up1, e)[i] = up1[i]
    BY <2>1
  <2> HIDE DEF up1
  <2>10. ASSUME NEW i \in 1 .. n + 1 PROVE Updated(l, p)[i] = Append(up1, e)[i]
    <3>1. CASE i = n + 1
      <4>1. i > Count /\ i + o = Len(list) + 1
        BY <1>1, <2>1, <2>a, <3>1, Constants
      <4>2. QED
        BY <1>1, <2>8, <2>9, <3>1, <4>1
    <3>2. CASE i # n + 1
      <4>1. i \in 1 .. n /\ i + o \in 1 .. Len(list)
        BY <1>1, <2>1, <2>a, <3>2, Constants
      <4>2. l[i + o] = list[i + o]
        BY <1>1, <4>1
      <4>3. Append(up1, e)[i] = up1[i]
        BY <2>9, <4>1
      <4>4. up1[i] = IF i > Count THEN list[i + o]
                     ELSE IF i \in p.acked THEN Entry(list[i + o].sig, FALSE) ELSE Null
        BY <2>1, <4>1 DEF up1
      <4>5. QED
        BY <2>8, <4>2, <4>3, <4>4
    <3>3. QED
      BY <3>1, <3>2
  <2>11. Updated(l, p) = Append(up1, e)
    BY <2>8, <2>9, <2>10
  <2>12. QED
    BY <1>2, <2>7, <2>11 DEF Fits, After, Talk, l, up1
<1>3. CASE p.type = "ack"
  <2>1. /\ p.offset \in Nat /\ Count + p.offset <= Len(list) /\ ~Talk(p)
        /\ p.offset <= Len(list)
    BY <1>1, <1>3, UpFields, Constants DEF Fits, OffsetFits, Talk
  <2>2. OffsetFits(l, p.offset)
    BY <1>1, <2>1, Constants DEF OffsetFits
  <2>3. Moved(l, p.offset) = Append(Moved(list, p.offset), e)
    <3>1. Len(list) - p.offset \in Nat /\ Len(list) = (Len(list) - p.offset) + p.offset
      BY <1>1, <2>1
    <3>2. QED
      BY <2>1, <3>1, MovedAppend
  <2>4. QED
    BY <1>3, <2>1, <2>2, <2>3 DEF Fits, After
<1>4. CASE ~Talk(p) /\ p.type # "ack"
  BY <1>4 DEF Fits, After
<1>5. QED
  BY <1>2, <1>3, <1>4

----------------------------------------------------------------------------
(* The packets under way to the client reader.                             *)
\* How far some packets reach, one after the other.
LEMMA Reaching ==
    /\ \A k \in Nat : Reach(k) \in Nat /\ Reach(k + 1) = Reach(k) + Stride /\ k <= Reach(k)
    /\ Reach(0) = 0
<1>1. Stride \in Nat /\ Stride >= 1
  BY Constants
<1>2. ASSUME NEW k \in Nat
      PROVE  k * Stride \in Nat /\ (k + 1) * Stride = k * Stride + Stride /\ k <= k * Stride
  BY <1>1
<1>3. 0 * Stride = 0
  BY <1>1
<1>4. QED
  BY <1>2, <1>3 DEF Reach

\* Nothing under way.
LEMMA LeadsEmpty ==
    ASSUME NEW list \in Seq(Tracked), Count <= Len(list)
    PROVE  LeadsTo(list, << >>, list)
<1> DEFINE s == [i \in 0 .. 0 |-> list]
<1>1. s \in [0 .. Len(<< >>) -> Seq(Tracked)] /\ Len(<< >>) = 0 /\ Len(list) \in Nat
  OBVIOUS
<1>2. /\ s[0] = list
      /\ \A i \in 0 .. 0 : s[i] = list /\ i = 0
      /\ \A i \in 1 .. 0 : FALSE
  OBVIOUS
<1> HIDE DEF s
<1>3. Trace(s, list, << >>, list)
  BY <1>1, <1>2, Reaching, Constants DEF Trace
<1>4. QED
  BY <1>1, <1>3 DEF LeadsTo

\* What there is to know of the ends.
LEMMA LeadsBounds ==
    ASSUME NEW list, NEW u \in Seq(Up), NEW t, LeadsTo(list, u, t)
    PROVE  /\ list \in Seq(Tracked) /\ t \in Seq(Tracked)
           /\ Count <= Len(list) /\ Len(list) <= Len(t) + Reach(Len(u))
           /\ Count <= Len(t)
<1>1. PICK s \in [0 .. Len(u) -> Seq(Tracked)] : Trace(s, list, u, t)
  BY DEF LeadsTo
<1>2. Len(u) \in Nat /\ 0 \in 0 .. Len(u) /\ Len(u) \in 0 .. Len(u) /\ Len(u) - 0 = Len(u)
  OBVIOUS
<1>3. s[0] \in Seq(Tracked) /\ s[Len(u)] \in Seq(Tracked)
  BY <1>1, <1>2
<1>4. QED
  BY <1>1, <1>2, <1>3 DEF Trace

\* The client reader takes the next packet: it fits.
LEMMA LeadsTail ==
    ASSUME NEW list, NEW u \in Seq(Up), NEW t, LeadsTo(list, u, t), u # << >>
    PROVE  Fits(list, Head(u)) /\ LeadsTo(After(list, Head(u)), Tail(u), t)
<1>1. PICK s \in [0 .. Len(u) -> Seq(Tracked)] : Trace(s, list, u, t)
  BY DEF LeadsTo
<1> DEFINE r == [i \in 0 .. Len(Tail(u)) |-> s[i + 1]]
<1>2. PICK n \in Nat : Len(u) = n + 1
  <2>1. Len(u) \in Nat /\ Len(u) # 0
    OBVIOUS
  <2>2. Len(u) - 1 \in Nat /\ Len(u) = (Len(u) - 1) + 1
    BY <2>1
  <2>3. QED
    BY <2>2
<1>3. /\ Len(Tail(u)) = n /\ Head(u) = u[1]
      /\ \A i \in 1 .. n : Tail(u)[i] = u[i + 1]
  BY <1>2
<1>4. /\ r \in [0 .. Len(Tail(u)) -> Seq(Tracked)]
      /\ \A i \in 0 .. n : r[i] = s[i + 1]
  <2>1. \A i \in 0 .. n : i + 1 \in 0 .. Len(u)
    BY <1>2
  <2>2. QED
    BY <1>3, <2>1
<1> HIDE DEF r
<1>5. Fits(list, Head(u)) /\ r[0] = After(list, Head(u))
  <2>1. 1 \in 1 .. Len(u) /\ 1 - 1 = 0
    BY <1>2
  <2>2. Fits(s[0], u[1]) /\ s[1] = After(s[0], u[1]) /\ s[0] = list
    BY <1>1, <2>1 DEF Trace
  <2>3. r[0] = s[1]
    BY <1>4
  <2>4. QED
    BY <1>3, <2>2, <2>3
<1>6. r[n] = t
  BY <1>1, <1>2, <1>4 DEF Trace
<1>7. ASSUME NEW i \in 1 .. n
      PROVE  Fits(r[i - 1], Tail(u)[i]) /\ r[i] = After(r[i - 1], Tail(u)[i])
  <2>1. i + 1 \in 1 .. Len(u) /\ (i + 1) - 1 = i /\ i - 1 \in 0 .. n /\ (i - 1) + 1 = i
        /\ i \in 0 .. n
    BY <1>2
  <2>2. Fits(s[i], u[i + 1]) /\ s[i + 1] = After(s[i], u[i + 1])
    BY <1>1, <2>1 DEF Trace
  <2>3. r[i - 1] = s[i] /\ r[i] = s[i + 1]
    BY <1>4, <2>1
  <2>4. QED
    BY <1>3, <2>2, <2>3
<1>8. ASSUME NEW i \in 0 .. n
      PROVE  Count <= Len(r[i]) /\ Len(r[i]) <= Len(t) + Reach(n - i)
  <2>1. i + 1 \in 0 .. Len(u) /\ Len(u) - (i + 1) = n - i
    BY <1>2
  <2>2. Count <= Len(s[i + 1]) /\ Len(s[i + 1]) <= Len(t) + Reach(n - i)
    BY <1>1, <2>1 DEF Trace
  <2>3. QED
    BY <1>4, <2>2
<1>9. Trace(r, After(list, Head(u)), Tail(u), t)
  BY <1>3, <1>5, <1>6, <1>7, <1>8 DEF Trace
<1>10. QED
  BY <1>4, <1>5, <1>9 DEF LeadsTo

\* The client sends a packet that fits the list it will meet.
LEMMA LeadsAppend ==
    ASSUME NEW list, NEW u \in Seq(Up), NEW t, LeadsTo(list, u, t), NEW p \in Up,
           Fits(t, p), Talk(p) \/ p.type = "ack" => p.offset <= Stride
    PROVE  LeadsTo(list, Append(u, p), After(t, p))
<1>1. PICK s \in [0 .. Len(u) -> Seq(Tracked)] : Trace(s, list, u, t)
  BY DEF LeadsTo
<1>2. PICK n \in Nat : n = Len(u)
  OBVIOUS
<1> DEFINE v == Append(u, p)
           w == After(t, p)
           r == [i \in 0 .. Len(v) |-> IF i = n + 1 THEN w ELSE s[i]]
<1>3. /\ v \in Seq(Up) /\ Len(v) = n + 1 /\ v[n + 1] = p
      /\ \A i \in 1 .. n : v[i] = u[i]
  BY <1>2
<1>4. /\ list \in Seq(Tracked) /\ t \in Seq(Tracked) /\ Count <= Len(t)
      /\ Len(t) \in Nat
  BY LeadsBounds
<1>5. /\ w \in Seq(Tracked) /\ Count <= Len(w) /\ Len(w) \in Nat
      /\ Len(t) <= Len(w) + Stride
  <2>1. /\ After(t, p) \in Seq(Tracked) /\ Count <= Len(After(t, p))
        /\ Talk(p) \/ p.type = "ack" => Len(After(t, p)) = Len(t) - p.offset
        /\ ~(Talk(p) \/ p.type = "ack") => After(t, p) = t
    BY <1>4, AfterShape
  <2>2. Talk(p) \/ p.type = "ack" => p.offset \in Nat
    BY UpFields
  <2>3. QED
    BY <1>4, <2>1, <2>2, Constants
<1> HIDE DEF v, w
<1>6. /\ r \in [0 .. Len(v) -> Seq(Tracked)] /\ r[n + 1] = w
      /\ \A i \in 0 .. n : r[i] = s[i] /\ s[i] \in Seq(Tracked)
  <2>1. \A i \in 0 .. n : s[i] \in Seq(Tracked)
    BY <1>2
  <2>2. QED
    BY <1>3, <1>5, <2>1
<1> HIDE DEF r
<1>7. r[0] = list
  BY <1>1, <1>6 DEF Trace
<1>8. ASSUME NEW i \in 1 .. n + 1
      PROVE  Fits(r[i - 1], v[i]) /\ r[i] = After(r[i - 1], v[i])
  <2>1. i - 1 \in 0 .. n
    OBVIOUS
  <2>2. CASE i = n + 1
    <3>1. r[i - 1] = t
      BY <1>1, <1>2, <1>6, <2>1, <2>2 DEF Trace
    <3>2. QED
      BY <1>3, <1>6, <2>2, <3>1 DEF w
  <2>3. CASE i # n + 1
    <3>1. i \in 1 .. n /\ i \in 0 .. n
      BY <2>3
    <3>2. Fits(s[i - 1], u[i]) /\ s[i] = After(s[i - 1], u[i])
      BY <1>1, <1>2, <3>1 DEF Trace
    <3>3. r[i - 1] = s[i - 1] /\ r[i] = s[i] /\ v[i] = u[i]
      BY <1>3, <1>6, <2>1, <3>1
    <3>4. QED
      BY <3>2, <3>3
  <2>4. QED
    BY <2>2, <2>3
<1>9. ASSUME NEW i \in 0 .. n + 1
      PROVE  Count <= Len(r[i]) /\ Len(r[i]) <= Len(w) + Reach((n + 1) - i)
  <2>1. CASE i = n + 1
    <3>1. (n + 1) - i = 0 /\ r[i] = w
      BY <1>6, <2>1
    <3>2. Reach((n + 1) - i) = 0
      BY <3>1, Reaching
    <3>3. QED
      BY <1>5, <3>1, <3>2
  <2>2. CASE i # n + 1
    <3>1. i \in 0 .. n /\ n - i \in Nat /\ (n + 1) - i = (n - i) + 1
      BY <2>2
    <3>2. Count <= Len(s[i]) /\ Len(s[i]) <= Len(t) + Reach(n - i)
      BY <1>1, <1>2, <3>1 DEF Trace
    <3>3. Reach((n + 1) - i) = Reach(n - i) + Stride /\ Reach(n - i) \in Nat
      BY <3>1, Reaching
    <3>4. r[i] = s[i] /\ Len(s[i]) \in Nat
      BY <1>6, <3>1
    <3>5. QED
      BY <1>4, <1>5, <3>2, <3>3, <3>4, Constants
  <2>3. QED
    BY <2>1, <2>2
<1>10. Trace(r, list, v, w)
  BY <1>3, <1>6, <1>7, <1>8, <1>9 DEF Trace
<1>11. QED
  BY <1>6, <1>10 DEF LeadsTo, v, w

\* The world reader tracks one message more.
LEMMA LeadsTracked ==
    ASSUME NEW list, NEW u \in Seq(Up), NEW t, LeadsTo(list, u, t), NEW e \in Tracked
    PROVE  LeadsTo(Append(list, e), u, Append(t, e))
<1>1. PICK s \in [0 .. Len(u) -> Seq(Tracked)] : Trace(s, list, u, t)
  BY DEF LeadsTo
<1>2. PICK n \in Nat : n = Len(u)
  OBVIOUS
<1> DEFINE r == [i \in 0 .. Len(u) |-> Append(s[i], e)]
<1>3. \A i \in 0 .. n : s[i] \in Seq(Tracked) /\ Len(s[i]) \in Nat
  BY <1>2
<1>4. /\ r \in [0 .. Len(u) -> Seq(Tracked)]
      /\ \A i \in 0 .. n : r[i] = Append(s[i], e) /\ Len(r[i]) = Len(s[i]) + 1
  BY <1>2, <1>3
<1> HIDE DEF r
<1>5. t \in Seq(Tracked) /\ Len(t) \in Nat /\ Len(Append(t, e)) = Len(t) + 1
  BY LeadsBounds
<1>6. r[0] = Append(list, e) /\ r[n] = Append(t, e)
  BY <1>1, <1>2, <1>4 DEF Trace
<1>7. ASSUME NEW i \in 1 .. n PROVE Fits(r[i - 1], u[i]) /\ r[i] = After(r[i - 1], u[i])
  <2>1. i - 1 \in 0 .. n /\ i \in 0 .. n /\ u[i] \in Up
    BY <1>2
  <2>2. /\ Fits(s[i - 1], u[i]) /\ s[i] = After(s[i - 1], u[i])
        /\ Count <= Len(s[i - 1]) /\ s[i - 1] \in Seq(Tracked)
    BY <1>1, <1>2, <1>3, <2>1 DEF Trace
  <2>3. /\ Fits(Append(s[i - 1], e), u[i])
        /\ After(Append(s[i - 1], e), u[i]) = Append(After(s[i - 1], u[i]), e)
    BY <2>1, <2>2, AfterAppend
  <2>4. r[i - 1] = Append(s[i - 1], e) /\ r[i] = Append(s[i], e)
    BY <1>4, <2>1
  <2>5. QED
    BY <2>2, <2>3, <2>4
<1>8. ASSUME NEW i \in 0 .. n
      PROVE  Count <= Len(r[i]) /\ Len(r[i]) <= Len(Append(t, e)) + Reach(n - i)
  <2>1. Count <= Len(s[i]) /\ Len(s[i]) <= Len(t) + Reach(n - i)
    BY <1>1, <1>2 DEF Trace
  <2>2. Reach(n - i) \in Nat
    <3>1. n - i \in Nat
      OBVIOUS
    <3>2. QED
      BY <3>1, Reaching
  <2>3. QED
    BY <1>3, <1>4, <1>5, <2>1, <2>2, Constants
<1>9. Trace(r, Append(list, e), u, Append(t, e))
  BY <1>2, <1>6, <1>7, <1>8 DEF Trace
<1>10. QED
  BY <1>4, <1>9 DEF LeadsTo

----------------------------------------------------------------------------
(* The packets under way to the client.                                    *)
\* How far the client is: the entries of the list it was sent, the last
\* signature and the next index.
Mark(n, last, index) == [n |-> n, last |-> last, index |-> index]
Marks == [n : Nat, last : Sigs \cup {Null}, index : Nat]

\* What a packet must be when the client reads it, and how far it is then.
Sent(m, p, t) ==
    p.type = "message" =>
        /\ p.sig \in Sigs /\ p.index = m.index
        /\ p.sig # m.last => t[m.n + 1] = Entry(p.sig, TRUE)
Got(m, p) ==
    IF p.type = "message"
    THEN Mark(IF p.sig = m.last THEN m.n ELSE m.n + 1, p.sig, m.index + 1) ELSE m

\* The packets of q bring the client from one mark to another.
Marked(d, t, first, q, final) ==
    /\ d[0] = first /\ d[Len(q)] = final
    /\ \A j \in 1 .. Len(q) : Sent(d[j - 1], q[j], t) /\ d[j] = Got(d[j - 1], q[j])
    /\ \A i, j \in 0 .. Len(q) : i <= j => d[i].n <= d[j].n /\ d[j].n <= d[i].n + (j - i)
Brings(t, first, q, final) ==
    \E d \in [0 .. Len(q) -> Marks] : Marked(d, t, first, q, final)

\* The fields of a mark.
LEMMA MarkFields ==
    ASSUME NEW n, NEW last, NEW index
    PROVE  /\ Mark(n, last, index).n = n /\ Mark(n, last, index).last = last
           /\ Mark(n, last, index).index = index
           /\ n \in Nat /\ last \in Sigs \cup {Null} /\ index \in Nat
                 => Mark(n, last, index) \in Marks
BY DEF Mark, Marks

\* Reading a packet moves a mark by one at most.
LEMMA GotMark ==
    ASSUME NEW m \in Marks, NEW p, NEW t, Sent(m, p, t)
    PROVE  /\ Got(m, p) \in Marks /\ m.n \in Nat /\ Got(m, p).n \in Nat
           /\ m.n <= Got(m, p).n /\ Got(m, p).n <= m.n + 1
<1>1. m.n \in Nat /\ m.last \in Sigs \cup {Null} /\ m.index \in Nat
  BY DEF Marks
<1>2. CASE p.type = "message"
  <2>1. p.sig \in Sigs
    BY <1>2 DEF Sent
  <2> DEFINE k == IF p.sig = m.last THEN m.n ELSE m.n + 1
  <2>2. k \in Nat /\ m.n <= k /\ k <= m.n + 1 /\ m.index + 1 \in Nat
    BY <1>1
  <2>3. Got(m, p) = Mark(k, p.sig, m.index + 1)
    BY <1>2 DEF Got
  <2> HIDE DEF k
  <2>4. QED
    BY <1>1, <2>1, <2>2, <2>3, MarkFields
<1>3. CASE p.type # "message"
  BY <1>1, <1>3 DEF Got
<1>4. QED
  BY <1>2, <1>3

\* Nothing to read.
LEMMA BringsEmpty ==
    ASSUME NEW t, NEW m \in Marks
    PROVE  Brings(t, m, << >>, m)
<1> DEFINE d == [j \in 0 .. 0 |-> m]
<1>1. d \in [0 .. Len(<< >>) -> Marks] /\ Len(<< >>) = 0 /\ m.n \in Nat
  BY DEF Marks
<1>2. /\ \A j \in 0 .. 0 : d[j] = m /\ j = 0
      /\ \A j \in 1 .. 0 : FALSE
      /\ 0 \in 0 .. 0
  OBVIOUS
<1> HIDE DEF d
<1>3. Marked(d, t, m, << >>, m)
  BY <1>1, <1>2 DEF Marked
<1>4. QED
  BY <1>1, <1>3 DEF Brings

\* What there is to know of the marks.
LEMMA BringsBounds ==
    ASSUME NEW S, NEW q \in Seq(S), NEW t, NEW first, NEW final, Brings(t, first, q, final)
    PROVE  /\ first \in Marks /\ final \in Marks /\ first.n \in Nat /\ final.n \in Nat
           /\ first.n <= final.n /\ final.n <= first.n + Len(q)
<1>1. PICK d \in [0 .. Len(q) -> Marks] : Marked(d, t, first, q, final)
  BY DEF Brings
<1>2. /\ Len(q) \in Nat /\ 0 \in 0 .. Len(q) /\ Len(q) \in 0 .. Len(q)
      /\ 0 <= Len(q) /\ Len(q) - 0 = Len(q)
  OBVIOUS
<1>3. first \in Marks /\ final \in Marks
  BY <1>1, <1>2 DEF Marked
<1>4. d[0].n <= d[Len(q)].n /\ d[Len(q)].n <= d[0].n + (Len(q) - 0)
  BY <1>1, <1>2 DEF Marked
<1>5. QED
  BY <1>1, <1>2, <1>3, <1>4 DEF Marked, Marks

\* The client reads the next packet.
LEMMA BringsTail ==
    ASSUME NEW S, NEW q \in Seq(S), NEW t, NEW first, NEW final, Brings(t, first, q, final),
           q # << >>
    PROVE  Sent(first, Head(q), t) /\ Brings(t, Got(first, Head(q)), Tail(q), final)
<1>1. PICK d \in [0 .. Len(q) -> Marks] : Marked(d, t, first, q, final)
  BY DEF Brings
<1> DEFINE r == [j \in 0 .. Len(Tail(q)) |-> d[j + 1]]
<1>2. PICK n \in Nat : Len(q) = n + 1
  <2>1. Len(q) \in Nat /\ Len(q) # 0
    OBVIOUS
  <2>2. Len(q) - 1 \in Nat /\ Len(q) = (Len(q) - 1) + 1
    BY <2>1
  <2>3. QED
    BY <2>2
<1>3. /\ Len(Tail(q)) = n /\ Head(q) = q[1]
      /\ \A j \in 1 .. n : Tail(q)[j] = q[j + 1]
  BY <1>2
<1>4. /\ r \in [0 .. Len(Tail(q)) -> Marks]
      /\ \A j \in 0 .. n : r[j] = d[j + 1]
  <2>1. \A j \in 0 .. n : j + 1 \in 0 .. Len(q)
    BY <1>2
  <2>2. QED
    BY <1>3, <2>1
<1> HIDE DEF r
<1>5. Sent(first, Head(q), t) /\ r[0] = Got(first, Head(q))
  <2>1. 1 \in 1 .. Len(q) /\ 1 - 1 = 0
    BY <1>2
  <2>2. Sent(d[0], q[1], t) /\ d[1] = Got(d[0], q[1]) /\ d[0] = first
    BY <1>1, <2>1 DEF Marked
  <2>3. r[0] = d[1]
    BY <1>4
  <2>4. QED
    BY <1>3, <2>2, <2>3
<1>6. r[n] = final
  BY <1>1, <1>2, <1>4 DEF Marked
<1>7. ASSUME NEW j \in 1 .. n
      PROVE  Sent(r[j - 1], Tail(q)[j], t) /\ r[j] = Got(r[j - 1], Tail(q)[j])
  <2>1. j + 1 \in 1 .. Len(q) /\ (j + 1) - 1 = j /\ j - 1 \in 0 .. n /\ (j - 1) + 1 = j
        /\ j \in 0 .. n
    BY <1>2
  <2>2. Sent(d[j], q[j + 1], t) /\ d[j + 1] = Got(d[j], q[j + 1])
    BY <1>1, <2>1 DEF Marked
  <2>3. r[j - 1] = d[j] /\ r[j] = d[j + 1]
    BY <1>4, <2>1
  <2>4. QED
    BY <1>3, <2>2, <2>3
<1>8. ASSUME NEW i \in 0 .. n, NEW j \in 0 .. n, i <= j
      PROVE  r[i].n <= r[j].n /\ r[j].n <= r[i].n + (j - i)
  <2>1. /\ i + 1 \in 0 .. Len(q) /\ j + 1 \in 0 .. Len(q) /\ i + 1 <= j + 1
        /\ (j + 1) - (i + 1) = j - i
    BY <1>2, <1>8
  <2>2. d[i + 1].n <= d[j + 1].n /\ d[j + 1].n <= d[i + 1].n + (j - i)
    BY <1>1, <2>1 DEF Marked
  <2>3. r[i] = d[i + 1] /\ r[j] = d[j + 1]
    BY <1>4
  <2>4. QED
    BY <2>2, <2>3
<1>9. Marked(r, t, Got(first, Head(q)), Tail(q), final)
  BY <1>3, <1>5, <1>6, <1>7, <1>8 DEF Marked
<1>10. QED
  BY <1>4, <1>5, <1>9 DEF Brings

\* One packet more, and perhaps an entry more on the list.
LEMMA BringsAppend ==
    ASSUME NEW S, NEW q \in Seq(S), NEW t, NEW first, NEW final, Brings(t, first, q, final),
           NEW p \in S, NEW t2, \A i \in 1 .. final.n : t2[i] = t[i], Sent(final, p, t2)
    PROVE  Brings(t2, first, Append(q, p), Got(final, p))
<1>1. PICK d \in [0 .. Len(q) -> Marks] : Marked(d, t, first, q, final)
  BY DEF Brings
<1>2. PICK n \in Nat : n = Len(q)
  OBVIOUS
<1> DEFINE v == Append(q, p)
           m == Got(final, p)
           r == [j \in 0 .. Len(v) |-> IF j = n + 1 THEN m ELSE d[j]]
<1>3. /\ v \in Seq(S) /\ Len(v) = n + 1 /\ v[n + 1] = p
      /\ \A j \in 1 .. n : v[j] = q[j]
  BY <1>2
<1>4. /\ final \in Marks /\ m \in Marks /\ final.n \in Nat /\ m.n \in Nat
      /\ final.n <= m.n /\ m.n <= final.n + 1
  BY BringsBounds, GotMark
<1> HIDE DEF v, m
<1>5. /\ r \in [0 .. Len(v) -> Marks] /\ r[n + 1] = m
      /\ \A j \in 0 .. n : r[j] = d[j] /\ d[j] \in Marks
  <2>1. \A j \in 0 .. n : d[j] \in Marks
    BY <1>2
  <2>2. QED
    BY <1>3, <1>4, <2>1
<1> HIDE DEF r
<1>6. r[0] = first
  BY <1>1, <1>5 DEF Marked
<1>7. \A j \in 0 .. n : d[j].n \in Nat /\ d[j].n <= final.n /\ final.n <= d[j].n + (n - j)
  BY <1>1, <1>2, <1>5, SMTT(30) DEF Marked, Marks
<1>8. ASSUME NEW j \in 1 .. n + 1
      PROVE  Sent(r[j - 1], v[j], t2) /\ r[j] = Got(r[j - 1], v[j])
  <2>1. j - 1 \in 0 .. n
    OBVIOUS
  <2>2. CASE j = n + 1
    <3>1. r[j - 1] = final
      BY <1>1, <1>2, <1>5, <2>1, <2>2 DEF Marked
    <3>2. QED
      BY <1>3, <1>5, <2>2, <3>1 DEF m
  <2>3. CASE j # n + 1
    <3>1. j \in 1 .. n /\ j \in 0 .. n
      BY <2>3
    <3>2. Sent(d[j - 1], q[j], t) /\ d[j] = Got(d[j - 1], q[j])
      BY <1>1, <1>2, <3>1 DEF Marked
    <3>3. r[j - 1] = d[j - 1] /\ r[j] = d[j] /\ v[j] = q[j]
      BY <1>3, <1>5, <2>1, <3>1
    <3>4. Sent(d[j - 1], q[j], t2)
      <4>1. CASE q[j].type = "message" /\ q[j].sig # d[j - 1].last
        <5>1. d[j].n = d[j - 1].n + 1
          BY <3>2, <4>1, MarkFields DEF Got
        <5>2. d[j - 1].n \in Nat /\ d[j].n \in Nat /\ d[j].n <= final.n
          BY <1>7, <2>1, <3>1
        <5>3. d[j - 1].n + 1 \in 1 .. final.n
          BY <1>4, <5>1, <5>2
        <5>4. QED
          BY <3>2, <5>3 DEF Sent
      <4>2. QED
        BY <3>2, <4>1 DEF Sent
    <3>5. QED
      BY <3>2, <3>3, <3>4
  <2>4. QED
    BY <2>2, <2>3
<1>9. ASSUME NEW i \in 0 .. n + 1, NEW j \in 0 .. n + 1, i <= j
      PROVE  r[i].n <= r[j].n /\ r[j].n <= r[i].n + (j - i)
  <2>1. CASE j # n + 1
    <3>1. i \in 0 .. n /\ j \in 0 .. n
      BY <1>9, <2>1
    <3>2. d[i].n <= d[j].n /\ d[j].n <= d[i].n + (j - i)
      BY <1>1, <1>2, <1>9, <3>1 DEF Marked
    <3>3. QED
      BY <1>5, <3>1, <3>2
  <2>2. CASE j = n + 1 /\ i # n + 1
    <3>1. i \in 0 .. n /\ r[j] = m /\ r[i] = d[i]
      BY <1>5, <2>2
    <3>2. d[i].n \in Nat /\ d[i].n <= final.n /\ final.n <= d[i].n + (n - i)
      BY <1>7, <3>1
    <3>3. QED
      BY <1>4, <2>2, <3>1, <3>2
  <2>3. CASE j = n + 1 /\ i = n + 1
    BY <1>4, <1>5, <2>3
  <2>4. QED
    BY <2>1, <2>2, <2>3
<1>10. Marked(r, t2, first, v, m)
  BY <1>3, <1>5, <1>6, <1>8, <1>9 DEF Marked
<1>11. QED
  BY <1>5, <1>10 DEF Brings, v, m

\* The list loses o entries that the client is past.
LEMMA BringsMoved ==
    ASSUME NEW S, NEW q \in Seq(S), NEW t, NEW first, NEW final, Brings(t, first, q, final),
           NEW o \in Nat, o <= first.n, NEW t2,
           \A i \in 1 .. final.n : i > first.n => t2[i - o] = t[i]
    PROVE  Brings(t2, Mark(first.n - o, first.last, first.index), q,
                  Mark(final.n - o, final.last, final.index))
<1>1. PICK d \in [0 .. Len(q) -> Marks] : Marked(d, t, first, q, final)
  BY DEF Brings
<1>2. PICK n \in Nat : n = Len(q)
  OBVIOUS
<1> DEFINE back(m) == Mark(m.n - o, m.last, m.index)
           r == [j \in 0 .. Len(q) |-> back(d[j])]
<1>3. \A j \in 0 .. n : /\ d[j].n \in Nat /\ first.n <= d[j].n /\ d[j].n <= final.n
                        /\ d[j].last \in Sigs \cup {Null} /\ d[j].index \in Nat
                        /\ d[j].n - o \in Nat
  <2>1. first.n \in Nat /\ final.n \in Nat
    BY BringsBounds
  <2>2. ASSUME NEW j \in 0 .. n
        PROVE  /\ d[j].n \in Nat /\ d[j].last \in Sigs \cup {Null} /\ d[j].index \in Nat
               /\ first.n <= d[j].n /\ d[j].n <= final.n
    <3>1. d[j] \in Marks
      BY <1>2
    <3>2. 0 <= j /\ j <= n /\ 0 \in 0 .. n /\ n \in 0 .. n
      OBVIOUS
    <3>3. d[0].n <= d[j].n /\ d[j].n <= d[n].n
      BY <1>1, <1>2, <3>2 DEF Marked
    <3>4. QED
      BY <1>1, <1>2, <3>1, <3>3 DEF Marked, Marks
  <2>3. ASSUME NEW j \in 0 .. n PROVE d[j].n - o \in Nat
    <3>1. d[j].n \in Nat /\ first.n <= d[j].n
      BY <2>2
    <3>2. QED
      BY <2>1, <3>1
  <2>4. QED
    BY <2>2, <2>3
<1>4. \A j \in 0 .. n : /\ back(d[j]) \in Marks /\ back(d[j]).n = d[j].n - o
                        /\ back(d[j]).last = d[j].last /\ back(d[j]).index = d[j].index
  BY <1>3, MarkFields
<1> HIDE DEF back
<1>5. r \in [0 .. Len(q) -> Marks] /\ \A j \in 0 .. n : r[j] = back(d[j])
  BY <1>2, <1>4
<1> HIDE DEF r
<1>6. r[0] = back(first) /\ r[n] = back(final)
  BY <1>1, <1>2, <1>5 DEF Marked
<1>7. ASSUME NEW j \in 1 .. n
      PROVE  Sent(r[j - 1], q[j], t2) /\ r[j] = Got(r[j - 1], q[j])
  <2>1. j - 1 \in 0 .. n /\ j \in 0 .. n
    OBVIOUS
  <2>2. Sent(d[j - 1], q[j], t) /\ d[j] = Got(d[j - 1], q[j])
    BY <1>1, <1>2 DEF Marked
  <2> DEFINE a == d[j - 1]
             b == d[j]
             p == q[j]
  <2>3. /\ r[j - 1] = back(a) /\ r[j] = back(b) /\ b = Got(a, p) /\ Sent(a, p, t)
        /\ a.n \in Nat /\ first.n <= a.n /\ b.n \in Nat /\ b.n <= final.n
        /\ back(a).n = a.n - o /\ back(a).last = a.last /\ back(a).index = a.index
        /\ a.n - o \in Nat
    BY <1>3, <1>4, <1>5, <2>1, <2>2
  <2> HIDE DEF a, b, p
  <2>4. CASE p.type = "message" /\ p.sig # a.last
    <3>1. b = Mark(a.n + 1, p.sig, a.index + 1) /\ b.n = a.n + 1
      BY <2>3, <2>4, MarkFields DEF Got
    <3>2. back(b) = Mark((a.n - o) + 1, p.sig, a.index + 1)
      <4>1. (a.n + 1) - o = (a.n - o) + 1
        BY <2>3
      <4>2. b.last = p.sig /\ b.index = a.index + 1
        BY <3>1, MarkFields
      <4>3. QED
        BY <3>1, <4>1, <4>2 DEF back
    <3>3. Got(back(a), p) = Mark((a.n - o) + 1, p.sig, a.index + 1)
      BY <2>3, <2>4 DEF Got
    <3>4. t2[(a.n - o) + 1] = t[a.n + 1]
      <4>1. a.n + 1 \in 1 .. final.n /\ a.n + 1 > first.n /\ (a.n + 1) - o = (a.n - o) + 1
        <5>1. first.n \in Nat /\ final.n \in Nat
          BY BringsBounds
        <5>2. QED
          BY <2>3, <3>1, <5>1
      <4>2. QED
        BY <4>1
    <3>5. Sent(back(a), p, t2)
      BY <2>3, <3>4 DEF Sent
    <3>6. QED
      BY <2>3, <3>2, <3>3, <3>5 DEF p
  <2>5. CASE p.type = "message" /\ p.sig = a.last
    <3>1. b = Mark(a.n, p.sig, a.index + 1)
      BY <2>3, <2>5 DEF Got
    <3>2. back(b) = Mark(a.n - o, p.sig, a.index + 1)
      BY <3>1, MarkFields DEF back
    <3>3. Got(back(a), p) = Mark(a.n - o, p.sig, a.index + 1) /\ Sent(back(a), p, t2)
      BY <2>3, <2>5 DEF Got, Sent
    <3>4. QED
      BY <2>3, <3>2, <3>3 DEF p
  <2>6. CASE p.type # "message"
    BY <2>3, <2>6 DEF Got, Sent, p
  <2>7. QED
    BY <2>4, <2>5, <2>6
<1>8. ASSUME NEW i \in 0 .. n, NEW j \in 0 .. n, i <= j
      PROVE  r[i].n <= r[j].n /\ r[j].n <= r[i].n + (j - i)
  <2>1. d[i].n <= d[j].n /\ d[j].n <= d[i].n + (j - i)
    BY <1>1, <1>2, <1>8 DEF Marked
  <2>2. r[i].n = d[i].n - o /\ r[j].n = d[j].n - o
    BY <1>4, <1>5
  <2> DEFINE a == d[i].n
             b == d[j].n
  <2>3. a \in Nat /\ b \in Nat
    BY <1>3
  <2> HIDE DEF a, b
  <2>4. /\ a <= b /\ b <= a + (j - i)
        /\ r[i].n = a - o /\ r[j].n = b - o
    BY <2>1, <2>2 DEF a, b
  <2>5. a - o <= b - o /\ b - o <= (a - o) + (j - i)
    BY <2>3, <2>4
  <2>6. QED
    BY <2>4, <2>5
<1>9. Marked(r, t2, back(first), q, back(final))
  BY <1>2, <1>6, <1>7, <1>8 DEF Marked
<1>10. QED
  BY <1>5, <1>9 DEF Brings, back

----------------------------------------------------------------------------
(* The list and the window of the client.                                  *)
\* The window of the client is the list's from o on, but for messages it does
\* not show, which it cannot have acknowledged.
Mirror(t, w, o) ==
    /\ w \in Seq(Tracked) /\ Len(w) = Count
    /\ \A i \in 1 .. Count :
          \/ w[i] = t[i + o]
          \/ w[i] = Null /\ t[i + o] # Null /\ t[i + o].pending

\* A listener c that still has the packets q to read agrees with a list that
\* still has those of u to take.
AgreeAt(t, list, u, c, q, last, next) ==
    /\ LeadsTo(list, u, t)
    /\ Brings(t, Mark(Count + c.offset, c.last, c.index), q, Mark(Len(t), last, next))
    /\ Mirror(t, c.window, c.offset)
Agree(list, u, c, q, last, next) ==
    /\ c.offset \in Nat
    /\ \E t \in Seq(Tracked) : AgreeAt(t, list, u, c, q, last, next)

\* What follows of the marks.
LEMMA AgreeMarks ==
    ASSUME NEW list, NEW u \in Seq(Up), NEW c, NEW S, NEW q \in Seq(S), NEW last, NEW next,
           c.offset \in Nat, NEW t \in Seq(Tracked), AgreeAt(t, list, u, c, q, last, next)
    PROVE  /\ last \in Sigs \cup {Null} /\ next \in Nat
           /\ c.last \in Sigs \cup {Null} /\ c.index \in Nat
           /\ Len(t) \in Nat /\ Count + c.offset <= Len(t)
           /\ Len(t) <= Count + c.offset + Len(q)
<1>1. /\ Mark(Count + c.offset, c.last, c.index) \in Marks
      /\ Mark(Len(t), last, next) \in Marks
      /\ Mark(Count + c.offset, c.last, c.index).n <= Mark(Len(t), last, next).n
      /\ Mark(Len(t), last, next).n <= Mark(Count + c.offset, c.last, c.index).n + Len(q)
  BY BringsBounds DEF AgreeAt
<1>2. Count + c.offset <= Len(t) /\ Len(t) <= Count + c.offset + Len(q)
  BY <1>1, MarkFields
<1>3. last \in Sigs \cup {Null} /\ next \in Nat /\ c.last \in Sigs \cup {Null}
      /\ c.index \in Nat
  BY <1>1, MarkFields DEF Marks
<1>4. QED
  BY <1>2, <1>3

\* The list is no longer than what is under way makes it.
LEMMA AgreeRoom ==
    ASSUME NEW list, NEW u \in Seq(Up), NEW c, NEW S, NEW q \in Seq(S), NEW last, NEW next,
           Agree(list, u, c, q, last, next)
    PROVE  /\ list \in Seq(Tracked)
           /\ Count <= Len(list)
           /\ Len(list) <= Count + c.offset + Len(q) + Reach(Len(u))
           /\ last \in Sigs \cup {Null} /\ next \in Nat /\ c.index \in Nat /\ c.offset \in Nat
           /\ c.window \in Seq(Tracked) /\ Len(c.window) = Count
<1>1. PICK t \in Seq(Tracked) : AgreeAt(t, list, u, c, q, last, next)
  BY DEF Agree
<1>2. c.offset \in Nat
  BY DEF Agree
<1>3. /\ last \in Sigs \cup {Null} /\ next \in Nat /\ c.index \in Nat
      /\ Len(t) <= Count + c.offset + Len(q) /\ Len(t) \in Nat
  BY <1>1, <1>2, AgreeMarks
<1>4. /\ list \in Seq(Tracked) /\ Count <= Len(list)
      /\ Len(list) <= Len(t) + Reach(Len(u))
  BY <1>1, LeadsBounds DEF AgreeAt
<1>5. Reach(Len(u)) \in Nat /\ Len(q) \in Nat /\ Len(list) \in Nat
  <2>1. Len(u) \in Nat /\ Len(q) \in Nat
    OBVIOUS
  <2>2. Len(list) \in Nat
    BY <1>4
  <2>3. Reach(Len(u)) \in Nat
    BY <2>1, Reaching
  <2>4. QED
    BY <2>1, <2>2, <2>3
<1>6. Len(list) <= Count + c.offset + Len(q) + Reach(Len(u))
  BY <1>2, <1>3, <1>4, <1>5, Constants
<1>7. QED
  BY <1>1, <1>2, <1>3, <1>4, <1>6 DEF AgreeAt, Mirror

\* A new listener and a fresh list.
LEMMA AgreeStart ==
    ASSUME NEW c, c.offset = 0, c.last = Null, c.index = 0, c.window = Blank
    PROVE  Agree(Blank, << >>, c, << >>, Null, 0)
<1>1. /\ Blank \in Seq(Tracked) /\ Len(Blank) = Count
      /\ \A i \in 1 .. Count : Blank[i] = Null
  BY Constants DEF Blank, Tracked
<1>2. LeadsTo(Blank, << >>, Blank)
  BY <1>1, LeadsEmpty, Constants
<1>3. Mark(Count, Null, 0) \in Marks
  BY MarkFields, Constants
<1>4. Brings(Blank, Mark(Count, Null, 0), << >>, Mark(Count, Null, 0))
  BY <1>3, BringsEmpty
<1>5. Mirror(Blank, Blank, 0)
  <2>1. \A i \in 1 .. Count : i + 0 = i
    BY Constants
  <2>2. QED
    BY <1>1, <2>1 DEF Mirror
<1>6. AgreeAt(Blank, Blank, << >>, c, << >>, Null, 0)
  <2>1. Count + c.offset = Count
    BY Constants
  <2>2. QED
    BY <1>1, <1>2, <1>4, <1>5, <2>1 DEF AgreeAt
<1>7. QED
  BY <1>1, <1>6 DEF Agree

\* The client reader takes what is next.
LEMMA AgreeReceive ==
    ASSUME NEW list, NEW u \in Seq(Up), NEW c, NEW q, NEW last, NEW next,
           Agree(list, u, c, q, last, next), u # << >>
    PROVE  /\ Fits(list, Head(u))
           /\ Agree(After(list, Head(u)), Tail(u), c, q, last, next)
<1>1. PICK t \in Seq(Tracked) : AgreeAt(t, list, u, c, q, last, next)
  BY DEF Agree
<1>2. Fits(list, Head(u)) /\ LeadsTo(After(list, Head(u)), Tail(u), t)
  BY <1>1, LeadsTail DEF AgreeAt
<1>3. AgreeAt(t, After(list, Head(u)), Tail(u), c, q, last, next)
  BY <1>1, <1>2 DEF AgreeAt
<1>4. QED
  BY <1>2, <1>3 DEF Agree

\* The world reader sends a message: it is tracked, unless it was the last.
LEMMA AgreeRender ==
    ASSUME NEW list, NEW u \in Seq(Up), NEW c, NEW S, NEW q \in Seq(S), NEW last, NEW next,
           Agree(list, u, c, q, last, next),
           NEW p \in S, p.type = "message", p.sig \in Sigs, p.index = next
    PROVE  Agree(IF p.sig = last THEN list ELSE Append(list, Entry(p.sig, TRUE)), u, c,
                 Append(q, p), p.sig, next + 1)
<1>1. PICK t \in Seq(Tracked) : AgreeAt(t, list, u, c, q, last, next)
  BY DEF Agree
<1>2. c.offset \in Nat
  BY DEF Agree
<1> DEFINE e == Entry(p.sig, TRUE)
           first == Mark(Count + c.offset, c.last, c.index)
           final == Mark(Len(t), last, next)
           t2 == IF p.sig = last THEN t ELSE Append(t, e)
           list2 == IF p.sig = last THEN list ELSE Append(list, e)
<1>3. e \in Tracked
  BY EntryTyped
<1>4. Len(t) \in Nat /\ Count + c.offset <= Len(t)
  BY <1>1, <1>2, AgreeMarks
<1>5. final.n = Len(t) /\ final.last = last /\ final.index = next
  BY MarkFields
<1>6. /\ t2 \in Seq(Tracked)
      /\ \A i \in 1 .. Len(t) : t2[i] = t[i]
      /\ p.sig # last => t2[Len(t) + 1] = e
      /\ Len(t2) = IF p.sig = last THEN Len(t) ELSE Len(t) + 1
  <2> HIDE DEF e
  <2>1. /\ Append(t, e) \in Seq(Tracked) /\ Len(Append(t, e)) = Len(t) + 1
        /\ Append(t, e)[Len(t) + 1] = e
        /\ \A i \in 1 .. Len(t) : Append(t, e)[i] = t[i]
    BY <1>3
  <2>2. QED
    BY <2>1
<1>7. LeadsTo(list2, u, t2)
  <2>1. LeadsTo(list, u, t)
    BY <1>1 DEF AgreeAt
  <2>2. LeadsTo(Append(list, e), u, Append(t, e))
    BY <1>3, <2>1, LeadsTracked
  <2>3. QED
    BY <2>1, <2>2
<1> HIDE DEF t2, list2, first, final, e
<1>8. Brings(t, first, q, final)
  BY <1>1 DEF AgreeAt, first, final
<1>9. Sent(final, p, t2)
  BY <1>5, <1>6 DEF Sent, e
<1>10. Brings(t2, first, Append(q, p), Got(final, p))
  BY <1>5, <1>6, <1>8, <1>9, BringsAppend
<1>11. Got(final, p) = Mark(Len(t2), p.sig, next + 1)
  BY <1>5, <1>6 DEF Got
<1>12. Mirror(t2, c.window, c.offset)
  <2>1. \A i \in 1 .. Count : i + c.offset \in 1 .. Len(t)
    BY <1>2, <1>4, Constants
  <2>2. \A i \in 1 .. Count : t2[i + c.offset] = t[i + c.offset]
    BY <1>6, <2>1
  <2>3. QED
    BY <1>1, <2>2 DEF AgreeAt, Mirror
<1>13. AgreeAt(t2, list2, u, c, Append(q, p), p.sig, next + 1)
  BY <1>7, <1>10, <1>11, <1>12 DEF AgreeAt, first
<1>14. QED
  BY <1>2, <1>6, <1>13 DEF Agree, list2, e

\* Or another packet.
LEMMA AgreeOther ==
    ASSUME NEW list, NEW u \in Seq(Up), NEW c, NEW S, NEW q \in Seq(S), NEW last, NEW next,
           Agree(list, u, c, q, last, next), NEW p \in S, p.type # "message"
    PROVE  Agree(list, u, c, Append(q, p), last, next)
<1>1. PICK t \in Seq(Tracked) : AgreeAt(t, list, u, c, q, last, next)
  BY DEF Agree
<1> DEFINE final == Mark(Len(t), last, next)
<1>2. Sent(final, p, t) /\ Got(final, p) = final
  BY DEF Sent, Got
<1> HIDE DEF final
<1>3. Brings(t, Mark(Count + c.offset, c.last, c.index), q, final)
  BY <1>1 DEF AgreeAt, final
<1>4. Brings(t, Mark(Count + c.offset, c.last, c.index), Append(q, p), final)
  BY <1>2, <1>3, BringsAppend
<1>5. AgreeAt(t, list, u, c, Append(q, p), last, next)
  BY <1>1, <1>4 DEF AgreeAt, final
<1>6. QED
  BY <1>5 DEF Agree

\* The client reads one that is no message, or takes something out of its
\* window that it has not acknowledged.
LEMMA AgreeForget ==
    ASSUME NEW list, NEW u \in Seq(Up), NEW c, NEW q, NEW last, NEW next,
           Agree(list, u, c, q, last, next), NEW c2,
           c2.offset = c.offset, c2.last = c.last, c2.index = c.index,
           c2.window \in Seq(Tracked), Len(c2.window) = Count,
           \A i \in 1 .. Count : \/ c2.window[i] = c.window[i]
                                 \/ /\ c.window[i] # Null /\ c.window[i].pending
                                    /\ c2.window[i] = Null
    PROVE  Agree(list, u, c2, q, last, next)
<1>1. PICK t \in Seq(Tracked) : AgreeAt(t, list, u, c, q, last, next)
  BY DEF Agree
<1>2. Mirror(t, c2.window, c2.offset)
  BY <1>1 DEF AgreeAt, Mirror
<1>3. AgreeAt(t, list, u, c2, q, last, next)
  BY <1>1, <1>2 DEF AgreeAt
<1>4. QED
  BY <1>3 DEF Agree

\* The client reads a packet that is no message.
LEMMA AgreeIgnored ==
    ASSUME NEW list, NEW u \in Seq(Up), NEW c, NEW S, NEW q \in Seq(S), NEW last, NEW next,
           Agree(list, u, c, q, last, next), q # << >>, Head(q).type # "message"
    PROVE  Agree(list, u, c, Tail(q), last, next)
<1>1. PICK t \in Seq(Tracked) : AgreeAt(t, list, u, c, q, last, next)
  BY DEF Agree
<1> DEFINE first == Mark(Count + c.offset, c.last, c.index)
           final == Mark(Len(t), last, next)
<1> HIDE DEF first, final
<1>2. Brings(t, first, q, final)
  BY <1>1 DEF AgreeAt, first, final
<1>3. Brings(t, Got(first, Head(q)), Tail(q), final)
  BY <1>2, BringsTail
<1>4. Got(first, Head(q)) = first
  BY DEF Got
<1>5. AgreeAt(t, list, u, c, Tail(q), last, next)
  BY <1>1, <1>3, <1>4 DEF AgreeAt, first, final
<1>6. QED
  BY <1>5 DEF Agree

\* The client reads a message: it is the one expected, and shown or not.
LEMMA AgreeMessage ==
    ASSUME NEW list, NEW u \in Seq(Up), NEW c, NEW S, NEW q \in Seq(S), NEW last, NEW next,
           Agree(list, u, c, q, last, next), q # << >>, Head(q).type = "message"
    PROVE  /\ Head(q).index = c.index /\ Head(q).sig \in Sigs
           /\ \A c2 : ( /\ c2.last = Head(q).sig /\ c2.index = c.index + 1
                        /\ IF Head(q).sig = c.last
                           THEN c2.offset = c.offset /\ c2.window = c.window
                           ELSE /\ c2.offset = c.offset + 1
                                /\ \/ c2.window = Append(Tail(c.window), Null)
                                   \/ c2.window = Append(Tail(c.window),
                                                         Entry(Head(q).sig, TRUE)) )
                      => Agree(list, u, c2, Tail(q), last, next)
<1>1. PICK t \in Seq(Tracked) : AgreeAt(t, list, u, c, q, last, next)
  BY DEF Agree
<1>2. c.offset \in Nat
  BY DEF Agree
<1> DEFINE first == Mark(Count + c.offset, c.last, c.index)
           final == Mark(Len(t), last, next)
           p == Head(q)
<1>3. first.n = Count + c.offset /\ first.last = c.last /\ first.index = c.index
  BY MarkFields
<1>4. Len(t) \in Nat /\ Count + c.offset <= Len(t)
  BY <1>1, <1>2, AgreeMarks
<1>5. Brings(t, first, q, final)
  BY <1>1 DEF AgreeAt
<1>6. final.n = Len(t)
  BY MarkFields
<1>7. Mirror(t, c.window, c.offset)
  BY <1>1 DEF AgreeAt
<1>8. LeadsTo(list, u, t)
  BY <1>1 DEF AgreeAt
<1> HIDE DEF first
<1>9. Sent(first, p, t) /\ Brings(t, Got(first, p), Tail(q), final)
  <2> HIDE DEF final
  <2>1. QED
    BY <1>5, BringsTail
<1>10. /\ p.sig \in Sigs /\ p.index = c.index
       /\ p.sig # c.last => t[Count + c.offset + 1] = Entry(p.sig, TRUE)
  BY <1>3, <1>9 DEF Sent
<1>11. Got(first, p) = Mark(IF p.sig = c.last THEN Count + c.offset
                            ELSE Count + c.offset + 1, p.sig, c.index + 1)
  BY <1>3 DEF Got
<1>12. ASSUME NEW c2, c2.last = p.sig, c2.index = c.index + 1,
              IF p.sig = c.last
              THEN c2.offset = c.offset /\ c2.window = c.window
              ELSE /\ c2.offset = c.offset + 1
                   /\ \/ c2.window = Append(Tail(c.window), Null)
                      \/ c2.window = Append(Tail(c.window), Entry(p.sig, TRUE))
       PROVE  Agree(list, u, c2, Tail(q), last, next)
  <2>1. c2.offset \in Nat /\ Count + c2.offset = IF p.sig = c.last THEN Count + c.offset
                                                ELSE Count + c.offset + 1
    <3>1. CASE p.sig = c.last
      BY <1>2, <1>12, <3>1
    <3>2. CASE p.sig # c.last
      <4>1. c2.offset = c.offset + 1
        BY <1>12, <3>2
      <4>2. QED
        <5>1. Count + (c.offset + 1) = Count + c.offset + 1 /\ c.offset + 1 \in Nat
          BY <1>2, Constants
        <5>2. QED
          BY <3>2, <4>1, <5>1
    <3>3. QED
      BY <3>1, <3>2
  <2>2. Brings(t, Mark(Count + c2.offset, c2.last, c2.index), Tail(q), final)
    BY <1>9, <1>11, <1>12, <2>1
  <2>3. Mirror(t, c2.window, c2.offset)
    <3>1. CASE p.sig = c.last
      BY <1>7, <1>12, <3>1
    <3>2. CASE p.sig # c.last
      <4> DEFINE w == c.window
                 o == c.offset
      <4>1. /\ w \in Seq(Tracked) /\ Len(w) = Count
            /\ \A i \in 1 .. Count : \/ w[i] = t[i + o]
                                     \/ w[i] = Null /\ t[i + o] # Null /\ t[i + o].pending
        BY <1>7 DEF Mirror
      <4> HIDE DEF w
      <4>2. PICK x \in Tracked : /\ c2.window = Append(Tail(w), x)
                                 /\ x = Null \/ x = Entry(p.sig, TRUE)
        BY <1>10, <1>12, <3>2, EntryTyped DEF Tracked, w
      <4>3. /\ c2.window \in Seq(Tracked) /\ Len(c2.window) = Count
            /\ c2.window[Count] = x
            /\ \A i \in 1 .. Count - 1 : c2.window[i] = w[i + 1]
        BY <4>1, <4>2, Constants
      <4>4. ASSUME NEW i \in 1 .. Count
            PROVE  \/ c2.window[i] = t[i + c2.offset]
                   \/ /\ c2.window[i] = Null /\ t[i + c2.offset] # Null
                      /\ t[i + c2.offset].pending
        <5>1. CASE i = Count
          <6>1. t[i + c2.offset] = Entry(p.sig, TRUE)
            <7>1. i + c2.offset = Count + c.offset + 1
              BY <1>2, <1>12, <3>2, <5>1, Constants
            <7>2. QED
              BY <1>10, <3>2, <7>1
          <6>2. Entry(p.sig, TRUE) # Null /\ Entry(p.sig, TRUE).pending
            BY <1>10, EntryTyped
          <6>3. QED
            BY <4>2, <4>3, <5>1, <6>1, <6>2
        <5>2. CASE i # Count
          <6>1. i + 1 \in 1 .. Count /\ i \in 1 .. Count - 1
            BY <5>2, Constants
          <6>4. i + c2.offset = (i + 1) + o
            <7>1. c2.offset = o + 1 /\ i \in Nat
              <8>1. c2.offset = c.offset + 1
                BY <1>12, <3>2
              <8>2. i \in Nat
                BY Constants
              <8>3. QED
                BY <8>1, <8>2
            <7>2. \A a, b \in Nat : a + (b + 1) = (a + 1) + b
              OBVIOUS
            <7>3. QED
              BY <1>2, <7>1, <7>2
          <6>2. c2.window[i] = w[i + 1]
            BY <4>3, <6>1
          <6>3. QED
            BY <4>1, <6>1, <6>2, <6>4
        <5>3. QED
          BY <5>1, <5>2
      <4>5. QED
        BY <4>3, <4>4 DEF Mirror
    <3>3. QED
      BY <3>1, <3>2
  <2>4. AgreeAt(t, list, u, c2, Tail(q), last, next)
    BY <1>8, <2>2, <2>3 DEF AgreeAt
  <2>5. QED
    BY <2>1, <2>4 DEF Agree
<1>13. QED
  BY <1>10, <1>12

----------------------------------------------------------------------------
(* What the client acknowledges.                                           *)
\* Dropping o entries leaves the window at least.
LEMMA MovedFits ==
    ASSUME NEW t \in Seq(Tracked), NEW o \in Nat, Count + o <= Len(t)
    PROVE  \E n \in Nat :
              /\ Len(t) = n + o /\ Len(t) - o = n /\ Count <= n /\ OffsetFits(t, o)
              /\ Moved(t, o) \in Seq(Tracked) /\ Len(Moved(t, o)) = n
              /\ \A i \in 1 .. n : Moved(t, o)[i] = t[i + o]
<1>1. PICK l \in Nat : Len(t) = l
  OBVIOUS
<1>2. PICK n \in Nat : l = n + o
  <2>1. l - o \in Nat /\ l = (l - o) + o
    BY <1>1, Constants
  <2>2. QED
    BY <2>1
<1>3. Count <= n /\ o <= Len(t) - Count /\ Len(t) - o = n
  BY <1>1, <1>2, Constants
<1>4. QED
  BY <1>1, <1>2, <1>3, MovedShape DEF OffsetFits

\* The client moves its window by what it has counted: what the packets mark
\* moves with the list.
LEMMA AgreeMoved ==
    ASSUME NEW list, NEW u \in Seq(Up), NEW c, NEW S, NEW q \in Seq(S), NEW last, NEW next,
           c.offset \in Nat, c.offset <= Stride,
           NEW t \in Seq(Tracked), AgreeAt(t, list, u, c, q, last, next),
           NEW p \in Up, Talk(p) \/ p.type = "ack", p.offset = c.offset, Fits(t, p),
           \A i \in 1 .. Len(t) - c.offset :
               i > Count => After(t, p)[i] = t[i + c.offset],
           NEW c2, c2.offset = 0, c2.last = c.last, c2.index = c.index,
           Mirror(After(t, p), c2.window, 0)
    PROVE  Agree(list, Append(u, p), c2, q, last, next)
<1> DEFINE o == c.offset
           t2 == After(t, p)
           first == Mark(Count + o, c.last, c.index)
           final == Mark(Len(t), last, next)
<1>1. Len(t) \in Nat /\ Count + o <= Len(t) /\ Count \in Nat
  BY AgreeMarks, Constants
<1>2. PICK n \in Nat : Len(t) = n + o /\ Len(t) - o = n /\ Count <= n
  <2>1. Len(t) - o \in Nat /\ Count <= Len(t) - o
    BY <1>1
  <2>2. Len(t) = (Len(t) - o) + o
    BY <1>1
  <2>3. QED
    BY <2>1, <2>2
<1>3. Count <= Len(t)
  BY <1>1
<1>4. t2 \in Seq(Tracked) /\ Len(t2) = n
  BY <1>2, <1>3, AfterShape
<1>5. LeadsTo(list, Append(u, p), t2)
  <2>1. LeadsTo(list, u, t)
    BY DEF AgreeAt
  <2>2. QED
    BY <2>1, LeadsAppend
<1>6. first.n = Count + o /\ first.last = c.last /\ first.index = c.index
  BY MarkFields
<1>7. final.n = Len(t) /\ final.last = last /\ final.index = next
  BY MarkFields
<1>8. Brings(t, first, q, final)
  BY DEF AgreeAt
<1>9. \A i \in 1 .. Len(t) : i > Count + o => t2[i - o] = t[i]
  <2> SUFFICES ASSUME NEW i \in 1 .. Len(t), i > Count + o
               PROVE  t2[i - o] = t[i]
    OBVIOUS
  <2>1. PICK j \in Nat : i = j + o
    <3>1. i - o \in Nat /\ i = (i - o) + o
      BY <1>1
    <3>2. QED
      BY <3>1
  <2>2. j \in 1 .. n /\ j > Count
    BY <1>1, <1>2, <2>1
  <2>3. i - o = j
    BY <2>1
  <2>4. QED
    BY <1>2, <2>1, <2>2, <2>3
<1> HIDE DEF t2, first, final
<1>10. Brings(t2, Mark(first.n - o, first.last, first.index), q,
              Mark(final.n - o, final.last, final.index))
  <2>1. o \in Nat /\ o <= first.n
    BY <1>1, <1>6
  <2>2. \A i \in 1 .. final.n : i > first.n => t2[i - o] = t[i]
    BY <1>6, <1>7, <1>9
  <2>3. QED
    BY <1>8, <2>1, <2>2, BringsMoved
<1>11. Brings(t2, Mark(Count + c2.offset, c2.last, c2.index), q, Mark(Len(t2), last, next))
  <2>1. first.n - o = Count /\ Count + 0 = Count /\ final.n - o = n
    BY <1>1, <1>2, <1>6, <1>7
  <2>2. QED
    BY <1>4, <1>6, <1>7, <1>10, <2>1
<1>12. AgreeAt(t2, list, Append(u, p), c2, q, last, next)
  BY <1>5, <1>11 DEF AgreeAt, t2
<1>13. QED
  BY <1>4, <1>12 DEF Agree

\* The client acknowledges without a message.
LEMMA AgreeAck ==
    ASSUME NEW list, NEW u \in Seq(Up), NEW c, NEW S, NEW q \in Seq(S), NEW last, NEW next,
           Agree(list, u, c, q, last, next), c.offset <= Stride,
           NEW p \in Up, p.type = "ack", p.offset = c.offset,
           NEW c2, c2.offset = 0, c2.last = c.last, c2.index = c.index,
           c2.window = c.window
    PROVE  Agree(list, Append(u, p), c2, q, last, next)
<1>1. PICK t \in Seq(Tracked) : AgreeAt(t, list, u, c, q, last, next)
  BY DEF Agree
<1>2. c.offset \in Nat
  BY DEF Agree
<1>3. Len(t) \in Nat /\ Count + c.offset <= Len(t) /\ Count \in Nat
  BY <1>1, <1>2, AgreeMarks, Constants
<1>4. PICK n \in Nat :
         /\ Len(t) = n + c.offset /\ Len(t) - c.offset = n /\ Count <= n
         /\ OffsetFits(t, c.offset)
         /\ Moved(t, c.offset) \in Seq(Tracked) /\ Len(Moved(t, c.offset)) = n
         /\ \A i \in 1 .. n : Moved(t, c.offset)[i] = t[i + c.offset]
  BY <1>2, <1>3, MovedFits
<1>5. ~Talk(p) /\ After(t, p) = Moved(t, c.offset)
  BY DEF Talk, After
<1>7. Fits(t, p)
  BY <1>4, <1>5 DEF Fits
<1>8. Mirror(After(t, p), c2.window, 0)
  <2>1. Mirror(t, c.window, c.offset)
    BY <1>1 DEF AgreeAt
  <2>2. \A i \in 1 .. Count : i \in 1 .. n /\ i + 0 = i
    BY <1>4, <1>3
  <2>3. \A i \in 1 .. Count : After(t, p)[i + 0] = t[i + c.offset]
    BY <1>4, <1>5, <2>2
  <2>4. QED
    BY <2>1, <2>3 DEF Mirror
<1>9. \A i \in 1 .. Len(t) - c.offset : i > Count => After(t, p)[i] = t[i + c.offset]
  BY <1>4, <1>5
<1>10. QED
  BY <1>1, <1>2, <1>7, <1>8, <1>9, AgreeMoved

\* A message p acknowledges the window of c, and makes it that of c2.
Acknowledges(p, c, c2) ==
    /\ p.acked = {i \in 1 .. Count : c.window[i] # Null}
    /\ p.sum = Seen(c.window, p.acked)
    /\ c2.window = [i \in 1 .. Count |-> IF c.window[i] = Null THEN Null
                                         ELSE Entry(c.window[i].sig, FALSE)]

\* The client acknowledges with what it says.
LEMMA AgreeSays ==
    ASSUME NEW list, NEW u \in Seq(Up), NEW c, NEW S, NEW q \in Seq(S), NEW last, NEW next,
           Agree(list, u, c, q, last, next), c.offset <= Stride,
           NEW p \in Up, Talk(p), p.offset = c.offset,
           NEW c2, c2.offset = 0, c2.last = c.last, c2.index = c.index,
           Acknowledges(p, c, c2)
    PROVE  Agree(list, Append(u, p), c2, q, last, next)
<1>1. PICK t \in Seq(Tracked) : AgreeAt(t, list, u, c, q, last, next)
  BY DEF Agree
<1>2. c.offset \in Nat
  BY DEF Agree
<1>3. Len(t) \in Nat /\ Count + c.offset <= Len(t) /\ Count \in Nat
  BY <1>1, <1>2, AgreeMarks, Constants
<1>4. PICK n \in Nat :
         /\ Len(t) = n + c.offset /\ Len(t) - c.offset = n /\ Count <= n
         /\ OffsetFits(t, c.offset)
         /\ Moved(t, c.offset) \in Seq(Tracked) /\ Len(Moved(t, c.offset)) = n
         /\ \A i \in 1 .. n : Moved(t, c.offset)[i] = t[i + c.offset]
  BY <1>2, <1>3, MovedFits
<1> DEFINE w == c.window
           m == Moved(t, c.offset)
<1>5. /\ m \in Seq(Tracked) /\ Len(m) = n
      /\ \A i \in 1 .. n : m[i] = t[i + c.offset]
  BY <1>4
<1>6. /\ w \in Seq(Tracked) /\ Len(w) = Count
      /\ \A i \in 1 .. Count : \/ w[i] = t[i + c.offset]
                               \/ /\ w[i] = Null /\ t[i + c.offset] # Null
                                  /\ t[i + c.offset].pending
  BY <1>1 DEF AgreeAt, Mirror
<1>7. \A i \in 1 .. Count : i \in 1 .. n /\ i + 0 = i
  BY <1>3, <1>4
<1> HIDE DEF w, m
<1>8. \A i \in 1 .. Count : /\ m[i] \in Tracked
                            /\ \/ w[i] = m[i]
                               \/ w[i] = Null /\ m[i] # Null /\ m[i].pending
  <2>1. \A i \in 1 .. Count : m[i] = t[i + c.offset]
    BY <1>5, <1>7
  <2>2. \A i \in 1 .. n : m[i] \in Tracked
    BY <1>5
  <2>3. QED
    BY <1>6, <1>7, <2>1, <2>2
<1>9. p.acked = {i \in 1 .. Count : w[i] # Null}
  BY DEF w, Acknowledges
<1>10. Seen(m, p.acked) = p.sum
  <2>1. \A i \in p.acked : m[i] = w[i]
    BY <1>8, <1>9
  <2>2. [i \in p.acked |-> m[i].sig] = [i \in p.acked |-> w[i].sig]
    BY <2>1
  <2>3. QED
    BY <2>2 DEF Seen, w, Acknowledges
<1>11. UpdateFits(t, p)
  <2>1. OffsetFits(t, c.offset)
    BY <1>4
  <2>2. \A i \in 1 .. Count : IF i \in p.acked THEN m[i] # Null
                              ELSE m[i] = Null \/ m[i].pending
    BY <1>8, <1>9
  <2>3. QED
    BY <1>10, <2>1, <2>2 DEF UpdateFits, m
<1>12. Fits(t, p)
  BY <1>11 DEF Fits, Talk
<1>13. /\ After(t, p) = Updated(t, p)
       /\ \A i \in 1 .. n : After(t, p)[i] = IF i > Count THEN m[i]
                                             ELSE IF i \in p.acked
                                             THEN Entry(m[i].sig, FALSE) ELSE Null
  <2>1. After(t, p) = Updated(t, p)
    BY DEF After
  <2>2. \A i \in 1 .. n : Updated(t, p)[i] = IF i > Count THEN t[i + c.offset]
                                             ELSE IF i \in p.acked
                                             THEN Entry(t[i + c.offset].sig, FALSE) ELSE Null
    <3>1. \A i \in 1 .. Len(t) - p.offset :
             Updated(t, p)[i] = IF i > Count THEN t[i + p.offset]
                                ELSE IF i \in p.acked
                                THEN Entry(t[i + p.offset].sig, FALSE) ELSE Null
      BY <1>11, UpdatedShape
    <3>2. QED
      BY <1>4, <3>1
  <2>3. \A i \in 1 .. n : m[i] = t[i + c.offset]
    BY <1>5
  <2>4. QED
    BY <2>1, <2>2, <2>3
<1>14. Mirror(After(t, p), c2.window, 0)
  <2>1. \A i \in 1 .. Count : i \in 1 .. n /\ ~(i > Count)
    <3>1. \A i \in 1 .. Count : ~(i > Count)
      BY <1>3
    <3>2. QED
      BY <1>7, <3>1
  <2>2. \A i \in 1 .. Count : w[i] = Null \/ w[i] \in [sig : Sigs, pending : BOOLEAN]
    BY <1>8 DEF Tracked
  <2>3. /\ c2.window \in Seq(Tracked) /\ Len(c2.window) = Count
        /\ \A i \in 1 .. Count : c2.window[i] = IF w[i] = Null THEN Null
                                                ELSE Entry(w[i].sig, FALSE)
    <3> DEFINE entry(i) == IF w[i] = Null THEN Null ELSE Entry(w[i].sig, FALSE)
               v == c2.window
    <3>1. \A i \in 1 .. Count : entry(i) \in Tracked
      BY <2>2, EntryTyped DEF Tracked
    <3>2. v = [i \in 1 .. Count |-> entry(i)]
      BY DEF w, Acknowledges
    <3> HIDE DEF entry, v
    <3>3. v \in Seq(Tracked) /\ Len(v) = Count
      BY <1>3, <3>1, <3>2
    <3>4. \A i \in 1 .. Count : v[i] = entry(i)
      BY <3>2
    <3>5. QED
      BY <3>3, <3>4 DEF entry, v
  <2>5. ASSUME NEW i \in 1 .. Count
        PROVE  c2.window[i] = After(t, p)[i + 0]
    <3>1. After(t, p)[i] = IF i \in p.acked THEN Entry(m[i].sig, FALSE) ELSE Null
      BY <1>13, <2>1
    <3>2. i \in p.acked <=> w[i] # Null
      BY <1>9
    <3>3. w[i] # Null => m[i] = w[i]
      BY <1>8
    <3>4. QED
      BY <1>7, <2>3, <3>1, <3>2, <3>3
  <2>6. QED
    BY <2>3, <2>5 DEF Mirror
<1>15. \A i \in 1 .. Len(t) - c.offset : i > Count => After(t, p)[i] = t[i + c.offset]
  BY <1>4, <1>5, <1>13
<1>16. QED
  BY <1>1, <1>2, <1>12, <1>14, <1>15, AgreeMoved

----------------------------------------------------------------------------
(* The reconfiguration.                                                    *)
\* The two ends of the handshake that brings in a new listener: what is on
\* its way tells the phase g of the connection and the place of the client.
Joins(d) == d # << >> /\ d[1].type = "login"
Starts(d) == d # << >> /\ d[Len(d)].type = "start_configuration"
Answers(u) == u # << >> /\ u[Len(u)].type = "configured"
Shake(g, d, u, place) ==
    /\ g \in {"play", "configuring", "rejoining"}
    /\ g = "rejoining" => d = << >> /\ u = << >>
    /\ \A i \in 1 .. Len(d) :
          /\ d[i].type = "login" => i = 1 /\ u = << >>
          /\ d[i].type = "start_configuration" => i = Len(d) /\ g = "configuring"
    /\ \A i \in 1 .. Len(u) :
          u[i].type = "configured" => i = Len(u) /\ d = << >> /\ g = "configuring"
    /\ g = "configuring" => Starts(d) \/ Answers(u)
    /\ place = "configuration" <=> Joins(d) \/ g = "rejoining" \/ Answers(u)

\* The places of a sequence and of its tail.
LEMMA TailPlaces ==
    ASSUME NEW S, NEW q \in Seq(S), q # << >>
    PROVE  \E n \in Nat :
              /\ Len(q) = n + 1 /\ Head(q) = q[1] /\ Tail(q) \in Seq(S) /\ Len(Tail(q)) = n
              /\ \A i \in 1 .. n : Tail(q)[i] = q[i + 1]
              /\ Tail(q) = << >> <=> n = 0
<1>1. PICK n \in Nat : Len(q) = n + 1
  <2>1. Len(q) \in Nat /\ Len(q) # 0
    OBVIOUS
  <2>2. Len(q) - 1 \in Nat /\ Len(q) = (Len(q) - 1) + 1
    BY <2>1
  <2>3. QED
    BY <2>2
<1>2. Head(q) = q[1] /\ Tail(q) \in Seq(S) /\ Len(Tail(q)) = n
  BY <1>1
<1>3. \A i \in 1 .. n : Tail(q)[i] = q[i + 1]
  BY <1>1
<1>4. Tail(q) = << >> <=> n = 0
  BY <1>2
<1>5. QED
  BY <1>1, <1>2, <1>3, <1>4

\* Nothing has no place.
LEMMA NoPlaces == Len(<< >>) = 0 /\ \A i \in 1 .. Len(<< >>) : FALSE
OBVIOUS

\* And of a sequence and one more.
LEMMA AppendPlaces ==
    ASSUME NEW S, NEW q \in Seq(S), NEW p \in S
    PROVE  /\ Append(q, p) \in Seq(S) /\ Len(q) \in Nat /\ Len(Append(q, p)) = Len(q) + 1
           /\ Append(q, p)[Len(q) + 1] = p /\ Append(q, p) # << >>
           /\ \A i \in 1 .. Len(q) : Append(q, p)[i] = q[i]
           /\ \A i \in 1 .. Len(q) + 1 : i \in 1 .. Len(q) \/ i = Len(q) + 1
           /\ q = << >> <=> Len(q) = 0
           /\ q # << >> => 1 \in 1 .. Len(q) /\ Len(q) \in 1 .. Len(q)
OBVIOUS

\* The world reader sends a packet while the client is in play.
LEMMA ShakeSend ==
    ASSUME NEW D, NEW d \in Seq(D), NEW u \in Seq(Up), NEW g, NEW place,
           Shake(g, d, u, place), g = "play", NEW p \in D, p.type # "login",
           NEW g2, g2 = IF p.type = "start_configuration" THEN "configuring" ELSE "play"
    PROVE  Shake(g2, Append(d, p), u, place)
<1> DEFINE e == Append(d, p)
           n == Len(d)
<1>1. /\ e \in Seq(D) /\ n \in Nat /\ Len(e) = n + 1 /\ e[n + 1] = p /\ e # << >>
      /\ \A i \in 1 .. n : e[i] = d[i]
      /\ \A i \in 1 .. n + 1 : i \in 1 .. n \/ i = n + 1
      /\ d = << >> <=> n = 0
      /\ d # << >> => 1 \in 1 .. n /\ n \in 1 .. n
  BY AppendPlaces
<1> HIDE DEF e
<1>2. Joins(e) <=> Joins(d)
  <2>1. CASE d = << >>
    <3>1. e[1] = p
      BY <1>1, <2>1
    <3>2. QED
      BY <2>1, <3>1 DEF Joins
  <2>2. CASE d # << >>
    BY <1>1, <2>2 DEF Joins
  <2>3. QED
    BY <2>1, <2>2
<1>3. \A i \in 1 .. n : ~(d[i].type = "start_configuration")
  BY DEF Shake
<1>4. \A i \in 1 .. Len(e) :
         /\ e[i].type = "login" => i = 1 /\ u = << >>
         /\ e[i].type = "start_configuration" => i = Len(e) /\ g2 = "configuring"
  <2> SUFFICES ASSUME NEW i \in 1 .. n + 1
               PROVE  /\ e[i].type = "login" => i = 1 /\ u = << >>
                      /\ e[i].type = "start_configuration" => i = n + 1 /\ g2 = "configuring"
    BY <1>1
  <2>1. CASE i = n + 1
    BY <1>1, <2>1
  <2>2. CASE i \in 1 .. n
    BY <1>1, <1>3, <2>2 DEF Shake
  <2>3. QED
    BY <1>1, <2>1, <2>2
<1>5. g2 = "configuring" => Starts(e)
  BY <1>1 DEF Starts
<1>6. \A i \in 1 .. Len(u) : u[i].type # "configured"
  BY DEF Shake
<1>7. g2 \in {"play", "configuring", "rejoining"} /\ g2 # "rejoining" /\ g # "rejoining"
  OBVIOUS
<1>8. place = "configuration" <=> Joins(d) \/ Answers(u)
  BY <1>7 DEF Shake
<1>9. QED
  BY <1>2, <1>4, <1>5, <1>6, <1>7, <1>8 DEF Shake, e

\* Or brings the new listener in.
LEMMA ShakeRejoin ==
    ASSUME NEW D, NEW d \in Seq(D), NEW u \in Seq(Up), NEW place,
           Shake("rejoining", d, u, place), NEW p \in D, p.type = "login"
    PROVE  Shake("play", Append(d, p), u, place)
<1>1. d = << >> /\ u = << >> /\ place = "configuration"
  BY DEF Shake
<1> DEFINE e == Append(d, p)
<1>2. e \in Seq(D) /\ Len(e) = 1 /\ e[1] = p /\ e # << >>
  BY <1>1
<1>3. \A i \in 1 .. Len(e) : i = 1
  BY <1>2
<1>4. \A i \in 1 .. Len(u) : FALSE
  BY <1>1
<1> HIDE DEF e
<1>5. Joins(e)
  BY <1>2 DEF Joins
<1>6. QED
  BY <1>1, <1>2, <1>3, <1>4, <1>5 DEF Shake, e

\* The client reader takes what is no answer.
LEMMA ShakeTake ==
    ASSUME NEW D, NEW d \in Seq(D), NEW u \in Seq(Up), NEW g, NEW place,
           Shake(g, d, u, place), u # << >>, Head(u).type # "configured"
    PROVE  Shake(g, d, Tail(u), place)
<1> DEFINE v == Tail(u)
<1>1. PICK n \in Nat :
         /\ Len(u) = n + 1 /\ Head(u) = u[1] /\ v \in Seq(Up) /\ Len(v) = n
         /\ \A i \in 1 .. n : v[i] = u[i + 1]
         /\ v = << >> <=> n = 0
  BY TailPlaces
<1> HIDE DEF v
<1>2. \A i \in 1 .. Len(v) : i + 1 \in 1 .. Len(u) /\ (i + 1 = Len(u) => i = Len(v))
  BY <1>1
<1>3. \A i \in 1 .. Len(v) :
         v[i].type = "configured" => i = Len(v) /\ d = << >> /\ g = "configuring"
  BY <1>1, <1>2 DEF Shake
<1>4. Answers(v) <=> Answers(u)
  <2>1. CASE n = 0
    BY <1>1, <2>1 DEF Answers
  <2>2. CASE n # 0
    <3>1. v # << >> /\ n \in 1 .. n
      BY <1>1, <2>2
    <3>2. v[Len(v)] = u[Len(u)]
      BY <1>1, <3>1
    <3>3. QED
      BY <3>1, <3>2 DEF Answers
  <2>3. QED
    BY <2>1, <2>2
<1>5. g # "rejoining" /\ \A i \in 1 .. Len(d) : d[i].type # "login"
  BY DEF Shake
<1>6. QED
  BY <1>3, <1>4, <1>5 DEF Shake, v

\* Or the answer.
LEMMA ShakeConfigured ==
    ASSUME NEW D, NEW d \in Seq(D), NEW u \in Seq(Up), NEW g, NEW place,
           Shake(g, d, u, place), u # << >>, Head(u).type = "configured"
    PROVE  Shake("rejoining", d, Tail(u), place)
<1>1. PICK n \in Nat :
         /\ Len(u) = n + 1 /\ Head(u) = u[1] /\ (Tail(u) = << >> <=> n = 0)
  BY TailPlaces
<1>2. 1 \in 1 .. Len(u)
  BY <1>1
<1>3. 1 = Len(u) /\ d = << >>
  BY <1>1, <1>2 DEF Shake
<1>4. Tail(u) = << >>
  BY <1>1, <1>3
<1>5. Answers(u)
  BY <1>1, <1>3 DEF Answers
<1>6. (\A i \in 1 .. Len(d) : FALSE) /\ (\A i \in 1 .. Len(Tail(u)) : FALSE)
  BY <1>3, <1>4, NoPlaces
<1>7. QED
  BY <1>3, <1>4, <1>5, <1>6 DEF Shake

\* The client reads what changes neither place, and may acknowledge it.
LEMMA ShakeRead ==
    ASSUME NEW D, NEW d \in Seq(D), NEW u \in Seq(Up), NEW g, NEW place,
           Shake(g, d, u, place), d # << >>,
           Head(d).type \notin {"login", "start_configuration"}
    PROVE  /\ Shake(g, Tail(d), u, place) /\ ~Joins(d) /\ ~Joins(Tail(d))
           /\ \A p \in Up : p.type # "configured" => Shake(g, Tail(d), Append(u, p), place)
<1> DEFINE e == Tail(d)
<1>1. PICK n \in Nat :
         /\ Len(d) = n + 1 /\ Head(d) = d[1] /\ e \in Seq(D) /\ Len(e) = n
         /\ \A i \in 1 .. n : e[i] = d[i + 1]
         /\ e = << >> <=> n = 0
  BY TailPlaces
<1> HIDE DEF e
<1>2. \A i \in 1 .. n : /\ i + 1 \in 1 .. Len(d) /\ i + 1 # 1
                        /\ i + 1 = Len(d) => i = n
  BY <1>1
<1>3. \A i \in 1 .. n :
         /\ e[i].type # "login"
         /\ e[i].type = "start_configuration" => i = n /\ g = "configuring"
  BY <1>1, <1>2 DEF Shake
<1>4. ~Joins(d) /\ ~Joins(e)
  <2>1. e # << >> => 1 \in 1 .. n
    BY <1>1
  <2>2. QED
    BY <1>1, <1>3, <2>1 DEF Joins
<1>5. Starts(e) <=> Starts(d)
  <2>1. CASE n = 0
    BY <1>1, <2>1 DEF Starts
  <2>2. CASE n # 0
    <3>1. e # << >> /\ n \in 1 .. n
      BY <1>1, <2>2
    <3>2. e[Len(e)] = d[Len(d)]
      BY <1>1, <3>1
    <3>3. QED
      BY <3>1, <3>2 DEF Starts
  <2>3. QED
    BY <2>1, <2>2
<1>6. g # "rejoining" /\ \A i \in 1 .. Len(u) : u[i].type # "configured"
  BY DEF Shake
<1>7. ~Answers(u)
  <2>1. u # << >> => Len(u) \in 1 .. Len(u)
    OBVIOUS
  <2>2. QED
    BY <1>6, <2>1 DEF Answers
<1>8. Shake(g, e, u, place)
  BY <1>1, <1>3, <1>4, <1>5, <1>6, <1>7 DEF Shake
<1>9. ASSUME NEW p \in Up, p.type # "configured"
      PROVE  Shake(g, e, Append(u, p), place)
  <2> DEFINE v == Append(u, p)
             k == Len(u)
  <2>1. /\ k \in Nat /\ Len(v) = k + 1 /\ v[k + 1] = p /\ v # << >>
        /\ \A i \in 1 .. k : v[i] = u[i]
        /\ \A i \in 1 .. k + 1 : i \in 1 .. k \/ i = k + 1
    BY AppendPlaces
  <2> HIDE DEF v
  <2>2. \A i \in 1 .. Len(v) : v[i].type # "configured"
    BY <1>6, <1>9, <2>1
  <2>3. ~Answers(v)
    BY <1>9, <2>1 DEF Answers
  <2>4. QED
    BY <1>1, <1>3, <1>4, <1>5, <1>6, <1>7, <1>8, <2>2, <2>3 DEF Shake, v
<1>10. QED
  BY <1>4, <1>8, <1>9 DEF e

\* The client reads the login.
LEMMA ShakeLogin ==
    ASSUME NEW D, NEW d \in Seq(D), NEW u \in Seq(Up), NEW g, NEW place,
           Shake(g, d, u, place), d # << >>, Head(d).type = "login"
    PROVE  /\ Shake(g, Tail(d), u, "play") /\ ~Joins(Tail(d)) /\ Joins(d) /\ u = << >>
<1> DEFINE e == Tail(d)
<1>1. PICK n \in Nat :
         /\ Len(d) = n + 1 /\ Head(d) = d[1] /\ e \in Seq(D) /\ Len(e) = n
         /\ \A i \in 1 .. n : e[i] = d[i + 1]
         /\ e = << >> <=> n = 0
  BY TailPlaces
<1> HIDE DEF e
<1>2. \A i \in 1 .. n : /\ i + 1 \in 1 .. Len(d) /\ i + 1 # 1
                        /\ i + 1 = Len(d) => i = n
  BY <1>1
<1>3. \A i \in 1 .. n :
         /\ e[i].type # "login"
         /\ e[i].type = "start_configuration" => i = n /\ g = "configuring"
  BY <1>1, <1>2 DEF Shake
<1>4. 1 \in 1 .. Len(d) /\ u = << >>
  <2>1. 1 \in 1 .. Len(d)
    BY <1>1
  <2>2. QED
    BY <1>1, <2>1 DEF Shake
<1>5. ~Joins(e) /\ Joins(d)
  <2>1. e # << >> => 1 \in 1 .. n
    BY <1>1
  <2>2. QED
    BY <1>1, <1>3, <2>1 DEF Joins
<1>6. ~Answers(u) /\ \A i \in 1 .. Len(u) : FALSE
  BY <1>4 DEF Answers
<1>7. g = "configuring" => Starts(e)
  <2> SUFFICES ASSUME g = "configuring"
               PROVE  Starts(e)
    OBVIOUS
  <2>1. Starts(d)
    BY <1>6 DEF Shake
  <2>2. n # 0
    BY <1>1, <2>1 DEF Starts
  <2>3. e # << >> /\ n \in 1 .. n
    BY <1>1, <2>2
  <2>4. e[Len(e)] = d[Len(d)]
    BY <1>1, <2>3
  <2>5. QED
    BY <2>1, <2>3, <2>4 DEF Starts
<1>8. QED
  BY <1>1, <1>3, <1>4, <1>5, <1>6, <1>7 DEF Shake, e

\* The client reads the request to reconfigure, and answers it.
LEMMA ShakeStart ==
    ASSUME NEW D, NEW d \in Seq(D), NEW u \in Seq(Up), NEW g, NEW place,
           Shake(g, d, u, place), d # << >>, Head(d).type = "start_configuration",
           NEW p \in Up, p.type = "configured"
    PROVE  /\ Shake(g, Tail(d), Append(u, p), "configuration")
           /\ ~Joins(d) /\ ~Joins(Tail(d))
<1>1. PICK n \in Nat :
         /\ Len(d) = n + 1 /\ Head(d) = d[1] /\ (Tail(d) = << >> <=> n = 0)
  BY TailPlaces
<1>2. 1 \in 1 .. Len(d)
  BY <1>1
<1>3. 1 = Len(d) /\ g = "configuring"
  BY <1>1, <1>2 DEF Shake
<1>4. Tail(d) = << >> /\ d # << >>
  BY <1>1, <1>3
<1>5. \A i \in 1 .. Len(u) : u[i].type # "configured"
  BY DEF Shake
<1> DEFINE v == Append(u, p)
           k == Len(u)
<1>6. /\ k \in Nat /\ Len(v) = k + 1 /\ v[k + 1] = p /\ v # << >>
      /\ \A i \in 1 .. k : v[i] = u[i]
      /\ \A i \in 1 .. k + 1 : i \in 1 .. k \/ i = k + 1
  BY AppendPlaces
<1> HIDE DEF v
<1>7. \A i \in 1 .. Len(v) : v[i].type = "configured" => i = Len(v)
  BY <1>5, <1>6
<1>8. Answers(v)
  BY <1>6 DEF Answers
<1>9. \A i \in 1 .. Len(Tail(d)) : FALSE
  BY <1>4, NoPlaces
<1>10. ~Joins(d) /\ ~Joins(Tail(d))
  <2>1. d[1].type # "login"
    BY <1>1
  <2>2. QED
    BY <1>4, <2>1 DEF Joins
<1>11. QED
  BY <1>3, <1>4, <1>7, <1>8, <1>9, <1>10 DEF Shake, v

\* The client in play says something.
LEMMA ShakeSay ==
    ASSUME NEW D, NEW d \in Seq(D), NEW u \in Seq(Up), NEW g, NEW place,
           Shake(g, d, u, place), place = "play", NEW p \in Up, p.type # "configured"
    PROVE  Shake(g, d, Append(u, p), place) /\ ~Joins(d)
<1>1. ~Joins(d) /\ g # "rejoining" /\ ~Answers(u)
  BY DEF Shake
<1> DEFINE v == Append(u, p)
           k == Len(u)
<1>2. /\ k \in Nat /\ Len(v) = k + 1 /\ v[k + 1] = p /\ v # << >>
      /\ \A i \in 1 .. k : v[i] = u[i]
      /\ \A i \in 1 .. k + 1 : i \in 1 .. k \/ i = k + 1
      /\ u # << >> => k \in 1 .. k
      /\ u = << >> <=> k = 0
  BY AppendPlaces
<1> HIDE DEF v
<1>3. \A i \in 1 .. k : u[i].type # "configured"
  <2> SUFFICES ASSUME NEW i \in 1 .. k, u[i].type = "configured"
               PROVE  FALSE
    OBVIOUS
  <2>1. i = Len(u)
    BY DEF Shake
  <2>2. u # << >>
    BY <1>2
  <2>3. QED
    BY <1>1, <2>1, <2>2 DEF Answers
<1>4. \A i \in 1 .. Len(v) : v[i].type # "configured"
  BY <1>2, <1>3
<1>5. ~Answers(v)
  BY <1>2 DEF Answers
<1>6. \A i \in 1 .. Len(d) : d[i].type # "login"
  <2> SUFFICES ASSUME NEW i \in 1 .. Len(d), d[i].type = "login"
               PROVE  FALSE
    OBVIOUS
  <2>1. i = 1
    BY DEF Shake
  <2>2. d # << >>
    OBVIOUS
  <2>3. QED
    BY <1>1, <2>1, <2>2 DEF Joins
<1>7. QED
  BY <1>1, <1>4, <1>5, <1>6 DEF Shake, v

----------------------------------------------------------------------------
(* How the client signs.                                                   *)
\* How the client signs: its session and key, the next link, and the highest
\* session it ever had.
Signer(sid, key, link, top) == [sid |-> sid, key |-> key, link |-> link, top |-> top]
Signers == {k \in [sid : Nat, key : Nat, link : Nat, top : Nat] : k.sid <= k.top}

\* What it sends of it, and how it signs then.
Signs(k, p) ==
    /\ p.type = "session" =>
          p.sid = k.top + 1 /\ k.key <= p.key /\ (k.sid # 0 => k.key < p.key)
    /\ Talk(p) =>
          /\ p.type = "chat" => Len(p.sigs) = 1
          /\ \A i \in 1 .. Len(p.sigs) :
                p.sigs[i] = IF k.sid = 0 THEN Null
                            ELSE [sid |-> k.sid, index |-> k.link + i - 1, last |-> p.sum]
Signed(k, p) ==
    IF p.type = "session" THEN Signer(p.sid, p.key, 0, p.sid)
    ELSE IF Talk(p) /\ k.sid # 0 THEN Signer(k.sid, k.key, k.link + Len(p.sigs), k.top)
    ELSE k

\* The packets of u tell how the client signed before them, and does now.
Signing(d, first, u, final) ==
    /\ d[0] = first /\ d[Len(u)] = final
    /\ \A j \in 1 .. Len(u) : Signs(d[j - 1], u[j]) /\ d[j] = Signed(d[j - 1], u[j])
SignsTo(first, u, final) == \E d \in [0 .. Len(u) -> Signers] : Signing(d, first, u, final)

\* The fields of a signer.
LEMMA SignerFields ==
    ASSUME NEW sid \in Nat, NEW key \in Nat, NEW link \in Nat, NEW top \in Nat, sid <= top
    PROVE  /\ Signer(sid, key, link, top) \in Signers
           /\ Signer(sid, key, link, top).sid = sid /\ Signer(sid, key, link, top).key = key
           /\ Signer(sid, key, link, top).link = link /\ Signer(sid, key, link, top).top = top
BY DEF Signer, Signers

\* Whatever is sent, the client signs on from there.
LEMMA SignedTyped ==
    ASSUME NEW k \in Signers, NEW p \in Up
    PROVE  /\ Signed(k, p) \in Signers
           /\ k.sid \in Nat /\ k.key \in Nat /\ k.link \in Nat /\ k.top \in Nat
           /\ k.sid <= k.top
           /\ p.type = "session" =>
                 /\ Signed(k, p).sid = p.sid /\ Signed(k, p).key = p.key
                 /\ Signed(k, p).link = 0 /\ Signed(k, p).top = p.sid
           /\ Talk(p) =>
                 /\ Signed(k, p).sid = k.sid /\ Signed(k, p).key = k.key
                 /\ Signed(k, p).top = k.top
                 /\ k.sid # 0 => Signed(k, p).link = k.link + Len(p.sigs)
                 /\ k.sid = 0 => Signed(k, p) = k
           /\ p.type # "session" /\ ~Talk(p) => Signed(k, p) = k
<1>1. /\ k.sid \in Nat /\ k.key \in Nat /\ k.link \in Nat /\ k.top \in Nat
      /\ k.sid <= k.top
  BY DEF Signers
<1> DEFINE m == Signed(k, p)
<1>2. CASE p.type = "session"
  <2>1. p.sid \in Nat /\ p.key \in Nat /\ ~Talk(p)
    BY <1>2, UpFields DEF Talk
  <2>2. m = Signer(p.sid, p.key, 0, p.sid)
    BY <1>2 DEF Signed
  <2>3. m \in Signers /\ m.sid = p.sid /\ m.key = p.key /\ m.link = 0 /\ m.top = p.sid
    BY <2>1, <2>2, SignerFields
  <2> HIDE DEF m
  <2>4. QED
    BY <1>1, <1>2, <2>1, <2>3 DEF m
<1>3. CASE Talk(p) /\ k.sid # 0
  <2>1. k.link + Len(p.sigs) \in Nat /\ p.type # "session"
    <3>1. p.sigs \in Seq(Link \cup {Null})
      BY <1>3, UpFields
    <3>2. Len(p.sigs) \in Nat
      BY <3>1
    <3>3. QED
      BY <1>1, <1>3, <3>2 DEF Talk
  <2>2. m = Signer(k.sid, k.key, k.link + Len(p.sigs), k.top)
    BY <1>3, <2>1 DEF Signed
  <2>3. /\ m \in Signers /\ m.sid = k.sid /\ m.key = k.key
        /\ m.link = k.link + Len(p.sigs) /\ m.top = k.top
    <3> DEFINE l == k.link + Len(p.sigs)
    <3> HIDE DEF l
    <3>1. l \in Nat /\ m = Signer(k.sid, k.key, l, k.top)
      BY <2>1, <2>2 DEF l
    <3>2. /\ m \in Signers /\ m.sid = k.sid /\ m.key = k.key /\ m.link = l /\ m.top = k.top
      <4> DEFINE x == Signer(k.sid, k.key, l, k.top)
      <4>1. /\ x \in Signers /\ x.sid = k.sid /\ x.key = k.key /\ x.link = l /\ x.top = k.top
        BY <1>1, <3>1, SignerFields, SMTT(30)
      <4>2. m = x
        BY <3>1
      <4> HIDE DEF x, m
      <4>3. QED
        BY <4>1, <4>2
    <3>3. QED
      BY <3>2 DEF l
  <2> HIDE DEF m
  <2>4. QED
    BY <1>1, <1>3, <2>1, <2>3 DEF m
<1>4. CASE p.type # "session" /\ ~(Talk(p) /\ k.sid # 0)
  <2>1. m = k
    BY <1>4 DEF Signed
  <2> HIDE DEF m
  <2>2. QED
    BY <1>1, <1>4, <2>1 DEF m
<1>5. QED
  BY <1>2, <1>3, <1>4

\* Nothing under way.
LEMMA SignsEmpty ==
    ASSUME NEW k \in Signers
    PROVE  SignsTo(k, << >>, k)
<1> DEFINE d == [j \in 0 .. 0 |-> k]
<1>1. d \in [0 .. Len(<< >>) -> Signers] /\ Len(<< >>) = 0
  OBVIOUS
<1>2. /\ \A j \in 0 .. 0 : d[j] = k
      /\ \A j \in 1 .. 0 : FALSE
      /\ 0 \in 0 .. 0
  OBVIOUS
<1> HIDE DEF d
<1>3. Signing(d, k, << >>, k)
  BY <1>1, <1>2 DEF Signing
<1>4. QED
  BY <1>1, <1>3 DEF SignsTo

\* What there is to know of the ends.
LEMMA SignsBounds ==
    ASSUME NEW first, NEW u \in Seq(Up), NEW final, SignsTo(first, u, final)
    PROVE  /\ first \in Signers /\ final \in Signers
           /\ u = << >> => first = final
<1>1. PICK d \in [0 .. Len(u) -> Signers] : Signing(d, first, u, final)
  BY DEF SignsTo
<1>2. Len(u) \in Nat /\ 0 \in 0 .. Len(u) /\ Len(u) \in 0 .. Len(u)
  OBVIOUS
<1>3. first \in Signers /\ final \in Signers
  BY <1>1, <1>2 DEF Signing
<1>4. u = << >> => Len(u) = 0
  OBVIOUS
<1>5. QED
  BY <1>1, <1>3, <1>4 DEF Signing

\* The client reader takes the next packet.
LEMMA SignsTail ==
    ASSUME NEW first, NEW u \in Seq(Up), NEW final, SignsTo(first, u, final), u # << >>
    PROVE  Signs(first, Head(u)) /\ SignsTo(Signed(first, Head(u)), Tail(u), final)
<1>1. PICK d \in [0 .. Len(u) -> Signers] : Signing(d, first, u, final)
  BY DEF SignsTo
<1> DEFINE v == Tail(u)
           r == [j \in 0 .. Len(v) |-> d[j + 1]]
<1>2. PICK n \in Nat :
         /\ Len(u) = n + 1 /\ Head(u) = u[1] /\ v \in Seq(Up) /\ Len(v) = n
         /\ \A i \in 1 .. n : v[i] = u[i + 1]
         /\ v = << >> <=> n = 0
  BY TailPlaces
<1> HIDE DEF v
<1>4. /\ r \in [0 .. Len(v) -> Signers]
      /\ \A j \in 0 .. n : r[j] = d[j + 1]
  <2>1. \A j \in 0 .. n : j + 1 \in 0 .. Len(u)
    BY <1>2
  <2>2. QED
    BY <1>2, <2>1
<1> HIDE DEF r
<1>5. Signs(first, Head(u)) /\ r[0] = Signed(first, Head(u))
  <2>1. 1 \in 1 .. Len(u) /\ 1 - 1 = 0
    BY <1>2
  <2>2. Signs(d[0], u[1]) /\ d[1] = Signed(d[0], u[1]) /\ d[0] = first
    BY <1>1, <2>1 DEF Signing
  <2>3. r[0] = d[1]
    BY <1>4
  <2>4. QED
    BY <1>2, <2>2, <2>3
<1>6. r[n] = final
  BY <1>1, <1>2, <1>4 DEF Signing
<1>7. ASSUME NEW j \in 1 .. n
      PROVE  Signs(r[j - 1], v[j]) /\ r[j] = Signed(r[j - 1], v[j])
  <2>1. j + 1 \in 1 .. Len(u) /\ (j + 1) - 1 = j /\ j - 1 \in 0 .. n /\ (j - 1) + 1 = j
        /\ j \in 0 .. n
    BY <1>2
  <2>2. Signs(d[j], u[j + 1]) /\ d[j + 1] = Signed(d[j], u[j + 1])
    BY <1>1, <2>1 DEF Signing
  <2>3. r[j - 1] = d[j] /\ r[j] = d[j + 1]
    BY <1>4, <2>1
  <2>4. QED
    BY <1>2, <2>2, <2>3
<1>8. Signing(r, Signed(first, Head(u)), v, final)
  BY <1>2, <1>5, <1>6, <1>7 DEF Signing
<1>9. QED
  BY <1>4, <1>5, <1>8 DEF SignsTo, v

\* One packet more.
LEMMA SignsAppend ==
    ASSUME NEW first, NEW u \in Seq(Up), NEW final, SignsTo(first, u, final),
           NEW p \in Up, Signs(final, p)
    PROVE  SignsTo(first, Append(u, p), Signed(final, p))
<1>1. PICK d \in [0 .. Len(u) -> Signers] : Signing(d, first, u, final)
  BY DEF SignsTo
<1>2. PICK n \in Nat : n = Len(u)
  OBVIOUS
<1> DEFINE v == Append(u, p)
           m == Signed(final, p)
           r == [j \in 0 .. Len(v) |-> IF j = n + 1 THEN m ELSE d[j]]
<1>3. /\ v \in Seq(Up) /\ Len(v) = n + 1 /\ v[n + 1] = p
      /\ \A j \in 1 .. n : v[j] = u[j]
  BY <1>2
<1>4. m \in Signers
  BY SignsBounds, SignedTyped
<1> HIDE DEF v, m
<1>5. /\ r \in [0 .. Len(v) -> Signers] /\ r[n + 1] = m
      /\ \A j \in 0 .. n : r[j] = d[j] /\ d[j] \in Signers
  <2>1. \A j \in 0 .. n : d[j] \in Signers
    BY <1>2
  <2>2. QED
    BY <1>3, <1>4, <2>1
<1> HIDE DEF r
<1>6. r[0] = first
  BY <1>1, <1>5 DEF Signing
<1>7. ASSUME NEW j \in 1 .. n + 1
      PROVE  Signs(r[j - 1], v[j]) /\ r[j] = Signed(r[j - 1], v[j])
  <2>1. j - 1 \in 0 .. n
    OBVIOUS
  <2>2. CASE j = n + 1
    <3>1. r[j - 1] = final
      BY <1>1, <1>2, <1>5, <2>1, <2>2 DEF Signing
    <3>2. QED
      BY <1>3, <1>5, <2>2, <3>1 DEF m
  <2>3. CASE j # n + 1
    <3>1. j \in 1 .. n /\ j \in 0 .. n
      BY <2>3
    <3>2. Signs(d[j - 1], u[j]) /\ d[j] = Signed(d[j - 1], u[j])
      BY <1>1, <1>2, <3>1 DEF Signing
    <3>3. r[j - 1] = d[j - 1] /\ r[j] = d[j] /\ v[j] = u[j]
      BY <1>3, <1>5, <2>1, <3>1
    <3>4. QED
      BY <3>2, <3>3
  <2>4. QED
    BY <2>2, <2>3
<1>8. Signing(r, first, v, m)
  BY <1>3, <1>5, <1>6, <1>7 DEF Signing
<1>9. QED
  BY <1>5, <1>8 DEF SignsTo, v, m

----------------------------------------------------------------------------
(* unpack.                                                                 *)
Chains == [sid : Nat, next : Nat, broken : BOOLEAN]

\* The i-th link of a chain c that covers a list.
LinkOf(c, i, seen) == [sid |-> c.sid, index |-> c.next + i - 1, last |-> seen]

\* A set of places has a least one, and Min is it.
LEMMA LeastPlace ==
    ASSUME NEW n \in Nat, NEW T, T \subseteq 1 .. n, T # {}
    PROVE  Min(T) \in T /\ \A j \in T : Min(T) <= j
<1>1. T \subseteq Nat
  OBVIOUS
<1> DEFINE R == OpToRel(<, Nat)
<1>2. PICK x \in T : \A y \in T : ~(<<y, x>> \in R)
  <2>1. IsWellFoundedOn(R, Nat)
    BY NatLessThanWellFounded
  <2> HIDE DEF R
  <2>2. QED
    BY <1>1, <2>1, WFMin
<1>3. \A y \in T : x <= y
  <2> SUFFICES ASSUME NEW y \in T PROVE x <= y
    OBVIOUS
  <2>1. x \in Nat /\ y \in Nat
    BY <1>1
  <2>2. ~(y < x)
    BY <1>2, <2>1 DEF OpToRel
  <2>3. QED
    BY <2>1, <2>2
<1>4. QED
  BY <1>3 DEF Min

\* The fields of a link.
LEMMA LinkTyped ==
    ASSUME NEW c \in Chains, NEW i \in Nat, i >= 1, NEW seen
    PROVE  /\ LinkOf(c, i, seen).sid = c.sid /\ LinkOf(c, i, seen).index = c.next + i - 1
           /\ c.sid \in Nat /\ c.next \in Nat /\ c.broken \in BOOLEAN /\ c.next + i - 1 \in Nat
<1>1. c.sid \in Nat /\ c.next \in Nat /\ c.broken \in BOOLEAN
  BY DEF Chains
<1>2. c.next + i - 1 \in Nat
  BY <1>1
<1>3. QED
  BY <1>1, <1>2 DEF LinkOf

\* A chain that went on.
LEMMA NextLink ==
    ASSUME NEW c \in Chains, NEW k \in Nat
    PROVE  /\ [c EXCEPT !.next = @ + k] \in Chains
           /\ [c EXCEPT !.next = @ + k].sid = c.sid
           /\ [c EXCEPT !.next = @ + k].next = c.next + k
           /\ [c EXCEPT !.next = @ + k].broken = c.broken
           /\ [c EXCEPT !.broken = TRUE] \in Chains
           /\ [c EXCEPT !.broken = TRUE].sid = c.sid
           /\ [c EXCEPT !.broken = TRUE].broken
<1>1. c.next + k \in Nat
  BY DEF Chains
<1>2. [c EXCEPT !.next = @ + k] \in Chains
  BY <1>1 DEF Chains
<1>3. /\ [c EXCEPT !.next = @ + k].sid = c.sid
      /\ [c EXCEPT !.next = @ + k].next = c.next + k
      /\ [c EXCEPT !.next = @ + k].broken = c.broken
  BY DEF Chains
<1>4. /\ [c EXCEPT !.broken = TRUE] \in Chains
      /\ [c EXCEPT !.broken = TRUE].sid = c.sid
      /\ [c EXCEPT !.broken = TRUE].broken
  BY DEF Chains
<1>5. QED
  BY <1>2, <1>3, <1>4

\* unpack: what it accepts is the chain's next link, and what it refuses
\* leaves the chain as it was or breaks it.
LEMMA UnpackOne ==
    ASSUME NEW c \in Chains, NEW sig, NEW when, NEW seen
    PROVE  /\ Unpack(c, sig, when, seen).ok =>
                 /\ sig = LinkOf(c, 1, seen) /\ sig # Null /\ ~c.broken
                 /\ Unpack(c, sig, when, seen).chain = [c EXCEPT !.next = @ + 1]
           /\ ~Unpack(c, sig, when, seen).ok =>
                 \/ Unpack(c, sig, when, seen).chain = [c EXCEPT !.broken = TRUE]
                 \/ /\ Unpack(c, sig, when, seen).chain = c
                    /\ sig = Null \/ when = "expired" \/ c.broken
           /\ sig = Null \/ when = "expired" \/ c.broken => ~Unpack(c, sig, when, seen).ok
           /\ sig # Null /\ sig = LinkOf(c, 1, seen) /\ when = "due" /\ ~c.broken
                 => Unpack(c, sig, when, seen).ok
<1>1. c.next \in Nat /\ c.next + 1 - 1 = c.next
  BY DEF Chains
<1>2. LinkOf(c, 1, seen) = [sid |-> c.sid, index |-> c.next, last |-> seen]
  BY <1>1 DEF LinkOf
<1>3. CASE sig = Null \/ when = "expired" \/ c.broken
  <2>1. Unpack(c, sig, when, seen) = [chain |-> c, ok |-> FALSE]
    BY <1>3 DEF Unpack
  <2>2. QED
    BY <1>3, <2>1
<1>4. CASE ~(sig = Null \/ when = "expired" \/ c.broken)
  <2>1. CASE when # "back" /\ sig = LinkOf(c, 1, seen)
    <3>1. Unpack(c, sig, when, seen) = [chain |-> [c EXCEPT !.next = @ + 1], ok |-> TRUE]
      BY <1>2, <1>4, <2>1 DEF Unpack
    <3>2. QED
      BY <1>4, <2>1, <3>1
  <2>2. CASE ~(when # "back" /\ sig = LinkOf(c, 1, seen))
    <3>1. Unpack(c, sig, when, seen) = [chain |-> [c EXCEPT !.broken = TRUE], ok |-> FALSE]
      BY <1>2, <1>4, <2>2 DEF Unpack
    <3>2. QED
      BY <1>4, <2>2, <3>1
  <2>3. QED
    BY <2>1, <2>2
<1>5. QED
  BY <1>3, <1>4

\* The same of the arguments of a command, signed all or none.
LEMMA UnpackMany ==
    ASSUME NEW c \in Chains, NEW S, NEW sigs \in Seq(S), NEW when, NEW seen,
           \/ \A i \in 1 .. Len(sigs) : sigs[i] = Null
           \/ \A i \in 1 .. Len(sigs) : sigs[i] # Null
    PROVE  /\ UnpackAll(c, sigs, when, seen).ok =>
                 /\ \A i \in 1 .. Len(sigs) : sigs[i] = LinkOf(c, i, seen) /\ sigs[i] # Null
                 /\ sigs # << >> => ~c.broken
                 /\ UnpackAll(c, sigs, when, seen).chain = [c EXCEPT !.next = @ + Len(sigs)]
           /\ ~UnpackAll(c, sigs, when, seen).ok =>
                 /\ UnpackAll(c, sigs, when, seen).chain \in Chains
                 /\ UnpackAll(c, sigs, when, seen).chain.sid = c.sid
                 /\ \/ UnpackAll(c, sigs, when, seen).chain.broken
                    \/ UnpackAll(c, sigs, when, seen).chain = c
           /\ (/\ \A i \in 1 .. Len(sigs) : sigs[i] = LinkOf(c, i, seen) /\ sigs[i] # Null
               /\ when = "due" /\ ~c.broken)
                 => UnpackAll(c, sigs, when, seen).ok
<1> DEFINE at(i) == [c EXCEPT !.next = @ + i - 1]
           unpacked(i) == Unpack(at(i), sigs[i], when, seen)
           refused == {i \in 1 .. Len(sigs) : ~unpacked(i).ok}
           result == UnpackAll(c, sigs, when, seen)
<1>1. Len(sigs) \in Nat /\ DOMAIN sigs = 1 .. Len(sigs)
  OBVIOUS
<1>2. result = IF refused = {}
               THEN [chain |-> [c EXCEPT !.next = @ + Len(sigs)], ok |-> TRUE]
               ELSE unpacked(Min(refused))
  BY <1>1 DEF UnpackAll
<1>3. \A i \in 1 .. Len(sigs) :
         /\ at(i) \in Chains /\ at(i).sid = c.sid /\ at(i).next = c.next + i - 1
         /\ at(i).broken = c.broken /\ LinkOf(at(i), 1, seen) = LinkOf(c, i, seen)
  <2> SUFFICES ASSUME NEW i \in 1 .. Len(sigs)
               PROVE  /\ at(i) \in Chains /\ at(i).sid = c.sid
                      /\ at(i).next = c.next + i - 1
                      /\ at(i).broken = c.broken
                      /\ LinkOf(at(i), 1, seen) = LinkOf(c, i, seen)
    OBVIOUS
  <2>1. c.sid \in Nat /\ c.next \in Nat /\ c.broken \in BOOLEAN /\ c.next + i - 1 \in Nat
    BY LinkTyped
  <2>2. /\ at(i) \in Chains /\ at(i).sid = c.sid /\ at(i).next = c.next + i - 1
        /\ at(i).broken = c.broken
    BY <2>1 DEF Chains
  <2> DEFINE a == at(i)
  <2> HIDE DEF a
  <2>3. a.sid = c.sid /\ a.next + 1 - 1 = c.next + i - 1
    BY <2>1, <2>2 DEF a
  <2>4. LinkOf(a, 1, seen) = LinkOf(c, i, seen)
    BY <2>3 DEF LinkOf
  <2>5. QED
    BY <2>2, <2>4 DEF a
<1> HIDE DEF at
<1>4. \A i \in 1 .. Len(sigs) :
         /\ unpacked(i).ok => sigs[i] = LinkOf(c, i, seen) /\ sigs[i] # Null /\ ~c.broken
         /\ ~unpacked(i).ok => \/ unpacked(i).chain = [at(i) EXCEPT !.broken = TRUE]
                               \/ /\ unpacked(i).chain = at(i)
                                  /\ sigs[i] = Null \/ when = "expired" \/ c.broken
         /\ sigs[i] = Null \/ when = "expired" \/ c.broken => ~unpacked(i).ok
         /\ sigs[i] # Null /\ sigs[i] = LinkOf(c, i, seen) /\ when = "due" /\ ~c.broken
               => unpacked(i).ok
  <2> SUFFICES ASSUME NEW i \in 1 .. Len(sigs)
      PROVE  /\ unpacked(i).ok => sigs[i] = LinkOf(c, i, seen) /\ sigs[i] # Null /\ ~c.broken
             /\ ~unpacked(i).ok => \/ unpacked(i).chain = [at(i) EXCEPT !.broken = TRUE]
                                   \/ /\ unpacked(i).chain = at(i)
                                      /\ sigs[i] = Null \/ when = "expired" \/ c.broken
             /\ sigs[i] = Null \/ when = "expired" \/ c.broken => ~unpacked(i).ok
             /\ sigs[i] # Null /\ sigs[i] = LinkOf(c, i, seen) /\ when = "due" /\ ~c.broken
                   => unpacked(i).ok
    OBVIOUS
  <2> DEFINE a == at(i)
             x == unpacked(i)
  <2>1. a \in Chains /\ a.broken = c.broken /\ LinkOf(a, 1, seen) = LinkOf(c, i, seen)
    BY <1>3
  <2> HIDE DEF a
  <2>2. /\ x.ok => sigs[i] = LinkOf(a, 1, seen) /\ sigs[i] # Null /\ ~a.broken
        /\ ~x.ok => \/ x.chain = [a EXCEPT !.broken = TRUE]
                    \/ x.chain = a /\ (sigs[i] = Null \/ when = "expired" \/ a.broken)
        /\ sigs[i] = Null \/ when = "expired" \/ a.broken => ~x.ok
        /\ sigs[i] # Null /\ sigs[i] = LinkOf(a, 1, seen) /\ when = "due" /\ ~a.broken
              => x.ok
    <3>1. x = Unpack(a, sigs[i], when, seen)
      BY DEF a
    <3> HIDE DEF x
    <3>2. QED
      BY <2>1, <3>1, UnpackOne
  <2> HIDE DEF x
  <2>3. QED
    BY <2>1, <2>2 DEF a, x
<1> HIDE DEF unpacked, result
<1>5. CASE refused = {}
  <2>1. result = [chain |-> [c EXCEPT !.next = @ + Len(sigs)], ok |-> TRUE]
    BY <1>2, <1>5
  <2>2. \A i \in 1 .. Len(sigs) : unpacked(i).ok
    BY <1>5
  <2>3. result.ok /\ result.chain = [c EXCEPT !.next = @ + Len(sigs)]
    BY <2>1
  <2>4. sigs # << >> => 1 \in 1 .. Len(sigs)
    OBVIOUS
  <2>5. \A i \in 1 .. Len(sigs) : sigs[i] = LinkOf(c, i, seen) /\ sigs[i] # Null /\ ~c.broken
    BY <1>4, <2>2
  <2>6. QED
    BY <2>3, <2>4, <2>5 DEF result
<1>6. CASE refused # {}
  <2>1. Min(refused) \in refused /\ \A j \in refused : Min(refused) <= j
    <3>1. refused \subseteq 1 .. Len(sigs)
      OBVIOUS
    <3> HIDE DEF refused
    <3>2. QED
      BY <1>1, <1>6, <3>1, LeastPlace
  <2>2. PICK m \in 1 .. Len(sigs) : /\ m = Min(refused) /\ ~unpacked(m).ok
                                    /\ \A j \in refused : m <= j
    BY <2>1
  <2>3. result = unpacked(m) /\ ~result.ok
    BY <1>2, <1>6, <2>2
  <2>4. CASE sigs[m] = Null \/ when = "expired" \/ c.broken
    <3>1. 1 \in 1 .. Len(sigs)
      BY <1>1
    <3>2. ~unpacked(1).ok
      BY <1>4, <2>4, <3>1
    <3>3. m = 1
      BY <2>2, <3>1, <3>2
    <3>4. at(m) = c
      <4>1. c.next \in Nat /\ c.next + 1 - 1 = c.next
        BY DEF Chains
      <4>2. QED
        BY <3>3, <4>1 DEF at, Chains
    <3>5. \/ unpacked(m).chain = [c EXCEPT !.broken = TRUE]
          \/ unpacked(m).chain = c
      BY <1>4, <2>2, <3>4
    <3>6. c.sid = c.sid /\ [c EXCEPT !.broken = TRUE] \in Chains
          /\ [c EXCEPT !.broken = TRUE].sid = c.sid /\ [c EXCEPT !.broken = TRUE].broken
      BY DEF Chains
    <3>7. /\ result.chain \in Chains /\ result.chain.sid = c.sid
          /\ result.chain.broken \/ result.chain = c
      BY <2>3, <3>5, <3>6
    <3>8. ~(/\ \A i \in 1 .. Len(sigs) : sigs[i] = LinkOf(c, i, seen) /\ sigs[i] # Null
            /\ when = "due" /\ ~c.broken)
      BY <2>4
    <3>9. QED
      BY <2>3, <3>7, <3>8 DEF result
  <2>5. CASE ~(sigs[m] = Null \/ when = "expired" \/ c.broken)
    <3>1. unpacked(m).chain = [at(m) EXCEPT !.broken = TRUE]
      BY <1>4, <2>2, <2>5
    <3>2. at(m) \in Chains /\ at(m).sid = c.sid
      BY <1>3
    <3>3. /\ [at(m) EXCEPT !.broken = TRUE] \in Chains
          /\ [at(m) EXCEPT !.broken = TRUE].sid = c.sid
          /\ [at(m) EXCEPT !.broken = TRUE].broken
      BY <3>2 DEF Chains
    <3>4. ~(/\ \A i \in 1 .. Len(sigs) : sigs[i] = LinkOf(c, i, seen) /\ sigs[i] # Null
            /\ when = "due" /\ ~c.broken)
      BY <1>4, <2>2
    <3>5. QED
      BY <2>3, <3>1, <3>3, <3>4 DEF result
  <2>6. QED
    BY <2>4, <2>5
<1>7. QED
  BY <1>5, <1>6

----------------------------------------------------------------------------
(* The signature cache.                                                    *)
\* A cache, one without holes, one in which nothing comes twice.
Caches == [1 .. CacheSize -> Sigs \cup {Null}]
Compact(c) == \A i, j \in 1 .. CacheSize : i < j /\ c[j] # Null => c[i] # Null
Unlike(c) == \A i, j \in 1 .. CacheSize : c[i] = c[j] /\ c[i] # Null => i = j
Proper(c) == c \in Caches /\ Compact(c) /\ Unlike(c)

\* What is pushed: signatures, none of them twice.
News(new) ==
    /\ new \in Seq(Sigs) /\ Len(new) >= 1
    /\ \A i, j \in 1 .. Len(new) : new[i] = new[j] => i = j

\* The entries of a cache that stay when it is pushed, and how many of them
\* there are up to a place.
Stay(c, new) == {i \in 1 .. CacheSize : c[i] # Null /\ ~Contains(new, c[i])}
UpTo(c, new, i) == {h \in Stay(c, new) : h <= i}
Stays(c, new, i) == Cardinality(UpTo(c, new, i))

\* What is at a place of Pushed, and of what would follow it.
PlacedAt(c, new, i) == {j \in Stay(c, new) : Len(new) + Stays(c, new, j) = i}
Out(c, new, i) ==
    IF i <= Len(new) THEN new[Len(new) + 1 - i]
    ELSE IF PlacedAt(c, new, i) # {} THEN c[CHOOSE j \in PlacedAt(c, new, i) : TRUE] ELSE Null

\* A client's cache is that.
LEMMA PushedOut ==
    ASSUME NEW c, NEW last, NEW sig
    PROVE  Pushed(c, last, sig) = [i \in 1 .. CacheSize |-> Out(c, Append(last, sig), i)]
BY DEF Pushed, Out, PlacedAt, Stays, UpTo, Stay

\* How many stay, from one place to another.
LEMMA StaysBetween ==
    ASSUME NEW c, NEW new, NEW i \in Nat, NEW j \in Nat, i <= j
    PROVE  /\ Stays(c, new, i) \in Nat /\ Stays(c, new, j) \in Nat
           /\ Stays(c, new, i) <= Stays(c, new, j)
           /\ Stays(c, new, j) <= Stays(c, new, i) + (j - i)
           /\ (\A x \in i + 1 .. j : x \in Stay(c, new))
                 => Stays(c, new, j) = Stays(c, new, i) + (j - i)
           /\ (\A x \in i + 1 .. j : x \notin Stay(c, new))
                 => Stays(c, new, j) = Stays(c, new, i)
<1> DEFINE A == UpTo(c, new, i)
           B == UpTo(c, new, j)
           I == i + 1 .. j
<1>1. A \subseteq B /\ B \subseteq A \cup I /\ A \cap I = {} /\ B \subseteq 1 .. j
  BY DEF UpTo, Stay
<1>2. IsFiniteSet(I) /\ Cardinality(I) = j - i
  <2>1. i + 1 \in Int /\ j \in Int
    OBVIOUS
  <2>2. Cardinality(I) = IF i + 1 > j THEN 0 ELSE j - (i + 1) + 1
    BY <2>1, FS_Interval
  <2>3. IsFiniteSet(I)
    BY <2>1, FS_Interval
  <2> HIDE DEF I
  <2>4. QED
    BY <2>2, <2>3
<1>3. IsFiniteSet(A) /\ IsFiniteSet(B)
  <2>1. IsFiniteSet(1 .. j)
    BY FS_Interval
  <2>2. QED
    BY <1>1, <2>1, FS_Subset
<1>6. (\A x \in I : x \in Stay(c, new)) => B = A \cup I
  BY <1>1 DEF UpTo
<1>7. (\A x \in I : x \notin Stay(c, new)) => B = A
  BY <1>1 DEF UpTo
<1> HIDE DEF A, B, I
<1>4. PICK a \in Nat, b \in Nat, n \in Nat : a = Cardinality(A) /\ b = Cardinality(B) /\ n = j - i
  <2>1. Cardinality(A) \in Nat /\ Cardinality(B) \in Nat
    BY <1>3, FS_CardinalityType
  <2>2. j - i \in Nat
    OBVIOUS
  <2>3. QED
    BY <2>1, <2>2
<1>5. IsFiniteSet(A \cup I) /\ Cardinality(A \cup I) = a + n
  <2>1. Cardinality(A \cup I) = Cardinality(A) + Cardinality(I) - Cardinality(A \cap I)
    BY <1>2, <1>3, FS_Union
  <2>2. Cardinality({}) = 0
    BY FS_EmptySet
  <2>3. IsFiniteSet(A \cup I)
    BY <1>2, <1>3, FS_Union
  <2>4. Cardinality(A \cup I) = Cardinality(A) + Cardinality(I) - Cardinality({})
    BY <1>1, <2>1, Zenon
  <2>5. QED
    BY <1>2, <1>4, <2>2, <2>3, <2>4
<1>8. a <= b
  <2>1. A \in SUBSET B
    BY <1>1
  <2>2. Cardinality(A) <= Cardinality(B)
    BY <1>3, <2>1, FS_Subset
  <2>3. QED
    BY <1>4, <2>2
<1>9. b <= a + n
  <2>1. B \in SUBSET (A \cup I)
    BY <1>1
  <2>2. Cardinality(B) <= Cardinality(A \cup I)
    BY <1>5, <2>1, FS_Subset
  <2>3. QED
    BY <1>4, <1>5, <2>2
<1>10. QED
  <2>1. Stays(c, new, i) = a /\ Stays(c, new, j) = b
    BY <1>4 DEF Stays, A, B
  <2>2. (\A x \in i + 1 .. j : x \in Stay(c, new)) => b = a + n
    BY <1>4, <1>5, <1>6 DEF I
  <2>3. (\A x \in i + 1 .. j : x \notin Stay(c, new)) => b = a
    BY <1>4, <1>7 DEF I
  <2>4. QED
    BY <1>4, <1>8, <1>9, <2>1, <2>2, <2>3

\* From one place to the next.
LEMMA StaysNext ==
    ASSUME NEW c, NEW new, NEW i \in Nat
    PROVE  /\ Stays(c, new, i) \in Nat /\ Stays(c, new, i + 1) \in Nat
           /\ i + 1 \in Stay(c, new) => Stays(c, new, i + 1) = Stays(c, new, i) + 1
           /\ i + 1 \notin Stay(c, new) => Stays(c, new, i + 1) = Stays(c, new, i)
           /\ Stays(c, new, 0) = 0
<1>1. i + 1 \in Nat /\ i <= i + 1 /\ (i + 1) - i = 1
  OBVIOUS
<1>2. \A x \in i + 1 .. i + 1 : x = i + 1
  OBVIOUS
<1>3. UpTo(c, new, 0) = {}
  BY DEF UpTo, Stay
<1>4. Stays(c, new, 0) = 0
  BY <1>3, FS_EmptySet DEF Stays
<1>5. /\ Stays(c, new, i) \in Nat /\ Stays(c, new, i + 1) \in Nat
      /\ (\A x \in i + 1 .. i + 1 : x \in Stay(c, new))
            => Stays(c, new, i + 1) = Stays(c, new, i) + ((i + 1) - i)
      /\ (\A x \in i + 1 .. i + 1 : x \notin Stay(c, new))
            => Stays(c, new, i + 1) = Stays(c, new, i)
  BY <1>1, StaysBetween
<1>6. QED
  BY <1>1, <1>2, <1>4, <1>5

\* Of two entries that stay, the later one comes later.
LEMMA StaysStrict ==
    ASSUME NEW c, NEW new, NEW i \in Nat, NEW j \in Stay(c, new), i < j
    PROVE  Stays(c, new, i) < Stays(c, new, j)
<1>1. PICK k \in Nat : j = k + 1 /\ i <= k
  <2>1. j \in Nat /\ j >= 1
    BY DEF Stay
  <2>2. j - 1 \in Nat /\ j = (j - 1) + 1 /\ i <= j - 1
    BY <2>1
  <2>3. QED
    BY <2>2
<1>2. /\ Stays(c, new, i) \in Nat /\ Stays(c, new, k) \in Nat
      /\ Stays(c, new, i) <= Stays(c, new, k)
  BY <1>1, StaysBetween
<1>3. k + 1 \in Stay(c, new) => Stays(c, new, k + 1) = Stays(c, new, k) + 1
  BY StaysNext
<1>4. QED
  BY <1>1, <1>2, <1>3

\* What comes out: the new ones, newest first, the rest, and nothing.
LEMMA OutIs ==
    ASSUME NEW c \in Caches, NEW new, News(new)
    PROVE  /\ \A i \in 1 .. Len(new) :
                 /\ Len(new) + 1 - i \in 1 .. Len(new) /\ Out(c, new, i) = new[Len(new) + 1 - i]
                 /\ Out(c, new, i) \in Sigs /\ Out(c, new, i) # Null
           /\ \A j \in Stay(c, new) :
                 /\ Len(new) + Stays(c, new, j) \in Nat
                 /\ Len(new) < Len(new) + Stays(c, new, j)
                 /\ Out(c, new, Len(new) + Stays(c, new, j)) = c[j]
                 /\ c[j] \in Sigs /\ c[j] # Null
           /\ \A i \in Nat : i > Len(new) /\ PlacedAt(c, new, i) = {} => Out(c, new, i) = Null
           /\ \A i \in Nat : Out(c, new, i) # Null =>
                 i <= Len(new) \/ \E j \in Stay(c, new) : i = Len(new) + Stays(c, new, j)
<1>1. PICK n \in Nat : n = Len(new)
  BY DEF News
<1>2. ASSUME NEW i \in 1 .. n
      PROVE  /\ n + 1 - i \in 1 .. n /\ Out(c, new, i) = new[n + 1 - i]
             /\ Out(c, new, i) \in Sigs /\ Out(c, new, i) # Null
  <2>1. i <= Len(new) /\ n + 1 - i \in 1 .. n
    BY <1>1
  <2>2. Out(c, new, i) = new[n + 1 - i]
    BY <1>1, <2>1 DEF Out
  <2>3. new[n + 1 - i] \in Sigs
    BY <1>1, <2>1 DEF News
  <2>4. QED
    BY <2>1, <2>2, <2>3, NullAssumption
<1>3. ASSUME NEW j \in Stay(c, new)
      PROVE  /\ n + Stays(c, new, j) \in Nat
             /\ n < n + Stays(c, new, j)
             /\ Out(c, new, n + Stays(c, new, j)) = c[j]
             /\ c[j] \in Sigs /\ c[j] # Null
  <2>1. j \in Nat /\ 0 < j /\ c[j] \in Sigs /\ c[j] # Null
    BY DEF Stay, Caches
  <2>2. Stays(c, new, 0) = 0 /\ Stays(c, new, 0) < Stays(c, new, j)
    BY <2>1, StaysStrict, StaysNext
  <2>3. PICK k \in Nat : k = Stays(c, new, j) /\ 0 < k
    <3>1. Stays(c, new, j) \in Nat
      BY <2>1, StaysNext
    <3>2. QED
      BY <2>2, <3>1
  <2>4. ASSUME NEW h \in PlacedAt(c, new, n + k) PROVE h = j
    <3>1. h \in Stay(c, new) /\ h \in Nat /\ Stays(c, new, h) = k
      <4>1. h \in Stay(c, new) /\ h \in Nat /\ n + Stays(c, new, h) = n + k
        BY <1>1 DEF PlacedAt, Stay
      <4>2. Stays(c, new, h) \in Nat
        BY <4>1, StaysNext
      <4>3. QED
        BY <4>1, <4>2
    <3>2. ~(h < j) /\ ~(j < h)
      <4>1. h < j => Stays(c, new, h) < Stays(c, new, j)
        BY <3>1, StaysStrict
      <4>2. j < h => Stays(c, new, j) < Stays(c, new, h)
        BY <2>1, <3>1, StaysStrict
      <4>3. QED
        BY <2>3, <3>1, <4>1, <4>2
    <3>3. QED
      BY <2>1, <3>1, <3>2
  <2>5. j \in PlacedAt(c, new, n + k)
    BY <1>1, <2>3 DEF PlacedAt
  <2>6. ~(n + k <= Len(new))
    BY <1>1, <2>3
  <2>7. Out(c, new, n + k) = c[CHOOSE h \in PlacedAt(c, new, n + k) : TRUE]
    BY <2>5, <2>6 DEF Out
  <2>8. Out(c, new, n + k) = c[j]
    BY <2>4, <2>5, <2>7
  <2>9. QED
    BY <2>1, <2>3, <2>8
<1>4. ASSUME NEW i \in Nat, i > n, PlacedAt(c, new, i) = {}
      PROVE  Out(c, new, i) = Null
  BY <1>1, <1>4 DEF Out
<1>5. ASSUME NEW i \in Nat, Out(c, new, i) # Null
      PROVE  i <= n \/ \E j \in Stay(c, new) : i = n + Stays(c, new, j)
  <2>1. i <= n \/ PlacedAt(c, new, i) # {}
    BY <1>4, <1>5
  <2>2. QED
    BY <1>1, <2>1 DEF PlacedAt
<1>6. QED
  BY <1>1, <1>2, <1>3, <1>4, <1>5

\* Nothing comes out twice.
LEMMA OutUnlike ==
    ASSUME NEW c, Proper(c), NEW new, News(new), NEW i \in Nat \ {0}, NEW j \in Nat \ {0},
           Out(c, new, i) = Out(c, new, j), Out(c, new, i) # Null
    PROVE  i = j
<1>1. PICK n \in Nat : n = Len(new)
  BY DEF News
<1>2. c \in Caches
  BY DEF Proper
<1>3. /\ \A x \in 1 .. n : n + 1 - x \in 1 .. n /\ Out(c, new, x) = new[n + 1 - x]
      /\ \A h \in Stay(c, new) : Out(c, new, n + Stays(c, new, h)) = c[h]
      /\ \A x \in Nat : Out(c, new, x) # Null =>
            x <= n \/ \E h \in Stay(c, new) : x = n + Stays(c, new, h)
  BY <1>1, <1>2, OutIs
<1>4. ASSUME NEW x \in 1 .. n, NEW y \in 1 .. n, Out(c, new, x) = Out(c, new, y)
      PROVE  x = y
  <2>1. n + 1 - x \in 1 .. n /\ n + 1 - y \in 1 .. n /\ new[n + 1 - x] = new[n + 1 - y]
    BY <1>3, <1>4
  <2>2. n + 1 - x = n + 1 - y
    BY <1>1, <2>1 DEF News
  <2>3. QED
    BY <2>2
<1>5. ASSUME NEW x \in 1 .. n, NEW h \in Stay(c, new)
      PROVE  Out(c, new, x) # c[h]
  <2>1. ~Contains(new, c[h])
    BY DEF Stay
  <2>2. QED
    BY <1>1, <1>3, <2>1 DEF Contains
<1>6. ASSUME NEW h \in Stay(c, new), NEW g \in Stay(c, new), c[h] = c[g]
      PROVE  h = g
  BY <1>6 DEF Proper, Unlike, Stay
<1>7. i \in 1 .. n \/ \E h \in Stay(c, new) : i = n + Stays(c, new, h)
  BY <1>3
<1>8. j \in 1 .. n \/ \E h \in Stay(c, new) : j = n + Stays(c, new, h)
  BY <1>3
<1>9. CASE i \in 1 .. n /\ j \in 1 .. n
  BY <1>4, <1>9
<1>10. CASE i \in 1 .. n /\ j \notin 1 .. n
  BY <1>3, <1>5, <1>8, <1>10
<1>11. CASE i \notin 1 .. n /\ j \in 1 .. n
  BY <1>3, <1>5, <1>7, <1>11
<1>12. CASE i \notin 1 .. n /\ j \notin 1 .. n
  <2>1. PICK h \in Stay(c, new) : i = n + Stays(c, new, h)
    BY <1>7, <1>12
  <2>2. PICK g \in Stay(c, new) : j = n + Stays(c, new, g)
    BY <1>8, <1>12
  <2>3. c[h] = c[g]
    BY <1>3, <2>1, <2>2
  <2>4. h = g
    BY <1>6, <2>3
  <2>5. QED
    BY <2>1, <2>2, <2>4
<1>13. QED
  BY <1>9, <1>10, <1>11, <1>12

\* Once as many are gone as came in, what follows is what was there.
LEMMA Unmoved ==
    ASSUME NEW c, Proper(c), NEW new, News(new), NEW e \in 1 .. CacheSize,
           Len(new) + Stays(c, new, e) = e, NEW j \in e + 1 .. CacheSize
    PROVE  Out(c, new, j) = c[j]
<1>1. PICK n \in Nat, k \in Nat : n = Len(new) /\ n >= 1 /\ k = Stays(c, new, e) /\ n + k = e
  <2>1. Stays(c, new, e) \in Nat
    BY StaysNext
  <2>2. QED
    BY <2>1 DEF News
<1>2. c \in Caches /\ e \in Nat /\ j \in Nat /\ j \in 1 .. CacheSize /\ e < j /\ n < j
  BY <1>1 DEF Proper
<1>3. CASE c[j] = Null
  <2>1. ASSUME NEW h \in Stay(c, new), n + Stays(c, new, h) = j
        PROVE  FALSE
    <3>1. h \in 1 .. CacheSize /\ h \in Nat /\ c[h] # Null
      BY DEF Stay
    <3>2. h < j
      <4>1. ~(j < h)
        BY <1>2, <1>3, <3>1 DEF Proper, Compact
      <4>2. h # j
        BY <1>3, <3>1
      <4>3. QED
        BY <1>2, <3>1, <4>1, <4>2
    <3>3. PICK m \in Nat : m = Stays(c, new, h)
      BY <3>1, StaysNext
    <3>4. CASE h <= e
      <4>1. m <= k
        BY <1>1, <1>2, <3>1, <3>3, <3>4, StaysBetween
      <4>2. QED
        BY <1>1, <1>2, <2>1, <3>3, <4>1
    <3>5. CASE e <= h
      <4>1. m <= k + (h - e)
        BY <1>1, <1>2, <3>1, <3>3, <3>5, StaysBetween
      <4>2. QED
        BY <1>1, <1>2, <2>1, <3>1, <3>2, <3>3, <4>1
    <3>6. QED
      BY <1>2, <3>1, <3>4, <3>5
  <2>2. PlacedAt(c, new, j) = {}
    BY <1>1, <2>1 DEF PlacedAt
  <2>3. Out(c, new, j) = Null
    BY <1>1, <1>2, <2>2, OutIs
  <2>4. QED
    BY <1>3, <2>3
<1>4. CASE c[j] # Null
  <2>1. \A h \in 1 .. j : h \in 1 .. CacheSize /\ c[h] # Null
    <3> SUFFICES ASSUME NEW h \in 1 .. j PROVE h \in 1 .. CacheSize /\ c[h] # Null
      OBVIOUS
    <3>1. h \in 1 .. CacheSize
      BY <1>2, BoundAssumption
    <3>2. QED
      BY <1>2, <1>4, <3>1 DEF Proper, Compact
  <2>2. ASSUME NEW x \in e + 1 .. j PROVE x \in Stay(c, new)
    <3> DEFINE G == (1 .. e) \ UpTo(c, new, e)
               D == G \cup {x}
               f == [h \in D |-> CHOOSE i \in 1 .. n : new[i] = c[h]]
    <3>1. x \in 1 .. CacheSize /\ c[x] # Null /\ x \notin 1 .. e /\ x \in 1 .. j
      BY <1>2, <2>1
    <3>2. SUFFICES ASSUME Contains(new, c[x]) PROVE FALSE
      BY <3>1 DEF Stay
    <3>3. \A h \in D : h \in 1 .. CacheSize /\ c[h] # Null /\ \E i \in 1 .. n : new[i] = c[h]
      <4>1. \A h \in G : h \in 1 .. CacheSize /\ c[h] # Null /\ Contains(new, c[h])
        BY <1>2, <2>1 DEF UpTo, Stay
      <4>2. QED
        BY <1>1, <3>1, <3>2, <4>1 DEF Contains
    <3>4. IsFiniteSet(G) /\ Cardinality(G) = n
      <4>1. IsFiniteSet(1 .. e) /\ Cardinality(1 .. e) = e
        <5>1. Cardinality(1 .. e) = IF 1 > e THEN 0 ELSE e - 1 + 1
          BY <1>2, FS_Interval
        <5>2. IsFiniteSet(1 .. e)
          BY <1>2, FS_Interval
        <5>3. QED
          BY <1>2, <5>1, <5>2
      <4>2. UpTo(c, new, e) \in SUBSET (1 .. e)
        BY DEF UpTo, Stay
      <4>3. IsFiniteSet(UpTo(c, new, e)) /\ Cardinality(UpTo(c, new, e)) = k
        BY <1>1, <4>1, <4>2, FS_Subset DEF Stays
      <4>4. IsFiniteSet(G)
        BY <4>1, FS_Subset
      <4>5. G \cup UpTo(c, new, e) = 1 .. e /\ G \cap UpTo(c, new, e) = {}
        BY <4>2
      <4> HIDE DEF G
      <4>6. Cardinality(G \cup UpTo(c, new, e))
               = Cardinality(G) + Cardinality(UpTo(c, new, e)) - Cardinality(G \cap UpTo(c, new, e))
        BY <4>3, <4>4, FS_Union
      <4>7. Cardinality(G) \in Nat /\ Cardinality({}) = 0
        BY <4>4, FS_CardinalityType, FS_EmptySet
      <4>8. e = Cardinality(G) + k - 0
        BY <4>1, <4>3, <4>5, <4>6, <4>7
      <4>9. QED
        BY <1>1, <1>2, <4>4, <4>7, <4>8
    <3>5. x \notin G
      BY <3>1
    <3> HIDE DEF G
    <3>6. IsFiniteSet(D) /\ Cardinality(D) = n + 1
      BY <3>4, <3>5, FS_AddElement
    <3> HIDE DEF D
    <3>7. f \in [D -> 1 .. n] /\ \A h \in D : new[f[h]] = c[h]
      BY <3>3
    <3> HIDE DEF f
    <3>8. IsFiniteSet(1 .. n) /\ Cardinality(1 .. n) = n
      <4>1. Cardinality(1 .. n) = IF 1 > n THEN 0 ELSE n - 1 + 1
        BY FS_Interval
      <4>2. IsFiniteSet(1 .. n)
        BY FS_Interval
      <4>3. QED
        BY <1>1, <4>1, <4>2
    <3>9. Cardinality(1 .. n) < Cardinality(D)
      BY <3>6, <3>8
    <3>10. PICK g \in D, h \in D : g # h /\ f[g] = f[h]
      BY <3>6, <3>7, <3>8, <3>9, FS_PigeonHole
    <3>11. c[g] = c[h] /\ c[g] # Null /\ g \in 1 .. CacheSize /\ h \in 1 .. CacheSize
      BY <3>3, <3>7, <3>10
    <3>12. QED
      BY <3>10, <3>11 DEF Proper, Unlike
  <2>3. Stays(c, new, j) = k + (j - e)
    BY <1>1, <1>2, <2>2, StaysBetween
  <2>4. n + Stays(c, new, j) = j
    BY <1>1, <1>2, <2>3
  <2>5. j \in Stay(c, new)
    BY <1>2, <2>2
  <2>6. Out(c, new, Len(new) + Stays(c, new, j)) = c[j]
    BY <1>2, <2>5, OutIs
  <2>7. QED
    BY <1>1, <2>4, <2>6
<1>5. QED
  BY <1>3, <1>4

\* The states of the loop of push, place by place.
Loop(c, new, k, s) ==
    /\ s[0] = [cache |-> c, queue |-> new]
    /\ \A i \in 1 .. k : s[i] = PushAt(s[i - 1], i, new)

\* It runs as far as any place.
LEMMA LoopRuns ==
    ASSUME NEW c, NEW new, NEW n \in Nat
    PROVE  \A k \in 0 .. n : \E s : Loop(c, new, k, s)
<1> DEFINE T == {k \in 1 .. n : ~ \E s : Loop(c, new, k, s)}
           b == [cache |-> c, queue |-> new]
<1>1. \E s : Loop(c, new, 0, s)
  <2> DEFINE s == [i \in 0 .. 0 |-> b]
  <2>1. s[0] = b
    OBVIOUS
  <2> HIDE DEF s
  <2>2. Loop(c, new, 0, s)
    BY <2>1 DEF Loop
  <2>3. QED
    BY <2>2
<1>2. ASSUME T # {} PROVE FALSE
  <2>1. PICK k \in T : \A j \in T : k <= j
    <3>1. T \subseteq 1 .. n
      OBVIOUS
    <3> HIDE DEF T
    <3>2. Min(T) \in T /\ \A j \in T : Min(T) <= j
      BY <1>2, <3>1, LeastPlace
    <3>3. QED
      BY <3>2
  <2>2. PICK h \in 0 .. n : k = h + 1 /\ h \notin T
    <3>1. k \in 1 .. n /\ k - 1 \in 0 .. n /\ k = (k - 1) + 1 /\ ~(k <= k - 1)
      OBVIOUS
    <3>2. k - 1 \notin T
      BY <2>1, <3>1
    <3>3. QED
      BY <3>1, <3>2
  <2>3. PICK s : Loop(c, new, h, s)
    <3>1. h = 0 \/ h \in 1 .. n
      OBVIOUS
    <3>2. QED
      BY <1>1, <2>2, <3>1
  <2> DEFINE r == [i \in 0 .. k |-> IF i = k THEN PushAt(s[h], k, new) ELSE s[i]]
  <2>4. /\ r[k] = PushAt(s[h], k, new)
        /\ \A i \in 0 .. h : r[i] = s[i]
    BY <2>2
  <2> HIDE DEF r
  <2>5. r[0] = b
    BY <2>3, <2>4 DEF Loop
  <2>6. ASSUME NEW i \in 1 .. k PROVE r[i] = PushAt(r[i - 1], i, new)
    <3>1. CASE i = k
      <4>1. i - 1 = h /\ h \in 0 .. h
        BY <2>2, <3>1
      <4>2. QED
        BY <2>4, <3>1, <4>1
    <3>2. CASE i # k
      <4>1. i \in 1 .. h /\ i \in 0 .. h /\ i - 1 \in 0 .. h
        BY <2>2, <3>2
      <4>2. QED
        BY <2>3, <2>4, <4>1 DEF Loop
    <3>3. QED
      BY <3>1, <3>2
  <2>7. Loop(c, new, k, r)
    BY <2>5, <2>6 DEF Loop
  <2>8. QED
    BY <2>7
<1>3. ASSUME NEW k \in 0 .. n PROVE \E s : Loop(c, new, k, s)
  <2>1. k = 0 \/ k \in 1 .. n
    OBVIOUS
  <2>2. QED
    BY <1>1, <1>2, <2>1
<1>4. QED
  BY <1>3

\* push is the loop run over the cache.
LEMMA PushLoop ==
    ASSUME NEW c, NEW last, NEW sig
    PROVE  \E s : /\ Loop(c, Append(last, sig), CacheSize, s)
                  /\ Push(c, last, sig) = s[CacheSize].cache
<1> DEFINE new == Append(last, sig)
           b == [cache |-> c, queue |-> new]
           pushed[i \in 0 .. CacheSize] ==
               IF i = 0 THEN b ELSE PushAt(pushed[i - 1], i, new)
<1>1. CacheSize \in Nat /\ CacheSize \in 0 .. CacheSize /\ 0 \in 0 .. CacheSize
  BY BoundAssumption
<1>2. PICK s : Loop(c, new, CacheSize, s)
  BY <1>1, LoopRuns
<1> DEFINE r == [i \in 0 .. CacheSize |-> s[i]]
<1>3. r = [i \in 0 .. CacheSize |-> IF i = 0 THEN b ELSE PushAt(r[i - 1], i, new)]
  <2> HIDE DEF b, new
  <2>1. ASSUME NEW i \in 0 .. CacheSize
        PROVE  r[i] = IF i = 0 THEN b ELSE PushAt(r[i - 1], i, new)
    <3>1. CASE i = 0
      BY <1>2, <3>1 DEF Loop, b
    <3>2. CASE i # 0
      <4>1. i \in 1 .. CacheSize /\ i - 1 \in 0 .. CacheSize
        BY <1>1, <3>2
      <4>2. r[i] = s[i] /\ r[i - 1] = s[i - 1]
        BY <4>1
      <4> HIDE DEF r
      <4>3. QED
        BY <1>2, <3>2, <4>1, <4>2 DEF Loop
    <3>3. QED
      BY <3>1, <3>2
  <2>2. r = [i \in 0 .. CacheSize |-> r[i]]
    OBVIOUS
  <2> HIDE DEF r
  <2>3. QED
    BY <2>1, <2>2
<1> HIDE DEF r, b, new
<1>4. pushed = [i \in 0 .. CacheSize |-> IF i = 0 THEN b ELSE PushAt(pushed[i - 1], i, new)]
  BY <1>3
<1> HIDE DEF pushed
<1>5. /\ pushed[0] = b
      /\ \A i \in 1 .. CacheSize : pushed[i] = PushAt(pushed[i - 1], i, new)
  BY <1>1, <1>4
<1>6. Loop(c, new, CacheSize, pushed)
  BY <1>5 DEF Loop, b
<1>7. Push(c, last, sig) = pushed[CacheSize].cache
  BY DEF Push, pushed, b, new
<1>8. QED
  BY <1>6, <1>7 DEF new

\* What the loop has made of a cache c up to a place i: what comes out is in
\* place so far, and the queue holds what comes next.
Filled(c, new, d, i) ==
    /\ d \in Caches
    /\ \A j \in 1 .. CacheSize : d[j] = IF j <= i THEN Out(c, new, j) ELSE c[j]
    /\ \A j \in 1 .. i : d[j] # Null
Ahead(c, new, t, i) ==
    /\ Filled(c, new, t.cache, i)
    /\ t.queue \in Seq(Sigs) /\ Len(t.queue) + i = Len(new) + Stays(c, new, i)
    /\ \A q \in 1 .. Len(t.queue) : t.queue[q] = Out(c, new, i + Len(t.queue) + 1 - q)

\* Or it was through at a place e.
Through(c, new, t) ==
    /\ t.queue = << >>
    /\ \E e \in 1 .. CacheSize :
          Len(new) + Stays(c, new, e) = e /\ Filled(c, new, t.cache, e)

\* Before its first step.
LEMMA AheadStart ==
    ASSUME NEW c \in Caches, NEW new, News(new)
    PROVE  Ahead(c, new, [cache |-> c, queue |-> new], 0)
<1> DEFINE t == [cache |-> c, queue |-> new]
<1>1. t.cache = c /\ t.queue = new
  OBVIOUS
<1>2. PICK n \in Nat : n = Len(new)
  BY DEF News
<1>3. Filled(c, new, c, 0)
  <2>1. \A j \in 1 .. CacheSize : ~(j <= 0)
    OBVIOUS
  <2>2. \A j \in 1 .. 0 : FALSE
    OBVIOUS
  <2>3. QED
    BY <2>1, <2>2 DEF Filled
<1>4. new \in Seq(Sigs) /\ Len(new) + 0 = Len(new) + Stays(c, new, 0)
  BY <1>2, StaysNext DEF News
<1>5. ASSUME NEW q \in 1 .. n PROVE new[q] = Out(c, new, 0 + n + 1 - q)
  <2>1. PICK x \in 1 .. n : x = 0 + n + 1 - q /\ n + 1 - x = q
    <3>1. 0 + n + 1 - q \in 1 .. n /\ n + 1 - (0 + n + 1 - q) = q
      OBVIOUS
    <3>2. QED
      BY <3>1
  <2>2. Out(c, new, x) = new[n + 1 - x]
    BY <1>2, OutIs
  <2>3. QED
    BY <2>1, <2>2
<1> HIDE DEF t
<1>6. QED
  BY <1>1, <1>2, <1>3, <1>4, <1>5 DEF Ahead, t

\* What there is at a place that is filled next.
LEMMA FilledNext ==
    ASSUME NEW c \in Caches, NEW new, NEW i \in Nat, i + 1 <= CacheSize, NEW d,
           Filled(c, new, d, i), NEW x \in Sigs, x = Out(c, new, i + 1)
    PROVE  Filled(c, new, [d EXCEPT ![i + 1] = x], i + 1) /\ d[i + 1] = c[i + 1]
<1> DEFINE g == [d EXCEPT ![i + 1] = x]
<1>1. i + 1 \in 1 .. CacheSize /\ d \in Caches /\ x # Null
  BY BoundAssumption, NullAssumption DEF Filled
<1>2. g \in Caches /\ g[i + 1] = x /\ \A j \in 1 .. CacheSize : j # i + 1 => g[j] = d[j]
  BY <1>1 DEF Caches
<1> HIDE DEF g
<1>3. ASSUME NEW j \in 1 .. CacheSize
      PROVE  g[j] = IF j <= i + 1 THEN Out(c, new, j) ELSE c[j]
  <2>1. CASE j = i + 1
    BY <1>2, <2>1
  <2>2. CASE j # i + 1
    <3>1. j <= i + 1 <=> j <= i
      BY <2>2
    <3>2. QED
      BY <1>2, <2>2, <3>1 DEF Filled
  <2>3. QED
    BY <2>1, <2>2
<1>4. ASSUME NEW j \in 1 .. i + 1 PROVE g[j] # Null
  <2>1. CASE j = i + 1
    BY <1>1, <1>2, <2>1
  <2>2. CASE j # i + 1
    <3>1. j \in 1 .. i /\ j \in 1 .. CacheSize
      BY <2>2, BoundAssumption
    <3>2. QED
      BY <1>2, <2>2, <3>1 DEF Filled
  <2>3. QED
    BY <2>1, <2>2
<1>5. d[i + 1] = c[i + 1]
  <2>1. ~(i + 1 <= i)
    OBVIOUS
  <2>2. QED
    BY <1>1, <2>1 DEF Filled
<1>6. QED
  BY <1>2, <1>3, <1>4, <1>5 DEF Filled, g

\* One step of the loop.
LEMMA AheadStep ==
    ASSUME NEW c, Proper(c), NEW new, News(new), NEW i \in Nat, i + 1 <= CacheSize,
           NEW t, Ahead(c, new, t, i)
    PROVE  \/ Ahead(c, new, PushAt(t, i + 1, new), i + 1)
           \/ Through(c, new, PushAt(t, i + 1, new))
<1> DEFINE q == t.queue
           d == t.cache
<1>1. PICK n \in Nat, k \in Nat, m \in Nat :
         /\ n = Len(new) /\ n >= 1 /\ k = Stays(c, new, i) /\ m = Len(q) /\ m + i = n + k
  <2>1. Stays(c, new, i) \in Nat
    BY StaysNext
  <2>2. q \in Seq(Sigs) /\ Len(q) + i = Len(new) + Stays(c, new, i)
    BY DEF Ahead
  <2>3. Len(q) \in Nat /\ Len(new) \in Nat /\ Len(new) >= 1
    BY <2>2 DEF News
  <2>4. QED
    BY <2>1, <2>2, <2>3
<1>2. c \in Caches /\ q \in Seq(Sigs) /\ Filled(c, new, d, i)
      /\ \A x \in 1 .. m : q[x] = Out(c, new, i + m + 1 - x)
  BY <1>1 DEF Proper, Ahead
<1>6. m + i = n + k
  BY <1>1
<1>3. CASE q = << >>
  <2>1. m = 0
    BY <1>1, <1>3
  <2>2. i # 0
    BY <1>1, <2>1, StaysNext
  <2>3. i \in 1 .. CacheSize /\ n + k = i
    BY <1>1, <2>1, <2>2, BoundAssumption
  <2>4. PushAt(t, i + 1, new) = t
    BY <1>3 DEF PushAt
  <2>5. QED
    BY <1>1, <1>2, <1>3, <2>3, <2>4 DEF Through
<1>4. CASE q # << >>
  <2>1. m >= 1 /\ m \in 1 .. m /\ q[m] \in Sigs
    BY <1>1, <1>2, <1>4
  <2>2. q[m] = Out(c, new, i + 1)
    <3>1. i + m + 1 - m = i + 1
      OBVIOUS
    <3>2. QED
      BY <1>2, <2>1, <3>1
  <2> DEFINE g == [d EXCEPT ![i + 1] = q[m]]
             b == Front(q)
             y == c[i + 1]
  <2>3. Filled(c, new, g, i + 1) /\ d[i + 1] = y
    <3>1. PICK x \in Sigs : x = q[m]
      BY <2>1
    <3>2. Filled(c, new, [d EXCEPT ![i + 1] = x], i + 1) /\ d[i + 1] = c[i + 1]
      BY <1>2, <2>2, <3>1, FilledNext
    <3>3. QED
      BY <3>1, <3>2
  <2>4. PICK h \in Nat :
           /\ m = h + 1 /\ b \in Seq(Sigs) /\ Len(b) = h
           /\ \A x \in 1 .. h : b[x] = q[x]
    <3>1. m - 1 \in Nat /\ m = (m - 1) + 1 /\ b = SubSeq(q, 1, m - 1)
      BY <1>1, <2>1 DEF Front
    <3>2. PICK h \in Nat : h = m - 1
      BY <3>1
    <3>3. b \in Seq(Sigs) /\ Len(b) = h /\ \A x \in 1 .. h : b[x] = q[x]
      <4>1. b = SubSeq(q, 1, h) /\ h <= Len(q)
        BY <1>1, <3>1, <3>2
      <4> HIDE DEF b, q
      <4>2. QED
        BY <1>2, <4>1
    <3>4. QED
      BY <3>1, <3>2, <3>3
  <2>5. i + 1 \in 1 .. CacheSize
    BY BoundAssumption
  <2>9. PushAt(t, i + 1, new) =
           [cache |-> g,
            queue |-> IF y = Null \/ Contains(new, y) THEN b ELSE <<y>> \o b]
    <3>1. PushAt(t, i + 1, new) =
             [cache |-> [d EXCEPT ![i + 1] = q[Len(q)]],
              queue |-> IF d[i + 1] = Null \/ Contains(new, d[i + 1]) THEN b
                        ELSE <<d[i + 1]>> \o b]
      BY <1>4 DEF PushAt
    <3>2. Len(q) = m /\ d[i + 1] = y
      BY <1>1, <2>3
    <3> HIDE DEF b, y, q, d
    <3>3. QED
      BY <3>1, <3>2
  <2>6. CASE y = Null \/ Contains(new, y)
    <3>1. i + 1 \notin Stay(c, new)
      BY <2>6 DEF Stay
    <3>2. Stays(c, new, i + 1) = k
      BY <1>1, <3>1, StaysNext
    <3> HIDE DEF g, b, y
    <3>3. PushAt(t, i + 1, new) = [cache |-> g, queue |-> b]
      BY <2>6, <2>9
    <3>4. ASSUME NEW x \in 1 .. h PROVE b[x] = Out(c, new, (i + 1) + h + 1 - x)
      <4>1. x \in 1 .. m /\ (i + 1) + h + 1 - x = i + m + 1 - x
        BY <2>4
      <4>2. QED
        BY <1>2, <2>4, <4>1
    <3>5. h + (i + 1) = n + k
      BY <1>1, <2>4
    <3> DEFINE s == [cache |-> g, queue |-> b]
    <3>6. s.cache = g /\ s.queue = b
      OBVIOUS
    <3> HIDE DEF s
    <3>7. Ahead(c, new, s, i + 1)
      BY <1>1, <2>3, <2>4, <3>2, <3>4, <3>5, <3>6 DEF Ahead
    <3>8. QED
      BY <3>3, <3>7 DEF s
  <2>7. CASE ~(y = Null \/ Contains(new, y))
    <3> DEFINE a == <<y>> \o b
    <3>1. i + 1 \in Stay(c, new)
      BY <2>5, <2>7 DEF Stay
    <3>2. Stays(c, new, i + 1) = k + 1
      BY <1>1, <3>1, StaysNext
    <3>3. PushAt(t, i + 1, new) = [cache |-> g, queue |-> a]
      BY <2>7, <2>9
    <3>4. y \in Sigs /\ Out(c, new, n + (k + 1)) = y
      BY <1>1, <1>2, <3>1, <3>2, OutIs
    <3>5. /\ a \in Seq(Sigs) /\ Len(a) = m /\ a[1] = y
          /\ \A x \in 1 .. m : x # 1 => x - 1 \in 1 .. h /\ a[x] = b[x - 1]
      <4> HIDE DEF y, b
      <4>1. a \in Seq(Sigs) /\ Len(a) = m /\ a[1] = y
        BY <2>4, <3>4
      <4>2. ASSUME NEW x \in 1 .. m, x # 1 PROVE x - 1 \in 1 .. h /\ a[x] = b[x - 1]
        BY <2>4, <3>4, <4>2
      <4>3. QED
        BY <4>1, <4>2
    <3> HIDE DEF a
    <3>6. ASSUME NEW x \in 1 .. m PROVE a[x] = Out(c, new, (i + 1) + m + 1 - x)
      <4>1. CASE x = 1
        <5>1. (i + 1) + m + 1 - x = n + (k + 1)
          BY <1>6, <4>1
        <5>2. QED
          BY <3>4, <3>5, <4>1, <5>1
      <4>2. CASE x # 1
        <5>1. x - 1 \in 1 .. h /\ x - 1 \in 1 .. m /\ a[x] = q[x - 1]
          BY <2>4, <3>5, <4>2
        <5>2. (i + 1) + m + 1 - x = i + m + 1 - (x - 1)
          OBVIOUS
        <5>3. QED
          BY <1>2, <5>1, <5>2
      <4>3. QED
        BY <4>1, <4>2
    <3>7. m + (i + 1) = n + (k + 1)
      BY <1>6
    <3> DEFINE s == [cache |-> g, queue |-> a]
    <3>8. s.cache = g /\ s.queue = a
      OBVIOUS
    <3> HIDE DEF s, g
    <3>9. Ahead(c, new, s, i + 1)
      BY <1>1, <2>3, <3>2, <3>5, <3>6, <3>7, <3>8 DEF Ahead
    <3>10. QED
      BY <3>3, <3>9 DEF s
  <2>8. QED
    BY <2>6, <2>7
<1>5. QED
  BY <1>3, <1>4

\* All of them.
LEMMA LoopEnds ==
    ASSUME NEW c, Proper(c), NEW new, News(new), NEW s, Loop(c, new, CacheSize, s)
    PROVE  Ahead(c, new, s[CacheSize], CacheSize) \/ Through(c, new, s[CacheSize])
<1> DEFINE Good(i) == Ahead(c, new, s[i], i) \/ Through(c, new, s[i])
           T == {i \in 1 .. CacheSize : ~Good(i)}
<1>1. CacheSize \in Nat /\ CacheSize \in 1 .. CacheSize
  BY BoundAssumption
<1>2. Good(0)
  BY AheadStart DEF Loop, Proper
<1>3. ASSUME NEW i \in Nat, i + 1 <= CacheSize, Good(i) PROVE Good(i + 1)
  <2>1. s[i + 1] = PushAt(s[i], i + 1, new)
    <3>1. i + 1 \in 1 .. CacheSize /\ (i + 1) - 1 = i
      BY <1>1, <1>3
    <3>2. QED
      BY <3>1 DEF Loop
  <2>2. CASE Ahead(c, new, s[i], i)
    BY <1>3, <2>1, <2>2, AheadStep
  <2>3. CASE Through(c, new, s[i])
    BY <2>1, <2>3 DEF Through, PushAt
  <2>4. QED
    BY <1>3, <2>2, <2>3
<1> HIDE DEF Good
<1>4. ASSUME T # {} PROVE FALSE
  <2>1. PICK k \in T : \A j \in T : k <= j
    <3>1. T \subseteq 1 .. CacheSize
      OBVIOUS
    <3> HIDE DEF T
    <3>2. Min(T) \in T /\ \A j \in T : Min(T) <= j
      BY <1>1, <1>4, <3>1, LeastPlace
    <3>3. QED
      BY <3>2
  <2>2. PICK h \in Nat : k = h + 1 /\ h + 1 <= CacheSize /\ (h = 0 \/ h \in 1 .. CacheSize)
    <3>1. k \in 1 .. CacheSize
      OBVIOUS
    <3>2. k - 1 \in Nat /\ k = (k - 1) + 1
      BY <3>1
    <3>3. PICK h \in Nat : k = h + 1
      BY <3>2
    <3>4. QED
      BY <1>1, <3>1, <3>3
  <2>3. h \notin T
    BY <2>1, <2>2
  <2>4. Good(h)
    BY <1>2, <2>2, <2>3
  <2>5. QED
    BY <1>3, <2>2, <2>4
<1>5. QED
  BY <1>1, <1>4 DEF Good

\* push makes of a cache what a vanilla client makes of it, and a cache
\* without holes again in which nothing comes twice (sigCache.push).
LEMMA PushIsPushed ==
    ASSUME NEW c, Proper(c), NEW last, NEW sig, News(Append(last, sig))
    PROVE  Push(c, last, sig) = Pushed(c, last, sig) /\ Proper(Push(c, last, sig))
<1>1. PICK new : new = Append(last, sig) /\ News(new)
  OBVIOUS
<1>2. PICK s : Loop(c, new, CacheSize, s) /\ Push(c, last, sig) = s[CacheSize].cache
  BY <1>1, PushLoop
<1>3. PICK d : d = s[CacheSize].cache
  OBVIOUS
<1>4. CacheSize \in Nat
  BY BoundAssumption
<1>5. \E e \in 1 .. CacheSize :
         /\ Filled(c, new, d, e)
         /\ e = CacheSize \/ Len(new) + Stays(c, new, e) = e
  <2>1. CASE Ahead(c, new, s[CacheSize], CacheSize)
    <3>1. CacheSize \in 1 .. CacheSize
      BY BoundAssumption
    <3>2. QED
      BY <1>3, <2>1, <3>1 DEF Ahead
  <2>2. CASE Through(c, new, s[CacheSize])
    BY <1>3, <2>2 DEF Through
  <2>3. QED
    BY <1>1, <1>2, <2>1, <2>2, LoopEnds
<1>6. PICK e \in 1 .. CacheSize :
         /\ Filled(c, new, d, e)
         /\ e = CacheSize \/ Len(new) + Stays(c, new, e) = e
  BY <1>5
<1>7. ASSUME NEW j \in 1 .. CacheSize PROVE d[j] = Out(c, new, j)
  <2>1. CASE j <= e
    BY <1>6, <2>1 DEF Filled
  <2>2. CASE ~(j <= e)
    <3>1. j \in e + 1 .. CacheSize /\ e # CacheSize
      BY <1>4, <2>2
    <3>2. Out(c, new, j) = c[j]
      BY <1>1, <1>6, <3>1, Unmoved
    <3>3. QED
      BY <1>6, <2>2, <3>2 DEF Filled
  <2>3. QED
    BY <2>1, <2>2
<1>8. d \in Caches
  BY <1>6 DEF Filled
<1>9. d = Pushed(c, last, sig)
  <2>1. Pushed(c, last, sig) = [j \in 1 .. CacheSize |-> Out(c, new, j)]
    BY <1>1, PushedOut
  <2>2. d = [j \in 1 .. CacheSize |-> d[j]]
    BY <1>8 DEF Caches
  <2>3. QED
    BY <1>7, <2>1, <2>2
<1>10. Compact(d)
  <2> SUFFICES ASSUME NEW i \in 1 .. CacheSize, NEW j \in 1 .. CacheSize, i < j, d[j] # Null
               PROVE  d[i] # Null
    BY DEF Compact
  <2>1. CASE i <= e
    <3>1. i \in 1 .. e
      BY <2>1
    <3>2. QED
      BY <1>6, <3>1 DEF Filled
  <2>2. CASE ~(i <= e)
    <3>1. ~(j <= e)
      BY <2>2
    <3>2. d[i] = c[i] /\ d[j] = c[j]
      BY <1>6, <2>2, <3>1 DEF Filled
    <3>3. QED
      BY <3>2 DEF Proper, Compact
  <2>3. QED
    BY <2>1, <2>2
<1>11. Unlike(d)
  <2> SUFFICES ASSUME NEW i \in 1 .. CacheSize, NEW j \in 1 .. CacheSize, d[i] = d[j], d[i] # Null
               PROVE  i = j
    BY DEF Unlike
  <2>1. Out(c, new, i) = Out(c, new, j) /\ Out(c, new, i) # Null
    BY <1>7
  <2>2. i \in Nat \ {0} /\ j \in Nat \ {0}
    OBVIOUS
  <2>3. QED
    BY <1>1, <2>1, <2>2, OutUnlike
<1>12. QED
  BY <1>2, <1>3, <1>8, <1>9, <1>10, <1>11 DEF Proper

----------------------------------------------------------------------------
(* The cache of the client.                                                *)
Propers == {c \in Caches : Proper(c)}

\* A packed signature stands, in a cache, for the one that is meant.
Resolved(c, packed, sig) == IF packed.id = 0 THEN packed.full = sig ELSE c[packed.id] = sig

\* What a packet is to the client whose cache is c, and the cache it leaves.
Finds(c, p) ==
    /\ p.type = "message" =>
          /\ News(Append(p.last, p.sig))
          /\ \A i \in DOMAIN p.last : Resolved(c, p.packed[i], p.last[i])
    /\ p.type = "delete" => Resolved(c, p.packed, p.sig)
Leaves(c, p) == IF p.type = "message" THEN Pushed(c, p.last, p.sig) ELSE c

\* The packets of q, each as the client finds it, make a cache of another.
Caching(d, first, q, final) ==
    /\ d[0] = first /\ d[Len(q)] = final
    /\ \A j \in 1 .. Len(q) : Finds(d[j - 1], q[j]) /\ d[j] = Leaves(d[j - 1], q[j])
CachesTo(first, q, final) == \E d \in [0 .. Len(q) -> Propers] : Caching(d, first, q, final)

\* What is packed stands for what it was made of (sigCache.pack).
LEMMA PackResolves ==
    ASSUME NEW c, NEW sig
    PROVE  Resolved(c, Pack(c, sig), sig)
<1> DEFINE at == {i \in 1 .. CacheSize : c[i] = sig}
           id == CHOOSE i \in at : \A j \in at : i <= j
<1>1. CASE at = {}
  <2>1. Pack(c, sig) = [id |-> 0, full |-> sig]
    BY <1>1 DEF Pack
  <2>2. QED
    BY <2>1 DEF Resolved
<1>2. CASE at # {}
  <2>1. Pack(c, sig) = [id |-> id, full |-> Null]
    BY <1>2 DEF Pack
  <2>2. id \in at
    <3>1. CacheSize \in Nat /\ at \subseteq 1 .. CacheSize
      BY BoundAssumption
    <3> HIDE DEF at
    <3>2. Min(at) \in at /\ \A j \in at : Min(at) <= j
      BY <1>2, <3>1, LeastPlace
    <3>3. QED
      BY <3>2
  <2>3. id # 0 /\ c[id] = sig
    <3>1. id \in 1 .. CacheSize /\ c[id] = sig
      BY <2>2
    <3>2. CacheSize \in Nat
      BY BoundAssumption
    <3> HIDE DEF id
    <3>3. QED
      BY <3>1, <3>2
  <2> HIDE DEF id
  <2>4. Pack(c, sig).id = id
    BY <2>1
  <2>5. QED
    BY <2>3, <2>4 DEF Resolved
<1>3. QED
  BY <1>1, <1>2

\* A cache that a packet leaves is as it should be.
LEMMA LeavesProper ==
    ASSUME NEW c \in Propers, NEW p, Finds(c, p)
    PROVE  Leaves(c, p) \in Propers
<1>1. Proper(c)
  BY DEF Propers
<1>2. CASE p.type = "message"
  <2>1. News(Append(p.last, p.sig))
    BY <1>2 DEF Finds
  <2>2. /\ Push(c, p.last, p.sig) = Pushed(c, p.last, p.sig)
        /\ Proper(Push(c, p.last, p.sig))
    BY <1>1, <2>1, PushIsPushed
  <2>3. QED
    BY <1>2, <2>2 DEF Leaves, Propers, Proper
<1>3. CASE p.type # "message"
  BY <1>3 DEF Leaves
<1>4. QED
  BY <1>2, <1>3

\* An empty cache is one.
LEMMA EmptyProper == Empty \in Propers
<1>1. \A i \in 1 .. CacheSize : Empty[i] = Null
  BY DEF Empty
<1>2. Empty \in Caches
  BY DEF Empty, Caches
<1>3. QED
  BY <1>1, <1>2 DEF Propers, Proper, Compact, Unlike

\* Nothing under way.
LEMMA CachesEmpty ==
    ASSUME NEW c \in Propers
    PROVE  CachesTo(c, << >>, c)
<1> DEFINE d == [j \in 0 .. 0 |-> c]
<1>1. d \in [0 .. Len(<< >>) -> Propers] /\ Len(<< >>) = 0
  OBVIOUS
<1>2. /\ \A j \in 0 .. 0 : d[j] = c
      /\ \A j \in 1 .. 0 : FALSE
      /\ 0 \in 0 .. 0
  OBVIOUS
<1> HIDE DEF d
<1>3. Caching(d, c, << >>, c)
  BY <1>1, <1>2 DEF Caching
<1>4. QED
  BY <1>1, <1>3 DEF CachesTo

\* What there is to know of the ends.
LEMMA CachesBounds ==
    ASSUME NEW first, NEW S, NEW q \in Seq(S), NEW final, CachesTo(first, q, final)
    PROVE  first \in Propers /\ final \in Propers
<1>1. PICK d \in [0 .. Len(q) -> Propers] : Caching(d, first, q, final)
  BY DEF CachesTo
<1>2. Len(q) \in Nat /\ 0 \in 0 .. Len(q) /\ Len(q) \in 0 .. Len(q)
  OBVIOUS
<1>3. QED
  BY <1>1, <1>2 DEF Caching

\* The client reads the next packet.
LEMMA CachesTail ==
    ASSUME NEW first, NEW S, NEW q \in Seq(S), NEW final, CachesTo(first, q, final),
           q # << >>
    PROVE  Finds(first, Head(q)) /\ CachesTo(Leaves(first, Head(q)), Tail(q), final)
<1>1. PICK d \in [0 .. Len(q) -> Propers] : Caching(d, first, q, final)
  BY DEF CachesTo
<1> DEFINE v == Tail(q)
           r == [j \in 0 .. Len(v) |-> d[j + 1]]
<1>2. PICK n \in Nat :
         /\ Len(q) = n + 1 /\ Head(q) = q[1] /\ v \in Seq(S) /\ Len(v) = n
         /\ \A i \in 1 .. n : v[i] = q[i + 1]
         /\ v = << >> <=> n = 0
  BY TailPlaces
<1> HIDE DEF v
<1>3. /\ r \in [0 .. Len(v) -> Propers]
      /\ \A j \in 0 .. n : r[j] = d[j + 1]
  <2>1. \A j \in 0 .. n : j + 1 \in 0 .. Len(q)
    BY <1>2
  <2>2. QED
    BY <1>2, <2>1
<1> HIDE DEF r
<1>4. Finds(first, Head(q)) /\ r[0] = Leaves(first, Head(q))
  <2>1. 1 \in 1 .. Len(q) /\ 1 - 1 = 0
    BY <1>2
  <2>2. Finds(d[0], q[1]) /\ d[1] = Leaves(d[0], q[1]) /\ d[0] = first
    BY <1>1, <2>1 DEF Caching
  <2>3. r[0] = d[1]
    BY <1>3
  <2>4. QED
    BY <1>2, <2>2, <2>3
<1>5. r[n] = final
  BY <1>1, <1>2, <1>3 DEF Caching
<1>6. ASSUME NEW j \in 1 .. n
      PROVE  Finds(r[j - 1], v[j]) /\ r[j] = Leaves(r[j - 1], v[j])
  <2>1. j + 1 \in 1 .. Len(q) /\ (j + 1) - 1 = j /\ j - 1 \in 0 .. n /\ (j - 1) + 1 = j
        /\ j \in 0 .. n
    BY <1>2
  <2>2. Finds(d[j], q[j + 1]) /\ d[j + 1] = Leaves(d[j], q[j + 1])
    BY <1>1, <2>1 DEF Caching
  <2>3. r[j - 1] = d[j] /\ r[j] = d[j + 1]
    BY <1>3, <2>1
  <2>4. QED
    BY <1>2, <2>2, <2>3
<1>7. Caching(r, Leaves(first, Head(q)), v, final)
  BY <1>2, <1>4, <1>5, <1>6 DEF Caching
<1>8. QED
  BY <1>3, <1>4, <1>7 DEF CachesTo, v

\* One packet more.
LEMMA CachesAppend ==
    ASSUME NEW first, NEW S, NEW q \in Seq(S), NEW final, CachesTo(first, q, final),
           NEW p \in S, Finds(final, p)
    PROVE  CachesTo(first, Append(q, p), Leaves(final, p))
<1>1. PICK d \in [0 .. Len(q) -> Propers] : Caching(d, first, q, final)
  BY DEF CachesTo
<1>2. PICK n \in Nat : n = Len(q)
  OBVIOUS
<1> DEFINE v == Append(q, p)
           m == Leaves(final, p)
           r == [j \in 0 .. Len(v) |-> IF j = n + 1 THEN m ELSE d[j]]
<1>3. /\ v \in Seq(S) /\ Len(v) = n + 1 /\ v[n + 1] = p
      /\ \A j \in 1 .. n : v[j] = q[j]
  BY <1>2
<1>4. m \in Propers
  BY CachesBounds, LeavesProper
<1> HIDE DEF v, m
<1>5. /\ r \in [0 .. Len(v) -> Propers] /\ r[n + 1] = m
      /\ \A j \in 0 .. n : r[j] = d[j] /\ d[j] \in Propers
  <2>1. \A j \in 0 .. n : d[j] \in Propers
    BY <1>2
  <2>2. QED
    BY <1>3, <1>4, <2>1
<1> HIDE DEF r
<1>6. r[0] = first
  BY <1>1, <1>5 DEF Caching
<1>7. ASSUME NEW j \in 1 .. n + 1
      PROVE  Finds(r[j - 1], v[j]) /\ r[j] = Leaves(r[j - 1], v[j])
  <2>1. j - 1 \in 0 .. n
    OBVIOUS
  <2>2. CASE j = n + 1
    <3>1. r[j - 1] = final
      BY <1>1, <1>2, <1>5, <2>1, <2>2 DEF Caching
    <3>2. QED
      BY <1>3, <1>5, <2>2, <3>1 DEF m
  <2>3. CASE j # n + 1
    <3>1. j \in 1 .. n /\ j \in 0 .. n
      BY <2>3
    <3>2. Finds(d[j - 1], q[j]) /\ d[j] = Leaves(d[j - 1], q[j])
      BY <1>1, <1>2, <3>1 DEF Caching
    <3>3. r[j - 1] = d[j - 1] /\ r[j] = d[j] /\ v[j] = q[j]
      BY <1>3, <1>5, <2>1, <3>1
    <3>4. QED
      BY <3>2, <3>3
  <2>4. QED
    BY <2>2, <2>3
<1>8. Caching(r, first, v, m)
  BY <1>3, <1>5, <1>6, <1>7 DEF Caching
<1>9. QED
  BY <1>5, <1>8 DEF CachesTo, v, m

----------------------------------------------------------------------------
(* The session and its chain.                                              *)
\* AcceptedInOrder, of any links.
Ordered(acc) ==
    \A i \in 1 .. Len(acc) :
        IF i > 1 /\ acc[i - 1].sid = acc[i].sid THEN acc[i].index = acc[i - 1].index + 1
        ELSE acc[i].index = 0 /\ (i > 1 => acc[i - 1].sid < acc[i].sid)

\* The link of a session that is next, after those.
Ends(acc, sid, next) ==
    next = IF acc # << >> /\ acc[Len(acc)].sid = sid THEN acc[Len(acc)].index + 1 ELSE 0

\* The client kept time, and the tree was never changed under a command.
Fair(tm, tr) == tm = TRUE /\ tr = 0

\* A session se and its chain ch are the client's as it was before the packets
\* of u, and what was accepted is of it or of an older one.  The chain of one
\* that is fair is at the client's next link.
Holds(f, u, final, se, ch, acc, tm, tr) ==
    /\ SignsTo(f, u, final)
    /\ acc \in Seq(Link) /\ Ordered(acc) /\ \A j \in 1 .. Len(acc) : acc[j].sid <= f.top
    /\ (se = Null <=> ch = Null)
    /\ se # Null =>
          /\ se = [sid |-> f.sid, key |-> f.key] /\ f.sid # 0
          /\ ch \in Chains /\ ch.sid = f.sid
          /\ \A j \in 1 .. Len(acc) : acc[j].sid <= ch.sid
          /\ ~ch.broken => Ends(acc, ch.sid, ch.next)
          /\ Fair(tm, tr) => ~ch.broken /\ ch.next = f.link

\* What was accepted are links, number by number.
LEMMA Links ==
    ASSUME NEW acc \in Seq(Link)
    PROVE  \A j \in 1 .. Len(acc) :
              acc[j] \in Link /\ acc[j].sid \in Nat /\ acc[j].index \in Nat
<1>1. \A j \in 1 .. Len(acc) : acc[j] \in Link
  OBVIOUS
<1>2. QED
  BY <1>1 DEF Link

\* A place of two sequences in a row is one of the first or of the second.
LEMMA PlacesInRow ==
    ASSUME NEW n \in Nat, NEW k \in Nat
    PROVE  \A i \in 1 .. n + k : i \in 1 .. n \/ \E j \in 1 .. k : i = n + j
<1> SUFFICES ASSUME NEW i \in 1 .. n + k, i \notin 1 .. n
             PROVE  \E j \in 1 .. k : i = n + j
  OBVIOUS
<1>1. i - n \in 1 .. k /\ i = n + (i - n)
  OBVIOUS
<1>2. QED
  BY <1>1

\* The next links of a session s go on with what was accepted of it.
LEMMA OrderedMore ==
    ASSUME NEW acc \in Seq(Link), Ordered(acc), NEW s \in Nat, NEW x \in Nat,
           \A j \in 1 .. Len(acc) : acc[j].sid <= s, Ends(acc, s, x),
           NEW sigs \in Seq(Link),
           \A i \in 1 .. Len(sigs) : sigs[i].sid = s /\ sigs[i].index = x + i - 1
    PROVE  /\ acc \o sigs \in Seq(Link) /\ Ordered(acc \o sigs)
           /\ \A j \in 1 .. Len(acc \o sigs) : (acc \o sigs)[j].sid <= s
           /\ Ends(acc \o sigs, s, x + Len(sigs))
<1> DEFINE new == acc \o sigs
<1>1. PICK n \in Nat : n = Len(acc)
  OBVIOUS
<1>2. PICK k \in Nat : k = Len(sigs)
  OBVIOUS
<1>4. /\ new \in Seq(Link) /\ Len(new) = n + k
      /\ \A i \in 1 .. n : new[i] = acc[i]
      /\ \A i \in 1 .. k : new[n + i] = sigs[i]
      /\ \A i \in 1 .. n + k : i \in 1 .. n \/ \E j \in 1 .. k : i = n + j
      /\ acc = << >> <=> n = 0
      /\ k = 0 => new = acc
      /\ k # 0 => new # << >>
  <2>1. new \in Seq(Link) /\ Len(new) = n + k
    BY <1>1, <1>2
  <2>2. \A i \in 1 .. n : new[i] = acc[i]
    BY <1>1, <1>2
  <2>3. \A i \in 1 .. k : new[n + i] = sigs[i]
    BY <1>1, <1>2
  <2>4. \A i \in 1 .. n + k : i \in 1 .. n \/ \E j \in 1 .. k : i = n + j
    BY PlacesInRow
  <2>5. acc = << >> <=> n = 0
    BY <1>1
  <2>6. k = 0 => new = acc
    <3>1. \A q \in Seq(Link) : Len(q) = 0 => q = << >>
      OBVIOUS
    <3>2. k = 0 => sigs = << >>
      BY <1>2, <3>1
    <3>3. acc \o << >> = acc
      OBVIOUS
    <3>4. QED
      BY <3>2, <3>3
  <2>7. k # 0 => new # << >>
    <3>1. new = << >> => Len(new) = 0
      OBVIOUS
    <3>2. QED
      BY <2>1, <3>1
  <2>8. QED
    BY <2>1, <2>2, <2>3, <2>4, <2>5, <2>6, <2>7
<1> HIDE DEF new
<1>6. \A i \in 1 .. n : acc[i].sid \in Nat /\ acc[i].index \in Nat /\ acc[i].sid <= s
  BY <1>1, Links
<1>7. \A i \in 1 .. k : new[n + i].sid = s /\ new[n + i].index = x + i - 1
  BY <1>2, <1>4
<1>8. n # 0 => n \in 1 .. n /\ x = IF acc[n].sid = s THEN acc[n].index + 1 ELSE 0
  BY <1>1, <1>4 DEF Ends
<1>9. Ordered(new)
  <2> SUFFICES ASSUME NEW i \in 1 .. n + k
               PROVE  IF i > 1 /\ new[i - 1].sid = new[i].sid
                      THEN new[i].index = new[i - 1].index + 1
                      ELSE new[i].index = 0 /\ (i > 1 => new[i - 1].sid < new[i].sid)
    BY <1>4 DEF Ordered
  <2>1. CASE i \in 1 .. n
    <3>1. new[i] = acc[i]
      BY <1>4, <2>1
    <3>2. i > 1 => i - 1 \in 1 .. n /\ new[i - 1] = acc[i - 1]
      BY <1>4, <2>1
    <3>3. IF i > 1 /\ acc[i - 1].sid = acc[i].sid THEN acc[i].index = acc[i - 1].index + 1
          ELSE acc[i].index = 0 /\ (i > 1 => acc[i - 1].sid < acc[i].sid)
      BY <1>1, <2>1 DEF Ordered
    <3>4. QED
      BY <3>1, <3>2, <3>3
  <2>2. ASSUME NEW j \in 1 .. k, i = n + j
        PROVE  IF i > 1 /\ new[i - 1].sid = new[i].sid
               THEN new[i].index = new[i - 1].index + 1
               ELSE new[i].index = 0 /\ (i > 1 => new[i - 1].sid < new[i].sid)
    <3>1. new[i].sid = s /\ new[i].index = x + j - 1
      BY <1>7, <2>2
    <3>2. CASE j > 1
      <4>1. j - 1 \in 1 .. k /\ i - 1 = n + (j - 1) /\ i > 1
        BY <2>2, <3>2
      <4>2. new[i - 1].sid = s /\ new[i - 1].index = x + (j - 1) - 1
        BY <1>7, <4>1
      <4>3. x + j - 1 = (x + (j - 1) - 1) + 1
        OBVIOUS
      <4>4. new[i].index = new[i - 1].index + 1 /\ new[i - 1].sid = new[i].sid
        BY <3>1, <4>2, <4>3
      <4>5. QED
        BY <4>1, <4>4
    <3>3. CASE j = 1
      <4>1. new[i].index = x
        BY <3>1, <3>3
      <4>2. CASE n = 0
        <5>1. ~(i > 1)
          BY <2>2, <3>3, <4>2
        <5>2. x = 0
          BY <1>4, <4>2 DEF Ends
        <5>3. QED
          BY <4>1, <5>1, <5>2
      <4>3. CASE n # 0
        <5>1. n \in 1 .. n /\ i - 1 = n /\ i > 1
          BY <2>2, <3>3, <4>3
        <5>2. new[i - 1] = acc[n]
          BY <1>4, <5>1
        <5>3. CASE acc[n].sid = s
          <6>1. new[i].index = acc[n].index + 1
            BY <1>8, <4>1, <4>3, <5>3
          <6>2. QED
            BY <3>1, <5>1, <5>2, <5>3, <6>1
        <5>4. CASE acc[n].sid # s
          <6>1. new[i].index = 0
            BY <1>8, <4>1, <4>3, <5>4
          <6>2. acc[n].sid < s
            BY <1>6, <5>1, <5>4
          <6>3. QED
            BY <3>1, <5>1, <5>2, <5>4, <6>1, <6>2
        <5>5. QED
          BY <5>3, <5>4
      <4>4. QED
        BY <4>2, <4>3
    <3>4. QED
      BY <3>2, <3>3
  <2>3. QED
    BY <1>4, <2>1, <2>2
<1>10. \A j \in 1 .. Len(new) : new[j].sid <= s
  <2> SUFFICES ASSUME NEW i \in 1 .. n + k
               PROVE  new[i].sid <= s
    BY <1>4
  <2>1. CASE i \in 1 .. n
    BY <1>4, <1>6, <2>1
  <2>2. ASSUME NEW j \in 1 .. k, i = n + j
        PROVE  new[i].sid <= s
    <3>1. new[i].sid = s
      BY <1>7, <2>2
    <3>2. QED
      BY <3>1
  <2>3. QED
    BY <1>4, <2>1, <2>2
<1>11. Ends(new, s, x + k)
  <2>1. CASE k = 0
    <3>1. new = acc /\ x + k = x
      BY <1>4, <2>1
    <3>2. QED
      BY <3>1
  <2>2. CASE k # 0
    <3>1. k \in 1 .. k /\ new # << >> /\ Len(new) = n + k
      BY <1>4, <2>2
    <3>2. new[n + k].sid = s /\ new[n + k].index = x + k - 1
      BY <1>7, <3>1
    <3>3. x + k = (x + k - 1) + 1
      OBVIOUS
    <3>4. QED
      BY <3>1, <3>2, <3>3 DEF Ends
  <2>3. QED
    BY <2>1, <2>2
<1>12. QED
  BY <1>2, <1>4, <1>9, <1>10, <1>11 DEF new

\* Nothing was signed yet, nothing is under way.
LEMMA HoldsStart ==
    ASSUME NEW f, NEW final, NEW se, NEW ch, NEW acc, NEW tm, NEW tr, NEW tm2, NEW tr2,
           Holds(f, << >>, final, se, ch, acc, tm, tr), NEW k \in Signers, k.top = final.top
    PROVE  Holds(k, << >>, k, Null, Null, acc, tm2, tr2)
<1>1. SignsTo(f, << >>, final)
  BY DEF Holds
<1>2. f = final
  <2>1. << >> \in Seq(Up)
    OBVIOUS
  <2>2. QED
    BY <1>1, <2>1, SignsBounds
<1>3. SignsTo(k, << >>, k)
  BY SignsEmpty
<1>4. QED
  BY <1>2, <1>3 DEF Holds

\* The client sends something.
LEMMA HoldsSay ==
    ASSUME NEW f, NEW u \in Seq(Up), NEW final, NEW se, NEW ch, NEW acc, NEW tm, NEW tr,
           NEW tm2, NEW tr2,
           Holds(f, u, final, se, ch, acc, tm, tr), Fair(tm2, tr2) => Fair(tm, tr),
           NEW p \in Up, Signs(final, p)
    PROVE  Holds(f, Append(u, p), Signed(final, p), se, ch, acc, tm2, tr2)
<1>1. SignsTo(f, u, final)
  BY DEF Holds
<1>2. SignsTo(f, Append(u, p), Signed(final, p))
  BY <1>1, SignsAppend
<1>3. QED
  BY <1>2 DEF Holds

\* What the client sends that is of no session.
LEMMA HoldsOther ==
    ASSUME NEW f, NEW u \in Seq(Up), NEW final, NEW se, NEW ch, NEW acc, NEW tm, NEW tr,
           Holds(f, u, final, se, ch, acc, tm, tr), u # << >>,
           ~Talk(Head(u)), Head(u).type # "session"
    PROVE  Holds(f, Tail(u), final, se, ch, acc, tm, tr)
<1>1. SignsTo(f, u, final)
  BY DEF Holds
<1>2. f \in Signers /\ Head(u) \in Up
  BY <1>1, SignsBounds
<1>3. SignsTo(Signed(f, Head(u)), Tail(u), final) /\ Signed(f, Head(u)) = f
  BY <1>1, <1>2, SignsTail, SignedTyped
<1>4. QED
  BY <1>3 DEF Holds

\* A session is a later one of a later key.
LEMMA HoldsSession ==
    ASSUME NEW f, NEW u \in Seq(Up), NEW final, NEW se, NEW ch, NEW acc, NEW tm, NEW tr,
           Holds(f, u, final, se, ch, acc, tm, tr), u # << >>, Head(u).type = "session"
    PROVE  /\ se # Null => se.key < Head(u).key /\ se.key \in Nat /\ Head(u).key \in Nat
           /\ se = Null => Holds(Signed(f, Head(u)), Tail(u), final, se, ch, acc, tm, tr)
           /\ Holds(Signed(f, Head(u)), Tail(u), final,
                    [sid |-> Head(u).sid, key |-> Head(u).key],
                    [sid |-> Head(u).sid, next |-> 0, broken |-> FALSE], acc, tm, tr)
<1> DEFINE p == Head(u)
           k == Signed(f, p)
<1>1. SignsTo(f, u, final)
  BY DEF Holds
<1>2. f \in Signers /\ p \in Up
  BY <1>1, SignsBounds
<1>3. SignsTo(k, Tail(u), final) /\ Signs(f, p)
  BY <1>1, SignsTail
<1>4. p.sid \in Nat /\ p.key \in Nat /\ p.type = "session"
  BY <1>2, UpFields
<1> HIDE DEF p
<1>5. /\ k \in Signers /\ f.sid \in Nat /\ f.key \in Nat /\ f.top \in Nat /\ f.sid <= f.top
      /\ k.sid = p.sid /\ k.key = p.key /\ k.link = 0 /\ k.top = p.sid
  BY <1>2, <1>4, SignedTyped
<1>6. p.sid = f.top + 1 /\ (f.sid # 0 => f.key < p.key)
  BY <1>3, <1>4 DEF Signs
<1> HIDE DEF k
<1>7. /\ acc \in Seq(Link) /\ Ordered(acc)
      /\ \A j \in 1 .. Len(acc) : acc[j].sid \in Nat /\ acc[j].sid <= f.top
  <2>1. acc \in Seq(Link) /\ Ordered(acc) /\ \A j \in 1 .. Len(acc) : acc[j].sid <= f.top
    BY DEF Holds
  <2>2. \A j \in 1 .. Len(acc) : acc[j].sid \in Nat
    BY <2>1, Links
  <2>3. QED
    BY <2>1, <2>2
<1>8. \A j \in 1 .. Len(acc) : acc[j].sid < p.sid
  BY <1>4, <1>5, <1>6, <1>7
<1>9. \A j \in 1 .. Len(acc) : acc[j].sid <= p.sid
  BY <1>4, <1>7, <1>8
<1>10. ASSUME se # Null
       PROVE  se.key < p.key /\ se.key \in Nat
  <2>1. se = [sid |-> f.sid, key |-> f.key] /\ f.sid # 0
    BY <1>10 DEF Holds
  <2>2. QED
    BY <1>5, <1>6, <2>1
<1>11. ASSUME se = Null
       PROVE  Holds(k, Tail(u), final, se, ch, acc, tm, tr)
  <2>1. ch = Null
    BY <1>11 DEF Holds
  <2>2. QED
    BY <1>3, <1>5, <1>7, <1>9, <1>11, <2>1 DEF Holds
<1>12. Holds(k, Tail(u), final, [sid |-> p.sid, key |-> p.key],
             [sid |-> p.sid, next |-> 0, broken |-> FALSE], acc, tm, tr)
  <2> DEFINE s2 == [sid |-> p.sid, key |-> p.key]
             c2 == [sid |-> p.sid, next |-> 0, broken |-> FALSE]
  <2>1. s2 # Null /\ c2 # Null /\ c2 \in Chains
    <3>1. s2 \in [sid : Nat, key : Nat] /\ c2 \in Chains
      BY <1>4 DEF Chains
    <3> HIDE DEF s2, c2
    <3>2. QED
      BY <3>1, NullAssumption DEF Chains
  <2>2. c2.sid = p.sid /\ c2.next = 0 /\ ~c2.broken
    OBVIOUS
  <2>3. Ends(acc, p.sid, 0)
    <3>1. acc # << >> => Len(acc) \in 1 .. Len(acc)
      BY <1>7
    <3>2. acc # << >> => acc[Len(acc)].sid # p.sid
      BY <1>4, <1>7, <1>8, <3>1
    <3>3. QED
      BY <3>2 DEF Ends
  <2>4. s2 = [sid |-> k.sid, key |-> k.key] /\ k.sid # 0
    BY <1>5, <1>6
  <2> HIDE DEF s2, c2
  <2>5. Holds(k, Tail(u), final, s2, c2, acc, tm, tr)
    BY <1>3, <1>5, <1>7, <1>9, <2>1, <2>2, <2>3, <2>4 DEF Holds
  <2>6. QED
    BY <2>5 DEF s2, c2
<1>13. QED
  BY <1>4, <1>10, <1>11, <1>12 DEF p, k

\* A message: nothing is checked, or it is refused, or its links are accepted.
LEMMA HoldsTalk ==
    ASSUME NEW f, NEW u \in Seq(Up), NEW final, NEW se, NEW ch, NEW acc, NEW tm, NEW tr,
           Holds(f, u, final, se, ch, acc, tm, tr), u # << >>, Talk(Head(u)),
           NEW c2, NEW acc2, NEW seen,
           \/ se = Null /\ c2 = ch /\ acc2 = acc
           \/ /\ se # Null /\ acc2 = acc
              /\ c2 \in Chains /\ c2.sid = ch.sid
              /\ c2.broken \/ c2.next = ch.next
              /\ Fair(tm, tr) => ~c2.broken /\ c2.next = ch.next + Len(Head(u).sigs)
              /\ ~c2.broken => ~ch.broken
           \/ /\ se # Null /\ ~ch.broken /\ acc2 = acc \o Head(u).sigs
              /\ \A i \in 1 .. Len(Head(u).sigs) :
                    Head(u).sigs[i] = LinkOf(ch, i, seen) /\ Head(u).sigs[i] # Null
              /\ c2 = [ch EXCEPT !.next = @ + Len(Head(u).sigs)]
    PROVE  Holds(Signed(f, Head(u)), Tail(u), final, se, c2, acc2, tm, tr)
<1> DEFINE p == Head(u)
           k == Signed(f, p)
<1>1. SignsTo(f, u, final)
  BY DEF Holds
<1>2. f \in Signers /\ p \in Up
  BY <1>1, SignsBounds
<1>3. SignsTo(k, Tail(u), final) /\ Signs(f, p)
  BY <1>1, SignsTail
<1>4. p.sigs \in Seq(Link \cup {Null})
  BY <1>2, UpFields
<1>5. PICK n \in Nat : n = Len(p.sigs)
  BY <1>4
<1>6. /\ k \in Signers /\ k.sid = f.sid /\ k.key = f.key /\ k.top = f.top
      /\ f.sid # 0 => k.link = f.link + n
      /\ f.sid \in Nat /\ f.link \in Nat /\ f.top \in Nat /\ f.sid <= f.top
  BY <1>2, <1>5, SignedTyped
<1>7. /\ acc \in Seq(Link) /\ Ordered(acc)
      /\ \A j \in 1 .. Len(acc) : acc[j].sid \in Nat /\ acc[j].sid <= f.top
      /\ se = Null <=> ch = Null
  <2>1. /\ acc \in Seq(Link) /\ Ordered(acc) /\ \A j \in 1 .. Len(acc) : acc[j].sid <= f.top
        /\ se = Null <=> ch = Null
    BY DEF Holds
  <2>2. \A j \in 1 .. Len(acc) : acc[j].sid \in Nat
    BY <2>1, Links
  <2>3. QED
    BY <2>1, <2>2
<1>8. ASSUME se # Null
      PROVE  /\ se = [sid |-> f.sid, key |-> f.key] /\ f.sid # 0
             /\ ch \in Chains /\ ch.sid = f.sid /\ ch.next \in Nat
             /\ \A j \in 1 .. Len(acc) : acc[j].sid <= ch.sid
             /\ ~ch.broken => Ends(acc, ch.sid, ch.next)
             /\ Fair(tm, tr) => ~ch.broken /\ ch.next = f.link
  BY <1>8 DEF Holds, Chains
<1> HIDE DEF p, k
<1>9. CASE se = Null /\ c2 = ch /\ acc2 = acc
  BY <1>3, <1>6, <1>7, <1>9 DEF Holds, k, p
<1>10. CASE /\ se # Null /\ acc2 = acc
            /\ c2 \in Chains /\ c2.sid = ch.sid
            /\ c2.broken \/ c2.next = ch.next
            /\ Fair(tm, tr) => ~c2.broken /\ c2.next = ch.next + Len(p.sigs)
            /\ ~c2.broken => ~ch.broken
  <2>1. c2 # Null
    BY <1>10, NullAssumption DEF Chains
  <2>2. Fair(tm, tr) => c2.next = k.link
    BY <1>5, <1>6, <1>8, <1>10
  <2>3. ~c2.broken => Ends(acc2, c2.sid, c2.next)
    BY <1>8, <1>10
  <2>4. Holds(k, Tail(u), final, se, c2, acc2, tm, tr)
    BY <1>3, <1>6, <1>7, <1>8, <1>10, <2>1, <2>2, <2>3 DEF Holds
  <2>5. QED
    BY <2>4 DEF k, p
<1>11. CASE /\ se # Null /\ ~ch.broken /\ acc2 = acc \o p.sigs
            /\ \A i \in 1 .. Len(p.sigs) :
                  p.sigs[i] = LinkOf(ch, i, seen) /\ p.sigs[i] # Null
            /\ c2 = [ch EXCEPT !.next = @ + Len(p.sigs)]
  <2>1. /\ ch \in Chains /\ ch.sid = f.sid /\ Ends(acc, ch.sid, ch.next)
        /\ \A j \in 1 .. Len(acc) : acc[j].sid <= ch.sid
    BY <1>8, <1>11
  <2> DEFINE sigs == p.sigs
  <2>a. /\ sigs \in Seq(Link) /\ n = Len(sigs) /\ acc2 = acc \o sigs
        /\ \A i \in 1 .. Len(sigs) : /\ sigs[i].sid = ch.sid
                                     /\ sigs[i].index = ch.next + i - 1
    <3>1. \A i \in 1 .. n : sigs[i] = LinkOf(ch, i, seen) /\ sigs[i] \in Link
      BY <1>4, <1>5, <1>11
    <3>2. sigs \in Seq(Link)
      <4> HIDE DEF sigs
      <4>1. sigs \in Seq(Link \cup {Null}) /\ n = Len(sigs)
        BY <1>4, <1>5 DEF sigs
      <4>2. sigs \in [1 .. n -> Link]
        BY <3>1, <4>1
      <4>3. QED
        BY <4>1, <4>2
    <3>3. \A i \in 1 .. n : sigs[i].sid = ch.sid /\ sigs[i].index = ch.next + i - 1
      BY <2>1, <3>1, LinkTyped
    <3>4. QED
      BY <1>5, <1>11, <3>2, <3>3
  <2> HIDE DEF sigs
  <2>b. ch.sid \in Nat /\ ch.next \in Nat
    BY <2>1 DEF Chains
  <2>2. /\ acc2 \in Seq(Link) /\ Ordered(acc2)
        /\ \A j \in 1 .. Len(acc2) : acc2[j].sid <= ch.sid
        /\ Ends(acc2, ch.sid, ch.next + n)
    <3> DEFINE s == ch.sid
               x == ch.next
    <3>1. /\ acc \in Seq(Link) /\ Ordered(acc) /\ s \in Nat /\ x \in Nat
          /\ \A j \in 1 .. Len(acc) : acc[j].sid <= s
          /\ Ends(acc, s, x) /\ sigs \in Seq(Link)
          /\ \A i \in 1 .. Len(sigs) : sigs[i].sid = s /\ sigs[i].index = x + i - 1
      BY <1>7, <2>1, <2>a, <2>b
    <3> HIDE DEF s, x
    <3>2. /\ acc \o sigs \in Seq(Link) /\ Ordered(acc \o sigs)
          /\ \A j \in 1 .. Len(acc \o sigs) : (acc \o sigs)[j].sid <= s
          /\ Ends(acc \o sigs, s, x + Len(sigs))
      BY <3>1, OrderedMore
    <3>3. acc2 = acc \o sigs /\ n = Len(sigs)
      BY <2>a
    <3>4. QED
      BY <3>2, <3>3 DEF s, x
  <2>3. /\ c2 \in Chains /\ c2.sid = ch.sid /\ c2.next = ch.next + n
        /\ c2.broken = ch.broken
    <3>1. c2 = [ch EXCEPT !.next = @ + n]
      BY <1>5, <1>11
    <3>2. QED
      BY <2>1, <3>1, NextLink
  <2>4. c2 # Null
    BY <2>3, NullAssumption DEF Chains
  <2>5. Fair(tm, tr) => c2.next = k.link
    BY <1>6, <1>8, <1>11, <2>3
  <2>6. \A j \in 1 .. Len(acc2) : acc2[j].sid <= f.top
    <3>1. \A j \in 1 .. Len(acc2) : acc2[j].sid \in Nat
      BY <2>2, Links
    <3>2. QED
      BY <1>6, <2>1, <2>2, <3>1
  <2>7. Holds(k, Tail(u), final, se, c2, acc2, tm, tr)
    BY <1>3, <1>6, <1>8, <1>11, <2>1, <2>2, <2>3, <2>4, <2>5, <2>6 DEF Holds
  <2>8. QED
    BY <2>7 DEF k, p
<1>12. QED
  BY <1>9, <1>10, <1>11 DEF p

----------------------------------------------------------------------------
(* The listener and what it reads.                                         *)
\* The listener that is to read what is on its way, and that.
ListenerOf(d, c) == IF Joins(d) THEN NewListener(c.key, c.args, c.timely) ELSE c
InboxOf(d) == IF Joins(d) THEN Tail(d) ELSE d

\* What is under way of a client that keeps time, and of a tree that was
\* never changed; and the trees themselves.
Fine(d, u, tm, tr) ==
    /\ \A i \in 1 .. Len(u) :
          /\ Talk(u[i]) /\ tm = TRUE => u[i].when = "due"
          /\ u[i].type = "command" /\ tr = 0 => Len(u[i].sigs) <= 1
    /\ \A i \in 1 .. Len(d) : d[i].type = "commands" => d[i].args \in 0 .. 2 /\ tr # 0

\* The client has its fields.
Fields == {"window", "offset", "last", "cache", "index", "sid", "key", "link", "args",
           "timely", "place"}
Shaped(c) ==
    /\ Fields \subseteq DOMAIN c
    /\ c.offset \in Nat /\ c.offset <= AckAfter
    /\ c.sid \in Nat /\ c.key \in Nat /\ c.link \in Nat /\ c.args \in 0 .. 2
    /\ c.timely \in BOOLEAN

\* A new listener has nothing of the one before but its key and the rest.
LEMMA NewFields ==
    ASSUME NEW key \in Nat, NEW args \in 0 .. 2, NEW tm \in BOOLEAN
    PROVE  /\ Shaped(NewListener(key, args, tm))
           /\ NewListener(key, args, tm).window = Blank
           /\ NewListener(key, args, tm).offset = 0
           /\ NewListener(key, args, tm).last = Null
           /\ NewListener(key, args, tm).index = 0
           /\ NewListener(key, args, tm).sid = 0
           /\ NewListener(key, args, tm).key = key
           /\ NewListener(key, args, tm).link = 0
           /\ NewListener(key, args, tm).args = args
           /\ NewListener(key, args, tm).timely = tm
           /\ NewListener(key, args, tm).place = "play"
<1> DEFINE c == NewListener(key, args, tm)
<1>1. /\ c.window = Blank /\ c.offset = 0 /\ c.last = Null /\ c.cache = Empty /\ c.index = 0
      /\ c.sid = 0 /\ c.key = key /\ c.link = 0 /\ c.args = args /\ c.timely = tm
      /\ c.place = "play"
  BY DEF NewListener
<1>2. Fields \subseteq DOMAIN c
  BY DEF NewListener, Fields
<1>3. 0 <= AckAfter
  BY Constants
<1> HIDE DEF c
<1>4. Shaped(c)
  BY <1>1, <1>2, <1>3 DEF Shaped
<1>5. QED
  BY <1>1, <1>4 DEF c

\* The listener that reads next, whichever it is.
LEMMA ListenerFields ==
    ASSUME NEW d, NEW c, Shaped(c)
    PROVE  /\ ListenerOf(d, c).offset \in Nat /\ ListenerOf(d, c).offset <= AckAfter
           /\ ListenerOf(d, c).sid \in Nat /\ ListenerOf(d, c).key \in Nat
           /\ ListenerOf(d, c).link \in Nat
<1>1. CASE Joins(d)
  <2>1. c.key \in Nat /\ c.args \in 0 .. 2 /\ c.timely \in BOOLEAN
    BY DEF Shaped
  <2> DEFINE l == NewListener(c.key, c.args, c.timely)
  <2>2. ListenerOf(d, c) = l
    BY <1>1 DEF ListenerOf
  <2>3. l.offset = 0 /\ l.sid = 0 /\ l.key = c.key /\ l.link = 0
    BY <2>1, NewFields
  <2> HIDE DEF l
  <2>4. QED
    BY <2>1, <2>2, <2>3, Constants
<1>2. CASE ~Joins(d)
  BY <1>2 DEF ListenerOf, Shaped
<1>3. QED
  BY <1>1, <1>2

\* A packet more, that is no login, goes into the inbox of the listener.
LEMMA InboxSend ==
    ASSUME NEW D, NEW d \in Seq(D), NEW p \in D, p.type # "login"
    PROVE  /\ \A c : ListenerOf(Append(d, p), c) = ListenerOf(d, c)
           /\ InboxOf(Append(d, p)) = Append(InboxOf(d), p)
           /\ InboxOf(d) \in Seq(D)
<1> DEFINE e == Append(d, p)
<1>1. /\ e \in Seq(D) /\ Len(d) \in Nat /\ Len(e) = Len(d) + 1
      /\ e[Len(d) + 1] = p /\ e # << >>
      /\ \A i \in 1 .. Len(d) : e[i] = d[i]
      /\ d = << >> <=> Len(d) = 0
      /\ d # << >> => 1 \in 1 .. Len(d)
  BY AppendPlaces
<1>2. CASE d = << >>
  <2>1. e[1] = p
    BY <1>1, <1>2
  <2> HIDE DEF e
  <2>2. ~Joins(d) /\ ~Joins(e)
    BY <1>2, <2>1 DEF Joins
  <2>3. QED
    BY <2>2 DEF ListenerOf, InboxOf, e
<1>3. CASE d # << >>
  <2>1. e[1] = d[1] /\ e # << >>
    BY <1>1, <1>3
  <2>2. Tail(e) = Append(Tail(d), p) /\ Tail(d) \in Seq(D)
    BY <1>3
  <2> HIDE DEF e
  <2>3. Joins(e) <=> Joins(d)
    BY <1>3, <2>1 DEF Joins
  <2>4. QED
    BY <2>2, <2>3 DEF ListenerOf, InboxOf, e
<1>4. QED
  BY <1>2, <1>3

\* The inbox is a part of what is on its way.
LEMMA InboxTyped ==
    ASSUME NEW D, NEW d \in Seq(D)
    PROVE  InboxOf(d) \in Seq(D) /\ Len(InboxOf(d)) \in Nat /\ Len(InboxOf(d)) <= Len(d)
<1>1. CASE Joins(d)
  <2>1. d # << >>
    BY <1>1 DEF Joins
  <2>2. Tail(d) \in Seq(D) /\ Len(Tail(d)) \in Nat /\ Len(Tail(d)) <= Len(d)
    BY <2>1
  <2>3. QED
    BY <1>1, <2>2 DEF InboxOf
<1>2. CASE ~Joins(d)
  <2>1. Len(d) \in Nat /\ Len(d) <= Len(d)
    OBVIOUS
  <2>2. QED
    BY <1>2, <2>1 DEF InboxOf
<1>3. QED
  BY <1>1, <1>2

\* The world sends a packet more.
LEMMA FineSend ==
    ASSUME NEW D, NEW d \in Seq(D), NEW u, NEW tm, NEW tr, NEW tr2, Fine(d, u, tm, tr),
           NEW p \in D, p.type = "commands" => p.args \in 0 .. 2 /\ tr2 # 0,
           tr # 0 => tr2 # 0
    PROVE  Fine(Append(d, p), u, tm, tr2)
<1> DEFINE e == Append(d, p)
<1>1. /\ Len(e) = Len(d) + 1 /\ e[Len(d) + 1] = p
      /\ \A i \in 1 .. Len(d) : e[i] = d[i]
      /\ \A i \in 1 .. Len(d) + 1 : i \in 1 .. Len(d) \/ i = Len(d) + 1
  BY AppendPlaces
<1> HIDE DEF e
<1>2. \A i \in 1 .. Len(e) : e[i].type = "commands" => e[i].args \in 0 .. 2 /\ tr2 # 0
  <2> SUFFICES ASSUME NEW i \in 1 .. Len(d) + 1, e[i].type = "commands"
               PROVE  e[i].args \in 0 .. 2 /\ tr2 # 0
    BY <1>1
  <2>1. CASE i = Len(d) + 1
    BY <1>1, <2>1
  <2>2. CASE i \in 1 .. Len(d)
    BY <1>1, <2>2 DEF Fine
  <2>3. QED
    BY <1>1, <2>1, <2>2
<1>3. \A i \in 1 .. Len(u) :
         /\ Talk(u[i]) /\ tm = TRUE => u[i].when = "due"
         /\ u[i].type = "command" /\ tr2 = 0 => Len(u[i].sigs) <= 1
  BY DEF Fine
<1>4. QED
  BY <1>2, <1>3 DEF Fine, e

\* The client reader takes a packet.
LEMMA FineTake ==
    ASSUME NEW d, NEW u \in Seq(Up), NEW tm, NEW tr, Fine(d, u, tm, tr), u # << >>
    PROVE  Fine(d, Tail(u), tm, tr)
<1> DEFINE v == Tail(u)
<1>1. PICK n \in Nat :
         /\ Len(u) = n + 1 /\ Head(u) = u[1] /\ v \in Seq(Up) /\ Len(v) = n
         /\ \A i \in 1 .. n : v[i] = u[i + 1]
         /\ v = << >> <=> n = 0
  BY TailPlaces
<1> HIDE DEF v
<1>2. \A i \in 1 .. Len(v) : i + 1 \in 1 .. Len(u) /\ v[i] = u[i + 1]
  BY <1>1
<1>3. \A i \in 1 .. Len(v) :
         /\ Talk(v[i]) /\ tm = TRUE => v[i].when = "due"
         /\ v[i].type = "command" /\ tr = 0 => Len(v[i].sigs) <= 1
  BY <1>2 DEF Fine
<1>4. QED
  BY <1>3 DEF Fine, v

\* The client reads a packet.
LEMMA FineRead ==
    ASSUME NEW D, NEW d \in Seq(D), NEW u, NEW tm, NEW tr, Fine(d, u, tm, tr), d # << >>
    PROVE  /\ Fine(Tail(d), u, tm, tr)
           /\ Head(d).type = "commands" => Head(d).args \in 0 .. 2 /\ tr # 0
<1> DEFINE v == Tail(d)
<1>1. PICK n \in Nat :
         /\ Len(d) = n + 1 /\ Head(d) = d[1] /\ v \in Seq(D) /\ Len(v) = n
         /\ \A i \in 1 .. n : v[i] = d[i + 1]
         /\ v = << >> <=> n = 0
  BY TailPlaces
<1> HIDE DEF v
<1>2. \A i \in 1 .. Len(v) : i + 1 \in 1 .. Len(d) /\ v[i] = d[i + 1]
  BY <1>1
<1>3. \A i \in 1 .. Len(v) : v[i].type = "commands" => v[i].args \in 0 .. 2 /\ tr # 0
  BY <1>2 DEF Fine
<1>4. 1 \in 1 .. Len(d)
  BY <1>1
<1>5. Head(d).type = "commands" => Head(d).args \in 0 .. 2 /\ tr # 0
  BY <1>1, <1>4 DEF Fine
<1>6. QED
  BY <1>3, <1>5 DEF Fine, v

\* The client sends a packet more.
LEMMA FineSay ==
    ASSUME NEW d, NEW u \in Seq(Up), NEW tm, NEW tm2, NEW tr, Fine(d, u, tm, tr),
           tm2 = TRUE => tm = TRUE, NEW p \in Up,
           Talk(p) /\ tm2 = TRUE => p.when = "due",
           p.type = "command" /\ tr = 0 => Len(p.sigs) <= 1
    PROVE  Fine(d, Append(u, p), tm2, tr)
<1> DEFINE v == Append(u, p)
<1>1. /\ Len(v) = Len(u) + 1 /\ v[Len(u) + 1] = p
      /\ \A i \in 1 .. Len(u) : v[i] = u[i]
      /\ \A i \in 1 .. Len(u) + 1 : i \in 1 .. Len(u) \/ i = Len(u) + 1
  BY AppendPlaces
<1> HIDE DEF v
<1>2. ASSUME NEW i \in 1 .. Len(u) + 1
      PROVE  /\ Talk(v[i]) /\ tm2 = TRUE => v[i].when = "due"
             /\ v[i].type = "command" /\ tr = 0 => Len(v[i].sigs) <= 1
  <2>1. CASE i = Len(u) + 1
    BY <1>1, <2>1
  <2>2. CASE i \in 1 .. Len(u)
    BY <1>1, <2>2 DEF Fine
  <2>3. QED
    BY <1>1, <2>1, <2>2
<1>3. QED
  BY <1>1, <1>2 DEF Fine, v

----------------------------------------------------------------------------
(* The invariant.                                                          *)
\* How the listener that reads next signs.
NowOf(d, c, top) ==
    Signer(ListenerOf(d, c).sid, ListenerOf(d, c).key, ListenerOf(d, c).link, top)

Typed ==
    /\ up \in Seq(Up) /\ \E D : down \in Seq(D)
    /\ Shaped(client) /\ trees \in Nat /\ sids \in Nat /\ signable \in 0 .. 2
Handshake == Shake(gate, down, up, client.place)
Room == Len(down) + Len(up) <= InFlight
InStep ==
    Agree(tracked, up, ListenerOf(down, client), InboxOf(down), lastPending, nextIndex)
Held(f, top) ==
    Holds(f, up, NowOf(down, client, top), session, chain, accepted, client.timely, trees)
SessionHeld == \E f : Held(f, sids)
Enforced == session # Null => enforce
Due ==
    /\ Fine(down, up, client.timely, trees)
    /\ trees = 0 => signable = 1 /\ client.args = 1
Inv ==
    /\ Typed /\ Handshake /\ Room
    /\ InStep
    /\ SessionHeld /\ Enforced /\ Due

\* What is under way in both directions is so many packets.
LEMMA RoomFor ==
    ASSUME NEW D, NEW d \in Seq(D), NEW u \in Seq(Up)
    PROVE  Len(d \o u) = Len(d) + Len(u) /\ Len(d) \in Nat /\ Len(u) \in Nat
<1>1. d \in Seq(D \cup Up) /\ u \in Seq(D \cup Up)
  OBVIOUS
<1>2. QED
  BY <1>1

\* The fields of the signer there is now.
LEMMA NowTyped ==
    ASSUME NEW d, NEW c, Shaped(c), NEW top \in Nat, ListenerOf(d, c).sid <= top
    PROVE  /\ NowOf(d, c, top) \in Signers
           /\ NowOf(d, c, top).sid = ListenerOf(d, c).sid
           /\ NowOf(d, c, top).key = ListenerOf(d, c).key
           /\ NowOf(d, c, top).link = ListenerOf(d, c).link
           /\ NowOf(d, c, top).top = top
<1> DEFINE l == ListenerOf(d, c)
<1>1. l.sid \in Nat /\ l.key \in Nat /\ l.link \in Nat /\ l.sid <= top
  BY ListenerFields
<1> HIDE DEF l
<1>2. PICK a \in Nat, b \in Nat, e \in Nat : a = l.sid /\ b = l.key /\ e = l.link /\ a <= top
  BY <1>1
<1>3. NowOf(d, c, top) = Signer(a, b, e, top)
  BY <1>2 DEF NowOf, l
<1>4. /\ Signer(a, b, e, top) \in Signers /\ Signer(a, b, e, top).sid = a
      /\ Signer(a, b, e, top).key = b /\ Signer(a, b, e, top).link = e
      /\ Signer(a, b, e, top).top = top
  <2>1. a <= top
    BY <1>2
  <2>2. QED
    BY <2>1, SignerFields, SMTT(30)
<1> DEFINE x == Signer(a, b, e, top)
<1>5. x \in Signers /\ x.sid = a /\ x.key = b /\ x.link = e /\ x.top = top
  BY <1>4
<1>6. NowOf(d, c, top) = x
  BY <1>3
<1> HIDE DEF x
<1>7. QED
  BY <1>2, <1>5, <1>6 DEF l

\* The invariant holds at the start.
LEMMA InvInit == ASSUME Init PROVE Inv
<1> DEFINE c == NewListener(1, 1, TRUE)
<1>1. /\ down = << >> /\ up = << >> /\ client = c /\ tracked = Blank /\ lastPending = Null
      /\ nextIndex = 0 /\ session = Null /\ chain = Null /\ signable = 1 /\ gate = "play"
      /\ accepted = << >> /\ sids = 0 /\ trees = 0
  BY DEF Init
<1>2. /\ Shaped(c) /\ c.window = Blank /\ c.offset = 0 /\ c.last = Null /\ c.index = 0
      /\ c.sid = 0 /\ c.key = 1 /\ c.link = 0 /\ c.args = 1 /\ c.timely = TRUE
      /\ c.place = "play"
  <2>1. PICK one \in Nat : one = 1
    OBVIOUS
  <2> DEFINE x == NewListener(one, one, TRUE)
  <2>2. /\ Shaped(c) /\ c.window = Blank /\ c.offset = 0 /\ c.last = Null /\ c.index = 0
        /\ c.sid = 0 /\ c.key = 1 /\ c.link = 0 /\ c.args = 1
    <3>1. /\ Shaped(x) /\ x.window = Blank /\ x.offset = 0 /\ x.last = Null
          /\ x.index = 0 /\ x.sid = 0 /\ x.key = one /\ x.link = 0 /\ x.args = one
      <4>1. one \in 0 .. 2 /\ TRUE \in BOOLEAN
        BY <2>1
      <4>2. QED
        BY <4>1, NewFields
    <3>2. c = x
      BY <2>1
    <3> HIDE DEF c, x
    <3>3. QED
      BY <2>1, <3>1, <3>2
  <2>3. c.timely = TRUE /\ c.place = "play"
    BY DEF NewListener
  <2>4. QED
    BY <2>2, <2>3
<1> HIDE DEF c
<1>3. ~Joins(down) /\ ListenerOf(down, client) = c /\ InboxOf(down) = << >>
  <2>1. ~Joins(down)
    BY <1>1 DEF Joins
  <2>2. QED
    BY <1>1, <2>1 DEF ListenerOf, InboxOf
<1>4. Typed
  <2>1. up \in Seq(Up) /\ down \in Seq({})
    BY <1>1
  <2>2. QED
    BY <1>1, <1>2, <2>1 DEF Typed
<1>5. Handshake
  <2>1. (\A i \in 1 .. Len(down) : FALSE) /\ (\A i \in 1 .. Len(up) : FALSE)
    BY <1>1, NoPlaces
  <2>2. ~Answers(up) /\ client.place # "configuration"
    BY <1>1, <1>2 DEF Answers
  <2>3. QED
    BY <1>1, <1>3, <2>1, <2>2 DEF Handshake, Shake
<1>6. Room
  BY <1>1, Constants DEF Room
<1>7. InStep
  BY <1>1, <1>2, <1>3, AgreeStart DEF InStep
<1>8. SessionHeld
  <2> DEFINE k == NowOf(down, client, sids)
  <2>1. k = Signer(0, 1, 0, 0)
    BY <1>1, <1>2, <1>3 DEF NowOf
  <2>2. k \in Signers /\ k.top = 0
    BY <2>1, SignerFields
  <2> HIDE DEF k
  <2>3. SignsTo(k, up, k)
    BY <1>1, <2>2, SignsEmpty
  <2>4. \A j \in 1 .. Len(accepted) : FALSE
    BY <1>1, NoPlaces
  <2>5. accepted \in Seq(Link) /\ Ordered(accepted)
    BY <1>1, <2>4 DEF Ordered
  <2>6. Holds(k, up, k, session, chain, accepted, client.timely, trees)
    BY <1>1, <2>3, <2>4, <2>5 DEF Holds
  <2>7. QED
    BY <2>6 DEF SessionHeld, Held, k
<1>9. Enforced
  BY <1>1 DEF Enforced
<1>10. Due
  <2>1. (\A i \in 1 .. Len(down) : FALSE) /\ (\A i \in 1 .. Len(up) : FALSE)
    BY <1>1, NoPlaces
  <2>2. QED
    BY <1>1, <1>2, <2>1 DEF Due, Fine
<1>11. QED
  BY <1>4, <1>5, <1>6, <1>7, <1>8, <1>9, <1>10 DEF Inv

(* The world reader.                                                       *)

\* A set that has a packet besides what is on its way.
LEMMA Widened ==
    ASSUME Typed, NEW p
    PROVE  \E D : p \in D /\ down \in Seq(D) /\ InboxOf(down) \in Seq(D)
<1>1. PICK D : down \in Seq(D)
  BY DEF Typed
<1>2. down \in Seq(D \cup {p})
  BY <1>1
<1>3. InboxOf(down) \in Seq(D \cup {p})
  BY <1>2, InboxTyped
<1>4. QED
  BY <1>2, <1>3

\* Whatever it sends to a client in play, the rest being as it should.
LEMMA WorldSends ==
    ASSUME Inv, NEW p, To(p), gate = "play", p.type # "login",
           gate' = (IF p.type = "start_configuration" THEN "configuring" ELSE "play"),
           up' = up, client' = client, session' = session, chain' = chain,
           accepted' = accepted, sids' = sids, keys' = keys,
           trees' \in Nat, signable' \in 0 .. 2,
           trees' = 0 => trees = 0 /\ signable' = signable,
           p.type = "commands" => p.args \in 0 .. 2 /\ trees' # 0,
           Agree(tracked', up, ListenerOf(down, client), Append(InboxOf(down), p),
                 lastPending', nextIndex')
    PROVE  Inv'
<1>1. /\ up \in Seq(Up) /\ Shaped(client) /\ sids \in Nat
      /\ Shake(gate, down, up, client.place)
      /\ Fine(down, up, client.timely, trees)
  BY DEF Inv, Typed, Handshake, Due
<1>2. PICK D : p \in D /\ down \in Seq(D)
  BY Widened DEF Inv
<1>3. down' = Append(down, p) /\ Len(down \o up) < InFlight
  BY DEF To
<1>4. down' \in Seq(D) /\ Len(down') = Len(down) + 1
  BY <1>2, <1>3
<1>5. ListenerOf(down', client') = ListenerOf(down, client)
      /\ InboxOf(down') = Append(InboxOf(down), p)
  BY <1>2, <1>3, InboxSend
<1>6. Typed'
  BY <1>1, <1>4 DEF Typed
<1>7. Handshake'
  <2>1. Shake(gate', Append(down, p), up, client.place)
    BY <1>1, <1>2, ShakeSend
  <2>2. QED
    BY <1>3, <2>1 DEF Handshake
<1>8. Room'
  <2>1. Len(down) + Len(up) < InFlight /\ Len(down) \in Nat /\ Len(up) \in Nat
    BY <1>1, <1>2, <1>3, RoomFor
  <2>2. QED
    BY <1>4, <2>1, Constants DEF Room
<1>9. InStep'
  BY <1>5 DEF InStep
<1>10. SessionHeld'
  <2>1. PICK f : Holds(f, up, NowOf(down, client, sids), session, chain, accepted,
                       client.timely, trees)
    BY DEF Inv, SessionHeld, Held
  <2>2. NowOf(down', client', sids') = NowOf(down, client, sids)
    BY <1>5 DEF NowOf
  <2>3. Holds(f, up, NowOf(down, client, sids), session, chain, accepted,
              client.timely, trees')
    BY <2>1 DEF Holds, Fair
  <2>4. Held(f, sids)'
    BY <2>2, <2>3 DEF Held
  <2>5. QED
    BY <2>4 DEF SessionHeld
<1>11. Enforced'
  BY DEF Inv, Enforced, enforce
<1>12. Due'
  <2>1. Fine(Append(down, p), up, client.timely, trees')
    BY <1>1, <1>2, FineSend
  <2>2. trees' = 0 => signable' = 1 /\ client'.args = 1
    BY DEF Inv, Due
  <2>3. QED
    BY <1>3, <2>1, <2>2 DEF Due
<1>13. QED
  BY <1>6, <1>7, <1>8, <1>9, <1>10, <1>11, <1>12 DEF Inv

\* What its messages carry.
MessageOf(sig, last) ==
    [type |-> "message", index |-> nextIndex, sig |-> sig, last |-> last,
     packed |-> [i \in DOMAIN last |-> Pack(cache, last[i])]]

\* A player message: the client is told of it, and it is tracked.
LEMMA InvRender ==
    ASSUME Inv, NEW sig \in Sigs, NEW last, Render(sig, last), UNCHANGED keys
    PROVE  Inv'
<1> DEFINE p == MessageOf(sig, last)
<1>1. p.type = "message" /\ p.index = nextIndex /\ p.sig = sig
  BY DEF MessageOf
<1>2. /\ To(p) /\ gate = "play" /\ nextIndex' = nextIndex + 1 /\ AddPending(sig)
      /\ UNCHANGED <<session, chain, signable, gate, up, client, accepted, chats, sids,
                     joins, trees>>
  BY DEF Render, MessageOf
<1>3. /\ tracked' = IF sig = lastPending THEN tracked ELSE Append(tracked, Entry(sig, TRUE))
      /\ lastPending' = sig
  BY <1>2 DEF AddPending
<1> HIDE DEF p
<1>4. /\ up \in Seq(Up) /\ trees \in Nat /\ signable \in 0 .. 2
      /\ Agree(tracked, up, ListenerOf(down, client), InboxOf(down), lastPending, nextIndex)
  BY DEF Inv, Typed, InStep
<1>5. PICK D : p \in D /\ down \in Seq(D) /\ InboxOf(down) \in Seq(D)
  BY Widened DEF Inv
<1>6. Agree(tracked', up, ListenerOf(down, client), Append(InboxOf(down), p),
            lastPending', nextIndex')
  <2>1. Agree(IF p.sig = lastPending THEN tracked ELSE Append(tracked, Entry(p.sig, TRUE)), up,
              ListenerOf(down, client), Append(InboxOf(down), p), p.sig, nextIndex + 1)
    BY <1>1, <1>4, <1>5, AgreeRender
  <2>2. QED
    BY <1>1, <1>2, <1>3, <2>1
<1>7. p.type # "login" /\ p.type # "commands" /\ p.type # "start_configuration"
  BY <1>1
<1>8. QED
  BY <1>2, <1>4, <1>6, <1>7, WorldSends

\* What the world sends beside messages keeps the list and the client in step.
LEMMA OtherSends ==
    ASSUME Inv, NEW p, p.type # "message", tracked' = tracked, lastPending' = lastPending,
           nextIndex' = nextIndex
    PROVE  Agree(tracked', up, ListenerOf(down, client), Append(InboxOf(down), p),
                 lastPending', nextIndex')
<1>1. /\ up \in Seq(Up)
      /\ Agree(tracked, up, ListenerOf(down, client), InboxOf(down), lastPending, nextIndex)
  BY DEF Inv, Typed, InStep
<1>2. PICK D : p \in D /\ down \in Seq(D) /\ InboxOf(down) \in Seq(D)
  BY Widened DEF Inv
<1>3. Agree(tracked, up, ListenerOf(down, client), Append(InboxOf(down), p),
            lastPending, nextIndex)
  BY <1>1, <1>2, AgreeOther
<1>4. QED
  BY <1>3

\* A message that is taken back.
LEMMA InvRenderDelete ==
    ASSUME Inv, NEW sig, RenderDelete(sig), UNCHANGED keys
    PROVE  Inv'
<1> DEFINE p == [type |-> "delete", sig |-> sig, packed |-> Pack(cache, sig)]
<1>1. p.type = "delete"
  OBVIOUS
<1>2. /\ To(p) /\ gate = "play"
      /\ UNCHANGED <<state, gate, up, client, accepted, outcome, chats, sids, joins, trees>>
  BY DEF RenderDelete
<1> HIDE DEF p
<1>3. trees \in Nat /\ signable \in 0 .. 2
  BY DEF Inv, Typed
<1>4. tracked' = tracked /\ lastPending' = lastPending /\ nextIndex' = nextIndex
      /\ session' = session /\ chain' = chain /\ signable' = signable
  BY <1>2 DEF state
<1>5. Agree(tracked', up, ListenerOf(down, client), Append(InboxOf(down), p),
            lastPending', nextIndex')
  BY <1>1, <1>4, OtherSends
<1>6. p.type # "login" /\ p.type # "commands" /\ p.type # "start_configuration"
  BY <1>1
<1>7. QED
  BY <1>2, <1>3, <1>4, <1>5, <1>6, WorldSends

\* A command tree.
LEMMA InvSetCommandTree ==
    ASSUME Inv, NEW args \in 0 .. 2, SetCommandTree(args), UNCHANGED keys
    PROVE  Inv'
<1> DEFINE p == [type |-> "commands", args |-> args]
<1>1. p.type = "commands" /\ p.args = args
  OBVIOUS
<1>2. /\ To(p) /\ gate = "play" /\ trees' = trees + 1 /\ signable' = args
      /\ UNCHANGED <<tracked, lastPending, cache, nextIndex, session, chain, gate, up,
                     client, accepted, outcome, messages, chats, sids, joins>>
  BY DEF SetCommandTree
<1> HIDE DEF p
<1>3. trees \in Nat /\ trees' \in Nat /\ trees' # 0 /\ signable' \in 0 .. 2
  BY <1>2 DEF Inv, Typed
<1>4. Agree(tracked', up, ListenerOf(down, client), Append(InboxOf(down), p),
            lastPending', nextIndex')
  BY <1>1, <1>2, OtherSends
<1>5. p.type # "login" /\ p.type # "start_configuration" /\ p.args \in 0 .. 2
  BY <1>1
<1>6. QED
  BY <1>2, <1>3, <1>4, <1>5, WorldSends

\* The request to reconfigure.
LEMMA InvStartConfiguration ==
    ASSUME Inv, StartConfiguration, UNCHANGED keys
    PROVE  Inv'
<1> DEFINE p == [type |-> "start_configuration"]
<1>1. p.type = "start_configuration"
  OBVIOUS
<1>2. /\ To(p) /\ gate = "play" /\ gate' = "configuring"
      /\ UNCHANGED <<state, up, client, accepted, outcome, counts>>
  BY DEF StartConfiguration
<1> HIDE DEF p
<1>3. trees \in Nat /\ signable \in 0 .. 2
  BY DEF Inv, Typed
<1>4. tracked' = tracked /\ lastPending' = lastPending /\ nextIndex' = nextIndex
      /\ session' = session /\ chain' = chain /\ signable' = signable
      /\ sids' = sids /\ trees' = trees
  BY <1>2 DEF state, counts
<1>5. Agree(tracked', up, ListenerOf(down, client), Append(InboxOf(down), p),
            lastPending', nextIndex')
  BY <1>1, <1>4, OtherSends
<1>6. p.type # "login" /\ p.type # "commands"
  BY <1>1
<1>7. QED
  BY <1>1, <1>2, <1>3, <1>4, <1>5, <1>6, WorldSends

\* The login of a new listener: both ends start anew.
LEMMA InvRejoin ==
    ASSUME Inv, Rejoin, UNCHANGED keys
    PROVE  Inv'
<1> DEFINE p == [type |-> "login"]
           l == NewListener(client.key, client.args, client.timely)
<1>1. p.type = "login"
  OBVIOUS
<1>2. /\ To(p) /\ gate = "rejoining" /\ gate' = "play"
      /\ tracked' = Blank /\ lastPending' = Null /\ nextIndex' = 0
      /\ session' = Null /\ chain' = Null
      /\ UNCHANGED <<signable, up, client, accepted, sids, trees>>
  BY DEF Rejoin, Reset
<1> HIDE DEF p
<1>3. /\ up \in Seq(Up) /\ Shaped(client) /\ sids \in Nat /\ trees \in Nat
      /\ signable \in 0 .. 2
      /\ Shake(gate, down, up, client.place) /\ Fine(down, up, client.timely, trees)
      /\ trees = 0 => signable = 1 /\ client.args = 1
  BY DEF Inv, Typed, Handshake, Due
<1>4. PICK D : p \in D /\ down \in Seq(D)
  BY Widened DEF Inv
<1>5. down = << >> /\ up = << >>
  BY <1>2, <1>3 DEF Shake
<1>6. down' = Append(down, p) /\ Len(down \o up) < InFlight
  BY <1>2 DEF To
<1>7. /\ down' \in Seq(D) /\ Len(down') = 1 /\ down' # << >> /\ down'[1] = p
      /\ Tail(down') = << >>
  BY <1>4, <1>5, <1>6
<1>8. ListenerOf(down', client') = l /\ InboxOf(down') = << >>
  <2>1. Joins(down')
    BY <1>1, <1>7 DEF Joins
  <2>2. QED
    BY <1>2, <1>7, <2>1 DEF ListenerOf, InboxOf
<1>9. /\ l.window = Blank /\ l.offset = 0 /\ l.last = Null /\ l.index = 0
      /\ l.sid = 0 /\ l.key = client.key /\ l.link = 0 /\ client.key \in Nat
  <2>1. client.key \in Nat /\ client.args \in 0 .. 2 /\ client.timely \in BOOLEAN
    BY <1>3 DEF Shaped
  <2>2. QED
    BY <2>1, NewFields
<1> HIDE DEF l
<1>10. Typed'
  BY <1>2, <1>3, <1>7 DEF Typed
<1>11. Handshake'
  <2>1. Shake("play", Append(down, p), up, client.place)
    BY <1>1, <1>2, <1>3, <1>4, ShakeRejoin
  <2>2. QED
    BY <1>2, <1>6, <2>1 DEF Handshake
<1>12. Room'
  <2>1. Len(up) = 0 /\ Len(down \o up) = 0 /\ up' = << >>
    BY <1>2, <1>5
  <2>2. Len(up') = 0
    BY <2>1
  <2>3. 0 < InFlight
    BY <1>6, <2>1
  <2>4. QED
    BY <1>7, <2>2, <2>3, Constants DEF Room
<1>13. InStep'
  <2>1. Agree(Blank, << >>, l, << >>, Null, 0)
    BY <1>9, AgreeStart
  <2>2. QED
    BY <1>2, <1>5, <1>8, <2>1 DEF InStep
<1>14. SessionHeld'
  <2>1. PICK f : Holds(f, << >>, NowOf(down, client, sids), session, chain, accepted,
                       client.timely, trees)
    BY <1>5 DEF Inv, SessionHeld, Held
  <2>2. NowOf(down, client, sids).top = sids
    BY SMTT(30) DEF NowOf, Signer
  <2> DEFINE k == Signer(0, client.key, 0, sids)
  <2>3. k \in Signers /\ k.top = sids
    <3>1. 0 \in Nat /\ 0 <= sids /\ sids \in Nat /\ client.key \in Nat
      BY <1>3, <1>9
    <3>2. QED
      BY <3>1, SignerFields, SMTT(30)
  <2>4. NowOf(down', client', sids') = k
    <3>1. NowOf(down', client', sids') = Signer(l.sid, l.key, l.link, sids')
      BY <1>8 DEF NowOf
    <3>2. sids' = sids
      BY <1>2
    <3>3. QED
      BY <1>9, <3>1, <3>2
  <2> HIDE DEF k
  <2>5. Holds(k, << >>, k, Null, Null, accepted, client.timely, trees)
    BY <2>1, <2>2, <2>3, HoldsStart
  <2>6. PICK x : x = k
    OBVIOUS
  <2>7. Held(x, sids)'
    BY <1>2, <1>5, <2>4, <2>5, <2>6 DEF Held
  <2>8. QED
    BY <2>7 DEF SessionHeld
<1>15. Enforced'
  BY <1>2 DEF Enforced
<1>16. Due'
  <2>1. Fine(Append(down, p), up, client.timely, trees)
    BY <1>1, <1>3, <1>4, FineSend
  <2>2. QED
    BY <1>2, <1>3, <1>6, <2>1 DEF Due
<1>17. QED
  BY <1>10, <1>11, <1>12, <1>13, <1>14, <1>15, <1>16 DEF Inv

----------------------------------------------------------------------------
(* The client reader.                                                      *)
\* What the client reader meets.
LEMMA NextFits ==
    ASSUME Inv, up # << >>
    PROVE  /\ up \in Seq(Up) /\ Head(up) \in Up /\ Tail(up) \in Seq(Up)
           /\ Fits(tracked, Head(up))
           /\ Agree(After(tracked, Head(up)), Tail(up), ListenerOf(down, client),
                    InboxOf(down), lastPending, nextIndex)
<1>1. /\ up \in Seq(Up)
      /\ Agree(tracked, up, ListenerOf(down, client), InboxOf(down), lastPending, nextIndex)
  BY DEF Inv, Typed, InStep
<1>2. Head(up) \in Up /\ Tail(up) \in Seq(Up)
  BY <1>1
<1>3. QED
  BY <1>1, <1>2, AgreeReceive

\* The client reader takes a packet that fits the list.
LEMMA ReaderTakes ==
    ASSUME Inv, up # << >>, up' = Tail(up), tracked' = After(tracked, Head(up)),
           gate' = (IF Head(up).type = "configured" THEN "rejoining" ELSE gate),
           down' = down, client' = client, sids' = sids, trees' = trees,
           lastPending' = lastPending, nextIndex' = nextIndex, signable' = signable,
           SessionHeld', Enforced'
    PROVE  Inv'
<1>1. /\ up \in Seq(Up) /\ Shaped(client) /\ sids \in Nat /\ trees \in Nat
      /\ signable \in 0 .. 2
      /\ Shake(gate, down, up, client.place) /\ Fine(down, up, client.timely, trees)
      /\ trees = 0 => signable = 1 /\ client.args = 1
  BY DEF Inv, Typed, Handshake, Due
<1>2. PICK D : down \in Seq(D)
  BY DEF Inv, Typed
<1>3. Tail(up) \in Seq(Up) /\ Len(Tail(up)) \in Nat /\ Len(up) = Len(Tail(up)) + 1
  BY <1>1
<1>4. Typed'
  BY <1>1, <1>2, <1>3 DEF Typed
<1>5. Handshake'
  <2>1. Shake(IF Head(up).type = "configured" THEN "rejoining" ELSE gate, down, Tail(up),
              client.place)
    BY <1>1, <1>2, ShakeTake, ShakeConfigured
  <2>2. QED
    BY <2>1 DEF Handshake
<1>6. Room'
  <2>1. Len(down) \in Nat
    BY <1>2
  <2>2. Len(down) + Len(up) <= InFlight
    BY DEF Inv, Room
  <2>3. Len(down) + Len(Tail(up)) <= InFlight
    BY <1>3, <2>1, <2>2, Constants
  <2>4. QED
    BY <2>3 DEF Room
<1>7. InStep'
  BY NextFits DEF InStep
<1>8. Due'
  <2>1. Fine(down, Tail(up), client.timely, trees)
    BY <1>1, FineTake
  <2>2. QED
    BY <1>1, <2>1 DEF Due
<1>9. QED
  BY <1>4, <1>5, <1>6, <1>7, <1>8 DEF Inv

\* A session that is held on by what there is now.
LEMMA HeldOn ==
    ASSUME NEW f, down' = down, client' = client, sids' = sids, trees' = trees,
           Holds(f, up', NowOf(down, client, sids), session', chain', accepted',
                 client.timely, trees)
    PROVE  SessionHeld'
<1>1. NowOf(down', client', sids') = NowOf(down, client, sids)
  OBVIOUS
<1>2. Held(f, sids)'
  BY <1>1 DEF Held
<1>3. QED
  BY <1>2 DEF SessionHeld

\* The client reader takes the answer to it.
LEMMA InvReceiveConfigured ==
    ASSUME Inv, ReceiveConfigured, UNCHANGED keys
    PROVE  Inv'
<1>1. /\ up # << >> /\ Head(up).type = "configured" /\ up' = Tail(up) /\ gate' = "rejoining"
      /\ tracked' = tracked /\ lastPending' = lastPending /\ nextIndex' = nextIndex
      /\ session' = session /\ chain' = chain /\ signable' = signable
      /\ down' = down /\ client' = client /\ accepted' = accepted /\ sids' = sids
      /\ trees' = trees
  BY DEF ReceiveConfigured, Received, Taken, state, counts
<1>2. tracked' = After(tracked, Head(up))
  BY <1>1 DEF After, Talk
<1>3. PICK f : Holds(f, up, NowOf(down, client, sids), session, chain, accepted,
                     client.timely, trees)
  BY DEF Inv, SessionHeld, Held
<1>4. Holds(f, up', NowOf(down, client, sids), session', chain', accepted',
            client.timely, trees)
  <2>1. ~Talk(Head(up)) /\ Head(up).type # "session"
    BY <1>1 DEF Talk
  <2>2. up \in Seq(Up)
    BY DEF Inv, Typed
  <2>3. QED
    BY <1>1, <1>3, <2>1, <2>2, HoldsOther
<1>5. SessionHeld'
  BY <1>1, <1>4, HeldOn
<1>6. Enforced'
  BY <1>1 DEF Inv, Enforced, enforce
<1>7. QED
  BY <1>1, <1>2, <1>5, <1>6, ReaderTakes

\* The client reader takes an acknowledgement: it fits the list.
LEMMA InvReceiveAck ==
    ASSUME Inv, ReceiveAck, UNCHANGED keys
    PROVE  Inv'
<1>1. /\ up # << >> /\ Head(up).type = "ack" /\ up' = Tail(up)
      /\ lastPending' = lastPending /\ nextIndex' = nextIndex
      /\ signable' = signable /\ gate' = gate
      /\ down' = down /\ client' = client /\ sids' = sids /\ trees' = trees
  BY DEF ReceiveAck, Received, Taken, counts
<1>2. OffsetFits(tracked, Head(up).offset)
  BY <1>1, NextFits DEF Fits
<1>3. /\ tracked' = Moved(tracked, Head(up).offset)
      /\ session' = session /\ chain' = chain /\ accepted' = accepted
  BY <1>2 DEF ReceiveAck
<1>4. tracked' = After(tracked, Head(up))
  BY <1>1, <1>3 DEF After, Talk
<1>5. PICK f : Holds(f, up, NowOf(down, client, sids), session, chain, accepted,
                     client.timely, trees)
  BY DEF Inv, SessionHeld, Held
<1>6. Holds(f, up', NowOf(down, client, sids), session', chain', accepted',
            client.timely, trees)
  <2>1. ~Talk(Head(up)) /\ Head(up).type # "session"
    BY <1>1 DEF Talk
  <2>2. up \in Seq(Up)
    BY DEF Inv, Typed
  <2>3. QED
    BY <1>1, <1>3, <1>5, <2>1, <2>2, HoldsOther
<1>7. SessionHeld'
  BY <1>1, <1>6, HeldOn
<1>8. Enforced'
  BY <1>3 DEF Inv, Enforced, enforce
<1>9. gate' = (IF Head(up).type = "configured" THEN "rejoining" ELSE gate)
  BY <1>1
<1>10. QED
  BY <1>1, <1>4, <1>7, <1>8, <1>9, ReaderTakes

\* The client reader takes a chat session: its key is newer.
LEMMA InvReceiveSession ==
    ASSUME Inv, ReceiveSession, UNCHANGED keys
    PROVE  Inv'
<1> DEFINE p == Head(up)
<1>1. /\ up # << >> /\ p.type = "session" /\ up' = Tail(up)
      /\ lastPending' = lastPending /\ nextIndex' = nextIndex
      /\ signable' = signable /\ gate' = gate
      /\ down' = down /\ client' = client /\ sids' = sids /\ trees' = trees
  BY DEF ReceiveSession, Received, Taken, counts
<1>2. up \in Seq(Up)
  BY DEF Inv, Typed
<1>3. PICK f : Holds(f, up, NowOf(down, client, sids), session, chain, accepted,
                     client.timely, trees)
  BY DEF Inv, SessionHeld, Held
<1>4. /\ session # Null => session.key < p.key /\ session.key \in Nat /\ p.key \in Nat
      /\ session = Null => Holds(Signed(f, p), Tail(up), NowOf(down, client, sids),
                                 session, chain, accepted, client.timely, trees)
      /\ Holds(Signed(f, p), Tail(up), NowOf(down, client, sids),
               [sid |-> p.sid, key |-> p.key],
               [sid |-> p.sid, next |-> 0, broken |-> FALSE], accepted,
               client.timely, trees)
  BY <1>1, <1>2, <1>3, HoldsSession
<1>5. ~(session # Null /\ p.key < session.key) /\ ~(session # Null /\ p.key = session.key)
  BY <1>4
<1>6. /\ IF ~enforce THEN UNCHANGED <<session, chain>>
         ELSE /\ session' = [sid |-> p.sid, key |-> p.key]
              /\ chain' = [sid |-> p.sid, next |-> 0, broken |-> FALSE]
      /\ tracked' = tracked /\ accepted' = accepted
  BY <1>5 DEF ReceiveSession
<1>7. tracked' = After(tracked, p)
  BY <1>1, <1>6 DEF After, Talk
<1>8. enforce' = enforce /\ (session # Null => enforce)
  BY DEF Inv, Enforced, enforce
<1> HIDE DEF p
<1>9. SessionHeld' /\ Enforced'
  <2>1. CASE ~enforce
    <3>1. session = Null /\ session' = session /\ chain' = chain
      BY <1>6, <1>8, <2>1
    <3>2. Holds(Signed(f, p), up', NowOf(down, client, sids), session', chain', accepted',
                client.timely, trees)
      BY <1>1, <1>4, <1>6, <3>1
    <3>3. SessionHeld'
      BY <1>1, <3>2, HeldOn
    <3>4. QED
      BY <3>1, <3>3 DEF Enforced
  <2>2. CASE enforce
    <3>1. Holds(Signed(f, p), up', NowOf(down, client, sids), session', chain', accepted',
                client.timely, trees)
      BY <1>1, <1>4, <1>6, <2>2
    <3>2. SessionHeld'
      BY <1>1, <3>1, HeldOn
    <3>3. QED
      BY <1>8, <2>2, <3>2 DEF Enforced
  <2>3. QED
    BY <2>1, <2>2
<1>10. gate' = (IF p.type = "configured" THEN "rejoining" ELSE gate)
  BY <1>1
<1>11. QED
  BY <1>1, <1>7, <1>9, <1>10, ReaderTakes DEF p

\* What is signed at all is no Null.
LEMMA LinkNotNull ==
    ASSUME NEW sid \in Nat, NEW index \in Nat, NEW last \in Lists
    PROVE  [sid |-> sid, index |-> index, last |-> last] \in Link \ {Null}
BY NullAssumption DEF Link

\* A message under way is signed throughout or not at all, and one of a chain
\* that is fair is the chain's next.
LEMMA NextSigned ==
    ASSUME NEW f, NEW u \in Seq(Up), NEW final, NEW se, NEW ch, NEW acc, NEW tm, NEW tr,
           Holds(f, u, final, se, ch, acc, tm, tr), u # << >>, Talk(Head(u)),
           NEW d, Fine(d, u, tm, tr)
    PROVE  /\ Head(u).sigs \in Seq(Link \cup {Null})
           /\ Head(u).type = "chat" => Len(Head(u).sigs) = 1
           /\ \/ \A i \in 1 .. Len(Head(u).sigs) : Head(u).sigs[i] = Null
              \/ \A i \in 1 .. Len(Head(u).sigs) : Head(u).sigs[i] # Null
           /\ se # Null /\ Fair(tm, tr) =>
                 /\ \A i \in 1 .. Len(Head(u).sigs) :
                       /\ Head(u).sigs[i] = LinkOf(ch, i, Head(u).sum)
                       /\ Head(u).sigs[i] # Null
                 /\ ~ch.broken /\ Head(u).when = "due"
                 /\ Head(u).type = "command" => Len(Head(u).sigs) <= 1
           /\ se # Null <=> ch # Null
           /\ ch # Null => ch \in Chains
<1> DEFINE p == Head(u)
<1>1. p \in Up /\ 1 \in 1 .. Len(u) /\ u[1] = p
  BY TailPlaces
<1>2. Signs(f, p) /\ f \in Signers
  BY SignsTail, SignsBounds DEF Holds
<1>3. p.sigs \in Seq(Link \cup {Null}) /\ p.sum \in Lists /\ Len(p.sigs) \in Nat
  BY <1>1, UpFields
<1>4. f.sid \in Nat /\ f.link \in Nat
  BY <1>2 DEF Signers
<1>5. p.type = "chat" => Len(p.sigs) = 1
  BY <1>2 DEF Signs
<1>6. \A i \in 1 .. Len(p.sigs) :
         p.sigs[i] = IF f.sid = 0 THEN Null
                     ELSE [sid |-> f.sid, index |-> f.link + i - 1, last |-> p.sum]
  BY <1>2 DEF Signs
<1>7. ASSUME f.sid # 0, NEW i \in 1 .. Len(p.sigs)
      PROVE  p.sigs[i] # Null
  <2>1. f.link + i - 1 \in Nat
    BY <1>3, <1>4
  <2>2. p.sigs[i] = [sid |-> f.sid, index |-> f.link + i - 1, last |-> p.sum]
    BY <1>6, <1>7
  <2>3. QED
    BY <1>3, <1>4, <2>1, <2>2, LinkNotNull
<1>8. \/ \A i \in 1 .. Len(p.sigs) : p.sigs[i] = Null
      \/ \A i \in 1 .. Len(p.sigs) : p.sigs[i] # Null
  BY <1>6, <1>7
<1>9. ASSUME se # Null, Fair(tm, tr)
      PROVE  /\ \A i \in 1 .. Len(p.sigs) :
                   p.sigs[i] = LinkOf(ch, i, p.sum) /\ p.sigs[i] # Null
             /\ ~ch.broken /\ p.when = "due"
             /\ p.type = "command" => Len(p.sigs) <= 1
  <2>1. /\ f.sid # 0 /\ ch.sid = f.sid /\ ~ch.broken /\ ch.next = f.link
    BY <1>9 DEF Holds
  <2>2. \A i \in 1 .. Len(p.sigs) : p.sigs[i] = LinkOf(ch, i, p.sum)
    BY <1>6, <2>1 DEF LinkOf
  <2>3. tm = TRUE /\ tr = 0
    BY <1>9 DEF Fair
  <2>4. p.when = "due" /\ (p.type = "command" => Len(p.sigs) <= 1)
    BY <1>1, <2>3 DEF Fine
  <2>5. QED
    BY <1>7, <2>1, <2>2, <2>4
<1>10. (se # Null <=> ch # Null) /\ (ch # Null => ch \in Chains)
  BY DEF Holds
<1>11. QED
  BY <1>3, <1>5, <1>8, <1>9, <1>10

\* The client reader takes a message: its update fits the list.
LEMMA InvReceiveChat ==
    ASSUME Inv, ReceiveChat, UNCHANGED keys
    PROVE  Inv'
<1> DEFINE p == Head(up)
           seen == Seen(Moved(tracked, p.offset), p.acked)
           result == Unpack(chain, p.sigs[1], p.when, seen)
<1>1. /\ up # << >> /\ p.type = "chat" /\ up' = Tail(up)
      /\ lastPending' = lastPending /\ nextIndex' = nextIndex
      /\ signable' = signable /\ gate' = gate
      /\ down' = down /\ client' = client /\ sids' = sids /\ trees' = trees
  BY DEF ReceiveChat, Received, Taken, counts
<1>2. Talk(p) /\ p.type # "configured" /\ p.type # "session"
  BY <1>1 DEF Talk
<1>3. UpdateFits(tracked, p)
  BY <1>1, <1>2, NextFits DEF Fits
<1>4. seen = p.sum
  BY <1>3 DEF UpdateFits
<1>5. /\ tracked' = Updated(tracked, p)
      /\ IF chain = Null
         THEN UNCHANGED chain /\ IF enforce THEN Refuse ELSE Accept(<< >>)
         ELSE chain' = result.chain /\ IF result.ok THEN Accept(p.sigs) ELSE Refuse
      /\ session' = session
  BY <1>3 DEF ReceiveChat
<1>6. tracked' = After(tracked, p)
  BY <1>2, <1>5 DEF After
<1>7. up \in Seq(Up) /\ Fine(down, up, client.timely, trees)
  BY DEF Inv, Typed, Due
<1>8. PICK f : Holds(f, up, NowOf(down, client, sids), session, chain, accepted,
                     client.timely, trees)
  BY DEF Inv, SessionHeld, Held
<1>9. accepted \in Seq(Link)
  BY <1>8 DEF Holds
<1>10. /\ Len(p.sigs) = 1 /\ p.sigs \in Seq(Link \cup {Null})
       /\ session # Null /\ Fair(client.timely, trees) =>
             /\ \A i \in 1 .. Len(p.sigs) : p.sigs[i] = LinkOf(chain, i, p.sum)
                                            /\ p.sigs[i] # Null
             /\ ~chain.broken /\ p.when = "due"
       /\ session # Null <=> chain # Null
       /\ chain # Null => chain \in Chains
  <2>1. /\ p.sigs \in Seq(Link \cup {Null}) /\ (p.type = "chat" => Len(p.sigs) = 1)
        /\ session # Null <=> chain # Null
        /\ chain # Null => chain \in Chains
    BY <1>1, <1>2, <1>7, <1>8, NextSigned
  <2>2. session # Null /\ Fair(client.timely, trees) =>
           /\ \A i \in 1 .. Len(p.sigs) : p.sigs[i] = LinkOf(chain, i, p.sum)
                                           /\ p.sigs[i] # Null
           /\ ~chain.broken /\ p.when = "due"
    BY <1>1, <1>2, <1>7, <1>8, NextSigned
  <2> HIDE DEF p
  <2>3. QED
    BY <1>1, <2>1, <2>2
<1> HIDE DEF p, seen
<1>11. Holds(Signed(f, p), up', NowOf(down, client, sids), session', chain', accepted',
             client.timely, trees)
  <2>1. CASE chain = Null
    <3>1. session = Null /\ chain' = chain
      BY <1>5, <1>10, <2>1
    <3>2. accepted' = accepted
      <4>1. accepted \o << >> = accepted
        BY <1>9
      <4>2. QED
        BY <1>5, <2>1, <4>1 DEF Refuse, Accept
    <3>3. Holds(Signed(f, p), Tail(up), NowOf(down, client, sids), session, chain',
                accepted', client.timely, trees)
      BY <1>1, <1>2, <1>7, <1>8, <3>1, <3>2, HoldsTalk DEF p
    <3>4. QED
      BY <1>1, <1>5, <3>3
  <2>2. CASE chain # Null
    <3>1. session # Null /\ chain \in Chains /\ chain' = result.chain
          /\ (IF result.ok THEN accepted' = accepted \o p.sigs ELSE accepted' = accepted)
      BY <1>5, <1>10, <2>2 DEF Refuse, Accept
    <3>2. /\ result.ok =>
                /\ p.sigs[1] = LinkOf(chain, 1, seen) /\ p.sigs[1] # Null /\ ~chain.broken
                /\ result.chain = [chain EXCEPT !.next = @ + 1]
          /\ ~result.ok => \/ result.chain = [chain EXCEPT !.broken = TRUE]
                           \/ result.chain = chain
          /\ p.sigs[1] # Null /\ p.sigs[1] = LinkOf(chain, 1, seen) /\ p.when = "due"
             /\ ~chain.broken => result.ok
      BY <3>1, UnpackOne
    <3> HIDE DEF result
    <3>3. CASE result.ok
      <4>1. \A i \in 1 .. Len(p.sigs) :
               p.sigs[i] = LinkOf(chain, i, seen) /\ p.sigs[i] # Null
        <5>1. \A i \in 1 .. 1 : i = 1
          OBVIOUS
        <5>2. QED
          BY <1>10, <3>2, <3>3, <5>1
      <4>2. chain' = [chain EXCEPT !.next = @ + Len(p.sigs)]
        BY <1>10, <3>1, <3>2, <3>3
      <4>3. accepted' = accepted \o p.sigs /\ ~chain.broken
        BY <3>1, <3>2, <3>3
      <4>4. Holds(Signed(f, p), Tail(up), NowOf(down, client, sids), session, chain',
                  accepted', client.timely, trees)
        BY <1>1, <1>2, <1>7, <1>8, <3>1, <4>1, <4>2, <4>3, HoldsTalk DEF p
      <4>5. QED
        BY <1>1, <1>5, <4>4
    <3>4. CASE ~result.ok
      <4>1. ~Fair(client.timely, trees)
        <5>1. SUFFICES ASSUME Fair(client.timely, trees) PROVE FALSE
          OBVIOUS
        <5>2. 1 \in 1 .. Len(p.sigs)
          BY <1>10
        <5>3. p.sigs[1] = LinkOf(chain, 1, p.sum) /\ p.sigs[1] # Null /\ ~chain.broken
              /\ p.when = "due"
          BY <1>10, <3>1, <5>1, <5>2
        <5>4. QED
          BY <1>4, <3>2, <3>4, <5>3
      <4>2. /\ chain' \in Chains /\ chain'.sid = chain.sid
            /\ chain'.broken \/ chain'.next = chain.next
            /\ ~chain'.broken => ~chain.broken
        <5>1. /\ [chain EXCEPT !.broken = TRUE] \in Chains
              /\ [chain EXCEPT !.broken = TRUE].sid = chain.sid
              /\ [chain EXCEPT !.broken = TRUE].broken
          <6>1. 0 \in Nat
            OBVIOUS
          <6>2. QED
            BY <3>1, <6>1, NextLink
        <5>2. CASE chain' = chain
          BY <3>1, <5>2
        <5>3. CASE chain' = [chain EXCEPT !.broken = TRUE]
          BY <5>1, <5>3
        <5>4. QED
          BY <3>1, <3>2, <3>4, <5>2, <5>3
      <4>3. accepted' = accepted
        BY <3>1, <3>4
      <4>4. Holds(Signed(f, p), Tail(up), NowOf(down, client, sids), session, chain',
                  accepted', client.timely, trees)
        BY <1>1, <1>2, <1>7, <1>8, <3>1, <4>1, <4>2, <4>3, HoldsTalk DEF p
      <4>5. QED
        BY <1>1, <1>5, <4>4
    <3>5. QED
      BY <3>3, <3>4
  <2>3. QED
    BY <2>1, <2>2
<1>12. SessionHeld'
  BY <1>1, <1>11, HeldOn
<1>13. Enforced'
  BY <1>5 DEF Inv, Enforced, enforce
<1>14. gate' = (IF p.type = "configured" THEN "rejoining" ELSE gate)
  BY <1>1, <1>2
<1>15. QED
  BY <1>1, <1>6, <1>12, <1>13, <1>14, ReaderTakes DEF p

\* The signatures of the arguments a command has.
KnownOf(sigs, n) == SubSeq(sigs, 1, IF Len(sigs) < n THEN Len(sigs) ELSE n)

\* They are the first of those that came, or all of them.
LEMMA KnownShape ==
    ASSUME NEW S, NEW sigs \in Seq(S), NEW n \in 0 .. 2
    PROVE  /\ KnownOf(sigs, n) \in Seq(S) /\ Len(KnownOf(sigs, n)) \in Nat
           /\ Len(KnownOf(sigs, n)) <= Len(sigs) /\ Len(sigs) \in Nat
           /\ \A i \in 1 .. Len(KnownOf(sigs, n)) :
                 i \in 1 .. Len(sigs) /\ KnownOf(sigs, n)[i] = sigs[i]
           /\ ~(Len(sigs) > n) => KnownOf(sigs, n) = sigs
<1> DEFINE m == IF Len(sigs) < n THEN Len(sigs) ELSE n
<1>1. Len(sigs) \in Nat /\ m \in Nat /\ m <= Len(sigs)
  OBVIOUS
<1>2. KnownOf(sigs, n) = SubSeq(sigs, 1, m)
  BY DEF KnownOf
<1>3. ~(Len(sigs) > n) => m = Len(sigs)
  <2>1. Len(sigs) \in Nat /\ n \in Nat
    OBVIOUS
  <2>2. QED
    BY <2>1
<1> HIDE DEF m
<1>4. /\ SubSeq(sigs, 1, m) \in Seq(S) /\ Len(SubSeq(sigs, 1, m)) = m
      /\ \A i \in 1 .. m : SubSeq(sigs, 1, m)[i] = sigs[i]
  BY <1>1
<1>5. m = Len(sigs) => SubSeq(sigs, 1, m) = sigs
  BY <1>1
<1>6. \A i \in 1 .. m : i \in 1 .. Len(sigs)
  BY <1>1
<1>7. QED
  BY <1>1, <1>2, <1>3, <1>4, <1>5, <1>6

\* The client reader takes a signed command: its update fits the list.
LEMMA InvReceiveCommand ==
    ASSUME Inv, ReceiveCommand, UNCHANGED keys
    PROVE  Inv'
<1> DEFINE p == Head(up)
           seen == Seen(Moved(tracked, p.offset), p.acked)
           known == KnownOf(p.sigs, signable)
           result == UnpackAll(chain, known, p.when, seen)
           unknown == Len(p.sigs) > signable
<1>1. /\ up # << >> /\ p.type = "command" /\ up' = Tail(up)
      /\ lastPending' = lastPending /\ nextIndex' = nextIndex
      /\ signable' = signable /\ gate' = gate
      /\ down' = down /\ client' = client /\ sids' = sids /\ trees' = trees
  BY DEF ReceiveCommand, Received, Taken, counts
<1>2. Talk(p) /\ p.type # "configured" /\ p.type # "session"
  BY <1>1 DEF Talk
<1>3. UpdateFits(tracked, p)
  BY <1>1, <1>2, NextFits DEF Fits
<1>4. seen = p.sum
  BY <1>3 DEF UpdateFits
<1>5. /\ tracked' = Updated(tracked, p)
      /\ IF p.sigs = << >>
         THEN /\ UNCHANGED chain
              /\ IF signable > 0 /\ (chain # Null \/ enforce) THEN Refuse ELSE Accept(<< >>)
         ELSE IF chain = Null
         THEN /\ UNCHANGED chain
              /\ IF unknown \/ enforce THEN Refuse ELSE Accept(<< >>)
         ELSE /\ chain' = IF result.ok /\ unknown
                          THEN [result.chain EXCEPT !.broken = TRUE]
                          ELSE result.chain
              /\ IF result.ok /\ ~unknown THEN Accept(p.sigs) ELSE Refuse
      /\ session' = session
  BY <1>3 DEF ReceiveCommand, KnownOf
<1>6. tracked' = After(tracked, p)
  BY <1>2, <1>5 DEF After
<1>7. up \in Seq(Up) /\ Fine(down, up, client.timely, trees) /\ signable \in 0 .. 2
      /\ (trees = 0 => signable = 1)
  BY DEF Inv, Typed, Due
<1>8. PICK f : Holds(f, up, NowOf(down, client, sids), session, chain, accepted,
                     client.timely, trees)
  BY DEF Inv, SessionHeld, Held
<1>9. accepted \in Seq(Link)
  BY <1>8 DEF Holds
<1>10. /\ p.sigs \in Seq(Link \cup {Null})
       /\ \/ \A i \in 1 .. Len(p.sigs) : p.sigs[i] = Null
          \/ \A i \in 1 .. Len(p.sigs) : p.sigs[i] # Null
       /\ session # Null /\ Fair(client.timely, trees) =>
             /\ \A i \in 1 .. Len(p.sigs) : p.sigs[i] = LinkOf(chain, i, p.sum)
                                            /\ p.sigs[i] # Null
             /\ ~chain.broken /\ p.when = "due" /\ Len(p.sigs) <= 1
       /\ session # Null <=> chain # Null
       /\ chain # Null => chain \in Chains
  <2>1. /\ p.sigs \in Seq(Link \cup {Null})
        /\ \/ \A i \in 1 .. Len(p.sigs) : p.sigs[i] = Null
           \/ \A i \in 1 .. Len(p.sigs) : p.sigs[i] # Null
        /\ session # Null <=> chain # Null
        /\ chain # Null => chain \in Chains
    BY <1>1, <1>2, <1>7, <1>8, NextSigned
  <2>2. session # Null /\ Fair(client.timely, trees) =>
           /\ \A i \in 1 .. Len(p.sigs) : p.sigs[i] = LinkOf(chain, i, p.sum)
                                           /\ p.sigs[i] # Null
           /\ ~chain.broken /\ p.when = "due"
           /\ p.type = "command" => Len(p.sigs) <= 1
    BY <1>1, <1>2, <1>7, <1>8, NextSigned
  <2> HIDE DEF p
  <2>3. QED
    BY <1>1, <2>1, <2>2
<1>11. Fair(client.timely, trees) /\ session # Null => ~unknown
  <2>1. Len(p.sigs) \in Nat
    BY <1>10
  <2>2. Fair(client.timely, trees) /\ session # Null => Len(p.sigs) <= 1 /\ signable = 1
    BY <1>7, <1>10 DEF Fair
  <2>3. QED
    BY <2>1, <2>2
<1> HIDE DEF p, seen
<1>12. Holds(Signed(f, p), up', NowOf(down, client, sids), session', chain', accepted',
             client.timely, trees)
  <2>1. CASE p.sigs = << >> \/ chain = Null
    <3>1. chain' = chain /\ accepted' = accepted
      <4>1. accepted \o << >> = accepted
        BY <1>9
      <4>2. QED
        BY <1>5, <2>1, <4>1 DEF Refuse, Accept
    <3>2. CASE chain = Null
      <4>1. session = Null
        BY <1>10, <3>2
      <4>2. Holds(Signed(f, p), Tail(up), NowOf(down, client, sids), session, chain',
                  accepted', client.timely, trees)
        BY <1>1, <1>2, <1>7, <1>8, <3>1, <4>1, HoldsTalk DEF p
      <4>3. QED
        BY <1>1, <1>5, <4>2
    <3>3. CASE chain # Null
      <4>1. Len(p.sigs) = 0 /\ session # Null /\ chain \in Chains
        BY <1>10, <2>1, <3>3
      <4>2. chain.next \in Nat /\ chain.next + Len(p.sigs) = chain.next
        BY <4>1 DEF Chains
      <4>3. Fair(client.timely, trees) => ~chain.broken
        BY <1>10, <4>1
      <4>4. /\ chain' \in Chains /\ chain'.sid = chain.sid
            /\ chain'.broken \/ chain'.next = chain.next
            /\ Fair(client.timely, trees) =>
                  ~chain'.broken /\ chain'.next = chain.next + Len(p.sigs)
            /\ ~chain'.broken => ~chain.broken
        BY <3>1, <4>1, <4>2, <4>3
      <4>5. Holds(Signed(f, p), Tail(up), NowOf(down, client, sids), session, chain',
                  accepted', client.timely, trees)
        BY <1>1, <1>2, <1>7, <1>8, <3>1, <4>1, <4>4, HoldsTalk DEF p
      <4>6. QED
        BY <1>1, <1>5, <4>5
    <3>4. QED
      BY <3>2, <3>3
  <2>2. CASE p.sigs # << >> /\ chain # Null
    <3>1. /\ session # Null /\ chain \in Chains
          /\ chain' = IF result.ok /\ unknown THEN [result.chain EXCEPT !.broken = TRUE]
                      ELSE result.chain
          /\ IF result.ok /\ ~unknown THEN accepted' = accepted \o p.sigs
             ELSE accepted' = accepted
      BY <1>5, <1>10, <2>2 DEF Refuse, Accept
    <3>2. /\ known \in Seq(Link \cup {Null}) /\ Len(known) \in Nat
          /\ Len(known) <= Len(p.sigs) /\ Len(p.sigs) \in Nat
          /\ \A i \in 1 .. Len(known) : i \in 1 .. Len(p.sigs) /\ known[i] = p.sigs[i]
          /\ ~unknown => known = p.sigs
      BY <1>7, <1>10, KnownShape
    <3> HIDE DEF known, unknown
    <3>3. \/ \A i \in 1 .. Len(known) : known[i] = Null
          \/ \A i \in 1 .. Len(known) : known[i] # Null
      BY <1>10, <3>2
    <3>4. /\ result.ok =>
                /\ \A i \in 1 .. Len(known) :
                      known[i] = LinkOf(chain, i, seen) /\ known[i] # Null
                /\ known # << >> => ~chain.broken
                /\ result.chain = [chain EXCEPT !.next = @ + Len(known)]
          /\ ~result.ok => /\ result.chain \in Chains /\ result.chain.sid = chain.sid
                           /\ result.chain.broken \/ result.chain = chain
          /\ (/\ \A i \in 1 .. Len(known) :
                    known[i] = LinkOf(chain, i, seen) /\ known[i] # Null
              /\ p.when = "due" /\ ~chain.broken) => result.ok
      BY <3>1, <3>2, <3>3, UnpackMany
    <3> HIDE DEF result
    <3>5. CASE result.ok /\ ~unknown
      <4>1. known = p.sigs /\ known # << >>
        BY <2>2, <3>2, <3>5
      <4>2. /\ \A i \in 1 .. Len(p.sigs) :
                  p.sigs[i] = LinkOf(chain, i, seen) /\ p.sigs[i] # Null
            /\ chain' = [chain EXCEPT !.next = @ + Len(p.sigs)]
            /\ accepted' = accepted \o p.sigs /\ ~chain.broken
        BY <3>1, <3>4, <3>5, <4>1
      <4>3. Holds(Signed(f, p), Tail(up), NowOf(down, client, sids), session, chain',
                  accepted', client.timely, trees)
        BY <1>1, <1>2, <1>7, <1>8, <3>1, <4>2, HoldsTalk DEF p
      <4>4. QED
        BY <1>1, <1>5, <4>3
    <3>6. CASE ~(result.ok /\ ~unknown)
      <4>1. ~Fair(client.timely, trees)
        <5>1. SUFFICES ASSUME Fair(client.timely, trees) PROVE FALSE
          OBVIOUS
        <5>2. ~unknown /\ known = p.sigs
          BY <1>11, <3>1, <3>2, <5>1 DEF unknown
        <5>3. \A i \in 1 .. Len(known) :
                 known[i] = LinkOf(chain, i, seen) /\ known[i] # Null
          BY <1>4, <1>10, <3>1, <5>1, <5>2
        <5>4. QED
          BY <1>10, <3>1, <3>4, <3>6, <5>1, <5>2, <5>3
      <4>2. /\ chain' \in Chains /\ chain'.sid = chain.sid
            /\ chain'.broken \/ chain'.next = chain.next
            /\ ~chain'.broken => ~chain.broken
        <5>1. CASE result.ok /\ unknown
          <6>1. result.chain \in Chains /\ result.chain.sid = chain.sid
            <7> DEFINE n == Len(known)
            <7>1. n \in Nat /\ result.chain = [chain EXCEPT !.next = @ + n]
              BY <3>2, <3>4, <5>1
            <7> HIDE DEF n
            <7>2. QED
              BY <3>1, <7>1, NextLink
          <6>2. /\ [result.chain EXCEPT !.broken = TRUE] \in Chains
                /\ [result.chain EXCEPT !.broken = TRUE].sid = result.chain.sid
                /\ [result.chain EXCEPT !.broken = TRUE].broken
            <7>1. 0 \in Nat
              OBVIOUS
            <7>2. QED
              BY <6>1, <7>1, NextLink
          <6>3. QED
            BY <3>1, <5>1, <6>1, <6>2
        <5>2. CASE ~result.ok
          BY <3>1, <3>4, <5>2
        <5>3. QED
          BY <3>6, <5>1, <5>2
      <4>3. accepted' = accepted
        BY <3>1, <3>6
      <4>4. Holds(Signed(f, p), Tail(up), NowOf(down, client, sids), session, chain',
                  accepted', client.timely, trees)
        BY <1>1, <1>2, <1>7, <1>8, <3>1, <4>1, <4>2, <4>3, HoldsTalk DEF p
      <4>5. QED
        BY <1>1, <1>5, <4>4
    <3>7. QED
      BY <3>5, <3>6
  <2>3. QED
    BY <2>1, <2>2
<1>13. SessionHeld'
  BY <1>1, <1>12, HeldOn
<1>14. Enforced'
  BY <1>5 DEF Inv, Enforced, enforce
<1>15. gate' = (IF p.type = "configured" THEN "rejoining" ELSE gate)
  BY <1>1, <1>2
<1>16. QED
  BY <1>1, <1>6, <1>13, <1>14, <1>15, ReaderTakes DEF p

----------------------------------------------------------------------------
(* The client.                                                             *)
\* The client sends what does not move its window.
LEMMA AgreePlain ==
    ASSUME NEW list, NEW u \in Seq(Up), NEW c, NEW q, NEW last, NEW next,
           Agree(list, u, c, q, last, next), NEW p \in Up, ~Talk(p), p.type # "ack"
    PROVE  Agree(list, Append(u, p), c, q, last, next)
<1>1. PICK t \in Seq(Tracked) : AgreeAt(t, list, u, c, q, last, next)
  BY DEF Agree
<1>2. Fits(t, p) /\ After(t, p) = t
  BY DEF Fits, After
<1>3. LeadsTo(list, Append(u, p), t)
  BY <1>1, <1>2, LeadsAppend DEF AgreeAt
<1>4. AgreeAt(t, list, Append(u, p), c, q, last, next)
  BY <1>1, <1>3 DEF AgreeAt
<1>5. QED
  BY <1>4 DEF Agree

\* What is sent that is neither said nor a session is not signed.
LEMMA PlainSigned ==
    ASSUME NEW k, NEW p, ~Talk(p), p.type # "session"
    PROVE  Signs(k, p) /\ Signed(k, p) = k
BY DEF Signs, Signed

\* Such packets are of those the client sends.
LEMMA PlainUp ==
    /\ \A o \in Nat : [type |-> "ack", offset |-> o] \in Up
    /\ [type |-> "configured"] \in Up
    /\ \A s, k \in Nat : [type |-> "session", sid |-> s, key |-> k] \in Up
BY DEF Up

\* The client reads a packet, and may answer it.
LEMMA ClientReads ==
    ASSUME Inv, down # << >>, down' = Tail(down),
           \/ up' = up
           \/ \E p \in Up : up' = Append(up, p) /\ ~Talk(p) /\ p.type # "session",
           Shaped(client'), client'.timely = client.timely,
           client'.args = client.args \/ trees # 0,
           ListenerOf(down', client').sid = ListenerOf(down, client).sid,
           ListenerOf(down', client').key = ListenerOf(down, client).key,
           ListenerOf(down', client').link = ListenerOf(down, client).link,
           session' = session, chain' = chain, signable' = signable,
           accepted' = accepted, sids' = sids, trees' = trees, keys' = keys,
           Handshake', InStep'
    PROVE  Inv'
<1>1. /\ up \in Seq(Up) /\ Shaped(client) /\ sids \in Nat /\ trees \in Nat
      /\ signable \in 0 .. 2 /\ Fine(down, up, client.timely, trees)
      /\ trees = 0 => signable = 1 /\ client.args = 1
  BY DEF Inv, Typed, Due
<1>2. PICK D : down \in Seq(D)
  BY DEF Inv, Typed
<1>3. Tail(down) \in Seq(D) /\ Len(Tail(down)) \in Nat /\ Len(down) = Len(Tail(down)) + 1
  BY <1>2
<1>4. up' \in Seq(Up) /\ Len(up') \in Nat /\ Len(up) \in Nat /\ Len(up') <= Len(up) + 1
  <2>1. CASE up' = up
    BY <1>1, <2>1
  <2>2. CASE \E p \in Up : up' = Append(up, p)
    BY <1>1, <2>2, AppendPlaces
  <2>3. QED
    BY <2>1, <2>2
<1>5. Typed'
  BY <1>1, <1>3, <1>4 DEF Typed
<1>6. Room'
  <2>1. Len(down) + Len(up) <= InFlight
    BY DEF Inv, Room
  <2>2. Len(Tail(down)) + Len(up') <= InFlight
    BY <1>3, <1>4, <2>1, Constants
  <2>3. QED
    BY <2>2 DEF Room
<1>7. SessionHeld'
  <2> DEFINE now == NowOf(down, client, sids)
  <2>1. PICK f : Holds(f, up, now, session, chain, accepted, client.timely, trees)
    BY DEF Inv, SessionHeld, Held
  <2>2. NowOf(down', client', sids') = now
    BY DEF NowOf
  <2> HIDE DEF now
  <2>3. Holds(f, up', now, session, chain, accepted, client.timely, trees)
    <3>1. CASE up' = up
      BY <2>1, <3>1
    <3>2. ASSUME NEW p \in Up, up' = Append(up, p), ~Talk(p), p.type # "session"
          PROVE  Holds(f, up', now, session, chain, accepted, client.timely, trees)
      <4>1. Signs(now, p) /\ Signed(now, p) = now
        BY <3>2, PlainSigned
      <4>2. Holds(f, Append(up, p), Signed(now, p), session, chain, accepted,
                  client.timely, trees)
        BY <1>1, <2>1, <4>1, HoldsSay
      <4>3. QED
        BY <3>2, <4>1, <4>2
    <3>3. QED
      BY <3>1, <3>2
  <2>4. Held(f, sids)'
    BY <2>2, <2>3 DEF Held
  <2>5. QED
    BY <2>4 DEF SessionHeld
<1>8. Enforced'
  BY DEF Inv, Enforced, enforce
<1>9. Due'
  <2>1. Fine(Tail(down), up, client.timely, trees)
    BY <1>1, <1>2, FineRead
  <2>2. Fine(Tail(down), up', client.timely, trees)
    <3>1. CASE up' = up
      BY <2>1, <3>1
    <3>2. ASSUME NEW p \in Up, up' = Append(up, p), ~Talk(p)
          PROVE  Fine(Tail(down), up', client.timely, trees)
      <4>1. Fine(Tail(down), Append(up, p), client.timely, trees)
        BY <1>1, <2>1, <3>2, FineSay DEF Talk
      <4>2. QED
        BY <3>2, <4>1
    <3>3. QED
      BY <3>1, <3>2
  <2>3. trees' = 0 => signable' = 1 /\ client'.args = 1
    BY <1>1
  <2>4. QED
    BY <2>2, <2>3 DEF Due
<1>10. QED
  BY <1>5, <1>6, <1>7, <1>8, <1>9 DEF Inv

\* A listener that is not new is the client.
LEMMA NotNew ==
    ASSUME NEW d, NEW c, ~Joins(d)
    PROVE  ListenerOf(d, c) = c /\ InboxOf(d) = d
BY DEF ListenerOf, InboxOf

\* The client reads a message, and may acknowledge it.
LEMMA InvReadsMessage ==
    ASSUME Inv, NEW shown \in BOOLEAN, ClientReadsMessage(shown), UNCHANGED keys
    PROVE  Inv'
<1> DEFINE p == Head(down)
           fresh == p.sig # client.last
           offset == client.offset + IF fresh THEN 1 ELSE 0
           acks == offset > AckAfter
<1>1. /\ down # << >> /\ p.type = "message" /\ down' = Tail(down)
      /\ up' = IF acks THEN Append(up, [type |-> "ack", offset |-> offset]) ELSE up
      /\ client' = [client EXCEPT
            !.index = @ + 1, !.cache = Pushed(@, p.last, p.sig), !.last = p.sig,
            !.window = IF fresh THEN Append(Tail(@), IF shown THEN Entry(p.sig, TRUE) ELSE Null)
                       ELSE @,
            !.offset = IF acks THEN 0 ELSE offset]
      /\ tracked' = tracked /\ lastPending' = lastPending /\ nextIndex' = nextIndex
      /\ session' = session /\ chain' = chain /\ signable' = signable
      /\ gate' = gate /\ accepted' = accepted /\ sids' = sids /\ trees' = trees
  BY DEF ClientReadsMessage, Incoming, Read, state, counts
<1>2. /\ up \in Seq(Up) /\ Shaped(client) /\ Shake(gate, down, up, client.place)
      /\ Agree(tracked, up, ListenerOf(down, client), InboxOf(down), lastPending, nextIndex)
  BY DEF Inv, Typed, Handshake, InStep
<1>3. PICK D : down \in Seq(D)
  BY DEF Inv, Typed
<1>4. /\ Shake(gate, Tail(down), up, client.place) /\ ~Joins(down) /\ ~Joins(Tail(down))
      /\ \A x \in Up : x.type # "configured" =>
            Shake(gate, Tail(down), Append(up, x), client.place)
  BY <1>1, <1>2, <1>3, ShakeRead
<1>5. /\ ListenerOf(down, client) = client /\ InboxOf(down) = down
      /\ ListenerOf(down', client') = client' /\ InboxOf(down') = Tail(down)
  BY <1>1, <1>4, NotNew
<1>6. /\ offset \in Nat /\ offset <= Stride /\ (~acks => offset <= AckAfter)
      /\ client.offset \in Nat
  <2>1. client.offset \in Nat /\ client.offset <= AckAfter
    BY <1>2 DEF Shaped
  <2>2. QED
    BY <2>1, Constants DEF Stride
<1>7. /\ client'.index = client.index + 1 /\ client'.last = p.sig
      /\ client'.window = IF fresh THEN Append(Tail(client.window),
                                               IF shown THEN Entry(p.sig, TRUE) ELSE Null)
                          ELSE client.window
      /\ client'.offset = IF acks THEN 0 ELSE offset
      /\ client'.sid = client.sid /\ client'.key = client.key /\ client'.link = client.link
      /\ client'.args = client.args /\ client'.timely = client.timely
      /\ client'.place = client.place /\ Fields \subseteq DOMAIN client'
  <2>1. Fields \subseteq DOMAIN client
    BY <1>2 DEF Shaped
  <2> HIDE DEF p, fresh, offset, acks
  <2>2. QED
    BY <1>1, <2>1 DEF Fields
<1>8. Shaped(client')
  <2> HIDE DEF offset, acks
  <2>1. client'.offset \in Nat /\ client'.offset <= AckAfter
    BY <1>6, <1>7, Constants
  <2>2. QED
    BY <1>2, <1>7, <2>1 DEF Shaped
<1> DEFINE x == [type |-> "ack", offset |-> offset]
<1>9. x \in Up /\ x.type = "ack" /\ x.offset = offset
  BY <1>6, PlainUp
<1>10. up' = up \/ up' = Append(up, x)
  BY <1>1
<1>11. \/ up' = up
       \/ \E y \in Up : up' = Append(up, y) /\ ~Talk(y) /\ y.type # "session"
  BY <1>9, <1>10 DEF Talk
<1>12. Handshake'
  <2>1. Shake(gate, Tail(down), up', client.place)
    BY <1>4, <1>9, <1>10
  <2>2. QED
    BY <1>1, <1>7, <2>1 DEF Handshake
<1>13. InStep'
  <2> DEFINE c1 == [offset |-> offset, last |-> p.sig, index |-> client.index + 1,
                    window |-> client'.window]
  <2>1. /\ c1.offset = offset /\ c1.last = p.sig /\ c1.index = client.index + 1
        /\ c1.window = client'.window
    OBVIOUS
  <2> HIDE DEF c1
  <2>2. IF p.sig = client.last THEN c1.offset = client.offset /\ c1.window = client.window
        ELSE /\ c1.offset = client.offset + 1
             /\ \/ c1.window = Append(Tail(client.window), Null)
                \/ c1.window = Append(Tail(client.window), Entry(p.sig, TRUE))
    <3>1. CASE p.sig = client.last
      <4>1. offset = client.offset /\ c1.window = client.window
        BY <1>6, <1>7, <2>1, <3>1
      <4>2. QED
        BY <2>1, <3>1, <4>1
    <3>2. CASE p.sig # client.last
      <4>1. offset = client.offset + 1
        BY <3>2
      <4>2. c1.window = Append(Tail(client.window), IF shown THEN Entry(p.sig, TRUE) ELSE Null)
        BY <1>7, <2>1, <3>2
      <4>3. QED
        BY <2>1, <3>2, <4>1, <4>2
    <3>3. QED
      BY <3>1, <3>2
  <2>3. \A c2 : ( /\ c2.last = p.sig /\ c2.index = client.index + 1
                  /\ IF p.sig = client.last
                     THEN c2.offset = client.offset /\ c2.window = client.window
                     ELSE /\ c2.offset = client.offset + 1
                          /\ \/ c2.window = Append(Tail(client.window), Null)
                             \/ c2.window = Append(Tail(client.window), Entry(p.sig, TRUE)) )
                => Agree(tracked, up, c2, Tail(down), lastPending, nextIndex)
    <3>1. Agree(tracked, up, client, down, lastPending, nextIndex) /\ up \in Seq(Up)
      BY <1>2, <1>5
    <3>2. down # << >> /\ Head(down).type = "message"
      BY <1>1
    <3>3. QED
      BY <1>3, <3>1, <3>2, AgreeMessage
  <2> HIDE DEF p
  <2>4. Agree(tracked, up, c1, Tail(down), lastPending, nextIndex) /\ Tail(down) \in Seq(D)
    <3>1. Agree(tracked, up, c1, Tail(down), lastPending, nextIndex)
      BY <2>1, <2>2, <2>3
    <3>2. down # << >>
      BY <1>1
    <3>3. QED
      BY <1>3, <3>1, <3>2
  <2>5. Agree(tracked, up', client', Tail(down), lastPending, nextIndex)
    <3>1. CASE acks
      <4>1. up' = Append(up, x) /\ client'.offset = 0
        BY <1>1, <1>7, <3>1
      <4>2. c1.offset <= Stride /\ x.offset = c1.offset /\ client'.last = c1.last
            /\ client'.index = c1.index /\ client'.window = c1.window
        BY <1>6, <1>7, <1>9, <2>1
      <4> HIDE DEF x, acks, offset
      <4>3. Agree(tracked, Append(up, x), client', Tail(down), lastPending, nextIndex)
        BY <1>2, <1>9, <2>4, <4>1, <4>2, AgreeAck
      <4>4. QED
        BY <4>1, <4>3
    <3>2. CASE ~acks
      <4>1. up' = up /\ client'.offset = c1.offset
        BY <1>1, <1>7, <2>1, <3>2
      <4>2. client'.last = p.sig /\ client'.index = client.index + 1
            /\ client'.window = c1.window
        BY <1>7, <2>1
      <4>3. IF p.sig = client.last
            THEN client'.offset = client.offset /\ client'.window = client.window
            ELSE /\ client'.offset = client.offset + 1
                 /\ \/ client'.window = Append(Tail(client.window), Null)
                    \/ client'.window = Append(Tail(client.window), Entry(p.sig, TRUE))
        BY <2>2, <4>1, <4>2
      <4>4. Agree(tracked, up, client', Tail(down), lastPending, nextIndex)
        BY <2>3, <4>2, <4>3
      <4>5. QED
        BY <4>1, <4>4
    <3>3. QED
      BY <3>1, <3>2
  <2>6. QED
    BY <1>1, <1>5, <2>5 DEF InStep
<1>14. /\ ListenerOf(down', client').sid = ListenerOf(down, client).sid
       /\ ListenerOf(down', client').key = ListenerOf(down, client).key
       /\ ListenerOf(down', client').link = ListenerOf(down, client).link
  BY <1>5, <1>7
<1> HIDE DEF p, fresh, offset, acks, x
<1>15. QED
  BY <1>1, <1>7, <1>8, <1>11, <1>12, <1>13, <1>14, ClientReads

\* The client reads that a message was taken back.
LEMMA InvReadsDelete ==
    ASSUME Inv, ClientReadsDelete, UNCHANGED keys
    PROVE  Inv'
<1> DEFINE sig == Head(down).sig
           taken == [i \in 1 .. Count |->
                        IF client.window[i] # Null /\ client.window[i].pending
                           /\ client.window[i].sig = sig
                        THEN Null ELSE client.window[i]]
<1>1. /\ down # << >> /\ Head(down).type = "delete" /\ down' = Tail(down) /\ up' = up
      /\ client' = [client EXCEPT !.window = taken]
      /\ tracked' = tracked /\ lastPending' = lastPending /\ nextIndex' = nextIndex
      /\ session' = session /\ chain' = chain /\ signable' = signable
      /\ gate' = gate /\ accepted' = accepted /\ sids' = sids /\ trees' = trees
  BY DEF ClientReadsDelete, Incoming, Read, state, counts
<1>2. /\ up \in Seq(Up) /\ Shaped(client) /\ Shake(gate, down, up, client.place)
      /\ Agree(tracked, up, ListenerOf(down, client), InboxOf(down), lastPending, nextIndex)
  BY DEF Inv, Typed, Handshake, InStep
<1>3. PICK D : down \in Seq(D)
  BY DEF Inv, Typed
<1>4. Shake(gate, Tail(down), up, client.place) /\ ~Joins(down) /\ ~Joins(Tail(down))
  BY <1>1, <1>2, <1>3, ShakeRead
<1>5. /\ ListenerOf(down, client) = client /\ InboxOf(down) = down
      /\ ListenerOf(down', client') = client' /\ InboxOf(down') = Tail(down)
  BY <1>1, <1>4, NotNew
<1>6. /\ client'.window = taken
      /\ client'.index = client.index /\ client'.last = client.last
      /\ client'.offset = client.offset
      /\ client'.sid = client.sid /\ client'.key = client.key /\ client'.link = client.link
      /\ client'.args = client.args /\ client'.timely = client.timely
      /\ client'.place = client.place /\ Fields \subseteq DOMAIN client'
  <2>1. Fields \subseteq DOMAIN client
    BY <1>2 DEF Shaped
  <2> HIDE DEF taken
  <2>2. QED
    BY <1>1, <2>1 DEF Fields
<1>7. Shaped(client')
  BY <1>2, <1>6 DEF Shaped
<1>8. Handshake'
  BY <1>1, <1>4, <1>6 DEF Handshake
<1>9. InStep'
  <2>1. Agree(tracked, up, client, down, lastPending, nextIndex)
    BY <1>2, <1>5
  <2>2. client.window \in Seq(Tracked) /\ Len(client.window) = Count
    BY <1>2, <1>3, <2>1, AgreeRoom
  <2>3. Null \in Tracked /\ Count \in Nat
    BY Constants DEF Tracked
  <2>4. /\ \A i \in 1 .. Count : client.window[i] \in Tracked
        /\ \A i \in 1 .. Count : taken[i] \in Tracked
        /\ \A i \in 1 .. Count : \/ taken[i] = client.window[i]
                                 \/ /\ client.window[i] # Null /\ client.window[i].pending
                                    /\ taken[i] = Null
    <3>1. \A i \in 1 .. Count : client.window[i] \in Tracked
      BY <2>2
    <3>2. QED
      BY <2>3, <3>1
  <2>5. taken \in [1 .. Count -> Tracked]
    BY <2>4
  <2> HIDE DEF taken
  <2>6. taken \in Seq(Tracked) /\ Len(taken) = Count
    BY <2>3, <2>5
  <2>7. Agree(tracked, up, client', down, lastPending, nextIndex)
    BY <1>2, <1>6, <2>1, <2>4, <2>6, AgreeForget
  <2>8. Agree(tracked, up, client', Tail(down), lastPending, nextIndex)
    BY <1>1, <1>2, <1>3, <2>7, AgreeIgnored
  <2>9. QED
    BY <1>1, <1>5, <2>8 DEF InStep
<1>10. /\ ListenerOf(down', client').sid = ListenerOf(down, client).sid
       /\ ListenerOf(down', client').key = ListenerOf(down, client).key
       /\ ListenerOf(down', client').link = ListenerOf(down, client).link
  BY <1>5, <1>6
<1> HIDE DEF taken, sig
<1>11. QED
  BY <1>1, <1>6, <1>7, <1>8, <1>9, <1>10, ClientReads

\* The client reads a command tree.
LEMMA InvReadsCommands ==
    ASSUME Inv, Incoming("commands"), client' = [client EXCEPT !.args = Head(down).args],
           UNCHANGED up, Read, UNCHANGED <<state, gate, accepted, outcome, counts>>,
           UNCHANGED keys
    PROVE  Inv'
<1>1. /\ down # << >> /\ Head(down).type = "commands" /\ down' = Tail(down) /\ up' = up
      /\ client' = [client EXCEPT !.args = Head(down).args]
      /\ tracked' = tracked /\ lastPending' = lastPending /\ nextIndex' = nextIndex
      /\ session' = session /\ chain' = chain /\ signable' = signable
      /\ gate' = gate /\ accepted' = accepted /\ sids' = sids /\ trees' = trees
  BY DEF Incoming, Read, state, counts
<1>2. /\ up \in Seq(Up) /\ Shaped(client) /\ Shake(gate, down, up, client.place)
      /\ Agree(tracked, up, ListenerOf(down, client), InboxOf(down), lastPending, nextIndex)
      /\ Fine(down, up, client.timely, trees)
  BY DEF Inv, Typed, Handshake, InStep, Due
<1>3. PICK D : down \in Seq(D)
  BY DEF Inv, Typed
<1>4. Shake(gate, Tail(down), up, client.place) /\ ~Joins(down) /\ ~Joins(Tail(down))
  BY <1>1, <1>2, <1>3, ShakeRead
<1>5. /\ ListenerOf(down, client) = client /\ InboxOf(down) = down
      /\ ListenerOf(down', client') = client' /\ InboxOf(down') = Tail(down)
  BY <1>1, <1>4, NotNew
<1>6. Head(down).args \in 0 .. 2 /\ trees # 0
  BY <1>1, <1>2, <1>3, FineRead
<1>7. /\ client'.window = client.window /\ client'.args = Head(down).args
      /\ client'.index = client.index /\ client'.last = client.last
      /\ client'.offset = client.offset
      /\ client'.sid = client.sid /\ client'.key = client.key /\ client'.link = client.link
      /\ client'.timely = client.timely
      /\ client'.place = client.place /\ Fields \subseteq DOMAIN client'
  <2>1. Fields \subseteq DOMAIN client
    BY <1>2 DEF Shaped
  <2>2. QED
    BY <1>1, <2>1 DEF Fields
<1>8. Shaped(client')
  BY <1>2, <1>6, <1>7 DEF Shaped
<1>9. Handshake'
  BY <1>1, <1>4, <1>7 DEF Handshake
<1>10. InStep'
  <2>1. Agree(tracked, up, client, Tail(down), lastPending, nextIndex)
    <3>1. Agree(tracked, up, client, down, lastPending, nextIndex)
      BY <1>2, <1>5
    <3>2. Head(down).type # "message"
      BY <1>1
    <3>3. QED
      BY <1>1, <1>2, <1>3, <3>1, <3>2, AgreeIgnored
  <2>2. Agree(tracked, up, client', Tail(down), lastPending, nextIndex)
    BY <1>7, <2>1 DEF Agree, AgreeAt
  <2>3. QED
    BY <1>1, <1>5, <2>2 DEF InStep
<1>11. /\ ListenerOf(down', client').sid = ListenerOf(down, client).sid
       /\ ListenerOf(down', client').key = ListenerOf(down, client).key
       /\ ListenerOf(down', client').link = ListenerOf(down, client).link
  BY <1>5, <1>7
<1>12. QED
  BY <1>1, <1>6, <1>7, <1>8, <1>9, <1>10, <1>11, ClientReads

\* The client reads the request to reconfigure, and answers it.
LEMMA InvReadsStart ==
    ASSUME Inv, Incoming("start_configuration"),
           client' = [client EXCEPT !.place = "configuration"],
           up' = Append(up, [type |-> "configured"]),
           Read, UNCHANGED <<state, gate, accepted, outcome, counts>>, UNCHANGED keys
    PROVE  Inv'
<1> DEFINE x == [type |-> "configured"]
<1>1. /\ down # << >> /\ Head(down).type = "start_configuration" /\ down' = Tail(down)
      /\ up' = Append(up, x)
      /\ client' = [client EXCEPT !.place = "configuration"]
      /\ tracked' = tracked /\ lastPending' = lastPending /\ nextIndex' = nextIndex
      /\ session' = session /\ chain' = chain /\ signable' = signable
      /\ gate' = gate /\ accepted' = accepted /\ sids' = sids /\ trees' = trees
  BY DEF Incoming, Read, state, counts
<1>2. x \in Up /\ x.type = "configured" /\ ~Talk(x)
  BY PlainUp DEF Talk
<1> HIDE DEF x
<1>3. /\ up \in Seq(Up) /\ Shaped(client) /\ Shake(gate, down, up, client.place)
      /\ Agree(tracked, up, ListenerOf(down, client), InboxOf(down), lastPending, nextIndex)
  BY DEF Inv, Typed, Handshake, InStep
<1>4. PICK D : down \in Seq(D)
  BY DEF Inv, Typed
<1>5. /\ Shake(gate, Tail(down), Append(up, x), "configuration")
      /\ ~Joins(down) /\ ~Joins(Tail(down))
  BY <1>1, <1>2, <1>3, <1>4, ShakeStart
<1>6. /\ ListenerOf(down, client) = client /\ InboxOf(down) = down
      /\ ListenerOf(down', client') = client' /\ InboxOf(down') = Tail(down)
  BY <1>1, <1>5, NotNew
<1>7. /\ client'.window = client.window /\ client'.args = client.args
      /\ client'.index = client.index /\ client'.last = client.last
      /\ client'.offset = client.offset
      /\ client'.sid = client.sid /\ client'.key = client.key /\ client'.link = client.link
      /\ client'.timely = client.timely
      /\ client'.place = "configuration" /\ Fields \subseteq DOMAIN client'
  <2>1. Fields \subseteq DOMAIN client
    BY <1>3 DEF Shaped
  <2>2. QED
    BY <1>1, <2>1 DEF Fields
<1>8. Shaped(client')
  BY <1>3, <1>7 DEF Shaped
<1>9. Handshake'
  BY <1>1, <1>5, <1>7 DEF Handshake
<1>10. InStep'
  <2>1. Agree(tracked, up, client, Tail(down), lastPending, nextIndex)
    <3>1. Agree(tracked, up, client, down, lastPending, nextIndex)
      BY <1>3, <1>6
    <3>2. Head(down).type # "message"
      BY <1>1
    <3>3. QED
      BY <1>1, <1>3, <1>4, <3>1, <3>2, AgreeIgnored
  <2>2. Agree(tracked, up, client', Tail(down), lastPending, nextIndex)
    BY <1>7, <2>1 DEF Agree, AgreeAt
  <2>3. Agree(tracked, Append(up, x), client', Tail(down), lastPending, nextIndex)
    BY <1>2, <1>3, <2>2, AgreePlain
  <2>4. QED
    BY <1>1, <1>6, <2>3 DEF InStep
<1>11. /\ ListenerOf(down', client').sid = ListenerOf(down, client).sid
       /\ ListenerOf(down', client').key = ListenerOf(down, client).key
       /\ ListenerOf(down', client').link = ListenerOf(down, client).link
  BY <1>6, <1>7
<1>12. \E y \in Up : up' = Append(up, y) /\ ~Talk(y) /\ y.type # "session"
  BY <1>1, <1>2
<1>13. QED
  BY <1>1, <1>7, <1>8, <1>9, <1>10, <1>11, <1>12, ClientReads

\* The client reads the login: it is the new listener.
LEMMA InvReadsLogin ==
    ASSUME Inv, Incoming("login"),
           client' = NewListener(client.key, client.args, client.timely), UNCHANGED up,
           Read, UNCHANGED <<state, gate, accepted, outcome, counts>>, UNCHANGED keys
    PROVE  Inv'
<1>1. /\ down # << >> /\ Head(down).type = "login" /\ down' = Tail(down) /\ up' = up
      /\ client' = NewListener(client.key, client.args, client.timely)
      /\ tracked' = tracked /\ lastPending' = lastPending /\ nextIndex' = nextIndex
      /\ session' = session /\ chain' = chain /\ signable' = signable
      /\ gate' = gate /\ accepted' = accepted /\ sids' = sids /\ trees' = trees
  BY DEF Incoming, Read, state, counts
<1>2. /\ Shaped(client) /\ up \in Seq(Up) /\ Shake(gate, down, up, client.place)
      /\ Agree(tracked, up, ListenerOf(down, client), InboxOf(down), lastPending, nextIndex)
  BY DEF Inv, Typed, Handshake, InStep
<1>3. PICK D : down \in Seq(D)
  BY DEF Inv, Typed
<1>4. Shake(gate, Tail(down), up, "play") /\ ~Joins(Tail(down)) /\ Joins(down)
  BY <1>1, <1>2, <1>3, ShakeLogin
<1>5. /\ ListenerOf(down, client) = client' /\ InboxOf(down) = Tail(down)
      /\ ListenerOf(down', client') = client' /\ InboxOf(down') = Tail(down)
  BY <1>1, <1>4 DEF ListenerOf, InboxOf
<1>6. /\ Shaped(client') /\ client'.args = client.args /\ client'.timely = client.timely
      /\ client'.place = "play"
  <2>1. client.key \in Nat /\ client.args \in 0 .. 2 /\ client.timely \in BOOLEAN
    BY <1>2 DEF Shaped
  <2>2. QED
    BY <1>1, <2>1, NewFields
<1>7. Handshake'
  BY <1>1, <1>4, <1>6 DEF Handshake
<1>8. InStep'
  BY <1>1, <1>2, <1>5 DEF InStep
<1>9. ListenerOf(down', client') = ListenerOf(down, client)
  BY <1>5
<1>10. QED
  BY <1>1, <1>6, <1>7, <1>8, <1>9, ClientReads

\* The client reads any of the three.
LEMMA InvReadsOther ==
    ASSUME Inv, ClientReadsOther, UNCHANGED keys
    PROVE  Inv'
<1>1. CASE /\ Incoming("commands")
           /\ client' = [client EXCEPT !.args = Head(down).args] /\ UNCHANGED up
  BY <1>1, InvReadsCommands DEF ClientReadsOther
<1>2. CASE /\ Incoming("start_configuration")
           /\ client' = [client EXCEPT !.place = "configuration"]
           /\ up' = Append(up, [type |-> "configured"])
  BY <1>2, InvReadsStart DEF ClientReadsOther
<1>3. CASE /\ Incoming("login")
           /\ client' = NewListener(client.key, client.args, client.timely) /\ UNCHANGED up
  BY <1>3, InvReadsLogin DEF ClientReadsOther
<1>4. QED
  BY <1>1, <1>2, <1>3 DEF ClientReadsOther

\* A client in play is the listener that signs.
LEMMA InPlay ==
    ASSUME Inv, client.place = "play"
    PROVE  /\ ~Joins(down) /\ ListenerOf(down, client) = client /\ InboxOf(down) = down
           /\ client.sid \in Nat /\ client.key \in Nat /\ client.link \in Nat
           /\ client.offset \in Nat /\ client.offset <= AckAfter
           /\ sids \in Nat /\ client.sid <= sids
           /\ NowOf(down, client, sids) = Signer(client.sid, client.key, client.link, sids)
           /\ NowOf(down, client, sids) \in Signers
           /\ NowOf(down, client, sids).sid = client.sid
           /\ NowOf(down, client, sids).key = client.key
           /\ NowOf(down, client, sids).link = client.link
           /\ NowOf(down, client, sids).top = sids
           /\ client.window \in Seq(Tracked) /\ Len(client.window) = Count
           /\ Agree(tracked, up, client, down, lastPending, nextIndex)
<1>1. /\ up \in Seq(Up) /\ Shaped(client) /\ sids \in Nat
      /\ Shake(gate, down, up, client.place)
      /\ Agree(tracked, up, ListenerOf(down, client), InboxOf(down), lastPending, nextIndex)
  BY DEF Inv, Typed, Handshake, InStep
<1>2. PICK D : down \in Seq(D)
  BY DEF Inv, Typed
<1>3. ~Joins(down)
  <2>1. [type |-> "ack", offset |-> 0] \in Up
    BY PlainUp
  <2>2. [type |-> "ack", offset |-> 0].type # "configured"
    OBVIOUS
  <2>3. QED
    BY <1>1, <1>2, <2>1, <2>2, ShakeSay
<1>4. ListenerOf(down, client) = client /\ InboxOf(down) = down
  BY <1>3, NotNew
<1>5. /\ client.sid \in Nat /\ client.key \in Nat /\ client.link \in Nat
      /\ client.offset \in Nat /\ client.offset <= AckAfter
  BY <1>1 DEF Shaped
<1>6. Agree(tracked, up, client, down, lastPending, nextIndex)
  BY <1>1, <1>4
<1>7. client.window \in Seq(Tracked) /\ Len(client.window) = Count
  BY <1>1, <1>2, <1>6, AgreeRoom
<1>8. NowOf(down, client, sids) = Signer(client.sid, client.key, client.link, sids)
  BY <1>4 DEF NowOf
<1>9. client.sid <= sids
  <2>1. PICK f : Holds(f, up, NowOf(down, client, sids), session, chain, accepted,
                       client.timely, trees)
    BY DEF Inv, SessionHeld, Held
  <2>2. NowOf(down, client, sids) \in Signers
    BY <1>1, <2>1, SignsBounds DEF Holds
  <2>3. NowOf(down, client, sids).sid <= NowOf(down, client, sids).top
    BY <2>2 DEF Signers
  <2>4. NowOf(down, client, sids).sid = client.sid /\ NowOf(down, client, sids).top = sids
    BY <1>8 DEF Signer
  <2>5. QED
    BY <2>3, <2>4
<1>10. /\ NowOf(down, client, sids) \in Signers
       /\ NowOf(down, client, sids).sid = client.sid
       /\ NowOf(down, client, sids).key = client.key
       /\ NowOf(down, client, sids).link = client.link
       /\ NowOf(down, client, sids).top = sids
  <2>1. ListenerOf(down, client).sid <= sids
    BY <1>4, <1>9
  <2>2. QED
    BY <1>1, <1>4, <2>1, NowTyped
<1>11. QED
  BY <1>1, <1>3, <1>4, <1>5, <1>6, <1>7, <1>8, <1>9, <1>10

\* The client in play sends something.
LEMMA ClientSends ==
    ASSUME Inv, client.place = "play", Len(down \o up) < InFlight,
           NEW p \in Up, p.type # "configured", up' = Append(up, p), down' = down,
           Shaped(client'), client'.place = client.place, client'.args = client.args,
           client'.timely = TRUE => client.timely = TRUE,
           Talk(p) /\ client'.timely = TRUE => p.when = "due",
           p.type = "command" /\ trees = 0 => Len(p.sigs) <= 1,
           Signs(NowOf(down, client, sids), p),
           NowOf(down', client', sids') = Signed(NowOf(down, client, sids), p),
           sids' \in Nat, trees' = trees, gate' = gate, keys' = keys, session' = session,
           chain' = chain, signable' = signable, accepted' = accepted,
           Agree(tracked', up', client', down', lastPending', nextIndex')
    PROVE  Inv'
<1>1. /\ up \in Seq(Up) /\ Shaped(client) /\ trees \in Nat /\ signable \in 0 .. 2
      /\ Shake(gate, down, up, client.place) /\ Fine(down, up, client.timely, trees)
      /\ trees = 0 => signable = 1 /\ client.args = 1
  BY DEF Inv, Typed, Handshake, Due
<1>2. PICK D : down \in Seq(D)
  BY DEF Inv, Typed
<1>3. ~Joins(down)
  BY InPlay
<1>4. ListenerOf(down', client') = client' /\ InboxOf(down') = down'
  BY <1>3, NotNew
<1>5. Append(up, p) \in Seq(Up) /\ Len(Append(up, p)) = Len(up) + 1 /\ Len(up) \in Nat
  BY <1>1, AppendPlaces
<1>6. Typed'
  BY <1>1, <1>2, <1>5 DEF Typed
<1>7. Handshake'
  <2>1. Shake(gate, down, Append(up, p), client.place)
    BY <1>1, <1>2, ShakeSay
  <2>2. QED
    BY <2>1 DEF Handshake
<1>8. Room'
  <2>1. Len(down \o up) = Len(down) + Len(up) /\ Len(down) \in Nat
    BY <1>1, <1>2, RoomFor
  <2>2. Len(down) + Len(Append(up, p)) <= InFlight
    BY <1>5, <2>1, Constants
  <2>3. QED
    BY <2>2 DEF Room
<1>9. InStep'
  BY <1>4 DEF InStep
<1>10. SessionHeld'
  <2>1. PICK f : Holds(f, up, NowOf(down, client, sids), session, chain, accepted,
                       client.timely, trees)
    BY DEF Inv, SessionHeld, Held
  <2>2. Fair(client'.timely, trees) => Fair(client.timely, trees)
    BY DEF Fair
  <2>3. Holds(f, Append(up, p), Signed(NowOf(down, client, sids), p), session, chain,
              accepted, client'.timely, trees)
    BY <1>1, <2>1, <2>2, HoldsSay
  <2>4. Held(f, sids)'
    BY <2>3 DEF Held
  <2>5. QED
    BY <2>4 DEF SessionHeld
<1>11. Enforced'
  BY DEF Inv, Enforced, enforce
<1>12. Due'
  <2>1. Fine(down, Append(up, p), client'.timely, trees)
    BY <1>1, FineSay
  <2>2. trees' = 0 => signable' = 1 /\ client'.args = 1
    BY <1>1
  <2>3. QED
    BY <2>1, <2>2 DEF Due
<1>13. QED
  BY <1>6, <1>7, <1>8, <1>9, <1>10, <1>11, <1>12 DEF Inv

\* The client sends a chat session.
LEMMA InvClientSession ==
    ASSUME Inv, NEW key \in {client.key, client.key + 1}, ClientSession(key),
           UNCHANGED keys
    PROVE  Inv'
<1> DEFINE p == [type |-> "session", sid |-> sids + 1, key |-> key]
<1>1. /\ client.place = "play" /\ Len(down \o up) < InFlight
      /\ key = client.key => client.sid = 0
      /\ sids' = sids + 1 /\ up' = Append(up, p) /\ down' = down
      /\ client' = [client EXCEPT !.sid = sids + 1, !.key = key, !.link = 0]
      /\ tracked' = tracked /\ lastPending' = lastPending /\ nextIndex' = nextIndex
      /\ session' = session /\ chain' = chain /\ signable' = signable
      /\ gate' = gate /\ accepted' = accepted /\ trees' = trees
  BY DEF ClientSession, state
<1>2. /\ ~Joins(down) /\ sids \in Nat /\ client.key \in Nat
      /\ NowOf(down, client, sids).sid = client.sid
      /\ NowOf(down, client, sids).key = client.key
      /\ NowOf(down, client, sids).top = sids
      /\ Agree(tracked, up, client, down, lastPending, nextIndex)
  BY <1>1, InPlay
<1>3. Shaped(client) /\ up \in Seq(Up)
  BY DEF Inv, Typed
<1>4. sids + 1 \in Nat /\ key \in Nat /\ client.key <= key
  BY <1>2
<1>5. /\ p \in Up /\ p.type = "session" /\ ~Talk(p) /\ p.sid = sids + 1 /\ p.key = key
  BY <1>4, PlainUp DEF Talk
<1> HIDE DEF p
<1>6. /\ client'.window = client.window /\ client'.args = client.args
      /\ client'.index = client.index /\ client'.last = client.last
      /\ client'.offset = client.offset /\ client'.timely = client.timely
      /\ client'.sid = sids + 1 /\ client'.key = key /\ client'.link = 0
      /\ client'.place = client.place /\ Fields \subseteq DOMAIN client'
  <2>1. Fields \subseteq DOMAIN client
    BY <1>3 DEF Shaped
  <2>2. QED
    BY <1>1, <2>1 DEF Fields
<1>7. Shaped(client')
  BY <1>3, <1>4, <1>6 DEF Shaped
<1>8. Signs(NowOf(down, client, sids), p)
  <2>1. client.sid # 0 => client.key < key
    BY <1>1, <1>2
  <2>2. QED
    BY <1>2, <1>4, <1>5, <2>1 DEF Signs
<1>9. NowOf(down', client', sids') = Signed(NowOf(down, client, sids), p)
  <2>1. Signed(NowOf(down, client, sids), p) = Signer(sids + 1, key, 0, sids + 1)
    BY <1>5 DEF Signed
  <2>2. ListenerOf(down', client') = client'
    BY <1>1, <1>2, NotNew
  <2>3. QED
    BY <1>1, <1>6, <2>1, <2>2 DEF NowOf
<1>10. Agree(tracked', up', client', down', lastPending', nextIndex')
  <2>1. Agree(tracked, Append(up, p), client, down, lastPending, nextIndex)
    BY <1>2, <1>3, <1>5, AgreePlain
  <2>2. Agree(tracked, Append(up, p), client', down, lastPending, nextIndex)
    BY <1>6, <2>1 DEF Agree, AgreeAt
  <2>3. QED
    BY <1>1, <2>2
<1>11. p.type # "configured" /\ p.type # "command"
  BY <1>5
<1>12. sids' \in Nat
  BY <1>1, <1>4
<1>13. QED
  BY <1>1, <1>5, <1>6, <1>7, <1>8, <1>9, <1>10, <1>11, <1>12, ClientSends

\* What a window's entries are signed with is one of the lists.
LEMMA SeenTyped ==
    ASSUME NEW w \in Seq(Tracked), Len(w) = Count, NEW acked,
           acked = {i \in 1 .. Count : w[i] # Null}
    PROVE  acked \subseteq 1 .. Count /\ Seen(w, acked) \in Lists
<1>1. acked \in SUBSET (1 .. Count)
  OBVIOUS
<1>2. \A i \in acked : w[i].sig \in Sigs
  <2>1. \A i \in 1 .. Count : w[i] \in Tracked
    OBVIOUS
  <2>2. \A i \in acked : w[i] \in [sig : Sigs, pending : BOOLEAN]
    BY <2>1 DEF Tracked
  <2>3. QED
    BY <2>2
<1> DEFINE at == [i \in acked |-> w[i].sig]
<1>3. at \in [acked -> Sigs]
  BY <1>2
<1>4. Seen(w, acked) = InOrder(at)
  BY DEF Seen
<1> HIDE DEF at
<1>5. at \in UNION {[a -> Sigs] : a \in SUBSET (1 .. Count)}
  BY <1>1, <1>3
<1>6. InOrder(at) \in Lists
  BY <1>5 DEF Lists
<1>7. QED
  BY <1>1, <1>4, <1>6

\* The i-th signature of a client with a session or without one, and the
\* first n.
SigOf(sid, link, i, sum) ==
    IF sid = 0 THEN Null ELSE [sid |-> sid, index |-> link + i - 1, last |-> sum]
SigsOf(sid, link, n, sum) == [i \in 1 .. n |-> SigOf(sid, link, i, sum)]

\* They are as many as there is to sign.
LEMMA SigsTyped ==
    ASSUME NEW sid \in Nat, NEW link \in Nat, NEW n \in Nat, NEW sum \in Lists
    PROVE  /\ SigsOf(sid, link, n, sum) \in Seq(Link \cup {Null})
           /\ Len(SigsOf(sid, link, n, sum)) = n
           /\ \A i \in 1 .. n : SigsOf(sid, link, n, sum)[i] = SigOf(sid, link, i, sum)
<1>1. \A i \in 1 .. n : SigOf(sid, link, i, sum) \in Link \cup {Null}
  <2>1. SUFFICES ASSUME NEW i \in 1 .. n PROVE SigOf(sid, link, i, sum) \in Link \cup {Null}
    OBVIOUS
  <2>2. link + i - 1 \in Nat
    OBVIOUS
  <2>3. [sid |-> sid, index |-> link + i - 1, last |-> sum] \in Link
    BY <2>2 DEF Link
  <2>4. QED
    BY <2>3 DEF SigOf
<1>2. /\ SigsOf(sid, link, n, sum) \in [1 .. n -> Link \cup {Null}]
      /\ \A i \in 1 .. n : SigsOf(sid, link, n, sum)[i] = SigOf(sid, link, i, sum)
  BY <1>1 DEF SigsOf
<1>3. QED
  BY <1>2

\* A message is of what the client sends.
LEMMA SaysTyped ==
    ASSUME NEW type \in {"chat", "command"}, NEW offset \in Nat,
           NEW acked, acked \subseteq 1 .. Count, NEW sum \in Lists,
           NEW sigs \in Seq(Link \cup {Null}), NEW when \in Times
    PROVE  [type |-> type, offset |-> offset, acked |-> acked, sum |-> sum,
            sigs |-> sigs, when |-> when] \in Up
BY DEF Up, Says

\* The client says something, signed or not.
LEMMA InvClientSays ==
    ASSUME Inv, NEW type \in {"chat", "command"}, NEW when \in Times,
           ClientSays(type, when), UNCHANGED keys
    PROVE  Inv'
<1> DEFINE acked == {i \in 1 .. Count : client.window[i] # Null}
           sum == Seen(client.window, acked)
           number == IF type = "chat" THEN 1 ELSE IF client.sid = 0 THEN 0 ELSE client.args
           sigs == SigsOf(client.sid, client.link, number, sum)
           rest == [i \in 1 .. Count |-> IF client.window[i] = Null THEN Null
                                         ELSE Entry(client.window[i].sig, FALSE)]
           p == [type |-> type, offset |-> client.offset, acked |-> acked, sum |-> sum,
                 sigs |-> sigs, when |-> when]
<1>1. /\ client.place = "play" /\ Len(down \o up) < InFlight
      /\ up' = Append(up, p) /\ down' = down
      /\ client' = [client EXCEPT
            !.offset = 0, !.timely = @ /\ when = "due",
            !.link = IF client.sid = 0 THEN @ ELSE @ + number,
            !.window = rest]
      /\ tracked' = tracked /\ lastPending' = lastPending /\ nextIndex' = nextIndex
      /\ session' = session /\ chain' = chain /\ signable' = signable
      /\ gate' = gate /\ accepted' = accepted /\ sids' = sids /\ trees' = trees
  BY DEF ClientSays, SigsOf, SigOf, state
<1>2. /\ ~Joins(down) /\ sids \in Nat /\ client.key \in Nat
      /\ client.sid \in Nat /\ client.link \in Nat /\ client.sid <= sids
      /\ client.offset \in Nat /\ client.offset <= AckAfter
      /\ NowOf(down, client, sids) = Signer(client.sid, client.key, client.link, sids)
      /\ NowOf(down, client, sids).sid = client.sid
      /\ NowOf(down, client, sids).key = client.key
      /\ NowOf(down, client, sids).link = client.link
      /\ NowOf(down, client, sids).top = sids
      /\ client.window \in Seq(Tracked) /\ Len(client.window) = Count
      /\ Agree(tracked, up, client, down, lastPending, nextIndex)
  BY <1>1, InPlay
<1>3. /\ Shaped(client) /\ up \in Seq(Up) /\ (trees = 0 => client.args = 1)
  BY DEF Inv, Typed, Due
<1>4. acked \subseteq 1 .. Count /\ sum \in Lists
  BY <1>2, SeenTyped
<1>5. /\ number \in Nat /\ (type = "chat" => number = 1)
      /\ (type = "command" /\ trees = 0 => number <= 1)
  <2>1. client.args \in Nat
    BY <1>3 DEF Shaped
  <2>2. QED
    BY <1>3, <2>1
<1> HIDE DEF acked, sum, number, rest
<1>6. /\ sigs \in Seq(Link \cup {Null}) /\ Len(sigs) = number
      /\ \A i \in 1 .. number : sigs[i] = SigOf(client.sid, client.link, i, sum)
  <2>1. client.sid \in Nat /\ client.link \in Nat /\ number \in Nat /\ sum \in Lists
    BY <1>2, <1>4, <1>5
  <2>2. PICK a \in Nat, b \in Nat, m \in Nat, l \in Lists :
            a = client.sid /\ b = client.link /\ m = number /\ l = sum
    BY <2>1
  <2> DEFINE g == SigsOf(a, b, m, l)
  <2>3. g \in Seq(Link \cup {Null}) /\ Len(g) = m
        /\ \A i \in 1 .. m : g[i] = SigOf(a, b, i, l)
    BY SigsTyped
  <2>4. sigs = g
    BY <2>2
  <2> HIDE DEF g, sigs
  <2>5. QED
    BY <2>2, <2>3, <2>4
<1> HIDE DEF sigs
<1>7. p \in Up
  BY <1>2, <1>4, <1>6, SaysTyped
<1>8. /\ p.type = type /\ p.offset = client.offset /\ p.acked = acked /\ p.sum = sum
      /\ p.sigs = sigs /\ p.when = when
  OBVIOUS
<1> HIDE DEF p
<1>9. Talk(p) /\ p.type # "session" /\ p.type # "configured"
  BY <1>8 DEF Talk
<1>10. /\ client'.window = rest /\ client'.offset = 0
       /\ client'.timely = (client.timely /\ when = "due")
       /\ client'.link = IF client.sid = 0 THEN client.link ELSE client.link + number
       /\ client'.args = client.args
       /\ client'.index = client.index /\ client'.last = client.last
       /\ client'.sid = client.sid /\ client'.key = client.key
       /\ client'.place = client.place /\ Fields \subseteq DOMAIN client'
  <2>1. Fields \subseteq DOMAIN client
    BY <1>3 DEF Shaped
  <2>2. QED
    BY <1>1, <2>1 DEF Fields
<1>11. client'.timely \in BOOLEAN
       /\ (client'.timely = TRUE => client.timely = TRUE /\ when = "due")
  <2>1. client.timely \in BOOLEAN
    BY <1>3 DEF Shaped
  <2>2. QED
    BY <1>10, <2>1
<1>12. client'.link \in Nat
  BY <1>2, <1>5, <1>10
<1>13. Shaped(client')
  <2>1. 0 \in Nat /\ 0 <= AckAfter
    BY Constants
  <2>2. QED
    BY <1>2, <1>3, <1>10, <1>11, <1>12, <2>1 DEF Shaped
<1>14. Signs(NowOf(down, client, sids), p)
  BY <1>2, <1>5, <1>6, <1>8, <1>9 DEF Signs, SigOf
<1>15. NowOf(down', client', sids') = Signed(NowOf(down, client, sids), p)
  <2>1. NowOf(down', client', sids') = Signer(client.sid, client.key, client'.link, sids)
    <3>1. ListenerOf(down', client') = client'
      BY <1>1, <1>2, NotNew
    <3>2. QED
      BY <1>1, <1>10, <3>1 DEF NowOf
  <2>2. CASE client.sid = 0
    <3>1. Signed(NowOf(down, client, sids), p) = NowOf(down, client, sids)
      BY <1>2, <1>9, <2>2 DEF Signed
    <3>2. QED
      BY <1>2, <1>10, <2>1, <2>2, <3>1
  <2>3. CASE client.sid # 0
    <3>1. Signed(NowOf(down, client, sids), p) =
              Signer(client.sid, client.key, client.link + Len(p.sigs), sids)
      BY <1>2, <1>9, <2>3 DEF Signed
    <3>2. client'.link = client.link + Len(p.sigs)
      BY <1>6, <1>8, <1>10, <2>3
    <3>3. QED
      BY <2>1, <3>1, <3>2
  <2>4. QED
    BY <2>2, <2>3
<1>16. Agree(tracked', up', client', down', lastPending', nextIndex')
  <2>1. client.offset <= Stride
    BY <1>2, Constants DEF Stride
  <2>2. Acknowledges(p, client, client')
    <3>1. p.acked = {i \in 1 .. Count : client.window[i] # Null}
          /\ p.sum = Seen(client.window, p.acked)
      BY <1>8 DEF acked, sum
    <3>2. client'.window = [i \in 1 .. Count |-> IF client.window[i] = Null THEN Null
                                                 ELSE Entry(client.window[i].sig, FALSE)]
      BY <1>10 DEF rest
    <3>3. QED
      BY <3>1, <3>2 DEF Acknowledges
  <2>3. PICK D : down \in Seq(D)
    BY DEF Inv, Typed
  <2>4. Agree(tracked, Append(up, p), client', down, lastPending, nextIndex)
    BY <1>2, <1>3, <1>7, <1>8, <1>9, <1>10, <2>1, <2>2, <2>3, AgreeSays
  <2>5. QED
    BY <1>1, <2>4
<1>17. /\ Talk(p) /\ client'.timely = TRUE => p.when = "due"
       /\ p.type = "command" /\ trees = 0 => Len(p.sigs) <= 1
       /\ client'.timely = TRUE => client.timely = TRUE
  BY <1>5, <1>6, <1>8, <1>11
<1>18. sids' \in Nat
  BY <1>1, <1>2
<1>19. QED
  BY <1>1, <1>7, <1>9, <1>10, <1>13, <1>14, <1>15, <1>16, <1>17, <1>18, ClientSends

----------------------------------------------------------------------------
(* The specification.                                                      *)
\* Nothing the invariant is about changes but the keys that were fetched.
LEMMA InvUnchanged ==
    ASSUME Inv, UNCHANGED <<state, gate, down, up, client, accepted, outcome, counts>>,
           keys' = TRUE \/ keys' = keys
    PROVE  Inv'
<1>1. /\ tracked' = tracked /\ lastPending' = lastPending /\ nextIndex' = nextIndex
      /\ session' = session /\ chain' = chain /\ signable' = signable /\ gate' = gate
      /\ down' = down /\ up' = up /\ client' = client /\ accepted' = accepted
      /\ sids' = sids /\ trees' = trees
  BY DEF state, counts
<1>2. Typed' /\ Handshake' /\ Room' /\ InStep' /\ Due'
  BY <1>1 DEF Inv, Typed, Handshake, Room, InStep, Due
<1>3. SessionHeld'
  <2>1. PICK f : Held(f, sids)
    BY DEF Inv, SessionHeld
  <2>2. Held(f, sids)'
    BY <1>1, <2>1 DEF Held
  <2>3. QED
    BY <2>2 DEF SessionHeld
<1>4. Enforced'
  BY <1>1 DEF Inv, Enforced, enforce
<1>5. QED
  BY <1>2, <1>3, <1>4 DEF Inv

\* Every step keeps the invariant.
LEMMA InvNext ==
    ASSUME Inv, [Next]_vars
    PROVE  Inv'
<1>1. CASE World /\ UNCHANGED keys
  <2>1. ASSUME NEW sig \in Known, NEW last \in LastLists, Render(sig, last) PROVE Inv'
    BY <1>1, <2>1, InvRender DEF Known
  <2>2. ASSUME NEW sig \in Known, RenderDelete(sig) PROVE Inv'
    BY <1>1, <2>2, InvRenderDelete
  <2>3. ASSUME NEW args \in (0 .. 2) \ {signable}, SetCommandTree(args) PROVE Inv'
    BY <1>1, <2>3, InvSetCommandTree
  <2>4. ASSUME StartConfiguration PROVE Inv'
    BY <1>1, <2>4, InvStartConfiguration
  <2>5. ASSUME Rejoin PROVE Inv'
    BY <1>1, <2>5, InvRejoin
  <2>6. QED
    BY <1>1, <2>1, <2>2, <2>3, <2>4, <2>5 DEF World
<1>2. CASE ClientReader /\ UNCHANGED keys
  BY <1>2, InvReceiveChat, InvReceiveCommand, InvReceiveAck, InvReceiveSession,
     InvReceiveConfigured DEF ClientReader
<1>3. CASE Client /\ UNCHANGED keys
  <2>1. ASSUME NEW shown \in BOOLEAN, ClientReadsMessage(shown) PROVE Inv'
    BY <1>3, <2>1, InvReadsMessage
  <2>2. ASSUME ClientReadsDelete PROVE Inv'
    BY <1>3, <2>2, InvReadsDelete
  <2>3. ASSUME ClientReadsOther PROVE Inv'
    BY <1>3, <2>3, InvReadsOther
  <2>4. ASSUME NEW type \in {"chat", "command"}, NEW when \in Times, ClientSays(type, when)
        PROVE  Inv'
    BY <1>3, <2>4, InvClientSays
  <2>5. ASSUME NEW key \in {client.key, client.key + 1}, ClientSession(key) PROVE Inv'
    BY <1>3, <2>5, InvClientSession
  <2>6. QED
    BY <1>3, <2>1, <2>2, <2>3, <2>4, <2>5 DEF Client
<1>4. CASE KeysArrive
  BY <1>4, InvUnchanged DEF KeysArrive
<1>5. CASE UNCHANGED vars
  BY <1>5, InvUnchanged DEF vars
<1>6. QED
  BY <1>1, <1>2, <1>3, <1>4, <1>5 DEF Next, Quiet

\* The invariant holds in every state.
LEMMA Invariance == Spec => []Inv
<1>1. Init => Inv
  BY InvInit
<1>2. Inv /\ [Next]_vars => Inv'
  BY InvNext
<1>3. QED
  BY <1>1, <1>2, PTL DEF Spec

(* What follows.                                                           *)

\* What a client that keeps time signs never breaks its chain, and the world
\* reader gets the links of a session in the order they were signed in, none
\* twice (chatState.unpack, sessionUpdate).
THEOREM SignaturesInOrder == Spec => []SignedInOrder
<1>1. Inv => SignedInOrder
  <2>1. SUFFICES ASSUME Inv PROVE SignedInOrder
    OBVIOUS
  <2>2. PICK f : Holds(f, up, NowOf(down, client, sids), session, chain, accepted,
                       client.timely, trees)
    BY <2>1 DEF Inv, SessionHeld, Held
  <2>3. SignedAccepted
    <3>1. client.timely \in BOOLEAN
      BY <2>1 DEF Inv, Typed, Shaped
    <3>2. client.timely /\ trees = 0 => Fair(client.timely, trees)
      BY <3>1 DEF Fair
    <3>3. chain # Null /\ Fair(client.timely, trees) => ~chain.broken
      BY <2>2 DEF Holds
    <3>4. QED
      BY <3>2, <3>3 DEF SignedAccepted
  <2>4. AcceptedInOrder
    <3>1. Ordered(accepted) /\ accepted \in Seq(Link)
      BY <2>2 DEF Holds
    <3>2. DOMAIN accepted = 1 .. Len(accepted)
      BY <3>1
    <3>3. QED
      BY <3>1, <3>2 DEF Ordered, AcceptedInOrder
  <2>5. QED
    BY <2>3, <2>4 DEF SignedInOrder
<1>2. QED
  BY <1>1, Invariance, PTL

\* A message is the one the listener expects.
Expected(p, c) == p.index = c.index

\* The next message under way is one that is expected.
LEMMA AgreeExpected ==
    ASSUME NEW list, NEW u \in Seq(Up), NEW c, NEW S, NEW q \in Seq(S), NEW last, NEW next,
           Agree(list, u, c, q, last, next), q # << >>, Head(q).type = "message"
    PROVE  Expected(Head(q), c)
<1>1. PICK t \in Seq(Tracked) : AgreeAt(t, list, u, c, q, last, next)
  BY DEF Agree
<1> DEFINE first == Mark(Count + c.offset, c.last, c.index)
           final == Mark(Len(t), last, next)
<1>2. Brings(t, first, q, final)
  BY <1>1 DEF AgreeAt
<1>3. first.index = c.index
  BY MarkFields
<1> HIDE DEF first, final
<1>4. Sent(first, Head(q), t)
  BY <1>2, BringsTail
<1>5. QED
  BY <1>3, <1>4 DEF Sent, Expected

\* Every message comes with the index that the client counted up to, whatever
\* reconfigurations lie between (chatState.render, reset).
LEMMA IndexesInOrder == Spec => []IndexInOrder
<1>1. Inv => IndexInOrder
  <2>1. SUFFICES ASSUME Inv, down # << >>, Head(down).type = "message"
                 PROVE  Head(down).index = client.index
    BY DEF IndexInOrder
  <2>2. /\ up \in Seq(Up) /\ Shake(gate, down, up, client.place)
        /\ Agree(tracked, up, ListenerOf(down, client), InboxOf(down), lastPending, nextIndex)
    BY <2>1 DEF Inv, Typed, Handshake, InStep
  <2>3. PICK D : down \in Seq(D)
    BY <2>1 DEF Inv, Typed
  <2>4. ~Joins(down)
    BY <2>1, <2>2, <2>3, ShakeRead
  <2>5. Agree(tracked, up, client, down, lastPending, nextIndex)
    BY <2>2, <2>4, NotNew
  <2>6. down # << >> /\ Head(down).type = "message" /\ up \in Seq(Up)
    BY <2>1, <2>2
  <2>7. Expected(Head(down), client)
    BY <2>3, <2>5, <2>6, AgreeExpected
  <2>8. QED
    BY <2>7 DEF Expected
<1>2. QED
  BY <1>1, Invariance, PTL

\* There is room on the list for what a client that keeps up leaves on it.
Roomy == Count + AckAfter + Reach(InFlight) <= MaxPending

\* Packets on one way do not reach further than as many on the other.
LEMMA ReachMore ==
    ASSUME NEW a \in Nat, NEW b \in Nat, NEW n \in Nat, a + b <= n
    PROVE  a + Reach(b) <= Reach(n)
<1>1. PICK s \in Nat : s = Stride /\ s >= 1
  BY Constants
<1>2. PICK e \in Nat : n = a + b + e
  <2>1. n - (a + b) \in Nat /\ n = a + b + (n - (a + b))
    OBVIOUS
  <2>2. QED
    BY <2>1
<1>3. PICK r \in Nat : s = r + 1
  <2>1. s - 1 \in Nat /\ s = (s - 1) + 1
    BY <1>1
  <2>2. QED
    BY <2>1
<1>4. (a + b + e) * s = a * s + b * s + e * s
  OBVIOUS
<1>5. a * s = a * r + a
  BY <1>3
<1>6. a * r \in Nat /\ b * s \in Nat /\ e * s \in Nat
  OBVIOUS
<1>7. QED
  BY <1>1, <1>2, <1>4, <1>5, <1>6 DEF Reach

\* The list the invariant allows has room.
Full == Len(tracked) > MaxPending

\* Then the list never overflows.
LEMMA ListFits ==
    ASSUME Inv, Roomy
    PROVE  ~Full
<1>1. /\ up \in Seq(Up) /\ Shaped(client)
      /\ Agree(tracked, up, ListenerOf(down, client), InboxOf(down), lastPending, nextIndex)
      /\ Len(down) + Len(up) <= InFlight
  BY DEF Inv, Typed, InStep, Room
<1>2. PICK D : down \in Seq(D)
  BY DEF Inv, Typed
<1>3. PICK q, l : q = InboxOf(down) /\ l = ListenerOf(down, client)
  OBVIOUS
<1>4. q \in Seq(D) /\ Len(q) \in Nat /\ Len(q) <= Len(down)
  BY <1>2, <1>3, InboxTyped
<1>5. tracked \in Seq(Tracked) /\ Len(tracked) <= Count + l.offset + Len(q) + Reach(Len(up))
  BY <1>1, <1>3, <1>4, AgreeRoom
<1>6. l.offset \in Nat /\ l.offset <= AckAfter
  BY <1>1, <1>3, ListenerFields
<1>7. Len(up) \in Nat /\ Len(down) \in Nat /\ Len(q) + Len(up) <= InFlight
  BY <1>1, <1>2, <1>4, Constants
<1>8. Len(q) + Reach(Len(up)) <= Reach(InFlight)
  BY <1>4, <1>7, Constants, ReachMore
<1>9. Reach(InFlight) \in Nat /\ Reach(Len(up)) \in Nat
  BY <1>7, Constants, Reaching
<1>10. Len(tracked) \in Nat
  BY <1>5
<1>11. PICK n \in Nat, o \in Nat, m \in Nat, r \in Nat, most \in Nat :
            n = Len(tracked) /\ o = l.offset /\ m = Len(q) /\ r = Reach(Len(up))
            /\ most = Reach(InFlight)
  BY <1>4, <1>6, <1>9, <1>10
<1>12. n <= Count + o + m + r /\ o <= AckAfter /\ m + r <= most
       /\ Count + AckAfter + most <= MaxPending
  BY <1>5, <1>6, <1>8, <1>11 DEF Roomy
<1>13. ~(n > MaxPending)
  BY <1>12, Constants
<1>14. QED
  BY <1>11, <1>13 DEF Full

\* A session under way has a later key.
LEMMA LaterKey ==
    ASSUME Inv, up # << >>, Head(up).type = "session"
    PROVE  session # Null => /\ session.key < Head(up).key
                             /\ session.key \in Nat /\ Head(up).key \in Nat
<1>1. PICK f : Holds(f, up, NowOf(down, client, sids), session, chain, accepted,
                     client.timely, trees)
  BY DEF Inv, SessionHeld, Held
<1>2. up \in Seq(Up)
  BY DEF Inv, Typed
<1>3. /\ session # Null => /\ session.key < Head(up).key
                            /\ session.key \in Nat /\ Head(up).key \in Nat
      /\ Holds(Signed(f, Head(up)), Tail(up), NowOf(down, client, sids),
               [sid |-> Head(up).sid, key |-> Head(up).key],
               [sid |-> Head(up).sid, next |-> 0, broken |-> FALSE], accepted,
               client.timely, trees)
  BY <1>1, <1>2, HoldsSession
<1>4. QED
  BY <1>3

\* With that room, a vanilla client is never kicked: not for an acknowledgement
\* or an update that does not fit, not for a session that expires earlier, and
\* not for what it has not acknowledged yet (lastSeenValidator, sessionUpdate,
\* render).
THEOREM ClientKept == ASSUME Roomy PROVE Spec => []NeverKicked
<1>1. Init => NeverKicked
  BY DEF Init, NeverKicked
<1>2. Inv => ~Full
  BY ListFits
<1>3. Inv /\ ~Full' /\ NeverKicked /\ [Next]_vars => NeverKicked'
  <2>1. SUFFICES ASSUME Inv, ~Full', NeverKicked, [Next]_vars PROVE NeverKicked'
    OBVIOUS
  <2>2. ~(Len(tracked') > MaxPending)
    BY <2>1 DEF Full
  <2>3. CASE World /\ UNCHANGED keys
    BY <2>1, <2>2, <2>3 DEF World, Render, RenderDelete, SetCommandTree,
       StartConfiguration, Rejoin, NeverKicked
  <2>4. CASE ClientReader /\ UNCHANGED keys
    <3>1. ASSUME up # << >> PROVE Fits(tracked, Head(up))
      BY <2>1, <3>1, NextFits
    <3>2. ASSUME ReceiveChat PROVE NeverKicked'
      <4>1. up # << >> /\ Talk(Head(up))
        BY <3>2 DEF ReceiveChat, Received, Talk
      <4>2. UpdateFits(tracked, Head(up))
        BY <3>1, <4>1 DEF Fits
      <4>3. outcome' \in {"ok", "refused"}
        BY <3>2, <4>2 DEF ReceiveChat, Refuse, Accept
      <4>4. QED
        BY <4>3 DEF NeverKicked
    <3>3. ASSUME ReceiveCommand PROVE NeverKicked'
      <4>1. up # << >> /\ Talk(Head(up))
        BY <3>3 DEF ReceiveCommand, Received, Talk
      <4>2. UpdateFits(tracked, Head(up))
        BY <3>1, <4>1 DEF Fits
      <4>3. outcome' \in {"ok", "refused"}
        BY <3>3, <4>2 DEF ReceiveCommand, Refuse, Accept
      <4>4. QED
        BY <4>3 DEF NeverKicked
    <3>4. ASSUME ReceiveAck PROVE NeverKicked'
      <4>1. up # << >> /\ Head(up).type = "ack"
        BY <3>4 DEF ReceiveAck, Received
      <4>2. OffsetFits(tracked, Head(up).offset)
        BY <3>1, <4>1 DEF Fits
      <4>3. outcome' = outcome
        BY <3>4, <4>2 DEF ReceiveAck
      <4>4. QED
        BY <2>1, <4>3 DEF NeverKicked
    <3>5. ASSUME ReceiveSession PROVE NeverKicked'
      <4>1. up # << >> /\ Head(up).type = "session"
        BY <3>5 DEF ReceiveSession, Received
      <4>2. session # Null => /\ session.key < Head(up).key
                              /\ session.key \in Nat /\ Head(up).key \in Nat
        BY <2>1, <4>1, LaterKey
      <4>3. ~(session # Null /\ Head(up).key < session.key)
        BY <4>2
      <4>4. outcome' = outcome
        BY <3>5, <4>3 DEF ReceiveSession
      <4>5. QED
        BY <2>1, <4>4 DEF NeverKicked
    <3>6. ASSUME ReceiveConfigured PROVE NeverKicked'
      BY <2>1, <3>6 DEF ReceiveConfigured, NeverKicked
    <3>7. QED
      BY <2>4, <3>2, <3>3, <3>4, <3>5, <3>6 DEF ClientReader
  <2>5. CASE Client /\ UNCHANGED keys
    BY <2>1, <2>5 DEF Client, ClientReadsMessage, ClientReadsDelete, ClientReadsOther,
       ClientSays, ClientSession, NeverKicked
  <2>6. CASE KeysArrive
    BY <2>1, <2>6 DEF KeysArrive, NeverKicked
  <2>7. CASE UNCHANGED vars
    BY <2>1, <2>7 DEF vars, NeverKicked
  <2>8. QED
    BY <2>1, <2>3, <2>4, <2>5, <2>6, <2>7 DEF Next, Quiet
<1>4. QED
  BY <1>1, <1>2, <1>3, Invariance, PTL DEF Spec

----------------------------------------------------------------------------
(* The mirrors.                                                            *)
\* The packets under way make of the listener's cache the gateway's.
Mirrored == CachesTo(ListenerOf(down, client).cache, InboxOf(down), cache)

\* The world sends a packet of which the gateway's cache is what it should be.
LEMMA MirroredSends ==
    ASSUME Inv, Mirrored, NEW p, p.type # "login", down' = Append(down, p), client' = client,
           Finds(cache, p), cache' = Leaves(cache, p)
    PROVE  Mirrored'
<1>1. PICK D : p \in D /\ down \in Seq(D) /\ InboxOf(down) \in Seq(D)
  BY Widened DEF Inv
<1>2. ListenerOf(down', client') = ListenerOf(down, client)
      /\ InboxOf(down') = Append(InboxOf(down), p)
  BY <1>1, InboxSend
<1>3. PICK c, q : c = ListenerOf(down, client).cache /\ q = InboxOf(down)
  OBVIOUS
<1>4. CachesTo(c, q, cache) /\ q \in Seq(D)
  BY <1>1, <1>3 DEF Mirrored
<1>5. CachesTo(c, Append(q, p), Leaves(cache, p))
  BY <1>1, <1>4, CachesAppend
<1>6. QED
  BY <1>2, <1>3, <1>5 DEF Mirrored

\* Nothing is read of what is under way, and the client's cache is its own.
LEMMA MirroredStays ==
    ASSUME Mirrored, down' = down, cache' = cache,
           client' = client \/ (~Joins(down) /\ client'.cache = client.cache)
    PROVE  Mirrored'
<1>1. ListenerOf(down', client').cache = ListenerOf(down, client).cache
      /\ InboxOf(down') = InboxOf(down)
  BY DEF ListenerOf, InboxOf
<1>2. QED
  BY <1>1 DEF Mirrored

\* The client reads a packet, and its cache is what that leaves.
LEMMA MirroredReads ==
    ASSUME Inv, Mirrored, down # << >>, ~Joins(down), ~Joins(Tail(down)),
           down' = Tail(down), cache' = cache,
           client'.cache = Leaves(client.cache, Head(down))
    PROVE  Mirrored'
<1>1. PICK D : down \in Seq(D)
  BY DEF Inv, Typed
<1>2. /\ ListenerOf(down, client) = client /\ InboxOf(down) = down
      /\ ListenerOf(down', client') = client' /\ InboxOf(down') = Tail(down)
  BY NotNew
<1>3. CachesTo(client.cache, down, cache)
  BY <1>2 DEF Mirrored
<1>4. CachesTo(Leaves(client.cache, Head(down)), Tail(down), cache)
  BY <1>1, <1>3, CachesTail
<1>5. QED
  BY <1>2, <1>4 DEF Mirrored

\* The mirrors agree at the start.
LEMMA MirroredInit == ASSUME Init PROVE Mirrored
<1>1. down = << >> /\ cache = Empty /\ client.cache = Empty
  BY DEF Init, NewListener
<1>2. ~Joins(down)
  BY <1>1 DEF Joins
<1>3. CachesTo(Empty, << >>, Empty)
  BY EmptyProper, CachesEmpty
<1>4. QED
  BY <1>1, <1>2, <1>3, NotNew DEF Mirrored

\* What the world's message covers is news.
LEMMA Covers ==
    ASSUME NEW sig \in Known, NEW last \in LastLists, ~Contains(last, sig)
    PROVE  News(Append(last, sig)) /\ DOMAIN last = 1 .. Len(last)
<1>1. Known \subseteq Sigs
  BY DEF Known
<1>2. CASE last = << >>
  <2>1. Append(last, sig) = <<sig>>
    BY <1>2
  <2>2. QED
    BY <1>1, <1>2, <2>1 DEF News
<1>3. CASE last \in {<<s>> : s \in Known}
  <2>1. PICK s \in Known : last = <<s>>
    BY <1>3
  <2>2. s # sig
    BY <2>1 DEF Contains
  <2>3. PICK new : new = Append(last, sig)
    OBVIOUS
  <2>4. new \in Seq(Sigs) /\ Len(new) = 2 /\ new[1] = s /\ new[2] = sig
    BY <1>1, <2>1, <2>3
  <2>5. \A i \in 1 .. Len(new) : i = 1 \/ i = 2
    BY <2>4
  <2>6. \A i, j \in 1 .. Len(new) : new[i] = new[j] => i = j
    BY <2>2, <2>4, <2>5
  <2>7. DOMAIN last = 1 .. Len(last)
    BY <2>1
  <2>8. QED
    BY <2>3, <2>4, <2>6, <2>7 DEF News
<1>4. CASE last \in {l \in Known \X Known : l[1] # l[2]}
  <2>1. PICK s \in Known, t \in Known : last = <<s, t>> /\ s # t
    BY <1>4
  <2>2. s # sig /\ t # sig
    <3>1. DOMAIN last = 1 .. 2 /\ last[1] = s /\ last[2] = t /\ Len(last) = 2
      BY <2>1
    <3>2. Contains(last, s) /\ Contains(last, t)
      BY <3>1 DEF Contains
    <3>3. QED
      BY <3>2
  <2>3. PICK new : new = Append(last, sig)
    OBVIOUS
  <2>4. new \in Seq(Sigs) /\ Len(new) = 3 /\ new[1] = s /\ new[2] = t /\ new[3] = sig
    BY <1>1, <2>1, <2>3
  <2>5. \A i \in 1 .. Len(new) : i = 1 \/ i = 2 \/ i = 3
    BY <2>4
  <2>6. \A i, j \in 1 .. Len(new) : new[i] = new[j] => i = j
    BY <2>1, <2>2, <2>4, <2>5
  <2>7. DOMAIN last = 1 .. Len(last)
    BY <2>1
  <2>8. QED
    BY <2>3, <2>4, <2>6, <2>7 DEF News
<1>5. QED
  BY <1>2, <1>3, <1>4 DEF LastLists

\* A message is packed against the caches there are, and then pushed on both.
LEMMA MirroredRender ==
    ASSUME Inv, Mirrored, NEW sig \in Known, NEW last \in LastLists, ~Contains(last, sig),
           Render(sig, last)
    PROVE  Mirrored'
<1> DEFINE p == MessageOf(sig, last)
<1>1. /\ down' = Append(down, p) /\ client' = client /\ cache' = Push(cache, last, sig)
  BY DEF Render, MessageOf, To
<1>2. /\ p.type = "message" /\ p.sig = sig /\ p.last = last
      /\ p.packed = [i \in DOMAIN last |-> Pack(cache, last[i])]
  BY DEF MessageOf
<1> HIDE DEF p
<1>3. News(Append(last, sig))
  BY Covers
<1>4. Finds(cache, p)
  <2>1. ASSUME NEW i \in DOMAIN last
        PROVE  Resolved(cache, p.packed[i], last[i])
    <3>1. p.packed[i] = Pack(cache, last[i])
      BY <1>2
    <3>2. QED
      BY <3>1, PackResolves
  <2>2. QED
    BY <1>2, <1>3, <2>1 DEF Finds
<1>5. Proper(cache)
  <2>1. PICK D : down \in Seq(D) /\ InboxOf(down) \in Seq(D)
    BY Widened DEF Inv
  <2>2. PICK c, q : c = ListenerOf(down, client).cache /\ q = InboxOf(down)
    OBVIOUS
  <2>3. CachesTo(c, q, cache) /\ q \in Seq(D)
    BY <2>1, <2>2 DEF Mirrored
  <2>4. cache \in Propers
    BY <2>3, CachesBounds
  <2>5. QED
    BY <2>4 DEF Propers
<1>6. cache' = Leaves(cache, p)
  <2>1. Push(cache, last, sig) = Pushed(cache, last, sig)
    BY <1>3, <1>5, PushIsPushed
  <2>2. QED
    BY <1>1, <1>2, <2>1 DEF Leaves
<1>7. p.type # "login"
  BY <1>2
<1>8. QED
  BY <1>1, <1>4, <1>6, <1>7, MirroredSends

\* Whatever else the world sends does not touch the caches, but the login,
\* which starts them both anew.
LEMMA MirroredWorld ==
    ASSUME Inv, Mirrored, World
    PROVE  Mirrored'
<1>1. ASSUME NEW p, p.type \notin {"login", "message", "delete"}, down' = Append(down, p),
             client' = client, cache' = cache
      PROVE  Mirrored'
  <2>1. Finds(cache, p) /\ cache' = Leaves(cache, p) /\ p.type # "login"
    BY <1>1 DEF Finds, Leaves
  <2>2. QED
    BY <1>1, <2>1, MirroredSends
<1>2. ASSUME NEW sig \in Known, NEW last \in LastLists, ~Contains(last, sig),
             Render(sig, last)
      PROVE  Mirrored'
  BY <1>2, MirroredRender
<1>3. ASSUME NEW sig \in Known, RenderDelete(sig)
      PROVE  Mirrored'
  <2> DEFINE p == [type |-> "delete", sig |-> sig, packed |-> Pack(cache, sig)]
  <2>1. p.type = "delete" /\ p.sig = sig /\ p.packed = Pack(cache, sig)
    OBVIOUS
  <2>2. down' = Append(down, p) /\ client' = client /\ cache' = cache
    BY <1>3 DEF RenderDelete, To, state
  <2> HIDE DEF p
  <2>3. Finds(cache, p) /\ cache' = Leaves(cache, p) /\ p.type # "login"
    BY <2>1, <2>2, PackResolves DEF Finds, Leaves
  <2>4. QED
    BY <2>2, <2>3, MirroredSends
<1>4. ASSUME NEW args \in (0 .. 2) \ {signable}, SetCommandTree(args)
      PROVE  Mirrored'
  <2>1. PICK p : p = [type |-> "commands", args |-> args]
    OBVIOUS
  <2>2. p.type = "commands"
    BY <2>1
  <2>3. down' = Append(down, p) /\ client' = client /\ cache' = cache
    BY <1>4, <2>1 DEF SetCommandTree, To
  <2>4. p.type \notin {"login", "message", "delete"}
    BY <2>2
  <2>5. QED
    BY <1>1, <2>3, <2>4
<1>5. ASSUME StartConfiguration
      PROVE  Mirrored'
  <2>1. PICK p : p = [type |-> "start_configuration"]
    OBVIOUS
  <2>2. p.type = "start_configuration"
    BY <2>1
  <2>3. down' = Append(down, p) /\ client' = client /\ cache' = cache
    BY <1>5, <2>1 DEF StartConfiguration, To, state
  <2>4. p.type \notin {"login", "message", "delete"}
    BY <2>2
  <2>5. QED
    BY <1>1, <2>3, <2>4
<1>6. ASSUME Rejoin
      PROVE  Mirrored'
  <2>1. PICK p : p = [type |-> "login"]
    OBVIOUS
  <2>2. p.type = "login"
    BY <2>1
  <2>3. down' = Append(down, p) /\ client' = client /\ cache' = Empty /\ gate = "rejoining"
    BY <1>6, <2>1 DEF Rejoin, Reset, To
  <2>4. down = << >>
    BY <2>3 DEF Inv, Handshake, Shake
  <2>5. down' = <<p>>
    BY <2>3, <2>4
  <2>6. Joins(down') /\ Tail(down') = << >>
    BY <2>2, <2>5 DEF Joins
  <2>7. ListenerOf(down', client') = NewListener(client.key, client.args, client.timely)
        /\ InboxOf(down') = << >>
    BY <2>3, <2>6 DEF ListenerOf, InboxOf
  <2>8. NewListener(client.key, client.args, client.timely).cache = Empty
    BY DEF NewListener
  <2>9. CachesTo(Empty, << >>, Empty)
    BY EmptyProper, CachesEmpty
  <2>10. QED
    BY <2>3, <2>7, <2>8, <2>9 DEF Mirrored
<1>7. QED
  BY <1>2, <1>3, <1>4, <1>5, <1>6 DEF World

\* The client reads what is under way as the gateway thought it would.
LEMMA MirroredClient ==
    ASSUME Inv, Mirrored, Client
    PROVE  Mirrored'
<1>1. /\ up \in Seq(Up) /\ Shaped(client) /\ Shake(gate, down, up, client.place)
  BY DEF Inv, Typed, Handshake
<1>2. PICK D : down \in Seq(D)
  BY DEF Inv, Typed
<1>3. Fields \subseteq DOMAIN client
  BY <1>1 DEF Shaped
<1>4. ASSUME NEW shown \in BOOLEAN, ClientReadsMessage(shown)
      PROVE  Mirrored'
  <2> DEFINE p == Head(down)
  <2>1. /\ down # << >> /\ p.type = "message" /\ down' = Tail(down) /\ cache' = cache
    BY <1>4 DEF ClientReadsMessage, Incoming, Read, state
  <2>2. PICK o, w, n : client' = [client EXCEPT !.index = n,
            !.cache = Pushed(@, p.last, p.sig), !.last = p.sig, !.window = w, !.offset = o]
    BY <1>4 DEF ClientReadsMessage
  <2>3. client'.cache = Pushed(client.cache, p.last, p.sig)
    BY <1>3, <2>2 DEF Fields
  <2>4. ~Joins(down) /\ ~Joins(Tail(down))
    <3>1. p.type \notin {"login", "start_configuration"}
      BY <2>1
    <3>2. QED
      BY <1>1, <1>2, <2>1, <3>1, ShakeRead
  <2>5. client'.cache = Leaves(client.cache, p)
    BY <2>1, <2>3 DEF Leaves
  <2>6. QED
    BY <2>1, <2>4, <2>5, MirroredReads
<1>5. ASSUME ClientReadsDelete
      PROVE  Mirrored'
  <2> DEFINE p == Head(down)
  <2>1. /\ down # << >> /\ p.type = "delete" /\ down' = Tail(down) /\ cache' = cache
    BY <1>5 DEF ClientReadsDelete, Incoming, Read, state
  <2>2. PICK w : client' = [client EXCEPT !.window = w]
    BY <1>5 DEF ClientReadsDelete
  <2>3. client'.cache = client.cache
    BY <1>3, <2>2 DEF Fields
  <2>4. ~Joins(down) /\ ~Joins(Tail(down))
    <3>1. p.type \notin {"login", "start_configuration"}
      BY <2>1
    <3>2. QED
      BY <1>1, <1>2, <2>1, <3>1, ShakeRead
  <2>5. client'.cache = Leaves(client.cache, p)
    BY <2>1, <2>3 DEF Leaves
  <2>6. QED
    BY <2>1, <2>4, <2>5, MirroredReads
<1>6. ASSUME ClientReadsOther
      PROVE  Mirrored'
  <2> DEFINE p == Head(down)
  <2>1. down # << >> /\ down' = Tail(down) /\ cache' = cache
    BY <1>6 DEF ClientReadsOther, Incoming, Read, state
  <2>2. CASE Incoming("commands") /\ client' = [client EXCEPT !.args = p.args]
    <3>1. p.type = "commands" /\ p.type \notin {"login", "start_configuration"}
      BY <2>2 DEF Incoming
    <3>2. ~Joins(down) /\ ~Joins(Tail(down))
      BY <1>1, <1>2, <2>1, <3>1, ShakeRead
    <3>3. client'.cache = client.cache
      BY <1>3, <2>2 DEF Fields
    <3>4. client'.cache = Leaves(client.cache, p)
      BY <3>1, <3>3 DEF Leaves
    <3>5. QED
      BY <2>1, <3>2, <3>4, MirroredReads
  <2>3. CASE /\ Incoming("start_configuration")
             /\ client' = [client EXCEPT !.place = "configuration"]
    <3>1. p.type = "start_configuration"
      BY <2>3 DEF Incoming
    <3>2. ~Joins(down) /\ ~Joins(Tail(down))
      <4>1. [type |-> "configured"] \in Up
        BY PlainUp
      <4>2. [type |-> "configured"].type = "configured"
        OBVIOUS
      <4>3. QED
        BY <1>1, <1>2, <2>1, <3>1, <4>1, <4>2, ShakeStart
    <3>3. client'.cache = client.cache
      BY <1>3, <2>3 DEF Fields
    <3>4. client'.cache = Leaves(client.cache, p)
      BY <3>1, <3>3 DEF Leaves
    <3>5. QED
      BY <2>1, <3>2, <3>4, MirroredReads
  <2>4. CASE /\ Incoming("login")
             /\ client' = NewListener(client.key, client.args, client.timely)
    <3>1. p.type = "login"
      BY <2>4 DEF Incoming
    <3>2. ~Joins(Tail(down)) /\ Joins(down)
      BY <1>1, <1>2, <2>1, <3>1, ShakeLogin
    <3>3. /\ ListenerOf(down, client) = client' /\ InboxOf(down) = Tail(down)
          /\ ListenerOf(down', client') = client' /\ InboxOf(down') = Tail(down)
      BY <2>1, <2>4, <3>2 DEF ListenerOf, InboxOf
    <3>4. QED
      BY <2>1, <3>3 DEF Mirrored
  <2>5. QED
    BY <1>6, <2>2, <2>3, <2>4 DEF ClientReadsOther
<1>7. ASSUME NEW type \in {"chat", "command"}, NEW when \in Times, ClientSays(type, when)
      PROVE  Mirrored'
  <2>1. down' = down /\ cache' = cache /\ client.place = "play"
    BY <1>7 DEF ClientSays, state
  <2>2. PICK t, l, w : client' = [client EXCEPT !.offset = 0, !.timely = t, !.link = l,
                                  !.window = w]
    BY <1>7 DEF ClientSays
  <2>3. client'.cache = client.cache
    BY <1>3, <2>2 DEF Fields
  <2>4. QED
    BY <2>1, <2>3, InPlay, MirroredStays
<1>8. ASSUME NEW key \in {client.key, client.key + 1}, ClientSession(key)
      PROVE  Mirrored'
  <2>1. down' = down /\ cache' = cache /\ client.place = "play"
    BY <1>8 DEF ClientSession, state
  <2>2. client' = [client EXCEPT !.sid = sids', !.key = key, !.link = 0]
    BY <1>8 DEF ClientSession
  <2>3. client'.cache = client.cache
    BY <1>3, <2>2 DEF Fields
  <2>4. QED
    BY <2>1, <2>3, InPlay, MirroredStays
<1>9. QED
  BY <1>4, <1>5, <1>6, <1>7, <1>8 DEF Client

\* Every step keeps it.
LEMMA MirroredNext ==
    ASSUME Inv, Mirrored, [Next]_vars
    PROVE  Mirrored'
<1>1. CASE World
  BY <1>1, MirroredWorld
<1>2. CASE ClientReader
  <2>1. down' = down /\ cache' = cache /\ client' = client
    BY <1>2 DEF ClientReader, ReceiveChat, ReceiveCommand, ReceiveAck, ReceiveSession,
       ReceiveConfigured, state
  <2>2. QED
    BY <2>1, MirroredStays
<1>3. CASE Client
  BY <1>3, MirroredClient
<1>4. CASE KeysArrive \/ UNCHANGED vars
  <2>1. down' = down /\ cache' = cache /\ client' = client
    BY <1>4 DEF KeysArrive, vars, state
  <2>2. QED
    BY <2>1, MirroredStays
<1>5. QED
  BY <1>1, <1>2, <1>3, <1>4 DEF Next, Quiet

\* The sessions and the keys of a behaviour are so many, on their way too.
Numbers == [sid : 1 .. MaxSids, key : 1 .. MaxSids + 1]
Numbered(p) == p.type = "session" => p.sid \in 1 .. MaxSids /\ p.key \in 1 .. MaxSids + 1
Counted ==
    /\ sids \in 0 .. MaxSids /\ client.key \in 1 .. sids + 1
    /\ \A i \in 1 .. Len(up) : Numbered(up[i])
    /\ session = Null \/ session \in Numbers
    /\ outcome \in {"ok", "refused", "kicked"} /\ keys \in BOOLEAN

\* The client sends one packet more.
LEMMA CountedSays ==
    ASSUME Inv, Counted, NEW p \in Up, Numbered(p), up' = Append(up, p),
           sids' \in 0 .. MaxSids, client'.key \in 1 .. sids' + 1,
           session' = session, outcome' = outcome, keys' = keys
    PROVE  Counted'
<1>1. up \in Seq(Up)
  BY DEF Inv, Typed
<1>2. ASSUME NEW i \in 1 .. Len(up')
      PROVE  Numbered(up'[i])
  <2>1. /\ Len(up') = Len(up) + 1 /\ up'[Len(up) + 1] = p
        /\ \A j \in 1 .. Len(up) : up'[j] = up[j]
        /\ i \in 1 .. Len(up) \/ i = Len(up) + 1
    BY <1>1, AppendPlaces
  <2>2. QED
    BY <2>1 DEF Counted
<1>3. QED
  BY <1>2 DEF Counted

\* Or takes what is on its way, or nothing.
LEMMA CountedKept ==
    ASSUME Inv, Counted, up' = up \/ (up # << >> /\ up' = Tail(up)),
           sids' = sids, client'.key = client.key,
           session' = session \/ session' = Null \/ session' \in Numbers,
           outcome' \in {"ok", "refused", "kicked"}, keys' \in BOOLEAN
    PROVE  Counted'
<1>1. up \in Seq(Up)
  BY DEF Inv, Typed
<1>2. ASSUME NEW i \in 1 .. Len(up')
      PROVE  Numbered(up'[i])
  <2>1. CASE up' = up
    BY <2>1 DEF Counted
  <2>2. CASE up # << >> /\ up' = Tail(up)
    <3>1. PICK n \in Nat :
             /\ Len(up) = n + 1 /\ Len(Tail(up)) = n
             /\ \A j \in 1 .. n : Tail(up)[j] = up[j + 1]
      BY <1>1, <2>2, TailPlaces
    <3>2. i + 1 \in 1 .. Len(up) /\ up'[i] = up[i + 1]
      BY <2>2, <3>1
    <3>3. QED
      BY <3>2 DEF Counted
  <2>3. QED
    BY <2>1, <2>2
<1>3. QED
  BY <1>2 DEF Counted

\* What the client reader takes keeps to it.
LEMMA CountedReader ==
    ASSUME Inv, Counted, ClientReader, UNCHANGED keys
    PROVE  Counted'
<1>1. /\ up # << >> /\ up' = Tail(up) /\ client' = client
  BY DEF ClientReader, ReceiveChat, ReceiveCommand, ReceiveAck, ReceiveSession,
     ReceiveConfigured, Received, Taken
<1>2. UNCHANGED counts
  BY DEF ClientReader, ReceiveChat, ReceiveCommand, ReceiveAck, ReceiveSession,
     ReceiveConfigured
<1>3. sids' = sids
  BY <1>2 DEF counts
<1>4. outcome \in {"ok", "refused", "kicked"} /\ keys \in BOOLEAN
  BY DEF Counted
<1>5. CASE ReceiveChat
  <2>1. session' = session /\ outcome' \in {outcome, "ok", "refused", "kicked"}
    BY <1>5 DEF ReceiveChat, Kick, Refuse, Accept
  <2>2. QED
    BY <1>1, <1>3, <1>4, <2>1, CountedKept
<1>6. CASE ReceiveCommand
  <2>1. session' = session /\ outcome' \in {outcome, "ok", "refused", "kicked"}
    BY <1>6 DEF ReceiveCommand, Kick, Refuse, Accept
  <2>2. QED
    BY <1>1, <1>3, <1>4, <2>1, CountedKept
<1>7. CASE ReceiveAck
  <2>1. session' = session /\ outcome' \in {outcome, "ok", "refused", "kicked"}
    BY <1>7 DEF ReceiveAck, Kick
  <2>2. QED
    BY <1>1, <1>3, <1>4, <2>1, CountedKept
<1>8. CASE ReceiveSession
  <2> DEFINE p == Head(up)
  <2>1. /\ p.type = "session"
        /\ session' = session \/ session' = [sid |-> p.sid, key |-> p.key]
        /\ outcome' \in {outcome, "kicked"}
    BY <1>8 DEF ReceiveSession, Kick, Received
  <2>2. p.sid \in 1 .. MaxSids /\ p.key \in 1 .. MaxSids + 1
    <3>1. up \in Seq(Up)
      BY DEF Inv, Typed
    <3>2. 1 \in 1 .. Len(up) /\ p = up[1]
      BY <1>1, <3>1
    <3>3. Numbered(p)
      BY <3>2 DEF Counted
    <3>4. QED
      BY <2>1, <3>3 DEF Numbered
  <2>3. session' = session \/ session' \in Numbers
    BY <2>1, <2>2 DEF Numbers
  <2>4. QED
    BY <1>1, <1>3, <1>4, <2>1, <2>3, CountedKept
<1>9. CASE ReceiveConfigured
  <2>1. session' = session /\ outcome' = outcome
    BY <1>9 DEF ReceiveConfigured, state
  <2>2. QED
    BY <1>1, <1>3, <1>4, <2>1, CountedKept
<1>10. QED
  BY <1>5, <1>6, <1>7, <1>8, <1>9 DEF ClientReader

\* What the client does keeps to it.
LEMMA CountedClient ==
    ASSUME Inv, Counted, Client, UNCHANGED keys
    PROVE  Counted'
<1>1. /\ Fields \subseteq DOMAIN client /\ client.offset \in Nat
      /\ outcome \in {"ok", "refused", "kicked"} /\ keys \in BOOLEAN
      /\ sids \in 0 .. MaxSids /\ client.key \in 1 .. sids + 1
  BY DEF Inv, Typed, Shaped, Counted
<1>2. ASSUME NEW shown \in BOOLEAN, ClientReadsMessage(shown)
      PROVE  Counted'
  <2> DEFINE offset == client.offset + IF Head(down).sig # client.last THEN 1 ELSE 0
             x == [type |-> "ack", offset |-> offset]
  <2>1. /\ up' = up \/ up' = Append(up, x)
        /\ session' = session /\ outcome' = outcome /\ sids' = sids
    BY <1>2 DEF ClientReadsMessage, state, counts
  <2>2. PICK o, w, n, h : client' = [client EXCEPT !.index = n, !.cache = h,
                                     !.last = Head(down).sig, !.window = w, !.offset = o]
    BY <1>2 DEF ClientReadsMessage
  <2>3. client'.key = client.key
    BY <1>1, <2>2 DEF Fields
  <2>4. offset \in Nat
    BY <1>1
  <2> HIDE DEF offset
  <2>5. x \in Up /\ x.type = "ack"
    BY <2>4, PlainUp
  <2>6. Numbered(x)
    BY <2>5 DEF Numbered
  <2> HIDE DEF x
  <2>7. CASE up' = up
    BY <1>1, <2>1, <2>3, <2>7, CountedKept
  <2>8. CASE up' = Append(up, x)
    BY <1>1, <2>1, <2>3, <2>5, <2>6, <2>8, CountedSays
  <2>9. QED
    BY <2>1, <2>7, <2>8
<1>3. ASSUME ClientReadsDelete
      PROVE  Counted'
  <2>1. up' = up /\ session' = session /\ outcome' = outcome /\ sids' = sids
    BY <1>3 DEF ClientReadsDelete, state, counts
  <2>2. PICK w : client' = [client EXCEPT !.window = w]
    BY <1>3 DEF ClientReadsDelete
  <2>3. client'.key = client.key
    BY <1>1, <2>2 DEF Fields
  <2>4. QED
    BY <1>1, <2>1, <2>3, CountedKept
<1>4. ASSUME ClientReadsOther
      PROVE  Counted'
  <2> DEFINE x == [type |-> "configured"]
  <2>1. session' = session /\ outcome' = outcome /\ sids' = sids
    BY <1>4 DEF ClientReadsOther, state, counts
  <2>2. CASE client' = [client EXCEPT !.args = Head(down).args] /\ up' = up
    <3>1. client'.key = client.key
      BY <1>1, <2>2 DEF Fields
    <3>2. QED
      BY <1>1, <2>1, <2>2, <3>1, CountedKept
  <2>3. CASE client' = [client EXCEPT !.place = "configuration"] /\ up' = Append(up, x)
    <3>1. client'.key = client.key
      BY <1>1, <2>3 DEF Fields
    <3>2. x \in Up /\ x.type = "configured"
      BY PlainUp
    <3>3. Numbered(x)
      BY <3>2 DEF Numbered
    <3> HIDE DEF x
    <3>4. QED
      BY <1>1, <2>1, <2>3, <3>1, <3>2, <3>3, CountedSays
  <2>4. CASE client' = NewListener(client.key, client.args, client.timely) /\ up' = up
    <3>1. client'.key = client.key
      BY <2>4 DEF NewListener
    <3>2. QED
      BY <1>1, <2>1, <2>4, <3>1, CountedKept
  <2>5. QED
    BY <1>4, <2>2, <2>3, <2>4 DEF ClientReadsOther
<1>5. ASSUME NEW type \in {"chat", "command"}, NEW when \in Times, ClientSays(type, when)
      PROVE  Counted'
  <2>1. PICK p : up' = Append(up, p) /\ p.type = type
    <3>1. PICK offset, acked, sum, sigs :
             up' = Append(up, [type |-> type, offset |-> offset, acked |-> acked,
                               sum |-> sum, sigs |-> sigs, when |-> when])
      BY <1>5 DEF ClientSays
    <3>2. PICK p : p = [type |-> type, offset |-> offset, acked |-> acked,
                        sum |-> sum, sigs |-> sigs, when |-> when]
      OBVIOUS
    <3>3. p.type = type
      BY <3>2
    <3>4. QED
      BY <3>1, <3>2, <3>3
  <2>2. session' = session /\ outcome' = outcome /\ sids' = sids
    BY <1>5 DEF ClientSays, state
  <2>3. PICK t, l, w : client' = [client EXCEPT !.offset = 0, !.timely = t, !.link = l,
                                  !.window = w]
    BY <1>5 DEF ClientSays
  <2>4. client'.key = client.key
    BY <1>1, <2>3 DEF Fields
  <2>5. up \in Seq(Up) /\ up' \in Seq(Up)
    <3>1. Inv'
      BY <1>5, InvClientSays
    <3>2. QED
      BY <3>1 DEF Inv, Typed
  <2>6. p \in Up
    <3>1. Len(up') \in 1 .. Len(up') /\ p = up'[Len(up')]
      BY <2>1, <2>5
    <3>2. QED
      BY <2>5, <3>1
  <2>7. Numbered(p)
    BY <2>1 DEF Numbered
  <2>8. QED
    BY <1>1, <2>1, <2>2, <2>4, <2>6, <2>7, CountedSays
<1>6. ASSUME NEW key \in {client.key, client.key + 1}, ClientSession(key)
      PROVE  Counted'
  <2> DEFINE p == [type |-> "session", sid |-> sids + 1, key |-> key]
  <2>1. /\ sids < MaxSids /\ sids' = sids + 1 /\ up' = Append(up, p)
        /\ session' = session /\ outcome' = outcome
        /\ client' = [client EXCEPT !.sid = sids + 1, !.key = key, !.link = 0]
    BY <1>6 DEF ClientSession, state
  <2>2. client'.key = key
    BY <1>1, <2>1 DEF Fields
  <2>3. /\ sids + 1 \in 1 .. MaxSids /\ key \in 1 .. sids + 2 /\ key \in 1 .. MaxSids + 1
        /\ sids + 1 \in Nat /\ key \in Nat /\ sids + 1 \in 0 .. MaxSids
        /\ sids + 2 = (sids + 1) + 1
    <3>1. PICK n \in Nat, k \in Nat, top \in Nat : n = sids /\ k = client.key /\ top = MaxSids
      BY <1>1, Constants
    <3>2. n < top /\ 1 <= k /\ k <= n + 1
      BY <1>1, <2>1, <3>1
    <3>3. PICK j : j = key
      OBVIOUS
    <3>4. j = k \/ j = k + 1
      BY <3>1, <3>3
    <3>5. /\ n + 1 \in 1 .. top /\ j \in 1 .. n + 2 /\ j \in 1 .. top + 1
          /\ n + 1 \in Nat /\ j \in Nat /\ n + 1 \in 0 .. top
          /\ n + 2 = (n + 1) + 1
      BY <3>2, <3>4
    <3>6. QED
      BY <3>1, <3>3, <3>5
  <2>4. p \in Up /\ p.type = "session" /\ p.sid = sids + 1 /\ p.key = key
    BY <2>3, PlainUp
  <2> HIDE DEF p
  <2>5. Numbered(p)
    BY <2>3, <2>4 DEF Numbered
  <2>6. sids' \in 0 .. MaxSids /\ client'.key \in 1 .. sids' + 1
    BY <2>1, <2>2, <2>3
  <2>7. QED
    BY <2>1, <2>4, <2>5, <2>6, CountedSays
<1>7. QED
  BY <1>2, <1>3, <1>4, <1>5, <1>6 DEF Client

\* Every step keeps to it.
LEMMA CountedNext ==
    ASSUME Inv, Counted, [Next]_vars
    PROVE  Counted'
<1>1. outcome \in {"ok", "refused", "kicked"} /\ keys \in BOOLEAN
  BY DEF Counted
<1>2. CASE World /\ UNCHANGED keys
  <2>1. /\ up' = up /\ client' = client /\ sids' = sids
        /\ (session' = session \/ session' = Null)
        /\ outcome' \in {outcome, "kicked"}
    BY <1>2 DEF World, Render, RenderDelete, SetCommandTree, StartConfiguration, Rejoin,
       Reset, state, counts
  <2>2. QED
    BY <1>1, <1>2, <2>1, CountedKept
<1>3. CASE ClientReader /\ UNCHANGED keys
  BY <1>3, CountedReader
<1>4. CASE Client /\ UNCHANGED keys
  BY <1>4, CountedClient
<1>5. CASE KeysArrive
  <2>1. /\ up' = up /\ client' = client /\ sids' = sids /\ session' = session
        /\ outcome' = outcome /\ keys' \in BOOLEAN
    BY <1>5 DEF KeysArrive, state, counts
  <2>2. QED
    BY <1>1, <2>1, CountedKept
<1>6. CASE UNCHANGED vars
  <2>1. /\ up' = up /\ client' = client /\ sids' = sids /\ session' = session
        /\ outcome' = outcome /\ keys' = keys
    BY <1>6 DEF vars, state, counts
  <2>2. QED
    BY <1>1, <2>1, CountedKept
<1>7. QED
  BY <1>2, <1>3, <1>4, <1>5, <1>6 DEF Next, Quiet

\* The variables keep to their values.
LEMMA Values ==
    ASSUME Inv, Mirrored, Counted
    PROVE  TypeOK
<1>1. /\ up \in Seq(Up) /\ signable \in 0 .. 2 /\ Shake(gate, down, up, client.place)
      /\ Agree(tracked, up, ListenerOf(down, client), InboxOf(down), lastPending, nextIndex)
  BY DEF Inv, Typed, Handshake, InStep
<1>2. PICK D : down \in Seq(D) /\ InboxOf(down) \in Seq(D)
  BY InboxTyped DEF Inv, Typed
<1>3. PICK c, q : c = ListenerOf(down, client) /\ q = InboxOf(down)
  OBVIOUS
<1>4. tracked \in Seq(Tracked) /\ Count <= Len(tracked) /\ nextIndex \in Nat
  BY <1>1, <1>2, <1>3, AgreeRoom
<1>5. \A i \in DOMAIN tracked :
         tracked[i] = Null \/ tracked[i] \in [sig : Sigs, pending : BOOLEAN]
  BY <1>4 DEF Tracked
<1>6. Len(tracked) >= Count
  BY <1>4, Constants
<1>7. cache \in Caches
  <2>1. PICK h : h = c.cache
    OBVIOUS
  <2>2. CachesTo(h, q, cache) /\ q \in Seq(D)
    BY <1>2, <1>3, <2>1 DEF Mirrored
  <2>3. cache \in Propers
    BY <2>2, CachesBounds
  <2>4. QED
    BY <2>3 DEF Propers
<1>8. session = Null \/ session \in Numbers
  BY DEF Counted
<1>9. chain = Null \/ chain \in [sid : 1 .. MaxSids, next : Nat, broken : BOOLEAN]
  <2>1. PICK f : Holds(f, up, NowOf(down, client, sids), session, chain, accepted,
                       client.timely, trees)
    BY DEF Inv, SessionHeld, Held
  <2>2. SUFFICES ASSUME chain # Null
                 PROVE  chain \in [sid : 1 .. MaxSids, next : Nat, broken : BOOLEAN]
    OBVIOUS
  <2>3. /\ session # Null /\ session = [sid |-> f.sid, key |-> f.key]
        /\ chain \in Chains /\ chain.sid = f.sid
    BY <2>1, <2>2 DEF Holds
  <2>4. chain.sid \in 1 .. MaxSids
    BY <1>8, <2>3 DEF Numbers
  <2>5. QED
    BY <2>3, <2>4 DEF Chains
<1>10. gate \in {"play", "configuring", "rejoining"}
  BY <1>1 DEF Shake
<1>11. outcome \in {"ok", "refused", "kicked"} /\ keys \in BOOLEAN
  BY DEF Counted
<1>12. QED
  BY <1>1, <1>4, <1>5, <1>6, <1>7, <1>8, <1>9, <1>10, <1>11 DEF TypeOK, Caches, Numbers

\* What is packed stands for what is meant, when the client reads it.
LEMMA Resolving ==
    ASSUME Inv, Mirrored
    PROVE  PackedResolve
<1> SUFFICES ASSUME down # << >> PROVE PackedResolve
  BY DEF PackedResolve
<1> DEFINE p == Head(down)
<1>1. CASE p.type \in {"message", "delete"}
  <2>1. up \in Seq(Up) /\ Shake(gate, down, up, client.place)
    BY DEF Inv, Typed, Handshake
  <2>2. PICK D : down \in Seq(D)
    BY DEF Inv, Typed
  <2>3. p.type \notin {"login", "start_configuration"}
    BY <1>1
  <2>4. ~Joins(down)
    BY <2>1, <2>2, <2>3, ShakeRead
  <2>5. CachesTo(client.cache, down, cache)
    BY <2>4, NotNew DEF Mirrored
  <2>6. Finds(client.cache, p)
    BY <2>2, <2>5, CachesTail
  <2>7. QED
    BY <2>6 DEF Finds, Resolved, PackedResolve
<1>2. CASE p.type \notin {"message", "delete"}
  BY <1>2 DEF PackedResolve
<1>3. QED
  BY <1>1, <1>2

\* What the gateway keeps of a client, the client has: an index that stands
\* for a signature is, when it is read, that signature's in the client's cache,
\* and a message comes with the index the client counted up to, whatever
\* reconfigurations lie between (sigCache.pack, push, chatState.render, reset).
THEOREM MirrorsKept == Spec => []MirrorsAgree
<1>1. Init => Mirrored
  BY MirroredInit
<1>2. Init => Counted
  <2> SUFFICES ASSUME Init PROVE Counted
    OBVIOUS
  <2>1. /\ sids = 0 /\ client.key = 1 /\ up = << >> /\ session = Null /\ outcome = "ok"
        /\ keys \in BOOLEAN
    BY DEF Init, NewListener
  <2>2. \A i \in 1 .. Len(up) : FALSE
    BY <2>1, NoPlaces
  <2>3. sids \in 0 .. MaxSids /\ client.key \in 1 .. sids + 1
    BY <2>1, Constants
  <2>4. QED
    BY <2>1, <2>2, <2>3 DEF Counted
<1>3. Inv /\ Mirrored /\ [Next]_vars => Mirrored'
  BY MirroredNext
<1>4. Inv /\ Counted /\ [Next]_vars => Counted'
  BY CountedNext
<1>5. Inv /\ Mirrored /\ Counted => TypeOK /\ PackedResolve
  BY Values, Resolving
<1>6. TypeOK /\ PackedResolve /\ IndexInOrder => MirrorsAgree
  BY DEF MirrorsAgree
<1>7. QED
  BY <1>1, <1>2, <1>3, <1>4, <1>5, <1>6, Invariance, IndexesInOrder, PTL DEF Spec
=============================================================================
