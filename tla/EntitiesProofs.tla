--------------------------- MODULE EntitiesProofs ---------------------------
(***************************************************************************)
(* Proofs about Entities, for any entities, types and stand-ins, any size  *)
(* of a delta and of what it truncates, and any rate of resyncs: the       *)
(* client has exactly the entities of the world it is in, sees each within *)
(* the drift of its relative moves, and reads metadata of its own schema.  *)
(*                                                                         *)
(* Neither where an entity is seen nor which schema its metadata has is    *)
(* inductive: the baseline and the recorded type stand between the world   *)
(* and the client.  Followed links all of them, an entity at a time.       *)
(***************************************************************************)
EXTENDS Entities, TLAPS

\* An entity the client has: a baseline, and the client within the drift of
\* it; the type recorded and the type shown are the world's; the baseline is
\* where the world has it, if it may be resynced; and no foreign metadata.
Followed(e) ==
    /\ shown[e] = None <=> there[e] = None
    /\ shown[e] # None =>
          /\ pos[e] # None /\ Abs(shown[e].at - pos[e]) <= sync[e] * (Fine - 1)
          /\ entTypes[e] = there[e].type
          /\ shown[e].type = Rendered[there[e].type]
          /\ ~there[e].smooth => pos[e] = there[e].at
          /\ shown[e].meta \in {None, shown[e].type}

Inv == TypeOK /\ \A e \in EID : Followed(e)

----------------------------------------------------------------------------
(* Arithmetic.                                                             *)

\* The bound on the drift is a number, and grows by a unit's parts less one.
LEMMA DriftGrows ==
    ASSUME NEW n \in Nat
    PROVE  /\ n * (Fine - 1) \in Nat
           /\ 0 * (Fine - 1) = 0
           /\ (n + 1) * (Fine - 1) = n * (Fine - 1) + (Fine - 1)
<1> DEFINE f == Fine - 1
<1>1. f \in Nat
  BY UnitsAssumption
<1> HIDE DEF f
<1>2. n * f \in Nat /\ 0 * f = 0 /\ (n + 1) * f = n * f + f
  BY <1>1
<1>3. QED
  BY <1>2 DEF f

\* Truncation is towards nought, by less than a unit.
LEMMA TruncatedTowardsNought ==
    ASSUME NEW v \in Int
    PROVE  /\ Truncated(v) \in Int
           /\ v >= 0 => 0 <= Truncated(v) * Fine /\ Truncated(v) * Fine <= v
           /\ v < 0 => v <= Truncated(v) * Fine /\ Truncated(v) * Fine <= 0
           /\ Abs(v - Truncated(v) * Fine) <= Fine - 1
<1>1. Fine \in Nat \ {0}
  BY UnitsAssumption
<1>2. ASSUME NEW n \in Nat
      PROVE  /\ n \div Fine \in Nat
             /\ 0 <= (n \div Fine) * Fine /\ (n \div Fine) * Fine <= n
             /\ n - (n \div Fine) * Fine <= Fine - 1
  <2>1. n \div Fine \in Nat /\ n % Fine \in 0 .. Fine - 1 /\ n = Fine * (n \div Fine) + (n % Fine)
    BY <1>1, SMTT(30)
  <2> DEFINE q == n \div Fine
             r == n % Fine
  <2> HIDE DEF q, r
  <2>2. q \in Nat /\ r \in 0 .. Fine - 1 /\ n = Fine * q + r
    BY <2>1 DEF q, r
  <2>3. Fine * q = q * Fine /\ q * Fine \in Nat
    BY <2>2, <1>1
  <2>4. 0 <= q * Fine /\ q * Fine <= n /\ n - q * Fine <= Fine - 1
    BY <2>2, <2>3, <1>1
  <2>5. QED
    BY <2>2, <2>4 DEF q
<1>3. CASE v >= 0
  <2>1. v \in Nat /\ Truncated(v) = v \div Fine
    BY <1>3 DEF Truncated
  <2> DEFINE q == v \div Fine
  <2>2. q \in Nat /\ 0 <= q * Fine /\ q * Fine <= v /\ v - q * Fine <= Fine - 1 /\ q * Fine \in Int
    BY <2>1, <1>2, <1>1
  <2> HIDE DEF q
  <2>3. Truncated(v) = q
    BY <2>1 DEF q
  <2>4. QED
    BY <2>2, <2>3, <1>3, <1>1 DEF Abs
<1>4. CASE v < 0
  <2> DEFINE q == (-v) \div Fine
  <2>1. -v \in Nat /\ Truncated(v) = -q
    BY <1>4 DEF Truncated
  <2>2. q \in Nat /\ 0 <= q * Fine /\ q * Fine <= -v /\ (-v) - q * Fine <= Fine - 1
    BY <2>1, <1>2
  <2> HIDE DEF q
  <2>3. q * Fine \in Int /\ (-q) * Fine = -(q * Fine)
    BY <2>2, <1>1
  <2>4. QED
    BY <2>1, <2>2, <2>3, <1>4, <1>1 DEF Abs
<1>5. QED
  BY <1>3, <1>4

\* A delta of less than Jump does not saturate: it is short by less than a
\* unit.
LEMMA DeltaExact ==
    ASSUME NEW v \in Int, Abs(v) < Jump * Fine
    PROVE  clampDelta(v) \in Int /\ clampDelta(v) * Fine \in Int
           /\ Abs(v - clampDelta(v) * Fine) <= Fine - 1
<1>1. Fine \in Nat /\ Jump \in Nat /\ Limit \in Nat /\ Jump <= Limit
  BY UnitsAssumption
<1>2. /\ Jump * Fine \in Int /\ Limit * Fine \in Int
      /\ Jump * Fine <= Limit * Fine
      /\ -(Limit + 1) * Fine = -(Limit * Fine) - Fine
  <2>1. PICK d \in Nat : Limit = Jump + d
    <3>1. Limit - Jump \in Nat /\ Limit = Jump + (Limit - Jump)
      BY <1>1
    <3>2. QED
      BY <3>1
  <2>2. d * Fine \in Nat /\ (Jump + d) * Fine = Jump * Fine + d * Fine
    BY <1>1, <2>1
  <2>3. -(Limit + 1) * Fine = -(Limit * Fine) - Fine
    BY <1>1
  <2>4. Jump * Fine \in Int /\ Limit * Fine \in Int
    BY <1>1
  <2>5. QED
    BY <2>1, <2>2, <2>3, <2>4
<1>3. ~(v > Limit * Fine) /\ ~(v < -(Limit + 1) * Fine)
  BY <1>1, <1>2 DEF Abs
<1>4. clampDelta(v) = Truncated(v)
  BY <1>3 DEF clampDelta
<1>5. Truncated(v) * Fine \in Int
  BY TruncatedTowardsNought, <1>1
<1>6. QED
  BY <1>4, <1>5, TruncatedTowardsNought

\* Any delta is a number.
LEMMA DeltaInt ==
    ASSUME NEW v \in Int
    PROVE  clampDelta(v) \in Int /\ clampDelta(v) * Fine \in Int
<1>1. Fine \in Int /\ Limit \in Int
  BY UnitsAssumption
<1>2. clampDelta(v) \in Int
  BY <1>1, TruncatedTowardsNought DEF clampDelta
<1> DEFINE k == clampDelta(v)
<1> HIDE DEF k
<1>3. k \in Int => k * Fine \in Int
  BY <1>1
<1>4. QED
  BY <1>2, <1>3 DEF k

\* Any delta goes towards its mark: to within a unit, or at the least nearer
\* and not past it.
LEMMA DeltaApproaches ==
    ASSUME NEW p \in Int, NEW x \in Int
    PROVE  LET q == p + clampDelta(x - p) * Fine
           IN  /\ clampDelta(x - p) \in Int /\ q \in Int
               /\ \/ Abs(q - x) < Fine
                  \/ Abs(q - x) < Abs(p - x) /\ (q < x <=> p < x)
<1> DEFINE v == x - p
<1>1. v \in Int /\ Fine \in Nat \ {0} /\ Limit \in Nat \ {0}
  BY UnitsAssumption
<1>2. Limit * Fine \in Nat \ {0} /\ -(Limit + 1) * Fine = -(Limit * Fine) - Fine
  <2>1. PICK l \in Nat : Limit = l + 1
    <3>1. Limit - 1 \in Nat /\ Limit = (Limit - 1) + 1
      BY <1>1
    <3>2. QED
      BY <3>1
  <2>2. l * Fine \in Nat /\ (l + 1) * Fine = l * Fine + Fine
    BY <1>1
  <2>3. -(Limit + 1) * Fine = -(Limit * Fine) - Fine
    BY <1>1
  <2>4. QED
    BY <2>1, <2>2, <2>3, <1>1
<1> DEFINE m == Limit * Fine
<1>3. CASE v > Limit * Fine
  <2>1. clampDelta(v) = Limit
    BY <1>3 DEF clampDelta
  <2>2. m \in Nat \ {0} /\ v > m /\ clampDelta(v) * Fine = m
    BY <1>2, <1>3, <2>1
  <2> HIDE DEF m
  <2>3. QED
    BY <2>1, <2>2, <1>1 DEF Abs
<1>4. CASE ~(v > Limit * Fine) /\ v < -(Limit + 1) * Fine
  <2>1. clampDelta(v) = -(Limit + 1)
    BY <1>4 DEF clampDelta
  <2>2. m \in Nat /\ v < -m - Fine /\ clampDelta(v) * Fine = -m - Fine
    <3> DEFINE l == Limit + 1
    <3>1. l \in Int /\ clampDelta(v) = -l
      BY <2>1, <1>1
    <3> HIDE DEF l
    <3>2. (-l) * Fine = -(l * Fine)
      BY <3>1, <1>1
    <3>3. clampDelta(v) * Fine = -(Limit + 1) * Fine
      BY <3>1, <3>2 DEF l
    <3>4. QED
      BY <1>2, <1>4, <3>3
  <2> HIDE DEF m
  <2>3. QED
    BY <2>1, <2>2, <1>1 DEF Abs
<1>5. CASE ~(v > Limit * Fine) /\ ~(v < -(Limit + 1) * Fine)
  <2>1. clampDelta(v) = Truncated(v)
    BY <1>5 DEF clampDelta
  <2> DEFINE d == Truncated(v) * Fine
  <2>2. Truncated(v) \in Int /\ d \in Int /\ Abs(v - d) <= Fine - 1
    BY <1>1, TruncatedTowardsNought
  <2> HIDE DEF d
  <2>3. Abs((p + d) - x) < Fine
    BY <2>2, <1>1 DEF Abs
  <2>4. QED
    BY <2>1, <2>2, <2>3 DEF d
<1>6. QED
  BY <1>3, <1>4, <1>5

----------------------------------------------------------------------------
(* Types.                                                                  *)

LEMMA TypeInit == Init => TypeOK
BY UnitsAssumption DEF Init, TypeOK

LEMMA AddTyped ==
    ASSUME TypeOK, NEW e \in EID, NEW t \in Types, NEW x \in Coord, EntityAdd(e, t, x)
    PROVE  TypeOK'
<1>1. [type |-> t, at |-> x, smooth |-> FALSE] \in Announced
  BY DEF Announced
<1>2. [type |-> Rendered[t], at |-> x, meta |-> None] \in Shown
  BY RenderedAssumption DEF Shown, Coord
<1>3. QED
  BY <1>1, <1>2 DEF TypeOK, EntityAdd, Coord

\* A move the client hears of leaves it an entity at another place, or none.
LEMMA ReportTyped ==
    ASSUME TypeOK, NEW e \in EID, NEW x \in Coord, NEW b \in BOOLEAN, Reported(e, x, b)
    PROVE  there' \in [EID -> Announced \cup {None}]
<1>1. there[e] # None => [there[e] EXCEPT !.at = x, !.smooth = b] \in Announced
  BY DEF TypeOK, Announced
<1>2. QED
  BY <1>1 DEF TypeOK, Reported

LEMMA AbsoluteTyped ==
    ASSUME TypeOK, NEW e \in EID, NEW x \in Coord, Absolute(e, x)
    PROVE  pos' \in [EID -> Int \cup {None}] /\ shown' \in [EID -> Shown \cup {None}]
<1>1. x \in Int
  BY DEF Coord
<1>2. shown[e] # None => [shown[e] EXCEPT !.at = x] \in Shown
  BY <1>1 DEF TypeOK, Shown
<1>3. QED
  BY <1>1, <1>2 DEF TypeOK, Absolute, Moved

LEMMA RelativeTyped ==
    ASSUME TypeOK, NEW e \in EID, NEW x \in Coord, NEW b \in BOOLEAN,
           pos[e] # None, Relative(e, x, b)
    PROVE  pos' \in [EID -> Int \cup {None}] /\ shown' \in [EID -> Shown \cup {None}]
<1>1. x \in Int /\ pos[e] \in Int
  BY DEF TypeOK, Coord
<1> DEFINE d == clampDelta(x - pos[e]) * Fine
<1>2. d \in Int
  <2>1. x - pos[e] \in Int
    BY <1>1
  <2>2. QED
    BY <2>1, DeltaInt
<1>3. /\ pos' = [pos EXCEPT ![e] = IF b THEN pos[e] + d ELSE x]
      /\ shown' = [shown EXCEPT ![e] = IF shown[e] = None THEN None
                                       ELSE [shown[e] EXCEPT !.at = shown[e].at + d]]
  BY DEF Relative
<1> HIDE DEF d
<1>4. shown[e] # None => [shown[e] EXCEPT !.at = shown[e].at + d] \in Shown
  BY <1>2 DEF TypeOK, Shown
<1>5. (IF b THEN pos[e] + d ELSE x) \in Int
  BY <1>1, <1>2
<1>6. pos' \in [EID -> Int \cup {None}]
  BY <1>3, <1>5 DEF TypeOK
<1>7. shown' \in [EID -> Shown \cup {None}]
  BY <1>3, <1>4 DEF TypeOK
<1>8. QED
  BY <1>6, <1>7

LEMMA MoveTyped ==
    ASSUME TypeOK, NEW e \in EID, NEW x \in Coord, OrdinaryMove(e, x) \/ NoSyncMove(e, x)
    PROVE  TypeOK'
<1>1. SyncEvery \in Nat \ {0} /\ sync[e] \in 0 .. SyncEvery - 1
  BY UnitsAssumption DEF TypeOK
<1>2. (sync[e] + 1) % SyncEvery \in 0 .. SyncEvery - 1
  BY <1>1, SMTT(30)
<1>3. sync' \in [EID -> 0 .. SyncEvery - 1] /\ entTypes' = entTypes
  BY <1>2 DEF TypeOK, OrdinaryMove, NoSyncMove
<1>4. there' \in [EID -> Announced \cup {None}]
  BY ReportTyped DEF OrdinaryMove, NoSyncMove
<1>5. Absolute(e, x) \/ (pos[e] # None /\ \E b \in BOOLEAN : Relative(e, x, b))
  BY DEF OrdinaryMove, NoSyncMove
<1>6. pos' \in [EID -> Int \cup {None}] /\ shown' \in [EID -> Shown \cup {None}]
  BY <1>5, AbsoluteTyped, RelativeTyped
<1>7. QED
  BY <1>3, <1>4, <1>6 DEF TypeOK

LEMMA MetaTyped ==
    ASSUME TypeOK, NEW e \in EID, EntityMeta(e)
    PROVE  TypeOK'
<1>1. shown[e] # None => [shown[e] EXCEPT !.meta = entTypes[e]] \in Shown
  BY DEF TypeOK, Shown
<1>2. QED
  BY <1>1 DEF TypeOK, EntityMeta

LEMMA TypeNext == TypeOK /\ [Next]_vars => TypeOK'
<1> SUFFICES ASSUME TypeOK, [Next]_vars PROVE TypeOK'
  OBVIOUS
<1>0. 0 \in 0 .. SyncEvery - 1
  BY UnitsAssumption
<1>1. ASSUME NEW e \in EID, NEW x \in Coord, NEW t \in Types, EntityAdd(e, t, x) PROVE TypeOK'
  BY <1>1, AddTyped
<1>2. ASSUME NEW e \in EID, NEW x \in Coord, OrdinaryMove(e, x) \/ NoSyncMove(e, x) PROVE TypeOK'
  BY <1>2, MoveTyped
<1>3. ASSUME NEW e \in EID, EntityMeta(e) PROVE TypeOK'
  BY <1>3, MetaTyped
<1>4. ASSUME NEW eids \in SUBSET EID, EntityRemove(eids) PROVE TypeOK'
  BY <1>0, <1>4 DEF TypeOK, EntityRemove
<1>5. CASE Dimension \/ Rejoin
  BY <1>0, <1>5 DEF TypeOK, Dimension, Rejoin, Reset, Nobody
<1>6. CASE Rehome
  BY <1>0, <1>6 DEF TypeOK, Rehome, Reset, Nobody
<1>7. CASE UNCHANGED vars
  BY <1>7 DEF TypeOK, vars
<1>8. QED
  BY <1>1, <1>2, <1>3, <1>4, <1>5, <1>6, <1>7 DEF Next

\* Every variable keeps its type.
THEOREM EntitiesTyped == Spec => []TypeOK
BY TypeInit, TypeNext, PTL DEF Spec

----------------------------------------------------------------------------
(* An entity at a time: what a step does not touch stays followed.         *)

\* The values Followed speaks of are those of the step before.
Kept(e) ==
    /\ there'[e] = there[e] /\ pos'[e] = pos[e] /\ sync'[e] = sync[e]
    /\ entTypes'[e] = entTypes[e] /\ shown'[e] = shown[e]

LEMMA KeptFollowed ==
    ASSUME NEW e \in EID, Followed(e), Kept(e)
    PROVE  Followed(e)'
BY DEF Followed, Kept

\* Nobody is followed: the world has not announced the entity, and the client
\* does not have it.
LEMMA NobodyFollowed ==
    ASSUME NEW e \in EID, there'[e] = None, shown'[e] = None
    PROVE  Followed(e)'
BY DEF Followed

LEMMA AddFollowed ==
    ASSUME Inv, NEW e \in EID, NEW t \in Types, NEW x \in Coord, EntityAdd(e, t, x),
           NEW f \in EID
    PROVE  Followed(f)'
<1>1. CASE f # e
  <2>1. Kept(f)
    BY <1>1 DEF EntityAdd, Kept, Inv, TypeOK
  <2>2. QED
    BY <2>1, KeptFollowed DEF Inv
<1>2. CASE f = e
  <2>1. /\ there'[e] = [type |-> t, at |-> x, smooth |-> FALSE]
        /\ shown'[e] = [type |-> Rendered[t], at |-> x, meta |-> None]
        /\ pos'[e] = x /\ entTypes'[e] = t /\ sync'[e] \in Nat
    BY UnitsAssumption DEF EntityAdd, Inv, TypeOK
  <2>2. there'[e] # None /\ shown'[e] # None /\ pos'[e] # None
    <3>1. there'[e] \in Announced /\ shown'[e] \in Shown /\ pos'[e] \in Int
      BY <2>1, RenderedAssumption DEF Announced, Shown, Coord
    <3>2. QED
      BY <3>1, NoneAssumption
  <2>3. Abs(shown'[e].at - pos'[e]) = 0 /\ 0 <= sync'[e] * (Fine - 1)
    <3>1. x - x = 0
      BY DEF Coord
    <3>2. QED
      BY <2>1, <3>1, DriftGrows DEF Abs
  <2>4. sync'[e] * (Fine - 1) \in Int
    BY <2>1, DriftGrows
  <2>5. QED
    BY <1>2, <2>1, <2>2, <2>3, <2>4 DEF Followed
<1>3. QED
  BY <1>1, <1>2

\* A move that is not a delta brings the client to where the entity is.
LEMMA AbsoluteFollowed ==
    ASSUME Inv, NEW e \in EID, NEW x \in Coord, NEW b \in BOOLEAN,
           Reported(e, x, b), Absolute(e, x), sync'[e] \in Nat, entTypes' = entTypes
    PROVE  Followed(e)'
<1>1. CASE shown[e] = None
  <2>1. there[e] = None
    BY <1>1 DEF Inv, Followed
  <2>2. there'[e] = None /\ shown'[e] = None
    BY <1>1, <2>1 DEF Reported, Absolute, Moved, Inv, TypeOK
  <2>3. QED
    BY <2>2, NobodyFollowed
<1>2. CASE shown[e] # None
  <2>1. there[e] # None /\ there[e] \in Announced /\ shown[e] \in Shown
    BY <1>2 DEF Inv, Followed, TypeOK
  <2>2. /\ there'[e] = [there[e] EXCEPT !.at = x, !.smooth = b]
        /\ shown'[e] = [shown[e] EXCEPT !.at = x]
        /\ pos'[e] = x /\ x \in Int
    BY <1>2, <2>1 DEF Reported, Absolute, Moved, Inv, TypeOK, Coord
  <2>3. /\ there'[e].at = x /\ there'[e].type = there[e].type
        /\ shown'[e].at = x /\ shown'[e].type = shown[e].type
        /\ shown'[e].meta = shown[e].meta
    BY <2>1, <2>2 DEF Announced, Shown
  <2>4. there'[e] # None /\ shown'[e] # None /\ pos'[e] # None
    <3>1. there'[e] \in Announced /\ shown'[e] \in Shown
      BY <2>1, <2>2 DEF Announced, Shown
    <3>2. QED
      BY <2>2, <3>1, NoneAssumption
  <2>5. Abs(shown'[e].at - pos'[e]) = 0
    <3>1. x - x = 0
      BY <2>2
    <3>2. QED
      BY <2>2, <2>3, <3>1 DEF Abs
  <2>6. sync'[e] * (Fine - 1) \in Nat
    BY DriftGrows
  <2>7. QED
    BY <1>2, <2>2, <2>3, <2>4, <2>5, <2>6 DEF Followed, Inv
<1>3. QED
  BY <1>1, <1>2

\* A delta leaves an entity that the client has in its type and its schema;
\* the client moves by what is sent, the baseline by that or to the mark.
LEMMA RelativeMoves ==
    ASSUME Inv, NEW e \in EID, NEW x \in Coord, NEW b \in BOOLEAN,
           Reported(e, x, b), Relative(e, x, b), pos[e] # None, shown[e] # None,
           entTypes' = entTypes
    PROVE  LET d == clampDelta(x - pos[e]) * Fine
           IN  /\ there'[e] # None /\ there'[e].at = x
               /\ there'[e].type = there[e].type
               /\ there'[e].smooth <=> b
               /\ shown'[e] # None /\ shown'[e].at = shown[e].at + d
               /\ shown'[e].type = shown[e].type /\ shown'[e].meta = shown[e].meta
               /\ b => pos'[e] = pos[e] + d
               /\ ~b => pos'[e] = x
               /\ pos'[e] # None /\ d \in Int /\ x \in Int /\ pos[e] \in Int
               /\ shown[e].at \in Int
<1> DEFINE d == clampDelta(x - pos[e]) * Fine
<1>1. there[e] \in Announced /\ shown[e] \in Shown /\ pos[e] \in Int /\ x \in Int
  BY DEF Inv, Followed, TypeOK, Coord
<1>2. d \in Int
  <2>1. x - pos[e] \in Int
    BY <1>1
  <2>2. QED
    BY <2>1, DeltaInt
<1>3. /\ pos' = [pos EXCEPT ![e] = IF b THEN pos[e] + d ELSE x]
      /\ shown' = [shown EXCEPT ![e] = IF shown[e] = None THEN None
                                       ELSE [shown[e] EXCEPT !.at = shown[e].at + d]]
  BY DEF Relative
<1> HIDE DEF d
<1>4. there[e] # None
  BY DEF Inv, Followed
<1>5. there'[e] = [there[e] EXCEPT !.at = x, !.smooth = b]
  BY <1>4 DEF Reported, Inv, TypeOK
<1>6. there'[e] \in Announced /\ there'[e].at = x /\ there'[e].type = there[e].type
  BY <1>1, <1>5 DEF Announced, Coord
<1>7. there'[e].smooth = b
  BY <1>1, <1>5 DEF Announced
<1>8. shown'[e] = [shown[e] EXCEPT !.at = shown[e].at + d]
  BY <1>3 DEF Inv, TypeOK
<1>9. /\ shown'[e] \in Shown /\ shown'[e].at = shown[e].at + d /\ shown[e].at \in Int
      /\ shown'[e].type = shown[e].type /\ shown'[e].meta = shown[e].meta
  BY <1>1, <1>2, <1>8 DEF Shown
<1>10. pos'[e] = (IF b THEN pos[e] + d ELSE x)
  BY <1>3 DEF Inv, TypeOK
<1>11. pos'[e] \in Int
  BY <1>1, <1>2, <1>10
<1>12. there'[e] # None /\ shown'[e] # None /\ pos'[e] # None
  BY <1>6, <1>9, <1>11, NoneAssumption
<1>13. QED
  BY <1>1, <1>2, <1>6, <1>7, <1>9, <1>10, <1>12 DEF d

LEMMA OrdinaryMoveFollowed ==
    ASSUME Inv, NEW e \in EID, NEW x \in Coord, OrdinaryMove(e, x)
    PROVE  Followed(e)'
<1>1. SyncEvery \in Nat \ {0} /\ sync[e] \in 0 .. SyncEvery - 1
  BY UnitsAssumption DEF Inv, TypeOK
<1>2. sync'[e] = (sync[e] + 1) % SyncEvery
  BY DEF OrdinaryMove, Inv, TypeOK
<1>3. sync'[e] \in Nat /\ (sync'[e] = 0 \/ sync'[e] = sync[e] + 1)
  BY <1>1, <1>2, SMTT(30)
<1>4. Reported(e, x, FALSE) /\ entTypes' = entTypes
  BY DEF OrdinaryMove
<1>5. CASE Absolute(e, x)
  BY <1>3, <1>4, <1>5, AbsoluteFollowed
<1>6. CASE Relative(e, x, FALSE) /\ pos[e] # None /\ sync'[e] # 0
           /\ ~(Abs(x - pos[e]) >= Jump * Fine)
  <2>1. CASE shown[e] = None
    <3>1. there'[e] = None /\ shown'[e] = None
      BY <1>4, <1>6, <2>1 DEF Inv, Followed, TypeOK, Reported, Relative
    <3>2. QED
      BY <3>1, NobodyFollowed
  <2>2. CASE shown[e] # None
    <3> DEFINE d == clampDelta(x - pos[e]) * Fine
               drift == sync[e] * (Fine - 1)
    <3>1. /\ there'[e] # None /\ there'[e].at = x /\ there'[e].type = there[e].type
          /\ shown'[e] # None /\ shown'[e].at = shown[e].at + d
          /\ shown'[e].type = shown[e].type /\ shown'[e].meta = shown[e].meta
          /\ pos'[e] = x /\ pos'[e] # None /\ x \in Int /\ pos[e] \in Int
          /\ d \in Int /\ shown[e].at \in Int
      BY <1>4, <1>6, <2>2, RelativeMoves
    <3>2. Abs((x - pos[e]) - d) <= Fine - 1
      <4>1. x - pos[e] \in Int /\ Abs(x - pos[e]) \in Int
        BY <3>1 DEF Abs
      <4>2. Jump * Fine \in Int
        BY UnitsAssumption
      <4>3. Abs(x - pos[e]) < Jump * Fine
        BY <1>6, <4>1, <4>2
      <4>4. QED
        BY <4>1, <4>3, DeltaExact
    <3>3. Abs(shown[e].at - pos[e]) <= drift
      BY <2>2 DEF Inv, Followed
    <3>4. drift \in Nat /\ sync'[e] * (Fine - 1) = drift + (Fine - 1) /\ Fine \in Nat
      <4>1. sync[e] \in Nat /\ sync'[e] = sync[e] + 1 /\ Fine \in Nat
        BY <1>1, <1>3, <1>6, UnitsAssumption
      <4>2. /\ sync[e] * (Fine - 1) \in Nat
            /\ (sync[e] + 1) * (Fine - 1) = sync[e] * (Fine - 1) + (Fine - 1)
        BY <4>1, DriftGrows
      <4>3. sync'[e] * (Fine - 1) = (sync[e] + 1) * (Fine - 1)
        BY <4>1
      <4>4. QED
        BY <4>1, <4>2, <4>3
    <3> HIDE DEF d, drift
    <3>5. Abs(shown'[e].at - pos'[e]) <= sync'[e] * (Fine - 1)
      BY <3>1, <3>2, <3>3, <3>4 DEF Abs
    <3>6. QED
      BY <1>4, <2>2, <3>1, <3>5 DEF Inv, Followed
  <2>3. QED
    BY <2>1, <2>2
<1>7. QED
  <2>1. Absolute(e, x) \/ (Relative(e, x, FALSE) /\ pos[e] # None /\ sync'[e] # 0
                           /\ ~(Abs(x - pos[e]) >= Jump * Fine))
    BY DEF OrdinaryMove
  <2>2. QED
    BY <1>5, <1>6, <2>1

LEMMA NoSyncMoveFollowed ==
    ASSUME Inv, NEW e \in EID, NEW x \in Coord, NoSyncMove(e, x)
    PROVE  Followed(e)'
<1>1. Reported(e, x, TRUE) /\ sync' = sync /\ entTypes' = entTypes /\ sync'[e] \in Nat
  <2>1. Reported(e, x, TRUE) /\ sync' = sync /\ entTypes' = entTypes
    BY DEF NoSyncMove
  <2>2. sync'[e] \in Nat
    BY <2>1, UnitsAssumption DEF Inv, TypeOK
  <2>3. QED
    BY <2>1, <2>2
<1>2. CASE pos[e] = None
  BY <1>1, <1>2, AbsoluteFollowed DEF NoSyncMove
<1>3. CASE pos[e] # None /\ shown[e] = None
  <2>1. there'[e] = None /\ shown'[e] = None
    BY <1>3 DEF Inv, Followed, TypeOK, NoSyncMove, Reported, Relative
  <2>2. QED
    BY <2>1, NobodyFollowed
<1>4. CASE pos[e] # None /\ shown[e] # None
  <2> DEFINE d == clampDelta(x - pos[e]) * Fine
  <2>1. Relative(e, x, TRUE)
    BY <1>4 DEF NoSyncMove
  <2>2. /\ there'[e] # None /\ there'[e].type = there[e].type /\ there'[e].smooth
        /\ shown'[e] # None /\ shown'[e].at = shown[e].at + d
        /\ shown'[e].type = shown[e].type /\ shown'[e].meta = shown[e].meta
        /\ pos'[e] = pos[e] + d /\ pos'[e] # None /\ pos[e] \in Int
        /\ d \in Int /\ shown[e].at \in Int
    BY <1>1, <1>4, <2>1, RelativeMoves
  <2> HIDE DEF d
  <2>3. shown'[e].at - pos'[e] = shown[e].at - pos[e]
    BY <2>2
  <2>4. Abs(shown'[e].at - pos'[e]) <= sync'[e] * (Fine - 1)
    BY <1>1, <1>4, <2>3 DEF Inv, Followed
  <2>5. QED
    BY <1>1, <1>4, <2>2, <2>4 DEF Inv, Followed
<1>5. QED
  BY <1>2, <1>3, <1>4

\* A move of another entity, resynced or not, leaves this one as it was.
LEMMA MoveFollowed ==
    ASSUME Inv, NEW e \in EID, NEW x \in Coord, OrdinaryMove(e, x) \/ NoSyncMove(e, x),
           NEW f \in EID
    PROVE  Followed(f)'
<1>1. CASE f = e
  BY <1>1, OrdinaryMoveFollowed, NoSyncMoveFollowed
<1>2. CASE f # e
  <2>1. there'[f] = there[f] /\ sync'[f] = sync[f] /\ entTypes'[f] = entTypes[f]
    BY <1>2 DEF OrdinaryMove, NoSyncMove, Reported, Inv, TypeOK
  <2>2. pos'[f] = pos[f] /\ shown'[f] = shown[f]
    BY <1>2 DEF OrdinaryMove, NoSyncMove, Absolute, Moved, Relative, Inv, TypeOK
  <2>3. QED
    BY <2>1, <2>2, KeptFollowed DEF Inv, Kept
<1>3. QED
  BY <1>1, <1>2

LEMMA MetaFollowed ==
    ASSUME Inv, NEW e \in EID, EntityMeta(e), NEW f \in EID
    PROVE  Followed(f)'
<1>1. CASE f # e \/ shown[e] = None
  <2>1. Kept(f)
    BY <1>1 DEF EntityMeta, Kept, Inv, TypeOK
  <2>2. QED
    BY <2>1, KeptFollowed DEF Inv
<1>2. CASE f = e /\ shown[e] # None
  <2>1. /\ shown'[e] = [shown[e] EXCEPT !.meta = entTypes[e]]
        /\ there'[e] = there[e] /\ pos'[e] = pos[e] /\ sync'[e] = sync[e]
        /\ entTypes'[e] = entTypes[e]
    BY <1>2 DEF EntityMeta, Inv, TypeOK
  <2>2. shown[e] \in Shown /\ there[e] \in Announced
    BY <1>2 DEF Inv, Followed, TypeOK
  <2>3. /\ shown'[e] \in Shown /\ shown'[e].at = shown[e].at
        /\ shown'[e].type = shown[e].type /\ shown'[e].meta = entTypes[e]
    <3>1. entTypes[e] \in Types
      BY <1>2, <2>2 DEF Inv, Followed, Announced
    <3>2. QED
      BY <2>1, <2>2, <3>1 DEF Shown
  <2>4. shown'[e].meta = shown'[e].type
    BY <1>2, <2>2, <2>3, NoneAssumption DEF EntityMeta, IsSubstituted, Inv, Followed, Announced
  <2>5. shown'[e] # None
    BY <2>3, NoneAssumption
  <2>6. QED
    BY <1>2, <2>1, <2>3, <2>4, <2>5 DEF Inv, Followed
<1>3. QED
  BY <1>1, <1>2

LEMMA RemoveFollowed ==
    ASSUME Inv, NEW eids \in SUBSET EID, EntityRemove(eids), NEW f \in EID
    PROVE  Followed(f)'
<1>1. CASE f \in eids
  BY <1>1, NobodyFollowed DEF EntityRemove
<1>2. CASE f \notin eids
  <2>1. Kept(f)
    BY <1>2 DEF EntityRemove, Kept
  <2>2. QED
    BY <2>1, KeptFollowed DEF Inv
<1>3. QED
  BY <1>1, <1>2

\* After a handover the client is left with nobody: whatever it had was
\* tracked, since what is followed has a baseline.
LEMMA WorldReplaced ==
    ASSUME Inv, Dimension \/ Rejoin \/ Rehome, NEW f \in EID
    PROVE  Followed(f)'
<1>1. there'[f] = None
  BY DEF Dimension, Rejoin, Rehome, Nobody
<1>2. shown'[f] = None
  BY DEF Dimension, Rejoin, Rehome, Nobody, Tracked, Inv, Followed
<1>3. QED
  BY <1>1, <1>2, NobodyFollowed

----------------------------------------------------------------------------
(* The invariant, and what follows from it.                                *)

LEMMA InvInit == Init => Inv
<1>1. Init => \A e \in EID : Followed(e)
  BY DEF Init, Followed
<1>2. QED
  BY <1>1, TypeInit DEF Inv

LEMMA InvNext == Inv /\ [Next]_vars => Inv'
<1> SUFFICES ASSUME Inv, [Next]_vars PROVE Inv'
  OBVIOUS
<1>1. TypeOK'
  BY TypeNext DEF Inv
<1>2. ASSUME NEW f \in EID PROVE Followed(f)'
  <2>1. ASSUME NEW e \in EID, NEW x \in Coord, NEW t \in Types, EntityAdd(e, t, x)
        PROVE Followed(f)'
    BY <2>1, AddFollowed
  <2>2. ASSUME NEW e \in EID, NEW x \in Coord, OrdinaryMove(e, x) \/ NoSyncMove(e, x)
        PROVE Followed(f)'
    BY <2>2, MoveFollowed
  <2>3. ASSUME NEW e \in EID, EntityMeta(e) PROVE Followed(f)'
    BY <2>3, MetaFollowed
  <2>4. ASSUME NEW eids \in SUBSET EID, EntityRemove(eids) PROVE Followed(f)'
    BY <2>4, RemoveFollowed
  <2>5. CASE Dimension \/ Rejoin \/ Rehome
    BY <2>5, WorldReplaced
  <2>6. CASE UNCHANGED vars
    BY <2>6, KeptFollowed DEF vars, Kept, Inv
  <2>7. QED
    BY <2>1, <2>2, <2>3, <2>4, <2>5, <2>6 DEF Next
<1>3. QED
  BY <1>1, <1>2 DEF Inv

\* The invariant holds in every state.
THEOREM EntitiesFollowed == Spec => []Inv
BY InvInit, InvNext, PTL DEF Spec

\* The client has exactly the entities the world in view has announced
\* (MsgDimension, MsgRejoin, MsgRehome).
THEOREM NobodyLeftBehind == Spec => []NoGhosts
<1>1. Inv => NoGhosts
  BY DEF Inv, Followed, NoGhosts
<1>2. QED
  BY <1>1, EntitiesFollowed, PTL

\* What may be resynced is seen where it is, but for less than a delta unit a
\* relative move since the last absolute one (EntityView.Move).
THEOREM SeenWithinDrift == Spec => []SeenWhereItIs
<1>1. Inv => SeenWhereItIs
  BY DEF Inv, Followed, SeenWhereItIs, DriftBounded
<1>2. QED
  BY <1>1, EntitiesFollowed, PTL

\* No metadata reaches the client in the schema of another type than the one
\* it was shown (MsgEntityMeta, IsSubstituted).
THEOREM NoForeignMetadata == Spec => []MetaFitsEntity
<1>1. Inv => MetaFitsEntity
  BY DEF Inv, Followed, MetaFitsEntity
<1>2. QED
  BY <1>1, EntitiesFollowed, PTL

\* An entity that must not be resynced converges: each of its moves leaves
\* the baseline within a unit of where it is, or nearer and not past it, also
\* where the delta saturates (EntityView.Move).
THEOREM SmoothConverges == Spec => SmoothApproaches
<1> DEFINE Nearer(e, x) ==
              \/ Abs(pos'[e] - x) < Fine
              \/ /\ Abs(pos'[e] - x) < Abs(pos[e] - x)
                 /\ (pos'[e] < x <=> pos[e] < x)
           Approach == \A e \in EID, x \in Coord :
                          (NoSyncMove(e, x) /\ pos[e] # None) => Nearer(e, x)
<1>1. Inv => Approach
  <2> SUFFICES ASSUME Inv, NEW e \in EID, NEW x \in Coord, NoSyncMove(e, x), pos[e] # None
               PROVE  Nearer(e, x)
    OBVIOUS
  <2>1. pos[e] \in Int /\ x \in Int
    BY DEF Inv, TypeOK, Coord
  <2> DEFINE q == pos[e] + clampDelta(x - pos[e]) * Fine
  <2>2. pos'[e] = q
    BY DEF NoSyncMove, Relative, Inv, TypeOK
  <2>3. \/ Abs(q - x) < Fine
        \/ Abs(q - x) < Abs(pos[e] - x) /\ (q < x <=> pos[e] < x)
    BY <2>1, DeltaApproaches
  <2> HIDE DEF q
  <2>4. QED
    BY <2>2, <2>3
<1>2. Spec => [][Approach]_vars
  BY <1>1, EntitiesFollowed, PTL
<1>3. QED
  BY <1>2 DEF SmoothApproaches
=============================================================================




