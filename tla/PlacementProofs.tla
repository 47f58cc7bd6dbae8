-------------------------- MODULE PlacementProofs --------------------------
(***************************************************************************)
(* Proofs about where things are: the map of pods (Shard), and where a     *)
(* session thinks its player is, which is what it asks a pod to stream     *)
(* (Viewer).  The two have no variable in common; Viewer's operators carry *)
(* its name so that both can be extended here.                             *)
(*                                                                         *)
(* Shard, for maps of any size over any coordinates: what Validate accepts *)
(* gives every chunk one owner, growth takes no chunk away, a pod is aware *)
(* of all its neighbours, and ids never meet.  The invariant is Validate's *)
(* own condition, as the list grows: MapInv.  No two regions overlap,      *)
(* whatever int32 makes of their far edges, and that is what one owner per *)
(* chunk needs.                                                            *)
(***************************************************************************)
EXTENDS Shard, Viewer, FiniteSetTheorems, TLAPS

\* The regions a valid map can hold.
Sound == [sid : SIDs, minCX : Cols, minCZ : Rows, w : Extents, h : Extents]

NoOverlap(rs) == \A i, j \in DOMAIN rs : i < j => ~Overlaps(rs[i], rs[j])

MapInv == TypeOK /\ NoOverlap(map.regions)

----------------------------------------------------------------------------
(* Lists of regions.                                                       *)

\* What joining two lists around an element gives.
LEMMA JoinShape ==
    ASSUME NEW S, NEW f \in Seq(S), NEW b \in Seq(S), NEW e \in S
    PROVE  /\ (f \o <<e>>) \o b \in Seq(S)
           /\ Len((f \o <<e>>) \o b) = Len(f) + 1 + Len(b)
           /\ \A k \in 1 .. Len(f) : ((f \o <<e>>) \o b)[k] = f[k]
           /\ \A k \in 1 .. Len(b) : ((f \o <<e>>) \o b)[Len(f) + 1 + k] = b[k]
<1> DEFINE g == f \o <<e>>
<1>1. g \in Seq(S) /\ Len(g) = Len(f) + 1 /\ \A k \in 1 .. Len(f) : g[k] = f[k]
  <2>1. <<e>> \in Seq(S) /\ Len(<<e>>) = 1
    OBVIOUS
  <2>2. QED
    BY <2>1
<1> HIDE DEF g
<1>2. /\ g \o b \in Seq(S) /\ Len(g \o b) = Len(g) + Len(b)
      /\ \A k \in 1 .. Len(g) : (g \o b)[k] = g[k]
      /\ \A k \in 1 .. Len(b) : (g \o b)[Len(g) + k] = b[k]
  BY <1>1
<1>3. /\ g \o b \in Seq(S)
      /\ Len(g \o b) = Len(f) + 1 + Len(b)
      /\ \A k \in 1 .. Len(f) : (g \o b)[k] = f[k]
      /\ \A k \in 1 .. Len(b) : (g \o b)[Len(f) + 1 + k] = b[k]
  BY <1>1, <1>2
<1>4. QED
  BY <1>3 DEF g

\* InsertAt puts one element in and keeps the others, one place further on
\* from where it was put.
LEMMA InsertAtShape ==
    ASSUME NEW S, NEW s \in Seq(S), NEW e \in S, NEW at \in 1 .. Len(s) + 1
    PROVE  /\ InsertAt(s, at, e) \in Seq(S)
           /\ Len(InsertAt(s, at, e)) = Len(s) + 1
           /\ \A i \in DOMAIN s :
                 \E j \in DOMAIN InsertAt(s, at, e) : InsertAt(s, at, e)[j] = s[i]
<1> DEFINE front == SubSeq(s, 1, at - 1)
           back  == SubSeq(s, at, Len(s))
           t     == (front \o <<e>>) \o back
<1>1. front \in Seq(S) /\ Len(front) = at - 1 /\ \A k \in 1 .. at - 1 : front[k] = s[k]
  OBVIOUS
<1>2. /\ back \in Seq(S) /\ Len(back) = Len(s) + 1 - at
      /\ \A k \in 1 .. Len(s) + 1 - at : back[k] = s[at + k - 1]
  OBVIOUS
<1>0. e \in S
  OBVIOUS
<1> HIDE DEF front, back
<1>3. /\ t \in Seq(S) /\ Len(t) = Len(front) + 1 + Len(back)
      /\ \A k \in 1 .. Len(front) : t[k] = front[k]
      /\ \A k \in 1 .. Len(back) : t[Len(front) + 1 + k] = back[k]
  BY <1>1, <1>2, <1>0, JoinShape
<1>4. t = InsertAt(s, at, e)
  BY DEF InsertAt, front, back
<1> HIDE DEF t
<1>5. t \in Seq(S) /\ Len(t) = Len(s) + 1 /\ DOMAIN t = 1 .. Len(s) + 1
  BY <1>1, <1>2, <1>3
<1>6. ASSUME NEW i \in DOMAIN s
      PROVE  \E j \in DOMAIN t : t[j] = s[i]
  <2>1. CASE i < at
    <3>1. t[i] = front[i] /\ front[i] = s[i]
      BY <1>1, <1>3, <2>1
    <3>2. i \in DOMAIN t
      BY <1>5
    <3>3. QED
      BY <3>1, <3>2
  <2>2. CASE i >= at
    <3>1. i + 1 - at \in 1 .. Len(back) /\ at + (i + 1 - at) - 1 = i
      BY <1>2, <2>2
    <3>2. back[i + 1 - at] = s[i]
      BY <1>2, <3>1
    <3>3. Len(front) + 1 + (i + 1 - at) = i + 1
      BY <1>1
    <3>4. t[i + 1] = s[i]
      BY <1>3, <3>1, <3>2, <3>3
    <3>5. i + 1 \in DOMAIN t
      BY <1>5
    <3>6. QED
      BY <3>4, <3>5
  <2>3. QED
    BY <2>1, <2>2
<1>7. QED
  BY <1>4, <1>5, <1>6

\* Int32 gives an integer back.
LEMMA Int32Int ==
    ASSUME NEW n \in Int
    PROVE  Int32(n) \in Int
BY WidthAssumption DEF Int32

\* A region's corners are integers, and so are its far edges.
LEMMA EdgesTyped ==
    ASSUME NEW r \in Sound
    PROVE  /\ r.minCX \in Int /\ r.minCZ \in Int
           /\ r.w \in Nat \ {0} /\ r.h \in Nat \ {0}
           /\ EndX(r) \in Int /\ EndZ(r) \in Int
<1>1. r.minCX \in Int /\ r.minCZ \in Int /\ r.w \in Nat \ {0} /\ r.h \in Nat \ {0}
  BY WidthAssumption, InputAssumption DEF Sound, Extents
<1>2. QED
  BY <1>1, Int32Int DEF EndX, EndZ

----------------------------------------------------------------------------
(* Type correctness, and Validate's condition on the regions.              *)

\* No map is in force at first.
LEMMA InvInit == Init => MapInv
BY DEF Init, MapInv, TypeOK, NoOverlap

\* Growth brings only maps that Validate accepts into force.
LEMMA InvNext == MapInv /\ [Next]_vars => MapInv'
<1> SUFFICES ASSUME MapInv, [Next]_vars PROVE MapInv'
  OBVIOUS
<1>1. ASSUME NEW version \in Versions, NEW r \in Region,
             NEW at \in 1 .. Len(map.regions) + 1, Grow(version, r, at)
      PROVE  MapInv'
  <2> DEFINE rs == InsertAt(map.regions, at, r)
  <2>1. map' = [version |-> version, regions |-> rs] /\ Valid(map')
    BY <1>1 DEF Grow
  <2>2. rs \in Seq(Region)
    <3>1. map.regions \in Seq(Region)
      <4>1. map.regions \in Seq(Sound)
        BY DEF MapInv, TypeOK, Sound
      <4>2. Sound \subseteq Region
        BY WidthAssumption DEF Sound, Region, Extents, SIDs, PlayerSID
      <4>3. QED
        BY <4>1, <4>2
    <3>2. QED
      BY <3>1, InsertAtShape
  <2> HIDE DEF rs
  <2>3. ASSUME NEW i \in DOMAIN rs
        PROVE  rs[i] \in Sound
    <3>1. rs[i] \in Region
      BY <2>2
    <3>2. rs[i].sid \in SIDs /\ rs[i].w >= 1 /\ rs[i].h >= 1
      BY <2>1 DEF Valid
    <3>3. QED
      BY <3>1, <3>2 DEF Region, Sound, Extents
  <2>4. rs \in Seq(Sound)
    BY <2>2, <2>3
  <2>5. TypeOK'
    BY <2>1, <2>4 DEF TypeOK, Sound
  <2>6. NoOverlap(map.regions)'
    BY <2>1 DEF Valid, NoOverlap
  <2>7. QED
    BY <2>5, <2>6 DEF MapInv
<1>2. CASE UNCHANGED map
  BY <1>2 DEF MapInv, TypeOK, NoOverlap
<1>3. QED
  BY <1>1, <1>2 DEF Next, Settled, vars

\* Every map in force is one Validate accepted, region by region.
THEOREM MapValid == Spec => []MapInv
BY InvInit, InvNext, PTL DEF Spec

\* A map in force has the shape the other functions rely on (Validate).
THEOREM ShardTyped == Spec => []TypeOK
<1>1. MapInv => TypeOK
  BY DEF MapInv
<1>2. QED
  BY <1>1, MapValid, PTL

----------------------------------------------------------------------------
(* One owner per chunk.                                                    *)

\* A chunk of a region is covered by it.
LEMMA FootprintCovered ==
    ASSUME NEW r \in Sound, NEW c \in Footprint(r)
    PROVE  Covers(r, c) /\ c[1] \in Int /\ c[2] \in Int
BY EdgesTyped DEF Footprint, Covers

\* Regions that cover one chunk overlap: both axes meet there, also when an
\* edge has wrapped.
LEMMA CoverTwiceOverlap ==
    ASSUME NEW a \in Sound, NEW b \in Sound, NEW x \in Int, NEW z \in Int,
           Covers(a, <<x, z>>), Covers(b, <<x, z>>)
    PROVE  Overlaps(a, b) /\ Overlaps(b, a)
BY EdgesTyped DEF Covers, Overlaps, SpanX, SpanZ, Span, MaxOf, MinOf

\* In a map without overlaps a chunk is covered by one region.
LEMMA CoveredOnce ==
    ASSUME NEW rs \in Seq(Sound), NoOverlap(rs),
           NEW i \in DOMAIN rs, NEW c \in Footprint(rs[i])
    PROVE  Covering(rs, c) = {i}
<1>1. \A j \in DOMAIN rs : rs[j] \in Sound /\ j \in Int
  OBVIOUS
<1>2. Covers(rs[i], c) /\ c[1] \in Int /\ c[2] \in Int
  BY <1>1, FootprintCovered
<1>3. c = <<c[1], c[2]>>
  BY <1>1, EdgesTyped DEF Footprint
<1>4. ASSUME NEW j \in DOMAIN rs, Covers(rs[j], c)
      PROVE  j = i
  <2>1. Overlaps(rs[i], rs[j]) /\ Overlaps(rs[j], rs[i])
    BY <1>1, <1>2, <1>3, <1>4, CoverTwiceOverlap
  <2>2. QED
    BY <1>1, <2>1 DEF NoOverlap
<1>5. QED
  BY <1>2, <1>4 DEF Covering

\* No chunk lies in two regions of a valid map, so ShardOf does not depend on
\* the order in which the map lists them (Validate, ShardOf).
THEOREM ChunksHaveOneOwner == Spec => []OneOwner
<1>1. MapInv => OneOwner
  <2> SUFFICES ASSUME MapInv, NEW i \in DOMAIN map.regions,
                      NEW c \in Footprint(map.regions[i])
               PROVE  Covering(map.regions, c) = {i}
    BY DEF OneOwner
  <2>1. map.regions \in Seq(Sound) /\ NoOverlap(map.regions)
    BY DEF MapInv, TypeOK, Sound
  <2>2. QED
    BY <2>1, CoveredOnce
<1>2. QED
  BY <1>1, MapValid, PTL

----------------------------------------------------------------------------
(* Growth.                                                                 *)

\* The owner of a chunk of the map is the region it lies in.
LEMMA OwnerIsRegion ==
    ASSUME NEW rs \in Seq(Sound), NoOverlap(rs),
           NEW i \in DOMAIN rs, NEW c \in Footprint(rs[i])
    PROVE  ShardOf(rs, c) = rs[i].sid
<1>1. Covering(rs, c) = {i}
  BY CoveredOnce
<1>2. i \in Int
  OBVIOUS
<1>3. (CHOOSE k \in Covering(rs, c) : \A j \in Covering(rs, c) : k <= j) = i
  BY <1>1, <1>2
<1>4. QED
  BY <1>1, <1>3 DEF ShardOf

\* Growing the world never reshuffles ownership (package comment).
THEOREM GrowthKeepsOwners == Spec => OwnersKept
<1> DEFINE Kept == \A i \in DOMAIN map.regions : \A c \in Footprint(map.regions[i]) :
                      ShardOf(map.regions', c) = map.regions[i].sid
<1>1. MapInv /\ MapInv' /\ [Next]_vars => [Kept]_vars
  <2> SUFFICES ASSUME MapInv, MapInv', [Next]_vars, map' # map,
                      NEW i \in DOMAIN map.regions, NEW c \in Footprint(map.regions[i])
               PROVE  ShardOf(map.regions', c) = map.regions[i].sid
    BY DEF vars
  <2>1. PICK version \in Versions, r \in Region, at \in 1 .. Len(map.regions) + 1 :
            Grow(version, r, at)
    BY DEF Next, Settled, vars
  <2>2. map.regions' = InsertAt(map.regions, at, r)
    BY <2>1 DEF Grow
  <2>3. map.regions \in Seq(Region)
    <3>1. map.regions \in Seq(Sound)
      BY DEF MapInv, TypeOK, Sound
    <3>2. Sound \subseteq Region
      BY WidthAssumption DEF Sound, Region, Extents, SIDs, PlayerSID
    <3>3. QED
      BY <3>1, <3>2
  <2>4. PICK j \in DOMAIN map.regions' : map.regions'[j] = map.regions[i]
    BY <2>2, <2>3, InsertAtShape
  <2>5. map.regions' \in Seq(Sound) /\ NoOverlap(map.regions')
    BY DEF MapInv, TypeOK, Sound, NoOverlap
  <2>6. ShardOf(map.regions', c) = map.regions'[j].sid
    BY <2>4, <2>5, OwnerIsRegion
  <2>7. QED
    BY <2>4, <2>6
<1>2. QED
  BY <1>1, MapValid, PTL DEF Spec, OwnersKept

----------------------------------------------------------------------------
(* Neighbours, against their meaning chunk by chunk.                       *)

\* The far edges of a region that fits are where they seem.
LEMMA EdgesFit ==
    ASSUME NEW r \in Sound, r.minCX + r.w <= MaxInt, r.minCZ + r.h <= MaxInt
    PROVE  EndX(r) = r.minCX + r.w /\ EndZ(r) = r.minCZ + r.h
<1>1. /\ r.minCX \in -(MaxInt + 1) .. MaxInt /\ r.minCZ \in -(MaxInt + 1) .. MaxInt
      /\ r.w \in Nat /\ r.h \in Nat /\ MaxInt \in Nat
  BY WidthAssumption, InputAssumption DEF Sound, Extents
<1>2. QED
  BY <1>1 DEF EndX, EndZ, Int32

\* A shard's land is made of its regions.
LEMMA LandOf ==
    ASSUME NEW rs, NEW sid, NEW c
    PROVE  c \in Land(rs, sid) <=>
              \E i \in DOMAIN rs : rs[i].sid = sid /\ c \in Footprint(rs[i])
BY DEF Land

\* Chunks side by side in two regions that do not overlap lie on a seam.
LEMMA BesideAdjacent ==
    ASSUME NEW a \in Sound, NEW b \in Sound, ~Overlaps(a, b),
           NEW c \in Footprint(a), NEW d \in Footprint(b), Beside(c, d)
    PROVE  Adjacent(a, b)
<1>1. /\ Covers(a, c) /\ c[1] \in Int /\ c[2] \in Int
      /\ Covers(b, d) /\ d[1] \in Int /\ d[2] \in Int
  BY FootprintCovered
<1>2. \/ c[1] = d[1] /\ (c[2] = d[2] + 1 \/ d[2] = c[2] + 1)
      \/ c[2] = d[2] /\ (c[1] = d[1] + 1 \/ d[1] = c[1] + 1)
  BY <1>1 DEF Beside
<1>3. CASE c[1] = d[1] /\ (c[2] = d[2] + 1 \/ d[2] = c[2] + 1)
  BY <1>1, <1>3, EdgesTyped
     DEF Covers, Overlaps, Adjacent, SpanX, SpanZ, Span, MaxOf, MinOf
<1>4. CASE c[2] = d[2] /\ (c[1] = d[1] + 1 \/ d[1] = c[1] + 1)
  BY <1>1, <1>4, EdgesTyped
     DEF Covers, Overlaps, Adjacent, SpanX, SpanZ, Span, MaxOf, MinOf
<1>5. QED
  BY <1>2, <1>3, <1>4

\* Along a seam two chunks lie side by side.
LEMMA AdjacentBeside ==
    ASSUME NEW a \in Sound, NEW b \in Sound, Adjacent(a, b),
           EndX(a) = a.minCX + a.w, EndZ(a) = a.minCZ + a.h,
           EndX(b) = b.minCX + b.w, EndZ(b) = b.minCZ + b.h
    PROVE  \E c \in Footprint(a), d \in Footprint(b) : Beside(c, d)
<1> DEFINE x == MaxOf(a.minCX, b.minCX)
           z == MaxOf(a.minCZ, b.minCZ)
<1>0. /\ a.minCX \in Int /\ a.minCZ \in Int /\ a.w \in Nat \ {0} /\ a.h \in Nat \ {0}
      /\ b.minCX \in Int /\ b.minCZ \in Int /\ b.w \in Nat \ {0} /\ b.h \in Nat \ {0}
      /\ x \in Int /\ z \in Int
  BY EdgesTyped DEF MaxOf
<1>1. CASE EndX(a) = b.minCX /\ SpanZ(a, b)
  <2>1. <<EndX(a) - 1, z>> \in Footprint(a) /\ <<b.minCX, z>> \in Footprint(b)
    BY <1>0, <1>1 DEF Footprint, SpanZ, Span, MaxOf, MinOf
  <2>2. Beside(<<EndX(a) - 1, z>>, <<b.minCX, z>>)
    BY <1>0, <1>1 DEF Beside
  <2>3. QED
    BY <2>1, <2>2
<1>2. CASE EndX(b) = a.minCX /\ SpanZ(a, b)
  <2>1. <<a.minCX, z>> \in Footprint(a) /\ <<EndX(b) - 1, z>> \in Footprint(b)
    BY <1>0, <1>2 DEF Footprint, SpanZ, Span, MaxOf, MinOf
  <2>2. Beside(<<a.minCX, z>>, <<EndX(b) - 1, z>>)
    BY <1>0, <1>2 DEF Beside
  <2>3. QED
    BY <2>1, <2>2
<1>3. CASE EndZ(a) = b.minCZ /\ SpanX(a, b)
  <2>1. <<x, EndZ(a) - 1>> \in Footprint(a) /\ <<x, b.minCZ>> \in Footprint(b)
    BY <1>0, <1>3 DEF Footprint, SpanX, Span, MaxOf, MinOf
  <2>2. Beside(<<x, EndZ(a) - 1>>, <<x, b.minCZ>>)
    BY <1>0, <1>3 DEF Beside
  <2>3. QED
    BY <2>1, <2>2
<1>4. CASE EndZ(b) = a.minCZ /\ SpanX(a, b)
  <2>1. <<x, a.minCZ>> \in Footprint(a) /\ <<x, EndZ(b) - 1>> \in Footprint(b)
    BY <1>0, <1>4 DEF Footprint, SpanX, Span, MaxOf, MinOf
  <2>2. Beside(<<x, a.minCZ>>, <<x, EndZ(b) - 1>>)
    BY <1>0, <1>4 DEF Beside
  <2>3. QED
    BY <2>1, <2>2
<1>5. QED
  BY <1>1, <1>2, <1>3, <1>4 DEF Adjacent

\* Neighbours names exactly the shards that own a chunk beside one of ours.
THEOREM SeamsExact == Spec => []SeamsAreNeighbours
<1>1. MapInv => SeamsAreNeighbours
  <2> DEFINE rs == map.regions
  <2> SUFFICES ASSUME MapInv, Fits(rs), NEW s \in SIDs, NEW t \in SIDs, s # t
               PROVE  t \in Neighbours(rs, s) <=>
                         \E c \in Land(rs, s), d \in Land(rs, t) : Beside(c, d)
    BY DEF SeamsAreNeighbours
  <2>1. rs \in Seq(Sound) /\ NoOverlap(rs)
    BY DEF MapInv, TypeOK, Sound
  <2> HIDE DEF rs
  <2>2. \A i \in DOMAIN rs : rs[i] \in Sound /\ i \in Int
    BY <2>1
  <2>3. t \in Neighbours(rs, s) <=>
           \E i, j \in DOMAIN rs : /\ rs[i].sid = s /\ rs[j].sid = t
                                   /\ Adjacent(rs[i], rs[j])
    BY DEF Neighbours
  <2>4. ASSUME NEW i \in DOMAIN rs, NEW j \in DOMAIN rs,
               rs[i].sid = s, rs[j].sid = t, Adjacent(rs[i], rs[j])
        PROVE  \E c \in Land(rs, s), d \in Land(rs, t) : Beside(c, d)
    <3>1. /\ EndX(rs[i]) = rs[i].minCX + rs[i].w /\ EndZ(rs[i]) = rs[i].minCZ + rs[i].h
          /\ EndX(rs[j]) = rs[j].minCX + rs[j].w /\ EndZ(rs[j]) = rs[j].minCZ + rs[j].h
      BY <2>2, EdgesFit DEF Fits
    <3>2. PICK c \in Footprint(rs[i]), d \in Footprint(rs[j]) : Beside(c, d)
      BY <2>2, <2>4, <3>1, AdjacentBeside
    <3>3. c \in Land(rs, s) /\ d \in Land(rs, t)
      BY <2>4, LandOf
    <3>4. QED
      BY <3>2, <3>3
  <2>5. ASSUME NEW c \in Land(rs, s), NEW d \in Land(rs, t), Beside(c, d)
        PROVE  \E i, j \in DOMAIN rs : /\ rs[i].sid = s /\ rs[j].sid = t
                                       /\ Adjacent(rs[i], rs[j])
    <3>1. PICK i \in DOMAIN rs : rs[i].sid = s /\ c \in Footprint(rs[i])
      BY LandOf
    <3>2. PICK j \in DOMAIN rs : rs[j].sid = t /\ d \in Footprint(rs[j])
      BY LandOf
    <3>3. ~Overlaps(rs[i], rs[j])
      <4>1. Overlaps(rs[i], rs[j]) => Overlaps(rs[j], rs[i])
        BY <2>2, EdgesTyped DEF Overlaps, SpanX, SpanZ, Span, MaxOf, MinOf
      <4>2. i < j \/ j < i
        BY <2>2, <3>1, <3>2
      <4>3. QED
        BY <2>1, <4>1, <4>2 DEF NoOverlap
    <3>4. Adjacent(rs[i], rs[j])
      BY <2>2, <2>5, <3>1, <3>2, <3>3, BesideAdjacent
    <3>5. QED
      BY <3>1, <3>2, <3>4
  <2>6. QED
    BY <2>3, <2>4, <2>5
<1>2. QED
  BY <1>1, MapValid, PTL

----------------------------------------------------------------------------
(* The view of a player near a border.                                     *)

\* Some points of two intervals are within k of each other.
Reach(lo1, hi1, lo2, hi2, k) ==
    \E x \in lo1 .. hi1 - 1, y \in lo2 .. hi2 - 1 : x - y \in -k .. k

\* Two intervals are within r of each other when some points of theirs are
\* within r + 1: touching intervals have a gap of 0.
LEMMA GapExact ==
    ASSUME NEW lo1 \in Int, NEW hi1 \in Int, NEW lo2 \in Int, NEW hi2 \in Int,
           NEW r \in Nat, lo1 < hi1, lo2 < hi2,
           lo2 - hi1 <= MaxInt, lo1 - hi2 <= MaxInt
    PROVE  AxisGap(lo1, hi1, lo2, hi2) <= r <=> Reach(lo1, hi1, lo2, hi2, r + 1)
<1>1. MaxInt \in Nat
  BY WidthAssumption
<1>2. CASE hi1 <= lo2
  <2>1. AxisGap(lo1, hi1, lo2, hi2) = lo2 - hi1
    BY <1>1, <1>2 DEF AxisGap, Int32
  <2>2. lo2 - hi1 <= r => hi1 - 1 - lo2 \in -(r + 1) .. r + 1
    BY <1>2
  <2>3. hi1 - 1 \in lo1 .. hi1 - 1 /\ lo2 \in lo2 .. hi2 - 1
    OBVIOUS
  <2>4. ASSUME NEW x \in lo1 .. hi1 - 1, NEW y \in lo2 .. hi2 - 1,
               x - y \in -(r + 1) .. r + 1
        PROVE  lo2 - hi1 <= r
    BY <2>4
  <2>5. QED
    BY <2>1, <2>2, <2>3, <2>4 DEF Reach
<1>3. CASE ~(hi1 <= lo2) /\ hi2 <= lo1
  <2>1. AxisGap(lo1, hi1, lo2, hi2) = lo1 - hi2
    BY <1>1, <1>3 DEF AxisGap, Int32
  <2>2. lo1 - hi2 <= r => lo1 - (hi2 - 1) \in -(r + 1) .. r + 1
    BY <1>3
  <2>3. lo1 \in lo1 .. hi1 - 1 /\ hi2 - 1 \in lo2 .. hi2 - 1
    OBVIOUS
  <2>4. ASSUME NEW x \in lo1 .. hi1 - 1, NEW y \in lo2 .. hi2 - 1,
               x - y \in -(r + 1) .. r + 1
        PROVE  lo1 - hi2 <= r
    BY <2>4
  <2>5. QED
    BY <2>1, <2>2, <2>3, <2>4 DEF Reach
<1>4. CASE ~(hi1 <= lo2) /\ ~(hi2 <= lo1)
  <2>1. AxisGap(lo1, hi1, lo2, hi2) = 0
    BY <1>4 DEF AxisGap
  <2>2. /\ MaxOf(lo1, lo2) \in lo1 .. hi1 - 1 /\ MaxOf(lo1, lo2) \in lo2 .. hi2 - 1
        /\ MaxOf(lo1, lo2) - MaxOf(lo1, lo2) \in -(r + 1) .. r + 1
    BY <1>4 DEF MaxOf
  <2>3. Reach(lo1, hi1, lo2, hi2, r + 1)
    BY <2>2, Zenon DEF Reach
  <2>4. QED
    BY <2>1, <2>3
<1>5. QED
  BY <1>2, <1>3, <1>4

\* Rectangles are within r chunks when a view of radius r + 1 reaches from one
\* into the other.
LEMMA WithinExact ==
    ASSUME NEW a \in Sound, NEW b \in Sound, NEW r \in Nat,
           EndX(a) = a.minCX + a.w, EndZ(a) = a.minCZ + a.h,
           EndX(b) = b.minCX + b.w, EndZ(b) = b.minCZ + b.h,
           b.minCX - EndX(a) <= MaxInt, a.minCX - EndX(b) <= MaxInt,
           b.minCZ - EndZ(a) <= MaxInt, a.minCZ - EndZ(b) <= MaxInt
    PROVE  WithinChunks(a, b, r) <=>
              \E c \in Footprint(a), d \in Footprint(b) : InView(c, d, r + 1)
<1>1. /\ a.minCX \in Int /\ a.minCZ \in Int /\ b.minCX \in Int /\ b.minCZ \in Int
      /\ EndX(a) \in Int /\ EndZ(a) \in Int /\ EndX(b) \in Int /\ EndZ(b) \in Int
      /\ a.minCX < EndX(a) /\ a.minCZ < EndZ(a)
      /\ b.minCX < EndX(b) /\ b.minCZ < EndZ(b)
  BY EdgesTyped
<1>2. AxisGap(a.minCX, EndX(a), b.minCX, EndX(b)) <= r
         <=> Reach(a.minCX, EndX(a), b.minCX, EndX(b), r + 1)
  BY <1>1, GapExact
<1>3. AxisGap(a.minCZ, EndZ(a), b.minCZ, EndZ(b)) <= r
         <=> Reach(a.minCZ, EndZ(a), b.minCZ, EndZ(b), r + 1)
  BY <1>1, GapExact
<1>4. ASSUME WithinChunks(a, b, r)
      PROVE  \E c \in Footprint(a), d \in Footprint(b) : InView(c, d, r + 1)
  <2>1. PICK x \in a.minCX .. EndX(a) - 1, y \in b.minCX .. EndX(b) - 1 :
            x - y \in -(r + 1) .. r + 1
    BY <1>2, <1>4 DEF WithinChunks, Reach
  <2>2. PICK u \in a.minCZ .. EndZ(a) - 1, v \in b.minCZ .. EndZ(b) - 1 :
            u - v \in -(r + 1) .. r + 1
    BY <1>3, <1>4 DEF WithinChunks, Reach
  <2>3. <<x, u>> \in Footprint(a) /\ <<y, v>> \in Footprint(b)
    BY DEF Footprint
  <2>4. InView(<<x, u>>, <<y, v>>, r + 1)
    BY <2>1, <2>2 DEF InView
  <2>5. QED
    BY <2>3, <2>4
<1>5. ASSUME NEW c \in Footprint(a), NEW d \in Footprint(b), InView(c, d, r + 1)
      PROVE  WithinChunks(a, b, r)
  <2>1. /\ c[1] \in a.minCX .. EndX(a) - 1 /\ c[2] \in a.minCZ .. EndZ(a) - 1
        /\ d[1] \in b.minCX .. EndX(b) - 1 /\ d[2] \in b.minCZ .. EndZ(b) - 1
    BY DEF Footprint
  <2>2. /\ c[1] - d[1] \in -(r + 1) .. r + 1
        /\ c[2] - d[2] \in -(r + 1) .. r + 1
    BY <1>5 DEF InView
  <2>3. QED
    BY <1>2, <1>3, <2>1, <2>2 DEF WithinChunks, Reach
<1>6. QED
  BY <1>4, <1>5

\* What a map that fits gives any two of its regions.
LEMMA PairFits ==
    ASSUME NEW rs \in Seq(Sound), Fits(rs), NEW i \in DOMAIN rs, NEW j \in DOMAIN rs
    PROVE  /\ EndX(rs[i]) = rs[i].minCX + rs[i].w /\ EndZ(rs[i]) = rs[i].minCZ + rs[i].h
           /\ rs[j].minCX - EndX(rs[i]) <= MaxInt /\ rs[j].minCZ - EndZ(rs[i]) <= MaxInt
<1>1. rs[i] \in Sound
  OBVIOUS
<1>2. EndX(rs[i]) = rs[i].minCX + rs[i].w /\ EndZ(rs[i]) = rs[i].minCZ + rs[i].h
  BY <1>1, EdgesFit DEF Fits
<1>3. QED
  BY <1>2 DEF Fits

\* NeighboursWithin keeps a link to every shard with a chunk in the view of a
\* player on our land, and to none further than a chunk past it.
THEOREM ViewExact == Spec => []ViewIsWarm
<1>1. MapInv => ViewIsWarm
  <2> DEFINE rs == map.regions
  <2> SUFFICES ASSUME MapInv, Fits(rs), NEW s \in SIDs, NEW t \in SIDs,
                      NEW r \in 0 .. Radius, s # t
               PROVE  t \in NeighboursWithin(rs, s, r) <=>
                         \E c \in Land(rs, s), d \in Land(rs, t) : InView(c, d, r + 1)
    BY DEF ViewIsWarm
  <2>1. rs \in Seq(Sound)
    BY DEF MapInv, TypeOK, Sound
  <2> HIDE DEF rs
  <2>2. r \in Nat
    BY InputAssumption
  <2>3. t \in NeighboursWithin(rs, s, r) <=>
           \E i, j \in DOMAIN rs : /\ rs[i].sid = s /\ rs[j].sid = t
                                   /\ WithinChunks(rs[i], rs[j], r)
    BY DEF NeighboursWithin
  <2>4. ASSUME NEW i \in DOMAIN rs, NEW j \in DOMAIN rs
        PROVE  WithinChunks(rs[i], rs[j], r) <=>
                  \E c \in Footprint(rs[i]), d \in Footprint(rs[j]) : InView(c, d, r + 1)
    <3>1. rs[i] \in Sound /\ rs[j] \in Sound
      BY <2>1
    <3>2. /\ EndX(rs[i]) = rs[i].minCX + rs[i].w /\ EndZ(rs[i]) = rs[i].minCZ + rs[i].h
          /\ rs[j].minCX - EndX(rs[i]) <= MaxInt /\ rs[j].minCZ - EndZ(rs[i]) <= MaxInt
      BY <2>1, PairFits
    <3>3. /\ EndX(rs[j]) = rs[j].minCX + rs[j].w /\ EndZ(rs[j]) = rs[j].minCZ + rs[j].h
          /\ rs[i].minCX - EndX(rs[j]) <= MaxInt /\ rs[i].minCZ - EndZ(rs[j]) <= MaxInt
      BY <2>1, PairFits
    <3>4. QED
      BY <2>2, <3>1, <3>2, <3>3, WithinExact
  <2>5. ASSUME NEW c \in Land(rs, s), NEW d \in Land(rs, t), InView(c, d, r + 1)
        PROVE  t \in NeighboursWithin(rs, s, r)
    <3>1. PICK i \in DOMAIN rs : rs[i].sid = s /\ c \in Footprint(rs[i])
      BY LandOf
    <3>2. PICK j \in DOMAIN rs : rs[j].sid = t /\ d \in Footprint(rs[j])
      BY LandOf
    <3>3. WithinChunks(rs[i], rs[j], r)
      BY <2>4, <2>5, <3>1, <3>2
    <3>4. QED
      BY <2>3, <3>1, <3>2, <3>3
  <2>6. ASSUME t \in NeighboursWithin(rs, s, r)
        PROVE  \E c \in Land(rs, s), d \in Land(rs, t) : InView(c, d, r + 1)
    <3>1. PICK i \in DOMAIN rs, j \in DOMAIN rs :
              rs[i].sid = s /\ rs[j].sid = t /\ WithinChunks(rs[i], rs[j], r)
      BY <2>3, <2>6
    <3>2. PICK c \in Footprint(rs[i]), d \in Footprint(rs[j]) : InView(c, d, r + 1)
      BY <2>4, <3>1
    <3>3. c \in Land(rs, s) /\ d \in Land(rs, t)
      BY <3>1, LandOf
    <3>4. QED
      BY <3>2, <3>3
  <2>7. QED
    BY <2>5, <2>6
<1>2. QED
  BY <1>1, MapValid, PTL

\* Regions on a seam have no gap.
LEMMA AdjacentWithin ==
    ASSUME NEW a \in Sound, NEW b \in Sound, Adjacent(a, b),
           EndX(a) = a.minCX + a.w, EndZ(a) = a.minCZ + a.h,
           EndX(b) = b.minCX + b.w, EndZ(b) = b.minCZ + b.h
    PROVE  WithinChunks(a, b, 0)
<1>1. /\ a.minCX \in Int /\ a.minCZ \in Int /\ a.w \in Nat \ {0} /\ a.h \in Nat \ {0}
      /\ b.minCX \in Int /\ b.minCZ \in Int /\ b.w \in Nat \ {0} /\ b.h \in Nat \ {0}
      /\ MaxInt \in Nat
  BY EdgesTyped, WidthAssumption
<1>2. QED
  BY <1>1 DEF Adjacent, SpanX, SpanZ, Span, MaxOf, MinOf, WithinChunks, AxisGap, Int32

\* NeighboursWithin is a superset of Neighbours (NeighboursWithin's comment).
THEOREM AwareOfNeighbours == Spec => []NeighboursAreAware
<1>1. MapInv => NeighboursAreAware
  <2> DEFINE rs == map.regions
  <2> SUFFICES ASSUME MapInv, Fits(rs), NEW s \in SIDs, NEW t \in Neighbours(rs, s)
               PROVE  t \in NeighboursWithin(rs, s, 0)
    BY DEF NeighboursAreAware
  <2>1. rs \in Seq(Sound)
    BY DEF MapInv, TypeOK, Sound
  <2> HIDE DEF rs
  <2>2. PICK j \in DOMAIN rs, i \in DOMAIN rs :
            t = rs[j].sid /\ rs[j].sid # s /\ rs[i].sid = s /\ Adjacent(rs[i], rs[j])
    BY DEF Neighbours
  <2>3. /\ EndX(rs[i]) = rs[i].minCX + rs[i].w /\ EndZ(rs[i]) = rs[i].minCZ + rs[i].h
        /\ EndX(rs[j]) = rs[j].minCX + rs[j].w /\ EndZ(rs[j]) = rs[j].minCZ + rs[j].h
    BY <2>1, PairFits
  <2>4. WithinChunks(rs[i], rs[j], 0)
    BY <2>1, <2>2, <2>3, AdjacentWithin
  <2>5. QED
    BY <2>2, <2>4 DEF NeighboursWithin
<1>2. QED
  BY <1>1, MapValid, PTL

----------------------------------------------------------------------------
(* Entity ids.                                                             *)

\* Division with a remainder.
LEMMA DivMod ==
    ASSUME NEW x \in Int, NEW m \in Nat \ {0}
    PROVE  /\ x = m * (x \div m) + (x % m)
           /\ x % m \in 0 .. m - 1 /\ x \div m \in Int
OBVIOUS

\* Two remainders that differ by a multiple of the divisor are one.
LEMMA NoMultipleBetween ==
    ASSUME NEW m \in Nat \ {0}, NEW a \in Int,
           NEW s \in 0 .. m - 1, NEW t \in 0 .. m - 1, m * a = t - s
    PROVE  a = 0
<1>1. CASE a >= 1
  <2>1. m * a >= m
    BY <1>1
  <2>2. QED
    BY <2>1
<1>2. CASE a <= -1
  <2>1. m * a <= -m
    BY <1>2
  <2>2. QED
    BY <2>1
<1>3. QED
  BY <1>1, <1>2

\* The low part of a count that wraps at a multiple of m survives the wrap.
LEMMA LaneSurvives ==
    ASSUME NEW m \in Nat \ {0}, NEW k \in Nat \ {0}, NEW n \in Nat, NEW s \in 0 .. m - 1
    PROVE  ((n * m + s) % (m * k)) % m = s
<1> DEFINE x == n * m + s
           d == m * k
           y == x % d
           q == x \div d
           t == y % m
           p == y \div m
<1>1. x \in Int /\ d \in Nat \ {0}
  OBVIOUS
<1> HIDE DEF x, d
<1>2. x = d * q + y /\ y \in Int /\ q \in Int
  BY <1>1, DivMod
<1>3. y = m * p + t /\ t \in 0 .. m - 1 /\ p \in Int
  BY <1>2, DivMod
<1> HIDE DEF y, q, t, p
<1>4. d * q = m * (k * q) /\ k * q \in Int
  BY <1>2 DEF d
<1>5. m * (n - k * q - p) = m * n - m * (k * q) - m * p
  BY <1>2, <1>3, <1>4
<1>6. m * (n - k * q - p) = t - s
  BY <1>2, <1>3, <1>4, <1>5 DEF x
<1>7. n - k * q - p = 0
  <2> DEFINE a == n - k * q - p
  <2>1. a \in Int
    BY <1>3, <1>4
  <2>2. m * a = t - s
    BY <1>6
  <2> HIDE DEF a
  <2>3. a = 0
    BY <1>3, <2>1, <2>2, NoMultipleBetween
  <2>4. QED
    BY <2>3 DEF a
<1>8. t = s
  BY <1>3, <1>6, <1>7
<1>9. QED
  BY <1>8 DEF t, y, x, d

\* Minter recovers the lane of every id, for any count of mints.
LEMMA MinterInverts ==
    ASSUME NEW n \in Nat, NEW sid \in 0 .. MaxSIDs - 1
    PROVE  Minter(MintEID(n, sid)) = sid
<1>1. PICK lanes \in 1 .. MaxInt + 1 : MaxInt + 1 = MaxSIDs * lanes
  BY WidthAssumption
<1>2. MaxSIDs \in Nat \ {0} /\ lanes \in Nat \ {0}
  BY WidthAssumption
<1>3. QED
  BY <1>1, <1>2, LaneSurvives DEF Minter, MintEID

\* Two pods never hand out the same entity id, no pod hands out a player's, and
\* the minter is read back from the id, also after the counter wrapped.
THEOREM IdsNeverMeet == Spec => []EidsApart
<1>1. MapInv => EidsApart
  <2> SUFFICES ASSUME MapInv, NEW i \in DOMAIN map.regions, NEW m \in Counters, NEW n \in Counters
               PROVE  /\ Minter(MintEID(m, map.regions[i].sid)) = map.regions[i].sid
                      /\ MintEID(m, map.regions[i].sid) # MintEID(n, PlayerSID)
                      /\ \A j \in DOMAIN map.regions :
                            map.regions[j].sid # map.regions[i].sid =>
                               MintEID(m, map.regions[i].sid) # MintEID(n, map.regions[j].sid)
    BY DEF EidsApart
  <2>1. \A j \in DOMAIN map.regions : map.regions[j].sid \in 0 .. MaxSIDs - 2
    <3>1. map.regions \in Seq(Sound)
      BY DEF MapInv, TypeOK, Sound
    <3>2. \A j \in DOMAIN map.regions : map.regions[j] \in Sound
      BY <3>1
    <3>3. QED
      BY <3>2 DEF Sound, SIDs
  <2>2. /\ MaxSIDs \in Nat /\ MaxSIDs >= 2 /\ m \in Nat /\ n \in Nat
        /\ PlayerSID = MaxSIDs - 1
    BY WidthAssumption, InputAssumption DEF PlayerSID
  <2>3. Minter(MintEID(m, map.regions[i].sid)) = map.regions[i].sid
    BY <2>1, <2>2, MinterInverts
  <2>4. Minter(MintEID(n, PlayerSID)) = PlayerSID
    BY <2>2, MinterInverts
  <2>5. \A j \in DOMAIN map.regions :
            Minter(MintEID(n, map.regions[j].sid)) = map.regions[j].sid
    BY <2>1, <2>2, MinterInverts
  <2>6. map.regions[i].sid # PlayerSID
    BY <2>1, <2>2
  <2>7. QED
    BY <2>3, <2>4, <2>5, <2>6
<1>2. QED
  BY <1>1, MapValid, PTL

-----------------------------------------------------------------------------
(* What the runs check as a whole.                                         *)

\* No chunk is owned and no entity id minted by two pods (ShardOf, MintEID).
THEOREM NothingHasTwoWriters == Spec => []OneWriter
<1>1. OneOwner /\ EidsApart => OneWriter
  BY DEF OneWriter
<1>2. QED
  BY <1>1, ChunksHaveOneOwner, IdsNeverMeet, PTL

\* Whom a pod hands players to and whom it warms (Neighbours, NeighboursWithin)
\* agree with the map chunk by chunk, and the second include the first.
THEOREM PeersExact == Spec => []NeighboursExact
<1>1. SeamsAreNeighbours /\ ViewIsWarm /\ NeighboursAreAware => NeighboursExact
  BY DEF NeighboursExact
<1>2. QED
  BY <1>1, SeamsExact, ViewExact, AwareOfNeighbours, PTL

----------------------------------------------------------------------------
(* One topology per partition.                                             *)

\* LessRegion orders the regions, all of them.
LEMMA LessOrder ==
    ASSUME NEW a \in Sound, NEW b \in Sound, NEW c \in Sound
    PROVE  /\ ~LessRegion(a, a)
           /\ LessRegion(a, b) => ~LessRegion(b, a)
           /\ LessRegion(a, b) /\ LessRegion(b, c) => LessRegion(a, c)
           /\ LessRegion(a, b) /\ ~LessRegion(c, b) => LessRegion(a, c)
           /\ ~LessRegion(b, a) /\ LessRegion(b, c) => LessRegion(a, c)
           /\ a # b => LessRegion(a, b) \/ LessRegion(b, a)
<1>1. \A r \in Sound : /\ r.sid \in Int /\ r.minCX \in Int /\ r.minCZ \in Int
                       /\ r.w \in Int /\ r.h \in Int
  BY WidthAssumption, InputAssumption DEF Sound, Extents, SIDs
<1>2. a # b => \/ a.sid # b.sid \/ a.minCX # b.minCX \/ a.minCZ # b.minCZ
               \/ a.w # b.w \/ a.h # b.h
  BY DEF Sound
<1>3. a # b => LessRegion(a, b) \/ LessRegion(b, a)
  BY <1>1, <1>2 DEF LessRegion
<1>4. ~LessRegion(a, a) /\ (LessRegion(a, b) => ~LessRegion(b, a))
  BY <1>1 DEF LessRegion
<1>5. LessRegion(a, b) /\ LessRegion(b, c) => LessRegion(a, c)
  BY <1>1 DEF LessRegion
<1>6. LessRegion(a, b) /\ ~LessRegion(c, b) => LessRegion(a, c)
  BY <1>1 DEF LessRegion
<1>7. ~LessRegion(b, a) /\ LessRegion(b, c) => LessRegion(a, c)
  BY <1>1 DEF LessRegion
<1>8. QED
  BY <1>3, <1>4, <1>5, <1>6, <1>7

\* A permutation of the indexes permutes a set of them one for one.
LEMMA PermutationCounts ==
    ASSUME NEW D, IsFiniteSet(D), NEW p \in Surjection(D, D), NEW A \in SUBSET D,
           NEW B, B = {i \in D : p[i] \in A}
    PROVE  IsFiniteSet(B) /\ Cardinality(B) = Cardinality(A)
<1> DEFINE g == [i \in B |-> p[i]]
<1>1. /\ p \in [D -> D] /\ \A w \in D : \E v \in D : p[v] = w
      /\ \A i, j \in D : p[i] = p[j] => i = j
  <2>1. p \in Injection(D, D)
    BY FS_SurjSameCardinalityImpliesInj
  <2>2. QED
    BY <2>1 DEF Injection, Surjection, IsInjective
<1>2. IsFiniteSet(B)
  BY FS_Subset
<1>3. /\ g \in [B -> A] /\ \A w \in A : \E v \in B : g[v] = w
      /\ \A i, j \in B : g[i] = g[j] => i = j
  BY <1>1
<1> HIDE DEF g
<1>4. g \in Bijection(B, A)
  BY <1>3 DEF Bijection, Injection, Surjection, IsInjective
<1>5. ExistsBijection(B, A)
  BY <1>4 DEF ExistsBijection
<1>6. Cardinality(A) = Cardinality(B)
  BY <1>2, <1>5, FS_Bijection
<1>7. QED
  BY <1>2, <1>6

\* A canonical list is the regions, rearranged so that none comes too late.
LEMMA CanonicalIs ==
    ASSUME NEW rs \in Seq(Sound), NEW s \in Canonical(rs)
    PROVE  \E p \in Surjection(DOMAIN rs, DOMAIN rs) :
              /\ s = [i \in DOMAIN rs |-> rs[p[i]]]
              /\ \A i \in DOMAIN rs : p[i] \in DOMAIN rs /\ s[i] = rs[p[i]]
              /\ \A i, j \in DOMAIN rs : i < j => ~LessRegion(s[j], s[i])
<1>1. PICK p \in Surjection(DOMAIN rs, DOMAIN rs) :
          /\ s = [i \in DOMAIN rs |-> rs[p[i]]]
          /\ \A i, j \in DOMAIN rs : i < j => ~LessRegion(s[j], s[i])
  BY DEF Canonical
<1>2. p \in [DOMAIN rs -> DOMAIN rs]
  BY DEF Surjection
<1>3. \A i \in DOMAIN rs : p[i] \in DOMAIN rs /\ s[i] = rs[p[i]]
  BY <1>1, <1>2
<1>4. QED
  BY <1>1, <1>3

\* Any list has a canonical one: each region at the place its rank gives it,
\* the number of those before it.
LEMMA CanonicalExists ==
    ASSUME NEW rs \in Seq(Sound) PROVE \E s : s \in Canonical(rs)
<1> DEFINE n == Len(rs)
           D == 1 .. n
           Before(i, j) == \/ LessRegion(rs[i], rs[j])
                           \/ ~LessRegion(rs[j], rs[i]) /\ i < j
           Below(i) == {j \in D : Before(j, i)}
           f == [i \in D |-> Cardinality(Below(i)) + 1]
           p == [k \in D |-> CHOOSE i \in D : f[i] = k]
<1>1. n \in Nat /\ DOMAIN rs = D /\ \A i \in D : rs[i] \in Sound /\ i \in Int
  OBVIOUS
<1>2. IsFiniteSet(D) /\ Cardinality(D) = n
  <2>1. IsFiniteSet(D) /\ Cardinality(D) = IF 1 > n THEN 0 ELSE n - 1 + 1
    BY <1>1, FS_Interval
  <2>2. n \in Nat
    BY <1>1
  <2> HIDE DEF n, D
  <2>3. QED
    BY <2>1, <2>2
<1>3. ASSUME NEW i \in D, NEW j \in D, NEW k \in D
      PROVE  /\ ~Before(i, i)
             /\ Before(i, j) \/ Before(j, i) \/ i = j
             /\ Before(i, j) /\ Before(j, k) => Before(i, k)
             /\ Before(i, j) => ~LessRegion(rs[j], rs[i])
  <2>1. rs[i] \in Sound /\ rs[j] \in Sound /\ rs[k] \in Sound /\ i \in Int /\ j \in Int /\ k \in Int
    BY <1>1
  <2> DEFINE a == rs[i]
             b == rs[j]
             c == rs[k]
  <2>2. /\ ~LessRegion(a, a) /\ (LessRegion(a, b) => ~LessRegion(b, a))
        /\ LessRegion(a, b) /\ LessRegion(b, c) => LessRegion(a, c)
        /\ LessRegion(a, b) /\ ~LessRegion(c, b) => LessRegion(a, c)
        /\ ~LessRegion(b, a) /\ LessRegion(b, c) => LessRegion(a, c)
        /\ LessRegion(c, a) /\ ~LessRegion(b, a) => LessRegion(c, b)
    BY <2>1, LessOrder
  <2> HIDE DEF a, b, c
  <2>3. Before(i, j) <=> LessRegion(a, b) \/ (~LessRegion(b, a) /\ i < j)
    BY DEF a, b
  <2>4. Before(j, k) <=> LessRegion(b, c) \/ (~LessRegion(c, b) /\ j < k)
    BY DEF b, c
  <2>5. Before(i, k) <=> LessRegion(a, c) \/ (~LessRegion(c, a) /\ i < k)
    BY DEF a, c
  <2>6. Before(j, i) <=> LessRegion(b, a) \/ (~LessRegion(a, b) /\ j < i)
    BY DEF a, b
  <2>7. Before(i, i) <=> LessRegion(a, a) \/ (~LessRegion(a, a) /\ i < i)
    BY DEF a
  <2> HIDE DEF Before
  <2>8. Before(i, j) /\ Before(j, k) => Before(i, k)
    BY <2>1, <2>2, <2>3, <2>4, <2>5
  <2>9. Before(i, j) \/ Before(j, i) \/ i = j
    BY <2>1, <2>3, <2>6
  <2>10. ~Before(i, i) /\ (Before(i, j) => ~LessRegion(b, a))
    BY <2>1, <2>2, <2>3, <2>7
  <2>11. QED
    BY <2>8, <2>9, <2>10 DEF b, a
<1> HIDE DEF Before, n
<1>4. ASSUME NEW i \in D
      PROVE  IsFiniteSet(Below(i)) /\ Cardinality(Below(i)) \in Nat /\ Cardinality(Below(i)) < n
  <2>1. Below(i) \in SUBSET D /\ i \notin Below(i)
    BY <1>3
  <2>2. /\ IsFiniteSet(Below(i)) /\ Cardinality(Below(i)) <= Cardinality(D)
        /\ Cardinality(D) = Cardinality(Below(i)) => D = Below(i)
    BY <1>2, <2>1, FS_Subset
  <2>3. Cardinality(Below(i)) \in Nat
    BY <2>2, FS_CardinalityType
  <2>4. QED
    BY <1>1, <1>2, <2>1, <2>2, <2>3
<1>5. ASSUME NEW i \in D, NEW j \in D, Before(i, j)
      PROVE  Cardinality(Below(i)) < Cardinality(Below(j))
  <2>1. Below(i) \in SUBSET Below(j) /\ i \in Below(j) /\ i \notin Below(i)
    BY <1>3, <1>5
  <2>2. /\ Cardinality(Below(i)) <= Cardinality(Below(j))
        /\ Cardinality(Below(j)) = Cardinality(Below(i)) => Below(j) = Below(i)
    BY <1>4, <2>1, FS_Subset
  <2>3. Cardinality(Below(j)) # Cardinality(Below(i))
    BY <2>1, <2>2
  <2>4. Cardinality(Below(i)) \in Nat /\ Cardinality(Below(j)) \in Nat
    BY <1>4
  <2> HIDE DEF Below
  <2>5. QED
    BY <2>2, <2>3, <2>4
<1> HIDE DEF Below
<1>6. f \in [D -> D]
  BY <1>1, <1>4
<1>7. \A i, j \in D : Before(i, j) => f[i] < f[j]
  BY <1>4, <1>5
<1>8. \A i, j \in D : f[i] = f[j] => i = j
  BY <1>3, <1>6, <1>7
<1> HIDE DEF f
<1>9. f \in Injection(D, D)
  BY <1>6, <1>8 DEF Injection, IsInjective
<1>10. f \in Surjection(D, D)
  BY <1>2, <1>9, FS_Injection
<1>11. \A k \in D : p[k] \in D /\ f[p[k]] = k
  BY <1>10 DEF Surjection
<1>12. p \in [D -> D]
  BY <1>11
<1>13. \A i, j \in D : p[i] = p[j] => i = j
  BY <1>11
<1> HIDE DEF p
<1>14. p \in Surjection(D, D)
  <2>1. p \in Injection(D, D)
    BY <1>12, <1>13 DEF Injection, IsInjective
  <2>2. QED
    BY <1>2, <2>1, FS_Injection
<1> DEFINE s == [i \in D |-> rs[p[i]]]
<1>15. ASSUME NEW i \in D, NEW j \in D, i < j
       PROVE  ~LessRegion(s[j], s[i])
  <2>1. p[i] \in D /\ p[j] \in D /\ f[p[i]] = i /\ f[p[j]] = j
    BY <1>11
  <2>2. LessRegion(rs[p[j]], rs[p[i]]) => Before(p[j], p[i])
    BY DEF Before
  <2>3. ~Before(p[j], p[i])
    BY <1>1, <1>7, <1>15, <2>1
  <2>4. QED
    BY <2>2, <2>3
<1>16. s \in {[i \in D |-> rs[q[i]]] : q \in Surjection(D, D)}
  BY <1>14
<1>17. s \in Canonical(rs)
  BY <1>1, <1>15, <1>16 DEF Canonical
<1>18. QED
  BY <1>17

\* It has no other: were a region less in one than in the other, one list
\* would have more regions up to it than the other.
LEMMA CanonicalOnce ==
    ASSUME NEW rs \in Seq(Sound), NEW s \in Canonical(rs), NEW t \in Canonical(rs),
           NEW k \in DOMAIN rs
    PROVE  ~LessRegion(s[k], t[k])
<1> DEFINE n == Len(rs)
           D == DOMAIN rs
<1>1. n \in Nat /\ D = 1 .. n /\ \A i \in D : rs[i] \in Sound /\ i \in Int
  OBVIOUS
<1>2. PICK p \in Surjection(D, D) :
          /\ \A i \in D : p[i] \in D /\ s[i] = rs[p[i]]
          /\ \A i, j \in D : i < j => ~LessRegion(s[j], s[i])
  BY CanonicalIs
<1>3. PICK q \in Surjection(D, D) :
          /\ \A i \in D : q[i] \in D /\ t[i] = rs[q[i]]
          /\ \A i, j \in D : i < j => ~LessRegion(t[j], t[i])
  BY CanonicalIs
<1>4. \A i \in D : s[i] = rs[p[i]] /\ t[i] = rs[q[i]] /\ p[i] \in D /\ q[i] \in D
  BY <1>2, <1>3
<1>5. \A i \in D : s[i] \in Sound /\ t[i] \in Sound
  BY <1>1, <1>4
<1> HIDE DEF D
<1> SUFFICES ASSUME LessRegion(s[k], t[k]) PROVE FALSE
  OBVIOUS
<1> DEFINE A == {i \in D : ~LessRegion(s[k], rs[i])}
           P == {i \in D : p[i] \in A}
           Q == {i \in D : q[i] \in A}
<1>6. /\ IsFiniteSet(P) /\ Cardinality(P) = Cardinality(A)
      /\ IsFiniteSet(Q) /\ Cardinality(Q) = Cardinality(A)
  <2>1. IsFiniteSet(D)
    BY <1>1, FS_Interval
  <2>2. A \in SUBSET D
    OBVIOUS
  <2> HIDE DEF A
  <2>3. QED
    <3>1. p \in Surjection(D, D) /\ P = {i \in D : p[i] \in A}
      BY <1>2 DEF D
    <3>2. q \in Surjection(D, D) /\ Q = {i \in D : q[i] \in A}
      BY <1>3 DEF D
    <3> HIDE DEF P, Q
    <3>3. QED
      BY <2>1, <2>2, <3>1, <3>2, PermutationCounts
<1>7. k \in D /\ k \in 1 .. n
  BY <1>1 DEF D
<1>8. ASSUME NEW i \in 1 .. k PROVE i \in P
  <2>1. i \in D /\ i \in Int /\ k \in Int
    BY <1>1, <1>7 DEF D
  <2>2. ~LessRegion(s[k], s[i])
    <3>1. CASE i = k
      BY <1>5, <1>7, <3>1, LessOrder
    <3>2. CASE i < k
      BY <1>2, <1>7, <2>1, <3>2
    <3>3. QED
      BY <2>1, <3>1, <3>2
  <2>3. QED
    BY <1>4, <2>1, <2>2
<1>9. ASSUME NEW i \in Q PROVE i \in 1 .. k - 1
  <2>1. i \in D /\ ~LessRegion(s[k], t[i])
    BY <1>4
  <2>2. i < k \/ i = k \/ k < i
    BY <1>1, <1>7, <2>1
  <2>3. i # k
    BY <2>1
  <2>4. ASSUME k < i PROVE FALSE
    <3>1. ~LessRegion(t[i], t[k])
      BY <1>3, <1>7, <2>1, <2>4
    <3>2. LessRegion(s[k], t[i])
      BY <1>5, <1>7, <2>1, <3>1, LessOrder
    <3>3. QED
      BY <2>1, <3>2
  <2>5. QED
    BY <1>1, <1>7, <2>1, <2>2, <2>3, <2>4 DEF D
<1> HIDE DEF P, Q, A
<1>10. k <= Cardinality(P)
  <2>1. (1 .. k) \in SUBSET P
    BY <1>8
  <2>2. Cardinality(1 .. k) <= Cardinality(P)
    BY <1>6, <2>1, FS_Subset
  <2>3. Cardinality(1 .. k) = k
    BY <1>7, FS_Interval
  <2>4. QED
    BY <2>2, <2>3
<1>11. Cardinality(Q) <= k - 1
  <2>0. k - 1 \in Int /\ 1 \in Int /\ k >= 1 /\ k \in Int
    BY <1>1, <1>7
  <2>1. IsFiniteSet(1 .. k - 1)
    BY <2>0, FS_Interval
  <2>2. Q \in SUBSET (1 .. k - 1)
    BY <1>9
  <2>3. Cardinality(Q) <= Cardinality(1 .. k - 1)
    BY <2>1, <2>2, FS_Subset
  <2>5. Cardinality(1 .. k - 1) = IF 1 > k - 1 THEN 0 ELSE (k - 1) - 1 + 1
    BY <2>0, FS_Interval
  <2>6. Cardinality(1 .. k - 1) = k - 1
    BY <2>0, <2>5
  <2>7. QED
    BY <2>3, <2>6
<1>12. Cardinality(P) \in Nat /\ Cardinality(Q) \in Nat
  BY <1>6, FS_CardinalityType
<1>13. QED
  BY <1>6, <1>7, <1>10, <1>11, <1>12

\* The partition has one hash, whatever the order its regions are listed in
\* and however the unstable sort breaks ties (TopoHash).
THEOREM TopologyIsOne == Spec => []OneTopology
<1>1. ASSUME MapInv PROVE OneTopology
  <2> DEFINE rs == map.regions
  <2>1. rs \in Seq(Sound)
    BY <1>1 DEF MapInv, TypeOK, Sound
  <2> HIDE DEF rs
  <2>2. PICK s : s \in Canonical(rs)
    BY <2>1, CanonicalExists
  <2>3. ASSUME NEW t \in Canonical(rs) PROVE t = s
    <3>0. \A u \in Canonical(rs) :
              u = [i \in DOMAIN rs |-> u[i]] /\ \A i \in DOMAIN rs : u[i] \in Sound
      <4> TAKE u \in Canonical(rs)
      <4>1. PICK p \in Surjection(DOMAIN rs, DOMAIN rs) :
                /\ u = [i \in DOMAIN rs |-> rs[p[i]]]
                /\ \A i \in DOMAIN rs : p[i] \in DOMAIN rs /\ u[i] = rs[p[i]]
        BY <2>1, CanonicalIs
      <4>2. \A i \in DOMAIN rs : rs[i] \in Sound
        BY <2>1
      <4>3. QED
        BY <4>1, <4>2
    <3>1. s = [i \in DOMAIN rs |-> s[i]] /\ t = [i \in DOMAIN rs |-> t[i]]
      BY <2>2, <3>0
    <3>2. \A i \in DOMAIN rs : s[i] \in Sound /\ t[i] \in Sound
      BY <2>2, <3>0
    <3>3. \A i \in DOMAIN rs : ~LessRegion(s[i], t[i]) /\ ~LessRegion(t[i], s[i])
      BY <2>1, <2>2, CanonicalOnce
    <3>4. \A i \in DOMAIN rs : s[i] = t[i]
      BY <3>2, <3>3, LessOrder
    <3>5. QED
      BY <3>1, <3>4
  <2>4. Canonical(rs) = {s}
    BY <2>2, <2>3
  <2>5. Cardinality(Canonical(rs)) = 1
    BY <2>4, FS_Singleton
  <2>6. QED
    BY <2>5 DEF OneTopology, rs
<1>2. MapInv => OneTopology
  BY <1>1
<1>3. QED
  BY <1>2, MapValid, PTL


----------------------------------------------------------------------------
(* Viewer: the client and the pod agree with the session at rest, for any  *)
(* number of chunks, dimensions and view distances.  Agreed speaks of a    *)
(* session at rest; what makes it inductive is what a handler under way    *)
(* has composed so far (Composed), and that one that runs alone really has *)
(* the session to itself.                                                  *)

Right == [at |-> cc, radius |-> viewDist, dim |-> curDim]

\* A handler that ran alone so far has company neither now; while the views
\* are tidy every handler does; and while the client is configured there is
\* none but the client reader's, until the client acknowledges.
Apart ==
    /\ \A r \in Readers : ~Idle(r) /\ todo[r].alone => Idle(Other(r))
    /\ tidy => \A r \in Readers : ~Idle(r) => todo[r].alone
    /\ phase # "play" => Idle("world")
    /\ phase = "configured" => Idle("client")

\* The client shows what it is sent, and the world owes it no teleport.
Shown == phase = "play" /\ ~owed

\* What a handler has composed and sent is true of the shared variables
\* still, unless the client is to be placed anew.
Composed(r) ==
    /\ todo[r].step = "send" => todo[r].centre = cc
    /\ todo[r].step \in {"want", "write"} /\ Shown => centre = cc
    /\ todo[r].step = "write" /\ Shown => todo[r].want = Right

\* It is so of handlers that ran alone, those of the tidy session and those
\* that tell everything.
AloneComposed ==
    \A r \in Readers :
        ~Idle(r) /\ todo[r].alone /\ (tidy \/ todo[r].full) => Composed(r)

\* The session's dimension is its client's.
InStep == curDim = dim \/ astray

ViewInv == ViewTypeOK /\ Apart /\ AloneComposed /\ Agreed /\ InStep

\* There are two readers.
LEMMA TwoReaders ==
    /\ Readers = {"world", "client"}
    /\ Other("world") = "client" /\ Other("client") = "world"
BY DEF Readers, Other

----------------------------------------------------------------------------
(* The steps of handlers.                                                  *)

\* A reader that starts has its fields; the other one is no longer alone.
LEMMA StartShape ==
    ASSUME ViewTypeOK, NEW r \in Readers, NEW first \in {"centre", "want"}, Start(r, first)
    PROVE  /\ todo' \in [Readers -> Handler \cup {None}]
           /\ tidy' = (tidy /\ Idle(Other(r)))
           /\ Idle(r)' = FALSE /\ Idle(Other(r))' = Idle(Other(r))
           /\ ~Idle(Other(r)) => todo'[Other(r)].alone = FALSE
           /\ todo'[r].step = first /\ todo'[r].full = (first = "centre")
           /\ todo'[r].alone = Idle(Other(r))
<1> DEFINE s == Other(r)
           mine == [centre |-> None, want |-> None, step |-> first, alone |-> Idle(s),
                    full |-> first = "centre"]
<1>1. Readers = {r, s} /\ r # s
  BY TwoReaders
<1>2. mine \in Handler
  BY DEF Handler, Idle
<1>3. mine # None
  BY <1>2, NoneAssumption
<1>4. todo'[r] = mine /\ DOMAIN todo' = Readers
  BY <1>1 DEF Start
<1>5. CASE Idle(s)
  <2>1. todo'[s] = None
    BY <1>1, <1>5 DEF Start
  <2>2. \A q \in Readers : todo'[q] \in Handler \cup {None}
    BY <1>1, <1>2, <1>4, <2>1
  <2>3. QED
    BY <1>1, <1>2, <1>3, <1>4, <1>5, <2>1, <2>2 DEF Start, Idle
<1>6. CASE ~Idle(s)
  <2>1. todo'[s] = [todo[s] EXCEPT !.alone = FALSE]
    BY <1>1, <1>6 DEF Start
  <2>2. todo[s] \in Handler
    BY <1>1, <1>6 DEF ViewTypeOK, Idle
  <2>3. todo'[s] \in Handler /\ todo'[s].alone = FALSE
    BY <2>1, <2>2 DEF Handler
  <2>4. \A q \in Readers : todo'[q] \in Handler \cup {None}
    BY <1>1, <1>2, <1>4, <2>3
  <2>5. todo'[s] # None
    BY <2>3, NoneAssumption
  <2>6. QED
    BY <1>1, <1>2, <1>3, <1>4, <1>6, <2>3, <2>4, <2>5 DEF Start, Idle
<1>7. QED
  BY <1>5, <1>6

\* Starting a handler: it has composed nothing, and one that will not send
\* the centre starts from a client that has it.
LEMMA Starts ==
    ASSUME ViewInv, NEW r \in Readers, NEW first \in {"centre", "want"},
           Idle(r), Start(r, first), ViewTypeOK', InStep',
           phase' \in {"play", "configuring"}, phase' # "play" => r = "client" /\ phase' = phase,
           first = "want" => UNCHANGED <<cc, owed, centre, phase>>
    PROVE  ViewInv'
<1>1. Readers = {r, Other(r)} /\ r # Other(r) /\ Other(Other(r)) = r
  BY TwoReaders
<1>2. /\ tidy' = (tidy /\ Idle(Other(r)))
      /\ Idle(r)' = FALSE /\ Idle(Other(r))' = Idle(Other(r))
      /\ ~Idle(Other(r)) => todo'[Other(r)].alone = FALSE
      /\ todo'[r].step = first /\ todo'[r].full = (first = "centre")
      /\ todo'[r].alone = Idle(Other(r))
  BY StartShape DEF ViewInv
<1>3. Apart'
  BY <1>1, <1>2, TwoReaders DEF ViewInv, Apart
<1>4. ASSUME Idle(Other(r)), tidy' \/ todo'[r].full PROVE Composed(r)'
  <2>1. CASE first = "centre"
    BY <1>2, <2>1 DEF Composed
  <2>2. CASE first = "want"
    <3>1. tidy /\ \A q \in Readers : Idle(q)
      BY <1>1, <1>2, <1>4, <2>2
    <3>2. Shown => centre = cc
      BY <3>1 DEF ViewInv, Agreed, AtRest, Shown
    <3>3. QED
      BY <1>2, <2>2, <3>2 DEF Composed, Shown
  <2>3. QED
    BY <2>1, <2>2
<1>5. AloneComposed'
  BY <1>1, <1>2, <1>4 DEF AloneComposed
<1>6. Agreed'
  BY <1>2 DEF Agreed, AtRest
<1>7. QED
  BY <1>3, <1>5, <1>6 DEF ViewInv

\* A handler goes on: what it has composed by now is true.
LEMMA GoesOn ==
    ASSUME ViewInv, NEW r \in Readers, ~Idle(r), NEW h \in Handler,
           todo' = [todo EXCEPT ![r] = h], h.alone = todo[r].alone, h.full = todo[r].full,
           centre' \in Chunks \cup {None},
           UNCHANGED <<cc, curDim, viewDist, vehicle, phase, dim, want, owed, tidy, astray>>,
           todo[r].alone /\ Composed(r) => Composed(r)'
    PROVE  ViewInv'
<1>1. Readers = {r, Other(r)} /\ r # Other(r) /\ Other(Other(r)) = r
  BY TwoReaders
<1>2. /\ todo'[r] = h /\ todo'[Other(r)] = todo[Other(r)] /\ h # None
      /\ todo' \in [Readers -> Handler \cup {None}]
  BY <1>1, NoneAssumption DEF ViewInv, ViewTypeOK
<1>3. ViewTypeOK'
  BY <1>2 DEF ViewInv, ViewTypeOK
<1>4. Apart'
  BY <1>1, <1>2, TwoReaders DEF ViewInv, Apart, Idle
<1>5. AloneComposed'
  <2> SUFFICES ASSUME NEW q \in Readers, ~Idle(q)', todo'[q].alone, tidy' \/ todo'[q].full
               PROVE  Composed(q)'
    BY DEF AloneComposed
  <2>1. q = r
    BY <1>1, <1>2 DEF ViewInv, Apart, Idle
  <2>2. Composed(r)
    BY <1>2, <2>1 DEF ViewInv, AloneComposed, Idle
  <2>3. QED
    BY <1>2, <2>1, <2>2
<1>6. Agreed'
  BY <1>2 DEF Agreed, AtRest, Idle
<1>7. InStep'
  BY DEF ViewInv, InStep
<1>8. QED
  BY <1>3, <1>4, <1>5, <1>6, <1>7 DEF ViewInv

\* A handler composes the centre from the shared variables.
LEMMA CentreComposed ==
    ASSUME ViewInv, NEW r \in Readers, ComposeCentre(r) PROVE ViewInv'
<1> DEFINE h == [todo[r] EXCEPT !.centre = cc, !.step = "send"]
<1>1. todo[r] \in Handler
  BY DEF ComposeCentre, ViewInv, ViewTypeOK, Idle
<1>2. /\ h \in Handler /\ h.alone = todo[r].alone /\ h.full = todo[r].full
      /\ h.step = "send" /\ h.centre = cc
  BY <1>1 DEF ViewInv, ViewTypeOK, Handler
<1>3. todo' = [todo EXCEPT ![r] = h]
  BY DEF ComposeCentre
<1>4. todo'[r] = h
  BY <1>3 DEF ViewInv, ViewTypeOK
<1>5. Composed(r)'
  BY <1>2, <1>4 DEF Composed, ComposeCentre, Shown
<1>6. QED
  BY <1>2, <1>3, <1>5, GoesOn DEF ComposeCentre, ViewInv, ViewTypeOK

\* It sends the centre it composed, which nobody else moved meanwhile.
LEMMA CentreSent ==
    ASSUME ViewInv, NEW r \in Readers, SendCentre(r) PROVE ViewInv'
<1> DEFINE h == [todo[r] EXCEPT !.step = "want", !.centre = None]
<1>1. todo[r] \in Handler
  BY DEF SendCentre, ViewInv, ViewTypeOK, Idle
<1>2. /\ h \in Handler /\ h.alone = todo[r].alone /\ h.full = todo[r].full
      /\ h.step = "want" /\ centre' \in Chunks \cup {None}
      /\ phase = "play" => centre' = todo[r].centre
  BY <1>1 DEF SendCentre, Handler, ViewInv, ViewTypeOK
<1>3. todo' = [todo EXCEPT ![r] = h]
  BY DEF SendCentre
<1>4. todo'[r] = h
  BY <1>3 DEF ViewInv, ViewTypeOK
<1>5. Composed(r) => Composed(r)'
  BY <1>2, <1>4 DEF Composed, SendCentre, Shown
<1>6. QED
  BY <1>2, <1>3, <1>5, GoesOn DEF SendCentre

\* It composes its Want from the shared variables.
LEMMA WantComposed ==
    ASSUME ViewInv, NEW r \in Readers, ComposeWant(r) PROVE ViewInv'
<1> DEFINE h == [todo[r] EXCEPT !.step = "write", !.want = Right]
<1>1. todo[r] \in Handler /\ Right \in Wants
  BY DEF ComposeWant, ViewInv, ViewTypeOK, Idle, Right, Wants
<1>2. /\ h \in Handler /\ h.alone = todo[r].alone /\ h.full = todo[r].full
      /\ h.step = "write" /\ h.want = Right
  BY <1>1 DEF Handler
<1>3. todo' = [todo EXCEPT ![r] = h]
  BY DEF ComposeWant, Right
<1>4. todo'[r] = h /\ Right' = Right
  BY <1>3 DEF ViewInv, ViewTypeOK, ComposeWant, Right
<1>5. Composed(r) => Composed(r)'
  BY <1>2, <1>4 DEF Composed, ComposeWant, Shown
<1>6. QED
  BY <1>2, <1>3, <1>5, GoesOn DEF ComposeWant, ViewInv, ViewTypeOK

\* The Want goes out: a handler that told everything alone leaves the session
\* tidy.
LEMMA WantWritten ==
    ASSUME ViewInv, NEW r \in Readers, WriteWant(r) PROVE ViewInv'
<1>1. Readers = {r, Other(r)} /\ r # Other(r) /\ Other(Other(r)) = r
  BY TwoReaders
<1>2. todo[r] \in Handler
  BY DEF WriteWant, ViewInv, ViewTypeOK, Idle
<1>3. todo[r].want \in Wants \cup {None} /\ todo[r].alone \in BOOLEAN
      /\ todo[r].full \in BOOLEAN
  BY <1>2 DEF Handler
<1>4. /\ todo'[r] = None /\ todo'[Other(r)] = todo[Other(r)]
      /\ todo' \in [Readers -> Handler \cup {None}]
  BY <1>1 DEF WriteWant, ViewInv, ViewTypeOK
<1>5. ViewTypeOK'
  BY <1>3, <1>4 DEF WriteWant, ViewInv, ViewTypeOK
<1>6. Apart'
  BY <1>1, <1>3, <1>4, TwoReaders DEF WriteWant, ViewInv, Apart, Idle
<1>7. AloneComposed'
  <2> SUFFICES ASSUME NEW q \in Readers, ~Idle(q)', todo'[q].alone PROVE FALSE
    BY DEF AloneComposed
  <2>1. QED
    BY <1>1, <1>4 DEF WriteWant, ViewInv, Apart, Idle
<1>8. Agreed'
  <2> SUFFICES ASSUME tidy', Shown PROVE centre = cc /\ todo[r].want = Right
    BY DEF Agreed, AtRest, WriteWant, Right, Shown, ViewInv, InStep
  <2>1. todo[r].alone /\ (tidy \/ todo[r].full)
    BY <1>3 DEF WriteWant, ViewInv, Apart
  <2>2. Composed(r)
    BY <2>1 DEF WriteWant, ViewInv, AloneComposed
  <2>3. QED
    BY <2>2 DEF Composed, WriteWant
<1>9. InStep'
  BY DEF WriteWant, ViewInv, InStep
<1>10. QED
  BY <1>5, <1>6, <1>7, <1>8, <1>9 DEF ViewInv

----------------------------------------------------------------------------
(* The client reader's and the world reader's handlers.                    *)

\* What the client reader starts: a move, or new client information.
LEMMA ClientReaderKeeps ==
    ASSUME ViewInv,
           \/ \E c \in Chunks : Move(c)
           \/ \E v \in Radii : ViewChange(v) \/ Configured(v)
    PROVE  ViewInv'
<1>1. CASE \E c \in Chunks : Move(c)
  <2> PICK c \in Chunks : Move(c)
    BY <1>1
  <2>1. todo' \in [Readers -> Handler \cup {None}] /\ tidy' \in BOOLEAN
    BY StartShape, TwoReaders DEF Move, ViewInv, ViewTypeOK
  <2>2. ViewTypeOK'
    BY <2>1 DEF Move, ViewInv, ViewTypeOK
  <2>3. InStep' /\ phase' = phase /\ phase \in {"play", "configuring"}
    BY DEF Move, Plays, ViewInv, InStep
  <2>4. Idle("client") /\ Start("client", "centre")
    BY DEF Move, Plays
  <2>5. QED
    BY <2>2, <2>3, <2>4, Starts, TwoReaders
<1>2. ASSUME NEW v \in Radii, ViewChange(v) PROVE ViewInv'
  <2>1. todo' \in [Readers -> Handler \cup {None}] /\ tidy' \in BOOLEAN
    BY <1>2, StartShape, TwoReaders DEF ViewChange, ViewInv, ViewTypeOK
  <2>2. ViewTypeOK'
    BY <1>2, <2>1 DEF ViewChange, ViewInv, ViewTypeOK
  <2>3. InStep' /\ phase' = phase /\ phase \in {"play", "configuring"}
    BY <1>2 DEF ViewChange, Plays, ViewInv, InStep
  <2>4. Idle("client") /\ Start("client", "want") /\ UNCHANGED <<cc, owed, centre>>
    BY <1>2 DEF ViewChange, Plays
  <2>5. QED
    BY <2>2, <2>3, <2>4, Starts, TwoReaders
<1>3. ASSUME NEW v \in Radii, Configured(v) PROVE ViewInv'
  <2>1. ViewTypeOK'
    BY <1>3 DEF Configured, ViewInv, ViewTypeOK
  <2>2. \A r \in Readers : Idle(r) /\ Idle(r)'
    BY <1>3, TwoReaders DEF Configured, ViewInv, Apart, Idle
  <2>3. Apart' /\ AloneComposed' /\ Agreed'
    BY <1>3, <2>2, TwoReaders DEF Configured, Apart, AloneComposed, Agreed, AtRest
  <2>4. QED
    BY <1>3, <2>1, <2>3 DEF Configured, ViewInv, InStep
<1>4. QED
  BY <1>1, <1>2, <1>3

\* The handlers of the world reader that tell the client its centre.
LEMMA WorldReaderStarts ==
    ASSUME ViewInv,
           \/ \E c \in Chunks : Teleport(c) \/ VehicleMoves(c) \/ Rehome(c)
           \/ \E c \in Chunks, d \in Dims : Rejoin(c, d)
    PROVE  ViewInv'
<1>1. /\ Idle("world") /\ Start("world", "centre") /\ phase' = "play"
      /\ cc' \in Chunks /\ curDim' \in Dims /\ viewDist' = viewDist
      /\ vehicle' \in {vehicle, FALSE} /\ centre' \in {centre, None} /\ dim' \in Dims
      /\ want' \in {want, None}
  BY DimsAssumption DEF Teleport, VehicleMoves, Rehome, Rejoin, Frame, ViewInv, ViewTypeOK
<1>2. todo' \in [Readers -> Handler \cup {None}] /\ tidy' \in BOOLEAN
  BY <1>1, StartShape, TwoReaders DEF ViewInv, ViewTypeOK
<1>3. owed' \in BOOLEAN /\ astray' \in BOOLEAN /\ InStep'
  <2>1. ASSUME NEW c \in Chunks, Teleport(c) \/ VehicleMoves(c)
        PROVE  owed' \in BOOLEAN /\ astray' \in BOOLEAN /\ InStep'
    BY <2>1 DEF Teleport, VehicleMoves, ViewInv, ViewTypeOK, InStep
  <2>2. ASSUME NEW c \in Chunks, Rehome(c)
        PROVE  owed' \in BOOLEAN /\ astray' \in BOOLEAN /\ InStep'
    <3>1. owed' = FALSE /\ astray' = (dim # 0) /\ curDim' = 0 /\ dim' = dim
      BY <2>2 DEF Rehome
    <3>2. QED
      BY <3>1 DEF InStep
  <2>3. ASSUME NEW c \in Chunks, NEW d \in Dims, Rejoin(c, d)
        PROVE  owed' \in BOOLEAN /\ astray' \in BOOLEAN /\ InStep'
    BY <2>3 DEF Rejoin, InStep
  <2>4. QED
    BY <2>1, <2>2, <2>3
<1>4. ViewTypeOK'
  BY <1>1, <1>2, <1>3 DEF ViewInv, ViewTypeOK
<1>5. QED
  BY <1>1, <1>3, <1>4, Starts, TwoReaders

\* MsgPassengers moves no view.
LEMMA PassengersKeeps == ASSUME ViewInv, Passengers PROVE ViewInv'
<1>1. ViewTypeOK'
  BY DEF Passengers, ViewInv, ViewTypeOK
<1>2. Apart' /\ AloneComposed' /\ Agreed' /\ InStep'
  BY DEF Passengers, ViewInv, Apart, AloneComposed, Composed, Agreed, AtRest, Idle, Right,
         Shown, InStep
<1>3. QED
  BY <1>1, <1>2 DEF ViewInv

\* MsgStartConfiguration may cross a handler of the client's, which goes on:
\* nothing it sends shows until the player joins again.
LEMMA StartConfigurationKeeps == ASSUME ViewInv, StartConfiguration PROVE ViewInv'
<1>1. ViewTypeOK'
  BY DEF StartConfiguration, ViewInv, ViewTypeOK
<1>2. phase' = "configuring" /\ Idle("world") /\ UNCHANGED <<todo, tidy, cc, curDim, dim, astray>>
  BY DEF StartConfiguration, Frame
<1>3. Apart'
  BY <1>2 DEF ViewInv, Apart, Idle
<1>4. AloneComposed'
  BY <1>2 DEF ViewInv, AloneComposed, Composed, Idle, Shown
<1>5. Agreed' /\ InStep'
  BY <1>2 DEF ViewInv, Agreed, AtRest, InStep
<1>6. QED
  BY <1>1, <1>3, <1>4, <1>5 DEF ViewInv

\* MsgDimension leaves a view to be repaired, never one that passes for right.
LEMMA DimensionKeeps == ASSUME ViewInv, NEW d \in Dims, Dimension(d) PROVE ViewInv'
<1>1. ViewTypeOK'
  BY DEF Dimension, ViewInv, ViewTypeOK
<1>2. Apart'
  BY DEF Dimension, ViewInv, Apart, Idle
<1>3. AloneComposed'
  BY DEF Dimension, ViewInv, AloneComposed, Composed, Idle, Shown
<1>4. Agreed' /\ InStep'
  BY DEF Dimension, Agreed, AtRest, InStep
<1>5. QED
  BY <1>1, <1>2, <1>3, <1>4 DEF ViewInv

----------------------------------------------------------------------------
(* The theorems.                                                           *)

\* A session starts with its views agreeing.
LEMMA ViewInvInit == ViewInit => ViewInv
<1> SUFFICES ASSUME ViewInit PROVE ViewInv
  OBVIOUS
<1>1. \A r \in Readers : Idle(r)
  BY DEF ViewInit, Idle
<1>2. ViewTypeOK
  BY DimsAssumption DEF ViewInit, ViewTypeOK, Wants
<1>3. QED
  BY <1>1, <1>2 DEF ViewInit, ViewInv, Apart, AloneComposed, Agreed, InStep, Readers

\* Every step of either reader keeps the invariant.
LEMMA ViewInvNext == ViewInv /\ [ViewNext]_viewVars => ViewInv'
<1> SUFFICES ASSUME ViewInv, [ViewNext]_viewVars PROVE ViewInv'
  OBVIOUS
<1>1. CASE \E r \in Readers : ComposeCentre(r) \/ SendCentre(r) \/ ComposeWant(r) \/ WriteWant(r)
  BY <1>1, CentreComposed, CentreSent, WantComposed, WantWritten
<1>2. CASE \/ \E c \in Chunks : Move(c)
           \/ \E v \in Radii : ViewChange(v) \/ Configured(v)
  BY <1>2, ClientReaderKeeps
<1>3. CASE \/ \E c \in Chunks : Teleport(c) \/ VehicleMoves(c) \/ Rehome(c)
           \/ \E c \in Chunks, d \in Dims : Rejoin(c, d)
  BY <1>3, WorldReaderStarts
<1>4. CASE Passengers
  BY <1>4, PassengersKeeps
<1>5. CASE StartConfiguration
  BY <1>5, StartConfigurationKeeps
<1>6. CASE \E d \in Dims : Dimension(d)
  BY <1>6, DimensionKeeps
<1>7. CASE UNCHANGED viewVars
  BY <1>7 DEF viewVars, ViewInv, ViewTypeOK, Apart, AloneComposed, Composed, Agreed,
              AtRest, Idle, Right, Shown, InStep
<1>8. QED
  BY <1>1, <1>2, <1>3, <1>4, <1>5, <1>6, <1>7 DEF ViewNext

\* A handler that runs alone leaves client, pod and session agreed on where the
\* player is, and while none crosses another they are never apart at rest: the
\* client's centre, the pod's window and, but for a handover outside dimension
\* 0, the dimension (play, both readers).
THEOREM ViewsAgree == ViewSpec => []ViewAgrees
<1>1. ViewInv => ViewAgrees
  BY DEF ViewInv, ViewAgrees
<1>2. QED
  BY <1>1, ViewInvInit, ViewInvNext, PTL DEF ViewSpec
=============================================================================
