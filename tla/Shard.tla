-------------------------------- MODULE Shard --------------------------------
(***************************************************************************)
(* The ownership map of a sharded world and the entity-id lanes            *)
(* (shard/shard.go).  Every world pod and every gateway computes these     *)
(* functions for itself from its copy of the map, so what they promise     *)
(* must hold for any map that Validate accepts, in whatever order the map  *)
(* lists its regions.                                                      *)
(*                                                                         *)
(* The functions are translated one for one.  The state is the map the     *)
(* cluster runs with, which grows a region at a time.  Coordinates and     *)
(* entity ids are int32 in the code and keep a width here: the sums and    *)
(* the differences wrap.                                                   *)
(***************************************************************************)
EXTENDS Integers, Sequences, FiniteSets, SequencesExt

CONSTANTS
    MaxSIDs,     \* the number of entity-id lanes: 64 in the code
    MaxInt,      \* the greatest int32
    Versions,    \* the versions a map may be written with
    Cols, Rows,  \* where a region may be placed, in chunks
    Sizes,       \* the widths and heights it may be given
    MaxRegions,  \* bound: the regions of a map
    Radius,      \* bound: the view radiuses compared, in chunks
    Counters     \* the mints of a pod's boot that are compared

ASSUME WidthAssumption ==
    /\ MaxSIDs \in Nat /\ MaxSIDs >= 2
    /\ MaxInt \in Nat
    /\ \E lanes \in 1 .. MaxInt + 1 : MaxInt + 1 = MaxSIDs * lanes
ASSUME InputAssumption ==
    /\ Versions \subseteq Int /\ Radius \in Nat /\ Counters \subseteq Nat
    /\ Cols \cup Rows \cup Sizes \subseteq -(MaxInt + 1) .. MaxInt
    /\ MaxRegions \in Nat

VARIABLE map   \* the map in force: its version and its regions, as listed

vars == <<map>>

\* An int32 sum or difference of two int32 values.
Int32(n) == IF n > MaxInt THEN n - 2 * (MaxInt + 1)
            ELSE IF n < -(MaxInt + 1) THEN n + 2 * (MaxInt + 1)
            ELSE n

PlayerSID == MaxSIDs - 1
Unowned   == -1

Region == [sid : -1 .. PlayerSID, minCX : Cols, minCZ : Rows,
           w : Sizes, h : Sizes]
SIDs   == 0 .. MaxSIDs - 2     \* the lanes of real shards

----------------------------------------------------------------------------
(* Entity ids.                                                             *)

\* The mask 0x7fffffff of a count that is never negative.
MintEID(counter, sid) == (counter * MaxSIDs + sid) % (MaxInt + 1)
Minter(eid) == eid % MaxSIDs

----------------------------------------------------------------------------
(* Rectangles.                                                             *)

EndX(r) == Int32(r.minCX + r.w)
EndZ(r) == Int32(r.minCZ + r.h)

MaxOf(m, n) == IF m >= n THEN m ELSE n
MinOf(m, n) == IF m <= n THEN m ELSE n

Covers(r, c) == /\ c[1] >= r.minCX /\ c[1] < EndX(r)
                /\ c[2] >= r.minCZ /\ c[2] < EndZ(r)

Span(lo1, hi1, lo2, hi2) == MaxOf(lo1, lo2) < MinOf(hi1, hi2)

SpanX(a, b) == Span(a.minCX, EndX(a), b.minCX, EndX(b))
SpanZ(a, b) == Span(a.minCZ, EndZ(a), b.minCZ, EndZ(b))

\* The slip of testing one corner of b instead of both axes.
OverlapsCorner(a, b) == Covers(a, <<b.minCX, b.minCZ>>)
Overlaps(a, b) == SpanX(a, b) /\ SpanZ(a, b)

\* The slip of asking that the extents meet along one of the two axes only.
AdjacentAnyColumn(a, b) ==
    \/ (EndX(a) = b.minCX \/ EndX(b) = a.minCX) /\ SpanZ(a, b)
    \/ EndZ(a) = b.minCZ \/ EndZ(b) = a.minCZ

Adjacent(a, b) ==
    \/ (EndX(a) = b.minCX \/ EndX(b) = a.minCX) /\ SpanZ(a, b)
    \/ (EndZ(a) = b.minCZ \/ EndZ(b) = a.minCZ) /\ SpanX(a, b)

AxisGap(lo1, hi1, lo2, hi2) ==
    IF hi1 <= lo2 THEN Int32(lo2 - hi1)
    ELSE IF hi2 <= lo1 THEN Int32(lo1 - hi2)
    ELSE 0

WithinChunks(a, b, r) ==
    /\ AxisGap(a.minCX, EndX(a), b.minCX, EndX(b)) <= r
    /\ AxisGap(a.minCZ, EndZ(a), b.minCZ, EndZ(b)) <= r

----------------------------------------------------------------------------
(* Maps.  The functions take the list of regions, in its order.            *)

\* The indexes of the regions that cover a chunk; the scan takes the first.
Covering(rs, c) == {i \in DOMAIN rs : Covers(rs[i], c)}

ShardOf(rs, c) ==
    IF Covering(rs, c) = {} THEN Unowned
    ELSE rs[CHOOSE i \in Covering(rs, c) : \A j \in Covering(rs, c) : i <= j].sid

Neighbours(rs, sid) ==
    {rs[j].sid : j \in {k \in DOMAIN rs : /\ rs[k].sid # sid
                                          /\ \E i \in DOMAIN rs :
                                                /\ rs[i].sid = sid
                                                /\ Adjacent(rs[i], rs[k])}}

NeighboursWithin(rs, sid, r) ==
    {rs[j].sid : j \in {k \in DOMAIN rs : /\ rs[k].sid # sid
                                          /\ \E i \in DOMAIN rs :
                                                /\ rs[i].sid = sid
                                                /\ WithinChunks(rs[i], rs[k], r)}}

\* The slip of an order that leaves out a field.
LessRegionNoZ(a, b) ==
    IF a.sid # b.sid THEN a.sid < b.sid ELSE a.minCX < b.minCX

\* The order in which TopoHash lists the regions before it hashes them.
LessRegion(a, b) ==
    IF a.sid # b.sid THEN a.sid < b.sid
    ELSE IF a.minCX # b.minCX THEN a.minCX < b.minCX
    ELSE IF a.minCZ # b.minCZ THEN a.minCZ < b.minCZ
    ELSE IF a.w # b.w THEN a.w < b.w
    ELSE a.h < b.h

\* What TopoHash may hash: the regions rearranged (a finite set onto itself),
\* sorted, equal ones in any order (sort.Slice is not stable).
Canonical(rs) ==
    {s \in {[i \in DOMAIN rs |-> rs[p[i]]] : p \in Surjection(DOMAIN rs, DOMAIN rs)} :
        \A i, j \in DOMAIN rs : i < j => ~LessRegion(s[j], s[i])}

Valid(m) ==
    /\ m.version >= 1
    /\ m.regions # <<>>
    /\ \A i \in DOMAIN m.regions :
          /\ m.regions[i].sid \in SIDs
          /\ m.regions[i].w >= 1 /\ m.regions[i].h >= 1
    /\ \A i, j \in DOMAIN m.regions :
          i < j => ~Overlaps(m.regions[i], m.regions[j])

----------------------------------------------------------------------------
(* The cluster's map: none at first, then one that gains a region at a     *)
(* time, listed anywhere.  Pods refuse to start with a map that is not     *)
(* valid, so such a map never comes into force.                            *)

Init == map = [version |-> 0, regions |-> <<>>]

Grow(version, r, at) ==
    LET grown == [version |-> version, regions |-> InsertAt(map.regions, at, r)]
    IN  /\ Len(map.regions) < MaxRegions
        /\ Valid(grown)
        /\ map' = grown

\* The map is as large as MaxRegions lets it be.
Settled == Len(map.regions) = MaxRegions /\ UNCHANGED map

Next ==
    \/ \E version \in Versions, r \in Region, at \in 1 .. Len(map.regions) + 1 :
          Grow(version, r, at)
    \/ Settled

Spec == Init /\ [][Next]_vars

----------------------------------------------------------------------------
(* Properties.                                                             *)

Beside(c, d) == \/ c[1] = d[1] /\ c[2] - d[2] \in {-1, 1}
                \/ c[2] = d[2] /\ c[1] - d[1] \in {-1, 1}

InView(c, d, r) == c[1] - d[1] \in -r .. r /\ c[2] - d[2] \in -r .. r

Extents == {n \in Sizes : n >= 1}

\* The chunks of a region, and those of all the regions of a shard.
Footprint(r) == (r.minCX .. EndX(r) - 1) \X (r.minCZ .. EndZ(r) - 1)
Land(rs, sid) == UNION {Footprint(rs[i]) : i \in {k \in DOMAIN rs : rs[k].sid = sid}}

\* No region reaches past the last chunk an int32 can count, and no gap between
\* two of them is wider than that.
Fits(rs) ==
    \A i, j \in DOMAIN rs :
        /\ rs[i].minCX + rs[i].w <= MaxInt
        /\ rs[i].minCZ + rs[i].h <= MaxInt
        /\ rs[j].minCX - (rs[i].minCX + rs[i].w) <= MaxInt
        /\ rs[j].minCZ - (rs[i].minCZ + rs[i].h) <= MaxInt

\* A map in force has the shape the other functions rely on: regions of a real
\* size, each of a shard in a lane of its own (Validate).
TypeOK ==
    /\ map.version \in Versions \cup {0}
    /\ map.regions \in Seq([sid : SIDs, minCX : Cols, minCZ : Rows,
                            w : Extents, h : Extents])

\* "A chunk owned by more than one pod would have two writers, which the whole
\* design forbids" (Validate): no chunk lies in two regions, not even when a
\* region's far edge overflows, so the order of the list cannot matter to ShardOf.
OneOwner ==
    \A i \in DOMAIN map.regions : \A c \in Footprint(map.regions[i]) :
        Covering(map.regions, c) = {i}

\* Growing the world never reshuffles ownership (package comment): a chunk that
\* a pod owns stays that pod's, wherever in the list the new region is written.
OwnersKept ==
    [][\A i \in DOMAIN map.regions : \A c \in Footprint(map.regions[i]) :
          ShardOf(map.regions', c) = map.regions[i].sid]_vars

\* Neighbours, which looks at the rectangles' edges, names exactly the shards a
\* player can walk into in one step: those that own a chunk beside one of ours.
SeamsAreNeighbours ==
    Fits(map.regions) =>
        \A s, t \in SIDs : s # t =>
            (t \in Neighbours(map.regions, s) <=>
                \E c \in Land(map.regions, s), d \in Land(map.regions, t) : Beside(c, d))

\* NeighboursWithin keeps a peer link to every shard that owns a chunk in the
\* view of a player on our land, and to none further than one chunk past it
\* (rectangles that touch have a gap of 0).
ViewIsWarm ==
    Fits(map.regions) =>
        \A s, t \in SIDs, r \in 0 .. Radius : s # t =>
            (t \in NeighboursWithin(map.regions, s, r) <=>
                \E c \in Land(map.regions, s), d \in Land(map.regions, t) :
                    InView(c, d, r + 1))

\* "This is a SUPERSET of Neighbours" (NeighboursWithin), for every radius: a
\* pod is aware of every pod it can hand a player over to.
NeighboursAreAware ==
    Fits(map.regions) =>
        \A s \in SIDs :
            Neighbours(map.regions, s) \subseteq NeighboursWithin(map.regions, s, 0)

\* The two functions that name a pod's peers agree with the map chunk by
\* chunk and with each other: those it hands players to, and those it warms.
NeighboursExact == SeamsAreNeighbours /\ ViewIsWarm /\ NeighboursAreAware

\* "Two components with the same partition agree regardless of the order regions
\* were listed" (TopoHash): although the sort is unstable, a valid map has one
\* canonical list.
OneTopology == Cardinality(Canonical(map.regions)) = 1

\* Two pods never hand out the same entity id, no pod hands out a player's, and
\* the minter is read back from the id, also after the counter wrapped.
EidsApart ==
    \A i \in DOMAIN map.regions, m, n \in Counters :
        LET sid == map.regions[i].sid
            eid == MintEID(m, sid)
        IN  /\ Minter(eid) = sid
            /\ eid # MintEID(n, PlayerSID)
            /\ \A j \in DOMAIN map.regions :
                  map.regions[j].sid # sid => eid # MintEID(n, map.regions[j].sid)

\* Nothing has two writers: no chunk is owned and no entity id minted by two
\* pods (ShardOf, MintEID).
OneWriter == OneOwner /\ EidsApart
=============================================================================
