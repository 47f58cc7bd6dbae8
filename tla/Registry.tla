------------------------------ MODULE Registry ------------------------------
(***************************************************************************)
(* Registry ids across versions.  The canonical registries are 26.3's; an  *)
(* earlier client lacks some entries, has the others under other ids, and  *)
(* may have entries of its own.  A table is what translation_gen.go holds  *)
(* for one registry and one version: the runs of ids that move together,   *)
(* the canonical ids the client lacks, what is shown in their place (0:    *)
(* nothing), and the client's ids that have no canonical counterpart.      *)
(***************************************************************************)
EXTENDS Integers, Sequences, FiniteSets, SequencesExt

Table(runs, gone, stand, added) ==
    [runs |-> runs, gone |-> gone, stand |-> stand, added |-> added]

Run(lo, hi, by) == [lo |-> lo, hi |-> hi, by |-> by]

\* The table of a client that has canonical entry i as at[i], None if it lacks
\* it, and ids up to `last`.
None == -1
MaximalRuns(at) ==
    LET Moves(lo, hi) == \A i \in lo .. hi : /\ at[i] \notin {None, i}
                                             /\ at[i] - i = at[lo] - lo
        D == DOMAIN at
        spans == {s \in D \X D : /\ s[1] <= s[2] /\ Moves(s[1], s[2])
                                 /\ s[1] - 1 \in D => ~Moves(s[1] - 1, s[2])
                                 /\ s[2] + 1 \in D => ~Moves(s[1], s[2] + 1)}
    IN  SetToSortSeq({Run(s[1], s[2], at[s[1]] - s[1]) : s \in spans},
                     LAMBDA a, b : a.lo < b.lo)
TableOf(at, stand, last) ==
    LET has == {at[i] : i \in DOMAIN at} \ {None}
    IN  Table(MaximalRuns(at), {i \in DOMAIN at : at[i] = None}, stand, (0 .. last) \ has)

\* Binary search for the run that holds id.
shift(runs, id) ==
    LET Search[lo \in 0 .. Len(runs), hi \in -1 .. Len(runs) - 1] ==
            LET mid == (lo + hi) \div 2
                r == runs[mid + 1]
            IN  IF lo > hi THEN id
                ELSE IF id < r.lo THEN Search[lo, mid - 1]
                ELSE IF id > r.hi THEN Search[mid + 1, hi]
                ELSE id + r.by
    IN  Search[0, Len(runs) - 1]

\* Mutant: inverted and not sorted again.
unsortedReverse(runs) ==
    [i \in DOMAIN runs |-> Run(runs[i].lo + runs[i].by, runs[i].hi + runs[i].by, -runs[i].by)]

reverseTables(runs) ==
    SetToSortSeq({Run(r.lo + r.by, r.hi + r.by, -r.by) : r \in Range(runs)},
                 LAMBDA a, b : a.lo < b.lo)

IDPresent(t, id) == id \notin t.gone
IDAdded(t, id) == id \in t.added

\* An absent block state becomes its stand-in and moves with it; an absent item
\* or block is shown as its stand-in, or as air; the other registries move it.
RemapID(reg, t, id) ==
    LET shown == IF reg = "state" /\ ~IDPresent(t, id) THEN t.stand[id] ELSE id
    IN  IF IDPresent(t, shown) \/ reg \notin {"item", "block", "state"}
        THEN shift(t.runs, shown)
        ELSE IF reg = "item" THEN shift(t.runs, t.stand[shown])
        ELSE 0

UnmapID(t, id) == shift(reverseTables(t.runs), id)

----------------------------------------------------------------------------
(* The tables that are short enough to stand here: entities, statistics,   *)
(* attributes and block entity types.                                      *)

EntityRuns(v) ==
    CASE v = 770 -> <<Run(21, 27, -1), Run(29, 32, -2), Run(34, 58, -3), Run(60, 83, -4),
                      Run(85, 88, -5), Run(90, 97, -6), Run(99, 105, -7), Run(108, 132, -9),
                      Run(134, 155, -10), Run(157, 160, -11)>>
      [] v \in {771, 772} ->
                    <<Run(21, 27, -1), Run(29, 32, -2), Run(34, 83, -3), Run(85, 88, -4),
                      Run(90, 97, -5), Run(99, 105, -6), Run(108, 132, -8), Run(134, 155, -9),
                      Run(157, 160, -10)>>
      [] v = 773 -> <<Run(21, 32, -1), Run(34, 88, -2), Run(90, 97, -3), Run(99, 105, -4),
                      Run(108, 132, -6), Run(134, 155, -7), Run(157, 160, -8)>>
      [] v \in {774, 775} -> <<Run(34, 105, -1), Run(108, 132, -3), Run(134, 160, -4)>>
      [] v = 776 -> <<Run(34, 105, -1), Run(108, 160, -3)>>
      [] OTHER -> << >>

EntityGone(v) ==
    CASE v = 770 -> {20, 28, 33, 59, 84, 89, 98, 106, 107, 133, 156}
      [] v \in {771, 772} -> {20, 28, 33, 84, 89, 98, 106, 107, 133, 156}
      [] v = 773 -> {20, 33, 89, 98, 106, 107, 133, 156}
      [] v \in {774, 775} -> {33, 106, 107, 133}
      [] v = 776 -> {33, 106, 107}
      [] OTHER -> {}

StatRuns(v) ==
    CASE v = 770 -> <<Run(18, 21, -1), Run(23, 60, -2), Run(62, 77, -3)>>
      [] v \in 771 .. 773 -> <<Run(23, 60, -1), Run(62, 77, -2)>>
      [] v \in 774 .. 776 -> <<Run(62, 77, -1)>>
      [] OTHER -> << >>
StatGone(v) == CASE v = 770 -> {17, 22, 61} [] v \in 771 .. 773 -> {22, 61}
                 [] v \in 774 .. 776 -> {61} [] OTHER -> {}

AttributeRuns(v) ==
    CASE v = 770 -> <<Run(1, 5, -1), Run(7, 8, -2), Run(10, 10, -3), Run(12, 16, -4),
                      Run(18, 26, -5), Run(28, 37, -6)>>
      [] v \in 771 .. 775 -> <<Run(1, 5, -1), Run(7, 8, -2), Run(10, 16, -3), Run(18, 26, -4),
                               Run(28, 39, -5)>>
      [] OTHER -> << >>
AttributeGone(v) == CASE v = 770 -> {0, 6, 9, 11, 17, 27, 38, 39}
                      [] v \in 771 .. 775 -> {0, 6, 9, 17, 27} [] OTHER -> {}

RealTable(reg, v) ==
    CASE reg = "entity" -> Table(EntityRuns(v), EntityGone(v), << >>, {})
      [] reg = "stat" -> Table(StatRuns(v), StatGone(v), << >>, {})
      [] reg = "attribute" -> Table(AttributeRuns(v), AttributeGone(v), << >>, {})
RealIds(reg) == CASE reg = "entity" -> 0 .. 160 [] reg = "stat" -> 0 .. 77
                  [] reg = "attribute" -> 0 .. 39

\* Entities: what is new, since when, and its stand-in.
entityStandIns ==
    {<<59, 771, 58>>, <<28, 773, 56>>, <<84, 773, 5>>, <<20, 774, 19>>, <<89, 774, 130>>,
     <<156, 774, 62>>, <<98, 774, 118>>, <<106, 777, 90>>, <<107, 777, 91>>, <<33, 777, 5>>}
Substituted(v, e) == {s \in entityStandIns : s[1] = e /\ v < s[2]}
IsSubstituted(v, e) == Substituted(v, e) # {}
substituteEntityType(v, e) ==
    IF IsSubstituted(v, e) THEN (CHOOSE s \in Substituted(v, e) : TRUE)[3] ELSE e

\* Block entity types: a shelf, a statue and a bed are not everywhere.
blockEntityTypeFor(v, typ) ==
    CASE v < 774 /\ (typ = 40 \/ typ >= 48) -> None
      [] v < 774 -> IF typ < 40 THEN typ ELSE typ - 1
      [] v >= 776 /\ typ = 25 -> None
      [] v >= 776 -> IF typ < 25 THEN typ ELSE typ - 1
      [] OTHER -> typ

\* What the registries of the versions are: older ones lack entries and keep
\* the order of the rest.
Rank(gone, id) == id - Cardinality({g \in gone : g < id})
=============================================================================
