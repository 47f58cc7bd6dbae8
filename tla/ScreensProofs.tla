---------------------------- MODULE ScreensProofs ----------------------------
EXTENDS Screens, FiniteSetTheorems, WellFoundedInduction, TLAPS

-----------------------------------------------------------------------------
(* Loops.                                                                  *)

\* A set of naturals has a least member.
LEMMA LeastOf ==
    ASSUME NEW T, T \subseteq Nat, T # {}
    PROVE  \E x \in T : \A y \in T : x <= y
<1> DEFINE R == OpToRel(<, Nat)
<1>1. PICK x \in T : \A y \in T : ~(<<y, x>> \in R)
  <2>1. IsWellFoundedOn(R, Nat)
    BY NatLessThanWellFounded
  <2> HIDE DEF R
  <2>2. QED
    BY <2>1, WFMin
<1>2. ASSUME NEW y \in T PROVE x <= y
  <2>1. x \in Nat /\ y \in Nat
    OBVIOUS
  <2>2. ~(y < x)
    BY <1>1, <2>1 DEF OpToRel
  <2>3. QED
    BY <2>1, <2>2
<1>3. QED
  BY <1>2

\* What holds at 0 and is passed on holds up to n.
LEMMA StepByStep ==
    ASSUME NEW n \in Nat, NEW T, 0 \in T, \A i \in 1 .. n : i - 1 \in T => i \in T
    PROVE  0 .. n \subseteq T
<1> DEFINE Bad == (0 .. n) \ T
<1>1. SUFFICES ASSUME Bad # {} PROVE FALSE
  OBVIOUS
<1>2. PICK x \in Bad : \A y \in Bad : x <= y
  <2>1. Bad \subseteq Nat
    OBVIOUS
  <2> HIDE DEF Bad
  <2>2. QED
    BY <1>1, <2>1, LeastOf
<1>3. x \in 1 .. n /\ x \notin T /\ x - 1 \in 0 .. n /\ ~(x <= x - 1)
  OBVIOUS
<1>4. x - 1 \in T
  BY <1>2, <1>3
<1>5. QED
  BY <1>3, <1>4

\* A loop of n steps over values of S, and what it runs through from b.
Steps(step, n, S) == step \in [(1 .. n) \X S -> S]
RunOf(f, n, S, b, step) ==
    f \in [0 .. n -> S] /\ f[0] = b /\ \A i \in 1 .. n : f[i] = step[<<i, f[i - 1]>>]

\* It runs to its end.
LEMMA LoopRuns ==
    ASSUME NEW n \in Nat, NEW S, NEW b \in S, NEW step, Steps(step, n, S)
    PROVE  \E f : RunOf(f, n, S, b, step)
<1> USE DEF Steps, RunOf
<1> DEFINE Runs(k, f) == f[0] = b /\ \A i \in 1 .. k : f[i] = step[<<i, f[i - 1]>>]
           T == {k \in 0 .. n : \E f \in [0 .. k -> S] : Runs(k, f)}
<1>1. 0 \in T
  <2> DEFINE f == [i \in 0 .. 0 |-> b]
  <2>1. f \in [0 .. 0 -> S] /\ f[0] = b
    OBVIOUS
  <2> HIDE DEF f
  <2>2. Runs(0, f)
    BY <2>1
  <2>3. QED
    BY <2>1, <2>2
<1>2. ASSUME NEW k \in 1 .. n, k - 1 \in T PROVE k \in T
  <2>1. PICK h \in 0 .. n : h = k - 1 /\ k = h + 1 /\ 0 \in 0 .. h /\ h \in 0 .. h
    OBVIOUS
  <2>2. PICK f \in [0 .. h -> S] : Runs(h, f)
    BY <1>2, <2>1
  <2>3. PICK e \in S : e = step[<<k, f[h]>>]
    BY <2>1
  <2> DEFINE g == [i \in 0 .. k |-> IF i = k THEN e ELSE f[i]]
  <2>4. g \in [0 .. k -> S] /\ g[k] = e /\ \A i \in 0 .. h : g[i] = f[i]
    BY <2>1
  <2> HIDE DEF g
  <2>5. g[0] = b
    BY <2>1, <2>2, <2>4
  <2>6. ASSUME NEW i \in 1 .. k PROVE g[i] = step[<<i, g[i - 1]>>]
    <3>1. CASE i = k
      BY <2>1, <2>3, <2>4, <3>1
    <3>2. CASE i # k
      <4>1. i \in 1 .. h /\ i \in 0 .. h /\ i - 1 \in 0 .. h
        BY <2>1, <3>2
      <4>2. QED
        BY <2>2, <2>4, <4>1
    <3>3. QED
      BY <3>1, <3>2
  <2>7. QED
    BY <2>4, <2>5, <2>6
<1> HIDE DEF T
<1>3. n \in T
  <2>1. 0 .. n \subseteq T
    BY <1>1, <1>2, StepByStep
  <2>2. QED
    BY <2>1
<1>4. QED
  BY <1>3 DEF T

-----------------------------------------------------------------------------
(* Sequences.                                                              *)

\* The first n places of s, and what is in them.
Upto(s, n) == {s[j] : j \in 1 .. n}

\* A sequence and its members.
LEMMA SeqIs ==
    ASSUME NEW A, NEW s \in Seq(A)
    PROVE  /\ Len(s) \in Nat /\ DOMAIN s = 1 .. Len(s) /\ ToSet(s) = Upto(s, Len(s))
           /\ ToSet(s) \subseteq A /\ \A i \in 1 .. Len(s) : s[i] \in A
BY DEF ToSet, Upto

\* One more at the end.
LEMMA AppendIs ==
    ASSUME NEW A, NEW s \in Seq(A), NEW a \in A
    PROVE  /\ Append(s, a) \in Seq(A) /\ ToSet(Append(s, a)) = ToSet(s) \cup {a}
<1> DEFINE t == Append(s, a)
<1>1. PICK n \in Nat : n = Len(s)
  BY SeqIs
<1>2. /\ t \in Seq(A) /\ Len(t) = n + 1 /\ t[n + 1] = a
      /\ \A i \in 1 .. n : t[i] = s[i]
  BY <1>1
<1>3. DOMAIN s = 1 .. n /\ DOMAIN t = 1 .. (n + 1)
  BY <1>1, <1>2, SeqIs
<1> HIDE DEF t
<1>4. ToSet(t) = ToSet(s) \cup {a}
  BY <1>2, <1>3 DEF ToSet
<1>5. QED
  BY <1>2, <1>4 DEF t

\* Two sequences joined.
LEMMA JoinIs ==
    ASSUME NEW A, NEW s \in Seq(A), NEW t \in Seq(A)
    PROVE  /\ s \o t \in Seq(A) /\ ToSet(s \o t) = ToSet(s) \cup ToSet(t)
<1> DEFINE u == s \o t
<1>1. PICK n \in Nat, k \in Nat : n = Len(s) /\ k = Len(t)
  BY SeqIs
<1>2. /\ u \in Seq(A) /\ Len(u) = n + k
      /\ \A i \in 1 .. (n + k) : u[i] = IF i <= n THEN s[i] ELSE t[i - n]
  BY <1>1
<1>3. DOMAIN s = 1 .. n /\ DOMAIN t = 1 .. k /\ DOMAIN u = 1 .. (n + k)
  BY <1>1, <1>2, SeqIs
<1> HIDE DEF u
<1>4. \A i \in 1 .. n : i \in 1 .. (n + k) /\ u[i] = s[i]
  BY <1>2
<1>5. \A i \in 1 .. k : n + i \in 1 .. (n + k) /\ u[n + i] = t[i]
  BY <1>2
<1>6. \A i \in 1 .. (n + k) : i \in 1 .. n \/ \E j \in 1 .. k : i = n + j
  <2>1. TAKE i \in 1 .. (n + k)
  <2>2. CASE i <= n
    BY <2>2
  <2>3. CASE ~(i <= n)
    <3>1. i - n \in 1 .. k /\ i = n + (i - n)
      BY <2>3
    <3>2. QED
      BY <3>1
  <2>4. QED
    BY <2>2, <2>3
<1>7. ToSet(u) = ToSet(s) \cup ToSet(t)
  <2>1. ASSUME NEW i \in 1 .. (n + k) PROVE u[i] \in ToSet(s) \cup ToSet(t)
    <3>1. CASE i \in 1 .. n
      BY <1>3, <1>4, <3>1 DEF ToSet
    <3>2. CASE i \notin 1 .. n
      <4>1. PICK j \in 1 .. k : i = n + j
        BY <1>6, <3>2
      <4>2. QED
        BY <1>3, <1>5, <4>1 DEF ToSet
    <3>3. QED
      BY <3>1, <3>2
  <2>2. ToSet(s) \subseteq ToSet(u) /\ ToSet(t) \subseteq ToSet(u)
    BY <1>3, <1>4, <1>5 DEF ToSet
  <2>3. ToSet(u) = {u[i] : i \in 1 .. (n + k)}
    BY <1>3 DEF ToSet
  <2>4. QED
    BY <2>1, <2>2, <2>3
<1>8. QED
  BY <1>2, <1>7 DEF u

\* Kept goes through s a place at a time.
KeptRun(f, A, s, S) ==
    /\ f \in [0 .. Len(s) -> Seq(A)] /\ f[0] = << >> /\ Kept(s, S) = f[Len(s)]
    /\ \A i \in 1 .. Len(s) : f[i] = IF s[i] \in S THEN Append(f[i - 1], s[i]) ELSE f[i - 1]

\* Kept has such a run.
LEMMA KeptRuns ==
    ASSUME NEW A, NEW s \in Seq(A), NEW S
    PROVE  \E f : KeptRun(f, A, s, S)
<1>1. PICK n \in Nat : n = Len(s) /\ n \in 0 .. n /\ 0 \in 0 .. n
  BY SeqIs
<1> DEFINE Q == Seq(A)
           step == [x \in (1 .. n) \X Q |-> IF s[x[1]] \in S THEN Append(x[2], s[x[1]]) ELSE x[2]]
<1>2. PICK e \in Q : e = << >>
  <2>1. << >> \in Q
    OBVIOUS
  <2>2. QED
    BY <2>1
<1>3. step \in [(1 .. n) \X Q -> Q]
  BY <1>1, SeqIs
<1>4. \A i \in 1 .. n : \A q \in Q : step[<<i, q>>] = IF s[i] \in S THEN Append(q, s[i]) ELSE q
  OBVIOUS
<1> HIDE DEF step, Q
<1>5. PICK f \in [0 .. n -> Q] : f[0] = e /\ \A i \in 1 .. n : f[i] = step[<<i, f[i - 1]>>]
  <2>1. Steps(step, n, Q)
    BY <1>3 DEF Steps
  <2>2. \E f : RunOf(f, n, Q, e, step)
    BY <2>1, LoopRuns
  <2>3. QED
    BY <2>2 DEF RunOf
<1>6. ASSUME NEW i \in 1 .. n
      PROVE  f[i] = IF s[i] \in S THEN Append(f[i - 1], s[i]) ELSE f[i - 1]
  <2>1. i - 1 \in 0 .. n
    OBVIOUS
  <2>2. f[i - 1] \in Q
    BY <2>1
  <2>3. QED
    BY <1>4, <1>5, <2>2
<1> DEFINE kept[i \in 0 .. n] == IF i = 0 THEN << >>
            ELSE IF s[i] \in S THEN Append(kept[i - 1], s[i]) ELSE kept[i - 1]
<1>7. f = [i \in 0 .. n |-> IF i = 0 THEN << >>
                            ELSE IF s[i] \in S THEN Append(f[i - 1], s[i]) ELSE f[i - 1]]
  <2>1. \A i \in 0 .. n : i = 0 \/ i \in 1 .. n
    OBVIOUS
  <2>2. f = [i \in 0 .. n |-> f[i]]
    OBVIOUS
  <2>3. \A i \in 0 .. n : f[i] = IF i = 0 THEN << >>
                            ELSE IF s[i] \in S THEN Append(f[i - 1], s[i]) ELSE f[i - 1]
    BY <1>2, <1>5, <1>6, <2>1
  <2>4. QED
    BY <2>2, <2>3
<1>8. kept = [i \in 0 .. n |-> IF i = 0 THEN << >>
                            ELSE IF s[i] \in S THEN Append(kept[i - 1], s[i]) ELSE kept[i - 1]]
  BY <1>7
<1>9. Kept(s, S) = kept[n]
  BY <1>1 DEF Kept
<1> HIDE DEF kept
<1>10. kept[0] = e
  BY <1>1, <1>2, <1>8
<1>11. ASSUME NEW i \in 1 .. n
       PROVE  kept[i] = IF s[i] \in S THEN Append(kept[i - 1], s[i]) ELSE kept[i - 1]
  <2>1. i \in 0 .. n /\ i # 0
    OBVIOUS
  <2>2. QED
    BY <1>8, <2>1
<1> DEFINE T == {i \in 0 .. n : kept[i] \in Q}
<1>12. 0 \in T
  BY <1>1, <1>2, <1>10
<1>13. ASSUME NEW i \in 1 .. n, i - 1 \in T PROVE i \in T
  <2>1. s[i] \in A
    BY <1>1, SeqIs
  <2>2. PICK q \in Q : q = kept[i - 1]
    BY <1>13
  <2>3. Append(q, s[i]) \in Q
    BY <2>1 DEF Q
  <2>4. kept[i] = q \/ kept[i] = Append(q, s[i])
    BY <1>11, <2>2
  <2>5. i \in 0 .. n
    OBVIOUS
  <2>6. QED
    BY <2>3, <2>4, <2>5
<1> HIDE DEF T
<1>14. 0 .. n \subseteq T
  BY <1>12, <1>13, StepByStep
<1>15. kept \in [0 .. n -> Q]
  <2>1. \A i \in 0 .. n : kept[i] \in Q
    BY <1>14 DEF T
  <2>2. kept = [i \in 0 .. n |-> kept[i]]
    BY <1>8
  <2>3. QED
    BY <2>1, <2>2
<1>16. QED
  BY <1>1, <1>2, <1>9, <1>10, <1>11, <1>15 DEF Q, KeptRun

\* What Kept keeps.
LEMMA KeptIs ==
    ASSUME NEW A, NEW s \in Seq(A), NEW S
    PROVE  /\ Kept(s, S) \in Seq(A) /\ ToSet(Kept(s, S)) = ToSet(s) \cap S
<1>1. PICK n \in Nat : n = Len(s) /\ n \in 0 .. n /\ 0 \in 0 .. n
  BY SeqIs
<1>2. PICK f \in [0 .. n -> Seq(A)] :
         /\ f[0] = << >> /\ Kept(s, S) = f[n]
         /\ \A i \in 1 .. n : f[i] = IF s[i] \in S THEN Append(f[i - 1], s[i]) ELSE f[i - 1]
  <2>1. \E f : KeptRun(f, A, s, S)
    BY KeptRuns
  <2>2. QED
    BY <1>1, <2>1 DEF KeptRun
<1> DEFINE Done(i) == ToSet(f[i]) = Upto(s, i) \cap S
           T == {i \in 0 .. n : Done(i)}
<1>3. 0 \in T
  <2>1. DOMAIN f[0] = {}
    BY <1>2
  <2>2. ToSet(f[0]) = {}
    BY <2>1 DEF ToSet
  <2>3. Upto(s, 0) = {}
    BY DEF Upto
  <2>4. QED
    BY <1>1, <2>2, <2>3
<1>4. ASSUME NEW i \in 1 .. n, i - 1 \in T PROVE i \in T
  <2>1. PICK h \in 0 .. n : h = i - 1 /\ Done(h)
    BY <1>4
  <2>2. PICK q \in Seq(A), a \in A : q = f[h] /\ a = s[i]
    BY <1>1, SeqIs
  <2>3. Upto(s, i) = Upto(s, h) \cup {a}
    <3>1. \A j \in 1 .. i : j = i \/ j \in 1 .. h
      BY <2>1
    <3>2. 1 .. h \subseteq 1 .. i /\ i \in 1 .. i
      BY <2>1
    <3>3. QED
      BY <2>2, <3>1, <3>2 DEF Upto
  <2>4. CASE a \in S
    <3>1. f[i] = Append(q, a)
      BY <1>2, <2>1, <2>2, <2>4
    <3>2. ToSet(f[i]) = Upto(s, i) \cap S
      BY <2>1, <2>2, <2>3, <2>4, <3>1, AppendIs
    <3>3. QED
      BY <3>2
  <2>5. CASE a \notin S
    <3>1. f[i] = q
      BY <1>2, <2>1, <2>2, <2>5
    <3>2. QED
      BY <2>1, <2>2, <2>3, <2>5, <3>1
  <2>6. QED
    BY <2>4, <2>5
<1> HIDE DEF T
<1>5. 0 .. n \subseteq T
  BY <1>3, <1>4, StepByStep
<1>6. Done(n)
  BY <1>1, <1>5 DEF T
<1>7. Upto(s, n) = ToSet(s)
  BY <1>1, SeqIs
<1>8. QED
  BY <1>1, <1>2, <1>6, <1>7

\* Once goes through s a place at a time.
OnceRun(f, A, s) ==
    /\ f \in [0 .. Len(s) -> Seq(A)] /\ f[0] = << >> /\ Once(s) = f[Len(s)]
    /\ \A i \in 1 .. Len(s) :
          f[i] = IF \E j \in DOMAIN f[i - 1] : f[i - 1][j] = s[i] THEN f[i - 1]
                 ELSE Append(f[i - 1], s[i])

\* So has Once.
LEMMA OnceRuns ==
    ASSUME NEW A, NEW s \in Seq(A)
    PROVE  \E f : OnceRun(f, A, s)
<1>1. PICK n \in Nat : n = Len(s) /\ n \in 0 .. n /\ 0 \in 0 .. n
  BY SeqIs
<1> DEFINE Q == Seq(A)
           In(q, a) == \E j \in DOMAIN q : q[j] = a
           step == [x \in (1 .. n) \X Q |->
                     IF In(x[2], s[x[1]]) THEN x[2] ELSE Append(x[2], s[x[1]])]
<1>2. PICK e \in Q : e = << >>
  <2>1. << >> \in Q
    OBVIOUS
  <2>2. QED
    BY <2>1
<1> HIDE DEF In
<1>3. step \in [(1 .. n) \X Q -> Q]
  BY <1>1, SeqIs
<1>4. \A i \in 1 .. n : \A q \in Q : step[<<i, q>>] = IF In(q, s[i]) THEN q ELSE Append(q, s[i])
  OBVIOUS
<1> HIDE DEF step, Q
<1>5. PICK f \in [0 .. n -> Q] : f[0] = e /\ \A i \in 1 .. n : f[i] = step[<<i, f[i - 1]>>]
  <2>1. Steps(step, n, Q)
    BY <1>3 DEF Steps
  <2>2. \E f : RunOf(f, n, Q, e, step)
    BY <2>1, LoopRuns
  <2>3. QED
    BY <2>2 DEF RunOf
<1>6. ASSUME NEW i \in 1 .. n
      PROVE  f[i] = IF In(f[i - 1], s[i]) THEN f[i - 1] ELSE Append(f[i - 1], s[i])
  <2>1. i - 1 \in 0 .. n
    OBVIOUS
  <2>2. f[i - 1] \in Q
    BY <2>1
  <2>3. QED
    BY <1>4, <1>5, <2>2
<1> DEFINE once[i \in 0 .. n] == IF i = 0 THEN << >>
            ELSE IF In(once[i - 1], s[i]) THEN once[i - 1] ELSE Append(once[i - 1], s[i])
<1>7. f = [i \in 0 .. n |-> IF i = 0 THEN << >>
                   ELSE IF In(f[i - 1], s[i]) THEN f[i - 1] ELSE Append(f[i - 1], s[i])]
  <2>1. \A i \in 0 .. n : i = 0 \/ i \in 1 .. n
    OBVIOUS
  <2>2. f = [i \in 0 .. n |-> f[i]]
    OBVIOUS
  <2>3. \A i \in 0 .. n : f[i] = IF i = 0 THEN << >>
                   ELSE IF In(f[i - 1], s[i]) THEN f[i - 1] ELSE Append(f[i - 1], s[i])
    BY <1>2, <1>5, <1>6, <2>1
  <2>4. QED
    BY <2>2, <2>3
<1>8. once = [i \in 0 .. n |-> IF i = 0 THEN << >>
                   ELSE IF In(once[i - 1], s[i]) THEN once[i - 1] ELSE Append(once[i - 1], s[i])]
  BY <1>7
<1>9. Once(s) = once[n]
  BY <1>1 DEF Once, In
<1> HIDE DEF once
<1>10. once[0] = e
  BY <1>1, <1>2, <1>8
<1>11. ASSUME NEW i \in 1 .. n
       PROVE  once[i] = IF In(once[i - 1], s[i]) THEN once[i - 1] ELSE Append(once[i - 1], s[i])
  <2>1. i \in 0 .. n /\ i # 0
    OBVIOUS
  <2>2. QED
    BY <1>8, <2>1
<1> DEFINE T == {i \in 0 .. n : once[i] \in Q}
<1>12. 0 \in T
  BY <1>1, <1>2, <1>10
<1>13. ASSUME NEW i \in 1 .. n, i - 1 \in T PROVE i \in T
  <2>1. s[i] \in A
    BY <1>1, SeqIs
  <2>2. PICK q \in Q : q = once[i - 1]
    BY <1>13
  <2>3. Append(q, s[i]) \in Q
    BY <2>1 DEF Q
  <2>4. once[i] = q \/ once[i] = Append(q, s[i])
    BY <1>11, <2>2
  <2>5. i \in 0 .. n
    OBVIOUS
  <2>6. QED
    BY <2>3, <2>4, <2>5
<1> HIDE DEF T
<1>14. 0 .. n \subseteq T
  BY <1>12, <1>13, StepByStep
<1>15. once \in [0 .. n -> Q]
  <2>1. \A i \in 0 .. n : once[i] \in Q
    BY <1>14 DEF T
  <2>2. once = [i \in 0 .. n |-> once[i]]
    BY <1>8
  <2>3. QED
    BY <2>1, <2>2
<1>16. QED
  BY <1>1, <1>2, <1>9, <1>10, <1>11, <1>15 DEF Q, OnceRun, In

\* Once leaves nothing out.
LEMMA OnceIs ==
    ASSUME NEW A, NEW s \in Seq(A)
    PROVE  Once(s) \in Seq(A) /\ ToSet(Once(s)) = ToSet(s)
<1>1. PICK n \in Nat : n = Len(s) /\ n \in 0 .. n /\ 0 \in 0 .. n
  BY SeqIs
<1>2. PICK f \in [0 .. n -> Seq(A)] :
         /\ f[0] = << >> /\ Once(s) = f[n]
         /\ \A i \in 1 .. n :
               f[i] = IF \E j \in DOMAIN f[i - 1] : f[i - 1][j] = s[i] THEN f[i - 1]
                      ELSE Append(f[i - 1], s[i])
  <2>1. \E f : OnceRun(f, A, s)
    BY OnceRuns
  <2>2. QED
    BY <1>1, <2>1 DEF OnceRun
<1> DEFINE T == {i \in 0 .. n : ToSet(f[i]) = Upto(s, i)}
<1>3. 0 \in T
  <2>1. DOMAIN f[0] = {}
    BY <1>2
  <2>2. ToSet(f[0]) = {}
    BY <2>1 DEF ToSet
  <2>3. Upto(s, 0) = {}
    BY DEF Upto
  <2>4. QED
    BY <1>1, <2>2, <2>3
<1>4. ASSUME NEW i \in 1 .. n, i - 1 \in T PROVE i \in T
  <2>1. PICK h \in 0 .. n : h = i - 1 /\ ToSet(f[h]) = Upto(s, h)
    BY <1>4
  <2>2. PICK q \in Seq(A), a \in A : q = f[h] /\ a = s[i]
    BY <1>1, SeqIs
  <2>3. Upto(s, i) = Upto(s, h) \cup {a}
    <3>1. \A j \in 1 .. i : j = i \/ j \in 1 .. h
      BY <2>1
    <3>2. 1 .. h \subseteq 1 .. i /\ i \in 1 .. i
      BY <2>1
    <3>3. QED
      BY <2>2, <3>1, <3>2 DEF Upto
  <2>4. (\E j \in DOMAIN q : q[j] = a) <=> a \in ToSet(q)
    BY DEF ToSet
  <2>5. f[i] = IF a \in ToSet(q) THEN q ELSE Append(q, a)
    BY <1>2, <2>1, <2>2, <2>4
  <2>6. ToSet(f[i]) = ToSet(q) \cup {a}
    <3>1. ToSet(Append(q, a)) = ToSet(q) \cup {a}
      BY AppendIs
    <3>2. QED
      BY <2>5, <3>1
  <2>7. ToSet(f[i]) = Upto(s, i)
    BY <2>1, <2>2, <2>3, <2>6
  <2>8. i \in 0 .. n
    OBVIOUS
  <2>9. QED
    BY <2>7, <2>8
<1> HIDE DEF T
<1>5. 0 .. n \subseteq T
  BY <1>3, <1>4, StepByStep
<1>6. QED
  BY <1>1, <1>2, <1>5, SeqIs DEF T

\* The members of the sequences of a sequence.
Within(seqs) == UNION {ToSet(seqs[i]) : i \in DOMAIN seqs}

\* Joined one after another, they lose nothing.
LEMMA FlatIs ==
    ASSUME NEW A, NEW seqs \in Seq(Seq(A))
    PROVE  FlattenSeq(seqs) \in Seq(A) /\ ToSet(FlattenSeq(seqs)) = Within(seqs)
<1>1. PICK n \in Nat : n = Len(seqs) /\ n \in 0 .. n /\ 0 \in 0 .. n
  BY SeqIs
<1> DEFINE Q == Seq(A)
           step == [x \in (1 .. n) \X Q |-> x[2] \o seqs[x[1]]]
<1>2. PICK e \in Q : e = << >>
  <2>1. << >> \in Q
    OBVIOUS
  <2>2. QED
    BY <2>1
<1>3. \A i \in 1 .. n : seqs[i] \in Q
  BY <1>1, SeqIs
<1>4. /\ step \in [(1 .. n) \X Q -> Q]
      /\ \A i \in 1 .. n : \A q \in Q : step[<<i, q>>] = q \o seqs[i]
  <2>1. ASSUME NEW i \in 1 .. n, NEW q \in Q PROVE q \o seqs[i] \in Q
    BY <1>3
  <2> HIDE DEF Q
  <2>2. \A x \in (1 .. n) \X Q : x[2] \o seqs[x[1]] \in Q
    BY <2>1
  <2>3. QED
    BY <2>2
<1>5. CASE n = 0
  <2>1. FlattenSeq(seqs) = seqs /\ DOMAIN seqs = {} /\ seqs = << >>
    <3>1. Len(seqs) = 0
      BY <1>1, <1>5
    <3>2. FlattenSeq(seqs) = seqs
      BY <3>1 DEF FlattenSeq
    <3>3. seqs = << >>
      BY <3>1
    <3>4. QED
      BY <3>2, <3>3
  <2>2. Within(seqs) = {}
    BY <2>1 DEF Within
  <2>3. ToSet(seqs) = {}
    BY <2>1 DEF ToSet
  <2>4. << >> \in Seq(A)
    OBVIOUS
  <2>5. QED
    BY <2>1, <2>2, <2>3, <2>4
<1>6. CASE n # 0
  <2> HIDE DEF step, Q
  <2>1. PICK f \in [0 .. n -> Q] : f[0] = e /\ \A i \in 1 .. n : f[i] = step[<<i, f[i - 1]>>]
    <3>1. Steps(step, n, Q)
      BY <1>4 DEF Steps
    <3>2. \E f : RunOf(f, n, Q, e, step)
      BY <3>1, LoopRuns
    <3>3. QED
      BY <3>2 DEF RunOf
  <2>2. ASSUME NEW i \in 1 .. n PROVE f[i] = f[i - 1] \o seqs[i] /\ f[i - 1] \in Q
    <3>1. i - 1 \in 0 .. n
      OBVIOUS
    <3>2. QED
      BY <1>4, <2>1, <3>1
  <2> DEFINE r == [i \in 1 .. n |-> f[i]]
             flatten[i \in 1 .. n] == IF i = 1 THEN seqs[i] ELSE flatten[i - 1] \o seqs[i]
  <2>3. r = [i \in 1 .. n |-> IF i = 1 THEN seqs[i] ELSE r[i - 1] \o seqs[i]]
    <3>1. f[1] = seqs[1]
      <4>1. 1 \in 1 .. n /\ seqs[1] \in Q /\ 1 - 1 = 0
        BY <1>3, <1>6
      <4>2. f[1] = e \o seqs[1]
        BY <2>1, <2>2, <4>1
      <4>3. QED
        BY <1>2, <4>1, <4>2 DEF Q
    <3>2. ASSUME NEW i \in 1 .. n, i # 1 PROVE r[i] = r[i - 1] \o seqs[i]
      <4>1. i - 1 \in 1 .. n
        BY <3>2
      <4>2. QED
        BY <2>2, <4>1
    <3>3. \A i \in 1 .. n : r[i] = IF i = 1 THEN seqs[i] ELSE r[i - 1] \o seqs[i]
      BY <3>1, <3>2
    <3>4. r = [i \in 1 .. n |-> r[i]]
      OBVIOUS
    <3> HIDE DEF r
    <3>5. QED
      BY <3>3, <3>4
  <2> HIDE DEF r
  <2>4. flatten = [i \in 1 .. n |-> IF i = 1 THEN seqs[i] ELSE flatten[i - 1] \o seqs[i]]
    BY <2>3
  <2>5. FlattenSeq(seqs) = flatten[n]
    BY <1>1, <1>6 DEF FlattenSeq
  <2> HIDE DEF flatten
  <2>6. ASSUME NEW i \in 1 .. n
        PROVE  flatten[i] = IF i = 1 THEN seqs[i] ELSE flatten[i - 1] \o seqs[i]
    BY <2>4
  <2> DEFINE Good(i) == /\ flatten[i] \in Q
                        /\ \A x : x \in ToSet(flatten[i]) <=> \E j \in 1 .. i : x \in ToSet(seqs[j])
             T == {0} \cup {i \in 1 .. n : Good(i)}
  <2>7. ASSUME NEW i \in 1 .. n, i - 1 \in T PROVE i \in T
    <3>1. PICK s \in Q : s = seqs[i]
      BY <1>3
    <3>2. CASE i = 1
      <4>1. flatten[i] = s
        BY <2>6, <3>1, <3>2
      <4>2. \A j : j \in 1 .. i <=> j = i
        BY <3>2
      <4>3. \A x : x \in ToSet(flatten[i]) <=> \E j \in 1 .. i : x \in ToSet(seqs[j])
        <5>1. PICK S : S = ToSet(flatten[i]) /\ S = ToSet(seqs[i])
          BY <3>1, <4>1
        <5>2. \A x : (\E j \in 1 .. i : x \in ToSet(seqs[j])) <=> x \in ToSet(seqs[i])
          BY <4>2, Zenon
        <5>3. QED
          BY <5>1, <5>2
      <4>4. QED
        BY <4>1, <4>3
    <3>3. CASE i # 1
      <4>1. PICK h \in 1 .. n : h = i - 1 /\ Good(h)
        BY <2>7, <3>3
      <4>2. PICK q \in Q : q = flatten[h]
        BY <4>1
      <4>3. flatten[i] = q \o s
        BY <2>6, <3>1, <3>3, <4>1, <4>2
      <4>4. flatten[i] \in Q /\ ToSet(flatten[i]) = ToSet(q) \cup ToSet(s)
        BY <4>3, JoinIs DEF Q
      <4>5. \A j : j \in 1 .. i <=> (j = i \/ j \in 1 .. h)
        BY <4>1
      <4>6. QED
        BY <3>1, <4>1, <4>2, <4>4, <4>5
    <3>4. QED
      BY <3>2, <3>3
  <2> HIDE DEF T
  <2>8. 0 .. n \subseteq T
    <3>1. 0 \in T
      BY DEF T
    <3>2. QED
      BY <2>7, <3>1, StepByStep
  <2>9. Good(n)
    BY <1>1, <1>6, <2>8 DEF T
  <2>10. \A x : x \in Within(seqs) <=> \E j \in 1 .. n : x \in ToSet(seqs[j])
    BY <1>1, SeqIs DEF Within
  <2>11. ToSet(flatten[n]) = Within(seqs)
    BY <2>9, <2>10
  <2>12. QED
    BY <2>5, <2>9, <2>11 DEF Q
<1>7. QED
  BY <1>5, <1>6

\* The values of a loop are of no matter to a sequence being one.
IsSeq(s) == s \in Seq(ToSet(s))

\* What a sequence is after one more, and which places stay.
LEMMA Grows ==
    ASSUME NEW s, IsSeq(s), NEW a
    PROVE  /\ IsSeq(Append(s, a)) /\ Len(Append(s, a)) = Len(s) + 1 /\ Len(s) \in Nat
           /\ Append(s, a)[Len(s) + 1] = a
           /\ \A i \in 1 .. Len(s) : Append(s, a)[i] = s[i]
           /\ DOMAIN s = 1 .. Len(s) /\ DOMAIN Append(s, a) = 1 .. Len(s) + 1
<1> DEFINE A == ToSet(s) \cup {a}
<1>1. s \in Seq(A)
  <2>1. ToSet(s) \subseteq A
    OBVIOUS
  <2> HIDE DEF A
  <2>2. QED
    BY <2>1 DEF IsSeq
<1>2. a \in A
  OBVIOUS
<1> HIDE DEF A
<1>3. Append(s, a) \in Seq(A) /\ ToSet(Append(s, a)) = ToSet(s) \cup {a}
  BY <1>1, <1>2, AppendIs
<1>4. IsSeq(Append(s, a))
  BY <1>3 DEF IsSeq, A
<1>5. QED
  BY <1>1, <1>2, <1>4

\* What its tail is, place by place.
LEMMA Shrinks ==
    ASSUME NEW s, IsSeq(s), s # << >>
    PROVE  /\ IsSeq(Tail(s)) /\ Len(s) \in Nat /\ Len(s) >= 1 /\ Len(Tail(s)) = Len(s) - 1
           /\ Head(s) = s[1] /\ \A i \in 1 .. Len(s) - 1 : Tail(s)[i] = s[i + 1]
           /\ DOMAIN s = 1 .. Len(s) /\ DOMAIN Tail(s) = 1 .. Len(s) - 1
<1>1. PICK A : A = ToSet(s) /\ s \in Seq(A)
  BY DEF IsSeq
<1>2. PICK t \in Seq(A) : t = Tail(s)
  <2>1. Tail(s) \in Seq(A)
    BY <1>1
  <2>2. QED
    BY <2>1
<1>3. PICK n \in Nat : n = Len(s) /\ n >= 1
  BY <1>1
<1>4. Head(s) = s[1] /\ Len(t) = n - 1 /\ \A i \in 1 .. n - 1 : t[i] = s[i + 1]
  BY <1>1, <1>2, <1>3
<1>5. t \in Seq(ToSet(t))
  <2>1. DOMAIN t = 1 .. Len(t) /\ t = [i \in 1 .. Len(t) |-> t[i]] /\ Len(t) \in Nat
    OBVIOUS
  <2>2. \A i \in 1 .. Len(t) : t[i] \in ToSet(t)
    BY <2>1 DEF ToSet
  <2>3. QED
    BY <2>1, <2>2
<1>6. DOMAIN s = 1 .. n /\ DOMAIN t = 1 .. n - 1
  BY <1>1, <1>2, <1>3, <1>4
<1>7. QED
  BY <1>2, <1>3, <1>4, <1>5, <1>6 DEF IsSeq

-----------------------------------------------------------------------------
(* What the world sends, and what a client can read.                       *)

\* A packet that every client reads to its end and understands.
Legible(p) == Reads(p) /\ Knows(p) /\ ~HasAir(p) /\ p.name # "data"

\* Packets of no screen with a layout or a number of its own.
Special == {"player_info", "team", "spawn", "waypoint", "ghost", "book", "map", "data"}

\* A packet whose bytes no client reads its own way is legible to every client.
LEMMA PlainReads ==
    ASSUME NEW p, p.name \notin Special
    PROVE  Legible(p)
<1>1. Reads(p)
  BY DEF Reads, Special
<1>2. Knows(p)
  BY DEF Knows, Special
<1>3. QED
  BY <1>1, <1>2 DEF Legible, HasAir, Special

\* One packet.
LEMMA OnePacket ==
    ASSUME NEW name, NEW op, NEW fields
    PROVE  /\ Len(Packet(name, op, fields)) = 1
           /\ DOMAIN Packet(name, op, fields) = {1}
           /\ Packet(name, op, fields)[1] = [name |-> name, op |-> op, fields |-> fields]
           /\ ToSet(Packet(name, op, fields)) = {[name |-> name, op |-> op, fields |-> fields]}
BY DEF Packet, ToSet

\* What one packet is: its name, its operation and its fields, alone in its sequence.
LEMMA PacketOf ==
    ASSUME NEW name, NEW op, NEW fields
    PROVE  \E p : /\ p.name = name /\ p.op = op /\ p.fields = fields
                  /\ Packet(name, op, fields) = <<p>>
                  /\ ToSet(Packet(name, op, fields)) = {p}
<1>1. PICK p : p = [name |-> name, op |-> op, fields |-> fields]
  OBVIOUS
<1>2. Packet(name, op, fields) = <<p>>
  BY <1>1 DEF Packet
<1>3. ToSet(Packet(name, op, fields)) = {p}
  BY <1>1, OnePacket
<1>4. QED
  BY <1>1, <1>2, <1>3

\* The session stays as it is; at most one frame more is on its way, and it
\* reads well.
Speaks ==
    /\ UNCHANGED <<topic, version, advTree, advReqs, menus, threw, owes, screen>>
    /\ \/ net' = net
       \/ /\ Len(net) < Pending
          /\ \E ps : net' = Append(net, ps) /\ \A p \in ToSet(ps) : Legible(p)

\* A frame whose packets are legible is a step that speaks.
LEMMA SaySpeaks ==
    ASSUME NEW t, NEW b, NEW ps, Say(t, b, ps), \A p \in ToSet(ps) : Legible(p)
    PROVE  Speaks /\ topic = t /\ board' = b
<1>1. /\ UNCHANGED <<topic, version, advTree, advReqs, menus, threw, owes, screen>>
      /\ topic = t /\ board' = b /\ Len(net) < Pending
      /\ net' = IF ps = << >> THEN net ELSE Append(net, ps)
  BY DEF Say, Room, Tell, session
<1>2. net' = net \/ net' = Append(net, ps)
  BY <1>1
<1>3. QED
  BY <1>1, <1>2 DEF Speaks

\* As is one of a plain packet,
LEMMA SayPlain ==
    ASSUME NEW t, NEW b, NEW name, NEW op, NEW fields, Say(t, b, Packet(name, op, fields)),
           name \notin Special
    PROVE  Speaks /\ topic = t /\ board' = b
<1>1. ASSUME NEW p \in ToSet(Packet(name, op, fields)) PROVE Legible(p)
  <2>1. PICK q : q = [name |-> name, op |-> op, fields |-> fields]
    OBVIOUS
  <2>2. ToSet(Packet(name, op, fields)) = {q} /\ q.name = name
    BY <2>1, OnePacket
  <2>3. p = q
    BY <2>2
  <2>4. QED
    BY <2>2, <2>3, PlainReads
<1>2. PICK ps : ps = Packet(name, op, fields)
  OBVIOUS
<1>3. QED
  BY <1>1, <1>2, SaySpeaks

\* and one the gateway drops.
LEMMA SayNothing ==
    ASSUME NEW t, NEW b, Say(t, b, << >>)
    PROVE  Speaks /\ topic = t /\ board' = b
<1>1. ToSet(<< >>) = {}
  BY DEF ToSet
<1>2. PICK ps : ps = << >>
  OBVIOUS
<1>3. QED
  BY <1>1, <1>2, SaySpeaks

\* Boss bar, effect, scores, the edges and clock of the world, abilities.
LEMMA PlainScreens ==
    /\ \A e : BossBarAdd(e) => Speaks /\ topic = "bar"
    /\ \A op, e : BossBar(op, e) => Speaks /\ topic = "bar"
    /\ BossBarRemove => Speaks /\ topic = "bar"
    /\ \A e : Effect(e) => Speaks /\ topic = "effect"
    /\ EffectRemove => Speaks /\ topic = "effect"
    /\ \A reset : ClearTitle(reset) => Speaks /\ topic = "title"
    /\ \A o : ObjectiveAdd(o) => Speaks /\ topic = "scores"
    /\ \A o : ObjectiveUpdate(o) => Speaks /\ topic = "scores"
    /\ ObjectiveRemove => Speaks /\ topic = "scores"
    /\ \A o : DisplaySlot(o) => Speaks /\ topic = "scores"
    /\ \A e : Score(e) => Speaks /\ topic = "scores"
    /\ \A o : ScoreReset(o) => Speaks /\ topic = "scores"
    /\ \A e, heading : WorldBorder(e, heading) => Speaks /\ topic = "border"
    /\ \A e, clocks : Time(e, clocks) => Speaks /\ topic = "time"
    /\ \A e : Abilities(e) => Speaks /\ topic = "abilities"
    /\ \A at : VehicleMove(at) => Speaks /\ topic = "moves"
    /\ \A u : PlayerGone(u) => Speaks /\ topic = "tab"
<1>1. /\ "boss_bar" \notin Special /\ "effect" \notin Special /\ "title" \notin Special
      /\ "objective" \notin Special /\ "display" \notin Special /\ "score" \notin Special
      /\ "border" \notin Special /\ "time" \notin Special /\ "abilities" \notin Special
      /\ "move_vehicle" \notin Special /\ "player_remove" \notin Special
  BY DEF Special
<1>2. \A e : BossBarAdd(e) => Speaks /\ topic = "bar"
  BY <1>1, SayPlain DEF BossBarAdd, BossBarPacket
<1>3. \A op, e : BossBar(op, e) => Speaks /\ topic = "bar"
  BY <1>1, SayPlain DEF BossBar, BossBarPacket
<1>4. BossBarRemove => Speaks /\ topic = "bar"
  BY <1>1, SayPlain DEF BossBarRemove, BossBarPacket
<1>5. /\ \A e : Effect(e) => Speaks /\ topic = "effect"
      /\ EffectRemove => Speaks /\ topic = "effect"
  BY <1>1, SayPlain DEF Effect, EffectPacket, EffectRemove
<1>6. \A reset : ClearTitle(reset) => Speaks /\ topic = "title"
  BY <1>1, SayPlain DEF ClearTitle
<1>7. /\ \A o : ObjectiveAdd(o) => Speaks /\ topic = "scores"
      /\ \A o : ObjectiveUpdate(o) => Speaks /\ topic = "scores"
      /\ ObjectiveRemove => Speaks /\ topic = "scores"
  BY <1>1, SayPlain DEF ObjectiveAdd, ObjectiveUpdate, ObjectiveRemove, ObjectivePacket
<1>8. \A o : DisplaySlot(o) => Speaks /\ topic = "scores"
  BY <1>1, SayPlain DEF DisplaySlot
<1>9. /\ \A e : Score(e) => Speaks /\ topic = "scores"
      /\ \A o : ScoreReset(o) => Speaks /\ topic = "scores"
  BY <1>1, SayPlain DEF Score, ScorePacket, ScoreReset
<1>10. \A e, heading : WorldBorder(e, heading) => Speaks /\ topic = "border"
  BY <1>1, SayPlain DEF WorldBorder, WorldBorderPacket
<1>11. \A e, clocks : Time(e, clocks) => Speaks /\ topic = "time"
  BY <1>1, SayPlain DEF Time
<1>12. \A e : Abilities(e) => Speaks /\ topic = "abilities"
  BY <1>1, SayPlain DEF Abilities
<1>13. \A at : VehicleMove(at) => Speaks /\ topic = "moves"
  BY <1>1, SayPlain DEF VehicleMove
<1>14. \A u : PlayerGone(u) => Speaks /\ topic = "tab"
  BY <1>1, SayPlain DEF PlayerGone
<1>15. QED
  BY <1>2, <1>3, <1>4, <1>5, <1>6, <1>7, <1>8, <1>9, <1>10, <1>11, <1>12, <1>13, <1>14

\* Nothing is in the empty sequence.
LEMMA EmptyIs == ToSet(<< >>) = {}
BY DEF ToSet

\* A player's move goes in one packet, or in none.
LEMMA MoveSpeaks ==
    ASSUME NEW m, Move(m)
    PROVE  Speaks /\ topic = "moves"
<1>1. Say("moves", m, MovePackets(board, m))
  BY DEF Move
<1>2. PICK fields : MovePackets(board, m)
                       = If(m # board, Packet("move_player", "", fields))
  BY DEF MovePackets
<1>3. "move_player" \notin Special
  BY DEF Special
<1>4. CASE m # board
  <2>1. Say("moves", m, Packet("move_player", "", fields))
    BY <1>1, <1>2, <1>4 DEF If
  <2>2. QED
    BY <1>3, <2>1, SayPlain
<1>5. CASE m = board
  BY <1>5 DEF Move
<1>6. QED
  BY <1>4, <1>5

\* A sequence of one, sent or not.
LEMMA OneOf ==
    ASSUME NEW P, NEW name, NEW op, NEW fields, NEW cond \in BOOLEAN,
           [name |-> name, op |-> op, fields |-> fields] \in P
    PROVE  /\ Packet(name, op, fields) \in Seq(P)
           /\ If(cond, Packet(name, op, fields)) \in Seq(P)
<1>1. PICK p \in P : p = [name |-> name, op |-> op, fields |-> fields]
  OBVIOUS
<1>2. Packet(name, op, fields) = <<p>>
  BY <1>1 DEF Packet
<1>3. <<p>> \in Seq(P) /\ << >> \in Seq(P)
  OBVIOUS
<1>4. If(cond, <<p>>) = <<p>> \/ If(cond, <<p>>) = << >>
  BY DEF If
<1>5. QED
  BY <1>2, <1>3, <1>4

\* Timing, subtitle and title, as many as there are.
LEMMA TitleSpeaks ==
    ASSUME NEW title, NEW subtitle, NEW times, Title(title, subtitle, times)
    PROVE  Speaks /\ topic = "title"
<1> DEFINE p1 == [name |-> "title", op |-> "times", fields |-> F("times", times)]
           p2 == [name |-> "title", op |-> "subtitle", fields |-> F("subtitle", subtitle)]
           p3 == [name |-> "title", op |-> "title", fields |-> F("title", title)]
           s1 == If(times # 0, Packet("title", "times", F("times", times)))
           s2 == If(subtitle # "", Packet("title", "subtitle", F("subtitle", subtitle)))
           s3 == If(title # "", Packet("title", "title", F("title", title)))
           P == {p1, p2, p3}
<1>1. PICK b : Say("title", b, TitlePackets(title, subtitle, times))
  BY DEF Title
<1>2. TitlePackets(title, subtitle, times) = (s1 \o s2) \o s3
  BY DEF TitlePackets
<1>3. \A p \in P : p.name \notin Special
  BY DEF Special
<1>4. s1 \in Seq(P) /\ s2 \in Seq(P) /\ s3 \in Seq(P)
  <2>1. p1 \in P /\ p2 \in P /\ p3 \in P
    OBVIOUS
  <2> HIDE DEF P
  <2>2. QED
    BY <2>1, OneOf
<1> HIDE DEF s1, s2, s3, P
<1>5. (s1 \o s2) \o s3 \in Seq(P)
  BY <1>4
<1>6. PICK ps : ps = (s1 \o s2) \o s3
  OBVIOUS
<1>7. ToSet(ps) \subseteq P
  BY <1>5, <1>6, SeqIs
<1>8. \A p \in ToSet(ps) : Legible(p)
  BY <1>3, <1>7, PlainReads
<1>9. Say("title", b, ps)
  BY <1>1, <1>2, <1>6
<1>10. QED
  BY <1>8, <1>9, SaySpeaks

-----------------------------------------------------------------------------
(* Fields.                                                                 *)

\* Two sequences are one.
LEMMA JoinSeq ==
    ASSUME NEW a, NEW b, IsSeq(a), IsSeq(b)
    PROVE  /\ IsSeq(a \o b) /\ Len(a \o b) = Len(a) + Len(b)
           /\ Len(a) \in Nat /\ Len(b) \in Nat
           /\ DOMAIN a = 1 .. Len(a) /\ DOMAIN b = 1 .. Len(b)
           /\ DOMAIN (a \o b) = 1 .. (Len(a) + Len(b))
           /\ \A i \in 1 .. Len(a) : (a \o b)[i] = a[i]
           /\ \A i \in 1 .. Len(b) : (a \o b)[Len(a) + i] = b[i]
           /\ \A i \in 1 .. (Len(a) + Len(b)) :
                 i \in 1 .. Len(a) \/ \E j \in 1 .. Len(b) : i = Len(a) + j
<1>1. PICK A : A = ToSet(a) \cup ToSet(b)
  OBVIOUS
<1>2. a \in Seq(A) /\ b \in Seq(A)
  <2>1. ToSet(a) \subseteq A /\ ToSet(b) \subseteq A
    BY <1>1
  <2>2. QED
    BY <2>1 DEF IsSeq
<1>3. a \o b \in Seq(A) /\ ToSet(a \o b) = A
  BY <1>1, <1>2, JoinIs
<1>4. IsSeq(a \o b)
  BY <1>3 DEF IsSeq
<1>5. PICK n \in Nat, k \in Nat : n = Len(a) /\ k = Len(b)
  BY <1>2
<1>6. /\ Len(a \o b) = n + k
      /\ \A i \in 1 .. (n + k) : (a \o b)[i] = IF i <= n THEN a[i] ELSE b[i - n]
  BY <1>2, <1>5
<1>7. \A i \in 1 .. n : i \in 1 .. (n + k) /\ (a \o b)[i] = a[i]
  BY <1>6
<1>8. \A i \in 1 .. k : n + i \in 1 .. (n + k) /\ (a \o b)[n + i] = b[i]
  BY <1>6
<1>9. ASSUME NEW i \in 1 .. (n + k) PROVE i \in 1 .. n \/ \E j \in 1 .. k : i = n + j
  <2>1. CASE i <= n
    BY <2>1
  <2>2. CASE ~(i <= n)
    <3>1. i - n \in 1 .. k /\ i = n + (i - n)
      BY <2>2
    <3>2. QED
      BY <3>1
  <2>3. QED
    BY <2>1, <2>2
<1>10. DOMAIN a = 1 .. n /\ DOMAIN b = 1 .. k /\ DOMAIN (a \o b) = 1 .. (n + k)
  BY <1>2, <1>3, <1>5, <1>6
<1>11. QED
  BY <1>4, <1>5, <1>6, <1>7, <1>8, <1>9, <1>10

\* Joining is done in any order; nothing adds nothing.
LEMMA JoinNothing ==
    ASSUME NEW a, IsSeq(a)
    PROVE  a \o << >> = a /\ << >> \o a = a
BY DEF IsSeq

\* The empty sequence is one,
LEMMA NothingSeq == IsSeq(<< >>)
BY DEF IsSeq, ToSet

\* and so is that of one thing.
LEMMA OneSeq ==
    ASSUME NEW x
    PROVE  IsSeq(<<x>>) /\ Len(<<x>>) = 1 /\ <<x>>[1] = x /\ DOMAIN <<x>> = 1 .. 1
<1>1. ToSet(<<x>>) = {x}
  BY DEF ToSet
<1>2. <<x>> \in Seq({x})
  OBVIOUS
<1>3. QED
  BY <1>1, <1>2 DEF IsSeq

\* One field.
LEMMA FieldIs ==
    ASSUME NEW l, NEW v
    PROVE  IsSeq(F(l, v)) /\ Labels(F(l, v)) = <<l>> /\ IsSeq(<<l>>)
<1>1. PICK x : x = <<l, v>>
  OBVIOUS
<1>2. F(l, v) = <<x>>
  BY <1>1 DEF F
<1>3. IsSeq(<<x>>) /\ DOMAIN <<x>> = 1 .. 1 /\ <<x>>[1] = x
  BY OneSeq
<1>4. x[1] = l
  BY <1>1
<1>5. Labels(<<x>>) = [i \in 1 .. 1 |-> l]
  BY <1>3, <1>4 DEF Labels
<1>6. <<l>> = [i \in 1 .. 1 |-> l]
  OBVIOUS
<1>7. QED
  BY <1>2, <1>3, <1>5, <1>6, OneSeq

\* The labels of fields joined are theirs, joined.
LEMMA LabelsJoin ==
    ASSUME NEW a, NEW b, IsSeq(a), IsSeq(b)
    PROVE  Labels(a \o b) = Labels(a) \o Labels(b) /\ IsSeq(Labels(a)) /\ IsSeq(Labels(a \o b))
<1>1. ASSUME NEW c, IsSeq(c)
      PROVE  IsSeq(Labels(c)) /\ Len(Labels(c)) = Len(c) /\ DOMAIN Labels(c) = DOMAIN c
  <2>1. PICK n \in Nat : n = Len(c) /\ DOMAIN c = 1 .. n
    BY <1>1, NothingSeq, JoinSeq
  <2>2. PICK r : r = Labels(c) /\ r = [i \in 1 .. n |-> c[i][1]]
    BY <2>1 DEF Labels
  <2>3. DOMAIN r = 1 .. n /\ \A i \in 1 .. n : r[i] \in ToSet(r)
    BY <2>2 DEF ToSet
  <2>4. r \in Seq(ToSet(r)) /\ Len(r) = n
    BY <2>2, <2>3
  <2>5. QED
    BY <2>1, <2>2, <2>3, <2>4 DEF IsSeq
<1>2. PICK n \in Nat, k \in Nat : n = Len(a) /\ k = Len(b)
  BY JoinSeq
<1>3. PICK c : c = a \o b /\ IsSeq(c) /\ DOMAIN c = 1 .. (n + k)
  BY <1>2, JoinSeq
<1>4. PICK r : r = Labels(a) \o Labels(b)
  OBVIOUS
<1>5. /\ IsSeq(Labels(a)) /\ IsSeq(Labels(b)) /\ Len(Labels(a)) = n /\ Len(Labels(b)) = k
  BY <1>1, <1>2
<1>6. /\ IsSeq(r) /\ DOMAIN r = 1 .. (n + k)
      /\ \A i \in 1 .. n : r[i] = Labels(a)[i]
      /\ \A i \in 1 .. k : r[n + i] = Labels(b)[i]
  BY <1>4, <1>5, JoinSeq
<1>7. ASSUME NEW i \in 1 .. (n + k) PROVE r[i] = c[i][1]
  <2>1. CASE i \in 1 .. n
    <3>1. c[i] = a[i] /\ Labels(a)[i] = a[i][1]
      BY <1>2, <1>3, <2>1, JoinSeq DEF Labels
    <3>2. QED
      BY <1>6, <2>1, <3>1
  <2>2. CASE i \notin 1 .. n
    <3>1. PICK j \in 1 .. k : i = n + j
      BY <1>2, <2>2, JoinSeq
    <3>2. c[i] = b[j] /\ Labels(b)[j] = b[j][1]
      BY <1>2, <1>3, <3>1, JoinSeq DEF Labels
    <3>3. QED
      BY <1>6, <3>1, <3>2
  <2>3. QED
    BY <2>1, <2>2
<1>8. r = [i \in 1 .. (n + k) |-> r[i]]
  <2>1. r \in Seq(ToSet(r))
    BY <1>6 DEF IsSeq
  <2>2. r = [i \in 1 .. Len(r) |-> r[i]] /\ DOMAIN r = 1 .. Len(r)
    BY <2>1
  <2>3. QED
    BY <1>6, <2>2
<1>9. Labels(c) = r
  BY <1>3, <1>7, <1>8 DEF Labels
<1>10. QED
  BY <1>1, <1>3, <1>4, <1>9

\* A field carried is the one that is read.
Carries(s, l, v) == Has(s, l) /\ \A i \in DOMAIN s : s[i][1] = l => s[i][2] = v

\* A field that carries v reads v.
LEMMA CarriesOf ==
    ASSUME NEW s, NEW l, NEW v, Carries(s, l, v)
    PROVE  Of(s, l) = v
<1>1. \E i : i \in DOMAIN s /\ s[i][1] = l
  BY DEF Carries, Has
<1>2. PICK i : i = CHOOSE j \in DOMAIN s : s[j][1] = l
  OBVIOUS
<1>3. i \in DOMAIN s /\ s[i][1] = l
  BY <1>1, <1>2
<1>4. s[i][2] = v
  BY <1>3 DEF Carries
<1>5. QED
  BY <1>2, <1>4 DEF Of

\* What fields joined have: what either has, with its value where only one has it.
LEMMA HasJoin ==
    ASSUME NEW a, NEW b, IsSeq(a), IsSeq(b), NEW l, NEW v
    PROVE  /\ Has(a \o b, l) <=> (Has(a, l) \/ Has(b, l))
           /\ Carries(a, l, v) /\ ~Has(b, l) => Carries(a \o b, l, v)
           /\ ~Has(a, l) /\ Carries(b, l, v) => Carries(a \o b, l, v)
<1>1. PICK n, k, c :
         n \in Nat /\ k \in Nat /\ n = Len(a) /\ k = Len(b) /\ c = a \o b /\ DOMAIN c = 1 .. (n + k)
  <2>1. /\ Len(a) \in Nat /\ Len(b) \in Nat
        /\ DOMAIN (a \o b) = 1 .. (Len(a) + Len(b))
    BY JoinSeq
  <2>2. QED
    BY <2>1
<1>2. DOMAIN a = 1 .. n /\ DOMAIN b = 1 .. k
  BY <1>1, JoinSeq
<1>3. \A i \in 1 .. n : i \in 1 .. (n + k) /\ c[i] = a[i]
  BY <1>1, JoinSeq
<1>4. \A i \in 1 .. k : n + i \in 1 .. (n + k) /\ c[n + i] = b[i]
  BY <1>1, JoinSeq
<1>5. \A i \in 1 .. (n + k) : i \in 1 .. n \/ \E j \in 1 .. k : i = n + j
  BY <1>1, JoinSeq
<1>6. Has(c, l) <=> (Has(a, l) \/ Has(b, l))
  <2>1. ASSUME Has(c, l) PROVE Has(a, l) \/ Has(b, l)
    <3>1. PICK i \in 1 .. (n + k) : c[i][1] = l
      BY <1>1, <2>1 DEF Has
    <3>2. CASE i \in 1 .. n
      BY <1>2, <1>3, <3>1, <3>2 DEF Has
    <3>3. CASE i \notin 1 .. n
      <4>1. PICK j \in 1 .. k : i = n + j
        BY <1>5, <3>3
      <4>2. QED
        BY <1>2, <1>4, <3>1, <4>1 DEF Has
    <3>4. QED
      BY <3>2, <3>3
  <2>2. Has(a, l) => Has(c, l)
    BY <1>1, <1>2, <1>3 DEF Has
  <2>3. Has(b, l) => Has(c, l)
    BY <1>1, <1>2, <1>4 DEF Has
  <2>4. QED
    BY <2>1, <2>2, <2>3
<1>7. ASSUME Has(a, l) \/ Has(b, l),
             \A i \in 1 .. n : a[i][1] = l => a[i][2] = v,
             \A i \in 1 .. k : b[i][1] = l => b[i][2] = v
      PROVE  Carries(c, l, v)
  <2>1. ASSUME NEW i \in 1 .. (n + k), c[i][1] = l PROVE c[i][2] = v
    <3>1. CASE i \in 1 .. n
      BY <1>3, <1>7, <2>1, <3>1
    <3>2. CASE i \notin 1 .. n
      <4>1. PICK j \in 1 .. k : i = n + j
        BY <1>5, <3>2
      <4>2. QED
        BY <1>4, <1>7, <2>1, <4>1
    <3>3. QED
      BY <3>1, <3>2
  <2>2. QED
    BY <1>1, <1>6, <1>7, <2>1 DEF Carries
<1>8. ASSUME Carries(a, l, v), ~Has(b, l) PROVE Carries(c, l, v)
  BY <1>2, <1>7, <1>8 DEF Carries, Has
<1>9. ASSUME ~Has(a, l), Carries(b, l, v) PROVE Carries(c, l, v)
  BY <1>2, <1>7, <1>9 DEF Carries, Has
<1>10. QED
  BY <1>1, <1>6, <1>8, <1>9

\* A field has its own label and no other.
LEMMA FieldHas ==
    ASSUME NEW k, NEW v, NEW l
    PROVE  /\ Has(F(k, v), l) <=> k = l
           /\ Carries(F(k, v), k, v) /\ Of(F(k, v), k) = v /\ ~Has(<< >>, l)
<1>1. PICK x : x = <<k, v>>
  OBVIOUS
<1>2. PICK s : s = F(k, v) /\ s = <<x>>
  BY <1>1 DEF F
<1>3. DOMAIN s = 1 .. 1 /\ s[1] = x
  BY <1>2, OneSeq
<1>4. x[1] = k /\ x[2] = v
  BY <1>1
<1>5. \A i \in 1 .. 1 : i = 1
  OBVIOUS
<1>6. Has(s, l) <=> k = l
  BY <1>3, <1>4, <1>5 DEF Has
<1>7. Carries(s, k, v)
  BY <1>3, <1>4, <1>5 DEF Has, Carries
<1>8. ~Has(<< >>, l)
  BY DEF Has
<1>9. QED
  BY <1>2, <1>6, <1>7, <1>8, CarriesOf

-----------------------------------------------------------------------------
(* Tab list.                                                               *)

\* One more at the end is one joined.
LEMMA AppendJoin ==
    ASSUME NEW s, IsSeq(s), NEW x
    PROVE  Append(s, x) = s \o <<x>>
<1>1. PICK A : A = ToSet(s) \cup {x}
  OBVIOUS
<1>2. s \in Seq(A) /\ x \in A
  <2>1. ToSet(s) \subseteq A
    BY <1>1
  <2>2. QED
    BY <1>1, <2>1 DEF IsSeq
<1>3. QED
  BY <1>2

\* The labels the client reads of a player_info_update.
LEMMA InfoKept ==
    ASSUME NEW S
    PROVE  Kept(InfoOrder, S)
             = (((If("name" \in S, <<"name">>) \o If("chat" \in S, <<"chat">>))
                   \o If("mode" \in S, <<"mode">>)) \o If("listed" \in S, <<"listed">>))
                   \o If("ping" \in S, <<"ping">>)
<1>1. PICK s : s = InfoOrder
  OBVIOUS
<1> DEFINE A == {"name", "chat", "mode", "listed", "ping"}
<1>2. /\ s \in Seq(A) /\ Len(s) = 5
      /\ s[1] = "name" /\ s[2] = "chat" /\ s[3] = "mode" /\ s[4] = "listed" /\ s[5] = "ping"
  BY <1>1 DEF InfoOrder
<1>3. PICK f : KeptRun(f, A, s, S)
  BY <1>2, KeptRuns
<1> DEFINE more(i) == If(s[i] \in S, <<s[i]>>)
<1>4. ASSUME NEW i \in 1 .. 5 PROVE IsSeq(f[i - 1]) /\ f[i] = f[i - 1] \o more(i)
  <2>1. PICK h \in 0 .. 5 : h = i - 1
    OBVIOUS
  <2>2. PICK q : q = f[h] /\ q \in Seq(A)
    BY <1>2, <1>3, <2>1 DEF KeptRun
  <2>3. IsSeq(q)
    <3>1. q = [k \in 1 .. Len(q) |-> q[k]] /\ Len(q) \in Nat /\ DOMAIN q = 1 .. Len(q)
      BY <2>2
    <3>2. \A k \in 1 .. Len(q) : q[k] \in ToSet(q)
      BY <3>1 DEF ToSet
    <3>3. QED
      BY <3>1, <3>2 DEF IsSeq
  <2>4. f[i] = IF s[i] \in S THEN Append(q, s[i]) ELSE q
    BY <1>2, <1>3, <2>1, <2>2 DEF KeptRun
  <2>5. Append(q, s[i]) = q \o <<s[i]>> /\ q \o << >> = q
    BY <2>3, AppendJoin, JoinNothing
  <2>6. f[i] = q \o more(i)
    BY <2>4, <2>5 DEF If
  <2>7. QED
    BY <2>1, <2>2, <2>3, <2>6
<1>5. f[0] = << >> /\ Kept(s, S) = f[5]
  BY <1>2, <1>3 DEF KeptRun
<1>6. IsSeq(more(1))
  <2>1. more(1) = <<s[1]>> \/ more(1) = << >>
    BY DEF If
  <2>2. IsSeq(<<s[1]>>)
    BY OneSeq
  <2> HIDE DEF more
  <2>3. QED
    BY <2>1, <2>2, NothingSeq
<1> HIDE DEF more
<1>7. /\ f[1] = f[0] \o more(1) /\ f[2] = f[1] \o more(2) /\ f[3] = f[2] \o more(3)
      /\ f[4] = f[3] \o more(4) /\ f[5] = f[4] \o more(5)
  <2>1. /\ 1 \in 1 .. 5 /\ 2 \in 1 .. 5 /\ 3 \in 1 .. 5 /\ 4 \in 1 .. 5 /\ 5 \in 1 .. 5
        /\ 1 - 1 = 0 /\ 2 - 1 = 1 /\ 3 - 1 = 2 /\ 4 - 1 = 3 /\ 5 - 1 = 4
    OBVIOUS
  <2>2. /\ f[1] = f[1 - 1] \o more(1) /\ f[2] = f[2 - 1] \o more(2)
        /\ f[3] = f[3 - 1] \o more(3)
        /\ f[4] = f[4 - 1] \o more(4) /\ f[5] = f[5 - 1] \o more(5)
    BY <1>4, <2>1, Zenon
  <2>3. QED
    BY <2>1, <2>2
<1>8. f[1] = more(1)
  BY <1>5, <1>6, <1>7, JoinNothing
<1>9. f[5] = (((more(1) \o more(2)) \o more(3)) \o more(4)) \o more(5)
  BY <1>7, <1>8
<1>10. QED
  BY <1>1, <1>2, <1>5, <1>9 DEF more

\* A packet of the tab list has a field for each action it names, in their order.
LEMMA InfoLegible ==
    ASSUME NEW p, p.name = "player_info", Labels(p.fields) = Kept(InfoOrder, p.op.actions)
    PROVE  Legible(p)
<1>1. Reads(p)
  BY DEF Reads
<1>2. Knows(p)
  BY DEF Knows
<1>3. QED
  BY <1>1, <1>2 DEF Legible, HasAir

\* A change of one property of an entry sets the bit of the property it carries.
LEMMA PlayerInfoUpdateLegible ==
    ASSUME NEW u, NEW action \in {"mode", "chat", "ping"}, NEW value
    PROVE  \A p \in ToSet(PlayerInfoUpdate(u, action, value)) : Legible(p)
<1>1. PICK o, f : o = [user |-> u, actions |-> {action}] /\ f = F(action, value)
  OBVIOUS
<1>2. PICK p : /\ p.name = "player_info" /\ p.op = o /\ p.fields = f
               /\ ToSet(PlayerInfoUpdate(u, action, value)) = {p}
  <2>1. PlayerInfoUpdate(u, action, value) = Packet("player_info", o, f)
    BY <1>1 DEF PlayerInfoUpdate
  <2>2. QED
    BY <2>1, PacketOf
<1>3. p.name = "player_info" /\ p.op.actions = {action} /\ p.fields = F(action, value)
  BY <1>1, <1>2
<1>4. Labels(p.fields) = <<action>>
  BY <1>3, FieldIs
<1>5. Kept(InfoOrder, {action}) = <<action>>
  <2>1. IsSeq(<<action>>) /\ IsSeq(<< >>)
    BY FieldIs, NothingSeq
  <2>2. << >> \o << >> = << >>
    BY NothingSeq, JoinNothing
  <2>3. <<action>> \o << >> = <<action>> /\ << >> \o <<action>> = <<action>>
    BY <2>1, JoinNothing
  <2>4. \A l : If(l \in {action}, <<l>>) = IF l = action THEN <<action>> ELSE << >>
    BY DEF If
  <2>5. PICK a, e : a = <<action>> /\ e = << >>
    OBVIOUS
  <2>6. e \o e = e /\ a \o e = a /\ e \o a = a
    BY <2>2, <2>3, <2>5
  <2>7. \A l : If(l \in {action}, <<l>>) = IF l = action THEN a ELSE e
    BY <2>4, <2>5
  <2>8. CASE action = "mode"
    <3>1. Kept(InfoOrder, {action}) = (((e \o e) \o a) \o e) \o e
      BY <2>7, <2>8, InfoKept
    <3>2. QED
      BY <2>5, <2>6, <3>1
  <2>9. CASE action = "chat"
    <3>1. Kept(InfoOrder, {action}) = (((e \o a) \o e) \o e) \o e
      BY <2>7, <2>9, InfoKept
    <3>2. QED
      BY <2>5, <2>6, <3>1
  <2>10. CASE action = "ping"
    <3>1. Kept(InfoOrder, {action}) = (((e \o e) \o e) \o e) \o a
      BY <2>7, <2>10, InfoKept
    <3>2. QED
      BY <2>5, <2>6, <3>1
  <2>11. QED
    BY <2>8, <2>9, <2>10
<1>6. QED
  BY <1>2, <1>3, <1>4, <1>5, InfoLegible

\* A new entry sets the bits of what follows, in their order.
LEMMA PlayerInfoAddLegible ==
    ASSUME NEW u, NEW e, e.chat \in BOOLEAN
    PROVE  \A p \in ToSet(PlayerInfoAdd(u, e)) : Legible(p)
<1> DEFINE S == {"name", "mode", "listed", "ping"} \cup IF e.chat THEN {"chat"} ELSE {}
           f1 == F("name", u)
           f2 == If(e.chat, F("chat", TRUE))
           f3 == F("mode", e.mode)
           f4 == F("listed", TRUE)
           f5 == F("ping", e.ping)
<1>1. PICK o, f : o = [user |-> u, actions |-> S] /\ f = (((f1 \o f2) \o f3) \o f4) \o f5
  OBVIOUS
<1>2. PICK p : /\ p.name = "player_info" /\ p.op = o /\ p.fields = f
               /\ ToSet(PlayerInfoAdd(u, e)) = {p}
  <2>1. PlayerInfoAdd(u, e) = Packet("player_info", o, f)
    BY <1>1 DEF PlayerInfoAdd
  <2>2. QED
    BY <2>1, PacketOf
<1>3. p.name = "player_info" /\ p.op.actions = S /\ p.fields = (((f1 \o f2) \o f3) \o f4) \o f5
  BY <1>1, <1>2
<1>4. /\ IsSeq(f1) /\ IsSeq(f2) /\ IsSeq(f3) /\ IsSeq(f4) /\ IsSeq(f5)
      /\ Labels(f1) = <<"name">> /\ Labels(f3) = <<"mode">> /\ Labels(f4) = <<"listed">>
      /\ Labels(f5) = <<"ping">> /\ Labels(f2) = If(e.chat, <<"chat">>)
  <2>1. /\ IsSeq(f1) /\ IsSeq(f3) /\ IsSeq(f4) /\ IsSeq(f5)
        /\ Labels(f1) = <<"name">> /\ Labels(f3) = <<"mode">> /\ Labels(f4) = <<"listed">>
        /\ Labels(f5) = <<"ping">>
    BY FieldIs
  <2>2. CASE e.chat
    <3>1. f2 = F("chat", TRUE) /\ If(e.chat, <<"chat">>) = <<"chat">>
      BY <2>2 DEF If
    <3> HIDE DEF f2
    <3>2. QED
      BY <2>1, <3>1, FieldIs
  <2>3. CASE ~e.chat
    <3>1. f2 = << >> /\ If(e.chat, <<"chat">>) = << >>
      BY <2>3 DEF If
    <3>2. Labels(<< >>) = << >>
      BY DEF Labels
    <3> HIDE DEF f2
    <3>3. QED
      BY <2>1, <3>1, <3>2, NothingSeq
  <2>4. QED
    BY <2>1, <2>2, <2>3
<1> HIDE DEF f1, f2, f3, f4, f5
<1>5. Labels(p.fields) = (((Labels(f1) \o Labels(f2)) \o Labels(f3)) \o Labels(f4)) \o Labels(f5)
  <2>1. IsSeq(f1 \o f2) /\ Labels(f1 \o f2) = Labels(f1) \o Labels(f2)
    BY <1>4, JoinSeq, LabelsJoin
  <2>2. PICK g : g = f1 \o f2 /\ IsSeq(g)
    BY <2>1
  <2>3. IsSeq(g \o f3) /\ Labels(g \o f3) = Labels(g) \o Labels(f3)
    BY <1>4, <2>2, JoinSeq, LabelsJoin
  <2>4. PICK h : h = g \o f3 /\ IsSeq(h)
    BY <2>3
  <2>5. IsSeq(h \o f4) /\ Labels(h \o f4) = Labels(h) \o Labels(f4)
    BY <1>4, <2>4, JoinSeq, LabelsJoin
  <2>6. PICK k : k = h \o f4 /\ IsSeq(k)
    BY <2>5
  <2>7. Labels(k \o f5) = Labels(k) \o Labels(f5)
    BY <1>4, <2>6, LabelsJoin
  <2>8. QED
    BY <1>3, <2>1, <2>2, <2>3, <2>4, <2>5, <2>6, <2>7
<1>6. /\ If("name" \in S, <<"name">>) = <<"name">>
      /\ If("chat" \in S, <<"chat">>) = If(e.chat, <<"chat">>)
      /\ If("mode" \in S, <<"mode">>) = <<"mode">>
      /\ If("listed" \in S, <<"listed">>) = <<"listed">>
      /\ If("ping" \in S, <<"ping">>) = <<"ping">>
  BY DEF If
<1> HIDE DEF S
<1>7. Kept(InfoOrder, S)
        = (((<<"name">> \o If(e.chat, <<"chat">>)) \o <<"mode">>) \o <<"listed">>) \o <<"ping">>
  BY <1>6, InfoKept
<1>8. Labels(p.fields) = Kept(InfoOrder, p.op.actions)
  BY <1>3, <1>4, <1>5, <1>7
<1>9. QED
  BY <1>2, <1>3, <1>8, InfoLegible

\* A set laid out in a sequence.
LEMMA LaidOut ==
    ASSUME NEW S, IsFiniteSet(S)
    PROVE  SetToSeq(S) \in Seq(S) /\ ToSet(SetToSeq(S)) = S
<1>1. PICK n \in Nat : n = Cardinality(S)
  BY FS_CardinalityType
<1>2. PICK g : g \in Bijection(1 .. n, S)
  BY <1>1, FS_CardinalityType DEF ExistsBijection
<1>3. g \in [1 .. n -> S] /\ IsInjective(g)
  BY <1>2 DEF Bijection, Injection, IsInjective
<1>4. PICK f : f = SetToSeq(S)
  OBVIOUS
<1>5. f = CHOOSE h \in [1 .. n -> S] : IsInjective(h)
  BY <1>1, <1>4 DEF SetToSeq
<1>6. f \in [1 .. n -> S] /\ IsInjective(f)
  BY <1>3, <1>5
<1>7. f \in Seq(S) /\ DOMAIN f = 1 .. n
  BY <1>6
<1>8. \A a, b \in 1 .. n : f[a] = f[b] => a = b
  BY <1>6, <1>7 DEF IsInjective
<1>9. ToSet(f) = S
  <2>1. f \in Injection(1 .. n, S)
    BY <1>6, <1>8 DEF Injection, IsInjective
  <2>2. Cardinality(1 .. n) = n /\ IsFiniteSet(1 .. n)
    BY FS_Interval
  <2>3. f \in Surjection(1 .. n, S)
    BY <1>1, <2>1, <2>2, FS_Injection
  <2>4. QED
    BY <1>7, <2>3 DEF Surjection, ToSet
<1>10. QED
  BY <1>4, <1>7, <1>9

\* Packets of several, one after another.
LEMMA FlatLegible ==
    ASSUME NEW n \in Nat, NEW seqs, DOMAIN seqs = 1 .. n, seqs = [i \in 1 .. n |-> seqs[i]],
           \A i \in 1 .. n : IsSeq(seqs[i]) /\ \A p \in ToSet(seqs[i]) : Legible(p)
    PROVE  \A p \in ToSet(FlattenSeq(seqs)) : Legible(p)
<1>1. PICK A : A = Within(seqs)
  OBVIOUS
<1>2. \A i \in 1 .. n : ToSet(seqs[i]) \subseteq A
  BY <1>1 DEF Within
<1>3. \A i \in 1 .. n : seqs[i] \in Seq(A)
  BY <1>2 DEF IsSeq
<1>4. seqs \in Seq(Seq(A))
  BY <1>3
<1>5. ToSet(FlattenSeq(seqs)) = A
  BY <1>1, <1>4, FlatIs
<1>6. \A p \in A : Legible(p)
  BY <1>1 DEF Within
<1>7. QED
  BY <1>5, <1>6

\* Tab list.
LEMMA TabSpeaks ==
    /\ \A u \in Users, e \in Entry : PlayerInfo(u, e) => Speaks /\ topic = "tab"
    /\ \A u \in Users : \A mode : PlayerInfoMode(u, mode) => Speaks /\ topic = "tab"
    /\ \A u \in Users : \A chat : PlayerInfoChat(u, chat) => Speaks /\ topic = "tab"
    /\ \A ping : PlayerInfoLatency(ping) => Speaks /\ topic = "tab"
<1>1. ASSUME NEW u \in Users, NEW e \in Entry, PlayerInfo(u, e) PROVE Speaks /\ topic = "tab"
  <2>1. e.chat \in BOOLEAN
    BY DEF Entry
  <2>2. PICK b, ps : Say("tab", b, ps) /\ ps = PlayerInfoAdd(u, e)
    BY <1>1 DEF PlayerInfo
  <2>3. \A p \in ToSet(ps) : Legible(p)
    BY <2>1, <2>2, PlayerInfoAddLegible
  <2>4. QED
    BY <2>2, <2>3, SaySpeaks
<1>2. ASSUME NEW u \in Users, NEW mode, PlayerInfoMode(u, mode) PROVE Speaks /\ topic = "tab"
  <2>1. PICK b, ps : Say("tab", b, ps) /\ ps = PlayerInfoUpdate(u, "mode", mode)
    BY <1>2 DEF PlayerInfoMode
  <2>2. \A p \in ToSet(ps) : Legible(p)
    BY <2>1, PlayerInfoUpdateLegible
  <2>3. QED
    BY <2>1, <2>2, SaySpeaks
<1>3. ASSUME NEW u \in Users, NEW chat, PlayerInfoChat(u, chat) PROVE Speaks /\ topic = "tab"
  <2>1. PICK b, ps : Say("tab", b, ps) /\ ps = PlayerInfoUpdate(u, "chat", chat)
    BY <1>3 DEF PlayerInfoChat
  <2>2. \A p \in ToSet(ps) : Legible(p)
    BY <2>1, PlayerInfoUpdateLegible
  <2>3. QED
    BY <2>1, <2>2, SaySpeaks
<1>4. ASSUME NEW ping, PlayerInfoLatency(ping) PROVE Speaks /\ topic = "tab"
  <2> DEFINE S == {u \in Users : board[u] # None}
  <2>1. PICK listed : listed = SetToSeq(S)
    OBVIOUS
  <2>2. listed \in Seq(S)
    <3>1. IsFiniteSet(Users)
      <4>1. IsFiniteSet({"me"})
        BY FS_Singleton
      <4>2. IsFiniteSet({"me"} \cup {"you"})
        BY <4>1, FS_AddElement
      <4>3. Users = {"me"} \cup {"you"}
        BY DEF Users
      <4>4. QED
        BY <4>2, <4>3
    <3>2. S \in SUBSET Users
      OBVIOUS
    <3>3. IsFiniteSet(S)
      BY <3>1, <3>2, FS_Subset
    <3> HIDE DEF S
    <3>4. QED
      BY <2>1, <3>3, LaidOut
  <2>3. PICK n \in Nat : n = Len(listed) /\ DOMAIN listed = 1 .. n
    BY <2>2
  <2>4. PICK seqs : seqs = [i \in 1 .. n |-> PlayerInfoUpdate(listed[i], "ping", ping)]
    OBVIOUS
  <2>5. PICK b, ps : Say("tab", b, ps) /\ ps = FlattenSeq(seqs)
    BY <1>4, <2>1, <2>3, <2>4 DEF PlayerInfoLatency
  <2>6. ASSUME NEW i \in 1 .. n PROVE IsSeq(seqs[i]) /\ \A p \in ToSet(seqs[i]) : Legible(p)
    <3>1. PICK u : u = listed[i] /\ seqs[i] = PlayerInfoUpdate(u, "ping", ping)
      BY <2>4
    <3>2. \E x : PlayerInfoUpdate(u, "ping", ping) = <<x>>
      BY PacketOf DEF PlayerInfoUpdate
    <3>3. QED
      BY <3>1, <3>2, PlayerInfoUpdateLegible, OneSeq
  <2>7. DOMAIN seqs = 1 .. n /\ seqs = [i \in 1 .. n |-> seqs[i]]
    BY <2>4
  <2>8. \A p \in ToSet(ps) : Legible(p)
    BY <2>5, <2>6, <2>7, FlatLegible
  <2>9. QED
    BY <2>5, <2>8, SaySpeaks
<1>5. QED
  BY <1>1, <1>2, <1>3, <1>4

-----------------------------------------------------------------------------
(* Teams.                                                                  *)

\* A row of n; a sequence of one more place.
Row(s, n) == s = [i \in 1 .. n |-> s[i]]

\* A row and one more is the longer row.
LEMMA OneMore ==
    ASSUME NEW s, NEW x, NEW u, NEW n \in Nat, Row(s, n), Row(u, n + 1),
           \A i \in 1 .. n : u[i] = s[i], u[n + 1] = x
    PROVE  s \o <<x>> = u
<1>1. PICK v : v = s \o <<x>>
  OBVIOUS
<1>2. PICK o : o = <<x>> /\ IsSeq(o) /\ Len(o) = 1 /\ o[1] = x
  BY OneSeq
<1>3. IsSeq(s) /\ Len(s) = n
  <2>1. s = [i \in 1 .. n |-> s[i]] /\ DOMAIN s = 1 .. n
    BY DEF Row
  <2>2. \A i \in 1 .. n : s[i] \in ToSet(s)
    BY <2>1 DEF ToSet
  <2>3. QED
    BY <2>1, <2>2 DEF IsSeq
<1>4. /\ IsSeq(v) /\ DOMAIN v = 1 .. (n + 1)
      /\ \A i \in 1 .. n : v[i] = s[i]
      /\ \A i \in 1 .. 1 : v[n + i] = o[i]
  BY <1>1, <1>2, <1>3, JoinSeq
<1>5. v[n + 1] = x
  BY <1>2, <1>4
<1>6. v = [i \in 1 .. (n + 1) |-> v[i]]
  BY <1>4 DEF IsSeq
<1>7. \A i \in 1 .. (n + 1) : i \in 1 .. n \/ i = n + 1
  OBVIOUS
<1>8. \A i \in 1 .. (n + 1) : v[i] = u[i]
  BY <1>4, <1>5, <1>7
<1>9. v = u
  BY <1>6, <1>8 DEF Row
<1>10. QED
  BY <1>1, <1>9

\* Short sequences, one after another.
LEMMA Rows ==
    /\ \A a, b : <<a>> \o <<b>> = <<a, b>>
    /\ \A a, b, c : <<a, b>> \o <<c>> = <<a, b, c>>
    /\ \A a, b, c, d : <<a, b, c>> \o <<d>> = <<a, b, c, d>>
    /\ \A a, b, c, d, e : <<a, b, c, d>> \o <<e>> = <<a, b, c, d, e>>
    /\ \A a, b, c, d, e, f : <<a, b, c, d, e>> \o <<f>> = <<a, b, c, d, e, f>>
    /\ \A a, b, c, d, e, f, g : <<a, b, c, d, e, f>> \o <<g>> = <<a, b, c, d, e, f, g>>
<1>1. ASSUME NEW a, NEW b
       PROVE  <<a>> \o <<b>> = <<a, b>>
  <2>1. PICK s, u : s = <<a>> /\ u = <<a, b>>
    OBVIOUS
  <2>2. s[1] = a
    BY <2>1
  <2>3. u[1] = a /\ u[2] = b
    BY <2>1
  <2>4. \A i \in 1 .. 1 : i = 1
    OBVIOUS
  <2>5. Row(s, 1) /\ Row(u, 2)
    BY <2>1 DEF Row
  <2>6. \A i \in 1 .. 1 : u[i] = s[i]
    BY <2>2, <2>3, <2>4
  <2>7. PICK n \in Nat : n = 1 /\ n + 1 = 2
    OBVIOUS
  <2>8. s \o <<b>> = u
    <3>1. /\ Row(s, n) /\ Row(u, n + 1) /\ u[n + 1] = b
          /\ \A i \in 1 .. n : u[i] = s[i]
      BY <2>3, <2>5, <2>6, <2>7
    <3>2. QED
      BY <3>1, OneMore
  <2>9. QED
    BY <2>1, <2>8
<1>2. ASSUME NEW a, NEW b, NEW c
       PROVE  <<a, b>> \o <<c>> = <<a, b, c>>
  <2>1. PICK s, u : s = <<a, b>> /\ u = <<a, b, c>>
    OBVIOUS
  <2>2. s[1] = a /\ s[2] = b
    BY <2>1
  <2>3. u[1] = a /\ u[2] = b /\ u[3] = c
    BY <2>1
  <2>4. \A i \in 1 .. 2 : i = 1 \/ i = 2
    OBVIOUS
  <2>5. Row(s, 2) /\ Row(u, 3)
    BY <2>1 DEF Row
  <2>6. \A i \in 1 .. 2 : u[i] = s[i]
    BY <2>2, <2>3, <2>4
  <2>7. PICK n \in Nat : n = 2 /\ n + 1 = 3
    OBVIOUS
  <2>8. s \o <<c>> = u
    <3>1. /\ Row(s, n) /\ Row(u, n + 1) /\ u[n + 1] = c
          /\ \A i \in 1 .. n : u[i] = s[i]
      BY <2>3, <2>5, <2>6, <2>7
    <3>2. QED
      BY <3>1, OneMore
  <2>9. QED
    BY <2>1, <2>8
<1>3. ASSUME NEW a, NEW b, NEW c, NEW d
       PROVE  <<a, b, c>> \o <<d>> = <<a, b, c, d>>
  <2>1. PICK s, u : s = <<a, b, c>> /\ u = <<a, b, c, d>>
    OBVIOUS
  <2>2. s[1] = a /\ s[2] = b /\ s[3] = c
    BY <2>1
  <2>3. u[1] = a /\ u[2] = b /\ u[3] = c /\ u[4] = d
    BY <2>1
  <2>4. \A i \in 1 .. 3 : i = 1 \/ i = 2 \/ i = 3
    OBVIOUS
  <2>5. Row(s, 3) /\ Row(u, 4)
    BY <2>1 DEF Row
  <2>6. \A i \in 1 .. 3 : u[i] = s[i]
    BY <2>2, <2>3, <2>4
  <2>7. PICK n \in Nat : n = 3 /\ n + 1 = 4
    OBVIOUS
  <2>8. s \o <<d>> = u
    <3>1. /\ Row(s, n) /\ Row(u, n + 1) /\ u[n + 1] = d
          /\ \A i \in 1 .. n : u[i] = s[i]
      BY <2>3, <2>5, <2>6, <2>7
    <3>2. QED
      BY <3>1, OneMore
  <2>9. QED
    BY <2>1, <2>8
<1>4. ASSUME NEW a, NEW b, NEW c, NEW d, NEW e
       PROVE  <<a, b, c, d>> \o <<e>> = <<a, b, c, d, e>>
  <2>1. PICK s, u : s = <<a, b, c, d>> /\ u = <<a, b, c, d, e>>
    OBVIOUS
  <2>2. s[1] = a /\ s[2] = b /\ s[3] = c /\ s[4] = d
    BY <2>1
  <2>3. u[1] = a /\ u[2] = b /\ u[3] = c /\ u[4] = d /\ u[5] = e
    BY <2>1
  <2>4. \A i \in 1 .. 4 : i = 1 \/ i = 2 \/ i = 3 \/ i = 4
    OBVIOUS
  <2>5. Row(s, 4) /\ Row(u, 5)
    BY <2>1 DEF Row
  <2>6. \A i \in 1 .. 4 : u[i] = s[i]
    BY <2>2, <2>3, <2>4
  <2>7. PICK n \in Nat : n = 4 /\ n + 1 = 5
    OBVIOUS
  <2>8. s \o <<e>> = u
    <3>1. /\ Row(s, n) /\ Row(u, n + 1) /\ u[n + 1] = e
          /\ \A i \in 1 .. n : u[i] = s[i]
      BY <2>3, <2>5, <2>6, <2>7
    <3>2. QED
      BY <3>1, OneMore
  <2>9. QED
    BY <2>1, <2>8
<1>5. ASSUME NEW a, NEW b, NEW c, NEW d, NEW e, NEW f
       PROVE  <<a, b, c, d, e>> \o <<f>> = <<a, b, c, d, e, f>>
  <2>1. PICK s, u : s = <<a, b, c, d, e>> /\ u = <<a, b, c, d, e, f>>
    OBVIOUS
  <2>2. s[1] = a /\ s[2] = b /\ s[3] = c /\ s[4] = d /\ s[5] = e
    BY <2>1
  <2>3. u[1] = a /\ u[2] = b /\ u[3] = c /\ u[4] = d /\ u[5] = e /\ u[6] = f
    BY <2>1
  <2>4. \A i \in 1 .. 5 : i = 1 \/ i = 2 \/ i = 3 \/ i = 4 \/ i = 5
    OBVIOUS
  <2>5. Row(s, 5) /\ Row(u, 6)
    BY <2>1 DEF Row
  <2>6. \A i \in 1 .. 5 : u[i] = s[i]
    BY <2>2, <2>3, <2>4
  <2>7. PICK n \in Nat : n = 5 /\ n + 1 = 6
    OBVIOUS
  <2>8. s \o <<f>> = u
    <3>1. /\ Row(s, n) /\ Row(u, n + 1) /\ u[n + 1] = f
          /\ \A i \in 1 .. n : u[i] = s[i]
      BY <2>3, <2>5, <2>6, <2>7
    <3>2. QED
      BY <3>1, OneMore
  <2>9. QED
    BY <2>1, <2>8
<1>6. ASSUME NEW a, NEW b, NEW c, NEW d, NEW e, NEW f, NEW g
       PROVE  <<a, b, c, d, e, f>> \o <<g>> = <<a, b, c, d, e, f, g>>
  <2>1. PICK s, u : s = <<a, b, c, d, e, f>> /\ u = <<a, b, c, d, e, f, g>>
    OBVIOUS
  <2>2. s[1] = a /\ s[2] = b /\ s[3] = c /\ s[4] = d /\ s[5] = e /\ s[6] = f
    BY <2>1
  <2>3. u[1] = a /\ u[2] = b /\ u[3] = c /\ u[4] = d /\ u[5] = e /\ u[6] = f /\ u[7] = g
    BY <2>1
  <2>4. \A i \in 1 .. 6 : i = 1 \/ i = 2 \/ i = 3 \/ i = 4 \/ i = 5 \/ i = 6
    OBVIOUS
  <2>5. Row(s, 6) /\ Row(u, 7)
    BY <2>1 DEF Row
  <2>6. \A i \in 1 .. 6 : u[i] = s[i]
    BY <2>2, <2>3, <2>4
  <2>7. PICK n \in Nat : n = 6 /\ n + 1 = 7
    OBVIOUS
  <2>8. s \o <<g>> = u
    <3>1. /\ Row(s, n) /\ Row(u, n + 1) /\ u[n + 1] = g
          /\ \A i \in 1 .. n : u[i] = s[i]
      BY <2>3, <2>5, <2>6, <2>7
    <3>2. QED
      BY <3>1, OneMore
  <2>9. QED
    BY <2>1, <2>8
<1>7. QED
  BY <1>1, <1>2, <1>3, <1>4, <1>5, <1>6

\* Fields with these labels, in this order.
Shaped(s, labels) == IsSeq(s) /\ Labels(s) = labels /\ IsSeq(labels)

\* The labels of one field,
LEMMA FieldShaped ==
    ASSUME NEW l, NEW v
    PROVE  Shaped(F(l, v), <<l>>)
BY FieldIs DEF Shaped

\* of fields joined,
LEMMA JoinShaped ==
    ASSUME NEW s, NEW r, Shaped(s, r), NEW t, NEW q, Shaped(t, q)
    PROVE  Shaped(s \o t, r \o q)
BY JoinSeq, LabelsJoin DEF Shaped

\* of one field more,
LEMMA MoreShaped ==
    ASSUME NEW s, NEW r, Shaped(s, r), NEW l, NEW v
    PROVE  Shaped(s \o F(l, v), r \o <<l>>)
BY FieldShaped, JoinShaped

\* and of fields written for some clients.
LEMMA IfShaped ==
    ASSUME NEW b \in BOOLEAN, NEW s, NEW r, b => Shaped(s, r)
    PROVE  Shaped(If(b, s), If(b, r))
<1>1. CASE b
  <2>1. If(b, s) = s /\ If(b, r) = r
    BY <1>1 DEF If
  <2>2. QED
    BY <1>1, <2>1
<1>2. CASE ~b
  <2>1. If(b, s) = << >> /\ If(b, r) = << >>
    BY <1>2 DEF If
  <2>2. Labels(<< >>) = << >>
    BY DEF Labels
  <2>3. Shaped(<< >>, << >>)
    BY <2>2, NothingSeq DEF Shaped
  <2>4. QED
    BY <2>1, <2>3
<1>3. QED
  BY <1>1, <1>2

\* A field among others that have not its label.
Without(s, l) == IsSeq(s) /\ ~Has(s, l)
With(s, l, v) == IsSeq(s) /\ Carries(s, l, v)

\* One field has its label once and no other,
LEMMA FieldWithout ==
    ASSUME NEW k, NEW v
    PROVE  With(F(k, v), k, v) /\ \A l : l # k => Without(F(k, v), l)
BY FieldIs, FieldHas DEF With, Without

\* as have fields joined,
LEMMA JoinWithout ==
    ASSUME NEW s, NEW t, NEW l, NEW v
    PROVE  /\ Without(s, l) /\ Without(t, l) => Without(s \o t, l)
           /\ With(s, l, v) /\ Without(t, l) => With(s \o t, l, v)
           /\ Without(s, l) /\ With(t, l, v) => With(s \o t, l, v)
BY JoinSeq, HasJoin DEF With, Without

\* fields written for some clients,
LEMMA IfWithout ==
    ASSUME NEW b \in BOOLEAN, NEW s, NEW l
    PROVE  /\ Without(s, l) => Without(If(b, s), l)
           /\ \A v : b /\ With(s, l, v) => With(If(b, s), l, v)
           /\ ~b => Without(If(b, s), l)
BY NothingSeq, FieldHas DEF With, Without, If

\* One more field, one more label.
LEMMA NextShaped ==
    ASSUME NEW s, NEW r, Shaped(s, r), NEW l, NEW v, NEW q, r \o <<l>> = q
    PROVE  Shaped(s \o F(l, v), q)
BY MoreShaped

\* and one field more.
LEMMA NextWithout ==
    ASSUME NEW s, NEW k, NEW v
    PROVE  /\ \A l : l # k /\ Without(s, l) => Without(s \o F(k, v), l)
           /\ \A l, w : l # k /\ With(s, l, w) => With(s \o F(k, v), l, w)
           /\ Without(s, k) => With(s \o F(k, v), k, v)
BY FieldWithout, JoinWithout

\* A team's parameters are in the client's order, and say if they have a colour.
LEMMA TeamParamsForm ==
    ASSUME NEW t, NEW b \in BOOLEAN, b = (t.color \in 0 .. 15)
    PROVE  /\ version >= 776 =>
                 /\ With(TeamParams(t), "coloured", b)
                 /\ Shaped(TeamParams(t),
                           (<<"title", "prefix", "suffix", "visibility", "collision", "coloured">>
                              \o If(b, <<"color">>)) \o <<"options">>)
           /\ ~(version >= 776) =>
                 Shaped(TeamParams(t), <<"title", "options", "visibility", "collision", "color",
                                         "prefix", "suffix">>)
<1>1. PICK options : options = Bit(1, t.ff) + Bit(2, t.see)
  OBVIOUS
<1>2. ASSUME version >= 776
      PROVE  /\ With(TeamParams(t), "coloured", b)
             /\ Shaped(TeamParams(t),
                       (<<"title", "prefix", "suffix", "visibility", "collision", "coloured">>
                          \o If(b, <<"color">>)) \o <<"options">>)
  <2>1. PICK s1 : s1 = F("title", "T")
    OBVIOUS
  <2>2. Shaped(s1, <<"title">>) /\ Without(s1, "coloured")
    BY <2>1, FieldShaped, FieldWithout
  <2>3. PICK s2 : s2 = s1 \o F("prefix", t.prefix)
    OBVIOUS
  <2>4. <<"title">> \o <<"prefix">> = <<"title", "prefix">>
    BY Rows
  <2>5. Shaped(s2, <<"title", "prefix">>)
    BY <2>3, <2>4, <2>2, NextShaped
  <2>6. Without(s2, "coloured")
    BY <2>3, <2>2, NextWithout
  <2>7. PICK s3 : s3 = s2 \o F("suffix", "")
    OBVIOUS
  <2>8. <<"title", "prefix">> \o <<"suffix">> = <<"title", "prefix", "suffix">>
    BY Rows
  <2>9. Shaped(s3, <<"title", "prefix", "suffix">>)
    BY <2>7, <2>8, <2>5, NextShaped
  <2>10. Without(s3, "coloured")
    BY <2>7, <2>6, NextWithout
  <2>11. PICK s4 : s4 = s3 \o F("visibility", t.visibility)
    OBVIOUS
  <2>12. <<"title", "prefix", "suffix">> \o <<"visibility">>
         = <<"title", "prefix", "suffix", "visibility">>
    BY Rows
  <2>13. Shaped(s4, <<"title", "prefix", "suffix", "visibility">>)
    BY <2>11, <2>12, <2>9, NextShaped
  <2>14. Without(s4, "coloured")
    BY <2>11, <2>10, NextWithout
  <2>15. PICK s5 : s5 = s4 \o F("collision", 0)
    OBVIOUS
  <2>16. <<"title", "prefix", "suffix", "visibility">> \o <<"collision">>
         = <<"title", "prefix", "suffix", "visibility", "collision">>
    BY Rows
  <2>17. Shaped(s5, <<"title", "prefix", "suffix", "visibility", "collision">>)
    BY <2>15, <2>16, <2>13, NextShaped
  <2>18. Without(s5, "coloured")
    BY <2>15, <2>14, NextWithout
  <2>19. PICK s6 : s6 = s5 \o F("coloured", b)
    OBVIOUS
  <2>20. <<"title", "prefix", "suffix", "visibility", "collision">> \o <<"coloured">>
         = <<"title", "prefix", "suffix", "visibility", "collision", "coloured">>
    BY Rows
  <2>21. Shaped(s6, <<"title", "prefix", "suffix", "visibility", "collision", "coloured">>)
    BY <2>19, <2>20, <2>17, NextShaped
  <2>22. With(s6, "coloured", b)
    BY <2>19, <2>18, NextWithout
  <2>23. PICK s7, s8 : /\ s7 = s6 \o If(b, F("color", t.color))
                     /\ s8 = s7 \o F("options", options)
    OBVIOUS
  <2>24. Shaped(s7, <<"title", "prefix", "suffix", "visibility", "collision", "coloured">>
                      \o If(b, <<"color">>))
    BY <2>23, <2>21, FieldShaped, IfShaped, JoinShaped
  <2>25. Shaped(s8, (<<"title", "prefix", "suffix", "visibility", "collision", "coloured">>
                       \o If(b, <<"color">>)) \o <<"options">>)
    <3>1. PICK r : r = <<"title", "prefix", "suffix", "visibility", "collision", "coloured">>
                        \o If(b, <<"color">>)
      OBVIOUS
    <3>2. Shaped(s7, r) /\ s8 = s7 \o F("options", options)
      BY <2>23, <2>24, <3>1
    <3>3. Shaped(s8, r \o <<"options">>)
      BY <3>2, MoreShaped
    <3>4. QED
      BY <3>1, <3>3
  <2>26. Without(If(b, F("color", t.color)), "coloured")
    <3>1. PICK v : v = t.color
      OBVIOUS
    <3>2. "coloured" # "color"
      OBVIOUS
    <3>3. Without(F("color", v), "coloured")
      BY <3>2, FieldWithout
    <3>4. PICK u : u = F("color", v) /\ Without(u, "coloured")
      BY <3>3
    <3>5. Without(If(b, u), "coloured")
      BY <3>4, IfWithout
    <3>6. QED
      BY <3>1, <3>4, <3>5
  <2>27. With(s7, "coloured", b)
    BY <2>23, <2>22, <2>26, JoinWithout
  <2>28. With(s8, "coloured", b)
    BY <2>23, <2>27, NextWithout
  <2>29. s8 = TeamParams(t)
    BY <2>1, <2>3, <2>7, <2>11, <2>15, <2>19, <2>23, <1>1, <1>2 DEF TeamParams, teamParamsNewForm
  <2>30. QED
    BY <2>25, <2>28, <2>29
<1>3. ASSUME ~(version >= 776)
      PROVE  Shaped(TeamParams(t), <<"title", "options", "visibility", "collision", "color",
                                     "prefix", "suffix">>)
  <2>1. PICK s1 : s1 = F("title", "T")
    OBVIOUS
  <2>2. Shaped(s1, <<"title">>)
    BY <2>1, FieldShaped
  <2>3. PICK s2 : s2 = s1 \o F("options", options)
    OBVIOUS
  <2>4. <<"title">> \o <<"options">> = <<"title", "options">>
    BY Rows
  <2>5. Shaped(s2, <<"title", "options">>)
    BY <2>3, <2>4, <2>2, NextShaped
  <2>6. PICK s3 : s3 = s2 \o F("visibility", t.visibility)
    OBVIOUS
  <2>7. <<"title", "options">> \o <<"visibility">> = <<"title", "options", "visibility">>
    BY Rows
  <2>8. Shaped(s3, <<"title", "options", "visibility">>)
    BY <2>6, <2>7, <2>5, NextShaped
  <2>9. PICK s4 : s4 = s3 \o F("collision", 0)
    OBVIOUS
  <2>10. <<"title", "options", "visibility">> \o <<"collision">>
         = <<"title", "options", "visibility", "collision">>
    BY Rows
  <2>11. Shaped(s4, <<"title", "options", "visibility", "collision">>)
    BY <2>9, <2>10, <2>8, NextShaped
  <2>12. PICK s5 : s5 = s4 \o F("color", IF t.color \in 0 .. 15 THEN t.color ELSE NoColour)
    OBVIOUS
  <2>13. <<"title", "options", "visibility", "collision">> \o <<"color">>
         = <<"title", "options", "visibility", "collision", "color">>
    BY Rows
  <2>14. Shaped(s5, <<"title", "options", "visibility", "collision", "color">>)
    BY <2>12, <2>13, <2>11, NextShaped
  <2>15. PICK s6 : s6 = s5 \o F("prefix", t.prefix)
    OBVIOUS
  <2>16. <<"title", "options", "visibility", "collision", "color">> \o <<"prefix">>
         = <<"title", "options", "visibility", "collision", "color", "prefix">>
    BY Rows
  <2>17. Shaped(s6, <<"title", "options", "visibility", "collision", "color", "prefix">>)
    BY <2>15, <2>16, <2>14, NextShaped
  <2>18. PICK s7 : s7 = s6 \o F("suffix", "")
    OBVIOUS
  <2>19. <<"title", "options", "visibility", "collision", "color", "prefix">> \o <<"suffix">>
         = <<"title", "options", "visibility", "collision", "color", "prefix", "suffix">>
    BY Rows
  <2>20. Shaped(s7, <<"title", "options", "visibility", "collision", "color", "prefix", "suffix">>)
    BY <2>18, <2>19, <2>17, NextShaped
  <2>21. s7 = TeamParams(t)
    BY <2>1, <2>3, <2>6, <2>9, <2>12, <2>15, <2>18, <1>1, <1>3 DEF TeamParams, teamParamsNewForm
  <2>22. QED
    BY <2>20, <2>21
<1>4. QED
  BY <1>2, <1>3

\* A team's packet has the form of its client's release.
LEMMA TeamLegible ==
    ASSUME NEW method, NEW t, NEW players
    PROVE  \A p \in ToSet(TeamPacket(method, t, players)) : Legible(p)
<1>1. PICK b \in BOOLEAN : b = (t.color \in 0 .. 15)
  BY (t.color \in 0 .. 15) \in BOOLEAN
<1>2. PICK m1 \in BOOLEAN, m2 \in BOOLEAN :
         m1 = (method \in {"add", "update"}) /\ m2 = (method \in {"add", "join", "leave"})
  BY (method \in {"add", "update"}) \in BOOLEAN, (method \in {"add", "join", "leave"}) \in BOOLEAN
<1>3. PICK u, w, f : /\ u = If(m1, TeamParams(t)) /\ w = If(m2, F("players", players))
                     /\ f = u \o w
  OBVIOUS
<1>4. PICK p : /\ p.name = "team" /\ p.op = method /\ p.fields = f
               /\ ToSet(TeamPacket(method, t, players)) = {p}
  <2>1. TeamPacket(method, t, players) = Packet("team", method, f)
    BY <1>2, <1>3 DEF TeamPacket
  <2>2. QED
    BY <2>1, PacketOf
<1>5. Shaped(w, If(m2, <<"players">>)) /\ Without(w, "coloured")
  BY <1>3, FieldShaped, IfShaped, FieldWithout, IfWithout
<1>6. CASE version >= 776
  <2>1. PICK form : form = (<<"title", "prefix", "suffix", "visibility", "collision", "coloured">>
                              \o If(b, <<"color">>)) \o <<"options">>
    OBVIOUS
  <2>2. With(TeamParams(t), "coloured", b) /\ Shaped(TeamParams(t), form)
    BY <1>1, <1>6, <2>1, TeamParamsForm
  <2>3. Shaped(f, If(m1, form) \o If(m2, <<"players">>))
    BY <1>3, <1>5, <2>2, IfShaped, JoinShaped
  <2>4. m1 => Of(p.fields, "coloured") = b
    <3>1. m1 => With(u, "coloured", b)
      BY <1>3, <2>2, IfWithout
    <3>2. m1 => With(f, "coloured", b)
      BY <1>3, <1>5, <3>1, JoinWithout
    <3>3. QED
      BY <1>4, <3>2, CarriesOf DEF With
  <2>5. TeamForm(p) = If(m1, form) \o If(m2, <<"players">>)
    <3>1. TeamForm(p) = If(m1,
                    (<<"title", "prefix", "suffix", "visibility", "collision", "coloured">>
                              \o If(Of(p.fields, "coloured"), <<"color">>)) \o <<"options">>)
                          \o If(m2, <<"players">>)
      BY <1>2, <1>4, <1>6 DEF TeamForm
    <3>2. CASE m1
      BY <2>1, <2>4, <3>1, <3>2
    <3>3. CASE ~m1
      BY <3>1, <3>3 DEF If
    <3>4. QED
      BY <3>2, <3>3
  <2>6. Labels(p.fields) = TeamForm(p)
    BY <1>4, <2>3, <2>5 DEF Shaped
  <2>7. QED
    BY <1>4, <2>6 DEF Legible, Reads, Knows, HasAir
<1>7. CASE ~(version >= 776)
  <2>1. PICK form : form = <<"title", "options", "visibility", "collision", "color", "prefix",
                             "suffix">>
    OBVIOUS
  <2>2. Shaped(TeamParams(t), form)
    BY <1>1, <1>7, <2>1, TeamParamsForm
  <2>3. Shaped(f, If(m1, form) \o If(m2, <<"players">>))
    BY <1>3, <1>5, <2>2, IfShaped, JoinShaped
  <2>4. TeamForm(p) = If(m1, form) \o If(m2, <<"players">>)
    BY <1>2, <1>4, <1>7, <2>1 DEF TeamForm
  <2>5. Labels(p.fields) = TeamForm(p)
    BY <1>4, <2>3, <2>4 DEF Shaped
  <2>6. QED
    BY <1>4, <2>5 DEF Legible, Reads, Knows, HasAir
<1>8. QED
  BY <1>6, <1>7

\* So do the frames of the team screen.
LEMMA TeamSpeaks ==
    /\ \A t, us : TeamAdd(t, us) => Speaks /\ topic = "team"
    /\ \A t : TeamUpdate(t) => Speaks /\ topic = "team"
    /\ TeamRemove => Speaks /\ topic = "team"
    /\ \A method, us : TeamPlayers(method, us) => Speaks /\ topic = "team"
<1>1. ASSUME NEW b, NEW method, NEW t, NEW us, Say("team", b, TeamPacket(method, t, us))
      PROVE  Speaks /\ topic = "team"
  BY <1>1, TeamLegible, SaySpeaks
<1>2. QED
  BY <1>1 DEF TeamAdd, TeamUpdate, TeamRemove, TeamPlayers

-----------------------------------------------------------------------------
(* Maps, waypoints, the spawn.                                             *)

\* A map's markers have numbers its client knows.
LEMMA MapLegible ==
    ASSUME NEW op, NEW f, NEW d, With(f, "decor", d),
           d = None \/ ToSet(d) \subseteq (0 .. IF version >= 777 THEN 39 ELSE 34)
    PROVE  \A p \in ToSet(Packet("map", op, f)) : Legible(p)
<1>1. PICK p : p.name = "map" /\ p.fields = f /\ ToSet(Packet("map", op, f)) = {p}
  BY PacketOf
<1>2. Of(p.fields, "decor") = d
  BY <1>1, CarriesOf DEF With
<1>3. Knows(p)
  BY <1>1, <1>2 DEF Knows
<1>4. Reads(p) /\ ~HasAir(p)
  BY <1>1 DEF Reads, HasAir
<1>5. QED
  BY <1>1, <1>3, <1>4 DEF Legible

\* So do the frames of the map screen.
LEMMA MapSpeaks ==
    /\ \A ink : MapColors(ink) => Speaks /\ topic = "map"
    /\ \A d \in Markers : MapMarkers(d) => Speaks /\ topic = "map"
<1>1. ASSUME NEW ink, MapColors(ink) PROVE Speaks /\ topic = "map"
  <2>1. PICK b, w, h, x, y, colors :
           Say("map", b, Packet("map", "patch",
                   F("decor", None) \o F("width", w) \o F("height", h) \o F("x", x) \o F("y", y)
                       \o F("colors", colors)))
    BY <1>1 DEF MapColors
  <2>2. PICK f1 : f1 = F("decor", None)
    OBVIOUS
  <2>3. PICK f2 : f2 = f1 \o F("width", w)
    OBVIOUS
  <2>4. PICK f3 : f3 = f2 \o F("height", h)
    OBVIOUS
  <2>5. PICK f4 : f4 = f3 \o F("x", x)
    OBVIOUS
  <2>6. PICK f5 : f5 = f4 \o F("y", y)
    OBVIOUS
  <2>7. PICK f6 : f6 = f5 \o F("colors", colors)
    OBVIOUS
  <2>8. With(f1, "decor", None)
    BY <2>2, FieldWithout
  <2>9. With(f2, "decor", None)
    BY <2>3, <2>8, NextWithout
  <2>10. With(f3, "decor", None)
    BY <2>4, <2>9, NextWithout
  <2>11. With(f4, "decor", None)
    BY <2>5, <2>10, NextWithout
  <2>12. With(f5, "decor", None)
    BY <2>6, <2>11, NextWithout
  <2>13. With(f6, "decor", None)
    BY <2>7, <2>12, NextWithout
  <2>14. PICK ps : ps = Packet("map", "patch", f6)
    OBVIOUS
  <2>15. Say("map", b, ps)
    BY <2>1, <2>2, <2>3, <2>4, <2>5, <2>6, <2>7, <2>14
  <2>16. \A p \in ToSet(ps) : Legible(p)
    BY <2>13, <2>14, MapLegible
  <2>17. QED
    BY <2>15, <2>16, SaySpeaks
<1>2. ASSUME NEW m \in Markers, MapMarkers(m) PROVE Speaks /\ topic = "map"
  <2>1. PICK d : d = [i \in DOMAIN m |-> MapDecorationFor(m[i])]
    OBVIOUS
  <2>2. PICK f : f = F("decor", d) \o F("width", 0)
    OBVIOUS
  <2>3. With(f, "decor", d)
    <3>1. PICK f1 : f1 = F("decor", d) /\ With(f1, "decor", d)
      BY FieldWithout
    <3>2. QED
      BY <2>2, <3>1, NextWithout
  <2>4. \A i \in DOMAIN m : m[i] \in {0, 36, 37}
    <3>1. CASE m = << >>
      BY <3>1
    <3>2. CASE m = <<0>>
      BY <3>2
    <3>3. CASE m = <<36>>
      BY <3>3
    <3>4. CASE m = <<37, 0>>
      BY <3>4
    <3>5. QED
      BY <3>1, <3>2, <3>3, <3>4 DEF Markers
  <2>5. \A i \in DOMAIN m : MapDecorationFor(m[i]) \in (0 .. IF version >= 777 THEN 39 ELSE 34)
    BY <2>4 DEF MapDecorationFor
  <2>6. ToSet(d) \subseteq (0 .. IF version >= 777 THEN 39 ELSE 34)
    BY <2>1, <2>5 DEF ToSet
  <2>7. PICK b, ps : Say("map", b, ps) /\ ps = Packet("map", "markers", f)
    BY <1>2, <2>1, <2>2 DEF MapMarkers
  <2>8. \A p \in ToSet(ps) : Legible(p)
    BY <2>3, <2>6, <2>7, MapLegible
  <2>9. QED
    BY <2>7, <2>8, SaySpeaks
<1>3. QED
  BY <1>1, <1>2

\* A waypoint's packet has the form of its client's release, or is not sent.
LEMMA WaypointSpeaks ==
    ASSUME NEW op, NEW w, Waypoint(op, w)
    PROVE  Speaks /\ topic = "waypoint"
<1>1. PICK b : Say("waypoint", b, If(version >= 776, WaypointBody(op, w)))
  BY DEF Waypoint
<1>2. CASE version >= 776
  <2>1. PICK o : o = [id |-> IDWaypointFor, what |-> op]
    OBVIOUS
  <2>2. PICK f : WaypointBody(op, w) = Packet("waypoint", o, f)
    BY <2>1 DEF WaypointBody
  <2>3. PICK ps : ps = Packet("waypoint", o, f) /\ Say("waypoint", b, ps)
    BY <1>1, <1>2, <2>2 DEF If
  <2>4. PICK p : p.name = "waypoint" /\ p.op = o /\ ToSet(ps) = {p}
    BY <2>3, PacketOf
  <2>5. Reads(p)
    BY <2>1, <2>4 DEF Reads, IDWaypointFor
  <2>6. Knows(p) /\ ~HasAir(p)
    BY <2>4 DEF Knows, HasAir
  <2>7. QED
    BY <2>3, <2>4, <2>5, <2>6, SaySpeaks DEF Legible
<1>3. CASE ~(version >= 776)
  <2>1. Say("waypoint", b, << >>)
    BY <1>1, <1>3 DEF If
  <2>2. QED
    BY <2>1, SayNothing
<1>4. QED
  BY <1>2, <1>3

\* The fields of the default spawn, as each release has them.
LEMMA SpawnLabels ==
    ASSUME NEW n \in BOOLEAN, n <=> version >= 773,
           NEW dim, NEW at, NEW angle, NEW pitch
    PROVE  Labels(If(n, F("dim", dim)) \o F("at", at) \o F("angle", angle)
                    \o If(n, F("pitch", pitch))) = SpawnForm
<1>1. PICK f1 : f1 = If(n, F("dim", dim))
  OBVIOUS
<1>2. PICK f2 : f2 = f1 \o F("at", at)
  OBVIOUS
<1>3. PICK f3 : f3 = f2 \o F("angle", angle)
  OBVIOUS
<1>4. PICK f4 : f4 = If(n, F("pitch", pitch))
  OBVIOUS
<1>5. CASE n
  <2>1. f1 = F("dim", dim) /\ f4 = F("pitch", pitch)
    BY <1>1, <1>4, <1>5 DEF If
  <2>2. /\ <<"dim">> \o <<"at">> = <<"dim", "at">>
        /\ <<"dim", "at">> \o <<"angle">> = <<"dim", "at", "angle">>
        /\ <<"dim", "at", "angle">> \o <<"pitch">> = <<"dim", "at", "angle", "pitch">>
    BY Rows
  <2>3. Shaped(f1, <<"dim">>)
    BY <2>1, FieldShaped
  <2>4. Shaped(f2, <<"dim", "at">>)
    BY <1>2, <2>2, <2>3, NextShaped
  <2>5. Shaped(f3, <<"dim", "at", "angle">>)
    BY <1>3, <2>2, <2>4, NextShaped
  <2>6. Shaped(f3 \o f4, <<"dim", "at", "angle", "pitch">>)
    BY <2>1, <2>2, <2>5, NextShaped
  <2>7. QED
    BY <1>1, <1>2, <1>3, <1>4, <1>5, <2>6 DEF Shaped, SpawnForm
<1>6. CASE ~n
  <2>1. f1 = << >> /\ f4 = << >>
    BY <1>1, <1>4, <1>6 DEF If
  <2>2. <<"at">> \o <<"angle">> = <<"at", "angle">>
    BY Rows
  <2>3. Shaped(F("at", at), <<"at">>)
    BY FieldShaped
  <2>4. f2 = F("at", at)
    BY <1>2, <2>1, <2>3, JoinNothing DEF Shaped
  <2>5. Shaped(f3, <<"at", "angle">>)
    BY <1>3, <2>2, <2>3, <2>4, NextShaped
  <2>6. f3 \o f4 = f3
    BY <2>1, <2>5, JoinNothing DEF Shaped
  <2>7. Labels(f3 \o f4) = <<"at", "angle">>
    BY <2>5, <2>6 DEF Shaped
  <2>8. SpawnForm = <<"at", "angle">>
    BY <1>6 DEF SpawnForm
  <2>9. QED
    BY <1>1, <1>2, <1>3, <1>4, <2>7, <2>8
<1>7. QED
  BY <1>5, <1>6

\* So the spawn frame is legible.
LEMMA SpawnSpeaks ==
    ASSUME NEW e, NEW named, DefaultSpawn(e, named)
    PROVE  Speaks /\ topic = "spawn"
<1>1. PICK r : Say("spawn", e, DefaultSpawnData(r))
  BY DEF DefaultSpawn
<1>2. PICK n \in BOOLEAN : n = (version >= 773)
  BY (version >= 773) \in BOOLEAN
<1>3. PICK dim, at, angle, pitch :
         /\ dim = (IF r.dim = "" THEN "overworld" ELSE r.dim)
         /\ at = r.at /\ angle = r.angle /\ pitch = r.pitch
  OBVIOUS
<1>4. PICK f : f = If(n, F("dim", dim)) \o F("at", at) \o F("angle", angle)
                     \o If(n, F("pitch", pitch))
  OBVIOUS
<1>5. PICK ps : ps = Packet("spawn", "set", f) /\ Say("spawn", e, ps)
  <2>1. CASE n
    BY <1>1, <1>2, <1>3, <1>4, <2>1 DEF DefaultSpawnData, defaultSpawnGlobalPos, If
  <2>2. CASE ~n
    BY <1>1, <1>2, <1>3, <1>4, <2>2 DEF DefaultSpawnData, defaultSpawnGlobalPos, If
  <2>3. QED
    BY <2>1, <2>2
<1>6. PICK p : p.name = "spawn" /\ p.fields = f /\ ToSet(ps) = {p}
  BY <1>5, PacketOf
<1>7. Labels(f) = SpawnForm
  <2>1. n <=> version >= 773
    BY <1>2
  <2>2. Labels(If(n, F("dim", dim)) \o F("at", at) \o F("angle", angle)
                \o If(n, F("pitch", pitch))) = SpawnForm
    BY <2>1, SpawnLabels, Zenon
  <2>3. QED
    BY <1>4, <2>2
<1>8. Reads(p)
  BY <1>6, <1>7 DEF Reads
<1>9. Knows(p) /\ ~HasAir(p)
  BY <1>6 DEF Knows, HasAir
<1>10. QED
  BY <1>5, <1>6, <1>8, <1>9, SaySpeaks DEF Legible

-----------------------------------------------------------------------------
(* Recipes.                                                                *)

\* A slot display is laid out as the client's table has it.
LaidFor(d) == Labels(d.fields) = SlotForm(d.type)

\* A slot of a recipe is laid out for its client, empty or not.
LEMMA SlotLaid ==
    ASSUME NEW i, NEW count, version \in Nat
    PROVE  LaidFor(SlotDisplay(i, count))
<1>1. PICK d : d = SlotDisplay(i, count)
  OBVIOUS
<1>2. CASE i = "air"
  <2>1. d.type = 0 /\ d.fields = << >>
    BY <1>1, <1>2 DEF SlotDisplay
  <2>2. Labels(<< >>) = << >>
    BY DEF Labels
  <2>3. SlotForm(0) = << >>
    BY DEF SlotForm
  <2>4. QED
    BY <1>1, <2>1, <2>2, <2>3 DEF LaidFor
<1>3. CASE i # "air" /\ count = 1
  <2>1. PICK f : f = F("item", i) /\ Labels(f) = <<"item">>
    BY FieldIs
  <2>2. d.fields = f /\ d.type = IF version >= 775 THEN 4 ELSE 2
    BY <1>1, <1>3, <2>1 DEF SlotDisplay
  <2>3. CASE version >= 775
    <3>1. SlotForm(4) = <<"item">>
      BY <2>3 DEF SlotForm
    <3>2. QED
      BY <1>1, <2>1, <2>2, <2>3, <3>1 DEF LaidFor
  <2>4. CASE ~(version >= 775)
    <3>1. SlotForm(2) = <<"item">>
      BY <2>4 DEF SlotForm
    <3>2. QED
      BY <1>1, <2>1, <2>2, <2>4, <3>1 DEF LaidFor
  <2>5. QED
    BY <2>3, <2>4
<1>4. CASE i # "air" /\ count # 1
  <2>1. PICK a, b : a = F("item", i) /\ b = F("count", count)
    OBVIOUS
  <2>2. CASE version >= 775
    <3>1. d.fields = a \o b /\ d.type = 5
      BY <1>1, <1>4, <2>1, <2>2 DEF SlotDisplay
    <3>2. <<"item">> \o <<"count">> = <<"item", "count">>
      BY Rows
    <3>3. Shaped(a, <<"item">>)
      BY <2>1, FieldShaped
    <3>4. Shaped(a \o b, <<"item", "count">>)
      BY <2>1, <3>2, <3>3, NextShaped
    <3>5. SlotForm(5) = <<"item", "count">>
      BY <2>2 DEF SlotForm
    <3>6. QED
      BY <1>1, <3>1, <3>4, <3>5 DEF LaidFor, Shaped
  <2>3. CASE ~(version >= 775)
    <3>1. d.fields = b \o a /\ d.type = 3
      BY <1>1, <1>4, <2>1, <2>3 DEF SlotDisplay
    <3>2. <<"count">> \o <<"item">> = <<"count", "item">>
      BY Rows
    <3>3. Shaped(b, <<"count">>)
      BY <2>1, FieldShaped
    <3>4. Shaped(b \o a, <<"count", "item">>)
      BY <2>1, <3>2, <3>3, NextShaped
    <3>5. SlotForm(3) = <<"count", "item">>
      BY <2>3 DEF SlotForm
    <3>6. QED
      BY <1>1, <3>1, <3>4, <3>5 DEF LaidFor, Shaped
  <2>4. QED
    BY <2>2, <2>3
<1>5. QED
  BY <1>2, <1>3, <1>4

\* So are all of a recipe's.
AllLaid(s) == IsSeq(s) /\ \A i \in DOMAIN s : LaidFor(s[i])

\* So are slots joined,
LEMMA JoinLaid ==
    ASSUME NEW a, NEW b, AllLaid(a), AllLaid(b)
    PROVE  AllLaid(a \o b)
<1>1. IsSeq(a) /\ IsSeq(b)
  BY DEF AllLaid
<1>2. PICK n, k, c : n \in Nat /\ k \in Nat /\ n = Len(a) /\ k = Len(b) /\ c = a \o b
  BY <1>1, JoinSeq
<1>3. /\ IsSeq(c) /\ DOMAIN c = 1 .. (n + k) /\ DOMAIN a = 1 .. n /\ DOMAIN b = 1 .. k
      /\ \A i \in 1 .. n : c[i] = a[i]
      /\ \A i \in 1 .. k : c[n + i] = b[i]
      /\ \A i \in 1 .. (n + k) : i \in 1 .. n \/ \E j \in 1 .. k : i = n + j
  BY <1>1, <1>2, JoinSeq
<1>4. \A i \in 1 .. (n + k) : LaidFor(c[i])
  BY <1>3 DEF AllLaid
<1>5. QED
  BY <1>2, <1>3, <1>4 DEF AllLaid

\* and one alone.
LEMMA OneLaid ==
    ASSUME NEW d, LaidFor(d)
    PROVE  AllLaid(<<d>>)
<1>1. PICK s : s = <<d>> /\ IsSeq(s) /\ DOMAIN s = 1 .. 1 /\ s[1] = d
  BY OneSeq
<1>2. \A i \in 1 .. 1 : i = 1
  OBVIOUS
<1>3. QED
  BY <1>1, <1>2 DEF AllLaid

\* A recipe's cells are a sequence.
LEMMA CellsAre ==
    ASSUME NEW r \in Recipes
    PROVE  IsSeq(RecipeOf[r].cells)
<1>1. PICK c : c = RecipeOf[r].cells
  OBVIOUS
<1>2. c \in Seq({"planks", "air", "poplar", "sand"})
  <2>1. CASE r = "slab"
    <3>1. c = <<"planks", "air", "planks">>
      BY <1>1, <2>1 DEF RecipeOf
    <3>2. QED
      BY <3>1
  <2>2. CASE r = "shelf"
    <3>1. c = <<"poplar", "planks">>
      BY <1>1, <2>2 DEF RecipeOf
    <3>2. QED
      BY <3>1
  <2>3. CASE r = "glass"
    <3>1. c = <<"sand">>
      BY <1>1, <2>3 DEF RecipeOf
    <3>2. QED
      BY <3>1
  <2>4. QED
    BY <2>1, <2>2, <2>3 DEF Recipes
<1>3. DOMAIN c = 1 .. Len(c) /\ Len(c) \in Nat /\ c = [i \in 1 .. Len(c) |-> c[i]]
  BY <1>2
<1>4. \A i \in 1 .. Len(c) : c[i] \in ToSet(c)
  BY <1>3 DEF ToSet
<1>5. QED
  BY <1>1, <1>3, <1>4 DEF IsSeq

\* A recipe's display is laid out for its client and asks for no air.
LEMMA DisplayLaid ==
    ASSUME NEW r \in Recipes, version \in Nat
    PROVE  SlotsRead(RecipeDisplay(r))
<1>1. PICK c : c = RecipeOf[r].cells /\ IsSeq(c)
  BY CellsAre
<1>2. PICK n \in Nat : n = Len(c) /\ DOMAIN c = 1 .. n
  BY <1>1 DEF IsSeq
<1>3. PICK a : a = [i \in 1 .. n |-> SlotDisplay(rid(c[i]), 1)]
  OBVIOUS
<1>4. PICK b : b = IF IsCooking(r) THEN << [type |-> slotDisplayAnyFuel, fields |-> << >>] >>
                   ELSE << >>
  OBVIOUS
<1>5. PICK d, e : /\ d = SlotDisplay(rid(RecipeOf[r].result), RecipeOf[r].count)
                  /\ e = SlotDisplay(rid(RecipeOf[r].station), 1)
  OBVIOUS
<1>6. RecipeDisplay(r) = (a \o b) \o <<d, e>>
  BY <1>1, <1>2, <1>3, <1>4, <1>5 DEF RecipeDisplay
<1>7. AllLaid(a)
  <2>1. DOMAIN a = 1 .. n /\ \A i \in 1 .. n : LaidFor(a[i]) /\ a[i] \in ToSet(a)
    BY <1>3, SlotLaid DEF ToSet
  <2>2. a \in Seq(ToSet(a))
    BY <1>3, <2>1
  <2>3. QED
    BY <2>1, <2>2 DEF AllLaid, IsSeq
<1>8. AllLaid(<< >>)
  BY NothingSeq DEF AllLaid
<1>9. AllLaid(b)
  <2>1. CASE IsCooking(r)
    <3>1. PICK x : x = [type |-> 1, fields |-> << >>]
      OBVIOUS
    <3>2. Labels(<< >>) = << >> /\ SlotForm(1) = << >>
      BY DEF Labels, SlotForm
    <3>3. LaidFor(x)
      BY <3>1, <3>2 DEF LaidFor
    <3>4. b = <<x>>
      BY <1>4, <2>1, <3>1 DEF slotDisplayAnyFuel
    <3>5. QED
      BY <3>3, <3>4, OneLaid
  <2>2. CASE ~IsCooking(r)
    BY <1>4, <1>8, <2>2
  <2>3. QED
    BY <2>1, <2>2
<1>10. AllLaid(<<d, e>>)
  <2>1. LaidFor(d) /\ LaidFor(e)
    BY <1>5, SlotLaid
  <2>2. <<d>> \o <<e>> = <<d, e>>
    BY Rows
  <2>3. AllLaid(<<d>>) /\ AllLaid(<<e>>)
    BY <2>1, OneLaid
  <2>4. QED
    BY <2>2, <2>3, JoinLaid
<1>11. AllLaid((a \o b) \o <<d, e>>)
  BY <1>7, <1>9, <1>10, JoinLaid
<1>12. QED
  BY <1>6, <1>11 DEF AllLaid, LaidFor, SlotsRead

\* A recipe that fits asks for no air.
LEMMA NeedsNoAir ==
    ASSUME NEW r \in Recipes, FitsClient(r), NEW mark
    PROVE  "air" \notin ToSet(BookEntry(r, mark).needs)
<1>1. PICK c : c = RecipeOf[r].cells /\ IsSeq(c)
  BY CellsAre
<1>2. PICK k : k = Kept(c, ToSet(c) \ {"air"})
  OBVIOUS
<1>3. ToSet(k) = ToSet(c) \cap (ToSet(c) \ {"air"})
  <2>1. PICK A, S : A = ToSet(c) /\ S = ToSet(c) \ {"air"} /\ c \in Seq(A)
    BY <1>1 DEF IsSeq
  <2>2. ToSet(Kept(c, S)) = ToSet(c) \cap S
    BY <2>1, KeptIs
  <2>3. QED
    BY <1>2, <2>1, <2>2
<1>4. BookEntry(r, mark).needs = [i \in DOMAIN k |-> rid(k[i])]
  BY <1>1, <1>2 DEF BookEntry, ingredientInstances
<1>5. \A i \in DOMAIN k : k[i] \in ToSet(c) /\ k[i] # "air"
  BY <1>3 DEF ToSet
<1>6. \A x \in ToSet(c) : x = "air" \/ IDPresent(x)
  BY <1>1 DEF FitsClient, Named
<1>7. \A i \in DOMAIN k : rid(k[i]) # "air"
  BY <1>5, <1>6 DEF rid
<1>8. QED
  BY <1>4, <1>7 DEF ToSet

\* So is the packet of every mark of the book its client has items for.
LEMMA BookLegible ==
    ASSUME NEW marks, DOMAIN marks \in SUBSET Recipes, NEW replace, version \in Nat
    PROVE  \A p \in ToSet(RecipeBookPacket(marks, replace)) : Legible(p)
<1> DEFINE S == {r \in DOMAIN marks : FitsClient(r)}
<1>1. IsFiniteSet(S)
  <2>1. IsFiniteSet({"slab"})
    BY FS_Singleton
  <2>2. IsFiniteSet({"slab"} \cup {"shelf"})
    BY <2>1, FS_AddElement
  <2>3. IsFiniteSet(({"slab"} \cup {"shelf"}) \cup {"glass"})
    BY <2>2, FS_AddElement
  <2>4. Recipes = ({"slab"} \cup {"shelf"}) \cup {"glass"}
    BY DEF Recipes
  <2>5. S \in SUBSET Recipes /\ IsFiniteSet(Recipes)
    BY <2>3, <2>4
  <2> HIDE DEF S
  <2>6. QED
    BY <2>5, FS_Subset
<1>2. PICK sent : sent = SetToSeq(S)
  OBVIOUS
<1>3. sent \in Seq(S)
  <2> HIDE DEF S
  <2>1. QED
    BY <1>1, <1>2, LaidOut
<1>4. PICK n \in Nat : DOMAIN sent = 1 .. n /\ \A i \in 1 .. n : sent[i] \in S
  <2> HIDE DEF S
  <2>1. Len(sent) \in Nat /\ DOMAIN sent = 1 .. Len(sent) /\ \A i \in 1 .. Len(sent) : sent[i] \in S
    BY <1>3
  <2>2. QED
    BY <2>1
<1>5. \A i \in 1 .. n : sent[i] \in Recipes /\ FitsClient(sent[i])
  BY <1>4
<1>6. PICK es : es = [i \in 1 .. n |-> BookEntry(sent[i], marks[sent[i]])]
  OBVIOUS
<1>7. PICK f, op : f = F("entries", es) /\ op = IF replace THEN "replace" ELSE "add"
  OBVIOUS
<1>8. RecipeBookPacket(marks, replace) = Packet("book", op, f)
  BY <1>2, <1>4, <1>6, <1>7 DEF RecipeBookPacket
<1>9. PICK p : /\ p.name = "book" /\ p.fields = f
               /\ ToSet(RecipeBookPacket(marks, replace)) = {p}
  BY <1>8, PacketOf
<1>10. Of(f, "entries") = es
  BY <1>7, FieldWithout, CarriesOf DEF With
<1>11. \A i \in 1 .. n : es[i].display = RecipeDisplay(sent[i])
  BY <1>6 DEF BookEntry
<1>12. Reads(p)
  <2>1. \A i \in DOMAIN es : SlotsRead(es[i].display)
    BY <1>5, <1>6, <1>11, DisplayLaid
  <2>2. QED
    BY <1>9, <1>10, <2>1 DEF Reads
<1>13. ~HasAir(p)
  <2>1. \A i \in 1 .. n : "air" \notin ToSet(es[i].needs)
    BY <1>5, <1>6, NeedsNoAir
  <2>2. \A e \in ToSet(es) : \E i \in 1 .. n : e = es[i]
    BY <1>6 DEF ToSet
  <2>3. QED
    BY <1>9, <1>10, <2>1, <2>2 DEF HasAir
<1>14. Knows(p)
  BY <1>9 DEF Knows
<1>15. QED
  BY <1>9, <1>12, <1>13, <1>14 DEF Legible

\* The frames of the recipe book and of the ghost recipe are legible.
LEMMA BookSpeaks ==
    ASSUME version \in Nat
    PROVE  /\ \A known \in SUBSET Recipes : RecipeBook(known) => Speaks /\ topic = "book"
           /\ \A r \in Recipes : RecipeUnlocked(r) => Speaks /\ topic = "book"
           /\ \A r \in Recipes : GhostRecipe(r) => Speaks /\ topic = "ghost"
<1>1. ASSUME NEW known \in SUBSET Recipes, RecipeBook(known) PROVE Speaks /\ topic = "book"
  <2>1. PICK marks : marks = [r \in known |-> "seen"]
    OBVIOUS
  <2>2. PICK b, ps : Say("book", b, ps) /\ ps = RecipeBookPacket(marks, TRUE)
    BY <1>1, <2>1 DEF RecipeBook
  <2>3. \A p \in ToSet(ps) : Legible(p)
    <3>1. DOMAIN marks \in SUBSET Recipes
      BY <2>1
    <3>2. QED
      BY <2>2, <3>1, BookLegible
  <2>4. QED
    BY <2>2, <2>3, SaySpeaks
<1>2. ASSUME NEW r \in Recipes, RecipeUnlocked(r) PROVE Speaks /\ topic = "book"
  <2>1. PICK marks : marks = [q \in {r} |-> "new"]
    OBVIOUS
  <2>2. PICK b, ps : Say("book", b, ps) /\ ps = RecipeBookPacket(marks, FALSE)
    BY <1>2, <2>1 DEF RecipeUnlocked
  <2>3. \A p \in ToSet(ps) : Legible(p)
    <3>1. DOMAIN marks \in SUBSET Recipes
      BY <2>1
    <3>2. QED
      BY <2>2, <3>1, BookLegible
  <2>4. QED
    BY <2>2, <2>3, SaySpeaks
<1>3. ASSUME NEW r \in Recipes, GhostRecipe(r) PROVE Speaks /\ topic = "ghost"
  <2>1. CASE FitsClient(r)
    <3>1. PICK f : f = F("display", RecipeDisplay(r))
      OBVIOUS
    <3>2. PICK ps : Say("ghost", r, ps) /\ ps = Packet("ghost", r, f)
      BY <1>3, <2>1, <3>1 DEF GhostRecipe
    <3>3. PICK p : p.name = "ghost" /\ p.fields = f /\ ToSet(ps) = {p}
      BY <3>2, PacketOf
    <3>4. Of(f, "display") = RecipeDisplay(r)
      BY <3>1, FieldWithout, CarriesOf DEF With
    <3>5. Reads(p)
      BY <3>3, <3>4, DisplayLaid DEF Reads
    <3>6. Knows(p) /\ ~HasAir(p)
      BY <3>3 DEF Knows, HasAir
    <3>7. QED
      BY <3>2, <3>3, <3>5, <3>6, SaySpeaks DEF Legible
  <2>2. CASE ~FitsClient(r)
    <3>1. Say("ghost", board, << >>)
      BY <1>3, <2>2 DEF GhostRecipe
    <3>2. QED
      BY <3>1, SayNothing
  <2>3. QED
    BY <2>1, <2>2
<1>4. QED
  BY <1>1, <1>2, <1>3

-----------------------------------------------------------------------------
(* Deeds.                                                                  *)

\* Packets of names with no layout of their own.
Plain(s) == IsSeq(s) /\ \A p \in ToSet(s) : p.name \notin Special

\* A packet no client reads its own way is plain,
LEMMA PacketPlain ==
    ASSUME NEW name, NEW op, NEW fields, name \notin Special
    PROVE  Plain(Packet(name, op, fields))
<1>1. PICK p : /\ p.name = name /\ Packet(name, op, fields) = <<p>>
               /\ ToSet(Packet(name, op, fields)) = {p}
  BY PacketOf
<1>2. QED
  BY <1>1, OneSeq DEF Plain

\* as are packets joined,
LEMMA JoinPlain ==
    ASSUME NEW a, NEW b, Plain(a), Plain(b)
    PROVE  Plain(a \o b)
<1>1. IsSeq(a) /\ IsSeq(b)
  BY DEF Plain
<1>2. PICK A : A = ToSet(a) \cup ToSet(b)
  OBVIOUS
<1>3. a \in Seq(A) /\ b \in Seq(A)
  <2>1. ToSet(a) \subseteq A /\ ToSet(b) \subseteq A
    BY <1>2
  <2>2. QED
    BY <1>1, <2>1 DEF IsSeq
<1>4. ToSet(a \o b) = ToSet(a) \cup ToSet(b)
  BY <1>3, JoinIs
<1>5. IsSeq(a \o b)
  BY <1>1, JoinSeq
<1>6. QED
  BY <1>4, <1>5 DEF Plain

\* and what the world is told of a deed.
LEMMA ToldPlain ==
    ASSUME NEW f, NEW v
    PROVE  Plain(ToldOf(f, v))
<1>1. CASE f.msg # "UseEntity"
  BY <1>1, PacketPlain DEF ToldOf, Special
<1>2. CASE f.msg = "UseEntity"
  <2>1. PICK c, g, h :
           ToldOf(f, v) = If(c, Packet("use_entity", "", g)) \o Packet("use_entity", "", h)
    BY <1>2 DEF ToldOf
  <2>2. PICK a, b : a = If(c, Packet("use_entity", "", g)) /\ b = Packet("use_entity", "", h)
    OBVIOUS
  <2>3. Plain(Packet("use_entity", "", g)) /\ Plain(b)
    BY <2>2, PacketPlain DEF Special
  <2>4. Plain(<< >>)
    BY NothingSeq, EmptyIs DEF Plain
  <2>5. Plain(a)
    BY <2>2, <2>3, <2>4 DEF If
  <2>6. Plain(a \o b)
    BY <2>3, <2>5, JoinPlain
  <2>7. QED
    BY <2>1, <2>2, <2>6
<1>3. QED
  BY <1>1, <1>2

\* A deed is a few frames.
Few(d) == \E n \in Nat : DOMAIN d = 1 .. n

\* A deed is a handful of the client's packets.
LEMMA DeedsFew ==
    ASSUME NEW t \in DeedTopics, NEW v, NEW d \in DeedsOf(t, v)
    PROVE  Few(d)
<1>1. /\ \A x : Few(<<x>>)
      /\ \A x, y : Few(<<x, y>>)
  <2>1. \A x : DOMAIN <<x>> = 1 .. 1
    OBVIOUS
  <2>2. \A x, y : DOMAIN <<x, y>> = 1 .. 2
    OBVIOUS
  <2>3. 1 \in Nat /\ 2 \in Nat
    OBVIOUS
  <2>4. QED
    BY <2>1, <2>2, <2>3 DEF Few
<1>2. CASE d \in KeyDeeds(v)
  BY <1>1, <1>2 DEF KeyDeeds
<1>3. CASE d \in HandDeeds(v)
  <2> DEFINE A == {<<UseEntity(5, FALSE, h)>> : h \in {0, 1}}
             B == {<<UseEntity(5, TRUE, 0)>>}
             D == {<<UseItem(h, 9)>> : h \in {0, 1}}
             E == {<<SwingAction(h)>> : h \in {0, 1}}
             G == {<<HeldSlot(s)>> : s \in {0, 8}}
             C == {<<PickItem(e, 7, x)>> : e, x \in BOOLEAN}
  <2>1. /\ \A e \in A : Few(e)
        /\ \A e \in B : Few(e)
        /\ \A e \in D : Few(e)
        /\ \A e \in E : Few(e)
        /\ \A e \in G : Few(e)
    BY <1>1
  <2>2. \A e \in C : Few(e)
    <3>1. ASSUME NEW e \in C PROVE Few(e)
      <4>1. PICK l, r : e = <<PickItem(l, 7, r)>>
        BY <3>1
      <4>2. PICK x : x = PickItem(l, 7, r)
        OBVIOUS
      <4>3. QED
        BY <1>1, <4>1, <4>2
    <3>2. QED
      BY <3>1
  <2>3. HandDeeds(v) = A \cup B \cup D \cup E \cup G \cup C
    BY DEF HandDeeds
  <2> HIDE DEF A, B, C, D, E, G
  <2>4. QED
    BY <1>3, <2>1, <2>2, <2>3
<1>4. CASE d \in BlockDeeds(v)
  BY <1>1, <1>4 DEF BlockDeeds
<1>5. CASE d \in MenuDeeds(v)
  BY <1>1, <1>5 DEF MenuDeeds
<1>6. CASE d \in WordDeeds(v)
  <2> DEFINE A == {<<EditBook(40, p, x)>> : p \in Books, x \in {None} \cup Texts}
             Sign(x, y) == SignUpdate(x, <<y, Short, Short, Short>>)
             B == {<<Sign(x, y)>> : x \in BOOLEAN, y \in Texts}
             C == {<<Command(<<"help">>)>>} \cup {<<SuggestReq(n, Short)>> : n \in {1, 2}}
             D == IF v < 775 THEN {}
                  ELSE {<<Command(<<"gamerule", "keep_inventory", "true">>)>>,
                        <<Command(<<"gamerule", "keep_inventory", "true">>),
                          Command(<<"gamerule", "random_tick_speed", "5">>)>>}
             E == IF v < 776 THEN {}
                  ELSE {<<CustomClickAction("pack:yes", p)>> : p \in {None, "inputs"}}
  <2>1. \A e \in A : Few(e)
    <3>1. ASSUME NEW e \in A PROVE Few(e)
      <4>1. PICK l, r : e = <<EditBook(40, l, r)>>
        BY <3>1
      <4>2. PICK x : x = EditBook(40, l, r)
        OBVIOUS
      <4>3. QED
        BY <1>1, <4>1, <4>2
    <3>2. QED
      BY <3>1
  <2>2. \A e \in B : Few(e)
    <3>1. ASSUME NEW e \in B PROVE Few(e)
      <4> HIDE DEF Sign
      <4>1. PICK l, r : e = <<Sign(l, r)>>
        BY <3>1
      <4>2. PICK x : x = Sign(l, r)
        OBVIOUS
      <4>3. QED
        BY <1>1, <4>1, <4>2
    <3>2. QED
      BY <3>1
  <2>3. \A e \in C : Few(e)
    BY <1>1
  <2>4. \A e \in D : Few(e)
    <3>1. PICK x, y : /\ x = Command(<<"gamerule", "keep_inventory", "true">>)
                      /\ y = Command(<<"gamerule", "random_tick_speed", "5">>)
      OBVIOUS
    <3>2. D \subseteq {<<x>>, <<x, y>>}
      BY <3>1
    <3> HIDE DEF D
    <3>3. QED
      BY <1>1, <3>2
  <2>5. \A e \in E : Few(e)
    BY <1>1
  <2>6. d \in A \/ d \in B \/ d \in C \/ d \in D \/ d \in E
    <3>1. WordDeeds(v) = A \cup B \cup C \cup D \cup E
      BY DEF WordDeeds
    <3> HIDE DEF A, B, C, D, E
    <3>2. QED
      BY <1>6, <3>1
  <2> HIDE DEF A, B, C, D, E
  <2>7. QED
    BY <2>1, <2>2, <2>3, <2>4, <2>5, <2>6
<1>7. CASE d \in AskDeeds(v)
  BY <1>1, <1>7 DEF AskDeeds
<1>8. QED
  BY <1>2, <1>3, <1>4, <1>5, <1>6, <1>7 DEF DeedsOf

\* Doing one tells the world what it can read.
LEMMA DeedSpeaks ==
    ASSUME NEW t \in DeedTopics, NEW d \in DeedsOf(t, version), topic = t, Do(d)
    PROVE  Speaks /\ topic = t
<1>1. PICK n \in Nat : DOMAIN d = 1 .. n
  BY DeedsFew DEF Few
<1>2. PICK ps : ps = Told(d, version) /\ Say(topic, d, ps)
  BY DEF Do
<1>3. PICK c \in BOOLEAN : c = \A i \in DOMAIN d : d[i].msg = "Command" /\ d[i].cmd[1] = "gamerule"
  OBVIOUS
<1>4. CASE c
  <2>1. PICK f : ps = Packet("set_game_rule", "", f)
    BY <1>2, <1>3, <1>4 DEF Told
  <2>2. Plain(ps)
    BY <2>1, PacketPlain DEF Special
  <2>3. \A p \in ToSet(ps) : Legible(p)
    BY <2>2, PlainReads DEF Plain
  <2>4. QED
    BY <1>2, <2>3, SaySpeaks
<1>5. CASE ~c
  <2>1. PICK seqs : seqs = [i \in 1 .. n |-> ToldOf(d[i], version)]
    OBVIOUS
  <2>2. ps = FlattenSeq(seqs)
    BY <1>1, <1>2, <1>3, <1>5, <2>1 DEF Told
  <2>3. \A i \in 1 .. n : Plain(seqs[i])
    BY <2>1, ToldPlain
  <2>4. \A i \in 1 .. n : IsSeq(seqs[i]) /\ \A p \in ToSet(seqs[i]) : Legible(p)
    BY <2>3, PlainReads DEF Plain
  <2>5. DOMAIN seqs = 1 .. n /\ seqs = [i \in 1 .. n |-> seqs[i]]
    BY <2>1
  <2>6. \A p \in ToSet(FlattenSeq(seqs)) : Legible(p)
    BY <2>4, <2>5, FlatLegible
  <2>7. QED
    BY <1>2, <2>2, <2>6, SaySpeaks
<1>6. QED
  BY <1>4, <1>5

-----------------------------------------------------------------------------
(* The menu: what the client will have on its screen, packet by packet.    *)

Menus == {Horse, BrewingStand, Furnace}
Windows == [id : WindowIds, menu : Menus, data : [Props -> {0, 5}]]
Panes == {None} \cup Windows

MenuPacket(p) ==
    \/ p.name \in {"login", "close"}
    \/ p.name = "open" /\ p.op \in WindowIds /\ \E m \in Menus : p.fields = F("menu", m)
    \/ /\ p.name = "data" /\ p.op \in WindowIds
       /\ \E prop \in Props, value \in {0, 5} : p.fields = F("prop", prop) \o F("value", value)

Screened(s, p) == IF p.name = "login" THEN None ELSE ShowsMenu(s, p)

SlotsAt(v, menu) ==
    CASE menu = Horse -> {}
      [] menu = BrewingStand /\ v < 777 -> {1}
      [] OTHER -> Props

\* A slot that is told of is one the client's window has.
Fits(v, s, p) ==
    p.name = "data" => s = None \/ s.id # p.op \/ Of(p.fields, "prop") \in SlotsAt(v, s.menu)

\* The world's window is the client's.
Agrees(v, s, b) ==
    b # None /\ s # None /\ s.id = b.id =>
        s.menu = b.menu /\ \A q \in SlotsAt(v, s.menu) : s.data[q] = b.data[q]

\* d is what the client with s on its screen will show of b, after each of
\* the packets.
Trail(d, v, b, s, frames) ==
    /\ d \in [0 .. Len(frames) -> Panes] /\ d[0] = s
    /\ \A i \in 1 .. Len(frames) :
          /\ d[i] = Screened(d[i - 1], frames[i][1])
          /\ Fits(v, d[i - 1], frames[i][1])
    /\ Agrees(v, d[Len(frames)], b)

OneEach(frames) ==
    IsSeq(frames) /\ \A i \in DOMAIN frames : \E p : frames[i] = <<p>> /\ MenuPacket(p)

\* A window's data carries its property and its value.
LEMMA DataFields ==
    ASSUME NEW f, NEW prop, NEW value, f = F("prop", prop) \o F("value", value)
    PROVE  Of(f, "prop") = prop /\ Of(f, "value") = value
<1>1. PICK a, b : a = F("prop", prop) /\ b = F("value", value)
  OBVIOUS
<1>2. "prop" # "value"
  OBVIOUS
<1>3. With(a, "prop", prop) /\ Without(a, "value") /\ With(b, "value", value) /\ Without(b, "prop")
  BY <1>1, <1>2, FieldWithout
<1>4. With(a \o b, "prop", prop) /\ With(a \o b, "value", value)
  BY <1>3, JoinWithout
<1>5. QED
  BY <1>1, <1>4, CarriesOf DEF With

\* What a window packet does to the pane on the screen.
LEMMA ScreenedIs ==
    ASSUME NEW s \in Panes, NEW p, MenuPacket(p)
    PROVE  /\ Screened(s, p) \in Panes
           /\ p.name # "data" => \A t : Screened(t, p) = Screened(s, p)
           /\ p.name = "data" => Screened(None, p) = None
<1>1. CASE p.name \in {"login", "close"}
  BY <1>1 DEF Screened, ShowsMenu, Panes
<1>2. CASE p.name = "open"
  <2>1. PICK w \in WindowIds, m \in Menus : p.op = w /\ p.fields = F("menu", m)
    BY <1>2 DEF MenuPacket
  <2>2. Of(p.fields, "menu") = m
    BY <2>1, FieldWithout, CarriesOf DEF With
  <2>3. \A t : Screened(t, p) = Window(w, m)
    BY <1>2, <2>1, <2>2 DEF Screened, ShowsMenu
  <2>4. Window(w, m) \in Windows
    BY DEF Window, Windows
  <2>5. QED
    BY <1>2, <2>3, <2>4 DEF Panes
<1>3. CASE p.name = "data"
  <2>1. PICK prop \in Props, value \in {0, 5} : p.fields = F("prop", prop) \o F("value", value)
    BY <1>3 DEF MenuPacket
  <2>2. Of(p.fields, "prop") = prop /\ Of(p.fields, "value") = value
    BY <2>1, DataFields
  <2>3. \A t : Screened(t, p) = IF t = None \/ t.id # p.op THEN t
                                ELSE [t EXCEPT !.data[prop] = value]
    BY <1>3, <2>2 DEF Screened, ShowsMenu
  <2>4. Screened(s, p) \in Panes
    <3>1. CASE s = None
      BY <2>3, <3>1 DEF Panes
    <3>2. CASE s \in Windows
      <4>1. [s EXCEPT !.data[prop] = value] \in Windows
        BY <3>2 DEF Windows
      <4>2. QED
        BY <2>3, <3>2, <4>1 DEF Panes
    <3>3. QED
      BY <3>1, <3>2 DEF Panes
  <2>5. QED
    BY <1>3, <2>3, <2>4
<1>4. QED
  BY <1>1, <1>2, <1>3 DEF MenuPacket

\* One packet more.
LEMMA TrailGrows ==
    ASSUME NEW d, NEW v, NEW b, NEW s, NEW frames, Trail(d, v, b, s, frames), OneEach(frames),
           NEW p, MenuPacket(p), Fits(v, d[Len(frames)], p),
           NEW c, Agrees(v, Screened(d[Len(frames)], p), c)
    PROVE  /\ OneEach(Append(frames, <<p>>))
           /\ \E e : Trail(e, v, c, s, Append(frames, <<p>>))
<1>1. PICK n \in Nat : n = Len(frames) /\ DOMAIN frames = 1 .. n
  BY DEF OneEach, IsSeq
<1>2. PICK q : q = <<p>> /\ q[1] = p
  BY OneSeq
<1>3. PICK more : more = Append(frames, q)
  OBVIOUS
<1>4. /\ IsSeq(more) /\ Len(more) = n + 1 /\ DOMAIN more = 1 .. (n + 1)
      /\ more[n + 1] = q /\ \A i \in 1 .. n : more[i] = frames[i]
  BY <1>1, <1>3, Grows DEF OneEach
<1>5. \A i \in 1 .. (n + 1) : i \in 1 .. n \/ i = n + 1
  OBVIOUS
<1>6. OneEach(more)
  BY <1>1, <1>2, <1>4, <1>5 DEF OneEach
<1>7. PICK last : last = Screened(d[n], p)
  OBVIOUS
<1>8. PICK e : e = [i \in 0 .. (n + 1) |-> IF i = n + 1 THEN last ELSE d[i]]
  OBVIOUS
<1>9. d \in [0 .. n -> Panes] /\ d[n] \in Panes
  BY <1>1 DEF Trail
<1>10. last \in Panes
  BY <1>7, <1>9, ScreenedIs
<1>11. e \in [0 .. (n + 1) -> Panes] /\ e[n + 1] = last /\ \A i \in 0 .. n : e[i] = d[i]
  BY <1>8, <1>9, <1>10
<1>12. ASSUME NEW i \in 1 .. (n + 1)
       PROVE  e[i] = Screened(e[i - 1], more[i][1]) /\ Fits(v, e[i - 1], more[i][1])
  <2>1. CASE i = n + 1
    <3>1. e[i] = last /\ e[i - 1] = d[n] /\ more[i][1] = p
      BY <1>2, <1>4, <1>11, <2>1
    <3>2. QED
      BY <1>1, <1>7, <3>1
  <2>2. CASE i \in 1 .. n
    <3>1. e[i] = d[i] /\ e[i - 1] = d[i - 1] /\ more[i] = frames[i]
      BY <1>4, <1>11, <2>2
    <3>2. QED
      BY <1>1, <2>2, <3>1 DEF Trail
  <2>3. QED
    BY <1>5, <2>1, <2>2
<1>13. Agrees(v, e[n + 1], c) /\ e[0] = s
  BY <1>1, <1>7, <1>11 DEF Trail
<1>14. Trail(e, v, c, s, more)
  BY <1>4, <1>11, <1>12, <1>13 DEF Trail
<1>15. QED
  BY <1>2, <1>3, <1>6, <1>14

\* One packet read.
LEMMA TrailShrinks ==
    ASSUME NEW d, NEW v, NEW b, NEW s, NEW frames, Trail(d, v, b, s, frames), OneEach(frames),
           frames # << >>
    PROVE  /\ OneEach(Tail(frames))
           /\ \E e : Trail(e, v, b, Screened(s, frames[1][1]), Tail(frames))
           /\ Fits(v, s, frames[1][1])
           /\ \E p : frames[1] = <<p>> /\ MenuPacket(p)
<1>1. PICK n \in Nat : n = Len(frames) /\ n >= 1 /\ DOMAIN frames = 1 .. n
  BY Shrinks DEF OneEach
<1>2. PICK rest : rest = Tail(frames)
  OBVIOUS
<1>3. /\ IsSeq(rest) /\ Len(rest) = n - 1 /\ DOMAIN rest = 1 .. (n - 1)
      /\ \A i \in 1 .. (n - 1) : rest[i] = frames[i + 1]
  BY <1>1, <1>2, Shrinks DEF OneEach
<1>4. \A i \in 1 .. (n - 1) : i + 1 \in 1 .. n
  OBVIOUS
<1>5. OneEach(rest)
  BY <1>1, <1>3, <1>4 DEF OneEach
<1>6. PICK e : e = [i \in 0 .. (n - 1) |-> d[i + 1]]
  OBVIOUS
<1>7. d \in [0 .. n -> Panes]
  BY <1>1 DEF Trail
<1>8. \A i \in 0 .. (n - 1) : i + 1 \in 0 .. n
  OBVIOUS
<1>9. e \in [0 .. (n - 1) -> Panes] /\ \A i \in 0 .. (n - 1) : e[i] = d[i + 1]
  BY <1>6, <1>7, <1>8
<1>10. e[0] = Screened(s, frames[1][1]) /\ Fits(v, s, frames[1][1])
  <2>1. 1 \in 1 .. n /\ 0 \in 0 .. (n - 1)
    BY <1>1
  <2>2. d[1] = Screened(d[1 - 1], frames[1][1]) /\ Fits(v, d[1 - 1], frames[1][1]) /\ d[0] = s
    BY <1>1, <2>1 DEF Trail
  <2>3. e[0] = d[1]
    BY <1>9, <2>1
  <2>4. QED
    BY <2>2, <2>3
<1>11. ASSUME NEW i \in 1 .. (n - 1)
       PROVE  e[i] = Screened(e[i - 1], rest[i][1]) /\ Fits(v, e[i - 1], rest[i][1])
  <2>1. PICK k \in 1 .. n : k = i + 1 /\ k - 1 = i
    OBVIOUS
  <2>2. e[i] = d[k] /\ e[i - 1] = d[k - 1] /\ rest[i] = frames[k]
    BY <1>3, <1>9, <2>1
  <2>3. d[k] = Screened(d[k - 1], frames[k][1]) /\ Fits(v, d[k - 1], frames[k][1])
    BY <1>1 DEF Trail
  <2>4. QED
    BY <2>2, <2>3
<1>12. Agrees(v, e[n - 1], b)
  <2>1. e[n - 1] = d[n]
    BY <1>1, <1>9
  <2>2. QED
    BY <1>1, <2>1 DEF Trail
<1>13. Trail(e, v, b, Screened(s, frames[1][1]), rest)
  BY <1>3, <1>9, <1>10, <1>11, <1>12 DEF Trail
<1>14. \E p : frames[1] = <<p>> /\ MenuPacket(p)
  BY <1>1 DEF OneEach
<1>15. QED
  BY <1>2, <1>5, <1>10, <1>13, <1>14

\* The player closes what is on the screen, with packets on their way.
LEMMA TrailCloses ==
    ASSUME NEW d, NEW v, NEW b, NEW s, NEW frames, Trail(d, v, b, s, frames), OneEach(frames)
    PROVE  \E e : Trail(e, v, b, None, frames)
<1>1. PICK n \in Nat : n = Len(frames) /\ DOMAIN frames = 1 .. n
  BY DEF OneEach, IsSeq
<1> DEFINE P(i) == frames[i][1]
           Opened(i) == \E j \in 1 .. i : P(j).name # "data"
<1>2. \A i \in 1 .. n : MenuPacket(P(i))
  <2>1. ASSUME NEW i \in 1 .. n PROVE MenuPacket(P(i))
    <3>1. PICK p : frames[i] = <<p>> /\ MenuPacket(p)
      BY <1>1 DEF OneEach
    <3>2. frames[i][1] = p
      BY <3>1
    <3>3. QED
      BY <3>1, <3>2
  <2>2. QED
    BY <2>1
<1>3. \A i \in 1 .. n : /\ Opened(i - 1) => Opened(i)
                        /\ P(i).name # "data" => Opened(i)
                        /\ Opened(i) => Opened(i - 1) \/ P(i).name # "data"
  <2>1. ASSUME NEW i \in 1 .. n
        PROVE  \A j : j \in 1 .. i <=> (j \in 1 .. (i - 1) \/ j = i)
    OBVIOUS
  <2> HIDE DEF P
  <2>2. QED
    BY <2>1
<1>4. ~Opened(0)
  OBVIOUS
<1>5. \A i \in 1 .. n : d[i] = Screened(d[i - 1], P(i)) /\ Fits(v, d[i - 1], P(i))
  BY <1>1 DEF Trail
<1>6. d \in [0 .. n -> Panes] /\ Agrees(v, d[n], b)
  BY <1>1 DEF Trail
<1>7. None \in Panes
  BY DEF Panes
<1> HIDE DEF P, Opened
<1>8. PICK e : e = [i \in 0 .. n |-> IF Opened(i) THEN d[i] ELSE None]
  OBVIOUS
<1>9. e \in [0 .. n -> Panes] /\ e[0] = None
  BY <1>4, <1>6, <1>7, <1>8
<1>10. ASSUME NEW i \in 1 .. n
       PROVE  e[i] = Screened(e[i - 1], P(i)) /\ Fits(v, e[i - 1], P(i))
  <2>1. PICK h \in 0 .. n : h = i - 1
    OBVIOUS
  <2>2. d[h] \in Panes /\ MenuPacket(P(i)) /\ d[i] = Screened(d[h], P(i)) /\ Fits(v, d[h], P(i))
    BY <1>2, <1>5, <1>6, <2>1
  <2>3. e[h] = IF Opened(h) THEN d[h] ELSE None
    BY <1>8
  <2>4. e[i] = IF Opened(i) THEN d[i] ELSE None
    BY <1>8
  <2>5. Fits(v, e[h], P(i))
    BY <2>2, <2>3 DEF Fits
  <2>6. e[i] = Screened(e[h], P(i))
    <3>1. CASE P(i).name # "data"
      <4>1. Screened(e[h], P(i)) = Screened(d[h], P(i))
        BY <2>2, <3>1, ScreenedIs
      <4>2. e[i] = d[i]
        BY <1>3, <2>4, <3>1
      <4>3. QED
        BY <2>2, <4>1, <4>2
    <3>2. CASE P(i).name = "data"
      <4>1. Opened(i) <=> Opened(h)
        BY <1>3, <2>1, <3>2
      <4>2. Screened(None, P(i)) = None
        BY <2>2, <3>2, ScreenedIs
      <4>3. CASE Opened(i)
        BY <2>2, <2>3, <2>4, <4>1, <4>3
      <4>4. CASE ~Opened(i)
        BY <2>3, <2>4, <4>1, <4>2, <4>4
      <4>5. QED
        BY <4>3, <4>4
    <3>3. QED
      BY <3>1, <3>2
  <2>7. QED
    BY <2>1, <2>5, <2>6
<1>11. Agrees(v, e[n], b)
  <2>1. e[n] = d[n] \/ e[n] = None
    BY <1>8
  <2>2. QED
    BY <1>6, <2>1 DEF Agrees
<1>12. Trail(e, v, b, None, frames)
  BY <1>1, <1>9, <1>10, <1>11 DEF Trail, P
<1>13. QED
  BY <1>12

-----------------------------------------------------------------------------
(* Every step.                                                             *)

AdvStep ==
    \/ \E t \in Trees, reset \in BOOLEAN : AdvTreeWhole(t, reset)
    \/ \E d \in Snapshots({"root", "leaf"}) : AdvProgressWhole(d)
    \/ \E t \in Trees : AdvTreeChanged(t)
    \/ \E n \in Nodes, done \in SUBSET {"a", "b"} : topic = "advancements" /\ AdvGranted(n, done)

MenuStep ==
    /\ topic = "menu"
    /\ \/ \E w \in WindowIds, menu \in {BrewingStand, Furnace} : WindowOpen(w, menu)
       \/ \E w \in WindowIds : HorseScreen(w)
       \/ \E prop \in Props, value \in {0, 5} : WindowData(prop, value)
       \/ WindowCloseServer

\* What the world says of the other screens, and what the player does.
OtherStep == Speaks /\ topic \notin {"advancements", "menu"}

\* Every step is one of seven kinds.
LEMMA StepsAre ==
    ASSUME version \in Nat, Next
    PROVE  OtherStep \/ AdvStep \/ MenuStep \/ ClientCloses \/ WindowClosed \/ Rejoin \/ Deliver
<1>1. CASE \/ \E u \in Users, e \in Entry : topic = "tab" /\ PlayerInfo(u, e)
           \/ \E ping \in {0, 9} : topic = "tab" /\ PlayerInfoLatency(ping)
           \/ \E u \in Users, mode \in {0, 3} : topic = "tab" /\ PlayerInfoMode(u, mode)
           \/ \E u \in Users, chat \in BOOLEAN : topic = "tab" /\ PlayerInfoChat(u, chat)
           \/ \E u \in Users : topic = "tab" /\ PlayerGone(u)
  BY <1>1, TabSpeaks, PlainScreens DEF OtherStep
<1>2. CASE \/ \E e \in BarLook : topic = "bar" /\ BossBarAdd(e)
           \/ \E e \in BarLook, op \in DOMAIN BarOps : topic = "bar" /\ BossBar(op, e)
           \/ topic = "bar" /\ BossBarRemove
           \/ \E e \in EffectLook : topic = "effect" /\ Effect(e)
           \/ topic = "effect" /\ EffectRemove
  BY <1>2, PlainScreens DEF OtherStep
<1>3. CASE \/ \E t \in {"", "T", "U"}, sub \in {"", "s"}, n \in {0, 9} :
                 topic = "title" /\ Title(t, sub, n)
           \/ \E reset \in BOOLEAN : topic = "title" /\ ClearTitle(reset)
  BY <1>3, TitleSpeaks, PlainScreens DEF OtherStep
<1>4. CASE \/ \E o \in ObjectiveLook : topic = "scores" /\ ObjectiveAdd(o)
           \/ \E o \in ObjectiveLook : topic = "scores" /\ ObjectiveUpdate(o)
           \/ topic = "scores" /\ ObjectiveRemove
           \/ \E o \in {"", "objective"} : topic = "scores" /\ DisplaySlot(o)
           \/ \E e \in ScoreLook : topic = "scores" /\ Score(e)
           \/ \E o \in {"", "objective"} : topic = "scores" /\ ScoreReset(o)
  BY <1>4, PlainScreens DEF OtherStep
<1>5. CASE \/ \E t \in TeamLook, us \in SUBSET {"me"} : topic = "team" /\ TeamAdd(t, us)
           \/ \E t \in TeamLook : topic = "team" /\ TeamUpdate(t)
           \/ topic = "team" /\ TeamRemove
           \/ \E u \in Users, method \in {"join", "leave"} :
                 topic = "team" /\ TeamPlayers(method, {u})
  BY <1>5, TeamSpeaks DEF OtherStep
<1>6. CASE \/ \E ink \in Pictures : topic = "map" /\ MapColors(ink)
           \/ \E d \in Markers : topic = "map" /\ MapMarkers(d)
  BY <1>6, MapSpeaks DEF OtherStep
<1>7. CASE \/ \E w \in Track, op \in {"track", "untrack", "update"} :
                 topic = "waypoint" /\ Waypoint(op, w)
           \/ \E e \in SpawnLook, named \in BOOLEAN : topic = "spawn" /\ DefaultSpawn(e, named)
  BY <1>7, WaypointSpeaks, SpawnSpeaks DEF OtherStep
<1>8. CASE \/ \E e \in BorderLook, heading \in BOOLEAN :
                 topic = "border" /\ WorldBorder(e, heading)
           \/ \E e \in ClockLook, clocks \in BOOLEAN : topic = "time" /\ Time(e, clocks)
           \/ \E e \in AbleLook : topic = "abilities" /\ Abilities(e)
           \/ \E at \in {1, 3} : topic = "moves" /\ VehicleMove(at)
  BY <1>8, PlainScreens DEF OtherStep
<1>9. CASE \/ \E known \in SUBSET Recipes : topic = "book" /\ RecipeBook(known)
           \/ \E r \in Recipes : topic = "book" /\ RecipeUnlocked(r)
           \/ \E r \in {q \in Recipes : ~IsCooking(q)} : topic = "ghost" /\ GhostRecipe(r)
  BY <1>9, BookSpeaks DEF OtherStep
<1>10. CASE \/ \E t \in Trees, reset \in BOOLEAN :
                  AdvTreeWhole(t, reset)
            \/ \E d \in Snapshots({"root", "leaf"}) : AdvProgressWhole(d)
            \/ \E t \in Trees : AdvTreeChanged(t)
            \/ \E n \in Nodes, done \in SUBSET {"a", "b"} :
                  topic = "advancements" /\ done \subseteq Criteria(n) /\ AdvGranted(n, done)
  BY <1>10, Zenon DEF AdvStep
<1>11. CASE \/ \E w \in WindowIds, menu \in {BrewingStand, Furnace} :
                  topic = "menu" /\ WindowOpen(w, menu)
            \/ \E w \in WindowIds : topic = "menu" /\ HorseScreen(w)
            \/ \E prop \in Props, value \in {0, 5} : topic = "menu" /\ WindowData(prop, value)
            \/ topic = "menu" /\ WindowCloseServer
  BY <1>11, Zenon DEF MenuStep
<1>12. CASE \E t \in DeedTopics : \E d \in DeedsOf(t, version) : topic = t /\ Do(d)
  <2>1. PICK t \in DeedTopics : \E d \in DeedsOf(t, version) : topic = t /\ Do(d)
    BY <1>12
  <2>2. PICK d \in DeedsOf(t, version) : topic = t /\ Do(d)
    BY <2>1
  <2>3. Speaks
    BY <2>2, DeedSpeaks
  <2>4. QED
    BY <2>2, <2>3 DEF OtherStep, DeedTopics
<1>13. CASE \E m \in [at : {1, 2}, look : {0, 9}, ground : BOOLEAN] : topic = "moves" /\ Move(m)
  BY <1>13, MoveSpeaks DEF OtherStep
<1>14. CASE ClientCloses \/ WindowClosed \/ Rejoin \/ Deliver
  BY <1>14
<1>15. QED
  BY <1>1, <1>2, <1>3, <1>4, <1>5, <1>6, <1>7, <1>8, <1>9, <1>10, <1>11, <1>12, <1>13, <1>14
     DEF Next

-----------------------------------------------------------------------------
(* The types, and what the session holds of the advancements.              *)

\* A node's criteria, one by one, are its requirements', each once.
LEMMA CriteriaAre ==
    ASSUME NEW n \in Nodes
    PROVE  CriteriaOf(n) \in Seq({"a", "b"}) /\ ToSet(CriteriaOf(n)) = Criteria(n)
<1>1. PICK q : q = Reqs[n]
  OBVIOUS
<1>2. q \in Seq(Seq({"a", "b"}))
  <2>1. CASE n = "root"
    <3>1. q = << <<"a">> >>
      BY <1>1, <2>1 DEF Reqs
    <3>2. QED
      BY <3>1
  <2>2. CASE n = "leaf"
    <3>1. q = << <<"b", "a">>, <<"a">> >>
      BY <1>1, <2>2 DEF Reqs
    <3>2. PICK x \in Seq({"a", "b"}), y \in Seq({"a", "b"}) : x = <<"b", "a">> /\ y = <<"a">>
      <4>1. <<"b", "a">> \in Seq({"a", "b"}) /\ <<"a">> \in Seq({"a", "b"})
        OBVIOUS
      <4>2. QED
        BY <4>1
    <3>3. <<x, y>> \in Seq(Seq({"a", "b"}))
      OBVIOUS
    <3>4. QED
      BY <3>1, <3>2, <3>3
  <2>3. QED
    BY <2>1, <2>2 DEF Nodes
<1>3. PICK f : f = FlattenSeq(q) /\ f \in Seq({"a", "b"}) /\ ToSet(f) = Within(q)
  BY <1>2, FlatIs
<1>4. Once(f) \in Seq({"a", "b"}) /\ ToSet(Once(f)) = ToSet(f)
  BY <1>3, OnceIs
<1>5. Within(q) = Criteria(n)
  BY <1>1 DEF Within, Criteria
<1>6. QED
  BY <1>1, <1>3, <1>4, <1>5 DEF CriteriaOf

\* A tree in order holds its nodes.
LEMMA OrderIs ==
    ASSUME NEW t
    PROVE  InOrder(t) \in Seq(Nodes) /\ ToSet(InOrder(t)) = Nodes \cap t
<1>1. PICK s : s = <<"root", "leaf">>
  OBVIOUS
<1>2. s \in Seq(Nodes) /\ DOMAIN s = 1 .. 2 /\ s[1] = "root" /\ s[2] = "leaf"
  BY <1>1 DEF Nodes
<1>3. \A i \in 1 .. 2 : i = 1 \/ i = 2
  OBVIOUS
<1>4. ToSet(s) = Nodes
  BY <1>2, <1>3 DEF ToSet, Nodes
<1>5. InOrder(t) = Kept(s, t)
  BY <1>1 DEF InOrder
<1>6. QED
  BY <1>2, <1>4, <1>5, KeptIs

\* The session holds nothing, or a tree and criteria.
Held(tree, reqs) ==
    \/ tree = None /\ reqs = None
    \/ /\ tree \in Seq(Nodes)
       /\ \E S \in SUBSET Nodes : reqs \in [S -> Seq({"a", "b"})]
       /\ \A n \in DOMAIN reqs : ToSet(reqs[n]) = Criteria(n)

Typed ==
    /\ topic \in Topics /\ version \in Clients /\ Len(net) <= Pending /\ IsSeq(net)
    /\ threw \in {"nothing", "layout", "number", "air"}
    /\ owes \in {"nothing", "tree", "progress", "close"}
    /\ owes = "close" => topic = "menu"
    /\ Held(advTree, advReqs)
    /\ menus \in [WindowIds -> {0, BrewingStand, Furnace}]

\* The strengthened types give the type invariant.
LEMMA TypedTypes ==
    ASSUME Typed
    PROVE  TypeOK /\ version \in Nat
<1>1. (advTree = None) = (advReqs = None)
  <2>1. CASE advTree = None /\ advReqs = None
    BY <2>1
  <2>2. CASE advTree \in Seq(Nodes) /\ \E S \in SUBSET Nodes : advReqs \in [S -> Seq({"a", "b"})]
    BY <2>2, NoneAssumption
  <2>3. QED
    BY <2>1, <2>2 DEF Typed, Held
<1>2. advReqs = None \/ \A n \in DOMAIN advReqs : n \in Nodes /\ ToSet(advReqs[n]) = Criteria(n)
  BY DEF Typed, Held
<1>3. version \in Nat
  BY ClientsAssumption DEF Typed
<1>4. QED
  BY <1>1, <1>2, <1>3 DEF Typed, TypeOK

\* The index has the nodes of the tree and the criteria of each.
LEMMA ReqIndexIs ==
    ASSUME NEW nodes \in Seq(Nodes)
    PROVE  /\ ReqIndex(nodes) \in [ToSet(nodes) -> Seq({"a", "b"})]
           /\ ToSet(nodes) \in SUBSET Nodes
           /\ \A n \in ToSet(nodes) : ToSet(ReqIndex(nodes)[n]) = Criteria(n)
<1>1. ToSet(nodes) \in SUBSET Nodes
  BY SeqIs
<1>2. \A n \in ToSet(nodes) :
         CriteriaOf(n) \in Seq({"a", "b"}) /\ ToSet(CriteriaOf(n)) = Criteria(n)
  BY <1>1, CriteriaAre
<1>3. QED
  BY <1>1, <1>2 DEF ReqIndex

\* At most one frame more, and one every client reads.
Adds ==
    \/ net' = net
    \/ /\ Len(net) < Pending
       /\ \E ps : net' = Append(net, ps) /\ \A p \in ToSet(ps) : Legible(p)

\* Telling a client plain packets adds legible ones.
LEMMA TellAdds ==
    ASSUME NEW b, NEW ps, Tell(b, ps), Len(net) < Pending, Plain(ps)
    PROVE  Adds
BY PlainReads DEF Tell, Adds, Plain

\* The packets of the advancements screen are plain.
LEMMA UpdatePlain ==
    ASSUME NEW reset, NEW added, NEW removed, NEW progress
    PROVE  /\ Plain(UpdateAdvancements(reset, added, removed, progress))
           /\ \A c : Plain(If(c, UpdateAdvancements(reset, added, removed, progress)))
           /\ Plain(<< >>)
<1>1. Plain(<< >>)
  BY NothingSeq, EmptyIs DEF Plain
<1>2. Plain(UpdateAdvancements(reset, added, removed, progress))
  BY PacketPlain DEF UpdateAdvancements, Special
<1>3. QED
  BY <1>1, <1>2 DEF If

\* A tree frame leaves the tree and its index both set and of the same nodes.
LEMMA AdvTreeDoes ==
    ASSUME NEW b, NEW nodes \in Seq(Nodes), NEW removed, NEW reset,
           Typed, Len(net) < Pending, AdvTree(b, nodes, removed, reset)
    PROVE  Adds /\ Held(advTree', advReqs')
<1>1. CASE advReqs = None \/ reset
  <2>1. advTree' = nodes /\ advReqs' = ReqIndex(nodes) /\ Tell(b, << >>)
    BY <1>1 DEF AdvTree
  <2>2. Adds
    BY <2>1, TellAdds, UpdatePlain
  <2>3. Held(nodes, ReqIndex(nodes))
    BY ReqIndexIs DEF Held
  <2>4. QED
    BY <2>1, <2>2, <2>3
<1>2. CASE ~(advReqs = None \/ reset)
  <2>1. PICK S, G : S \in SUBSET Nodes /\ S = DOMAIN advReqs /\ G = (S \ removed) \cup ToSet(nodes)
    BY <1>2 DEF Typed, Held
  <2>2. /\ advTree \in Seq(Nodes) /\ advReqs \in [S -> Seq({"a", "b"})]
        /\ \A n \in S : ToSet(advReqs[n]) = Criteria(n)
    BY <1>2, <2>1 DEF Typed, Held
  <2>3. /\ advTree' = Kept(advTree, ToSet(advTree) \ removed) \o nodes
        /\ advReqs' = [n \in G |-> IF n \in ToSet(nodes) THEN CriteriaOf(n) ELSE advReqs[n]]
        /\ Tell(b, If(nodes # << >> \/ removed # {},
                      UpdateAdvancements(FALSE, nodes, removed, << >>)))
    BY <1>2, <2>1 DEF AdvTree
  <2>4. Adds
    <3>1. PICK ps : /\ ps = If(nodes # << >> \/ removed # {},
                               UpdateAdvancements(FALSE, nodes, removed, << >>))
                    /\ Tell(b, ps)
      BY <2>3
    <3>2. Plain(ps)
      BY <3>1, UpdatePlain
    <3>3. QED
      BY <3>1, <3>2, TellAdds
  <2>5. advTree' \in Seq(Nodes)
    BY <2>2, <2>3, KeptIs, JoinIs
  <2>6. ToSet(nodes) \in SUBSET Nodes
    BY SeqIs
  <2>7. G \in SUBSET Nodes
    BY <2>1, <2>6
  <2>8. \A n \in G : advReqs'[n] \in Seq({"a", "b"}) /\ ToSet(advReqs'[n]) = Criteria(n)
    <3>1. ASSUME NEW n \in G
          PROVE  advReqs'[n] \in Seq({"a", "b"}) /\ ToSet(advReqs'[n]) = Criteria(n)
      <4>1. CASE n \in ToSet(nodes)
        <5>1. advReqs'[n] = CriteriaOf(n) /\ n \in Nodes
          BY <2>3, <2>6, <4>1
        <5>2. QED
          BY <5>1, CriteriaAre
      <4>2. CASE n \notin ToSet(nodes)
        <5>1. advReqs'[n] = advReqs[n] /\ n \in S
          BY <2>1, <2>3, <4>2
        <5>2. QED
          BY <2>2, <5>1
      <4>3. QED
        BY <4>1, <4>2
    <3>2. QED
      BY <3>1
  <2>9. advReqs' \in [G -> Seq({"a", "b"})] /\ DOMAIN advReqs' = G
    BY <2>3, <2>8
  <2>10. Held(advTree', advReqs')
    BY <2>5, <2>7, <2>8, <2>9 DEF Held
  <2>11. QED
    BY <2>4, <2>10
<1>3. QED
  BY <1>1, <1>2

\* A progress frame leaves both as they are.
LEMMA AdvProgressDoes ==
    ASSUME NEW b, NEW entries, NEW reset, Len(net) < Pending, AdvProgress(b, entries, reset)
    PROVE  Adds /\ advTree' = advTree /\ advReqs' = advReqs
<1>1. PICK ps : Tell(b, ps) /\ ps = IF reset /\ advTree # None
               THEN UpdateAdvancements(TRUE, advTree, {},
                                       Progress(ReqIndex(advTree), entries, b.done))
               ELSE If(advReqs # None,
                       UpdateAdvancements(FALSE, << >>, {}, Progress(advReqs, entries, b.done)))
  BY DEF AdvProgress
<1>2. Plain(ps)
  BY <1>1, UpdatePlain
<1>3. QED
  BY <1>1, <1>2, TellAdds DEF AdvProgress

\* So any step of the advancements screen.
LEMMA AdvStepDoes ==
    ASSUME Typed, AdvStep
    PROVE  /\ UNCHANGED <<topic, version, menus, threw, screen>> /\ topic = "advancements"
           /\ Adds /\ Held(advTree', advReqs')
           /\ owes' \in {"nothing", "progress", owes}
<1>1. ASSUME NEW t, NEW reset, AdvTreeWhole(t, reset)
      PROVE  /\ UNCHANGED <<topic, version, menus, threw, screen>> /\ topic = "advancements"
             /\ Adds /\ Held(advTree', advReqs') /\ owes' = "progress"
  <2>1. PICK nodes, b : nodes \in Seq(Nodes) /\ AdvTree(b, nodes, {}, reset)
    <3>1. PICK nodes : nodes = InOrder(t) /\ nodes \in Seq(Nodes)
      BY OrderIs
    <3>2. PICK b : AdvTree(b, nodes, {}, reset)
      BY <1>1, <3>1 DEF AdvTreeWhole
    <3>3. QED
      BY <3>1, <3>2
  <2>2. topic = "advancements" /\ Len(net) < Pending /\ owes' = "progress" /\ menus' = menus
    BY <1>1 DEF AdvTreeWhole, Room
  <2>3. Adds /\ Held(advTree', advReqs')
    BY <2>1, <2>2, AdvTreeDoes
  <2>4. UNCHANGED <<topic, version, threw, screen>>
    BY <2>1 DEF AdvTree, Tell
  <2>5. QED
    BY <2>2, <2>3, <2>4
<1>2. ASSUME NEW d, AdvProgressWhole(d)
      PROVE  /\ UNCHANGED <<topic, version, menus, threw, screen>> /\ topic = "advancements"
             /\ Adds /\ Held(advTree', advReqs') /\ owes' = "nothing"
  <2>1. PICK b : AdvProgress(b, board.coming, TRUE)
    BY <1>2 DEF AdvProgressWhole
  <2>2. topic = "advancements" /\ Len(net) < Pending /\ owes' = "nothing" /\ menus' = menus
    BY <1>2 DEF AdvProgressWhole, Room
  <2>3. Adds /\ advTree' = advTree /\ advReqs' = advReqs
    BY <2>1, <2>2, AdvProgressDoes
  <2>4. UNCHANGED <<topic, version, threw, screen>>
    BY <2>1 DEF AdvProgress, Tell
  <2>5. QED
    BY <2>2, <2>3, <2>4 DEF Typed
<1>3. ASSUME NEW t, AdvTreeChanged(t)
      PROVE  /\ UNCHANGED <<topic, version, menus, threw, screen>> /\ topic = "advancements"
             /\ Adds /\ Held(advTree', advReqs') /\ owes' = owes
  <2>1. PICK nodes, b, removed : nodes \in Seq(Nodes) /\ AdvTree(b, nodes, removed, FALSE)
    <3>1. PICK nodes : nodes = InOrder(t \ board.tree) /\ nodes \in Seq(Nodes)
      BY OrderIs
    <3>2. PICK b, removed : AdvTree(b, nodes, removed, FALSE)
      BY <1>3, <3>1 DEF AdvTreeChanged
    <3>3. QED
      BY <3>1, <3>2
  <2>2. topic = "advancements" /\ Len(net) < Pending /\ owes' = owes /\ menus' = menus
    BY <1>3 DEF AdvTreeChanged, Room
  <2>3. Adds /\ Held(advTree', advReqs')
    BY <2>1, <2>2, AdvTreeDoes
  <2>4. UNCHANGED <<topic, version, threw, screen>>
    BY <2>1 DEF AdvTree, Tell
  <2>5. QED
    BY <2>2, <2>3, <2>4
<1>4. ASSUME NEW n, NEW done, AdvGranted(n, done)
      PROVE  /\ UNCHANGED <<topic, version, menus, threw, screen>> /\ topic = "advancements"
             /\ Adds /\ Held(advTree', advReqs') /\ owes' = owes
  <2>1. PICK b : AdvProgress(b, {n}, FALSE)
    BY <1>4 DEF AdvGranted
  <2>2. topic = "advancements" /\ Len(net) < Pending /\ owes' = owes /\ menus' = menus
    BY <1>4 DEF AdvGranted, Room
  <2>3. Adds /\ advTree' = advTree /\ advReqs' = advReqs
    BY <2>1, <2>2, AdvProgressDoes
  <2>4. UNCHANGED <<topic, version, threw, screen>>
    BY <2>1 DEF AdvProgress, Tell
  <2>5. QED
    BY <2>2, <2>3, <2>4 DEF Typed
<1>5. QED
  BY <1>1, <1>2, <1>3, <1>4 DEF AdvStep

\* At most one frame more.
Sends == net' = net \/ (Len(net) < Pending /\ \E ps : net' = Append(net, ps))

\* Telling a client packets sends them,
LEMMA TellSends ==
    ASSUME NEW b, NEW ps, Tell(b, ps), Len(net) < Pending
    PROVE  Sends
BY DEF Tell, Sends

\* which leaves room in what is on its way.
LEMMA SendsKeeps ==
    ASSUME Typed, Sends
    PROVE  IsSeq(net') /\ Len(net') <= Pending
<1>1. IsSeq(net) /\ Len(net) <= Pending /\ Pending \in Nat
  BY PendingAssumption DEF Typed
<1>2. CASE net' = net
  BY <1>1, <1>2
<1>3. ASSUME Len(net) < Pending, NEW ps, net' = Append(net, ps)
      PROVE  IsSeq(net') /\ Len(net') <= Pending
  <2>1. IsSeq(Append(net, ps)) /\ Len(Append(net, ps)) = Len(net) + 1 /\ Len(net) \in Nat
    BY <1>1, Grows
  <2>2. QED
    BY <1>1, <1>3, <2>1
<1>4. QED
  BY <1>2, <1>3 DEF Sends

\* What a step of the window screen leaves alone.
LEMMA MenuStepDoes ==
    ASSUME Typed, MenuStep
    PROVE  /\ UNCHANGED <<topic, version, advTree, advReqs, threw, owes, screen>>
           /\ menus' \in [WindowIds -> {0, BrewingStand, Furnace}] /\ Sends
<1>1. menus \in [WindowIds -> {0, BrewingStand, Furnace}]
  BY DEF Typed
<1>2. ASSUME NEW w \in WindowIds, NEW menu \in {BrewingStand, Furnace}, WindowOpen(w, menu)
      PROVE  /\ UNCHANGED <<topic, version, advTree, advReqs, threw, owes, screen>>
             /\ menus' \in [WindowIds -> {0, BrewingStand, Furnace}] /\ Sends
  <2>1. PICK b, ps : Tell(b, ps) /\ Len(net) < Pending
    BY <1>2 DEF WindowOpen, Room
  <2>2. menus' = [menus EXCEPT ![w] = menu] /\ UNCHANGED <<advTree, advReqs, owes>>
    BY <1>2 DEF WindowOpen
  <2>3. menus' \in [WindowIds -> {0, BrewingStand, Furnace}]
    BY <1>1, <2>2
  <2>4. UNCHANGED <<topic, version, threw, screen>>
    BY <2>1 DEF Tell
  <2>5. QED
    BY <2>1, <2>2, <2>3, <2>4, TellSends
<1>3. ASSUME NEW b, NEW ps, Say("menu", b, ps)
      PROVE  /\ UNCHANGED <<topic, version, advTree, advReqs, threw, owes, screen>>
             /\ menus' \in [WindowIds -> {0, BrewingStand, Furnace}] /\ Sends
  <2>1. Tell(b, ps) /\ Len(net) < Pending /\ UNCHANGED <<advTree, advReqs, menus, owes>>
    BY <1>3 DEF Say, Room, session
  <2>2. UNCHANGED <<topic, version, threw, screen>>
    BY <2>1 DEF Tell
  <2>3. QED
    BY <1>1, <2>1, <2>2, TellSends
<1>4. QED
  BY <1>2, <1>3 DEF MenuStep, HorseScreen, WindowData, WindowCloseServer

\* The types hold at first
LEMMA TypedInit ==
    Init => Typed
<1>1. SUFFICES ASSUME Init PROVE Typed
  OBVIOUS
<1>2. version \in Clients
  <2>1. CASE topic \in Versioned
    BY <1>1, <2>1 DEF Init
  <2>2. CASE topic \notin Versioned
    <3>1. version \in {CHOOSE v \in Clients : TRUE}
      BY <1>1, <2>2 DEF Init
    <3>2. QED
      BY <3>1, ClientsAssumption
  <2>3. QED
    BY <2>1, <2>2
<1>3. Len(net) <= Pending /\ IsSeq(net)
  <2>1. net = << >> /\ Len(<< >>) = 0
    BY <1>1 DEF Init
  <2>2. QED
    BY <2>1, NothingSeq, PendingAssumption
<1>4. menus \in [WindowIds -> {0, BrewingStand, Furnace}]
  BY <1>1 DEF Init
<1>5. topic \in Topics /\ threw = "nothing" /\ owes \in {"nothing", "tree"}
      /\ advTree = None /\ advReqs = None
  BY <1>1 DEF Init
<1>6. QED
  BY <1>2, <1>3, <1>4, <1>5 DEF Typed, Held

\* What a rejoin does to every screen.
LEMMA RejoinDoes ==
    ASSUME Rejoin
    PROVE  /\ UNCHANGED <<topic, version, advTree, advReqs, threw, screen>>
           /\ owes # "close" /\ owes' \in {"tree", owes} /\ Adds
           /\ menus' = [w \in WindowIds |-> 0] /\ board' = Blank(topic)
           /\ net' = Append(net, Packet("login", "play", << >>))
<1>1. PICK e, ps : e = << >> /\ ps = Packet("login", "play", e)
  OBVIOUS
<1>2. /\ Len(net) < Pending /\ owes # "close" /\ owes' \in {"tree", owes}
      /\ UNCHANGED <<advTree, advReqs>> /\ menus' = [w \in WindowIds |-> 0]
      /\ Tell(Blank(topic), ps)
  BY <1>1 DEF Rejoin, Room
<1>3. Plain(ps)
  BY <1>1, PacketPlain DEF Special
<1>4. \E p : ps = <<p>>
  BY <1>1, PacketOf
<1>5. ps # << >>
  BY <1>4
<1>6. net' = Append(net, ps)
  BY <1>2, <1>5 DEF Tell
<1>7. QED
  BY <1>1, <1>2, <1>3, <1>6, TellAdds DEF Tell

\* and after every step.
LEMMA TypedStep ==
    Typed /\ [Next]_vars => Typed'
<1>1. SUFFICES ASSUME Typed, [Next]_vars PROVE Typed'
  OBVIOUS
<1>2. CASE UNCHANGED vars
  BY <1>1, <1>2 DEF vars, Typed
<1>3. CASE OtherStep
  <2>1. /\ UNCHANGED <<topic, version, advTree, advReqs, menus, threw, owes>>
        /\ Sends
    BY <1>3 DEF OtherStep, Speaks, Sends
  <2>2. IsSeq(net') /\ Len(net') <= Pending
    BY <1>1, <2>1, SendsKeeps
  <2>3. QED
    BY <1>1, <2>1, <2>2 DEF Typed
<1>4. CASE AdvStep
  <2>1. /\ UNCHANGED <<topic, version, menus, threw>> /\ topic = "advancements"
        /\ Sends /\ Held(advTree', advReqs') /\ owes' \in {"nothing", "progress", owes}
    BY <1>1, <1>4, AdvStepDoes DEF Adds, Sends
  <2>2. IsSeq(net') /\ Len(net') <= Pending
    BY <1>1, <2>1, SendsKeeps
  <2>3. QED
    BY <1>1, <2>1, <2>2 DEF Typed
<1>5. CASE MenuStep
  <2>1. /\ UNCHANGED <<topic, version, advTree, advReqs, threw, owes>>
        /\ menus' \in [WindowIds -> {0, BrewingStand, Furnace}] /\ Sends
    BY <1>1, <1>5, MenuStepDoes
  <2>2. IsSeq(net') /\ Len(net') <= Pending
    BY <1>1, <2>1, SendsKeeps
  <2>3. QED
    BY <1>1, <2>1, <2>2 DEF Typed
<1>6. CASE ClientCloses
  BY <1>1, <1>6 DEF ClientCloses, Typed, session
<1>7. CASE WindowClosed
  BY <1>1, <1>7 DEF WindowClosed, Typed, session
<1>8. CASE Rejoin
  <2>1. /\ UNCHANGED <<topic, version, advTree, advReqs, threw>>
        /\ owes # "close" /\ owes' \in {"tree", owes} /\ Sends
        /\ menus' = [w \in WindowIds |-> 0]
    BY <1>8, RejoinDoes DEF Adds, Sends
  <2>2. IsSeq(net') /\ Len(net') <= Pending
    BY <1>1, <2>1, SendsKeeps
  <2>3. menus' \in [WindowIds -> {0, BrewingStand, Furnace}]
    BY <2>1
  <2>4. QED
    BY <1>1, <2>1, <2>2, <2>3 DEF Typed
<1>9. CASE Deliver
  <2>1. /\ net # << >> /\ net' = Tail(net)
        /\ UNCHANGED <<topic, version, advTree, advReqs, menus, owes>>
        /\ threw' \in {"layout", "number", "air", threw}
    BY <1>9 DEF Deliver, session
  <2>2. IsSeq(net') /\ Len(net') <= Pending
    <3>1. IsSeq(net) /\ Len(net) <= Pending /\ Pending \in Nat
      BY <1>1, PendingAssumption DEF Typed
    <3>2. IsSeq(Tail(net)) /\ Len(Tail(net)) = Len(net) - 1 /\ Len(net) \in Nat
      BY <2>1, <3>1, Shrinks
    <3>3. QED
      BY <2>1, <3>1, <3>2
  <2>3. QED
    BY <1>1, <2>1, <2>2 DEF Typed
<1>10. QED
  <2>1. version \in Nat
    BY <1>1, TypedTypes
  <2>2. QED
    BY <1>1, <1>2, <1>3, <1>4, <1>5, <1>6, <1>7, <1>8, <1>9, <2>1, StepsAre

-----------------------------------------------------------------------------
(* What the client reads, and its menu.                                    *)

MenuHeld ==
    topic = "menu" =>
        /\ board \in Panes /\ OneEach(net)
        /\ board # None => board.menu = Horse \/ menus[board.id] = board.menu
        /\ \E d : Trail(d, version, board, screen, net)

\* Nothing was refused, and what is on its way to another screen than the
\* menu is not going to be.
Sound ==
    /\ threw = "nothing"
    /\ topic # "menu" => \A i \in DOMAIN net : \A p \in ToSet(net[i]) : Legible(p)

\* A packet legible once is legible to that client always.
LEMMA LegibleStays ==
    ASSUME version' = version
    PROVE  \A p : Legible(p) => Legible(p)'
<1>1. ASSUME NEW p, Legible(p) PROVE Legible(p)'
  BY <1>1 DEF Legible, Reads, Knows, HasAir, TeamForm, SpawnForm, SlotsRead, SlotForm
<1>2. QED
  BY <1>1

\* Legible packets more keep what is on its way legible.
LEMMA AddsSound ==
    ASSUME Typed, Sound, Adds, UNCHANGED <<topic, version, threw>>
    PROVE  Sound'
<1>1. CASE net' = net
  BY <1>1, LegibleStays DEF Sound
<1>2. ASSUME NEW ps, net' = Append(net, ps), \A p \in ToSet(ps) : Legible(p)
      PROVE  Sound'
  <2>1. PICK n \in Nat : n = Len(net)
    BY Grows DEF Typed
  <2>2. /\ DOMAIN net = 1 .. n /\ DOMAIN net' = 1 .. (n + 1)
        /\ net'[n + 1] = ps /\ \A i \in 1 .. n : net'[i] = net[i]
    BY <1>2, <2>1, Grows DEF Typed
  <2>3. \A i \in 1 .. (n + 1) : i \in 1 .. n \/ i = n + 1
    OBVIOUS
  <2>4. ASSUME topic # "menu", NEW i \in DOMAIN net', NEW p \in ToSet(net'[i])
        PROVE  Legible(p)
    <3>1. CASE i = n + 1
      BY <1>2, <2>2, <2>4, <3>1
    <3>2. CASE i \in 1 .. n
      BY <2>2, <2>4, <3>2 DEF Sound
    <3>3. QED
      BY <2>2, <2>3, <2>4, <3>1, <3>2
  <2>5. topic' # "menu" => \A i \in DOMAIN net' : \A p \in ToSet(net'[i]) : Legible(p)'
    BY <2>4, LegibleStays
  <2>6. threw' = "nothing"
    BY DEF Sound
  <2>7. QED
    BY <2>5, <2>6 DEF Sound
<1>3. QED
  BY <1>1, <1>2 DEF Adds

\* What is read to a menu.
LEMMA MenuReads ==
    ASSUME NEW p, MenuPacket(p), Fits(version, screen, p)
    PROVE  Reads(p) /\ Knows(p) /\ ~HasAir(p)
<1>1. p.name \in {"login", "close", "open", "data"}
  BY DEF MenuPacket
<1>2. Reads(p) /\ ~HasAir(p)
  BY <1>1 DEF Reads, HasAir
<1>3. \A m : SlotsOf(m) = SlotsAt(version, m)
  BY DEF SlotsOf, SlotsAt
<1>4. Knows(p)
  BY <1>1, <1>3 DEF Knows, Fits
<1>5. QED
  BY <1>2, <1>4

\* No step makes a client throw, or sends one a packet it cannot read.
LEMMA SoundStep ==
    Typed /\ MenuHeld /\ Sound /\ [Next]_vars => Sound'
<1>1. SUFFICES ASSUME Typed, MenuHeld, Sound, [Next]_vars PROVE Sound'
  OBVIOUS
<1>2. CASE UNCHANGED vars
  BY <1>1, <1>2, LegibleStays DEF vars, Sound
<1>3. CASE OtherStep
  BY <1>1, <1>3, AddsSound DEF OtherStep, Speaks, Adds
<1>4. CASE AdvStep
  BY <1>1, <1>4, AddsSound, AdvStepDoes
<1>5. CASE MenuStep
  <2>1. topic = "menu" /\ topic' = topic /\ threw' = threw
    BY <1>1, <1>5, MenuStepDoes DEF MenuStep
  <2>2. QED
    BY <1>1, <2>1 DEF Sound
<1>6. CASE ClientCloses
  BY <1>1, <1>6 DEF ClientCloses, Sound
<1>7. CASE WindowClosed
  BY <1>1, <1>7, LegibleStays DEF WindowClosed, Sound
<1>8. CASE Rejoin
  BY <1>1, <1>8, AddsSound, RejoinDoes
<1>9. CASE Deliver
  <2>1. net # << >> /\ net' = Tail(net) /\ topic' = topic /\ version' = version
    BY <1>9 DEF Deliver
  <2>2. PICK n \in Nat : /\ n = Len(net) /\ n >= 1 /\ Head(net) = net[1]
                         /\ DOMAIN net = 1 .. n /\ DOMAIN net' = 1 .. (n - 1)
                         /\ \A i \in 1 .. (n - 1) : net'[i] = net[i + 1]
    BY <1>1, <2>1, Shrinks DEF Typed
  <2>3. \A p \in ToSet(Head(net)) : Reads(p) /\ Knows(p) /\ ~HasAir(p)
    <3>1. CASE topic = "menu"
      <4>1. PICK d : Trail(d, version, board, screen, net)
        BY <1>1, <3>1 DEF MenuHeld
      <4>2. OneEach(net)
        BY <1>1, <3>1 DEF MenuHeld
      <4>3. Fits(version, screen, net[1][1]) /\ \E p : net[1] = <<p>> /\ MenuPacket(p)
        BY <2>1, <4>1, <4>2, TrailShrinks
      <4>4. PICK p : net[1] = <<p>> /\ MenuPacket(p)
        BY <4>3
      <4>5. net[1][1] = p /\ ToSet(net[1]) = {p}
        <5>1. PICK s : s = <<p>>
          OBVIOUS
        <5>2. s[1] = p /\ ToSet(s) = {p}
          BY <5>1 DEF ToSet
        <5>3. QED
          BY <4>4, <5>1, <5>2
      <4>6. Reads(p) /\ Knows(p) /\ ~HasAir(p)
        BY <4>3, <4>4, <4>5, MenuReads
      <4>7. QED
        BY <2>2, <4>5, <4>6
    <3>2. CASE topic # "menu"
      <4>1. 1 \in DOMAIN net
        BY <2>2
      <4>2. QED
        BY <1>1, <2>2, <3>2, <4>1 DEF Sound, Legible
    <3>3. QED
      BY <3>1, <3>2
  <2>4. threw' = threw
    BY <1>9, <2>3 DEF Deliver
  <2>5. \A i \in 1 .. (n - 1) : i + 1 \in 1 .. n
    OBVIOUS
  <2>6. topic' # "menu" => \A i \in DOMAIN net' : \A p \in ToSet(net'[i]) : Legible(p)'
    <3>1. ASSUME topic' # "menu", NEW i \in DOMAIN net', NEW p \in ToSet(net'[i])
          PROVE  Legible(p)'
      <4>1. i + 1 \in DOMAIN net /\ p \in ToSet(net[i + 1])
        BY <2>2, <2>5, <3>1
      <4>2. Legible(p)
        BY <1>1, <2>1, <3>1, <4>1 DEF Sound
      <4>3. QED
        BY <2>1, <4>2, LegibleStays
    <3>2. QED
      BY <3>1
  <2>7. QED
    BY <1>1, <2>4, <2>6 DEF Sound
<1>10. QED
  <2>1. version \in Nat
    BY <1>1, TypedTypes
  <2>2. QED
    BY <1>1, <1>2, <1>3, <1>4, <1>5, <1>6, <1>7, <1>8, <1>9, <2>1, StepsAre

\* One packet read.
LEMMA AfterOne ==
    ASSUME topic = "menu", NEW s, NEW p, MenuPacket(p)
    PROVE  After(s, <<p>>) = Screened(s, p)
<1>1. PICK ps : ps = <<p>> /\ Len(ps) = 1 /\ ps[1] = p
  BY OneSeq
<1> DEFINE f == CHOOSE f : f = [i \in 0 .. 1 |-> IF i = 0 THEN s ELSE Shows(f[i - 1], ps[i])]
<1>2. \E g : g = [i \in 0 .. 1 |-> IF i = 0 THEN s ELSE Shows(g[i - 1], ps[i])]
  <2>1. PICK g : g = [i \in 0 .. 1 |-> IF i = 0 THEN s ELSE Shows(s, p)]
    OBVIOUS
  <2>2. g[0] = s
    BY <2>1
  <2>3. \A i \in 0 .. 1 : i = 0 \/ i = 1
    OBVIOUS
  <2>4. \A i \in 0 .. 1 : g[i] = IF i = 0 THEN s ELSE Shows(g[i - 1], ps[i])
    BY <1>1, <2>1, <2>2, <2>3
  <2>5. g = [i \in 0 .. 1 |-> IF i = 0 THEN s ELSE Shows(g[i - 1], ps[i])]
    BY <2>1, <2>4
  <2>6. QED
    BY <2>5
<1>3. f = [i \in 0 .. 1 |-> IF i = 0 THEN s ELSE Shows(f[i - 1], ps[i])]
  BY <1>2
<1>4. After(s, ps) = f[1]
  BY <1>1 DEF After, DeedTopics
<1> HIDE DEF f
<1>5. f[0] = s
  BY <1>3
<1>6. f[1] = Shows(f[0], ps[1])
  BY <1>3
<1>7. Shows(s, p) = Screened(s, p)
  <2>1. p.name \in {"login", "close", "open", "data"} /\ Blank("menu") = None
    BY DEF MenuPacket, Blank, DeedTopics
  <2>2. QED
    BY <2>1 DEF Shows, Draws, Screened
<1>8. QED
  BY <1>1, <1>4, <1>5, <1>6, <1>7

\* A frame to the menu, and what the world has of it from then on.
LEMMA SendsMenu ==
    ASSUME Typed, MenuHeld, topic = "menu", UNCHANGED <<topic, version, screen>>,
           NEW p, net' = Append(net, <<p>>), MenuPacket(p), board' \in Panes,
           board' # None => board'.menu = Horse \/ menus'[board'.id] = board'.menu,
           \A s \in Panes : Agrees(version, s, board) =>
               Fits(version, s, p) /\ Agrees(version, Screened(s, p), board')
    PROVE  MenuHeld'
<1>1. PICK d : Trail(d, version, board, screen, net)
  BY DEF MenuHeld
<1>2. OneEach(net)
  BY DEF MenuHeld
<1>3. PICK s \in Panes : s = d[Len(net)] /\ Agrees(version, s, board)
  <2>1. Len(net) \in Nat
    BY Grows DEF Typed
  <2>2. Len(net) \in 0 .. Len(net)
    BY <2>1
  <2>3. d[Len(net)] \in Panes /\ Agrees(version, d[Len(net)], board)
    BY <1>1, <2>2 DEF Trail
  <2>4. QED
    BY <2>3
<1>4. Fits(version, d[Len(net)], p) /\ Agrees(version, Screened(d[Len(net)], p), board')
  BY <1>3
<1>5. /\ OneEach(Append(net, <<p>>))
      /\ \E e : Trail(e, version, board', screen, Append(net, <<p>>))
  BY <1>1, <1>2, <1>4, TrailGrows
<1>6. OneEach(net') /\ \E e : Trail(e, version', board', screen', net')
  BY <1>5
<1>7. QED
  BY <1>6 DEF MenuHeld

\* Nothing to send, as the client could not show it.
LEMMA KeepsMenu ==
    ASSUME Typed, MenuHeld, topic = "menu", UNCHANGED <<topic, version, screen, net>>,
           board' \in Panes,
           board' # None => board'.menu = Horse \/ menus'[board'.id] = board'.menu,
           \A s : Agrees(version, s, board) => Agrees(version, s, board')
    PROVE  MenuHeld'
<1>1. PICK d : Trail(d, version, board, screen, net)
  BY DEF MenuHeld
<1>2. Trail(d, version, board', screen, net)
  BY <1>1 DEF Trail
<1>3. Trail(d, version', board', screen', net')
  BY <1>2
<1>4. OneEach(net')
  BY DEF MenuHeld
<1>5. QED
  BY <1>3, <1>4 DEF MenuHeld

\* A window opened keeps the trace: what its data arrives at is the new pane.
LEMMA OpenKeeps ==
    ASSUME Typed, MenuHeld, topic = "menu", NEW w \in WindowIds, NEW m \in Menus,
           Len(net) < Pending,
           Tell(Window(w, m), Packet("open", w, F("menu", m))),
           m = Horse \/ menus'[w] = m
    PROVE  MenuHeld'
<1>1. PICK p : /\ p.name = "open" /\ p.op = w /\ p.fields = F("menu", m)
               /\ Packet("open", w, F("menu", m)) = <<p>>
  BY PacketOf
<1>2. PICK b : b = Window(w, m) /\ b.id = w /\ b.menu = m /\ b \in Windows
  <2>1. Window(w, m).id = w /\ Window(w, m).menu = m /\ Window(w, m) \in Windows
    BY DEF Window, Windows
  <2>2. QED
    BY <2>1
<1>3. <<p>> # << >>
  OBVIOUS
<1>4. board' = b /\ net' = Append(net, <<p>>) /\ UNCHANGED <<topic, version, screen>>
  BY <1>1, <1>2, <1>3 DEF Tell
<1>5. MenuPacket(p)
  BY <1>1 DEF MenuPacket
<1>6. \A s : Fits(version, s, p) /\ Screened(s, p) = b
  <2>1. Of(p.fields, "menu") = m
    BY <1>1, FieldWithout, CarriesOf DEF With
  <2>2. QED
    BY <1>1, <1>2, <2>1 DEF Fits, Screened, ShowsMenu
<1>7. Agrees(version, b, b)
  BY DEF Agrees
<1>8. board' \in Panes /\ (board'.menu = Horse \/ menus'[board'.id] = board'.menu)
  BY <1>2, <1>4 DEF Panes
<1>9. \A s \in Panes : Agrees(version, s, board) =>
               Fits(version, s, p) /\ Agrees(version, Screened(s, p), board')
  BY <1>4, <1>6, <1>7
<1>10. QED
  BY <1>4, <1>5, <1>8, <1>9, SendsMenu

\* The window of the client and of the world are closed.
LEMMA CloseKeeps ==
    ASSUME Typed, MenuHeld, topic = "menu", NEW name \in {"login", "close"}, NEW op, NEW fields,
           Len(net) < Pending, Tell(None, Packet(name, op, fields))
    PROVE  MenuHeld'
<1>1. PICK p : p.name = name /\ Packet(name, op, fields) = <<p>>
  BY PacketOf
<1>2. <<p>> # << >>
  OBVIOUS
<1>3. board' = None /\ net' = Append(net, <<p>>) /\ UNCHANGED <<topic, version, screen>>
  BY <1>1, <1>2 DEF Tell
<1>4. MenuPacket(p)
  BY <1>1 DEF MenuPacket
<1>5. \A s : Fits(version, s, p) /\ Agrees(version, s, board')
  BY <1>1, <1>3 DEF Fits, Agrees
<1>6. board' \in Panes
  BY <1>3 DEF Panes
<1>7. QED
  BY <1>3, <1>4, <1>5, <1>6, SendsMenu

\* A data slot is told of exactly if the client's window has it.
LEMMA DataKeeps ==
    ASSUME Typed, MenuHeld, topic = "menu", NEW prop \in Props, NEW value \in {0, 5},
           WindowData(prop, value)
    PROVE  MenuHeld'
<1>1. PICK b \in Windows : /\ b = board /\ b # None /\ b.menu \in {BrewingStand, Furnace}
                           /\ menus[b.id] = b.menu
  <2>1. board # None /\ board.menu # Horse /\ board \in Windows
    BY DEF WindowData, MenuHeld, Panes
  <2>2. menus[board.id] = board.menu /\ board.menu \in {BrewingStand, Furnace}
    BY <2>1 DEF MenuHeld, Windows, Menus
  <2>3. QED
    BY <2>1, <2>2
<1>2. PICK c : c = [b EXCEPT !.data[prop] = value]
  OBVIOUS
<1>3. /\ c \in Windows /\ c.id = b.id /\ c.menu = b.menu
      /\ c.data = [b.data EXCEPT ![prop] = value] /\ b.data \in [Props -> {0, 5}]
  BY <1>2 DEF Windows
<1>4. PICK f, ps : /\ f = F("prop", prop) \o F("value", value)
                   /\ ps = Packet("data", b.id, f)
  OBVIOUS
<1>5. PICK p : p.name = "data" /\ p.op = b.id /\ p.fields = f /\ ps = <<p>>
  <2>1. PICK w, g : w = b.id /\ g = f
    OBVIOUS
  <2>2. PICK p : p.name = "data" /\ p.op = w /\ p.fields = g /\ Packet("data", w, g) = <<p>>
    BY PacketOf
  <2>3. ps = <<p>>
    BY <1>4, <2>1, <2>2
  <2>4. QED
    BY <2>1, <2>2, <2>3
<1>6. Of(p.fields, "prop") = prop /\ Of(p.fields, "value") = value
  <2>1. PICK g : g = F("prop", prop) \o F("value", value)
    OBVIOUS
  <2>2. Of(g, "prop") = prop /\ Of(g, "value") = value
    BY <2>1, DataFields
  <2>3. p.fields = g
    BY <1>4, <1>5, <2>1
  <2>4. QED
    BY <2>2, <2>3
<1>7. MenuPacket(p)
  BY <1>1, <1>4, <1>5 DEF MenuPacket, Windows
<1>8. /\ windowDataFits(b.menu, prop) <=> prop \in SlotsAt(version, b.menu)
      /\ SlotsAt(version, b.menu) \subseteq Props
  <2>1. prop = 1 \/ prop = 2
    BY DEF Props
  <2>2. CASE b.menu = BrewingStand /\ version < 777
    <3>1. SlotsAt(version, b.menu) = {1}
      BY <2>2 DEF SlotsAt, BrewingStand, Horse
    <3>2. QED
      BY <2>1, <2>2, <3>1 DEF windowDataFits, Props
  <2>3. CASE ~(b.menu = BrewingStand /\ version < 777)
    <3>1. SlotsAt(version, b.menu) = Props
      BY <1>1, <2>3 DEF SlotsAt, BrewingStand, Horse, Furnace
    <3>2. QED
      BY <2>3, <3>1 DEF windowDataFits
  <2>4. QED
    BY <2>2, <2>3
<1>9. /\ Len(net) < Pending /\ UNCHANGED <<topic, version, screen, menus>> /\ board' = c
      /\ net' = IF If(windowDataFits(b.menu, prop), ps) = << >> THEN net
                ELSE Append(net, If(windowDataFits(b.menu, prop), ps))
  <2>1. Say("menu", c, If(windowDataFits(b.menu, prop), ps))
    BY <1>1, <1>2, <1>4 DEF WindowData
  <2>2. QED
    BY <2>1 DEF Say, Room, Tell, session
<1>10. board' \in Panes /\ (board'.menu = Horse \/ menus'[board'.id] = board'.menu)
  BY <1>1, <1>3, <1>9 DEF Panes
<1>11. CASE windowDataFits(b.menu, prop)
  <2>1. <<p>> # << >>
    OBVIOUS
  <2>2. net' = Append(net, <<p>>)
    BY <1>5, <1>9, <1>11, <2>1 DEF If
  <2>3. ASSUME NEW s \in Panes, Agrees(version, s, b)
        PROVE  Fits(version, s, p) /\ Agrees(version, Screened(s, p), c)
    <3>1. Screened(s, p) = IF s = None \/ s.id # b.id THEN s
                           ELSE [s EXCEPT !.data[prop] = value]
      BY <1>5, <1>6 DEF Screened, ShowsMenu
    <3>2. CASE s = None \/ s.id # b.id
      BY <1>3, <1>5, <3>1, <3>2 DEF Fits, Agrees
    <3>3. CASE s # None /\ s.id = b.id
      <4>1. s.menu = b.menu /\ (\A q \in SlotsAt(version, b.menu) : s.data[q] = b.data[q])
        BY <1>1, <2>3, <3>3 DEF Agrees
      <4>2. s \in Windows /\ s.data \in [Props -> {0, 5}]
        BY <3>3 DEF Panes, Windows
      <4>3. PICK t : t = [s EXCEPT !.data[prop] = value]
        OBVIOUS
      <4>4. t.id = s.id /\ t.menu = s.menu /\ t.data = [s.data EXCEPT ![prop] = value]
        BY <4>2, <4>3 DEF Windows
      <4>5. \A q \in SlotsAt(version, b.menu) : t.data[q] = c.data[q]
        BY <1>3, <1>8, <4>1, <4>2, <4>4
      <4>6. Fits(version, s, p)
        BY <1>6, <1>8, <1>11, <4>1 DEF Fits
      <4>7. Agrees(version, t, c)
        BY <1>3, <4>1, <4>4, <4>5 DEF Agrees
      <4>8. QED
        BY <3>1, <3>3, <4>3, <4>6, <4>7
    <3>4. QED
      BY <3>2, <3>3
  <2>4. \A s \in Panes : Agrees(version, s, board) =>
               Fits(version, s, p) /\ Agrees(version, Screened(s, p), board')
    BY <1>1, <1>9, <2>3
  <2>5. QED
    BY <1>7, <1>9, <1>10, <2>2, <2>4, SendsMenu
<1>12. CASE ~windowDataFits(b.menu, prop)
  <2>1. net' = net
    BY <1>9, <1>12 DEF If
  <2>2. ASSUME NEW s, Agrees(version, s, b)
        PROVE  Agrees(version, s, c)
    <3>1. \A q \in SlotsAt(version, b.menu) : q # prop /\ q \in Props
      BY <1>8, <1>12
    <3>2. \A q \in SlotsAt(version, b.menu) : c.data[q] = b.data[q]
      BY <1>3, <3>1
    <3>3. QED
      BY <1>1, <1>3, <2>2, <3>2 DEF Agrees
  <2>3. \A s : Agrees(version, s, board) => Agrees(version, s, board')
    BY <1>1, <1>9, <2>2
  <2>4. QED
    BY <1>9, <1>10, <2>1, <2>3, KeepsMenu
<1>13. QED
  BY <1>11, <1>12

\* The window screen starts with no trace to follow,
LEMMA MenuInit ==
    Init => MenuHeld /\ Sound
<1>1. SUFFICES ASSUME Init PROVE MenuHeld /\ Sound
  OBVIOUS
<1>2. net = << >> /\ threw = "nothing"
  BY <1>1 DEF Init
<1>3. Sound
  BY <1>2 DEF Sound
<1>4. ASSUME topic = "menu" PROVE MenuHeld
  <2>1. board = None /\ screen = None
    BY <1>1, <1>4 DEF Init, Blank, DeedTopics
  <2>2. OneEach(net)
    BY <1>2, NothingSeq DEF OneEach
  <2>3. PICK d : d = [i \in 0 .. 0 |-> None]
    OBVIOUS
  <2>4. Len(net) = 0
    BY <1>2
  <2>5. d \in [0 .. 0 -> Panes] /\ d[0] = None
    BY <2>3 DEF Panes
  <2>6. Trail(d, version, board, screen, net)
    BY <2>1, <2>4, <2>5 DEF Trail, Agrees
  <2>7. QED
    BY <2>1, <2>2, <2>6 DEF MenuHeld, Panes
<1>5. QED
  BY <1>3, <1>4 DEF MenuHeld

\* and each step extends or shortens the trace by what it sends or delivers.
LEMMA MenuHeldStep ==
    Typed /\ MenuHeld /\ [Next]_vars => MenuHeld'
<1>1. SUFFICES ASSUME Typed, MenuHeld, [Next]_vars PROVE MenuHeld'
  OBVIOUS
<1>2. CASE UNCHANGED vars
  BY <1>1, <1>2 DEF vars, MenuHeld
<1>3. CASE OtherStep
  BY <1>3 DEF OtherStep, Speaks, MenuHeld
<1>4. CASE AdvStep
  BY <1>1, <1>4, AdvStepDoes DEF MenuHeld
<1>5. CASE MenuStep
  <2>1. topic = "menu"
    BY <1>5 DEF MenuStep
  <2>2. ASSUME NEW w \in WindowIds, NEW m \in {BrewingStand, Furnace}, WindowOpen(w, m)
        PROVE  MenuHeld'
    <3>1. m \in Menus /\ Len(net) < Pending /\ menus' = [menus EXCEPT ![w] = m]
          /\ Tell(Window(w, m), Packet("open", w, F("menu", m)))
      BY <2>2 DEF WindowOpen, Room, Menus
    <3>2. menus'[w] = m
      BY <1>1, <3>1 DEF Typed
    <3>3. QED
      BY <1>1, <2>1, <3>1, <3>2, OpenKeeps
  <2>3. ASSUME NEW w \in WindowIds, HorseScreen(w)
        PROVE  MenuHeld'
    <3>1. PICK m \in Menus : m = Horse
      BY DEF Menus
    <3>2. Len(net) < Pending /\ Tell(Window(w, m), Packet("open", w, F("menu", m)))
      BY <2>3, <3>1 DEF HorseScreen, Say, Room
    <3>3. QED
      BY <1>1, <2>1, <3>1, <3>2, OpenKeeps
  <2>4. ASSUME NEW prop \in Props, NEW value \in {0, 5}, WindowData(prop, value)
        PROVE  MenuHeld'
    BY <1>1, <2>1, <2>4, DataKeeps
  <2>5. ASSUME WindowCloseServer
        PROVE  MenuHeld'
    <3>1. PICK f : f = << >>
      OBVIOUS
    <3>2. Len(net) < Pending /\ Tell(None, Packet("close", board.id, f))
      BY <2>5, <3>1 DEF WindowCloseServer, Say, Room
    <3>3. QED
      BY <1>1, <2>1, <3>2, CloseKeeps
  <2>6. QED
    BY <1>5, <2>2, <2>3, <2>4, <2>5 DEF MenuStep
<1>6. CASE ClientCloses
  <2>1. topic = "menu" /\ screen' = None /\ UNCHANGED <<topic, version, board, net, menus>>
    BY <1>6 DEF ClientCloses, session
  <2>2. PICK d : Trail(d, version, board, screen, net)
    BY <1>1, <2>1 DEF MenuHeld
  <2>3. OneEach(net)
    BY <1>1, <2>1 DEF MenuHeld
  <2>4. \E e : Trail(e, version, board, None, net)
    BY <2>2, <2>3, TrailCloses
  <2>5. \E e : Trail(e, version', board', screen', net')
    BY <2>1, <2>4
  <2>6. QED
    BY <1>1, <2>1, <2>5 DEF MenuHeld
<1>7. CASE WindowClosed
  <2>1. topic = "menu" /\ board' = None /\ UNCHANGED <<topic, version, screen, net, menus>>
    BY <1>1, <1>7 DEF WindowClosed, session, Typed
  <2>2. board' \in Panes /\ \A s : Agrees(version, s, board')
    BY <2>1 DEF Panes, Agrees
  <2>3. QED
    BY <1>1, <2>1, <2>2, KeepsMenu
<1>8. CASE Rejoin
  <2>1. UNCHANGED topic
    BY <1>8, RejoinDoes
  <2>2. CASE topic = "menu"
    <3>1. PICK f : f = << >>
      OBVIOUS
    <3>2. Blank("menu") = None
      BY DEF Blank, DeedTopics
    <3>3. Len(net) < Pending /\ Tell(None, Packet("login", "play", f))
      BY <1>8, <2>2, <3>1, <3>2 DEF Rejoin, Room
    <3>4. QED
      BY <1>1, <2>2, <3>3, CloseKeeps
  <2>3. QED
    BY <2>1, <2>2 DEF MenuHeld
<1>9. CASE Deliver
  <2>1. /\ net # << >> /\ net' = Tail(net) /\ screen' = After(screen, Head(net))
        /\ UNCHANGED <<topic, version, board, menus>>
    BY <1>9 DEF Deliver, session
  <2>2. CASE topic = "menu"
    <3>1. PICK d : Trail(d, version, board, screen, net)
      BY <1>1, <2>2 DEF MenuHeld
    <3>2. OneEach(net)
      BY <1>1, <2>2 DEF MenuHeld
    <3>3. /\ OneEach(Tail(net))
          /\ \E e : Trail(e, version, board, Screened(screen, net[1][1]), Tail(net))
          /\ \E p : net[1] = <<p>> /\ MenuPacket(p)
      BY <2>1, <3>1, <3>2, TrailShrinks
    <3>4. PICK p : net[1] = <<p>> /\ MenuPacket(p)
      BY <3>3
    <3>5. Head(net) = net[1] /\ net[1][1] = p
      <4>1. Head(net) = net[1]
        BY <1>1, <2>1, Shrinks DEF Typed
      <4>2. QED
        BY <3>4, <4>1, OneSeq
    <3>6. screen' = Screened(screen, p)
      BY <2>1, <2>2, <3>4, <3>5, AfterOne
    <3>7. OneEach(net') /\ \E e : Trail(e, version', board', screen', net')
      BY <2>1, <3>3, <3>5, <3>6
    <3>8. QED
      BY <1>1, <2>1, <2>2, <3>7 DEF MenuHeld
  <2>3. QED
    BY <2>1, <2>2 DEF MenuHeld
<1>10. QED
  <2>1. version \in Nat
    BY <1>1, TypedTypes
  <2>2. QED
    BY <1>1, <1>2, <1>3, <1>4, <1>5, <1>6, <1>7, <1>8, <1>9, <2>1, StepsAre

-----------------------------------------------------------------------------
(* The tree and its index.                                                 *)

Boards == [tree : Trees, done : [Nodes -> SUBSET {"a", "b"}], coming : Trees]

Indexed == advTree # None => DOMAIN advReqs = ToSet(advTree)

\* The session's tree is what the client shows, or has in it what was announced.
TreeHeld ==
    /\ Indexed
    /\ topic = "advancements" =>
          /\ board \in Boards
          /\ owes = "tree" => beside = {}
          /\ owes = "nothing" => /\ advTree # None /\ ToSet(advTree) = board.tree \cup beside
                                /\ board.tree \cap beside = {}
          /\ owes = "progress" => advTree # None /\ board.coming \subseteq ToSet(advTree)

\* The tree and its index are both held or neither.
LEMMA HeldBoth ==
    ASSUME Held(advTree, advReqs)
    PROVE  /\ (advTree = None) <=> (advReqs = None)
           /\ advTree # None => advTree \in Seq(Nodes)
<1>1. CASE advTree = None /\ advReqs = None
  BY <1>1
<1>2. CASE advTree \in Seq(Nodes) /\ \E S \in SUBSET Nodes : advReqs \in [S -> Seq({"a", "b"})]
  BY <1>2, NoneAssumption
<1>3. QED
  BY <1>1, <1>2 DEF Held

\* A tree held back is indexed as sent.
LEMMA WholeIndexed ==
    ASSUME NEW t \in Trees, NEW b, NEW removed, NEW reset,
           AdvTree(b, InOrder(t), removed, reset), advReqs = None \/ reset
    PROVE  Indexed' /\ advTree' # None /\ ToSet(advTree') = t /\ board' = b
<1>1. PICK nodes \in Seq(Nodes) : nodes = InOrder(t) /\ ToSet(nodes) = t
  <2>1. Nodes \cap t = t
    BY DEF Trees, Nodes
  <2>2. QED
    BY <2>1, OrderIs
<1>2. advTree' = nodes /\ advReqs' = ReqIndex(nodes) /\ Tell(b, << >>)
  BY <1>1 DEF AdvTree
<1>3. DOMAIN ReqIndex(nodes) = ToSet(nodes)
  BY DEF ReqIndex
<1>4. nodes # None
  BY NoneAssumption
<1>5. QED
  BY <1>1, <1>2, <1>3, <1>4 DEF Indexed, Tell

\* A change of the tree is indexed as the tree it leads to, for both keep the same nodes.
LEMMA ChangeIndexed ==
    ASSUME Held(advTree, advReqs), Indexed, advTree # None, NEW added \in SUBSET Nodes,
           NEW removed, NEW b, AdvTree(b, InOrder(added), removed, FALSE)
    PROVE  /\ Indexed' /\ advTree' # None /\ board' = b
           /\ ToSet(advTree') = (ToSet(advTree) \ removed) \cup added
<1>1. PICK nodes \in Seq(Nodes) : nodes = InOrder(added) /\ ToSet(nodes) = added
  <2>1. Nodes \cap added = added
    OBVIOUS
  <2>2. QED
    BY <2>1, OrderIs
<1>2. PICK tree, old : tree \in Seq(Nodes) /\ tree = advTree /\ old = ToSet(tree)
  BY HeldBoth
<1>3. advReqs # None /\ DOMAIN advReqs = old
  BY <1>2, HeldBoth DEF Indexed
<1>4. PICK kept \in Seq(Nodes) : kept = Kept(tree, old \ removed) /\ ToSet(kept) = old \ removed
  <2>1. PICK S : S = old \ removed
    OBVIOUS
  <2>2. Kept(tree, S) \in Seq(Nodes) /\ ToSet(Kept(tree, S)) = ToSet(tree) \cap S
    BY <1>2, KeptIs
  <2>3. QED
    BY <1>2, <2>1, <2>2
<1>5. kept \o nodes \in Seq(Nodes) /\ ToSet(kept \o nodes) = (old \ removed) \cup added
  <2>1. /\ kept \o nodes \in Seq(Nodes)
        /\ ToSet(kept \o nodes) = ToSet(kept) \cup ToSet(nodes)
    BY JoinIs
  <2>2. QED
    BY <1>1, <1>4, <2>1
<1>6. kept \o nodes # None
  BY <1>5, NoneAssumption
<1>7. /\ advTree' = kept \o nodes
      /\ advReqs' = [n \in (DOMAIN advReqs \ removed) \cup ToSet(nodes) |->
                           IF n \in ToSet(nodes) THEN CriteriaOf(n) ELSE advReqs[n]]
      /\ board' = b
  BY <1>1, <1>2, <1>3, <1>4 DEF AdvTree, Tell
<1>8. DOMAIN advReqs' = (old \ removed) \cup added
  BY <1>1, <1>3, <1>7
<1>9. QED
  BY <1>2, <1>5, <1>6, <1>7, <1>8 DEF Indexed

\* So is a tree of a rejoin, as an addition.
LEMMA AdditionIndexed ==
    ASSUME Held(advTree, advReqs), Indexed, advTree # None, NEW t \in Trees, NEW b,
           NEW reset, ~reset, AdvTree(b, InOrder(t), {}, reset)
    PROVE  Indexed' /\ advTree' # None /\ board' = b /\ t \subseteq ToSet(advTree')
<1>1. t \in SUBSET Nodes
  BY DEF Trees, Nodes
<1>2. AdvTree(b, InOrder(t), {}, FALSE)
  BY DEF AdvTree
<1>3. PICK none : none = {}
  OBVIOUS
<1>4. /\ Indexed' /\ advTree' # None /\ board' = b
      /\ ToSet(advTree') = (ToSet(advTree) \ none) \cup t
  BY <1>1, <1>2, <1>3, ChangeIndexed
<1>5. QED
  BY <1>4

\* The advancements screen starts with an empty tree.
LEMMA BlankTree ==
    Blank("advancements") = [tree |-> {}, done |-> [n \in Nodes |-> {}], coming |-> {}]
  BY DEF Blank, DeedTopics

\* Nothing is indexed at first,
LEMMA TreeInit ==
    Init => TreeHeld
<1>1. SUFFICES ASSUME Init PROVE TreeHeld
  OBVIOUS
<1>2. Indexed
  BY <1>1 DEF Init, Indexed
<1>3. CASE topic = "advancements"
  <2>1. /\ board = [tree |-> {}, done |-> [n \in Nodes |-> {}], coming |-> {}] /\ owes = "tree"
        /\ beside = {}
    <3>1. /\ board = Blank(topic) /\ beside = {}
          /\ owes = (IF topic = "advancements" THEN "tree" ELSE "nothing")
      BY <1>1 DEF Init
    <3>2. QED
      BY <1>3, <3>1, BlankTree
  <2>2. board \in Boards
    BY <2>1 DEF Boards, Trees
  <2>3. QED
    BY <1>2, <2>1, <2>2 DEF TreeHeld
<1>4. QED
  BY <1>2, <1>3 DEF TreeHeld

\* and each step keeps the index to the tree.
LEMMA TreeStep ==
    Typed /\ TreeHeld /\ [Next]_vars => TreeHeld'
<1>1. SUFFICES ASSUME Typed, TreeHeld, [Next]_vars PROVE TreeHeld'
  OBVIOUS
<1>2. CASE UNCHANGED vars
  BY <1>1, <1>2 DEF vars, TreeHeld, Indexed
<1>3. CASE OtherStep
  BY <1>1, <1>3 DEF OtherStep, Speaks, TreeHeld, Indexed
<1>4. CASE AdvStep
  <2>1. topic = "advancements" /\ topic' = topic
    BY <1>1, <1>4, AdvStepDoes
  <2>2. board \in Boards /\ Held(advTree, advReqs) /\ Indexed
    BY <1>1, <2>1 DEF TreeHeld, Typed
  <2>3. ASSUME NEW t \in Trees, NEW reset \in BOOLEAN, AdvTreeWhole(t, reset)
        PROVE  TreeHeld'
    <3>1. PICK b : b = [board EXCEPT !.coming = t]
      OBVIOUS
    <3>2. AdvTree(b, InOrder(t), {}, reset) /\ owes' = "progress"
      BY <2>3, <3>1 DEF AdvTreeWhole
    <3>3. Indexed' /\ advTree' # None /\ board' = b
      <4>1. CASE advReqs = None \/ reset
        BY <3>2, <4>1, WholeIndexed
      <4>2. CASE ~(advReqs = None \/ reset)
        BY <2>2, <3>2, <4>2, HeldBoth, AdditionIndexed
      <4>3. QED
        BY <4>1, <4>2
    <3>4. t \subseteq ToSet(advTree')
      <4>1. CASE advReqs = None \/ reset
        BY <3>2, <4>1, WholeIndexed
      <4>2. CASE ~(advReqs = None \/ reset)
        BY <2>2, <3>2, <4>2, HeldBoth, AdditionIndexed
      <4>3. QED
        BY <4>1, <4>2
    <3>5. b \in Boards /\ b.coming = t
      BY <2>2, <3>1 DEF Boards
    <3>6. QED
      BY <3>2, <3>3, <3>4, <3>5 DEF TreeHeld
  <2>4. ASSUME NEW d \in Snapshots({"root", "leaf"}), AdvProgressWhole(d)
        PROVE  TreeHeld'
    <3>1. PICK b : b = [tree |-> board.coming, done |-> d, coming |-> {}]
      OBVIOUS
    <3>2. /\ owes = "progress" /\ owes' = "nothing" /\ AdvProgress(b, board.coming, TRUE)
          /\ beside' = ToSet(advTree) \ board.coming
      BY <2>4, <3>1 DEF AdvProgressWhole
    <3>3. board' = b /\ advTree' = advTree /\ advReqs' = advReqs
      BY <3>2 DEF AdvProgress, Tell
    <3>4. d \in [Nodes -> SUBSET {"a", "b"}]
      BY DEF Snapshots
    <3>5. b \in Boards /\ b.tree = board.coming
      BY <2>2, <3>1, <3>4 DEF Boards, Trees
    <3>6. advTree # None /\ board.coming \subseteq ToSet(advTree)
      BY <1>1, <2>1, <3>2 DEF TreeHeld
    <3>7. QED
      BY <2>2, <3>2, <3>3, <3>5, <3>6 DEF TreeHeld, Indexed
  <2>5. ASSUME NEW t \in Trees, AdvTreeChanged(t)
        PROVE  TreeHeld'
    <3>1. PICK b, old : b = [board EXCEPT !.tree = t] /\ old = board.tree
      OBVIOUS
    <3>2. /\ AdvTree(b, InOrder(t \ old), old \ t, FALSE) /\ owes = "nothing" /\ owes' = owes
          /\ beside' = beside \ t
      BY <2>5, <3>1 DEF AdvTreeChanged
    <3>3. advTree # None /\ ToSet(advTree) = old \cup beside /\ old \cap beside = {}
      BY <1>1, <2>1, <2>2, <3>1, <3>2 DEF TreeHeld, Boards
    <3>4. t \ old \in SUBSET Nodes
      BY DEF Trees, Nodes
    <3>5. /\ Indexed' /\ advTree' # None /\ board' = b
          /\ ToSet(advTree') = (ToSet(advTree) \ (old \ t)) \cup (t \ old)
      BY <2>2, <3>2, <3>3, <3>4, ChangeIndexed
    <3>6. ToSet(advTree') = t \cup beside'
      BY <3>2, <3>3, <3>5
    <3>7. b \in Boards /\ b.tree = t
      BY <2>2, <3>1 DEF Boards
    <3>8. QED
      BY <3>2, <3>5, <3>6, <3>7 DEF TreeHeld
  <2>6. ASSUME NEW n \in Nodes, NEW done \in SUBSET {"a", "b"}, AdvGranted(n, done)
        PROVE  TreeHeld'
    <3>1. PICK b : b = [board EXCEPT !.done[n] = done]
      OBVIOUS
    <3>2. owes = "nothing" /\ owes' = owes /\ AdvProgress(b, {n}, FALSE) /\ beside' = beside
      BY <2>6, <3>1 DEF AdvGranted
    <3>3. board' = b /\ advTree' = advTree /\ advReqs' = advReqs
      BY <3>2 DEF AdvProgress, Tell
    <3>4. b \in Boards /\ b.tree = board.tree
      BY <2>2, <3>1 DEF Boards
    <3>5. /\ advTree # None /\ ToSet(advTree) = board.tree \cup beside
          /\ board.tree \cap beside = {}
      BY <1>1, <2>1, <3>2 DEF TreeHeld
    <3>6. QED
      BY <2>2, <3>2, <3>3, <3>4, <3>5 DEF TreeHeld, Indexed
  <2>7. QED
    BY <1>4, <2>3, <2>4, <2>5, <2>6 DEF AdvStep
<1>5. CASE MenuStep
  <2>1. topic = "menu" /\ UNCHANGED <<topic, advTree, advReqs>>
    BY <1>1, <1>5, MenuStepDoes DEF MenuStep
  <2>2. QED
    BY <1>1, <2>1 DEF TreeHeld, Indexed
<1>6. CASE ClientCloses
  BY <1>1, <1>6 DEF ClientCloses, session, TreeHeld, Indexed
<1>7. CASE WindowClosed
  BY <1>1, <1>7 DEF WindowClosed, session, Typed, TreeHeld, Indexed
<1>8. CASE Rejoin
  <2>1. UNCHANGED <<topic, advTree, advReqs>> /\ board' = Blank(topic)
    BY <1>8, RejoinDoes
  <2>2. Indexed'
    BY <1>1, <2>1 DEF TreeHeld, Indexed
  <2>3. CASE topic = "advancements"
    <3>1. owes' = "tree" /\ beside' = {}
      BY <1>8, <2>3 DEF Rejoin
    <3>2. board' = [tree |-> {}, done |-> [n \in Nodes |-> {}], coming |-> {}]
      BY <2>1, <2>3, BlankTree
    <3>3. board' \in Boards
      BY <3>2 DEF Boards, Trees
    <3>4. QED
      BY <2>1, <2>2, <3>1, <3>3 DEF TreeHeld
  <2>4. QED
    BY <2>1, <2>2, <2>3 DEF TreeHeld
<1>9. CASE Deliver
  BY <1>1, <1>9 DEF Deliver, session, TreeHeld, Indexed
<1>10. QED
  <2>1. version \in Nat
    BY <1>1, TypedTypes
  <2>2. QED
    BY <1>1, <1>2, <1>3, <1>4, <1>5, <1>6, <1>7, <1>8, <1>9, <2>1, StepsAre

-----------------------------------------------------------------------------
(* What the packets on their way add up to.                                *)

\* A screen t once a packet is read, and what it runs through as packets are.
Sees(t, s, p) == IF p.name = "login" THEN Blank(t) ELSE Draws(s, p)
Draw(f, t, s, ps) == f[0] = s /\ \A i \in 1 .. Len(ps) : f[i] = Sees(t, f[i - 1], ps[i])

\* Packets read together lead from s to e,
Leads(t, v, s, ps, e) ==
    IF t \in DeedTopics THEN e = FlattenSeq([i \in DOMAIN ps |-> Hears(ps[i], v)])
    ELSE Len(ps) \in Nat /\ \E f : Draw(f, t, s, ps) /\ e = f[Len(ps)]

\* and frames of them along g.
Path(g, t, v, s, frames) ==
    g[0] = s /\ \A i \in 1 .. Len(frames) : Leads(t, v, g[i - 1], frames[i], g[i])

\* The model's loop over packets ends where they lead,
LEMMA AfterIs ==
    \A s, ps, e : Leads(topic, version, s, ps, e) => After(s, ps) = e
<1>1. SUFFICES ASSUME NEW s, NEW ps, NEW e, Leads(topic, version, s, ps, e)
               PROVE  After(s, ps) = e
  OBVIOUS
<1>2. CASE topic \in DeedTopics
  BY <1>1, <1>2 DEF Leads, After
<1>3. CASE topic \notin DeedTopics
  <2>1. PICK n \in Nat : n = Len(ps)
    BY <1>1, <1>3 DEF Leads
  <2>2. PICK f : Draw(f, topic, s, ps) /\ e = f[n]
    BY <1>1, <1>3, <2>1 DEF Leads
  <2>3. PICK g : g = [i \in 0 .. n |-> f[i]]
    OBVIOUS
  <2>4. g = [i \in 0 .. n |-> IF i = 0 THEN s ELSE Shows(g[i - 1], ps[i])]
    <3>1. ASSUME NEW i \in 0 .. n PROVE g[i] = IF i = 0 THEN s ELSE Shows(g[i - 1], ps[i])
      <4>1. CASE i = 0
        BY <2>2, <2>3, <4>1 DEF Draw
      <4>2. CASE i # 0
        <5>1. i \in 1 .. n /\ i - 1 \in 0 .. n
          BY <4>2
        <5>2. f[i] = Sees(topic, f[i - 1], ps[i])
          BY <2>1, <2>2, <5>1 DEF Draw
        <5>3. Sees(topic, f[i - 1], ps[i]) = Shows(f[i - 1], ps[i])
          BY DEF Sees, Shows
        <5>4. QED
          BY <2>3, <4>2, <5>1, <5>2, <5>3
      <4>3. QED
        BY <4>1, <4>2
    <3>2. g = [i \in 0 .. n |-> g[i]]
      BY <2>3
    <3>3. QED
      BY <3>1, <3>2
  <2> DEFINE h == CHOOSE h : h = [i \in 0 .. n |-> IF i = 0 THEN s ELSE Shows(h[i - 1], ps[i])]
  <2>5. h = [i \in 0 .. n |-> IF i = 0 THEN s ELSE Shows(h[i - 1], ps[i])]
    BY <2>4
  <2>6. After(s, ps) = h[n]
    BY <1>3, <2>1 DEF After
  <2> HIDE DEF h
  <2> DEFINE T == {i \in 0 .. n : h[i] = g[i]}
  <2>7. 0 \in T
    BY <2>4, <2>5
  <2>8. ASSUME NEW i \in 1 .. n, i - 1 \in T PROVE i \in T
    <3>1. i \in 0 .. n /\ i # 0
      OBVIOUS
    <3>2. h[i] = Shows(h[i - 1], ps[i]) /\ g[i] = Shows(g[i - 1], ps[i])
      BY <2>4, <2>5, <3>1
    <3>3. QED
      BY <2>8, <3>1, <3>2
  <2> HIDE DEF T
  <2>9. 0 .. n \subseteq T
    BY <2>7, <2>8, StepByStep
  <2>10. h[n] = g[n]
    BY <2>9 DEF T
  <2>11. QED
    BY <2>2, <2>3, <2>6, <2>10
<1>4. QED
  BY <1>2, <1>3

\* and that over frames goes along their path.
LEMMA FramesAre ==
    \A g : Len(net) \in Nat /\ Path(g, topic, version, screen, net) =>
               \A n \in 0 .. Len(net) : AfterFrames(n) = g[n]
<1>1. SUFFICES ASSUME NEW g, Len(net) \in Nat, Path(g, topic, version, screen, net),
                      NEW n \in 0 .. Len(net)
               PROVE  AfterFrames(n) = g[n]
  OBVIOUS
<1>2. PICK f : f = [i \in 0 .. n |-> g[i]]
  OBVIOUS
<1>3. f = [i \in 0 .. n |-> IF i = 0 THEN screen ELSE After(f[i - 1], net[i])]
  <2>1. ASSUME NEW i \in 0 .. n PROVE f[i] = IF i = 0 THEN screen ELSE After(f[i - 1], net[i])
    <3>1. CASE i = 0
      BY <1>1, <1>2, <3>1 DEF Path
    <3>2. CASE i # 0
      <4>1. i \in 1 .. Len(net) /\ i - 1 \in 0 .. n
        BY <1>1, <3>2
      <4>2. Leads(topic, version, g[i - 1], net[i], g[i])
        BY <1>1, <4>1 DEF Path
      <4>3. After(g[i - 1], net[i]) = g[i]
        BY <4>2, AfterIs
      <4>4. QED
        BY <1>2, <3>2, <4>1, <4>3
    <3>3. QED
      BY <3>1, <3>2
  <2>2. f = [i \in 0 .. n |-> f[i]]
    BY <1>2
  <2>3. QED
    BY <2>1, <2>2
<1> DEFINE h == CHOOSE h : h = [i \in 0 .. n |-> IF i = 0 THEN screen ELSE After(h[i - 1], net[i])]
<1>4. h = [i \in 0 .. n |-> IF i = 0 THEN screen ELSE After(h[i - 1], net[i])]
  BY <1>3
<1>5. AfterFrames(n) = h[n]
  BY DEF AfterFrames
<1> HIDE DEF h
<1> DEFINE T == {i \in 0 .. n : h[i] = f[i]}
<1>6. 0 \in T
  BY <1>1, <1>3, <1>4
<1>7. ASSUME NEW i \in 1 .. n, i - 1 \in T PROVE i \in T
  <2>1. i \in 0 .. n /\ i # 0
    BY <1>1
  <2>2. h[i] = After(h[i - 1], net[i]) /\ f[i] = After(f[i - 1], net[i])
    BY <1>3, <1>4, <2>1
  <2>3. QED
    BY <1>7, <2>1, <2>2
<1> HIDE DEF T
<1>8. 0 .. n \subseteq T
  <2>1. n \in Nat
    BY <1>1
  <2>2. QED
    BY <1>6, <1>7, <2>1, StepByStep
<1>9. h[n] = f[n]
  BY <1>1, <1>8 DEF T
<1>10. QED
  BY <1>1, <1>2, <1>5, <1>9

-----------------------------------------------------------------------------
(* The mirror.                                                             *)

\* A screen takes its place among what the client shows if it can be shown.
Mirrored ==
    /\ UNCHANGED <<topic, version, screen>>
    /\ \/ net' = net /\ Showable(board)' = Showable(board)
       \/ \E ps : /\ net' = Append(net, ps)
                  /\ Leads(topic, version, Showable(board), ps, Showable(board)')

Along ==
    \E g : Path(g, topic, version, screen, net) /\ g[Len(net)] = Showable(board)

\* A step of the world is a step of the mirror, or none.
LEMMA MirrorSays ==
    IsSeq(net) /\ topic # "menu" /\ Along /\ Mirrored => Along' /\ [M!Next]_(M!vars)
<1>1. (\A g : Len(net) \in Nat /\ Path(g, topic, version, screen, net) =>
               \A n \in 0 .. Len(net) : AfterFrames(n) = g[n])'
  BY FramesAre, PTL
<1>2. SUFFICES ASSUME IsSeq(net), topic # "menu", Along, Mirrored
               PROVE  Along' /\ [M!Next]_(M!vars)
  OBVIOUS
<1>3. PICK g : Path(g, topic, version, screen, net) /\ g[Len(net)] = Showable(board)
  BY <1>2 DEF Along
<1>4. Len(net) \in Nat /\ DOMAIN net = 1 .. Len(net)
  BY <1>2, Grows
<1>5. \A n \in 0 .. Len(net) : AfterFrames(n) = g[n]
  BY <1>3, <1>4, FramesAre
<1>6. topic' = topic /\ version' = version /\ screen' = screen
  BY <1>2 DEF Mirrored
<1>7. CASE net' = net /\ Showable(board)' = Showable(board)
  <2>1. Along'
    BY <1>3, <1>6, <1>7 DEF Along
  <2>2. \A n \in 0 .. Len(net) : AfterFrames(n)' = g[n]
    BY <1>1, <1>3, <1>4, <1>6, <1>7
  <2>3. [i \in DOMAIN net |-> AfterFrames(i)]' = [i \in DOMAIN net |-> AfterFrames(i)]
    BY <1>4, <1>5, <1>7, <2>2
  <2>4. UNCHANGED M!vars
    BY <1>2, <1>6, <1>7, <2>3 DEF M!vars
  <2>5. QED
    BY <2>1, <2>4
<1>8. CASE \E ps : /\ net' = Append(net, ps)
                   /\ Leads(topic, version, Showable(board), ps, Showable(board)')
  <2>1. PICK ps : /\ net' = Append(net, ps)
                  /\ Leads(topic, version, Showable(board), ps, Showable(board)')
    BY <1>8
  <2>2. PICK n \in Nat : n = Len(net)
    BY <1>4
  <2>3. /\ Len(net') = n + 1 /\ DOMAIN net' = 1 .. (n + 1) /\ net'[n + 1] = ps
        /\ \A i \in 1 .. n : net'[i] = net[i]
    BY <1>2, <2>1, <2>2, Grows
  <2>4. PICK e : e = Showable(board)'
    OBVIOUS
  <2>5. PICK h : h = [i \in 0 .. (n + 1) |-> IF i = n + 1 THEN e ELSE g[i]]
    OBVIOUS
  <2>6. h[n + 1] = e /\ \A i \in 0 .. n : h[i] = g[i]
    BY <2>5
  <2>7. Path(h, topic, version, screen, net')
    <3>1. h[0] = screen
      BY <1>3, <2>6 DEF Path
    <3>2. ASSUME NEW i \in 1 .. (n + 1)
          PROVE  Leads(topic, version, h[i - 1], net'[i], h[i])
      <4>1. CASE i = n + 1
        BY <1>3, <2>1, <2>2, <2>3, <2>4, <2>6, <4>1
      <4>2. CASE i # n + 1
        <5>1. i \in 1 .. n /\ i \in 0 .. n /\ i - 1 \in 0 .. n
          BY <4>2
        <5>2. Leads(topic, version, g[i - 1], net[i], g[i])
          BY <1>3, <2>2, <5>1 DEF Path
        <5>3. QED
          BY <2>3, <2>6, <5>1, <5>2
      <4>3. QED
        BY <4>1, <4>2
    <3>3. QED
      BY <2>3, <3>1, <3>2 DEF Path
  <2>8. Path(h, topic', version', screen', net') /\ h[Len(net')] = Showable(board)'
    BY <1>6, <2>3, <2>4, <2>6, <2>7
  <2>9. Along'
    BY <2>8 DEF Along
  <2>10. \A i \in 1 .. (n + 1) : AfterFrames(i)' = h[i]
    BY <1>1, <2>3, <2>8
  <2>11. PICK owed : owed = [i \in 1 .. n |-> g[i]]
    OBVIOUS
  <2>12. owed = [i \in DOMAIN net |-> AfterFrames(i)]
    BY <1>4, <1>5, <2>2, <2>11
  <2>13. [i \in DOMAIN net |-> AfterFrames(i)]' = Append(owed, e)
    <3>1. IsSeq(owed) /\ Len(owed) = n
      BY <2>11 DEF IsSeq, ToSet
    <3>2. PICK r : r = Append(owed, e)
      OBVIOUS
    <3>3. /\ IsSeq(r) /\ DOMAIN r = 1 .. (n + 1) /\ r[n + 1] = e
          /\ \A i \in 1 .. n : r[i] = owed[i]
      BY <3>1, <3>2, Grows
    <3>4. r = [i \in 1 .. (n + 1) |-> r[i]]
      BY <3>3 DEF IsSeq
    <3>5. ASSUME NEW i \in 1 .. (n + 1) PROVE r[i] = AfterFrames(i)'
      BY <2>6, <2>10, <2>11, <3>3
    <3>6. QED
      BY <2>3, <3>2, <3>4, <3>5
  <2>14. M!Say
    BY <1>2, <1>6, <2>4, <2>12, <2>13 DEF M!Say
  <2>15. QED
    BY <2>9, <2>14 DEF M!Next
<1>9. QED
  BY <1>2, <1>7, <1>8 DEF Mirrored

\* A frame read is a step of the mirror,
LEMMA MirrorShows ==
    IsSeq(net) /\ topic # "menu" /\ Along /\ Deliver => Along' /\ [M!Next]_(M!vars)
<1>1. (\A g : Len(net) \in Nat /\ Path(g, topic, version, screen, net) =>
               \A n \in 0 .. Len(net) : AfterFrames(n) = g[n])'
  BY FramesAre, PTL
<1>2. SUFFICES ASSUME IsSeq(net), topic # "menu", Along, Deliver
               PROVE  Along' /\ [M!Next]_(M!vars)
  OBVIOUS
<1>3. PICK g : Path(g, topic, version, screen, net) /\ g[Len(net)] = Showable(board)
  BY <1>2 DEF Along
<1>4. PICK n \in Nat : n = Len(net)
  BY <1>2, Grows
<1>5. /\ net # << >> /\ net' = Tail(net) /\ screen' = After(screen, Head(net))
      /\ topic' = topic /\ version' = version /\ board' = board /\ beside' = beside
  BY <1>2 DEF Deliver, session
<1>6. /\ n >= 1 /\ Len(net') = n - 1 /\ Head(net) = net[1] /\ DOMAIN net = 1 .. n
      /\ \A i \in 1 .. n - 1 : net'[i] = net[i + 1]
      /\ DOMAIN net' = 1 .. n - 1
  BY <1>2, <1>4, <1>5, Shrinks
<1>7. \A i \in 0 .. n : AfterFrames(i) = g[i]
  BY <1>3, <1>4, FramesAre
<1>8. PICK h : h = [i \in 0 .. n - 1 |-> g[i + 1]]
  OBVIOUS
<1>9. Path(h, topic, version, screen', net')
  <2>1. h[0] = screen'
    <3>1. Leads(topic, version, g[0], net[1], g[1]) /\ g[0] = screen
      <4>1. 1 \in 1 .. n /\ 1 - 1 = 0
        BY <1>6
      <4>2. QED
        BY <1>3, <1>4, <4>1 DEF Path
    <3>2. After(screen, net[1]) = g[1]
      BY <3>1, AfterIs
    <3>3. 0 \in 0 .. n - 1 /\ 0 + 1 = 1
      BY <1>6
    <3>4. QED
      BY <1>5, <1>6, <1>8, <3>2, <3>3
  <2>2. ASSUME NEW i \in 1 .. n - 1
        PROVE  Leads(topic, version, h[i - 1], net'[i], h[i])
    <3>1. i + 1 \in 1 .. n /\ i \in 0 .. n - 1 /\ i - 1 \in 0 .. n - 1 /\ (i + 1) - 1 = (i - 1) + 1
      OBVIOUS
    <3>2. Leads(topic, version, g[(i + 1) - 1], net[i + 1], g[i + 1])
      BY <1>3, <1>4, <3>1 DEF Path
    <3>3. h[i - 1] = g[(i - 1) + 1] /\ h[i] = g[i + 1]
      BY <1>8, <3>1
    <3>4. QED
      BY <1>6, <3>1, <3>2, <3>3
  <2>3. QED
    BY <1>6, <2>1, <2>2 DEF Path
<1>10. h[n - 1] = g[n]
  BY <1>6, <1>8
<1>11. PICK e : e = Showable(board)
  OBVIOUS
<1>12. Showable(board)' = e
  BY <1>5, <1>11 DEF Showable, MapDecorationFor
<1>13. Along'
  <2>1. Path(h, topic', version', screen', net') /\ h[Len(net')] = Showable(board)'
    BY <1>3, <1>4, <1>5, <1>6, <1>9, <1>10, <1>11, <1>12
  <2>2. QED
    BY <2>1 DEF Along
<1>14. \A i \in 0 .. n - 1 : AfterFrames(i)' = h[i]
  BY <1>1, <1>5, <1>6, <1>9
<1>15. PICK owed : owed = [i \in 1 .. n |-> g[i]]
  OBVIOUS
<1>16. owed = [i \in DOMAIN net |-> AfterFrames(i)]
  BY <1>6, <1>7, <1>15
<1>17. IsSeq(owed) /\ Len(owed) = n /\ owed # << >> /\ Head(owed) = screen'
  <2>1. IsSeq(owed) /\ Len(owed) = n
    BY <1>15 DEF IsSeq, ToSet
  <2>2. owed # << >>
    BY <1>6, <2>1
  <2>3. Head(owed) = g[1]
    <3>1. Head(owed) = owed[1] /\ 1 \in 1 .. n
      BY <1>6, <2>1, <2>2, Shrinks
    <3>2. QED
      BY <1>15, <3>1
  <2>4. g[1] = screen'
    <3>1. 0 \in 0 .. n - 1 /\ 0 + 1 = 1 /\ h[0] = screen'
      BY <1>6, <1>9 DEF Path
    <3>2. QED
      BY <1>8, <3>1
  <2>5. QED
    BY <2>1, <2>2, <2>3, <2>4
<1>18. [i \in DOMAIN net |-> AfterFrames(i)]' = Tail(owed)
  <2>1. PICK r : r = Tail(owed)
    OBVIOUS
  <2>2. /\ IsSeq(r) /\ DOMAIN r = 1 .. n - 1
        /\ \A i \in 1 .. n - 1 : r[i] = owed[i + 1]
    BY <1>17, <2>1, Shrinks
  <2>3. r = [i \in 1 .. n - 1 |-> r[i]]
    BY <2>2 DEF IsSeq
  <2>4. ASSUME NEW i \in 1 .. n - 1 PROVE r[i] = AfterFrames(i)'
    <3>1. i + 1 \in 1 .. n /\ i \in 0 .. n - 1
      OBVIOUS
    <3>2. QED
      BY <1>8, <1>14, <1>15, <2>2, <3>1
  <2>5. QED
    BY <1>6, <2>1, <2>3, <2>4
<1>19. M!Show
  BY <1>2, <1>5, <1>11, <1>12, <1>16, <1>17, <1>18 DEF M!Show
<1>20. QED
  BY <1>13, <1>19 DEF M!Next

\* and a menu is left out of it.
LEMMA MirrorLeaves ==
    topic = "menu" /\ topic' = topic => UNCHANGED M!vars
<1>1. SUFFICES ASSUME topic = "menu", topic' = topic PROVE UNCHANGED M!vars
  OBVIOUS
<1>2. Showable(board) = None /\ Showable(board)' = None
  BY <1>1 DEF Showable
<1>3. QED
  BY <1>1, <1>2 DEF M!vars

-----------------------------------------------------------------------------
(* Fields by their labels.                                                 *)

\* A field is read by its label, and found by no other.
LEMMA WithOf ==
    ASSUME NEW s, NEW l
    PROVE  /\ \A v : With(s, l, v) => Of(s, l) = v /\ Has(s, l) /\ IsSeq(s)
           /\ Without(s, l) => ~Has(s, l) /\ IsSeq(s)
BY CarriesOf DEF With, Without, Carries

\* Two fields in a row.
LEMMA Fields2 ==
    ASSUME NEW a, NEW b, NEW t, NEW u, a # b
    PROVE  LET s == F(a, t) \o F(b, u)
           IN  /\ With(s, a, t) /\ With(s, b, u)
               /\ \A l : l \notin {a, b} => Without(s, l)
BY FieldWithout, NextWithout

\* Three fields in a row.
LEMMA Fields3 ==
    ASSUME NEW a, NEW b, NEW c, NEW t, NEW u, NEW v, a # b, a # c, b # c
    PROVE  LET s == F(a, t) \o F(b, u) \o F(c, v)
           IN  /\ With(s, a, t) /\ With(s, b, u) /\ With(s, c, v)
               /\ \A l : l \notin {a, b, c} => Without(s, l)
<1>1. PICK r : r = F(a, t) \o F(b, u)
  OBVIOUS
<1>2. /\ With(r, a, t) /\ With(r, b, u)
      /\ \A l : l \notin {a, b} => Without(r, l)
  BY <1>1, Fields2
<1>3. QED
  BY <1>1, <1>2, NextWithout

\* Four fields in a row.
LEMMA Fields4 ==
    ASSUME NEW a, NEW b, NEW c, NEW d, NEW t, NEW u, NEW v, NEW w, a # b, a # c, a # d,
           b # c, b # d, c # d
    PROVE  LET s == F(a, t) \o F(b, u) \o F(c, v) \o F(d, w)
           IN  /\ With(s, a, t) /\ With(s, b, u) /\ With(s, c, v) /\ With(s, d, w)
               /\ \A l : l \notin {a, b, c, d} => Without(s, l)
<1>1. PICK r : r = F(a, t) \o F(b, u) \o F(c, v)
  OBVIOUS
<1>2. /\ With(r, a, t) /\ With(r, b, u) /\ With(r, c, v)
      /\ \A l : l \notin {a, b, c} => Without(r, l)
  BY <1>1, Fields3
<1>3. QED
  BY <1>1, <1>2, NextWithout

\* Five fields in a row.
LEMMA Fields5 ==
    ASSUME NEW a, NEW b, NEW c, NEW d, NEW e, NEW t, NEW u, NEW v, NEW w, NEW x, a # b,
           a # c, a # d, a # e, b # c, b # d, b # e, c # d, c # e, d # e
    PROVE  LET s == F(a, t) \o F(b, u) \o F(c, v) \o F(d, w) \o F(e, x)
           IN  /\ With(s, a, t) /\ With(s, b, u) /\ With(s, c, v) /\ With(s, d, w) /\ With(s, e, x)
               /\ \A l : l \notin {a, b, c, d, e} => Without(s, l)
<1>1. PICK r : r = F(a, t) \o F(b, u) \o F(c, v) \o F(d, w)
  OBVIOUS
<1>2. /\ With(r, a, t) /\ With(r, b, u) /\ With(r, c, v) /\ With(r, d, w)
      /\ \A l : l \notin {a, b, c, d} => Without(r, l)
  BY <1>1, Fields4
<1>3. QED
  BY <1>1, <1>2, NextWithout

-----------------------------------------------------------------------------
(* Packets of a screen, one after another.                                 *)

\* One packet,
LEMMA LeadsOne ==
    ASSUME NEW t, t \notin DeedTopics, NEW v, NEW s, NEW p
    PROVE  Leads(t, v, s, <<p>>, Sees(t, s, p))
<1>1. PICK ps : ps = <<p>> /\ Len(ps) = 1 /\ ps[1] = p
  BY OneSeq
<1>2. PICK f : f = [i \in 0 .. 1 |-> IF i = 0 THEN s ELSE Sees(t, s, p)]
  OBVIOUS
<1>3. f[0] = s /\ f[1] = Sees(t, s, p) /\ \A i \in 1 .. 1 : i = 1 /\ i - 1 = 0
  BY <1>2
<1>4. Draw(f, t, s, ps)
  BY <1>1, <1>3 DEF Draw
<1>5. Leads(t, v, s, ps, Sees(t, s, p))
  BY <1>1, <1>3, <1>4 DEF Leads
<1>6. QED
  BY <1>1, <1>5

\* none,
LEMMA LeadsNone ==
    ASSUME NEW t, t \notin DeedTopics, NEW v, NEW s
    PROVE  Leads(t, v, s, << >>, s)
<1>1. PICK f : f = [i \in 0 .. 0 |-> s]
  OBVIOUS
<1>2. Len(<< >>) = 0 /\ f[0] = s
  BY <1>1
<1>3. Draw(f, t, s, << >>)
  BY <1>2 DEF Draw
<1>4. QED
  BY <1>2, <1>3 DEF Leads

\* and these and then those.
LEMMA LeadsJoin ==
    ASSUME NEW t, t \notin DeedTopics, NEW v, NEW s, NEW m, NEW e, NEW a, NEW b,
           IsSeq(a), IsSeq(b), Leads(t, v, s, a, m), Leads(t, v, m, b, e)
    PROVE  Leads(t, v, s, a \o b, e)
<1>1. PICK f : Draw(f, t, s, a) /\ m = f[Len(a)]
  BY DEF Leads
<1>2. PICK g : Draw(g, t, m, b) /\ e = g[Len(b)]
  BY DEF Leads
<1>3. PICK n, k, c :
         n \in Nat /\ k \in Nat /\ n = Len(a) /\ k = Len(b) /\ c = a \o b /\ Len(c) = n + k
  <2>1. Len(a) \in Nat /\ Len(b) \in Nat /\ Len(a \o b) = Len(a) + Len(b)
    BY JoinSeq
  <2>2. QED
    BY <2>1
<1>4. /\ \A i \in 1 .. n : c[i] = a[i]
      /\ \A i \in 1 .. k : c[n + i] = b[i]
  BY <1>3, JoinSeq
<1>5. PICK h : h = [i \in 0 .. (n + k) |-> IF i <= n THEN f[i] ELSE g[i - n]]
  OBVIOUS
<1>6. \A i \in 0 .. n : h[i] = f[i]
  BY <1>3, <1>5
<1>7. \A i \in 0 .. k : h[n + i] = g[i]
  <2>1. ASSUME NEW i \in 0 .. k PROVE h[n + i] = g[i]
    <3>1. n + i \in 0 .. (n + k) /\ (n + i) - n = i /\ (n + i <= n <=> i = 0)
      BY <1>3
    <3>2. CASE i = 0
      <4>1. g[0] = f[n]
        BY <1>1, <1>2, <1>3 DEF Draw
      <4>2. n \in 0 .. n /\ n + i = n
        BY <1>3, <3>2
      <4>3. QED
        BY <1>6, <3>2, <4>1, <4>2
    <3>3. CASE i # 0
      BY <1>5, <3>1, <3>3
    <3>4. QED
      BY <3>2, <3>3
  <2>2. QED
    BY <2>1
<1>8. Draw(h, t, s, c)
  <2>1. h[0] = s
    BY <1>1, <1>3, <1>6 DEF Draw
  <2>2. ASSUME NEW i \in 1 .. (n + k) PROVE h[i] = Sees(t, h[i - 1], c[i])
    <3>1. CASE i <= n
      <4>1. i \in 1 .. n /\ i \in 0 .. n /\ i - 1 \in 0 .. n
        BY <1>3, <3>1
      <4>2. f[i] = Sees(t, f[i - 1], a[i])
        BY <1>1, <1>3, <4>1 DEF Draw
      <4>3. QED
        BY <1>4, <1>6, <4>1, <4>2
    <3>2. CASE ~(i <= n)
      <4>1. PICK j \in 1 .. k : i = n + j /\ i - 1 = n + (j - 1) /\ j \in 0 .. k /\ j - 1 \in 0 .. k
        <5>1. i - n \in 1 .. k /\ i = n + (i - n)
          BY <1>3, <3>2
        <5>2. QED
          BY <1>3, <5>1
      <4>2. g[j] = Sees(t, g[j - 1], b[j])
        BY <1>2, <1>3 DEF Draw
      <4>3. QED
        BY <1>4, <1>7, <4>1, <4>2
    <3>3. QED
      BY <3>1, <3>2
  <2>3. QED
    BY <1>3, <2>1, <2>2 DEF Draw
<1>9. h[n + k] = e
  BY <1>2, <1>3, <1>7
<1>10. QED
  BY <1>3, <1>8, <1>9 DEF Leads

\* Screens that every client can show as they are.
Common == {"tab", "bar", "effect", "title", "scores", "team", "border", "abilities", "moves"}

\* A packet that shows what the world gives.
LEMMA SayOne ==
    ASSUME NEW t \in Common, NEW b, NEW name, NEW op, NEW fields,
           Say(t, b, Packet(name, op, fields)),
           name # "login",
           \A p : p.name = name /\ p.op = op /\ p.fields = fields => Draws(board, p) = b
    PROVE  Mirrored /\ topic' = topic /\ board' = b
<1>1. PICK p : p.name = name /\ p.op = op /\ p.fields = fields /\ Packet(name, op, fields) = <<p>>
  BY PacketOf
<1>2. /\ UNCHANGED <<topic, version, screen>> /\ topic = t /\ board' = b
      /\ net' = Append(net, <<p>>)
  <2>1. <<p>> # << >>
    OBVIOUS
  <2>2. QED
    BY <1>1, <2>1 DEF Say, Room, Tell
<1>3. topic \notin DeedTopics
  BY <1>2 DEF Common, DeedTopics
<1>4. Showable(board) = board /\ Showable(board)' = b
  BY <1>2 DEF Showable, Common
<1>5. Sees(topic, board, p) = b
  BY <1>1 DEF Sees
<1>6. Leads(topic, version, board, <<p>>, b)
  BY <1>3, <1>5, LeadsOne
<1>7. QED
  BY <1>2, <1>4, <1>6 DEF Mirrored

\* A record whose components are told, or stay.
LEMMA UpdatedTo ==
    ASSUME NEW D, NEW old, NEW new, NEW fields, DOMAIN old = D, new = [l \in D |-> new[l]],
           \A l \in D : IF Has(fields, l) THEN Of(fields, l) = new[l] ELSE old[l] = new[l]
    PROVE  Updated(old, fields) = new
BY DEF Updated

-----------------------------------------------------------------------------
(* Boss bar, effect, edges of the world, abilities, scores.                *)

BarLabels == {"title", "health", "color", "overlay", "flags"}

\* A look of the bar has its five parts.
LEMMA BarShape ==
    ASSUME NEW e \in BarLook
    PROVE  DOMAIN e = BarLabels /\ e = [l \in BarLabels |-> e[l]]
BY DEF BarLook, BarLabels

\* A bar is shown whole, then by what of it changed.
LEMMA BarMirrors ==
    /\ \A e \in BarLook : BossBarAdd(e) => Mirrored /\ topic' = topic /\ board' = e
    /\ \A e \in BarLook : \A op \in DOMAIN BarOps :
           BossBar(op, e) /\ board \in {None} \cup BarLook =>
           Mirrored /\ topic' = topic /\ board' = e
    /\ BossBarRemove => Mirrored /\ topic' = topic /\ board' = None
<1>1. ASSUME NEW e \in BarLook, BossBarAdd(e) PROVE Mirrored /\ topic' = topic /\ board' = e
  <2>1. PICK fields : fields = F("title", e.title) \o F("health", e.health) \o F("color", e.color)
                                  \o F("overlay", e.overlay) \o F("flags", e.flags)
    OBVIOUS
  <2>2. Say("bar", e, Packet("boss_bar", "add", fields))
    BY <1>1, <2>1 DEF BossBarAdd, BossBarPacket
  <2>3. /\ With(fields, "title", e.title) /\ With(fields, "health", e.health)
        /\ With(fields, "color", e.color) /\ With(fields, "overlay", e.overlay)
        /\ With(fields, "flags", e.flags)
    BY <2>1, Fields5
  <2>4. PICK none : none = [title |-> "", health |-> 0, color |-> 0, overlay |-> 0, flags |-> 0]
    OBVIOUS
  <2>5. DOMAIN none = BarLabels
    BY <2>4 DEF BarLabels
  <2>6. Updated(none, fields) = e
    BY <2>3, <2>5, BarShape, WithOf, UpdatedTo DEF BarLabels
  <2>7. \A p : p.name = "boss_bar" /\ p.op = "add" /\ p.fields = fields => Draws(board, p) = e
    BY <2>4, <2>6 DEF Draws
  <2>8. QED
    BY <2>2, <2>7, SayOne DEF Common
<1>2. ASSUME NEW e \in BarLook, NEW op \in DOMAIN BarOps, BossBar(op, e),
      board \in {None} \cup BarLook
      PROVE  Mirrored /\ topic' = topic /\ board' = e
  <2>1. /\ op \in {"health", "title", "style", "flags"} /\ board \in BarLook
        /\ \A l \in BarLabels : l \in BarOps[op] \/ e[l] = board[l]
    BY <1>2, BarShape DEF BossBar, BarOps
  <2>2. PICK fields : Packet("boss_bar", op, fields) = BossBarPacket(op, e) /\ \A l \in BarLabels :
            IF l \in BarOps[op] THEN With(fields, l, e[l]) ELSE Without(fields, l)
    <3>1. CASE op = "health"
      <4>1. BarOps[op] = {"health"}
            /\ Packet("boss_bar", op, F("health", e.health)) = BossBarPacket(op, e)
        BY <3>1 DEF BarOps, BossBarPacket
      <4>2. QED
        BY <4>1, FieldWithout DEF BarLabels
    <3>2. CASE op = "title"
      <4>1. BarOps[op] = {"title"}
            /\ Packet("boss_bar", op, F("title", e.title)) = BossBarPacket(op, e)
        BY <3>2 DEF BarOps, BossBarPacket
      <4>2. QED
        BY <4>1, FieldWithout DEF BarLabels
    <3>3. CASE op = "style"
      <4>1. /\ BarOps[op] = {"color", "overlay"}
            /\ Packet("boss_bar", op, F("color", e.color) \o F("overlay", e.overlay))
                  = BossBarPacket(op, e)
        BY <3>3 DEF BarOps, BossBarPacket
      <4>2. PICK fields : fields = F("color", e.color) \o F("overlay", e.overlay)
        OBVIOUS
      <4>3. /\ With(fields, "color", e.color) /\ With(fields, "overlay", e.overlay)
            /\ \A l : l \notin {"color", "overlay"} => Without(fields, l)
        BY <4>2, Fields2
      <4>4. QED
        BY <4>1, <4>2, <4>3 DEF BarLabels
    <3>4. CASE op = "flags"
      <4>1. BarOps[op] = {"flags"}
            /\ Packet("boss_bar", op, F("flags", e.flags)) = BossBarPacket(op, e)
        BY <3>4 DEF BarOps, BossBarPacket
      <4>2. QED
        BY <4>1, FieldWithout DEF BarLabels
    <3>5. QED
      BY <2>1, <3>1, <3>2, <3>3, <3>4
  <2>3. Say("bar", e, Packet("boss_bar", op, fields))
    BY <1>2, <2>2 DEF BossBar
  <2>4. \A l \in BarLabels : IF Has(fields, l) THEN Of(fields, l) = e[l] ELSE board[l] = e[l]
    BY <2>1, <2>2, WithOf
  <2>5. Updated(board, fields) = e
    BY <2>1, <2>4, BarShape, UpdatedTo
  <2>6. \A p : p.name = "boss_bar" /\ p.op = op /\ p.fields = fields => Draws(board, p) = e
    BY <2>1, <2>5 DEF Draws
  <2>7. QED
    BY <2>3, <2>6, SayOne DEF Common
<1>3. ASSUME BossBarRemove PROVE Mirrored /\ topic' = topic /\ board' = None
  <2>1. Say("bar", None, Packet("boss_bar", "remove", << >>))
    BY <1>3 DEF BossBarRemove, BossBarPacket
  <2>2. \A p : p.name = "boss_bar" /\ p.op = "remove" /\ p.fields = << >> => Draws(board, p) = None
    BY DEF Draws
  <2>3. QED
    BY <2>1, <2>2, SayOne DEF Common
<1>4. QED
  BY <1>1, <1>2, <1>3

\* Four flags in a number are read from its bits.
LEMMA FlagsOf ==
    ASSUME NEW a \in BOOLEAN, NEW b \in BOOLEAN, NEW c \in BOOLEAN, NEW d \in BOOLEAN,
           NEW n, n = Bit(1, a) + Bit(2, b) + Bit(4, c) + Bit(8, d)
    PROVE  On(n, 1) = a /\ On(n, 2) = b /\ On(n, 4) = c /\ On(n, 8) = d
<1>1. n \in 0 .. 15
  BY DEF Bit
<1>2. QED
  BY <1>1, SMTT(30) DEF On, Bit

\* An effect is given with its flags, and taken.
LEMMA EffectMirrors ==
    /\ \A e \in EffectLook : Effect(e) => Mirrored /\ topic' = topic /\ board' = e
    /\ EffectRemove => Mirrored /\ topic' = topic /\ board' = None
<1>1. ASSUME NEW e \in EffectLook, Effect(e) PROVE Mirrored /\ topic' = topic /\ board' = e
  <2>1. PICK n : n = Bit(1, e.ambient) + Bit(2, e.particles) + Bit(4, e.icon) + Bit(8, e.blend)
    OBVIOUS
  <2>2. Say("effect", e, Packet("effect", "give", F("flags", n)))
    BY <1>1, <2>1 DEF Effect, EffectPacket
  <2>3. On(n, 1) = e.ambient /\ On(n, 2) = e.particles /\ On(n, 4) = e.icon /\ On(n, 8) = e.blend
    BY <2>1, FlagsOf DEF EffectLook
  <2>4. ShowsEffect(n) = e
    BY <2>3 DEF ShowsEffect, EffectLook
  <2>5. \A p : p.name = "effect" /\ p.op = "give" /\ p.fields = F("flags", n) => Draws(board, p) = e
    BY <2>4, FieldHas DEF Draws
  <2>6. QED
    BY <2>2, <2>5, SayOne DEF Common
<1>2. ASSUME EffectRemove PROVE Mirrored /\ topic' = topic /\ board' = None
  <2>1. Say("effect", None, Packet("effect", "remove", << >>))
    BY <1>2 DEF EffectRemove
  <2>2. \A p : p.name = "effect" /\ p.op = "remove" /\ p.fields = << >> => Draws(board, p) = None
    BY DEF Draws
  <2>3. QED
    BY <2>1, <2>2, SayOne DEF Common
<1>3. QED
  BY <1>1, <1>2

\* Abilities are told as their flags.
LEMMA AbilitiesMirrors ==
    \A e \in AbleLook : Abilities(e) => Mirrored /\ topic' = topic /\ board' = e
<1>1. SUFFICES ASSUME NEW e \in AbleLook, Abilities(e)
               PROVE  Mirrored /\ topic' = topic /\ board' = e
  OBVIOUS
<1>2. PICK n : n = Bit(1, e.invulnerable) + Bit(2, e.flying) + Bit(4, e.mayFly) + Bit(8, e.creative)
  OBVIOUS
<1>3. Say("abilities", e, Packet("abilities", "set", F("flags", n)))
  BY <1>1, <1>2 DEF Abilities
<1>4. /\ On(n, 1) = e.invulnerable /\ On(n, 2) = e.flying /\ On(n, 4) = e.mayFly
      /\ On(n, 8) = e.creative
  BY <1>2, FlagsOf DEF AbleLook
<1>5. ShowsAbilities(n) = e
  BY <1>4 DEF ShowsAbilities, AbleLook
<1>6. \A p : p.name = "abilities" /\ p.op = "set" /\ p.fields = F("flags", n) => Draws(board, p) = e
  BY <1>5, FieldHas DEF Draws
<1>7. QED
  BY <1>3, <1>6, SayOne DEF Common

\* The border is told whole.
LEMMA BorderMirrors ==
    \A e \in BorderLook, heading \in BOOLEAN :
        WorldBorder(e, heading) => Mirrored /\ topic' = topic /\ board' = e
<1>1. SUFFICES ASSUME NEW e \in BorderLook, NEW heading \in BOOLEAN, WorldBorder(e, heading)
               PROVE  Mirrored /\ topic' = topic /\ board' = e
  OBVIOUS
<1>2. PICK d : d = IF heading THEN e ELSE [e EXCEPT !.target = 0]
  OBVIOUS
<1>3. /\ d.size = e.size /\ d.lerp = e.lerp
      /\ (IF d.target = 0 THEN d.size ELSE d.target) = e.target
  BY <1>1, <1>2 DEF WorldBorder, BorderLook
<1>4. PICK fields : fields = F("size", e.size) \o F("target", e.target) \o F("lerp", e.lerp)
  OBVIOUS
<1>5. Say("border", e, Packet("border", "init", fields))
  BY <1>1, <1>2, <1>3, <1>4 DEF WorldBorder, WorldBorderPacket
<1>6. With(fields, "size", e.size) /\ With(fields, "target", e.target)
      /\ With(fields, "lerp", e.lerp)
  BY <1>4, Fields3
<1>7. PICK none, D : none = [size |-> 0, target |-> 0, lerp |-> 0] /\ D = {"size", "target", "lerp"}
  OBVIOUS
<1>8. DOMAIN none = D /\ e = [l \in D |-> e[l]]
  BY <1>7 DEF BorderLook
<1>9. \A l \in D : Has(fields, l) /\ Of(fields, l) = e[l]
  BY <1>6, <1>7, WithOf
<1>10. Updated(none, fields) = e
  BY <1>8, <1>9, UpdatedTo
<1>11. \A p : p.name = "border" /\ p.op = "init" /\ p.fields = fields => Draws(board, p) = e
  BY <1>7, <1>10 DEF Draws
<1>12. QED
  BY <1>5, <1>11, SayOne DEF Common

\* Of the scoreboard, each packet tells its part.
LEMMA ScoresMirror ==
    /\ \A o \in ObjectiveLook : ObjectiveAdd(o) \/ ObjectiveUpdate(o) => Mirrored /\ topic' = topic
    /\ ObjectiveRemove => Mirrored /\ topic' = topic
    /\ \A o : DisplaySlot(o) \/ ScoreReset(o) => Mirrored /\ topic' = topic
    /\ \A e \in ScoreLook : Score(e) => Mirrored /\ topic' = topic
<1>1. ASSUME NEW o \in ObjectiveLook, NEW op \in {"add", "update"},
             Say("scores", [board EXCEPT !.objective = o], ObjectivePacket(op, o))
      PROVE  Mirrored /\ topic' = topic
  <2>1. PICK fields : fields = F("title", o.title) \o F("render", Bit(1, o.hearts))
                                  \o F("format", o.format)
    OBVIOUS
  <2>2. ObjectivePacket(op, o) = Packet("objective", op, fields)
    BY <2>1 DEF ObjectivePacket, If
  <2>3. /\ With(fields, "title", o.title) /\ With(fields, "render", Bit(1, o.hearts))
        /\ With(fields, "format", o.format)
    BY <2>1, Fields3
  <2>4. [title |-> Of(fields, "title"), hearts |-> Of(fields, "render") = 1,
         format |-> Of(fields, "format")] = o
    <3>1. o.hearts = (Bit(1, o.hearts) = 1)
      BY DEF Bit, ObjectiveLook
    <3>2. o = [title |-> o.title, hearts |-> o.hearts, format |-> o.format]
      BY DEF ObjectiveLook
    <3>3. Of(fields, "title") = o.title /\ Of(fields, "format") = o.format
          /\ Of(fields, "render") = Bit(1, o.hearts)
      BY <2>3, WithOf
    <3>4. QED
      BY <3>1, <3>2, <3>3
  <2>5. PICK b : b = [board EXCEPT !.objective = o]
    OBVIOUS
  <2>6. \A p : p.name = "objective" /\ p.op = op /\ p.fields = fields => Draws(board, p) = b
    BY <2>4, <2>5 DEF Draws, ShowsObjective
  <2>7. QED
    BY <1>1, <2>2, <2>5, <2>6, SayOne DEF Common
<1>2. ASSUME ObjectiveRemove PROVE Mirrored /\ topic' = topic
  <2>1. Say("scores", Blank("scores"), Packet("objective", "remove", << >>))
    BY <1>2 DEF ObjectiveRemove, ObjectivePacket, If
  <2>2. \A p : p.name = "objective" /\ p.op = "remove" /\ p.fields = << >> =>
               Draws(board, p) = Blank("scores")
    BY DEF Draws, ShowsObjective
  <2>3. PICK b : b = Blank("scores")
    OBVIOUS
  <2>4. QED
    BY <2>1, <2>2, <2>3, SayOne DEF Common
<1>3. ASSUME NEW o, DisplaySlot(o) PROVE Mirrored /\ topic' = topic
  <2>1. PICK b : b = [board EXCEPT !.slot = o]
    OBVIOUS
  <2>2. Say("scores", b, Packet("display", "set", F("slot", o)))
    BY <1>3, <2>1 DEF DisplaySlot
  <2>3. \A p : p.name = "display" /\ p.op = "set" /\ p.fields = F("slot", o) => Draws(board, p) = b
    BY <2>1, FieldHas DEF Draws
  <2>4. QED
    BY <2>2, <2>3, SayOne DEF Common
<1>4. ASSUME NEW o, ScoreReset(o) PROVE Mirrored /\ topic' = topic
  <2>1. PICK b, fields : /\ b = [board EXCEPT !.score = None]
                         /\ Say("scores", b, Packet("score", "reset", fields))
    BY <1>4 DEF ScoreReset
  <2>2. \A p : p.name = "score" /\ p.op = "reset" /\ p.fields = fields => Draws(board, p) = b
    BY <2>1 DEF Draws, ShowsScore
  <2>3. QED
    BY <2>1, <2>2, SayOne DEF Common
<1>5. ASSUME NEW e \in ScoreLook, Score(e) PROVE Mirrored /\ topic' = topic
  <2>1. PICK b, fields : /\ b = [board EXCEPT !.score = e]
                         /\ fields = F("value", e.value) \o F("display", e.display)
                                         \o F("format", e.format)
    OBVIOUS
  <2>2. Say("scores", b, Packet("score", "set", fields))
    BY <1>5, <2>1 DEF Score, ScorePacket
  <2>3. /\ With(fields, "value", e.value) /\ With(fields, "display", e.display)
        /\ With(fields, "format", e.format)
    BY <2>1, Fields3
  <2>4. e = [value |-> Of(fields, "value"), display |-> Of(fields, "display"),
             format |-> Of(fields, "format")]
    <3>1. e = [value |-> e.value, display |-> e.display, format |-> e.format]
      BY DEF ScoreLook
    <3>2. QED
      BY <2>3, <3>1, WithOf
  <2>5. \A p : p.name = "score" /\ p.op = "set" /\ p.fields = fields => Draws(board, p) = b
    BY <2>1, <2>4 DEF Draws, ShowsScore
  <2>6. QED
    BY <2>2, <2>5, SayOne DEF Common
<1>6. QED
  BY <1>1, <1>2, <1>3, <1>4, <1>5 DEF ObjectiveAdd, ObjectiveUpdate

-----------------------------------------------------------------------------
(* Titles.                                                                 *)

\* Packets that lead to what the world gives.
LEMMA SayMany ==
    ASSUME NEW t \in Common, NEW b, NEW ps, Say(t, b, ps), Leads(t, version, board, ps, b)
    PROVE  Mirrored /\ topic' = topic /\ board' = b
<1>1. /\ UNCHANGED <<topic, version, screen>> /\ topic = t /\ board' = b
      /\ net' = IF ps = << >> THEN net ELSE Append(net, ps)
  BY DEF Say, Room, Tell
<1>2. Showable(board) = board /\ Showable(board)' = b
  BY <1>1 DEF Showable, Common
<1>3. CASE ps = << >>
  <2>1. Len(ps) = 0
    BY <1>3
  <2>2. t \notin DeedTopics
    BY DEF Common, DeedTopics
  <2>3. b = board
    BY <2>1, <2>2 DEF Leads, Draw
  <2>4. QED
    BY <1>1, <1>2, <1>3, <2>3 DEF Mirrored
<1>4. CASE ps # << >>
  BY <1>1, <1>2, <1>4 DEF Mirrored
<1>5. QED
  BY <1>3, <1>4

\* A packet that is sent if there is need of it.
LEMMA LeadsIf ==
    ASSUME NEW t, t \notin DeedTopics, NEW v, NEW s, NEW e, NEW c \in BOOLEAN, NEW name, NEW op,
           NEW fields, name # "login", ~c => e = s,
           c => \A p : p.name = name /\ p.op = op /\ p.fields = fields => Draws(s, p) = e
    PROVE  /\ Leads(t, v, s, If(c, Packet(name, op, fields)), e)
           /\ IsSeq(If(c, Packet(name, op, fields)))
<1>1. PICK p : p.name = name /\ p.op = op /\ p.fields = fields /\ Packet(name, op, fields) = <<p>>
  BY PacketOf
<1>2. CASE c
  <2>1. If(c, Packet(name, op, fields)) = <<p>>
    BY <1>1, <1>2 DEF If
  <2>2. Sees(t, s, p) = e
    BY <1>1, <1>2 DEF Sees
  <2>3. QED
    BY <2>1, <2>2, LeadsOne, OneSeq
<1>3. CASE ~c
  <2>1. If(c, Packet(name, op, fields)) = << >>
    BY <1>3 DEF If
  <2>2. QED
    BY <1>3, <2>1, LeadsNone, NothingSeq
<1>4. QED
  BY <1>2, <1>3

\* What a title is made of.
TitleLabels == {"title", "subtitle", "times", "opened"}
TitleShape(b) == DOMAIN b = TitleLabels /\ b = [l \in TitleLabels |-> b[l]]

\* A title told in up to three packets opens with what they set.
LEMMA TitleMirrors ==
    ASSUME NEW t, NEW sub, NEW n, TitleShape(board), Title(t, sub, n)
    PROVE  Mirrored /\ topic' = topic /\ TitleShape(board')
<1>1. PICK s, k, b :
         /\ s = Or(sub, "", board.subtitle) /\ k = Or(n, 0, board.times)
         /\ b = [title |-> Or(t, "", board.title), subtitle |-> s, times |-> k,
                 opened |-> IF t = "" THEN board.opened ELSE <<s, k>>]
  OBVIOUS
<1>2. PICK x, y, z :
         /\ x = If(n # 0, Packet("title", "times", F("times", n)))
         /\ y = If(sub # "", Packet("title", "subtitle", F("subtitle", sub)))
         /\ z = If(t # "", Packet("title", "title", F("title", t)))
  OBVIOUS
<1>3. Say("title", b, x \o y \o z)
  BY <1>1, <1>2 DEF Title, TitlePackets
<1>4. PICK c : c = [board EXCEPT !.times = k]
  OBVIOUS
<1>5. PICK d : d = [c EXCEPT !.subtitle = s]
  OBVIOUS
<1>6. /\ TitleShape(c) /\ c.times = k /\ c.title = board.title /\ c.subtitle = board.subtitle
      /\ c.opened = board.opened
  BY <1>4 DEF TitleShape, TitleLabels
<1>7. /\ TitleShape(d) /\ d.times = k /\ d.title = board.title /\ d.subtitle = s
      /\ d.opened = board.opened
  BY <1>5, <1>6 DEF TitleShape, TitleLabels
<1>8. TitleShape(b)
  BY <1>1 DEF TitleShape, TitleLabels
<1>9. PICK v : v = version
  OBVIOUS
<1>10. "title" \notin DeedTopics
  BY DEF DeedTopics
<1>11. Leads("title", v, board, x, c) /\ IsSeq(x)
  <2>1. n = 0 => c = board
    BY <1>1, <1>4, <1>6 DEF Or, TitleShape, TitleLabels
  <2>2. ASSUME n # 0, NEW p, p.name = "title", p.op = "times", p.fields = F("times", n)
        PROVE  Draws(board, p) = c
    <3>1. k = n
      BY <1>1, <2>2 DEF Or
    <3>2. Updated(board, p.fields) = c
      <4>1. \A l \in TitleLabels :
               IF Has(p.fields, l) THEN Of(p.fields, l) = c[l] ELSE board[l] = c[l]
        <5>1. Of(p.fields, "times") = n /\ \A l : Has(p.fields, l) <=> "times" = l
          <6>1. Of(F("times", n), "times") = n
            BY FieldHas
          <6>2. \A l : Has(F("times", n), l) <=> "times" = l
            BY FieldHas
          <6>3. QED
            BY <2>2, <6>1, <6>2
        <5>2. \A l \in TitleLabels : l # "times" => board[l] = c[l]
          BY <1>6, <2>2, <3>1 DEF TitleLabels
        <5>3. c["times"] = n
          BY <1>6, <2>2, <3>1
        <5>4. QED
          BY <5>1, <5>2, <5>3
      <4>2. QED
        BY <1>6, <4>1, UpdatedTo DEF TitleShape
    <3>3. QED
      BY <2>2, <3>2 DEF Draws, ShowsTitle
  <2>3. PICK w \in BOOLEAN : w = (n # 0)
    BY (n # 0) \in BOOLEAN
  <2>4. \A p : w /\ p.name = "title" /\ p.op = "times" /\ p.fields = F("times", n)
        => Draws(board, p) = c
    BY <2>2, <2>3
  <2>5. (~w => c = board) /\ x = If(w, Packet("title", "times", F("times", n)))
    BY <1>2, <2>1, <2>3
  <2>6. QED
    BY <1>10, <2>4, <2>5, LeadsIf
<1>12. Leads("title", v, c, y, d) /\ IsSeq(y)
  <2>1. sub = "" => d = c
    BY <1>1, <1>5, <1>6, <1>7 DEF Or, TitleShape, TitleLabels
  <2>2. ASSUME sub # "", NEW p, p.name = "title", p.op = "subtitle", p.fields = F("subtitle", sub)
        PROVE  Draws(c, p) = d
    <3>1. s = sub
      BY <1>1, <2>2 DEF Or
    <3>2. Updated(c, p.fields) = d
      <4>1. \A l \in TitleLabels :
               IF Has(p.fields, l) THEN Of(p.fields, l) = d[l] ELSE c[l] = d[l]
        <5>1. Of(p.fields, "subtitle") = sub /\ \A l : Has(p.fields, l) <=> "subtitle" = l
          <6>1. Of(F("subtitle", sub), "subtitle") = sub
            BY FieldHas
          <6>2. \A l : Has(F("subtitle", sub), l) <=> "subtitle" = l
            BY FieldHas
          <6>3. QED
            BY <2>2, <6>1, <6>2
        <5>2. \A l \in TitleLabels : l # "subtitle" => c[l] = d[l]
          BY <1>6, <1>7, <2>2, <3>1 DEF TitleLabels
        <5>3. d["subtitle"] = sub
          BY <1>6, <1>7, <2>2, <3>1
        <5>4. QED
          BY <5>1, <5>2, <5>3
      <4>2. QED
        BY <1>6, <1>7, <4>1, UpdatedTo DEF TitleShape
    <3>3. QED
      BY <2>2, <3>2 DEF Draws, ShowsTitle
  <2>3. PICK w \in BOOLEAN : w = (sub # "")
    BY (sub # "") \in BOOLEAN
  <2>4. \A p : w /\ p.name = "title" /\ p.op = "subtitle" /\ p.fields = F("subtitle", sub)
        => Draws(c, p) = d
    BY <2>2, <2>3
  <2>5. (~w => d = c) /\ y = If(w, Packet("title", "subtitle", F("subtitle", sub)))
    BY <1>2, <2>1, <2>3
  <2>6. QED
    BY <1>10, <2>4, <2>5, LeadsIf
<1>13. Leads("title", v, d, z, b) /\ IsSeq(z)
  <2>1. t = "" => b = d
    BY <1>1, <1>7, <1>8 DEF Or, TitleShape, TitleLabels
  <2>2. ASSUME t # "", NEW p, p.name = "title", p.op = "title", p.fields = F("title", t)
        PROVE  Draws(d, p) = b
    <3>1. PICK u : u = [d EXCEPT !.title = t]
      OBVIOUS
    <3>2. /\ TitleShape(u) /\ u.times = k /\ u.title = t /\ u.subtitle = s
          /\ u.opened = board.opened
      BY <1>7, <3>1 DEF TitleShape, TitleLabels
    <3>3. Updated(d, p.fields) = u
      <4>1. \A l \in TitleLabels :
               IF Has(p.fields, l) THEN Of(p.fields, l) = u[l] ELSE d[l] = u[l]
        <5>1. Of(p.fields, "title") = t /\ \A l : Has(p.fields, l) <=> "title" = l
          <6>1. Of(F("title", t), "title") = t
            BY FieldHas
          <6>2. \A l : Has(F("title", t), l) <=> "title" = l
            BY FieldHas
          <6>3. QED
            BY <2>2, <6>1, <6>2
        <5>2. \A l \in TitleLabels : l # "title" => d[l] = u[l]
          BY <1>7, <2>2, <3>2 DEF TitleLabels
        <5>3. u["title"] = t
          BY <1>7, <2>2, <3>2
        <5>4. QED
          BY <5>1, <5>2, <5>3
      <4>2. QED
        BY <1>7, <3>2, <4>1, UpdatedTo DEF TitleShape
    <3>4. [u EXCEPT !.opened = <<s, k>>] = b
      <4>1. PICK e : e = [u EXCEPT !.opened = <<s, k>>]
        OBVIOUS
      <4>2. TitleShape(e) /\ e.opened = <<s, k>> /\ e.times = k /\ e.title = t /\ e.subtitle = s
        BY <3>2, <4>1 DEF TitleShape, TitleLabels
      <4>3. b.opened = <<s, k>> /\ b.times = k /\ b.title = t /\ b.subtitle = s
        BY <1>1, <2>2 DEF Or
      <4>4. \A l \in TitleLabels : e[l] = b[l]
        BY <4>2, <4>3 DEF TitleLabels
      <4>5. QED
        BY <1>8, <4>1, <4>2, <4>4 DEF TitleShape
    <3>5. QED
      BY <1>7, <2>2, <3>3, <3>4 DEF Draws, ShowsTitle
  <2>3. PICK w \in BOOLEAN : w = (t # "")
    BY (t # "") \in BOOLEAN
  <2>4. \A p : w /\ p.name = "title" /\ p.op = "title" /\ p.fields = F("title", t)
        => Draws(d, p) = b
    BY <2>2, <2>3
  <2>5. (~w => b = d) /\ z = If(w, Packet("title", "title", F("title", t)))
    BY <1>2, <2>1, <2>3
  <2>6. QED
    BY <1>10, <2>4, <2>5, LeadsIf
<1>14. Leads("title", v, board, x \o y \o z, b)
  BY <1>10, <1>11, <1>12, <1>13, LeadsJoin, JoinSeq
<1>15. QED
  BY <1>3, <1>8, <1>9, <1>14, SayMany DEF Common

\* Clearing forgets all but, if so told, the times.
LEMMA ClearMirrors ==
    ASSUME NEW reset \in BOOLEAN, TitleShape(board), ClearTitle(reset)
    PROVE  Mirrored /\ topic' = topic /\ TitleShape(board')
<1>1. PICK b : b = [Blank("title") EXCEPT !.times = IF reset THEN 0 ELSE board.times]
  OBVIOUS
<1>2. Say("title", b, Packet("title", "clear", F("reset", reset)))
  BY <1>1 DEF ClearTitle
<1>3. TitleShape(b)
  <2>1. Blank("title") = [title |-> "", subtitle |-> "", times |-> 0, opened |-> None]
    BY DEF Blank, DeedTopics
  <2>2. QED
    BY <1>1, <2>1 DEF TitleShape, TitleLabels
<1>4. \A p : p.name = "title" /\ p.op = "clear" /\ p.fields = F("reset", reset) =>
             Draws(board, p) = b
  BY <1>1, FieldHas DEF Draws, ShowsTitle
<1>5. QED
  BY <1>2, <1>3, <1>4, SayOne DEF Common

-----------------------------------------------------------------------------
(* Sequences one after another.                                            *)

Joins(f, n, seqs) ==
    /\ n \in Nat /\ n # 0 /\ Len(seqs) = n
    /\ f[1] = seqs[1] /\ \A i \in 2 .. n : f[i] = f[i - 1] \o seqs[i]

\* Sequences joined a place at a time are joined.
LEMMA FlatRun ==
    ASSUME NEW n, NEW seqs, NEW f, Joins(f, n, seqs)
    PROVE  FlattenSeq(seqs) = f[n]
<1> USE DEF Joins
<1>1. PICK r : r = [i \in 1 .. n |-> f[i]]
  OBVIOUS
<1>2. r = [i \in 1 .. n |-> IF i = 1 THEN seqs[i] ELSE r[i - 1] \o seqs[i]]
  <2>1. ASSUME NEW i \in 1 .. n PROVE r[i] = IF i = 1 THEN seqs[i] ELSE r[i - 1] \o seqs[i]
    <3>1. CASE i = 1
      BY <1>1, <3>1
    <3>2. CASE i # 1
      <4>1. i \in 2 .. n /\ i - 1 \in 1 .. n
        BY <3>2
      <4>2. QED
        BY <1>1, <3>2, <4>1
    <3>3. QED
      BY <3>1, <3>2
  <2>2. r = [i \in 1 .. n |-> r[i]]
    BY <1>1
  <2>3. QED
    BY <2>1, <2>2
<1> DEFINE flatten[i \in 1 .. n] == IF i = 1 THEN seqs[i] ELSE flatten[i - 1] \o seqs[i]
<1>3. flatten = [i \in 1 .. n |-> IF i = 1 THEN seqs[i] ELSE flatten[i - 1] \o seqs[i]]
  BY <1>2
<1>4. FlattenSeq(seqs) = flatten[n]
  BY DEF FlattenSeq
<1> HIDE DEF flatten
<1> DEFINE T == {0} \cup {i \in 1 .. n : flatten[i] = r[i]}
<1>5. ASSUME NEW i \in 1 .. n, i - 1 \in T PROVE i \in T
  <2>1. CASE i = 1
    BY <1>2, <1>3, <2>1
  <2>2. CASE i # 1
    <3>1. flatten[i - 1] = r[i - 1]
      BY <1>5, <2>2
    <3>2. flatten[i] = flatten[i - 1] \o seqs[i] /\ r[i] = r[i - 1] \o seqs[i]
      BY <1>2, <1>3, <2>2
    <3>3. QED
      BY <3>1, <3>2
  <2>3. QED
    BY <2>1, <2>2
<1>6. 0 \in T
  OBVIOUS
<1> HIDE DEF T
<1>7. 0 .. n \subseteq T
  BY <1>5, <1>6, StepByStep
<1>8. n \in 1 .. n /\ n \in T
  BY <1>7
<1>9. flatten[n] = r[n]
  BY <1>8 DEF T
<1>10. QED
  BY <1>1, <1>4, <1>8, <1>9

\* Of one sequence, it is that one,
LEMMA FlatOne ==
    ASSUME NEW s
    PROVE  FlattenSeq(<<s>>) = s
<1>1. PICK q : q = <<s>> /\ Len(q) = 1 /\ q[1] = s
  BY OneSeq
<1>2. \A i \in 2 .. 1 : q[i] = q[i - 1] \o q[i]
  OBVIOUS
<1>3. Joins(q, 1, q)
  BY <1>1, <1>2 DEF Joins
<1>4. QED
  BY <1>1, <1>3, FlatRun

\* of two, these joined,
LEMMA FlatTwo ==
    ASSUME NEW s, NEW t
    PROVE  FlattenSeq(<<s, t>>) = s \o t
<1>1. PICK q : q = <<s, t>>
  OBVIOUS
<1>2. Len(q) = 2 /\ q[1] = s /\ q[2] = t
  BY <1>1
<1>3. PICK f : f = [i \in 1 .. 2 |-> IF i = 1 THEN s ELSE s \o t]
  OBVIOUS
<1>4. f[1] = s /\ f[2] = s \o t
  BY <1>3
<1>5. \A i \in 2 .. 2 : i = 2 /\ i - 1 = 1
  OBVIOUS
<1>6. f[1] = q[1] /\ \A i \in 2 .. 2 : f[i] = f[i - 1] \o q[i]
  BY <1>4, <1>5, <1>2
<1>7. Joins(f, 2, q)
  BY <1>6, <1>2 DEF Joins
<1>8. QED
  BY <1>1, <1>4, <1>7, FlatRun

\* and of sequences of one thing each, these things.
LEMMA FlatOnes ==
    ASSUME NEW n \in Nat, NEW q
    PROVE  FlattenSeq([i \in 1 .. n |-> <<q[i]>>]) = [i \in 1 .. n |-> q[i]]
<1>1. PICK seqs : seqs = [i \in 1 .. n |-> <<q[i]>>]
  OBVIOUS
<1>2. Len(seqs) = n
  BY <1>1
<1>3. CASE n = 0
  <2>1. FlattenSeq(seqs) = seqs
    BY <1>3, <1>2 DEF FlattenSeq
  <2>2. seqs = [i \in 1 .. n |-> q[i]]
    BY <1>1, <1>3
  <2>3. QED
    BY <1>1, <2>1, <2>2
<1>4. CASE n # 0
  <2>1. PICK f : f = [k \in 1 .. n |-> [i \in 1 .. k |-> q[i]]]
    OBVIOUS
  <2>2. f[1] = seqs[1]
    <3>1. <<q[1]>> = [i \in 1 .. 1 |-> q[i]]
      OBVIOUS
    <3>2. QED
      BY <1>1, <1>4, <2>1, <3>1
  <2>3. ASSUME NEW k \in 2 .. n PROVE f[k] = f[k - 1] \o seqs[k]
    <3>1. PICK h \in Nat : h = k - 1 /\ h + 1 = k /\ h \in 1 .. n /\ k \in 1 .. n
      OBVIOUS
    <3>2. PICK s, u : s = f[h] /\ u = f[k]
      OBVIOUS
    <3>3. s = [i \in 1 .. h |-> q[i]] /\ u = [i \in 1 .. k |-> q[i]]
      BY <2>1, <3>1, <3>2
    <3>4. Row(s, h) /\ Row(u, h + 1)
      BY <3>1, <3>3 DEF Row
    <3>5. (\A i \in 1 .. h : u[i] = s[i]) /\ u[h + 1] = q[k]
      BY <3>1, <3>3
    <3>6. s \o <<q[k]>> = u
      BY <3>4, <3>5, OneMore
    <3>7. QED
      BY <1>1, <3>1, <3>2, <3>6
  <2>4. FlattenSeq(seqs) = f[n]
    <3>1. Joins(f, n, seqs)
      BY <1>4, <1>2, <2>2, <2>3 DEF Joins
    <3>2. QED
      BY <3>1, FlatRun
  <2>5. QED
    BY <1>1, <1>4, <2>1, <2>4
<1>5. QED
  BY <1>3, <1>4

-----------------------------------------------------------------------------
(* Where the player is.                                                    *)

MoveLabels == {"at", "look", "ground"}
MoveShape(b) == DOMAIN b = MoveLabels /\ b = [l \in MoveLabels |-> b[l]]

\* A move tells what of it changed.
LEMMA MoveMirrors ==
    ASSUME MoveShape(board), NEW m, MoveShape(m), Move(m)
    PROVE  Mirrored /\ topic' = topic /\ board' = m
<1>1. PICK x \in BOOLEAN, y \in BOOLEAN : x = (m.at # board.at) /\ y = (m.look # board.look)
  BY (m.at # board.at) \in BOOLEAN, (m.look # board.look) \in BOOLEAN
<1>2. PICK a, b, fields : /\ a = If(x, F("at", m.at)) /\ b = If(y, F("look", m.look))
                          /\ fields = a \o b \o F("ground", m.ground)
  OBVIOUS
<1>3. Say("moves", m, Packet("move_player", "", fields))
  <2>1. If(m # board, Packet("move_player", "", fields)) = Packet("move_player", "", fields)
    BY DEF Move, If
  <2>2. MovePackets(board, m) = If(m # board, Packet("move_player", "", fields))
    BY <1>1, <1>2 DEF MovePackets
  <2>3. QED
    BY <2>1, <2>2 DEF Move
<1>4. /\ IF x THEN With(a, "at", m.at) ELSE Without(a, "at")
      /\ Without(a, "look") /\ Without(a, "ground")
  <2>1. With(F("at", m.at), "at", m.at) /\ \A l : l # "at" => Without(F("at", m.at), l)
    BY FieldWithout
  <2>2. Without(<< >>, "at") /\ Without(<< >>, "look") /\ Without(<< >>, "ground")
    BY NothingSeq, FieldHas DEF Without
  <2>3. QED
    BY <1>2, <2>1, <2>2 DEF If
<1>5. /\ IF y THEN With(b, "look", m.look) ELSE Without(b, "look")
      /\ Without(b, "at") /\ Without(b, "ground")
  <2>1. /\ With(F("look", m.look), "look", m.look)
        /\ \A l : l # "look" => Without(F("look", m.look), l)
    BY FieldWithout
  <2>2. Without(<< >>, "at") /\ Without(<< >>, "look") /\ Without(<< >>, "ground")
    BY NothingSeq, FieldHas DEF Without
  <2>3. QED
    BY <1>2, <2>1, <2>2 DEF If
<1>6. PICK c : c = a \o b
  OBVIOUS
<1>7. /\ IF x THEN With(c, "at", m.at) ELSE Without(c, "at")
      /\ IF y THEN With(c, "look", m.look) ELSE Without(c, "look")
      /\ Without(c, "ground")
  BY <1>4, <1>5, <1>6, JoinWithout
<1>8. fields = c \o F("ground", m.ground)
  BY <1>2, <1>6
<1>9. /\ IF x THEN With(fields, "at", m.at) ELSE Without(fields, "at")
      /\ IF y THEN With(fields, "look", m.look) ELSE Without(fields, "look")
      /\ With(fields, "ground", m.ground)
  BY <1>7, <1>8, NextWithout
<1>10. \A l \in MoveLabels : IF Has(fields, l) THEN Of(fields, l) = m[l] ELSE board[l] = m[l]
  BY <1>1, <1>9, WithOf DEF MoveLabels
<1>11. Updated(board, fields) = m
  BY <1>10, UpdatedTo DEF MoveShape
<1>12. \A p : p.name = "move_player" /\ p.op = "" /\ p.fields = fields => Draws(board, p) = m
  BY <1>11 DEF Draws, ReadMove
<1>13. QED
  BY <1>3, <1>12, SayOne DEF Common

\* A vehicle takes the player to where it is.
LEMMA VehicleMirrors ==
    ASSUME MoveShape(board), NEW at, VehicleMove(at)
    PROVE  Mirrored /\ topic' = topic /\ MoveShape(board')
<1>1. PICK m, fields : m = [board EXCEPT !.at = at] /\ fields = F("at", at) \o F("yaw", 0)
  OBVIOUS
<1>2. MoveShape(m) /\ m.at = at /\ m.look = board.look /\ m.ground = board.ground
  BY <1>1 DEF MoveShape, MoveLabels
<1>3. Say("moves", m, Packet("move_vehicle", "", fields))
  BY <1>1 DEF VehicleMove
<1>4. With(fields, "at", at) /\ Without(fields, "look") /\ Without(fields, "ground")
  <2>1. With(fields, "at", at) /\ \A l : l \notin {"at", "yaw"} => Without(fields, l)
    BY <1>1, Fields2
  <2>2. QED
    BY <2>1
<1>5. \A l \in MoveLabels : IF Has(fields, l) THEN Of(fields, l) = m[l] ELSE board[l] = m[l]
  BY <1>2, <1>4, WithOf DEF MoveLabels
<1>6. Updated(board, fields) = m
  BY <1>2, <1>5, UpdatedTo DEF MoveShape
<1>7. \A p : p.name = "move_vehicle" /\ p.op = "" /\ p.fields = fields => Draws(board, p) = m
  BY <1>6 DEF Draws, ReadMove
<1>8. QED
  BY <1>2, <1>3, <1>7, SayOne DEF Common

-----------------------------------------------------------------------------
(* Tab list.                                                               *)

EntryLabels == {"mode", "ping", "chat"}

\* An entry is its components.
LEMMA EntryShape ==
    ASSUME NEW e \in Entry
    PROVE  DOMAIN e = EntryLabels /\ e = [l \in EntryLabels |-> e[l]]
BY DEF Entry, EntryLabels

\* What the list shows once a component of an entry is told.
LEMMA InfoTold ==
    ASSUME NEW u \in Users, NEW l \in {"mode", "ping", "chat"}, NEW x, NEW e \in Entry,
           NEW s, s[u] \in Entry,
           e[l] = x, \A k \in EntryLabels : k # l => e[k] = s[u][k],
           NEW p, p.name = "player_info", p.op.user = u, p.fields = F(l, x)
    PROVE  Draws(s, p) = Listed(s, u, e)
<1>1. s[u] \in Entry /\ s[u] # None /\ e # None /\ p.op.user = u
  BY NoneAssumption
<1>2. \A k \in EntryLabels : IF Has(p.fields, k) THEN Of(p.fields, k) = e[k] ELSE s[u][k] = e[k]
  <2>1. Of(F(l, x), l) = x
    BY FieldHas
  <2>2. \A k : Has(F(l, x), k) <=> l = k
    BY FieldHas
  <2>3. QED
    BY <2>1, <2>2
<1>3. Updated(s[u], p.fields) = e
  BY <1>1, <1>2, EntryShape, UpdatedTo
<1>4. Draws(s, p) = ShowsInfo(s, p)
  BY DEF Draws
<1>5. ShowsInfo(s, p) = Listed(s, u, e)
  BY <1>1, <1>3 DEF ShowsInfo
<1>6. QED
  BY <1>4, <1>5

\* Someone comes into the list, is told of, or leaves it.
LEMMA TabMirrors ==
    ASSUME board \in [Users -> {None} \cup Entry], NEW u \in Users
    PROVE  /\ \A e \in Entry : PlayerInfo(u, e) =>
                  Mirrored /\ topic' = topic /\ board' \in [Users -> {None} \cup Entry]
           /\ \A mode \in {0, 3} : PlayerInfoMode(u, mode) =>
                  Mirrored /\ topic' = topic /\ board' \in [Users -> {None} \cup Entry]
           /\ \A chat \in BOOLEAN : PlayerInfoChat(u, chat) =>
                  Mirrored /\ topic' = topic /\ board' \in [Users -> {None} \cup Entry]
           /\ PlayerGone(u) =>
                  Mirrored /\ topic' = topic /\ board' \in [Users -> {None} \cup Entry]
<1>1. \A e \in {None} \cup Entry : Listed(board, u, e) \in [Users -> {None} \cup Entry]
  BY DEF Listed
<1>2. ASSUME NEW e \in Entry, PlayerInfo(u, e)
      PROVE  Mirrored /\ topic' = topic /\ board' = Listed(board, u, e)
  <2>1. PICK chat, yes : chat \in BOOLEAN /\ chat = e.chat /\ yes = TRUE
    BY DEF Entry
  <2>2. PICK a, b, op : /\ a = F("name", u) \o If(chat, F("chat", yes))
                        /\ b = a \o F("mode", e.mode) \o F("listed", TRUE) \o F("ping", e.ping)
                        /\ op = [user |-> u, actions |-> {"name", "mode", "listed", "ping"}
                                                 \cup IF chat THEN {"chat"} ELSE {}]
    OBVIOUS
  <2>3. PlayerInfoAdd(u, e) = Packet("player_info", op, b)
    BY <2>1, <2>2 DEF PlayerInfoAdd
  <2>4. /\ IF chat THEN With(a, "chat", yes) ELSE Without(a, "chat")
        /\ Without(a, "mode") /\ Without(a, "listed") /\ Without(a, "ping")
    <3>1. CASE chat
      <4>1. a = F("name", u) \o F("chat", yes)
        BY <2>2, <3>1 DEF If
      <4>2. With(a, "chat", yes) /\ \A l : l \notin {"name", "chat"} => Without(a, l)
        BY <4>1, Fields2
      <4>3. QED
        BY <3>1, <4>2
    <3>2. CASE ~chat
      <4>1. a = F("name", u)
        BY <2>2, <3>2, FieldIs, JoinNothing DEF If
      <4>2. \A l : l # "name" => Without(a, l)
        BY <4>1, FieldWithout
      <4>3. QED
        BY <3>2, <4>2
    <3>3. QED
      BY <3>1, <3>2
  <2>5. /\ IF chat THEN With(b, "chat", yes) ELSE Without(b, "chat")
        /\ With(b, "mode", e.mode) /\ With(b, "ping", e.ping)
    <3>1. PICK c, d : c = a \o F("mode", e.mode) /\ d = c \o F("listed", TRUE)
      OBVIOUS
    <3>2. /\ IF chat THEN With(c, "chat", yes) ELSE Without(c, "chat")
          /\ With(c, "mode", e.mode) /\ Without(c, "listed") /\ Without(c, "ping")
      BY <2>4, <3>1, NextWithout
    <3>3. /\ IF chat THEN With(d, "chat", yes) ELSE Without(d, "chat")
          /\ With(d, "mode", e.mode) /\ Without(d, "ping")
      BY <3>1, <3>2, NextWithout
    <3>4. b = d \o F("ping", e.ping)
      BY <2>2, <3>1
    <3>5. QED
      BY <3>3, <3>4, NextWithout
  <2>6. PICK none : none = [mode |-> 0, ping |-> 0, chat |-> FALSE]
    OBVIOUS
  <2>7. none \in Entry /\ DOMAIN none = EntryLabels /\ none # None
    <3>1. none \in Entry
      BY <2>6 DEF Entry
    <3>2. DOMAIN none = EntryLabels
      BY <3>1, EntryShape
    <3>3. QED
      BY <3>1, <3>2, NoneAssumption
  <2>8. \A l \in EntryLabels : IF Has(b, l) THEN Of(b, l) = e[l] ELSE none[l] = e[l]
    <3>1. /\ none["mode"] = 0 /\ none["ping"] = 0 /\ none["chat"] = FALSE
          /\ e["mode"] = e.mode /\ e["ping"] = e.ping /\ e["chat"] = chat
      BY <2>1, <2>6
    <3>2. /\ Has(b, "mode") /\ Of(b, "mode") = e.mode /\ Has(b, "ping") /\ Of(b, "ping") = e.ping
          /\ IF chat THEN Has(b, "chat") /\ Of(b, "chat") = yes ELSE ~Has(b, "chat")
      BY <2>5, WithOf
    <3>3. QED
      BY <2>1, <3>1, <3>2 DEF EntryLabels
  <2>9. Updated(none, b) = e
    BY <2>7, <2>8, EntryShape, UpdatedTo
  <2>10. board[u] = None /\ Say("tab", Listed(board, u, e), Packet("player_info", op, b))
    BY <1>2, <2>3 DEF PlayerInfo
  <2>11. ASSUME NEW p, p.name = "player_info", p.op = op, p.fields = b
         PROVE  Draws(board, p) = Listed(board, u, e)
    <3>1. p.op.user = u /\ "name" \in p.op.actions
      BY <2>2, <2>11
    <3>2. ShowsInfo(board, p) = Listed(board, u, e)
      BY <2>6, <2>7, <2>9, <2>10, <2>11, <3>1 DEF ShowsInfo
    <3>3. QED
      BY <2>11, <3>2 DEF Draws
  <2>12. QED
    BY <2>10, <2>11, SayOne DEF Common
<1>3. ASSUME NEW l \in {"mode", "chat"}, NEW x, NEW e \in Entry, board[u] # None,
             e[l] = x, \A k \in EntryLabels : k # l => e[k] = board[u][k],
             Say("tab", Listed(board, u, e), PlayerInfoUpdate(u, l, x))
      PROVE  Mirrored /\ topic' = topic /\ board' = Listed(board, u, e)
  <2>1. Say("tab", Listed(board, u, e),
            Packet("player_info", [user |-> u, actions |-> {l}], F(l, x)))
    BY <1>3 DEF PlayerInfoUpdate
  <2>2. \A p : p.name = "player_info" /\ p.op = [user |-> u, actions |-> {l}] /\ p.fields = F(l, x)
                  => Draws(board, p) = Listed(board, u, e)
    <3>1. ASSUME NEW p, p.name = "player_info", p.op = [user |-> u, actions |-> {l}],
                 p.fields = F(l, x)
          PROVE  Draws(board, p) = Listed(board, u, e)
      <4>1. /\ l \in {"mode", "ping", "chat"} /\ board[u] \in Entry /\ e[l] = x
            /\ \A k \in EntryLabels : k # l => e[k] = board[u][k]
            /\ p.name = "player_info" /\ p.op.user = u /\ p.fields = F(l, x)
        BY <1>3, <3>1
      <4>2. QED
        BY <4>1, InfoTold
    <3>2. QED
      BY <3>1
  <2>3. QED
    BY <2>1, <2>2, SayOne DEF Common
<1>4. ASSUME NEW mode \in {0, 3}, PlayerInfoMode(u, mode)
      PROVE  Mirrored /\ topic' = topic /\ board' \in [Users -> {None} \cup Entry]
  <2>1. PICK e : e = [board[u] EXCEPT !.mode = mode]
    OBVIOUS
  <2>2. board[u] \in Entry /\ board[u] # None
    BY <1>4 DEF PlayerInfoMode
  <2>3. e \in Entry /\ e["mode"] = mode /\ \A k \in EntryLabels : k # "mode" => e[k] = board[u][k]
    BY <2>1, <2>2 DEF Entry, EntryLabels
  <2>4. Say("tab", Listed(board, u, e), PlayerInfoUpdate(u, "mode", mode))
    BY <1>4, <2>1 DEF PlayerInfoMode
  <2>5. QED
    BY <1>1, <1>3, <2>2, <2>3, <2>4
<1>5. ASSUME NEW chat \in BOOLEAN, PlayerInfoChat(u, chat)
      PROVE  Mirrored /\ topic' = topic /\ board' \in [Users -> {None} \cup Entry]
  <2>1. PICK e : e = [board[u] EXCEPT !.chat = chat]
    OBVIOUS
  <2>2. board[u] \in Entry /\ board[u] # None
    BY <1>5 DEF PlayerInfoChat
  <2>3. e \in Entry /\ e["chat"] = chat /\ \A k \in EntryLabels : k # "chat" => e[k] = board[u][k]
    BY <2>1, <2>2 DEF Entry, EntryLabels
  <2>4. Say("tab", Listed(board, u, e), PlayerInfoUpdate(u, "chat", chat))
    BY <1>5, <2>1 DEF PlayerInfoChat
  <2>5. QED
    BY <1>1, <1>3, <2>2, <2>3, <2>4
<1>6. ASSUME PlayerGone(u)
      PROVE  Mirrored /\ topic' = topic /\ board' = Listed(board, u, None)
  <2>1. Say("tab", Listed(board, u, None), Packet("player_remove", u, << >>))
    BY <1>6 DEF PlayerGone
  <2>2. \A p : p.name = "player_remove" /\ p.op = u /\ p.fields = << >> =>
               Draws(board, p) = Listed(board, u, None)
    BY DEF Draws, ShowsInfo
  <2>3. QED
    BY <2>1, <2>2, SayOne DEF Common
<1>7. QED
  BY <1>1, <1>2, <1>4, <1>5, <1>6

\* Everyone's latency is told, one after another.
LEMMA LatencyMirrors ==
    ASSUME board \in [Users -> {None} \cup Entry], NEW ping \in {0, 9}, PlayerInfoLatency(ping)
    PROVE  Mirrored /\ topic' = topic /\ board' \in [Users -> {None} \cup Entry]
<1>1. PICK S : S = {u \in Users : board[u] # None}
  OBVIOUS
<1>2. PICK users : users = SetToSeq(S) /\ users \in Seq(S) /\ ToSet(users) = S
  <2>1. IsFiniteSet(Users)
    <3>1. IsFiniteSet({}) /\ IsFiniteSet({"me"}) /\ IsFiniteSet({"me", "you"})
      BY FS_EmptySet, FS_AddElement
    <3>2. QED
      BY <3>1 DEF Users
  <2>2. S \in SUBSET Users
    BY <1>1
  <2>3. IsFiniteSet(S)
    BY <2>1, <2>2, FS_Subset
  <2>4. QED
    BY <2>3, LaidOut
<1>3. PICK n \in Nat : n = Len(users)
  BY <1>2
<1>4. /\ DOMAIN users = 1 .. n /\ \A i \in 1 .. n : users[i] \in S
      /\ \A u \in S : \E i \in 1 .. n : users[i] = u
  BY <1>2, <1>3, SeqIs DEF Upto
<1>5. PICK q : q = [i \in 1 .. n |-> [name |-> "player_info",
                                       op |-> [user |-> users[i], actions |-> {"ping"}],
                                       fields |-> F("ping", ping)]]
  OBVIOUS
<1>6. PICK ps : ps = [i \in 1 .. n |-> q[i]]
  OBVIOUS
<1>7. ps = FlattenSeq([i \in DOMAIN users |-> PlayerInfoUpdate(users[i], "ping", ping)])
  <2>1. \A i \in 1 .. n : PlayerInfoUpdate(users[i], "ping", ping) = <<q[i]>>
    BY <1>5 DEF PlayerInfoUpdate, Packet
  <2>2. [i \in DOMAIN users |-> PlayerInfoUpdate(users[i], "ping", ping)]
            = [i \in 1 .. n |-> <<q[i]>>]
    BY <1>4, <2>1
  <2>3. QED
    <3>1. FlattenSeq([i \in 1 .. n |-> <<q[i]>>]) = [i \in 1 .. n |-> q[i]]
      BY FlatOnes, Zenon
    <3>2. QED
      BY <1>6, <2>2, <3>1
<1>8. PICK b : b = [u \in Users |-> IF board[u] = None THEN None
                                    ELSE [board[u] EXCEPT !.ping = ping]]
  OBVIOUS
<1>9. Say("tab", b, ps)
  BY <1>1, <1>2, <1>7, <1>8 DEF PlayerInfoLatency
<1>10. ASSUME NEW u \in S
       PROVE  /\ board[u] \in Entry /\ b[u] \in Entry /\ b[u]["ping"] = ping /\ u \in Users
              /\ \A k \in EntryLabels : k # "ping" => b[u][k] = board[u][k]
  <2>1. board[u] \in Entry /\ u \in Users /\ b[u] = [board[u] EXCEPT !.ping = ping]
    BY <1>1, <1>8
  <2>2. QED
    BY <2>1 DEF Entry, EntryLabels
<1>11. \A u \in Users \ S : b[u] = board[u] /\ b[u] = None
  BY <1>1, <1>8
<1>12. b \in [Users -> {None} \cup Entry]
  BY <1>8, <1>10, <1>11
<1>13. PICK f : f = [i \in 0 .. n |->
                        [u \in Users |-> IF \E j \in 1 .. i : users[j] = u THEN b[u] ELSE board[u]]]
  OBVIOUS
<1>14. f[0] = board
  <2>1. f[0] = [u \in Users |-> board[u]]
    BY <1>13
  <2>2. QED
    BY <2>1
<1>15. f[n] = b
  <2>1. f[n] = [u \in Users |-> IF \E j \in 1 .. n : users[j] = u THEN b[u] ELSE board[u]]
    BY <1>13
  <2>2. \A u \in Users : (IF \E j \in 1 .. n : users[j] = u THEN b[u] ELSE board[u]) = b[u]
    BY <1>4, <1>11
  <2>3. QED
    BY <1>8, <2>1, <2>2
<1>16. ASSUME NEW i \in 1 .. n PROVE f[i] = Sees("tab", f[i - 1], ps[i])
  <2>1. PICK h \in 0 .. n : h = i - 1
    OBVIOUS
  <2>2. PICK u \in S : u = users[i]
    BY <1>4
  <2>3. PICK s, p : s = f[h] /\ p = ps[i]
    OBVIOUS
  <2>4. p.name = "player_info" /\ p.op.user = u /\ p.fields = F("ping", ping)
    BY <1>5, <1>6, <2>2, <2>3
  <2>5. s = [v \in Users |-> IF \E j \in 1 .. h : users[j] = v THEN b[v] ELSE board[v]]
    BY <1>13, <2>3
  <2>6. s[u] = b[u] \/ s[u] = board[u]
    BY <1>10, <2>5
  <2>7. s[u] \in Entry /\ \A k \in EntryLabels : k # "ping" => b[u][k] = s[u][k]
    BY <1>10, <2>6
  <2>8. Draws(s, p) = Listed(s, u, b[u])
    BY <1>10, <2>4, <2>7, InfoTold
  <2>9. f[i] = [v \in Users |-> IF \E j \in 1 .. i : users[j] = v THEN b[v] ELSE board[v]]
    BY <1>13
  <2>10. ASSUME NEW v \in Users
         PROVE  (IF \E j \in 1 .. i : users[j] = v THEN b[v] ELSE board[v])
                   = IF v = u THEN b[u] ELSE s[v]
    <3>1. \A j : j \in 1 .. i <=> (j = i \/ j \in 1 .. h)
      BY <2>1
    <3>2. (\E j \in 1 .. i : users[j] = v) <=> (v = u \/ \E j \in 1 .. h : users[j] = v)
      BY <2>2, <3>1
    <3>3. s[v] = IF \E j \in 1 .. h : users[j] = v THEN b[v] ELSE board[v]
      BY <2>5
    <3>4. QED
      BY <3>2, <3>3
  <2>11. f[i] = Listed(s, u, b[u])
    BY <2>9, <2>10 DEF Listed
  <2>12. QED
    BY <2>1, <2>3, <2>4, <2>8, <2>11 DEF Sees
<1>17. Leads("tab", version, board, ps, b)
  <2>1. Len(ps) = n
    BY <1>6
  <2>2. Draw(f, "tab", board, ps)
    BY <1>14, <1>16, <2>1 DEF Draw
  <2>3. QED
    BY <1>15, <2>1, <2>2 DEF Leads, DeedTopics
<1>18. QED
  BY <1>9, <1>12, <1>17, SayMany DEF Common

-----------------------------------------------------------------------------
(* Teams.                                                                  *)

\* The options of a team, in two bits.
OptionsOf(t) == Bit(1, t.ff) + Bit(2, t.see)

\* A team's two options are read from their bits.
LEMMA OptionBits ==
    ASSUME NEW t \in TeamLook
    PROVE  On(OptionsOf(t), 1) = t.ff /\ On(OptionsOf(t), 2) = t.see
<1>1. t.ff \in BOOLEAN /\ t.see \in BOOLEAN
  BY DEF TeamLook
<1>2. PICK a \in BOOLEAN, b \in BOOLEAN : a = t.ff /\ b = t.see
  BY <1>1
<1>3. PICK n : n = Bit(1, a) + Bit(2, b)
  OBVIOUS
<1>4. n \in 0 .. 3
  BY <1>3 DEF Bit
<1>5. On(n, 1) = a /\ On(n, 2) = b
  BY <1>3, <1>4 DEF On, Bit
<1>6. QED
  BY <1>2, <1>3, <1>5 DEF OptionsOf

\* Whatever their order, a team's parameters are told.
LEMMA TeamParamsTold ==
    ASSUME NEW t \in TeamLook, NEW q, q = TeamParams(t)
    PROVE  /\ With(q, "prefix", t.prefix) /\ With(q, "visibility", t.visibility)
           /\ With(q, "options", OptionsOf(t)) /\ Without(q, "players")
           /\ IF t.color = -1 THEN Without(q, "color") \/ With(q, "color", 21)
              ELSE With(q, "color", t.color)
<1>1. t.color \in {-1, 4} /\ (t.color \in 0 .. 15 <=> t.color = 4)
  BY DEF TeamLook
<1>2. PICK o : o = OptionsOf(t)
  OBVIOUS
<1>3. CASE version >= teamParamsNewForm
  <2>1. PICK c \in BOOLEAN : c = (t.color \in 0 .. 15)
    BY (t.color \in 0 .. 15) \in BOOLEAN
  <2>2. PICK a : a = F("title", "T") \o F("prefix", t.prefix) \o F("suffix", "")
                        \o F("visibility", t.visibility) \o F("collision", 0) \o F("coloured", c)
    OBVIOUS
  <2>3. PICK b : b = a \o If(c, F("color", t.color))
    OBVIOUS
  <2>4. q = b \o F("options", o)
    BY <1>2, <1>3, <2>1, <2>2, <2>3 DEF TeamParams, OptionsOf
  <2>5. /\ With(a, "prefix", t.prefix) /\ With(a, "visibility", t.visibility)
        /\ Without(a, "color") /\ Without(a, "options") /\ Without(a, "players")
    <3>1. PICK k : k = c
      OBVIOUS
    <3>2. PICK r1 : r1 = F("title", "T")
      OBVIOUS
    <3>3. /\ Without(r1, "prefix") /\ Without(r1, "visibility") /\ Without(r1, "color")
          /\ Without(r1, "options") /\ Without(r1, "players")
      BY <3>2, FieldWithout
    <3>4. PICK r2 : r2 = r1 \o F("prefix", t.prefix)
      OBVIOUS
    <3>5. /\ With(r2, "prefix", t.prefix) /\ Without(r2, "visibility")
          /\ Without(r2, "color") /\ Without(r2, "options") /\ Without(r2, "players")
      BY <3>4, <3>3, NextWithout
    <3>6. PICK r3 : r3 = r2 \o F("suffix", "")
      OBVIOUS
    <3>7. /\ With(r3, "prefix", t.prefix) /\ Without(r3, "visibility")
          /\ Without(r3, "color") /\ Without(r3, "options") /\ Without(r3, "players")
      BY <3>6, <3>5, NextWithout
    <3>8. PICK r4 : r4 = r3 \o F("visibility", t.visibility)
      OBVIOUS
    <3>9. /\ With(r4, "prefix", t.prefix) /\ With(r4, "visibility", t.visibility)
          /\ Without(r4, "color") /\ Without(r4, "options") /\ Without(r4, "players")
      BY <3>8, <3>7, NextWithout
    <3>10. PICK r5 : r5 = r4 \o F("collision", 0)
      OBVIOUS
    <3>11. /\ With(r5, "prefix", t.prefix) /\ With(r5, "visibility", t.visibility)
           /\ Without(r5, "color") /\ Without(r5, "options") /\ Without(r5, "players")
      BY <3>10, <3>9, NextWithout
    <3>12. PICK r6 : r6 = r5 \o F("coloured", k)
      OBVIOUS
    <3>13. /\ With(r6, "prefix", t.prefix) /\ With(r6, "visibility", t.visibility)
           /\ Without(r6, "color") /\ Without(r6, "options") /\ Without(r6, "players")
      BY <3>12, <3>11, NextWithout
    <3>14. r6 = a
      BY <2>2, <3>1, <3>2, <3>4, <3>6, <3>8, <3>10, <3>12
    <3>15. QED
      BY <3>13, <3>14
  <2>6. /\ With(b, "prefix", t.prefix) /\ With(b, "visibility", t.visibility)
        /\ Without(b, "options") /\ Without(b, "players")
        /\ IF c THEN With(b, "color", t.color) ELSE Without(b, "color")
    <3>1. CASE c
      <4>1. b = a \o F("color", t.color)
        BY <2>3, <3>1 DEF If
      <4>2. QED
        BY <2>5, <3>1, <4>1, NextWithout
    <3>2. CASE ~c
      <4>1. b = a \o << >> /\ IsSeq(a)
        BY <2>3, <2>5, <3>2 DEF If, Without
      <4>2. b = a
        BY <4>1, JoinNothing
      <4>3. QED
        BY <2>5, <3>2, <4>2
    <3>3. QED
      BY <3>1, <3>2
  <2>7. /\ With(q, "prefix", t.prefix) /\ With(q, "visibility", t.visibility)
        /\ With(q, "options", o) /\ Without(q, "players")
        /\ IF c THEN With(q, "color", t.color) ELSE Without(q, "color")
    BY <2>4, <2>6, NextWithout
  <2>8. CASE c
    <3>1. t.color = 4
      BY <1>1, <2>1, <2>8
    <3>2. With(q, "color", t.color) /\ t.color # -1
      BY <2>7, <2>8, <3>1
    <3>3. QED
      BY <1>2, <2>7, <3>2
  <2>9. CASE ~c
    <3>1. t.color = -1 /\ Without(q, "color")
      BY <1>1, <2>1, <2>7, <2>9
    <3>2. QED
      BY <1>2, <2>7, <3>1
  <2>10. QED
    BY <2>1, <2>8, <2>9
<1>4. CASE ~(version >= teamParamsNewForm)
  <2>1. PICK c : c = IF t.color \in 0 .. 15 THEN t.color ELSE 21
    OBVIOUS
  <2>2. q = F("title", "T") \o F("options", o) \o F("visibility", t.visibility)
                \o F("collision", 0) \o F("color", c) \o F("prefix", t.prefix) \o F("suffix", "")
    BY <1>2, <1>4, <2>1 DEF TeamParams, OptionsOf, NoColour
  <2>3. PICK r1 : r1 = F("title", "T")
    OBVIOUS
  <2>4. /\ Without(r1, "prefix") /\ Without(r1, "visibility") /\ Without(r1, "color")
        /\ Without(r1, "options") /\ Without(r1, "players")
    BY <2>3, FieldWithout
  <2>5. PICK r2 : r2 = r1 \o F("options", o)
    OBVIOUS
  <2>6. /\ With(r2, "options", o) /\ Without(r2, "prefix") /\ Without(r2, "visibility")
        /\ Without(r2, "color") /\ Without(r2, "players")
    BY <2>5, <2>4, NextWithout
  <2>7. PICK r3 : r3 = r2 \o F("visibility", t.visibility)
    OBVIOUS
  <2>8. /\ With(r3, "options", o) /\ With(r3, "visibility", t.visibility)
        /\ Without(r3, "prefix") /\ Without(r3, "color") /\ Without(r3, "players")
    BY <2>7, <2>6, NextWithout
  <2>9. PICK r4 : r4 = r3 \o F("collision", 0)
    OBVIOUS
  <2>10. /\ With(r4, "options", o) /\ With(r4, "visibility", t.visibility)
         /\ Without(r4, "prefix") /\ Without(r4, "color") /\ Without(r4, "players")
    BY <2>9, <2>8, NextWithout
  <2>11. PICK r5 : r5 = r4 \o F("color", c)
    OBVIOUS
  <2>12. /\ With(r5, "options", o) /\ With(r5, "visibility", t.visibility)
         /\ With(r5, "color", c) /\ Without(r5, "prefix") /\ Without(r5, "players")
    BY <2>11, <2>10, NextWithout
  <2>13. PICK r6 : r6 = r5 \o F("prefix", t.prefix)
    OBVIOUS
  <2>14. /\ With(r6, "options", o) /\ With(r6, "visibility", t.visibility)
         /\ With(r6, "color", c) /\ With(r6, "prefix", t.prefix)
         /\ Without(r6, "players")
    BY <2>13, <2>12, NextWithout
  <2>15. PICK r7 : r7 = r6 \o F("suffix", "")
    OBVIOUS
  <2>16. /\ With(r7, "options", o) /\ With(r7, "visibility", t.visibility)
         /\ With(r7, "color", c) /\ With(r7, "prefix", t.prefix)
         /\ Without(r7, "players")
    BY <2>15, <2>14, NextWithout
  <2>17. r7 = q
    BY <2>2, <2>3, <2>5, <2>7, <2>9, <2>11, <2>13, <2>15
  <2>18. IF t.color = -1 THEN With(q, "color", 21) ELSE With(q, "color", t.color)
    BY <1>1, <2>1, <2>16, <2>17
  <2>19. QED
    BY <1>2, <2>16, <2>17, <2>18
<1>5. QED
  BY <1>3, <1>4

\* The team that a client reads is the team that was told.
LEMMA TeamLookRead ==
    ASSUME NEW t \in TeamLook, NEW f,
           With(f, "prefix", t.prefix), With(f, "visibility", t.visibility),
           With(f, "options", OptionsOf(t)),
           IF t.color = -1 THEN Without(f, "color") \/ With(f, "color", 21)
           ELSE With(f, "color", t.color)
    PROVE  [prefix |-> Of(f, "prefix"), visibility |-> Of(f, "visibility"),
            color |-> IF ~Has(f, "color") \/ Of(f, "color") = 21 THEN -1 ELSE Of(f, "color"),
            ff |-> On(Of(f, "options"), 1), see |-> On(Of(f, "options"), 2)] = t
<1>1. /\ Of(f, "prefix") = t.prefix /\ Of(f, "visibility") = t.visibility
      /\ On(Of(f, "options"), 1) = t.ff /\ On(Of(f, "options"), 2) = t.see
  BY WithOf, OptionBits
<1>2. (IF ~Has(f, "color") \/ Of(f, "color") = 21 THEN -1 ELSE Of(f, "color")) = t.color
  <2>1. t.color \in {-1, 4}
    BY DEF TeamLook
  <2>2. IF t.color = -1 THEN ~Has(f, "color") \/ Of(f, "color") = 21
        ELSE Has(f, "color") /\ Of(f, "color") = t.color
    BY WithOf
  <2>3. QED
    BY <2>1, <2>2
<1>3. t = [prefix |-> t.prefix, visibility |-> t.visibility, color |-> t.color,
           ff |-> t.ff, see |-> t.see]
  BY DEF TeamLook
<1>4. QED
  BY <1>1, <1>2, <1>3

\* A team comes, changes, gains and loses players, and goes.
LEMMA TeamMirrors ==
    /\ \A t \in TeamLook : \A us : TeamAdd(t, us) => Mirrored /\ topic' = topic
    /\ \A t \in TeamLook : TeamUpdate(t) => Mirrored /\ topic' = topic
    /\ TeamRemove => Mirrored /\ topic' = topic
    /\ \A method \in {"join", "leave"} : \A us :
           TeamPlayers(method, us) => Mirrored /\ topic' = topic
<1>1. ASSUME NEW t \in TeamLook, NEW us, TeamAdd(t, us) PROVE Mirrored /\ topic' = topic
  <2>1. PICK q, f, b : /\ q = TeamParams(t) /\ f = q \o F("players", us)
                       /\ b = [look |-> t, players |-> us]
    OBVIOUS
  <2>2. Say("team", b, Packet("team", "add", f))
    BY <1>1, <2>1 DEF TeamAdd, TeamPacket, If
  <2>3. /\ With(q, "prefix", t.prefix) /\ With(q, "visibility", t.visibility)
        /\ With(q, "options", OptionsOf(t)) /\ Without(q, "players")
        /\ IF t.color = -1 THEN Without(q, "color") \/ With(q, "color", 21)
           ELSE With(q, "color", t.color)
    BY <2>1, TeamParamsTold
  <2>4. /\ With(f, "prefix", t.prefix) /\ With(f, "visibility", t.visibility)
        /\ With(f, "options", OptionsOf(t)) /\ With(f, "players", us)
        /\ IF t.color = -1 THEN Without(f, "color") \/ With(f, "color", 21)
           ELSE With(f, "color", t.color)
    BY <2>1, <2>3, NextWithout
  <2>5. Of(f, "players") = us
    BY <2>4, WithOf
  <2>6. [prefix |-> Of(f, "prefix"), visibility |-> Of(f, "visibility"),
         color |-> IF ~Has(f, "color") \/ Of(f, "color") = 21 THEN -1 ELSE Of(f, "color"),
         ff |-> On(Of(f, "options"), 1), see |-> On(Of(f, "options"), 2)] = t
    BY <2>4, TeamLookRead
  <2>7. \A p : p.name = "team" /\ p.op = "add" /\ p.fields = f => Draws(board, p) = b
    BY <2>1, <2>5, <2>6 DEF Draws, ShowsTeam
  <2>8. QED
    BY <2>2, <2>7, SayOne DEF Common
<1>2. ASSUME NEW t \in TeamLook, TeamUpdate(t) PROVE Mirrored /\ topic' = topic
  <2>1. PICK q, b : q = TeamParams(t) /\ b = [board EXCEPT !.look = t]
    OBVIOUS
  <2>2. /\ With(q, "prefix", t.prefix) /\ With(q, "visibility", t.visibility)
        /\ With(q, "options", OptionsOf(t))
        /\ IF t.color = -1 THEN Without(q, "color") \/ With(q, "color", 21)
           ELSE With(q, "color", t.color)
    BY <2>1, TeamParamsTold
  <2>3. TeamPacket("update", t, {}) = Packet("team", "update", q)
    <3>1. TeamPacket("update", t, {}) = Packet("team", "update", q \o << >>)
      BY <2>1 DEF TeamPacket, If
    <3>2. q \o << >> = q
      BY <2>2, JoinNothing DEF With
    <3>3. QED
      BY <3>1, <3>2
  <2>4. Say("team", b, Packet("team", "update", q))
    BY <1>2, <2>1, <2>3 DEF TeamUpdate
  <2>5. [prefix |-> Of(q, "prefix"), visibility |-> Of(q, "visibility"),
         color |-> IF ~Has(q, "color") \/ Of(q, "color") = 21 THEN -1 ELSE Of(q, "color"),
         ff |-> On(Of(q, "options"), 1), see |-> On(Of(q, "options"), 2)] = t
    BY <2>2, TeamLookRead
  <2>6. \A p : p.name = "team" /\ p.op = "update" /\ p.fields = q => Draws(board, p) = b
    BY <2>1, <2>5 DEF Draws, ShowsTeam
  <2>7. QED
    BY <2>4, <2>6, SayOne DEF Common
<1>3. ASSUME TeamRemove PROVE Mirrored /\ topic' = topic
  <2>1. PICK b, f : b = Blank("team") /\ f = << >> \o << >>
    OBVIOUS
  <2>2. Say("team", b, Packet("team", "remove", f))
    BY <1>3, <2>1 DEF TeamRemove, TeamPacket, If
  <2>3. \A p : p.name = "team" /\ p.op = "remove" /\ p.fields = f => Draws(board, p) = b
    BY <2>1 DEF Draws, ShowsTeam
  <2>4. QED
    BY <2>2, <2>3, SayOne DEF Common
<1>4. ASSUME NEW method \in {"join", "leave"}, NEW us, TeamPlayers(method, us)
      PROVE  Mirrored /\ topic' = topic
  <2>1. PICK b, f : /\ b = [board EXCEPT !.players = IF method = "join" THEN @ \cup us ELSE @ \ us]
                    /\ f = << >> \o F("players", us)
    OBVIOUS
  <2>2. f = F("players", us)
    BY <2>1, FieldIs, JoinNothing
  <2>3. Of(f, "players") = us
    BY <2>2, FieldHas
  <2>4. Say("team", b, Packet("team", method, f))
    BY <1>4, <2>1 DEF TeamPlayers, TeamPacket, If
  <2>5. \A p : p.name = "team" /\ p.op = method /\ p.fields = f => Draws(board, p) = b
    BY <2>1, <2>3 DEF Draws, ShowsTeam
  <2>6. QED
    BY <2>4, <2>5, SayOne DEF Common
<1>5. QED
  BY <1>1, <1>2, <1>3, <1>4

-----------------------------------------------------------------------------
(* Maps, waypoints, the spawn, the clock.                                  *)

\* A packet that shows what of the world a client's version can show.
LEMMA SayShown ==
    ASSUME NEW t, t \notin DeedTopics, NEW b, NEW name, NEW op, NEW fields,
           Say(t, b, Packet(name, op, fields)), name # "login",
           NEW e, e = Showable(board)',
           \A p : p.name = name /\ p.op = op /\ p.fields = fields => Draws(Showable(board), p) = e
    PROVE  Mirrored /\ topic' = topic /\ board' = b
<1>1. PICK p : p.name = name /\ p.op = op /\ p.fields = fields /\ Packet(name, op, fields) = <<p>>
  BY PacketOf
<1>2. /\ UNCHANGED <<topic, version, screen>> /\ topic = t /\ board' = b
      /\ net' = Append(net, <<p>>)
  <2>1. <<p>> # << >>
    OBVIOUS
  <2>2. QED
    BY <1>1, <2>1 DEF Say, Room, Tell
<1>3. PICK s : s = Showable(board)
  OBVIOUS
<1>4. Sees(topic, s, p) = e
  BY <1>1, <1>3 DEF Sees
<1>5. Leads(topic, version, s, <<p>>, e)
  BY <1>2, <1>4, LeadsOne
<1>6. QED
  BY <1>2, <1>3, <1>5 DEF Mirrored

\* Nothing told, if nothing of it can be shown.
LEMMA SayHidden ==
    ASSUME NEW t, NEW b, Say(t, b, << >>), Showable(board)' = Showable(board)
    PROVE  Mirrored /\ topic' = topic /\ board' = b
BY DEF Say, Room, Tell, Mirrored

\* What the world gives, a topic and version later.
LEMMA SayIs ==
    ASSUME NEW t, NEW b, NEW ps, Say(t, b, ps)
    PROVE  topic = t /\ topic' = t /\ version' = version /\ board' = b
BY DEF Say, Room, Tell

\* The ends of a changed row or column.
LEMMA EndsOf ==
    ASSUME NEW S, S \subseteq 0 .. 1, S # {}
    PROVE  /\ Lowest(S) \in S /\ Highest(S) \in S
           /\ \A k \in S : Lowest(S) <= k /\ k <= Highest(S)
           /\ Lowest(S) \in 0 .. 1 /\ Highest(S) \in 0 .. 1 /\ Lowest(S) <= Highest(S)
<1>1. \A k \in S : k = 0 \/ k = 1
  OBVIOUS
<1>2. \E n \in S : \A k \in S : n <= k
  <2>1. CASE 0 \in S
    <3>1. \A k \in S : 0 <= k
      OBVIOUS
    <3>2. QED
      BY <2>1, <3>1
  <2>2. CASE 0 \notin S
    <3>1. \A k \in S : k = 1
      BY <1>1, <2>2
    <3>2. \A k \in S : 1 <= k
      BY <3>1
    <3>3. 1 \in S
      BY <3>1
    <3>4. QED
      BY <3>2, <3>3
  <2>3. QED
    BY <2>1, <2>2
<1>3. \E n \in S : \A k \in S : n >= k
  <2>1. CASE 1 \in S
    <3>1. \A k \in S : 1 >= k
      OBVIOUS
    <3>2. QED
      BY <2>1, <3>1
  <2>2. CASE 1 \notin S
    <3>1. \A k \in S : k = 0
      BY <1>1, <2>2
    <3>2. \A k \in S : 0 >= k
      BY <3>1
    <3>3. 0 \in S
      BY <3>1
    <3>4. QED
      BY <3>2, <3>3
  <2>3. QED
    BY <2>1, <2>2
<1>4. Lowest(S) \in S /\ \A k \in S : Lowest(S) <= k
  BY <1>2 DEF Lowest
<1>5. Highest(S) \in S /\ \A k \in S : Highest(S) >= k
  BY <1>3 DEF Highest
<1>6. \A k \in S : k \in 0 .. 1
  OBVIOUS
<1>7. QED
  BY <1>4, <1>5, <1>6

MapShape(b) ==
    /\ DOMAIN b = {"ink", "decor"} /\ b = [ink |-> b.ink, decor |-> b.decor]
    /\ b.ink = [c \in Cells |-> b.ink[c]]

\* A picture's changed rectangle tells the picture.
LEMMA MapColorsMirror ==
    ASSUME MapShape(board), NEW ink \in Pictures, MapColors(ink)
    PROVE  Mirrored /\ topic' = topic /\ MapShape(board')
<1>1. PICK changed : changed = {c \in Cells : ink[c] # board.ink[c]}
  OBVIOUS
<1>2. PICK xs, ys : xs = {c[1] : c \in changed} /\ ys = {c[2] : c \in changed}
  OBVIOUS
<1>3. changed # {} /\ changed \subseteq Cells
  BY <1>1, <1>2 DEF MapColors
<1>4. xs \subseteq 0 .. 1 /\ ys \subseteq 0 .. 1 /\ xs # {} /\ ys # {}
  BY <1>2, <1>3 DEF Cells
<1>5. PICK x, y : x = Lowest(xs) /\ y = Lowest(ys)
  OBVIOUS
<1>6. PICK hx, hy : hx = Highest(xs) /\ hy = Highest(ys)
  OBVIOUS
<1>7. /\ x \in 0 .. 1 /\ y \in 0 .. 1 /\ hx \in 0 .. 1 /\ hy \in 0 .. 1 /\ x <= hx /\ y <= hy
      /\ \A c \in changed : x <= c[1] /\ c[1] <= hx /\ y <= c[2] /\ c[2] <= hy
  BY <1>2, <1>4, <1>5, <1>6, EndsOf
<1>8. PICK w, h : w = hx - x + 1 /\ h = hy - y + 1
  OBVIOUS
<1>9. w \in 1 .. 2 /\ h \in 1 .. 2 /\ w * h \in Nat
  BY <1>7, <1>8
<1>10. PICK colors : colors = [i \in 1 .. w * h |->
                                  ink[<<x + ((i - 1) % w), y + ((i - 1) \div w)>>]]
  OBVIOUS
<1>11. PICK b : b = [board EXCEPT !.ink = ink]
  OBVIOUS
<1>12. PICK r6 : r6 = F("decor", None) \o F("width", w) \o F("height", h) \o F("x", x) \o F("y", y)
                         \o F("colors", colors)
  OBVIOUS
<1>13. Say("map", b, Packet("map", "patch", r6))
  BY <1>1, <1>2, <1>5, <1>6, <1>8, <1>10, <1>11, <1>12 DEF MapColors
<1>14. PICK q1 : q1 = F("decor", None)
  OBVIOUS
<1>15. /\ With(q1, "decor", None) /\ Without(q1, "width") /\ Without(q1, "height")
       /\ Without(q1, "x") /\ Without(q1, "y") /\ Without(q1, "colors")
  BY <1>14, FieldWithout
<1>16. PICK q2 : q2 = q1 \o F("width", w)
  OBVIOUS
<1>17. /\ With(q2, "decor", None) /\ With(q2, "width", w) /\ Without(q2, "height")
       /\ Without(q2, "x") /\ Without(q2, "y") /\ Without(q2, "colors")
  BY <1>16, <1>15, NextWithout
<1>18. PICK q3 : q3 = q2 \o F("height", h)
  OBVIOUS
<1>19. /\ With(q3, "decor", None) /\ With(q3, "width", w) /\ With(q3, "height", h)
       /\ Without(q3, "x") /\ Without(q3, "y") /\ Without(q3, "colors")
  BY <1>18, <1>17, NextWithout
<1>20. PICK q4 : q4 = q3 \o F("x", x)
  OBVIOUS
<1>21. /\ With(q4, "decor", None) /\ With(q4, "width", w) /\ With(q4, "height", h)
       /\ With(q4, "x", x) /\ Without(q4, "y") /\ Without(q4, "colors")
  BY <1>20, <1>19, NextWithout
<1>22. PICK q5 : q5 = q4 \o F("y", y)
  OBVIOUS
<1>23. /\ With(q5, "decor", None) /\ With(q5, "width", w) /\ With(q5, "height", h)
       /\ With(q5, "x", x) /\ With(q5, "y", y) /\ Without(q5, "colors")
  BY <1>22, <1>21, NextWithout
<1>24. PICK q6 : q6 = q5 \o F("colors", colors)
  OBVIOUS
<1>25. /\ With(q6, "decor", None) /\ With(q6, "width", w) /\ With(q6, "height", h)
       /\ With(q6, "x", x) /\ With(q6, "y", y) /\ With(q6, "colors", colors)
  BY <1>24, <1>23, NextWithout
<1>26. q6 = r6
  BY <1>12, <1>14, <1>16, <1>18, <1>20, <1>22, <1>24
<1>27. PICK f : f = r6
  OBVIOUS
<1>28. /\ Of(f, "decor") = None /\ Of(f, "width") = w /\ Of(f, "height") = h /\ Of(f, "x") = x
       /\ Of(f, "y") = y /\ Of(f, "colors") = colors
  BY <1>25, <1>26, <1>27, WithOf
<1>29. PICK s : s = Showable(board)
  OBVIOUS
<1>30. topic = "map" /\ topic' = "map" /\ version' = version /\ board' = b
  BY <1>13, SayIs
<1>31. PICK d : d = [i \in DOMAIN board.decor |-> MapDecorationFor(board.decor[i])]
  OBVIOUS
<1>32. s = [board EXCEPT !.decor = d]
  BY <1>29, <1>30, <1>31 DEF Showable
<1>33. s.ink = board.ink /\ s.decor = d
  BY <1>32 DEF MapShape
<1>34. b.ink = ink /\ b.decor = board.decor /\ b = [ink |-> ink, decor |-> board.decor]
  BY <1>11 DEF MapShape
<1>35. ink = [c \in Cells |-> ink[c]]
  BY DEF Pictures
<1>36. MapShape(b)
  BY <1>34, <1>35 DEF MapShape
<1>37. Showable(board)' = [ink |-> ink, decor |-> d]
  <2>1. \A k : MapDecorationFor(k)' = MapDecorationFor(k)
    BY <1>30 DEF MapDecorationFor
  <2>2. [i \in DOMAIN b.decor |-> MapDecorationFor(b.decor[i])]' = d
    BY <1>30, <1>31, <1>34, <2>1
  <2>3. Showable(board)' = [b EXCEPT !.decor = d]
    BY <1>30, <1>31, <1>34, <2>1 DEF Showable
  <2>4. QED
    BY <1>34, <2>3
<1>38. \A c \in Cells : c[1] \in 0 .. 1 /\ c[2] \in 0 .. 1 /\ c = <<c[1], c[2]>>
  BY DEF Cells
<1>39. ASSUME NEW c \in Cells
       PROVE  (IF /\ w > 0 /\ c[1] \in x .. x + w - 1
                  /\ c[2] \in y .. y + h - 1
               THEN colors[c[1] - x + (c[2] - y) * w + 1] ELSE board.ink[c]) = ink[c]
  <2>1. PICK cx \in 0 .. 1, cy \in 0 .. 1 : cx = c[1] /\ cy = c[2] /\ c = <<cx, cy>>
    BY <1>38
  <2>2. CASE cx \in x .. x + w - 1 /\ cy \in y .. y + h - 1
    <3>1. PICK i : i = cx - x + (cy - y) * w + 1
      OBVIOUS
    <3>2. i \in 1 .. w * h /\ x + ((i - 1) % w) = cx /\ y + ((i - 1) \div w) = cy
      <4>1. PICK dx \in 0 .. 1, dy \in 0 .. 1 :
               /\ dx = cx - x /\ dy = cy - y /\ cx = x + dx /\ cy = y + dy
               /\ dx <= w - 1 /\ dy <= h - 1
        <5>1. x \in 0 .. 1 /\ y \in 0 .. 1 /\ x <= cx /\ cx <= x + w - 1 /\ y <= cy
              /\ cy <= y + h - 1
          BY <1>7, <1>9, <2>2
        <5>2. cx - x \in 0 .. 1 /\ cx = x + (cx - x) /\ cx - x <= w - 1
          BY <1>9, <5>1
        <5>3. cy - y \in 0 .. 1 /\ cy = y + (cy - y) /\ cy - y <= h - 1
          BY <1>9, <5>1
        <5>4. QED
          BY <5>2, <5>3
      <4>2. i = dx + dy * w + 1
        BY <3>1, <4>1
      <4>3. CASE w = 1
        <5>1. dx = 0
          BY <4>1, <4>3
        <5>2. w * h = h
          BY <1>9, <4>3
        <5>3. dy * w = dy
          BY <4>1, <4>3
        <5>4. i = dy + 1
          <6>1. i = 0 + dy * 1 + 1
            BY <4>2, <4>3, <5>1
          <6>2. QED
            BY <6>1
        <5>5. (i - 1) % w = 0 /\ (i - 1) \div w = dy
          <6>1. CASE dy = 0
            BY <4>3, <5>4, <6>1
          <6>2. CASE dy = 1
            BY <4>3, <5>4, <6>2
          <6>3. QED
            BY <4>1, <6>1, <6>2
        <5>6. i \in 1 .. h
          <6>1. dy <= h - 1
            BY <4>1
          <6>2. QED
            BY <1>9, <5>4, <6>1
        <5>7. QED
          BY <1>7, <4>1, <5>1, <5>2, <5>5, <5>6
      <4>4. CASE w = 2
        <5>1. w * h = 2 * h /\ i = dx + 2 * dy + 1
          BY <1>9, <4>2, <4>4
        <5>2. (i - 1) % 2 = dx /\ (i - 1) \div 2 = dy
          <6>1. CASE dy = 0
            BY <5>1, <6>1
          <6>2. CASE dy = 1
            BY <5>1, <6>2
          <6>3. QED
            BY <6>1, <6>2
        <5>3. i \in 1 .. 2 * h
          <6>1. dy <= h - 1 /\ i = dx + 2 * dy + 1
            BY <4>1, <5>1
          <6>2. QED
            BY <1>9, <6>1
        <5>4. QED
          BY <1>7, <1>9, <4>1, <4>4, <5>1, <5>2, <5>3
      <4>5. QED
        BY <1>9, <4>3, <4>4
    <3>3. colors[i] = ink[c]
      BY <1>10, <2>1, <3>2
    <3>4. QED
      BY <1>9, <2>1, <2>2, <3>1, <3>3
  <2>3. CASE ~(cx \in x .. x + w - 1 /\ cy \in y .. y + h - 1)
    <3>1. c \notin changed
      BY <1>7, <1>8, <2>1, <2>3
    <3>2. QED
      BY <1>1, <2>1, <2>3, <3>1
  <2>4. QED
    BY <2>2, <2>3
<1>40. \A p : p.name = "map" /\ p.op = "patch" /\ p.fields = f =>
           Draws(s, p) = [ink |-> ink, decor |-> d]
  <2>1. SUFFICES ASSUME NEW p, p.name = "map", p.op = "patch", p.fields = f
                 PROVE  ShowsMap(s, p) = [ink |-> ink, decor |-> d]
    BY DEF Draws
  <2>2. ShowsMap(s, p) =
          [ink |-> [c \in Cells |->
              IF /\ w > 0 /\ c[1] \in x .. x + w - 1
                 /\ c[2] \in y .. y + h - 1
              THEN colors[c[1] - x + (c[2] - y) * w + 1] ELSE board.ink[c]],
           decor |-> d]
    BY <1>28, <1>33, <2>1 DEF ShowsMap
  <2>3. QED
    BY <1>35, <1>39, <2>2
<1>41. QED
  <2>1. "map" \notin DeedTopics
    BY DEF DeedTopics
  <2>2. PICK e : e = Showable(board)'
    OBVIOUS
  <2>3. \A p : p.name = "map" /\ p.op = "patch" /\ p.fields = f => Draws(Showable(board), p) = e
    BY <1>29, <1>37, <1>40, <2>2
  <2>4. Say("map", b, Packet("map", "patch", f))
    BY <1>13, <1>27
  <2>5. Mirrored
    BY <2>1, <2>2, <2>3, <2>4, SayShown
  <2>6. QED
    BY <1>30, <1>36, <2>5

\* So do its markers.
LEMMA MapMarkersMirror ==
    ASSUME MapShape(board), NEW m \in Markers, MapMarkers(m)
    PROVE  Mirrored /\ topic' = topic /\ MapShape(board')
<1>1. PICK d : d = [i \in DOMAIN m |-> MapDecorationFor(m[i])]
  OBVIOUS
<1>2. PICK f1, f : f1 = F("decor", d) /\ f = f1 \o F("width", 0)
  OBVIOUS
<1>3. PICK b : b = [board EXCEPT !.decor = m]
  OBVIOUS
<1>4. Say("map", b, Packet("map", "markers", f))
  BY <1>1, <1>2, <1>3 DEF MapMarkers
<1>5. With(f1, "decor", d) /\ Without(f1, "width")
  BY <1>2, FieldWithout
<1>6. With(f, "decor", d) /\ With(f, "width", 0)
  BY <1>2, <1>5, NextWithout
<1>7. Of(f, "decor") = d /\ Of(f, "width") = 0
  BY <1>6, WithOf
<1>8. d # None
  <2>1. \A i \in DOMAIN m : m[i] \in Nat
    <3>1. CASE m = << >>
      BY <3>1
    <3>2. CASE m = <<0>>
      BY <3>2
    <3>3. CASE m = <<36>>
      BY <3>3
    <3>4. CASE m = <<37, 0>>
      BY <3>4
    <3>5. QED
      BY <3>1, <3>2, <3>3, <3>4 DEF Markers
  <2>2. \A i \in DOMAIN m : MapDecorationFor(m[i]) \in Nat
    BY <2>1 DEF MapDecorationFor
  <2>3. PICK n \in Nat : DOMAIN m = 1 .. n
    <3>1. m = << >> \/ m = <<0>> \/ m = <<36>> \/ m = <<37, 0>>
      BY DEF Markers
    <3>2. DOMAIN m = 1 .. 0 \/ DOMAIN m = 1 .. 1 \/ DOMAIN m = 1 .. 2
      BY <3>1
    <3>3. 0 \in Nat /\ 1 \in Nat /\ 2 \in Nat
      OBVIOUS
    <3>4. QED
      BY <3>2, <3>3
  <2>4. d \in [1 .. n -> Nat]
    BY <1>1, <2>2, <2>3
  <2>5. d \in Seq(Nat)
    BY <2>4
  <2>6. QED
    BY <2>5, NoneAssumption
<1>9. topic = "map" /\ topic' = "map" /\ version' = version /\ board' = b
  BY <1>4, SayIs
<1>10. b.ink = board.ink /\ b.decor = m /\ b = [ink |-> board.ink, decor |-> m]
  BY <1>3 DEF MapShape
<1>11. MapShape(b)
  BY <1>10 DEF MapShape
<1>12. Showable(board)' = [ink |-> board.ink, decor |-> d]
  <2>1. \A k : MapDecorationFor(k)' = MapDecorationFor(k)
    BY <1>9 DEF MapDecorationFor
  <2>2. Showable(board)' = [b EXCEPT !.decor = d]
    BY <1>1, <1>9, <1>10, <2>1 DEF Showable
  <2>3. QED
    BY <1>10, <2>2
<1>13. PICK s : s = Showable(board)
  OBVIOUS
<1>14. s.ink = board.ink
  BY <1>9, <1>13 DEF Showable, MapShape
<1>15. \A p : p.name = "map" /\ p.op = "markers" /\ p.fields = f =>
           Draws(s, p) = [ink |-> board.ink, decor |-> d]
  <2>1. SUFFICES ASSUME NEW p, p.name = "map", p.op = "markers", p.fields = f
                 PROVE  ShowsMap(s, p) = [ink |-> board.ink, decor |-> d]
    BY DEF Draws
  <2>2. ~(0 > 0)
    OBVIOUS
  <2>3. ShowsMap(s, p) = [ink |-> [c \in Cells |-> board.ink[c]], decor |-> d]
    BY <1>7, <1>8, <1>14, <2>1, <2>2 DEF ShowsMap
  <2>4. QED
    BY <2>3 DEF MapShape
<1>16. QED
  <2>1. "map" \notin DeedTopics
    BY DEF DeedTopics
  <2>2. PICK e : e = Showable(board)'
    OBVIOUS
  <2>3. \A p : p.name = "map" /\ p.op = "markers" /\ p.fields = f => Draws(Showable(board), p) = e
    BY <1>12, <1>13, <1>15, <2>2
  <2>4. Mirrored
    BY <1>4, <2>1, <2>2, <2>3, SayShown
  <2>5. QED
    BY <1>9, <1>11, <2>4

\* A waypoint is told to the clients that have them.
LEMMA WaypointMirrors ==
    ASSUME NEW op \in {"track", "untrack", "update"}, NEW w \in Track, Waypoint(op, w)
    PROVE  Mirrored /\ topic' = topic
<1>1. PICK b : b = IF op = "untrack" THEN None ELSE w
  OBVIOUS
<1>2. PICK ps : ps = If(version >= 776, WaypointBody(op, w)) /\ Say("waypoint", b, ps)
  BY <1>1 DEF Waypoint
<1>3. topic = "waypoint" /\ topic' = "waypoint" /\ version' = version /\ board' = b
  BY <1>2, SayIs
<1>4. CASE ~(version >= 776)
  <2>1. ps = << >>
    BY <1>2, <1>4 DEF If
  <2>2. Showable(board)' = Showable(board)
    BY <1>3, <1>4 DEF Showable
  <2>3. QED
    BY <1>2, <2>1, <2>2, SayHidden
<1>5. CASE version >= 776
  <2>1. PICK c \in BOOLEAN, m \in BOOLEAN : c = (w.color # None) /\ m = (op # "untrack")
    BY (w.color # None) \in BOOLEAN, (op # "untrack") \in BOOLEAN
  <2>2. PICK k, z : k = c /\ z = IF op = "untrack" THEN 0 ELSE 1
    OBVIOUS
  <2>3. PICK q1 : q1 = F("style", w.style)
    OBVIOUS
  <2>4. PICK q2 : q2 = q1 \o F("coloured", k)
    OBVIOUS
  <2>5. PICK q3 : q3 = q2 \o If(c, F("color", w.color))
    OBVIOUS
  <2>6. PICK q4 : q4 = q3 \o F("type", z)
    OBVIOUS
  <2>7. PICK f : f = q4 \o If(m, F("at", w.at))
    OBVIOUS
  <2>8. /\ With(q1, "style", w.style) /\ Without(q1, "coloured") /\ Without(q1, "color")
        /\ Without(q1, "type") /\ Without(q1, "at")
    BY <2>3, FieldWithout
  <2>9. /\ With(q2, "style", w.style) /\ With(q2, "coloured", k) /\ Without(q2, "color")
        /\ Without(q2, "type") /\ Without(q2, "at")
    BY <2>4, <2>8, NextWithout
  <2>10. /\ With(q3, "style", w.style) /\ With(q3, "coloured", k)
         /\ c => With(q3, "color", w.color)
         /\ Without(q3, "type") /\ Without(q3, "at")
    <3>1. CASE c
      <4>1. q3 = q2 \o F("color", w.color)
        BY <2>5, <3>1 DEF If
      <4>2. QED
        BY <2>9, <4>1, NextWithout
    <3>2. CASE ~c
      <4>1. q3 = q2
        BY <2>5, <2>9, <3>2, JoinNothing DEF If, With
      <4>2. QED
        BY <2>9, <3>2, <4>1
    <3>3. QED
      BY <3>1, <3>2
  <2>11. /\ With(q4, "style", w.style) /\ With(q4, "coloured", k)
         /\ c => With(q4, "color", w.color)
         /\ With(q4, "type", z) /\ Without(q4, "at")
    BY <2>6, <2>10, NextWithout
  <2>12. /\ With(f, "style", w.style) /\ With(f, "coloured", k)
         /\ c => With(f, "color", w.color)
         /\ With(f, "type", z)
         /\ m => With(f, "at", w.at)
    <3>1. CASE m
      <4>1. f = q4 \o F("at", w.at)
        BY <2>7, <3>1 DEF If
      <4>2. QED
        BY <2>11, <4>1, NextWithout
    <3>2. CASE ~m
      <4>1. f = q4
        BY <2>7, <2>11, <3>2, JoinNothing DEF If, With
      <4>2. QED
        BY <2>11, <3>2, <4>1
    <3>3. QED
      BY <3>1, <3>2
  <2>13. /\ Of(f, "style") = w.style /\ Of(f, "coloured") = k
         /\ c => Of(f, "color") = w.color
         /\ Of(f, "type") = z
         /\ m => Of(f, "at") = w.at
    BY <2>12, WithOf
  <2>14. PICK o : o = [id |-> IDWaypointFor, what |-> op]
    OBVIOUS
  <2>15. ps = Packet("waypoint", o, f)
    <3>1. ps = WaypointBody(op, w)
      BY <1>2, <1>5 DEF If
    <3>2. WaypointBody(op, w) =
            Packet("waypoint", o,
                F("style", w.style) \o F("coloured", k) \o If(c, F("color", w.color))
                    \o F("type", z) \o If(m, F("at", w.at)))
      BY <2>1, <2>2, <2>14, Zenon DEF WaypointBody
    <3>3. QED
      BY <2>3, <2>4, <2>5, <2>6, <2>7, <3>1, <3>2
  <2>16. Showable(board)' = b
    BY <1>3, <1>5 DEF Showable
  <2>17. \A p : p.name = "waypoint" /\ p.op = o /\ p.fields = f => Draws(Showable(board), p) = b
    <3>1. SUFFICES ASSUME NEW p, p.name = "waypoint", p.op = o, p.fields = f
                   PROVE  ShowsWaypoint(p) = b
      BY DEF Draws
    <3>2. CASE op = "untrack"
      BY <1>1, <2>2, <2>13, <3>1, <3>2 DEF ShowsWaypoint
    <3>3. CASE op # "untrack"
      <4>1. Of(f, "type") = 1 /\ Of(f, "at") = w.at
        BY <2>1, <2>2, <2>13, <3>3
      <4>2. (IF Of(f, "coloured") THEN Of(f, "color") ELSE None) = w.color
        BY <2>1, <2>2, <2>13
      <4>3. w = [style |-> w.style, at |-> w.at, color |-> w.color]
        BY DEF Track
      <4>4. QED
        BY <1>1, <2>13, <3>1, <3>3, <4>1, <4>2, <4>3 DEF ShowsWaypoint
    <3>4. QED
      BY <3>2, <3>3
  <2>18. "waypoint" \notin DeedTopics
    BY DEF DeedTopics
  <2>19. PICK e : e = Showable(board)'
    OBVIOUS
  <2>20. \A p : p.name = "waypoint" /\ p.op = o /\ p.fields = f => Draws(Showable(board), p) = e
    BY <2>16, <2>17, <2>19
  <2>21. Say("waypoint", b, Packet("waypoint", o, f))
    BY <1>2, <2>15
  <2>22. QED
    BY <1>3, <2>18, <2>19, <2>20, <2>21, SayShown
<1>6. QED
  BY <1>4, <1>5

\* The time is told with a clock or without.
LEMMA TimeMirrors ==
    ASSUME NEW e \in ClockLook, NEW clocks \in BOOLEAN, Time(e, clocks)
    PROVE  Mirrored /\ topic' = topic
<1>1. PICK age, runs : age = Or(e.age, 0, e.day) /\ runs = IF clocks THEN e.runs ELSE TRUE
  OBVIOUS
<1>2. PICK f : f = F("age", age) \o F("day", e.day) \o F("runs", runs)
  OBVIOUS
<1>3. Say("time", e, Packet("time", "set", f))
  BY <1>1, <1>2 DEF Time
<1>4. topic = "time" /\ topic' = "time" /\ version' = version /\ board' = e
  BY <1>3, SayIs
<1>5. Of(f, "age") = age /\ Has(f, "age")
  BY <1>2, Fields3, WithOf
<1>6. Of(f, "day") = e.day /\ Has(f, "day")
  BY <1>2, Fields3, WithOf
<1>7. Of(f, "runs") = runs /\ Has(f, "runs")
  BY <1>2, Fields3, WithOf
<1>8. e = [age |-> e.age, day |-> e.day, runs |-> e.runs]
  BY DEF ClockLook
<1>9. runs = e.runs
  <2>1. e.runs \in BOOLEAN /\ (clocks \/ e.runs)
    BY DEF Time, ClockLook
  <2>2. QED
    BY <1>1, <2>1
<1>10. Showable(board)' = [age |-> age, day |-> e.day, runs |-> e.runs]
  <2>1. e # None
    BY NoneAssumption
  <2>2. Showable(board)' = [e EXCEPT !.age = Or(@, 0, e.day)]
    BY <1>4, <2>1 DEF Showable
  <2>3. QED
    BY <1>1, <1>8, <2>2
<1>11. Updated([age |-> 0, day |-> 0, runs |-> TRUE], f)
           = [age |-> age, day |-> e.day, runs |-> e.runs]
  BY <1>5, <1>6, <1>7, <1>9 DEF Updated
<1>12. \A p : p.name = "time" /\ p.op = "set" /\ p.fields = f =>
          Draws(Showable(board), p) = [age |-> age, day |-> e.day, runs |-> e.runs]
  BY <1>11 DEF Draws
<1>13. "time" \notin DeedTopics
  BY DEF DeedTopics
<1>14. PICK x : x = Showable(board)'
  OBVIOUS
<1>15. \A p : p.name = "time" /\ p.op = "set" /\ p.fields = f => Draws(Showable(board), p) = x
  BY <1>10, <1>12, <1>14
<1>16. QED
  BY <1>3, <1>4, <1>13, <1>14, <1>15, SayShown

\* The spawn is told as each client's release has it.
LEMMA SpawnMirrors ==
    ASSUME NEW e \in SpawnLook, NEW named \in BOOLEAN, DefaultSpawn(e, named)
    PROVE  Mirrored /\ topic' = topic
<1>1. PICK r : r = IF named THEN e ELSE [e EXCEPT !.dim = ""]
  OBVIOUS
<1>2. e = [dim |-> e.dim, at |-> e.at, angle |-> e.angle, pitch |-> e.pitch]
  BY DEF SpawnLook
<1>3. /\ r.at = e.at /\ r.angle = e.angle /\ r.pitch = e.pitch
      /\ (IF r.dim = "" THEN "overworld" ELSE r.dim) = e.dim
  <2>1. e.dim # "" /\ (named \/ e.dim = "overworld")
    BY DEF SpawnLook, DefaultSpawn
  <2>2. CASE named
    BY <1>1, <2>1, <2>2
  <2>3. CASE ~named
    <3>1. r = [dim |-> "", at |-> e.at, angle |-> e.angle, pitch |-> e.pitch]
      BY <1>1, <1>2, <2>3
    <3>2. QED
      BY <2>1, <2>3, <3>1
  <2>4. QED
    BY <2>2, <2>3
<1>4. PICK n \in BOOLEAN : n = (version >= 773)
  BY (version >= 773) \in BOOLEAN
<1>5. PICK f : f = If(n, F("dim", e.dim)) \o F("at", e.at) \o F("angle", e.angle)
                     \o If(n, F("pitch", e.pitch))
  OBVIOUS
<1>6. Say("spawn", e, Packet("spawn", "set", f))
  <2>1. Say("spawn", e, DefaultSpawnData(r))
    BY <1>1 DEF DefaultSpawn
  <2>2. DefaultSpawnData(r) = Packet("spawn", "set", f)
    <3>1. CASE n
      BY <1>3, <1>4, <1>5, <3>1 DEF DefaultSpawnData, defaultSpawnGlobalPos, If
    <3>2. CASE ~n
      BY <1>3, <1>4, <1>5, <3>2 DEF DefaultSpawnData, defaultSpawnGlobalPos, If
    <3>3. QED
      BY <3>1, <3>2
  <2>3. QED
    BY <2>1, <2>2
<1>7. topic = "spawn" /\ topic' = "spawn" /\ version' = version /\ board' = e
  BY <1>6, SayIs
<1>8. e # None
  BY NoneAssumption
<1>9. PICK old : old = [dim |-> "overworld", at |-> 0, angle |-> 0, pitch |-> 0]
  OBVIOUS
<1>10. Updated(old, f) = Showable(board)'
  <2>1. CASE n
    <3>1. PICK q1 : q1 = F("dim", e.dim)
      OBVIOUS
    <3>2. PICK q2 : q2 = q1 \o F("at", e.at)
      OBVIOUS
    <3>3. PICK q3 : q3 = q2 \o F("angle", e.angle)
      OBVIOUS
    <3>4. f = q3 \o F("pitch", e.pitch)
      BY <1>5, <2>1, <3>1, <3>2, <3>3 DEF If
    <3>5. /\ With(q1, "dim", e.dim) /\ Without(q1, "at") /\ Without(q1, "angle")
          /\ Without(q1, "pitch")
      BY <3>1, FieldWithout
    <3>6. /\ With(q2, "dim", e.dim) /\ With(q2, "at", e.at) /\ Without(q2, "angle")
          /\ Without(q2, "pitch")
      BY <3>2, <3>5, NextWithout
    <3>7. /\ With(q3, "dim", e.dim) /\ With(q3, "at", e.at) /\ With(q3, "angle", e.angle)
          /\ Without(q3, "pitch")
      BY <3>3, <3>6, NextWithout
    <3>8. /\ With(f, "dim", e.dim) /\ With(f, "at", e.at) /\ With(f, "angle", e.angle)
          /\ With(f, "pitch", e.pitch)
      BY <3>4, <3>7, NextWithout
    <3>9. /\ Of(f, "dim") = e.dim /\ Of(f, "at") = e.at /\ Of(f, "angle") = e.angle
          /\ Of(f, "pitch") = e.pitch
          /\ Has(f, "dim") /\ Has(f, "at") /\ Has(f, "angle") /\ Has(f, "pitch")
      BY <3>8, WithOf
    <3>10. Updated(old, f) = e
      BY <1>2, <1>9, <3>9 DEF Updated
    <3>11. Showable(board)' = e
      BY <1>4, <1>7, <1>8, <2>1 DEF Showable
    <3>12. QED
      BY <3>10, <3>11
  <2>2. CASE ~n
    <3>1. PICK q1 : q1 = F("at", e.at)
      OBVIOUS
    <3>2. PICK q2 : q2 = q1 \o F("angle", e.angle)
      OBVIOUS
    <3>3. With(q1, "at", e.at) /\ Without(q1, "angle") /\ Without(q1, "dim") /\ Without(q1, "pitch")
      BY <3>1, FieldWithout
    <3>4. /\ With(q2, "at", e.at) /\ With(q2, "angle", e.angle) /\ Without(q2, "dim")
          /\ Without(q2, "pitch")
      BY <3>2, <3>3, NextWithout
    <3>5. f = q2
      <4>1. f = << >> \o F("at", e.at) \o F("angle", e.angle) \o << >>
        BY <1>5, <2>2 DEF If
      <4>2. << >> \o q1 = q1
        BY <3>3, JoinNothing DEF With
      <4>3. q2 \o << >> = q2
        BY <3>4, JoinNothing DEF With
      <4>4. QED
        BY <3>1, <3>2, <4>1, <4>2, <4>3
    <3>6. /\ Of(f, "at") = e.at /\ Of(f, "angle") = e.angle
          /\ ~Has(f, "dim") /\ Has(f, "at") /\ Has(f, "angle") /\ ~Has(f, "pitch")
      BY <3>4, <3>5, WithOf
    <3>7. Updated(old, f) = [dim |-> "overworld", at |-> e.at, angle |-> e.angle, pitch |-> 0]
      BY <1>9, <3>6 DEF Updated
    <3>8. Showable(board)' = [e EXCEPT !.dim = "overworld", !.pitch = 0]
      BY <1>4, <1>7, <1>8, <2>2 DEF Showable
    <3>9. QED
      BY <1>2, <3>7, <3>8
  <2>3. QED
    BY <2>1, <2>2
<1>11. PICK x : x = Showable(board)'
  OBVIOUS
<1>12. \A p : p.name = "spawn" /\ p.op = "set" /\ p.fields = f => Draws(Showable(board), p) = x
  BY <1>9, <1>10, <1>11 DEF Draws
<1>13. "spawn" \notin DeedTopics
  BY DEF DeedTopics
<1>14. QED
  BY <1>6, <1>7, <1>11, <1>12, <1>13, SayShown

-----------------------------------------------------------------------------
(* Recipes.                                                                *)

\* A sequence and what the client sees in it, place by place.
SeenAs(a, b) ==
    /\ IsSeq(a) /\ IsSeq(b) /\ Len(a) = Len(b)
    /\ \A i \in 1 .. Len(a) : b[i] = ShowsSlot(a[i])

\* Slots are seen one by one,
LEMMA SeenSlots ==
    ASSUME NEW a, NEW b, SeenAs(a, b)
    PROVE  ShowsSlots(a) = b
<1>1. PICK n \in Nat : n = Len(a) /\ n = Len(b) /\ DOMAIN a = 1 .. n /\ DOMAIN b = 1 .. n
                       /\ b = [i \in 1 .. n |-> b[i]]
  BY DEF SeenAs, IsSeq
<1>2. \A i \in 1 .. n : b[i] = ShowsSlot(a[i])
  BY <1>1 DEF SeenAs
<1>3. QED
  BY <1>1, <1>2 DEF ShowsSlots

\* one alone,
LEMMA SeenOne ==
    ASSUME NEW d, NEW x, ShowsSlot(d) = x
    PROVE  SeenAs(<<d>>, <<x>>)
<1>1. PICK a : a = <<d>> /\ IsSeq(a) /\ DOMAIN a = 1 .. 1 /\ a[1] = d /\ Len(a) = 1
  <2>1. Len(<<d>>) = 1
    OBVIOUS
  <2>2. QED
    BY <2>1, OneSeq
<1>2. PICK b : b = <<x>> /\ IsSeq(b) /\ DOMAIN b = 1 .. 1 /\ b[1] = x /\ Len(b) = 1
  <2>1. Len(<<x>>) = 1
    OBVIOUS
  <2>2. QED
    BY <2>1, OneSeq
<1>3. \A i \in 1 .. 1 : i = 1
  OBVIOUS
<1>4. QED
  BY <1>1, <1>2, <1>3 DEF SeenAs

\* and some after others.
LEMMA SeenJoin ==
    ASSUME NEW a, NEW b, NEW x, NEW y, SeenAs(a, x), SeenAs(b, y)
    PROVE  SeenAs(a \o b, x \o y)
<1>1. IsSeq(a) /\ IsSeq(b) /\ IsSeq(x) /\ IsSeq(y) /\ Len(a) = Len(x) /\ Len(b) = Len(y)
  BY DEF SeenAs
<1>2. PICK n, k, c : n \in Nat /\ k \in Nat /\ n = Len(a) /\ k = Len(b) /\ c = a \o b
  BY <1>1, JoinSeq
<1>3. /\ IsSeq(c) /\ Len(c) = n + k
      /\ \A i \in 1 .. n : c[i] = a[i]
      /\ \A i \in 1 .. k : c[n + i] = b[i]
      /\ \A i \in 1 .. (n + k) : i \in 1 .. n \/ \E j \in 1 .. k : i = n + j
  <2>1. IsSeq(c) /\ Len(c) = n + k
    BY <1>1, <1>2, JoinSeq
  <2>2. \A i \in 1 .. n : c[i] = a[i]
    BY <1>1, <1>2, JoinSeq
  <2>3. \A i \in 1 .. k : c[n + i] = b[i]
    BY <1>1, <1>2, JoinSeq
  <2>4. ASSUME NEW i \in 1 .. (n + k) PROVE i \in 1 .. n \/ \E j \in 1 .. k : i = n + j
    <3>1. n \in Nat /\ k \in Nat
      BY <1>2
    <3>2. CASE i <= n
      BY <3>1, <3>2
    <3>3. CASE ~(i <= n)
      <4>1. i - n \in 1 .. k /\ i = n + (i - n)
        BY <3>1, <3>3
      <4>2. QED
        BY <4>1
    <3>4. QED
      BY <3>2, <3>3
  <2>5. QED
    BY <2>1, <2>2, <2>3, <2>4
<1>4. PICK z : z = x \o y
  OBVIOUS
<1>5. n = Len(x) /\ k = Len(y)
  BY <1>1, <1>2
<1>6. /\ IsSeq(z) /\ Len(z) = n + k
      /\ \A i \in 1 .. n : z[i] = x[i]
      /\ \A i \in 1 .. k : z[n + i] = y[i]
  BY <1>1, <1>4, <1>5, JoinSeq
<1>7. /\ \A i \in 1 .. n : x[i] = ShowsSlot(a[i])
      /\ \A i \in 1 .. k : y[i] = ShowsSlot(b[i])
  BY <1>2 DEF SeenAs
<1>8. \A i \in 1 .. (n + k) : z[i] = ShowsSlot(c[i])
  BY <1>3, <1>6, <1>7
<1>9. QED
  BY <1>2, <1>3, <1>4, <1>6, <1>8 DEF SeenAs

\* A slot display is seen as the item and count it is of, in every release.
LEMMA SlotSeen ==
    ASSUME NEW i, NEW count \in Nat
    PROVE  ShowsSlot(SlotDisplay(i, count)) = IF i = "air" THEN <<"nothing", 0>> ELSE <<i, count>>
<1>1. PICK d : d = SlotDisplay(i, count)
  OBVIOUS
<1>2. CASE i = "air"
  BY <1>1, <1>2 DEF SlotDisplay, ShowsSlot
<1>3. CASE i # "air" /\ count = 1
  <2>1. PICK f : f = F("item", i)
    OBVIOUS
  <2>2. With(f, "item", i) /\ Without(f, "count")
    BY <2>1, FieldWithout
  <2>3. Of(f, "item") = i /\ ~Has(f, "count")
    BY <2>2, WithOf
  <2>4. d.fields = f /\ d.type # 0 /\ d.type # 1
    BY <1>1, <1>3, <2>1 DEF SlotDisplay
  <2>5. QED
    BY <1>1, <1>3, <2>3, <2>4 DEF ShowsSlot
<1>4. CASE i # "air" /\ count # 1
  <2>1. PICK f, g : f = F("item", i) \o F("count", count) /\ g = F("count", count) \o F("item", i)
    OBVIOUS
  <2>2. Of(f, "item") = i /\ Of(f, "count") = count /\ Has(f, "count")
    BY <2>1, Fields2, WithOf
  <2>3. Of(g, "item") = i /\ Of(g, "count") = count /\ Has(g, "count")
    BY <2>1, Fields2, WithOf
  <2>4. (d.fields = f \/ d.fields = g) /\ d.type # 0 /\ d.type # 1
    BY <1>1, <1>4, <2>1 DEF SlotDisplay
  <2>5. QED
    BY <1>1, <1>4, <2>2, <2>3, <2>4 DEF ShowsSlot
<1>5. QED
  BY <1>2, <1>3, <1>4

\* The recipes a client has the items for.
LEMMA FitsIs ==
    \A r \in Recipes : FitsClient(r) <=> (version >= 777 \/ r # "shelf")
<1> SUFFICES ASSUME NEW r \in Recipes
             PROVE  FitsClient(r) <=> (version >= 777 \/ r # "shelf")
  OBVIOUS
<1>1. CASE version >= 777
  BY <1>1 DEF FitsClient, IDPresent
<1>2. CASE ~(version >= 777) /\ r = "shelf"
  <2>1. PICK c : c = RecipeOf["shelf"].cells /\ c = <<"poplar", "planks">>
    BY DEF RecipeOf
  <2>2. c[1] \in ToSet(c) /\ c[1] = "poplar"
    BY <2>1 DEF ToSet
  <2>3. "poplar" \in Named("shelf")
    BY <2>1, <2>2 DEF Named
  <2>4. QED
    BY <1>2, <2>3 DEF FitsClient, IDPresent
<1>3. CASE ~(version >= 777) /\ r # "shelf"
  <2>1. r = "slab" \/ r = "glass"
    BY <1>3 DEF Recipes
  <2>2. \A i \in DOMAIN RecipeOf[r].cells : RecipeOf[r].cells[i] # "poplar"
    <3>1. CASE r = "slab"
      <4>1. PICK c : c = RecipeOf[r].cells /\ c = <<"planks", "air", "planks">>
        BY <3>1 DEF RecipeOf
      <4>2. QED
        BY <4>1
    <3>2. CASE r = "glass"
      <4>1. PICK c : c = RecipeOf[r].cells /\ c = <<"sand">>
        BY <3>2 DEF RecipeOf
      <4>2. QED
        BY <4>1
    <3>3. QED
      BY <2>1, <3>1, <3>2
  <2>3. RecipeOf[r].result # "poplar" /\ RecipeOf[r].station # "poplar"
    BY <2>1 DEF RecipeOf
  <2>4. "poplar" \notin Named(r)
    BY <2>2, <2>3 DEF Named, ToSet
  <2>5. QED
    BY <1>3, <2>4 DEF FitsClient, IDPresent
<1>4. QED
  BY <1>1, <1>2, <1>3

\* The display of a recipe that fits is seen as the recipe is.
LEMMA DisplaySeen ==
    ASSUME NEW r \in Recipes, FitsClient(r)
    PROVE  ShowsSlots(RecipeDisplay(r)) = TrueSlots(r)
<1>1. PICK c : c = RecipeOf[r].cells /\ IsSeq(c)
  BY CellsAre
<1>2. PICK n \in Nat : n = Len(c) /\ DOMAIN c = 1 .. n
  BY <1>1 DEF IsSeq
<1>3. PICK res, cnt, sta : /\ res = RecipeOf[r].result /\ cnt = RecipeOf[r].count
                           /\ sta = RecipeOf[r].station
  OBVIOUS
<1>4. cnt \in Nat /\ res # "air" /\ sta # "air"
  BY <1>3 DEF Recipes, RecipeOf
<1>5. \A i : i \in Named(r) => rid(i) = i
  BY DEF FitsClient, rid
<1>6. res \in Named(r) /\ sta \in Named(r) /\ \A i \in 1 .. n : c[i] \in Named(r)
  BY <1>1, <1>2, <1>3 DEF Named, ToSet
<1>7. PICK a : a = [i \in 1 .. n |-> SlotDisplay(rid(c[i]), 1)]
  OBVIOUS
<1>8. PICK x : x = [i \in 1 .. n |-> IF c[i] = "air" THEN <<"nothing", 0>> ELSE <<c[i], 1>>]
  OBVIOUS
<1>9. SeenAs(a, x)
  <2>1. \A i \in 1 .. n : x[i] = ShowsSlot(a[i])
    <3>1. 1 \in Nat
      OBVIOUS
    <3>2. \A i \in 1 .. n : a[i] = SlotDisplay(c[i], 1)
      BY <1>5, <1>6, <1>7
    <3>3. \A i \in 1 .. n : ShowsSlot(SlotDisplay(c[i], 1))
                              = IF c[i] = "air" THEN <<"nothing", 0>> ELSE <<c[i], 1>>
      BY <3>1, SlotSeen
    <3>4. QED
      BY <1>8, <3>2, <3>3
  <2>2. IsSeq(a) /\ Len(a) = n
    BY <1>7 DEF IsSeq, ToSet
  <2>3. IsSeq(x) /\ Len(x) = n
    <3>1. DOMAIN x = 1 .. n /\ x = [i \in 1 .. n |-> x[i]]
      BY <1>8
    <3>2. \A i \in 1 .. n : x[i] \in ToSet(x)
      BY <3>1 DEF ToSet
    <3>3. QED
      BY <3>1, <3>2 DEF IsSeq
  <2>4. QED
    BY <2>1, <2>2, <2>3 DEF SeenAs
<1>10. PICK b : b = IF IsCooking(r) THEN << [type |-> slotDisplayAnyFuel, fields |-> << >>] >>
                    ELSE << >>
  OBVIOUS
<1>11. PICK y : y = IF IsCooking(r) THEN << <<"any fuel", 1>> >> ELSE << >>
  OBVIOUS
<1>12. SeenAs(b, y)
  <2>1. CASE IsCooking(r)
    <3>1. PICK d : d = [type |-> slotDisplayAnyFuel, fields |-> << >>]
      OBVIOUS
    <3>2. ShowsSlot(d) = <<"any fuel", 1>>
      <4>1. d.type = 1
        BY <3>1 DEF slotDisplayAnyFuel
      <4>2. QED
        BY <4>1 DEF ShowsSlot
    <3>3. SeenAs(<<d>>, << <<"any fuel", 1>> >>)
      BY <3>2, SeenOne
    <3>4. QED
      BY <1>10, <1>11, <2>1, <3>1, <3>3
  <2>2. CASE ~IsCooking(r)
    <3>1. Len(<< >>) = 0 /\ IsSeq(<< >>)
      BY NothingSeq
    <3>2. SeenAs(<< >>, << >>)
      BY <3>1 DEF SeenAs
    <3>3. QED
      BY <1>10, <1>11, <2>2, <3>2
  <2>3. QED
    BY <2>1, <2>2
<1>13. PICK d, e : d = SlotDisplay(rid(res), cnt) /\ e = SlotDisplay(rid(sta), 1)
  OBVIOUS
<1>14. SeenAs(<<d, e>>, << <<res, cnt>>, <<sta, 1>> >>)
  <2>1. ShowsSlot(d) = <<res, cnt>>
    BY <1>4, <1>5, <1>6, <1>13, SlotSeen
  <2>2. ShowsSlot(e) = <<sta, 1>>
    <3>1. 1 \in Nat /\ e = SlotDisplay(sta, 1)
      BY <1>5, <1>6, <1>13
    <3>2. QED
      BY <1>4, <3>1, SlotSeen
  <2>3. PICK u, v : u = <<res, cnt>> /\ v = <<sta, 1>>
    OBVIOUS
  <2>4. SeenAs(<<d>>, <<u>>) /\ SeenAs(<<e>>, <<v>>)
    BY <2>1, <2>2, <2>3, SeenOne
  <2>5. SeenAs(<<d>> \o <<e>>, <<u>> \o <<v>>)
    BY <2>4, SeenJoin
  <2>6. <<d>> \o <<e>> = <<d, e>> /\ <<u>> \o <<v>> = <<u, v>>
    BY Rows
  <2>7. QED
    BY <2>3, <2>5, <2>6
<1>15. PICK p, q : p = <<d, e>> /\ q = << <<res, cnt>>, <<sta, 1>> >>
  OBVIOUS
<1>16. SeenAs((a \o b) \o p, (x \o y) \o q)
  <2>1. SeenAs(a \o b, x \o y)
    BY <1>9, <1>12, SeenJoin
  <2>2. QED
    BY <1>14, <1>15, <2>1, SeenJoin
<1>17. RecipeDisplay(r) = (a \o b) \o p
  BY <1>1, <1>2, <1>3, <1>7, <1>10, <1>13, <1>15 DEF RecipeDisplay
<1>18. TrueSlots(r) = (x \o y) \o q
  BY <1>1, <1>2, <1>3, <1>8, <1>11, <1>15 DEF TrueSlots
<1>19. QED
  BY <1>16, <1>17, <1>18, SeenSlots

\* What is kept depends on what of it is there.
LEMMA KeptSame ==
    ASSUME NEW A, NEW s \in Seq(A), NEW S, NEW T, \A i \in 1 .. Len(s) : s[i] \in S <=> s[i] \in T
    PROVE  Kept(s, S) = Kept(s, T)
<1>1. PICK n \in Nat : n = Len(s)
  BY SeqIs
<1>2. PICK f : KeptRun(f, A, s, S)
  BY KeptRuns
<1>3. PICK g : KeptRun(g, A, s, T)
  BY KeptRuns
<1> DEFINE U == {i \in 0 .. n : f[i] = g[i]}
<1>4. 0 \in U
  BY <1>2, <1>3 DEF KeptRun
<1>5. ASSUME NEW i \in 1 .. n, i - 1 \in U PROVE i \in U
  <2>1. f[i] = IF s[i] \in S THEN Append(f[i - 1], s[i]) ELSE f[i - 1]
    BY <1>1, <1>2 DEF KeptRun
  <2>2. g[i] = IF s[i] \in T THEN Append(g[i - 1], s[i]) ELSE g[i - 1]
    BY <1>1, <1>3 DEF KeptRun
  <2>3. f[i - 1] = g[i - 1]
    BY <1>5
  <2>4. s[i] \in S <=> s[i] \in T
    BY <1>1
  <2>5. f[i] = g[i]
    BY <2>1, <2>2, <2>3, <2>4
  <2>6. QED
    BY <2>5
<1> HIDE DEF U
<1>6. 0 .. n \subseteq U
  BY <1>4, <1>5, StepByStep
<1>7. f[n] = g[n]
  BY <1>1, <1>6 DEF U
<1>8. QED
  BY <1>1, <1>2, <1>3, <1>7 DEF KeptRun

\* A page of the book: a recipe as the client has it.
Page(r, new) ==
    [slots |-> TrueSlots(r), new |-> new, needs |-> Kept(RecipeOf[r].cells, Named(r) \ {"air"})]

\* The entry of a recipe that fits is its page.
LEMMA EntryShown ==
    ASSUME NEW r \in Recipes, FitsClient(r), NEW mark, NEW e, e = BookEntry(r, mark)
    PROVE  [slots |-> ShowsSlots(e.display), needs |-> e.needs, new |-> On(e.flags, 2)]
               = Page(r, mark = "new")
<1>1. e.display = RecipeDisplay(r)
  BY DEF BookEntry
<1>2. ShowsSlots(e.display) = TrueSlots(r)
  BY <1>1, DisplaySeen
<1>3. PICK m \in BOOLEAN : m = (mark = "new")
  BY (mark = "new") \in BOOLEAN
<1>4. On(e.flags, 2) = m
  <2>1. PICK n : n = Bit(1, m) + Bit(2, m)
    OBVIOUS
  <2>2. e.flags = n
    BY <1>3, <2>1 DEF BookEntry
  <2>3. On(n, 2) = m
    <3>1. CASE m
      <4>1. n = 3
        BY <2>1, <3>1 DEF Bit
      <4>2. 3 \div 2 = 1 /\ 1 % 2 = 1
        OBVIOUS
      <4>3. On(3, 2) = TRUE
        BY <4>2 DEF On
      <4>4. QED
        BY <3>1, <4>1, <4>3
    <3>2. CASE ~m
      <4>1. n = 0
        BY <2>1, <3>2 DEF Bit
      <4>2. 0 \div 2 = 0 /\ 0 % 2 = 0
        OBVIOUS
      <4>3. On(0, 2) = FALSE
        BY <4>2 DEF On
      <4>4. QED
        BY <3>2, <4>1, <4>3
    <3>3. QED
      BY <3>1, <3>2
  <2>4. QED
    BY <2>2, <2>3
<1>5. PICK c : c = RecipeOf[r].cells /\ IsSeq(c)
  BY CellsAre
<1>6. PICK k : k = Kept(c, ToSet(c) \ {"air"})
  OBVIOUS
<1>7. k = Kept(c, Named(r) \ {"air"})
  <2>1. PICK A, S, T : A = ToSet(c) /\ S = ToSet(c) \ {"air"} /\ T = Named(r) \ {"air"}
        /\ c \in Seq(A)
    BY <1>5 DEF IsSeq
  <2>2. \A i \in 1 .. Len(c) : c[i] \in ToSet(c)
    BY <2>1, SeqIs
  <2>3. ToSet(c) \subseteq Named(r)
    BY <1>5 DEF Named
  <2>4. \A i \in 1 .. Len(c) : c[i] \in S <=> c[i] \in T
    BY <2>1, <2>2, <2>3
  <2>5. Kept(c, S) = Kept(c, T)
    BY <2>1, <2>4, KeptSame
  <2>6. QED
    BY <1>6, <2>1, <2>5
<1>8. e.needs = k
  <2>1. e.needs = [i \in DOMAIN k |-> rid(k[i])]
    BY <1>5, <1>6 DEF BookEntry, ingredientInstances
  <2>2. PICK A, S : A = ToSet(c) /\ S = ToSet(c) \ {"air"} /\ c \in Seq(A)
    BY <1>5 DEF IsSeq
  <2>3. k \in Seq(A) /\ ToSet(k) = ToSet(c) \cap S
    BY <1>6, <2>2, KeptIs
  <2>4. \A i \in DOMAIN k : k[i] \in Named(r)
    BY <1>5, <2>3 DEF Named, ToSet
  <2>5. \A i \in DOMAIN k : rid(k[i]) = k[i]
    BY <2>4 DEF FitsClient, rid
  <2>6. k = [i \in DOMAIN k |-> k[i]]
    BY <2>3
  <2>7. QED
    BY <2>1, <2>5, <2>6
<1>9. QED
  BY <1>2, <1>3, <1>4, <1>5, <1>7, <1>8 DEF Page

\* A book with the pages of the marks that fit, else as it was.
Turned(marks, old) ==
    [r \in Recipes |-> IF r \in DOMAIN marks /\ FitsClient(r) THEN Page(r, marks[r] = "new")
                       ELSE old[r]]

\* The fields of a packet of the book turn to the pages it has.
Turns(marks, f) ==
    /\ RecipeBookPacket(marks, TRUE) = Packet("book", "replace", f)
    /\ RecipeBookPacket(marks, FALSE) = Packet("book", "add", f)
    /\ \A s, p : p.name = "book" /\ p.op = "replace" /\ p.fields = f
           => Draws(s, p) = Turned(marks, Blank("book"))
    /\ \A s, p : p.name = "book" /\ p.op = "add" /\ p.fields = f
           => Draws(s, p) = Turned(marks, s)

\* A packet of the book has such fields.
LEMMA BookShown ==
    ASSUME NEW marks, DOMAIN marks \in SUBSET Recipes
    PROVE  \E f : Turns(marks, f)
<1> DEFINE S == {r \in DOMAIN marks : FitsClient(r)}
<1>1. IsFiniteSet(S)
  <2>1. IsFiniteSet({"slab"})
    BY FS_Singleton
  <2>2. IsFiniteSet({"slab"} \cup {"shelf"})
    BY <2>1, FS_AddElement
  <2>3. IsFiniteSet(({"slab"} \cup {"shelf"}) \cup {"glass"})
    BY <2>2, FS_AddElement
  <2>4. Recipes = ({"slab"} \cup {"shelf"}) \cup {"glass"}
    BY DEF Recipes
  <2>5. S \in SUBSET Recipes /\ IsFiniteSet(Recipes)
    BY <2>3, <2>4
  <2> HIDE DEF S
  <2>6. QED
    BY <2>5, FS_Subset
<1>2. PICK sent : sent = SetToSeq(S)
  OBVIOUS
<1>3. sent \in Seq(S) /\ ToSet(sent) = S
  <2> HIDE DEF S
  <2>1. QED
    BY <1>1, <1>2, LaidOut
<1>4. PICK n \in Nat : DOMAIN sent = 1 .. n
  <2> HIDE DEF S
  <2>1. Len(sent) \in Nat /\ DOMAIN sent = 1 .. Len(sent)
    BY <1>3
  <2>2. QED
    BY <2>1
<1>5. PICK es : es = [i \in 1 .. n |-> BookEntry(sent[i], marks[sent[i]])]
  OBVIOUS
<1>6. PICK f : f = F("entries", es)
  OBVIOUS
<1>7. /\ RecipeBookPacket(marks, TRUE) = Packet("book", "replace", f)
      /\ RecipeBookPacket(marks, FALSE) = Packet("book", "add", f)
  BY <1>2, <1>4, <1>5, <1>6 DEF RecipeBookPacket
<1>8. Of(f, "entries") = es
  BY <1>6, FieldWithout, WithOf
<1>9. PICK E : E = ToSet(es)
  OBVIOUS
<1>10. E = {BookEntry(r, marks[r]) : r \in S}
  <2>1. E = {es[i] : i \in 1 .. n}
    BY <1>5, <1>9 DEF ToSet
  <2>2. S = {sent[i] : i \in 1 .. n}
    BY <1>3, <1>4 DEF ToSet
  <2> HIDE DEF S
  <2>3. QED
    BY <1>5, <2>1, <2>2
<1>11. \A r, m : BookEntry(r, m).recipe = r
  BY DEF BookEntry
<1>12. ASSUME NEW r \in Recipes
       PROVE  /\ (\E e \in E : e.recipe = r) <=> (r \in DOMAIN marks /\ FitsClient(r))
              /\ r \in DOMAIN marks /\ FitsClient(r) =>
                     (CHOOSE e \in E : e.recipe = r) = BookEntry(r, marks[r])
  <2>1. (\E e \in E : e.recipe = r) <=> r \in S
    <3> HIDE DEF S
    <3>1. QED
      BY <1>10, <1>11
  <2>2. r \in S => \A e \in E : e.recipe = r => e = BookEntry(r, marks[r])
    <3> HIDE DEF S
    <3>1. QED
      BY <1>10, <1>11
  <2>3. QED
    BY <2>1, <2>2
<1>13. ASSUME NEW s, NEW p, p.name = "book", p.fields = f,
              NEW old, old = IF p.op = "replace" THEN Blank("book") ELSE s
       PROVE  Draws(s, p) = Turned(marks, old)
  <2>1. Draws(s, p) = ShowsBook(s, p)
    BY <1>13 DEF Draws
  <2>2. ShowsBook(s, p) =
          [r \in Recipes |->
            IF \E e \in E : e.recipe = r
            THEN LET e == CHOOSE e \in E : e.recipe = r
                 IN  [slots |-> ShowsSlots(e.display), needs |-> e.needs,
                      new |-> On(e.flags, 2)]
            ELSE old[r]]
    BY <1>8, <1>9, <1>13 DEF ShowsBook
  <2>3. ASSUME NEW r \in Recipes
        PROVE  (IF \E e \in E : e.recipe = r
                THEN LET e == CHOOSE e \in E : e.recipe = r
                     IN  [slots |-> ShowsSlots(e.display), needs |-> e.needs,
                          new |-> On(e.flags, 2)]
                ELSE old[r])
                 = (IF r \in DOMAIN marks /\ FitsClient(r) THEN Page(r, marks[r] = "new")
                    ELSE old[r])
    <3>1. CASE r \in DOMAIN marks /\ FitsClient(r)
      <4>1. PICK e : e = CHOOSE d \in E : d.recipe = r
        OBVIOUS
      <4>2. e = BookEntry(r, marks[r]) /\ \E d \in E : d.recipe = r
        BY <1>12, <3>1, <4>1
      <4>3. [slots |-> ShowsSlots(e.display), needs |-> e.needs, new |-> On(e.flags, 2)]
                 = Page(r, marks[r] = "new")
        BY <3>1, <4>2, EntryShown
      <4>4. QED
        BY <3>1, <4>1, <4>2, <4>3
    <3>2. CASE ~(r \in DOMAIN marks /\ FitsClient(r))
      BY <1>12, <3>2
    <3>3. QED
      BY <3>1, <3>2
  <2>4. QED
    BY <2>1, <2>2, <2>3 DEF Turned
<1>14. ASSUME NEW s, NEW p, p.name = "book", p.fields = f
       PROVE  /\ p.op = "replace" => Draws(s, p) = Turned(marks, Blank("book"))
              /\ p.op = "add" => Draws(s, p) = Turned(marks, s)
  <2>1. PICK old : old = IF p.op = "replace" THEN Blank("book") ELSE s
    OBVIOUS
  <2>2. Draws(s, p) = Turned(marks, old)
    BY <1>13, <1>14, <2>1
  <2>3. QED
    BY <2>1, <2>2
<1>15. Turns(marks, f)
  BY <1>7, <1>14 DEF Turns
<1>16. QED
  BY <1>15

BookShape(b) == b \in [Recipes -> {None, "seen", "new"}]

\* What of a page the client can show.
PageOf(b, r) == IF b[r] = None \/ ~FitsClient(r) THEN None ELSE Page(r, b[r] = "new")

\* The client can show the pages of the recipes it has the items for.
LEMMA PagesAre ==
    topic = "book" => Showable(board) = [r \in Recipes |-> PageOf(board, r)]
BY FitsIs DEF Showable, PageOf, Page

\* A recipe book known or a recipe unlocked is shown page by page.
LEMMA BookMirrors ==
    /\ \A known \in SUBSET Recipes :
           RecipeBook(known) => Mirrored /\ topic' = topic /\ BookShape(board')
    /\ \A r \in Recipes : RecipeUnlocked(r) /\ BookShape(board) =>
           Mirrored /\ topic' = topic /\ BookShape(board')
<1>1. "book" \notin DeedTopics
  BY DEF DeedTopics
<1>2. None # "seen" /\ None # "new"
  BY NoneAssumption
<1>3. (topic = "book" => Showable(board) = [r \in Recipes |-> PageOf(board, r)])'
  BY PagesAre, PTL
<1>4. ASSUME NEW known \in SUBSET Recipes, RecipeBook(known)
      PROVE  Mirrored /\ topic' = topic /\ BookShape(board')
  <2>1. PICK b : b = [r \in Recipes |-> IF r \in known THEN "seen" ELSE None]
    OBVIOUS
  <2>2. PICK marks : marks = [r \in known |-> "seen"]
    OBVIOUS
  <2>3. Say("book", b, RecipeBookPacket(marks, TRUE))
    BY <1>4, <2>1, <2>2 DEF RecipeBook
  <2>4. topic = "book" /\ topic' = "book" /\ version' = version /\ board' = b
    BY <2>3, SayIs
  <2>5. PICK f : Turns(marks, f)
    <3>1. DOMAIN marks \in SUBSET Recipes
      BY <2>2
    <3>2. QED
      BY <3>1, BookShown
  <2>6. Showable(board)' = [r \in Recipes |-> PageOf(b, r)]
    <3>1. \A r : FitsClient(r)' = FitsClient(r)
      BY <2>4 DEF FitsClient, IDPresent
    <3>2. \A r : PageOf(board, r)' = PageOf(b, r)
      BY <2>4, <3>1 DEF PageOf, Page
    <3>3. QED
      BY <1>3, <2>4, <3>2
  <2>7. ASSUME NEW r \in Recipes
        PROVE  PageOf(b, r) = IF r \in DOMAIN marks /\ FitsClient(r)
                              THEN Page(r, marks[r] = "new") ELSE Blank("book")[r]
    <3>1. Blank("book")[r] = None
      BY DEF Blank, DeedTopics
    <3>2. CASE r \in known
      <4>1. b[r] = "seen" /\ marks[r] = "seen" /\ r \in DOMAIN marks
        BY <2>1, <2>2, <3>2
      <4>2. QED
        BY <1>2, <3>1, <4>1 DEF PageOf
    <3>3. CASE r \notin known
      <4>1. b[r] = None /\ r \notin DOMAIN marks
        BY <2>1, <2>2, <3>3
      <4>2. QED
        BY <3>1, <4>1 DEF PageOf
    <3>4. QED
      BY <3>2, <3>3
  <2>8. PICK x : x = Showable(board)'
    OBVIOUS
  <2>9. \A p : p.name = "book" /\ p.op = "replace" /\ p.fields = f => Draws(Showable(board), p) = x
    BY <2>5, <2>6, <2>7, <2>8 DEF Turns, Turned
  <2>10. BookShape(b)
    BY <2>1 DEF BookShape
  <2>11. Say("book", b, Packet("book", "replace", f))
    BY <2>3, <2>5 DEF Turns
  <2>12. Mirrored
    BY <1>1, <2>8, <2>9, <2>11, SayShown
  <2>13. QED
    BY <2>4, <2>10, <2>12
<1>5. ASSUME NEW r \in Recipes, RecipeUnlocked(r), BookShape(board)
      PROVE  Mirrored /\ topic' = topic /\ BookShape(board')
  <2>1. PICK b : b = [board EXCEPT ![r] = "new"]
    OBVIOUS
  <2>2. PICK marks : marks = [q \in {r} |-> "new"]
    OBVIOUS
  <2>3. Say("book", b, RecipeBookPacket(marks, FALSE)) /\ board[r] = None
    BY <1>5, <2>1, <2>2 DEF RecipeUnlocked
  <2>4. topic = "book" /\ topic' = "book" /\ version' = version /\ board' = b
    BY <2>3, SayIs
  <2>5. PICK f : Turns(marks, f)
    <3>1. DOMAIN marks \in SUBSET Recipes
      BY <2>2
    <3>2. QED
      BY <3>1, BookShown
  <2>6. Showable(board)' = [q \in Recipes |-> PageOf(b, q)]
    <3>1. \A q : FitsClient(q)' = FitsClient(q)
      BY <2>4 DEF FitsClient, IDPresent
    <3>2. \A q : PageOf(board, q)' = PageOf(b, q)
      BY <2>4, <3>1 DEF PageOf, Page
    <3>3. QED
      BY <1>3, <2>4, <3>2
  <2>7. PICK s : s = Showable(board) /\ s = [q \in Recipes |-> PageOf(board, q)]
    BY <2>4, PagesAre
  <2>8. ASSUME NEW q \in Recipes
        PROVE  PageOf(b, q) = IF q \in DOMAIN marks /\ FitsClient(q)
                              THEN Page(q, marks[q] = "new") ELSE s[q]
    <3>1. CASE q = r
      <4>1. b[q] = "new" /\ marks[q] = "new" /\ q \in DOMAIN marks /\ board[q] = None
        BY <1>5, <2>1, <2>2, <2>3, <3>1 DEF BookShape
      <4>2. s[q] = None
        BY <2>7, <4>1 DEF PageOf
      <4>3. QED
        BY <1>2, <4>1, <4>2 DEF PageOf
    <3>2. CASE q # r
      <4>1. b[q] = board[q] /\ q \notin DOMAIN marks
        BY <1>5, <2>1, <2>2, <3>2 DEF BookShape
      <4>2. QED
        BY <2>7, <4>1 DEF PageOf
    <3>3. QED
      BY <3>1, <3>2
  <2>9. PICK x : x = Showable(board)'
    OBVIOUS
  <2>10. \A p : p.name = "book" /\ p.op = "add" /\ p.fields = f => Draws(Showable(board), p) = x
    BY <2>5, <2>6, <2>7, <2>8, <2>9 DEF Turns, Turned
  <2>11. BookShape(b)
    BY <1>5, <2>1 DEF BookShape
  <2>12. Say("book", b, Packet("book", "add", f))
    BY <2>3, <2>5 DEF Turns
  <2>13. Mirrored
    BY <1>1, <2>9, <2>10, <2>12, SayShown
  <2>14. QED
    BY <2>4, <2>11, <2>13
<1>6. QED
  BY <1>4, <1>5

\* A ghost is shown if its client has the items.
LEMMA GhostMirrors ==
    ASSUME NEW r \in Recipes, GhostRecipe(r)
    PROVE  Mirrored /\ topic' = topic
<1>1. CASE FitsClient(r)
  <2>1. PICK f : f = F("display", RecipeDisplay(r))
    OBVIOUS
  <2>2. Say("ghost", r, Packet("ghost", r, f))
    BY <1>1, <2>1 DEF GhostRecipe
  <2>3. topic = "ghost" /\ topic' = "ghost" /\ version' = version /\ board' = r
    BY <2>2, SayIs
  <2>4. Of(f, "display") = RecipeDisplay(r)
    BY <2>1, FieldWithout, WithOf
  <2>5. Showable(board)' = [recipe |-> r, slots |-> TrueSlots(r)]
    <3>1. r # None
      BY NoneAssumption
    <3>2. QED
      BY <2>3, <3>1 DEF Showable
  <2>6. PICK x : x = Showable(board)'
    OBVIOUS
  <2>7. ShowsSlots(RecipeDisplay(r)) = TrueSlots(r)
    BY <1>1, DisplaySeen
  <2>8. \A p : p.name = "ghost" /\ p.op = r /\ p.fields = f => Draws(Showable(board), p) = x
    BY <2>4, <2>5, <2>6, <2>7 DEF Draws
  <2>9. "ghost" \notin DeedTopics
    BY DEF DeedTopics
  <2>10. Mirrored
    BY <2>2, <2>6, <2>8, <2>9, SayShown
  <2>11. QED
    BY <2>3, <2>10
<1>2. CASE ~FitsClient(r)
  <2>1. Say("ghost", board, << >>)
    BY <1>2 DEF GhostRecipe
  <2>2. topic = "ghost" /\ topic' = "ghost" /\ version' = version /\ board' = board
    BY <2>1, SayIs
  <2>3. Showable(board)' = Showable(board)
    BY <2>2 DEF Showable
  <2>4. QED
    BY <2>1, <2>2, <2>3, SayHidden
<1>3. QED
  BY <1>1, <1>2

-----------------------------------------------------------------------------
(* Advancements.                                                           *)

\* What is told of an advancement is what is done of it.
ToldDone(row) == {row[i][1] : i \in {j \in DOMAIN row : row[j][2]}}

\* The progress told of an advancement is what is done of its criteria.
LEMMA ProgressTold ==
    ASSUME NEW entries, NEW reqs, NEW n \in entries, n \in DOMAIN reqs, reqs[n] \in Seq({"a", "b"}),
           NEW done, done[n] \subseteq ToSet(reqs[n])
    PROVE  ToldDone(Progress(reqs, entries, done)[n]) = done[n]
<1>1. PICK row : row = reqs[n]
  OBVIOUS
<1>2. PICK k \in Nat : DOMAIN row = 1 .. k
  BY <1>1, SeqIs
<1>3. PICK t : t = [i \in 1 .. k |-> <<row[i], row[i] \in done[n]>>]
  OBVIOUS
<1>4. Progress(reqs, entries, done)[n] = t
  BY <1>1, <1>2, <1>3 DEF Progress
<1>5. DOMAIN t = 1 .. k /\ \A i \in 1 .. k : t[i][1] = row[i] /\ (t[i][2] <=> row[i] \in done[n])
  BY <1>3
<1>6. \A c \in done[n] : \E i \in 1 .. k : row[i] = c
  <2>1. ToSet(row) = {row[i] : i \in 1 .. k}
    BY <1>2 DEF ToSet
  <2>2. QED
    BY <1>1, <2>1
<1>7. ToldDone(t) = done[n]
  BY <1>5, <1>6 DEF ToldDone
<1>8. QED
  BY <1>4, <1>7

\* A packet of advancements, and what a client that shows old makes of it.
AdvTells(b, reset, added, removed, progress, old) ==
    /\ b \in Boards /\ reset \in BOOLEAN
    /\ Tell(b, UpdateAdvancements(reset, added, removed, progress))
    /\ reset => old = Blank("advancements")
    /\ ~reset => old.tree = board.tree \cup beside /\ old.done = board.done
    /\ b.tree \cup beside' = (old.tree \ removed) \cup ToSet(added)
    /\ \A n \in Nodes :
          b.done[n] = IF n \in DOMAIN progress THEN ToldDone(progress[n]) ELSE old.done[n]

\* It shows what the world gives.
LEMMA AdvTold ==
    ASSUME topic = "advancements", board \in Boards, NEW b, NEW reset, NEW added, NEW removed,
           NEW progress, NEW old, AdvTells(b, reset, added, removed, progress, old)
    PROVE  Mirrored /\ topic' = topic /\ board' = b
<1> USE DEF AdvTells
<1>1. PICK f : f = F("added", added) \o F("removed", removed) \o F("progress", progress)
  OBVIOUS
<1>2. Of(f, "added") = added /\ Of(f, "removed") = removed /\ Of(f, "progress") = progress
  <2>1. With(f, "added", added) /\ With(f, "removed", removed) /\ With(f, "progress", progress)
    BY <1>1, Fields3
  <2>2. QED
    BY <2>1, WithOf
<1>3. PICK op : op = IF reset THEN "reset" ELSE "change"
  OBVIOUS
<1>4. PICK p : p.name = "advancements" /\ p.op = op /\ p.fields = f
      /\ Packet("advancements", op, f) = <<p>>
  BY PacketOf
<1>5. /\ UNCHANGED <<topic, version, screen>> /\ board' = b /\ net' = Append(net, <<p>>)
  <2>1. <<p>> # << >>
    OBVIOUS
  <2>2. UpdateAdvancements(reset, added, removed, progress) = <<p>>
    BY <1>1, <1>3, <1>4 DEF UpdateAdvancements
  <2>3. QED
    BY <2>1, <2>2 DEF Tell
<1>6. PICK s : s = Showable(board)
  OBVIOUS
<1>7. s = [tree |-> board.tree \cup beside, done |-> board.done, coming |-> {}]
  BY <1>6 DEF Showable, Boards
<1>8. PICK e : e = Showable(board)'
  OBVIOUS
<1>9. e = [tree |-> b.tree \cup beside', done |-> b.done, coming |-> {}]
  BY <1>5, <1>8 DEF Showable, Boards
<1>10. ShowsAdvancements(s, p) = e
  <2>1. PICK from : from = IF p.op = "reset" THEN Blank("advancements") ELSE s
    OBVIOUS
  <2>2. from = [tree |-> old.tree, done |-> old.done, coming |-> {}]
    <3>1. CASE reset
      BY <1>3, <1>4, <2>1, <3>1, BlankTree
    <3>2. CASE ~reset
      <4>1. from = s
        BY <1>3, <1>4, <2>1, <3>2
      <4>2. QED
        BY <1>7, <3>2, <4>1
    <3>3. QED
      BY <3>1, <3>2
  <2>3. from.tree = old.tree /\ from.done = old.done
    BY <2>2
  <2>4. PICK d : d = [n \in Nodes |-> IF n \in DOMAIN progress THEN ToldDone(progress[n])
                                      ELSE from.done[n]]
    OBVIOUS
  <2>5. b.done = d
    <3>1. b.done = [n \in Nodes |-> b.done[n]]
      BY DEF Boards
    <3>2. QED
      BY <2>3, <2>4, <3>1
  <2>6. ShowsAdvancements(s, p)
          = [tree |-> (from.tree \ removed) \cup ToSet(added), done |-> d, coming |-> {}]
    <3>1. PICK q : q = Of(p.fields, "progress")
      OBVIOUS
    <3>2. ShowsAdvancements(s, p)
            = [tree |-> (from.tree \ Of(p.fields, "removed")) \cup ToSet(Of(p.fields, "added")),
               done |-> [n \in Nodes |-> IF n \in DOMAIN q THEN ToldDone(q[n]) ELSE from.done[n]],
               coming |-> {}]
      BY <2>1, <3>1, Zenon DEF ShowsAdvancements, ToldDone
    <3>3. q = progress /\ Of(p.fields, "removed") = removed /\ Of(p.fields, "added") = added
      BY <1>2, <1>4, <3>1
    <3>4. QED
      BY <2>4, <3>2, <3>3
  <2>7. QED
    BY <1>9, <2>3, <2>5, <2>6
<1>11. Sees(topic, s, p) = e
  BY <1>4, <1>10 DEF Sees, Draws
<1>12. Leads(topic, version, s, <<p>>, e)
  BY <1>11, LeadsOne DEF DeedTopics
<1>13. QED
  BY <1>5, <1>6, <1>8, <1>12 DEF Mirrored

\* A whole tree is held back,
LEMMA WholeHeldBack ==
    ASSUME TreeHeld, NEW t \in Trees, NEW reset, advReqs = None \/ reset, AdvTreeWhole(t, reset)
    PROVE  Mirrored /\ topic' = topic
<1>1. topic = "advancements" /\ board \in Boards
  BY DEF AdvTreeWhole, Room, TreeHeld
<1>2. PICK b : b = [board EXCEPT !.coming = t]
  OBVIOUS
<1>3. Tell(b, << >>)
  BY <1>2 DEF AdvTreeWhole, AdvTree
<1>4. UNCHANGED <<topic, version, screen, net>> /\ board' = b
  BY <1>3 DEF Tell
<1>5. beside' = beside
  BY DEF AdvTreeWhole
<1>6. Showable(board)' = Showable(board)
  BY <1>1, <1>2, <1>4, <1>5 DEF Showable, Boards
<1>7. QED
  BY <1>4, <1>6 DEF Mirrored

\* unless it is a rejoin's, which is shown beside it,
LEMMA AdditionMirrors ==
    ASSUME Typed, TreeHeld, NEW t \in Trees, NEW reset, ~(advReqs = None \/ reset),
           AdvTreeWhole(t, reset)
    PROVE  Mirrored /\ topic' = topic
<1>1. /\ topic = "advancements" /\ board \in Boards /\ beside = {} /\ beside' = t
  BY DEF AdvTreeWhole, Room, TreeHeld
<1>2. PICK b : b = [board EXCEPT !.coming = t]
  OBVIOUS
<1>3. b \in Boards /\ b.tree = board.tree /\ b.done = board.done /\ b.coming = t
  BY <1>1, <1>2 DEF Boards
<1>4. PICK nodes, none, progress : nodes = InOrder(t) /\ none = {} /\ progress = << >>
  OBVIOUS
<1>5. ToSet(nodes) = t /\ DOMAIN progress = {}
  <2>1. Nodes \cap t = t
    BY DEF Trees, Nodes
  <2>2. ToSet(nodes) = t
    BY <1>4, <2>1, OrderIs
  <2>3. DOMAIN progress = {}
    BY <1>4
  <2>4. QED
    BY <2>2, <2>3
<1>6. Tell(b, If(nodes # << >> \/ none # {}, UpdateAdvancements(FALSE, nodes, none, progress)))
  <2>1. AdvTree(b, nodes, none, reset)
    BY <1>2, <1>4 DEF AdvTreeWhole
  <2>2. QED
    BY <1>4, <2>1 DEF AdvTree
<1>7. CASE nodes = << >>
  <2>1. UNCHANGED <<topic, version, screen, net>> /\ board' = b
    BY <1>4, <1>6, <1>7 DEF Tell, If
  <2>2. t = {}
    BY <1>5, <1>7, EmptyIs
  <2>3. Showable(board)' = Showable(board)
    BY <1>1, <1>2, <2>1, <2>2 DEF Showable, Boards
  <2>4. QED
    BY <2>1, <2>3 DEF Mirrored
<1>8. CASE nodes # << >>
  <2>1. PICK from, add : /\ add = FALSE
                         /\ from = [board EXCEPT !.tree = @ \cup beside]
    OBVIOUS
  <2>2. from.tree = board.tree \cup beside /\ from.done = board.done
    BY <1>1, <2>1 DEF Boards
  <2>3. Tell(b, UpdateAdvancements(add, nodes, none, progress))
    BY <1>6, <1>8, <2>1 DEF If
  <2>4. b.tree \cup beside' = (from.tree \ none) \cup ToSet(nodes)
    BY <1>1, <1>3, <1>4, <1>5, <2>2
  <2>5. \A n \in Nodes : b.done[n] = IF n \in DOMAIN progress THEN ToldDone(progress[n])
                                     ELSE from.done[n]
    BY <1>3, <1>5, <2>2
  <2>6. AdvTells(b, add, nodes, none, progress, from)
    BY <1>3, <2>1, <2>2, <2>3, <2>4, <2>5 DEF AdvTells
  <2>7. QED
    BY <1>1, <2>6, AdvTold
<1>9. QED
  BY <1>7, <1>8

\* its progress brings it,
LEMMA WholeMirrors ==
    ASSUME Typed, TreeHeld, NEW d \in Snapshots({"root", "leaf"}), AdvProgressWhole(d)
    PROVE  Mirrored /\ topic' = topic
<1>1. /\ topic = "advancements" /\ board \in Boards /\ owes = "progress" /\ advTree # None
      /\ board.coming \subseteq ToSet(advTree) /\ d \in Snapshots(board.coming)
      /\ beside' = ToSet(advTree) \ board.coming
  BY DEF AdvProgressWhole, Room, TreeHeld
<1>2. PICK coming : coming = board.coming
  OBVIOUS
<1>3. coming \in Trees /\ coming \subseteq Nodes
  BY <1>1, <1>2 DEF Boards, Trees, Nodes
<1>4. PICK b : b = [tree |-> coming, done |-> d, coming |-> {}]
  OBVIOUS
<1>5. /\ d \in [Nodes -> SUBSET {"a", "b"}]
      /\ \A n \in Nodes : d[n] \subseteq IF n \in coming THEN Criteria(n) ELSE {}
  BY <1>1, <1>2 DEF Snapshots
<1>6. b \in Boards
  <2>1. {} \in Trees
    BY DEF Trees
  <2>2. QED
    BY <1>3, <1>4, <1>5, <2>1 DEF Boards
<1>7. PICK nodes : nodes = advTree
  OBVIOUS
<1>8. /\ nodes \in Seq(Nodes) /\ coming \subseteq ToSet(nodes)
      /\ beside' = ToSet(nodes) \ coming
  BY <1>1, <1>2, <1>7, HeldBoth DEF Typed
<1>9. PICK progress : progress = Progress(ReqIndex(nodes), coming, d)
  OBVIOUS
<1>10. Tell(b, UpdateAdvancements(TRUE, nodes, {}, progress))
  BY <1>1, <1>2, <1>4, <1>7, <1>9 DEF AdvProgressWhole, AdvProgress
<1>11. ASSUME NEW n \in Nodes
       PROVE  b.done[n] = IF n \in DOMAIN progress THEN ToldDone(progress[n])
                          ELSE Blank("advancements").done[n]
  <2>1. DOMAIN progress = coming
    BY <1>9 DEF Progress
  <2>2. CASE n \in coming
    <3>1. PICK reqs : reqs = ReqIndex(nodes)
      OBVIOUS
    <3>2. n \in DOMAIN reqs /\ reqs[n] \in Seq({"a", "b"}) /\ ToSet(reqs[n]) = Criteria(n)
      BY <1>8, <2>2, <3>1, ReqIndexIs
    <3>3. ToldDone(progress[n]) = d[n]
      BY <1>5, <1>9, <2>2, <3>1, <3>2, ProgressTold
    <3>4. QED
      BY <1>4, <2>1, <2>2, <3>3
  <2>3. CASE n \notin coming
    BY <1>4, <1>5, <2>1, <2>3, BlankTree
  <2>4. QED
    BY <2>2, <2>3
<1>12. b.tree \cup beside' = (Blank("advancements").tree \ {}) \cup ToSet(nodes)
  BY <1>4, <1>8, BlankTree
<1>13. PICK old, reset, none : reset = TRUE /\ old = Blank("advancements") /\ none = {}
  OBVIOUS
<1>14. /\ Tell(b, UpdateAdvancements(reset, nodes, none, progress))
       /\ b.tree \cup beside' = (old.tree \ none) \cup ToSet(nodes) /\ b.coming = {}
       /\ \A n \in Nodes : b.done[n] = IF n \in DOMAIN progress THEN ToldDone(progress[n])
                                      ELSE old.done[n]
       /\ reset \in BOOLEAN /\ reset /\ old = Blank("advancements")
  BY <1>4, <1>10, <1>11, <1>12, <1>13
<1>15. AdvTells(b, reset, nodes, none, progress, old)
  BY <1>6, <1>14 DEF AdvTells
<1>16. QED
  BY <1>1, <1>15, AdvTold

\* what comes into view or goes out of it is told of at once,
LEMMA ChangeMirrors ==
    ASSUME Typed, TreeHeld, NEW t \in Trees, AdvTreeChanged(t)
    PROVE  Mirrored /\ topic' = topic
<1>1. /\ topic = "advancements" /\ board \in Boards /\ owes = "nothing" /\ advTree # None
      /\ t # board.tree /\ advReqs # None
      /\ beside' = beside \ t /\ board.tree \cap beside = {}
  BY HeldBoth DEF AdvTreeChanged, Room, TreeHeld, Typed
<1>2. PICK old : old = board.tree
  OBVIOUS
<1>3. old \subseteq Nodes /\ t \subseteq Nodes /\ t # old
  BY <1>1, <1>2 DEF Boards, Trees, Nodes
<1>4. PICK b : b = [board EXCEPT !.tree = t]
  OBVIOUS
<1>5. b \in Boards /\ b.tree = t /\ b.done = board.done /\ b.coming = board.coming
  BY <1>1, <1>4 DEF Boards
<1>6. PICK nodes, removed : nodes = InOrder(t \ old) /\ removed = old \ t
  OBVIOUS
<1>7. ToSet(nodes) = t \ old
  BY <1>3, <1>6, OrderIs
<1>8. nodes # << >> \/ removed # {}
  <2>1. CASE nodes = << >> /\ removed = {}
    <3>1. t \ old = {} /\ old \ t = {}
      BY <1>6, <1>7, <2>1, EmptyIs
    <3>2. QED
      BY <1>3, <3>1
  <2>2. QED
    BY <2>1
<1>9. PICK progress : progress = << >>
  OBVIOUS
<1>10. DOMAIN progress = {}
  BY <1>9
<1>11. Tell(b, UpdateAdvancements(FALSE, nodes, removed, progress))
  <2>1. AdvTree(b, nodes, removed, FALSE)
    BY <1>2, <1>4, <1>6 DEF AdvTreeChanged
  <2>2. QED
    BY <1>1, <1>8, <1>9, <2>1 DEF AdvTree, If
<1>12. PICK from, reset : /\ reset = FALSE
                          /\ from = [board EXCEPT !.tree = @ \cup beside]
  OBVIOUS
<1>13. from.tree = old \cup beside /\ from.done = board.done
  BY <1>1, <1>2, <1>12 DEF Boards
<1>14. b.tree \cup beside' = (from.tree \ removed) \cup ToSet(nodes)
  BY <1>1, <1>2, <1>5, <1>6, <1>7, <1>13
<1>15. \A n \in Nodes : b.done[n] = IF n \in DOMAIN progress THEN ToldDone(progress[n])
                                    ELSE from.done[n]
  BY <1>5, <1>10, <1>13
<1>16. AdvTells(b, reset, nodes, removed, progress, from)
  BY <1>2, <1>5, <1>11, <1>12, <1>13, <1>14, <1>15 DEF AdvTells
<1>17. QED
  BY <1>1, <1>16, AdvTold

\* and so is what is done of it.
LEMMA GrantMirrors ==
    ASSUME Typed, TreeHeld, NEW n \in Nodes, NEW done \in SUBSET {"a", "b"},
           done \subseteq Criteria(n), AdvGranted(n, done)
    PROVE  Mirrored /\ topic' = topic
<1>1. /\ topic = "advancements" /\ board \in Boards /\ owes = "nothing" /\ advTree # None
      /\ advReqs # None /\ n \in board.tree /\ DOMAIN advReqs = board.tree \cup beside
      /\ beside' = beside
  BY HeldBoth DEF AdvGranted, Room, TreeHeld, Typed, Indexed
<1>2. PICK b : b = [board EXCEPT !.done[n] = done]
  OBVIOUS
<1>3. /\ b \in Boards /\ b.tree = board.tree /\ b.coming = board.coming
      /\ \A m \in Nodes : b.done[m] = IF m = n THEN done ELSE board.done[m]
  BY <1>1, <1>2 DEF Boards
<1>4. PICK progress, reqs : reqs = advReqs /\ progress = Progress(reqs, {n}, b.done)
  OBVIOUS
<1>5. Tell(b, UpdateAdvancements(FALSE, << >>, {}, progress))
  BY <1>1, <1>2, <1>4 DEF AdvGranted, AdvProgress, If
<1>6. n \in DOMAIN reqs /\ reqs[n] \in Seq({"a", "b"}) /\ ToSet(reqs[n]) = Criteria(n)
  <2>1. PICK S \in SUBSET Nodes : advReqs \in [S -> Seq({"a", "b"})]
    BY <1>1 DEF Typed, Held
  <2>2. QED
    BY <1>1, <1>4, <2>1 DEF Typed, Held
<1>7. ToldDone(progress[n]) = done
  BY <1>3, <1>4, <1>6, ProgressTold
<1>8. DOMAIN progress = {n}
  BY <1>4 DEF Progress
<1>9. \A m \in Nodes : b.done[m] = IF m \in DOMAIN progress THEN ToldDone(progress[m])
                                   ELSE board.done[m]
  BY <1>3, <1>7, <1>8
<1>10. PICK from, reset, added, none :
          /\ reset = FALSE /\ added = << >> /\ none = {}
          /\ from = [board EXCEPT !.tree = @ \cup beside]
  OBVIOUS
<1>11. from.tree = board.tree \cup beside /\ from.done = board.done
  BY <1>1, <1>10 DEF Boards
<1>12. /\ Tell(b, UpdateAdvancements(reset, added, none, progress))
       /\ b.tree \cup beside' = (from.tree \ none) \cup ToSet(added)
       /\ \A m \in Nodes : b.done[m] = IF m \in DOMAIN progress THEN ToldDone(progress[m])
                                      ELSE from.done[m]
  BY <1>1, <1>3, <1>5, <1>9, <1>10, <1>11, EmptyIs
<1>13. AdvTells(b, reset, added, none, progress, from)
  BY <1>3, <1>10, <1>11, <1>12 DEF AdvTells
<1>14. QED
  BY <1>1, <1>13, AdvTold

-----------------------------------------------------------------------------
(* Deeds.                                                                  *)

\* The packets of a deed, and what the world hears of them.
Heard(ps, v, d) == ps # << >> /\ d = FlattenSeq([i \in DOMAIN ps |-> Hears(ps[i], v)])

\* What the world is to hear of a deed.
Due(t, d) == IF t = "words" THEN Heeded(d) ELSE d

\* A deed heard as it is to be takes its place among what the world hears.
LEMMA DeedMirrors ==
    ASSUME NEW t \in DeedTopics, NEW d, topic = t, Do(d),
           Heard(Told(d, version), version, Due(t, d))
    PROVE  Mirrored /\ topic' = topic
<1>1. PICK ps : ps = Told(d, version)
  OBVIOUS
<1>2. UNCHANGED <<topic, version, screen>> /\ board' = d /\ net' = Append(net, ps)
  BY <1>1 DEF Do, Say, Tell, Heard
<1>3. Showable(board)' = Due(t, d)
  BY <1>2 DEF Showable, DeedTopics, Due
<1>4. Leads(topic, version, Showable(board), ps, Due(t, d))
  BY <1>1 DEF Leads, Heard
<1>5. QED
  BY <1>2, <1>3, <1>4 DEF Mirrored

\* Of the changed rules of a game only are there many in a packet.
OfRule(f) == f.msg = "Command" /\ f.cmd[1] = "gamerule"

\* A frame is told in its packets,
LEMMA ToldOne ==
    ASSUME NEW f, NEW v, ~OfRule(f)
    PROVE  Told(<<f>>, v) = ToldOf(f, v)
<1>1. PICK d : d = <<f>>
  OBVIOUS
<1>2. DOMAIN d = 1 .. 1 /\ d[1] = f
  BY <1>1
<1>3. ~ \A i \in DOMAIN d : d[i].msg = "Command" /\ d[i].cmd[1] = "gamerule"
  BY <1>2 DEF OfRule
<1>4. [i \in DOMAIN d |-> ToldOf(d[i], v)] = <<ToldOf(f, v)>>
  BY <1>2
<1>5. Told(d, v) = FlattenSeq(<<ToldOf(f, v)>>)
  BY <1>3, <1>4 DEF Told
<1>6. QED
  BY <1>1, <1>5, FlatOne

\* one that the world hears as it reads it,
LEMMA HeardAs ==
    ASSUME NEW f, NEW v, ~OfRule(f), NEW name, NEW op, NEW fields, NEW e,
           ToldOf(f, v) = Packet(name, op, fields),
           \A p : p.name = name /\ p.op = op /\ p.fields = fields => Hears(p, v) = e
    PROVE  Heard(Told(<<f>>, v), v, e)
<1>1. PICK p : p.name = name /\ p.op = op /\ p.fields = fields /\ Packet(name, op, fields) = <<p>>
  BY PacketOf
<1>2. PICK ps : ps = <<p>>
  OBVIOUS
<1>3. ps # << >> /\ DOMAIN ps = 1 .. 1 /\ ps[1] = p
  BY <1>2
<1>4. Hears(p, v) = e
  BY <1>1
<1>5. [i \in DOMAIN ps |-> Hears(ps[i], v)] = <<e>>
  BY <1>3, <1>4
<1>6. Heard(ps, v, e)
  BY <1>3, <1>5, FlatOne DEF Heard
<1>7. QED
  BY <1>1, <1>2, <1>6, ToldOne

\* and mostly as what it is.
LEMMA HeardOne ==
    ASSUME NEW f, NEW v, ~OfRule(f), NEW name, NEW op, NEW fields,
           ToldOf(f, v) = Packet(name, op, fields),
           \A p : p.name = name /\ p.op = op /\ p.fields = fields => Hears(p, v) = <<f>>
    PROVE  Heard(Told(<<f>>, v), v, <<f>>)
<1>1. PICK e : e = <<f>>
  OBVIOUS
<1>2. \A p : p.name = name /\ p.op = op /\ p.fields = fields => Hears(p, v) = e
  BY <1>1
<1>3. Heard(Told(<<f>>, v), v, e)
  BY <1>2, HeardAs
<1>4. QED
  BY <1>1, <1>3

\* The bits of the pressed keys.
LEMMA KeyFlagsOf ==
    ASSUME NEW keys
    PROVE  LET n == KeyFlags(keys)
           IN  /\ On(n, 1) = ("forward" \in keys) /\ On(n, 2) = ("backward" \in keys)
               /\ On(n, 4) = ("left" \in keys) /\ On(n, 8) = ("right" \in keys)
               /\ On(n, 16) = ("jump" \in keys) /\ On(n, 32) = ("sneak" \in keys)
               /\ On(n, 64) = ("sprint" \in keys)
<1>1. PICK a \in 0 .. 1, b \in 0 .. 1, c \in 0 .. 1, d \in 0 .. 1, e \in 0 .. 1, g \in 0 .. 1,
      h \in 0 .. 1 :
         /\ (a = 1) = ("forward" \in keys) /\ (b = 1) = ("backward" \in keys)
         /\ (c = 1) = ("left" \in keys) /\ (d = 1) = ("right" \in keys)
         /\ (e = 1) = ("jump" \in keys) /\ (g = 1) = ("sneak" \in keys)
               /\ (h = 1) = ("sprint" \in keys)
  <2>1. \A k : \E x \in 0 .. 1 : (x = 1) = (k \in keys)
    OBVIOUS
  <2>2. QED
    BY <2>1
<1>2. PICK n : n = KeyFlags(keys)
  OBVIOUS
<1>3. n = a + 2 * b + 4 * c + 8 * d + 16 * e + 32 * g + 64 * h
  BY <1>1, <1>2 DEF KeyFlags, Bit
<1>4. /\ (n \div 1) % 2 = a /\ (n \div 2) % 2 = b /\ (n \div 4) % 2 = c
  BY <1>3
<1>5. /\ (n \div 8) % 2 = d /\ (n \div 16) % 2 = e
  BY <1>3
<1>6. /\ (n \div 32) % 2 = g /\ (n \div 64) % 2 = h
  BY <1>3
<1>7. QED
  BY <1>1, <1>2, <1>4, <1>5, <1>6 DEF On

\* The keys held, the flying, the paddles, the player's own actions.
LEMMA KeysHeard ==
    ASSUME NEW v, NEW d \in KeyDeeds(v)
    PROVE  Heard(Told(d, v), v, d)
<1>1. ASSUME NEW keys \in SUBSET Keys
      PROVE  Heard(Told(<<Input(keys)>>, v), v, <<Input(keys)>>)
  <2>1. PICK f : f = Input(keys)
    OBVIOUS
  <2>2. f.msg = "Input" /\ f.keys = keys
    BY <2>1 DEF Input
  <2>3. PICK r : r = F("flags", KeyFlags(keys))
    OBVIOUS
  <2>4. ToldOf(f, v) = Packet("player_input", "", r)
    BY <2>2, <2>3 DEF ToldOf
  <2>5. With(r, "flags", KeyFlags(keys))
    BY <2>3, FieldWithout
  <2>6. ASSUME NEW p, p.name = "player_input", p.op = "", p.fields = r
        PROVE  Hears(p, v) = <<f>>
    <3>1. Get(p, "flags") = KeyFlags(keys)
      BY <2>5, <2>6, WithOf DEF Get
    <3>2. {k \in Keys : On(Get(p, "flags"), InputBits[k])} = keys
      <4>1. PICK n : n = KeyFlags(keys)
        OBVIOUS
      <4>2. /\ On(n, 1) = ("forward" \in keys) /\ On(n, 2) = ("backward" \in keys)
            /\ On(n, 4) = ("left" \in keys) /\ On(n, 8) = ("right" \in keys)
            /\ On(n, 16) = ("jump" \in keys) /\ On(n, 32) = ("sneak" \in keys)
            /\ On(n, 64) = ("sprint" \in keys)
        BY <4>1, KeyFlagsOf
      <4>3. ASSUME NEW k \in Keys PROVE On(n, InputBits[k]) <=> k \in keys
        <5>1. /\ InputBits["forward"] = 1 /\ InputBits["backward"] = 2 /\ InputBits["left"] = 4
              /\ InputBits["right"] = 8 /\ InputBits["jump"] = 16 /\ InputBits["sneak"] = 32
              /\ InputBits["sprint"] = 64
          BY DEF InputBits
        <5>2. k \in {"forward", "backward", "left", "right", "jump", "sneak", "sprint"}
          BY DEF Keys
        <5>3. QED
          BY <4>2, <5>1, <5>2, Zenon
      <4>4. QED
        BY <1>1, <3>1, <4>1, <4>3
    <3>3. QED
      BY <1>1, <2>1, <2>6, <3>1, <3>2 DEF Hears, ParseInput
  <2>7. QED
    BY <2>1, <2>2, <2>4, <2>6, HeardOne DEF OfRule
<1>2. ASSUME NEW flying \in BOOLEAN
      PROVE  Heard(Told(<<PlayerAbilities(flying)>>, v), v, <<PlayerAbilities(flying)>>)
  <2>1. PICK f : f = PlayerAbilities(flying)
    OBVIOUS
  <2>2. f.msg = "PlayerAbilities" /\ f.flying = flying
    BY <2>1 DEF PlayerAbilities
  <2>3. PICK r : r = F("flags", Bit(2, flying))
    OBVIOUS
  <2>4. ToldOf(f, v) = Packet("player_abilities", "", r)
    BY <2>2, <2>3 DEF ToldOf
  <2>5. With(r, "flags", Bit(2, flying))
    BY <2>3, FieldWithout
  <2>6. ASSUME NEW p, p.name = "player_abilities", p.op = "", p.fields = r
        PROVE  Hears(p, v) = <<f>>
    <3>1. Get(p, "flags") = Bit(2, flying)
      BY <2>5, <2>6, WithOf DEF Get
    <3>2. On(Get(p, "flags"), 2) = flying
      <4>1. On(2, 2) = TRUE /\ On(0, 2) = FALSE
        BY DEF On
      <4>2. QED
        BY <3>1, <4>1 DEF Bit
    <3>3. QED
      BY <1>2, <2>1, <2>6, <3>1, <3>2 DEF Hears, ReadAbilities
  <2>7. QED
    BY <2>1, <2>2, <2>4, <2>6, HeardOne DEF OfRule
<1>3. ASSUME NEW left \in BOOLEAN, NEW right \in BOOLEAN
      PROVE  Heard(Told(<<PaddleBoat(left, right)>>, v), v, <<PaddleBoat(left, right)>>)
  <2>1. PICK f : f = PaddleBoat(left, right)
    OBVIOUS
  <2>2. f.msg = "PaddleBoat" /\ f.left = left /\ f.right = right
    BY <2>1 DEF PaddleBoat
  <2>3. PICK r : r = F("left", left) \o F("right", right)
    OBVIOUS
  <2>4. ToldOf(f, v) = Packet("paddle_boat", "", r)
    BY <2>2, <2>3 DEF ToldOf
  <2>5. With(r, "left", left) /\ With(r, "right", right)
    BY <2>3, Fields2
  <2>6. ASSUME NEW p, p.name = "paddle_boat", p.op = "", p.fields = r
        PROVE  Hears(p, v) = <<f>>
    <3>1. Get(p, "left") = left /\ Get(p, "right") = right
      BY <2>5, <2>6, WithOf DEF Get
    <3>2. QED
      BY <1>3, <2>1, <2>6, <3>1 DEF Hears, ParsePaddleBoat
  <2>7. QED
    BY <2>1, <2>2, <2>4, <2>6, HeardOne DEF OfRule
<1>4. ASSUME NEW action \in 2 .. 4
      PROVE  Heard(Told(<<PlayerAction(action)>>, v), v, <<PlayerAction(action)>>)
  <2>1. PICK f : f = PlayerAction(action)
    OBVIOUS
  <2>2. f.msg = "PlayerAction" /\ f.action = action
    BY <2>1 DEF PlayerAction
  <2>3. PICK r : r = F("entity", 1) \o F("action", action) \o F("boost", 0)
    OBVIOUS
  <2>4. ToldOf(f, v) = Packet("player_command", "", r)
    BY <2>2, <2>3 DEF ToldOf
  <2>5. With(r, "action", action)
    BY <2>3, Fields3
  <2>6. ASSUME NEW p, p.name = "player_command", p.op = "", p.fields = r
        PROVE  Hears(p, v) = <<f>>
    <3>1. Get(p, "action") = action
      BY <2>5, <2>6, WithOf DEF Get
    <3>2. QED
      BY <1>4, <2>1, <2>6, <3>1 DEF Hears, ParsePlayerAction
  <2>7. QED
    BY <2>1, <2>2, <2>4, <2>6, HeardOne DEF OfRule
<1>5. QED
  <2>1. {} \in SUBSET Keys /\ Keys \in SUBSET Keys /\ \A i \in Keys : {i} \in SUBSET Keys
    OBVIOUS
  <2>2. QED
    BY <1>1, <1>2, <1>3, <1>4, <2>1 DEF KeyDeeds

\* A packet is a sequence of one.
LEMMA PacketSeq ==
    ASSUME NEW name, NEW op, NEW fields
    PROVE  IsSeq(Packet(name, op, fields))
<1>1. PICK p : Packet(name, op, fields) = <<p>>
  BY PacketOf
<1>2. IsSeq(<<p>>)
  BY OneSeq
<1>3. QED
  BY <1>1, <1>2

\* Of two packets the first may be left out.
LEMMA HeardTwo ==
    ASSUME NEW f, NEW v, ~OfRule(f), NEW name, NEW op, NEW q, NEW r,
           ToldOf(f, v) = Packet(name, op, q) \o Packet(name, op, r),
           \A p : p.name = name /\ p.op = op /\ p.fields = q => Hears(p, v) = << >>,
           \A p : p.name = name /\ p.op = op /\ p.fields = r => Hears(p, v) = <<f>>
    PROVE  Heard(Told(<<f>>, v), v, <<f>>)
<1>1. PICK a : a.name = name /\ a.op = op /\ a.fields = q /\ Packet(name, op, q) = <<a>>
  BY PacketOf
<1>2. PICK b : b.name = name /\ b.op = op /\ b.fields = r /\ Packet(name, op, r) = <<b>>
  BY PacketOf
<1>3. PICK ps : ps = <<a, b>>
  OBVIOUS
<1>4. ps # << >> /\ DOMAIN ps = 1 .. 2 /\ ps[1] = a /\ ps[2] = b
  BY <1>3
<1>5. Hears(a, v) = << >> /\ Hears(b, v) = <<f>>
  BY <1>1, <1>2
<1>6. [i \in DOMAIN ps |-> Hears(ps[i], v)] = << << >>, <<f>> >>
  BY <1>4, <1>5
<1>7. FlattenSeq(<< << >>, <<f>> >>) = <<f>>
  <2>1. PICK n, x : n = << >> /\ x = <<f>>
    OBVIOUS
  <2>2. FlattenSeq(<<n, x>>) = n \o x /\ n \o x = x
    BY <2>1, FlatTwo, JoinNothing, OneSeq
  <2>3. QED
    BY <2>1, <2>2
<1>8. Heard(ps, v, <<f>>)
  BY <1>4, <1>6, <1>7 DEF Heard
<1>9. Packet(name, op, q) \o Packet(name, op, r) = ps
  BY <1>1, <1>2, <1>3, Rows
<1>10. QED
  BY <1>8, <1>9, ToldOne

\* What the hands use, swing, hold and pick.
LEMMA HandsHeard ==
    ASSUME NEW v \in Nat, NEW deed \in HandDeeds(v)
    PROVE  Heard(Told(deed, v), v, deed)
<1>1. ASSUME NEW hand \in {0, 1}
      PROVE  Heard(Told(<<UseEntity(5, FALSE, hand)>>, v), v, <<UseEntity(5, FALSE, hand)>>)
  <2>1. PICK f : f = UseEntity(5, FALSE, hand)
    OBVIOUS
  <2>2. f.msg = "UseEntity" /\ f.target = 5 /\ f.attack = FALSE /\ f.hand = hand
    BY <2>1 DEF UseEntity
  <2>3. PICK no : no = FALSE
    OBVIOUS
  <2>4. PICK r : r = F("target", 5) \o F("mouse", 0) \o F("hand", hand) \o F("sneak", no)
    OBVIOUS
  <2>5. PICK q : q = F("target", 5) \o F("mouse", 2) \o F("at", 3) \o F("hand", hand)
                         \o F("sneak", no)
    OBVIOUS
  <2>6. ToldOf(f, v) = If(v < 775, Packet("use_entity", "", q)) \o Packet("use_entity", "", r)
    <3>1. Bit(1, f.attack) = 0 /\ If(~f.attack, F("hand", f.hand)) = F("hand", hand)
      BY <2>2 DEF Bit, If
    <3>2. ToldOf(f, v) = If(~f.attack /\ v < 775, Packet("use_entity", "", q))
                           \o Packet("use_entity", "", r)
      BY <2>2, <2>3, <2>4, <2>5, <3>1 DEF ToldOf
    <3>3. QED
      BY <2>2, <3>2 DEF If
  <2>7. With(r, "target", 5) /\ With(r, "mouse", 0) /\ With(r, "hand", hand)
    BY <2>4, Fields4
  <2>8. With(q, "mouse", 2)
    BY <2>5, Fields5
  <2>9. ASSUME NEW p, p.name = "use_entity", p.op = "", p.fields = r
        PROVE  Hears(p, v) = <<f>>
    <3>1. Get(p, "target") = 5 /\ Get(p, "mouse") = 0 /\ Get(p, "hand") = hand
      BY <2>7, <2>9, WithOf DEF Get
    <3>2. Hears(p, v) = ParseUseEntity(p)
      BY <2>9 DEF Hears
    <3>3. ParseUseEntity(p) = <<UseEntity(5, FALSE, hand)>>
      <4>1. PICK mouse : mouse = Get(p, "mouse")
        OBVIOUS
      <4>2. mouse = 0 /\ ~(mouse > 1) /\ (mouse = 1) = FALSE
        BY <3>1, <4>1
      <4>3. QED
        BY <1>1, <3>1, <4>1, <4>2 DEF ParseUseEntity
    <3>4. QED
      BY <2>1, <3>2, <3>3
  <2>10. ASSUME NEW p, p.name = "use_entity", p.op = "", p.fields = q
         PROVE  Hears(p, v) = << >>
    <3>1. Get(p, "mouse") = 2
      BY <2>8, <2>10, WithOf DEF Get
    <3>2. Hears(p, v) = ParseUseEntity(p)
      BY <2>10 DEF Hears
    <3>3. ParseUseEntity(p) = << >>
      BY <3>1 DEF ParseUseEntity
    <3>4. QED
      BY <3>2, <3>3
  <2>11. CASE v < 775
    <3>1. ToldOf(f, v) = Packet("use_entity", "", q) \o Packet("use_entity", "", r)
      BY <2>6, <2>11 DEF If
    <3>2. ~OfRule(f)
      BY <2>2 DEF OfRule
    <3>3. Heard(Told(<<f>>, v), v, <<f>>)
      BY <2>9, <2>10, <3>1, <3>2, HeardTwo, Zenon
    <3>4. QED
      BY <2>1, <3>3
  <2>12. CASE ~(v < 775)
    <3>1. ToldOf(f, v) = Packet("use_entity", "", r)
      <4>1. IsSeq(Packet("use_entity", "", r))
        BY PacketSeq
      <4>2. ToldOf(f, v) = << >> \o Packet("use_entity", "", r)
        BY <2>6, <2>12 DEF If
      <4>3. QED
        BY <4>1, <4>2, JoinNothing
    <3>2. QED
      BY <2>1, <2>2, <2>9, <3>1, HeardOne DEF OfRule
  <2>13. QED
    BY <2>11, <2>12
<1>2. Heard(Told(<<UseEntity(5, TRUE, 0)>>, v), v, <<UseEntity(5, TRUE, 0)>>)
  <2>1. PICK f : f = UseEntity(5, TRUE, 0)
    OBVIOUS
  <2>2. f.msg = "UseEntity" /\ f.target = 5 /\ f.attack = TRUE /\ f.hand = 0
    BY <2>1 DEF UseEntity
  <2>3. PICK no : no = FALSE
    OBVIOUS
  <2>4. PICK r : r = F("target", 5) \o F("mouse", 1) \o F("sneak", no)
    OBVIOUS
  <2>5. ToldOf(f, v) = Packet("use_entity", "", r)
    <3>1. PICK a : a = F("target", 5) \o F("mouse", 1)
      OBVIOUS
    <3>2. With(a, "target", 5)
      BY <3>1, Fields2
    <3>3. a \o << >> = a /\ IsSeq(Packet("use_entity", "", r))
      BY <3>2, JoinNothing, PacketSeq DEF With
    <3>4. ToldOf(f, v) = << >> \o Packet("use_entity", "", a \o << >> \o F("sneak", no))
      BY <2>2, <2>3, <3>1 DEF ToldOf, Bit, If
    <3>5. QED
      BY <2>4, <3>1, <3>2, <3>3, <3>4, JoinNothing
  <2>6. With(r, "target", 5) /\ With(r, "mouse", 1) /\ Without(r, "hand")
    BY <2>4, Fields3
  <2>7. ASSUME NEW p, p.name = "use_entity", p.op = "", p.fields = r
        PROVE  Hears(p, v) = <<f>>
    <3>1. Get(p, "target") = 5 /\ Get(p, "mouse") = 1
      BY <2>6, <2>7, WithOf DEF Get
    <3>2. Hears(p, v) = ParseUseEntity(p)
      BY <2>7 DEF Hears
    <3>3. ParseUseEntity(p) = <<UseEntity(5, TRUE, 0)>>
      <4>1. PICK mouse : mouse = Get(p, "mouse")
        OBVIOUS
      <4>2. ~(mouse > 1) /\ mouse # 0 /\ (mouse = 1) = TRUE
        BY <3>1, <4>1
      <4>3. QED
        BY <3>1, <4>1, <4>2 DEF ParseUseEntity
    <3>4. QED
      BY <2>1, <3>2, <3>3
  <2>8. QED
    BY <2>1, <2>2, <2>5, <2>7, HeardOne DEF OfRule
<1>3. ASSUME NEW hand \in {0, 1}
      PROVE  Heard(Told(<<UseItem(hand, 9)>>, v), v, <<UseItem(hand, 9)>>)
  <2>1. PICK f : f = UseItem(hand, 9)
    OBVIOUS
  <2>2. f.msg = "UseItem" /\ f.hand = hand /\ f.seq = 9
    BY <2>1 DEF UseItem
  <2>3. PICK r : r = F("hand", hand) \o F("seq", 9) \o F("angles", 0)
    OBVIOUS
  <2>4. ToldOf(f, v) = Packet("use_item", "", r)
    BY <2>2, <2>3 DEF ToldOf
  <2>5. With(r, "hand", hand) /\ With(r, "seq", 9)
    BY <2>3, Fields3
  <2>6. ASSUME NEW p, p.name = "use_item", p.op = "", p.fields = r
        PROVE  Hears(p, v) = <<f>>
    <3>1. Get(p, "hand") = hand /\ Get(p, "seq") = 9
      BY <2>5, <2>6, WithOf DEF Get
    <3>2. QED
      BY <1>3, <2>1, <2>6, <3>1 DEF Hears, ParseUseItem
  <2>7. QED
    BY <2>1, <2>2, <2>4, <2>6, HeardOne DEF OfRule
<1>4. ASSUME NEW hand \in {0, 1}
      PROVE  Heard(Told(<<SwingAction(hand)>>, v), v, <<SwingAction(hand)>>)
  <2>1. PICK f : f = SwingAction(hand)
    OBVIOUS
  <2>2. f.msg = "SwingAction" /\ f.hand = hand
    BY <2>1 DEF SwingAction
  <2>3. PICK r : r = F("hand", hand)
    OBVIOUS
  <2>4. ToldOf(f, v) = Packet("swing", "", r)
    BY <2>2, <2>3 DEF ToldOf
  <2>5. With(r, "hand", hand)
    BY <2>3, FieldWithout
  <2>6. ASSUME NEW p, p.name = "swing", p.op = "", p.fields = r
        PROVE  Hears(p, v) = <<f>>
    <3>1. Get(p, "hand") = hand
      BY <2>5, <2>6, WithOf DEF Get
    <3>2. QED
      BY <1>4, <2>1, <2>6, <3>1 DEF Hears, ParseSwing
  <2>7. QED
    BY <2>1, <2>2, <2>4, <2>6, HeardOne DEF OfRule
<1>5. ASSUME NEW slot \in {0, 8}
      PROVE  Heard(Told(<<HeldSlot(slot)>>, v), v, <<HeldSlot(slot)>>)
  <2>1. PICK f : f = HeldSlot(slot)
    OBVIOUS
  <2>2. f.msg = "HeldSlot" /\ f.slot = slot
    BY <2>1 DEF HeldSlot
  <2>3. PICK r : r = F("slot", slot)
    OBVIOUS
  <2>4. ToldOf(f, v) = Packet("set_carried_item", "", r)
    BY <2>2, <2>3 DEF ToldOf
  <2>5. With(r, "slot", slot)
    BY <2>3, FieldWithout
  <2>6. ASSUME NEW p, p.name = "set_carried_item", p.op = "", p.fields = r
        PROVE  Hears(p, v) = <<f>>
    <3>1. Get(p, "slot") = slot
      BY <2>5, <2>6, WithOf DEF Get
    <3>2. QED
      BY <1>5, <2>1, <2>6, <3>1 DEF Hears, ReadHeldItem
  <2>7. QED
    BY <2>1, <2>2, <2>4, <2>6, HeardOne DEF OfRule
<1>6. ASSUME NEW data \in BOOLEAN
      PROVE  Heard(Told(<<PickItem(TRUE, 7, data)>>, v), v, <<PickItem(TRUE, 7, data)>>)
  <2>1. PICK f : f = PickItem(TRUE, 7, data)
    OBVIOUS
  <2>2. f.msg = "PickItem" /\ f.entity = TRUE /\ f.what = 7 /\ f.data = data
    BY <2>1 DEF PickItem
  <2>3. PICK r : r = F("what", 7) \o F("data", data)
    OBVIOUS
  <2>4. ToldOf(f, v) = Packet("pick_item_from_entity", "", r)
    BY <2>2, <2>3 DEF ToldOf
  <2>5. With(r, "what", 7) /\ With(r, "data", data)
    BY <2>3, Fields2
  <2>6. ASSUME NEW p, p.name = "pick_item_from_entity", p.op = "", p.fields = r
        PROVE  Hears(p, v) = <<f>>
    <3>1. Get(p, "what") = 7 /\ Get(p, "data") = data
      BY <2>5, <2>6, WithOf DEF Get
    <3>2. QED
      BY <1>6, <2>1, <2>6, <3>1 DEF Hears, ParsePickFromEntity
  <2>7. QED
    BY <2>1, <2>2, <2>4, <2>6, HeardOne DEF OfRule
<1>7. ASSUME NEW data \in BOOLEAN
      PROVE  Heard(Told(<<PickItem(FALSE, 7, data)>>, v), v, <<PickItem(FALSE, 7, data)>>)
  <2>1. PICK f : f = PickItem(FALSE, 7, data)
    OBVIOUS
  <2>2. f.msg = "PickItem" /\ f.entity = FALSE /\ f.what = 7 /\ f.data = data
    BY <2>1 DEF PickItem
  <2>3. PICK r : r = F("what", 7) \o F("data", data)
    OBVIOUS
  <2>4. ToldOf(f, v) = Packet("pick_item_from_block", "", r)
    BY <2>2, <2>3 DEF ToldOf
  <2>5. With(r, "what", 7) /\ With(r, "data", data)
    BY <2>3, Fields2
  <2>6. ASSUME NEW p, p.name = "pick_item_from_block", p.op = "", p.fields = r
        PROVE  Hears(p, v) = <<f>>
    <3>1. Get(p, "what") = 7 /\ Get(p, "data") = data
      BY <2>5, <2>6, WithOf DEF Get
    <3>2. QED
      BY <1>7, <2>1, <2>6, <3>1 DEF Hears, ParsePickFromBlock
  <2>7. QED
    BY <2>1, <2>2, <2>4, <2>6, HeardOne DEF OfRule
<1>8. QED
  <2>1. CASE \E e, x \in BOOLEAN : deed = <<PickItem(e, 7, x)>>
    <3>1. PICK e \in BOOLEAN, x \in BOOLEAN : deed = <<PickItem(e, 7, x)>>
      BY <2>1
    <3>2. CASE e = TRUE
      BY <1>6, <3>1, <3>2
    <3>3. CASE e = FALSE
      BY <1>7, <3>1, <3>3
    <3>4. QED
      BY <3>2, <3>3
  <2> DEFINE A == {<<UseEntity(5, FALSE, h)>> : h \in {0, 1}}
             B == {<<UseEntity(5, TRUE, 0)>>}
             C == {<<UseItem(h, 9)>> : h \in {0, 1}}
             D == {<<SwingAction(h)>> : h \in {0, 1}}
             E == {<<HeldSlot(s)>> : s \in {0, 8}}
             G == {<<PickItem(e, 7, d)>> : e, d \in BOOLEAN}
  <2>2. HandDeeds(v) = A \cup B \cup C \cup D \cup E \cup G
    BY DEF HandDeeds
  <2>3. deed \in A \/ deed \in B \/ deed \in C \/ deed \in D \/ deed \in E \/ deed \in G
    <3> HIDE DEF A, B, C, D, E, G
    <3>1. QED
      BY <2>2
  <2>4. deed \in A => Heard(Told(deed, v), v, deed)
    BY <1>1
  <2>5. deed \in B => Heard(Told(deed, v), v, deed)
    BY <1>2
  <2>6. deed \in C => Heard(Told(deed, v), v, deed)
    BY <1>3
  <2>7. deed \in D => Heard(Told(deed, v), v, deed)
    BY <1>4
  <2>8. deed \in E => Heard(Told(deed, v), v, deed)
    BY <1>5
  <2>9. deed \in G => Heard(Told(deed, v), v, deed)
    BY <2>1
  <2>10. QED
    <3> HIDE DEF A, B, C, D, E, G
    <3>1. QED
      BY <2>3, <2>4, <2>5, <2>6, <2>7, <2>8, <2>9

\* What is dug and placed.
LEMMA BlocksHeard ==
    ASSUME NEW v, NEW deed \in BlockDeeds(v)
    PROVE  Heard(Told(deed, v), v, deed)
<1>1. ASSUME NEW s \in {0, 2, 5}, NEW f0 \in {0, 5}, NEW n \in {8, 9}
      PROVE  Heard(Told(<<Dig(s, f0, n)>>, v), v, <<Dig(s, f0, n)>>)
  <2>1. PICK f : f = Dig(s, f0, n)
    OBVIOUS
  <2>2. f.msg = "Dig" /\ f.status = s /\ f.at = 7 /\ f.face = f0 /\ f.seq = n
    BY <2>1 DEF Dig
  <2>3. PICK r : r = F("status", s) \o F("at", 7) \o F("face", f0) \o F("seq", n)
    OBVIOUS
  <2>4. ToldOf(f, v) = Packet("player_action", "", r)
    BY <2>2, <2>3 DEF ToldOf
  <2>5. With(r, "status", s) /\ With(r, "face", f0) /\ With(r, "seq", n)
    BY <2>3, Fields4
  <2>6. ASSUME NEW p, p.name = "player_action", p.op = "", p.fields = r
        PROVE  Hears(p, v) = <<f>>
    <3>1. Get(p, "status") = s /\ Get(p, "face") = f0 /\ Get(p, "seq") = n
      BY <2>5, <2>6, WithOf DEF Get
    <3>2. QED
      BY <1>1, <2>1, <2>6, <3>1 DEF Hears, ReadBlockDig
  <2>7. QED
    BY <2>1, <2>2, <2>4, <2>6, HeardOne DEF OfRule
<1>2. ASSUME NEW i, NEW h \in {0, 1}, NEW n \in {8, 9}
      PROVE  Heard(Told(<<Place(h, 1, i, n)>>, v), v, <<Place(h, 1, i, n)>>)
  <2>1. PICK f : f = Place(h, 1, i, n)
    OBVIOUS
  <2>2. f.msg = "Place" /\ f.hand = h /\ f.at = 7 /\ f.face = 1 /\ f.cursor = 3
        /\ f.inside = i /\ f.seq = n
    BY <2>1 DEF Place
  <2>3. PICK no : no = FALSE
    OBVIOUS
  <2>4. PICK r : r = F("hand", h) \o F("at", 7) \o F("face", 1) \o F("cursor", 3) \o F("inside",
        i) \o F("border", no) \o F("seq", n)
    OBVIOUS
  <2>5. ToldOf(f, v) = Packet("use_item_on", "", r)
    BY <2>3, <2>2, <2>4 DEF ToldOf
  <2>6. PICK q1 : q1 = F("hand", h)
    OBVIOUS
  <2>7. /\ With(q1, "hand", h) /\ Without(q1, "face") /\ Without(q1, "inside")
        /\ Without(q1, "seq")
    BY <2>6, FieldWithout
  <2>8. PICK q2 : q2 = q1 \o F("at", 7)
    OBVIOUS
  <2>9. /\ With(q2, "hand", h) /\ Without(q2, "face") /\ Without(q2, "inside")
        /\ Without(q2, "seq")
    BY <2>8, <2>7, NextWithout
  <2>10. PICK q3 : q3 = q2 \o F("face", 1)
    OBVIOUS
  <2>11. /\ With(q3, "hand", h) /\ With(q3, "face", 1) /\ Without(q3, "inside")
         /\ Without(q3, "seq")
    BY <2>10, <2>9, NextWithout
  <2>12. PICK q4 : q4 = q3 \o F("cursor", 3)
    OBVIOUS
  <2>13. /\ With(q4, "hand", h) /\ With(q4, "face", 1) /\ Without(q4, "inside")
         /\ Without(q4, "seq")
    BY <2>12, <2>11, NextWithout
  <2>14. PICK q5 : q5 = q4 \o F("inside", i)
    OBVIOUS
  <2>15. /\ With(q5, "hand", h) /\ With(q5, "face", 1) /\ With(q5, "inside", i)
         /\ Without(q5, "seq")
    BY <2>14, <2>13, NextWithout
  <2>16. PICK q6 : q6 = q5 \o F("border", no)
    OBVIOUS
  <2>17. /\ With(q6, "hand", h) /\ With(q6, "face", 1) /\ With(q6, "inside", i)
         /\ Without(q6, "seq")
    BY <2>16, <2>15, NextWithout
  <2>18. PICK q7 : q7 = q6 \o F("seq", n)
    OBVIOUS
  <2>19. /\ With(q7, "hand", h) /\ With(q7, "face", 1) /\ With(q7, "inside", i)
         /\ With(q7, "seq", n)
    BY <2>18, <2>17, NextWithout
  <2>20. q7 = r
    BY <2>4, <2>6, <2>8, <2>10, <2>12, <2>14, <2>16, <2>18
  <2>21. With(r, "hand", h) /\ With(r, "face", 1) /\ With(r, "inside", i) /\ With(r, "seq", n)
    BY <2>19, <2>20
  <2>22. ASSUME NEW p, p.name = "use_item_on", p.op = "", p.fields = r
        PROVE  Hears(p, v) = <<f>>
    <3>1. Get(p, "hand") = h /\ Get(p, "face") = 1 /\ Get(p, "inside") = i /\ Get(p, "seq") = n
      BY <2>21, <2>22, WithOf DEF Get
    <3>2. QED
      BY <1>2, <2>1, <2>22, <3>1 DEF Hears, ReadBlockPlace
  <2>23. QED
    BY <2>1, <2>2, <2>5, <2>22, HeardOne DEF OfRule
<1>3. QED
  <2> DEFINE D1 == {<<Dig(s, f, n)>> : s \in {0, 2, 5}, f \in {0, 5}, n \in {8, 9}}
             D2 == {<<Place(h, 1, i, n)>> : h \in {0, 1}, i \in BOOLEAN, n \in {8, 9}}
  <2>1. BlockDeeds(v) = D1 \cup D2
    BY DEF BlockDeeds
  <2>2. \A d \in D1 : \E s \in {0, 2, 5}, f \in {0, 5}, n \in {8, 9} : d = <<Dig(s, f, n)>>
    OBVIOUS
  <2>3. \A d \in D2 : \E h \in {0, 1}, i \in BOOLEAN, n \in {8, 9} : d = <<Place(h, 1, i, n)>>
    OBVIOUS
  <2> HIDE DEF D1, D2
  <2>4. ASSUME NEW d \in D1 PROVE Heard(Told(d, v), v, d)
    <3>1. PICK s \in {0, 2, 5}, f \in {0, 5}, n \in {8, 9} : d = <<Dig(s, f, n)>>
      BY <2>2
    <3>2. Heard(Told(<<Dig(s, f, n)>>, v), v, <<Dig(s, f, n)>>)
      BY <1>1
    <3>3. QED
      BY <3>1, <3>2
  <2>5. ASSUME NEW d \in D2 PROVE Heard(Told(d, v), v, d)
    <3>1. PICK h \in {0, 1}, i \in BOOLEAN, n \in {8, 9} : d = <<Place(h, 1, i, n)>>
      BY <2>3
    <3>2. Heard(Told(<<Place(h, 1, i, n)>>, v), v, <<Place(h, 1, i, n)>>)
      BY <1>2
    <3>3. QED
      BY <3>1, <3>2
  <2>6. QED
    BY <2>1, <2>4, <2>5

\* A stack's hashes are passed over.
LEMMA HashedRead ==
    ASSUME NEW id, NEW count
    PROVE  readHashedSlot(Hashed(Stack(id, count))) = Stack(id, count)
<1>1. PICK s : s = Stack(id, count)
  OBVIOUS
<1>2. PICK h : h = Hashed(s)
  OBVIOUS
<1>3. CASE s = Empty
  <2>1. h.has = FALSE
    BY <1>2, <1>3 DEF Hashed
  <2>2. QED
    BY <1>1, <1>2, <1>3, <2>1 DEF readHashedSlot
<1>4. CASE s # Empty
  <2>1. s.id = id /\ s.count = count
    BY <1>1 DEF Stack
  <2>2. h.has = TRUE /\ h.item = id /\ h.count = count
    BY <1>2, <1>4, <2>1 DEF Hashed
  <2>3. QED
    BY <1>1, <1>2, <2>2 DEF readHashedSlot
<1>5. QED
  BY <1>3, <1>4

\* Stacks that come through so,
Hashes(s) == readHashedSlot(Hashed(s)) = s
Changes(changed) ==
    /\ changed = [i \in DOMAIN changed |-> <<changed[i][1], changed[i][2]>>]
    /\ \A i \in DOMAIN changed : Hashes(changed[i][2])

\* and clicks in a window on them.
LEMMA ClickHeard ==
    ASSUME NEW v, NEW slot, NEW button, NEW mode, NEW changed, NEW cursor,
           Changes(changed), Hashes(cursor)
    PROVE  LET f == WindowClick(slot, button, mode, changed, cursor)
           IN  Heard(Told(<<f>>, v), v, <<f>>)
<1>1. Heard(Told(<<WindowClick(slot, button, mode, changed, cursor)>>, v), v,
            <<WindowClick(slot, button, mode, changed, cursor)>>)
  <2>1. PICK f : f = WindowClick(slot, button, mode, changed, cursor)
    OBVIOUS
  <2>2. f.msg = "WindowClick" /\ f.id = 1 /\ f.slot = slot /\ f.button = button
        /\ f.mode = mode /\ f.changed = changed /\ f.cursor = cursor
    BY <2>1 DEF WindowClick
  <2>3. PICK hashed : hashed = [i \in DOMAIN changed |-> <<changed[i][1], Hashed(changed[i][2])>>]
    OBVIOUS
  <2>4. PICK held : held = Hashed(cursor)
    OBVIOUS
  <2>5. [i \in DOMAIN f.changed |-> <<f.changed[i][1], Hashed(f.changed[i][2])>>] = hashed
    BY <2>2, <2>3
  <2>6. PICK r : r = F("window", 1) \o F("state", 2) \o F("slot", slot) \o F("button",
        button) \o F("mode", mode) \o F("changed", hashed) \o F("cursor", held)
    OBVIOUS
  <2>7. ToldOf(f, v) = Packet("container_click", "", r)
    BY <2>4, <2>5, <2>2, <2>6 DEF ToldOf
  <2>8. PICK q1 : q1 = F("window", 1)
    OBVIOUS
  <2>9. /\ Without(q1, "slot") /\ Without(q1, "button") /\ Without(q1, "mode")
        /\ Without(q1, "changed") /\ Without(q1, "cursor")
    BY <2>8, FieldWithout
  <2>10. PICK q2 : q2 = q1 \o F("state", 2)
    OBVIOUS
  <2>11. /\ Without(q2, "slot") /\ Without(q2, "button") /\ Without(q2, "mode")
         /\ Without(q2, "changed") /\ Without(q2, "cursor")
    BY <2>10, <2>9, NextWithout
  <2>12. PICK q3 : q3 = q2 \o F("slot", slot)
    OBVIOUS
  <2>13. /\ With(q3, "slot", slot) /\ Without(q3, "button") /\ Without(q3, "mode")
         /\ Without(q3, "changed") /\ Without(q3, "cursor")
    BY <2>12, <2>11, NextWithout
  <2>14. PICK q4 : q4 = q3 \o F("button", button)
    OBVIOUS
  <2>15. /\ With(q4, "slot", slot) /\ With(q4, "button", button) /\ Without(q4, "mode")
         /\ Without(q4, "changed") /\ Without(q4, "cursor")
    BY <2>14, <2>13, NextWithout
  <2>16. PICK q5 : q5 = q4 \o F("mode", mode)
    OBVIOUS
  <2>17. /\ With(q5, "slot", slot) /\ With(q5, "button", button)
         /\ With(q5, "mode", mode) /\ Without(q5, "changed") /\ Without(q5, "cursor")
    BY <2>16, <2>15, NextWithout
  <2>18. PICK q6 : q6 = q5 \o F("changed", hashed)
    OBVIOUS
  <2>19. /\ With(q6, "slot", slot) /\ With(q6, "button", button)
         /\ With(q6, "mode", mode) /\ With(q6, "changed", hashed)
         /\ Without(q6, "cursor")
    BY <2>18, <2>17, NextWithout
  <2>20. PICK q7 : q7 = q6 \o F("cursor", held)
    OBVIOUS
  <2>21. /\ With(q7, "slot", slot) /\ With(q7, "button", button)
         /\ With(q7, "mode", mode) /\ With(q7, "changed", hashed)
         /\ With(q7, "cursor", held)
    BY <2>20, <2>19, NextWithout
  <2>22. q7 = r
    BY <2>6, <2>8, <2>10, <2>12, <2>14, <2>16, <2>18, <2>20
  <2>23. With(r, "slot", slot) /\ With(r, "button", button) /\ With(r, "mode", mode)
        /\ With(r, "changed", hashed) /\ With(r, "cursor", held)
    BY <2>21, <2>22
  <2>24. ASSUME NEW p, p.name = "container_click", p.op = "", p.fields = r
        PROVE  Hears(p, v) = <<f>>
    <3>1. Get(p, "slot") = slot /\ Get(p, "button") = button /\ Get(p, "mode") = mode
          /\ Get(p, "changed") = hashed /\ Get(p, "cursor") = held
      BY <2>23, <2>24, WithOf DEF Get
    <3>2. /\ [i \in DOMAIN hashed |-> <<hashed[i][1], readHashedSlot(hashed[i][2])>>] = changed
          /\ readHashedSlot(held) = cursor
      <4>1. DOMAIN hashed = DOMAIN changed
        BY <2>3
      <4>2. ASSUME NEW i \in DOMAIN changed
            PROVE  hashed[i][1] = changed[i][1] /\ readHashedSlot(hashed[i][2]) = changed[i][2]
        BY <2>3 DEF Changes, Hashes
      <4>3. [i \in DOMAIN hashed |-> <<hashed[i][1], readHashedSlot(hashed[i][2])>>]
               = [i \in DOMAIN changed |-> <<changed[i][1], changed[i][2]>>]
        BY <4>1, <4>2
      <4>4. QED
        BY <2>4, <4>3 DEF Changes, Hashes
    <3>3. QED
      BY <2>1, <2>24, <3>1, <3>2 DEF Hears, ParseWindowClick
  <2>25. QED
    BY <2>1, <2>2, <2>7, <2>24, HeardOne DEF OfRule
<1>2. QED
  BY <1>1

\* A stack made from nothing, or put away.
LEMMA CreativeHeard ==
    ASSUME NEW v
    PROVE  /\ Heard(Told(<<CreativeSlot(36, Empty, "none", None)>>, v), v,
                    <<CreativeSlot(36, Empty, "none", None)>>)
           /\ \A id, patch : \A count \in {1, 2} :
                 LET f == CreativeSlot(36, Stack(id, count), patch, creativePaintingVariant(patch))
                 IN  Heard(Told(<<f>>, v), v, <<f>>)
<1>1. Heard(Told(<<CreativeSlot(36, Empty, "none", None)>>, v), v,
            <<CreativeSlot(36, Empty, "none", None)>>)
  <2>1. PICK f : f = CreativeSlot(36, Empty, "none", None)
    OBVIOUS
  <2>2. f.msg = "CreativeSlot" /\ f.slot = 36 /\ f.item = Empty /\ f.item.count = 0
    BY <2>1 DEF CreativeSlot, Empty, Stack
  <2>3. PICK r : r = F("slot", 36) \o F("count", 0)
    OBVIOUS
  <2>4. With(r, "slot", 36) /\ With(r, "count", 0)
    BY <2>3, Fields2
  <2>5. ToldOf(f, v) = Packet("set_creative_mode_slot", "", r)
    <3>1. r \o << >> = r
      BY <2>4, JoinNothing DEF With
    <3>2. PICK fields : fields = F("slot", f.slot) \o F("count", f.item.count)
                              \o If(f.item # Empty,
                                    F("item", f.item.id) \o F("patch", f.components))
      OBVIOUS
    <3>3. fields = r
      BY <2>2, <2>3, <3>1, <3>2 DEF If
    <3>4. ToldOf(f, v) = Packet("set_creative_mode_slot", "", fields)
      BY <2>2, <3>2 DEF ToldOf
    <3>5. QED
      BY <3>3, <3>4
  <2>6. ASSUME NEW p, p.name = "set_creative_mode_slot", p.op = "", p.fields = r
        PROVE  Hears(p, v) = <<f>>
    <3>1. Get(p, "slot") = 36 /\ Get(p, "count") = 0
      BY <2>4, <2>6, WithOf DEF Get
    <3>2. Hears(p, v) = ParseCreativeSlot(p)
      BY <2>6 DEF Hears
    <3>3. ParseCreativeSlot(p) = <<CreativeSlot(36, Empty, "none", None)>>
      BY <3>1 DEF ParseCreativeSlot
    <3>4. QED
      BY <2>1, <3>2, <3>3
  <2>7. QED
    BY <2>1, <2>2, <2>5, <2>6, HeardOne DEF OfRule
<1>2. ASSUME NEW id, NEW patch, NEW count \in {1, 2}, NEW f,
             f = CreativeSlot(36, Stack(id, count), patch, creativePaintingVariant(patch))
      PROVE  Heard(Told(<<f>>, v), v, <<f>>)
  <2>1. f.msg = "CreativeSlot" /\ f.slot = 36 /\ f.components = patch
    BY <1>2 DEF CreativeSlot
  <2>2. f.item.id = id /\ f.item.count = count /\ f.item # Empty
    BY <1>2 DEF CreativeSlot, Empty, Stack
  <2>3. PICK a, b : a = F("slot", 36) \o F("count", count) /\ b = F("item", id) \o F("patch", patch)
    OBVIOUS
  <2>4. PICK r : r = a \o b
    OBVIOUS
  <2>5. /\ With(a, "slot", 36) /\ With(a, "count", count)
        /\ Without(a, "item") /\ Without(a, "patch")
    BY <2>3, Fields2
  <2>6. /\ With(b, "item", id) /\ With(b, "patch", patch)
        /\ Without(b, "slot") /\ Without(b, "count")
    BY <2>3, Fields2
  <2>7. /\ With(r, "slot", 36) /\ With(r, "count", count)
        /\ With(r, "item", id) /\ With(r, "patch", patch)
    BY <2>4, <2>5, <2>6, JoinWithout
  <2>8. ToldOf(f, v) = Packet("set_creative_mode_slot", "", r)
    <3>1. PICK fields : fields = F("slot", f.slot) \o F("count", f.item.count)
                              \o If(f.item # Empty,
                                    F("item", f.item.id) \o F("patch", f.components))
      OBVIOUS
    <3>2. fields = r
      BY <2>1, <2>2, <2>3, <2>4, <3>1 DEF If
    <3>3. ToldOf(f, v) = Packet("set_creative_mode_slot", "", fields)
      BY <2>1, <3>1 DEF ToldOf
    <3>4. QED
      BY <3>2, <3>3
  <2>9. ASSUME NEW p, p.name = "set_creative_mode_slot", p.op = "", p.fields = r
        PROVE  Hears(p, v) = <<f>>
    <3>1. /\ Get(p, "slot") = 36 /\ Get(p, "count") = count
          /\ Get(p, "item") = id /\ Get(p, "patch") = patch
      BY <2>7, <2>9, WithOf DEF Get
    <3>2. Hears(p, v) = ParseCreativeSlot(p)
      BY <2>9 DEF Hears
    <3>3. count > 0
      BY <1>2
    <3>4. ParseCreativeSlot(p)
             = <<CreativeSlot(36, Stack(id, count), patch, creativePaintingVariant(patch))>>
      BY <3>1, <3>3 DEF ParseCreativeSlot
    <3>5. QED
      BY <1>2, <3>2, <3>4
  <2>10. QED
    BY <2>1, <2>8, <2>9, HeardOne DEF OfRule
<1>3. QED
  BY <1>1, <1>2

\* A beacon's powers.
LEMMA BeaconHeard ==
    ASSUME NEW v, NEW primary \in {0, 1}, NEW secondary \in {0, 1}
    PROVE  LET f == SetBeacon(primary, secondary)
           IN  Heard(Told(<<f>>, v), v, <<f>>)
<1>1. Heard(Told(<<SetBeacon(primary, secondary)>>, v), v, <<SetBeacon(primary, secondary)>>)
  <2>1. PICK f : f = SetBeacon(primary, secondary)
    OBVIOUS
  <2>2. f.msg = "SetBeacon" /\ f.primary = primary /\ f.secondary = secondary
    BY <2>1 DEF SetBeacon
  <2>3. PICK effects : effects = [i \in 1 .. 2 |->
                        LET e == IF i = 1 THEN primary ELSE secondary
                        IN  IF e = 0 THEN << >> ELSE <<e - 1>>]
    OBVIOUS
  <2>4. [i \in 1 .. 2 |-> LET e == IF i = 1 THEN f.primary ELSE f.secondary
                          IN  IF e = 0 THEN << >> ELSE <<e - 1>>] = effects
    BY <2>2, <2>3
  <2>5. PICK r : r = F("effects", effects)
    OBVIOUS
  <2>6. ToldOf(f, v) = Packet("set_beacon", "", r)
    BY <2>4, <2>2, <2>5 DEF ToldOf
  <2>7. With(r, "effects", effects)
    BY <2>5, FieldWithout
  <2>8. ASSUME NEW p, p.name = "set_beacon", p.op = "", p.fields = r
        PROVE  Hears(p, v) = <<f>>
    <3>1. Get(p, "effects") = effects
      BY <2>7, <2>8, WithOf DEF Get
    <3>2. /\ effects[1] = IF primary = 0 THEN << >> ELSE <<primary - 1>>
          /\ effects[2] = IF secondary = 0 THEN << >> ELSE <<secondary - 1>>
      BY <2>3
    <3>3. PICK one, two : one = effects[1] /\ two = effects[2]
      OBVIOUS
    <3>4. (IF one = << >> THEN 0 ELSE one[1] + 1) = primary
      <4>1. CASE primary = 0
        BY <3>2, <3>3, <4>1
      <4>2. CASE primary = 1
        <5>1. one = <<0>>
          BY <3>2, <3>3, <4>2
        <5>2. QED
          BY <5>1, <4>2
      <4>3. QED
        BY <4>1, <4>2
    <3>5. (IF two = << >> THEN 0 ELSE two[1] + 1) = secondary
      <4>1. CASE secondary = 0
        BY <3>2, <3>3, <4>1
      <4>2. CASE secondary = 1
        <5>1. two = <<0>>
          BY <3>2, <3>3, <4>2
        <5>2. QED
          BY <5>1, <4>2
      <4>3. QED
        BY <4>1, <4>2
    <3>6. Hears(p, v) = ParseSetBeacon(p)
      BY <2>8 DEF Hears
    <3>7. ParseSetBeacon(p) = <<SetBeacon(primary, secondary)>>
      BY <3>1, <3>3, <3>4, <3>5 DEF ParseSetBeacon
    <3>8. QED
      BY <2>1, <3>6, <3>7
  <2>9. QED
    BY <2>1, <2>2, <2>6, <2>8, HeardOne DEF OfRule
<1>2. QED
  BY <1>1

\* What is done at a menu besides.
LEMMA MenuWordsHeard ==
    ASSUME NEW v
    PROVE  /\ \A slot : Heard(Told(<<SelTrade(slot)>>, v), v, <<SelTrade(slot)>>)
           /\ \A recipe : Heard(Told(<<Craft(recipe)>>, v), v, <<Craft(recipe)>>)
           /\ Heard(Told(<<WindowClose>>, v), v, <<WindowClose>>)
           /\ \A name : Heard(Told(<<NameItem(name)>>, v), v, <<NameItem(name)>>)
           /\ \A button : Heard(Told(<<Enchant(button)>>, v), v, <<Enchant(button)>>)
           /\ \A slot \in 0 .. 8 : \A state :
                 Heard(Told(<<SlotState(slot, state)>>, v), v, <<SlotState(slot, state)>>)
           /\ \A slot, selected :
                 Heard(Told(<<BundleSelect(slot, selected)>>, v), v,
                       <<BundleSelect(slot, selected)>>)
<1>1. ASSUME NEW slot
      PROVE  Heard(Told(<<SelTrade(slot)>>, v), v, <<SelTrade(slot)>>)
  <2>1. PICK f : f = SelTrade(slot)
    OBVIOUS
  <2>2. f.msg = "SelTrade" /\ f.slot = slot
    BY <2>1 DEF SelTrade
  <2>3. PICK r : r = F("slot", slot)
    OBVIOUS
  <2>4. ToldOf(f, v) = Packet("select_trade", "", r)
    BY <2>2, <2>3 DEF ToldOf
  <2>5. With(r, "slot", slot)
    BY <2>3, FieldWithout
  <2>6. ASSUME NEW p, p.name = "select_trade", p.op = "", p.fields = r
        PROVE  Hears(p, v) = <<f>>
    <3>1. Get(p, "slot") = slot
      BY <2>5, <2>6, WithOf DEF Get
    <3>2. QED
      BY <1>1, <2>1, <2>6, <3>1 DEF Hears, ParseSelTrade
  <2>7. QED
    BY <2>1, <2>2, <2>4, <2>6, HeardOne DEF OfRule
<1>2. ASSUME NEW recipe
      PROVE  Heard(Told(<<Craft(recipe)>>, v), v, <<Craft(recipe)>>)
  <2>1. PICK f : f = Craft(recipe)
    OBVIOUS
  <2>2. f.msg = "Craft" /\ f.window = 1 /\ f.recipe = recipe
    BY <2>1 DEF Craft
  <2>3. PICK no : no = FALSE
    OBVIOUS
  <2>4. PICK r : r = F("window", 1) \o F("recipe", recipe) \o F("all", no)
    OBVIOUS
  <2>5. ToldOf(f, v) = Packet("place_recipe", "", r)
    BY <2>3, <2>2, <2>4 DEF ToldOf
  <2>6. With(r, "recipe", recipe)
    BY <2>4, Fields3
  <2>7. ASSUME NEW p, p.name = "place_recipe", p.op = "", p.fields = r
        PROVE  Hears(p, v) = <<f>>
    <3>1. Get(p, "recipe") = recipe
      BY <2>6, <2>7, WithOf DEF Get
    <3>2. QED
      BY <1>2, <2>1, <2>7, <3>1 DEF Hears, ParseCraft
  <2>8. QED
    BY <2>1, <2>2, <2>5, <2>7, HeardOne DEF OfRule
<1>3. Heard(Told(<<WindowClose>>, v), v, <<WindowClose>>)
  <2>1. PICK f : f = WindowClose
    OBVIOUS
  <2>2. f.msg = "WindowClose"
    BY <2>1 DEF WindowClose
  <2>3. PICK r : r = F("window", 1)
    OBVIOUS
  <2>4. ToldOf(f, v) = Packet("container_close", "", r)
    BY <2>2, <2>3 DEF ToldOf
  <2>5. ASSUME NEW p, p.name = "container_close", p.op = "", p.fields = r
        PROVE  Hears(p, v) = <<f>>
    <3>1. QED
      BY <2>1, <2>5 DEF Hears
  <2>6. QED
    BY <2>1, <2>2, <2>4, <2>5, HeardOne DEF OfRule
<1>4. ASSUME NEW name
      PROVE  Heard(Told(<<NameItem(name)>>, v), v, <<NameItem(name)>>)
  <2>1. PICK f : f = NameItem(name)
    OBVIOUS
  <2>2. f.msg = "NameItem" /\ f.name = name
    BY <2>1 DEF NameItem
  <2>3. PICK r : r = F("name", name)
    OBVIOUS
  <2>4. ToldOf(f, v) = Packet("rename_item", "", r)
    BY <2>2, <2>3 DEF ToldOf
  <2>5. With(r, "name", name)
    BY <2>3, FieldWithout
  <2>6. ASSUME NEW p, p.name = "rename_item", p.op = "", p.fields = r
        PROVE  Hears(p, v) = <<f>>
    <3>1. Get(p, "name") = name
      BY <2>5, <2>6, WithOf DEF Get
    <3>2. QED
      BY <1>4, <2>1, <2>6, <3>1 DEF Hears, ParseNameItem
  <2>7. QED
    BY <2>1, <2>2, <2>4, <2>6, HeardOne DEF OfRule
<1>5. ASSUME NEW button
      PROVE  Heard(Told(<<Enchant(button)>>, v), v, <<Enchant(button)>>)
  <2>1. PICK f : f = Enchant(button)
    OBVIOUS
  <2>2. f.msg = "Enchant" /\ f.button = button
    BY <2>1 DEF Enchant
  <2>3. PICK r : r = F("window", 1) \o F("button", button)
    OBVIOUS
  <2>4. ToldOf(f, v) = Packet("container_button_click", "", r)
    BY <2>2, <2>3 DEF ToldOf
  <2>5. With(r, "button", button)
    BY <2>3, Fields2
  <2>6. ASSUME NEW p, p.name = "container_button_click", p.op = "", p.fields = r
        PROVE  Hears(p, v) = <<f>>
    <3>1. Get(p, "button") = button
      BY <2>5, <2>6, WithOf DEF Get
    <3>2. QED
      BY <1>5, <2>1, <2>6, <3>1 DEF Hears, ParseEnchant
  <2>7. QED
    BY <2>1, <2>2, <2>4, <2>6, HeardOne DEF OfRule
<1>6. ASSUME NEW state, NEW slot \in 0 .. 8
      PROVE  Heard(Told(<<SlotState(slot, state)>>, v), v, <<SlotState(slot, state)>>)
  <2>1. PICK f : f = SlotState(slot, state)
    OBVIOUS
  <2>2. f.msg = "SlotState" /\ f.state = state /\ f.slot = slot
    BY <2>1 DEF SlotState
  <2>3. PICK r : r = F("slot", slot) \o F("window", 1) \o F("state", state)
    OBVIOUS
  <2>4. ToldOf(f, v) = Packet("container_slot_state_changed", "", r)
    BY <2>2, <2>3 DEF ToldOf
  <2>5. With(r, "slot", slot) /\ With(r, "state", state)
    BY <2>3, Fields3
  <2>6. ASSUME NEW p, p.name = "container_slot_state_changed", p.op = "", p.fields = r
        PROVE  Hears(p, v) = <<f>>
    <3>1. Get(p, "slot") = slot /\ Get(p, "state") = state
      BY <2>5, <2>6, WithOf DEF Get
    <3>2. QED
      BY <1>6, <2>1, <2>6, <3>1 DEF Hears, ParseSetSlotState
  <2>7. QED
    BY <2>1, <2>2, <2>4, <2>6, HeardOne DEF OfRule
<1>7. ASSUME NEW slot, NEW selected
      PROVE  Heard(Told(<<BundleSelect(slot, selected)>>, v), v, <<BundleSelect(slot, selected)>>)
  <2>1. PICK f : f = BundleSelect(slot, selected)
    OBVIOUS
  <2>2. f.msg = "BundleSelect" /\ f.slot = slot /\ f.selected = selected
    BY <2>1 DEF BundleSelect
  <2>3. PICK r : r = F("slot", slot) \o F("selected", selected)
    OBVIOUS
  <2>4. ToldOf(f, v) = Packet("bundle_item_selected", "", r)
    BY <2>2, <2>3 DEF ToldOf
  <2>5. With(r, "slot", slot) /\ With(r, "selected", selected)
    BY <2>3, Fields2
  <2>6. ASSUME NEW p, p.name = "bundle_item_selected", p.op = "", p.fields = r
        PROVE  Hears(p, v) = <<f>>
    <3>1. Get(p, "slot") = slot /\ Get(p, "selected") = selected
      BY <2>5, <2>6, WithOf DEF Get
    <3>2. QED
      BY <1>7, <2>1, <2>6, <3>1 DEF Hears, ParseBundleSelect
  <2>7. QED
    BY <2>1, <2>2, <2>4, <2>6, HeardOne DEF OfRule
<1>8. QED
  BY <1>1, <1>2, <1>3, <1>4, <1>5, <1>6, <1>7

\* A click's changed slots and the cursor are of stacks.
LEMMA ClicksOfStacks ==
    ASSUME NEW v, NEW c \in Clicks
    PROVE  Heard(Told(<<c>>, v), v, <<c>>)
<1>1. Hashes(Empty) /\ Hashes(Stack(4, 64)) /\ Hashes(Stack(6, 1))
  BY HashedRead DEF Hashes, Empty
<1>2. Changes(<< >>)
  BY DEF Changes
<1>3. Changes(<< <<4, Stack(4, 64)>> >>)
  <2>1. PICK s : s = Stack(4, 64)
    OBVIOUS
  <2>2. Changes(<< <<4, s>> >>)
    BY <1>1, <2>1 DEF Changes
  <2>3. QED
    BY <2>1, <2>2
<1>4. Changes(<< <<4, Empty>>, <<5, Stack(6, 1)>> >>)
  <2>1. PICK s, e : s = Stack(6, 1) /\ e = Empty
    OBVIOUS
  <2>2. Changes(<< <<4, e>>, <<5, s>> >>)
    BY <1>1, <2>1 DEF Changes
  <2>3. QED
    BY <2>1, <2>2
<1>5. \A slot, button, mode, changed, cursor : Changes(changed) /\ Hashes(cursor)
         => LET f == WindowClick(slot, button, mode, changed, cursor)
            IN  Heard(Told(<<f>>, v), v, <<f>>)
  BY ClickHeard
<1>6. CASE c = WindowClick(-999, 0, 5, << >>, Stack(4, 64))
  BY <1>1, <1>2, <1>5, <1>6
<1>7. CASE c = WindowClick(4, 0, 0, << <<4, Stack(4, 64)>> >>, Empty)
  BY <1>1, <1>3, <1>5, <1>7
<1>8. CASE c = WindowClick(4, 1, 0, << <<4, Empty>>, <<5, Stack(6, 1)>> >>, Stack(4, 64))
  BY <1>1, <1>4, <1>5, <1>8
<1>9. QED
  BY <1>6, <1>7, <1>8 DEF Clicks

\* The deeds at a menu.
LEMMA MenusHeard ==
    ASSUME NEW v, NEW d \in MenuDeeds(v)
    PROVE  Heard(Told(d, v), v, d)
<1>1. \A c \in Clicks : Heard(Told(<<c>>, v), v, <<c>>)
  BY ClicksOfStacks
<1>2. /\ Heard(Told(<<CreativeSlot(36, Stack(4, 2), "none", None)>>, v), v,
               <<CreativeSlot(36, Stack(4, 2), "none", None)>>)
      /\ Heard(Told(<<CreativeSlot(36, Stack(4, 2), "named", None)>>, v), v,
               <<CreativeSlot(36, Stack(4, 2), "named", None)>>)
      /\ Heard(Told(<<CreativeSlot(36, Stack(8, 1), "painting", "kebab")>>, v), v,
               <<CreativeSlot(36, Stack(8, 1), "painting", "kebab")>>)
  <2>1. /\ creativePaintingVariant("none") = None /\ creativePaintingVariant("named") = None
        /\ creativePaintingVariant("painting") = "kebab"
    BY DEF creativePaintingVariant
  <2>2. \A id, patch : \A count \in {1, 2} : \A variant :
           variant = creativePaintingVariant(patch)
           => LET f == CreativeSlot(36, Stack(id, count), patch, variant)
              IN  Heard(Told(<<f>>, v), v, <<f>>)
    BY CreativeHeard
  <2>3. 1 \in {1, 2} /\ 2 \in {1, 2}
    OBVIOUS
  <2>4. QED
    BY <2>1, <2>2, <2>3
<1>3. Heard(Told(<<CreativeSlot(36, Empty, "none", None)>>, v), v,
            <<CreativeSlot(36, Empty, "none", None)>>)
  BY CreativeHeard
<1>4. \A primary, secondary \in {0, 1} :
         Heard(Told(<<SetBeacon(primary, secondary)>>, v), v, <<SetBeacon(primary, secondary)>>)
  BY BeaconHeard
<1>5. 8 \in 0 .. 8
  OBVIOUS
<1>6. /\ \A slot : Heard(Told(<<SelTrade(slot)>>, v), v, <<SelTrade(slot)>>)
      /\ Heard(Told(<<Craft(3)>>, v), v, <<Craft(3)>>)
      /\ Heard(Told(<<WindowClose>>, v), v, <<WindowClose>>)
      /\ Heard(Told(<<NameItem(Short)>>, v), v, <<NameItem(Short)>>)
      /\ \A button : Heard(Told(<<Enchant(button)>>, v), v, <<Enchant(button)>>)
      /\ \A state : Heard(Told(<<SlotState(8, state)>>, v), v, <<SlotState(8, state)>>)
      /\ \A selected : Heard(Told(<<BundleSelect(4, selected)>>, v), v,
                              <<BundleSelect(4, selected)>>)
  BY <1>5, MenuWordsHeard
<1>7. QED
  <2> DEFINE D1 == {<<c>> : c \in Clicks}
             D2 == {<<CreativeSlot(36, Empty, "none", None)>>,
                    <<CreativeSlot(36, Stack(4, 2), "none", None)>>,
                    <<CreativeSlot(36, Stack(4, 2), "named", None)>>,
                    <<CreativeSlot(36, Stack(8, 1), "painting", "kebab")>>}
             D3 == {<<SelTrade(s)>> : s \in {0, 2}}
             D4 == {<<Craft(3)>>, <<WindowClose>>, <<NameItem(Short)>>}
             D5 == {<<Enchant(b)>> : b \in {0, 2}}
             D6 == {<<SetBeacon(p, s)>> : p, s \in {0, 1}}
             D7 == {<<SlotState(8, s)>> : s \in BOOLEAN}
             D8 == {<<BundleSelect(4, n)>> : n \in {-1, 0}}
  <2>1. MenuDeeds(v) = D1 \cup D2 \cup D3 \cup D4 \cup D5 \cup D6 \cup D7 \cup D8
    BY DEF MenuDeeds
  <2>2. \A e \in D6 : \E p, s \in {0, 1} : e = <<SetBeacon(p, s)>>
    OBVIOUS
  <2> HIDE DEF D6
  <2>3. ASSUME d \in D6 PROVE Heard(Told(d, v), v, d)
    <3>1. PICK p, s \in {0, 1} : d = <<SetBeacon(p, s)>>
      BY <2>2, <2>3
    <3>2. QED
      BY <1>4, <3>1
  <2>4. d \in D1 => Heard(Told(d, v), v, d)
    BY <1>1
  <2>5. d \in D2 => Heard(Told(d, v), v, d)
    BY <1>2, <1>3
  <2>6. d \in D3 => Heard(Told(d, v), v, d)
    BY <1>6
  <2>7. d \in D4 => Heard(Told(d, v), v, d)
    BY <1>6
  <2>8. d \in D5 => Heard(Told(d, v), v, d)
    BY <1>6
  <2>9. d \in D7 => Heard(Told(d, v), v, d)
    BY <1>6
  <2>10. d \in D8 => Heard(Told(d, v), v, d)
    BY <1>6
  <2> HIDE DEF D1, D2, D3, D4, D5, D7, D8
  <2>11. QED
    BY <2>1, <2>3, <2>4, <2>5, <2>6, <2>7, <2>8, <2>9, <2>10

\* What is asked of the world.
LEMMA AsksHeard ==
    ASSUME NEW v \in Nat, NEW deed \in AskDeeds(v)
    PROVE  Heard(Told(deed, v), v, deed)
<1>1. Heard(Told(<<RespawnReq>>, v), v, <<RespawnReq>>)
  <2>1. PICK f : f = RespawnReq
    OBVIOUS
  <2>2. f.msg = "RespawnReq"
    BY <2>1 DEF RespawnReq
  <2>3. PICK r : r = F("action", 0)
    OBVIOUS
  <2>4. ToldOf(f, v) = Packet("client_command", "", r)
    BY <2>2, <2>3 DEF ToldOf
  <2>5. With(r, "action", 0)
    BY <2>3, FieldWithout
  <2>6. ASSUME NEW p, p.name = "client_command", p.op = "", p.fields = r
        PROVE  Hears(p, v) = <<f>>
    <3>1. Get(p, "action") = 0
      BY <2>5, <2>6, WithOf DEF Get
    <3>2. Hears(p, v) = ReadClientCommand(p, v)
      BY <2>6 DEF Hears
    <3>3. ReadClientCommand(p, v) = <<RespawnReq>>
      BY <3>1 DEF ReadClientCommand
    <3>4. QED
      BY <2>1, <3>2, <3>3
  <2>7. QED
    BY <2>1, <2>2, <2>4, <2>6, HeardOne DEF OfRule
<1>2. Heard(Told(<<StatsReq>>, v), v, <<StatsReq>>)
  <2>1. PICK f : f = StatsReq
    OBVIOUS
  <2>2. f.msg = "StatsReq"
    BY <2>1 DEF StatsReq
  <2>3. PICK r : r = F("action", 1)
    OBVIOUS
  <2>4. ToldOf(f, v) = Packet("client_command", "", r)
    BY <2>2, <2>3 DEF ToldOf
  <2>5. With(r, "action", 1)
    BY <2>3, FieldWithout
  <2>6. ASSUME NEW p, p.name = "client_command", p.op = "", p.fields = r
        PROVE  Hears(p, v) = <<f>>
    <3>1. Get(p, "action") = 1
      BY <2>5, <2>6, WithOf DEF Get
    <3>2. Hears(p, v) = ReadClientCommand(p, v)
      BY <2>6 DEF Hears
    <3>3. ReadClientCommand(p, v) = <<StatsReq>>
      BY <3>1 DEF ReadClientCommand
    <3>4. QED
      BY <2>1, <3>2, <3>3
  <2>7. QED
    BY <2>1, <2>2, <2>4, <2>6, HeardOne DEF OfRule
<1>3. ASSUME v >= 775
      PROVE  Heard(Told(<<GameRuleReq>>, v), v, <<GameRuleReq>>)
  <2>1. PICK f : f = GameRuleReq
    OBVIOUS
  <2>2. f.msg = "GameRuleReq"
    BY <2>1 DEF GameRuleReq
  <2>3. PICK r : r = F("action", 2)
    OBVIOUS
  <2>4. ToldOf(f, v) = Packet("client_command", "", r)
    BY <2>2, <2>3 DEF ToldOf
  <2>5. With(r, "action", 2)
    BY <2>3, FieldWithout
  <2>6. ASSUME NEW p, p.name = "client_command", p.op = "", p.fields = r
        PROVE  Hears(p, v) = <<f>>
    <3>1. Get(p, "action") = 2
      BY <2>5, <2>6, WithOf DEF Get
    <3>2. Hears(p, v) = ReadClientCommand(p, v)
      BY <2>6 DEF Hears
    <3>3. ReadClientCommand(p, v) = <<GameRuleReq>>
      BY <1>3, <3>1 DEF ReadClientCommand
    <3>4. QED
      BY <2>1, <3>2, <3>3
  <2>7. QED
    BY <2>1, <2>2, <2>4, <2>6, HeardOne DEF OfRule
<1>4. Heard(Told(<<PlayerLoaded>>, v), v, <<PlayerLoaded>>)
  <2>1. PICK f : f = PlayerLoaded
    OBVIOUS
  <2>2. f.msg = "PlayerLoaded"
    BY <2>1 DEF PlayerLoaded
  <2>3. PICK r : r = << >>
    OBVIOUS
  <2>4. ToldOf(f, v) = Packet("player_loaded", "", r)
    BY <2>2, <2>3 DEF ToldOf
  <2>5. ASSUME NEW p, p.name = "player_loaded", p.op = "", p.fields = r
        PROVE  Hears(p, v) = <<f>>
    <3>1. QED
      BY <2>1, <2>5 DEF Hears
  <2>6. QED
    BY <2>1, <2>2, <2>4, <2>5, HeardOne DEF OfRule
<1>5. ASSUME NEW user
      PROVE  Heard(Told(<<TeleportToEntity(user)>>, v), v, <<TeleportToEntity(user)>>)
  <2>1. PICK f : f = TeleportToEntity(user)
    OBVIOUS
  <2>2. f.msg = "TeleportToEntity" /\ f.user = user
    BY <2>1 DEF TeleportToEntity
  <2>3. PICK r : r = F("user", user)
    OBVIOUS
  <2>4. ToldOf(f, v) = Packet("teleport_to_entity", "", r)
    BY <2>2, <2>3 DEF ToldOf
  <2>5. With(r, "user", user)
    BY <2>3, FieldWithout
  <2>6. ASSUME NEW p, p.name = "teleport_to_entity", p.op = "", p.fields = r
        PROVE  Hears(p, v) = <<f>>
    <3>1. Get(p, "user") = user
      BY <2>5, <2>6, WithOf DEF Get
    <3>2. QED
      BY <1>5, <2>1, <2>6, <3>1 DEF Hears, ReadTeleportTo
  <2>7. QED
    BY <2>1, <2>2, <2>4, <2>6, HeardOne DEF OfRule
<1>6. ASSUME NEW id
      PROVE  Heard(Told(<<RecipeSeen(id)>>, v), v, <<RecipeSeen(id)>>)
  <2>1. PICK f : f = RecipeSeen(id)
    OBVIOUS
  <2>2. f.msg = "RecipeSeen" /\ f.id = id
    BY <2>1 DEF RecipeSeen
  <2>3. PICK r : r = F("id", id)
    OBVIOUS
  <2>4. ToldOf(f, v) = Packet("recipe_book_seen_recipe", "", r)
    BY <2>2, <2>3 DEF ToldOf
  <2>5. With(r, "id", id)
    BY <2>3, FieldWithout
  <2>6. ASSUME NEW p, p.name = "recipe_book_seen_recipe", p.op = "", p.fields = r
        PROVE  Hears(p, v) = <<f>>
    <3>1. Get(p, "id") = id
      BY <2>5, <2>6, WithOf DEF Get
    <3>2. QED
      BY <1>6, <2>1, <2>6, <3>1 DEF Hears, ParseRecipeSeen
  <2>7. QED
    BY <2>1, <2>2, <2>4, <2>6, HeardOne DEF OfRule
<1>7. ASSUME NEW open, NEW filter, NEW book \in 0 .. 3
      PROVE  Heard(Told(<<RecipeSettingChange(book, open, filter)>>, v), v,
            <<RecipeSettingChange(book, open, filter)>>)
  <2>1. PICK f : f = RecipeSettingChange(book, open, filter)
    OBVIOUS
  <2>2. f.msg = "RecipeSettingChange" /\ f.open = open /\ f.filter = filter /\ f.book = book
    BY <2>1 DEF RecipeSettingChange
  <2>3. PICK r : r = F("book", book) \o F("open", open) \o F("filter", filter)
    OBVIOUS
  <2>4. ToldOf(f, v) = Packet("recipe_book_change_settings", "", r)
    BY <2>2, <2>3 DEF ToldOf
  <2>5. With(r, "book", book) /\ With(r, "open", open) /\ With(r, "filter", filter)
    BY <2>3, Fields3
  <2>6. ASSUME NEW p, p.name = "recipe_book_change_settings", p.op = "", p.fields = r
        PROVE  Hears(p, v) = <<f>>
    <3>1. Get(p, "book") = book /\ Get(p, "open") = open /\ Get(p, "filter") = filter
      BY <2>5, <2>6, WithOf DEF Get
    <3>2. QED
      BY <1>7, <2>1, <2>6, <3>1 DEF Hears, ParseRecipeSettingChange
  <2>7. QED
    BY <2>1, <2>2, <2>4, <2>6, HeardOne DEF OfRule
<1>8. QED
  <2> DEFINE D1 == {<<RespawnReq>>, <<StatsReq>>, <<PlayerLoaded>>, <<TeleportToEntity(5)>>,
                    <<RecipeSeen(3)>>}
             D2 == {<<RecipeSettingChange(b, o, f)>> : b \in {0, 3}, o, f \in BOOLEAN}
             D3 == IF v < 775 THEN {} ELSE {<<GameRuleReq>>}
  <2>1. AskDeeds(v) = D1 \cup D2 \cup D3
    BY DEF AskDeeds
  <2>2. \A d \in D2 : \E b \in {0, 3} : \E o, f \in BOOLEAN : d = <<RecipeSettingChange(b, o, f)>>
    OBVIOUS
  <2> HIDE DEF D2
  <2>3. ASSUME deed \in D2 PROVE Heard(Told(deed, v), v, deed)
    <3>1. PICK b \in {0, 3} : \E o, f \in BOOLEAN : deed = <<RecipeSettingChange(b, o, f)>>
      BY <2>2, <2>3
    <3>2. PICK o, f \in BOOLEAN : deed = <<RecipeSettingChange(b, o, f)>>
      BY <3>1
    <3>3. b \in 0 .. 3
      BY <3>1
    <3>4. PICK x, y : x = o /\ y = f
      OBVIOUS
    <3>5. Heard(Told(<<RecipeSettingChange(b, x, y)>>, v), v, <<RecipeSettingChange(b, x, y)>>)
      BY <1>7, <3>3
    <3>6. QED
      BY <3>2, <3>4, <3>5
  <2>4. deed \in D1 => Heard(Told(deed, v), v, deed)
    BY <1>1, <1>2, <1>4, <1>5, <1>6
  <2>5. deed \in D3 => Heard(Told(deed, v), v, deed)
    BY <1>3
  <2> HIDE DEF D1, D3
  <2>6. QED
    BY <2>1, <2>3, <2>4, <2>5

\* What is no book is heeded,
LEMMA Unbound ==
    ASSUME NEW d, \A i \in DOMAIN d : d[i].msg # "EditBook"
    PROVE  Heeded(d) = d
BY DEF Heeded, TooLong

\* and what the books say has bytes.
LEMMA BooksAre ==
    /\ \A p \in Books : Len(p) <= 100 /\ \A i \in DOMAIN p : p[i].bytes \in Nat
    /\ \A t \in Texts : t.bytes \in Nat /\ t.bytes <= 384
<1>1. PICK a, b, c, e : a = Short /\ b = FullPage /\ c = WidePage /\ e = Wide
  OBVIOUS
<1>2. a.bytes = 3 /\ b.bytes = 1024 /\ c.bytes = 1200 /\ e.bytes = 45
  BY <1>1 DEF Short, FullPage, WidePage, Wide, Text
<1>3. ASSUME NEW p \in Books PROVE Len(p) <= 100 /\ \A i \in DOMAIN p : p[i].bytes \in Nat
  <2>1. p = << >> \/ p = <<a, b>> \/ p = <<a, c>>
    BY <1>1 DEF Books
  <2>2. CASE p = << >>
    BY <2>2
  <2>3. CASE p # << >>
    <3>1. PICK x : p = <<a, x>> /\ x.bytes \in Nat
      BY <1>2, <2>1, <2>3
    <3>2. Len(p) = 2 /\ DOMAIN p = 1 .. 2 /\ p[1] = a /\ p[2] = x
      BY <3>1
    <3>3. \A i \in 1 .. 2 : i = 1 \/ i = 2
      OBVIOUS
    <3>4. \A i \in DOMAIN p : p[i] = a \/ p[i] = x
      BY <3>2, <3>3
    <3>5. QED
      BY <1>2, <3>1, <3>2, <3>4
  <2>4. QED
    BY <2>2, <2>3
<1>4. \A t \in Texts : t = a \/ t = e
  BY <1>1 DEF Texts
<1>5. QED
  BY <1>2, <1>3, <1>4

\* Books, with a title when they are signed, are heard whole or not at all.
LEMMA BookHeard ==
    ASSUME NEW v, NEW pages \in Books, NEW title \in {None} \cup Texts
    PROVE  Heard(Told(<<EditBook(40, pages, title)>>, v), v, Heeded(<<EditBook(40, pages, title)>>))
<1>1. PICK f : f = EditBook(40, pages, title)
  OBVIOUS
<1>2. f.msg = "EditBook" /\ f.slot = 40 /\ f.pages = pages /\ f.title = title
  BY <1>1 DEF EditBook
<1>3. Len(pages) <= 100 /\ \A i \in DOMAIN pages : pages[i].bytes \in Nat
  BY BooksAre
<1>4. title = None \/ title.bytes \in Nat
  BY BooksAre
<1>5. PICK signed \in BOOLEAN : signed = (title # None)
  BY (title # None) \in BOOLEAN
<1>6. PICK a : a = F("slot", 40) \o F("pages", pages) \o F("signed", signed)
  OBVIOUS
<1>7. /\ With(a, "slot", 40) /\ With(a, "pages", pages) /\ With(a, "signed", signed)
      /\ Without(a, "title")
  BY <1>6, Fields3
<1>8. PICK r : r = a \o If(f.title # None, F("title", f.title))
  OBVIOUS
<1>9. ToldOf(f, v) = Packet("edit_book", "", r)
  <2>1. PICK fields : fields = F("slot", f.slot) \o F("pages", f.pages)
                            \o F("signed", f.title # None)
                            \o If(f.title # None, F("title", f.title))
    OBVIOUS
  <2>2. (f.title # None) = signed
    BY <1>2, <1>5
  <2>3. fields = r
    BY <1>2, <1>6, <1>8, <2>1, <2>2
  <2>4. ToldOf(f, v) = Packet("edit_book", "", fields)
    BY <1>2, <2>1 DEF ToldOf
  <2>5. QED
    BY <2>3, <2>4
<1>10. /\ With(r, "slot", 40) /\ With(r, "pages", pages) /\ With(r, "signed", signed)
       /\ signed => With(r, "title", title)
  <2>1. CASE title = None
    <3>1. If(f.title # None, F("title", f.title)) = << >>
      BY <1>2, <2>1 DEF If
    <3>2. r = a
      BY <1>7, <1>8, <3>1, JoinNothing DEF With
    <3>3. QED
      BY <1>5, <1>7, <2>1, <3>2
  <2>2. CASE title # None
    <3>1. PICK t : t = F("title", title)
      OBVIOUS
    <3>2. If(f.title # None, F("title", f.title)) = t
      BY <1>2, <2>2, <3>1 DEF If
    <3>3. /\ With(t, "title", title) /\ Without(t, "slot") /\ Without(t, "pages")
          /\ Without(t, "signed")
      BY <3>1, FieldWithout
    <3>4. r = a \o t
      BY <1>8, <3>2
    <3>5. QED
      BY <1>7, <3>3, <3>4, JoinWithout
  <2>3. QED
    BY <2>1, <2>2
<1>11. PICK e : e = Heeded(<<f>>)
  OBVIOUS
<1>12. e = IF TooLong(f) THEN << >> ELSE <<f>>
  <2>1. PICK d : d = <<f>>
    OBVIOUS
  <2>2. DOMAIN d = 1 .. 1 /\ d[1] = f
    BY <2>1
  <2>3. (\E i \in DOMAIN d : TooLong(d[i])) <=> TooLong(f)
    BY <2>2
  <2>4. QED
    BY <1>11, <2>1, <2>3 DEF Heeded
<1>13. ASSUME NEW p, p.name = "edit_book", p.op = "", p.fields = r
       PROVE  Hears(p, v) = e
  <2>1. /\ Get(p, "slot") = 40 /\ Get(p, "pages") = pages /\ Get(p, "signed") = signed
        /\ signed => Get(p, "title") = title
    BY <1>10, <1>13, WithOf DEF Get
  <2>2. Hears(p, v) = ParseEditBook(p)
    BY <1>13 DEF Hears
  <2>3. (IF Get(p, "signed") THEN Get(p, "title") ELSE None) = title
    BY <1>5, <2>1
  <2>4. TooLong(f) <=> \/ \E i \in DOMAIN pages : pages[i].bytes > 1024
                       \/ title # None /\ title.bytes > 32
    BY <1>2 DEF TooLong
  <2>5. ~TooLong(f) <=> /\ Len(pages) <= 100 /\ \A i \in DOMAIN pages : pages[i].bytes <= 1024
                        /\ title = None \/ title.bytes <= 32
    BY <1>3, <1>4, <2>4
  <2>6. CASE TooLong(f)
    <3>1. ParseEditBook(p) = << >>
      BY <2>1, <2>3, <2>5, <2>6 DEF ParseEditBook
    <3>2. QED
      BY <1>12, <2>2, <2>6, <3>1
  <2>7. CASE ~TooLong(f)
    <3>1. ParseEditBook(p) = <<EditBook(40, pages, title)>>
      BY <2>1, <2>3, <2>5, <2>7 DEF ParseEditBook
    <3>2. QED
      BY <1>1, <1>12, <2>2, <2>7, <3>1
  <2>8. QED
    BY <2>6, <2>7
<1>14. QED
  <2>1. Heard(Told(<<f>>, v), v, e)
    BY <1>2, <1>9, <1>13, HeardAs DEF OfRule
  <2>2. QED
    BY <1>1, <1>11, <2>1

\* Signs, commands, what is asked to complete.
LEMMA SpokenHeard ==
    ASSUME NEW v \in Nat
    PROVE  /\ \A front : \A t \in Texts :
                 Heard(Told(<<SignUpdate(front, <<t, Short, Short, Short>>)>>, v), v,
                       <<SignUpdate(front, <<t, Short, Short, Short>>)>>)
           /\ Heard(Told(<<Command(<<"help">>)>>, v), v, <<Command(<<"help">>)>>)
           /\ \A id, text : Heard(Told(<<SuggestReq(id, text)>>, v), v, <<SuggestReq(id, text)>>)
           /\ v >= 776 => \A click, payload : payload = None \/ payload # "end"
                 => Heard(Told(<<CustomClickAction(click, payload)>>, v), v,
                          <<CustomClickAction(click, payload)>>)
<1>1. ASSUME NEW front, NEW t \in Texts, NEW lines, lines = <<t, Short, Short, Short>>
      PROVE  Heard(Told(<<SignUpdate(front, lines)>>, v), v, <<SignUpdate(front, lines)>>)
  <2>1. PICK f : f = SignUpdate(front, lines)
    OBVIOUS
  <2>2. f.msg = "SignUpdate" /\ f.at = 7 /\ f.front = front /\ f.lines = lines
    BY <2>1 DEF SignUpdate
  <2>3. PICK r : r = F("at", 7) \o F("front", front) \o F("lines", lines)
    OBVIOUS
  <2>4. ToldOf(f, v) = Packet("sign_update", "", r)
    BY <2>2, <2>3 DEF ToldOf
  <2>5. With(r, "front", front) /\ With(r, "lines", lines)
    BY <2>3, Fields3
  <2>6. ASSUME NEW p, p.name = "sign_update", p.op = "", p.fields = r
        PROVE  Hears(p, v) = <<f>>
    <3>1. Get(p, "front") = front /\ Get(p, "lines") = lines
      BY <2>5, <2>6, WithOf DEF Get
    <3>2. \A i \in 1 .. 4 : lines[i].bytes <= 384
      <4>1. PICK s : s = Short
        OBVIOUS
      <4>2. s.bytes <= 384 /\ t.bytes <= 384
        BY <4>1, BooksAre DEF Texts
      <4>3. lines = <<t, s, s, s>>
        BY <1>1, <4>1
      <4>4. lines[1] = t /\ lines[2] = s /\ lines[3] = s /\ lines[4] = s
        BY <4>3
      <4>5. \A i \in 1 .. 4 : i = 1 \/ i = 2 \/ i = 3 \/ i = 4
        OBVIOUS
      <4>6. \A i \in 1 .. 4 : lines[i] = t \/ lines[i] = s
        BY <4>4, <4>5
      <4>7. QED
        BY <4>2, <4>6
    <3>3. Hears(p, v) = ParseSignUpdate(p)
      BY <2>6 DEF Hears
    <3>4. ParseSignUpdate(p) = <<SignUpdate(front, lines)>>
      BY <3>1, <3>2 DEF ParseSignUpdate
    <3>5. QED
      BY <2>1, <3>3, <3>4
  <2>7. QED
    BY <2>1, <2>2, <2>4, <2>6, HeardOne DEF OfRule
<1>2. ASSUME NEW words, words = <<"help">>
      PROVE  Heard(Told(<<Command(words)>>, v), v, <<Command(words)>>)
  <2>1. PICK f : f = Command(words)
    OBVIOUS
  <2>2. f.msg = "Command" /\ f.cmd = words
    BY <2>1 DEF Command
  <2>3. words[1] = "help" /\ words # << >>
    BY <1>2
  <2>4. ~OfRule(f)
    BY <2>2, <2>3 DEF OfRule
  <2>5. PICK r : r = F("command", words)
    OBVIOUS
  <2>6. ToldOf(f, v) = Packet("chat_command", "", r)
    BY <2>2, <2>5 DEF ToldOf
  <2>7. With(r, "command", words)
    BY <2>5, FieldWithout
  <2>8. ASSUME NEW p, p.name = "chat_command", p.op = "", p.fields = r
        PROVE  Hears(p, v) = <<f>>
    <3>1. Get(p, "command") = words
      BY <2>7, <2>8, WithOf DEF Get
    <3>2. Hears(p, v) = ReadChatCommand(p)
      BY <2>8 DEF Hears
    <3>3. ReadChatCommand(p) = <<Command(words)>>
      BY <2>3, <3>1 DEF ReadChatCommand
    <3>4. QED
      BY <2>1, <3>2, <3>3
  <2>9. QED
    BY <2>1, <2>4, <2>6, <2>8, HeardOne
<1>3. ASSUME NEW id, NEW text
      PROVE  Heard(Told(<<SuggestReq(id, text)>>, v), v, <<SuggestReq(id, text)>>)
  <2>1. PICK f : f = SuggestReq(id, text)
    OBVIOUS
  <2>2. f.msg = "SuggestReq" /\ f.id = id /\ f.text = text
    BY <2>1 DEF SuggestReq
  <2>3. PICK r : r = F("id", id) \o F("text", text)
    OBVIOUS
  <2>4. ToldOf(f, v) = Packet("command_suggestion", "", r)
    BY <2>2, <2>3 DEF ToldOf
  <2>5. With(r, "id", id) /\ With(r, "text", text)
    BY <2>3, Fields2
  <2>6. ASSUME NEW p, p.name = "command_suggestion", p.op = "", p.fields = r
        PROVE  Hears(p, v) = <<f>>
    <3>1. Get(p, "id") = id /\ Get(p, "text") = text
      BY <2>5, <2>6, WithOf DEF Get
    <3>2. QED
      BY <1>3, <2>1, <2>6, <3>1 DEF Hears, ReadSuggest
  <2>7. QED
    BY <2>1, <2>2, <2>4, <2>6, HeardOne DEF OfRule
<1>4. ASSUME v >= 776, NEW click, NEW payload, payload = None \/ payload # "end"
      PROVE  Heard(Told(<<CustomClickAction(click, payload)>>, v), v,
                   <<CustomClickAction(click, payload)>>)
  <2>1. PICK f : f = CustomClickAction(click, payload)
    OBVIOUS
  <2>2. f.msg = "CustomClickAction" /\ f.click = click /\ f.payload = payload
    BY <2>1 DEF CustomClickAction
  <2>3. PICK tag : tag = (IF payload = None THEN "end" ELSE payload)
    OBVIOUS
  <2>4. PICK r : r = F("click", click) \o F("tag", tag)
    OBVIOUS
  <2>5. ToldOf(f, v) = Packet("custom_click_action", "", r)
    <3>1. (IF f.payload = None THEN "end" ELSE f.payload) = tag
      BY <2>2, <2>3
    <3>2. QED
      BY <2>2, <2>4, <3>1 DEF ToldOf
  <2>6. With(r, "click", click) /\ With(r, "tag", tag)
    BY <2>4, Fields2
  <2>7. ASSUME NEW p, p.name = "custom_click_action", p.op = "", p.fields = r
        PROVE  Hears(p, v) = <<f>>
    <3>1. Get(p, "click") = click /\ Get(p, "tag") = tag
      BY <2>6, <2>7, WithOf DEF Get
    <3>2. (IF tag = "end" THEN None ELSE tag) = payload
      BY <1>4, <2>3
    <3>3. Hears(p, v) = IF v < 776 THEN << >> ELSE ParseCustomClickAction(p)
      BY <2>7 DEF Hears
    <3>4. ParseCustomClickAction(p) = <<CustomClickAction(click, payload)>>
      BY <3>1, <3>2 DEF ParseCustomClickAction
    <3>5. ~(v < 776)
      BY <1>4, v \in Nat
    <3>6. QED
      BY <2>1, <3>3, <3>4, <3>5
  <2>8. QED
    BY <2>1, <2>2, <2>5, <2>7, HeardOne DEF OfRule
<1>5. QED
  BY <1>1, <1>2, <1>3, <1>4

\* The rules of a game: one packet of many, heard as one command each.
LEMMA RulesHeard ==
    ASSUME NEW v \in Nat, v >= 775, NEW n \in {1, 2}, NEW deed, NEW rule, NEW to,
           deed = [i \in 1 .. n |-> Command(<<"gamerule", rule[i], to[i]>>)]
    PROVE  Heard(Told(deed, v), v, deed)
<1>1. DOMAIN deed = 1 .. n
  OBVIOUS
<1>2. \A i \in 1 .. n : /\ deed[i].msg = "Command" /\ deed[i].cmd[1] = "gamerule"
                       /\ deed[i].cmd[2] = rule[i] /\ deed[i].cmd[3] = to[i]
  <2>1. ASSUME NEW i \in 1 .. n
        PROVE  /\ deed[i].msg = "Command" /\ deed[i].cmd[1] = "gamerule"
               /\ deed[i].cmd[2] = rule[i] /\ deed[i].cmd[3] = to[i]
    <3>1. PICK c : c = <<"gamerule", rule[i], to[i]>>
      OBVIOUS
    <3>2. deed[i] = Command(c)
      BY <3>1
    <3>3. deed[i].msg = "Command" /\ deed[i].cmd = c
      BY <3>2 DEF Command
    <3>4. c[1] = "gamerule" /\ c[2] = rule[i] /\ c[3] = to[i]
      BY <3>1
    <3>5. QED
      BY <3>3, <3>4
  <2>2. QED
    BY <2>1
<1>3. PICK rules : rules = [i \in DOMAIN deed |-> <<deed[i].cmd[2], deed[i].cmd[3]>>]
  OBVIOUS
<1>4. Told(deed, v) = Packet("set_game_rule", "", F("rules", rules))
  <2>1. \A i \in DOMAIN deed : deed[i].msg = "Command" /\ deed[i].cmd[1] = "gamerule"
    BY <1>1, <1>2
  <2>2. Told(deed, v) = Packet("set_game_rule", "",
           F("rules", [i \in DOMAIN deed |-> <<deed[i].cmd[2], deed[i].cmd[3]>>]))
    BY <2>1, Zenon DEF Told
  <2>3. QED
    BY <1>3, <2>2, Zenon
<1>5. PICK name, op, fields : name = "set_game_rule" /\ op = "" /\ fields = F("rules", rules)
  OBVIOUS
<1>6. PICK p : p.name = name /\ p.op = op /\ p.fields = fields /\ Packet(name, op, fields) = <<p>>
  BY PacketOf
<1>7. /\ p.name = "set_game_rule" /\ p.op = "" /\ p.fields = F("rules", rules)
      /\ Packet("set_game_rule", "", F("rules", rules)) = <<p>>
  BY <1>5, <1>6
<1>8. Get(p, "rules") = rules
  <2>1. With(p.fields, "rules", rules)
    BY <1>7, FieldWithout
  <2>2. QED
    BY <2>1, WithOf DEF Get
<1>9. Hears(p, v) = SetGameRuleCommands(p)
  <2>1. ~(v < 775)
    OBVIOUS
  <2>2. Hears(p, v) = IF v < 775 THEN << >> ELSE SetGameRuleCommands(p)
    BY <1>7 DEF Hears
  <2>3. QED
    BY <2>1, <2>2
<1>10. SetGameRuleCommands(p)
          = [i \in DOMAIN rules |-> Command(<<"gamerule", rules[i][1], rules[i][2]>>)]
  BY <1>8 DEF SetGameRuleCommands
<1>11. DOMAIN rules = 1 .. n
  BY <1>1, <1>3
<1>12. \A i \in 1 .. n : rules[i][1] = rule[i] /\ rules[i][2] = to[i]
  <2>1. ASSUME NEW i \in 1 .. n PROVE rules[i][1] = rule[i] /\ rules[i][2] = to[i]
    <3>1. PICK a, b : a = deed[i].cmd[2] /\ b = deed[i].cmd[3]
      OBVIOUS
    <3>2. rules[i] = <<a, b>>
      BY <1>1, <1>3, <3>1
    <3>3. QED
      BY <1>2, <3>1, <3>2
  <2>2. QED
    BY <2>1
<1>13. \A i \in 1 .. n : Command(<<"gamerule", rules[i][1], rules[i][2]>>) = deed[i]
  BY <1>12
<1>14. Hears(p, v) = deed
  BY <1>9, <1>10, <1>11, <1>13, <1>1
<1>15. PICK ps : ps = <<p>>
  OBVIOUS
<1>16. ps # << >> /\ DOMAIN ps = 1 .. 1 /\ ps[1] = p
  BY <1>15
<1>17. [i \in DOMAIN ps |-> Hears(ps[i], v)] = <<deed>>
  <2>1. PICK h : h = Hears(p, v)
    OBVIOUS
  <2>2. [i \in DOMAIN ps |-> Hears(ps[i], v)] = <<h>>
    BY <1>16, <2>1
  <2>3. QED
    BY <1>14, <2>1, <2>2
<1>18. Heard(ps, v, deed)
  BY <1>16, <1>17, FlatOne DEF Heard
<1>19. QED
  BY <1>4, <1>7, <1>15, <1>18

\* The written and the spoken words.
LEMMA WordsHeard ==
    ASSUME NEW v \in Nat, NEW d \in WordDeeds(v)
    PROVE  Heard(Told(d, v), v, Heeded(d))
<1>1. ASSUME Heard(Told(d, v), v, d), \A i \in DOMAIN d : d[i].msg # "EditBook"
      PROVE  Heard(Told(d, v), v, Heeded(d))
  BY <1>1, Unbound
<1>2. ASSUME NEW deed, v >= 775, deed = <<Command(<<"gamerule", "keep_inventory", "true">>)>>
      PROVE  Heard(Told(deed, v), v, deed)
  <2>1. PICK rule, to : rule = <<"keep_inventory">> /\ to = <<"true">>
    OBVIOUS
  <2>2. rule[1] = "keep_inventory" /\ to[1] = "true"
    BY <2>1
  <2>3. PICK x : x = Command(<<"gamerule", "keep_inventory", "true">>)
    OBVIOUS
  <2>4. deed = <<x>> /\ x = Command(<<"gamerule", rule[1], to[1]>>)
    BY <1>2, <2>2, <2>3
  <2>5. \A i \in 1 .. 1 : i = 1
    OBVIOUS
  <2>6. deed = [i \in 1 .. 1 |-> Command(<<"gamerule", rule[i], to[i]>>)]
    BY <2>4, <2>5
  <2>7. 1 \in {1, 2}
    OBVIOUS
  <2>8. QED
    BY <1>2, <2>6, <2>7, RulesHeard
<1>3. ASSUME NEW deed, v >= 775,
             deed = <<Command(<<"gamerule", "keep_inventory", "true">>),
                      Command(<<"gamerule", "random_tick_speed", "5">>)>>
      PROVE  Heard(Told(deed, v), v, deed)
  <2>1. PICK rule, to : /\ rule = <<"keep_inventory", "random_tick_speed">>
                        /\ to = <<"true", "5">>
    OBVIOUS
  <2>2. /\ rule[1] = "keep_inventory" /\ to[1] = "true"
        /\ rule[2] = "random_tick_speed" /\ to[2] = "5"
    BY <2>1
  <2>3. PICK x, y : /\ x = Command(<<"gamerule", "keep_inventory", "true">>)
                    /\ y = Command(<<"gamerule", "random_tick_speed", "5">>)
    OBVIOUS
  <2>4. /\ deed = <<x, y>> /\ x = Command(<<"gamerule", rule[1], to[1]>>)
        /\ y = Command(<<"gamerule", rule[2], to[2]>>)
    BY <1>3, <2>2, <2>3
  <2>5. \A i \in 1 .. 2 : i = 1 \/ i = 2
    OBVIOUS
  <2>6. deed = [i \in 1 .. 2 |-> Command(<<"gamerule", rule[i], to[i]>>)]
    BY <2>4, <2>5
  <2>7. 2 \in {1, 2}
    OBVIOUS
  <2>8. QED
    BY <1>3, <2>6, <2>7, RulesHeard
<1>4. ASSUME v >= 776, NEW payload \in {None, "inputs"}
      PROVE  Heard(Told(<<CustomClickAction("pack:yes", payload)>>, v), v,
                   <<CustomClickAction("pack:yes", payload)>>)
  <2>1. payload = None \/ payload # "end"
    OBVIOUS
  <2>2. QED
    BY <1>4, <2>1, SpokenHeard
<1>5. QED
  <2> DEFINE D1 == {<<EditBook(40, p, t)>> : p \in Books, t \in {None} \cup Texts}
             D2 == {<<SignUpdate(f, <<t, Short, Short, Short>>)>> : f \in BOOLEAN, t \in Texts}
             D3 == {<<Command(<<"help">>)>>}
             D4 == {<<SuggestReq(n, Short)>> : n \in {1, 2}}
             D5 == IF v < 775 THEN {}
                   ELSE {<<Command(<<"gamerule", "keep_inventory", "true">>)>>,
                         <<Command(<<"gamerule", "keep_inventory", "true">>),
                           Command(<<"gamerule", "random_tick_speed", "5">>)>>}
             D6 == IF v < 776 THEN {}
                   ELSE {<<CustomClickAction("pack:yes", p)>> : p \in {None, "inputs"}}
  <2>1. WordDeeds(v) = D1 \cup D2 \cup D3 \cup D4 \cup D5 \cup D6
    BY DEF WordDeeds
  <2>2. \A e \in D1 : \E p \in Books : \E t \in {None} \cup Texts : e = <<EditBook(40, p, t)>>
    OBVIOUS
  <2>3. \A e \in D2 : \E f \in BOOLEAN : \E t \in Texts :
           e = <<SignUpdate(f, <<t, Short, Short, Short>>)>>
    OBVIOUS
  <2> HIDE DEF D1, D2
  <2>4. ASSUME d \in D1 PROVE Heard(Told(d, v), v, Heeded(d))
    <3>1. PICK p \in Books : \E t \in {None} \cup Texts : d = <<EditBook(40, p, t)>>
      BY <2>2, <2>4
    <3>2. PICK t \in {None} \cup Texts : d = <<EditBook(40, p, t)>>
      BY <3>1
    <3>3. QED
      BY <3>2, BookHeard
  <2>5. ASSUME d \in D2 PROVE Heard(Told(d, v), v, Heeded(d))
    <3>1. PICK f \in BOOLEAN : \E t \in Texts : d = <<SignUpdate(f, <<t, Short, Short, Short>>)>>
      BY <2>3, <2>5
    <3>2. PICK t \in Texts : d = <<SignUpdate(f, <<t, Short, Short, Short>>)>>
      BY <3>1
    <3>3. PICK x, lines : /\ x = SignUpdate(f, lines) /\ d = <<x>>
                          /\ lines = <<t, Short, Short, Short>>
      BY <3>2
    <3>4. x.msg = "SignUpdate"
      BY <3>3 DEF SignUpdate
    <3>5. \A i \in DOMAIN d : d[i].msg # "EditBook"
      BY <3>3, <3>4
    <3>6. Heard(Told(d, v), v, d)
      BY <3>2, SpokenHeard
    <3>7. QED
      BY <1>1, <3>5, <3>6
  <2>6. ASSUME d \in D3 PROVE Heard(Told(d, v), v, Heeded(d))
    <3>1. PICK x : x = Command(<<"help">>) /\ x.msg = "Command" /\ d = <<x>>
      BY <2>6 DEF Command
    <3>2. Heard(Told(d, v), v, d)
      BY <3>1, SpokenHeard
    <3>3. QED
      BY <1>1, <3>1, <3>2
  <2>7. ASSUME d \in D4 PROVE Heard(Told(d, v), v, Heeded(d))
    <3>1. PICK n \in {1, 2} : d = <<SuggestReq(n, Short)>>
      BY <2>7
    <3>2. \A id, text : Heard(Told(<<SuggestReq(id, text)>>, v), v, <<SuggestReq(id, text)>>)
      BY SpokenHeard
    <3>3. PICK x : x = SuggestReq(n, Short) /\ x.msg = "SuggestReq" /\ d = <<x>>
      BY <3>1 DEF SuggestReq
    <3>4. QED
      BY <1>1, <3>1, <3>2, <3>3
  <2>8. ASSUME d \in D5 PROVE Heard(Told(d, v), v, Heeded(d))
    <3>1. v >= 775
      BY <2>8
    <3>2. \/ d = <<Command(<<"gamerule", "keep_inventory", "true">>)>>
          \/ d = <<Command(<<"gamerule", "keep_inventory", "true">>),
                   Command(<<"gamerule", "random_tick_speed", "5">>)>>
      BY <2>8
    <3>3. PICK x, y : /\ x = Command(<<"gamerule", "keep_inventory", "true">>)
                      /\ y = Command(<<"gamerule", "random_tick_speed", "5">>)
      OBVIOUS
    <3>4. x.msg = "Command" /\ y.msg = "Command" /\ (d = <<x>> \/ d = <<x, y>>)
      BY <3>2, <3>3 DEF Command
    <3>5. \A i \in DOMAIN d : d[i] = x \/ d[i] = y
      BY <3>4
    <3>6. Heard(Told(d, v), v, d)
      BY <1>2, <1>3, <3>1, <3>2
    <3>7. QED
      BY <1>1, <3>4, <3>5, <3>6
  <2>9. ASSUME d \in D6 PROVE Heard(Told(d, v), v, Heeded(d))
    <3>1. v >= 776
      BY <2>9
    <3>2. PICK payload \in {None, "inputs"} : d = <<CustomClickAction("pack:yes", payload)>>
      BY <2>9
    <3>3. PICK x : /\ x = CustomClickAction("pack:yes", payload)
                   /\ x.msg = "CustomClickAction" /\ d = <<x>>
      BY <3>2 DEF CustomClickAction
    <3>4. Heard(Told(d, v), v, d)
      BY <1>4, <3>1, <3>2
    <3>5. QED
      BY <1>1, <3>3, <3>4
  <2> HIDE DEF D3, D4, D5, D6
  <2>10. QED
    BY <2>1, <2>4, <2>5, <2>6, <2>7, <2>8, <2>9

\* Every deed is heard as it was done, but a book beyond the limits, which is not.
LEMMA DeedsHeard ==
    ASSUME NEW v \in Nat, NEW t \in DeedTopics, NEW d \in DeedsOf(t, v)
    PROVE  Heard(Told(d, v), v, Due(t, d))
<1>1. CASE t = "keys"
  <2>1. d \in KeyDeeds(v)
    BY <1>1 DEF DeedsOf
  <2>2. QED
    BY <1>1, <2>1, KeysHeard DEF Due
<1>2. CASE t = "hands"
  <2>1. d \in HandDeeds(v)
    BY <1>2 DEF DeedsOf
  <2>2. QED
    BY <1>2, <2>1, HandsHeard DEF Due
<1>3. CASE t = "blocks"
  <2>1. d \in BlockDeeds(v)
    BY <1>3 DEF DeedsOf
  <2>2. QED
    BY <1>3, <2>1, BlocksHeard DEF Due
<1>4. CASE t = "clicks"
  <2>1. d \in MenuDeeds(v)
    BY <1>4 DEF DeedsOf
  <2>2. QED
    BY <1>4, <2>1, MenusHeard DEF Due
<1>5. CASE t = "words"
  <2>1. d \in WordDeeds(v)
    BY <1>5 DEF DeedsOf
  <2>2. QED
    BY <1>5, <2>1, WordsHeard DEF Due
<1>6. CASE t = "asks"
  <2>1. d \in AskDeeds(v)
    BY <1>6 DEF DeedsOf
  <2>2. QED
    BY <1>6, <2>1, AsksHeard DEF Due
<1>7. QED
  BY <1>1, <1>2, <1>3, <1>4, <1>5, <1>6 DEF DeedTopics

-----------------------------------------------------------------------------
(* Every step.                                                             *)

\* What the world gives has its parts, and the frames lead to it.
Formed ==
    /\ topic = "tab" => board \in [Users -> {None} \cup Entry]
    /\ topic = "bar" => board \in {None} \cup BarLook
    /\ topic = "title" => TitleShape(board)
    /\ topic = "map" => MapShape(board)
    /\ topic = "book" => BookShape(board)
    /\ topic = "moves" => MoveShape(board)

\* Of a screen without such parts there is nothing to say.
LEMMA ShapelessStays ==
    ASSUME topic' = topic, topic \notin {"tab", "bar", "title", "map", "book", "moves"}
    PROVE  Formed'
BY DEF Formed

\* An empty screen has its parts,
LEMMA BlankShaped ==
    board = Blank(topic) => Formed
<1>1. SUFFICES ASSUME board = Blank(topic) PROVE Formed
  OBVIOUS
<1>2. topic = "tab" => board \in [Users -> {None} \cup Entry]
  BY <1>1 DEF Blank, DeedTopics
<1>3. topic = "bar" => board \in {None} \cup BarLook
  BY <1>1 DEF Blank, DeedTopics
<1>4. topic = "title" => TitleShape(board)
  <2>1. ASSUME topic = "title" PROVE TitleShape(board)
    <3>1. board = [title |-> "", subtitle |-> "", times |-> 0, opened |-> None]
      BY <1>1, <2>1 DEF Blank, DeedTopics
    <3>2. QED
      BY <3>1 DEF TitleShape, TitleLabels
  <2>2. QED
    BY <2>1
<1>5. topic = "map" => MapShape(board)
  <2>1. ASSUME topic = "map" PROVE MapShape(board)
    <3>1. board = [ink |-> [c \in Cells |-> 0], decor |-> << >>]
      BY <1>1, <2>1 DEF Blank, DeedTopics
    <3>2. QED
      BY <3>1 DEF MapShape
  <2>2. QED
    BY <2>1
<1>6. topic = "book" => BookShape(board)
  BY <1>1 DEF Blank, DeedTopics, BookShape
<1>7. topic = "moves" => MoveShape(board)
  <2>1. ASSUME topic = "moves" PROVE MoveShape(board)
    <3>1. board = [at |-> 1, look |-> 0, ground |-> FALSE]
      BY <1>1, <2>1 DEF Blank, DeedTopics
    <3>2. QED
      BY <3>1 DEF MoveShape, MoveLabels
  <2>2. QED
    BY <2>1
<1>8. QED
  BY <1>2, <1>3, <1>4, <1>5, <1>6, <1>7 DEF Formed

\* and a client of any version can show it.
LEMMA BlankShown ==
    topic # "menu" /\ board = Blank(topic) /\ beside = {} => Showable(board) = Blank(topic)
<1>1. SUFFICES ASSUME topic # "menu", board = Blank(topic), beside = {}
               PROVE  Showable(board) = board
  OBVIOUS
<1>2. CASE topic \in {"waypoint", "spawn", "time", "ghost"}
  <2>a. Blank("waypoint") = None /\ Blank("spawn") = None
    BY DEF Blank, DeedTopics
  <2>b. Blank("time") = None /\ Blank("ghost") = None
    BY DEF Blank, DeedTopics
  <2>1. board = None
    BY <1>1, <1>2, <2>a, <2>b
  <2>2. CASE topic = "waypoint"
    BY <2>1, <2>2 DEF Showable
  <2>3. CASE topic = "spawn"
    BY <2>1, <2>3 DEF Showable
  <2>4. CASE topic = "time"
    BY <2>1, <2>4 DEF Showable
  <2>5. CASE topic = "ghost"
    BY <2>1, <2>5 DEF Showable
  <2>6. QED
    BY <1>2, <2>2, <2>3, <2>4, <2>5
<1>3. CASE topic = "map"
  <2>1. board = [ink |-> [c \in Cells |-> 0], decor |-> << >>]
    BY <1>1, <1>3 DEF Blank, DeedTopics
  <2>2. PICK none : none = << >>
    OBVIOUS
  <2>3. [i \in DOMAIN none |-> MapDecorationFor(none[i])] = none
    BY <2>2
  <2>4. DOMAIN board = {"ink", "decor"} /\ board.decor = none
    BY <2>1, <2>2
  <2>5. Showable(board) = [board EXCEPT !.decor = [i \in DOMAIN board.decor |->
                                                      MapDecorationFor(board.decor[i])]]
    BY <1>3 DEF Showable
  <2>6. QED
    BY <2>1, <2>3, <2>4, <2>5
<1>4. CASE topic = "book"
  <2>1. board = [r \in Recipes |-> None]
    BY <1>1, <1>4 DEF Blank, DeedTopics
  <2>2. QED
    BY <1>4, <2>1 DEF Showable
<1>5. CASE topic = "advancements"
  <2>1. board = [tree |-> {}, done |-> [n \in Nodes |-> {}], coming |-> {}]
    BY <1>1, <1>5, BlankTree
  <2>2. Showable(board) = [board EXCEPT !.tree = @ \cup beside, !.coming = {}]
    BY <1>5 DEF Showable
  <2>3. PICK x : x = board.tree \cup beside /\ x = {}
    BY <1>1, <2>1
  <2>4. Showable(board) = [board EXCEPT !.tree = x, !.coming = {}]
    BY <2>2, <2>3
  <2>5. QED
    BY <2>1, <2>3, <2>4
<1>6. CASE topic = "words"
  <2>1. board = << >>
    BY <1>1, <1>6 DEF Blank, DeedTopics
  <2>2. QED
    BY <1>6, <2>1 DEF Showable, Heeded
<1>7. CASE topic \notin {"waypoint", "spawn", "time", "ghost", "map", "book",
                         "advancements", "menu", "words"}
  BY <1>7 DEF Showable
<1>8. QED
  BY <1>1, <1>2, <1>3, <1>4, <1>5, <1>6, <1>7

\* A join again is shown as an empty screen.
LEMMA RejoinMirrors ==
    Rejoin /\ topic # "menu" => Mirrored /\ Formed'
<1>1. (topic # "menu" /\ board = Blank(topic) /\ beside = {} => Showable(board) = Blank(topic))'
  BY BlankShown, PTL
<1>2. (board = Blank(topic) => Formed)'
  BY BlankShaped, PTL
<1>3. SUFFICES ASSUME Rejoin, topic # "menu" PROVE Mirrored /\ Formed'
  OBVIOUS
<1>4. PICK e, ps : e = << >> /\ ps = Packet("login", "play", e)
  OBVIOUS
<1>5. /\ UNCHANGED <<topic, version, screen>> /\ board' = Blank(topic) /\ net' = Append(net, ps)
      /\ beside' = {}
  BY <1>3, <1>4, RejoinDoes DEF Rejoin
<1>6. topic \notin DeedTopics
  BY <1>3 DEF Rejoin
<1>7. PICK p : p.name = "login" /\ ps = <<p>>
  BY <1>4, PacketOf
<1>8. Sees(topic, Showable(board), p) = Blank(topic)
  BY <1>7 DEF Sees
<1>9. Leads(topic, version, Showable(board), ps, Blank(topic))
  BY <1>6, <1>7, <1>8, LeadsOne
<1>10. Blank(topic)' = Blank(topic)
  BY <1>5 DEF Blank, DeedTopics
<1>11. Showable(board)' = Blank(topic)
  BY <1>1, <1>3, <1>5, <1>10
<1>12. Formed'
  BY <1>2, <1>5, <1>10
<1>13. QED
  BY <1>5, <1>9, <1>11, <1>12 DEF Mirrored

\* Each step shows what the world gives, or is the client's, or of menus.
LEMMA EveryStepShows ==
    ASSUME Typed, TreeHeld, Formed, Next
    PROVE  Deliver \/ (topic = "menu" /\ topic' = topic) \/ (Mirrored /\ Formed')
<1> DEFINE Goal == Mirrored /\ Formed'
<1>1. version \in Nat
  BY TypedTypes
<1>2. CASE \/ \E u \in Users, e \in Entry : topic = "tab" /\ PlayerInfo(u, e)
           \/ \E ping \in {0, 9} : topic = "tab" /\ PlayerInfoLatency(ping)
           \/ \E u \in Users, mode \in {0, 3} : topic = "tab" /\ PlayerInfoMode(u, mode)
           \/ \E u \in Users, chat \in BOOLEAN : topic = "tab" /\ PlayerInfoChat(u, chat)
           \/ \E u \in Users : topic = "tab" /\ PlayerGone(u)
  <2>1. topic = "tab" /\ board \in [Users -> {None} \cup Entry]
    BY <1>2 DEF Formed
  <2>2. Mirrored /\ topic' = topic /\ board' \in [Users -> {None} \cup Entry]
    BY <1>2, <2>1, TabMirrors, LatencyMirrors
  <2>3. Formed'
    BY <2>1, <2>2 DEF Formed
  <2>4. QED
    BY <2>2, <2>3
<1>3. CASE \/ \E e \in BarLook : topic = "bar" /\ BossBarAdd(e)
           \/ \E e \in BarLook, op \in DOMAIN BarOps : topic = "bar" /\ BossBar(op, e)
           \/ topic = "bar" /\ BossBarRemove
  <2>1. topic = "bar" /\ board \in {None} \cup BarLook
    BY <1>3 DEF Formed
  <2>2. Mirrored /\ topic' = topic /\ board' \in {None} \cup BarLook
    BY <1>3, <2>1, BarMirrors
  <2>3. Formed'
    BY <2>1, <2>2 DEF Formed
  <2>4. QED
    BY <2>2, <2>3
<1>4. CASE \/ \E e \in EffectLook : topic = "effect" /\ Effect(e)
           \/ topic = "effect" /\ EffectRemove
  <2>1. topic = "effect" /\ Mirrored /\ topic' = topic
    BY <1>4, EffectMirrors
  <2>2. QED
    BY <2>1, ShapelessStays
<1>5. CASE \/ \E t \in {"", "T", "U"}, sub \in {"", "s"}, n \in {0, 9} :
                 topic = "title" /\ Title(t, sub, n)
           \/ \E reset \in BOOLEAN : topic = "title" /\ ClearTitle(reset)
  <2>1. topic = "title" /\ TitleShape(board)
    BY <1>5 DEF Formed
  <2>2. Mirrored /\ topic' = topic /\ TitleShape(board')
    BY <1>5, <2>1, TitleMirrors, ClearMirrors
  <2>3. Formed'
    BY <2>1, <2>2 DEF Formed
  <2>4. QED
    BY <2>2, <2>3
<1>6. CASE \/ \E o \in ObjectiveLook : topic = "scores" /\ ObjectiveAdd(o)
           \/ \E o \in ObjectiveLook : topic = "scores" /\ ObjectiveUpdate(o)
           \/ topic = "scores" /\ ObjectiveRemove
           \/ \E o \in {"", "objective"} : topic = "scores" /\ DisplaySlot(o)
           \/ \E e \in ScoreLook : topic = "scores" /\ Score(e)
           \/ \E o \in {"", "objective"} : topic = "scores" /\ ScoreReset(o)
  <2>1. topic = "scores" /\ Mirrored /\ topic' = topic
    BY <1>6, ScoresMirror
  <2>2. QED
    BY <2>1, ShapelessStays
<1>7. CASE \/ \E t \in TeamLook, us \in SUBSET {"me"} : topic = "team" /\ TeamAdd(t, us)
           \/ \E t \in TeamLook : topic = "team" /\ TeamUpdate(t)
           \/ topic = "team" /\ TeamRemove
           \/ \E u \in Users, method \in {"join", "leave"} :
                 topic = "team" /\ TeamPlayers(method, {u})
  <2>1. topic = "team" /\ Mirrored /\ topic' = topic
    BY <1>7, TeamMirrors
  <2>2. QED
    BY <2>1, ShapelessStays
<1>8. CASE \/ \E ink \in Pictures : topic = "map" /\ MapColors(ink)
           \/ \E d \in Markers : topic = "map" /\ MapMarkers(d)
  <2>1. topic = "map" /\ MapShape(board)
    BY <1>8 DEF Formed
  <2>2. Mirrored /\ topic' = topic /\ MapShape(board')
    BY <1>8, <2>1, MapColorsMirror, MapMarkersMirror
  <2>3. Formed'
    BY <2>1, <2>2 DEF Formed
  <2>4. QED
    BY <2>2, <2>3
<1>9. CASE \/ \E w \in Track, op \in {"track", "untrack", "update"} :
                 topic = "waypoint" /\ Waypoint(op, w)
           \/ \E e \in SpawnLook, named \in BOOLEAN : topic = "spawn" /\ DefaultSpawn(e, named)
  <2>1. topic \in {"waypoint", "spawn"} /\ Mirrored /\ topic' = topic
    BY <1>9, WaypointMirrors, SpawnMirrors
  <2>2. QED
    BY <2>1, ShapelessStays
<1>10. CASE \/ \E e \in BorderLook, heading \in BOOLEAN :
                  topic = "border" /\ WorldBorder(e, heading)
            \/ \E e \in ClockLook, clocks \in BOOLEAN : topic = "time" /\ Time(e, clocks)
            \/ \E e \in AbleLook : topic = "abilities" /\ Abilities(e)
  <2>1. topic \in {"border", "time", "abilities"} /\ Mirrored /\ topic' = topic
    BY <1>10, BorderMirrors, TimeMirrors, AbilitiesMirrors
  <2>2. QED
    BY <2>1, ShapelessStays
<1>11. CASE \/ \E known \in SUBSET Recipes : topic = "book" /\ RecipeBook(known)
            \/ \E r \in Recipes : topic = "book" /\ RecipeUnlocked(r)
  <2>1. topic = "book" /\ BookShape(board)
    BY <1>11 DEF Formed
  <2>2. Mirrored /\ topic' = topic /\ BookShape(board')
    BY <1>11, <2>1, BookMirrors
  <2>3. Formed'
    BY <2>1, <2>2 DEF Formed
  <2>4. QED
    BY <2>2, <2>3
<1>12. CASE \E r \in {q \in Recipes : ~IsCooking(q)} : topic = "ghost" /\ GhostRecipe(r)
  <2>1. topic = "ghost" /\ Mirrored /\ topic' = topic
    BY <1>12, GhostMirrors
  <2>2. QED
    BY <2>1, ShapelessStays
<1>13. CASE \/ \E t \in Trees, reset \in BOOLEAN :
                  AdvTreeWhole(t, reset)
            \/ \E d \in Snapshots({"root", "leaf"}) : AdvProgressWhole(d)
            \/ \E t \in Trees : AdvTreeChanged(t)
            \/ \E n \in Nodes, done \in SUBSET {"a", "b"} :
                  topic = "advancements" /\ done \subseteq Criteria(n) /\ AdvGranted(n, done)
  <2>1. topic = "advancements"
    BY <1>13 DEF AdvTreeWhole, AdvProgressWhole, AdvTreeChanged, Room
  <2>2. ASSUME NEW t \in Trees, NEW reset \in BOOLEAN, AdvTreeWhole(t, reset)
        PROVE  Mirrored /\ topic' = topic
    <3>1. CASE advReqs = None \/ reset
      BY <2>2, <3>1, WholeHeldBack
    <3>2. CASE ~(advReqs = None \/ reset)
      BY <2>2, <3>2, AdditionMirrors
    <3>3. QED
      BY <3>1, <3>2
  <2>3. \A d \in Snapshots({"root", "leaf"}) : AdvProgressWhole(d) => Mirrored /\ topic' = topic
    BY WholeMirrors
  <2>4. \A t \in Trees : AdvTreeChanged(t) => Mirrored /\ topic' = topic
    BY ChangeMirrors
  <2>5. \A n \in Nodes, done \in SUBSET {"a", "b"} :
           done \subseteq Criteria(n) /\ AdvGranted(n, done) => Mirrored /\ topic' = topic
    BY GrantMirrors
  <2>6. Mirrored /\ topic' = topic
    BY <1>13, <2>2, <2>3, <2>4, <2>5, Zenon
  <2>7. QED
    BY <2>1, <2>6, ShapelessStays
<1>14. CASE \/ \E w \in WindowIds, menu \in {BrewingStand, Furnace} :
                  topic = "menu" /\ WindowOpen(w, menu)
            \/ \E w \in WindowIds : topic = "menu" /\ HorseScreen(w)
            \/ \E prop \in Props, value \in {0, 5} : topic = "menu" /\ WindowData(prop, value)
            \/ topic = "menu" /\ WindowCloseServer
  <2>1. MenuStep
    BY <1>14, Zenon DEF MenuStep
  <2>2. topic = "menu" /\ topic' = topic
    BY <2>1, MenuStepDoes DEF MenuStep
  <2>3. QED
    BY <2>2
<1>15. CASE \E t \in DeedTopics : \E d \in DeedsOf(t, version) : topic = t /\ Do(d)
  <2>1. PICK t \in DeedTopics : \E d \in DeedsOf(t, version) : topic = t /\ Do(d)
    BY <1>15
  <2>2. PICK d \in DeedsOf(t, version) : topic = t /\ Do(d)
    BY <2>1
  <2>3. Heard(Told(d, version), version, Due(t, d))
    BY <1>1, <2>2, DeedsHeard
  <2>4. Mirrored /\ topic' = topic
    BY <2>1, <2>2, <2>3, DeedMirrors
  <2>5. topic \notin {"tab", "bar", "title", "map", "book", "moves"}
    BY <2>2 DEF DeedTopics
  <2>6. QED
    BY <2>4, <2>5, ShapelessStays
<1>16. CASE \/ \E m \in [at : {1, 2}, look : {0, 9}, ground : BOOLEAN] : topic = "moves" /\ Move(m)
            \/ \E at \in {1, 3} : topic = "moves" /\ VehicleMove(at)
  <2>1. topic = "moves" /\ MoveShape(board)
    BY <1>16 DEF Formed
  <2>2. \A m \in [at : {1, 2}, look : {0, 9}, ground : BOOLEAN] : MoveShape(m)
    BY DEF MoveShape, MoveLabels
  <2>3. Mirrored /\ topic' = topic /\ MoveShape(board')
    <3>1. CASE \E m \in [at : {1, 2}, look : {0, 9}, ground : BOOLEAN] : topic = "moves" /\ Move(m)
      <4>1. PICK m \in [at : {1, 2}, look : {0, 9}, ground : BOOLEAN] : Move(m)
        BY <3>1
      <4>2. MoveShape(m)
        BY <2>2
      <4>3. Mirrored /\ topic' = topic /\ board' = m
        BY <2>1, <4>1, <4>2, MoveMirrors
      <4>4. QED
        BY <4>2, <4>3
    <3>2. CASE \E at \in {1, 3} : topic = "moves" /\ VehicleMove(at)
      BY <2>1, <3>2, VehicleMirrors
    <3>3. QED
      BY <1>16, <3>1, <3>2
  <2>4. Formed'
    BY <2>1, <2>3 DEF Formed
  <2>5. QED
    BY <2>3, <2>4
<1>17. CASE ClientCloses \/ WindowClosed
  <2>1. topic = "menu"
    BY <1>17 DEF ClientCloses, WindowClosed, Typed
  <2>2. topic' = topic
    BY <1>17 DEF ClientCloses, WindowClosed
  <2>3. QED
    BY <2>1, <2>2
<1>18. CASE Rejoin
  <2>1. topic' = topic
    BY <1>18, RejoinDoes
  <2>2. QED
    BY <1>18, <2>1, RejoinMirrors
<1>19. QED
  BY <1>2, <1>3, <1>4, <1>5, <1>6, <1>7, <1>8, <1>9, <1>10, <1>11, <1>12, <1>13, <1>14, <1>15,
     <1>16, <1>17, <1>18 DEF Next

\* At first nothing is owed,
LEMMA MirrorInit ==
    Init => M!Init /\ Formed /\ (topic # "menu" => Along)
<1>1. SUFFICES ASSUME Init PROVE M!Init /\ Formed /\ (topic # "menu" => Along)
  OBVIOUS
<1>2. net = << >> /\ board = Blank(topic) /\ screen = Blank(topic) /\ beside = {}
  BY <1>1 DEF Init
<1>3. Formed
  BY <1>2, BlankShaped
<1>4. CASE topic = "menu"
  <2>1. Showable(board) = None
    BY <1>4 DEF Showable
  <2>2. M!Init
    BY <1>4, <2>1 DEF M!Init
  <2>3. QED
    BY <1>3, <1>4, <2>2
<1>5. CASE topic # "menu"
  <2>1. Showable(board) = screen
    BY <1>2, <1>5, BlankShown
  <2>2. [i \in DOMAIN net |-> AfterFrames(i)] = << >>
    BY <1>2
  <2>3. M!Init
    BY <1>5, <2>1, <2>2 DEF M!Init
  <2>4. PICK g : g = [i \in 0 .. 0 |-> screen]
    OBVIOUS
  <2>5. Len(net) = 0 /\ g[0] = screen
    BY <1>2, <2>4
  <2>6. Path(g, topic, version, screen, net) /\ g[Len(net)] = Showable(board)
    BY <2>1, <2>5 DEF Path
  <2>7. Along
    BY <2>6 DEF Along
  <2>8. QED
    BY <1>3, <2>3, <2>7
<1>6. QED
  BY <1>4, <1>5

\* and each step is one of the mirror, or none.
LEMMA MirrorStep ==
    Typed /\ TreeHeld /\ Formed /\ (topic # "menu" => Along) /\ [Next]_vars
        => [M!Next]_(M!vars) /\ Formed' /\ (topic # "menu" => Along)'
<1>1. SUFFICES ASSUME Typed, TreeHeld, Formed, topic # "menu" => Along, [Next]_vars
               PROVE  [M!Next]_(M!vars) /\ Formed' /\ (topic # "menu" => Along)'
  OBVIOUS
<1>2. IsSeq(net)
  BY <1>1 DEF Typed
<1>3. CASE UNCHANGED vars
  <2>1. UNCHANGED <<topic, version, screen, net, beside>> /\ board' = board
    BY <1>3 DEF vars
  <2>2. Formed'
    BY <1>1, <2>1 DEF Formed
  <2>3. CASE topic = "menu"
    <3>1. UNCHANGED M!vars
      BY <2>1, <2>3, MirrorLeaves
    <3>2. QED
      BY <2>1, <2>2, <2>3, <3>1
  <2>4. CASE topic # "menu"
    <3>1. PICK e : e = Showable(board)
      OBVIOUS
    <3>2. Showable(board)' = e
      BY <2>1, <3>1 DEF Showable, MapDecorationFor
    <3>3. Mirrored
      BY <2>1, <3>1, <3>2 DEF Mirrored
    <3>4. QED
      BY <1>1, <1>2, <2>2, <2>4, <3>3, MirrorSays
  <2>5. QED
    BY <2>3, <2>4
<1>4. CASE Next
  <2>1. Deliver \/ (topic = "menu" /\ topic' = topic) \/ (Mirrored /\ Formed')
    BY <1>1, <1>4, EveryStepShows
  <2>2. CASE Deliver
    <3>1. topic' = topic /\ board' = board
      BY <2>2 DEF Deliver
    <3>2. Formed'
      BY <1>1, <3>1 DEF Formed
    <3>3. CASE topic = "menu"
      BY <3>1, <3>2, <3>3, MirrorLeaves
    <3>4. CASE topic # "menu"
      BY <1>1, <1>2, <2>2, <3>2, <3>4, MirrorShows
    <3>5. QED
      BY <3>3, <3>4
  <2>3. CASE topic = "menu" /\ topic' = topic
    <3>1. Formed'
      BY <2>3, ShapelessStays
    <3>2. QED
      BY <2>3, <3>1, MirrorLeaves
  <2>4. CASE Mirrored /\ Formed'
    <3>1. topic' = topic
      BY <2>4 DEF Mirrored
    <3>2. CASE topic = "menu"
      BY <2>4, <3>1, <3>2, MirrorLeaves
    <3>3. CASE topic # "menu"
      BY <1>1, <1>2, <2>4, <3>3, MirrorSays
    <3>4. QED
      BY <3>2, <3>3
  <2>5. QED
    BY <2>1, <2>2, <2>3, <2>4
<1>5. QED
  BY <1>1, <1>3, <1>4

-----------------------------------------------------------------------------
(* The theorems.                                                           *)

\* The session's values stay what its code takes them for: criteria are held
\* of the tree's advancements and are all of theirs, a window has a menu.
THEOREM ScreensTyped == Spec => []TypeOK
<1>1. Typed => TypeOK
  BY TypedTypes
<1>2. QED
  BY <1>1, TypedInit, TypedStep, PTL DEF Spec

\* An open window shows the world's data, whatever of it was still on its way
\* when either side closed or opened one.
THEOREM WindowsAgree == Spec => []WindowAgrees
<1>1. MenuHeld => WindowAgrees
  <2>1. SUFFICES ASSUME MenuHeld, topic = "menu", net = << >>, board # None, screen # None,
                        screen.id = board.id
                 PROVE  /\ screen.menu = board.menu
                        /\ \A p \in SlotsOf(screen.menu) : screen.data[p] = board.data[p]
    BY DEF WindowAgrees
  <2>2. PICK d : Trail(d, version, board, screen, net)
    BY <2>1 DEF MenuHeld
  <2>3. Len(net) = 0
    BY <2>1
  <2>4. Agrees(version, screen, board)
    BY <2>2, <2>3 DEF Trail
  <2>5. SlotsOf(screen.menu) = SlotsAt(version, screen.menu)
    BY DEF SlotsOf, SlotsAt
  <2>6. QED
    BY <2>1, <2>4, <2>5 DEF Agrees
<1>2. Init => MenuHeld
  BY MenuInit
<1>3. QED
  BY <1>1, <1>2, TypedInit, TypedStep, MenuHeldStep, PTL DEF Spec

\* A client reads to its end, and understands, every packet of every screen
\* that is composed for its version.
THEOREM ScreensReadable == Spec => []Readable
<1>1. Sound => Readable
  BY DEF Sound, Readable, LayoutsFit, NumbersFit, NoAirIngredient
<1>2. Init => MenuHeld /\ Sound
  BY MenuInit
<1>3. QED
  BY <1>1, <1>2, TypedInit, TypedStep, MenuHeldStep, SoundStep, PTL DEF Spec

\* The session can render progress for exactly the advancements it holds, and
\* holds exactly those the client shows, through joins, reloads and rejoins,
\* whether or not their trees are marked as whole ones.
THEOREM AdvancementsIndexed == Spec => []TreeIndexed
<1>1. Typed /\ TreeHeld => TreeIndexed
  <2>1. SUFFICES ASSUME Typed, TreeHeld PROVE TreeIndexed
    OBVIOUS
  <2>2. TypeOK
    BY <2>1, TypedTypes
  <2>3. QED
    BY <2>1, <2>2 DEF TreeHeld, Indexed, TreeIndexed
<1>2. Init => TreeHeld
  BY TreeInit
<1>3. Typed /\ TreeHeld /\ [Next]_vars => TreeHeld'
  BY TreeStep
<1>4. QED
  BY <1>1, <1>2, <1>3, TypedInit, TypedStep, PTL DEF Spec

\* The client shows, one after another and in order, the states the world has
\* given, none skipped and none of its own making, through joins and rejoins:
\* the session's packets add up to them for every version.  And the world hears
\* of every deed as it was done, but for a book beyond the limits, of which it
\* hears nothing.
THEOREM ScreensMirrored == Spec => M!Init /\ [][M!Next]_(M!vars)
<1>1. Init => M!Init /\ Formed /\ (topic # "menu" => Along)
  BY MirrorInit
<1>2. Typed /\ TreeHeld /\ Formed /\ (topic # "menu" => Along) /\ [Next]_vars
         => [M!Next]_(M!vars) /\ Formed' /\ (topic # "menu" => Along)'
  BY MirrorStep
<1>3. Typed /\ TreeHeld /\ [Next]_vars => TreeHeld'
  BY TreeStep
<1>4. QED
  BY <1>1, <1>2, <1>3, TypedInit, TypedStep, TreeInit, PTL DEF Spec
=============================================================================
