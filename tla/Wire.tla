-------------------------------- MODULE Wire --------------------------------
(***************************************************************************)
(* Packets as the models of the play session have them: a name, what the   *)
(* packet is about, and labelled fields in wire order.  Kept and Once are  *)
(* written out, for the proofs to see into.                                *)
(***************************************************************************)
EXTENDS Integers, Sequences

F(label, value) == << <<label, value>> >>
If(cond, fields) == IF cond THEN fields ELSE << >>

Has(fields, l) == \E i \in DOMAIN fields : fields[i][1] = l
Of(fields, l) == fields[CHOOSE i \in DOMAIN fields : fields[i][1] = l][2]
Labels(fields) == [i \in DOMAIN fields |-> fields[i][1]]

\* A record, with those of its components that the fields carry.
Updated(rec, fields) ==
    [l \in DOMAIN rec |-> IF Has(fields, l) THEN Of(fields, l) ELSE rec[l]]

Packet(name, op, fields) == << [name |-> name, op |-> op, fields |-> fields] >>

\* The members of a sequence that are in S, in their order; and each of its
\* members where it comes first.
Kept(s, S) ==
    LET kept[i \in 0 .. Len(s)] ==
            IF i = 0 THEN << >>
            ELSE IF s[i] \in S THEN Append(kept[i - 1], s[i]) ELSE kept[i - 1]
    IN  kept[Len(s)]

Once(s) ==
    LET once[i \in 0 .. Len(s)] ==
            IF i = 0 THEN << >>
            ELSE IF \E j \in DOMAIN once[i - 1] : once[i - 1][j] = s[i] THEN once[i - 1]
            ELSE Append(once[i - 1], s[i])
    IN  once[Len(s)]

Bit(n, on) == IF on THEN n ELSE 0
On(flags, n) == (flags \div n) % 2 = 1
=============================================================================
