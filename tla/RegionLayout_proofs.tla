------------------------- MODULE RegionLayout_proofs -------------------------
(***************************************************************************)
(* Facts about the table of row pointers, for every height and number of   *)
(* batches; the proofs of its construction and of the detection cite them. *)
(***************************************************************************)
EXTENDS RegionLayout, TLAPS

-----------------------------------------------------------------------------
(* Arithmetic *)

\* Division is unique.
LEMMA Division ==
    ASSUME NEW w \in Nat \ {0}, NEW q \in Nat, NEW r \in 0 .. w - 1
    PROVE  (q * w + r) \div w = q /\ (q * w + r) % w = r
<1> DEFINE n == q * w + r
           d == n \div w
           m == n % w
<1>1. n \in Nat /\ d \in Nat /\ m \in 0 .. w - 1 /\ n = d * w + m
    BY SMTT(30)
<1>2. q * w \in Nat /\ d * w \in Nat
    BY <1>1
<1>3. ~(d >= q + 1)
    <2> SUFFICES ASSUME d >= q + 1 PROVE FALSE
        OBVIOUS
    <2>1. d * w >= (q + 1) * w
        BY <1>1, SMTT(30)
    <2>2. (q + 1) * w = q * w + w
        BY SMTT(30)
    <2> QED BY <2>1, <2>2, <1>1, <1>2
<1>4. ~(q >= d + 1)
    <2> SUFFICES ASSUME q >= d + 1 PROVE FALSE
        OBVIOUS
    <2>1. q * w >= (d + 1) * w
        BY <1>1, SMTT(30)
    <2>2. (d + 1) * w = d * w + w
        BY <1>1, SMTT(30)
    <2> QED BY <2>1, <2>2, <1>1, <1>2
<1>5. d = q
    BY <1>1, <1>3, <1>4
<1> HIDE DEF d, m
<1> QED BY <1>1, <1>2, <1>5 DEF d, m

\* The positions before a separator of a batch hold rows.
LEMMA Inside ==
    ASSUME NEW w \in Nat \ {0}, NEW q \in Nat, NEW k \in Nat,
           q * w <= k, k < (q + 1) * w - 1
    PROVE  (k + 1) % w # 0
<1>1. q * w \in Nat /\ (q + 1) * w = q * w + w
    BY SMTT(30)
<1>2. PICK r \in 0 .. w - 1 : k + 1 = q * w + r /\ r # 0
    <2>1. k + 1 - q * w \in 1 .. w - 1
        BY <1>1
    <2> QED BY <1>1, <2>1
<1> QED BY <1>2, Division

-----------------------------------------------------------------------------
(* The table *)

\* A table that can be built has a batch for each of batches, and they fit it.
LEMMA TableShape ==
    ASSUME NEW rows \in Nat, NEW batches \in Nat \ {0}, Buildable(rows, batches)
    PROVE  LET w == RowsPerBatch(rows, batches) + 1
               s == Separators(rows, batches)
           IN  /\ w \in Nat \ {0} /\ s \in Nat /\ Written(rows, batches) = rows + s + 1
               /\ s * w <= rows + s
               /\ rows > 0 => s >= batches
<1> DEFINE p == rows \div batches
           s == Separators(rows, batches)
<1>1. p \in Nat /\ batches * p <= rows
    BY SMTT(30)
<1>2. Written(rows, batches) = rows + s + 1
    BY DEF Written
<1>3. CASE rows = 0
    <2>1. s = 0
        BY <1>3 DEF Separators
    <2> QED BY <1>1, <1>2, <1>3, <2>1 DEF RowsPerBatch
<1>4. CASE rows > 0
    <2>1. p > 0 /\ s = rows \div p
        BY <1>1, <1>4 DEF Buildable, RowsPerBatch, Separators
    <2>2. s \in Nat /\ s * p <= rows /\ rows < (s + 1) * p
        BY <1>1, <2>1, SMTT(30)
    <2>3. s * (p + 1) = s * p + s
        BY <1>1, <2>2, SMTT(30)
    <2>4. s >= batches
        <3> SUFFICES ASSUME s + 1 <= batches PROVE FALSE
            BY <2>2
        <3>1. (s + 1) * p <= batches * p
            BY <1>1, <2>2, SMTT(30)
        <3>2. (s + 1) * p \in Nat /\ batches * p \in Nat
            BY <1>1, <2>2
        <3> QED BY <3>1, <3>2, <2>2, <1>1
    <2>5. s * p \in Nat
        BY <1>1, <2>2
    <2> QED BY <1>1, <1>2, <1>4, <2>2, <2>3, <2>4, <2>5 DEF RowsPerBatch
<1> QED BY <1>3, <1>4

\* A region tall enough has at most two separators more than batches.
LEMMA SeparatorsFit ==
    ASSUME NEW rows \in Nat, NEW batches \in Nat \ {0}, TallEnough(rows, batches)
    PROVE  Written(rows, batches) <= Allocated(rows, batches)
<1> DEFINE p == rows \div batches
           s == Separators(rows, batches)
<1>1. p \in Nat /\ rows < (p + 1) * batches
    BY SMTT(30)
<1>2. CASE rows = 0
    BY <1>2 DEF Written, Allocated, Separators
<1>3. CASE rows > 0
    <2>1. 3 * p >= batches /\ p > 0
        BY <1>1, <1>3 DEF TallEnough, RowsPerBatch
    <2>2. s \in Nat /\ s * p <= rows
        <3>1. s = rows \div p
            BY <1>3 DEF Separators, RowsPerBatch
        <3> QED BY <1>1, <2>1, <3>1, SMTT(30)
    <2>3. ~(s >= batches + 3)
        <3> SUFFICES ASSUME s >= batches + 3 PROVE FALSE
            OBVIOUS
        <3> HIDE DEF s, p
        <3>1. s * p >= (batches + 3) * p
            BY <1>1, <2>2, SMTT(30)
        <3>2. (batches + 3) * p = batches * p + 3 * p /\ (p + 1) * batches = batches * p + batches
            BY <1>1, SMTT(30)
        <3>3. batches * p \in Nat /\ s * p \in Nat
            BY <1>1, <2>2
        <3> QED BY <1>1, <2>1, <2>2, <3>1, <3>2, <3>3
    <2> QED BY <2>2, <2>3 DEF Written, Allocated
<1> QED BY <1>2, <1>3
=============================================================================
