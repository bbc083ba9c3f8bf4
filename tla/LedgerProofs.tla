---------------------------- MODULE LedgerProofs ----------------------------
(***************************************************************************)
(* Proofs about Ledger. A file is read the same whatever rules were saved: *)
(* its lines give the same fingerprints, so a file committed before has    *)
(* all of them on the ledger. The amounts of a month are summed in any     *)
(* order, which is what the verdicts need. And a merchant's name is made   *)
(* of a statement's words, so that every label of a review that is one is  *)
(* masked.                                                                 *)
(*                                                                         *)
(* FoldLeft and MapThenSumSet are recursive functions the library chooses. *)
(* That such a function exists, and what it yields, is proved here by      *)
(* induction on the number of elements: the set of the numbers for which   *)
(* it holds has 0 and every successor (SetInduction).                      *)
(***************************************************************************)
EXTENDS Ledger, FiniteSetTheorems, SequenceTheorems, WellFoundedInduction, TLAPS

(* Induction over the natural numbers, for the elements of a set.             *)
LEMMA SetInduction ==
  ASSUME NEW T, 0 \in T, \A n \in Nat : n \in T => n + 1 \in T
  PROVE  Nat \subseteq T
<1> DEFINE R == {ss \in Nat \X Nat : ss[1] < ss[2]}
           M == Nat \ T
<1>1. IsWellFoundedOn(R, Nat)
  BY NatLessThanWellFounded DEF OpToRel
<1>2. SUFFICES ASSUME M # {} PROVE FALSE
  OBVIOUS
<1>3. PICK x \in M : \A y \in M : ~(<<y, x>> \in R)
  <2> HIDE DEF R
  <2> QED BY <1>1, <1>2, WFMin
<1>4. x # 0 /\ x - 1 \in Nat /\ x \in Nat
  BY <1>3
<1>5. <<x - 1, x>> \in R
  BY <1>4
<1>6. x - 1 \notin M
  BY <1>3, <1>5
<1> QED BY <1>3, <1>4, <1>6

(* A table keeps the first element of every key: transactions are registered  *)
(* by their fingerprint, candidates of a review by their label.               *)
Inserted(key, table, x) ==
  IF \E i \in DOMAIN table : table[i][key] = x[key] THEN table ELSE Append(table, x)

(* F is the function by which FoldLeft inserts n elements.                    *)
Folding(key, F, base, seq, n) ==
  F = [s \in SUBSET (1 .. n) |->
        IF s = {} THEN base ELSE Inserted(key, F[s \ {Max(s)}], seq[Max(s)])]

Folded(key, base, seq) ==
  (CHOOSE F : Folding(key, F, base, seq, Len(seq)))[1 .. Len(seq)]

LEMMA ImportFolds ==
  ASSUME NEW base, NEW seq, DOMAIN seq = 1 .. Len(seq)
  PROVE  ImportTransactions(base, seq) = Folded("fingerprint", base, seq)
  BY DEF Folded, ImportTransactions, FoldLeft, MapThenFoldSet, Folding, Inserted, InsertTransaction

LEMMA CandidatesFold ==
  ASSUME NEW base, NEW seq, DOMAIN seq = 1 .. Len(seq)
  PROVE  FoldLeft(AddCandidate, base, seq) = Folded("label", base, seq)
  BY DEF Folded, FoldLeft, MapThenFoldSet, Folding, Inserted, AddCandidate

LEMMA Greatest ==
  ASSUME NEW n \in Nat, NEW s \in SUBSET (1 .. n + 1), n + 1 \in s
  PROVE  Max(s) = n + 1
<1>1. \A y \in s : n + 1 >= y
  OBVIOUS
<1>2. \A x \in s : (\A y \in s : x >= y) => x = n + 1
  OBVIOUS
<1> QED  BY <1>1, <1>2, Zenon DEF Max

LEMMA FoldExists ==
  ASSUME NEW key, NEW base, NEW seq
  PROVE  \A n \in Nat : \E F : Folding(key, F, base, seq, n)
<1> DEFINE T == {n \in Nat : \E F : Folding(key, F, base, seq, n)}
<1>1. 0 \in T
  <2> DEFINE F == [s \in SUBSET (1 .. 0) |-> base]
  <2>1. \A s \in SUBSET (1 .. 0) : s = {}
    OBVIOUS
  <2>2. Folding(key, F, base, seq, 0)
    BY <2>1 DEF Folding
  <2> QED  BY <2>2
<1>2. ASSUME NEW n \in Nat, n \in T PROVE n + 1 \in T
  <2>1. PICK F : Folding(key, F, base, seq, n)
    BY <1>2
  <2> DEFINE G == [s \in SUBSET (1 .. n + 1) |->
                    IF n + 1 \in s THEN Inserted(key, F[s \ {n + 1}], seq[n + 1]) ELSE F[s]]
  <2>2. ASSUME NEW s \in SUBSET (1 .. n + 1)
        PROVE  G[s] = IF s = {} THEN base ELSE Inserted(key, G[s \ {Max(s)}], seq[Max(s)])
    <3>1. CASE n + 1 \in s
      <4>1. Max(s) = n + 1
        BY <3>1, Greatest
      <4>2. G[s \ {n + 1}] = F[s \ {n + 1}]
        OBVIOUS
      <4>3. G[s] = Inserted(key, F[s \ {n + 1}], seq[n + 1])
        BY <3>1
      <4> QED  BY <3>1, <4>1, <4>2, <4>3
    <3>2. CASE n + 1 \notin s
      <4>1. s \in SUBSET (1 .. n) /\ s \ {Max(s)} \in SUBSET (1 .. n + 1)
            /\ n + 1 \notin s \ {Max(s)}
        <5>1. \A x \in s : x \in 1 .. n
          BY <3>2
        <5> QED  BY <3>2, <5>1
      <4>2. F[s] = IF s = {} THEN base ELSE Inserted(key, F[s \ {Max(s)}], seq[Max(s)])
        BY <2>1, <4>1 DEF Folding
      <4>3. G[s] = F[s] /\ G[s \ {Max(s)}] = F[s \ {Max(s)}]
        BY <3>2, <4>1
      <4> QED  BY <4>2, <4>3
    <3> QED  BY <3>1, <3>2
  <2>3. Folding(key, G, base, seq, n + 1)
    <3> DEFINE H == [s \in SUBSET (1 .. n + 1) |->
                      IF s = {} THEN base ELSE Inserted(key, G[s \ {Max(s)}], seq[Max(s)])]
    <3>1. G = H
      <4>1. DOMAIN G = SUBSET (1 .. n + 1) /\ G = [s \in DOMAIN G |-> G[s]]
        OBVIOUS
      <4> HIDE DEF G
      <4> QED  BY <2>2, <4>1
    <3> HIDE DEF G
    <3> QED  BY <3>1 DEF Folding
  <2> QED  BY <2>3
<1>3. Nat \subseteq T
  <2> HIDE DEF T
  <2> QED  BY <1>1, <1>2, SetInduction
<1> QED  BY <1>3

(* The loop over seq as the sequence g of its tables.                         *)
OneByOne(key, g, base, seq) ==
  /\ g[0] = base
  /\ \A i \in 1 .. Len(seq) : g[i] = Inserted(key, g[i - 1], seq[i])
  /\ g[Len(seq)] = Folded(key, base, seq)

LEMMA FoldSteps ==
  ASSUME NEW key, NEW base, NEW S, NEW seq \in Seq(S)
  PROVE  \E g : OneByOne(key, g, base, seq)
<1>1. PICK n \in Nat : n = Len(seq) /\ DOMAIN seq = 1 .. n
  OBVIOUS
<1>2. PICK F : F = CHOOSE G : Folding(key, G, base, seq, n)
  OBVIOUS
<1>3. Folding(key, F, base, seq, n)
  BY <1>1, <1>2, FoldExists, Zenon
<1> DEFINE g == [i \in 0 .. n |-> F[1 .. i]]
<1>5. g[0] = base
  <2>1. {} \in SUBSET (1 .. n) /\ 1 .. 0 = {} /\ 0 \in 0 .. n
    OBVIOUS
  <2> QED  BY <1>3, <2>1 DEF Folding
<1>6. ASSUME NEW i \in 1 .. n PROVE g[i] = Inserted(key, g[i - 1], seq[i])
  <2>1. PICK k \in Nat : i = k + 1 /\ k \in 0 .. n /\ i \in 0 .. n
    <3>1. i - 1 \in Nat /\ i = (i - 1) + 1 /\ i - 1 \in 0 .. n /\ i \in 0 .. n
      OBVIOUS
    <3> QED  BY <3>1
  <2>2. Max(1 .. i) = i
    BY <2>1, Greatest
  <2>3. (1 .. i) \ {i} = 1 .. k /\ 1 .. i # {} /\ 1 .. i \in SUBSET (1 .. n) /\ i - 1 = k
    <3>1. \A x : x \in 1 .. i <=> x \in 1 .. k \/ x = i
      BY <2>1
    <3>2. i \notin 1 .. k /\ i - 1 = k
      BY <2>1
    <3>3. \A x \in 1 .. i : x \in 1 .. n
      BY <2>1
    <3> QED  BY <3>1, <3>2, <3>3
  <2>4. F[1 .. i] = Inserted(key, F[(1 .. i) \ {i}], seq[i])
    BY <1>3, <2>2, <2>3 DEF Folding
  <2> QED  BY <2>1, <2>3, <2>4
<1>7. F[1 .. n] = g[n]
  <2>1. n \in 0 .. n
    BY <1>1
  <2> QED  BY <2>1
<1>8. g[n] = Folded(key, base, seq)
  <2> HIDE DEF g
  <2> QED  BY <1>1, <1>2, <1>7 DEF Folded
<1>9. OneByOne(key, g, base, seq)
  <2> HIDE DEF g
  <2> QED  BY <1>1, <1>5, <1>6, <1>8 DEF OneByOne
<1> QED  BY <1>9

-----------------------------------------------------------------------------
(* Registering transactions.                                                  *)

KeysOf(txs) == {txs[i].fingerprint : i \in DOMAIN txs}

(* What the table is after the first m of txs are registered in base.         *)
Registering(table, base, txs, m) ==
  /\ Len(base) <= Len(table)
  /\ \A i \in 1 .. Len(base) : table[i] = base[i]
  /\ \A i \in 1 .. m : \E j \in 1 .. Len(table) : table[j].fingerprint = txs[i].fingerprint
  /\ (\A i \in 1 .. m : \E j \in 1 .. Len(base) : base[j].fingerprint = txs[i].fingerprint)
       => table = base

LEMMA RegisterOne ==
  ASSUME NEW X, NEW base \in Seq(X), NEW txs \in Seq(X), NEW m \in Nat, m + 1 <= Len(txs),
         NEW table \in Seq(X), Registering(table, base, txs, m)
  PROVE  /\ InsertTransaction(table, txs[m + 1]) \in Seq(X)
         /\ Registering(InsertTransaction(table, txs[m + 1]), base, txs, m + 1)
<1>1. PICK tx \in X : tx = txs[m + 1]
  BY DEF Registering
<1>2. \A i \in 1 .. m + 1 : i \in 1 .. m \/ i = m + 1
  OBVIOUS
<1>3. 1 .. m \subseteq 1 .. m + 1 /\ m + 1 \in 1 .. m + 1
  OBVIOUS
<1>4. CASE \E i \in DOMAIN table : table[i].fingerprint = tx.fingerprint
  <2>1. InsertTransaction(table, tx) = table
    BY <1>4 DEF InsertTransaction
  <2>2. \E j \in 1 .. Len(table) : table[j].fingerprint = txs[m + 1].fingerprint
    BY <1>1, <1>4
  <2> QED  BY <1>1, <1>2, <1>3, <2>1, <2>2 DEF Registering
<1>5. CASE ~ \E i \in DOMAIN table : table[i].fingerprint = tx.fingerprint
  <2> DEFINE after == Append(table, tx)
  <2>1. InsertTransaction(table, tx) = after
    BY <1>5 DEF InsertTransaction
  <2>2. /\ after \in Seq(X) /\ Len(after) = Len(table) + 1 /\ after[Len(table) + 1] = tx
        /\ \A i \in 1 .. Len(table) : after[i] = table[i]
    OBVIOUS
  <2>3. \A j \in 1 .. Len(base) : base[j].fingerprint # txs[m + 1].fingerprint
    <3>1. \A j \in 1 .. Len(base) : j \in DOMAIN table /\ base[j] = table[j]
      BY DEF Registering
    <3> QED  BY <1>1, <1>5, <3>1
  <2> HIDE DEF after
  <2>4. \A i \in 1 .. m + 1 : \E j \in 1 .. Len(after) : after[j].fingerprint = txs[i].fingerprint
    <3> SUFFICES ASSUME NEW i \in 1 .. m + 1
                 PROVE  \E j \in 1 .. Len(after) : after[j].fingerprint = txs[i].fingerprint
      OBVIOUS
    <3>1. CASE i \in 1 .. m
      <4>1. PICK j \in 1 .. Len(table) : table[j].fingerprint = txs[i].fingerprint
        BY <3>1 DEF Registering
      <4> QED  BY <2>2, <4>1
    <3>2. CASE i = m + 1
      BY <1>1, <2>2, <3>2
    <3> QED  BY <1>2, <3>1, <3>2
  <2>5. Len(base) <= Len(after) /\ \A i \in 1 .. Len(base) : after[i] = base[i]
    BY <2>2 DEF Registering
  <2> QED  BY <1>1, <1>3, <2>1, <2>2, <2>3, <2>4, <2>5 DEF Registering
<1> QED  BY <1>4, <1>5

(* An import keeps every row where it is, brings every line, and brings       *)
(* nothing when every line is there.                                         *)
LEMMA ImportRegisters ==
  ASSUME NEW X, NEW base \in Seq(X), NEW txs \in Seq(X)
  PROVE  /\ ImportTransactions(base, txs) \in Seq(X)
         /\ Registering(ImportTransactions(base, txs), base, txs, Len(txs))
<1>0. DOMAIN txs = 1 .. Len(txs)
  OBVIOUS
<1>1. PICK g : OneByOne("fingerprint", g, base, txs)
  BY FoldSteps, Zenon
<1>5. ImportTransactions(base, txs) = g[Len(txs)]
  BY <1>0, <1>1, ImportFolds DEF OneByOne
<1> DEFINE T == {n \in Nat : n <= Len(txs) =>
                    g[n] \in Seq(X) /\ Registering(g[n], base, txs, n)}
<1>2. 0 \in T
  BY <1>1 DEF Registering, OneByOne
<1>3. ASSUME NEW n \in Nat, n \in T PROVE n + 1 \in T
  <2> SUFFICES ASSUME n + 1 <= Len(txs)
               PROVE  g[n + 1] \in Seq(X) /\ Registering(g[n + 1], base, txs, n + 1)
    OBVIOUS
  <2>1. g[n] \in Seq(X) /\ Registering(g[n], base, txs, n)
    BY <1>3
  <2>2. g[n + 1] = InsertTransaction(g[n], txs[n + 1])
    <3>1. n + 1 \in 1 .. Len(txs) /\ (n + 1) - 1 = n
      OBVIOUS
    <3> QED  BY <1>1, <3>1 DEF OneByOne, Inserted, InsertTransaction
  <2> QED  BY <2>1, <2>2, RegisterOne
<1>4. Nat \subseteq T
  <2> HIDE DEF T
  <2> QED  BY <1>2, <1>3, SetInduction
<1> QED  BY <1>4, <1>5

LEMMA Imported ==
  ASSUME NEW X, NEW base \in Seq(X), NEW txs \in Seq(X)
  PROVE  LET after == ImportTransactions(base, txs) IN
         /\ after \in Seq(X) /\ DOMAIN base \subseteq DOMAIN after
         /\ \A i \in DOMAIN base : after[i] = base[i]
         /\ KeysOf(base) \cup KeysOf(txs) \subseteq KeysOf(after)
         /\ KeysOf(txs) \subseteq KeysOf(base) => after = base
<1> DEFINE after == ImportTransactions(base, txs)
<1>1. after \in Seq(X) /\ Registering(after, base, txs, Len(txs))
  BY ImportRegisters
<1> HIDE DEF after
<1>0. /\ DOMAIN base = 1 .. Len(base) /\ Len(base) \in Nat
      /\ DOMAIN after = 1 .. Len(after) /\ Len(after) \in Nat
      /\ DOMAIN txs = 1 .. Len(txs)
  BY <1>1
<1>2. DOMAIN base \subseteq DOMAIN after /\ \A i \in DOMAIN base : after[i] = base[i]
  <2>1. Len(base) <= Len(after) /\ \A i \in 1 .. Len(base) : after[i] = base[i]
    BY <1>1 DEF Registering
  <2> QED  BY <1>0, <2>1
<1>3. KeysOf(base) \subseteq KeysOf(after)
  BY <1>2 DEF KeysOf
<1>4. KeysOf(txs) \subseteq KeysOf(after)
  BY <1>1 DEF KeysOf, Registering
<1>5. KeysOf(txs) \subseteq KeysOf(base) => after = base
  <2> SUFFICES ASSUME KeysOf(txs) \subseteq KeysOf(base) PROVE after = base
    OBVIOUS
  <2>1. ASSUME NEW i \in 1 .. Len(txs)
        PROVE  \E j \in 1 .. Len(base) : base[j].fingerprint = txs[i].fingerprint
    <3>1. txs[i].fingerprint \in KeysOf(txs)
      BY <1>0 DEF KeysOf
    <3>2. txs[i].fingerprint \in KeysOf(base)
      BY <3>1
    <3> QED  BY <1>0, <3>2 DEF KeysOf
  <2> QED  BY <1>1, <2>1 DEF Registering
<1> QED  BY <1>1, <1>2, <1>3, <1>4, <1>5 DEF after

-----------------------------------------------------------------------------
(* Joining the rows of a file.                                                *)

(* F is the function by which FlattenSeq joins n sequences.                   *)
Flattening(F, seqs, n) ==
  F = [i \in 1 .. n |-> IF i = 1 THEN seqs[i] ELSE F[i - 1] \o seqs[i]]

LEMMA FlattenIs ==
  ASSUME NEW seqs, Len(seqs) # 0
  PROVE  FlattenSeq(seqs) = (CHOOSE F : Flattening(F, seqs, Len(seqs)))[Len(seqs)]
  BY DEF FlattenSeq, Flattening

LEMMA FlattenExists ==
  ASSUME NEW seqs
  PROVE  \A n \in Nat : \E F : Flattening(F, seqs, n)
<1> DEFINE T == {n \in Nat : \E F : Flattening(F, seqs, n)}
<1>1. 0 \in T
  <2>1. Flattening([i \in 1 .. 0 |-> <<>>], seqs, 0)
    BY DEF Flattening
  <2> QED  BY <2>1
<1>2. ASSUME NEW n \in Nat, n \in T PROVE n + 1 \in T
  <2>1. PICK F : Flattening(F, seqs, n)
    BY <1>2
  <2> DEFINE G == [i \in 1 .. n + 1 |->
                    IF i \in 1 .. n THEN F[i] ELSE IF i = 1 THEN seqs[i] ELSE F[n] \o seqs[i]]
             H == [i \in 1 .. n + 1 |-> IF i = 1 THEN seqs[i] ELSE G[i - 1] \o seqs[i]]
  <2>2. ASSUME NEW i \in 1 .. n + 1 PROVE G[i] = H[i]
    <3>1. CASE i \in 1 .. n
      <4>1. G[i] = F[i] /\ (i # 1 => i - 1 \in 1 .. n /\ G[i - 1] = F[i - 1])
        BY <3>1
      <4>2. F[i] = IF i = 1 THEN seqs[i] ELSE F[i - 1] \o seqs[i]
        BY <2>1, <3>1 DEF Flattening
      <4> QED  BY <4>1, <4>2
    <3>2. CASE i \notin 1 .. n
      <4>1. i = n + 1
        BY <3>2
      <4>2. i # 1 => n \in 1 .. n /\ G[n] = F[n] /\ i - 1 = n
        BY <4>1
      <4> QED  BY <3>2, <4>1, <4>2
    <3> QED  BY <3>1, <3>2
  <2>3. G = H
    <3>1. DOMAIN G = 1 .. n + 1 /\ DOMAIN H = 1 .. n + 1
      OBVIOUS
    <3>2. G = [i \in 1 .. n + 1 |-> G[i]] /\ H = [i \in 1 .. n + 1 |-> H[i]]
      OBVIOUS
    <3> HIDE DEF G, H
    <3> QED  BY <2>2, <3>2
  <2>4. Flattening(G, seqs, n + 1)
    <3> HIDE DEF G
    <3> QED  BY <2>3 DEF Flattening
  <2> QED  BY <2>4
<1>3. Nat \subseteq T
  <2> HIDE DEF T
  <2> QED  BY <1>1, <1>2, SetInduction
<1> QED  BY <1>3

(* FlattenSeq joins sequences of X into one that holds what they hold.        *)
LEMMA Flattened ==
  ASSUME NEW X, NEW seqs \in Seq(Seq(X))
  PROVE  /\ FlattenSeq(seqs) \in Seq(X)
         /\ Range(FlattenSeq(seqs)) = UNION {Range(seqs[i]) : i \in DOMAIN seqs}
<1>1. CASE Len(seqs) = 0
  <2>1. FlattenSeq(seqs) = seqs
    BY <1>1 DEF FlattenSeq
  <2>2. seqs = <<>> /\ seqs \in Seq(X) /\ DOMAIN seqs = {}
    BY <1>1
  <2> QED  BY <2>1, <2>2 DEF Range
<1>2. CASE Len(seqs) # 0
  <2>1. PICK n \in Nat : n = Len(seqs) /\ n # 0 /\ DOMAIN seqs = 1 .. n
    BY <1>2
  <2>2. PICK F : F = CHOOSE G : Flattening(G, seqs, n)
    OBVIOUS
  <2>3. Flattening(F, seqs, n)
    BY <2>2, FlattenExists, Zenon
  <2>4. FlattenSeq(seqs) = F[n]
    BY <1>2, <2>1, <2>2, FlattenIs
  <2> DEFINE Joined(i) == UNION {Range(seqs[k]) : k \in 1 .. i}
             T == {k \in Nat : k + 1 <= n =>
                     F[k + 1] \in Seq(X) /\ Range(F[k + 1]) = Joined(k + 1)}
  <2>5. 0 \in T
    <3>1. F[1] = seqs[1] /\ seqs[1] \in Seq(X)
      BY <2>1, <2>3 DEF Flattening
    <3>2. 1 .. 1 = {1}
      OBVIOUS
    <3>3. Joined(1) = Range(seqs[1])
      BY <3>2
    <3> QED  BY <3>1, <3>3
  <2>6. ASSUME NEW k \in Nat, k \in T PROVE k + 1 \in T
    <3> SUFFICES ASSUME (k + 1) + 1 <= n
                 PROVE  F[(k + 1) + 1] \in Seq(X) /\ Range(F[(k + 1) + 1]) = Joined((k + 1) + 1)
      OBVIOUS
    <3>1. PICK i \in Nat : i = k + 1
      OBVIOUS
    <3>2. F[i] \in Seq(X) /\ Range(F[i]) = Joined(i)
      BY <2>6, <3>1
    <3>3. i + 1 \in 1 .. n /\ i + 1 # 1 /\ (i + 1) - 1 = i /\ i \in 1 .. n
      BY <2>1, <3>1
    <3>4. F[i + 1] = F[i] \o seqs[i + 1]
      BY <2>3, <3>3 DEF Flattening
    <3>5. seqs[i + 1] \in Seq(X)
      BY <2>1, <3>3
    <3>6. F[i + 1] \in Seq(X) /\ Range(F[i + 1]) = Range(F[i]) \cup Range(seqs[i + 1])
      BY <3>2, <3>4, <3>5, RangeConcatenation
    <3>7. \A j : j \in 1 .. i + 1 <=> j \in 1 .. i \/ j = i + 1
      BY <3>1
    <3>8. Joined(i + 1) = Joined(i) \cup Range(seqs[i + 1])
      BY <3>7
    <3> QED  BY <3>1, <3>2, <3>6, <3>8
  <2>7. Nat \subseteq T
    <3> HIDE DEF T
    <3> QED  BY <2>5, <2>6, SetInduction
  <2>8. n - 1 \in T /\ (n - 1) + 1 = n /\ (n - 1) + 1 <= n
    <3> HIDE DEF T
    <3> QED  BY <2>1, <2>7
  <2> QED  BY <2>1, <2>4, <2>8
<1> QED  BY <1>1, <1>2

-----------------------------------------------------------------------------
(* Reading a file.                                                            *)

GoodCell(cell) ==
  /\ cell.kind = "date" => cell.day \in Nat /\ MonthOf(cell.day) \in Months
  /\ cell.kind = "number" => cell.value \in Int

GoodRecord(record) == \A cell \in Range(record) : GoodCell(cell)

GoodRules(merchantRules) ==
  \A m \in DOMAIN merchantRules : merchantRules[m] \in Choosable

LEMMA CellsAreGood ==
  ASSUME NEW record, GoodRecord(record), NEW index
  PROVE  GoodCell(ValueAt(record, index))
<1>1. CASE index \in DOMAIN record
  <2>1. record[index] \in Range(record)
    BY <1>1 DEF Range
  <2> QED  BY <1>1, <2>1 DEF GoodRecord, ValueAt
<1>2. CASE index \notin DOMAIN record
  BY <1>2 DEF ValueAt, GoodCell, Blank
<1> QED  BY <1>1, <1>2

(* At most one, of what a line can give.                                      *)
AtMostOne(S) == S = {} \/ \E x : S = {x}

LEMMA OneAmount ==
  ASSUME NEW cell, GoodCell(cell)
  PROVE  AtMostOne(ParseAmount(cell)) /\ ParseAmount(cell) \subseteq Int
<1>1. CASE cell.kind = "blank"
  BY <1>1 DEF ParseAmount, AtMostOne
<1>2. CASE cell.kind = "number"
  <2>1. PICK v : v = IF cell.paren /\ cell.value > 0 THEN -cell.value ELSE cell.value
    OBVIOUS
  <2>2. ParseAmount(cell) = {v}
    BY <1>2, <2>1 DEF ParseAmount
  <2>3. cell.value \in Int
    BY <1>2 DEF GoodCell
  <2>4. v \in Int
    BY <2>1, <2>3
  <2> QED  BY <2>2, <2>4 DEF AtMostOne
<1>3. CASE cell.kind # "blank" /\ cell.kind # "number"
  BY <1>3 DEF ParseAmount, AtMostOne
<1> QED  BY <1>1, <1>2, <1>3

LEMMA OneDate ==
  ASSUME NEW cell, GoodCell(cell)
  PROVE  /\ AtMostOne(ParseDate(cell))
         /\ \A d \in ParseDate(cell) : d \in Nat /\ MonthOf(d) \in Months
  BY DEF ParseDate, AtMostOne, GoodCell

(* What a line says of money: one type and one amount without a sign.         *)
LEMMA OneMoney ==
  ASSUME NEW record, GoodRecord(record), NEW at
  PROVE  /\ AtMostOne(Money(record, at))
         /\ \A m \in Money(record, at) : m.type \in {"expense", "income"} /\ m.amount \in Nat
<1> DEFINE amounts == ParseAmount(ValueAt(record, at.amount))
           debits == ParseAmount(ValueAt(record, at.debit))
           credits == ParseAmount(ValueAt(record, at.credit))
           Signed(v) == [type |-> IF v < 0 THEN "income" ELSE "expense", amount |-> Abs(v)]
           Either(d, c) == IF d # 0 THEN [type |-> "expense", amount |-> Abs(d)]
                                    ELSE [type |-> "income", amount |-> Abs(c)]
<1>1. /\ AtMostOne(amounts) /\ AtMostOne(debits) /\ AtMostOne(credits)
      /\ amounts \subseteq Int /\ debits \subseteq Int /\ credits \subseteq Int
  BY CellsAreGood, OneAmount
<1>2. \A v \in Int : Abs(v) \in Nat
  BY DEF Abs
<1>3. CASE at.amount # 0
  <2>1. Money(record, at) = {Signed(v) : v \in amounts}
    BY <1>3 DEF Money
  <2> HIDE DEF amounts
  <2>2. AtMostOne({Signed(v) : v \in amounts})
    <3> HIDE DEF Signed
    <3> QED  BY <1>1 DEF AtMostOne
  <2>3. \A m \in {Signed(v) : v \in amounts} :
          m.type \in {"expense", "income"} /\ m.amount \in Nat
    BY <1>1, <1>2
  <2> QED  BY <2>1, <2>2, <2>3
<1>4. CASE at.amount = 0
  <2>1. Money(record, at) = {Either(d, c) : d \in debits, c \in credits}
    BY <1>4 DEF Money
  <2> HIDE DEF debits, credits
  <2>2. AtMostOne({Either(d, c) : d \in debits, c \in credits})
    <3> HIDE DEF Either
    <3> QED  BY <1>1 DEF AtMostOne
  <2>3. \A m \in {Either(d, c) : d \in debits, c \in credits} :
          m.type \in {"expense", "income"} /\ m.amount \in Nat
    BY <1>1, <1>2
  <2> QED  BY <2>1, <2>2, <2>3
<1> QED  BY <1>3, <1>4

LEMMA MinIsOne ==
  ASSUME NEW S \in SUBSET Nat, S # {}
  PROVE  Min(S) \in S
<1> DEFINE R == {ss \in Nat \X Nat : ss[1] < ss[2]}
<1>1. IsWellFoundedOn(R, Nat)
  BY NatLessThanWellFounded DEF OpToRel
<1>2. PICK x \in S : \A y \in S : ~(<<y, x>> \in R)
  <2> HIDE DEF R
  <2> QED  BY <1>1, WFMin
<1>3. ASSUME NEW y \in S PROVE x <= y
  <2>1. x \in Nat /\ y \in Nat /\ ~(<<y, x>> \in R)
    BY <1>2
  <2> QED  BY <2>1
<1> QED  BY <1>2, <1>3, Zenon DEF Min

LEMMA CategoriesAreOurs ==
  ASSUME NEW merchant, NEW merchantRules, GoodRules(merchantRules)
  PROVE  Categorize(merchant, merchantRules) \in Categories
<1> DEFINE normalized == NormalizeMerchant(merchant)
           matching == {i \in DOMAIN KeywordRules :
                          \E w \in KeywordRules[i].keywords : Contains(normalized, w)}
<1>1. normalized \in DOMAIN merchantRules => merchantRules[normalized] \in Categories
  BY LedgerAssumption DEF GoodRules
<1>2. matching # {} => KeywordRules[Min(matching)].category \in Categories
  <2>1. matching \in SUBSET Nat /\ matching \subseteq DOMAIN KeywordRules
    BY LedgerAssumption
  <2>2. \A i \in DOMAIN KeywordRules : KeywordRules[i].category \in Categories
    <3>1. PICK K : /\ KeywordRules \in Seq(K)
                   /\ K = [keywords : {rule.keywords : rule \in Range(KeywordRules)},
                           category : Categories]
      BY LedgerAssumption
    <3>2. \A rule \in K : rule.category \in Categories
      BY <3>1
    <3>3. \A i \in DOMAIN KeywordRules : KeywordRules[i] \in K
      <4>1. KeywordRules \in Seq(K)
        BY <3>1
      <4> QED  BY <4>1
    <3> QED  BY <3>2, <3>3
  <2> HIDE DEF matching
  <2> QED  BY <2>1, <2>2, MinIsOne
<1>3. Categorize(merchant, merchantRules) =
        IF normalized \in DOMAIN merchantRules THEN merchantRules[normalized]
        ELSE IF matching # {} THEN KeywordRules[Min(matching)].category
        ELSE Unclassified
  BY DEF Categorize
<1> HIDE DEF normalized, matching
<1> QED  BY <1>1, <1>2, <1>3, LedgerAssumption

(* The keys of a line, which no rule enters.                                  *)
LineKeys(record, at, source) ==
  LET words == Words(ValueAt(record, at.description))
  IN IF words = <<>> THEN {}
     ELSE {<<date, money.amount, NormalizeMerchant(words),
             IF source = "" THEN "csv" ELSE Lower[source]>> :
             date \in ParseDate(ValueAt(record, at.date)),
             money \in {m \in Money(record, at) : m.amount # 0}}

(* A line gives at most one transaction, well formed, whose key depends on    *)
(* the line alone.                                                           *)
LEMMA LineRead ==
  ASSUME NEW record, GoodRecord(record), NEW at, NEW source,
         NEW merchantRules, GoodRules(merchantRules)
  PROVE  LET read == NormalizeRecord(record, at, merchantRules, source) IN
         /\ AtMostOne(read)
         /\ \A tx \in read : TransactionType(tx)
         /\ {tx.fingerprint : tx \in read} = LineKeys(record, at, source)
         /\ \A tx \in read :
              tx.merchant = NormalizeMerchant(Words(ValueAt(record, at.description)))
<1> DEFINE words == Words(ValueAt(record, at.description))
           merchant == NormalizeMerchant(words)
           account == IF source = "" THEN "csv" ELSE Lower[source]
           category == Categorize(merchant, merchantRules)
           dates == ParseDate(ValueAt(record, at.date))
           moneys == {m \in Money(record, at) : m.amount # 0}
           Tx(date, money) ==
             [date |-> date, merchant |-> merchant, type |-> money.type,
              amount |-> money.amount, category |-> category, source |-> account,
              fingerprint |-> <<date, money.amount, merchant, account>>]
           read == NormalizeRecord(record, at, merchantRules, source)
<1> DEFINE Raw(date, money) ==
             [date |-> date, merchant |-> merchant, type |-> money.type,
              amount |-> money.amount, category |-> category, source |-> account,
              fingerprint |-> <<>>]
           Keyed(date, money) ==
             [Raw(date, money) EXCEPT !.fingerprint = Fingerprint(Raw(date, money))]
<1>0. \A d, m : Keyed(d, m) = Tx(d, m)
  <2> HIDE DEF merchant, category, account
  <2> QED  BY DEF Fingerprint
<1>1. read = IF words = <<>> THEN {} ELSE {Tx(d, m) : d \in dates, m \in moneys}
  <2>1. read = IF words = <<>> THEN {} ELSE {Keyed(d, m) : d \in dates, m \in moneys}
    BY DEF NormalizeRecord
  <2> HIDE DEF read, Keyed, Tx, dates, moneys, words
  <2>2. {Keyed(d, m) : d \in dates, m \in moneys} = {Tx(d, m) : d \in dates, m \in moneys}
    BY <1>0
  <2>3. CASE words = <<>>
    BY <2>1, <2>3
  <2>4. CASE words # <<>>
    <3>1. read = {Keyed(d, m) : d \in dates, m \in moneys}
      BY <2>1, <2>4
    <3> QED  BY <2>2, <2>4, <3>1
  <2> QED  BY <2>3, <2>4
<1>2. LineKeys(record, at, source) =
        IF words = <<>> THEN {} ELSE {<<d, m.amount, merchant, account>> : d \in dates, m \in moneys}
  BY DEF LineKeys
<1>3. AtMostOne(dates) /\ \A d \in dates : d \in Nat /\ MonthOf(d) \in Months
  BY CellsAreGood, OneDate
<1>4. /\ AtMostOne(moneys)
      /\ \A m \in moneys : m.type \in {"expense", "income"} /\ m.amount \in Nat \ {0}
  <2>1. /\ AtMostOne(Money(record, at))
        /\ \A m \in Money(record, at) : m.type \in {"expense", "income"} /\ m.amount \in Nat
    BY OneMoney
  <2> QED  BY <2>1 DEF AtMostOne
<1>5. category \in Categories
  BY CategoriesAreOurs
<1> HIDE DEF words, merchant, account, category, dates, moneys, read
<1>6. \A d \in dates, m \in moneys : TransactionType(Tx(d, m))
  BY <1>3, <1>4, <1>5 DEF TransactionType
<1>7. \A d, m : Tx(d, m).fingerprint = <<d, m.amount, merchant, account>>
  OBVIOUS
<1>8. \A d, m : Tx(d, m).merchant = merchant
  OBVIOUS
<1> HIDE DEF Tx
<1>9. AtMostOne(read)
  BY <1>1, <1>3, <1>4 DEF AtMostOne
<1>10. \A tx \in read : TransactionType(tx)
  BY <1>1, <1>6
<1>11. {tx.fingerprint : tx \in read} = LineKeys(record, at, source)
  <2>1. CASE words = <<>>
    BY <1>1, <1>2, <2>1
  <2>2. CASE words # <<>>
    <3>1. \A d \in dates, m \in moneys : Tx(d, m) \in read
      BY <1>1, <2>2
    <3>2. \A tx \in read : \E d \in dates, m \in moneys : tx = Tx(d, m)
      BY <1>1, <2>2
    <3>3. \A k : k \in LineKeys(record, at, source)
                  <=> \E d \in dates, m \in moneys : k = <<d, m.amount, merchant, account>>
      BY <1>2, <2>2
    <3> QED  BY <1>7, <3>1, <3>2, <3>3
  <2> QED  BY <2>1, <2>2
<1>12. \A tx \in read : tx.merchant = merchant
  BY <1>1, <1>8
<1> QED  BY <1>9, <1>10, <1>11, <1>12 DEF read, merchant, words

LEMMA OneRow ==
  ASSUME NEW S, AtMostOne(S)
  PROVE  SetToSeq(S) \in Seq(S) /\ Range(SetToSeq(S)) = S
<1>1. CASE S = {}
  <2>1. Cardinality(S) = 0
    BY <1>1, FS_EmptySet
  <2>2. <<>> \in [1 .. 0 -> S] /\ IsInjective(<<>>)
    BY DEF IsInjective
  <2>3. SetToSeq(S) \in [1 .. 0 -> S]
    BY <2>1, <2>2 DEF SetToSeq
  <2>4. SetToSeq(S) = <<>>
    BY <2>3
  <2>5. <<>> \in Seq(S) /\ Range(<<>>) = {}
    BY DEF Range
  <2> QED  BY <1>1, <2>4, <2>5
<1>2. ASSUME NEW x, S = {x} PROVE SetToSeq(S) \in Seq(S) /\ Range(SetToSeq(S)) = S
  <2>1. Cardinality(S) = 1
    BY <1>2, FS_Singleton
  <2>2. [i \in 1 .. 1 |-> x] \in [1 .. 1 -> S] /\ IsInjective([i \in 1 .. 1 |-> x])
    BY <1>2 DEF IsInjective
  <2>3. SetToSeq(S) \in [1 .. 1 -> S]
    BY <2>1, <2>2 DEF SetToSeq
  <2>4. PICK s \in [1 .. 1 -> S] : s = SetToSeq(S)
    BY <2>3
  <2>5. s \in Seq(S)
    BY SeqDef
  <2>6. DOMAIN s = {1} /\ s[1] = x
    <3>1. 1 .. 1 = {1}
      OBVIOUS
    <3> QED  BY <1>2, <3>1
  <2> QED  BY <1>2, <2>4, <2>5, <2>6 DEF Range
<1> QED  BY <1>1, <1>2 DEF AtMostOne

(* How Parse reads the file f with the columns m.                             *)
ColumnsOf(f, m) ==
  IF \A role \in Roles \ {"credit"} : m[role] = NoColumn THEN DetectColumns(f.headers) ELSE m
PlacesOf(f, m) == MappingIndexes(f.headers, ColumnsOf(f, m))
Unread(f, m) ==
  \/ NeedsMapping(ColumnsOf(f, m))
  \/ PlacesOf(f, m).date = 0 \/ PlacesOf(f, m).description = 0
  \/ PlacesOf(f, m).amount = 0 /\ PlacesOf(f, m).debit = 0 /\ PlacesOf(f, m).credit = 0

LinesRead(f, m, merchantRules) ==
  [i \in DOMAIN f.records |->
     NormalizeRecord(f.records[i], PlacesOf(f, m), merchantRules, f.source)]

(* The keys of a file, which no rule enters.                                  *)
FileKeys(f, m) ==
  IF Unread(f, m) THEN {}
  ELSE UNION {LineKeys(f.records[i], PlacesOf(f, m), f.source) : i \in DOMAIN f.records}

LEMMA ParseReads ==
  ASSUME NEW f, NEW m, NEW merchantRules
  PROVE  Parse(f, m, merchantRules).transactions =
           IF Unread(f, m) THEN <<>>
           ELSE FlattenSeq([i \in DOMAIN f.records |->
                              SetToSeq(LinesRead(f, m, merchantRules)[i])])
<1>1. Parse(f, m, merchantRules).transactions =
        IF Unread(f, m) THEN <<>>
        ELSE FlattenSeq([i \in DOMAIN f.records |->
               SetToSeq(NormalizeRecord(f.records[i], PlacesOf(f, m), merchantRules, f.source))])
  BY DEF Parse, Unread, PlacesOf, ColumnsOf
<1>2. [i \in DOMAIN f.records |->
         SetToSeq(NormalizeRecord(f.records[i], PlacesOf(f, m), merchantRules, f.source))]
      = [i \in DOMAIN f.records |-> SetToSeq(LinesRead(f, m, merchantRules)[i])]
  BY DEF LinesRead
<1> QED  BY <1>1, <1>2, Zenon

(* What is read of a file is well formed, and its keys are the file's,        *)
(* whichever rules were saved.                                               *)
LEMMA FileRead ==
  ASSUME NEW f \in Files, NEW m, NEW merchantRules, GoodRules(merchantRules)
  PROVE  LET txs == Parse(f, m, merchantRules).transactions IN
         /\ txs \in Seq(Range(txs))
         /\ \A i \in DOMAIN txs : TransactionType(txs[i])
         /\ KeysOf(txs) = FileKeys(f, m)
         /\ \A i \in DOMAIN txs : \E k \in DOMAIN f.records :
              txs[i] \in LinesRead(f, m, merchantRules)[k]
<1> DEFINE txs == Parse(f, m, merchantRules).transactions
           lines == LinesRead(f, m, merchantRules)
           X == UNION {lines[i] : i \in DOMAIN f.records}
           joined == [i \in DOMAIN f.records |-> SetToSeq(lines[i])]
<1>0. KeysOf(txs) = {tx.fingerprint : tx \in Range(txs)}
  <2> HIDE DEF txs
  <2> QED  BY DEF KeysOf, Range
<1>1. CASE Unread(f, m)
  <2>1. txs = <<>>
    BY <1>1, ParseReads
  <2> HIDE DEF txs
  <2>2. txs \in Seq(Range(txs)) /\ DOMAIN txs = {} /\ Range(txs) = {}
    BY <2>1 DEF Range
  <2>3. KeysOf(txs) = FileKeys(f, m)
    BY <1>1, <2>2 DEF KeysOf, FileKeys
  <2> QED  BY <2>2, <2>3 DEF txs
<1>2. CASE ~Unread(f, m)
  <2>1. txs = FlattenSeq(joined)
    BY <1>2, ParseReads
  <2>2. ASSUME NEW i \in DOMAIN f.records
        PROVE  /\ AtMostOne(lines[i])
               /\ \A tx \in lines[i] : TransactionType(tx)
               /\ {tx.fingerprint : tx \in lines[i]}
                    = LineKeys(f.records[i], PlacesOf(f, m), f.source)
    <3>1. GoodRecord(f.records[i])
      <4>1. f.records[i] \in Range(f.records)
        BY DEF Range
      <4> QED  BY <4>1, FilesAssumption DEF GoodRecord, GoodCell
    <3>2. lines[i] = NormalizeRecord(f.records[i], PlacesOf(f, m), merchantRules, f.source)
      BY DEF LinesRead
    <3> HIDE DEF lines
    <3> QED  BY <3>1, <3>2, LineRead
  <2> HIDE DEF lines, txs
  <2>3. \A i \in DOMAIN f.records : SetToSeq(lines[i]) \in Seq(X) /\ Range(SetToSeq(lines[i])) = lines[i]
    <3> SUFFICES ASSUME NEW i \in DOMAIN f.records
                 PROVE  SetToSeq(lines[i]) \in Seq(X) /\ Range(SetToSeq(lines[i])) = lines[i]
      OBVIOUS
    <3>1. SetToSeq(lines[i]) \in Seq(lines[i]) /\ Range(SetToSeq(lines[i])) = lines[i]
      BY <2>2, OneRow
    <3>2. lines[i] \subseteq X
      OBVIOUS
    <3> HIDE DEF X
    <3> QED  BY <3>1, <3>2, SeqMonotonic
  <2>4. joined \in Seq(Seq(X))
    <3>1. PICK n \in Nat : DOMAIN f.records = 1 .. n
      BY FilesAssumption
    <3> HIDE DEF X
    <3> QED  BY <2>3, <3>1
  <2>5. /\ FlattenSeq(joined) \in Seq(X)
        /\ Range(FlattenSeq(joined)) = UNION {Range(joined[i]) : i \in DOMAIN joined}
    <3> HIDE DEF X, joined
    <3> QED  BY <2>4, Flattened
  <2>6. txs \in Seq(X) /\ Range(txs) = X
    <3>1. DOMAIN joined = DOMAIN f.records /\ \A i \in DOMAIN f.records : Range(joined[i]) = lines[i]
      BY <2>3
    <3>2. UNION {Range(joined[i]) : i \in DOMAIN joined} = X
      <4> HIDE DEF joined
      <4> QED  BY <3>1
    <3> HIDE DEF X, joined
    <3> QED  BY <2>1, <2>5, <3>2
  <2>7. \A tx \in X : TransactionType(tx)
    BY <2>2
  <2>8. {tx.fingerprint : tx \in X} = FileKeys(f, m)
    <3>1. FileKeys(f, m) = UNION {{tx.fingerprint : tx \in lines[i]} : i \in DOMAIN f.records}
      BY <1>2, <2>2 DEF FileKeys
    <3> QED  BY <3>1
  <2> HIDE DEF X
  <2>9. \A i \in DOMAIN txs : txs[i] \in X
    BY <2>6 DEF Range
  <2>10. txs \in Seq(Range(txs))
    BY <2>6
  <2>11. KeysOf(txs) = FileKeys(f, m)
    BY <1>0, <2>6, <2>8
  <2>12. \A tx \in X : \E k \in DOMAIN f.records : tx \in lines[k]
    BY DEF X
  <2> QED  BY <2>7, <2>9, <2>10, <2>11, <2>12 DEF txs, lines
<1> QED  BY <1>1, <1>2

-----------------------------------------------------------------------------
(* Sums. F is the function by which MapThenSumSet adds up the amounts of the  *)
(* transactions at the positions of S.                                       *)
Summed(F, txs, s) ==
  IF s = {} THEN 0
  ELSE txs[CHOOSE x \in s : TRUE].amount + F[s \ {CHOOSE x \in s : TRUE}]

Summing(F, txs, S) == F = [s \in SUBSET S |-> Summed(F, txs, s)]

SumOf(txs, S) == (CHOOSE F : Summing(F, txs, S))[S]

LEMMA SumIs ==
  ASSUME NEW txs, NEW S
  PROVE  MapThenSumSet(LAMBDA i : txs[i].amount, S) = SumOf(txs, S)
  BY DEF MapThenSumSet, MapThenFoldSet, SumOf, Summing, Summed

(* One element less is one less to count.                                    *)
LEMMA OneLess ==
  ASSUME NEW s, IsFiniteSet(s), NEW x \in s, NEW n \in Nat, Cardinality(s) = n + 1
  PROVE  IsFiniteSet(s \ {x}) /\ Cardinality(s \ {x}) = n
<1>1. IsFiniteSet(s \ {x}) /\ Cardinality(s \ {x}) = Cardinality(s) - 1
  BY FS_RemoveElement
<1> QED  BY <1>1

LEMMA SumExists ==
  ASSUME NEW txs, NEW S, IsFiniteSet(S)
  PROVE  \E F : Summing(F, txs, S)
<1> DEFINE T == {n \in Nat : \E F : /\ DOMAIN F = SUBSET S
                                    /\ \A s \in SUBSET S :
                                         Cardinality(s) <= n => F[s] = Summed(F, txs, s)}
<1>0. \A s \in SUBSET S : /\ IsFiniteSet(s) /\ Cardinality(s) \in Nat
                          /\ (Cardinality(s) = 0 <=> s = {})
                          /\ Cardinality(s) <= Cardinality(S)
  BY FS_Subset, FS_CardinalityType, FS_EmptySet
<1>1. 0 \in T
  <2> DEFINE F == [s \in SUBSET S |-> 0]
  <2>1. \A s \in SUBSET S : Cardinality(s) <= 0 => s = {}
    BY <1>0
  <2>2. \A s \in SUBSET S : Cardinality(s) <= 0 => F[s] = Summed(F, txs, s)
    BY <2>1 DEF Summed
  <2> QED  BY <2>2
<1>2. ASSUME NEW n \in Nat, n \in T PROVE n + 1 \in T
  <2>1. PICK F : /\ DOMAIN F = SUBSET S
                 /\ \A s \in SUBSET S : Cardinality(s) <= n => F[s] = Summed(F, txs, s)
    BY <1>2
  <2> DEFINE G == [s \in SUBSET S |-> IF Cardinality(s) = n + 1 THEN Summed(F, txs, s) ELSE F[s]]
  <2>2. ASSUME NEW s \in SUBSET S, Cardinality(s) <= n + 1
        PROVE  G[s] = Summed(G, txs, s)
    <3>1. CASE s = {}
      <4>1. Cardinality(s) = 0
        BY <3>1, <1>0
      <4>2. G[s] = Summed(F, txs, s)
        BY <2>1, <4>1
      <4> QED  BY <3>1, <4>2 DEF Summed
    <3>2. CASE s # {}
      <4>1. PICK x \in s : x = CHOOSE y \in s : TRUE
        BY <3>2
      <4>2. PICK k \in Nat : Cardinality(s) = k + 1 /\ k <= n
        <5>1. Cardinality(s) \in Nat /\ Cardinality(s) # 0
          BY <1>0, <3>2
        <5> QED  BY <2>2, <5>1
      <4>3. Cardinality(s \ {x}) = k /\ s \ {x} \in SUBSET S
        BY <1>0, <4>2, OneLess
      <4>4. G[s \ {x}] = F[s \ {x}]
        BY <4>2, <4>3
      <4>5. G[s] = Summed(F, txs, s)
        <5>1. CASE Cardinality(s) = n + 1
          BY <5>1
        <5>2. CASE Cardinality(s) # n + 1
          BY <2>1, <4>2, <5>2
        <5> QED  BY <5>1, <5>2
      <4> HIDE DEF G
      <4> QED  BY <3>2, <4>1, <4>4, <4>5 DEF Summed
    <3> QED  BY <3>1, <3>2
  <2>3. DOMAIN G = SUBSET S
    OBVIOUS
  <2> HIDE DEF G
  <2> QED  BY <2>2, <2>3
<1>3. Nat \subseteq T
  <2> HIDE DEF T
  <2> QED  BY <1>1, <1>2, SetInduction
<1>4. Cardinality(S) \in Nat
  BY FS_CardinalityType
<1>5. PICK F : /\ DOMAIN F = SUBSET S
               /\ \A s \in SUBSET S : Cardinality(s) <= Cardinality(S) => F[s] = Summed(F, txs, s)
  <2>1. Cardinality(S) \in T
    BY <1>3, <1>4
  <2> QED  BY <2>1
<1> DEFINE G == [s \in SUBSET S |-> Summed(F, txs, s)]
<1>6. \A s \in SUBSET S : F[s] = Summed(F, txs, s)
  BY <1>0, <1>5
<1>7. \A s \in SUBSET S : s \ {CHOOSE x \in s : TRUE} \in SUBSET S
  OBVIOUS
<1>8. G = [s \in SUBSET S |-> Summed(G, txs, s)]
  <2>1. \A s \in SUBSET S : G[s] = F[s]
    BY <1>6
  <2>2. \A s \in SUBSET S : Summed(G, txs, s) = Summed(F, txs, s)
    <3> HIDE DEF G
    <3> QED  BY <1>7, <2>1 DEF Summed
  <2> QED  BY <2>2
<1> QED  BY <1>8 DEF Summing

(* The sum does not depend on the order of its elements.                     *)
Addable(txs, S) == IsFiniteSet(S) /\ \A i \in S : txs[i].amount \in Int
Adding(F, txs, S) ==
  /\ F[{}] = 0
  /\ \A s \in SUBSET S : /\ F[s] \in Int
                         /\ \A x \in s : F[s] = txs[x].amount + F[s \ {x}]

LEMMA SumStep ==
  ASSUME NEW txs, NEW S, Addable(txs, S), NEW F, Summing(F, txs, S)
  PROVE  Adding(F, txs, S)
<1> DEFINE Good(s) == F[s] \in Int /\ \A x \in s : F[s] = txs[x].amount + F[s \ {x}]
           T == {n \in Nat : \A s \in SUBSET S : Cardinality(s) <= n => Good(s)}
<1>0. \A s \in SUBSET S : /\ IsFiniteSet(s) /\ Cardinality(s) \in Nat
                          /\ (Cardinality(s) = 0 <=> s = {})
  BY FS_Subset, FS_CardinalityType, FS_EmptySet DEF Addable
<1>1. \A s \in SUBSET S : F[s] = Summed(F, txs, s)
  BY DEF Summing
<1>2. F[{}] = 0
  BY <1>1 DEF Summed
<1>3. 0 \in T
  <2>1. \A s \in SUBSET S : Cardinality(s) <= 0 => s = {}
    BY <1>0
  <2>2. Good({})
    BY <1>2
  <2> HIDE DEF Good
  <2> QED  BY <2>1, <2>2
<1>4. ASSUME NEW n \in Nat, n \in T PROVE n + 1 \in T
  <2>1. \A s \in SUBSET S : Cardinality(s) <= n => Good(s)
    BY <1>4
  <2>2. ASSUME NEW s \in SUBSET S, Cardinality(s) = n + 1 PROVE Good(s)
    <3>1. \A x \in s : /\ s \ {x} \in SUBSET S /\ Cardinality(s \ {x}) = n
                       /\ IsFiniteSet(s \ {x}) /\ txs[x].amount \in Int
      BY <1>0, <2>2, OneLess DEF Addable
    <3>2. \A x \in s : Good(s \ {x})
      <4> SUFFICES ASSUME NEW x \in s PROVE Good(s \ {x})
        OBVIOUS
      <4>1. s \ {x} \in SUBSET S /\ Cardinality(s \ {x}) <= n
        BY <3>1
      <4> HIDE DEF Good
      <4> QED  BY <2>1, <4>1
    <3>3. s # {}
      BY <1>0, <2>2
    <3>4. PICK c \in s : c = CHOOSE y \in s : TRUE
      BY <3>3
    <3>5. F[s] = txs[c].amount + F[s \ {c}]
      BY <1>1, <3>3, <3>4 DEF Summed
    <3>6. F[s \ {c}] \in Int /\ txs[c].amount \in Int
      BY <3>1, <3>2
    <3>7. ASSUME NEW x \in s PROVE F[s] = txs[x].amount + F[s \ {x}]
      <4>1. CASE x = c
        BY <3>5, <4>1
      <4>2. CASE x # c
        <5>1. x \in s \ {c} /\ c \in s \ {x} /\ (s \ {c}) \ {x} = (s \ {x}) \ {c}
          BY <4>2
        <5>2. F[s \ {c}] = txs[x].amount + F[(s \ {c}) \ {x}]
          BY <3>2, <5>1
        <5>3. F[s \ {x}] = txs[c].amount + F[(s \ {c}) \ {x}]
          BY <3>2, <5>1
        <5>4. F[(s \ {c}) \ {x}] \in Int
          <6>1. (s \ {c}) \ {x} \in SUBSET S /\ Cardinality((s \ {c}) \ {x}) <= n
            <7>1. /\ IsFiniteSet((s \ {c}) \ {x})
                  /\ Cardinality((s \ {c}) \ {x}) = Cardinality(s \ {c}) - 1
              BY <3>1, <5>1, FS_RemoveElement
            <7> QED  BY <3>1, <7>1
          <6> QED  BY <2>1, <6>1
        <5>5. txs[x].amount \in Int
          BY <3>1
        <5>6. \A a, b, r \in Int : a + (b + r) = b + (a + r)
          OBVIOUS
        <5> QED  BY <3>5, <3>6, <5>2, <5>3, <5>4, <5>5, <5>6
      <4> QED  BY <4>1, <4>2
    <3>8. F[s] \in Int
      BY <3>5, <3>6
    <3> QED  BY <3>7, <3>8
  <2>3. ASSUME NEW s \in SUBSET S, Cardinality(s) <= n + 1 PROVE Good(s)
    <3> HIDE DEF Good
    <3>1. Cardinality(s) <= n \/ Cardinality(s) = n + 1
      BY <1>0, <2>3
    <3> QED  BY <2>1, <2>2, <3>1
  <2> HIDE DEF Good
  <2> QED  BY <2>3
<1>5. Nat \subseteq T
  <2> HIDE DEF T
  <2> QED  BY <1>3, <1>4, SetInduction
<1>6. ASSUME NEW s \in SUBSET S PROVE Good(s)
  <2>1. Cardinality(s) \in T /\ Cardinality(s) <= Cardinality(s)
    BY <1>0, <1>5
  <2> HIDE DEF Good
  <2> QED  BY <2>1
<1> QED  BY <1>2, <1>6 DEF Adding

(* Two tables with the same amounts at the positions of S.                   *)
LEMMA SumAgrees ==
  ASSUME NEW txs, NEW other, NEW S, NEW U, S \subseteq U, IsFiniteSet(U),
         \A i \in S : txs[i].amount \in Int /\ other[i].amount = txs[i].amount,
         NEW F, Summing(F, txs, S), NEW G, Summing(G, other, U)
  PROVE  F[S] = G[S]
<1> DEFINE T == {n \in Nat : \A s \in SUBSET S : Cardinality(s) <= n => F[s] = G[s]}
<1>0. \A s \in SUBSET S : /\ IsFiniteSet(s) /\ Cardinality(s) \in Nat
                          /\ (Cardinality(s) = 0 <=> s = {})
  BY FS_Subset, FS_CardinalityType, FS_EmptySet
<1>1. \A s \in SUBSET S : F[s] = Summed(F, txs, s) /\ G[s] = Summed(G, other, s)
  BY DEF Summing
<1>2. 0 \in T
  <2>1. \A s \in SUBSET S : Cardinality(s) <= 0 => s = {}
    BY <1>0
  <2>2. F[{}] = G[{}]
    BY <1>1 DEF Summed
  <2> QED  BY <2>1, <2>2
<1>3. ASSUME NEW n \in Nat, n \in T PROVE n + 1 \in T
  <2>1. ASSUME NEW s \in SUBSET S, Cardinality(s) <= n + 1 PROVE F[s] = G[s]
    <3>1. CASE s = {}
      BY <1>1, <3>1 DEF Summed
    <3>2. CASE s # {}
      <4>1. PICK x \in s : x = CHOOSE y \in s : TRUE
        BY <3>2
      <4>2. PICK k \in Nat : Cardinality(s) = k + 1 /\ k <= n
        <5>1. Cardinality(s) \in Nat /\ Cardinality(s) # 0
          BY <1>0, <3>2
        <5>2. Cardinality(s) - 1 \in Nat /\ Cardinality(s) = (Cardinality(s) - 1) + 1
              /\ Cardinality(s) - 1 <= n
          BY <2>1, <5>1
        <5> QED  BY <5>2
      <4>3. Cardinality(s \ {x}) = k /\ s \ {x} \in SUBSET S
        BY <1>0, <4>2, OneLess
      <4>4. F[s \ {x}] = G[s \ {x}]
        BY <1>3, <4>2, <4>3
      <4> QED  BY <1>1, <3>2, <4>1, <4>4 DEF Summed
    <3> QED  BY <3>1, <3>2
  <2> QED  BY <2>1
<1>4. Nat \subseteq T
  <2> HIDE DEF T
  <2> QED  BY <1>2, <1>3, SetInduction
<1>5. Cardinality(S) \in T /\ Cardinality(S) <= Cardinality(S)
  BY <1>0, <1>4
<1> QED  BY <1>5

(* U is the set of positions S with x, and the tables agree on S.            *)
OneMore(txs, other, S, x, U) ==
  /\ IsFiniteSet(S) /\ x \notin S /\ U = S \cup {x} /\ other[x].amount \in Int
  /\ \A i \in S : txs[i].amount \in Int /\ other[i].amount = txs[i].amount

(* What one more transaction adds to a sum.                                  *)
LEMMA SumGrows ==
  ASSUME NEW txs, NEW other, NEW S, NEW x, NEW U, OneMore(txs, other, S, x, U)
  PROVE  /\ SumOf(txs, S) \in Int /\ SumOf(other, S) = SumOf(txs, S)
         /\ SumOf(other, U) = other[x].amount + SumOf(txs, S)
<1>0. /\ IsFiniteSet(S) /\ x \notin S /\ U = S \cup {x} /\ other[x].amount \in Int
      /\ \A i \in S : txs[i].amount \in Int /\ other[i].amount = txs[i].amount
  BY DEF OneMore
<1>1. IsFiniteSet(U)
  BY <1>0, FS_AddElement
<1>2. PICK F : F = CHOOSE H : Summing(H, txs, S)
  OBVIOUS
<1>3. PICK G : G = CHOOSE H : Summing(H, other, U)
  OBVIOUS
<1>4. PICK E : E = CHOOSE H : Summing(H, other, S)
  OBVIOUS
<1>5. Summing(F, txs, S) /\ Summing(G, other, U) /\ Summing(E, other, S)
  BY <1>0, <1>1, <1>2, <1>3, <1>4, SumExists, Zenon
<1>6. SumOf(txs, S) = F[S] /\ SumOf(other, U) = G[U] /\ SumOf(other, S) = E[S]
  BY <1>2, <1>3, <1>4 DEF SumOf
<1>7. F[S] \in Int
  <2>1. Addable(txs, S) /\ S \in SUBSET S
    BY <1>0 DEF Addable
  <2> QED  BY <1>5, <2>1, SumStep DEF Adding
<1>8. S \subseteq U /\ S \subseteq S /\ x \in U /\ U \ {x} = S /\ U \in SUBSET U
  BY <1>0
<1>9. F[S] = G[S] /\ F[S] = E[S]
  BY <1>0, <1>1, <1>5, <1>8, SumAgrees
<1>10. \A i \in U : other[i].amount \in Int
  BY <1>0
<1>11. \A i \in U : G[U] = other[i].amount + G[U \ {i}]
  <2>1. Addable(other, U)
    BY <1>1, <1>10 DEF Addable
  <2> QED  BY <1>5, <1>8, <2>1, SumStep DEF Adding
<1>12. G[U] = other[x].amount + G[S]
  BY <1>8, <1>11
<1> QED  BY <1>6, <1>7, <1>9, <1>12

-----------------------------------------------------------------------------
(* Sums and counts by another table.                                          *)

(* p takes the positions S of txs, one to one, to the positions U of other,   *)
(* where the amounts are the same.                                           *)
Moved(txs, S, other, U, p) ==
  /\ IsFiniteSet(S) /\ U = {p[i] : i \in S}
  /\ \A i, j \in S : p[i] = p[j] => i = j
  /\ \A i \in S : txs[i].amount \in Int /\ other[p[i]].amount = txs[i].amount

LEMMA CountMoves ==
  ASSUME NEW txs, NEW S, NEW other, NEW U, NEW p, Moved(txs, S, other, U, p)
  PROVE  IsFiniteSet(U) /\ Cardinality(U) = Cardinality(S)
<1> DEFINE f == [i \in S |-> p[i]]
<1>1. f \in Surjection(S, U) /\ f \in Injection(S, U)
  BY DEF Moved, Surjection, Injection, IsInjective
<1> QED  BY <1>1, FS_Surjection DEF Moved

LEMMA SumMoves ==
  ASSUME NEW txs, NEW S, NEW other, NEW U, NEW p, Moved(txs, S, other, U, p)
  PROVE  SumOf(other, U) = SumOf(txs, S)
<1> DEFINE Image(s) == {p[i] : i \in s}
<1>1. /\ IsFiniteSet(S) /\ IsFiniteSet(U) /\ U = Image(S)
      /\ \A i, j \in S : p[i] = p[j] => i = j
      /\ \A i \in S : txs[i].amount \in Int /\ other[p[i]].amount = txs[i].amount
  BY CountMoves DEF Moved
<1>2. \A j \in U : other[j].amount \in Int
  BY <1>1
<1>3. PICK F : F = CHOOSE H : Summing(H, txs, S)
  OBVIOUS
<1>4. PICK G : G = CHOOSE H : Summing(H, other, U)
  OBVIOUS
<1>5. Summing(F, txs, S) /\ Summing(G, other, U)
  BY <1>1, <1>3, <1>4, SumExists, Zenon
<1>6. Adding(F, txs, S)
  <2>1. Addable(txs, S)
    BY <1>1 DEF Addable
  <2> QED  BY <1>5, <2>1, SumStep
<1>7. Adding(G, other, U)
  <2>1. Addable(other, U)
    BY <1>1, <1>2 DEF Addable
  <2> QED  BY <1>5, <2>1, SumStep
<1> DEFINE T == {n \in Nat : \A s \in SUBSET S : Cardinality(s) <= n => F[s] = G[Image(s)]}
<1>8. \A s \in SUBSET S : /\ IsFiniteSet(s) /\ Cardinality(s) \in Nat
                          /\ (Cardinality(s) = 0 <=> s = {})
  BY <1>1, FS_Subset, FS_CardinalityType, FS_EmptySet
<1>9. 0 \in T
  <2>1. \A s \in SUBSET S : Cardinality(s) <= 0 => s = {}
    BY <1>8
  <2>2. Image({}) = {}
    OBVIOUS
  <2> HIDE DEF Image
  <2> QED  BY <1>6, <1>7, <2>1, <2>2 DEF Adding
<1>10. ASSUME NEW n \in Nat, n \in T PROVE n + 1 \in T
  <2>1. ASSUME NEW s \in SUBSET S, Cardinality(s) <= n + 1 PROVE F[s] = G[Image(s)]
    <3>1. CASE s = {}
      <4>1. Image({}) = {}
        OBVIOUS
      <4> QED  BY <1>6, <1>7, <3>1, <4>1 DEF Adding
    <3>2. CASE s # {}
      <4>1. PICK x \in s : TRUE
        BY <3>2
      <4>2. PICK k \in Nat : Cardinality(s) = k + 1 /\ k <= n
        <5>1. Cardinality(s) \in Nat /\ Cardinality(s) # 0
          BY <1>8, <3>2
        <5>2. Cardinality(s) - 1 \in Nat /\ Cardinality(s) = (Cardinality(s) - 1) + 1
              /\ Cardinality(s) - 1 <= n
          BY <2>1, <5>1
        <5> QED  BY <5>2
      <4>3. Cardinality(s \ {x}) = k /\ s \ {x} \in SUBSET S
        BY <1>8, <4>2, OneLess
      <4>4. F[s \ {x}] = G[Image(s \ {x})]
        BY <1>10, <4>2, <4>3
      <4>5. Image(s) \in SUBSET U /\ p[x] \in Image(s) /\ x \in S
        BY <1>1
      <4>6. Image(s \ {x}) = Image(s) \ {p[x]}
        <5>1. \A y : y \in Image(s \ {x}) => y \in Image(s) /\ y # p[x]
          BY <1>1
        <5>2. \A y : y \in Image(s) /\ y # p[x] => y \in Image(s \ {x})
          OBVIOUS
        <5> HIDE DEF Image
        <5> QED  BY <5>1, <5>2
      <4> HIDE DEF Image
      <4>7. F[s] = txs[x].amount + F[s \ {x}]
        BY <1>6 DEF Adding
      <4>8. G[Image(s)] = other[p[x]].amount + G[Image(s) \ {p[x]}]
        BY <1>7, <4>5 DEF Adding
      <4>9. other[p[x]].amount = txs[x].amount
        BY <1>1, <4>5
      <4> QED  BY <4>4, <4>6, <4>7, <4>8, <4>9
    <3> QED  BY <3>1, <3>2
  <2> QED  BY <2>1
<1>11. Nat \subseteq T
  <2> HIDE DEF T
  <2> QED  BY <1>9, <1>10, SetInduction
<1>12. Cardinality(S) \in T /\ Cardinality(S) <= Cardinality(S)
  BY <1>1, <1>8, <1>11
<1>13. F[S] = G[U]
  <2> HIDE DEF Image
  <2> QED  BY <1>1, <1>12
<1> QED  BY <1>3, <1>4, <1>13 DEF SumOf

(* The sums and counts by which the dashboard and the statistics go.          *)
LEMMA SumOfNone ==
  ASSUME NEW txs PROVE SumOf(txs, {}) = 0
<1>1. Addable(txs, {})
  BY FS_EmptySet DEF Addable
<1>2. PICK F : F = CHOOSE H : Summing(H, txs, {})
  OBVIOUS
<1>3. Summing(F, txs, {})
  BY <1>1, <1>2, SumExists, Zenon DEF Addable
<1>4. F[{}] = 0
  BY <1>1, <1>3, SumStep DEF Adding
<1> QED  BY <1>2, <1>4 DEF SumOf

(* The expenses of a month in one category.                                   *)
Spent(txs, month, category) ==
  {i \in DOMAIN txs : IsExpense(txs[i], month) /\ txs[i].category = category}

LEMMA StatsAre ==
  ASSUME NEW txs, NEW month, NEW category
  PROVE  LET stats == CategoryStats(txs, month, category) IN
         /\ stats.total = SumOf(txs, Spent(txs, month, category))
         /\ stats.count = Cardinality(Spent(txs, month, category))
<1>1. MapThenSumSet(LAMBDA i : txs[i].amount, Spent(txs, month, category))
        = SumOf(txs, Spent(txs, month, category))
  BY SumIs
<1> QED  BY <1>1 DEF CategoryStats, Spent

LEMMA BoardSays ==
  ASSUME NEW table, NEW month, NEW p
  PROVE  LET board == MonthlyDashboard(table, month, p)
             Of(c) == IF c \in DOMAIN board.byCategory THEN board.byCategory[c] ELSE 0
         IN /\ DOMAIN board.byCategory = {c \in {table[i].category : i \in DOMAIN table} :
                                            Spent(table, month, c) # {}}
            /\ \A c \in DOMAIN board.byCategory :
                 board.byCategory[c] = SumOf(table, Spent(table, month, c))
            /\ board.drinkingTotal = Of(Drinking)
            /\ board.subscriptionTotal = Of(Subscription)
<1> DEFINE expenses == {i \in DOMAIN table : IsExpense(table[i], month)}
           found == {table[i].category : i \in expenses}
           InOne(c) == {i \in expenses : table[i].category = c}
           byCategory == [c \in found |-> MapThenSumSet(LAMBDA i : table[i].amount, InOne(c))]
<1>1. /\ MonthlyDashboard(table, month, p).byCategory = byCategory
      /\ MonthlyDashboard(table, month, p).drinkingTotal
           = IF Drinking \in DOMAIN byCategory THEN byCategory[Drinking] ELSE 0
      /\ MonthlyDashboard(table, month, p).subscriptionTotal
           = IF Subscription \in DOMAIN byCategory THEN byCategory[Subscription] ELSE 0
  BY DEF MonthlyDashboard
<1>2. \A c : InOne(c) = Spent(table, month, c)
  BY DEF Spent
<1>3. found = {c \in {table[i].category : i \in DOMAIN table} : Spent(table, month, c) # {}}
  BY DEF Spent
<1>4. \A c \in found : MapThenSumSet(LAMBDA i : table[i].amount, InOne(c))
                         = SumOf(table, InOne(c))
  BY SumIs
<1>5. DOMAIN byCategory = found
      /\ \A c \in found : byCategory[c] = SumOf(table, Spent(table, month, c))
  <2> HIDE DEF found, InOne
  <2> QED  BY <1>2, <1>4
<1> HIDE DEF byCategory, found
<1> QED  BY <1>1, <1>3, <1>5

-----------------------------------------------------------------------------
(* Verdicts.                                                                  *)
FreeExpenses(table, month) ==
  {i \in {j \in DOMAIN table : IsExpense(table[j], month)} :
     table[i].category \notin FixedCategories}

LEMMA FreeLeft ==
  ASSUME NEW table, NEW month, NEW p
  PROVE  MonthlyDashboard(table, month, p).freeBudgetRemaining
           = p.freeBudget - SumOf(table, FreeExpenses(table, month))
<1>1. MapThenSumSet(LAMBDA i : table[i].amount, FreeExpenses(table, month))
        = SumOf(table, FreeExpenses(table, month))
  BY SumIs
<1> QED  BY <1>1 DEF MonthlyDashboard, FreeExpenses

(* What is left of the budget before and after one more transaction.         *)
LEMMA AfterPurchase ==
  ASSUME NEW table, table \in Seq(Range(table)), \A i \in DOMAIN table : table[i].amount \in Int,
         NEW tx, tx.amount \in Nat, NEW month, NEW p, p.freeBudget \in Int
  PROVE  LET left == MonthlyDashboard(table, month, p).freeBudgetRemaining
             after == MonthlyDashboard(Append(table, tx), month, p).freeBudgetRemaining
         IN left \in Int /\ after \in {left, left - tx.amount}
<1> DEFINE S == FreeExpenses(table, month)
           other == Append(table, tx)
           x == Len(table) + 1
<1>1. /\ DOMAIN table = 1 .. Len(table) /\ Len(table) \in Nat
      /\ DOMAIN other = DOMAIN table \cup {x} /\ x \notin DOMAIN table
      /\ other[x] = tx /\ \A i \in DOMAIN table : other[i] = table[i]
  OBVIOUS
<1>2. S \subseteq DOMAIN table /\ IsFiniteSet(S)
  <2>1. S \subseteq 1 .. Len(table) /\ IsFiniteSet(1 .. Len(table))
    BY <1>1, FS_Interval DEF FreeExpenses
  <2> QED  BY <1>1, <2>1, FS_Subset
<1> HIDE DEF other, x
<1>3. FreeExpenses(other, month) = S \/ FreeExpenses(other, month) = S \cup {x}
  BY <1>1 DEF FreeExpenses
<1> HIDE DEF S
<1>4. /\ SumOf(table, S) \in Int /\ SumOf(other, S) = SumOf(table, S)
      /\ SumOf(other, S \cup {x}) = tx.amount + SumOf(table, S)
  <2>0. IsFiniteSet(S)
    BY <1>2
  <2>1. \A i \in S : table[i].amount \in Int /\ other[i].amount = table[i].amount
    BY <1>1, <1>2
  <2>2. x \notin S /\ other[x].amount \in Int
    BY <1>1, <1>2
  <2>3. PICK U : U = S \cup {x}
    OBVIOUS
  <2>4. /\ SumOf(table, S) \in Int /\ SumOf(other, S) = SumOf(table, S)
        /\ SumOf(other, U) = other[x].amount + SumOf(table, S)
    <3>1. OneMore(table, other, S, x, U)
      BY <2>0, <2>1, <2>2, <2>3 DEF OneMore
    <3> QED  BY <3>1, SumGrows
  <2> QED  BY <1>1, <2>3, <2>4
<1>5. /\ MonthlyDashboard(table, month, p).freeBudgetRemaining = p.freeBudget - SumOf(table, S)
      /\ MonthlyDashboard(other, month, p).freeBudgetRemaining
           = p.freeBudget - SumOf(other, FreeExpenses(other, month))
  BY FreeLeft DEF S
<1>6. PICK a \in Int : a = SumOf(table, S)
  BY <1>4
<1>7. SumOf(other, FreeExpenses(other, month)) \in {a, tx.amount + a}
  BY <1>3, <1>4, <1>6
<1>8. \A u \in {a, tx.amount + a} : p.freeBudget - u \in {p.freeBudget - a, (p.freeBudget - a) - tx.amount}
  BY <1>6
<1>9. p.freeBudget - a \in Int
  BY <1>6
<1> QED  BY <1>5, <1>6, <1>7, <1>8, <1>9 DEF other

(* A dearer purchase is not judged more mildly.                               *)
LEMMA DearerIsWorse ==
  ASSUME NEW p, NEW dashboard, NEW memories, NEW drinking, NEW price \in Int, NEW c,
         dashboard.freeBudgetRemaining \in Int, ReducedFloor \in Int
  PROVE  Severity[EvaluateSpending(p, dashboard, memories, drinking, {price}, c)]
           <= Severity[EvaluateSpending(p, dashboard, memories, drinking, {price + 1}, c)]
<1> DEFINE category == IF c \in Categories THEN c ELSE Other
           remaining == dashboard.freeBudgetRemaining
           fifth == Quotient(remaining, 5)
           floor == IF fifth > ReducedFloor THEN fifth ELSE ReducedFloor
           quarter == Quotient(remaining, 4)
           Costs(n, limit) == \E q \in {n} : q > limit
           Speaks == Regretted(memories, category, drinking)
           Reduced == Contains(p.reduce, category)
           Avoid(n) == Costs(n, remaining) \/ Speaks \/ (Reduced /\ Costs(n, floor))
           Caution(n) == p.strictness = "strict" /\ Costs(n, quarter)
           Verdict(n) == IF Avoid(n) THEN "avoid" ELSE IF Caution(n) THEN "caution" ELSE "safe"
<1>1. fifth \in Int /\ quarter \in Int /\ floor \in Int
  BY DEF Quotient
<1>2. ASSUME NEW limit \in Int, Costs(price, limit) PROVE Costs(price + 1, limit)
  BY <1>2
<1>3. Avoid(price) => Avoid(price + 1)
  <2>1. remaining \in Int
    OBVIOUS
  <2> HIDE DEF remaining, Costs, Speaks, Reduced, floor
  <2> QED  BY <1>1, <1>2, <2>1
<1>4. Caution(price) => Caution(price + 1)
  <2> HIDE DEF Costs, quarter
  <2> QED  BY <1>1, <1>2
<1>5. \A n : EvaluateSpending(p, dashboard, memories, drinking, {n}, c) = Verdict(n)
  <2>1. \A n : {n} # {}
    OBVIOUS
  <2> QED  BY <2>1, Zenon DEF EvaluateSpending
<1> HIDE DEF Avoid, Caution
<1>6. Severity["safe"] = 0 /\ Severity["caution"] = 1 /\ Severity["avoid"] = 2
  BY DEF Severity
<1>7. Severity[Verdict(price)] <= Severity[Verdict(price + 1)]
  BY <1>3, <1>4, <1>6
<1> HIDE DEF Verdict
<1> QED  BY <1>5, <1>7

LEMMA VerdictsFit == TypeOK => VerdictsSound
<1> SUFFICES ASSUME TypeOK PROVE VerdictsSound
  OBVIOUS
<1>1. /\ rows \in Seq(Range(rows)) /\ \A i \in DOMAIN rows : rows[i].amount \in Int
      /\ profile.freeBudget \in Int
  BY LedgerAssumption DEF TypeOK, TransactionType, NoProfile
<1>2. ReducedFloor \in Int /\ Prices \subseteq Int
  BY LedgerAssumption
<1>3. ASSUME NEW month \in Months
      PROVE  MonthlyDashboard(rows, month, profile).freeBudgetRemaining \in Int
  <2>1. [amount |-> 0].amount \in Nat
    OBVIOUS
  <2> QED  BY <1>1, <2>1, AfterPurchase
<1>4. SafePurchaseFits
  <2> SUFFICES ASSUME NEW month \in Months, NEW c \in Categories, NEW price \in Prices \cap Nat,
                      EvaluateSpending(profile, MonthlyDashboard(rows, month, profile), {}, FALSE,
                                       {price}, c) # "avoid"
               PROVE  MonthlyDashboard(
                        Append(rows, [date |-> month * MonthDays, type |-> "expense",
                                      amount |-> price, category |-> c]),
                        month, profile).freeBudgetRemaining >= 0
    BY DEF SafePurchaseFits
  <2> DEFINE tx == [date |-> month * MonthDays, type |-> "expense",
                    amount |-> price, category |-> c]
             left == MonthlyDashboard(rows, month, profile).freeBudgetRemaining
             after == MonthlyDashboard(Append(rows, tx), month, profile).freeBudgetRemaining
  <2>1. tx.amount = price /\ price \in Nat
    OBVIOUS
  <2>2. price <= left
    <3>1. {price} # {}
      OBVIOUS
    <3>2. ~(\E q \in {price} : q > left)
      BY <3>1, Zenon DEF EvaluateSpending
    <3>3. left \in Int
      BY <1>3
    <3> HIDE DEF left
    <3> QED  BY <2>1, <3>2, <3>3
  <2> HIDE DEF tx
  <2>3. left \in Int /\ after \in {left, left - price}
    BY <1>1, <2>1, AfterPurchase
  <2> HIDE DEF left, after
  <2>4. after >= 0
    BY <2>1, <2>2, <2>3
  <2> QED  BY <2>4 DEF after, tx
<1>5. VerdictMonotone
  <2> SUFFICES ASSUME NEW month \in Months, NEW c \in Categories, NEW memories \in MemorySets,
                      NEW drinking \in BOOLEAN, NEW p \in Prices
               PROVE  Severity[EvaluateSpending(profile, MonthlyDashboard(rows, month, profile),
                                                memories, drinking, {p}, c)]
                        <= Severity[EvaluateSpending(profile, MonthlyDashboard(rows, month, profile),
                                                     memories, drinking, {p + 1}, c)]
    BY Zenon DEF VerdictMonotone
  <2> QED  BY <1>2, <1>3, DearerIsWorse
<1> QED  BY <1>4, <1>5 DEF VerdictsSound

-----------------------------------------------------------------------------
(* Names of merchants.                                                        *)

(* Words that are not fixed marks.                                            *)
PlainName(label) == label \in Seq({Lower[w] : w \in Spelled})

LEMMA PlainNames ==
  ASSUME NEW words \in Seq(Spelled)
  PROVE  PlainName(NormalizeMerchant(words))
<1> DEFINE L == {Lower[w] : w \in Spelled}
           lowered == [i \in DOMAIN words |-> Lower[words[i]]]
           EndsIn(s, W) == s # <<>> /\ Last(s) \in W
           bare == IF EndsIn(lowered, Numbers) THEN Front(lowered) ELSE lowered
<1>1. lowered \in Seq(L)
  <2>1. \A i \in DOMAIN words : words[i] \in Spelled
    OBVIOUS
  <2>2. \A i \in DOMAIN words : Lower[words[i]] \in L
    BY <2>1
  <2>3. PICK n \in Nat : DOMAIN words = 1 .. n
    OBVIOUS
  <2> HIDE DEF L
  <2> QED  BY <2>2, <2>3
<1>2. ASSUME NEW s \in Seq(L), s # <<>> PROVE Front(s) \in Seq(L)
  <2>1. \A i \in 1 .. Len(s) - 1 : s[i] \in L
    OBVIOUS
  <2> HIDE DEF L
  <2> QED  BY <2>1, SubSeqProperties DEF Front
<1>3. NormalizeMerchant(words) = IF bare # lowered /\ EndsIn(bare, BranchWords) THEN Front(bare) ELSE bare
  BY DEF NormalizeMerchant
<1> HIDE DEF L, lowered
<1>4. bare \in Seq(L)
  BY <1>1, <1>2
<1> HIDE DEF bare
<1>5. NormalizeMerchant(words) \in Seq(L)
  BY <1>2, <1>3, <1>4
<1> QED  BY <1>5 DEF PlainName, L

(* Every merchant read from a file is a plain name.                           *)
LEMMA NamesRead ==
  ASSUME NoMarks, NEW f \in Files, NEW m, NEW merchantRules, GoodRules(merchantRules),
         NEW i \in DOMAIN Parse(f, m, merchantRules).transactions
  PROVE  PlainName(Parse(f, m, merchantRules).transactions[i].merchant)
<1> DEFINE txs == Parse(f, m, merchantRules).transactions
<1>1. \A j \in DOMAIN txs : \E k \in DOMAIN f.records :
        txs[j] \in LinesRead(f, m, merchantRules)[k]
  BY FileRead
<1> HIDE DEF txs
<1>2. PICK k \in DOMAIN f.records : txs[i] \in LinesRead(f, m, merchantRules)[k]
  BY <1>1 DEF txs
<1>3. PICK record : record = f.records[k] /\ record \in Range(f.records)
  BY DEF Range
<1>4. PICK at : at = PlacesOf(f, m)
  OBVIOUS
<1>5. txs[i] \in NormalizeRecord(record, at, merchantRules, f.source)
  BY <1>2, <1>3, <1>4 DEF LinesRead
<1>6. txs[i].merchant = NormalizeMerchant(Words(ValueAt(record, at.description)))
  <2>1. GoodRecord(record)
    BY <1>3, FilesAssumption DEF GoodRecord, GoodCell
  <2> QED  BY <1>5, <2>1, LineRead
<1>7. Words(ValueAt(record, at.description)) \in Seq(Spelled)
  <2>1. \A cell \in Range(record) : Words(cell) \in Seq(Spelled)
    <3> SUFFICES ASSUME NEW cell \in Range(record) PROVE Words(cell) \in Seq(Spelled)
      OBVIOUS
    <3>2. cell.kind = "text" => cell.words \in Seq(Spelled)
      BY <1>3, Zenon DEF NoMarks
    <3>1. (CHOOSE n \in Numbers : TRUE) \in Spelled
      BY DEF NoMarks
    <3>4. \A w \in Spelled : <<w>> \in Seq(Spelled)
      OBVIOUS
    <3>5. <<>> \in Seq(Spelled)
      OBVIOUS
    <3>6. CASE cell.kind = "blank"
      BY <3>5, <3>6 DEF Words
    <3>7. CASE cell.kind = "text"
      BY <3>2, <3>7 DEF Words
    <3>8. CASE cell.kind # "blank" /\ cell.kind # "text"
      <4>1. Words(cell) = <<CHOOSE n \in Numbers : TRUE>>
        BY <3>8 DEF Words
      <4> QED  BY <3>1, <3>4, <4>1
    <3> QED  BY <3>6, <3>7, <3>8
  <2>2. CASE at.description \in DOMAIN record
    <3>1. record[at.description] \in Range(record)
      BY <2>2 DEF Range
    <3> QED  BY <2>1, <2>2, <3>1 DEF ValueAt
  <2>3. CASE at.description \notin DOMAIN record
    <3>1. ValueAt(record, at.description) = Blank
      BY <2>3 DEF ValueAt
    <3>2. Words(Blank) = <<>>
      BY DEF Words, Blank
    <3> QED  BY <3>1, <3>2
  <2> QED  BY <2>2, <2>3
<1> QED  BY <1>6, <1>7, PlainNames DEF txs

-----------------------------------------------------------------------------
(* The latest transactions.                                                   *)

LEMMA LowerOfTwo ==
  ASSUME NEW a \in Nat, NEW b \in Nat
  PROVE  /\ Min({a, b}) \in {a, b} /\ Min({a, b}) <= a /\ Min({a, b}) <= b
<1>1. \E x \in {a, b} : \A y \in {a, b} : x <= y
  <2>1. CASE a <= b
    BY <2>1
  <2>2. CASE ~(a <= b)
    BY <2>2
  <2> QED  BY <2>1, <2>2
<1>2. Min({a, b}) \in {a, b} /\ \A y \in {a, b} : Min({a, b}) <= y
  BY <1>1, Zenon DEF Min
<1> QED  BY <1>2

Newer(table, i, j) ==
  \/ table[i].date > table[j].date
  \/ table[i].date = table[j].date /\ i > j
NewerThan(table, i) == {j \in DOMAIN table : Newer(table, j, i)}
Rank(table, i) == Cardinality(NewerThan(table, i))

(* place gives the row of each of the m transactions listed.                  *)
ListedAt(table, list, m, place) ==
  /\ list = [k \in 1 .. m |-> table[place[k]]]
  /\ \A k \in 1 .. m : place[k] \in DOMAIN table /\ Rank(table, place[k]) = k - 1

DatedTable(table, n) ==
  n \in Nat /\ DOMAIN table = 1 .. n /\ \A i \in 1 .. n : table[i].date \in Int

LEMMA RankFacts ==
  ASSUME NEW table, NEW n, DatedTable(table, n)
  PROVE  /\ \A i \in 1 .. n : Rank(table, i) \in 0 .. n - 1
         /\ \A i \in 1 .. n, S \in SUBSET (1 .. n) :
              i \in S /\ NewerThan(table, i) \subseteq S => Rank(table, i) + 1 <= Cardinality(S)
         /\ \A i, j \in 1 .. n : Rank(table, i) = Rank(table, j) => i = j
<1> USE DEF DatedTable
<1>1. IsFiniteSet(1 .. n) /\ Cardinality(1 .. n) = n
  BY FS_Interval
<1>2. ASSUME NEW i \in 1 .. n
      PROVE  /\ IsFiniteSet(NewerThan(table, i)) /\ Cardinality(NewerThan(table, i)) \in Nat
             /\ i \notin NewerThan(table, i) /\ NewerThan(table, i) \in SUBSET (1 .. n)
  <2>1. NewerThan(table, i) \in SUBSET (1 .. n) /\ i \notin NewerThan(table, i)
    BY DEF NewerThan, Newer
  <2> QED  BY <1>1, <2>1, FS_Subset, FS_CardinalityType
<1>3. ASSUME NEW i \in 1 .. n, NEW S \in SUBSET (1 .. n), i \in S,
             NewerThan(table, i) \subseteq S
      PROVE  Rank(table, i) + 1 <= Cardinality(S)
  <2> DEFINE N == NewerThan(table, i)
  <2>1. IsFiniteSet(N) /\ Cardinality(N) \in Nat /\ i \notin N
    BY <1>2
  <2>2. IsFiniteSet(S) /\ N \cup {i} \in SUBSET S
    BY <1>1, <1>3, FS_Subset
  <2> HIDE DEF N
  <2>3. Cardinality(N \cup {i}) = Cardinality(N) + 1
    BY <2>1, FS_AddElement
  <2>4. Cardinality(N \cup {i}) <= Cardinality(S)
    BY <2>2, FS_Subset
  <2> QED  BY <2>3, <2>4 DEF Rank, N
<1>4. \A i \in 1 .. n : Rank(table, i) \in 0 .. n - 1
  <2> SUFFICES ASSUME NEW i \in 1 .. n PROVE Rank(table, i) \in 0 .. n - 1
    OBVIOUS
  <2>1. Rank(table, i) \in Nat
    BY <1>2 DEF Rank
  <2>2. Rank(table, i) + 1 <= n
    BY <1>1, <1>2, <1>3
  <2> QED  BY <2>1, <2>2
<1>5. ASSUME NEW i \in 1 .. n, NEW j \in 1 .. n, Newer(table, i, j)
      PROVE  Rank(table, i) + 1 <= Rank(table, j)
  <2>1. NewerThan(table, i) \subseteq NewerThan(table, j) /\ i \in NewerThan(table, j)
    BY <1>5 DEF NewerThan, Newer
  <2> QED  BY <1>2, <1>3, <2>1 DEF Rank
<1>6. ASSUME NEW i \in 1 .. n, NEW j \in 1 .. n, Rank(table, i) = Rank(table, j)
      PROVE  i = j
  <2>1. i = j \/ Newer(table, i, j) \/ Newer(table, j, i)
    BY DEF Newer
  <2>2. Rank(table, i) \in Int /\ Rank(table, j) \in Int
    BY <1>4
  <2> QED  BY <1>5, <1>6, <2>1, <2>2
<1> QED  BY <1>3, <1>4, <1>6

LEMMA EveryRank ==
  ASSUME NEW table, NEW n, DatedTable(table, n), NEW k \in 1 .. n
  PROVE  \E i \in 1 .. n : Rank(table, i) = k - 1
<1> DEFINE r == [i \in 1 .. n |-> Rank(table, i)]
<1>0. n \in Nat
  BY DEF DatedTable
<1>1. r \in Injection(1 .. n, 0 .. n - 1)
  BY RankFacts DEF Injection, IsInjective
<1>2. /\ IsFiniteSet(0 .. n - 1) /\ Cardinality(0 .. n - 1) = n /\ Cardinality(1 .. n) = n
  <2>1. /\ IsFiniteSet(0 .. n - 1) /\ 0 \in Int /\ n - 1 \in Int
        /\ Cardinality(0 .. n - 1) = IF 0 > n - 1 THEN 0 ELSE (n - 1) - 0 + 1
    BY <1>0, FS_Interval
  <2>2. Cardinality(1 .. n) = n
    BY <1>0, FS_Interval
  <2> QED  BY <1>0, <2>1, <2>2
<1>3. r \in Surjection(1 .. n, 0 .. n - 1)
  <2> HIDE DEF r
  <2> QED  BY <1>1, <1>2, FS_Injection
<1>4. k - 1 \in 0 .. n - 1
  BY <1>0
<1> QED  BY <1>3, <1>4 DEF Surjection

LEMMA LatestListed ==
  ASSUME NEW table, NEW n, DatedTable(table, n), Len(table) = n, NEW limit \in Nat
  PROVE  \E m \in Nat : \E place :
           /\ m <= n /\ (m = n \/ m = limit)
           /\ ListedAt(table, ListTransactions(table, limit), m, place)
<1>1. PICK m \in Nat : m = Min({limit, n}) /\ m <= n /\ m \in {limit, n}
  BY LowerOfTwo DEF DatedTable
<1> DEFINE place == [k \in 1 .. m |-> CHOOSE i \in DOMAIN table : Rank(table, i) = k - 1]
<1>2. \A k \in 1 .. m : place[k] \in DOMAIN table /\ Rank(table, place[k]) = k - 1
  <2>1. \A k \in 1 .. m : k \in 1 .. n
    BY <1>1 DEF DatedTable
  <2> QED  BY <2>1, EveryRank DEF DatedTable
<1>3. ListTransactions(table, limit) = [k \in 1 .. m |-> table[place[k]]]
  BY <1>1 DEF ListTransactions, Rank, NewerThan, Newer
<1> HIDE DEF place
<1>4. ListedAt(table, ListTransactions(table, limit), m, place)
  BY <1>2, <1>3 DEF ListedAt
<1> QED  BY <1>1, <1>4

(* A later day is not of an earlier month.                                    *)
LEMMA Times ==
  ASSUME NEW d \in Nat, NEW a \in Int, NEW b \in Int, a + 1 <= b
  PROVE  d * a + d <= d * b
  OBVIOUS

LEMMA Division ==
  ASSUME NEW d \in Nat \ {0}, NEW a \in Nat
  PROVE  a \div d \in Nat /\ \E r \in 0 .. d - 1 : a = d * (a \div d) + r
  OBVIOUS

LEMMA LaterMonth ==
  ASSUME MonthDays \in Nat \ {0}, NEW a \in Nat, NEW b \in Nat, a <= b
  PROVE  MonthOf(a) \in Nat /\ MonthOf(b) \in Nat /\ MonthOf(a) <= MonthOf(b)
<1>1. PICK d \in Nat \ {0} : d = MonthDays
  OBVIOUS
<1>2. PICK q \in Nat, r \in 0 .. d - 1 : q = MonthOf(a) /\ a = d * q + r
  BY <1>1, Division DEF MonthOf
<1>3. PICK p \in Nat, s \in 0 .. d - 1 : p = MonthOf(b) /\ b = d * p + s
  BY <1>1, Division DEF MonthOf
<1>4. ASSUME p + 1 <= q PROVE FALSE
  <2>1. d * p + d <= d * q
    BY <1>4, Times
  <2>2. d * p \in Int /\ d * q \in Int
    OBVIOUS
  <2> QED  BY <1>2, <1>3, <2>1, <2>2
<1> QED  BY <1>2, <1>3, <1>4

(* When the m transactions listed reach back to a month, each of its          *)
(* transactions is listed once.                                              *)
Reaches(table, month, n, m) ==
  \/ m = n
  \/ Cardinality({i \in DOMAIN table : MonthOf(table[i].date) >= month}) <= m

Listing(table, n, list, m, place) ==
  /\ DatedTable(table, n) /\ m \in Nat /\ m <= n
  /\ ListedAt(table, list, m, place)

LEMMA Reached ==
  ASSUME NEW table, NEW n, NEW list, NEW m, NEW place, Listing(table, n, list, m, place),
         MonthDays \in Nat \ {0}, \A i \in 1 .. n : table[i].date \in Nat,
         NEW month, Reaches(table, month, n, m),
         NEW i \in 1 .. n, MonthOf(table[i].date) = month
  PROVE  \E k \in 1 .. m : place[k] = i
<1>0. /\ DatedTable(table, n) /\ n \in Nat /\ DOMAIN table = 1 .. n /\ m \in Nat
      /\ \A k \in 1 .. m : place[k] \in 1 .. n /\ Rank(table, place[k]) = k - 1
  BY DEF Listing, DatedTable, ListedAt
<1> DEFINE L == {j \in DOMAIN table : MonthOf(table[j].date) >= month}
<1>1. L \in SUBSET (1 .. n) /\ i \in L /\ NewerThan(table, i) \subseteq L
  <2>1. \A j \in 1 .. n : table[i].date <= table[j].date => j \in L
    BY <1>0, LaterMonth
  <2>2. \A j \in NewerThan(table, i) : j \in 1 .. n /\ table[i].date <= table[j].date
    BY <1>0 DEF NewerThan, Newer
  <2>3. L \in SUBSET (1 .. n) /\ table[i].date <= table[i].date
    BY <1>0
  <2> HIDE DEF L
  <2> QED  BY <2>1, <2>2, <2>3
<1>2. Cardinality(L) \in Nat
  <2>1. IsFiniteSet(1 .. n)
    BY <1>0, FS_Interval
  <2> HIDE DEF L
  <2> QED  BY <1>1, <2>1, FS_Subset, FS_CardinalityType
<1>3. Rank(table, i) \in 0 .. n - 1 /\ Rank(table, i) + 1 <= Cardinality(L)
  <2> HIDE DEF L
  <2> QED  BY <1>0, <1>1, RankFacts
<1>4. Rank(table, i) + 1 \in 1 .. m
  BY <1>0, <1>2, <1>3 DEF Reaches
<1>5. PICK k \in 1 .. m : k = Rank(table, i) + 1
  BY <1>4
<1>6. Rank(table, place[k]) = Rank(table, i) /\ place[k] \in 1 .. n
  BY <1>0, <1>3, <1>5
<1> QED  BY <1>0, <1>6, RankFacts

LEMMA MonthListed ==
  ASSUME NEW table, NEW n, NEW list, NEW m, NEW place, Listing(table, n, list, m, place),
         MonthDays \in Nat \ {0},
         \A i \in 1 .. n : table[i].date \in Nat /\ table[i].amount \in Int,
         NEW month, Reaches(table, month, n, m), NEW category
  PROVE  Moved(list, Spent(list, month, category), table, Spent(table, month, category), place)
<1> DEFINE S == Spent(list, month, category)
           U == Spent(table, month, category)
<1>1. /\ DOMAIN table = 1 .. n /\ m \in Nat /\ DOMAIN list = 1 .. m
      /\ \A k \in 1 .. m : /\ place[k] \in 1 .. n /\ Rank(table, place[k]) = k - 1
                           /\ list[k] = table[place[k]]
  BY DEF Listing, DatedTable, ListedAt
<1>2. IsFiniteSet(S) /\ S \subseteq 1 .. m
  <2>1. S \subseteq 1 .. m /\ IsFiniteSet(1 .. m)
    BY <1>1, FS_Interval DEF Spent
  <2> QED  BY <2>1, FS_Subset
<1>3. \A k \in 1 .. m : k \in S <=> place[k] \in U
  BY <1>1 DEF Spent
<1>4. \A i \in U : \E k \in 1 .. m : place[k] = i
  <2>1. \A i \in U : i \in 1 .. n /\ MonthOf(table[i].date) = month
    BY <1>1 DEF Spent, IsExpense
  <2> QED  BY <2>1, Reached
<1> HIDE DEF S, U
<1>5. U = {place[i] : i \in S}
  BY <1>2, <1>3, <1>4
<1>6. \A i, j \in S : place[i] = place[j] => i = j
  BY <1>1, <1>2
<1>7. \A i \in S : list[i].amount \in Int /\ table[place[i]].amount = list[i].amount
  BY <1>1, <1>2
<1> QED  BY <1>2, <1>5, <1>6, <1>7 DEF Moved, S, U

-----------------------------------------------------------------------------
(* The candidates of a review.                                                *)

(* What a candidate of a category, and a detected one, says of the            *)
(* transactions listed and of the month's dashboard.                         *)
OfCategory(c, txs, month, dashboard) ==
  \E category :
    /\ c.label = <<category>> /\ c.total > 0
    /\ c.count = CategoryStats(txs, month, category).count
    /\ \/ c.total = CategoryStats(txs, month, category).total
       \/ category = Drinking /\ c.total = dashboard.drinkingTotal
       \/ category = Subscription /\ c.total = dashboard.subscriptionTotal

PaidTwice(c, txs) ==
  \E i, j \in DOMAIN txs :
    /\ txs[i].type = "expense" /\ txs[j].type = "expense"
    /\ txs[i].merchant = c.label /\ txs[j].merchant = c.label
    /\ LooksMonthly(txs[i], txs[j])

IsCandidate(c, txs, month, dashboard) ==
  /\ {"kind", "label", "total"} \subseteq DOMAIN c
  /\ c.kind = "category" => OfCategory(c, txs, month, dashboard)
  /\ c.kind = "detected" => PaidTwice(c, txs)

AreCandidates(s, txs, month, dashboard) ==
  s \in Seq(Range(s)) /\ \A i \in DOMAIN s : IsCandidate(s[i], txs, month, dashboard)

LEMMA MadeCandidate ==
  ASSUME NEW kind, NEW label, NEW total, NEW count
  PROVE  LET c == Candidate(kind, label, total, count) IN
         /\ {"kind", "label", "total"} \subseteq DOMAIN c
         /\ c.kind = kind /\ c.label = label /\ c.total = total /\ c.count = count
  BY DEF Candidate

LEMMA OtherCandidate ==
  ASSUME NEW txs, NEW month, NEW dashboard,
         NEW kind, kind \notin {"category", "detected"}, NEW label, NEW total, NEW count
  PROVE  IsCandidate(Candidate(kind, label, total, count), txs, month, dashboard)
  BY MadeCandidate DEF IsCandidate

LEMMA ImageFinite ==
  ASSUME NEW S, IsFiniteSet(S), NEW f
  PROVE  IsFiniteSet({f[x] : x \in S})
<1> DEFINE U == {f[x] : x \in S}
           g == [x \in S |-> f[x]]
<1>1. g \in Surjection(S, U)
  BY DEF Surjection
<1> QED  BY <1>1, FS_Surjection

LEMMA OneIfAny ==
  ASSUME NEW txs, NEW month, NEW dashboard,
         NEW condition, NEW c, condition => IsCandidate(c, txs, month, dashboard)
  PROVE  AreCandidates(IF condition THEN <<c>> ELSE <<>>, txs, month, dashboard)
<1>1. <<c>> \in Seq(Range(<<c>>)) /\ DOMAIN <<c>> = {1} /\ <<c>>[1] = c
  <2>1. <<c>> \in Seq({c}) /\ DOMAIN <<c>> = 1 .. 1 /\ <<c>>[1] = c /\ 1 .. 1 = {1}
    OBVIOUS
  <2>2. Range(<<c>>) = {c}
    BY <2>1 DEF Range
  <2> QED  BY <2>1, <2>2
<1>2. <<>> \in Seq(Range(<<>>)) /\ DOMAIN <<>> = {}
  OBVIOUS
<1> QED  BY <1>1, <1>2 DEF AreCandidates

LEMMA ListOf ==
  ASSUME NEW txs, NEW month, NEW dashboard,
         NEW n \in Nat, NEW s, s = [i \in 1 .. n |-> s[i]],
         \A i \in 1 .. n : IsCandidate(s[i], txs, month, dashboard)
  PROVE  AreCandidates(s, txs, month, dashboard)
<1>1. DOMAIN s = 1 .. n
  OBVIOUS
<1>2. s \in [1 .. n -> Range(s)]
  BY <1>1 DEF Range
<1>3. s \in Seq(Range(s))
  BY <1>2, SeqDef
<1> QED  BY <1>1, <1>3 DEF AreCandidates

LEMMA BothLists ==
  ASSUME NEW txs, NEW month, NEW dashboard, NEW s, NEW t,
         AreCandidates(s, txs, month, dashboard), AreCandidates(t, txs, month, dashboard)
  PROVE  AreCandidates(s \o t, txs, month, dashboard)
<1> DEFINE A == Range(s) \cup Range(t)
<1>1. s \in Seq(A) /\ t \in Seq(A)
  BY SeqMonotonic DEF AreCandidates
<1>2. \A c \in A : IsCandidate(c, txs, month, dashboard)
  BY DEF AreCandidates, Range
<1> HIDE DEF A
<1>3. s \o t \in Seq(A)
  BY <1>1
<1>4. PICK u : u = s \o t
  OBVIOUS
<1>5. u \in Seq(A)
  BY <1>3, <1>4
<1>6. u \in Seq(Range(u)) /\ \A i \in DOMAIN u : u[i] \in A
  BY <1>5, SeqOfRange
<1>7. AreCandidates(u, txs, month, dashboard)
  BY <1>2, <1>6 DEF AreCandidates
<1> QED  BY <1>4, <1>7

LEMMA JoinedLists ==
  ASSUME NEW txs, NEW month, NEW dashboard,
         NEW n \in Nat, NEW seqs, seqs = [i \in 1 .. n |-> seqs[i]],
         \A i \in 1 .. n : AreCandidates(seqs[i], txs, month, dashboard)
  PROVE  AreCandidates(FlattenSeq(seqs), txs, month, dashboard)
<1> DEFINE A == UNION {Range(seqs[i]) : i \in 1 .. n}
<1>1. \A c \in A : IsCandidate(c, txs, month, dashboard)
  BY DEF AreCandidates, Range
<1>2. \A i \in 1 .. n : seqs[i] \in Seq(A)
  <2> SUFFICES ASSUME NEW i \in 1 .. n PROVE seqs[i] \in Seq(A)
    OBVIOUS
  <2>1. Range(seqs[i]) \subseteq A
    OBVIOUS
  <2> HIDE DEF A
  <2> QED  BY <2>1, SeqMonotonic DEF AreCandidates
<1> HIDE DEF A
<1>3. seqs \in Seq(Seq(A))
  <2>1. seqs \in [1 .. n -> Seq(A)]
    BY <1>2
  <2> QED  BY <2>1, SeqDef
<1>4. FlattenSeq(seqs) \in Seq(A)
  BY <1>3, Flattened
<1>5. /\ FlattenSeq(seqs) \in Seq(Range(FlattenSeq(seqs)))
      /\ \A i \in DOMAIN FlattenSeq(seqs) : FlattenSeq(seqs)[i] \in A
  BY <1>4, SeqOfRange
<1> QED  BY <1>1, <1>5 DEF AreCandidates

(* However its sorts order equal keys, a detection lists candidates of which  *)
(* the same amount was paid twice.                                           *)
LEMMA DetectedLists ==
  ASSUME NEW txs, NEW n \in Nat, DOMAIN txs = 1 .. n,
         NEW detected \in DetectSubscriptionCandidates(txs), NEW month, NEW dashboard
  PROVE  AreCandidates(detected, txs, month, dashboard)
<1> DEFINE expenses == {i \in DOMAIN txs : txs[i].type = "expense"}
           merchants == {txs[i].merchant : i \in expenses}
           Of(m) == {i \in expenses : txs[i].merchant = m}
           Orders(m) ==
             {s \in SetToSeqs(Of(m)) :
                \A k \in 1..Len(s) - 1 : txs[s[k]].date <= txs[s[k + 1]].date}
           Matched(s) ==
             \E k \in 1..Len(s) - 1 : LooksMonthly(txs[s[k]], txs[s[k + 1]])
           Found(m, s) ==
             IF Matched(s)
             THEN {Candidate("detected", m, txs[Last(s)].amount, Len(s))} ELSE {}
           Outcomes(m) == {Found(m, s) : s \in Orders(m)}
           Picks == {f \in [merchants -> UNION {Outcomes(m) : m \in merchants}] :
                       \A m \in merchants : f[m] \in Outcomes(m)}
           Sorted(S) == {s \in SetToSeqs(S) :
                           \A k \in 1..Len(s) - 1 : s[k].annualized >= s[k + 1].annualized}
<1>1. DetectSubscriptionCandidates(txs)
        = UNION {Sorted(UNION {f[m] : m \in merchants}) : f \in Picks}
  BY DEF DetectSubscriptionCandidates
<1>2. IsFiniteSet(expenses) /\ IsFiniteSet(merchants)
  <2> DEFINE names == [i \in expenses |-> txs[i].merchant]
  <2>1. IsFiniteSet(expenses)
    <3>1. IsFiniteSet(1 .. n) /\ expenses \subseteq 1 .. n
      BY FS_Interval
    <3> QED  BY <3>1, FS_Subset
  <2>2. names \in Surjection(expenses, merchants)
    BY DEF Surjection
  <2> QED  BY <2>1, <2>2, FS_Surjection
<1>3. ASSUME NEW m \in merchants, NEW s \in Orders(m), Matched(s),
             NEW c, c = Candidate("detected", m, txs[Last(s)].amount, Len(s))
      PROVE  IsCandidate(c, txs, month, dashboard)
  <2>1. IsFiniteSet(Of(m)) /\ Cardinality(Of(m)) \in Nat
    <3>1. Of(m) \subseteq expenses
      OBVIOUS
    <3> QED  BY <1>2, <3>1, FS_Subset, FS_CardinalityType
  <2>2. s \in [1 .. Cardinality(Of(m)) -> Of(m)]
    BY <1>3 DEF SetToSeqs
  <2>3. PICK k \in 1 .. Len(s) - 1 : LooksMonthly(txs[s[k]], txs[s[k + 1]])
    BY <1>3
  <2>4. s[k] \in Of(m) /\ s[k + 1] \in Of(m)
    <3> HIDE DEF Of
    <3>1. Len(s) = Cardinality(Of(m))
      BY <2>1, <2>2
    <3>2. k \in 1 .. Cardinality(Of(m)) /\ k + 1 \in 1 .. Cardinality(Of(m))
      BY <2>1, <2>3, <3>1
    <3> QED  BY <2>2, <3>2
  <2>5. \A i \in Of(m) : i \in DOMAIN txs /\ txs[i].type = "expense" /\ txs[i].merchant = m
    OBVIOUS
  <2>6. /\ {"kind", "label", "total"} \subseteq DOMAIN c
        /\ c.kind = "detected" /\ c.label = m
    BY <1>3, MadeCandidate
  <2> HIDE DEF Of
  <2>7. PaidTwice(c, txs)
    BY <2>3, <2>4, <2>5, <2>6 DEF PaidTwice
  <2> QED  BY <2>6, <2>7 DEF IsCandidate
<1>4. \A m \in merchants : \A s \in Orders(m) :
        IsFiniteSet(Found(m, s)) /\ \A c \in Found(m, s) : IsCandidate(c, txs, month, dashboard)
  <2> SUFFICES ASSUME NEW m \in merchants, NEW s \in Orders(m)
               PROVE  /\ IsFiniteSet(Found(m, s))
                      /\ \A c \in Found(m, s) : IsCandidate(c, txs, month, dashboard)
    OBVIOUS
  <2> HIDE DEF Orders, merchants
  <2>1. PICK c : c = Candidate("detected", m, txs[Last(s)].amount, Len(s))
    OBVIOUS
  <2>2. Matched(s) => IsCandidate(c, txs, month, dashboard)
    BY <1>3, <2>1
  <2>3. Found(m, s) = IF Matched(s) THEN {c} ELSE {}
    BY <2>1
  <2> HIDE DEF Found, Matched
  <2>4. IsFiniteSet({}) /\ IsFiniteSet({c})
    BY FS_EmptySet, FS_Singleton
  <2> QED  BY <2>2, <2>3, <2>4
<1> HIDE DEF merchants, Found, Orders
<1>5. PICK f \in Picks : detected \in Sorted(UNION {f[m] : m \in merchants})
  BY <1>1
<1>6. PICK S : S = UNION {f[m] : m \in merchants}
  OBVIOUS
<1>7. \A m \in merchants :
        IsFiniteSet(f[m]) /\ \A c \in f[m] : IsCandidate(c, txs, month, dashboard)
  BY <1>4, <1>5
<1>8. IsFiniteSet(S)
  <2>1. IsFiniteSet({f[m] : m \in merchants})
    BY <1>2, ImageFinite
  <2>2. \A A \in {f[m] : m \in merchants} : IsFiniteSet(A)
    BY <1>7
  <2> QED  BY <1>6, <2>1, <2>2, FS_UNION
<1>9. \A c \in S : IsCandidate(c, txs, month, dashboard)
  BY <1>6, <1>7
<1>10. detected \in [1 .. Cardinality(S) -> S]
  BY <1>5, <1>6 DEF SetToSeqs
<1>11. Cardinality(S) \in Nat
  BY <1>8, FS_CardinalityType
<1>12. detected = [i \in 1 .. Cardinality(S) |-> detected[i]]
       /\ \A i \in 1 .. Cardinality(S) : IsCandidate(detected[i], txs, month, dashboard)
  BY <1>9, <1>10
<1> QED  BY <1>11, <1>12, ListOf

(* All that is put forward is a list of candidates.                           *)
LEMMA Collected ==
  ASSUME NEW txs, NEW n \in Nat, DOMAIN txs = 1 .. n,
         NEW detected \in DetectSubscriptionCandidates(txs),
         NEW month, NEW today, NEW p, NEW dashboard, p.reduce \in Seq(Range(p.reduce))
  PROVE  AreCandidates(CollectCandidates(month, today, p, dashboard, txs, detected, Regrets),
                       txs, month, dashboard)
<1> DEFINE Listed(s) == AreCandidates(s, txs, month, dashboard)
           Made(c) == IsCandidate(c, txs, month, dashboard)
           When(condition, candidate) == IF condition THEN <<candidate>> ELSE <<>>
           Spending(c, total) ==
             Candidate("category", <<c>>, total, CategoryStats(txs, month, c).count)
           Reduced(c) ==
             LET total == CategoryStats(txs, month, c).total
             IN When(total > 0, Spending(c, total))
           firstHalf == /\ dashboard.monthlyFreeBudget > 0
                        /\ MonthOf(today) = month
                        /\ today % MonthDays < 15
                        /\ dashboard.freeExpenseTotal * 2 > dashboard.monthlyFreeBudget
           largest == LargestExpense(txs, month)
           Regret(r) == Candidate("regret", <<r.category, "regret">>, r.actual, 1)
           reduced == FlattenSeq([i \in DOMAIN p.reduce |-> Reduced(p.reduce[i])])
           drinking == When(dashboard.drinkingTotal > 0,
                            Spending(Drinking, dashboard.drinkingTotal))
           subscription == When(dashboard.subscriptionTotal > 0,
                                Spending(Subscription, dashboard.subscriptionTotal))
           pace == When(firstHalf, Candidate("pace", <<"pace">>, dashboard.freeExpenseTotal,
                                             CountExpenses(txs, month)))
           one == [i \in DOMAIN largest |->
                     Candidate("largest", largest[i].merchant, largest[i].amount, 1)]
           regretted == [i \in DOMAIN Regrets |-> Regret(Regrets[i])]
<1>1. CollectCandidates(month, today, p, dashboard, txs, detected, Regrets)
        = reduced \o drinking \o subscription \o detected \o pace \o one \o regretted
  BY DEF CollectCandidates
<1>2. ASSUME NEW c, NEW total, total > 0,
             \/ total = CategoryStats(txs, month, c).total
             \/ c = Drinking /\ total = dashboard.drinkingTotal
             \/ c = Subscription /\ total = dashboard.subscriptionTotal
      PROVE  Made(Spending(c, total))
  <2>1. PICK a : a = Spending(c, total)
    OBVIOUS
  <2>2. /\ {"kind", "label", "total"} \subseteq DOMAIN a
        /\ a.kind = "category" /\ a.label = <<c>> /\ a.total = total
        /\ a.count = CategoryStats(txs, month, c).count
    BY <2>1, MadeCandidate
  <2>3. OfCategory(a, txs, month, dashboard)
    BY <1>2, <2>2 DEF OfCategory
  <2> QED  BY <2>1, <2>2, <2>3 DEF IsCandidate
<1>3. Listed(drinking) /\ Listed(subscription)
  <2>1. dashboard.drinkingTotal > 0 => Made(Spending(Drinking, dashboard.drinkingTotal))
    BY <1>2
  <2>2. dashboard.subscriptionTotal > 0
          => Made(Spending(Subscription, dashboard.subscriptionTotal))
    BY <1>2
  <2> HIDE DEF Spending
  <2> QED  BY <2>1, <2>2, OneIfAny
<1>4. Listed(pace)
  BY OtherCandidate, OneIfAny
<1>5. Listed(reduced)
  <2>1. PICK k \in Nat : DOMAIN p.reduce = 1 .. k
    OBVIOUS
  <2> DEFINE seqs == [i \in DOMAIN p.reduce |-> Reduced(p.reduce[i])]
  <2>2. ASSUME NEW c PROVE Listed(Reduced(c))
    <3>1. PICK total : total = CategoryStats(txs, month, c).total
      OBVIOUS
    <3>2. total > 0 => Made(Spending(c, total))
      BY <1>2, <3>1
    <3>3. Reduced(c) = When(total > 0, Spending(c, total))
      BY <3>1
    <3> HIDE DEF Spending, Reduced
    <3> QED  BY <3>2, <3>3, OneIfAny
  <2> HIDE DEF Reduced
  <2>3. seqs = [i \in 1 .. k |-> seqs[i]] /\ \A i \in 1 .. k : Listed(seqs[i])
    BY <2>1, <2>2
  <2> HIDE DEF seqs
  <2> QED  BY <2>1, <2>3, JoinedLists DEF seqs
<1>6. Listed(one)
  <2>1. PICK k \in Nat : DOMAIN largest = 1 .. k
    <3>1. PICK tx : largest \in {<<>>, <<tx>>}
      BY DEF LargestExpense
    <3>2. DOMAIN <<>> = 1 .. 0 /\ DOMAIN <<tx>> = 1 .. 1 /\ 0 \in Nat /\ 1 \in Nat
      OBVIOUS
    <3> HIDE DEF largest
    <3> QED  BY <3>1, <3>2
  <2>2. one = [i \in 1 .. k |-> one[i]] /\ \A i \in 1 .. k : Made(one[i])
    <3>1. \A i \in 1 .. k :
            Made(Candidate("largest", largest[i].merchant, largest[i].amount, 1))
      BY OtherCandidate
    <3> HIDE DEF largest, Made
    <3> QED  BY <2>1, <3>1
  <2> HIDE DEF one
  <2> QED  BY <2>1, <2>2, ListOf
<1>7. Listed(regretted)
  <2>1. PICK k \in Nat : DOMAIN Regrets = 1 .. k
    BY LedgerAssumption
  <2>2. \A r : Made(Regret(r))
    BY OtherCandidate
  <2> HIDE DEF Regret
  <2>3. regretted = [i \in 1 .. k |-> regretted[i]] /\ \A i \in 1 .. k : Made(regretted[i])
    BY <2>1, <2>2
  <2> HIDE DEF regretted
  <2> QED  BY <2>1, <2>3, ListOf
<1>8. Listed(detected)
  BY DetectedLists
<1> HIDE DEF reduced, drinking, subscription, pace, one, regretted
<1>9. Listed(reduced \o drinking \o subscription)
  BY <1>3, <1>5, BothLists
<1>10. Listed(reduced \o drinking \o subscription \o detected \o pace)
  BY <1>4, <1>8, <1>9, BothLists
<1> QED  BY <1>1, <1>6, <1>7, <1>10, BothLists

(* The review keeps some of them.                                             *)
LEMMA KeptCandidates ==
  ASSUME NEW seq, seq \in Seq(Range(seq))
  PROVE  \E kept : /\ kept = FoldLeft(AddCandidate, <<>>, seq)
                   /\ kept \in Seq(Range(seq))
<1>0. seq \in Seq(Range(seq)) /\ DOMAIN seq = 1 .. Len(seq) /\ Len(seq) \in Nat
  OBVIOUS
<1>1. PICK g : OneByOne("label", g, <<>>, seq)
  BY <1>0, FoldSteps, Zenon
<1>2. FoldLeft(AddCandidate, <<>>, seq) = g[Len(seq)]
  BY <1>0, <1>1, CandidatesFold DEF OneByOne
<1> DEFINE T == {n \in Nat : n <= Len(seq) => g[n] \in Seq(Range(seq))}
<1>3. 0 \in T
  <2>1. <<>> \in Seq(Range(seq)) /\ 0 \in Nat
    OBVIOUS
  <2> QED  BY <1>1, <2>1 DEF OneByOne
<1>4. ASSUME NEW n \in Nat, n \in T PROVE n + 1 \in T
  <2> SUFFICES ASSUME n + 1 <= Len(seq) PROVE g[n + 1] \in Seq(Range(seq))
    OBVIOUS
  <2>1. g[n] \in Seq(Range(seq))
    BY <1>0, <1>4
  <2>2. n + 1 \in 1 .. Len(seq) /\ (n + 1) - 1 = n
    BY <1>0
  <2>3. seq[n + 1] \in Range(seq)
    BY <1>0, <2>2 DEF Range
  <2>4. g[n + 1] = Inserted("label", g[n], seq[n + 1])
    BY <1>1, <2>2 DEF OneByOne
  <2>5. Append(g[n], seq[n + 1]) \in Seq(Range(seq))
    BY <2>1, <2>3
  <2> QED  BY <2>1, <2>4, <2>5 DEF Inserted
<1>5. Nat \subseteq T
  <2> HIDE DEF T
  <2> QED  BY <1>3, <1>4, SetInduction
<1> QED  BY <1>0, <1>2, <1>5

LEMMA ReviewedCandidates ==
  ASSUME NEW txs, NEW n \in Nat, DOMAIN txs = 1 .. n,
         NEW detected \in DetectSubscriptionCandidates(txs),
         NEW month, NEW today, NEW p, NEW dashboard, p.reduce \in Seq(Range(p.reduce)),
         NEW local,
         local = BuildReviewCandidates(month, today, p, dashboard, txs, detected, Regrets),
         NEW k \in DOMAIN local
  PROVE  IsCandidate(local[k], txs, month, dashboard)
<1>1. PICK seq : /\ seq = CollectCandidates(month, today, p, dashboard, txs, detected, Regrets)
                 /\ AreCandidates(seq, txs, month, dashboard)
  BY Collected
<1>2. PICK kept : /\ kept = FoldLeft(AddCandidate, <<>>, seq)
                  /\ kept \in Seq(Range(seq))
  BY <1>1, KeptCandidates DEF AreCandidates
<1>3. PICK m \in Nat : m = Min({Len(kept), MaxCandidates}) /\ m <= Len(kept)
  <2>1. Len(kept) \in Nat /\ MaxCandidates \in Nat
    BY <1>2, LedgerAssumption
  <2> QED  BY <2>1, LowerOfTwo
<1>4. local = SubSeq(kept, 1, m)
  BY <1>1, <1>2, <1>3 DEF BuildReviewCandidates
<1>5. \A i \in 1 .. Len(kept) : kept[i] \in Range(seq)
  BY <1>2
<1>6. \A c \in Range(seq) : IsCandidate(c, txs, month, dashboard)
  BY <1>1 DEF AreCandidates, Range
<1>7. local[k] = kept[k] /\ k \in 1 .. Len(kept)
  BY <1>2, <1>3, <1>4
<1> QED  BY <1>5, <1>6, <1>7

(* A category candidate agrees with the dashboard when the list reaches back  *)
(* to the month.                                                             *)
LEMMA SpendingAgrees ==
  ASSUME NEW table, NEW n, NEW list, NEW m, NEW place, Listing(table, n, list, m, place),
         MonthDays \in Nat \ {0},
         \A i \in 1 .. n : table[i].date \in Nat /\ table[i].amount \in Int,
         NEW month, Reaches(table, month, n, m),
         NEW p, NEW dashboard, dashboard = MonthlyDashboard(table, month, p),
         NEW c, OfCategory(c, list, month, dashboard)
  PROVE  /\ c.label[1] \in DOMAIN dashboard.byCategory
         /\ c.total = dashboard.byCategory[c.label[1]]
         /\ c.count = Cardinality(Spent(table, month, c.label[1]))
<1>1. PICK category :
        /\ c.label = <<category>> /\ c.total > 0
        /\ c.count = CategoryStats(list, month, category).count
        /\ \/ c.total = CategoryStats(list, month, category).total
           \/ category = Drinking /\ c.total = dashboard.drinkingTotal
           \/ category = Subscription /\ c.total = dashboard.subscriptionTotal
  BY DEF OfCategory
<1> DEFINE S == Spent(list, month, category)
           U == Spent(table, month, category)
<1>2. SumOf(table, U) = SumOf(list, S) /\ Cardinality(U) = Cardinality(S)
  <2>1. Moved(list, S, table, U, place)
    BY MonthListed
  <2> HIDE DEF S, U
  <2> QED  BY <2>1, SumMoves, CountMoves
<1>3. /\ CategoryStats(list, month, category).total = SumOf(table, U)
      /\ CategoryStats(list, month, category).count = Cardinality(U)
  BY <1>2, StatsAre
<1>4. /\ DOMAIN dashboard.byCategory = {a \in {table[i].category : i \in DOMAIN table} :
                                          Spent(table, month, a) # {}}
      /\ \A a \in DOMAIN dashboard.byCategory :
           dashboard.byCategory[a] = SumOf(table, Spent(table, month, a))
  BY BoardSays
<1>5. /\ dashboard.drinkingTotal = IF Drinking \in DOMAIN dashboard.byCategory
                                   THEN dashboard.byCategory[Drinking] ELSE 0
      /\ dashboard.subscriptionTotal = IF Subscription \in DOMAIN dashboard.byCategory
                                       THEN dashboard.byCategory[Subscription] ELSE 0
  BY BoardSays
<1>6. category \in DOMAIN dashboard.byCategory /\ c.total = dashboard.byCategory[category]
  <2>1. CASE c.total = CategoryStats(list, month, category).total
    <3>1. U # {}
      <4>1. U = {} => c.total = 0
        BY <1>3, <2>1, SumOfNone
      <4> QED  BY <1>1, <4>1
    <3>2. category \in {table[i].category : i \in DOMAIN table}
      BY <3>1 DEF Spent
    <3> QED  BY <1>3, <1>4, <2>1, <3>1, <3>2
  <2>2. CASE category = Drinking /\ c.total = dashboard.drinkingTotal
    BY <1>1, <1>5, <2>2
  <2>3. CASE category = Subscription /\ c.total = dashboard.subscriptionTotal
    BY <1>1, <1>5, <2>3
  <2> QED  BY <1>1, <2>1, <2>2, <2>3
<1>7. c.label[1] = category
  BY <1>1
<1> QED  BY <1>1, <1>3, <1>6, <1>7

(* What is listed is on the ledger, and so is what was paid twice.            *)
LEMMA PaidOnLedger ==
  ASSUME NEW table, NEW n, NEW list, NEW m, NEW place, Listing(table, n, list, m, place),
         NEW c, PaidTwice(c, list)
  PROVE  \E i, j \in DOMAIN table :
           /\ table[i].type = "expense" /\ table[j].type = "expense"
           /\ table[i].merchant = c.label /\ table[j].merchant = c.label
           /\ table[i].amount = table[j].amount
           /\ table[j].date - table[i].date \in SubscriptionGap
<1>1. \A k \in DOMAIN list : place[k] \in DOMAIN table /\ list[k] = table[place[k]]
  BY DEF Listing, ListedAt
<1>2. PICK k, l \in DOMAIN list :
        /\ list[k].type = "expense" /\ list[l].type = "expense"
        /\ list[k].merchant = c.label /\ list[l].merchant = c.label
        /\ LooksMonthly(list[k], list[l])
  BY DEF PaidTwice
<1>3. PICK i \in DOMAIN table : i = place[k] /\ list[k] = table[i]
  BY <1>1
<1>4. PICK j \in DOMAIN table : j = place[l] /\ list[l] = table[j]
  BY <1>1
<1> QED  BY <1>2, <1>3, <1>4 DEF LooksMonthly

LEMMA ProfilesReduce ==
  TypeOK => profile.reduce \in Seq(Range(profile.reduce))
<1> SUFFICES ASSUME TypeOK PROVE profile.reduce \in Seq(Range(profile.reduce))
  OBVIOUS
<1>1. CASE profile = NoProfile
  <2>1. profile.reduce = <<>>
    BY <1>1 DEF NoProfile
  <2> QED  BY <2>1
<1>2. CASE profile \in Profiles
  BY <1>2, LedgerAssumption
<1> QED  BY <1>1, <1>2 DEF TypeOK

LEMMA ReviewsAgree == TypeOK => ReviewSound
<1> SUFFICES ASSUME TypeOK PROVE ReviewSound
  OBVIOUS
<1> DEFINE txs == ListTransactions(rows, ReviewRows)
           Board(month) == MonthlyDashboard(rows, month, profile)
           Review(detected, month, today) ==
             BuildReviewCandidates(month, today, profile, Board(month), txs, detected, Regrets)
           complete(month) == Cardinality({i \in DOMAIN rows : MonthOf(rows[i].date) >= month})
                                <= ReviewRows
           Paid(c, i, j) ==
             /\ rows[i].type = "expense" /\ rows[j].type = "expense"
             /\ rows[i].merchant = c.label /\ rows[j].merchant = c.label
             /\ rows[i].amount = rows[j].amount
             /\ rows[j].date - rows[i].date \in SubscriptionGap
           Agrees(c, month) ==
             /\ c.label[1] \in DOMAIN Board(month).byCategory
             /\ c.total = Board(month).byCategory[c.label[1]]
             /\ c.count = Cardinality(Spent(rows, month, c.label[1]))
           Sound(c, month) ==
             /\ c.kind = "category" /\ complete(month) => Agrees(c, month)
             /\ c.kind = "detected" => \E i, j \in DOMAIN rows : Paid(c, i, j)
<1>1. PICK n \in Nat :
        /\ n = Len(rows) /\ DatedTable(rows, n)
        /\ \A i \in 1 .. n : rows[i].date \in Nat /\ rows[i].amount \in Int
  <2>1. Len(rows) \in Nat /\ DOMAIN rows = 1 .. Len(rows)
    BY DEF TypeOK
  <2>2. \A i \in 1 .. Len(rows) : rows[i].date \in Nat /\ rows[i].amount \in Nat
    BY <2>1 DEF TypeOK, TransactionType
  <2>3. PICK a \in Nat : a = Len(rows)
    BY <2>1
  <2>4. DatedTable(rows, a) /\ \A i \in 1 .. a : rows[i].date \in Nat /\ rows[i].amount \in Int
    BY <2>1, <2>2, <2>3 DEF DatedTable
  <2> QED  BY <2>3, <2>4
<1>2. PICK m \in Nat : /\ m = n \/ m = ReviewRows
                       /\ \E at : Listing(rows, n, txs, m, at)
  <2>1. ReviewRows \in Nat
    BY LedgerAssumption
  <2> QED  BY <1>1, <2>1, LatestListed DEF Listing
<1>0. PICK place : Listing(rows, n, txs, m, place)
  BY <1>2
<1>3. DOMAIN txs = 1 .. m
  BY <1>0 DEF Listing, ListedAt
<1>4. MonthDays \in Nat \ {0}
  BY LedgerAssumption
<1>5. ASSUME NEW month, complete(month) PROVE Reaches(rows, month, n, m)
  BY <1>2, <1>5 DEF Reaches
<1> HIDE DEF txs
<1>6. ASSUME NEW detected \in DetectSubscriptionCandidates(txs), NEW month, NEW today,
             NEW k \in DOMAIN Review(detected, month, today)
      PROVE  Sound(Review(detected, month, today)[k], month)
  <2>1. PICK dashboard : dashboard = Board(month)
    OBVIOUS
  <2>2. PICK local : local = Review(detected, month, today)
    OBVIOUS
  <2>3. /\ local = BuildReviewCandidates(month, today, profile, dashboard, txs, detected, Regrets)
        /\ k \in DOMAIN local
    BY <1>6, <2>1, <2>2
  <2>4. PICK c : c = local[k]
    OBVIOUS
  <2> HIDE DEF Review
  <2>5. IsCandidate(c, txs, month, dashboard)
    BY <1>3, <2>3, <2>4, ProfilesReduce, ReviewedCandidates
  <2>6. c.kind = "category" /\ complete(month) => Agrees(c, month)
    <3> SUFFICES ASSUME c.kind = "category", complete(month) PROVE Agrees(c, month)
      OBVIOUS
    <3>1. Reaches(rows, month, n, m)
      BY <1>5
    <3>2. OfCategory(c, txs, month, dashboard)
      BY <2>5 DEF IsCandidate
    <3> QED  BY <1>0, <1>1, <1>4, <2>1, <3>1, <3>2, SpendingAgrees
  <2>7. c.kind = "detected" => \E i, j \in DOMAIN rows : Paid(c, i, j)
    BY <1>0, <2>5, PaidOnLedger DEF IsCandidate
  <2> HIDE DEF complete, Agrees, Paid
  <2> QED  BY <2>2, <2>4, <2>6, <2>7
<1>7. \A detected \in DetectSubscriptionCandidates(txs), month \in Months, today \in Days :
        \A k \in DOMAIN Review(detected, month, today) :
          Sound(Review(detected, month, today)[k], month)
  <2> HIDE DEF Sound, Review
  <2> QED  BY <1>6
<1> QED  BY <1>7, Zenon DEF ReviewSound, txs, Spent

-----------------------------------------------------------------------------
(* The inductive invariant: the type invariant, the choices, and the keys. A  *)
(* preview waits with the keys of its file, and the keys of every file that   *)
(* was committed are on the ledger, whatever the rules were.                  *)
KeysInv ==
  /\ \A p \in previews : KeysOf(p.transactions) = FileKeys(p.file, p.mapping)
  /\ \A c \in committed : FileKeys(c.file, c.mapping) \subseteq KeysOf(rows)

LedgerInv == TypeOK /\ ChoiceKept /\ KeysInv

(* Two sequences of transactions are sequences of what is in either.          *)
LEMMA Together ==
  ASSUME NEW s, NEW t, s \in Seq(Range(s)), t \in Seq(Range(t)),
         \A i \in DOMAIN s : TransactionType(s[i]), \A i \in DOMAIN t : TransactionType(t[i])
  PROVE  \E X : /\ s \in Seq(X) /\ t \in Seq(X)
                /\ \A tx \in X : TransactionType(tx)
<1> DEFINE X == Range(s) \cup Range(t)
<1>1. s \in Seq(X) /\ t \in Seq(X)
  BY SeqMonotonic
<1>2. \A tx \in X : TransactionType(tx)
  BY DEF Range
<1> QED  BY <1>1, <1>2

LEMMA LedgerInit == Init => LedgerInv
<1> SUFFICES ASSUME Init PROVE LedgerInv
  OBVIOUS
<1>1. rows = <<>> /\ chosen = <<>> /\ rules = <<>> /\ previews = {} /\ saving = {} /\ committed = {}
  BY DEF Init
<1>2. <<>> \in Seq(Range(<<>>)) /\ DOMAIN <<>> = {}
  OBVIOUS
<1> QED  BY <1>1, <1>2 DEF Init, LedgerInv, TypeOK, ChoiceKept, KeysInv

LEMMA PreviewKeeps ==
  ASSUME LedgerInv, NEW file \in Files, NEW mapping \in Mappings, PreviewImport(file, mapping)
  PROVE  LedgerInv'
<1> DEFINE txs == Parse(file, mapping, rules).transactions
           preview == [file |-> file, mapping |-> mapping, transactions |-> txs]
<1>1. /\ previews' = previews \cup {preview}
      /\ UNCHANGED <<rows, rules, profile, saving, chosen, committed>>
  BY DEF PreviewImport
<1>2. /\ txs \in Seq(Range(txs))
      /\ \A i \in DOMAIN txs : TransactionType(txs[i])
      /\ KeysOf(txs) = FileKeys(file, mapping)
  BY FileRead DEF LedgerInv, TypeOK, GoodRules
<1> HIDE DEF txs
<1>3. preview.file = file /\ preview.mapping = mapping /\ preview.transactions = txs
  OBVIOUS
<1> HIDE DEF preview
<1>4. TypeOK'
  BY <1>1, <1>2, <1>3 DEF LedgerInv, TypeOK, NoProfile
<1>5. ChoiceKept' /\ KeysInv'
  BY <1>1, <1>2, <1>3 DEF LedgerInv, ChoiceKept, KeysInv
<1> QED  BY <1>4, <1>5 DEF LedgerInv

LEMMA CommitKeeps ==
  ASSUME LedgerInv, NEW preview \in previews, CommitImport(preview)
  PROVE  LedgerInv'
<1> DEFINE done == [file |-> preview.file, mapping |-> preview.mapping]
<1>1. /\ previews' = previews \ {preview}
      /\ rows' = ImportTransactions(rows, preview.transactions)
      /\ committed' = committed \cup {done}
      /\ UNCHANGED <<rules, profile, saving, chosen>>
  BY DEF CommitImport
<1>2. /\ preview.file \in Files /\ preview.mapping \in Mappings
      /\ rows \in Seq(Range(rows))
      /\ preview.transactions \in Seq(Range(preview.transactions))
      /\ \A i \in DOMAIN rows : TransactionType(rows[i])
      /\ \A i \in DOMAIN preview.transactions : TransactionType(preview.transactions[i])
  BY DEF LedgerInv, TypeOK
<1>3. PICK X : /\ rows \in Seq(X) /\ preview.transactions \in Seq(X)
               /\ \A tx \in X : TransactionType(tx)
  BY <1>2, Together
<1>4. /\ rows' \in Seq(X) /\ DOMAIN rows \subseteq DOMAIN rows'
      /\ \A i \in DOMAIN rows : rows'[i] = rows[i]
      /\ KeysOf(rows) \cup KeysOf(preview.transactions) \subseteq KeysOf(rows')
  BY <1>1, <1>3, Imported
<1>5. rows' \in Seq(Range(rows')) /\ \A i \in DOMAIN rows' : TransactionType(rows'[i])
  <2>1. rows' \in Seq(Range(rows'))
    BY <1>4, SeqOfRange
  <2>2. \A i \in DOMAIN rows' : rows'[i] \in X
    BY <1>4
  <2> QED  BY <1>3, <2>1, <2>2
<1>6. done \in [file : Files, mapping : Mappings]
      /\ done.file = preview.file /\ done.mapping = preview.mapping
  BY <1>2
<1> HIDE DEF done
<1>7. TypeOK'
  BY <1>1, <1>4, <1>5, <1>6 DEF LedgerInv, TypeOK, NoProfile
<1>8. ChoiceKept'
  <2>1. \A i \in DOMAIN chosen : i \in DOMAIN rows
    BY DEF LedgerInv, TypeOK
  <2> QED  BY <1>1, <1>4, <2>1 DEF LedgerInv, ChoiceKept
<1>9. KeysInv'
  <2>1. \A c \in committed : FileKeys(c.file, c.mapping) \subseteq KeysOf(rows')
    BY <1>4 DEF LedgerInv, KeysInv
  <2>2. FileKeys(done.file, done.mapping) \subseteq KeysOf(rows')
    BY <1>4, <1>6 DEF LedgerInv, KeysInv
  <2>3. KeysOf(rows)' = KeysOf(rows')
    BY DEF KeysOf
  <2> QED  BY <1>1, <2>1, <2>2, <2>3 DEF LedgerInv, KeysInv, KeysOf
<1> QED  BY <1>7, <1>8, <1>9 DEF LedgerInv

LEMMA SetCategoryKeeps ==
  ASSUME LedgerInv, NEW id \in DOMAIN rows, NEW category \in Choosable,
         NEW remember \in BOOLEAN, SetCategory(id, category, remember)
  PROVE  LedgerInv'
<1> DEFINE row == [rows[id] EXCEPT !.category = category]
<1>1. /\ rows' = [rows EXCEPT ![id] = row]
      /\ chosen' = [i \in DOMAIN chosen \cup {id} |->
                      IF i = id THEN category ELSE chosen[i]]
      /\ saving' \subseteq saving \cup {[merchant |-> rows[id].merchant, category |-> category]}
      /\ UNCHANGED <<rules, profile, previews, committed>>
  BY DEF SetCategory
<1>2. /\ TransactionType(row) /\ row.category = category
      /\ row.fingerprint = rows[id].fingerprint
  BY LedgerAssumption DEF LedgerInv, TypeOK, TransactionType
<1> HIDE DEF row
<1>3. /\ DOMAIN rows' = DOMAIN rows /\ rows'[id] = row
      /\ \A i \in DOMAIN rows \ {id} : rows'[i] = rows[i]
  BY <1>1
<1>4. rows' \in Seq(Range(rows'))
  <2>1. PICK n \in Nat : DOMAIN rows = 1 .. n
    BY DEF LedgerInv, TypeOK
  <2>2. rows' = [i \in 1 .. n |-> rows'[i]]
    BY <1>1, <2>1
  <2>3. rows' \in [1 .. n -> Range(rows')]
    BY <2>2 DEF Range
  <2> QED  BY <2>3, SeqDef
<1>5. \A i \in DOMAIN rows' : TransactionType(rows'[i])
  BY <1>2, <1>3 DEF LedgerInv, TypeOK
<1>6. \A s \in saving' : s.category \in Choosable
  BY <1>1 DEF LedgerInv, TypeOK
<1>7. DOMAIN chosen' \subseteq DOMAIN rows'
  BY <1>1, <1>3 DEF LedgerInv, TypeOK
<1>8. TypeOK'
  BY <1>1, <1>4, <1>5, <1>6, <1>7 DEF LedgerInv, TypeOK, NoProfile
<1>9. ChoiceKept'
  BY <1>1, <1>2, <1>3 DEF LedgerInv, ChoiceKept, TypeOK
<1>10. KeysInv'
  <2>1. \A i \in DOMAIN rows : rows'[i].fingerprint = rows[i].fingerprint
    BY <1>2, <1>3
  <2>2. KeysOf(rows') = KeysOf(rows)
    BY <1>3, <2>1 DEF KeysOf
  <2>3. \A c \in committed : FileKeys(c.file, c.mapping) \subseteq KeysOf(rows')
    BY <2>2 DEF LedgerInv, KeysInv
  <2> QED  BY <1>1, <2>3 DEF LedgerInv, KeysInv, KeysOf
<1> QED  BY <1>8, <1>9, <1>10 DEF LedgerInv

LEMMA LedgerNext == LedgerInv /\ [Next]_vars => LedgerInv'
<1> SUFFICES ASSUME LedgerInv, [Next]_vars PROVE LedgerInv'
  OBVIOUS
<1>1. ASSUME NEW f \in Files, NEW m \in Mappings, PreviewImport(f, m) PROVE LedgerInv'
  BY <1>1, PreviewKeeps
<1>2. ASSUME NEW p \in previews, LosePreview(p) PROVE LedgerInv'
  BY <1>2 DEF LosePreview, LedgerInv, TypeOK, NoProfile, ChoiceKept, KeysInv
<1>3. ASSUME NEW p \in previews, CommitImport(p) PROVE LedgerInv'
  BY <1>3, CommitKeeps
<1>4. ASSUME NEW id \in DOMAIN rows, NEW c \in Choosable, NEW r \in BOOLEAN, SetCategory(id, c, r)
      PROVE  LedgerInv'
  BY <1>4, SetCategoryKeeps
<1>5. ASSUME NEW rule \in saving, SaveRule(rule) PROVE LedgerInv'
  <2>1. /\ saving' = saving \ {rule}
        /\ rules' = [m \in DOMAIN rules \cup {rule.merchant} |->
                       IF m = rule.merchant THEN rule.category ELSE rules[m]]
        /\ UNCHANGED <<rows, profile, previews, chosen, committed>>
    BY <1>5 DEF SaveRule
  <2>2. \A m \in DOMAIN rules' : rules'[m] \in Choosable
    BY <2>1 DEF LedgerInv, TypeOK
  <2>3. TypeOK'
    BY <2>1, <2>2 DEF LedgerInv, TypeOK, NoProfile
  <2> QED  BY <2>1, <2>3 DEF LedgerInv, ChoiceKept, KeysInv
<1>6. ASSUME NEW rule \in saving, SaveRuleFails(rule) PROVE LedgerInv'
  BY <1>6 DEF SaveRuleFails, LedgerInv, TypeOK, NoProfile, ChoiceKept, KeysInv
<1>7. ASSUME NEW p \in Profiles, PutProfile(p) PROVE LedgerInv'
  BY <1>7 DEF PutProfile, LedgerInv, TypeOK, NoProfile, ChoiceKept, KeysInv
<1>8. CASE UNCHANGED vars
  BY <1>8 DEF vars, LedgerInv, TypeOK, NoProfile, ChoiceKept, KeysInv
<1> QED  BY <1>1, <1>2, <1>3, <1>4, <1>5, <1>6, <1>7, <1>8 DEF Next

LEMMA LedgerInductive == Spec => []LedgerInv
<1> QED  BY LedgerInit, LedgerNext, PTL DEF Spec

(* Of a list of candidates no label is sent but a category, a text with a     *)
(* fixed mark or the mask; what a candidate adds up to is sent as it is.      *)
LEMMA Masking ==
  ASSUME NEW p, NEW dashboard, NEW txs, NEW local,
         NEW k \in DOMAIN local, {"label", "total"} \subseteq DOMAIN local[k]
  PROVE  LET sent == ReviewPayload(p, dashboard, txs, local).candidates[k] IN
         /\ sent.total = local[k].total
         /\ \/ sent.label \in {<<c>> : c \in Categories}
            \/ sent.label \in {<<"pace">>, Masked}
            \/ \E i \in DOMAIN sent.label : sent.label[i] = "regret"
<1> DEFINE sent == ReviewPayload(p, dashboard, txs, local).candidates[k]
           masked == IF NamesNoOne(local[k]) THEN local[k]
                     ELSE [local[k] EXCEPT !.label = Masked]
<1>1. sent = CandidateValue(masked)
  BY DEF ReviewPayload, SanitizeReviewCandidates
<1>2. "label" \in DOMAIN local[k] /\ "total" \in DOMAIN local[k]
  OBVIOUS
<1>3. masked.total = local[k].total
      /\ (NamesNoOne(local[k]) => masked.label = local[k].label)
      /\ (~NamesNoOne(local[k]) => masked.label = Masked)
  BY <1>2
<1> HIDE DEF masked
<1>4. sent.total = local[k].total /\ sent.label = masked.label
  BY <1>1, <1>3 DEF CandidateValue
<1> HIDE DEF sent
<1>5. CASE NamesNoOne(local[k])
  BY <1>3, <1>4, <1>5 DEF NamesNoOne, sent
<1>6. CASE ~NamesNoOne(local[k])
  BY <1>3, <1>4, <1>6 DEF sent
<1> QED  BY <1>5, <1>6

(* The merchants on the ledger and in the previews are plain names.           *)
NamesInv ==
  /\ \A i \in DOMAIN rows : PlainName(rows[i].merchant)
  /\ \A p \in previews : \A i \in DOMAIN p.transactions :
       PlainName(p.transactions[i].merchant)

LEMMA NamesNext ==
  ASSUME NoMarks, LedgerInv, NamesInv, [Next]_vars
  PROVE  NamesInv'
<1>1. ASSUME NEW file \in Files, NEW mapping \in Mappings, PreviewImport(file, mapping)
      PROVE  NamesInv'
  <2> DEFINE txs == Parse(file, mapping, rules).transactions
             preview == [file |-> file, mapping |-> mapping, transactions |-> txs]
  <2>1. previews' = previews \cup {preview} /\ rows' = rows
    BY <1>1 DEF PreviewImport
  <2>2. \A i \in DOMAIN txs : PlainName(txs[i].merchant)
    BY NamesRead DEF LedgerInv, TypeOK, GoodRules
  <2> HIDE DEF txs
  <2>3. preview.transactions = txs
    OBVIOUS
  <2> HIDE DEF preview
  <2> QED  BY <2>1, <2>2, <2>3 DEF NamesInv
<1>2. ASSUME NEW preview \in previews, CommitImport(preview) PROVE NamesInv'
  <2>1. /\ previews' = previews \ {preview}
        /\ rows' = ImportTransactions(rows, preview.transactions)
    BY <1>2 DEF CommitImport
  <2>2. /\ rows \in Seq(Range(rows))
        /\ preview.transactions \in Seq(Range(preview.transactions))
        /\ \A i \in DOMAIN rows : TransactionType(rows[i]) /\ PlainName(rows[i].merchant)
        /\ \A i \in DOMAIN preview.transactions :
             TransactionType(preview.transactions[i])
             /\ PlainName(preview.transactions[i].merchant)
    BY DEF LedgerInv, TypeOK, NamesInv
  <2> DEFINE X == Range(rows) \cup Range(preview.transactions)
  <2>3. rows \in Seq(X) /\ preview.transactions \in Seq(X)
    BY <2>2, SeqMonotonic
  <2>4. \A tx \in X : PlainName(tx.merchant)
    BY <2>2 DEF Range
  <2> HIDE DEF X
  <2>5. rows' \in Seq(X)
    BY <2>1, <2>3, Imported
  <2>6. \A i \in DOMAIN rows' : rows'[i] \in X
    BY <2>5
  <2> QED  BY <2>1, <2>4, <2>6 DEF NamesInv
<1>3. ASSUME NEW id \in DOMAIN rows, NEW category \in Choosable, NEW remember \in BOOLEAN,
             SetCategory(id, category, remember)
      PROVE  NamesInv'
  <2>1. rows' = [rows EXCEPT ![id].category = category] /\ previews' = previews
    BY <1>3 DEF SetCategory
  <2>2. \A i \in DOMAIN rows' : i \in DOMAIN rows /\ rows'[i].merchant = rows[i].merchant
    BY <2>1 DEF LedgerInv, TypeOK, TransactionType
  <2> QED  BY <2>1, <2>2 DEF NamesInv
<1>4. ASSUME rows' = rows, previews' \subseteq previews PROVE NamesInv'
  BY <1>4 DEF NamesInv
<1>5. CASE UNCHANGED vars
  BY <1>4, <1>5 DEF vars
<1> QED
  BY <1>1, <1>2, <1>3, <1>4, <1>5
  DEF Next, LosePreview, SaveRule, SaveRuleFails, PutProfile

(* What a list of rows holds is among the rows.                               *)
LEMMA ListedRows ==
  ASSUME NEW table, Len(table) \in Nat, NEW limit \in Nat
  PROVE  \E n \in Nat : DOMAIN ListTransactions(table, limit) = 1 .. n
<1>1. PICK n \in Nat : n = Min({limit, Len(table)})
  BY LowerOfTwo
<1> QED  BY <1>1 DEF ListTransactions

LEMMA NamesStay ==
  ASSUME LedgerInv, NamesInv
  PROVE  MerchantsStayHome
<1> DEFINE txs == ListTransactions(rows, ReviewRows)
           merchants == {rows[i].merchant : i \in DOMAIN rows} \ {<<c>> : c \in Categories}
<1>1. \A name \in merchants : PlainName(name) /\ name \notin {<<c>> : c \in Categories}
  BY DEF NamesInv
<1>2. ASSUME NEW name, PlainName(name)
      PROVE  name \notin {<<"pace">>, Masked} /\ \A i \in DOMAIN name : name[i] # "regret"
  <2>1. \A i \in DOMAIN name : name[i] \notin Marks
    <3>1. name \in Seq({Lower[w] : w \in Spelled})
      BY <1>2 DEF PlainName
    <3>2. \A i \in DOMAIN name : name[i] \in {Lower[w] : w \in Spelled}
      BY <3>1
    <3> QED  BY <3>2 DEF Spelled
  <2>2. DOMAIN <<"pace">> = {1} /\ <<"pace">>[1] = "pace" /\ DOMAIN Masked = {1}
    BY DEF Masked
  <2> QED  BY <2>1, <2>2 DEF Marks
<1>3. profile.reduce \in Seq(Range(profile.reduce))
  BY ProfilesReduce DEF LedgerInv
<1>4. PICK n \in Nat : DOMAIN txs = 1 .. n
  <2>1. Len(rows) \in Nat /\ ReviewRows \in Nat
    BY LedgerAssumption DEF LedgerInv, TypeOK
  <2> QED  BY <2>1, ListedRows
<1> HIDE DEF txs, merchants
<1>5. ASSUME NEW detected \in DetectSubscriptionCandidates(txs),
             NEW month \in Months, NEW today \in Days, NEW dashboard, NEW local,
             local = BuildReviewCandidates(month, today, profile, dashboard, txs, detected, Regrets),
             NEW k \in DOMAIN local
      PROVE  LET sent == ReviewPayload(profile, dashboard, txs, local).candidates[k]
             IN sent.label \notin merchants /\ sent.total = local[k].total
  <2>1. {"label", "total"} \subseteq DOMAIN local[k]
    <3>1. IsCandidate(local[k], txs, month, dashboard)
      BY <1>3, <1>4, <1>5, ReviewedCandidates
    <3> QED  BY <3>1 DEF IsCandidate
  <2>2. PICK sent : sent = ReviewPayload(profile, dashboard, txs, local).candidates[k]
    OBVIOUS
  <2>3. /\ sent.total = local[k].total
        /\ \/ sent.label \in {<<c>> : c \in Categories}
           \/ sent.label \in {<<"pace">>, Masked}
           \/ \E i \in DOMAIN sent.label : sent.label[i] = "regret"
    BY <2>1, <2>2, Masking
  <2>4. sent.label \notin merchants
    BY <1>1, <1>2, <2>3
  <2> QED  BY <2>2, <2>3, <2>4
<1> DEFINE Board(month) == MonthlyDashboard(rows, month, profile)
           Local(detected, month, today) ==
             BuildReviewCandidates(month, today, profile, Board(month), txs, detected, Regrets)
           Safe(detected, month, today, k) ==
             LET local == Local(detected, month, today)
                 sent == ReviewPayload(profile, Board(month), txs, local).candidates[k]
             IN sent.label \notin merchants /\ sent.total = local[k].total
<1>6. ASSUME NEW detected \in DetectSubscriptionCandidates(txs),
             NEW month \in Months, NEW today \in Days,
             NEW k \in DOMAIN Local(detected, month, today)
      PROVE  Safe(detected, month, today, k)
  <2>1. PICK dashboard : dashboard = Board(month)
    OBVIOUS
  <2>2. PICK local : local = Local(detected, month, today)
    OBVIOUS
  <2>3. /\ local = BuildReviewCandidates(month, today, profile, dashboard, txs, detected, Regrets)
        /\ k \in DOMAIN local
    BY <2>1, <2>2
  <2> HIDE DEF Board, Local
  <2> QED  BY <1>5, <2>1, <2>2, <2>3
<1>7. \A detected \in DetectSubscriptionCandidates(txs), month \in Months, today \in Days :
        \A k \in DOMAIN Local(detected, month, today) : Safe(detected, month, today, k)
  <2> HIDE DEF Safe, Local
  <2> QED  BY <1>6
<1> QED  BY <1>7, Zenon DEF MerchantsStayHome, txs, merchants

(* Whatever a file holds, what reaches the ledger is well formed: a day of a  *)
(* month looked at, an amount without a sign, a category of ours             *)
(* (importer.go:272-359).                                                    *)
THEOREM LedgerType == Spec => []TypeOK
<1>1. LedgerInv => TypeOK
  BY DEF LedgerInv
<1> QED  BY <1>1, LedgerInductive, PTL

(* The category a user chose stays until the user chooses another, however    *)
(* many overlapping files are imported after it (repository.go:246-343).      *)
THEOREM LedgerChoiceKept == Spec => []ChoiceKept
<1>1. LedgerInv => ChoiceKept
  BY DEF LedgerInv
<1> QED  BY <1>1, LedgerInductive, PTL

(* No file is counted twice: a file that was committed adds nothing when it    *)
(* is committed again, with files of any length, whatever was chosen and      *)
(* remembered since (importer.go:188-206, repository.go:246-270).             *)
THEOREM LedgerReimportAddsNothing == Spec => []ReimportAddsNothing
<1>1. LedgerInv => ReimportAddsNothing
  <2> SUFFICES ASSUME LedgerInv, NEW c \in committed
               PROVE  Len(ImportTransactions(rows, Parse(c.file, c.mapping, rules).transactions))
                        = Len(rows)
    BY Zenon DEF ReimportAddsNothing
  <2> DEFINE again == Parse(c.file, c.mapping, rules).transactions
  <2>1. /\ again \in Seq(Range(again))
        /\ \A i \in DOMAIN again : TransactionType(again[i])
        /\ KeysOf(again) = FileKeys(c.file, c.mapping)
    <3>1. c.file \in Files /\ GoodRules(rules)
      BY DEF LedgerInv, TypeOK, GoodRules
    <3> QED  BY <3>1, FileRead
  <2> HIDE DEF again
  <2>2. rows \in Seq(Range(rows)) /\ \A i \in DOMAIN rows : TransactionType(rows[i])
    BY DEF LedgerInv, TypeOK
  <2>3. PICK X : rows \in Seq(X) /\ again \in Seq(X)
    BY <2>1, <2>2, Together
  <2>4. KeysOf(again) \subseteq KeysOf(rows)
    BY <2>1 DEF LedgerInv, KeysInv
  <2>5. ImportTransactions(rows, again) = rows
    BY <2>3, <2>4, Imported
  <2> QED  BY <2>5 DEF again
<1> QED  BY <1>1, LedgerInductive, PTL

(* A purchase that is not advised against leaves the month's budget unspent   *)
(* once it is on the ledger, and a dearer one is never judged more mildly,    *)
(* for every budget, overdrawn ones too, and every ledger (spending.go:18-57,  *)
(* postgres/repository.go:382-438).                                          *)
THEOREM LedgerVerdictsSound == Spec => []VerdictsSound
<1>1. LedgerInv => VerdictsSound
  BY VerdictsFit DEF LedgerInv
<1> QED  BY <1>1, LedgerInductive, PTL

(* A review says what is on the ledger: a category's total is the dashboard's, *)
(* and its count the month's, whenever the latest transactions reach back to  *)
(* the month, and what is put forward as a subscription was paid twice, a     *)
(* month apart, however the sorts of the detection order equal keys           *)
(* (application.go:593-749, 870-886, postgres/repository.go:277-309, 382-438). *)
THEOREM LedgerReviewSound == Spec => []ReviewSound
<1>1. LedgerInv => ReviewSound
  BY ReviewsAgree DEF LedgerInv
<1> QED  BY <1>1, LedgerInductive, PTL

(* No merchant leaves with a review, whatever is on the ledger and whoever    *)
(* detects what, as long as no statement spells one of the fixed marks by     *)
(* which the code tells its own labels (application.go:602-690, 854-868).     *)
THEOREM LedgerMerchantsStayHome ==
  ASSUME NoMarks
  PROVE  Spec => []MerchantsStayHome
<1>1. Init => NamesInv
  <2>1. DOMAIN <<>> = {}
    OBVIOUS
  <2> QED  BY <2>1 DEF Init, NamesInv
<1>2. LedgerInv /\ NamesInv /\ [Next]_vars => NamesInv'
  BY NamesNext
<1>3. LedgerInv /\ NamesInv => MerchantsStayHome
  BY NamesStay
<1> QED  BY <1>1, <1>2, <1>3, LedgerInductive, PTL DEF Spec
=============================================================================
