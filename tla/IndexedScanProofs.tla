-------------------------- MODULE IndexedScanProofs --------------------------
(***************************************************************************)
(* A scan answers one content per file, for any number of scans, files and *)
(* contents: an object of the index keeps the content it is of, and every  *)
(* write into its arrays moves a name it already holds.                    *)
(*                                                                         *)
(* A scan that runs alone answers its query: nobody else writes into the   *)
(* arrays it compacts, so what it has passed is filtered, and what it has  *)
(* not is as it found it (AloneInv).                                       *)
(***************************************************************************)
EXTENDS IndexedScan, SequenceTheorems, TLAPS

Objects == [of: Contents, array: [Kinds -> Seq(Names)], length: [Kinds -> Nat]]

\* An object holds nothing but what its content declares.
Whole(f) ==
  /\ f \in Objects
  /\ \A k \in Kinds :
       /\ f.length[k] <= Len(f.array[k])
       /\ \A j \in 1..Len(f.array[k]) :
            \E i \in 1..Len(Declares[f.of][k]) : Declares[f.of][k][i] = f.array[k][j]

Indexes ==
  /\ source \in [Paths -> Contents]
  /\ facts \in [Paths -> Seq(Objects)]
  /\ \A p \in Paths : Len(facts[p]) > 0 /\ \A g \in 1..Len(facts[p]) : Whole(facts[p][g])
  /\ \A p \in Paths : Whole(snapshot[p])
  /\ snapshot \in [Paths -> Objects]

Query == [languages : SUBSET Languages, kinds : SUBSET Kinds, name : Names \cup {AnyName}]

ScanRecords ==
  [pc: {"idle", "pruning", "compacting", "done"}, query: Query, took: [Paths -> Nat],
   todo: SUBSET (Paths \X Kinds), at: (Paths \X Kinds) \cup {<<>>},
   items: Nat, i: Nat, kept: Nat, answer: SUBSET (Paths \X Kinds \X Names)]

\* A scan took objects that are there, of the paths it was asked for, and its
\* compaction writes behind what it reads.
Scanning(s) ==
  LET me == scan[s]
  IN  /\ \A p \in Paths : me.took[p] <= Len(facts[p])
      /\ me.pc # "idle" => \A p \in OfLanguage(me.query) : me.took[p] # 0
      /\ me.todo \subseteq OfLanguage(me.query) \X Kinds
      /\ me.pc = "compacting" =>
           /\ me.at \in OfLanguage(me.query) \X Kinds
           /\ me.items <= Len(facts[me.at[1]][me.took[me.at[1]]].array[me.at[2]])
      /\ me.pc # "compacting" => me.kept = 0 /\ me.i = 0
      /\ me.kept <= me.i /\ me.i <= me.items
      /\ me.pc = "done" => me.answer \subseteq Declared(s)

IInv ==
  /\ Indexes
  /\ scan \in [Scans -> ScanRecords]
  /\ \A s \in Scans : Scanning(s)

-----------------------------------------------------------------------------
(* The objects.                                                            *)

LEMMA ParsedIsWhole ==
  ASSUME NEW c \in Contents
  PROVE  Whole(Parsed(c))
<1>1. Declares[c] \in [Kinds -> Seq(Names)]
  BY IndexedScanAssumption
<1>2. Parsed(c) \in Objects
  BY <1>1 DEF Parsed, Objects
<1> QED
  BY <1>1, <1>2 DEF Parsed, Whole

LEMMA EncodeIsWhole ==
  ASSUME NEW f, Whole(f)
  PROVE  Whole(Encode(f))
<1> DEFINE cut(k) == SubSeq(f.array[k], 1, f.length[k])
           array == [k \in Kinds |-> cut(k)]
<1>1. ASSUME NEW k \in Kinds
      PROVE  /\ cut(k) \in Seq(Names) /\ Len(cut(k)) = f.length[k]
             /\ \A j \in 1..f.length[k] : j \in 1..Len(f.array[k]) /\ cut(k)[j] = f.array[k][j]
  <2>1. f.array[k] \in Seq(Names) /\ f.length[k] \in Nat /\ f.length[k] <= Len(f.array[k])
    BY DEF Whole, Objects
  <2>2. \A i \in 1..f.length[k] : i \in 1..Len(f.array[k]) /\ f.array[k][i] \in Names
    BY <2>1
  <2>3. /\ cut(k) \in Seq(Names)
        /\ Len(cut(k)) = IF 1 <= f.length[k] THEN f.length[k] - 1 + 1 ELSE 0
        /\ \A i \in 1..(f.length[k] - 1 + 1) : cut(k)[i] = f.array[k][1 + i - 1]
    BY <2>1, <2>2, SubSeqProperties
  <2> HIDE DEF cut
  <2>4. Len(cut(k)) = f.length[k]
    BY <2>1, <2>3
  <2>5. \A i \in 1..f.length[k] : cut(k)[i] = f.array[k][i]
    <3>1. f.length[k] - 1 + 1 = f.length[k]
      BY <2>1
    <3>2. \A i \in 1..f.length[k] : 1 + i - 1 = i
      BY <2>1
    <3> QED
      BY <2>3, <3>1, <3>2
  <2> QED
    BY <2>2, <2>3, <2>4, <2>5
<1> HIDE DEF cut
<1>2. Encode(f) = [f EXCEPT !.array = array]
  BY DEF Encode, cut
<1>3. array \in [Kinds -> Seq(Names)]
  BY <1>1
<1>4. f \in Objects
  BY DEF Whole
<1> HIDE DEF array
<1>5. [f EXCEPT !.array = array] \in Objects /\ [f EXCEPT !.array = array].of = f.of
      /\ [f EXCEPT !.array = array].array = array /\ [f EXCEPT !.array = array].length = f.length
  BY Zenon, <1>3, <1>4 DEF Objects
<1>6. ASSUME NEW k \in Kinds
      PROVE  /\ f.length[k] <= Len(array[k])
             /\ \A j \in 1..Len(array[k]) :
                  \E i \in 1..Len(Declares[f.of][k]) : Declares[f.of][k][i] = array[k][j]
  <2>1. array[k] = cut(k) /\ f.length[k] \in Nat
    BY <1>4 DEF array, Objects
  <2>2. \A j \in 1..Len(f.array[k]) :
          \E i \in 1..Len(Declares[f.of][k]) : Declares[f.of][k][i] = f.array[k][j]
    BY DEF Whole
  <2> QED
    BY <1>1, <2>1, <2>2
<1> QED
  BY <1>2, <1>5, <1>6 DEF Whole

\* The objects of a path are only added to, and none changes its content or
\* the size of an array.
Grown ==
  \A p \in Paths :
    /\ Len(facts'[p]) \in Nat /\ Len(facts[p]) <= Len(facts'[p])
    /\ \A g \in 1..Len(facts[p]) :
         /\ facts'[p][g].of = facts[p][g].of
         /\ \A k \in Kinds : Len(facts'[p][g].array[k]) = Len(facts[p][g].array[k])

\* A scan that no step touches is none the worse for the objects growing.
LEMMA ScanKept ==
  ASSUME IInv, Grown, NEW s \in Scans, scan'[s] = scan[s]
  PROVE  Scanning(s)'
<1> DEFINE me == scan[s]
<1>1. me \in ScanRecords /\ Scanning(s) /\ facts \in [Paths -> Seq(Objects)]
  BY DEF IInv, Indexes
<1>2. ASSUME NEW p \in Paths
      PROVE  me.took[p] \in Nat /\ Len(facts[p]) \in Nat /\ me.took[p] <= Len(facts[p])
  <2>1. me.took \in [Paths -> Nat] /\ facts[p] \in Seq(Objects)
    BY <1>1 DEF ScanRecords
  <2>2. me.took[p] <= Len(facts[p])
    BY <1>1 DEF Scanning
  <2> QED
    BY <2>1, <2>2
<1>3. \A p \in Paths : me.took[p] <= Len(facts'[p])
  BY <1>2 DEF Grown
<1>4. \A p \in Paths : me.took[p] # 0 => me.took[p] \in 1..Len(facts[p])
  BY <1>2
<1>5. me.pc = "compacting" =>
        me.items <= Len(facts'[me.at[1]][me.took[me.at[1]]].array[me.at[2]])
  <2> SUFFICES ASSUME me.pc = "compacting"
               PROVE  me.items <= Len(facts'[me.at[1]][me.took[me.at[1]]].array[me.at[2]])
    BY Zenon
  <2>1. me.at[1] \in Paths /\ me.at[2] \in Kinds /\ me.took[me.at[1]] # 0
    BY Zenon, <1>1 DEF Scanning, OfLanguage
  <2>2. me.took[me.at[1]] \in 1..Len(facts[me.at[1]])
    BY <1>4, <2>1
  <2>3. Len(facts'[me.at[1]][me.took[me.at[1]]].array[me.at[2]])
          = Len(facts[me.at[1]][me.took[me.at[1]]].array[me.at[2]])
    BY Zenon, <2>1, <2>2 DEF Grown
  <2> QED
    BY Zenon, <1>1, <2>3 DEF Scanning
<1>6. me.pc = "done" => me.answer \subseteq Declared(s)'
  <2> SUFFICES ASSUME NEW x \in Declared(s)
               PROVE  x \in Declared(s)'
    BY <1>1 DEF Scanning
  <2>1. PICK p \in Paths, k \in Kinds :
          /\ me.took[p] # 0
          /\ \E n \in ToSet(Declares[facts[p][me.took[p]].of][k]) : x = <<p, k, n>>
    BY DEF Declared
  <2>2. facts'[p][me.took[p]].of = facts[p][me.took[p]].of
    BY <1>4, <2>1 DEF Grown
  <2> DEFINE D(q, l) == {<<q, l, n>> : n \in ToSet(Declares[facts'[q][me.took[q]].of][l])}
             taken == {q \in Paths : me.took[q] # 0}
  <2>3. x \in D(p, k)
    BY Zenon, <2>1, <2>2
  <2>4. Declared(s)' = UNION {D(q, l) : q \in taken, l \in Kinds}
    BY DEF Declared
  <2>5. p \in taken
    BY <2>1
  <2> HIDE DEF D, taken
  <2>6. D(p, k) \in {D(q, l) : q \in taken, l \in Kinds}
    BY <2>1, <2>5
  <2> QED
    BY <2>3, <2>4, <2>6
<1> QED
  BY Zenon, <1>1, <1>3, <1>5, <1>6 DEF Scanning

\* One slice or one array of an object is overwritten.
LEMMA Overwritten ==
  ASSUME IInv, NEW p \in Paths, NEW g \in 1..Len(facts[p]), NEW f, Whole(f),
         f.of = facts[p][g].of,
         \A k \in Kinds : Len(f.array[k]) = Len(facts[p][g].array[k]),
         facts' = [facts EXCEPT ![p] = [facts[p] EXCEPT ![g] = f]],
         UNCHANGED <<source, snapshot>>
  PROVE  Indexes' /\ Grown
<1>1. facts \in [Paths -> Seq(Objects)] /\ facts[p] \in Seq(Objects) /\ f \in Objects
  BY DEF IInv, Indexes, Whole
<1> DEFINE seq == [facts[p] EXCEPT ![g] = f]
<1>2. seq \in Seq(Objects) /\ Len(seq) = Len(facts[p])
      /\ \A j \in 1..Len(facts[p]) : seq[j] = IF j = g THEN f ELSE facts[p][j]
  BY <1>1, ExceptSeq
<1> HIDE DEF seq
<1>3. facts' = [facts EXCEPT ![p] = seq]
  BY DEF seq
<1>4. facts' \in [Paths -> Seq(Objects)]
  BY <1>1, <1>2, <1>3
<1>5. \A q \in Paths : /\ Len(facts'[q]) = Len(facts[q])
                       /\ \A j \in 1..Len(facts[q]) :
                            facts'[q][j] = IF q = p /\ j = g THEN f ELSE facts[q][j]
  BY <1>1, <1>2, <1>3
<1>6. \A q \in Paths : Len(facts[q]) > 0 /\ Len(facts[q]) \in Nat
                       /\ \A j \in 1..Len(facts[q]) : Whole(facts[q][j])
  BY <1>1 DEF IInv, Indexes
<1>7. \A q \in Paths : Len(facts'[q]) > 0 /\ \A j \in 1..Len(facts'[q]) : Whole(facts'[q][j])
  BY <1>5, <1>6
<1>8. Indexes'
  <2>1. /\ source' \in [Paths -> Contents] /\ snapshot' \in [Paths -> Objects]
        /\ \A q \in Paths : Whole(snapshot'[q])
    BY DEF IInv, Indexes
  <2> QED
    BY <1>4, <1>7, <2>1 DEF Indexes
<1>9. Grown
  BY <1>5, <1>6 DEF Grown
<1> QED
  BY <1>8, <1>9

\* A new object for some of the paths.
LEMMA Added ==
  ASSUME IInv, NEW S \in SUBSET Paths, NEW new, \A p \in S : Whole(new[p]),
         facts' = [p \in Paths |-> IF p \in S THEN Append(facts[p], new[p]) ELSE facts[p]],
         source' \in [Paths -> Contents],
         UNCHANGED snapshot
  PROVE  Indexes' /\ Grown
<1>1. facts \in [Paths -> Seq(Objects)] /\ \A p \in S : new[p] \in Objects
  BY DEF IInv, Indexes, Whole
<1>2. ASSUME NEW p \in S
      PROVE  /\ Append(facts[p], new[p]) \in Seq(Objects)
             /\ Len(Append(facts[p], new[p])) = Len(facts[p]) + 1
             /\ \A j \in 1..Len(facts[p]) : Append(facts[p], new[p])[j] = facts[p][j]
             /\ Append(facts[p], new[p])[Len(facts[p]) + 1] = new[p]
  BY <1>1, AppendProperties
<1>3. facts' \in [Paths -> Seq(Objects)]
  BY <1>1, <1>2
<1>4. ASSUME NEW p \in Paths
      PROVE  /\ Len(facts'[p]) > 0 /\ Len(facts[p]) <= Len(facts'[p]) /\ Len(facts'[p]) \in Nat
             /\ \A j \in 1..Len(facts[p]) : facts'[p][j] = facts[p][j]
             /\ \A j \in 1..Len(facts'[p]) : Whole(facts'[p][j])
  <2>1. Len(facts[p]) > 0 /\ Len(facts[p]) \in Nat /\ \A j \in 1..Len(facts[p]) : Whole(facts[p][j])
    BY <1>1 DEF IInv, Indexes
  <2>2. CASE p \in S
    <3>1. facts'[p] = Append(facts[p], new[p])
      BY <2>2
    <3>2. /\ Len(facts'[p]) = Len(facts[p]) + 1
          /\ \A j \in 1..Len(facts[p]) : facts'[p][j] = facts[p][j]
          /\ facts'[p][Len(facts[p]) + 1] = new[p]
      BY <1>2, <2>2, <3>1
    <3>3. ASSUME NEW j \in 1..Len(facts'[p])
          PROVE  Whole(facts'[p][j])
      <4>1. j \in 1..Len(facts[p]) \/ j = Len(facts[p]) + 1
        BY <2>1, <3>2
      <4> QED
        BY <2>1, <2>2, <3>2, <4>1
    <3> QED
      BY <2>1, <3>2, <3>3
  <2>3. CASE p \notin S
    <3>1. facts'[p] = facts[p]
      BY <2>3
    <3> QED
      BY <2>1, <3>1
  <2> QED
    BY <2>2, <2>3
<1>5. Indexes'
  <2>1. /\ source' \in [Paths -> Contents] /\ snapshot' \in [Paths -> Objects]
        /\ \A q \in Paths : Whole(snapshot'[q])
    BY DEF IInv, Indexes
  <2> QED
    BY <1>3, <1>4, <2>1 DEF Indexes
<1>6. Grown
  BY <1>4 DEF Grown
<1> QED
  BY <1>5, <1>6

-----------------------------------------------------------------------------
(* The steps.                                                              *)

\* A step that only changes what one scan holds, or none.
LEMMA StepKeeps ==
  ASSUME IInv, Indexes', Grown, NEW s \in Scans, NEW rec \in ScanRecords,
         scan' = [scan EXCEPT ![s] = rec], Scanning(s)'
  PROVE  IInv'
<1>1. scan \in [Scans -> ScanRecords]
  BY DEF IInv
<1>2. \A t \in Scans : t # s => Scanning(t)'
  BY <1>1, ScanKept
<1> QED
  BY <1>1, <1>2 DEF IInv

LEMMA GrowKeeps ==
  ASSUME IInv, Indexes', Grown, UNCHANGED scan
  PROVE  IInv'
BY ScanKept DEF IInv

LEMMA SameIsGrown ==
  ASSUME IInv, UNCHANGED <<source, facts, snapshot>>
  PROVE  Indexes' /\ Grown
<1>1. \A p \in Paths : Len(facts[p]) \in Nat
  BY DEF IInv, Indexes
<1>2. Grown
  BY <1>1 DEF Grown
<1>3. Indexes'
  BY DEF IInv, Indexes
<1> QED
  BY <1>2, <1>3

LEMMA NoScanIsFine ==
  /\ NoScan \in ScanRecords /\ NoScan.pc = "idle"
  /\ NoScan.todo = {} /\ NoScan.kept = 0 /\ NoScan.i = 0 /\ NoScan.items = 0
  /\ \A p \in Paths : NoScan.took[p] = 0
BY DEF NoScan, ScanRecords, Query

LEMMA InitIInv == Init => IInv
<1> SUFFICES ASSUME Init
             PROVE  IInv
  OBVIOUS
<1>1. source \in [Paths -> Contents]
  BY DEF Init
<1>2. \A p \in Paths : Whole(Parsed(source[p])) /\ Parsed(source[p]) \in Objects
  BY <1>1, ParsedIsWhole DEF Whole
<1>3. facts \in [Paths -> Seq(Objects)] /\ facts = [p \in Paths |-> <<Parsed(source[p])>>]
  BY <1>2 DEF Init
<1>4. ASSUME NEW p \in Paths
      PROVE  /\ Len(facts[p]) = 1
             /\ \A g \in 1..Len(facts[p]) : Whole(facts[p][g])
  <2> DEFINE obj == Parsed(source[p])
  <2>1. facts[p] = <<obj>>
    BY <1>3
  <2>2. Whole(obj)
    BY <1>2
  <2> HIDE DEF obj
  <2> QED
    BY <2>1, <2>2
<1>5. snapshot \in [Paths -> Objects] /\ \A p \in Paths : Whole(snapshot[p])
  BY <1>2 DEF Init
<1>6. scan \in [Scans -> ScanRecords] /\ \A s \in Scans : scan[s] = NoScan
  BY NoScanIsFine DEF Init
<1>7. \A s \in Scans : Scanning(s)
  BY <1>4, <1>6, NoScanIsFine DEF Scanning
<1> QED
  BY <1>1, <1>3, <1>4, <1>5, <1>6, <1>7 DEF IInv, Indexes

LEMMA IndexSteps ==
  ASSUME IInv, Edit \/ Refresh \/ Save \/ Restart
  PROVE  IInv'
<1>0. /\ source \in [Paths -> Contents] /\ facts \in [Paths -> Seq(Objects)]
      /\ snapshot \in [Paths -> Objects]
      /\ \A p \in Paths : Len(facts[p]) > 0 /\ \A g \in 1..Len(facts[p]) : Whole(facts[p][g])
      /\ \A p \in Paths : Whole(snapshot[p])
  BY DEF IInv, Indexes
<1>1. CASE Edit
  <2>1. source' \in [Paths -> Contents] /\ UNCHANGED <<facts, snapshot>> /\ UNCHANGED scan
    BY <1>0, <1>1 DEF Edit
  <2>2. \A p \in Paths : Len(facts[p]) \in Nat
    BY <1>0
  <2>3. Grown
    BY <2>1, <2>2 DEF Grown
  <2>4. Indexes'
    BY <1>0, <2>1 DEF Indexes
  <2> QED
    BY <2>1, <2>3, <2>4, GrowKeeps
<1>2. CASE Refresh
  <2> DEFINE new == [p \in Paths |-> Parsed(source[p])]
  <2>1. /\ facts' = [p \in Paths |-> IF p \in Stale THEN Append(facts[p], new[p]) ELSE facts[p]]
        /\ UNCHANGED <<source, snapshot>> /\ UNCHANGED scan
    BY <1>2 DEF Refresh, Publish
  <2>2. Stale \in SUBSET Paths /\ \A p \in Stale : Whole(new[p])
    BY <1>0, ParsedIsWhole DEF Stale
  <2> HIDE DEF new
  <2>3. Indexes' /\ Grown
    BY Zenon, <1>0, <2>1, <2>2, Added
  <2> QED
    BY <2>1, <2>3, GrowKeeps
<1>3. CASE Save
  <2>1. /\ snapshot' = [p \in Paths |-> Encode(Indexed(p))]
        /\ UNCHANGED <<source, facts>> /\ UNCHANGED scan
    BY <1>3 DEF Save
  <2>2. ASSUME NEW p \in Paths
        PROVE  Whole(Encode(Indexed(p)))
    <3>1. Len(facts[p]) \in 1..Len(facts[p])
      BY <1>0
    <3>2. Indexed(p) = facts[p][Len(facts[p])]
      BY DEF Indexed, Last
    <3> QED
      BY <1>0, <3>1, <3>2, EncodeIsWhole
  <2>3. snapshot' \in [Paths -> Objects] /\ \A p \in Paths : Whole(snapshot'[p])
    BY <2>1, <2>2 DEF Whole
  <2>4. Indexes'
    BY <1>0, <2>1, <2>3 DEF Indexes
  <2>5. \A p \in Paths : Len(facts[p]) \in Nat
    BY <1>0
  <2>6. Grown
    BY <2>1, <2>5 DEF Grown
  <2> QED
    BY <2>1, <2>4, <2>6, GrowKeeps
<1>4. CASE Restart
  <2>1. /\ facts' = [p \in Paths |-> Append(facts[p], snapshot[p])]
        /\ scan' = [s \in Scans |-> NoScan] /\ UNCHANGED <<source, snapshot>>
    BY <1>4 DEF Restart
  <2>2. facts' = [p \in Paths |-> IF p \in Paths THEN Append(facts[p], snapshot[p]) ELSE facts[p]]
    BY <2>1
  <2>3. Indexes' /\ Grown
    BY Zenon, <1>0, <2>1, <2>2, Added
  <2>4. \A p \in Paths : Len(facts'[p]) \in Nat
    BY <2>3 DEF Grown
  <2>5. scan' \in [Scans -> ScanRecords] /\ \A s \in Scans : scan'[s] = NoScan
    BY <2>1, NoScanIsFine
  <2>6. ASSUME NEW s \in Scans
        PROVE  Scanning(s)'
    <3>1. scan'[s] = NoScan
      BY <2>5
    <3> QED
      BY <2>4, <3>1, NoScanIsFine DEF Scanning
  <2> QED
    BY <2>3, <2>5, <2>6 DEF IInv
<1> QED
  BY <1>1, <1>2, <1>3, <1>4

LEMMA BeginKeeps ==
  ASSUME IInv, NEW s \in Scans, NEW q \in Queries, Begin(s, q)
  PROVE  IInv'
<1> DEFINE took == [p \in Paths |-> IF p \in OfLanguage(q) THEN Len(facts[p]) ELSE 0]
           todo == OfLanguage(q) \X Kinds
           rec == [[[[NoScan EXCEPT !.pc = "pruning"] EXCEPT !.query = q] EXCEPT !.todo = todo]
                     EXCEPT !.took = took]
<1>1. scan' = [scan EXCEPT ![s] = rec] /\ UNCHANGED <<source, facts, snapshot>>
  BY DEF Begin, Others, NoScan
<1>2. \A p \in Paths : Len(facts[p]) \in Nat /\ Len(facts[p]) > 0
  BY DEF IInv, Indexes
<1>3. /\ took \in [Paths -> Nat] /\ \A p \in Paths : took[p] <= Len(facts[p])
      /\ \A p \in OfLanguage(q) : took[p] # 0
      /\ todo \in SUBSET (Paths \X Kinds)
  BY <1>2 DEF OfLanguage
<1>4. q \in Query
  BY IndexedScanAssumption DEF Query
<1> HIDE DEF took
<1>5. /\ rec \in ScanRecords /\ rec.pc = "pruning" /\ rec.query = q /\ rec.todo = todo
      /\ rec.took = took /\ rec.kept = 0 /\ rec.i = 0 /\ rec.items = 0
  BY Zenon, <1>3, <1>4, NoScanIsFine DEF ScanRecords
<1> HIDE DEF rec
<1>6. scan'[s] = rec
  BY <1>1 DEF IInv
<1>7. Scanning(s)'
  <2>1. /\ \A p \in Paths : rec.took[p] <= Len(facts'[p])
        /\ \A p \in OfLanguage(rec.query) : rec.took[p] # 0
        /\ rec.todo \subseteq OfLanguage(rec.query) \X Kinds
        /\ rec.pc # "compacting" /\ rec.pc # "done" /\ rec.kept = 0 /\ rec.i = 0 /\ rec.items = 0
    BY Zenon, <1>1, <1>3, <1>5
  <2>2. rec.kept <= rec.i /\ rec.i <= rec.items
    BY <2>1
  <2> HIDE DEF todo
  <2> QED
    BY Zenon, <1>6, <2>1, <2>2 DEF Scanning, OfLanguage
<1> QED
  BY Zenon, <1>1, <1>5, <1>7, SameIsGrown, StepKeeps

\* What a scan that is at group k of path p writes to.
LEMMA TakenIsThere ==
  ASSUME IInv, NEW s \in Scans, NEW p \in OfLanguage(scan[s].query), scan[s].pc # "idle"
  PROVE  /\ p \in Paths /\ scan[s].took[p] \in 1..Len(facts[p])
         /\ Whole(facts[p][scan[s].took[p]])
<1>1. scan[s] \in ScanRecords /\ Scanning(s) /\ p \in Paths
  BY DEF IInv, OfLanguage
<1>2. scan[s].took[p] \in Nat /\ scan[s].took[p] # 0 /\ scan[s].took[p] <= Len(facts[p])
  BY <1>1 DEF ScanRecords, Scanning
<1>3. Len(facts[p]) \in Nat
  BY <1>1 DEF IInv, Indexes
<1>4. scan[s].took[p] \in 1..Len(facts[p])
  BY <1>2, <1>3
<1> QED
  BY <1>1, <1>4 DEF IInv, Indexes

\* The length of a slice is set, within its array.
LEMMA LengthSet ==
  ASSUME IInv, NEW s \in Scans, NEW p \in OfLanguage(scan[s].query), scan[s].pc # "idle",
         NEW k \in Kinds, NEW n \in Nat, n <= Len(facts[p][scan[s].took[p]].array[k]),
         SetLength(s, p, k, n), UNCHANGED <<source, snapshot>>
  PROVE  Indexes' /\ Grown
<1> DEFINE g == scan[s].took[p]
           obj == facts[p][g]
           f == [obj EXCEPT !.length = [obj.length EXCEPT ![k] = n]]
<1>1. p \in Paths /\ g \in 1..Len(facts[p]) /\ Whole(obj)
  BY TakenIsThere
<1>2. facts \in [Paths -> Seq(Objects)] /\ facts[p] \in Seq(Objects) /\ obj \in Objects
  BY <1>1 DEF IInv, Indexes, Whole
<1>3. facts' = [facts EXCEPT ![p] = [facts[p] EXCEPT ![g] = f]]
  <2>1. facts' = [facts EXCEPT ![p][g].length[k] = n]
    BY DEF SetLength
  <2> QED
    BY <1>1, <1>2, <2>1 DEF Objects
<1>4. [obj.length EXCEPT ![k] = n] \in [Kinds -> Nat]
  BY Zenon, <1>2 DEF Objects
<1>5. f \in Objects /\ f.of = obj.of /\ f.array = obj.array /\ f.length = [obj.length EXCEPT ![k] = n]
  BY Zenon, <1>2, <1>4 DEF Objects
<1>6. \A l \in Kinds : f.length[l] <= Len(f.array[l])
  BY Zenon, <1>1, <1>2, <1>5 DEF Whole, Objects
<1> HIDE DEF f
<1>7. Whole(f)
  <2>1. \A l \in Kinds : \A j \in 1..Len(obj.array[l]) :
          \E i \in 1..Len(Declares[obj.of][l]) : Declares[obj.of][l][i] = obj.array[l][j]
    BY Zenon, <1>1 DEF Whole
  <2> HIDE DEF obj
  <2> QED
    BY <1>5, <1>6, <2>1 DEF Whole
<1> QED
  BY Zenon, <1>1, <1>3, <1>5, <1>7, Overwritten

LEMMA VisitKeeps ==
  ASSUME IInv, NEW s \in Scans, Visit(s)
  PROVE  IInv'
<1> DEFINE me == scan[s]
<1>1. PICK g \in Visitable(s) :
        LET p == g[1]
            k == g[2]
            n == facts[p][me.took[p]].length[k]
            left == [me EXCEPT !.todo = @ \ {g}]
        IN IF DropsKind(me.query, k)
             THEN SetLength(s, p, k, 0) /\ scan' = [scan EXCEPT ![s] = left]
           ELSE /\ scan' = [scan EXCEPT ![s] =
                     IF n = 0 \/ me.query.name = AnyName THEN left
                     ELSE [left EXCEPT !.pc = "compacting", !.at = g, !.items = n]]
                /\ UNCHANGED facts
  BY Zenon DEF Visit
<1> DEFINE p == g[1]
           k == g[2]
           n == facts[p][me.took[p]].length[k]
           left == [me EXCEPT !.todo = @ \ {g}]
           next == [[[left EXCEPT !.pc = "compacting"] EXCEPT !.at = g] EXCEPT !.items = n]
<1>2. me \in ScanRecords /\ Scanning(s) /\ me.pc = "pruning" /\ UNCHANGED <<source, snapshot>>
      /\ scan \in [Scans -> ScanRecords]
  BY DEF IInv, Visit, Others
<1>3. g \in OfLanguage(me.query) \X Kinds
  BY <1>2 DEF Visitable, Scanning
<1>4. p \in OfLanguage(me.query) /\ k \in Kinds /\ g \in Paths \X Kinds
  BY <1>3 DEF OfLanguage
<1>5. Whole(facts[p][me.took[p]]) /\ me.took[p] \in 1..Len(facts[p])
  BY <1>2, <1>4, TakenIsThere
<1>6. n \in Nat /\ n <= Len(facts[p][me.took[p]].array[k])
  BY Zenon, <1>4, <1>5 DEF Whole, Objects
<1>7. /\ left \in ScanRecords /\ left.pc = "pruning" /\ left.todo \subseteq me.todo
      /\ left.query = me.query /\ left.took = me.took /\ left.at = me.at
      /\ left.kept = me.kept /\ left.i = me.i /\ left.items = me.items
  BY Zenon, <1>2 DEF ScanRecords
<1>8. ASSUME Grown, scan'[s] = left
      PROVE  Scanning(s)'
  <2>1. \A q \in Paths : me.took[q] \in Nat /\ me.took[q] <= Len(facts[q]) /\ Len(facts[q]) \in Nat
    <3>1. me.took \in [Paths -> Nat]
      BY Zenon, <1>2 DEF ScanRecords
    <3>2. \A q \in Paths : me.took[q] <= Len(facts[q])
      BY Zenon, <1>2 DEF Scanning
    <3>3. facts \in [Paths -> Seq(Objects)]
      BY DEF IInv, Indexes
    <3> HIDE DEF me
    <3> QED
      BY <3>1, <3>2, <3>3
  <2>2. \A q \in Paths : me.took[q] <= Len(facts'[q])
    BY <1>8, <2>1 DEF Grown
  <2> HIDE DEF left
  <2> QED
    BY <1>2, <1>7, <1>8, <2>2 DEF Scanning, OfLanguage
<1>9. CASE DropsKind(me.query, k)
  <2>1. SetLength(s, p, k, 0) /\ scan' = [scan EXCEPT ![s] = left]
    BY <1>1, <1>9
  <2>2. 0 \in Nat /\ 0 <= Len(facts[p][me.took[p]].array[k])
    <3> DEFINE obj == facts[p][me.took[p]]
    <3>1. Whole(obj)
      BY <1>5
    <3> HIDE DEF obj
    <3>2. obj.array[k] \in Seq(Names)
      BY <1>4, <3>1 DEF Whole, Objects
    <3>3. 0 <= Len(obj.array[k])
      BY <3>2
    <3> QED
      BY <3>3 DEF obj
  <2>3. Indexes' /\ Grown
    BY <1>2, <1>4, <2>1, <2>2, LengthSet
  <2> HIDE DEF left
  <2> QED
    BY Zenon, <1>2, <1>7, <1>8, <2>1, <2>3, StepKeeps
<1>10. CASE ~DropsKind(me.query, k)
  <2>1. Indexes' /\ Grown /\ UNCHANGED facts
    BY <1>1, <1>2, <1>10, SameIsGrown
  <2>2. CASE n = 0 \/ me.query.name = AnyName
    <3>1. scan' = [scan EXCEPT ![s] = left]
      BY <1>1, <1>10, <2>2
    <3> HIDE DEF left
    <3> QED
      BY Zenon, <1>2, <1>7, <1>8, <2>1, <3>1, StepKeeps
  <2>3. CASE ~(n = 0 \/ me.query.name = AnyName)
    <3>1. scan' = [scan EXCEPT ![s] = [left EXCEPT !.pc = "compacting", !.at = g, !.items = n]]
      BY <1>1, <1>10, <2>3
    <3>2. [left EXCEPT !.pc = "compacting", !.at = g, !.items = n] = next
      OBVIOUS
    <3> HIDE DEF left, n
    <3>3. /\ next \in ScanRecords /\ next.pc = "compacting" /\ next.at = g /\ next.items = n
          /\ next.todo = left.todo /\ next.query = me.query /\ next.took = me.took
          /\ next.kept = me.kept /\ next.i = me.i
      BY Zenon, <1>4, <1>6, <1>7 DEF ScanRecords
    <3> HIDE DEF next
    <3>4. scan'[s] = next
      BY <1>2, <3>1, <3>2
    <3>5. me.i = 0 /\ me.kept = 0
      BY <1>2 DEF Scanning
    <3>6. \A q \in Paths : me.took[q] <= Len(facts'[q])
      BY <1>2, <2>1 DEF Scanning
    <3>7. next.todo \subseteq OfLanguage(me.query) \X Kinds
      BY <1>2, <1>7, <3>3 DEF Scanning
    <3>8. n <= Len(facts'[g[1]][me.took[g[1]]].array[g[2]])
      BY <1>6, <2>1
    <3>9. \A q \in OfLanguage(me.query) : me.took[q] # 0
      BY <1>2 DEF Scanning
    <3>10. n \in Nat
      BY <1>6
    <3>11. /\ \A q \in Paths : next.took[q] <= Len(facts'[q])
           /\ \A q \in OfLanguage(next.query) : next.took[q] # 0
           /\ next.todo \subseteq OfLanguage(next.query) \X Kinds
           /\ next.at \in OfLanguage(next.query) \X Kinds
           /\ next.items <= Len(facts'[next.at[1]][next.took[next.at[1]]].array[next.at[2]])
           /\ next.kept <= next.i /\ next.i <= next.items
           /\ next.pc = "compacting"
      BY <1>3, <3>3, <3>5, <3>6, <3>7, <3>8, <3>9, <3>10
    <3>12. Scanning(s)'
      BY <3>4, <3>11 DEF Scanning, OfLanguage
    <3> QED
      BY Zenon, <2>1, <3>1, <3>2, <3>3, <3>12, StepKeeps
  <2> QED
    BY <2>2, <2>3
<1> QED
  BY <1>9, <1>10

LEMMA CompactKeeps ==
  ASSUME IInv, NEW s \in Scans, Compact(s)
  PROVE  IInv'
<1> DEFINE me == scan[s]
           p == me.at[1]
           k == me.at[2]
           obj == facts[p][me.took[p]]
           it == obj.array[k][me.i + 1]
           moved == [[me EXCEPT !.i = @ + 1] EXCEPT !.kept = @ + 1]
           passed == [me EXCEPT !.i = @ + 1]
           array == [obj.array EXCEPT ![k] = [obj.array[k] EXCEPT ![me.kept + 1] = it]]
           f == [obj EXCEPT !.array = array]
<1>1. /\ me \in ScanRecords /\ Scanning(s) /\ me.pc = "compacting" /\ me.i < me.items
      /\ UNCHANGED <<source, snapshot>> /\ scan \in [Scans -> ScanRecords]
      /\ facts \in [Paths -> Seq(Objects)]
  BY Zenon DEF IInv, Indexes, Compact, Others
<1>2. p \in OfLanguage(me.query) /\ p \in Paths /\ k \in Kinds
  BY Zenon, <1>1 DEF Scanning, OfLanguage
<1>3. Whole(obj) /\ me.took[p] \in 1..Len(facts[p])
  BY <1>1, <1>2, TakenIsThere
<1>4. obj \in Objects /\ obj.array[k] \in Seq(Names)
  BY Zenon, <1>2, <1>3 DEF Whole, Objects
<1>5. /\ me.i \in Nat /\ me.kept \in Nat /\ me.items \in Nat /\ me.kept <= me.i
      /\ me.items <= Len(obj.array[k])
  BY Zenon, <1>1 DEF ScanRecords, Scanning
<1>6. me.i + 1 \in 1..Len(obj.array[k]) /\ me.kept + 1 \in 1..Len(obj.array[k])
      /\ me.i + 1 <= me.items /\ me.kept + 1 <= me.i + 1
      /\ me.i + 1 \in Nat /\ me.kept + 1 \in Nat
  <2> DEFINE l == Len(obj.array[k])
             i == me.i
             kept == me.kept
             items == me.items
  <2>1. l \in Nat
    <3> DEFINE names == obj.array[k]
    <3>1. names \in Seq(Names)
      BY Zenon, <1>4
    <3> HIDE DEF names
    <3>2. Len(names) \in Nat
      BY <3>1
    <3> QED
      BY Zenon, <3>2 DEF names
  <2>2. /\ i \in Nat /\ kept \in Nat /\ items \in Nat /\ kept <= i /\ items <= l /\ i < items
    BY Zenon, <1>1, <1>5
  <2> HIDE DEF l, i, kept, items
  <2>3. /\ i + 1 \in 1..l /\ kept + 1 \in 1..l /\ i + 1 <= items /\ kept + 1 <= i + 1
        /\ i + 1 \in Nat /\ kept + 1 \in Nat
    BY <2>1, <2>2
  <2> QED
    BY Zenon, <2>3 DEF l, i, kept, items
<1>7. ASSUME NEW rec \in ScanRecords, Grown, scan'[s] = rec, rec.pc = me.pc, rec.query = me.query,
             rec.took = me.took, rec.todo = me.todo, rec.at = me.at, rec.items = me.items,
             rec.kept <= rec.i, rec.i <= rec.items
      PROVE  Scanning(s)'
  <2>1. ASSUME NEW q \in Paths
        PROVE  me.took[q] <= Len(facts'[q])
    <3>1. me.took[q] \in Nat /\ Len(facts[q]) \in Nat
      <4>1. me.took \in [Paths -> Nat] /\ facts[q] \in Seq(Objects)
        BY <1>1 DEF ScanRecords
      <4> QED
        BY <4>1
    <3>2. me.took[q] <= Len(facts[q]) /\ Len(facts[q]) <= Len(facts'[q]) /\ Len(facts'[q]) \in Nat
      BY Zenon, <1>1, <1>7 DEF Scanning, Grown
    <3> QED
      BY <3>1, <3>2
  <2>2. Len(facts'[p][me.took[p]].array[k]) = Len(obj.array[k])
    BY Zenon, <1>2, <1>3, <1>7 DEF Grown
  <2>3. me.items <= Len(facts'[p][me.took[p]].array[k])
    BY Zenon, <1>5, <2>2
  <2> HIDE DEF obj, it, moved, passed, f, array
  <2> QED
    BY Zenon, <1>1, <1>7, <2>1, <2>3 DEF Scanning, OfLanguage
<1>8. CASE it = me.query.name
  <2>1. /\ facts' = [facts EXCEPT ![p][me.took[p]].array[k][me.kept + 1] = it]
        /\ scan' = [scan EXCEPT ![s].i = @ + 1, ![s].kept = @ + 1]
    BY Zenon, <1>8 DEF Compact
  <2>2. scan' = [scan EXCEPT ![s] = moved]
    BY Zenon, <1>1, <2>1 DEF ScanRecords
  <2>3. facts' = [facts EXCEPT ![p] = [facts[p] EXCEPT ![me.took[p]] = f]]
    BY Zenon, <1>1, <1>2, <1>3, <1>4, <2>1 DEF Objects
  <2>4. it \in Names
    <3> HIDE DEF obj
    <3> QED
      BY <1>4, <1>6
  <2> DEFINE seq == [obj.array[k] EXCEPT ![me.kept + 1] = it]
  <2>5. /\ seq \in Seq(Names) /\ Len(seq) = Len(obj.array[k])
        /\ \A j \in 1..Len(obj.array[k]) : seq[j] = IF j = me.kept + 1 THEN it ELSE obj.array[k][j]
    <3> HIDE DEF it, obj
    <3> QED
      BY <1>4, <1>6, <2>4, ExceptSeq
  <2>6. \A j \in 1..Len(seq) :
          \E i \in 1..Len(Declares[obj.of][k]) : Declares[obj.of][k][i] = seq[j]
    <3>1. \A j \in 1..Len(obj.array[k]) :
            \E i \in 1..Len(Declares[obj.of][k]) : Declares[obj.of][k][i] = obj.array[k][j]
      BY Zenon, <1>2, <1>3 DEF Whole
    <3>2. \E i \in 1..Len(Declares[obj.of][k]) : Declares[obj.of][k][i] = it
      BY Zenon, <1>6, <3>1
    <3> HIDE DEF seq, obj, it
    <3> QED
      BY <2>5, <3>1, <3>2
  <2>7. array = [obj.array EXCEPT ![k] = seq]
    OBVIOUS
  <2>8. /\ array \in [Kinds -> Seq(Names)]
        /\ \A l \in Kinds : array[l] = IF l = k THEN seq ELSE obj.array[l]
    <3>1. obj.array \in [Kinds -> Seq(Names)]
      BY Zenon, <1>4 DEF Objects
    <3> HIDE DEF seq, obj, array
    <3> QED
      BY <1>2, <2>5, <2>7, <3>1
  <2>9. f \in Objects /\ f.of = obj.of /\ f.array = array /\ f.length = obj.length
    <3> HIDE DEF array, obj
    <3> QED
      BY Zenon, <1>4, <2>8 DEF Objects
  <2>10. \A l \in Kinds : Len(f.array[l]) = Len(obj.array[l])
    <3> HIDE DEF seq, obj, array, f
    <3> QED
      BY Zenon, <2>5, <2>8, <2>9
  <2>11. Whole(f)
    <3>1. \A l \in Kinds :
            /\ obj.length[l] <= Len(obj.array[l])
            /\ \A j \in 1..Len(obj.array[l]) :
                 \E i \in 1..Len(Declares[obj.of][l]) : Declares[obj.of][l][i] = obj.array[l][j]
      BY Zenon, <1>3 DEF Whole
    <3> HIDE DEF seq, obj, array, f
    <3>2. ASSUME NEW l \in Kinds
          PROVE  /\ f.length[l] <= Len(f.array[l])
                 /\ \A j \in 1..Len(f.array[l]) :
                      \E i \in 1..Len(Declares[f.of][l]) : Declares[f.of][l][i] = f.array[l][j]
      <4>1. f.length[l] <= Len(f.array[l])
        BY <2>9, <2>10, <3>1
      <4>2. CASE l = k
        <5>1. f.array[l] = seq /\ f.of = obj.of
          BY <2>8, <2>9, <4>2
        <5> QED
          BY <2>6, <4>1, <4>2, <5>1
      <4>3. CASE l # k
        <5>1. f.array[l] = obj.array[l] /\ f.of = obj.of
          BY <2>8, <2>9, <4>3
        <5> QED
          BY <3>1, <4>1, <5>1
      <4> QED
        BY <4>2, <4>3
    <3> QED
      BY <2>9, <3>2 DEF Whole
  <2>12. Indexes' /\ Grown
    <3> HIDE DEF f
    <3> QED
      BY Zenon, <1>1, <1>2, <1>3, <2>3, <2>9, <2>10, <2>11, Overwritten
  <2>13. /\ moved \in ScanRecords /\ moved.pc = me.pc /\ moved.query = me.query
         /\ moved.took = me.took /\ moved.todo = me.todo /\ moved.at = me.at /\ moved.items = me.items
         /\ moved.i = me.i + 1 /\ moved.kept = me.kept + 1
    BY Zenon, <1>1, <1>6 DEF ScanRecords
  <2>14. scan'[s] = moved
    BY <1>1, <2>2
  <2> HIDE DEF moved
  <2>15. Scanning(s)'
    BY Zenon, <1>6, <1>7, <2>12, <2>13, <2>14
  <2> QED
    BY Zenon, <2>2, <2>12, <2>13, <2>15, StepKeeps
<1>9. CASE it # me.query.name
  <2>1. scan' = [scan EXCEPT ![s].i = @ + 1] /\ UNCHANGED facts
    BY Zenon, <1>9 DEF Compact
  <2>2. scan' = [scan EXCEPT ![s] = passed]
    BY <1>1, <2>1
  <2>3. Indexes' /\ Grown
    BY <1>1, <2>1, SameIsGrown
  <2>4. /\ passed \in ScanRecords /\ passed.pc = me.pc /\ passed.query = me.query
        /\ passed.took = me.took /\ passed.todo = me.todo /\ passed.at = me.at
        /\ passed.items = me.items /\ passed.i = me.i + 1 /\ passed.kept = me.kept
    BY Zenon, <1>1, <1>6 DEF ScanRecords
  <2>5. scan'[s] = passed
    BY <1>1, <2>2
  <2>6. me.kept <= me.i + 1
    BY <1>5
  <2> HIDE DEF passed
  <2>7. Scanning(s)'
    BY Zenon, <1>6, <1>7, <2>3, <2>4, <2>5, <2>6
  <2> QED
    BY Zenon, <2>2, <2>3, <2>4, <2>7, StepKeeps
<1> QED
  BY Zenon, <1>8, <1>9

LEMMA CompactedKeeps ==
  ASSUME IInv, NEW s \in Scans, Compacted(s)
  PROVE  IInv'
<1> DEFINE me == scan[s]
           p == me.at[1]
           k == me.at[2]
           rec == [[[[[me EXCEPT !.pc = "pruning"] EXCEPT !.at = <<>>] EXCEPT !.items = 0]
                     EXCEPT !.i = 0] EXCEPT !.kept = 0]
<1>1. /\ me \in ScanRecords /\ Scanning(s) /\ me.pc = "compacting" /\ me.i = me.items
      /\ UNCHANGED <<source, snapshot>> /\ SetLength(s, p, k, me.kept)
      /\ scan \in [Scans -> ScanRecords] /\ facts \in [Paths -> Seq(Objects)]
  BY DEF IInv, Indexes, Compacted, Others
<1>2. p \in OfLanguage(me.query) /\ p \in Paths /\ k \in Kinds
  BY Zenon, <1>1 DEF Scanning, OfLanguage
<1>3. Whole(facts[p][me.took[p]])
  BY <1>1, <1>2, TakenIsThere
<1>4. Len(facts[p][me.took[p]].array[k]) \in Nat
  <2> DEFINE obj == facts[p][me.took[p]]
  <2>1. Whole(obj)
    BY <1>3
  <2> HIDE DEF obj
  <2>2. obj.array[k] \in Seq(Names)
    BY <1>2, <2>1 DEF Whole, Objects
  <2>3. Len(obj.array[k]) \in Nat
    BY <2>2
  <2> QED
    BY Zenon, <2>3 DEF obj
<1>5. me.kept \in Nat /\ me.i \in Nat /\ me.items \in Nat
      /\ me.kept <= me.i /\ me.items <= Len(facts[p][me.took[p]].array[k])
  BY Zenon, <1>1 DEF ScanRecords, Scanning
<1>6. me.kept <= Len(facts[p][me.took[p]].array[k])
  <2> DEFINE l == Len(facts[p][me.took[p]].array[k])
             i == me.i
             kept == me.kept
  <2>1. l \in Nat /\ kept \in Nat /\ i \in Nat /\ kept <= i /\ i <= l
    BY Zenon, <1>1, <1>4, <1>5
  <2> HIDE DEF l, i, kept
  <2>2. kept <= l
    BY <2>1
  <2> QED
    BY Zenon, <2>2 DEF l, kept
<1>7. Indexes' /\ Grown
  BY Zenon, <1>1, <1>2, <1>5, <1>6, LengthSet
<1>8. scan' = [scan EXCEPT ![s] = rec]
  <2>1. scan' = [scan EXCEPT ![s].pc = "pruning", ![s].at = <<>>, ![s].items = 0, ![s].i = 0,
                             ![s].kept = 0]
    BY DEF Compacted
  <2> QED
    BY Zenon, <1>1, <2>1 DEF ScanRecords
<1>9. /\ rec \in ScanRecords /\ rec.pc = "pruning" /\ rec.query = me.query /\ rec.took = me.took
      /\ rec.todo = me.todo /\ rec.items = 0 /\ rec.i = 0 /\ rec.kept = 0
  BY Zenon, <1>1 DEF ScanRecords
<1>10. scan'[s] = rec
  BY <1>1, <1>8
<1> HIDE DEF rec
<1>11. ASSUME NEW q \in Paths
       PROVE  me.took[q] <= Len(facts'[q])
  <2>1. me.took \in [Paths -> Nat] /\ facts[q] \in Seq(Objects)
    BY <1>1 DEF ScanRecords
  <2>2. me.took[q] <= Len(facts[q]) /\ Len(facts[q]) <= Len(facts'[q]) /\ Len(facts'[q]) \in Nat
    BY Zenon, <1>1, <1>7 DEF Scanning, Grown
  <2>3. me.took[q] \in Nat /\ Len(facts[q]) \in Nat
    BY <2>1
  <2> QED
    BY <2>2, <2>3
<1>12. /\ \A q \in Paths : rec.took[q] <= Len(facts'[q])
       /\ \A q \in OfLanguage(rec.query) : rec.took[q] # 0
       /\ rec.todo \subseteq OfLanguage(rec.query) \X Kinds
       /\ rec.kept = 0 /\ rec.i = 0 /\ rec.items = 0 /\ rec.pc = "pruning"
  BY Zenon, <1>1, <1>9, <1>11 DEF Scanning
<1>13. Scanning(s)'
  BY <1>10, <1>12 DEF Scanning, OfLanguage
<1> QED
  BY Zenon, <1>7, <1>8, <1>9, <1>13, StepKeeps

LEMMA AnswerKeeps ==
  ASSUME IInv, NEW s \in Scans, Answer(s)
  PROVE  IInv'
<1> DEFINE me == scan[s]
           Held(p, k) == {facts[p][me.took[p]].array[k][j] : j \in 1..facts[p][me.took[p]].length[k]}
           answer == UNION {{<<p, k, n>> : n \in Held(p, k)} : p \in OfLanguage(me.query), k \in Kinds}
           rec == [[me EXCEPT !.pc = "done"] EXCEPT !.answer = answer]
<1>1. /\ me \in ScanRecords /\ Scanning(s) /\ me.pc = "pruning"
      /\ UNCHANGED <<source, facts, snapshot>> /\ scan \in [Scans -> ScanRecords]
  BY DEF IInv, Answer, Others
<1>2. Indexes' /\ Grown
  BY <1>1, SameIsGrown
<1>3. ASSUME NEW p \in OfLanguage(me.query), NEW k \in Kinds, NEW n \in Held(p, k)
      PROVE  /\ p \in Paths /\ n \in Names /\ me.took[p] # 0
             /\ n \in ToSet(Declares[facts[p][me.took[p]].of][k])
  <2> DEFINE obj == facts[p][me.took[p]]
  <2>1. Whole(obj) /\ me.took[p] # 0 /\ p \in Paths
    BY <1>1, TakenIsThere
  <2>2. PICK j \in 1..obj.length[k] : n = obj.array[k][j]
    OBVIOUS
  <2> HIDE DEF obj
  <2>3. obj.array[k] \in Seq(Names) /\ obj.length[k] \in Nat /\ obj.length[k] <= Len(obj.array[k])
    BY <2>1 DEF Whole, Objects
  <2>4. j \in 1..Len(obj.array[k]) /\ n \in Names
    <3>1. Len(obj.array[k]) \in Nat
      BY <2>3
    <3>2. j \in 1..Len(obj.array[k])
      BY <2>3, <3>1
    <3>3. obj.array[k][j] \in Names
      BY <2>3, <3>2
    <3> QED
      BY Zenon, <2>2, <3>2, <3>3
  <2>5. PICK i \in 1..Len(Declares[obj.of][k]) : Declares[obj.of][k][i] = n
    <3>1. \E i \in 1..Len(Declares[obj.of][k]) : Declares[obj.of][k][i] = obj.array[k][j]
      BY <2>1, <2>4 DEF Whole
    <3> QED
      BY Zenon, <2>2, <3>1
  <2>6. Declares[obj.of][k] \in Seq(Names)
    BY <2>1, IndexedScanAssumption DEF Whole, Objects
  <2>7. n \in ToSet(Declares[obj.of][k])
    BY <2>5, <2>6 DEF ToSet
  <2> QED
    BY Zenon, <2>1, <2>4, <2>7 DEF obj
<1> HIDE DEF Held
<1>4. ASSUME NEW x \in answer
      PROVE  x \in Paths \X Kinds \X Names /\ x \in Declared(s)
  <2>1. PICK p \in OfLanguage(me.query), k \in Kinds : x \in {<<p, k, n>> : n \in Held(p, k)}
    OBVIOUS
  <2>2. PICK n \in Held(p, k) : x = <<p, k, n>>
    BY <2>1
  <2>3. /\ p \in Paths /\ n \in Names /\ me.took[p] # 0
        /\ n \in ToSet(Declares[facts[p][me.took[p]].of][k])
    BY <1>3
  <2> DEFINE D(q, l) == {<<q, l, m>> : m \in ToSet(Declares[facts[q][me.took[q]].of][l])}
             taken == {q \in Paths : me.took[q] # 0}
  <2>4. x \in D(p, k)
    <3> DEFINE T == ToSet(Declares[facts[p][me.took[p]].of][k])
    <3>a. n \in T /\ D(p, k) = {<<p, k, m>> : m \in T}
      BY <2>3
    <3> HIDE DEF T
    <3>1. <<p, k, n>> \in {<<p, k, m>> : m \in T}
      BY <3>a
    <3>2. x \in {<<p, k, m>> : m \in T}
      BY <2>2, <3>1
    <3> HIDE DEF D
    <3> QED
      BY <3>2, <3>a
  <2>5. Declared(s) = UNION {D(q, l) : q \in taken, l \in Kinds}
    BY DEF Declared
  <2>6. p \in taken
    BY <2>3
  <2> HIDE DEF D, taken
  <2>7. D(p, k) \in {D(q, l) : q \in taken, l \in Kinds}
    BY <2>6
  <2>8. x \in Declared(s)
    BY <2>4, <2>5, <2>7
  <2> QED
    BY <2>2, <2>3, <2>8
<1>5. scan' = [scan EXCEPT ![s] = rec]
  <2>1. scan' = [scan EXCEPT ![s].pc = "done", ![s].answer = answer]
    BY DEF Answer, Held
  <2> HIDE DEF answer
  <2> QED
    BY Zenon, <1>1, <2>1 DEF ScanRecords
<1> HIDE DEF answer
<1>6. /\ rec \in ScanRecords /\ rec.pc = "done" /\ rec.query = me.query /\ rec.took = me.took
      /\ rec.todo = me.todo /\ rec.items = me.items /\ rec.i = me.i /\ rec.kept = me.kept
      /\ rec.answer = answer
  BY Zenon, <1>1, <1>4 DEF ScanRecords
<1>7. scan'[s] = rec
  BY <1>1, <1>5
<1> HIDE DEF rec
<1>8. Declared(s)' = Declared(s)
  BY <1>1, <1>6, <1>7 DEF Declared
<1>9. Scanning(s)'
  BY <1>1, <1>4, <1>6, <1>7, <1>8 DEF Scanning, OfLanguage
<1> QED
  BY Zenon, <1>2, <1>5, <1>6, <1>9, StepKeeps

LEMMA NextKeepsIInv == IInv /\ [Next]_vars => IInv'
<1> SUFFICES ASSUME IInv, [Next]_vars
             PROVE  IInv'
  OBVIOUS
<1>1. CASE UNCHANGED vars
  <2>1. UNCHANGED <<source, facts, snapshot>> /\ UNCHANGED scan
    BY <1>1 DEF vars
  <2> QED
    BY <2>1, SameIsGrown, GrowKeeps
<1>2. ASSUME NEW s \in Scans, ScanStep(s)
      PROVE  IInv'
  BY <1>2, BeginKeeps, VisitKeeps, CompactKeeps, CompactedKeeps, AnswerKeeps DEF ScanStep
<1> QED
  BY <1>1, <1>2, IndexSteps DEF Next

\* What a scan says of a file was declared by the one content that was indexed
\* when the scan began, however many scans prune the shared facts at once
\* (repo.go:967, scan.go:63-82).
THEOREM OneContentAnswered == Spec => []AnswersOneContent
<1>1. IInv => AnswersOneContent
  BY DEF IInv, Scanning, AnswersOneContent, Done
<1> QED
  BY <1>1, InitIInv, NextKeepsIInv, PTL DEF Spec
-----------------------------------------------------------------------------
(* A scan that runs alone answers what its query asks for.  While it does,  *)
(* every group it has visited fits the query, and so does the part of the   *)
(* group at hand that is compacted.                                         *)

Fits(q, k, array, n) ==
  /\ DropsKind(q, k) => n = 0
  /\ q.name # AnyName => \A j \in 1..n : array[j] = q.name

Array(me, p, k) == facts[p][me.took[p]].array[k]
Length(me, p, k) == facts[p][me.took[p]].length[k]

Filtering(me) ==
  /\ me.pc \in {"pruning", "compacting"} =>
       \A p \in OfLanguage(me.query), k \in Kinds :
         <<p, k>> \notin me.todo /\ (me.pc = "compacting" => me.at # <<p, k>>)
           => Fits(me.query, k, Array(me, p, k), Length(me, p, k))
  /\ me.pc = "compacting" =>
       /\ ~DropsKind(me.query, me.at[2])
       /\ \A j \in 1..me.kept : Array(me, me.at[1], me.at[2])[j] = me.query.name
  /\ me.pc = "done" => \A x \in me.answer : Matches(me.query, x)

Alone(s) == \A t \in Scans \ {s} : scan[t].pc = "idle"
AloneInv == \A s \in Scans : Alone(s) => \A me \in {scan[s]} : Filtering(me)

\* The index adds objects; those that were taken stay what they are.
LEMMA IndexStepsKeepFiltering ==
  ASSUME IInv, AloneInv, Edit \/ Refresh \/ Save \/ Restart \/ UNCHANGED vars
  PROVE  AloneInv'
<1>1. CASE Restart
  <2>1. \A s \in Scans : scan'[s] = NoScan
    BY <1>1 DEF Restart
  <2>2. Filtering(NoScan)'
    BY NoScanIsFine DEF Filtering
  <2> QED
    BY <2>1, <2>2 DEF AloneInv
<1>2. CASE Edit \/ Refresh \/ Save \/ UNCHANGED vars
  <2>1. UNCHANGED scan
    BY <1>2 DEF Edit, Refresh, Save, vars
  <2>2. ASSUME NEW p \in Paths, NEW g \in 1..Len(facts[p])
        PROVE  facts'[p][g] = facts[p][g]
    <3>1. CASE UNCHANGED facts
      BY <3>1
    <3>2. CASE facts' = [q \in Paths |-> IF q \in Stale THEN Publish(q) ELSE facts[q]]
      <4>1. facts[p] \in Seq(Objects)
        BY DEF IInv, Indexes
      <4>2. CASE p \in Stale
        <5>1. facts'[p] = Append(facts[p], Parsed(source[p]))
          BY <3>2, <4>2 DEF Publish
        <5> QED
          BY <4>1, <5>1
      <4>3. CASE p \notin Stale
        BY <3>2, <4>3
      <4> QED
        BY <4>2, <4>3
    <3> QED
      BY <1>2, <3>1, <3>2 DEF Edit, Refresh, Save, vars
  <2>3. ASSUME NEW s \in Scans, NEW me, me = scan[s], Filtering(me)
        PROVE  Filtering(me)'
    <3>1. CASE me.pc \in {"idle", "done"}
      BY <2>3, <3>1 DEF Filtering
    <3>2. CASE me.pc \notin {"idle", "done"}
      <4>1. \A p \in OfLanguage(me.query) : facts'[p][me.took[p]] = facts[p][me.took[p]]
        BY <2>2, <2>3, <3>2, TakenIsThere
      <4>2. \A p \in OfLanguage(me.query), k \in Kinds :
              Array(me, p, k)' = Array(me, p, k) /\ Length(me, p, k)' = Length(me, p, k)
        BY <4>1 DEF Array, Length
      <4>3. me.pc = "compacting" => me.at[1] \in OfLanguage(me.query) /\ me.at[2] \in Kinds
        BY <2>3 DEF IInv, Scanning
      <4> QED
        BY <2>3, <4>2, <4>3 DEF Filtering
    <3> QED
      BY <3>1, <3>2
  <2> QED
    BY <2>1, <2>3 DEF AloneInv, Alone
<1> QED
  BY <1>1, <1>2

\* After a step of a scan, no other scan is alone.
LEMMA OwnStepKeepsFiltering ==
  ASSUME IInv, AloneInv, NEW s \in Scans, NEW rec, scan' = [scan EXCEPT ![s] = rec],
         rec.pc # "idle", Filtering(scan[s]) => Filtering(rec)'
  PROVE  AloneInv'
<1>1. scan'[s] = rec /\ \A t \in Scans : t # s => scan'[t] = scan[t]
  BY DEF IInv
<1>2. \A t \in Scans : Alone(t)' => t = s
  BY <1>1 DEF Alone
<1>3. Alone(s)' => Alone(s)
  BY <1>1 DEF Alone
<1>4. Alone(s)' => Filtering(rec)'
  BY <1>3 DEF AloneInv
<1> QED
  BY <1>1, <1>2, <1>4 DEF AloneInv

\* Setting the length of one slice leaves the others, and the arrays.
LEMMA LengthSetTo ==
  ASSUME IInv, NEW s \in Scans, scan[s].pc # "idle", NEW p \in OfLanguage(scan[s].query),
         NEW k \in Kinds, NEW n, SetLength(s, p, k, n),
         NEW g, g = scan[s].took[p], NEW old, old = facts[p][g], NEW new, new = facts'[p][g]
  PROVE  /\ \A q \in Paths : q # p => facts'[q] = facts[q]
         /\ new.array = old.array
         /\ \A l \in Kinds : new.length[l] = IF l = k THEN n ELSE old.length[l]
<1>1. p \in Paths /\ g \in 1..Len(facts[p]) /\ old \in Objects
  <2>1. p \in Paths /\ scan[s].took[p] \in 1..Len(facts[p]) /\ Whole(facts[p][scan[s].took[p]])
    BY Zenon, TakenIsThere
  <2> QED
    BY Zenon, <2>1 DEF Whole
<1>2. facts \in [Paths -> Seq(Objects)] /\ facts[p] \in Seq(Objects)
  BY <1>1 DEF IInv, Indexes
<1> PICK f : f = [old EXCEPT !.length = [old.length EXCEPT ![k] = n]]
  OBVIOUS
<1>3. facts' = [facts EXCEPT ![p] = [facts[p] EXCEPT ![g] = f]]
  <2>1. facts' = [facts EXCEPT ![p][scan[s].took[p]].length[k] = n]
    BY Zenon DEF SetLength
  <2>2. facts' = [facts EXCEPT ![p] = [facts[p] EXCEPT ![g] =
                    [old EXCEPT !.length = [old.length EXCEPT ![k] = n]]]]
    BY Zenon, <1>1, <1>2, <2>1 DEF Objects
  <2> QED
    BY Zenon, <2>2
<1>4. new = f
  <2>1. facts'[p] = [facts[p] EXCEPT ![g] = f]
    BY Zenon, <1>1, <1>2, <1>3
  <2>2. DOMAIN facts[p] = 1..Len(facts[p])
    BY ONLY <1>2
  <2> QED
    BY Zenon, <1>1, <2>1, <2>2
<1>5. f.array = old.array /\ f.length = [old.length EXCEPT ![k] = n] /\ DOMAIN old.length = Kinds
  BY ONLY <1>1, f = [old EXCEPT !.length = [old.length EXCEPT ![k] = n]] DEF Objects
<1>6. ASSUME NEW l \in Kinds
      PROVE  f.length[l] = IF l = k THEN n ELSE old.length[l]
  BY ONLY <1>5, l \in Kinds
<1>7. \A q \in Paths : q # p => facts'[q] = facts[q]
  BY Zenon, <1>2, <1>3
<1> QED
  BY Zenon, <1>4, <1>5, <1>6, <1>7

OnlyLengthSet(me, p, k, n) ==
  \A q \in OfLanguage(me.query), l \in Kinds :
    /\ Array(me, q, l)' = Array(me, q, l)
    /\ Length(me, q, l)' = IF q = p /\ l = k THEN n ELSE Length(me, q, l)

LEMMA SliceSetTo ==
  ASSUME IInv, NEW s \in Scans, NEW me, me = scan[s], me.pc # "idle",
         NEW p \in OfLanguage(me.query), NEW k \in Kinds, NEW n, SetLength(s, p, k, n)
  PROVE  OnlyLengthSet(me, p, k, n)
<1> USE DEF OnlyLengthSet
<1> PICK g, old, new : g = me.took[p] /\ old = facts[p][g] /\ new = facts'[p][g]
  OBVIOUS
<1>1. /\ \A q \in Paths : q # p => facts'[q] = facts[q]
      /\ new.array = old.array
      /\ \A l \in Kinds : new.length[l] = IF l = k THEN n ELSE old.length[l]
  BY LengthSetTo
<1>2. TAKE q \in OfLanguage(me.query), l \in Kinds
<1>3. CASE q = p
  <2>1. Array(me, q, l)' = new.array[l] /\ Array(me, q, l) = old.array[l]
    BY Zenon, <1>3 DEF Array
  <2>2. Length(me, q, l)' = new.length[l] /\ Length(me, q, l) = old.length[l]
    BY Zenon, <1>3 DEF Length
  <2>3. CASE l = k
    <3>1. new.length[l] = n
      BY Zenon, <1>1, <2>3
    <3> QED
      BY Zenon, <1>1, <1>3, <2>1, <2>2, <2>3, <3>1
  <2>4. CASE l # k
    <3>1. new.length[l] = old.length[l]
      BY Zenon, <1>1, <2>4
    <3> QED
      BY Zenon, <1>1, <2>1, <2>2, <2>4, <3>1
  <2> QED
    BY Zenon, <2>3, <2>4
<1>4. CASE q # p
  <2>1. facts'[q] = facts[q]
    BY Zenon, <1>1, <1>4 DEF OfLanguage
  <2>2. Array(me, q, l)' = Array(me, q, l) /\ Length(me, q, l)' = Length(me, q, l)
    BY Zenon, <2>1 DEF Array, Length
  <2> QED
    BY Zenon, <1>4, <2>2
<1> QED
  BY Zenon, <1>3, <1>4

LEMMA BeginFilters ==
  ASSUME IInv, AloneInv, NEW s \in Scans, NEW q \in Queries, Begin(s, q)
  PROVE  AloneInv'
<1> PICK rec : rec = [NoScan EXCEPT !.pc = "pruning", !.query = q, !.todo = OfLanguage(q) \X Kinds,
                        !.took = [p \in Paths |-> IF p \in OfLanguage(q) THEN Len(facts[p]) ELSE 0]]
  OBVIOUS
<1>1. scan' = [scan EXCEPT ![s] = rec]
  BY DEF Begin
<1>2. rec.pc = "pruning" /\ rec.query = q /\ rec.todo = OfLanguage(q) \X Kinds
  BY DEF NoScan
<1>3. Filtering(rec)'
  BY <1>2 DEF Filtering
<1> QED
  BY <1>1, <1>2, <1>3, OwnStepKeepsFiltering

LEMMA VisitFilters ==
  ASSUME IInv, AloneInv, NEW s \in Scans, Visit(s)
  PROVE  AloneInv'
<1> PICK me : me = scan[s]
  OBVIOUS
<1>1. PICK g \in Visitable(s) :
        LET p == g[1]
            k == g[2]
            n == facts[p][me.took[p]].length[k]
            left == [me EXCEPT !.todo = @ \ {g}]
        IN IF DropsKind(me.query, k)
             THEN SetLength(s, p, k, 0) /\ scan' = [scan EXCEPT ![s] = left]
           ELSE /\ scan' = [scan EXCEPT ![s] =
                     IF n = 0 \/ me.query.name = AnyName THEN left
                     ELSE [left EXCEPT !.pc = "compacting", !.at = g, !.items = n]]
                /\ UNCHANGED facts
  BY Zenon DEF Visit
<1> PICK p, k, n, left : /\ p = g[1] /\ k = g[2] /\ n = Length(me, p, k)
                         /\ left = [me EXCEPT !.todo = me.todo \ {g}]
  OBVIOUS
<1>2. me \in ScanRecords /\ Scanning(s) /\ me.pc = "pruning"
  BY DEF IInv, Visit
<1>3. p \in OfLanguage(me.query) /\ k \in Kinds /\ g = <<p, k>>
  BY <1>2 DEF Visitable, Scanning
<1>4. /\ left.pc = "pruning" /\ left.todo = me.todo \ {g} /\ left.query = me.query /\ left.took = me.took
  BY <1>2 DEF ScanRecords
<1>5. CASE DropsKind(me.query, k)
  <2>1. SetLength(s, p, k, 0) /\ scan' = [scan EXCEPT ![s] = left]
    BY <1>1, <1>5
  <2>2. \A q \in OfLanguage(me.query), l \in Kinds :
          /\ Array(me, q, l)' = Array(me, q, l)
          /\ Length(me, q, l)' = IF q = p /\ l = k THEN 0 ELSE Length(me, q, l)
    <3>1. me.pc # "idle" /\ me = scan[s] /\ SetLength(s, p, k, 0)
      BY Zenon, <1>2, <2>1
    <3>2. p \in OfLanguage(me.query) /\ k \in Kinds
      BY Zenon, <1>3
    <3>3. OnlyLengthSet(me, p, k, 0)
      BY Zenon, <3>1, <3>2, SliceSetTo
    <3> QED
      BY Zenon, <3>3 DEF OnlyLengthSet
  <2>3. ASSUME Filtering(me)
        PROVE  Filtering(left)'
    <3>1. ASSUME NEW q \in OfLanguage(me.query), NEW l \in Kinds, <<q, l>> \notin left.todo
          PROVE  Fits(me.query, l, Array(me, q, l)', Length(me, q, l)')
      <4>1. CASE q = p /\ l = k
        BY <2>2, <4>1 DEF Fits
      <4>2. CASE ~(q = p /\ l = k)
        <5>1. <<q, l>> \notin me.todo
          BY <1>3, <1>4, <3>1, <4>2
        <5>2. Fits(me.query, l, Array(me, q, l), Length(me, q, l))
          BY <1>2, <2>3, <5>1 DEF Filtering
        <5> QED
          BY <2>2, <4>2, <5>2
      <4> QED
        BY <4>1, <4>2
    <3> QED
      BY Zenon, <1>4, <3>1 DEF Filtering, Array, Length
  <2> QED
    BY <1>4, <2>1, <2>3, OwnStepKeepsFiltering
<1>6. CASE ~DropsKind(me.query, k)
  <2>1. UNCHANGED facts
    BY <1>1, <1>6
  <2>2. \A q, l : Array(me, q, l)' = Array(me, q, l) /\ Length(me, q, l)' = Length(me, q, l)
    BY <2>1 DEF Array, Length
  <2>3. ASSUME Filtering(me), NEW q \in OfLanguage(me.query), NEW l \in Kinds,
               <<q, l>> \notin left.todo, <<q, l>> # g
        PROVE  Fits(me.query, l, Array(me, q, l), Length(me, q, l))
    BY <1>2, <1>4, <2>3 DEF Filtering
  <2>4. CASE n = 0 \/ me.query.name = AnyName
    <3>1. scan' = [scan EXCEPT ![s] = left]
      BY <1>1, <1>6, <2>4 DEF Length
    <3>2. Fits(me.query, k, Array(me, p, k), Length(me, p, k))
      BY <1>6, <2>4 DEF Fits
    <3>3. ASSUME Filtering(me)
          PROVE  Filtering(left)'
      <4>1. \A q \in OfLanguage(me.query), l \in Kinds :
              <<q, l>> \notin left.todo => Fits(me.query, l, Array(me, q, l), Length(me, q, l))
        BY <1>3, <2>3, <3>2, <3>3
      <4> QED
        BY Zenon, <1>4, <2>1, <4>1 DEF Filtering, Array, Length
    <3> QED
      BY <1>4, <3>1, <3>3, OwnStepKeepsFiltering
  <2>5. CASE ~(n = 0 \/ me.query.name = AnyName)
    <3> PICK next : next = [left EXCEPT !.pc = "compacting", !.at = g, !.items = n]
      OBVIOUS
    <3>1. scan' = [scan EXCEPT ![s] = next]
      BY Zenon, <1>1, <1>6, <2>5 DEF Length
    <3>2. /\ next.pc = "compacting" /\ next.at = g /\ next.todo = left.todo
          /\ next.query = me.query /\ next.took = me.took /\ next.kept = 0
      BY <1>2 DEF ScanRecords, Scanning
    <3>3. ASSUME Filtering(me)
          PROVE  Filtering(next)'
      <4>1. \A q \in OfLanguage(me.query), l \in Kinds :
              <<q, l>> \notin left.todo /\ <<q, l>> # g
                => Fits(me.query, l, Array(me, q, l), Length(me, q, l))
        BY <2>3, <3>3
      <4>2. ~DropsKind(next.query, next.at[2]) /\ next.kept = 0
        BY <1>6, <3>2
      <4>3. \A j \in 1..next.kept : Array(next, next.at[1], next.at[2])'[j] = next.query.name
        BY <4>2
      <4>4. \A q \in OfLanguage(next.query), l \in Kinds :
              <<q, l>> \notin next.todo /\ next.at # <<q, l>>
                => Fits(next.query, l, Array(next, q, l), Length(next, q, l))'
        <5> SUFFICES ASSUME NEW q \in OfLanguage(me.query), NEW l \in Kinds,
                            <<q, l>> \notin left.todo, <<q, l>> # g
                     PROVE  Fits(me.query, l, Array(next, q, l)', Length(next, q, l)')
          BY <3>2
        <5>1. Fits(me.query, l, Array(me, q, l), Length(me, q, l))
          BY <4>1
        <5> QED
          BY Zenon, <2>1, <3>2, <5>1 DEF Array, Length
      <4>5. next.pc = "compacting"
        BY <3>2
      <4> QED
        BY <4>5, <4>2, <4>3, <4>4 DEF Filtering
    <3> QED
      BY <3>1, <3>2, <3>3, OwnStepKeepsFiltering
  <2> QED
    BY <2>4, <2>5
<1> QED
  BY <1>5, <1>6

LEMMA CompactFilters ==
  ASSUME IInv, AloneInv, NEW s \in Scans, Compact(s)
  PROVE  AloneInv'
<1> PICK me : me = scan[s]
  OBVIOUS
<1> PICK p, k, it, j0 : /\ p = me.at[1] /\ k = me.at[2] /\ it = Array(me, p, k)[me.i + 1]
                        /\ j0 = me.kept + 1
  OBVIOUS
<1>1. me \in ScanRecords /\ Scanning(s) /\ me.pc = "compacting" /\ me.i < me.items
  BY Zenon DEF IInv, Compact
<1>2. p \in OfLanguage(me.query) /\ k \in Kinds /\ me.at = <<p, k>>
  <2>1. me.at \in OfLanguage(me.query) \X Kinds
    BY <1>1 DEF Scanning
  <2> QED
    BY <2>1
<1>3. me.kept \in Nat /\ me.i \in Nat
  BY <1>1 DEF ScanRecords
<1>4. CASE it = me.query.name
  <2> PICK rec : rec = [[me EXCEPT !.i = @ + 1] EXCEPT !.kept = @ + 1]
    OBVIOUS
  <2>1. /\ facts' = [facts EXCEPT ![p][me.took[p]].array[k][j0] = it]
        /\ scan' = [scan EXCEPT ![s].i = @ + 1, ![s].kept = @ + 1]
    BY Zenon, <1>4 DEF Compact, Array
  <2>2. scan' = [scan EXCEPT ![s] = rec]
    BY Zenon, <1>1, <2>1 DEF ScanRecords
  <2>3. /\ rec.pc = "compacting" /\ rec.query = me.query /\ rec.took = me.took /\ rec.todo = me.todo
        /\ rec.at = me.at /\ rec.kept = me.kept + 1
    BY <1>1 DEF ScanRecords
  <2>4. me.pc # "idle"
    BY <1>1
  <2> PICK g, obj, slice, f : /\ g = me.took[p] /\ obj = facts[p][g]
                              /\ slice = [obj.array[k] EXCEPT ![j0] = it]
                              /\ f = [obj EXCEPT !.array = [obj.array EXCEPT ![k] = slice]]
    OBVIOUS
  <2>5b. facts \in [Paths -> Seq(Objects)]
    BY Zenon DEF IInv, Indexes
  <2>5a. p \in Paths /\ g \in 1..Len(facts[p]) /\ obj \in Objects /\ facts[p] \in Seq(Objects)
    <3>1. p \in Paths /\ g \in 1..Len(facts[p]) /\ Whole(obj)
      BY Zenon, <1>2, <2>4, TakenIsThere
    <3> QED
      BY Zenon, <2>5b, <3>1 DEF Whole
  <2>5c. facts' = [facts EXCEPT ![p] = [facts[p] EXCEPT ![g] = f]]
    <3>1. facts' = [facts EXCEPT ![p] = [facts[p] EXCEPT ![g] =
                      [obj EXCEPT !.array = [obj.array EXCEPT ![k] =
                         [obj.array[k] EXCEPT ![j0] = it]]]]]
      BY Zenon, <2>1, <2>5a, <2>5b DEF Objects
    <3> QED
      BY Zenon, <3>1
  <2>5d. facts'[p][g] = f
    <3>1. facts'[p] = [facts[p] EXCEPT ![g] = f]
      BY Zenon, <2>5a, <2>5b, <2>5c
    <3>2. DOMAIN facts[p] = 1..Len(facts[p])
      BY ONLY <2>5a
    <3>3. g \in DOMAIN facts[p]
      BY Zenon, <2>5a, <3>2
    <3> QED
      BY Zenon, <3>1, <3>3
  <2>5e. /\ \A l \in Kinds : f.length[l] = obj.length[l] /\ (l # k => f.array[l] = obj.array[l])
         /\ f.array[k] = [obj.array[k] EXCEPT ![j0] = it]
    <3>1. DOMAIN obj.array = Kinds /\ f.length = obj.length /\ f.array = [obj.array EXCEPT ![k] = slice]
      BY Zenon, <2>5a DEF Objects
    <3>2. f.array[k] = slice
      BY ONLY <1>2, <3>1
    <3>3. \A l \in Kinds : l # k => f.array[l] = obj.array[l]
      BY ONLY <3>1
    <3> QED
      BY Zenon, <3>1, <3>2, <3>3
  <2>5f. Array(me, p, k)' = [Array(me, p, k) EXCEPT ![j0] = it]
    BY Zenon, <2>5d, <2>5e DEF Array
  <2>5. ASSUME NEW q \in OfLanguage(me.query), NEW l \in Kinds, ~(q = p /\ l = k)
        PROVE  Length(me, q, l)' = Length(me, q, l) /\ Array(me, q, l)' = Array(me, q, l)
    <3>1. CASE q = p
      <4>1. Array(me, q, l) = obj.array[l] /\ Length(me, q, l) = obj.length[l]
        BY Zenon, <3>1 DEF Array, Length
      <4>2. Array(me, q, l)' = f.array[l] /\ Length(me, q, l)' = f.length[l]
        BY Zenon, <2>5d, <3>1 DEF Array, Length
      <4>3. f.array[l] = obj.array[l] /\ f.length[l] = obj.length[l]
        BY Zenon, <2>5, <2>5e, <3>1
      <4> QED
        BY Zenon, <4>1, <4>2, <4>3
    <3>2. CASE q # p
      <4>1. facts'[q] = facts[q]
        BY Zenon, <2>5b, <2>5c, <3>2 DEF OfLanguage
      <4> QED
        BY Zenon, <4>1 DEF Array, Length
    <3> QED
      BY Zenon, <3>1, <3>2
  <2>6. j0 \in DOMAIN Array(me, p, k) /\ 1..me.kept \subseteq DOMAIN Array(me, p, k)
    <3> PICK array : array = Array(me, p, k)
      BY Zenon
    <3>1. array \in Seq(Names)
      <4>1. facts[p][me.took[p]] \in Objects
        BY Zenon, <1>1, <1>2, <2>4, TakenIsThere DEF Whole
      <4> QED
        BY Zenon, <1>2, <4>1 DEF Objects, Array
    <3>2. me.items <= Len(array)
      BY Zenon, <1>1 DEF Array, Scanning
    <3>3. me.kept <= me.i /\ me.items \in Nat
      BY Zenon, <1>1 DEF Scanning, ScanRecords
    <3>4. me.i < me.items
      BY Zenon, <1>1
    <3>5. Len(array) \in Nat /\ DOMAIN array = 1..Len(array)
      BY ONLY <3>1
    <3> PICK kept, i, items, n : kept = me.kept /\ i = me.i /\ items = me.items /\ n = Len(array)
      BY Zenon
    <3>6. /\ kept \in Nat /\ i \in Nat /\ items \in Nat /\ n \in Nat
          /\ kept <= i /\ i < items /\ items <= n
      BY Zenon, <1>3, <3>2, <3>3, <3>4, <3>5
    <3>7. kept + 1 \in 1..n /\ 1..kept \subseteq 1..n
      BY ONLY <3>6
    <3>8. j0 = kept + 1
      BY Zenon
    <3> QED
      BY Zenon, <3>5, <3>7, <3>8
  <2>7. ASSUME Filtering(me)
        PROVE  Filtering(rec)'
    <3>1. ASSUME NEW q \in OfLanguage(me.query), NEW l \in Kinds, <<q, l>> \notin me.todo, me.at # <<q, l>>
          PROVE  Fits(me.query, l, Array(rec, q, l)', Length(rec, q, l)')
      <4>1. Fits(me.query, l, Array(me, q, l), Length(me, q, l))
        BY Zenon, <1>1, <2>7, <3>1 DEF Filtering
      <4>2. Array(me, q, l)' = Array(me, q, l) /\ Length(me, q, l)' = Length(me, q, l)
        BY Zenon, <1>2, <2>5, <3>1
      <4> QED
        BY Zenon, <2>3, <4>1, <4>2 DEF Array, Length
    <3>2. ~DropsKind(me.query, k)
      BY Zenon, <1>1, <1>2, <2>7 DEF Filtering
    <3>3. ASSUME NEW j \in 1..rec.kept
          PROVE  Array(rec, p, k)'[j] = me.query.name
      <4> PICK array : array = Array(me, p, k)
        BY Zenon
      <4>1. Array(me, p, k)' = [array EXCEPT ![j0] = it]
        BY Zenon, <2>5f
      <4>2. Array(rec, p, k)' = Array(me, p, k)'
        BY Zenon, <2>3 DEF Array
      <4>3. j = j0 \/ j \in 1..me.kept
        <5> PICK kept : kept = me.kept
          BY Zenon
        <5>1. kept \in Nat /\ j \in 1..(kept + 1) /\ j0 = kept + 1
          BY Zenon, <1>3, <2>3
        <5>2. j = kept + 1 \/ j \in 1..kept
          BY ONLY <5>1
        <5> QED
          BY Zenon, <5>1, <5>2
      <4>4. j0 \in DOMAIN array /\ \A i \in 1..me.kept : i \in DOMAIN array
        BY Zenon, <2>6
      <4>5. CASE j = j0
        <5>1. Array(me, p, k)'[j0] = it
          BY Zenon, <4>1, <4>4
        <5> QED
          BY Zenon, <1>4, <4>2, <4>5, <5>1
      <4>6. CASE j # j0
        <5>1. array[j] = me.query.name
          BY Zenon, <1>1, <1>2, <2>7, <4>3, <4>6 DEF Filtering
        <5> QED
          BY Zenon, <4>1, <4>2, <4>3, <4>4, <4>6, <5>1
      <4> QED
        BY Zenon, <4>5, <4>6
    <3> QED
      BY Zenon, <1>2, <2>3, <3>1, <3>2, <3>3 DEF Filtering
  <2> QED
    BY Zenon, <2>2, <2>3, <2>7, OwnStepKeepsFiltering
<1>5. CASE it # me.query.name
  <2> PICK rec : rec = [me EXCEPT !.i = @ + 1]
    OBVIOUS
  <2>1. scan' = [scan EXCEPT ![s].i = @ + 1] /\ UNCHANGED facts
    BY Zenon, <1>5 DEF Compact, Array
  <2>2. scan' = [scan EXCEPT ![s] = rec]
    BY <1>1, <2>1 DEF ScanRecords
  <2>3. /\ rec.pc = "compacting" /\ rec.query = me.query /\ rec.took = me.took /\ rec.todo = me.todo
        /\ rec.at = me.at /\ rec.kept = me.kept
    BY <1>1 DEF ScanRecords
  <2>4. ASSUME Filtering(me)
        PROVE  Filtering(rec)'
    <3>1. ASSUME NEW q, NEW l
          PROVE  Array(rec, q, l)' = Array(me, q, l) /\ Length(rec, q, l)' = Length(me, q, l)
      BY Zenon, <2>1, <2>3 DEF Array, Length
    <3>2. \A q \in OfLanguage(rec.query), l \in Kinds :
            <<q, l>> \notin rec.todo /\ rec.at # <<q, l>>
              => Fits(rec.query, l, Array(rec, q, l)', Length(rec, q, l)')
      <4> TAKE q \in OfLanguage(rec.query), l \in Kinds
      <4> HAVE <<q, l>> \notin rec.todo /\ rec.at # <<q, l>>
      <4>1. Fits(me.query, l, Array(me, q, l), Length(me, q, l))
        BY Zenon, <1>1, <2>3, <2>4 DEF Filtering
      <4> QED
        BY Zenon, <2>3, <3>1, <4>1
    <3>3. /\ ~DropsKind(rec.query, rec.at[2])
          /\ \A j \in 1..rec.kept : Array(me, rec.at[1], rec.at[2])[j] = rec.query.name
      <4>1. /\ ~DropsKind(me.query, me.at[2])
            /\ \A j \in 1..me.kept : Array(me, me.at[1], me.at[2])[j] = me.query.name
        BY Zenon, <1>1, <2>4 DEF Filtering
      <4> QED
        BY Zenon, <2>3, <4>1
    <3>4. rec.pc = "compacting" /\ Array(rec, rec.at[1], rec.at[2])' = Array(me, rec.at[1], rec.at[2])
      BY Zenon, <2>3, <3>1
    <3> QED
      BY <3>2, <3>3, <3>4 DEF Filtering
  <2> QED
    BY <2>2, <2>3, <2>4, OwnStepKeepsFiltering
<1> QED
  BY <1>4, <1>5

LEMMA CompactedFilters ==
  ASSUME IInv, AloneInv, NEW s \in Scans, Compacted(s)
  PROVE  AloneInv'
<1> PICK me : me = scan[s]
  OBVIOUS
<1> PICK p, k, kept, rec :
      /\ p = me.at[1] /\ k = me.at[2] /\ kept = me.kept
      /\ rec = [[[[[me EXCEPT !.pc = "pruning"] EXCEPT !.at = <<>>] EXCEPT !.items = 0]
                   EXCEPT !.i = 0] EXCEPT !.kept = 0]
  OBVIOUS
<1>1. /\ me \in ScanRecords /\ Scanning(s) /\ me.pc = "compacting" /\ me.pc # "idle"
      /\ SetLength(s, p, k, kept)
  BY DEF IInv, Compacted
<1>2. p \in OfLanguage(me.query) /\ k \in Kinds /\ me.at = <<p, k>>
  <2>1. me.at \in OfLanguage(me.query) \X Kinds
    BY Zenon, <1>1 DEF Scanning
  <2> QED
    BY <2>1
<1>3. scan' = [scan EXCEPT ![s] = rec]
  <2>1. scan' = [scan EXCEPT ![s].pc = "pruning", ![s].at = <<>>, ![s].items = 0, ![s].i = 0,
                             ![s].kept = 0]
    BY DEF Compacted
  <2> QED
    BY Zenon, <1>1, <2>1 DEF ScanRecords
<1>4. rec.pc = "pruning" /\ rec.query = me.query /\ rec.took = me.took /\ rec.todo = me.todo
  BY Zenon, <1>1 DEF ScanRecords
<1>5. \A q \in OfLanguage(me.query), l \in Kinds :
        /\ Array(me, q, l)' = Array(me, q, l)
        /\ Length(me, q, l)' = IF q = p /\ l = k THEN kept ELSE Length(me, q, l)
  <2>1. OnlyLengthSet(me, p, k, kept)
    BY Zenon, <1>1, <1>2, SliceSetTo
  <2> QED
    BY Zenon, <2>1 DEF OnlyLengthSet
<1>6. ASSUME Filtering(me), NEW q \in OfLanguage(me.query), NEW l \in Kinds, <<q, l>> \notin me.todo
      PROVE  Fits(me.query, l, Array(me, q, l)', Length(me, q, l)')
  <2>1. CASE q = p /\ l = k
    <3>1. ~DropsKind(me.query, k) /\ \A j \in 1..kept : Array(me, p, k)[j] = me.query.name
      BY <1>1, <1>2, <1>6 DEF Filtering
    <3>2. Fits(me.query, k, Array(me, p, k), kept)
      BY <3>1 DEF Fits
    <3> QED
      BY <1>5, <2>1, <3>2
  <2>2. CASE ~(q = p /\ l = k)
    <3>1. Fits(me.query, l, Array(me, q, l), Length(me, q, l))
      BY <1>1, <1>2, <1>6, <2>2 DEF Filtering
    <3> QED
      BY <1>5, <2>2, <3>1
  <2> QED
    BY <2>1, <2>2
<1>7. ASSUME Filtering(me)
      PROVE  Filtering(rec)'
  <2>1. \A q \in OfLanguage(me.query), l \in Kinds :
          <<q, l>> \notin me.todo => Fits(me.query, l, Array(rec, q, l)', Length(rec, q, l)')
    BY <1>4, <1>6, <1>7 DEF Array, Length
  <2> QED
    BY <1>4, <2>1 DEF Filtering
<1> QED
  BY <1>3, <1>4, <1>7, OwnStepKeepsFiltering

LEMMA AnswerFilters ==
  ASSUME IInv, AloneInv, NEW s \in Scans, Answer(s)
  PROVE  AloneInv'
<1> DEFINE now == scan[s]
           Held(p, k) == {facts[p][now.took[p]].array[k][j] : j \in 1..facts[p][now.took[p]].length[k]}
           answered == UNION {{<<p, k, n>> : n \in Held(p, k)} : p \in OfLanguage(now.query), k \in Kinds}
<1>0. scan' = [scan EXCEPT ![s].pc = "done", ![s].answer = answered]
  BY ONLY Answer(s) DEF Answer
<1> HIDE DEF answered
<1> PICK me, answer : me = scan[s] /\ answer = answered
  OBVIOUS
<1> PICK rec : rec = [[me EXCEPT !.pc = "done"] EXCEPT !.answer = answer]
  OBVIOUS
<1>1. me \in ScanRecords /\ me.pc = "pruning" /\ me.todo = {}
  BY Zenon DEF IInv, Answer
<1>2. scan' = [scan EXCEPT ![s] = rec]
  BY Zenon, <1>0, <1>1 DEF ScanRecords
<1>3. rec.pc = "done" /\ rec.query = me.query /\ rec.answer = answer
  BY Zenon, <1>1 DEF ScanRecords
<1>4. ASSUME Filtering(me), NEW x \in answer
      PROVE  Matches(me.query, x)
  <2>1. PICK p \in OfLanguage(me.query), k \in Kinds : x \in {<<p, k, n>> : n \in Held(p, k)}
    <3> HIDE DEF Held
    <3> QED
      BY <1>4 DEF answered
  <2>2. PICK n \in Held(p, k) : x = <<p, k, n>>
    BY <2>1
  <2>3. PICK j \in 1..Length(me, p, k) : n = Array(me, p, k)[j]
    BY DEF Array, Length
  <2>4. Fits(me.query, k, Array(me, p, k), Length(me, p, k))
    BY <1>1, <1>4 DEF Filtering
  <2>5. ~DropsKind(me.query, k)
    BY <2>4 DEF Fits
  <2>6. me.query.name = AnyName \/ n = me.query.name
    BY <2>3, <2>4 DEF Fits
  <2>7. me.query.languages = {} \/ LanguageOf[p] \in me.query.languages
    BY DEF OfLanguage
  <2> QED
    BY <2>2, <2>5, <2>6, <2>7 DEF Matches, DropsKind
<1>5. Filtering(me) => Filtering(rec)'
  BY <1>3, <1>4 DEF Filtering
<1> QED
  BY <1>2, <1>3, <1>5, OwnStepKeepsFiltering

\* A scan with no other beside it answers what its query asks for, whatever is
\* published and restarted around it: what pruneGroups leaves in the groups it
\* has visited stays fitting until the answer is made (scan.go:63-82).
THEOREM LoneScanAnswersItsQuery == Spec => []AnswerMatchesQuery
<1>1. Init => AloneInv
  BY NoScanIsFine DEF Init, AloneInv, Filtering
<1>2. IInv /\ AloneInv /\ [Next]_vars => AloneInv'
  <2> SUFFICES ASSUME IInv, AloneInv, [Next]_vars
               PROVE  AloneInv'
    OBVIOUS
  <2>1. ASSUME NEW s \in Scans, ScanStep(s)
        PROVE  AloneInv'
    BY <2>1, BeginFilters, VisitFilters, CompactFilters, CompactedFilters, AnswerFilters DEF ScanStep
  <2> QED
    BY <2>1, IndexStepsKeepFiltering DEF Next
<1>3. AloneInv => AnswerMatchesQuery
  BY DEF AloneInv, Alone, Filtering, AnswerMatchesQuery, Done
<1> QED
  BY <1>1, <1>2, <1>3, InitIInv, NextKeepsIInv, PTL DEF Spec
=============================================================================
