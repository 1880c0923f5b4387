---------------------------- MODULE AstCache_proofs ----------------------------
(***************************************************************************)
(* Proofs about AstCache, for any files, contents and order of the tasks,  *)
(* where the files are grounded (AstCache, Grounded).  TreeInv says what   *)
(* the cache holds for each call in progress: the units of its parse, those*)
(* before the current one analysed and those after it parsed.              *)
(* NamesInv, at the end, says how a file comes to be in it twice.          *)
(***************************************************************************)
EXTENDS AstCache, SequenceTheorems, FiniteSetTheorems, TLAPS

--------------------------------------------------------------------------------
(* The library's table.                                                    *)

LEMMA Least ==
  ASSUME NEW T, T \subseteq Nat, T # {}
  PROVE  \E m \in T : \A k \in T : ~ (k < m)
PROOF
<1>1. PICK m \in T : \A k \in T : ~ (<<k, m>> \in OpToRel(<, Nat))
  BY WFMin, NatLessThanWellFounded
<1>2. \A k \in T : k \in Nat /\ m \in Nat
  OBVIOUS
<1> QED
  BY <1>1, <1>2 DEF OpToRel

(* What is left of a table is some of its rows, in their order.            *)
LEMMA RemovedRows ==
  ASSUME NEW table \in Seq(Rows), NEW i \in 1 .. Len(table)
  PROVE  /\ RemoveAt(table, i) \in Seq(Rows)
         /\ Len(RemoveAt(table, i)) = Len(table) - 1
         /\ \A k \in 1 .. Len(table) - 1 :
              RemoveAt(table, i)[k] = IF k < i THEN table[k] ELSE table[k + 1]
PROOF
<1> DEFINE n == Len(table)
           q == SubSeq(table, 1, i - 1)
           r == SubSeq(table, i + 1, n)
<1>1. n \in Nat /\ i \in Nat /\ 1 <= i /\ i <= n /\ (\A k \in 1 .. n : table[k] \in Rows)
  BY LenProperties, ElementOfSeq
<1> HIDE DEF n
<1>2. /\ q \in Seq(Rows) /\ Len(q) = i - 1
      /\ \A k \in 1 .. i - 1 : q[k] = table[k]
  <2>1. \A k \in 1 .. i - 1 : table[k] \in Rows
    BY <1>1
  <2>2. /\ q \in Seq(Rows)
        /\ Len(q) = IF 1 <= i - 1 THEN i - 1 - 1 + 1 ELSE 0
        /\ \A k \in 1 .. i - 1 - 1 + 1 : q[k] = table[1 + k - 1]
    BY <1>1, <2>1, SubSeqProperties
  <2>3. Len(q) = i - 1
    BY <1>1, <2>2
  <2>4. \A k \in 1 .. i - 1 : q[k] = table[k]
    BY <1>1, <2>2
  <2> QED
    BY <2>2, <2>3, <2>4
<1>3. /\ r \in Seq(Rows) /\ Len(r) = n - i
      /\ \A k \in 1 .. n - i : r[k] = table[i + k]
  <2>1. \A k \in i + 1 .. n : table[k] \in Rows
    BY <1>1
  <2>2. /\ r \in Seq(Rows)
        /\ Len(r) = IF i + 1 <= n THEN n - (i + 1) + 1 ELSE 0
        /\ \A k \in 1 .. n - (i + 1) + 1 : r[k] = table[(i + 1) + k - 1]
    BY <1>1, <2>1, SubSeqProperties
  <2>3. Len(r) = n - i
    BY <1>1, <2>2
  <2>4. \A k \in 1 .. n - i : r[k] = table[i + k]
    BY <1>1, <2>2
  <2> QED
    BY <2>2, <2>3, <2>4
<1> HIDE DEF q, r
<1>4. /\ q \o r \in Seq(Rows)
      /\ Len(q \o r) = Len(q) + Len(r)
      /\ \A k \in 1 .. Len(q) + Len(r) : (q \o r)[k] = IF k <= Len(q) THEN q[k] ELSE r[k - Len(q)]
  BY <1>2, <1>3, ConcatProperties
<1>5. RemoveAt(table, i) = q \o r
  BY DEF RemoveAt, q, r, n
<1>6. Len(q \o r) = n - 1
  BY <1>1, <1>2, <1>3, <1>4
<1>7. ASSUME NEW k \in 1 .. n - 1
      PROVE  (q \o r)[k] = IF k < i THEN table[k] ELSE table[k + 1]
  <2>1. CASE k < i
    BY <1>1, <1>2, <1>3, <1>4, <2>1
  <2>2. CASE ~ (k < i)
    <3> DEFINE m == k - (i - 1)
    <3>1. m \in 1 .. n - i /\ ~ (k <= i - 1) /\ i + m = k + 1 /\ k \in 1 .. Len(q) + Len(r)
      BY <1>1, <1>2, <1>3, <2>2
    <3> HIDE DEF m
    <3>2. (q \o r)[k] = r[k - Len(q)]
      BY <1>2, <1>4, <3>1
    <3>3. k - Len(q) = m
      BY <1>2 DEF m
    <3> QED
      BY <1>3, <2>2, <3>1, <3>2, <3>3
  <2> QED
    BY <2>1, <2>2
<1> QED
  BY <1>4, <1>5, <1>6, <1>7 DEF n

OneRowPerId(table) ==
  \A i, j \in 1 .. Len(table) : i # j => ~ SameId(table[i], table[j])

(* INSERT OR REPLACE keeps the IDs apart, and adds the one row only.       *)
LEMMA PutRows ==
  ASSUME NEW table \in Seq(Rows), NEW row \in Rows, OneRowPerId(table)
  PROVE  /\ Put(table, row) \in Seq(Rows)
         /\ \A k \in 1 .. Len(Put(table, row)) :
              \/ Put(table, row)[k] = row
              \/ \E j \in 1 .. Len(table) : Put(table, row)[k] = table[j]
         /\ OneRowPerId(Put(table, row))
PROOF
<1> DEFINE n == Len(table)
           left == Without(table, row)
<1>1. n \in Nat /\ DOMAIN table = 1 .. n /\ (\A k \in 1 .. n : table[k] \in Rows)
  BY LenProperties, ElementOfSeq
<1>2. /\ left \in Seq(Rows) /\ Len(left) \in Nat
      /\ \A k \in 1 .. Len(left) :
           ~ SameId(left[k], row) /\ \E j \in 1 .. n : left[k] = table[j]
      /\ OneRowPerId(left)
  <2>1. CASE \E i \in 1 .. n : SameId(table[i], row)
    <3> DEFINE p == CHOOSE i \in 1 .. n : SameId(table[i], row)
    <3>1. p \in 1 .. n /\ SameId(table[p], row)
      BY <2>1
    <3>2. left = RemoveAt(table, p)
      BY <1>1, <2>1 DEF Without
    <3> HIDE DEF p, left
    <3>3. /\ left \in Seq(Rows)
          /\ Len(left) = n - 1
          /\ \A k \in 1 .. n - 1 : left[k] = IF k < p THEN table[k] ELSE table[k + 1]
      BY <3>1, <3>2, RemovedRows
    <3> DEFINE from(k) == IF k < p THEN k ELSE k + 1
    <3>4. \A k \in 1 .. n - 1 : from(k) \in 1 .. n /\ from(k) # p /\ left[k] = table[from(k)]
      BY <1>1, <3>1, <3>3
    <3>5. \A k, l \in 1 .. n - 1 : k # l => from(k) # from(l)
      BY <1>1, <3>1
    <3> HIDE DEF from
    <3>6. ASSUME NEW k \in 1 .. n, k # p PROVE ~ SameId(table[k], row)
      <4>1. ~ SameId(table[k], table[p])
        BY <3>1, <3>6 DEF OneRowPerId
      <4> QED
        BY <3>1, <4>1 DEF SameId
    <3>7. OneRowPerId(left)
      BY <3>3, <3>4, <3>5 DEF OneRowPerId
    <3>8. Len(left) \in Nat
      BY <3>3, LenProperties
    <3> QED
      BY <3>3, <3>4, <3>6, <3>7, <3>8
  <2>2. CASE ~ \E i \in 1 .. n : SameId(table[i], row)
    <3>1. left = table
      BY <1>1, <2>2 DEF Without
    <3> QED
      BY <1>1, <2>2, <3>1
  <2> QED
    BY <2>1, <2>2
<1> HIDE DEF left, n
<1>3. CASE row.kind = "architecture"
  <2>1. Put(table, row) = table
    BY <1>3 DEF Put
  <2> QED
    BY <2>1
<1>4. CASE row.kind # "architecture"
  <2> DEFINE new == Append(left, row)
             m == Len(left)
  <2>1. Put(table, row) = new
    BY <1>4 DEF Put, left
  <2>2. /\ new \in Seq(Rows) /\ Len(new) = m + 1 /\ m \in Nat
        /\ \A k \in 1 .. m : new[k] = left[k]
        /\ new[m + 1] = row
    BY <1>2, AppendProperties
  <2> HIDE DEF new, m
  <2>3. \A k \in 1 .. Len(new) : k = m + 1 \/ k \in 1 .. m
    BY <2>2
  <2>4. \A k \in 1 .. Len(new) : new[k] = row \/ \E j \in 1 .. Len(table) : new[k] = table[j]
    BY <1>2, <2>2, <2>3 DEF m, n
  <2>5. OneRowPerId(new)
    <3>1. \A k \in 1 .. m : ~ SameId(left[k], row) /\ ~ SameId(row, left[k])
      BY <1>2 DEF m, SameId
    <3>2. \A k, l \in 1 .. m : k # l => ~ SameId(left[k], left[l])
      BY <1>2 DEF m, OneRowPerId
    <3> QED
      BY <2>2, <2>3, <3>1, <3>2 DEF OneRowPerId
  <2> QED
    BY <2>1, <2>2, <2>4, <2>5
<1> QED
  BY <1>3, <1>4

(* The first row with a name is one of the table's.                        *)
LEMMA FirstRow ==
  ASSUME rows \in Seq(Rows), NEW name, HasRow(name)
  PROVE  \E i \in 1 .. Len(rows) : RowNamed(name) = rows[i] /\ rows[i].name = name
PROOF
<1> DEFINE T == {i \in 1 .. Len(rows) : rows[i].name = name}
           First(i) == rows[i].name = name /\ \A j \in 1 .. i - 1 : rows[j].name # name
<1>1. DOMAIN rows = 1 .. Len(rows) /\ Len(rows) \in Nat
  BY LenProperties
<1>2. T \subseteq Nat /\ T # {}
  BY <1>1 DEF HasRow
<1>3. PICK m \in T : \A k \in T : ~ (k < m)
  BY <1>2, Least
<1>4. m \in DOMAIN rows /\ First(m)
  BY <1>1, <1>3
<1>5. RowNamed(name) = rows[CHOOSE i \in DOMAIN rows : First(i)]
  BY DEF RowNamed
<1>6. (CHOOSE i \in DOMAIN rows : First(i)) \in DOMAIN rows
      /\ First(CHOOSE i \in DOMAIN rows : First(i))
  BY <1>4
<1> QED
  BY <1>1, <1>5, <1>6

--------------------------------------------------------------------------------
(* The invariant.  Rank is the order the files are grounded in.            *)

Rank == CHOOSE rank \in [Files -> 1 .. Cardinality(Files)] : GroundedBy(rank)

NoRow == [kind |-> "none"]

Frames ==
  [file : Files, batch : Nat \ {0}, size : Nat, at : Nat \ {0},
   need : Nat \ {0}, wanted : Rows \cup {NoRow}]

Addresses == Nat \X (Nat \ {0})

CachedUnits ==
  [file : Files, read : Nat, unit : Units, state : States, depends : SUBSET Addresses]

(* A row stands for a unit its file may hold.                              *)
Declared(row) ==
  \E u \in UnitsOf(row.file) : u.kind = row.kind /\ u.name = row.name

AllDeclared(table) == \A i \in 1 .. Len(table) : Declared(table[i])

WorldTyped ==
  /\ disk \in [Files -> UNION {Contents[f] : f \in Files}]
  /\ \A f \in Files : disk[f] \in Contents[f]
  /\ saves \in [Files -> Nat]
  /\ unreported \subseteq Files
  /\ known \in BOOLEAN
  /\ indexed \in 0 .. MaxIndexed

RowsInv ==
  /\ rows \in Seq(Rows)
  /\ indexing \in Seq(Rows)
  /\ AllDeclared(rows)
  /\ AllDeclared(indexing)
  /\ OneRowPerId(rows)

(* The cache holds units of the parses up to the n-th.                     *)
CacheOf(units, n) ==
  \A s \in DOMAIN units :
    /\ s \in Addresses
    /\ s[1] \in 1 .. n
    /\ units[s] \in CachedUnits
    /\ units[s].unit \in UnitsOf(units[s].file)
    /\ units[s].depends \subseteq DOMAIN units

(* A call's parse is in the cache: its units before the current one have   *)
(* been analysed, and those after it are parsed.                           *)
Holds(units, call) ==
  /\ \E c \in Contents[call.file] :
       /\ c # NoFile
       /\ Len(c) = call.size
       /\ \A k \in 1 .. call.size :
            /\ <<call.batch, k>> \in DOMAIN units
            /\ units[<<call.batch, k>>].unit = c[k]
  /\ \A s \in DOMAIN units : s[1] = call.batch => s[2] \in 1 .. call.size
  /\ \A k \in 1 .. call.size :
       LET state == units[<<call.batch, k>>].state IN
         /\ k < call.at => state = "analysed"
         /\ k = call.at => state \in {"parsed", "analysing"}
         /\ k > call.at => state = "parsed"

(* A call that waits for a load is in the middle of a unit.                *)
WaitsAt(units, call) ==
  /\ call.at <= call.size
  /\ units[<<call.batch, call.at>>].state = "analysing"

CallsInv(units, calls, n) ==
  /\ calls \in Seq(Frames)
  /\ calls # <<>> => calls[1].file = Main
  /\ \A i \in 1 .. Len(calls) :
       /\ calls[i].batch <= n
       /\ calls[i].at <= calls[i].size + 1
       /\ Holds(units, calls[i])
       /\ i < Len(calls) => WaitsAt(units, calls[i])
  /\ \A i, j \in 1 .. Len(calls) : i < j =>
       /\ calls[i].batch < calls[j].batch
       /\ calls[i].file # calls[j].file
       /\ Rank[calls[j].file] <= Rank[calls[i].file]

(* A unit that is not finished belongs to a call in progress, or to a      *)
(* parse whose analysis an exception has ended.                            *)
UnfinishedIn(units, calls, left) ==
  \A s \in DOMAIN units :
    units[s].state \in {"parsed", "analysing"} /\ s[1] \notin left =>
    \E i \in 1 .. Len(calls) : s[1] = calls[i].batch

(* What has not been outdated is as its file is now, or its file was saved *)
(* and that has not been reported.                                         *)
FreshIn(units, known_saves, told) ==
  \A s \in DOMAIN units : units[s].state # "outdated" =>
    \/ units[s].file \in told \cup {Main}
    \/ units[s].read = known_saves[units[s].file]

(* The units of the document depend on units that were analysed.           *)
DependOnAnalysed(units, n) ==
  \A s \in DOMAIN units : s[1] = n =>
    \A d \in units[s].depends : d \in DOMAIN units /\ units[d].state = "analysed"

TreeInv ==
  /\ parses \in Nat
  /\ updates \in 0 .. MaxUpdates
  /\ invalidated_ \in BOOLEAN
  /\ main_file \in 0 .. parses
  /\ CacheOf(cache, parses)
  /\ CallsInv(cache, stack, parses)
  /\ UnfinishedIn(cache, stack, abandoned)
  /\ (stack # <<>> \/ ~ invalidated_) => DependOnAnalysed(cache, main_file)

IInv == WorldTyped /\ RowsInv /\ TreeInv /\ FreshIn(cache, saves, unreported)

LEMMA RankGrounds == Rank \in [Files -> 1 .. Cardinality(Files)] /\ GroundedBy(Rank)
PROOF
  BY Grounded DEF Rank

LEMMA UnitsTyped ==
  ASSUME NEW f \in Files, NEW c \in Contents[f], c # NoFile
  PROVE  /\ c \in Seq(Units)
         /\ UnitsIn(c) = c
         /\ DOMAIN c = 1 .. Len(c)
         /\ Len(c) \in Nat
         /\ \A k \in 1 .. Len(c) : c[k] \in Units /\ c[k] \in UnitsOf(f)
PROOF
<1>1. c \in Seq(Units)
  BY AstAssumption
<1>2. UnitsIn(c) = c
  BY DEF UnitsIn
<1>3. Len(c) \in Nat /\ DOMAIN c = 1 .. Len(c)
  BY <1>1, LenProperties
<1>4. \A k \in 1 .. Len(c) : c[k] \in Units
  BY <1>1, ElementOfSeq
<1>5. \A k \in 1 .. Len(c) : c[k] \in Range(UnitsIn(c))
  BY <1>2, <1>3 DEF Range
<1>6. \A k \in 1 .. Len(c) : c[k] \in UnitsOf(f)
  BY <1>5 DEF UnitsOf
<1> QED
  BY <1>1, <1>2, <1>3, <1>4, <1>6

--------------------------------------------------------------------------------
(* What a change of the cache or of the top call leaves as it was.         *)

SameOf(units, units2, batch) ==
  /\ \A s \in DOMAIN units : s[1] = batch =>
       /\ s \in DOMAIN units2
       /\ units2[s].unit = units[s].unit
       /\ units2[s].state = units[s].state
  /\ \A s \in DOMAIN units2 : s[1] = batch => s \in DOMAIN units

SameCall(call, call2) ==
  /\ call2.file = call.file
  /\ call2.batch = call.batch
  /\ call2.size = call.size

LEMMA HoldsSame ==
  ASSUME NEW units, NEW units2, NEW call, NEW call2,
         SameOf(units, units2, call.batch), SameCall(call, call2), call2.at = call.at,
         Holds(units, call)
  PROVE  Holds(units2, call2)
PROOF
<1> DEFINE b == call.batch
           n == call.size
<1>1. call2.batch = b /\ call2.size = n /\ call2.at = call.at /\ call2.file = call.file
  BY DEF SameCall
<1>2. ASSUME NEW k \in 1 .. n
      PROVE  /\ <<b, k>> \in DOMAIN units2
             /\ units2[<<b, k>>].unit = units[<<b, k>>].unit
             /\ units2[<<b, k>>].state = units[<<b, k>>].state
  <2>1. <<b, k>> \in DOMAIN units /\ <<b, k>>[1] = b
    BY <1>2 DEF Holds
  <2> QED
    BY <2>1 DEF SameOf
<1>3. \A s \in DOMAIN units2 : s[1] = b => s[2] \in 1 .. n
  BY DEF SameOf, Holds
<1>4. PICK c \in Contents[call.file] :
        /\ c # NoFile
        /\ Len(c) = n
        /\ \A k \in 1 .. n : units[<<b, k>>].unit = c[k]
  BY DEF Holds
<1>5. \A k \in 1 .. n :
        /\ <<b, k>> \in DOMAIN units2
        /\ units2[<<b, k>>].unit = c[k]
  BY <1>2, <1>4
<1>6. \A k \in 1 .. n :
        LET state == units2[<<b, k>>].state IN
          /\ k < call.at => state = "analysed"
          /\ k = call.at => state \in {"parsed", "analysing"}
          /\ k > call.at => state = "parsed"
  <2>1. \A k \in 1 .. n :
          LET state == units[<<b, k>>].state IN
            /\ k < call.at => state = "analysed"
            /\ k = call.at => state \in {"parsed", "analysing"}
            /\ k > call.at => state = "parsed"
    BY DEF Holds
  <2> QED
    BY <1>2, <2>1
<1> HIDE DEF b, n
<1>7. \E d \in Contents[call.file] :
        /\ d # NoFile
        /\ Len(d) = n
        /\ \A k \in 1 .. n : <<b, k>> \in DOMAIN units2 /\ units2[<<b, k>>].unit = d[k]
  BY <1>4, <1>5
<1> QED
  BY <1>1, <1>3, <1>6, <1>7 DEF Holds

WithState(units, x, state) == [units EXCEPT ![x].state = state]

WithDepends(units, x, D) == [units EXCEPT ![x].depends = @ \cup D]

OnlyState(units, units2, x, state) ==
  /\ DOMAIN units2 = DOMAIN units
  /\ units2[x].state = state
  /\ \A s \in DOMAIN units : s # x => units2[s].state = units[s].state
  /\ \A s \in DOMAIN units :
       /\ units2[s].file = units[s].file
       /\ units2[s].read = units[s].read
       /\ units2[s].unit = units[s].unit
       /\ units2[s].depends = units[s].depends

OnlyDepends(units, units2, x, D) ==
  /\ DOMAIN units2 = DOMAIN units
  /\ units2[x].depends = units[x].depends \cup D
  /\ \A s \in DOMAIN units : s # x => units2[s].depends = units[s].depends
  /\ \A s \in DOMAIN units :
       /\ units2[s].file = units[s].file
       /\ units2[s].read = units[s].read
       /\ units2[s].unit = units[s].unit
       /\ units2[s].state = units[s].state

(* A new state of a unit, and units it depends on, change nothing else.    *)
LEMMA StateSet ==
  ASSUME NEW units, NEW units2, NEW n, CacheOf(units, n),
         NEW x \in DOMAIN units, NEW state \in States,
         units2 = WithState(units, x, state)
  PROVE  CacheOf(units2, n) /\ OnlyState(units, units2, x, state)
PROOF
<1> DEFINE v == [units[x] EXCEPT !.state = state]
<1>1. units[x] \in CachedUnits
  BY DEF CacheOf
<1>2. /\ v \in CachedUnits
      /\ v.state = state
      /\ v.file = units[x].file /\ v.read = units[x].read
      /\ v.unit = units[x].unit /\ v.depends = units[x].depends
  BY <1>1 DEF CachedUnits
<1>3. DOMAIN units2 = DOMAIN units /\ units2[x] = v
      /\ \A s \in DOMAIN units : s # x => units2[s] = units[s]
  BY DEF WithState
<1> HIDE DEF v
<1>4. \A s \in DOMAIN units :
        /\ units2[s] \in CachedUnits
        /\ units2[s].file = units[s].file
        /\ units2[s].read = units[s].read
        /\ units2[s].unit = units[s].unit
        /\ units2[s].depends = units[s].depends
  BY <1>2, <1>3 DEF CacheOf
<1>5. CacheOf(units2, n)
  BY <1>3, <1>4 DEF CacheOf
<1> QED
  BY <1>2, <1>3, <1>4, <1>5 DEF OnlyState

LEMMA DependsAdded ==
  ASSUME NEW units, NEW units2, NEW n, CacheOf(units, n),
         NEW x \in DOMAIN units, NEW D \in SUBSET DOMAIN units,
         units2 = WithDepends(units, x, D)
  PROVE  CacheOf(units2, n) /\ OnlyDepends(units, units2, x, D)
PROOF
<1> DEFINE E == units[x].depends \cup D
           v == [units[x] EXCEPT !.depends = E]
<1>1. units[x] \in CachedUnits /\ DOMAIN units \subseteq Addresses /\ units[x].depends \subseteq DOMAIN units
  BY DEF CacheOf
<1>2. E \in SUBSET Addresses /\ E \subseteq DOMAIN units
  BY <1>1
<1> HIDE DEF E
<1>3. /\ v \in CachedUnits
      /\ v.depends = E
      /\ v.file = units[x].file /\ v.read = units[x].read
      /\ v.unit = units[x].unit /\ v.state = units[x].state
  BY <1>1, <1>2 DEF CachedUnits
<1>4. units2 = [units EXCEPT ![x] = v]
  BY DEF v, E, WithDepends
<1>5. DOMAIN units2 = DOMAIN units /\ units2[x] = v
      /\ \A s \in DOMAIN units : s # x => units2[s] = units[s]
  BY <1>4
<1> HIDE DEF v
<1>6. \A s \in DOMAIN units :
        /\ units2[s] \in CachedUnits
        /\ units2[s].file = units[s].file
        /\ units2[s].read = units[s].read
        /\ units2[s].unit = units[s].unit
        /\ units2[s].state = units[s].state
        /\ units2[s].depends \subseteq DOMAIN units
  BY <1>2, <1>3, <1>5 DEF CacheOf
<1>7. CacheOf(units2, n)
  BY <1>5, <1>6 DEF CacheOf
<1> QED
  BY <1>3, <1>5, <1>6, <1>7 DEF E, OnlyDepends

(* The calls stay right when only what the top one is at changes.          *)
LEMMA CallsKept ==
  ASSUME NEW units, NEW units2, NEW calls, NEW calls2 \in Seq(Frames), NEW n,
         CallsInv(units, calls, n), calls # <<>>,
         Len(calls2) = Len(calls),
         \A i \in 1 .. Len(calls) : SameCall(calls[i], calls2[i]),
         \A i \in 1 .. Len(calls) : i < Len(calls) =>
           /\ calls2[i].at = calls[i].at
           /\ SameOf(units, units2, calls[i].batch),
         calls2[Len(calls)].at <= calls[Len(calls)].size + 1,
         Holds(units2, calls2[Len(calls)])
  PROVE  CallsInv(units2, calls2, n)
PROOF
<1> DEFINE m == Len(calls)
<1>1. m \in Nat /\ m # 0
  BY EmptySeq DEF CallsInv
<1>2. calls2 # <<>>
  BY <1>1, EmptySeq
<1>3. calls2[1].file = Main
  BY <1>1 DEF CallsInv, SameCall
<1>4. ASSUME NEW i \in 1 .. m
      PROVE  /\ calls2[i].batch <= n
             /\ calls2[i].at <= calls2[i].size + 1
             /\ Holds(units2, calls2[i])
             /\ i < m => WaitsAt(units2, calls2[i])
  <2>1. /\ calls[i].batch <= n
        /\ calls[i].at <= calls[i].size + 1
        /\ Holds(units, calls[i])
        /\ i < m => WaitsAt(units, calls[i])
        /\ SameCall(calls[i], calls2[i])
    BY DEF CallsInv
  <2>2. calls2[i].batch = calls[i].batch /\ calls2[i].size = calls[i].size
    BY <2>1 DEF SameCall
  <2>3. CASE i = m
    BY <2>1, <2>2, <2>3
  <2>4. CASE i < m
    <3>1. calls2[i].at = calls[i].at /\ SameOf(units, units2, calls[i].batch)
      BY <2>4
    <3>2. Holds(units2, calls2[i])
      BY <2>1, <3>1, HoldsSame
    <3>3. WaitsAt(units2, calls2[i])
      <4> DEFINE s == <<calls[i].batch, calls[i].at>>
      <4>0. calls[i] \in Frames
        BY ElementOfSeq DEF CallsInv
      <4>1. calls[i].at \in 1 .. calls[i].size /\ units[s].state = "analysing"
        <5>1. calls[i].at <= calls[i].size /\ units[s].state = "analysing"
          BY <2>1, <2>4 DEF WaitsAt
        <5>2. calls[i].at \in Nat \ {0} /\ calls[i].size \in Nat
          BY <4>0 DEF Frames
        <5> QED
          BY <5>1, <5>2
      <4>2. s \in DOMAIN units /\ s[1] = calls[i].batch
        BY <2>1, <4>1 DEF Holds
      <4>3. units2[s].state = "analysing"
        BY <3>1, <4>1, <4>2 DEF SameOf
      <4> QED
        BY <2>2, <3>1, <4>1, <4>3 DEF WaitsAt
    <3> QED
      BY <2>1, <2>2, <3>1, <3>2, <3>3
  <2> QED
    BY <1>1, <2>3, <2>4
<1>5. ASSUME NEW i \in 1 .. m, NEW j \in 1 .. m, i < j
      PROVE  /\ calls2[i].batch < calls2[j].batch
             /\ calls2[i].file # calls2[j].file
             /\ Rank[calls2[j].file] <= Rank[calls2[i].file]
  <2>1. /\ calls[i].batch < calls[j].batch
        /\ calls[i].file # calls[j].file
        /\ Rank[calls[j].file] <= Rank[calls[i].file]
    BY <1>5 DEF CallsInv
  <2>2. SameCall(calls[i], calls2[i]) /\ SameCall(calls[j], calls2[j])
    OBVIOUS
  <2> QED
    BY <2>1, <2>2 DEF SameCall
<1> QED
  BY <1>2, <1>3, <1>4, <1>5 DEF CallsInv

--------------------------------------------------------------------------------
(* The cache and the calls once a file has been parsed.                    *)

LEMMA ParsedCache ==
  ASSUME NEW units, NEW f \in Files, disk[f] # NoFile, WorldTyped, parses \in Nat,
         CacheOf(units, parses)
  PROVE  LET units2 == Parsed(f, units)
             n == Len(disk[f]) IN
         /\ n \in Nat
         /\ DOMAIN units \subseteq DOMAIN units2
         /\ \A s \in DOMAIN units : s[1] # parses + 1 /\ units2[s] = units[s]
         /\ \A s \in DOMAIN units2 : s \in DOMAIN units \/ \E k \in 1 .. n : s = <<parses + 1, k>>
         /\ \A k \in 1 .. n :
              /\ <<parses + 1, k>> \in DOMAIN units2
              /\ units2[<<parses + 1, k>>] = Cached(f, disk[f][k])
         /\ CacheOf(units2, parses + 1)
PROOF
<1> DEFINE p == parses + 1
           n == Len(disk[f])
           fresh == {<<p, k>> : k \in 1 .. n}
           units2 == Parsed(f, units)
<1>1. /\ n \in Nat
      /\ DOMAIN disk[f] = 1 .. n
      /\ \A k \in 1 .. n : disk[f][k] \in Units /\ disk[f][k] \in UnitsOf(f)
  BY UnitsTyped DEF WorldTyped
<1>2. p \in Nat \ {0} /\ \A i \in 1 .. parses : i # p /\ i \in 1 .. p
  OBVIOUS
<1>3. units2 = [s \in DOMAIN units \cup fresh |->
                  IF s \in fresh THEN Cached(f, disk[f][s[2]]) ELSE units[s]]
  BY <1>1 DEF Parsed
<1> HIDE DEF n, p
<1>4. \A s \in fresh : s[1] = p /\ s \in Addresses
  BY <1>1, <1>2 DEF Addresses
<1>5. \A s \in DOMAIN units : s \in Addresses /\ s[1] \in 1 .. parses
  BY DEF CacheOf
<1>6. \A s \in DOMAIN units : s[1] # p /\ s \notin fresh
  BY <1>2, <1>4, <1>5
<1>7. DOMAIN units2 = DOMAIN units \cup fresh
  BY <1>3
<1>8. \A s \in DOMAIN units : units2[s] = units[s]
  BY <1>3, <1>6
<1>9. \A k \in 1 .. n : <<p, k>> \in fresh /\ units2[<<p, k>>] = Cached(f, disk[f][k])
  BY <1>3
<1> HIDE DEF units2
<1>10. ASSUME NEW k \in 1 .. n
       PROVE  LET v == Cached(f, disk[f][k]) IN
              v \in CachedUnits /\ v.unit \in UnitsOf(v.file) /\ v.depends = {}
  <2>1. saves[f] \in Nat
    BY DEF WorldTyped
  <2> QED
    BY <1>1, <2>1 DEF Cached, CachedUnits, States
<1>11. ASSUME NEW s \in DOMAIN units2
       PROVE  /\ s \in Addresses
              /\ s[1] \in 1 .. p
              /\ units2[s] \in CachedUnits
              /\ units2[s].unit \in UnitsOf(units2[s].file)
              /\ units2[s].depends \subseteq DOMAIN units2
  <2>1. CASE s \in DOMAIN units
    <3>1. /\ units[s] \in CachedUnits
          /\ units[s].unit \in UnitsOf(units[s].file)
          /\ units[s].depends \subseteq DOMAIN units
      BY <2>1 DEF CacheOf
    <3> QED
      BY <1>2, <1>5, <1>7, <1>8, <2>1, <3>1
  <2>2. CASE s \in fresh
    <3>1. PICK k \in 1 .. n : s = <<p, k>>
      BY <2>2
    <3>2. p \in 1 .. p
      BY <1>2
    <3> QED
      BY <1>4, <1>9, <1>10, <2>2, <3>1, <3>2
  <2> QED
    BY <1>7, <2>1, <2>2
<1>12. CacheOf(units2, p)
  BY <1>11 DEF CacheOf
<1> HIDE DEF fresh
<1>13. \A s \in DOMAIN units2 : s \in DOMAIN units \/ \E k \in 1 .. n : s = <<p, k>>
  BY <1>7 DEF fresh
<1> QED
  BY <1>1, <1>6, <1>7, <1>8, <1>9, <1>12, <1>13 DEF n, p, units2

LEMMA CachedFields ==
  \A f, u : /\ Cached(f, u).file = f
            /\ Cached(f, u).read = saves[f]
            /\ Cached(f, u).unit = u
            /\ Cached(f, u).state = "parsed"
            /\ Cached(f, u).depends = {}
PROOF
  BY DEF Cached

(* The call that parses a file begins with its units parsed.               *)
LEMMA FrameBegins ==
  ASSUME NEW units, NEW f \in Files, disk[f] # NoFile, WorldTyped, parses \in Nat,
         CacheOf(units, parses), NEW row \in Rows \cup {NoRow}
  PROVE  /\ Frame(f, row) \in Frames
         /\ Frame(f, row).at <= Frame(f, row).size + 1
         /\ Holds(Parsed(f, units), Frame(f, row))
PROOF
<1> DEFINE p == parses + 1
           n == Len(disk[f])
           units2 == Parsed(f, units)
           call == Frame(f, row)
<1>1. /\ n \in Nat
      /\ \A s \in DOMAIN units : s[1] # p
      /\ \A s \in DOMAIN units2 : s \in DOMAIN units \/ \E k \in 1 .. n : s = <<p, k>>
      /\ \A k \in 1 .. n :
           <<p, k>> \in DOMAIN units2 /\ units2[<<p, k>>] = Cached(f, disk[f][k])
  <2>1. n \in Nat
    BY ParsedCache
  <2>2. \A s \in DOMAIN units : s[1] # p
    BY ParsedCache
  <2>3. \A s \in DOMAIN units2 : s \in DOMAIN units \/ \E k \in 1 .. n : s = <<p, k>>
    BY ParsedCache
  <2>4. \A k \in 1 .. n :
          <<p, k>> \in DOMAIN units2 /\ units2[<<p, k>>] = Cached(f, disk[f][k])
    BY ParsedCache
  <2> QED
    BY <2>1, <2>2, <2>3, <2>4
<1>2. disk[f] \in Contents[f]
  BY DEF WorldTyped
<1>3. call.file = f /\ call.batch = p /\ call.size = n /\ call.at = 1
  BY DEF Frame
<1>4. call \in Frames
  <2>1. p \in Nat \ {0} /\ 1 \in Nat \ {0}
    OBVIOUS
  <2> QED
    BY <1>1, <2>1 DEF Frame, Frames
<1> HIDE DEF p, n, units2, call
<1>5. \A k \in 1 .. n : units2[<<p, k>>].unit = disk[f][k] /\ units2[<<p, k>>].state = "parsed"
  BY <1>1, CachedFields
<1>6. \A s \in DOMAIN units2 : s[1] = p => s[2] \in 1 .. n
  BY <1>1
<1>7. \A k \in 1 .. n : ~ (k < 1)
  BY <1>1
<1>8. \E c \in Contents[f] :
        /\ c # NoFile
        /\ Len(c) = n
        /\ \A k \in 1 .. n : <<p, k>> \in DOMAIN units2 /\ units2[<<p, k>>].unit = c[k]
  BY <1>1, <1>2, <1>5 DEF n
<1>9. Holds(units2, call)
  BY <1>3, <1>5, <1>6, <1>7, <1>8 DEF Holds
<1>10. call.at <= call.size + 1
  BY <1>1, <1>3
<1> QED
  BY <1>4, <1>9, <1>10 DEF call, units2

(* What has been cached for other calls stays as it is.                    *)
LEMMA ParsedKeeps ==
  ASSUME NEW units, NEW f \in Files, disk[f] # NoFile, WorldTyped, parses \in Nat,
         CacheOf(units, parses), NEW batch \in Nat, batch <= parses
  PROVE  SameOf(units, Parsed(f, units), batch)
PROOF
<1> DEFINE p == parses + 1
<1>1. batch # p
  OBVIOUS
<1>2. /\ DOMAIN units \subseteq DOMAIN Parsed(f, units)
      /\ \A s \in DOMAIN units : Parsed(f, units)[s] = units[s]
      /\ \A s \in DOMAIN Parsed(f, units) :
           s \in DOMAIN units \/ \E k \in 1 .. Len(disk[f]) : s = <<p, k>>
  BY ParsedCache
<1> HIDE DEF p
<1> QED
  BY <1>1, <1>2 DEF SameOf

LEMMA ParsedFresh ==
  ASSUME NEW units, NEW f \in Files, disk[f] # NoFile, WorldTyped, parses \in Nat,
         CacheOf(units, parses)
  PROVE  /\ FreshIn(units, saves, unreported) => FreshIn(Parsed(f, units), saves, unreported)
         /\ \A n \in 0 .. parses :
              DependOnAnalysed(units, n) => DependOnAnalysed(Parsed(f, units), n)
         /\ DependOnAnalysed(Parsed(f, units), parses + 1)
PROOF
<1> DEFINE p == parses + 1
           units2 == Parsed(f, units)
<1>1. /\ DOMAIN units \subseteq DOMAIN units2
      /\ \A s \in DOMAIN units : s[1] # p /\ units2[s] = units[s]
      /\ \A s \in DOMAIN units2 : s \in DOMAIN units \/ \E k \in 1 .. Len(disk[f]) : s = <<p, k>>
      /\ \A k \in 1 .. Len(disk[f]) : units2[<<p, k>>] = Cached(f, disk[f][k])
  BY ParsedCache
<1>2. \A n \in 0 .. parses : n # p
  OBVIOUS
<1> HIDE DEF p, units2
<1>3. \A k \in 1 .. Len(disk[f]) :
        /\ units2[<<p, k>>].file = f
        /\ units2[<<p, k>>].read = saves[f]
        /\ units2[<<p, k>>].depends = {}
  BY <1>1, CachedFields
<1>4. FreshIn(units, saves, unreported) => FreshIn(units2, saves, unreported)
  BY <1>1, <1>3 DEF FreshIn
<1>5. \A n \in 0 .. parses : DependOnAnalysed(units, n) => DependOnAnalysed(units2, n)
  <2>1. \A s \in DOMAIN units : units[s].depends \subseteq DOMAIN units
    BY DEF CacheOf
  <2>2. \A k \in 1 .. Len(disk[f]) : <<p, k>>[1] = p
    OBVIOUS
  <2> QED
    BY <1>1, <1>2, <2>1, <2>2 DEF DependOnAnalysed
<1>6. DependOnAnalysed(units2, p)
  BY <1>1, <1>3 DEF DependOnAnalysed
<1> QED
  BY <1>4, <1>5, <1>6 DEF p, units2

--------------------------------------------------------------------------------
(* The call on top and the unit it is at.                                  *)

LEMMA TopCall ==
  ASSUME TreeInv, stack # <<>>
  PROVE  /\ Len(stack) \in Nat \ {0}
         /\ Len(stack) \in 1 .. Len(stack)
         /\ Top = stack[Len(stack)]
         /\ Top \in Frames
         /\ Top.batch \in Nat /\ Top.size \in Nat /\ Top.at \in Nat \ {0} /\ Top.need \in Nat \ {0}
         /\ Top.file \in Files
         /\ Top.batch <= parses
         /\ Top.at <= Top.size + 1
         /\ Holds(cache, Top)
PROOF
<1>1. stack \in Seq(Frames)
  BY DEF TreeInv, CallsInv
<1>2. Len(stack) \in Nat \ {0}
  BY <1>1, EmptySeq
<1>3. Len(stack) \in 1 .. Len(stack)
  BY <1>2
<1>4. Top = stack[Len(stack)] /\ Top \in Frames
  BY <1>1, <1>3, ElementOfSeq DEF Top
<1>5. Top.batch <= parses /\ Top.at <= Top.size + 1 /\ Holds(cache, Top)
  BY <1>3, <1>4 DEF TreeInv, CallsInv
<1>6. /\ Top.batch \in Nat /\ Top.size \in Nat
      /\ Top.at \in Nat \ {0} /\ Top.need \in Nat \ {0} /\ Top.file \in Files
  BY <1>4 DEF Frames
<1> QED
  BY <1>2, <1>3, <1>4, <1>5, <1>6

LEMMA CurrentUnit ==
  ASSUME TreeInv, HasUnit
  PROVE  /\ stack # <<>>
         /\ Top.at \in 1 .. Top.size
         /\ Current \in DOMAIN cache
         /\ Current[1] = Top.batch
         /\ Current[2] = Top.at
         /\ cache[Current].unit \in Units
         /\ cache[Current].state \in {"parsed", "analysing"}
PROOF
<1>1. stack # <<>> /\ Top.at <= Top.size
  BY DEF HasUnit, Idle
<1>2. Top.at \in 1 .. Top.size
  BY <1>1, TopCall
<1>3. Current \in DOMAIN cache /\ Current[1] = Top.batch /\ Current[2] = Top.at
  BY <1>1, <1>2, TopCall DEF Holds, Current
<1>4. cache[Current].unit \in Units
  BY <1>3 DEF TreeInv, CacheOf, CachedUnits
<1>5. cache[Current].state \in {"parsed", "analysing"}
  BY <1>1, <1>2, TopCall DEF Holds, Current
<1> QED
  BY <1>1, <1>2, <1>3, <1>4, <1>5

LEMMA NextNeed ==
  ASSUME NEW calls \in Seq(Frames), calls # <<>>
  PROVE  /\ WithNextNeed(calls) \in Seq(Frames)
         /\ Len(WithNextNeed(calls)) = Len(calls)
         /\ \A i \in 1 .. Len(calls) :
              /\ SameCall(calls[i], WithNextNeed(calls)[i])
              /\ WithNextNeed(calls)[i].at = calls[i].at
PROOF
<1> DEFINE m == Len(calls)
           calls2 == WithNextNeed(calls)
           call == [calls[m] EXCEPT !.need = @ + 1]
<1>1. m \in Nat \ {0} /\ DOMAIN calls = 1 .. m
  BY EmptySeq, LenProperties
<1>2. m \in 1 .. m
  BY <1>1
<1>3. calls[m] \in Frames
  BY <1>2, ElementOfSeq
<1>4. calls[m].need + 1 \in Nat \ {0}
  <2>1. calls[m].need \in Nat \ {0}
    BY <1>3 DEF Frames
  <2> QED
    BY <2>1
<1>5. call \in Frames /\ SameCall(calls[m], call) /\ call.at = calls[m].at
  BY <1>3, <1>4 DEF Frames, SameCall
<1>6. calls2 = [calls EXCEPT ![m] = call]
  BY DEF WithNextNeed
<1> HIDE DEF m, calls2, call
<1>7. /\ calls2 \in Seq(Frames) /\ Len(calls2) = Len(calls)
      /\ \A i \in 1 .. Len(calls) : calls2[i] = IF i = m THEN call ELSE calls[i]
  BY <1>2, <1>5, <1>6, ExceptSeq DEF m
<1>8. \A i \in 1 .. Len(calls) : SameCall(calls[i], calls2[i]) /\ calls2[i].at = calls[i].at
  BY <1>5, <1>7 DEF SameCall
<1> QED
  BY <1>7, <1>8 DEF calls2

(* A change of a unit of the top call is none of the others'.              *)
LEMMA OthersSame ==
  ASSUME NEW units, NEW units2, NEW calls, NEW n, CallsInv(units, calls, n), calls # <<>>,
         NEW x, x[1] = calls[Len(calls)].batch,
         DOMAIN units2 = DOMAIN units,
         \A s \in DOMAIN units : units2[s].unit = units[s].unit,
         \A s \in DOMAIN units : s # x => units2[s].state = units[s].state
  PROVE  \A i \in 1 .. Len(calls) : i < Len(calls) => SameOf(units, units2, calls[i].batch)
PROOF
<1> SUFFICES ASSUME NEW i \in 1 .. Len(calls), i < Len(calls)
             PROVE  SameOf(units, units2, calls[i].batch)
  OBVIOUS
<1>1. calls \in Seq(Frames) /\ Len(calls) \in Nat \ {0}
  BY EmptySeq DEF CallsInv
<1>2. Len(calls) \in 1 .. Len(calls)
  BY <1>1
<1>3. calls[i].batch < calls[Len(calls)].batch
  BY <1>2 DEF CallsInv
<1>4. calls[i] \in Frames /\ calls[Len(calls)] \in Frames
  BY <1>1, <1>2, ElementOfSeq
<1>5. calls[i].batch \in Nat /\ calls[Len(calls)].batch \in Nat
  BY <1>4 DEF Frames
<1>6. calls[i].batch # x[1]
  BY <1>3, <1>5
<1> QED
  BY <1>6 DEF SameOf

LEMMA UnfinishedKept ==
  ASSUME NEW units, NEW units2, NEW calls, NEW calls2, UnfinishedIn(units, calls, abandoned),
         Len(calls2) = Len(calls),
         \A i \in 1 .. Len(calls) : SameCall(calls[i], calls2[i]),
         DOMAIN units2 = DOMAIN units,
         \A s \in DOMAIN units :
           units2[s].state \in {"parsed", "analysing"} => units[s].state \in {"parsed", "analysing"}
  PROVE  UnfinishedIn(units2, calls2, abandoned)
PROOF
  BY DEF UnfinishedIn, SameCall

LEMMA AnalyseStep ==
  ASSUME IInv, Analyse
  PROVE  TreeInv' /\ FreshIn(cache', saves', unreported')
PROOF
<1> USE DEF IInv
<1>1. /\ HasUnit /\ cache[Current].state = "parsed"
      /\ cache' = [cache EXCEPT ![Current].state = "analysing"]
      /\ UNCHANGED <<world, invalidated_, main_file, parses, updates, stack, abandoned>>
  BY DEF Analyse
<1>2. UNCHANGED <<saves, unreported, invalidated_, main_file, parses, updates, stack, abandoned>>
  BY <1>1 DEF world
<1> DEFINE units == cache
           units2 == cache'
           m == Len(stack)
<1>3. /\ stack # <<>>
      /\ Top.at \in 1 .. Top.size
      /\ Current \in DOMAIN units
      /\ Current = <<Top.batch, Top.at>>
      /\ Top = stack[m]
      /\ Current[1] = stack[m].batch
      /\ Holds(units, Top)
      /\ m \in Nat \ {0} /\ m \in 1 .. m
      /\ Top.at <= Top.size + 1
      /\ Top.batch \in Nat /\ Top.at \in Nat /\ Top.size \in Nat
  BY <1>1, CurrentUnit, TopCall DEF Current
<1>4. CacheOf(units, parses) /\ "analysing" \in States
  BY DEF TreeInv, States
<1>5. /\ DOMAIN units2 = DOMAIN units
      /\ CacheOf(units2, parses)
      /\ units2[Current].state = "analysing"
      /\ \A s \in DOMAIN units : s # Current => units2[s].state = units[s].state
      /\ \A s \in DOMAIN units :
           /\ units2[s].file = units[s].file
           /\ units2[s].read = units[s].read
           /\ units2[s].unit = units[s].unit
           /\ units2[s].depends = units[s].depends
  <2>1. units2 = WithState(units, Current, "analysing")
    BY <1>1 DEF WithState
  <2> HIDE DEF units, units2
  <2>2. CacheOf(units2, parses) /\ OnlyState(units, units2, Current, "analysing")
    BY <1>3, <1>4, <2>1, StateSet
  <2> QED
    BY <2>2 DEF OnlyState
<1> HIDE DEF units, units2
<1>6. Holds(units2, Top)
  <2>1. \A k \in 1 .. Top.size : k # Top.at => <<Top.batch, k>> # Current
    BY <1>3
  <2> QED
    BY <1>3, <1>5, <2>1 DEF Holds
<1>7. CallsInv(units, stack, parses) /\ stack \in Seq(Frames)
  BY DEF TreeInv, CallsInv, units
<1>8. \A i \in 1 .. m : i < m => SameOf(units, units2, stack[i].batch)
  <2> DEFINE x == Current
  <2>1. /\ CallsInv(units, stack, parses) /\ stack # <<>>
        /\ x[1] = stack[Len(stack)].batch
    BY <1>3, <1>7
  <2>2. DOMAIN units2 = DOMAIN units
    BY <1>5
  <2>3. \A s \in DOMAIN units : units2[s].unit = units[s].unit
    BY <1>5
  <2>4. \A s \in DOMAIN units : s # x => units2[s].state = units[s].state
    BY <1>5
  <2> HIDE DEF x
  <2> QED
    BY <2>1, <2>2, <2>3, <2>4, OthersSame
<1>9. CallsInv(units2, stack, parses)
  <2>1. \A i \in 1 .. m : SameCall(stack[i], stack[i])
    BY DEF SameCall
  <2> QED
    BY <1>3, <1>6, <1>7, <1>8, <2>1, CallsKept
<1>10. UnfinishedIn(units2, stack, abandoned)
  <2>1. UnfinishedIn(units, stack, abandoned)
    BY DEF TreeInv, units
  <2>2. \A s \in DOMAIN units :
          units2[s].state \in {"parsed", "analysing"} => units[s].state \in {"parsed", "analysing"}
    BY <1>1, <1>5 DEF units
  <2>3. \A i \in 1 .. Len(stack) : SameCall(stack[i], stack[i])
    BY DEF SameCall
  <2> QED
    BY <1>5, <2>1, <2>2, <2>3, UnfinishedKept
<1>11. DependOnAnalysed(units2, main_file)
  <2>1. stack # <<>>
    BY <1>3
  <2>2. DependOnAnalysed(units, main_file)
    BY <2>1 DEF TreeInv, units
  <2> QED
    BY <1>1, <1>5, <2>2 DEF DependOnAnalysed, units
<1>12. FreshIn(units2, saves, unreported)
  BY <1>1, <1>5 DEF FreshIn, units
<1>13. TreeInv'
  BY <1>2, <1>5, <1>9, <1>10, <1>11 DEF TreeInv, units2
<1> QED
  BY <1>2, <1>12, <1>13 DEF units2

LEMMA NextNeedKeeps ==
  ASSUME NEW units, NEW units2, NEW calls, NEW n, CallsInv(units, calls, n), calls # <<>>,
         UnfinishedIn(units, calls, abandoned),
         DOMAIN units2 = DOMAIN units,
         \A s \in DOMAIN units :
           units2[s].unit = units[s].unit /\ units2[s].state = units[s].state
  PROVE  /\ CallsInv(units2, WithNextNeed(calls), n)
         /\ UnfinishedIn(units2, WithNextNeed(calls), abandoned)
PROOF
<1> DEFINE calls2 == WithNextNeed(calls)
           m == Len(calls)
<1>1. calls \in Seq(Frames) /\ m \in Nat \ {0}
  BY EmptySeq DEF CallsInv
<1>2. m \in 1 .. m
  BY <1>1
<1>3. /\ calls2 \in Seq(Frames) /\ Len(calls2) = m
      /\ \A i \in 1 .. m : SameCall(calls[i], calls2[i]) /\ calls2[i].at = calls[i].at
  BY <1>1, NextNeed
<1> HIDE DEF calls2
<1>4. \A i \in 1 .. m : SameOf(units, units2, calls[i].batch)
  BY DEF SameOf
<1>5. calls[m].at <= calls[m].size + 1 /\ Holds(units, calls[m])
  BY <1>2 DEF CallsInv
<1>6. Holds(units2, calls2[m])
  BY <1>2, <1>3, <1>4, <1>5, HoldsSame
<1>7. calls2[m].at <= calls[m].size + 1
  BY <1>2, <1>3, <1>5
<1>8. CallsInv(units2, calls2, n)
  BY <1>3, <1>4, <1>6, <1>7, CallsKept
<1>9. UnfinishedIn(units2, calls2, abandoned)
  <2>1. \A s \in DOMAIN units :
          units2[s].state \in {"parsed", "analysing"} => units[s].state \in {"parsed", "analysing"}
    OBVIOUS
  <2> QED
    BY <1>3, <2>1, UnfinishedKept
<1> QED
  BY <1>8, <1>9 DEF calls2

LEMMA DenotedAnalysed ==
  ASSUME NEW T \in SUBSET DOMAIN cache
  PROVE  /\ Denoted(T) \in SUBSET DOMAIN cache
         /\ \A s \in Denoted(T) : cache[s].state = "analysed"
PROOF
  BY DEF Denoted

(* Units that have been analysed are added to those one unit depends on.   *)
LEMMA DependsKeep ==
  ASSUME NEW units, NEW units2, NEW x \in DOMAIN units, NEW D \in SUBSET DOMAIN units,
         \A s \in D : units[s].state = "analysed",
         OnlyDepends(units, units2, x, D)
  PROVE  /\ \A n : DependOnAnalysed(units, n) => DependOnAnalysed(units2, n)
         /\ FreshIn(units, saves, unreported) => FreshIn(units2, saves, unreported)
PROOF
<1>1. /\ DOMAIN units2 = DOMAIN units
      /\ units2[x].depends = units[x].depends \cup D
      /\ \A s \in DOMAIN units : s # x => units2[s].depends = units[s].depends
      /\ \A s \in DOMAIN units :
           /\ units2[s].file = units[s].file
           /\ units2[s].read = units[s].read
           /\ units2[s].state = units[s].state
  BY DEF OnlyDepends
<1>2. ASSUME NEW n, DependOnAnalysed(units, n) PROVE DependOnAnalysed(units2, n)
  <2> SUFFICES ASSUME NEW s \in DOMAIN units, s[1] = n, NEW d \in units2[s].depends
               PROVE  d \in DOMAIN units /\ units[d].state = "analysed"
    BY <1>1 DEF DependOnAnalysed
  <2>1. CASE d \in units[s].depends
    BY <1>2, <2>1 DEF DependOnAnalysed
  <2>2. CASE d \notin units[s].depends
    <3>1. d \in D
      BY <1>1, <2>2
    <3> QED
      BY <3>1
  <2> QED
    BY <2>1, <2>2
<1>3. FreshIn(units, saves, unreported) => FreshIn(units2, saves, unreported)
  BY <1>1 DEF FreshIn
<1> QED
  BY <1>2, <1>3

LEMMA FindInCacheStep ==
  ASSUME IInv, FindInCache
  PROVE  TreeInv' /\ FreshIn(cache', saves', unreported')
PROOF
<1> USE DEF IInv
<1> DEFINE D == Denoted(Candidates(Wanted))
<1>1. /\ HasUnit
      /\ cache' = WithDepends(cache, Current, D)
      /\ stack' = WithNextNeed(stack)
      /\ UNCHANGED <<world, invalidated_, main_file, parses, updates, abandoned>>
  BY DEF FindInCache, LooksUp, WithDepends
<1>2. UNCHANGED <<saves, unreported, invalidated_, main_file, parses, updates, abandoned>>
  BY <1>1 DEF world
<1>3. stack # <<>> /\ Current \in DOMAIN cache
  BY <1>1, CurrentUnit
<1>4. D \in SUBSET DOMAIN cache /\ \A s \in D : cache[s].state = "analysed"
  <2>1. Candidates(Wanted) \in SUBSET DOMAIN cache
    BY DEF Candidates
  <2> QED
    BY <2>1, DenotedAnalysed
<1> HIDE DEF D
<1>5. CacheOf(cache', parses) /\ OnlyDepends(cache, cache', Current, D)
  BY <1>1, <1>3, <1>4, DependsAdded DEF TreeInv
<1>6. /\ DOMAIN cache' = DOMAIN cache
      /\ \A s \in DOMAIN cache :
           cache'[s].unit = cache[s].unit /\ cache'[s].state = cache[s].state
  BY <1>5 DEF OnlyDepends
<1>7. CallsInv(cache', stack', parses) /\ UnfinishedIn(cache', stack', abandoned)
  BY <1>1, <1>3, <1>6, NextNeedKeeps DEF TreeInv
<1>8. DependOnAnalysed(cache', main_file) /\ FreshIn(cache', saves, unreported)
  BY <1>3, <1>4, <1>5, DependsKeep DEF TreeInv
<1>9. TreeInv'
  BY <1>2, <1>5, <1>7, <1>8 DEF TreeInv
<1> QED
  BY <1>2, <1>8, <1>9

LEMMA FindNothingStep ==
  ASSUME IInv, FindNothing
  PROVE  TreeInv' /\ FreshIn(cache', saves', unreported')
PROOF
<1> USE DEF IInv
<1>1. /\ HasUnit
      /\ stack' = WithNextNeed(stack)
      /\ UNCHANGED <<world, cache, invalidated_, main_file, parses, updates, abandoned>>
  BY DEF FindNothing, LooksUp
<1>2. UNCHANGED <<saves, unreported, cache, invalidated_, main_file, parses, updates, abandoned>>
  BY <1>1 DEF world
<1>3. stack # <<>>
  BY <1>1, CurrentUnit
<1>4. CallsInv(cache, stack', parses) /\ UnfinishedIn(cache, stack', abandoned)
  BY <1>1, <1>3, NextNeedKeeps DEF TreeInv
<1> QED
  BY <1>2, <1>3, <1>4 DEF TreeInv

LEMMA NextUnit ==
  ASSUME TreeInv, HasUnit
  PROVE  LET calls2 == [stack EXCEPT ![Len(stack)].at = @ + 1, ![Len(stack)].need = 1] IN
         /\ calls2 \in Seq(Frames)
         /\ Len(calls2) = Len(stack)
         /\ \A i \in 1 .. Len(stack) : SameCall(stack[i], calls2[i])
         /\ \A i \in 1 .. Len(stack) : i < Len(stack) => calls2[i].at = stack[i].at
         /\ calls2[Len(stack)].at = Top.at + 1
PROOF
<1> DEFINE m == Len(stack)
           calls2 == [stack EXCEPT ![m].at = @ + 1, ![m].need = 1]
           call == [Top EXCEPT !.at = @ + 1, !.need = 1]
<1>1. /\ stack \in Seq(Frames) /\ m \in Nat \ {0} /\ m \in 1 .. m
      /\ Top = stack[m] /\ Top \in Frames /\ DOMAIN stack = 1 .. m
  BY CurrentUnit, TopCall, LenProperties DEF TreeInv, CallsInv
<1>2. Top.at + 1 \in Nat \ {0} /\ 1 \in Nat \ {0}
  <2>1. Top.at \in Nat
    BY <1>1 DEF Frames
  <2> QED
    BY <2>1
<1>3. call \in Frames /\ SameCall(Top, call) /\ call.at = Top.at + 1
  BY <1>1, <1>2 DEF Frames, SameCall
<1>4. calls2 = [stack EXCEPT ![m] = call]
  BY <1>1
<1> HIDE DEF m, calls2, call
<1>5. /\ calls2 \in Seq(Frames) /\ Len(calls2) = Len(stack)
      /\ \A i \in 1 .. Len(stack) : calls2[i] = IF i = m THEN call ELSE stack[i]
  BY <1>1, <1>3, <1>4, ExceptSeq DEF m
<1>6. m \in Nat /\ \A i \in 1 .. m : i < m => i # m
  BY <1>1
<1>7. \A i \in 1 .. Len(stack) : SameCall(stack[i], calls2[i])
  BY <1>1, <1>3, <1>5 DEF SameCall
<1>8. \A i \in 1 .. Len(stack) : i < Len(stack) => calls2[i].at = stack[i].at
  BY <1>5, <1>6 DEF m
<1>9. calls2[Len(stack)].at = Top.at + 1
  BY <1>1, <1>3, <1>5 DEF m
<1> QED
  BY <1>5, <1>7, <1>8, <1>9 DEF calls2, m

LEMMA FinishUnitStep ==
  ASSUME IInv, FinishUnit
  PROVE  TreeInv' /\ FreshIn(cache', saves', unreported')
PROOF
<1> USE DEF IInv
<1> DEFINE units == cache
           units2 == cache'
           m == Len(stack)
           a == Top.at
<1>1. /\ HasUnit /\ cache[Current].state = "analysing"
      /\ units2 = WithState(units, Current, "analysed")
      /\ stack' = [stack EXCEPT ![Len(stack)].at = @ + 1, ![Len(stack)].need = 1]
      /\ UNCHANGED <<world, invalidated_, main_file, parses, updates, abandoned>>
  BY DEF FinishUnit, WithState
<1>2. UNCHANGED <<saves, unreported, invalidated_, main_file, parses, updates, abandoned>>
  BY <1>1 DEF world
<1>3. /\ stack # <<>>
      /\ a \in 1 .. Top.size
      /\ Current \in DOMAIN units
      /\ Current = <<Top.batch, a>>
      /\ Top = stack[m]
      /\ Current[1] = stack[m].batch
      /\ Holds(units, Top)
      /\ m \in Nat \ {0} /\ m \in 1 .. m
      /\ a \in Nat /\ Top.size \in Nat
  BY <1>1, CurrentUnit, TopCall DEF Current
<1>4. CacheOf(units, parses) /\ "analysed" \in States
  BY DEF TreeInv, States
<1> HIDE DEF units, units2
<1>5. CacheOf(units2, parses) /\ OnlyState(units, units2, Current, "analysed")
  BY <1>1, <1>3, <1>4, StateSet
<1>6. /\ DOMAIN units2 = DOMAIN units
      /\ units2[Current].state = "analysed"
      /\ \A s \in DOMAIN units : s # Current => units2[s].state = units[s].state
      /\ \A s \in DOMAIN units :
           /\ units2[s].file = units[s].file
           /\ units2[s].read = units[s].read
           /\ units2[s].unit = units[s].unit
           /\ units2[s].depends = units[s].depends
  BY <1>5 DEF OnlyState
<1>7. /\ stack' \in Seq(Frames)
      /\ Len(stack') = Len(stack)
      /\ \A i \in 1 .. Len(stack) : SameCall(stack[i], stack'[i])
      /\ \A i \in 1 .. Len(stack) : i < Len(stack) => stack'[i].at = stack[i].at
      /\ stack'[Len(stack)].at = a + 1
  BY <1>1, NextUnit
<1>8. Holds(units2, stack'[m])
  <2> DEFINE call == stack'[m]
             state(k) == units2[<<Top.batch, k>>].state
  <2>1. call.file = Top.file /\ call.batch = Top.batch /\ call.size = Top.size /\ call.at = a + 1
    BY <1>3, <1>7 DEF SameCall
  <2> HIDE DEF call, m, a
  <2>2. \E c \in Contents[Top.file] :
          /\ c # NoFile
          /\ Len(c) = Top.size
          /\ \A k \in 1 .. Top.size :
               /\ <<Top.batch, k>> \in DOMAIN units2
               /\ units2[<<Top.batch, k>>].unit = c[k]
    BY <1>3, <1>6 DEF Holds
  <2>3. \A s \in DOMAIN units2 : s[1] = Top.batch => s[2] \in 1 .. Top.size
    BY <1>3, <1>6 DEF Holds
  <2>4. ASSUME NEW k \in 1 .. Top.size
        PROVE  /\ k < a + 1 => state(k) = "analysed"
               /\ k = a + 1 => state(k) \in {"parsed", "analysing"}
               /\ k > a + 1 => state(k) = "parsed"
    <3>1. k = a => state(k) = "analysed"
      BY <1>3, <1>6
    <3>2. k # a => state(k) = units[<<Top.batch, k>>].state
      <4>1. <<Top.batch, k>> \in DOMAIN units
        BY <1>3 DEF Holds
      <4> QED
        BY <1>3, <1>6, <4>1
    <3> DEFINE old == units[<<Top.batch, k>>].state
    <3>3. /\ k < a => old = "analysed"
          /\ k > a => old = "parsed"
      BY <1>3 DEF Holds, a
    <3> HIDE DEF state, old
    <3>4. k \in Nat
      BY <1>3
    <3> QED
      BY <1>3, <3>1, <3>2, <3>3, <3>4 DEF old
  <2> QED
    BY <2>1, <2>2, <2>3, <2>4 DEF Holds, call
<1>9. CallsInv(units, stack, parses)
  BY DEF TreeInv, units
<1>10. \A i \in 1 .. m : i < m => SameOf(units, units2, stack[i].batch)
  <2> DEFINE x == Current
  <2>1. /\ CallsInv(units, stack, parses) /\ stack # <<>>
        /\ x[1] = stack[Len(stack)].batch
    BY <1>3, <1>9
  <2>2. DOMAIN units2 = DOMAIN units
    BY <1>6
  <2>3. \A s \in DOMAIN units : units2[s].unit = units[s].unit
    BY <1>6
  <2>4. \A s \in DOMAIN units : s # x => units2[s].state = units[s].state
    BY <1>6
  <2> HIDE DEF x
  <2> QED
    BY <2>1, <2>2, <2>3, <2>4, OthersSame
<1>11. CallsInv(units2, stack', parses)
  <2>1. stack'[m].at <= stack[m].size + 1
    BY <1>3, <1>7
  <2> QED
    BY <1>3, <1>7, <1>8, <1>9, <1>10, <2>1, CallsKept
<1>12. UnfinishedIn(units2, stack', abandoned)
  <2>1. UnfinishedIn(units, stack, abandoned)
    BY DEF TreeInv, units
  <2>2. \A s \in DOMAIN units :
          units2[s].state \in {"parsed", "analysing"} => units[s].state \in {"parsed", "analysing"}
    BY <1>6
  <2> QED
    BY <1>6, <1>7, <2>1, <2>2, UnfinishedKept
<1>13. DependOnAnalysed(units2, main_file)
  <2>1. stack # <<>>
    BY <1>3
  <2>2. DependOnAnalysed(units, main_file)
    BY <2>1 DEF TreeInv, units
  <2> QED
    BY <1>1, <1>6, <2>2 DEF DependOnAnalysed, units
<1>14. FreshIn(units2, saves, unreported)
  BY <1>1, <1>6 DEF FreshIn, units
<1>15. TreeInv'
  BY <1>2, <1>5, <1>11, <1>12, <1>13 DEF TreeInv, units2
<1> QED
  BY <1>2, <1>14, <1>15 DEF units2

(* A call that has gone over all its units leaves none of them unfinished. *)
LEMMA AllAnalysed ==
  ASSUME TreeInv, stack # <<>>, ~ HasUnit
  PROVE  \A s \in DOMAIN cache : s[1] = Top.batch => cache[s].state = "analysed"
PROOF
<1>1. Top.at > Top.size
  <2>1. ~ (Top.at <= Top.size)
    BY DEF HasUnit, Idle
  <2> QED
    BY <2>1, TopCall
<1>2. ASSUME NEW s \in DOMAIN cache, s[1] = Top.batch
      PROVE  cache[s].state = "analysed"
  <2>1. s[2] \in 1 .. Top.size
    BY <1>2, TopCall DEF Holds
  <2>2. s = <<Top.batch, s[2]>>
    <3>1. s \in Addresses
      BY DEF TreeInv, CacheOf
    <3> QED
      BY <1>2, <3>1 DEF Addresses
  <2>3. s[2] < Top.at
    BY <1>1, <2>1, TopCall
  <2> QED
    BY <2>1, <2>2, <2>3, TopCall DEF Holds
<1> QED
  BY <1>2

LEMMA CallsBelow ==
  ASSUME TreeInv, Len(stack) > 1
  PROVE  /\ stack # <<>>
         /\ Below \in Seq(Frames)
         /\ Len(Below) = Len(stack) - 1
         /\ Len(Below) \in 1 .. Len(Below)
         /\ Below # <<>>
         /\ \A i \in 1 .. Len(Below) : i \in 1 .. Len(stack) /\ i < Len(stack) /\ Below[i] = stack[i]
         /\ CallsInv(cache, Below, parses)
PROOF
<1> DEFINE m == Len(stack)
           l == m - 1
<1>1. stack \in Seq(Frames) /\ m \in Nat /\ m > 1
  BY LenProperties DEF TreeInv, CallsInv
<1>2. stack # <<>>
  BY <1>1, EmptySeq
<1>3. l \in Nat /\ l >= 1 /\ l \in 1 .. l /\ \A i \in 1 .. l : i \in 1 .. m /\ i < m
  BY <1>1
<1>4. /\ Below \in Seq(Frames)
      /\ Len(Below) = l
      /\ \A i \in 1 .. l : Below[i] = stack[i]
  <2>1. \A i \in 1 .. l : stack[i] \in Frames
    BY <1>1, <1>3, ElementOfSeq
  <2>2. /\ Below \in Seq(Frames)
        /\ Len(Below) = IF 1 <= l THEN l - 1 + 1 ELSE 0
        /\ \A i \in 1 .. l - 1 + 1 : Below[i] = stack[1 + i - 1]
    BY <1>3, <2>1, SubSeqProperties DEF Below
  <2> HIDE DEF l, m
  <2>3. l - 1 + 1 = l /\ 1 <= l
    BY <1>3
  <2>4. \A i \in 1 .. l : 1 + i - 1 = i
    BY <1>3
  <2> QED
    BY <2>2, <2>3, <2>4
<1> HIDE DEF l
<1>5. Below # <<>>
  BY <1>3, <1>4, EmptySeq
<1>6. CallsInv(cache, Below, parses)
  <2>1. CallsInv(cache, stack, parses)
    BY DEF TreeInv
  <2>2. Below[1].file = Main
    BY <1>2, <1>3, <1>4, <2>1 DEF CallsInv
  <2>3. \A i \in 1 .. l :
          /\ Below[i].batch <= parses
          /\ Below[i].at <= Below[i].size + 1
          /\ Holds(cache, Below[i])
          /\ WaitsAt(cache, Below[i])
    BY <1>3, <1>4, <2>1 DEF CallsInv
  <2>4. \A i, j \in 1 .. l : i < j =>
          /\ Below[i].batch < Below[j].batch
          /\ Below[i].file # Below[j].file
          /\ Rank[Below[j].file] <= Rank[Below[i].file]
    BY <1>3, <1>4, <2>1 DEF CallsInv
  <2> QED
    BY <1>4, <2>2, <2>3, <2>4 DEF CallsInv
<1> QED
  BY <1>2, <1>3, <1>4, <1>5, <1>6 DEF l

LEMMA FinishLoadStep ==
  ASSUME IInv, FinishLoad
  PROVE  TreeInv' /\ FreshIn(cache', saves', unreported')
PROOF
<1> USE DEF IInv
<1> DEFINE D == Denoted(Loaded)
           l == Len(Below)
<1>1. /\ Len(stack) > 1
      /\ ~ HasUnit
      /\ cache' = WithDepends(cache, Caller, D)
      /\ stack' = WithNextNeed(Below)
      /\ UNCHANGED <<world, invalidated_, main_file, parses, updates, abandoned>>
  BY DEF FinishLoad, WithDepends
<1>2. UNCHANGED <<saves, unreported, invalidated_, main_file, parses, updates, abandoned>>
  BY <1>1 DEF world
<1>3. /\ stack # <<>>
      /\ Below # <<>>
      /\ l \in 1 .. l
      /\ l = Len(stack) - 1
      /\ Below[l] = stack[l]
      /\ \A i \in 1 .. l : Below[i] = stack[i]
      /\ CallsInv(cache, Below, parses)
      /\ l \in 1 .. Len(stack) /\ l < Len(stack)
      /\ Below \in Seq(Frames)
  BY <1>1, CallsBelow
<1>4. Caller \in DOMAIN cache
  <2> DEFINE c == Below[l]
  <2>1. Caller = <<c.batch, c.at>>
    BY DEF Caller
  <2>2. c \in Frames
    BY <1>3, ElementOfSeq
  <2>3. Holds(cache, c) /\ WaitsAt(cache, c)
    BY <1>3 DEF TreeInv, CallsInv
  <2> HIDE DEF c
  <2>4. c.at \in 1 .. c.size
    BY <2>2, <2>3 DEF Frames, WaitsAt
  <2> QED
    BY <2>1, <2>3, <2>4 DEF Holds
<1>5. D \in SUBSET DOMAIN cache /\ \A s \in D : cache[s].state = "analysed"
  <2>1. Loaded \in SUBSET DOMAIN cache
    BY DEF Loaded
  <2> QED
    BY <2>1, DenotedAnalysed
<1> HIDE DEF D
<1>6. CacheOf(cache', parses) /\ OnlyDepends(cache, cache', Caller, D)
  BY <1>1, <1>4, <1>5, DependsAdded DEF TreeInv
<1>7. /\ DOMAIN cache' = DOMAIN cache
      /\ \A s \in DOMAIN cache :
           cache'[s].unit = cache[s].unit /\ cache'[s].state = cache[s].state
  BY <1>6 DEF OnlyDepends
<1>8. UnfinishedIn(cache, Below, abandoned)
  <2> SUFFICES ASSUME NEW s \in DOMAIN cache, cache[s].state \in {"parsed", "analysing"},
                      s[1] \notin abandoned
               PROVE  \E i \in 1 .. l : s[1] = Below[i].batch
    BY DEF UnfinishedIn
  <2>1. PICK i \in 1 .. Len(stack) : s[1] = stack[i].batch
    BY DEF TreeInv, UnfinishedIn
  <2>2. i # Len(stack)
    <3>1. Top = stack[Len(stack)]
      BY DEF Top
    <3> QED
      BY <1>1, <1>3, <2>1, <3>1, AllAnalysed
  <2>3. i \in 1 .. l
    BY <1>3, <2>2, TopCall
  <2> QED
    BY <1>3, <2>1, <2>3
<1>9. CallsInv(cache', stack', parses) /\ UnfinishedIn(cache', stack', abandoned)
  BY <1>1, <1>3, <1>7, <1>8, NextNeedKeeps
<1>10. DependOnAnalysed(cache', main_file) /\ FreshIn(cache', saves, unreported)
  BY <1>3, <1>4, <1>5, <1>6, DependsKeep DEF TreeInv
<1>11. TreeInv'
  BY <1>2, <1>6, <1>9, <1>10 DEF TreeInv
<1> QED
  BY <1>2, <1>10, <1>11

LEMMA PutUnitStep ==
  ASSUME IInv, PutUnit
  PROVE  TreeInv' /\ FreshIn(cache', saves', unreported')
PROOF
<1> USE DEF IInv
<1>1. /\ Analysed
      /\ stack' = WithNextNeed(stack)
      /\ UNCHANGED <<disk, saves, unreported, known, indexing, indexed, cache,
                     invalidated_, main_file, parses, updates, abandoned>>
  BY DEF PutUnit
<1>2. stack # <<>>
  BY <1>1, EmptySeq DEF Analysed
<1>3. CallsInv(cache, stack', parses) /\ UnfinishedIn(cache, stack', abandoned)
  BY <1>1, <1>2, NextNeedKeeps DEF TreeInv
<1> QED
  BY <1>1, <1>2, <1>3 DEF TreeInv

LEMMA NoCalls ==
  ASSUME NEW units, NEW n
  PROVE  CallsInv(units, <<>>, n)
PROOF
<1>1. <<>> \in Seq(Frames) /\ Len(<<>>) = 0 /\ 1 .. 0 = {}
  BY EmptySeq
<1> QED
  BY <1>1 DEF CallsInv

LEMMA FinishUpdateStep ==
  ASSUME IInv, FinishUpdate
  PROVE  TreeInv' /\ FreshIn(cache', saves', unreported')
PROOF
<1> USE DEF IInv
<1>1. /\ Len(stack) = 1 /\ ~ HasUnit
      /\ invalidated_' = FALSE
      /\ stack' = <<>>
      /\ UNCHANGED <<world, cache, main_file, parses, updates, abandoned>>
  BY DEF FinishUpdate, Analysed
<1>2. UNCHANGED <<saves, unreported, cache, main_file, parses, updates, abandoned>>
  BY <1>1 DEF world
<1>3. stack # <<>>
  BY <1>1, EmptySeq
<1>4. ASSUME NEW s \in DOMAIN cache, cache[s].state \in {"parsed", "analysing"},
             s[1] \notin abandoned
      PROVE  FALSE
  <2>1. PICK i \in 1 .. Len(stack) : s[1] = stack[i].batch
    BY <1>4 DEF TreeInv, UnfinishedIn
  <2>2. i = Len(stack)
    BY <1>1
  <2>3. s[1] = Top.batch
    BY <2>1, <2>2 DEF Top
  <2> QED
    BY <1>1, <1>3, <1>4, <2>3, AllAnalysed
<1>5. UnfinishedIn(cache, stack', abandoned)
  BY <1>4 DEF UnfinishedIn
<1>6. CallsInv(cache, stack', parses)
  BY <1>1, NoCalls
<1> QED
  BY <1>1, <1>2, <1>3, <1>5, <1>6 DEF TreeInv

--------------------------------------------------------------------------------
(* A call for a file that is read.                                         *)

LEMMA CallPushed ==
  ASSUME NEW units, NEW calls, NEW f \in Files, NEW row \in Rows \cup {NoRow},
         WorldTyped, parses \in Nat, disk[f] # NoFile,
         CacheOf(units, parses), CallsInv(units, calls, parses), UnfinishedIn(units, calls, abandoned),
         calls = <<>> => f = Main,
         calls # <<>> => WaitsAt(units, calls[Len(calls)]),
         \A i \in 1 .. Len(calls) : f # calls[i].file /\ Rank[f] <= Rank[calls[i].file]
  PROVE  /\ CallsInv(Parsed(f, units), Append(calls, Frame(f, row)), parses + 1)
         /\ UnfinishedIn(Parsed(f, units), Append(calls, Frame(f, row)), abandoned)
PROOF
<1> DEFINE p == parses + 1
           call == Frame(f, row)
           units2 == Parsed(f, units)
           calls2 == Append(calls, call)
           m == Len(calls)
<1>1. p \in Nat /\ \A i \in Nat : i <= parses => i <= p /\ i < p
  OBVIOUS
<1>2. call \in Frames /\ call.at <= call.size + 1 /\ Holds(units2, call)
  BY FrameBegins
<1>3. call.file = f /\ call.batch = p
  BY DEF Frame
<1>4. calls \in Seq(Frames) /\ m \in Nat
  BY LenProperties DEF CallsInv
<1> HIDE DEF call
<1>5. /\ calls2 \in Seq(Frames)
      /\ Len(calls2) = m + 1
      /\ \A i \in 1 .. m : calls2[i] = calls[i]
      /\ calls2[m + 1] = call
  BY <1>2, <1>4, AppendProperties
<1>6. \A s \in DOMAIN units2 : s \in DOMAIN units \/ s[1] = p
  BY ParsedCache
<1>7. \A s \in DOMAIN units : units2[s] = units[s]
  BY ParsedCache
<1> HIDE DEF units2, calls2
<1>8. calls2 # <<>>
  BY <1>4, <1>5, EmptySeq
<1>9. \A i \in 1 .. m + 1 : i \in 1 .. m \/ i = m + 1
  BY <1>4
<1>10. ASSUME NEW i \in 1 .. m
       PROVE  /\ calls[i].batch <= parses
              /\ calls[i].batch \in Nat
              /\ calls[i].batch < p
              /\ calls[i].at <= calls[i].size + 1
              /\ Holds(units2, calls[i])
              /\ WaitsAt(units2, calls[i])
  <2>1. calls[i] \in Frames
    BY <1>4, ElementOfSeq
  <2>2. calls[i].batch \in Nat /\ calls[i].at \in Nat \ {0} /\ calls[i].size \in Nat
    BY <2>1 DEF Frames
  <2>3. /\ calls[i].batch <= parses
        /\ calls[i].at <= calls[i].size + 1
        /\ Holds(units, calls[i])
        /\ i < m => WaitsAt(units, calls[i])
    BY DEF CallsInv
  <2>4. WaitsAt(units, calls[i])
    <3>1. calls # <<>>
      BY <1>4, EmptySeq
    <3> QED
      BY <1>4, <2>3, <3>1
  <2>5. SameOf(units, units2, calls[i].batch)
    BY <2>2, <2>3, ParsedKeeps DEF units2
  <2>6. Holds(units2, calls[i])
    BY <2>3, <2>5, HoldsSame DEF SameCall
  <2>7. WaitsAt(units2, calls[i])
    <3> DEFINE s == <<calls[i].batch, calls[i].at>>
    <3>1. calls[i].at \in 1 .. calls[i].size /\ units[s].state = "analysing"
      BY <2>2, <2>4 DEF WaitsAt
    <3>2. s \in DOMAIN units
      BY <2>3, <3>1 DEF Holds
    <3> QED
      BY <1>7, <2>4, <3>1, <3>2 DEF WaitsAt
  <2> QED
    BY <1>1, <2>2, <2>3, <2>6, <2>7
<1>11. calls2[1].file = Main
  <2>1. CASE m = 0
    <3>1. calls = <<>>
      BY <1>4, <2>1, EmptySeq
    <3> QED
      BY <1>3, <1>5, <2>1, <3>1
  <2>2. CASE m # 0
    <3>1. calls # <<>> /\ 1 \in 1 .. m
      BY <1>4, <2>2, EmptySeq
    <3> QED
      BY <1>5, <3>1 DEF CallsInv
  <2> QED
    BY <2>1, <2>2
<1>12. ASSUME NEW i \in 1 .. m + 1
       PROVE  /\ calls2[i].batch <= p
              /\ calls2[i].at <= calls2[i].size + 1
              /\ Holds(units2, calls2[i])
              /\ i < m + 1 => WaitsAt(units2, calls2[i])
  <2>1. CASE i \in 1 .. m
    BY <1>1, <1>5, <1>10, <2>1
  <2>2. CASE i = m + 1
    BY <1>1, <1>2, <1>3, <1>4, <1>5, <2>2 DEF units2
  <2> QED
    BY <1>9, <2>1, <2>2
<1>13. ASSUME NEW i \in 1 .. m + 1, NEW j \in 1 .. m + 1, i < j
       PROVE  /\ calls2[i].batch < calls2[j].batch
              /\ calls2[i].file # calls2[j].file
              /\ Rank[calls2[j].file] <= Rank[calls2[i].file]
  <2>1. i \in 1 .. m
    BY <1>4, <1>13
  <2>2. CASE j \in 1 .. m
    BY <1>5, <1>13, <2>1, <2>2 DEF CallsInv
  <2>3. CASE j = m + 1
    BY <1>3, <1>5, <1>10, <2>1, <2>3
  <2> QED
    BY <1>9, <2>2, <2>3
<1>14. CallsInv(units2, calls2, p)
  BY <1>5, <1>8, <1>11, <1>12, <1>13 DEF CallsInv
<1>15. UnfinishedIn(units2, calls2, abandoned)
  <2> SUFFICES ASSUME NEW s \in DOMAIN units2, units2[s].state \in {"parsed", "analysing"},
                      s[1] \notin abandoned
               PROVE  \E i \in 1 .. m + 1 : s[1] = calls2[i].batch
    BY <1>5 DEF UnfinishedIn
  <2>1. CASE s[1] = p
    <3>1. m + 1 \in 1 .. m + 1
      BY <1>4
    <3> QED
      BY <1>3, <1>5, <2>1, <3>1
  <2>2. CASE s \in DOMAIN units
    <3>1. PICK i \in 1 .. m : s[1] = calls[i].batch
      BY <1>7, <2>2 DEF UnfinishedIn
    <3>2. i \in 1 .. m + 1
      BY <1>4
    <3> QED
      BY <1>5, <3>1, <3>2
  <2> QED
    BY <1>6, <2>1, <2>2
<1> QED
  BY <1>14, <1>15 DEF calls2, units2, call

(* The file that is loaded is none of those in progress: where files need  *)
(* each other, the unit that is needed again is in the cache.              *)
LEMMA LoadsAnotherFile ==
  ASSUME IInv, StartLoad
  PROVE  /\ FileToLoad \in Files
         /\ RowNamed(Wanted) \in Rows
         /\ \A i \in 1 .. Len(stack) :
              FileToLoad # stack[i].file /\ Rank[FileToLoad] <= Rank[stack[i].file]
PROOF
<1> USE DEF IInv
<1> DEFINE g == FileToLoad
           f == Top.file
           name == Wanted
           row == RowNamed(name)
           m == Len(stack)
<1>1. /\ HasUnit /\ cache[Current].state = "analysing"
      /\ Top.need <= Len(Needs)
      /\ Candidates(name) = {}
      /\ known /\ HasRow(name) /\ row.kind \in PrimaryKinds
  BY DEF StartLoad, LooksUp, InLibrary
<1>2. /\ stack # <<>>
      /\ Top.at \in 1 .. Top.size
      /\ Current = <<Top.batch, Top.at>>
      /\ Current \in DOMAIN cache
      /\ cache[Current].unit \in Units
      /\ f \in Files
      /\ Holds(cache, Top)
      /\ m \in Nat \ {0} /\ m \in 1 .. m /\ Top = stack[m]
      /\ Top.need \in Nat \ {0}
  BY <1>1, CurrentUnit, TopCall DEF Current
<1>3. row \in Rows /\ row.name = name /\ Declared(row)
  <2>1. rows \in Seq(Rows) /\ AllDeclared(rows)
    BY DEF RowsInv
  <2>2. PICK i \in 1 .. Len(rows) : row = rows[i] /\ rows[i].name = name
    BY <1>1, <2>1, FirstRow
  <2>3. rows[i] \in Rows
    BY <2>1, ElementOfSeq
  <2> QED
    BY <2>1, <2>2, <2>3 DEF AllDeclared
<1>4. g = row.file /\ g \in Files
  BY <1>3 DEF FileToLoad, Rows
<1>5. Declares(g, name)
  BY <1>1, <1>3, <1>4 DEF Declared, Declares
<1>6. PICK c \in Contents[f] :
        /\ c # NoFile
        /\ Len(c) = Top.size
        /\ \A k \in 1 .. Top.size :
             /\ <<Top.batch, k>> \in DOMAIN cache
             /\ cache[<<Top.batch, k>>].unit = c[k]
  BY <1>2 DEF Holds
<1>7. UnitsIn(c) = c /\ DOMAIN c = 1 .. Top.size
  BY <1>2, <1>6, UnitsTyped
<1>8. Needs = c[Top.at].needs
  BY <1>2, <1>6 DEF Needs
<1>9. name \in Range(c[Top.at].needs)
  <2>1. Needs \in Seq(Names)
    BY <1>2 DEF Needs, Units
  <2>2. Top.need \in 1 .. Len(Needs) /\ DOMAIN Needs = 1 .. Len(Needs)
    BY <1>1, <1>2, <2>1, LenProperties
  <2> QED
    BY <1>8, <2>2 DEF Wanted, Range
<1> HIDE DEF g, f, name, row, m
<1>10. \/ Rank[g] < Rank[f]
       \/ Rank[g] = Rank[f] /\ f # g /\ HeadOf(g, name)
       \/ f = g /\ DeclaredBefore(c, Top.at, name)
  BY <1>2, <1>4, <1>5, <1>7, <1>9, <1>6, RankGrounds DEF GroundedBy
<1>11. CallsInv(cache, stack, parses)
  BY DEF TreeInv
<1>12. \A h \in Files : Rank[h] \in Nat
  <2>1. \A h \in Files : Rank[h] \in 1 .. Cardinality(Files)
    BY RankGrounds
  <2> QED
    BY <2>1
<1>13. ASSUME NEW i \in 1 .. m
       PROVE  Rank[f] <= Rank[stack[i].file] /\ stack[i].file \in Files
  <2>1. stack[i] \in Frames
    BY <1>11, ElementOfSeq DEF CallsInv, m
  <2>2. stack[i].file \in Files
    BY <2>1 DEF Frames
  <2>3. CASE i = m
    BY <1>2, <1>12, <2>2, <2>3 DEF f
  <2>4. CASE i < m
    BY <1>2, <1>11, <2>2, <2>4 DEF CallsInv, f, m
  <2> QED
    BY <1>2, <2>2, <2>3, <2>4
<1>14. CASE Rank[g] < Rank[f]
  <2>1. \A i \in 1 .. m : Rank[g] < Rank[stack[i].file]
    BY <1>2, <1>4, <1>12, <1>13, <1>14
  <2>2. \A i \in 1 .. m : g # stack[i].file /\ Rank[g] <= Rank[stack[i].file]
    BY <1>4, <1>12, <1>13, <2>1
  <2> QED
    BY <1>3, <1>4, <2>2 DEF g, name, row, m
<1>15. CASE f = g /\ DeclaredBefore(c, Top.at, name)
  <2>1. PICK j \in 1 .. Top.at - 1 : c[j].kind \in PrimaryKinds /\ c[j].name = name
    BY <1>15 DEF DeclaredBefore
  <2>2. j \in 1 .. Top.size /\ j < Top.at
    BY <1>2, TopCall
  <2>3. <<Top.batch, j>> \in DOMAIN cache /\ cache[<<Top.batch, j>>].unit = c[j]
    BY <1>6, <2>2
  <2>4. cache[<<Top.batch, j>>].state = "analysed"
    BY <1>2, <2>2 DEF Holds
  <2>5. <<Top.batch, j>> \in Candidates(name)
    BY <2>1, <2>3, <2>4 DEF Candidates, IsCandidate
  <2> QED
    BY <1>1, <2>5 DEF name
<1>16. CASE Rank[g] = Rank[f] /\ f # g /\ HeadOf(g, name)
  <2>1. ASSUME NEW i \in 1 .. m, g = stack[i].file
        PROVE  FALSE
    <3> DEFINE call == stack[i]
               s == <<call.batch, 1>>
    <3>1. i < m
      BY <1>2, <1>16, <2>1 DEF f
    <3>2. Holds(cache, call) /\ WaitsAt(cache, call)
      BY <1>11, <3>1 DEF CallsInv, m
    <3>3. call \in Frames
      BY <1>11, ElementOfSeq DEF CallsInv, m
    <3>4. call.at \in Nat \ {0} /\ call.size \in Nat /\ call.at <= call.size
      BY <3>2, <3>3 DEF Frames, WaitsAt
    <3>5. 1 \in 1 .. call.size
      BY <3>4
    <3>6. PICK d \in Contents[g] :
            d # NoFile /\ Len(d) = call.size /\ cache[s].unit = d[1] /\ s \in DOMAIN cache
      BY <2>1, <3>2, <3>5 DEF Holds
    <3>7. UnitsIn(d) = d /\ d # <<>>
      BY <1>4, <3>4, <3>6, UnitsTyped, EmptySeq
    <3>8. d[1].kind \in PrimaryKinds /\ d[1].name = name
      BY <1>16, <3>6, <3>7 DEF HeadOf
    <3>9. cache[s].state \in {"analysed", "analysing"}
      <4>1. CASE call.at = 1
        BY <3>2, <4>1 DEF WaitsAt
      <4>2. CASE call.at # 1
        <5>1. 1 < call.at
          BY <3>4, <4>2
        <5> QED
          BY <3>2, <3>5, <5>1 DEF Holds
      <4> QED
        BY <4>1, <4>2
    <3>10. s \in Candidates(name)
      BY <3>6, <3>8, <3>9 DEF Candidates, IsCandidate
    <3> QED
      BY <1>1, <3>10 DEF name
  <2>2. \A i \in 1 .. m : g # stack[i].file /\ Rank[g] <= Rank[stack[i].file]
    BY <1>13, <1>16, <2>1
  <2> QED
    BY <1>3, <1>4, <2>2 DEF g, name, row, m
<1> QED
  BY <1>10, <1>14, <1>15, <1>16

LEMMA StartLoadStep ==
  ASSUME IInv, StartLoad
  PROVE  TreeInv' /\ FreshIn(cache', saves', unreported')
PROOF
<1> USE DEF IInv
<1> DEFINE g == FileToLoad
           row == RowNamed(Wanted)
<1>1. /\ HasUnit /\ cache[Current].state = "analysing"
      /\ disk[g] # NoFile
      /\ cache' = Parsed(g, cache)
      /\ stack' = Append(stack, Frame(g, row))
      /\ parses' = parses + 1
      /\ UNCHANGED <<world, invalidated_, main_file, updates, abandoned>>
  BY DEF StartLoad, LooksUp
<1>2. UNCHANGED <<saves, unreported, invalidated_, main_file, updates, abandoned>>
  BY <1>1 DEF world
<1>3. /\ g \in Files
      /\ row \in Rows
      /\ \A i \in 1 .. Len(stack) : g # stack[i].file /\ Rank[g] <= Rank[stack[i].file]
  BY LoadsAnotherFile
<1>4. stack # <<>> /\ WaitsAt(cache, stack[Len(stack)])
  <2>1. stack # <<>> /\ Top.at \in 1 .. Top.size /\ Top = stack[Len(stack)]
    BY <1>1, CurrentUnit, TopCall
  <2>2. Top.at <= Top.size
    BY <2>1, TopCall
  <2>3. cache[<<Top.batch, Top.at>>].state = "analysing"
    BY <1>1 DEF Current
  <2>4. WaitsAt(cache, Top)
    BY <2>2, <2>3 DEF WaitsAt
  <2> QED
    BY <2>1, <2>4
<1> HIDE DEF g, row
<1>5. CallsInv(cache', stack', parses + 1) /\ UnfinishedIn(cache', stack', abandoned)
  BY <1>1, <1>3, <1>4, CallPushed DEF TreeInv
<1>6. CacheOf(cache', parses + 1)
  BY <1>1, <1>3, ParsedCache DEF TreeInv
<1>7. FreshIn(cache', saves, unreported) /\ DependOnAnalysed(cache', main_file)
  BY <1>1, <1>3, <1>4, ParsedFresh DEF TreeInv
<1>8. parses + 1 \in Nat /\ main_file \in 0 .. parses + 1
  BY DEF TreeInv
<1>9. TreeInv'
  BY <1>1, <1>2, <1>5, <1>6, <1>7, <1>8 DEF TreeInv
<1> QED
  BY <1>2, <1>7, <1>9

(* The document is read when nothing is in progress.                       *)
LEMMA ReadsStep ==
  ASSUME WorldTyped, TreeInv, Idle, NEW units, Reads(units),
         DOMAIN units = DOMAIN cache, CacheOf(units, parses), UnfinishedIn(units, <<>>, abandoned),
         updates' \in 0 .. MaxUpdates, UNCHANGED saves, unreported' \subseteq Files,
         FreshIn(units, saves, unreported'),
         \A s \in DOMAIN units : units[s].depends = cache[s].depends
  PROVE  TreeInv' /\ FreshIn(cache', saves', unreported')
PROOF
<1>1. parses \in Nat /\ stack = <<>> /\ Main \in Files
  BY AstAssumption DEF TreeInv, Idle
<1>2. CASE Unreadable(units)
  <2>1. /\ main_file' = 0 /\ cache' = units /\ invalidated_' = TRUE
        /\ parses' = parses /\ stack' = <<>> /\ abandoned' = abandoned
    BY <1>1, <1>2 DEF Reads, Unreadable
  <2>2. DependOnAnalysed(units, 0)
    <3>1. \A s \in DOMAIN units : s[1] \in 1 .. parses
      BY DEF CacheOf
    <3>2. \A s \in DOMAIN units : s[1] # 0
      BY <1>1, <3>1
    <3> QED
      BY <3>2 DEF DependOnAnalysed
  <2>3. CallsInv(cache', stack', parses')
    BY <2>1, NoCalls
  <2>4. 0 \in 0 .. parses
    BY <1>1
  <2> QED
    BY <1>1, <2>1, <2>2, <2>3, <2>4 DEF TreeInv
<1>3. CASE ParserThrows(units)
  <2>1. /\ main_file' = main_file /\ cache' = units /\ invalidated_' = TRUE
        /\ parses' = parses /\ stack' = <<>> /\ abandoned' = abandoned
    BY <1>1, <1>3 DEF Reads, ParserThrows
  <2>2. CallsInv(cache', stack', parses')
    BY <2>1, NoCalls
  <2> QED
    BY <1>1, <2>1, <2>2 DEF TreeInv
<1>4. CASE Parses(units)
  <2>0. disk[Main] # NoFile
    BY <1>4 DEF Parses
  <2> DEFINE call == Frame(Main, NoRow)
  <2>1. /\ main_file' = parses + 1 /\ cache' = Parsed(Main, units) /\ invalidated_' = TRUE
        /\ parses' = parses + 1 /\ stack' = <<call>> /\ abandoned' = abandoned
    BY <1>4 DEF Reads, Parses, NoRow
  <2>2. call \in Frames
    BY <1>1, <2>0, FrameBegins DEF NoRow
  <2> HIDE DEF call
  <2>3. <<call>> = Append(<<>>, call)
    OBVIOUS
  <2>4. CallsInv(units, <<>>, parses)
    BY NoCalls
  <2>5. \A i \in 1 .. Len(<<>>) : FALSE
    BY EmptySeq
  <2>6. NoRow \in Rows \cup {NoRow}
    OBVIOUS
  <2>7. /\ CallsInv(Parsed(Main, units), Append(<<>>, Frame(Main, NoRow)), parses + 1)
        /\ UnfinishedIn(Parsed(Main, units), Append(<<>>, Frame(Main, NoRow)), abandoned)
    BY <1>1, <2>0, <2>4, <2>5, <2>6, CallPushed
  <2>8. CallsInv(cache', stack', parses') /\ UnfinishedIn(cache', stack', abandoned)
    BY <2>1, <2>3, <2>7 DEF call
  <2>9. CacheOf(cache', parses')
    BY <1>1, <2>0, <2>1, ParsedCache
  <2>10. DependOnAnalysed(cache', main_file')
    BY <1>1, <2>0, <2>1, ParsedFresh
  <2>11. FreshIn(cache', saves', unreported')
    <3>1. \A k \in 1 .. Len(disk[Main]) : Cached(Main, disk[Main][k]).file = Main
      BY CachedFields
    <3>2. /\ \A s \in DOMAIN units : cache'[s] = units[s]
          /\ \A s \in DOMAIN cache' : s \in DOMAIN units
                \/ \E k \in 1 .. Len(disk[Main]) : s = <<parses + 1, k>>
          /\ \A k \in 1 .. Len(disk[Main]) :
               cache'[<<parses + 1, k>>] = Cached(Main, disk[Main][k])
      BY <1>1, <2>0, <2>1, ParsedCache
    <3> QED
      BY <3>1, <3>2 DEF FreshIn
  <2>12. parses' \in Nat /\ main_file' \in 0 .. parses' /\ invalidated_' \in BOOLEAN
    BY <1>1, <2>1
  <2> QED
    BY <2>1, <2>8, <2>9, <2>10, <2>11, <2>12 DEF TreeInv
<1> QED
  BY <1>2, <1>3, <1>4 DEF Reads

LEMMA UpdateTaskStep ==
  ASSUME IInv, NEW reported \in SUBSET unreported, UpdateTask(reported)
  PROVE  TreeInv' /\ FreshIn(cache', saves', unreported')
PROOF
<1> USE DEF IInv
<1> DEFINE told == reported \ {Main}
           units == Outdated(told)
<1>1. /\ Idle /\ updates < MaxUpdates
      /\ updates' = updates + 1
      /\ unreported' = unreported \ reported
      /\ Reads(units)
      /\ UNCHANGED saves
  BY DEF UpdateTask
<1>2. updates' \in 0 .. MaxUpdates /\ unreported' \subseteq Files
  <2>1. MaxUpdates \in Nat
    BY AstAssumption
  <2>2. updates' \in 0 .. MaxUpdates
    BY <1>1, <2>1 DEF TreeInv
  <2> QED
    BY <1>1, <2>2 DEF WorldTyped
<1>3. DOMAIN units = DOMAIN cache
  BY DEF Outdated
<1>4. CacheOf(cache, parses)
  BY DEF TreeInv
<1>5. ASSUME NEW s \in DOMAIN cache
      PROVE  /\ units[s] \in CachedUnits
             /\ units[s].file = cache[s].file
             /\ units[s].unit = cache[s].unit
             /\ units[s].read = cache[s].read
             /\ units[s].depends = cache[s].depends
             /\ cache[s].file \in told => units[s].state = "outdated"
             /\ cache[s].file \notin told => units[s].state = cache[s].state
  <2>1. units[s] = Outdates(cache[s], told)
    BY DEF Outdated
  <2>2. cache[s] \in CachedUnits
    BY <1>4 DEF CacheOf
  <2>3. "outdated" \in States
    BY DEF States
  <2> HIDE DEF units, told
  <2>4. CASE cache[s].file \in told
    <3>1. units[s] = [cache[s] EXCEPT !.state = "outdated"]
      BY <2>1, <2>4 DEF Outdates
    <3> QED
      BY <2>2, <2>3, <2>4, <3>1 DEF CachedUnits
  <2>5. CASE cache[s].file \notin told
    <3>1. units[s] = cache[s]
      BY <2>1, <2>5 DEF Outdates
    <3> QED
      BY <2>2, <2>5, <3>1
  <2> QED
    BY <2>4, <2>5
<1> HIDE DEF units
<1>6. CacheOf(units, parses)
  BY <1>3, <1>4, <1>5 DEF CacheOf
<1>7. UnfinishedIn(units, <<>>, abandoned)
  <2>1. UnfinishedIn(cache, <<>>, abandoned)
    BY <1>1 DEF TreeInv, Idle
  <2>2. \A s \in DOMAIN units :
          s[1] \notin abandoned => cache[s].state \notin {"parsed", "analysing"}
    BY <1>3, <2>1, EmptySeq DEF UnfinishedIn
  <2>3. \A s \in DOMAIN units : units[s].state \in {"outdated", cache[s].state}
    BY <1>3, <1>5
  <2> QED
    BY <2>2, <2>3 DEF UnfinishedIn
<1>8. FreshIn(units, saves, unreported')
  <2> SUFFICES ASSUME NEW s \in DOMAIN units, units[s].state # "outdated",
                      units[s].file \notin unreported' \cup {Main}
               PROVE  units[s].read = saves[units[s].file]
    BY DEF FreshIn
  <2>1. cache[s].file \notin told /\ cache[s].state # "outdated"
    BY <1>3, <1>5
  <2>2. cache[s].file \notin unreported \cup {Main}
    BY <1>1, <1>3, <1>5, <2>1
  <2> QED
    BY <1>3, <1>5, <2>1, <2>2 DEF FreshIn
<1>9. \A s \in DOMAIN units : units[s].depends = cache[s].depends
  BY <1>3, <1>5
<1> QED
  BY <1>1, <1>2, <1>3, <1>6, <1>7, <1>8, <1>9, ReadsStep

LEMMA RequestTaskStep ==
  ASSUME IInv, RequestTask
  PROVE  TreeInv' /\ FreshIn(cache', saves', unreported')
PROOF
<1> USE DEF IInv
<1>1. /\ Idle /\ updates < MaxUpdates
      /\ updates' = updates + 1
      /\ Reads(cache)
      /\ UNCHANGED world
  BY DEF RequestTask
<1>2. UNCHANGED <<saves, unreported>>
  BY <1>1 DEF world
<1>3. MaxUpdates \in Nat
  BY AstAssumption
<1>4. updates' \in 0 .. MaxUpdates /\ unreported' \subseteq Files
  <2>1. updates' \in 0 .. MaxUpdates
    BY <1>1, <1>3 DEF TreeInv
  <2> QED
    BY <1>2, <2>1 DEF WorldTyped
<1>5. CacheOf(cache, parses) /\ UnfinishedIn(cache, <<>>, abandoned)
  BY <1>1 DEF TreeInv, Idle
<1>6. FreshIn(cache, saves, unreported')
  BY <1>2
<1> QED
  BY <1>1, <1>2, <1>4, <1>5, <1>6, ReadsStep

--------------------------------------------------------------------------------
(* The files and the library.                                              *)

LEMMA UnitRow ==
  ASSUME NEW f \in Files, NEW u \in Units, u \in UnitsOf(f)
  PROVE  Row(u, f) \in Rows /\ Declared(Row(u, f))
PROOF
<1>1. u.kind \in Kinds /\ u.name \in Names
  BY DEF Units
<1>2. /\ Row(u, f).kind = u.kind /\ Row(u, f).name = u.name /\ Row(u, f).file = f
      /\ Row(u, f) \in Rows
  BY <1>1 DEF Row, Rows
<1> QED
  BY <1>2 DEF Declared

LEMMA PutKeepsRows ==
  ASSUME RowsInv, NEW row \in Rows, Declared(row)
  PROVE  /\ Put(rows, row) \in Seq(Rows)
         /\ AllDeclared(Put(rows, row))
         /\ OneRowPerId(Put(rows, row))
PROOF
<1>1. rows \in Seq(Rows) /\ OneRowPerId(rows) /\ AllDeclared(rows)
  BY DEF RowsInv
<1>2. /\ Put(rows, row) \in Seq(Rows)
      /\ \A k \in 1 .. Len(Put(rows, row)) :
           \/ Put(rows, row)[k] = row
           \/ \E j \in 1 .. Len(rows) : Put(rows, row)[k] = rows[j]
      /\ OneRowPerId(Put(rows, row))
  BY <1>1, PutRows
<1> DEFINE table == Put(rows, row)
<1> HIDE DEF table
<1>3. ASSUME NEW k \in 1 .. Len(table) PROVE Declared(table[k])
  <2>1. table[k] = row \/ \E j \in 1 .. Len(rows) : table[k] = rows[j]
    BY <1>2 DEF table
  <2> QED
    BY <1>1, <2>1 DEF AllDeclared
<1> QED
  BY <1>2, <1>3 DEF AllDeclared, table

(* What the explorer has still to put are the units of the file it read.   *)
LEMMA IndexedRows ==
  ASSUME WorldTyped, NEW f \in Files
  PROVE  LET q == [i \in DOMAIN UnitsIn(disk[f]) |-> Row(disk[f][i], f)] IN
         q \in Seq(Rows) /\ AllDeclared(q)
PROOF
<1> DEFINE q == [i \in DOMAIN UnitsIn(disk[f]) |-> Row(disk[f][i], f)]
<1>1. CASE disk[f] = NoFile
  <2>1. DOMAIN UnitsIn(disk[f]) = {}
    BY <1>1 DEF UnitsIn
  <2>2. q = <<>>
    BY <2>1
  <2>3. <<>> \in Seq(Rows) /\ Len(<<>>) = 0 /\ 1 .. 0 = {}
    BY EmptySeq
  <2> QED
    BY <2>2, <2>3 DEF AllDeclared
<1>2. CASE disk[f] # NoFile
  <2> DEFINE n == Len(disk[f])
             e(i) == Row(disk[f][i], f)
  <2>1. /\ n \in Nat
        /\ DOMAIN UnitsIn(disk[f]) = 1 .. n
        /\ \A k \in 1 .. n : disk[f][k] \in Units /\ disk[f][k] \in UnitsOf(f)
    BY <1>2, UnitsTyped DEF WorldTyped
  <2>2. \A i \in 1 .. n : e(i) \in Rows /\ Declared(e(i))
    BY <2>1, UnitRow
  <2> HIDE DEF n, e
  <2>3. q = [i \in 1 .. n |-> e(i)]
    BY <2>1 DEF e
  <2>4. q \in Seq(Rows)
    <3>1. q \in [1 .. n -> Rows]
      BY <2>2, <2>3
    <3> QED
      BY <2>1, <3>1, SeqDef
  <2>5. Len(q) = n
    BY <2>1, <2>3, <2>4, LenProperties
  <2>6. \A i \in 1 .. n : q[i] = e(i)
    BY <2>3
  <2> HIDE DEF q
  <2>7. AllDeclared(q)
    BY <2>2, <2>5, <2>6 DEF AllDeclared
  <2> QED
    BY <2>4, <2>7 DEF q
<1> QED
  BY <1>1, <1>2

LEMMA SaveStep ==
  ASSUME IInv, NEW f \in Files, NEW content \in Contents[f], Save(f, content)
  PROVE  IInv'
PROOF
<1> USE DEF IInv
<1>1. /\ disk' = [disk EXCEPT ![f] = content]
      /\ saves' = [saves EXCEPT ![f] = @ + 1]
      /\ unreported' = unreported \cup {f}
      /\ UNCHANGED <<known, rows, indexing, indexed, cache, invalidated_, main_file,
                     parses, updates, stack, abandoned>>
  BY DEF Save, tree
<1>2. WorldTyped'
  <2>1. disk' \in [Files -> UNION {Contents[g] : g \in Files}]
        /\ \A g \in Files : disk'[g] \in Contents[g]
    BY <1>1 DEF WorldTyped
  <2>2. saves' \in [Files -> Nat]
    <3>1. saves[f] + 1 \in Nat
      BY DEF WorldTyped
    <3> QED
      BY <1>1, <3>1 DEF WorldTyped
  <2>3. unreported' \subseteq Files
    BY <1>1 DEF WorldTyped
  <2> QED
    BY <1>1, <2>1, <2>2, <2>3 DEF WorldTyped
<1>3. RowsInv'
  BY <1>1 DEF RowsInv
<1>4. TreeInv'
  BY <1>1 DEF TreeInv
<1>5. FreshIn(cache', saves', unreported')
  <2> SUFFICES ASSUME NEW s \in DOMAIN cache, cache[s].state # "outdated",
                      cache[s].file \notin unreported' \cup {Main}
               PROVE  cache[s].read = saves'[cache[s].file]
    BY <1>1 DEF FreshIn
  <2>1. cache[s].file \notin unreported \cup {Main} /\ cache[s].file # f
    BY <1>1
  <2>2. cache[s].file \in Files
    BY DEF TreeInv, CacheOf, CachedUnits
  <2>3. saves'[cache[s].file] = saves[cache[s].file]
    BY <1>1, <2>1, <2>2 DEF WorldTyped
  <2> QED
    BY <2>1, <2>3 DEF FreshIn
<1> QED
  BY <1>2, <1>3, <1>4, <1>5

LEMMA IndexStep ==
  ASSUME IInv, NEW f \in Files, Index(f)
  PROVE  IInv'
PROOF
<1> USE DEF IInv
<1>1. /\ indexed < MaxIndexed
      /\ indexed' = indexed + 1
      /\ indexing' = [i \in DOMAIN UnitsIn(disk[f]) |-> Row(disk[f][i], f)]
      /\ UNCHANGED <<disk, saves, unreported, known, rows, cache, invalidated_,
                     main_file, parses, updates, stack, abandoned>>
  BY DEF Index, tree
<1>2. indexing' \in Seq(Rows) /\ AllDeclared(indexing')
  BY <1>1, IndexedRows
<1>3. indexed' \in 0 .. MaxIndexed
  <2>1. MaxIndexed \in Nat
    BY AstAssumption
  <2> QED
    BY <1>1, <2>1 DEF WorldTyped
<1>4. WorldTyped'
  BY <1>1, <1>3 DEF WorldTyped
<1>5. RowsInv'
  BY <1>1, <1>2 DEF RowsInv
<1>6. TreeInv' /\ FreshIn(cache', saves', unreported')
  BY <1>1 DEF TreeInv
<1> QED
  BY <1>4, <1>5, <1>6

LEMMA PutNextStep ==
  ASSUME IInv, PutNext
  PROVE  IInv'
PROOF
<1> USE DEF IInv
<1>1. /\ indexing # <<>>
      /\ rows' = Put(rows, Head(indexing))
      /\ indexing' = Tail(indexing)
      /\ UNCHANGED <<disk, saves, unreported, known, indexed, cache, invalidated_,
                     main_file, parses, updates, stack, abandoned>>
  BY DEF PutNext, tree
<1>2. /\ indexing \in Seq(Rows) /\ AllDeclared(indexing)
      /\ Len(indexing) \in Nat \ {0}
  BY <1>1, EmptySeq DEF RowsInv
<1>3. /\ Head(indexing) \in Rows
      /\ Tail(indexing) \in Seq(Rows)
      /\ Len(Tail(indexing)) = Len(indexing) - 1
      /\ \A i \in 1 .. Len(Tail(indexing)) : Tail(indexing)[i] = indexing[i + 1]
  BY <1>1, <1>2, HeadTailProperties
<1>4. Head(indexing) = indexing[1] /\ 1 \in 1 .. Len(indexing)
  BY <1>2
<1>5. Declared(Head(indexing))
  <2>1. Declared(indexing[1])
    BY <1>2, <1>4 DEF AllDeclared
  <2> QED
    BY <1>4, <2>1
<1>6. AllDeclared(Tail(indexing))
  <2>1. \A i \in 1 .. Len(indexing) - 1 : i + 1 \in 1 .. Len(indexing)
    BY <1>2
  <2> QED
    BY <1>2, <1>3, <2>1 DEF AllDeclared
<1>7. /\ rows' \in Seq(Rows) /\ AllDeclared(rows') /\ OneRowPerId(rows')
  BY <1>1, <1>3, <1>5, PutKeepsRows
<1>8. RowsInv'
  BY <1>1, <1>3, <1>6, <1>7 DEF RowsInv
<1>9. WorldTyped' /\ TreeInv' /\ FreshIn(cache', saves', unreported')
  BY <1>1 DEF WorldTyped, TreeInv
<1> QED
  BY <1>8, <1>9

(* An exception ends every call in progress.                               *)
LEMMA ThrowsStep ==
  ASSUME IInv, Throws
  PROVE  TreeInv' /\ FreshIn(cache', saves', unreported')
PROOF
<1> USE DEF IInv
<1>1. /\ stack # <<>> /\ stack' = <<>>
      /\ abandoned' = abandoned \cup {stack[i].batch : i \in DOMAIN stack}
      /\ UNCHANGED <<world, cache, invalidated_, main_file, parses, updates>>
  BY DEF Throws, Idle
<1>2. UNCHANGED <<saves, unreported, cache, invalidated_, main_file, parses, updates>>
  BY <1>1 DEF world
<1>3. DOMAIN stack = 1 .. Len(stack)
  BY LenProperties DEF TreeInv, CallsInv
<1>4. UnfinishedIn(cache, stack', abandoned')
  <2> SUFFICES ASSUME NEW s \in DOMAIN cache, cache[s].state \in {"parsed", "analysing"},
                      s[1] \notin abandoned'
               PROVE  FALSE
    BY DEF UnfinishedIn
  <2>1. PICK i \in 1 .. Len(stack) : s[1] = stack[i].batch
    BY <1>1 DEF TreeInv, UnfinishedIn
  <2> QED
    BY <1>1, <1>3, <2>1
<1>5. CallsInv(cache, stack', parses)
  BY <1>1, NoCalls
<1> QED
  BY <1>1, <1>2, <1>4, <1>5 DEF TreeInv

LEMMA PutUnitRows ==
  ASSUME IInv, PutUnit
  PROVE  RowsInv'
PROOF
<1> USE DEF IInv
<1> DEFINE s == <<Top.batch, Top.need>>
           u == cache[s].unit
<1>1. /\ Len(stack) = 1
      /\ Top.need <= Top.size
      /\ rows' = Put(rows, Row(u, Main))
      /\ indexing' = indexing
  BY DEF PutUnit, Analysed
<1>2. stack # <<>>
  BY <1>1, EmptySeq
<1>3. Top.file = Main /\ Main \in Files
  BY <1>1, <1>2, AstAssumption DEF TreeInv, CallsInv, Top
<1>4. Top.need \in 1 .. Top.size
  BY <1>1, <1>2, TopCall
<1> HIDE DEF s
<1>5. s \in DOMAIN cache /\ \E c \in Contents[Main] : c # NoFile /\ Len(c) = Top.size /\ u = c[Top.need]
  BY <1>2, <1>3, <1>4, TopCall DEF Holds, s
<1>6. u \in Units /\ u \in UnitsOf(Main)
  BY <1>3, <1>4, <1>5, UnitsTyped
<1> HIDE DEF u
<1>7. /\ rows' \in Seq(Rows) /\ AllDeclared(rows') /\ OneRowPerId(rows')
  BY <1>1, <1>3, <1>6, UnitRow, PutKeepsRows
<1> QED
  BY <1>1, <1>7 DEF RowsInv

--------------------------------------------------------------------------------
(* The invariant holds.                                                    *)

LEMMA InitHolds ==
  Init => IInv
PROOF
<1> SUFFICES ASSUME Init PROVE IInv
  OBVIOUS
<1> USE DEF Init
<1>1. /\ MaxIndexed \in Nat /\ MaxUpdates \in Nat
      /\ Initially \in [Files -> UNION {Contents[f] : f \in Files}]
      /\ \A f \in Files : Initially[f] \in Contents[f]
  BY AstAssumption
<1>2. WorldTyped
  BY <1>1 DEF WorldTyped
<1>3. <<>> \in Seq(Rows) /\ Len(<<>>) = 0 /\ 1 .. 0 = {}
  BY EmptySeq
<1>4. RowsInv
  BY <1>3 DEF RowsInv, AllDeclared, OneRowPerId
<1>5. DOMAIN cache = {}
  OBVIOUS
<1>6. CallsInv(cache, stack, parses)
  BY NoCalls
<1>7. TreeInv
  <2>1. 0 \in 0 .. MaxUpdates /\ 0 \in 0 .. 0
    BY <1>1
  <2> QED
    BY <1>5, <1>6, <2>1 DEF TreeInv, CacheOf, UnfinishedIn, DependOnAnalysed
<1>8. FreshIn(cache, saves, unreported)
  BY <1>5 DEF FreshIn
<1> QED
  BY <1>2, <1>4, <1>7, <1>8 DEF IInv

LEMMA StepHolds ==
  IInv /\ [Next]_vars => IInv'
PROOF
<1> SUFFICES ASSUME IInv, [Next]_vars PROVE IInv'
  OBVIOUS
<1> DEFINE Tree == TreeInv' /\ FreshIn(cache', saves', unreported')
<1> HIDE DEF Tree
<1>1. ASSUME NEW f \in Files, NEW content \in Contents[f], Save(f, content) PROVE IInv'
  BY <1>1, SaveStep
<1>2. ASSUME NEW f \in Files, Index(f) PROVE IInv'
  BY <1>2, IndexStep
<1>3. CASE PutNext
  BY <1>3, PutNextStep
<1>4. ASSUME UNCHANGED world, Tree PROVE IInv'
  <2>1. WorldTyped' /\ RowsInv'
    BY <1>4 DEF IInv, WorldTyped, RowsInv, world
  <2> QED
    BY <1>4, <2>1 DEF IInv, Tree
<1>5. ASSUME NEW reported \in SUBSET unreported, UpdateTask(reported) PROVE IInv'
  <2>1. Tree
    BY <1>5, UpdateTaskStep DEF Tree
  <2>2. WorldTyped'
    BY <1>5 DEF UpdateTask, IInv, WorldTyped
  <2>3. RowsInv'
    BY <1>5 DEF UpdateTask, IInv, RowsInv
  <2> QED
    BY <2>1, <2>2, <2>3 DEF IInv, Tree
<1>6. CASE RequestTask
  BY <1>4, <1>6, RequestTaskStep DEF RequestTask, Tree
<1>7. CASE Analyse
  BY <1>4, <1>7, AnalyseStep DEF Analyse, Tree
<1>8. CASE FindInCache
  BY <1>4, <1>8, FindInCacheStep DEF FindInCache, Tree
<1>9. CASE FindNothing
  BY <1>4, <1>9, FindNothingStep DEF FindNothing, Tree
<1>10. CASE StartLoad
  BY <1>4, <1>10, StartLoadStep DEF StartLoad, Tree
<1>11. CASE FinishUnit
  BY <1>4, <1>11, FinishUnitStep DEF FinishUnit, Tree
<1>12. CASE FinishLoad
  BY <1>4, <1>12, FinishLoadStep DEF FinishLoad, Tree
<1>13. CASE PutUnit
  <2>1. Tree
    BY <1>13, PutUnitStep DEF Tree
  <2>2. WorldTyped'
    BY <1>13 DEF PutUnit, IInv, WorldTyped
  <2>3. RowsInv'
    BY <1>13, PutUnitRows
  <2> QED
    BY <2>1, <2>2, <2>3 DEF IInv, Tree
<1>14. CASE FinishUpdate
  BY <1>4, <1>14, FinishUpdateStep DEF FinishUpdate, Tree
<1>15. CASE Throws
  BY <1>4, <1>15, ThrowsStep DEF Throws, Tree
<1>16. CASE UNCHANGED vars
  <2>1. UNCHANGED world /\ UNCHANGED tree
    BY <1>16 DEF vars
  <2>2. Tree
    BY <2>1 DEF Tree, IInv, TreeInv, world, tree
  <2> QED
    BY <1>4, <2>1, <2>2
<1> QED
  BY <1>1, <1>2, <1>3, <1>5, <1>6, <1>7, <1>8, <1>9, <1>10, <1>11, <1>12, <1>13,
     <1>14, <1>15, <1>16 DEF Next, FileWork

(* The units of each call in progress are in the cache, analysed up to the *)
(* one it is at; what is unfinished belongs to a call; no two rows of the  *)
(* library have one ID (ast.cpp, update and load_primary_unit).            *)
THEOREM AstInvariant == Spec => []IInv
PROOF
  BY InitHolds, StepHolds, PTL DEF Spec

(* load_primary_unit and update call one another without a guard: they come*)
(* back, for no file is read again by a load it has itself caused.         *)
THEOREM LoadsComeBack == Spec => []NoFileLoadsItself
PROOF
<1>1. IInv => NoFileLoadsItself
  <2> SUFFICES ASSUME IInv, NEW i \in DOMAIN stack, NEW j \in DOMAIN stack, i # j
               PROVE  stack[i].file # stack[j].file
    BY DEF NoFileLoadsItself
  <2>1. CallsInv(cache, stack, parses)
    BY DEF IInv, TreeInv
  <2>2. DOMAIN stack = 1 .. Len(stack) /\ Len(stack) \in Nat
    BY <2>1, LenProperties DEF CallsInv
  <2>3. i < j \/ j < i
    BY <2>2
  <2> QED
    BY <2>1, <2>2, <2>3 DEF CallsInv
<1> QED
  BY <1>1, AstInvariant, PTL

(* An updated document depends on units as their files are now, or on one  *)
(* whose save has not been reported (ast.cpp, invalidate_reference_file).  *)
THEOREM UpdatesAreFresh == Spec => []DependenciesAreFresh
PROOF
<1>1. IInv => DependenciesAreFresh
  <2> SUFFICES ASSUME IInv, ~ invalidated_, NEW s \in DOMAIN cache, s[1] = main_file,
                      NEW d \in cache[s].depends
               PROVE  \/ cache[d].file \in unreported \cup {Main}
                      \/ cache[d].state = "analysed" /\ cache[d].read = saves[cache[d].file]
    BY DEF DependenciesAreFresh
  <2>1. d \in DOMAIN cache /\ cache[d].state = "analysed"
    BY DEF IInv, TreeInv, DependOnAnalysed
  <2> QED
    BY <2>1 DEF IInv, FreshIn
<1> QED
  BY <1>1, AstInvariant, PTL

(* No more calls are in progress than there are files.                     *)
NoDeeperThanFiles == Len(stack) <= Cardinality(Files)

(* The recursion through the library is never deeper than there are files  *)
(* in the project (ast.cpp, load_primary_unit).                            *)
THEOREM RecursionIsBounded == Spec => []NoDeeperThanFiles
PROOF
<1>1. IInv => NoDeeperThanFiles
  <2> SUFFICES ASSUME IInv PROVE Len(stack) <= Cardinality(Files)
    BY DEF NoDeeperThanFiles
  <2> DEFINE n == Len(stack)
             file == [i \in 1 .. n |-> stack[i].file]
  <2>1. CallsInv(cache, stack, parses)
    BY DEF IInv, TreeInv
  <2>2. stack \in Seq(Frames) /\ n \in Nat
    BY <2>1, LenProperties DEF CallsInv
  <2>3. \A i \in 1 .. n : stack[i].file \in Files
    <3>1. \A i \in 1 .. n : stack[i] \in Frames
      BY <2>2, ElementOfSeq
    <3> QED
      BY <3>1 DEF Frames
  <2>4. ASSUME NEW i \in 1 .. n, NEW j \in 1 .. n, i # j
        PROVE  stack[i].file # stack[j].file
    <3>1. i < j \/ j < i
      BY <2>2, <2>4
    <3> QED
      BY <2>1, <3>1 DEF CallsInv
  <2> HIDE DEF n
  <2>5. file \in Injection(1 .. n, Files)
    BY <2>3, <2>4 DEF Injection, IsInjective
  <2>6. IsFiniteSet(1 .. n) /\ Cardinality(1 .. n) = n
    <3>1. 1 \in Int /\ n \in Int /\ (IF 1 > n THEN 0 ELSE n - 1 + 1) = n
      BY <2>2
    <3> QED
      BY <3>1, FS_Interval
  <2>7. Cardinality(1 .. n) <= Cardinality(Files)
    BY <2>5, AstAssumption, FS_Injection
  <2> QED
    BY <2>6, <2>7 DEF n
<1> QED
  BY <1>1, AstInvariant, PTL

--------------------------------------------------------------------------------
(* One unit per name.  Where a primary unit is declared once in a file and *)
(* in one file only, the cache holds two parses of one file only when a row*)
(* of the library names the file for a unit it lacks.                      *)

UniquelyDeclared ==
  /\ \A f, g \in Files : \A name \in Names :
       Declares(f, name) /\ Declares(g, name) => f = g
  /\ \A f \in Files : \A c \in Contents[f] : c # NoFile =>
       \A i, j \in 1 .. Len(c) :
         {c[i].kind, c[j].kind} \subseteq PrimaryKinds /\ c[i].name = c[j].name => i = j

IsSettled(f, told) == f \in Files \ (told \cup {Main})

(* Units that have not been outdated are all those of their file.          *)
WholeIn(units, held, told) ==
  \A s \in DOMAIN units :
    LET f == units[s].file IN
    units[s].state # "outdated" /\ IsSettled(f, told) =>
      /\ held[f] # NoFile
      /\ s[2] \in 1 .. Len(held[f])
      /\ \A k \in 1 .. Len(held[f]) :
           /\ <<s[1], k>> \in DOMAIN units
           /\ units[<<s[1], k>>].file = f
           /\ units[<<s[1], k>>].state # "outdated"
           /\ units[<<s[1], k>>].unit = held[f][k]

(* A row names the file for a primary unit that the file lacks.            *)
Lacks(table, content, f) ==
  \E i \in 1 .. Len(table) :
    /\ table[i].file = f
    /\ table[i].kind \in PrimaryKinds
    /\ \A k \in DOMAIN UnitsIn(content) :
         ~ (content[k].kind \in PrimaryKinds /\ content[k].name = table[i].name)

AgainIn(units, held, told, table, left) ==
  \A s, t \in DOMAIN units :
    LET f == units[s].file IN
    /\ units[t].file = f
    /\ s[1] # t[1]
    /\ {s[1], t[1]} \cap left = {}
    /\ IsSettled(f, told)
    /\ units[s].state # "outdated"
    /\ units[t].state # "outdated"
    => Lacks(table, held[f], f)

CallFiles(units, calls) ==
  \A i \in 1 .. Len(calls) : \A s \in DOMAIN units :
    s[1] = calls[i].batch => units[s].file = calls[i].file

NamesInv ==
  /\ WholeIn(cache, disk, unreported)
  /\ AgainIn(cache, disk, unreported, rows, abandoned)
  /\ CallFiles(cache, stack)

LEMMA PutKeepsOthers ==
  ASSUME NEW table \in Seq(Rows), NEW row \in Rows, NEW j \in 1 .. Len(table),
         ~ SameId(table[j], row)
  PROVE  \E k \in 1 .. Len(Put(table, row)) : Put(table, row)[k] = table[j]
PROOF
<1> DEFINE n == Len(table)
           left == Without(table, row)
<1>1. n \in Nat /\ DOMAIN table = 1 .. n
  BY LenProperties
<1>2. left \in Seq(Rows) /\ \E k \in 1 .. Len(left) : left[k] = table[j]
  <2>1. CASE \E i \in 1 .. n : SameId(table[i], row)
    <3> DEFINE p == CHOOSE i \in 1 .. n : SameId(table[i], row)
    <3>1. p \in 1 .. n /\ SameId(table[p], row)
      BY <2>1
    <3>2. left = RemoveAt(table, p)
      BY <1>1, <2>1 DEF Without
    <3>3. j # p
      BY <3>1
    <3> HIDE DEF p, left
    <3>4. /\ left \in Seq(Rows)
          /\ Len(left) = n - 1
          /\ \A k \in 1 .. n - 1 : left[k] = IF k < p THEN table[k] ELSE table[k + 1]
      BY <3>1, <3>2, RemovedRows
    <3> HIDE DEF n
    <3>5. CASE j < p
      <4>1. j \in 1 .. n - 1
        BY <1>1, <3>1, <3>5
      <4> QED
        BY <3>4, <3>5, <4>1
    <3>6. CASE ~ (j < p)
      <4> DEFINE k == j - 1
      <4>1. k \in 1 .. n - 1 /\ ~ (k < p) /\ k + 1 = j
        BY <1>1, <3>1, <3>3, <3>6 DEF n
      <4> HIDE DEF k
      <4> QED
        BY <3>4, <4>1
    <3> QED
      BY <3>5, <3>6
  <2>2. CASE ~ \E i \in 1 .. n : SameId(table[i], row)
    <3>1. left = table
      BY <1>1, <2>2 DEF Without
    <3> QED
      BY <3>1
  <2> QED
    BY <2>1, <2>2
<1> HIDE DEF left, n
<1>3. CASE row.kind = "architecture"
  <2>1. Put(table, row) = table
    BY <1>3 DEF Put
  <2> QED
    BY <2>1
<1>4. CASE row.kind # "architecture"
  <2> DEFINE new == Append(left, row)
             m == Len(left)
  <2>1. Put(table, row) = new
    BY <1>4 DEF Put, left
  <2>2. /\ Len(new) = m + 1 /\ m \in Nat
        /\ \A k \in 1 .. m : new[k] = left[k]
    BY <1>2, AppendProperties, LenProperties
  <2> HIDE DEF new
  <2>3. \A k \in 1 .. m : k \in 1 .. Len(new)
    BY <2>2
  <2> QED
    BY <1>2, <2>1, <2>2, <2>3
<1> QED
  BY <1>3, <1>4

LEMMA PutHasRow ==
  ASSUME NEW table \in Seq(Rows), NEW row \in Rows, OneRowPerId(table),
         row.kind # "architecture"
  PROVE  \E k \in 1 .. Len(Put(table, row)) : Put(table, row)[k] = row
PROOF
<1> DEFINE left == Without(table, row)
           new == Append(left, row)
<1>1. Put(table, row) = new
  BY DEF Put
<1>2. left \in Seq(Rows)
  <2>1. CASE \E i \in DOMAIN table : SameId(table[i], row)
    <3> DEFINE p == CHOOSE i \in DOMAIN table : SameId(table[i], row)
    <3>1. p \in 1 .. Len(table) /\ left = RemoveAt(table, p)
      BY <2>1, LenProperties DEF Without
    <3> HIDE DEF p, left
    <3> QED
      BY <3>1, RemovedRows
  <2>2. CASE ~ \E i \in DOMAIN table : SameId(table[i], row)
    BY <2>2 DEF Without
  <2> QED
    BY <2>1, <2>2
<1> HIDE DEF left
<1>3. Len(new) = Len(left) + 1 /\ new[Len(left) + 1] = row /\ Len(left) \in Nat
  BY <1>2, AppendProperties, LenProperties
<1> HIDE DEF new
<1>4. Len(left) + 1 \in 1 .. Len(new)
  BY <1>3
<1> QED
  BY <1>1, <1>3, <1>4

(* A row that misleads stays until one of the same file takes its place.   *)
LEMMA PutKeepsLacks ==
  ASSUME UniquelyDeclared, RowsInv, NEW row \in Rows, Declared(row),
         NEW f \in Files, NEW content, Lacks(rows, content, f)
  PROVE  Lacks(Put(rows, row), content, f)
PROOF
<1>1. rows \in Seq(Rows) /\ AllDeclared(rows) /\ OneRowPerId(rows)
  BY DEF RowsInv
<1>2. PICK i \in 1 .. Len(rows) :
        /\ rows[i].file = f
        /\ rows[i].kind \in PrimaryKinds
        /\ \A k \in DOMAIN UnitsIn(content) :
             ~ (content[k].kind \in PrimaryKinds /\ content[k].name = rows[i].name)
  BY DEF Lacks
<1>3. CASE ~ SameId(rows[i], row)
  <2>1. PICK k \in 1 .. Len(Put(rows, row)) : Put(rows, row)[k] = rows[i]
    BY <1>1, <1>3, PutKeepsOthers
  <2> QED
    BY <1>2, <2>1 DEF Lacks
<1>4. CASE SameId(rows[i], row)
  <2>1. row.name = rows[i].name /\ row.kind \in PrimaryKinds
    BY <1>2, <1>4 DEF SameId
  <2>2. row.kind # "architecture"
    BY <2>1 DEF PrimaryKinds
  <2>3. rows[i] \in Rows
    BY <1>1, ElementOfSeq
  <2>4. row.file \in Files /\ row.name \in Names
    BY DEF Rows
  <2>5. Declared(rows[i])
    BY <1>1 DEF AllDeclared
  <2>6. Declares(f, row.name)
    BY <1>2, <2>1, <2>5 DEF Declared, Declares
  <2>7. Declares(row.file, row.name)
    BY <2>1 DEF Declared, Declares
  <2>8. row.file = f
    BY <2>4, <2>6, <2>7 DEF UniquelyDeclared
  <2>9. PICK k \in 1 .. Len(Put(rows, row)) : Put(rows, row)[k] = row
    BY <1>1, <2>2, PutHasRow
  <2> QED
    BY <1>2, <2>1, <2>8, <2>9 DEF Lacks
<1> QED
  BY <1>3, <1>4

SameUnits(units, units2) ==
  /\ DOMAIN units2 = DOMAIN units
  /\ \A s \in DOMAIN units :
       /\ units2[s].file = units[s].file
       /\ units2[s].unit = units[s].unit
       /\ units2[s].state = "outdated" <=> units[s].state = "outdated"

(* Every call of calls2 has the file and the parse of one of calls.        *)
CallsAmong(calls, calls2) ==
  \A i \in 1 .. Len(calls2) : \E j \in 1 .. Len(calls) :
    calls2[i].file = calls[j].file /\ calls2[i].batch = calls[j].batch

LEMMA NamesKept ==
  ASSUME NamesInv, SameUnits(cache, cache'), CallsAmong(stack, stack'),
         UNCHANGED <<disk, unreported, abandoned>>,
         \A f \in Files : Lacks(rows, disk[f], f) => Lacks(rows', disk[f], f)
  PROVE  NamesInv'
PROOF
<1>1. WholeIn(cache', disk, unreported)
  BY DEF NamesInv, WholeIn, SameUnits
<1>2. AgainIn(cache', disk, unreported, rows', abandoned)
  <2> SUFFICES ASSUME NEW s \in DOMAIN cache', NEW t \in DOMAIN cache',
                      cache'[t].file = cache'[s].file,
                      s[1] # t[1],
                      {s[1], t[1]} \cap abandoned = {},
                      IsSettled(cache'[s].file, unreported),
                      cache'[s].state # "outdated",
                      cache'[t].state # "outdated"
               PROVE  Lacks(rows', disk[cache'[s].file], cache'[s].file)
    BY DEF AgainIn
  <2> DEFINE f == cache'[s].file
  <2>1. /\ s \in DOMAIN cache /\ t \in DOMAIN cache
        /\ cache[s].file = f /\ cache[t].file = f
        /\ cache[s].state # "outdated" /\ cache[t].state # "outdated"
    BY DEF SameUnits
  <2>2. f \in Files
    BY DEF IsSettled
  <2> HIDE DEF f
  <2>3. Lacks(rows, disk[f], f)
    BY <2>1 DEF NamesInv, AgainIn, f
  <2> QED
    BY <2>2, <2>3 DEF f
<1>3. CallFiles(cache', stack')
  <2> SUFFICES ASSUME NEW i \in 1 .. Len(stack'), NEW s \in DOMAIN cache', s[1] = stack'[i].batch
               PROVE  cache'[s].file = stack'[i].file
    BY DEF CallFiles
  <2>1. PICK j \in 1 .. Len(stack) :
          stack'[i].file = stack[j].file /\ stack'[i].batch = stack[j].batch
    BY DEF CallsAmong
  <2>2. s \in DOMAIN cache /\ cache'[s].file = cache[s].file
    BY DEF SameUnits
  <2> QED
    BY <2>1, <2>2 DEF NamesInv, CallFiles
<1> QED
  BY <1>1, <1>2, <1>3 DEF NamesInv

LEMMA SameCallsAmong ==
  ASSUME NEW calls, NEW calls2, Len(calls2) = Len(calls),
         \A i \in 1 .. Len(calls) : SameCall(calls[i], calls2[i])
  PROVE  CallsAmong(calls, calls2)
PROOF
  BY DEF CallsAmong, SameCall

LEMMA NoUnitChanges ==
  ASSUME NEW units
  PROVE  SameUnits(units, units) /\ CallsAmong(stack, stack)
PROOF
  BY DEF SameUnits, CallsAmong

LEMMA AnalyseNames ==
  ASSUME IInv, Analyse
  PROVE  SameUnits(cache, cache') /\ CallsAmong(stack, stack')
PROOF
<1>1. /\ HasUnit /\ cache[Current].state = "parsed"
      /\ cache' = WithState(cache, Current, "analysing")
      /\ stack' = stack
  BY DEF Analyse, WithState
<1>2. Current \in DOMAIN cache /\ CacheOf(cache, parses) /\ "analysing" \in States
  BY <1>1, CurrentUnit DEF IInv, TreeInv, States
<1>3. OnlyState(cache, cache', Current, "analysing")
  BY <1>1, <1>2, StateSet
<1>4. SameUnits(cache, cache')
  BY <1>1, <1>3 DEF OnlyState, SameUnits
<1> QED
  BY <1>1, <1>4, NoUnitChanges

LEMMA FinishUnitNames ==
  ASSUME IInv, FinishUnit
  PROVE  SameUnits(cache, cache') /\ CallsAmong(stack, stack')
PROOF
<1>1. /\ HasUnit /\ cache[Current].state = "analysing"
      /\ cache' = WithState(cache, Current, "analysed")
      /\ stack' = [stack EXCEPT ![Len(stack)].at = @ + 1, ![Len(stack)].need = 1]
  BY DEF FinishUnit, WithState
<1>2. Current \in DOMAIN cache /\ CacheOf(cache, parses) /\ "analysed" \in States
  BY <1>1, CurrentUnit DEF IInv, TreeInv, States
<1>3. OnlyState(cache, cache', Current, "analysed")
  BY <1>1, <1>2, StateSet
<1>4. SameUnits(cache, cache')
  BY <1>1, <1>3 DEF OnlyState, SameUnits
<1>5. Len(stack') = Len(stack) /\ \A i \in 1 .. Len(stack) : SameCall(stack[i], stack'[i])
  BY <1>1, NextUnit DEF IInv
<1> QED
  BY <1>4, <1>5, SameCallsAmong

LEMMA NextNeedNames ==
  ASSUME NEW calls \in Seq(Frames), calls # <<>>
  PROVE  CallsAmong(calls, WithNextNeed(calls))
PROOF
  BY NextNeed, SameCallsAmong

LEMMA FindInCacheNames ==
  ASSUME IInv, FindInCache
  PROVE  SameUnits(cache, cache') /\ CallsAmong(stack, stack')
PROOF
<1> DEFINE D == Denoted(Candidates(Wanted))
<1>1. /\ HasUnit
      /\ cache' = WithDepends(cache, Current, D)
      /\ stack' = WithNextNeed(stack)
  BY DEF FindInCache, LooksUp, WithDepends
<1>2. /\ stack # <<>> /\ stack \in Seq(Frames)
      /\ Current \in DOMAIN cache /\ CacheOf(cache, parses)
  BY <1>1, CurrentUnit DEF IInv, TreeInv, CallsInv
<1>3. D \in SUBSET DOMAIN cache
  <2>1. Candidates(Wanted) \in SUBSET DOMAIN cache
    BY DEF Candidates
  <2> QED
    BY <2>1, DenotedAnalysed
<1> HIDE DEF D
<1>4. OnlyDepends(cache, cache', Current, D)
  BY <1>1, <1>2, <1>3, DependsAdded
<1>5. SameUnits(cache, cache')
  BY <1>4 DEF OnlyDepends, SameUnits
<1> QED
  BY <1>1, <1>2, <1>5, NextNeedNames

LEMMA FinishLoadNames ==
  ASSUME IInv, FinishLoad
  PROVE  SameUnits(cache, cache') /\ CallsAmong(stack, stack')
PROOF
<1> DEFINE D == Denoted(Loaded)
           l == Len(Below)
<1>1. /\ Len(stack) > 1
      /\ cache' = WithDepends(cache, Caller, D)
      /\ stack' = WithNextNeed(Below)
  BY DEF FinishLoad, WithDepends
<1>2. /\ Below # <<>> /\ Below \in Seq(Frames)
      /\ l \in 1 .. l /\ l \in 1 .. Len(stack) /\ l < Len(stack)
      /\ \A i \in 1 .. l : i \in 1 .. Len(stack) /\ Below[i] = stack[i]
  BY <1>1, CallsBelow DEF IInv
<1>3. Caller \in DOMAIN cache
  <2> DEFINE c == Below[l]
  <2>1. Caller = <<c.batch, c.at>>
    BY DEF Caller
  <2>2. c \in Frames
    BY <1>2, ElementOfSeq
  <2>3. Holds(cache, c) /\ WaitsAt(cache, c)
    BY <1>2 DEF IInv, TreeInv, CallsInv
  <2> HIDE DEF c
  <2>4. c.at \in 1 .. c.size
    BY <2>2, <2>3 DEF Frames, WaitsAt
  <2> QED
    BY <2>1, <2>3, <2>4 DEF Holds
<1>4. D \in SUBSET DOMAIN cache
  <2>1. Loaded \in SUBSET DOMAIN cache
    BY DEF Loaded
  <2> QED
    BY <2>1, DenotedAnalysed
<1> HIDE DEF D
<1>5. CacheOf(cache, parses)
  BY DEF IInv, TreeInv
<1>6. OnlyDepends(cache, cache', Caller, D)
  BY <1>1, <1>3, <1>4, <1>5, DependsAdded
<1>7. SameUnits(cache, cache')
  BY <1>6 DEF OnlyDepends, SameUnits
<1>8. CallsAmong(Below, stack')
  BY <1>1, <1>2, NextNeedNames
<1>9. CallsAmong(stack, stack')
  BY <1>2, <1>8 DEF CallsAmong
<1> QED
  BY <1>7, <1>9

(* A file that is parsed again is parsed for a unit it lacks.              *)
LEMMA ParsedNames ==
  ASSUME NEW units, NEW f \in Files, disk[f] # NoFile, WorldTyped, parses \in Nat,
         CacheOf(units, parses), NEW told, NEW calls, NEW call,
         WholeIn(units, disk, told), AgainIn(units, disk, told, rows, abandoned),
         CallFiles(units, calls), calls \in Seq(Frames), call \in Frames,
         call.batch = parses + 1, call.file = f,
         \A i \in 1 .. Len(calls) : calls[i].batch <= parses,
         (\E s \in DOMAIN units : /\ units[s].file = f
                                  /\ units[s].state # "outdated"
                                  /\ s[1] \notin abandoned
                                  /\ IsSettled(f, told))
           => Lacks(rows, disk[f], f)
  PROVE  /\ WholeIn(Parsed(f, units), disk, told)
         /\ AgainIn(Parsed(f, units), disk, told, rows, abandoned)
         /\ CallFiles(Parsed(f, units), Append(calls, call))
PROOF
<1> DEFINE p == parses + 1
           n == Len(disk[f])
           units2 == Parsed(f, units)
<1>1. n \in Nat
  BY ParsedCache
<1>2. \A s \in DOMAIN units : s \in DOMAIN units2 /\ s[1] # p /\ units2[s] = units[s]
  BY ParsedCache
<1>3. \A s \in DOMAIN units2 : s \in DOMAIN units \/ \E k \in 1 .. n : s = <<p, k>>
  BY ParsedCache
<1>4. ASSUME NEW k \in 1 .. n
      PROVE  /\ <<p, k>> \in DOMAIN units2
             /\ units2[<<p, k>>].file = f
             /\ units2[<<p, k>>].unit = disk[f][k]
             /\ units2[<<p, k>>].state # "outdated"
  <2>1. <<p, k>> \in DOMAIN units2 /\ units2[<<p, k>>] = Cached(f, disk[f][k])
    BY ParsedCache
  <2> QED
    BY <2>1, CachedFields
<1>5. /\ Append(calls, call) \in Seq(Frames)
      /\ Len(Append(calls, call)) = Len(calls) + 1
      /\ \A i \in 1 .. Len(calls) : Append(calls, call)[i] = calls[i]
      /\ Append(calls, call)[Len(calls) + 1] = call
      /\ Len(calls) \in Nat
  BY AppendProperties, LenProperties
<1>6. \A i \in 1 .. Len(calls) : calls[i].batch # p
  <2>1. \A i \in 1 .. Len(calls) : calls[i] \in Frames
    BY ElementOfSeq
  <2>2. \A i \in 1 .. Len(calls) : calls[i].batch \in Nat
    BY <2>1 DEF Frames
  <2> QED
    BY <2>2
<1> HIDE DEF p, n, units2
<1>7. WholeIn(units2, disk, told)
  <2> SUFFICES ASSUME NEW s \in DOMAIN units2, units2[s].state # "outdated",
                      IsSettled(units2[s].file, told)
               PROVE  LET g == units2[s].file IN
                      /\ disk[g] # NoFile
                      /\ s[2] \in 1 .. Len(disk[g])
                      /\ \A k \in 1 .. Len(disk[g]) :
                           /\ <<s[1], k>> \in DOMAIN units2
                           /\ units2[<<s[1], k>>].file = g
                           /\ units2[<<s[1], k>>].state # "outdated"
                           /\ units2[<<s[1], k>>].unit = disk[g][k]
    BY DEF WholeIn
  <2>1. CASE s \in DOMAIN units
    <3> DEFINE g == units[s].file
    <3>1. units2[s] = units[s]
      BY <1>2, <2>1
    <3>2. /\ disk[g] # NoFile
          /\ s[2] \in 1 .. Len(disk[g])
          /\ \A k \in 1 .. Len(disk[g]) :
               /\ <<s[1], k>> \in DOMAIN units
               /\ units[<<s[1], k>>].file = g
               /\ units[<<s[1], k>>].state # "outdated"
               /\ units[<<s[1], k>>].unit = disk[g][k]
      BY <2>1, <3>1 DEF WholeIn
    <3> HIDE DEF g
    <3>3. \A k \in 1 .. Len(disk[g]) :
            <<s[1], k>> \in DOMAIN units2 /\ units2[<<s[1], k>>] = units[<<s[1], k>>]
      BY <1>2, <3>2
    <3>4. units2[s].file = g
      BY <3>1 DEF g
    <3> QED
      BY <3>2, <3>3, <3>4
  <2>2. CASE \E k \in 1 .. n : s = <<p, k>>
    <3>1. PICK k \in 1 .. n : s = <<p, k>>
      BY <2>2
    <3>2. s[1] = p /\ s[2] \in 1 .. n /\ units2[s].file = f
      BY <1>4, <3>1
    <3> QED
      BY <1>4, <3>2 DEF n
  <2> QED
    BY <1>3, <2>1, <2>2
<1>8. AgainIn(units2, disk, told, rows, abandoned)
  <2> SUFFICES ASSUME NEW s \in DOMAIN units2, NEW t \in DOMAIN units2,
                      units2[t].file = units2[s].file,
                      s[1] # t[1],
                      {s[1], t[1]} \cap abandoned = {},
                      IsSettled(units2[s].file, told),
                      units2[s].state # "outdated",
                      units2[t].state # "outdated"
               PROVE  Lacks(rows, disk[units2[s].file], units2[s].file)
    BY DEF AgainIn
  <2> DEFINE g == units2[s].file
  <2>1. CASE s \in DOMAIN units /\ t \in DOMAIN units
    <3>1. units2[s] = units[s] /\ units2[t] = units[t]
      BY <1>2, <2>1
    <3> QED
      BY <2>1, <3>1 DEF AgainIn
  <2>2. CASE s \notin DOMAIN units
    <3>1. s[1] = p /\ g = f
      BY <1>3, <1>4, <2>2
    <3>2. t \in DOMAIN units
      BY <1>3, <3>1
    <3>3. units[t].file = f /\ units[t].state # "outdated"
      BY <1>2, <3>1, <3>2
    <3> QED
      BY <3>1, <3>2, <3>3
  <2>3. CASE s \in DOMAIN units /\ t \notin DOMAIN units
    <3>1. units2[t].file = f
      BY <1>3, <1>4, <2>3
    <3>2. units[s].file = f /\ units[s].state # "outdated"
      BY <1>2, <2>3, <3>1
    <3> QED
      BY <2>3, <3>1, <3>2
  <2> QED
    BY <2>1, <2>2, <2>3
<1>9. CallFiles(units2, Append(calls, call))
  <2> DEFINE calls2 == Append(calls, call)
  <2> SUFFICES ASSUME NEW i \in 1 .. Len(calls) + 1, NEW s \in DOMAIN units2,
                      s[1] = calls2[i].batch
               PROVE  units2[s].file = calls2[i].file
    BY <1>5 DEF CallFiles
  <2> HIDE DEF calls2
  <2>1. CASE i = Len(calls) + 1
    <3>1. calls2[i] = call /\ s[1] = p
      BY <1>5, <2>1 DEF calls2, p
    <3>2. s \notin DOMAIN units
      BY <1>2, <3>1
    <3> QED
      BY <1>3, <1>4, <3>1, <3>2
  <2>2. CASE i # Len(calls) + 1
    <3>1. i \in 1 .. Len(calls)
      BY <1>5, <2>2
    <3>2. calls2[i] = calls[i]
      BY <1>5, <3>1 DEF calls2
    <3>3. s[1] # p
      BY <1>6, <3>1, <3>2
    <3>4. s \in DOMAIN units
      BY <1>3, <3>3
    <3> QED
      BY <1>2, <3>1, <3>2, <3>4 DEF CallFiles
  <2> QED
    BY <2>1, <2>2
<1> QED
  BY <1>7, <1>8, <1>9 DEF units2

(* A file is loaded again only for a unit it lacks: had it the unit, the   *)
(* earlier parse would have it too, and it would have been found.          *)
LEMMA LoadedAgainLacks ==
  ASSUME IInv, NamesInv, StartLoad,
         NEW s \in DOMAIN cache, cache[s].file = FileToLoad, cache[s].state # "outdated",
         s[1] \notin abandoned,
         IsSettled(FileToLoad, unreported)
  PROVE  Lacks(rows, disk[FileToLoad], FileToLoad)
PROOF
<1> DEFINE g == FileToLoad
           name == Wanted
           row == RowNamed(name)
<1>1. /\ Candidates(name) = {}
      /\ HasRow(name) /\ row.kind \in PrimaryKinds
      /\ disk[g] # NoFile
  BY DEF StartLoad, InLibrary
<1>2. rows \in Seq(Rows)
  BY DEF IInv, RowsInv
<1>3. PICK i \in 1 .. Len(rows) : row = rows[i] /\ rows[i].name = name
  BY <1>1, <1>2, FirstRow
<1>4. g = row.file
  BY DEF FileToLoad
<1>5. \A j \in 1 .. Len(stack) : g # stack[j].file
  BY LoadsAnotherFile
<1>6. CacheOf(cache, parses)
  BY DEF IInv, TreeInv
<1> HIDE DEF g, name, row
<1>7. ASSUME NEW k \in 1 .. Len(disk[g]),
             disk[g][k].kind \in PrimaryKinds, disk[g][k].name = name
      PROVE  FALSE
  <2> DEFINE t == <<s[1], k>>
  <2>1. /\ t \in DOMAIN cache
        /\ cache[t].file = g
        /\ cache[t].state # "outdated"
        /\ cache[t].unit = disk[g][k]
    BY DEF NamesInv, WholeIn, g
  <2> HIDE DEF t
  <2>2. cache[t].state # "parsed"
    <3> SUFFICES ASSUME cache[t].state = "parsed" PROVE FALSE
      OBVIOUS
    <3>1. PICK j \in 1 .. Len(stack) : t[1] = stack[j].batch
      BY <2>1 DEF IInv, TreeInv, UnfinishedIn, t
    <3>2. cache[t].file = stack[j].file
      BY <2>1, <3>1 DEF NamesInv, CallFiles
    <3> QED
      BY <1>5, <2>1, <3>2
  <2>3. t \in Candidates(name)
    BY <1>7, <2>1, <2>2 DEF Candidates, IsCandidate
  <2> QED
    BY <1>1, <2>3
<1>8. DOMAIN UnitsIn(disk[g]) = 1 .. Len(disk[g])
  <2>1. g \in Files /\ disk[g] \in Contents[g]
    BY DEF IsSettled, g, IInv, WorldTyped
  <2> QED
    BY <1>1, <2>1, UnitsTyped
<1>9. /\ rows[i].file = g
      /\ rows[i].kind \in PrimaryKinds
      /\ \A k \in DOMAIN UnitsIn(disk[g]) :
           ~ (disk[g][k].kind \in PrimaryKinds /\ disk[g][k].name = rows[i].name)
  BY <1>1, <1>3, <1>4, <1>7, <1>8
<1> QED
  BY <1>9 DEF Lacks, g

LEMMA StartLoadNames ==
  ASSUME IInv, NamesInv, StartLoad
  PROVE  NamesInv'
PROOF
<1> DEFINE g == FileToLoad
           row == RowNamed(Wanted)
           call == Frame(g, row)
<1>1. /\ disk[g] # NoFile
      /\ cache' = Parsed(g, cache)
      /\ stack' = Append(stack, call)
      /\ UNCHANGED <<world, abandoned>>
  BY DEF StartLoad
<1>2. UNCHANGED <<disk, unreported, rows, abandoned>>
  BY <1>1 DEF world
<1>3. g \in Files /\ row \in Rows
  BY LoadsAnotherFile
<1>4. /\ WorldTyped /\ parses \in Nat /\ CacheOf(cache, parses)
      /\ stack \in Seq(Frames)
      /\ \A i \in 1 .. Len(stack) : stack[i].batch <= parses
  BY DEF IInv, TreeInv, CallsInv
<1>5. /\ WholeIn(cache, disk, unreported)
      /\ AgainIn(cache, disk, unreported, rows, abandoned)
      /\ CallFiles(cache, stack)
  BY DEF NamesInv
<1>6. (\E s \in DOMAIN cache : /\ cache[s].file = g
                               /\ cache[s].state # "outdated"
                               /\ s[1] \notin abandoned
                               /\ IsSettled(g, unreported))
        => Lacks(rows, disk[g], g)
  BY LoadedAgainLacks
<1>7. call \in Frames
  BY <1>1, <1>3, <1>4, FrameBegins
<1>8. call.batch = parses + 1 /\ call.file = g
  BY DEF Frame
<1> HIDE DEF g, row, call
<1>9. /\ WholeIn(Parsed(g, cache), disk, unreported)
      /\ AgainIn(Parsed(g, cache), disk, unreported, rows, abandoned)
      /\ CallFiles(Parsed(g, cache), Append(stack, call))
  BY <1>1, <1>3, <1>4, <1>5, <1>6, <1>7, <1>8, ParsedNames
<1> QED
  BY <1>1, <1>2, <1>9 DEF NamesInv

LEMMA ReadsNames ==
  ASSUME WorldTyped, TreeInv, Idle, NEW units, Reads(units), CacheOf(units, parses),
         WholeIn(units, disk, unreported'), AgainIn(units, disk, unreported', rows, abandoned),
         UNCHANGED <<disk, rows>>
  PROVE  NamesInv'
PROOF
<1>1. parses \in Nat /\ stack = <<>> /\ Main \in Files /\ Len(<<>>) = 0
  BY AstAssumption, EmptySeq DEF TreeInv, Idle
<1>2. CallFiles(units, <<>>)
  BY <1>1 DEF CallFiles
<1>3. CASE Unreadable(units) \/ ParserThrows(units)
  <2>1. cache' = units /\ stack' = <<>> /\ abandoned' = abandoned
    BY <1>1, <1>3 DEF Reads, Unreadable, ParserThrows
  <2> QED
    BY <1>2, <2>1 DEF NamesInv
<1>4. CASE Parses(units)
  <2>0. disk[Main] # NoFile
    BY <1>4 DEF Parses
  <2> DEFINE call == Frame(Main, NoRow)
  <2>1. cache' = Parsed(Main, units) /\ stack' = <<call>> /\ abandoned' = abandoned
    BY <1>4 DEF Reads, Parses, NoRow
  <2>2. call \in Frames
    BY <1>1, <2>0, FrameBegins DEF NoRow
  <2>3. call.batch = parses + 1 /\ call.file = Main
    BY DEF Frame
  <2> HIDE DEF call
  <2>4. <<call>> = Append(<<>>, call) /\ <<>> \in Seq(Frames)
    BY EmptySeq
  <2>5. ~ IsSettled(Main, unreported')
    BY DEF IsSettled
  <2>6. \A i \in 1 .. Len(<<>>) : FALSE
    BY <1>1
  <2> DEFINE none == <<>>
  <2>7. /\ none \in Seq(Frames) /\ CallFiles(units, none)
        /\ \A i \in 1 .. Len(none) : none[i].batch <= parses
    BY <1>2, <2>4, <2>6
  <2> HIDE DEF none
  <2>8. /\ WholeIn(Parsed(Main, units), disk, unreported')
        /\ AgainIn(Parsed(Main, units), disk, unreported', rows, abandoned)
        /\ CallFiles(Parsed(Main, units), Append(none, call))
    BY <1>1, <2>0, <2>2, <2>3, <2>5, <2>7, ParsedNames
  <2> QED
    BY <2>1, <2>4, <2>8 DEF NamesInv, none
<1> QED
  BY <1>3, <1>4 DEF Reads

LEMMA UpdateTaskNames ==
  ASSUME IInv, NamesInv, NEW reported \in SUBSET unreported, UpdateTask(reported)
  PROVE  NamesInv'
PROOF
<1> DEFINE told == reported \ {Main}
           units == Outdated(told)
<1>1. /\ Idle
      /\ unreported' = unreported \ reported
      /\ Reads(units)
      /\ UNCHANGED <<disk, rows>>
  BY DEF UpdateTask
<1>2. WorldTyped /\ TreeInv /\ CacheOf(cache, parses)
  BY DEF IInv, TreeInv
<1>3. DOMAIN units = DOMAIN cache
  BY DEF Outdated
<1>4. ASSUME NEW s \in DOMAIN cache
      PROVE  /\ units[s] \in CachedUnits
             /\ units[s].file = cache[s].file
             /\ units[s].unit = cache[s].unit
             /\ units[s].depends = cache[s].depends
             /\ cache[s].file \in told => units[s].state = "outdated"
             /\ cache[s].file \notin told => units[s].state = cache[s].state
  <2>1. units[s] = Outdates(cache[s], told)
    BY DEF Outdated
  <2>2. cache[s] \in CachedUnits
    BY <1>2 DEF CacheOf
  <2>3. "outdated" \in States
    BY DEF States
  <2> HIDE DEF units, told
  <2>4. CASE cache[s].file \in told
    <3>1. units[s] = [cache[s] EXCEPT !.state = "outdated"]
      BY <2>1, <2>4 DEF Outdates
    <3> QED
      BY <2>2, <2>3, <2>4, <3>1 DEF CachedUnits
  <2>5. CASE cache[s].file \notin told
    <3>1. units[s] = cache[s]
      BY <2>1, <2>5 DEF Outdates
    <3> QED
      BY <2>2, <2>5, <3>1
  <2> QED
    BY <2>4, <2>5
<1> HIDE DEF units
<1>5. CacheOf(units, parses)
  BY <1>2, <1>3, <1>4 DEF CacheOf
<1>6. ASSUME NEW s \in DOMAIN cache, units[s].state # "outdated",
             IsSettled(cache[s].file, unreported')
      PROVE  cache[s].state # "outdated" /\ IsSettled(cache[s].file, unreported)
  <2>1. cache[s].file \notin told
    BY <1>4, <1>6
  <2> QED
    BY <1>1, <1>4, <1>6, <2>1 DEF IsSettled
<1>7. WholeIn(units, disk, unreported')
  <2> SUFFICES ASSUME NEW s \in DOMAIN cache, units[s].state # "outdated",
                      IsSettled(cache[s].file, unreported')
               PROVE  LET f == cache[s].file IN
                      /\ disk[f] # NoFile
                      /\ s[2] \in 1 .. Len(disk[f])
                      /\ \A k \in 1 .. Len(disk[f]) :
                           /\ <<s[1], k>> \in DOMAIN units
                           /\ units[<<s[1], k>>].file = f
                           /\ units[<<s[1], k>>].state # "outdated"
                           /\ units[<<s[1], k>>].unit = disk[f][k]
    BY <1>3, <1>4 DEF WholeIn
  <2> DEFINE f == cache[s].file
  <2>1. /\ disk[f] # NoFile
        /\ s[2] \in 1 .. Len(disk[f])
        /\ \A k \in 1 .. Len(disk[f]) :
             /\ <<s[1], k>> \in DOMAIN cache
             /\ cache[<<s[1], k>>].file = f
             /\ cache[<<s[1], k>>].state # "outdated"
             /\ cache[<<s[1], k>>].unit = disk[f][k]
    BY <1>6 DEF NamesInv, WholeIn
  <2>2. f \notin told
    BY <1>4
  <2> HIDE DEF f
  <2>3. ASSUME NEW k \in 1 .. Len(disk[f])
        PROVE  /\ <<s[1], k>> \in DOMAIN units
               /\ units[<<s[1], k>>].file = f
               /\ units[<<s[1], k>>].state # "outdated"
               /\ units[<<s[1], k>>].unit = disk[f][k]
    <3> DEFINE t == <<s[1], k>>
    <3>1. /\ t \in DOMAIN cache
          /\ cache[t].file = f
          /\ cache[t].state # "outdated"
          /\ cache[t].unit = disk[f][k]
      BY <2>1
    <3> HIDE DEF t
    <3>2. /\ t \in DOMAIN units
          /\ units[t].file = f
          /\ units[t].state # "outdated"
          /\ units[t].unit = disk[f][k]
      BY <1>3, <1>4, <2>2, <3>1
    <3> QED
      BY <3>2 DEF t
  <2> QED
    BY <2>1, <2>3 DEF f
<1>8. AgainIn(units, disk, unreported', rows, abandoned)
  BY <1>3, <1>4, <1>6 DEF NamesInv, AgainIn
<1> QED
  BY <1>1, <1>2, <1>5, <1>7, <1>8, ReadsNames

LEMMA RequestTaskNames ==
  ASSUME IInv, NamesInv, RequestTask
  PROVE  NamesInv'
PROOF
<1>1. Idle /\ Reads(cache) /\ UNCHANGED world
  BY DEF RequestTask
<1>2. UNCHANGED <<disk, unreported, rows>>
  BY <1>1 DEF world
<1>3. WorldTyped /\ TreeInv /\ CacheOf(cache, parses)
  BY DEF IInv, TreeInv
<1>4. WholeIn(cache, disk, unreported') /\ AgainIn(cache, disk, unreported', rows, abandoned)
  BY <1>2 DEF NamesInv
<1> QED
  BY <1>1, <1>2, <1>3, <1>4, ReadsNames

LEMMA SaveNames ==
  ASSUME IInv, NamesInv, NEW f \in Files, NEW content \in Contents[f], Save(f, content)
  PROVE  NamesInv'
PROOF
<1>1. /\ disk' = [disk EXCEPT ![f] = content]
      /\ unreported' = unreported \cup {f}
      /\ UNCHANGED <<rows, cache, stack, abandoned>>
  BY DEF Save, tree
<1>2. \A g : IsSettled(g, unreported') => IsSettled(g, unreported) /\ disk'[g] = disk[g]
  BY <1>1 DEF IsSettled, IInv, WorldTyped
<1>3. WholeIn(cache, disk', unreported')
  BY <1>2 DEF NamesInv, WholeIn
<1>4. AgainIn(cache, disk', unreported', rows, abandoned)
  BY <1>2 DEF NamesInv, AgainIn
<1> QED
  BY <1>1, <1>3, <1>4 DEF NamesInv

LEMMA NamesStep ==
  ASSUME UniquelyDeclared, IInv, NamesInv, [Next]_vars
  PROVE  NamesInv'
PROOF
<1>1. ASSUME SameUnits(cache, cache'), CallsAmong(stack, stack'), UNCHANGED <<world, abandoned>>
      PROVE  NamesInv'
  BY <1>1, NamesKept DEF world
<1>2. ASSUME NEW f \in Files, NEW content \in Contents[f], Save(f, content) PROVE NamesInv'
  BY <1>2, SaveNames
<1>3. ASSUME NEW f \in Files, Index(f) PROVE NamesInv'
  BY <1>3 DEF Index, tree, NamesInv
<1>4. CASE PutNext
  <2>1. /\ indexing # <<>>
        /\ rows' = Put(rows, Head(indexing))
        /\ UNCHANGED <<disk, unreported, cache, stack, abandoned>>
    BY <1>4 DEF PutNext, tree
  <2>2. RowsInv /\ indexing \in Seq(Rows) /\ AllDeclared(indexing)
    BY DEF IInv, RowsInv
  <2>3. Head(indexing) \in Rows /\ Head(indexing) = indexing[1] /\ 1 \in 1 .. Len(indexing)
    BY <2>1, <2>2, HeadTailProperties, EmptySeq
  <2>4. Declared(Head(indexing))
    <3>1. Declared(indexing[1])
      BY <2>2, <2>3 DEF AllDeclared
    <3> QED
      BY <2>3, <3>1
  <2>5. \A f \in Files : Lacks(rows, disk[f], f) => Lacks(rows', disk[f], f)
    BY <2>1, <2>2, <2>3, <2>4, PutKeepsLacks
  <2> QED
    BY <2>1, <2>5, NamesKept, NoUnitChanges
<1>5. CASE PutUnit
  <2> DEFINE s == <<Top.batch, Top.need>>
             u == cache[s].unit
  <2>1. /\ Len(stack) = 1
        /\ Top.need <= Top.size
        /\ rows' = Put(rows, Row(u, Main))
        /\ stack' = WithNextNeed(stack)
        /\ UNCHANGED <<disk, unreported, cache, abandoned>>
    BY <1>5 DEF PutUnit, Analysed
  <2>2. stack # <<>> /\ TreeInv /\ stack \in Seq(Frames)
    <3>1. TreeInv /\ stack \in Seq(Frames)
      BY DEF IInv, TreeInv, CallsInv
    <3>2. Len(stack) = 1
      BY <2>1
    <3>3. stack # <<>>
      BY <3>2, EmptySeq
    <3> QED
      BY <3>1, <3>3
  <2>3. Top.file = Main /\ Main \in Files
    BY <2>1, <2>2, AstAssumption DEF TreeInv, CallsInv, Top
  <2>4. Top.need \in 1 .. Top.size
    BY <2>1, <2>2, TopCall
  <2> HIDE DEF s
  <2>5. \E c \in Contents[Main] : c # NoFile /\ Len(c) = Top.size /\ u = c[Top.need]
    BY <2>2, <2>3, <2>4, TopCall DEF Holds, s
  <2>6. u \in Units /\ u \in UnitsOf(Main)
    BY <2>3, <2>4, <2>5, UnitsTyped
  <2> HIDE DEF u
  <2>7. Row(u, Main) \in Rows /\ Declared(Row(u, Main)) /\ RowsInv
    BY <2>3, <2>6, UnitRow DEF IInv
  <2>8. \A f \in Files : Lacks(rows, disk[f], f) => Lacks(rows', disk[f], f)
    BY <2>1, <2>7, PutKeepsLacks
  <2>9. SameUnits(cache, cache') /\ CallsAmong(stack, stack')
    BY <2>1, <2>2, NextNeedNames, NoUnitChanges
  <2> QED
    BY <2>1, <2>8, <2>9, NamesKept
<1>6. ASSUME NEW reported \in SUBSET unreported, UpdateTask(reported) PROVE NamesInv'
  BY <1>6, UpdateTaskNames
<1>7. CASE RequestTask
  BY <1>7, RequestTaskNames
<1>8. CASE Analyse
  BY <1>1, <1>8, AnalyseNames DEF Analyse
<1>9. CASE FindInCache
  BY <1>1, <1>9, FindInCacheNames DEF FindInCache
<1>10. CASE FindNothing
  <2>1. /\ HasUnit
        /\ stack' = WithNextNeed(stack)
        /\ UNCHANGED <<world, cache, abandoned>>
    BY <1>10 DEF FindNothing, LooksUp
  <2>2. stack # <<>> /\ stack \in Seq(Frames)
    BY <2>1, CurrentUnit DEF IInv, TreeInv, CallsInv
  <2>3. SameUnits(cache, cache') /\ CallsAmong(stack, stack')
    BY <2>1, <2>2, NextNeedNames, NoUnitChanges
  <2> QED
    BY <1>1, <2>1, <2>3
<1>11. CASE StartLoad
  BY <1>11, StartLoadNames
<1>12. CASE FinishUnit
  BY <1>1, <1>12, FinishUnitNames DEF FinishUnit
<1>13. CASE FinishLoad
  BY <1>1, <1>13, FinishLoadNames DEF FinishLoad
<1>14. CASE FinishUpdate
  <2>1. stack' = <<>> /\ UNCHANGED <<world, cache, abandoned>>
    BY <1>14 DEF FinishUpdate
  <2>2. CallsAmong(stack, stack')
    BY <2>1, EmptySeq DEF CallsAmong
  <2>3. SameUnits(cache, cache')
    BY <2>1, NoUnitChanges
  <2> QED
    BY <1>1, <2>1, <2>2, <2>3
<1>15. CASE Throws
  <2>1. /\ stack' = <<>> /\ abandoned \subseteq abandoned'
        /\ UNCHANGED <<disk, unreported, rows, cache>>
    BY <1>15 DEF Throws, world
  <2>2. WholeIn(cache, disk, unreported) /\ AgainIn(cache, disk, unreported, rows, abandoned)
    BY DEF NamesInv
  <2>3. AgainIn(cache, disk, unreported, rows, abandoned')
    BY <2>1, <2>2 DEF AgainIn
  <2>4. CallFiles(cache, stack')
    BY <2>1, EmptySeq DEF CallFiles
  <2> QED
    BY <2>1, <2>2, <2>3, <2>4 DEF NamesInv
<1>16. CASE UNCHANGED vars
  <2>1. UNCHANGED <<disk, unreported, rows, cache, stack, abandoned>>
    BY <1>16 DEF vars, world, tree
  <2> QED
    BY <2>1 DEF NamesInv
<1> QED
  BY <1>2, <1>3, <1>4, <1>5, <1>6, <1>7, <1>8, <1>9, <1>10, <1>11, <1>12, <1>13,
     <1>14, <1>15, <1>16 DEF Next, FileWork

(* Two units of one file that can be returned for one name come from two   *)
(* parses, and the file was parsed again for a unit that it lacks, if each *)
(* primary unit is declared in one place (ast.cpp, update).                *)
THEOREM NamesAreUnique ==
  ASSUME UniquelyDeclared
  PROVE  Spec => []OneUnitPerName
PROOF
<1>1. Init => NamesInv
  <2> SUFFICES ASSUME Init PROVE NamesInv
    OBVIOUS
  <2>1. DOMAIN cache = {}
    BY DEF Init
  <2> QED
    BY <2>1 DEF NamesInv, WholeIn, AgainIn, CallFiles
<1>2. IInv /\ NamesInv /\ [Next]_vars => NamesInv'
  BY NamesStep
<1>3. IInv /\ NamesInv => OneUnitPerName
  <2> SUFFICES ASSUME IInv, NamesInv, NEW s \in DOMAIN cache, NEW t \in DOMAIN cache,
                      s # t,
                      cache[s].file = cache[t].file,
                      cache[s].unit.name = cache[t].unit.name,
                      {cache[s].unit.kind, cache[t].unit.kind} \subseteq PrimaryKinds,
                      IsCandidate(cache[s]), IsCandidate(cache[t]),
                      cache[s].file \notin unreported \cup {Main},
                      {s[1], t[1]} \cap abandoned = {}
               PROVE  Misleads(cache[s].file)
    BY DEF OneUnitPerName
  <2> DEFINE f == cache[s].file
  <2>1. CacheOf(cache, parses) /\ f \in Files /\ disk[f] \in Contents[f]
    BY DEF IInv, TreeInv, CacheOf, CachedUnits, WorldTyped
  <2>2. IsSettled(f, unreported)
    BY <2>1 DEF IsSettled
  <2>3. cache[s].state # "outdated" /\ cache[t].state # "outdated"
    BY DEF IsCandidate
  <2>4. s = <<s[1], s[2]>> /\ t = <<t[1], t[2]>>
    BY <2>1 DEF CacheOf, Addresses
  <2>5. CASE s[1] = t[1]
    <3>1. s[2] # t[2]
      BY <2>4, <2>5
    <3>2. /\ disk[f] # NoFile
          /\ s[2] \in 1 .. Len(disk[f])
          /\ \A k \in 1 .. Len(disk[f]) : cache[<<s[1], k>>].unit = disk[f][k]
      BY <2>2, <2>3 DEF NamesInv, WholeIn
    <3>3. t[2] \in 1 .. Len(disk[f])
      BY <2>2, <2>3 DEF NamesInv, WholeIn
    <3>4. cache[s].unit = disk[f][s[2]] /\ cache[t].unit = disk[f][t[2]]
      BY <2>4, <2>5, <3>2, <3>3
    <3>5. s[2] = t[2]
      BY <2>1, <3>2, <3>3, <3>4 DEF UniquelyDeclared
    <3> QED
      BY <3>1, <3>5
  <2>6. CASE s[1] # t[1]
    <3>1. Lacks(rows, disk[f], f)
      BY <2>2, <2>3, <2>6 DEF NamesInv, AgainIn
    <3> HIDE DEF f
    <3>2. PICK i \in 1 .. Len(rows) :
            /\ rows[i].file = f
            /\ rows[i].kind \in PrimaryKinds
            /\ \A k \in DOMAIN UnitsIn(disk[f]) :
                 ~ (disk[f][k].kind \in PrimaryKinds /\ disk[f][k].name = rows[i].name)
      BY <3>1 DEF Lacks
    <3> DEFINE r == rows[i]
    <3>3. r \in Range(rows)
      BY LenProperties DEF IInv, RowsInv, Range
    <3>4. ASSUME NEW u \in Range(UnitsIn(disk[f])), r.kind = u.kind, r.name = u.name
          PROVE  FALSE
      <4>1. PICK k \in DOMAIN UnitsIn(disk[f]) : u = UnitsIn(disk[f])[k]
        BY DEF Range
      <4>2. UnitsIn(disk[f])[k] = disk[f][k]
        <5>1. CASE disk[f] = NoFile
          BY <4>1, <5>1 DEF UnitsIn
        <5>2. CASE disk[f] # NoFile
          BY <5>2 DEF UnitsIn
        <5> QED
          BY <5>1, <5>2
      <4> QED
        BY <3>2, <3>4, <4>1, <4>2
    <3>5. \A u \in Range(UnitsIn(disk[f])) : <<r.kind, r.name>> # <<u.kind, u.name>>
      BY <3>4
    <3> HIDE DEF r
    <3>6. Misleads(f)
      BY <3>2, <3>3, <3>5 DEF Misleads, r
    <3> QED
      BY <3>6 DEF f
  <2> QED
    BY <2>5, <2>6
<1> QED
  BY <1>1, <1>2, <1>3, AstInvariant, PTL DEF Spec

--------------------------------------------------------------------------------
(* What an exception leaves.                                               *)

(* A parse that was abandoned is none of those in progress, and no more    *)
(* than one of its units is in analysis.                                   *)
OneInAnalysis(units, left) ==
  \A s, t \in DOMAIN units :
    /\ s[1] \in left /\ t[1] = s[1]
    /\ units[s].state = "analysing" /\ units[t].state = "analysing"
    => s = t

LeftInv ==
  /\ abandoned \subseteq 1 .. parses
  /\ \A i \in 1 .. Len(stack) : stack[i].batch \notin abandoned
  /\ OneInAnalysis(cache, abandoned)

NoNewAnalysis(units, units2, left) ==
  \A s \in DOMAIN units2 : s[1] \in left /\ units2[s].state = "analysing" =>
    s \in DOMAIN units /\ units[s].state = "analysing"

LEMMA LeftKept ==
  ASSUME LeftInv, UNCHANGED abandoned, parses \in Nat, parses' \in Nat, parses <= parses',
         NoNewAnalysis(cache, cache', abandoned),
         \A i \in 1 .. Len(stack') : stack'[i].batch \notin abandoned
  PROVE  LeftInv'
PROOF
<1>1. abandoned \subseteq 1 .. parses'
  BY DEF LeftInv
<1>2. OneInAnalysis(cache', abandoned)
  BY DEF LeftInv, OneInAnalysis, NoNewAnalysis
<1> QED
  BY <1>1, <1>2 DEF LeftInv

LEMMA CallsNotLeft ==
  ASSUME LeftInv, CallsAmong(stack, stack')
  PROVE  \A i \in 1 .. Len(stack') : stack'[i].batch \notin abandoned
PROOF
  BY DEF LeftInv, CallsAmong

(* A parse has an address of its own.                                      *)
LEMMA ParsedLeft ==
  ASSUME LeftInv, WorldTyped, parses \in Nat, NEW units, CacheOf(units, parses),
         NEW f \in Files, disk[f] # NoFile
  PROVE  /\ parses + 1 \notin abandoned
         /\ NoNewAnalysis(units, Parsed(f, units), abandoned)
PROOF
<1>1. parses + 1 \notin abandoned
  BY DEF LeftInv
<1>2. \A s \in DOMAIN Parsed(f, units) :
        s \in DOMAIN units \/ \E k \in 1 .. Len(disk[f]) : s = <<parses + 1, k>>
  BY ParsedCache
<1>3. \A s \in DOMAIN units : Parsed(f, units)[s] = units[s]
  BY ParsedCache
<1> QED
  BY <1>1, <1>2, <1>3 DEF NoNewAnalysis

LEMMA AnalyseLeft ==
  ASSUME IInv, LeftInv, Analyse
  PROVE  LeftInv'
PROOF
<1>1. /\ HasUnit
      /\ cache' = WithState(cache, Current, "analysing")
      /\ UNCHANGED <<parses, stack, abandoned>>
  BY DEF Analyse, WithState
<1>2. /\ Current \in DOMAIN cache /\ CacheOf(cache, parses) /\ "analysing" \in States
      /\ parses \in Nat
      /\ stack # <<>> /\ Current[1] = Top.batch
  BY <1>1, CurrentUnit DEF IInv, TreeInv, States
<1>3. OnlyState(cache, cache', Current, "analysing")
  BY <1>1, <1>2, StateSet
<1>4. Current[1] \notin abandoned
  <2>1. Len(stack) \in 1 .. Len(stack) /\ Top = stack[Len(stack)]
    BY <1>2, TopCall DEF IInv
  <2> QED
    BY <1>2, <2>1 DEF LeftInv
<1>5. NoNewAnalysis(cache, cache', abandoned)
  BY <1>3, <1>4 DEF OnlyState, NoNewAnalysis
<1>6. \A i \in 1 .. Len(stack') : stack'[i].batch \notin abandoned
  BY <1>1 DEF LeftInv
<1> QED
  BY <1>1, <1>2, <1>5, <1>6, LeftKept

LEMMA FinishUnitLeft ==
  ASSUME IInv, LeftInv, FinishUnit
  PROVE  LeftInv'
PROOF
<1>1. /\ HasUnit
      /\ cache' = WithState(cache, Current, "analysed")
      /\ UNCHANGED <<parses, abandoned>>
  BY DEF FinishUnit, WithState
<1>2. /\ Current \in DOMAIN cache /\ CacheOf(cache, parses) /\ "analysed" \in States
      /\ parses \in Nat
  BY <1>1, CurrentUnit DEF IInv, TreeInv, States
<1>3. OnlyState(cache, cache', Current, "analysed")
  BY <1>1, <1>2, StateSet
<1>4. NoNewAnalysis(cache, cache', abandoned)
  BY <1>3 DEF OnlyState, NoNewAnalysis
<1>5. \A i \in 1 .. Len(stack') : stack'[i].batch \notin abandoned
  BY FinishUnitNames, CallsNotLeft
<1> QED
  BY <1>1, <1>2, <1>4, <1>5, LeftKept

LEMMA FindInCacheLeft ==
  ASSUME IInv, LeftInv, FindInCache
  PROVE  LeftInv'
PROOF
<1> DEFINE D == Denoted(Candidates(Wanted))
<1>1. /\ HasUnit
      /\ cache' = WithDepends(cache, Current, D)
      /\ UNCHANGED <<parses, abandoned>>
  BY DEF FindInCache, LooksUp, WithDepends
<1>2. Current \in DOMAIN cache /\ CacheOf(cache, parses) /\ parses \in Nat
  BY <1>1, CurrentUnit DEF IInv, TreeInv
<1>3. D \in SUBSET DOMAIN cache
  BY DEF Denoted, Candidates
<1> HIDE DEF D
<1>4. OnlyDepends(cache, cache', Current, D)
  BY <1>1, <1>2, <1>3, DependsAdded
<1>5. NoNewAnalysis(cache, cache', abandoned)
  BY <1>4 DEF OnlyDepends, NoNewAnalysis
<1>6. \A i \in 1 .. Len(stack') : stack'[i].batch \notin abandoned
  BY FindInCacheNames, CallsNotLeft
<1> QED
  BY <1>1, <1>2, <1>5, <1>6, LeftKept

LEMMA FinishLoadLeft ==
  ASSUME IInv, LeftInv, FinishLoad
  PROVE  LeftInv'
PROOF
<1>1. UNCHANGED <<parses, abandoned>>
  BY DEF FinishLoad
<1>2. parses \in Nat
  BY DEF IInv, TreeInv
<1>3. NoNewAnalysis(cache, cache', abandoned)
  <2> DEFINE D == Denoted(Loaded)
             x == Caller
  <2>1. cache' = [cache EXCEPT ![x].depends = @ \cup D]
    BY DEF FinishLoad
  <2> HIDE DEF D, x
  <2>2. DOMAIN cache' = DOMAIN cache
    BY <2>1
  <2>3. ASSUME NEW s \in DOMAIN cache PROVE cache'[s].state = cache[s].state
    <3>1. CASE s = x
      <4>1. cache'[s] = [cache[s] EXCEPT !.depends = @ \cup D]
        BY <2>1, <3>1
      <4>2. cache[s] \in CachedUnits
        BY DEF IInv, TreeInv, CacheOf
      <4> QED
        BY <4>1, <4>2 DEF CachedUnits
    <3>2. CASE s # x
      BY <2>1, <3>2
    <3> QED
      BY <3>1, <3>2
  <2> QED
    BY <2>2, <2>3 DEF NoNewAnalysis
<1>4. \A i \in 1 .. Len(stack') : stack'[i].batch \notin abandoned
  BY FinishLoadNames, CallsNotLeft
<1> QED
  BY <1>1, <1>2, <1>3, <1>4, LeftKept

LEMMA StartLoadLeft ==
  ASSUME IInv, LeftInv, StartLoad
  PROVE  LeftInv'
PROOF
<1> DEFINE g == FileToLoad
           call == Frame(g, RowNamed(Wanted))
<1>1. /\ disk[g] # NoFile
      /\ cache' = Parsed(g, cache)
      /\ stack' = Append(stack, call)
      /\ parses' = parses + 1
      /\ UNCHANGED abandoned
  BY DEF StartLoad
<1>2. g \in Files /\ RowNamed(Wanted) \in Rows
  BY LoadsAnotherFile
<1>3. WorldTyped /\ parses \in Nat /\ CacheOf(cache, parses) /\ stack \in Seq(Frames)
  BY DEF IInv, TreeInv, CallsInv
<1>4. call \in Frames
  BY <1>1, <1>2, <1>3, FrameBegins
<1>5. call.batch = parses + 1
  BY DEF Frame
<1> HIDE DEF g, call
<1>6. parses + 1 \notin abandoned /\ NoNewAnalysis(cache, cache', abandoned)
  BY <1>1, <1>2, <1>3, ParsedLeft
<1>7. /\ Len(stack') = Len(stack) + 1 /\ Len(stack) \in Nat
      /\ \A i \in 1 .. Len(stack) : stack'[i] = stack[i]
      /\ stack'[Len(stack) + 1] = call
  BY <1>1, <1>3, <1>4, AppendProperties, LenProperties
<1>8. ASSUME NEW i \in 1 .. Len(stack') PROVE stack'[i].batch \notin abandoned
  <2>1. i \in 1 .. Len(stack) \/ i = Len(stack) + 1
    BY <1>7
  <2>2. CASE i \in 1 .. Len(stack)
    BY <1>7, <2>2 DEF LeftInv
  <2>3. CASE i = Len(stack) + 1
    BY <1>5, <1>6, <1>7, <2>3
  <2> QED
    BY <2>1, <2>2, <2>3
<1> QED
  BY <1>1, <1>3, <1>6, <1>8, LeftKept

LEMMA ReadsLeft ==
  ASSUME IInv, LeftInv, Idle, NEW units, Reads(units), CacheOf(units, parses),
         NoNewAnalysis(cache, units, abandoned)
  PROVE  LeftInv'
PROOF
<1>1. WorldTyped /\ parses \in Nat /\ Main \in Files /\ stack = <<>> /\ abandoned' = abandoned
  BY AstAssumption DEF IInv, TreeInv, Idle, Reads
<1>2. CASE Unreadable(units) \/ ParserThrows(units)
  <2>1. cache' = units /\ stack' = stack /\ parses' = parses
    BY <1>2 DEF Unreadable, ParserThrows
  <2>2. \A i \in 1 .. Len(stack') : stack'[i].batch \notin abandoned
    BY <2>1 DEF LeftInv
  <2> QED
    BY <1>1, <2>1, <2>2, LeftKept
<1>3. CASE Parses(units)
  <2> DEFINE call == Frame(Main, NoRow)
  <2>1. /\ disk[Main] # NoFile /\ cache' = Parsed(Main, units)
        /\ stack' = <<call>> /\ parses' = parses + 1
    BY <1>3 DEF Parses, NoRow
  <2>2. call.batch = parses + 1
    BY DEF Frame
  <2> HIDE DEF call
  <2>3. parses + 1 \notin abandoned /\ NoNewAnalysis(units, cache', abandoned)
    BY <1>1, <2>1, ParsedLeft
  <2>4. NoNewAnalysis(cache, cache', abandoned)
    BY <2>3 DEF NoNewAnalysis
  <2>5. \A i \in 1 .. Len(stack') : stack'[i].batch \notin abandoned
    BY <2>1, <2>2, <2>3
  <2> QED
    BY <1>1, <2>1, <2>4, <2>5, LeftKept
<1> QED
  BY <1>2, <1>3 DEF Reads

LEMMA UpdateTaskLeft ==
  ASSUME IInv, LeftInv, NEW reported \in SUBSET unreported, UpdateTask(reported)
  PROVE  LeftInv'
PROOF
<1> DEFINE told == reported \ {Main}
           units == Outdated(told)
<1>1. Idle /\ Reads(units)
  BY DEF UpdateTask
<1>2. DOMAIN units = DOMAIN cache /\ CacheOf(cache, parses)
  BY DEF Outdated, IInv, TreeInv
<1>3. ASSUME NEW s \in DOMAIN cache
      PROVE  /\ units[s] \in CachedUnits
             /\ units[s].file = cache[s].file
             /\ units[s].unit = cache[s].unit
             /\ units[s].depends = cache[s].depends
             /\ units[s].state \in {"outdated", cache[s].state}
  <2>1. units[s] = Outdates(cache[s], told)
    BY DEF Outdated
  <2>2. cache[s] \in CachedUnits /\ "outdated" \in States
    BY <1>2 DEF CacheOf, States
  <2> HIDE DEF units, told
  <2>3. \/ units[s] = [cache[s] EXCEPT !.state = "outdated"]
        \/ units[s] = cache[s]
    BY <2>1 DEF Outdates
  <2> QED
    BY <2>2, <2>3 DEF CachedUnits
<1> HIDE DEF units
<1>4. CacheOf(units, parses)
  BY <1>2, <1>3 DEF CacheOf
<1>5. NoNewAnalysis(cache, units, abandoned)
  BY <1>2, <1>3 DEF NoNewAnalysis
<1> QED
  BY <1>1, <1>4, <1>5, ReadsLeft

(* The calls an exception ends are each at a unit of their own.            *)
LEMMA ThrowsLeft ==
  ASSUME IInv, LeftInv, Throws
  PROVE  LeftInv'
PROOF
<1>1. /\ stack' = <<>>
      /\ abandoned' = abandoned \cup {stack[i].batch : i \in DOMAIN stack}
      /\ UNCHANGED <<cache, parses>>
  BY DEF Throws
<1>2. /\ CacheOf(cache, parses) /\ CallsInv(cache, stack, parses) /\ parses \in Nat
  BY DEF IInv, TreeInv
<1>3. stack \in Seq(Frames) /\ DOMAIN stack = 1 .. Len(stack)
  BY <1>2, LenProperties DEF CallsInv
<1>4. ASSUME NEW i \in 1 .. Len(stack)
      PROVE  /\ stack[i].batch \in 1 .. parses
             /\ \A s, t \in DOMAIN cache :
                  /\ s[1] = stack[i].batch /\ t[1] = s[1]
                  /\ cache[s].state = "analysing" /\ cache[t].state = "analysing"
                  => s = t
  <2> DEFINE call == stack[i]
  <2>1. call \in Frames
    BY <1>3, ElementOfSeq
  <2>2. call.batch <= parses /\ Holds(cache, call)
    BY <1>2 DEF CallsInv
  <2> HIDE DEF call
  <2>3. call.batch \in 1 .. parses
    BY <1>2, <2>1, <2>2 DEF Frames
  <2>4. ASSUME NEW s \in DOMAIN cache, s[1] = call.batch, cache[s].state = "analysing"
        PROVE  s = <<call.batch, call.at>>
    <3>1. s = <<call.batch, s[2]>>
      BY <1>2, <2>4 DEF CacheOf, Addresses
    <3>2. s[2] \in 1 .. call.size
      BY <2>2, <2>4 DEF Holds
    <3>3. cache[<<call.batch, s[2]>>].state = "analysing"
      BY <2>4, <3>1
    <3> DEFINE k == s[2]
    <3> HIDE DEF k
    <3>4. ~ (k < call.at) /\ ~ (k > call.at)
      BY <2>2, <3>2, <3>3 DEF Holds, k
    <3>5. k = call.at
      BY <2>1, <3>2, <3>4 DEF Frames, k
    <3> QED
      BY <3>1, <3>5 DEF k
  <2> QED
    BY <2>3, <2>4 DEF call
<1>5. abandoned' \subseteq 1 .. parses
  BY <1>1, <1>3, <1>4 DEF LeftInv
<1>6. OneInAnalysis(cache, abandoned')
  BY <1>1, <1>3, <1>4 DEF LeftInv, OneInAnalysis
<1>7. 1 .. Len(stack') = {}
  BY <1>1, EmptySeq
<1> QED
  BY <1>1, <1>5, <1>6, <1>7 DEF LeftInv

LEMMA LeftStep ==
  ASSUME IInv, LeftInv, [Next]_vars
  PROVE  LeftInv'
PROOF
<1>1. ASSUME UNCHANGED <<cache, parses, abandoned>>, CallsAmong(stack, stack') PROVE LeftInv'
  <2>1. parses \in Nat /\ NoNewAnalysis(cache, cache', abandoned)
    BY <1>1 DEF IInv, TreeInv, NoNewAnalysis
  <2>2. parses' \in Nat /\ parses <= parses'
    BY <1>1, <2>1
  <2> QED
    BY <1>1, <2>1, <2>2, CallsNotLeft, LeftKept
<1>2. ASSUME UNCHANGED tree PROVE LeftInv'
  BY <1>2 DEF tree, LeftInv
<1>3. ASSUME NEW f \in Files, NEW content \in Contents[f], Save(f, content) PROVE LeftInv'
  BY <1>2, <1>3 DEF Save
<1>4. ASSUME NEW f \in Files, Index(f) PROVE LeftInv'
  BY <1>2, <1>4 DEF Index
<1>5. CASE PutNext
  BY <1>2, <1>5 DEF PutNext
<1>6. ASSUME NEW reported \in SUBSET unreported, UpdateTask(reported) PROVE LeftInv'
  BY <1>6, UpdateTaskLeft
<1>7. CASE RequestTask
  <2>1. Idle /\ Reads(cache)
    BY <1>7 DEF RequestTask
  <2>2. CacheOf(cache, parses) /\ NoNewAnalysis(cache, cache, abandoned)
    BY DEF IInv, TreeInv, NoNewAnalysis
  <2> QED
    BY <2>1, <2>2, ReadsLeft
<1>8. CASE Analyse
  BY <1>8, AnalyseLeft
<1>9. CASE FindInCache
  BY <1>9, FindInCacheLeft
<1>10. CASE FindNothing \/ PutUnit
  <2>1. /\ stack' = WithNextNeed(stack)
        /\ UNCHANGED <<cache, parses, abandoned>>
    BY <1>10 DEF FindNothing, PutUnit
  <2>2. stack # <<>> /\ stack \in Seq(Frames)
    <3>1. stack # <<>>
      BY <1>10, EmptySeq DEF FindNothing, LooksUp, HasUnit, Idle, PutUnit, Analysed
    <3> QED
      BY <3>1 DEF IInv, TreeInv, CallsInv
  <2>3. CallsAmong(stack, stack')
    BY <2>1, <2>2, NextNeedNames
  <2> QED
    BY <1>1, <2>1, <2>3
<1>11. CASE StartLoad
  BY <1>11, StartLoadLeft
<1>12. CASE FinishUnit
  BY <1>12, FinishUnitLeft
<1>13. CASE FinishLoad
  BY <1>13, FinishLoadLeft
<1>14. CASE FinishUpdate
  <2>1. stack' = <<>> /\ UNCHANGED <<cache, parses, abandoned>>
    BY <1>14 DEF FinishUpdate
  <2>2. CallsAmong(stack, stack')
    BY <2>1, EmptySeq DEF CallsAmong
  <2> QED
    BY <1>1, <2>1, <2>2
<1>15. CASE Throws
  BY <1>15, ThrowsLeft
<1>16. CASE UNCHANGED vars
  BY <1>2, <1>16 DEF vars
<1> QED
  BY <1>3, <1>4, <1>5, <1>6, <1>7, <1>8, <1>9, <1>10, <1>11, <1>12, <1>13, <1>14,
     <1>15, <1>16 DEF Next, FileWork

(* No call in progress belongs to a parse that an exception has ended, and *)
(* such a parse has one unit in analysis at most (ast.cpp, update).        *)
THEOREM AbandonedOnce == Spec => []LeftInv
PROOF
<1>1. Init => LeftInv
  <2> SUFFICES ASSUME Init PROVE LeftInv
    OBVIOUS
  <2>1. DOMAIN cache = {} /\ abandoned = {} /\ 1 .. Len(stack) = {}
    BY EmptySeq DEF Init
  <2> QED
    BY <2>1 DEF LeftInv, OneInAnalysis
<1>2. IInv /\ LeftInv /\ [Next]_vars => LeftInv'
  BY LeftStep
<1> QED
  BY <1>1, <1>2, AstInvariant, PTL DEF Spec

(* The fields of the ast, of the cache and of the library's table keep     *)
(* their ranges (ast.h).                                                   *)
THEOREM TypesOfTheAst == Spec => []TypeOK
PROOF
<1>1. IInv /\ LeftInv => TypeOK
  <2> SUFFICES ASSUME IInv, LeftInv PROVE TypeOK
    OBVIOUS
  <2> USE DEF IInv
  <2>1. /\ \A f \in Files : disk[f] \in Contents[f]
        /\ saves \in [Files -> Nat]
        /\ unreported \subseteq Files
        /\ known \in BOOLEAN
        /\ indexed \in 0 .. MaxIndexed
    BY DEF WorldTyped
  <2>2. rows \in Seq(Rows) /\ indexing \in Seq(Rows)
    BY DEF RowsInv
  <2>3. \A s \in DOMAIN cache :
          /\ s[1] \in 1 .. parses
          /\ cache[s].file \in Files
          /\ cache[s].unit \in UnitsOf(cache[s].file)
          /\ cache[s].state \in States
          /\ cache[s].depends \subseteq DOMAIN cache
    BY DEF TreeInv, CacheOf, CachedUnits
  <2>4. invalidated_ \in BOOLEAN /\ main_file \in 0 .. parses /\ updates \in 0 .. MaxUpdates
    BY DEF TreeInv
  <2>5. \A i \in DOMAIN stack : stack[i].batch \in 1 .. parses
    <3>1. stack \in Seq(Frames) /\ DOMAIN stack = 1 .. Len(stack) /\ parses \in Nat
      BY LenProperties DEF TreeInv, CallsInv
    <3>2. \A i \in 1 .. Len(stack) : stack[i].batch \in Nat \ {0}
      <4>1. \A i \in 1 .. Len(stack) : stack[i] \in Frames
        BY <3>1, ElementOfSeq
      <4> QED
        BY <4>1 DEF Frames
    <3>3. \A i \in 1 .. Len(stack) : stack[i].batch <= parses
      BY DEF TreeInv, CallsInv
    <3> QED
      BY <3>1, <3>2, <3>3
  <2> QED
    BY <2>1, <2>2, <2>3, <2>4, <2>5 DEF TypeOK, LeftInv
<1> QED
  BY <1>1, AstInvariant, AbandonedOnce, PTL

(* Only an exception leaves a unit parsed or in analysis between two tasks,*)
(* one of a parse at most; one in analysis is else the one its call is at  *)
(* (ast.cpp, update and load_primary_unit).                                *)
THEOREM UpdatesFinishTheirUnits == Spec => []NothingHalfAnalysed
PROOF
<1>1. IInv /\ LeftInv => NothingHalfAnalysed
  <2> SUFFICES ASSUME IInv, LeftInv PROVE NothingHalfAnalysed
    OBVIOUS
  <2>1. /\ CacheOf(cache, parses) /\ CallsInv(cache, stack, parses)
        /\ UnfinishedIn(cache, stack, abandoned)
    BY DEF IInv, TreeInv
  <2>2. stack \in Seq(Frames) /\ DOMAIN stack = 1 .. Len(stack) /\ Len(stack) \in Nat
    BY <2>1, LenProperties DEF CallsInv
  <2>3. ASSUME Idle, NEW s \in DOMAIN cache, s[1] \notin abandoned
        PROVE  cache[s].state \in {"outdated", "analysed"}
    <3>1. cache[s].state \in States
      BY <2>1 DEF CacheOf, CachedUnits
    <3>2. Len(stack) = 0
      BY <2>3, EmptySeq DEF Idle
    <3>3. cache[s].state \notin {"parsed", "analysing"}
      BY <2>1, <2>3, <3>2 DEF UnfinishedIn
    <3> QED
      BY <3>1, <3>3 DEF States
  <2>4. ASSUME NEW s \in DOMAIN cache, cache[s].state = "analysing", s[1] \notin abandoned
        PROVE  \E i \in DOMAIN stack : s = <<stack[i].batch, stack[i].at>>
    <3>1. PICK i \in 1 .. Len(stack) : s[1] = stack[i].batch
      BY <2>1, <2>4 DEF UnfinishedIn
    <3> DEFINE call == stack[i]
    <3>2. Holds(cache, call)
      BY <2>1 DEF CallsInv
    <3>3. call \in Frames
      BY <2>2, ElementOfSeq
    <3>4. s = <<call.batch, s[2]>>
      BY <2>1, <3>1 DEF CacheOf, Addresses
    <3>5. s[2] \in 1 .. call.size
      BY <3>1, <3>2 DEF Holds
    <3>6. cache[<<call.batch, s[2]>>].state = "analysing"
      BY <2>4, <3>4
    <3> DEFINE k == s[2]
    <3> HIDE DEF call, k
    <3>7. ~ (k < call.at) /\ ~ (k > call.at)
      BY <3>2, <3>5, <3>6 DEF Holds, k
    <3>8. k = call.at
      BY <3>3, <3>5, <3>7 DEF Frames, k
    <3> QED
      BY <2>2, <3>4, <3>8 DEF call, k
  <2>5. ASSUME NEW s \in DOMAIN cache, cache[s].state = "analysing", s[1] \in abandoned
        PROVE  \A t \in DOMAIN cache : t[1] = s[1] /\ cache[t].state = "analysing" => t = s
    BY <2>5 DEF LeftInv, OneInAnalysis
  <2> QED
    BY <2>3, <2>4, <2>5 DEF NothingHalfAnalysed
<1> QED
  BY <1>1, AstInvariant, AbandonedOnce, PTL
================================================================================
