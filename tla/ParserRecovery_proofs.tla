------------------------ MODULE ParserRecovery_proofs ------------------------
(***************************************************************************)
(* Proofs about how Parser recovers from errors: for any files of the      *)
(* kinds in Kinds, however deep their constructs and however many their    *)
(* errors, it gives a file up only at the places that GivesUpOnlyWhenStuck *)
(* names, if it has patience for seven looks at one token.                 *)
(***************************************************************************)
EXTENDS Parser_proofs

--------------------------------------------------------------------------------
(* How long the parser looks at one token.  Where it is not stuck, a call  *)
(* begins with a count of at most Cap and ends with one of at most Left,   *)
(* whatever the tokens are.  Nothing can follow the list of design units:  *)
(* no call may begin with what it leaves.                                  *)

UnitsState == "design_unit_in_design_file"

Cap(t) ==
  CASE t.do \in {"scan", "file", "library_names", "unit_name", "subtype", "expression",
                 "range", "suffix", "attribute", "generate", "generate_body"} -> 0
    [] t.do \in {"many", "library_end", "call_end", "range_end", "drop_checkpoint"} -> 1
    [] t.do = "in_many" -> IF t.state = UnitsState THEN 3 ELSE 1
    [] t.do = "statement" -> IF t.labelled THEN 0 ELSE 2
    [] t.do = "optional" -> IF t.token = "is" /\ t.then = <<>> THEN 0 ELSE 2
    [] t.do \in {"closing_label", "inst_label", "resync", "declaration",
                 "entity_statement", "concurrent", "sequential"} -> 2
    [] t.do \in {"name", "package_end", "unit_end"} -> 3
    [] t.do \in {"entity_named", "constraint", "context_clause"} -> 4
    [] t.do = "design_unit" -> 5
    [] OTHER -> 6

Left(t) ==
  CASE t.do \in {"scan", "consume", "unit_name", "call_end", "attribute",
                 "declaration"} -> 0
    [] t.do \in {"library_names", "expression", "suffix", "drop_checkpoint",
                 "statement", "entity_statement", "concurrent", "sequential"} -> 1
    [] t.do = "optional" -> IF t.token = "is" /\ t.then = <<>> THEN 0 ELSE 2
    [] t.do \in {"many", "in_many"} -> IF t.state = UnitsState THEN 7 ELSE 2
    [] t.do \in {"library_end", "resync", "inst_label", "generate", "generate_body"} -> 2
    [] t.do \in {"closing_label", "package_end", "unit_end", "design_unit"} -> 3
    [] t.do \in {"name", "entity_named", "range", "range_end"} -> 4
    [] t.do = "file" -> 7
    [] OTHER -> 5

LEMMA CapsAreSmall == \A t : Cap(t) \in 0 .. 6 /\ Left(t) \in 0 .. 7
PROOF
BY DEF Cap, Left

(* A name that is there is scanned, so it leaves no more than its suffix.  *)
LeftBy(t, token) == IF t.do = "name" /\ token = "identifier" THEN 1 ELSE Left(t)

LEMMA LeftByIsLess ==
  ASSUME NEW t, NEW token
  PROVE  /\ LeftBy(t, token) \in 0 .. 7
         /\ LeftBy(t, token) <= Left(t)
         /\ t.do # "name" => LeftBy(t, token) = Left(t)
PROOF
<1>1. t.do = "name" => Left(t) = 4
  BY DEF Left
<1> QED
  BY <1>1, CapsAreSmall DEF LeftBy

(* Each of the calls to do may begin with what the one before it leaves.   *)
Joined(calls, token) ==
  /\ Len(calls) > 1 => LeftBy(calls[1], token) <= Cap(calls[2])
  /\ \A i \in 2 .. Len(calls) - 1 : Left(calls[i]) <= Cap(calls[i + 1])

(* Elements are begun by their list, and a statement without a label by    *)
(* the element.                                                            *)
Elements == {"declaration", "entity_statement", "concurrent", "sequential"}

Bare(t) == t.do = "statement" /\ ~ t.labelled

Inner(t) == t.do \notin Elements /\ ~ Bare(t)

(* What is to be done after the first of the calls, and around a unit.     *)
Ordered(calls) ==
  /\ \A i \in 2 .. Len(calls) :
       /\ Inner(calls[i])
       /\ calls[i].do = "design_unit" => calls[i - 1].do = "context_clause"
  /\ \A i \in 1 .. Len(calls) :
       calls[i].do = "design_unit" =>
         /\ i < Len(calls)
         /\ calls[i + 1].do = "in_many"
         /\ calls[i + 1].state = UnitsState

IsElementOf(t, state) ==
  \/ t.do = "declaration" /\ state \in DeclarativeParts
  \/ t.do = "entity_statement" /\ state = "entity_statement_part"
  \/ t.do = "concurrent" /\ state = "concurrent_statements"
  \/ t.do = "sequential" /\ state = "sequential_statements"

(* The token that is current when an element, a statement without a label  *)
(* or a design unit begins.                                                *)
Begun ==
  todo # <<>> =>
    /\ todo[1].do \in Elements =>
         /\ Len(todo) > 1
         /\ todo[2].do = "in_many"
         /\ IsElementOf(todo[1], todo[2].state)
         /\ BeginsElement(Current, todo[2].state)
    /\ Bare(todo[1]) => BeginsElement(Current, "sequential_statements")
    /\ todo[1].do = "design_unit" => Current \in UnitKeywords \cup {"eof"}

(* An element of the state that is begun and not taken.                    *)
StuckIn(state) ==
  \/ state \in DeclarativeParts /\ Current \in {"package", "group"}
  \/ /\ state \in {"entity_statement_part", "concurrent_statements"}
     /\ Matches(current_token, <<"identifier", "colon">>)
     /\ ~ BeginsElement(Kind(current_token + 2), state)
  \/ /\ state = "concurrent_statements"
     /\ Current = "if" /\ Kind(current_token + 2) # "if"

Stuck ==
  \/ todo[1].do = "in_many" /\ StuckIn(todo[1].state)
  \/ todo[1].do \in Elements /\ StuckIn(todo[2].state)

(* A context clause at the end of the file is followed by no unit.         *)
AtTheEnd ==
  /\ todo[1].do = "in_many"
  /\ todo[1].state = UnitsState
  /\ Current = "eof"
  /\ count <= 6

Bounded == todo # <<>> => count <= Cap(todo[1]) \/ Stuck \/ AtTheEnd

Running == Joined(todo, Current) /\ Ordered(todo) /\ Begun /\ Bounded

RecoveryInv == (Parsing => Running) /\ GivesUpOnlyWhenStuck

--------------------------------------------------------------------------------
(* What may take the place of a call: it begins with a count of c, leaves  *)
(* at most n, and has no elements and no design units in it.               *)

PlainCalls == {t \in Tasks : Inner(t) /\ t.do # "design_unit"}

Serves(script, c, n) ==
  /\ script \in Seq(PlainCalls)
  /\ IF script = <<>>
       THEN c <= n
       ELSE /\ c <= Cap(script[1])
            /\ Left(script[Len(script)]) <= n
            /\ \A i \in 1 .. Len(script) - 1 : Left(script[i]) <= Cap(script[i + 1])

LEMMA ServesConcat ==
  ASSUME NEW c \in Nat, NEW k \in Nat, NEW n \in Nat, NEW s, NEW t,
         Serves(s, c, k), Serves(t, k, n)
  PROVE  Serves(s \o t, c, n)
PROOF
<1>1. s \in Seq(PlainCalls) /\ t \in Seq(PlainCalls)
  BY DEF Serves
<1>2. CASE s = <<>>
  <2>1. s \o t = t
    BY <1>1, <1>2, ConcatEmptySeq
  <2>2. c <= k
    BY <1>2 DEF Serves
  <2>3. t = <<>> => k <= n
    BY DEF Serves
  <2>4. t # <<>> => k <= Cap(t[1]) /\ Cap(t[1]) \in 0 .. 6
    BY CapsAreSmall DEF Serves
  <2>5. t = <<>> => c <= n
    BY <2>2, <2>3
  <2>6. t # <<>> => c <= Cap(t[1])
    BY <2>2, <2>4
  <2> QED
    BY <2>1, <2>5, <2>6 DEF Serves
<1>3. CASE t = <<>> /\ s # <<>>
  <2>1. s \o t = s
    BY <1>1, <1>3, ConcatEmptySeq
  <2>2. k <= n
    BY <1>3 DEF Serves
  <2>3. Left(s[Len(s)]) <= k /\ Left(s[Len(s)]) \in 0 .. 7
    BY <1>3, CapsAreSmall DEF Serves
  <2>4. Left(s[Len(s)]) <= n
    BY <2>2, <2>3
  <2> QED
    BY <1>3, <2>1, <2>4 DEF Serves
<1>4. CASE s # <<>> /\ t # <<>>
  <2> DEFINE q == s \o t
             a == Len(s)
             b == Len(t)
  <2>1. a \in Nat \ {0} /\ b \in Nat \ {0}
    BY <1>1, <1>4, EmptySeq
  <2>2. /\ q \in Seq(PlainCalls) /\ Len(q) = a + b
        /\ \A i \in 1 .. a + b : q[i] = IF i <= a THEN s[i] ELSE t[i - a]
    BY <1>1, ConcatProperties
  <2>3. /\ c <= Cap(s[1])
        /\ Left(s[a]) <= k
        /\ \A i \in 1 .. a - 1 : Left(s[i]) <= Cap(s[i + 1])
    BY <1>4 DEF Serves
  <2>4. /\ k <= Cap(t[1])
        /\ Left(t[b]) <= n
        /\ \A i \in 1 .. b - 1 : Left(t[i]) <= Cap(t[i + 1])
    BY <1>4 DEF Serves
  <2> HIDE DEF q, a, b
  <2>5. q # <<>>
    BY <2>1, <2>2, EmptySeq
  <2>6. \A i \in 1 .. a : i \in 1 .. a + b /\ q[i] = s[i]
    BY <2>1, <2>2
  <2>7. \A i \in 1 .. b : a + i \in 1 .. a + b /\ q[a + i] = t[i]
    <3> TAKE i \in 1 .. b
    <3> DEFINE j == a + i
    <3>1. j \in 1 .. a + b /\ ~ (j <= a) /\ j - a = i
      BY <2>1
    <3> HIDE DEF j
    <3>2. q[j] = t[i]
      BY <2>2, <3>1
    <3> QED
      BY <3>1, <3>2 DEF j
  <2>8. c <= Cap(q[1])
    BY <2>1, <2>3, <2>6
  <2>9. Left(q[Len(q)]) <= n
    BY <2>1, <2>2, <2>4, <2>7
  <2>10. ASSUME NEW i \in 1 .. Len(q) - 1 PROVE Left(q[i]) <= Cap(q[i + 1])
    <3>1. CASE i < a
      <4>1. i \in 1 .. a - 1 /\ i \in 1 .. a /\ i + 1 \in 1 .. a
        BY <2>1, <2>2, <3>1
      <4> QED
        BY <2>3, <2>6, <4>1
    <3>2. CASE i = a
      <4>1. q[i] = s[a] /\ q[i + 1] = t[1]
        BY <2>1, <2>6, <2>7, <3>2
      <4>2. Left(s[a]) \in 0 .. 7 /\ Cap(t[1]) \in 0 .. 6
        BY CapsAreSmall
      <4> QED
        BY <2>3, <2>4, <4>1, <4>2
    <3>3. CASE i > a
      <4> DEFINE j == i - a
      <4>1. j \in 1 .. b - 1 /\ j \in 1 .. b /\ j + 1 \in 1 .. b /\ a + j = i /\ a + (j + 1) = i + 1
        BY <2>1, <2>2, <3>3
      <4> HIDE DEF j
      <4>2. q[i] = t[j] /\ q[i + 1] = t[j + 1]
        BY <2>7, <4>1
      <4> QED
        BY <2>4, <4>1, <4>2
    <3> QED
      BY <2>1, <2>2, <3>1, <3>2, <3>3
  <2>11. Serves(q, c, n)
    BY <2>2, <2>5, <2>8, <2>9, <2>10 DEF Serves
  <2> QED
    BY <2>11 DEF q
<1> QED
  BY <1>2, <1>3, <1>4

LEMMA ServesNothing ==
  ASSUME NEW c, NEW n, c <= n
  PROVE  Serves(<<>>, c, n)
PROOF
<1>1. <<>> \in Seq(PlainCalls)
  BY EmptySeq
<1> QED
  BY <1>1 DEF Serves

LEMMA ServesOne ==
  ASSUME NEW t \in PlainCalls, NEW c, NEW n, c <= Cap(t), Left(t) <= n
  PROVE  Serves(<<t>>, c, n)
PROOF
<1>1. /\ <<t>> \in Seq(PlainCalls) /\ <<t>> # <<>>
      /\ Len(<<t>>) = 1 /\ <<t>>[1] = t
  OBVIOUS
<1> QED
  BY <1>1 DEF Serves

LEMMA ServesTwo ==
  ASSUME NEW t \in PlainCalls, NEW u \in PlainCalls, NEW c, NEW n,
         c <= Cap(t), Left(t) <= Cap(u), Left(u) <= n
  PROVE  Serves(<<t, u>>, c, n)
PROOF
<1>1. /\ <<t, u>> \in Seq(PlainCalls) /\ <<t, u>> # <<>>
      /\ Len(<<t, u>>) = 2 /\ <<t, u>>[1] = t /\ <<t, u>>[2] = u
  OBVIOUS
<1> QED
  BY <1>1 DEF Serves

(* What a longer script serves, one call at a time.                        *)
LEMMA ServesMore ==
  ASSUME NEW c \in Nat, NEW k \in Nat, NEW n \in Nat,
         NEW s, Serves(s, c, k), NEW t \in PlainCalls, k <= Cap(t), Left(t) <= n
  PROVE  Serves(Append(s, t), c, n)
PROOF
<1>1. Serves(<<t>>, k, n)
  BY ServesOne
<1>2. Append(s, t) = s \o <<t>>
  BY AppendIsConcat DEF Serves
<1> QED
  BY <1>1, <1>2, ServesConcat

Plain == Simple \ (Elements \cup {"design_unit"})

LEMMA PlainOnes ==
  /\ \A x \in Plain : Do(x) \in PlainCalls
  /\ \A k \in Kinds : Consume(k) \in PlainCalls
  /\ \A k \in Kinds, s \in Thens : Optional(k, s) \in PlainCalls
  /\ \A k \in UnitKeywords : Named(k) \in PlainCalls
  /\ \A s \in States, p \in Parts : Many(s, p) \in PlainCalls
  /\ Statement(TRUE) \in PlainCalls
PROOF
<1>1. \A x \in Plain : Do(x) \in PlainCalls
  BY EachIsACall DEF Plain, Simple, Do, PlainCalls, Inner, Bare, Elements, Tasks
<1>2. \A k \in Kinds : Consume(k) \in PlainCalls
  BY EachIsACall DEF Consume, PlainCalls, Inner, Bare, Elements, Tasks
<1>3. \A k \in Kinds, s \in Thens : Optional(k, s) \in PlainCalls
  BY EachIsACall DEF Optional, PlainCalls, Inner, Bare, Elements, Tasks
<1>4. \A k \in UnitKeywords : Named(k) \in PlainCalls
  BY EachIsACall DEF Named, PlainCalls, Inner, Bare, Elements, Tasks
<1>5. \A s \in States, p \in Parts : Many(s, p) \in PlainCalls
  BY EachIsACall DEF Many, PlainCalls, Inner, Bare, Elements, Tasks
<1>6. Statement(TRUE) \in PlainCalls
  BY EachIsACall DEF Statement, PlainCalls, Inner, Bare, Elements, Tasks
<1> QED
  BY <1>1, <1>2, <1>3, <1>4, <1>5, <1>6

LEMMA CapsOfCalls ==
  /\ \A k : Cap(Consume(k)) = 6 /\ Left(Consume(k)) = 0
  /\ \A k, s : /\ Cap(Optional(k, s)) = IF k = "is" /\ s = <<>> THEN 0 ELSE 2
               /\ Left(Optional(k, s)) = IF k = "is" /\ s = <<>> THEN 0 ELSE 2
  /\ \A k : Cap(Named(k)) = 0 /\ Left(Named(k)) = 0
  /\ \A s, p : /\ Cap(Many(s, p)) = 1
               /\ Left(Many(s, p)) = IF s = UnitsState THEN 7 ELSE 2
  /\ Cap(Statement(TRUE)) = 0 /\ Left(Statement(TRUE)) = 1
PROOF
BY DEF Cap, Left, Consume, Optional, Named, Many, Statement

LEMMA CapsOfSimple ==
  /\ Cap(Do("library_names")) = 0  /\ Left(Do("library_names")) = 1
  /\ Cap(Do("library_end")) = 1    /\ Left(Do("library_end")) = 2
  /\ Cap(Do("resync")) = 2         /\ Left(Do("resync")) = 2
  /\ Cap(Do("context_clause")) = 4 /\ Left(Do("context_clause")) = 5
  /\ Cap(Do("closing_label")) = 2  /\ Left(Do("closing_label")) = 3
  /\ Cap(Do("package_end")) = 3    /\ Left(Do("package_end")) = 3
  /\ Cap(Do("unit_end")) = 3       /\ Left(Do("unit_end")) = 3
  /\ Cap(Do("name")) = 3           /\ Left(Do("name")) = 4
  /\ Cap(Do("entity_named")) = 4   /\ Left(Do("entity_named")) = 4
  /\ Cap(Do("subtype")) = 0        /\ Left(Do("subtype")) = 5
  /\ Cap(Do("constraint")) = 4     /\ Left(Do("constraint")) = 5
  /\ Cap(Do("suffix")) = 0         /\ Left(Do("suffix")) = 1
  /\ Cap(Do("attribute")) = 0      /\ Left(Do("attribute")) = 0
  /\ Cap(Do("range")) = 0          /\ Left(Do("range")) = 4
  /\ Cap(Do("generate")) = 0       /\ Left(Do("generate")) = 2
  /\ Cap(Do("generate_body")) = 0  /\ Left(Do("generate_body")) = 2
  /\ Cap(Do("drop_checkpoint")) = 1 /\ Left(Do("drop_checkpoint")) = 1
  /\ Cap(Do("expression")) = 0     /\ Left(Do("expression")) = 1
  /\ Cap(Do("range_end")) = 1      /\ Left(Do("range_end")) = 4
  /\ Cap(Do("call_end")) = 1       /\ Left(Do("call_end")) = 0
  /\ Cap(Do("inst_label")) = 2     /\ Left(Do("inst_label")) = 2
PROOF
BY DEF Cap, Left, Do

LEMMA UnitScripts ==
  /\ Serves(Entity, 6, 3)
  /\ Serves(Architecture, 6, 3)
  /\ Serves(Package, 6, 3)
PROOF
<1> USE CapsOfCalls, CapsOfSimple
<1>1. /\ \A x \in Plain : Do(x) \in PlainCalls
      /\ \A k \in Kinds : Consume(k) \in PlainCalls
      /\ \A k \in Kinds : Optional(k, <<>>) \in PlainCalls
      /\ Optional("begin", <<Many("entity_statement_part", "none")>>) \in PlainCalls
      /\ \A k \in UnitKeywords : Named(k) \in PlainCalls
      /\ \A s \in States, p \in Parts : Many(s, p) \in PlainCalls
  BY PlainOnes DEF Thens, Kinds
<1>2. Serves(Entity, 6, 3)
  BY <1>1 DEF Serves, Entity, Plain, Simple, Elements, Kinds, UnitKeywords, States,
     DeclarativeParts, Parts, UnitsState
<1>3. Serves(Architecture, 6, 3)
  BY <1>1 DEF Serves, Architecture, Plain, Simple, Elements, Kinds, UnitKeywords, States,
     DeclarativeParts, Parts, UnitsState
<1>4. Serves(Package, 6, 3)
  BY <1>1 DEF Serves, Package, Plain, Simple, Elements, Kinds, UnitKeywords, States,
     DeclarativeParts, Parts, UnitsState
<1> QED
  BY <1>2, <1>3, <1>4

(* A script that serves is joined, and has its units in their place.       *)
LEMMA ServesInOrder ==
  ASSUME NEW script, NEW c, NEW n, Serves(script, c, n), NEW token
  PROVE  /\ script \in Seq(PlainCalls) /\ script \in Seq(Tasks)
         /\ Joined(script, token) /\ Ordered(script)
PROOF
<1>1. script \in Seq(PlainCalls) /\ PlainCalls \subseteq Tasks
  BY DEF Serves, PlainCalls
<1>2. script \in Seq(Tasks)
  BY <1>1, SeqMonotonic
<1>3. Len(script) \in Nat /\ \A i \in 1 .. Len(script) : script[i] \in PlainCalls
  BY <1>1, LenProperties, ElementOfSeq
<1>4. \A i \in 1 .. Len(script) - 1 : Left(script[i]) <= Cap(script[i + 1])
  <2>1. CASE script = <<>>
    BY <2>1
  <2>2. CASE script # <<>>
    BY <2>2 DEF Serves
  <2> QED
    BY <2>1, <2>2
<1>5. Joined(script, token)
  <2>1. ASSUME Len(script) > 1 PROVE LeftBy(script[1], token) <= Cap(script[2])
    <3>1. Left(script[1]) <= Cap(script[1 + 1]) /\ 1 + 1 = 2
      BY <1>3, <1>4, <2>1
    <3>2. LeftBy(script[1], token) <= Left(script[1])
      BY LeftByIsLess
    <3>3. /\ LeftBy(script[1], token) \in 0 .. 7 /\ Left(script[1]) \in 0 .. 7
          /\ Cap(script[2]) \in 0 .. 6
      BY LeftByIsLess, CapsAreSmall
    <3> QED
      BY <3>1, <3>2, <3>3
  <2>2. \A i \in 2 .. Len(script) - 1 : i \in 1 .. Len(script) - 1
    BY <1>3
  <2> QED
    BY <1>4, <2>1, <2>2 DEF Joined
<1>6. Ordered(script)
  <2>1. \A i \in 2 .. Len(script) : i \in 1 .. Len(script)
    BY <1>3
  <2>2. \A i \in 1 .. Len(script) : Inner(script[i]) /\ script[i].do # "design_unit"
    BY <1>3 DEF PlainCalls
  <2> QED
    BY <2>1, <2>2 DEF Ordered
<1> QED
  BY <1>1, <1>2, <1>5, <1>6

LEMMA ServesSooner ==
  ASSUME NEW c \in Nat, NEW k \in Nat, NEW n \in Nat, c <= k,
         NEW s, Serves(s, k, n)
  PROVE  Serves(s, c, n)
PROOF
<1>1. Serves(<<>>, c, k)
  BY ServesNothing
<1>2. <<>> \o s = s
  BY ConcatEmptySeq DEF Serves
<1>3. Serves(<<>> \o s, c, n)
  BY <1>1, ServesConcat
<1> QED
  BY <1>2, <1>3

(* What the last of the calls leaves.                                      *)
LeftByAll(calls, token) ==
  IF Len(calls) = 1 THEN LeftBy(calls[1], token) ELSE Left(calls[Len(calls)])

(* The calls of a production take the place of the one for it.             *)
LEMMA Takes ==
  ASSUME todo \in Seq(Tasks), todo # <<>>,
         NEW token, Joined(todo, token), Ordered(todo),
         NEW script \in Seq(Tasks), script # <<>>, Then(script),
         NEW after, Joined(script, after), Ordered(script),
         LeftByAll(script, after) <= LeftBy(Task, token),
         Task.do = "context_clause" => script[Len(script)].do = "context_clause"
  PROVE  /\ todo' \in Seq(Tasks) /\ todo' # <<>>
         /\ Len(script) \in Nat /\ Len(todo') \in Nat /\ Len(todo') >= Len(script)
         /\ \A i \in 1 .. Len(script) : todo'[i] = script[i]
         /\ Joined(todo', after) /\ Ordered(todo')
PROOF
<1> DEFINE m == Len(script)
           n == Len(todo)
<1>1. /\ todo' \in Seq(Tasks)
      /\ n \in Nat \ {0} /\ m \in Nat
      /\ Len(todo') = m + n - 1
      /\ \A i \in 1 .. m : todo'[i] = script[i]
      /\ \A i \in 1 .. n - 1 : todo'[m + i] = todo[1 + i]
  BY Replaced
<1>2. m \in Nat \ {0} /\ Task = todo[1]
  BY EmptySeq, TheTask
<1>3. todo' # <<>> /\ Len(todo') \in Nat /\ Len(todo') >= m
  <2>1. Len(todo') # 0 /\ Len(todo') \in Nat /\ Len(todo') >= m
    BY <1>1, <1>2
  <2> QED
    BY <2>1, EmptySeq
<1>4. /\ m > 1 => LeftBy(script[1], after) <= Cap(script[2])
      /\ \A i \in 2 .. m - 1 : Left(script[i]) <= Cap(script[i + 1])
      /\ n > 1 => LeftBy(todo[1], token) <= Cap(todo[2])
      /\ \A i \in 2 .. n - 1 : Left(todo[i]) <= Cap(todo[i + 1])
  BY DEF Joined
<1>5. /\ \A i \in 2 .. m : Inner(script[i])
      /\ \A i \in 2 .. m : script[i].do = "design_unit" => script[i - 1].do = "context_clause"
      /\ \A i \in 1 .. m : script[i].do = "design_unit" =>
           i < m /\ script[i + 1].do = "in_many" /\ script[i + 1].state = UnitsState
      /\ \A i \in 2 .. n : Inner(todo[i])
      /\ \A i \in 2 .. n : todo[i].do = "design_unit" => todo[i - 1].do = "context_clause"
      /\ \A i \in 1 .. n : todo[i].do = "design_unit" =>
           i < n /\ todo[i + 1].do = "in_many" /\ todo[i + 1].state = UnitsState
  BY DEF Ordered
<1>6. /\ LeftByAll(script, after) <= LeftBy(todo[1], token)
      /\ todo[1].do = "context_clause" => script[m].do = "context_clause"
      /\ LeftByAll(script, after) = IF m = 1 THEN LeftBy(script[1], after) ELSE Left(script[m])
  BY <1>2 DEF LeftByAll
<1> HIDE DEF m, n
(* Where the calls after the one replaced are.                             *)
<1>7. ASSUME NEW i \in 1 .. Len(todo'), i > m
      PROVE  /\ i - m + 1 \in 2 .. n
             /\ todo'[i] = todo[i - m + 1]
             /\ i < Len(todo') => /\ i - m + 1 < n
                                  /\ i + 1 - m + 1 = (i - m + 1) + 1
                                  /\ todo'[i + 1] = todo[(i - m + 1) + 1]
             /\ i > m + 1 => todo'[i - 1] = todo[(i - m + 1) - 1]
  <2> DEFINE k == i - m
             all == Len(todo')
  <2>0. /\ all = m + n - 1 /\ n \in Nat \ {0} /\ m \in Nat \ {0}
        /\ i \in 1 .. all /\ i > m
    BY <1>1, <1>2, <1>7
  <2> HIDE DEF all
  <2>1. k \in 1 .. n - 1 /\ m + k = i /\ 1 + k = i - m + 1 /\ 1 + k \in 2 .. n
    BY <2>0
  <2>2. i < all =>
          /\ k + 1 \in 1 .. n - 1 /\ m + (k + 1) = i + 1 /\ 1 + (k + 1) = (i - m + 1) + 1
          /\ i - m + 1 < n
          /\ i + 1 - m + 1 = (i - m + 1) + 1
    BY <2>0
  <2>3. i > m + 1 =>
          k - 1 \in 1 .. n - 1 /\ m + (k - 1) = i - 1 /\ 1 + (k - 1) = (i - m + 1) - 1
    BY <2>0
  <2> HIDE DEF k
  <2>4. \A j \in 1 .. n - 1 : todo'[m + j] = todo[1 + j]
    BY <1>1
  <2> QED
    BY <2>1, <2>2, <2>3, <2>4 DEF all
(* Where the first of them follows the last of the script.                 *)
<1>8. n > 1 => m + 1 \in 1 .. Len(todo') /\ todo'[m + 1] = todo[2] /\ todo'[m] = script[m]
  BY <1>1, <1>2
<1>9. Joined(todo', after)
  <2>1. ASSUME Len(todo') > 1 PROVE LeftBy(todo'[1], after) <= Cap(todo'[2])
    <3>1. todo'[1] = script[1]
      BY <1>1, <1>2
    <3>2. CASE m > 1
      <4>1. todo'[2] = script[2]
        BY <1>1, <3>2
      <4> QED
        BY <1>4, <3>1, <3>2, <4>1
    <3>3. CASE m = 1
      <4>1. n > 1 /\ todo'[2] = todo[2]
        BY <1>1, <1>8, <2>1, <3>3
      <4>2. LeftBy(script[1], after) <= LeftBy(todo[1], token)
        BY <1>6, <3>3
      <4>3. LeftBy(todo[1], token) <= Cap(todo[2])
        BY <1>4, <4>1
      <4>4. /\ LeftBy(script[1], after) \in 0 .. 7 /\ LeftBy(todo[1], token) \in 0 .. 7
            /\ Cap(todo[2]) \in 0 .. 6
        BY LeftByIsLess, CapsAreSmall
      <4>5. LeftBy(script[1], after) <= Cap(todo[2])
        BY <4>2, <4>3, <4>4
      <4> QED
        BY <3>1, <4>1, <4>5
    <3> QED
      BY <1>2, <3>2, <3>3
  <2>2. ASSUME NEW i \in 2 .. Len(todo') - 1 PROVE Left(todo'[i]) <= Cap(todo'[i + 1])
    <3>1. CASE i < m
      <4>1. i \in 2 .. m - 1 /\ todo'[i] = script[i] /\ todo'[i + 1] = script[i + 1]
        BY <1>1, <1>2, <2>2, <3>1
      <4> QED
        BY <1>4, <4>1
    <3>2. CASE i = m
      <4>1. n > 1 /\ todo'[i] = script[m] /\ todo'[i + 1] = todo[2] /\ m # 1
        BY <1>1, <1>2, <1>8, <2>2, <3>2
      <4>2. Left(script[m]) <= LeftBy(todo[1], token)
        BY <1>6, <4>1
      <4>3. LeftBy(todo[1], token) <= Cap(todo[2])
        BY <1>4, <4>1
      <4>4. /\ Left(script[m]) \in 0 .. 7 /\ LeftBy(todo[1], token) \in 0 .. 7
            /\ Cap(todo[2]) \in 0 .. 6
        BY LeftByIsLess, CapsAreSmall
      <4>5. Left(script[m]) <= Cap(todo[2])
        BY <4>2, <4>3, <4>4
      <4> QED
        BY <4>1, <4>5
    <3>3. CASE i > m
      <4> DEFINE j == i - m + 1
      <4>1. i \in 1 .. Len(todo') /\ i < Len(todo')
        BY <1>1, <1>3, <2>2
      <4>2. j \in 2 .. n /\ j < n /\ todo'[i] = todo[j] /\ todo'[i + 1] = todo[j + 1]
        BY <1>7, <3>3, <4>1
      <4> HIDE DEF j
      <4>3. j \in 2 .. n - 1
        BY <1>1, <4>2
      <4> QED
        BY <1>4, <4>2, <4>3
    <3> QED
      BY <1>1, <1>2, <2>2, <3>1, <3>2, <3>3
  <2> QED
    BY <2>1, <2>2 DEF Joined
<1>10. ASSUME NEW i \in 2 .. Len(todo')
       PROVE  /\ Inner(todo'[i])
              /\ todo'[i].do = "design_unit" => todo'[i - 1].do = "context_clause"
  <2>1. CASE i <= m
    <3>1. /\ i \in 2 .. m /\ i \in 1 .. m /\ i - 1 \in 1 .. m
      BY <1>1, <1>2, <1>10, <2>1
    <3>2. todo'[i] = script[i] /\ todo'[i - 1] = script[i - 1]
      BY <1>1, <3>1
    <3> QED
      BY <1>5, <3>1, <3>2
  <2>2. CASE i > m
    <3> DEFINE j == i - m + 1
    <3>1. i \in 1 .. Len(todo')
      BY <1>3, <1>10
    <3>2. j \in 2 .. n /\ todo'[i] = todo[j] /\ (i > m + 1 => todo'[i - 1] = todo[j - 1])
      BY <1>7, <2>2, <3>1
    <3>3. i = m + 1 => j = 2 /\ n > 1
      BY <1>1, <1>2, <3>2
    <3> HIDE DEF j
    <3>4. Inner(todo[j]) /\ (todo[j].do = "design_unit" => todo[j - 1].do = "context_clause")
      BY <1>5, <3>2
    <3>5. CASE i > m + 1
      BY <3>2, <3>4, <3>5
    <3>6. CASE i = m + 1
      <4>1. todo'[i] = todo[2] /\ todo'[i - 1] = script[m] /\ j = 2 /\ 2 - 1 = 1
        BY <1>1, <1>8, <3>3, <3>6
      <4>2. todo[2].do = "design_unit" => todo[1].do = "context_clause"
        BY <3>4, <4>1
      <4> QED
        BY <1>6, <3>2, <3>4, <4>1, <4>2
    <3> QED
      BY <1>1, <1>2, <2>2, <3>1, <3>5, <3>6
  <2> QED
    BY <1>1, <1>2, <1>10, <2>1, <2>2
<1>11. ASSUME NEW i \in 1 .. Len(todo'), todo'[i].do = "design_unit"
       PROVE  /\ i < Len(todo')
              /\ todo'[i + 1].do = "in_many"
              /\ todo'[i + 1].state = UnitsState
  <2>1. CASE i <= m
    <3>1. i \in 1 .. m /\ todo'[i] = script[i]
      BY <1>1, <1>2, <1>11, <2>1
    <3>2. i < m /\ script[i + 1].do = "in_many" /\ script[i + 1].state = UnitsState
      BY <1>5, <1>11, <3>1
    <3>3. i + 1 \in 1 .. m /\ i < Len(todo')
      BY <1>1, <1>2, <3>1, <3>2
    <3> QED
      BY <1>1, <3>2, <3>3
  <2>2. CASE i > m
    <3> DEFINE j == i - m + 1
    <3>1. j \in 2 .. n /\ todo'[i] = todo[j]
      BY <1>7, <2>2
    <3>2. j < n => i < Len(todo')
      BY <1>1, <1>2, <3>1
    <3>3. i < Len(todo') => todo'[i + 1] = todo[j + 1]
      BY <1>7, <2>2
    <3> HIDE DEF j
    <3>4. j \in 1 .. n
      BY <1>1, <3>1
    <3>5. j < n /\ todo[j + 1].do = "in_many" /\ todo[j + 1].state = UnitsState
      BY <1>5, <1>11, <3>1, <3>4
    <3> QED
      BY <3>2, <3>3, <3>5
  <2> QED
    BY <1>1, <1>2, <2>1, <2>2
<1>12. Ordered(todo')
  BY <1>10, <1>11 DEF Ordered
<1> QED
  BY <1>1, <1>3, <1>9, <1>12 DEF m

(* A production that asks for nothing goes on with the call after it.      *)
LEMMA Drops ==
  ASSUME todo \in Seq(Tasks), todo # <<>>,
         NEW token, Joined(todo, token), Ordered(todo),
         Then(<<>>), NEW after
  PROVE  /\ todo' \in Seq(Tasks) /\ Len(todo) \in Nat \ {0}
         /\ Len(todo') = Len(todo) - 1
         /\ todo' # <<>> =>
              /\ Len(todo) > 1 /\ todo'[1] = todo[2]
              /\ LeftBy(Task, token) <= Cap(todo'[1])
              /\ Inner(todo'[1])
              /\ todo'[1].do = "design_unit" => Task.do = "context_clause"
         /\ Joined(todo', after) /\ Ordered(todo')
PROOF
<1> DEFINE n == Len(todo)
           all == Len(todo')
<1>1. /\ todo' \in Seq(Tasks) /\ n \in Nat \ {0}
      /\ all = n - 1
      /\ \A i \in 1 .. n - 1 : todo'[i] = todo[1 + i]
  <2>1. <<>> \in Seq(Tasks) /\ Len(<<>>) = 0
    BY EmptySeq
  <2>2. /\ todo' \in Seq(Tasks) /\ n \in Nat \ {0}
        /\ all = Len(<<>>) + n - 1
        /\ \A i \in 1 .. n - 1 : todo'[Len(<<>>) + i] = todo[1 + i]
    BY <2>1, Replaced
  <2>3. \A i \in 1 .. n - 1 : todo'[i] = todo[1 + i]
    BY <2>1, <2>2
  <2> QED
    BY <2>1, <2>2, <2>3
<1>2. Task = todo[1]
  BY TheTask
<1>3. todo' # <<>> => all # 0
  BY <1>1, EmptySeq
<1>4. /\ n > 1 => LeftBy(todo[1], token) <= Cap(todo[2])
      /\ \A i \in 2 .. n - 1 : Left(todo[i]) <= Cap(todo[i + 1])
  BY DEF Joined
<1>5. /\ \A i \in 2 .. n : Inner(todo[i])
      /\ \A i \in 2 .. n : todo[i].do = "design_unit" => todo[i - 1].do = "context_clause"
      /\ \A i \in 1 .. n : todo[i].do = "design_unit" =>
           i < n /\ todo[i + 1].do = "in_many" /\ todo[i + 1].state = UnitsState
  BY DEF Ordered
<1> HIDE DEF n, all
<1>6. ASSUME NEW i \in 1 .. all
      PROVE  /\ 1 + i \in 2 .. n /\ todo'[i] = todo[1 + i]
             /\ i < all => 1 + i < n /\ todo'[i + 1] = todo[(1 + i) + 1]
             /\ i > 1 => todo'[i - 1] = todo[(1 + i) - 1]
  <2>1. i \in 1 .. n - 1 /\ 1 + i \in 2 .. n
    BY <1>1
  <2>2. i < all => i + 1 \in 1 .. n - 1 /\ 1 + (i + 1) = (1 + i) + 1 /\ 1 + i < n
    BY <1>1
  <2>3. i > 1 => i - 1 \in 1 .. n - 1 /\ 1 + (i - 1) = (1 + i) - 1
    BY <1>1
  <2> QED
    BY <1>1, <2>1, <2>2, <2>3
<1>7. ASSUME todo' # <<>>
      PROVE  /\ n > 1 /\ todo'[1] = todo[2]
             /\ LeftBy(Task, token) <= Cap(todo'[1])
             /\ Inner(todo'[1])
             /\ todo'[1].do = "design_unit" => Task.do = "context_clause"
  <2>1. n > 1 /\ 1 \in 1 .. all /\ 1 + 1 = 2 /\ 2 \in 2 .. n /\ 2 - 1 = 1
    BY <1>1, <1>3, <1>7
  <2>2. todo'[1] = todo[2]
    BY <1>1, <2>1
  <2> QED
    BY <1>2, <1>4, <1>5, <2>1, <2>2
<1>8. Joined(todo', after)
  <2>1. ASSUME all > 1 PROVE LeftBy(todo'[1], after) <= Cap(todo'[2])
    <3>1. 2 \in 2 .. n - 1 /\ 1 \in 1 .. all /\ 1 < all /\ 1 + 1 = 2
      BY <1>1, <2>1
    <3>2. todo'[1] = todo[2] /\ todo'[2] = todo[2 + 1]
      BY <1>6, <3>1
    <3>3. Left(todo[2]) <= Cap(todo[2 + 1])
      BY <1>4, <3>1
    <3>4. /\ LeftBy(todo[2], after) <= Left(todo[2])
          /\ LeftBy(todo[2], after) \in 0 .. 7 /\ Left(todo[2]) \in 0 .. 7
          /\ Cap(todo[2 + 1]) \in 0 .. 6
      BY LeftByIsLess, CapsAreSmall
    <3>5. LeftBy(todo[2], after) <= Cap(todo[2 + 1])
      BY <3>3, <3>4
    <3> QED
      BY <3>2, <3>5
  <2>2. ASSUME NEW i \in 2 .. all - 1 PROVE Left(todo'[i]) <= Cap(todo'[i + 1])
    <3> DEFINE j == 1 + i
    <3>1. i \in 1 .. all /\ i < all /\ j \in 2 .. n - 1
      BY <1>1, <2>2
    <3>2. todo'[i] = todo[j] /\ todo'[i + 1] = todo[j + 1]
      BY <1>6, <3>1
    <3> HIDE DEF j
    <3> QED
      BY <1>4, <3>1, <3>2
  <2> QED
    BY <2>1, <2>2 DEF Joined, all
<1>9. Ordered(todo')
  <2>1. ASSUME NEW i \in 2 .. all
        PROVE  /\ Inner(todo'[i])
               /\ todo'[i].do = "design_unit" => todo'[i - 1].do = "context_clause"
    <3> DEFINE j == 1 + i
    <3>1. i \in 1 .. all /\ i > 1 /\ j \in 2 .. n
      BY <1>1, <2>1
    <3>2. todo'[i] = todo[j] /\ todo'[i - 1] = todo[j - 1]
      BY <1>6, <3>1
    <3> HIDE DEF j
    <3> QED
      BY <1>5, <3>1, <3>2
  <2>2. ASSUME NEW i \in 1 .. all, todo'[i].do = "design_unit"
        PROVE  i < all /\ todo'[i + 1].do = "in_many" /\ todo'[i + 1].state = UnitsState
    <3> DEFINE j == 1 + i
    <3>1. j \in 1 .. n /\ todo'[i] = todo[j] /\ (j < n => i < all)
          /\ (i < all => todo'[i + 1] = todo[j + 1])
      BY <1>1, <1>6
    <3> HIDE DEF j
    <3> QED
      BY <1>5, <2>2, <3>1
  <2> QED
    BY <2>1, <2>2 DEF Ordered, all
<1> QED
  BY <1>1, <1>7, <1>8, <1>9 DEF n, all

(* Where nothing is special about the first of the calls to do.            *)
LEMMA Goes ==
  ASSUME Joined(todo, Current)', Ordered(todo)',
         todo' # <<>> =>
           /\ count' <= Cap(todo'[1])
           /\ Inner(todo'[1])
           /\ todo'[1].do = "design_unit" => Current' \in UnitKeywords \cup {"eof"}
  PROVE  Running'
PROOF
<1>1. Begun'
  BY DEF Begun, Inner
<1>2. Bounded'
  BY DEF Bounded
<1> QED
  BY <1>1, <1>2 DEF Running

LEMMA Served ==
  ASSUME todo \in Seq(Tasks), todo # <<>>, Joined(todo, Current), Ordered(todo),
         Task.do # "context_clause",
         NEW script, Then(script),
         NEW c \in Nat, count' \in Nat, count' <= c,
         Serves(script, c, LeftBy(Task, Current))
  PROVE  Running'
PROOF
<1>1. script \in Seq(Tasks) /\ Joined(script, Current') /\ Ordered(script)
  BY ServesInOrder
<1>2. LeftBy(Task, Current) \in 0 .. 7
  BY LeftByIsLess
<1>3. CASE script = <<>>
  <2>1. c <= LeftBy(Task, Current)
    BY <1>3 DEF Serves
  <2>2. /\ Joined(todo', Current') /\ Ordered(todo')
        /\ todo' # <<>> =>
             /\ LeftBy(Task, Current) <= Cap(todo'[1])
             /\ Inner(todo'[1])
             /\ todo'[1].do = "design_unit" => Task.do = "context_clause"
    BY <1>3, Drops
  <2>3. todo' # <<>> => count' <= Cap(todo'[1])
    <3>1. Cap(todo'[1]) \in 0 .. 6
      BY CapsAreSmall
    <3> QED
      BY <1>2, <2>1, <2>2, <3>1
  <2> QED
    BY <2>2, <2>3, Goes
<1>4. CASE script # <<>>
  <2>1. /\ script \in Seq(PlainCalls)
        /\ c <= Cap(script[1])
        /\ Left(script[Len(script)]) <= LeftBy(Task, Current)
    BY <1>4 DEF Serves
  <2>2. Len(script) \in Nat \ {0}
    BY <1>1, <1>4, EmptySeq, LenProperties
  <2>3. LeftByAll(script, Current') <= LeftBy(Task, Current)
    <3>1. LeftByAll(script, Current') <= Left(script[Len(script)])
      <4>1. CASE Len(script) = 1
        BY <4>1, LeftByIsLess DEF LeftByAll
      <4>2. CASE Len(script) # 1
        <5>1. Left(script[Len(script)]) \in 0 .. 7
          BY CapsAreSmall
        <5> QED
          BY <4>2, <5>1 DEF LeftByAll
      <4> QED
        BY <4>1, <4>2
    <3>2. LeftByAll(script, Current') \in 0 .. 7 /\ Left(script[Len(script)]) \in 0 .. 7
      BY LeftByIsLess, CapsAreSmall DEF LeftByAll
    <3> QED
      BY <1>2, <2>1, <3>1, <3>2
  <2>4. /\ Joined(todo', Current') /\ Ordered(todo')
        /\ todo'[1] = script[1]
    BY <1>1, <1>4, <2>2, <2>3, Takes
  <2>5. script[1] \in PlainCalls
    BY <2>1, <2>2, ElementOfSeq
  <2>6. count' <= Cap(todo'[1])
    <3>1. Cap(script[1]) \in 0 .. 6
      BY CapsAreSmall
    <3> QED
      BY <2>1, <2>4, <3>1
  <2> QED
    BY <2>4, <2>5, <2>6, Goes DEF PlainCalls
<1> QED
  BY <1>3, <1>4

(* A production that goes on for another token.                            *)
LEMMA Stays ==
  ASSUME Joined(todo, Current), Ordered(todo), todo' = todo,
         todo[1].do \in {"in_many", "context_clause", "resync"},
         count' <= Cap(todo[1])
  PROVE  Running'
PROOF
<1>1. Inner(todo[1]) /\ todo[1].do \notin {"name", "design_unit"}
  BY DEF Inner, Bare, Elements
<1>2. Joined(todo, Current)'
  <2>1. LeftBy(todo[1], Current') = LeftBy(todo[1], Current)
    BY <1>1 DEF LeftBy
  <2> QED
    BY <2>1 DEF Joined
<1>3. Ordered(todo)'
  BY DEF Ordered
<1> QED
  BY <1>1, <1>2, <1>3, Goes

(* Only a list and its elements are looked at for longer.                  *)
LEMMA CountNow ==
  ASSUME todo \in Seq(Tasks), todo # <<>>, Running, Task.do \notin Elements \cup {"in_many"}
  PROVE  count <= Cap(Task)
PROOF
<1>1. Task = todo[1]
  BY TheTask
<1> QED
  BY <1>1 DEF Running, Bounded, Stuck, AtTheEnd

--------------------------------------------------------------------------------
(* The steps.                                                              *)

LEMMA AtTheTask ==
  ASSUME ParserInv, Running, todo # <<>>
  PROVE  /\ todo \in Seq(Tasks) /\ Task \in Tasks /\ Task = todo[1]
         /\ Joined(todo, Current) /\ Ordered(todo)
         /\ count \in Nat
PROOF
<1>1. todo \in Seq(Tasks) /\ count \in 0 .. Patience
  BY DEF ParserInv, CallsInv, Counts
<1>2. count \in Nat
  BY <1>1, ParserAssumption
<1> QED
  BY <1>1, <1>2, TheTask DEF Running

(* A production that ends has looked once at most.                         *)
LEMMA EndsThere ==
  ASSUME ParserInv, Running, todo # <<>>,
         Task.do \notin Elements \cup {"in_many", "context_clause"},
         Then(<<>>),
         \/ count' = 0
         \/ count' = count /\ Cap(Task) <= LeftBy(Task, Current)
         \/ count' = count + 1 /\ Cap(Task) + 1 <= LeftBy(Task, Current)
  PROVE  Running'
PROOF
<1>1. /\ todo \in Seq(Tasks) /\ Joined(todo, Current) /\ Ordered(todo)
      /\ count \in Nat
  BY AtTheTask
<1>2. count <= Cap(Task)
  BY <1>1, CountNow
<1>3. Cap(Task) \in 0 .. 6 /\ LeftBy(Task, Current) \in 0 .. 7
  BY CapsAreSmall, LeftByIsLess
<1>4. count' \in Nat /\ count' <= LeftBy(Task, Current)
  BY <1>1, <1>2, <1>3
<1>5. Serves(<<>>, count', LeftBy(Task, Current))
  BY <1>4, ServesNothing
<1> QED
  BY <1>1, <1>4, <1>5, Served

LEMMA EndsRun ==
  ASSUME ParserInv, Running,
         ScanFirst \/ ConsumeToken \/ LibraryNames \/ UnitName \/ EntityNamed
         \/ ClosingLabelOrNone \/ UnitEnd \/ NoSubtype \/ AttributeName
         \/ DropCheckpoint \/ NoRange
  PROVE  Running'
PROOF
<1>1. ASSUME ScanFirst PROVE Running'
  <2>1. todo # <<>> /\ Task.do = "scan" /\ Then(<<>>) /\ count' = count
    BY <1>1 DEF ScanFirst, Doing, Skip, Stay, Look
  <2>2. /\ Task.do \notin Elements \cup {"in_many", "context_clause", "name"}
        /\ Cap(Task) <= Left(Task)
    BY <2>1 DEF Cap, Left, Elements
  <2>3. LeftBy(Task, Current) = Left(Task)
    BY <2>2, LeftByIsLess
  <2> QED
    BY <2>1, <2>2, <2>3, EndsThere
<1>2. ASSUME ConsumeToken PROVE Running'
  <2>1. todo # <<>> /\ Task.do = "consume" /\ Then(<<>>) /\ count' = 0
    BY <1>2 DEF ConsumeToken, Doing, Skip, Stay, Look
  <2>2. /\ Task.do \notin Elements \cup {"in_many", "context_clause", "name"}
    BY <2>1 DEF Elements
  <2>3. LeftBy(Task, Current) = Left(Task)
    BY <2>2, LeftByIsLess
  <2> QED
    BY <2>1, <2>2, <2>3, EndsThere
<1>3. ASSUME LibraryNames PROVE Running'
  <2>1. todo # <<>> /\ Task.do = "library_names" /\ Then(<<>>) /\ (count' = 0 \/ count' = count + 1)
    BY <1>3 DEF LibraryNames, Doing, Skip, Stay, Look
  <2>2. /\ Task.do \notin Elements \cup {"in_many", "context_clause", "name"}
        /\ Cap(Task) + 1 <= Left(Task)
    BY <2>1 DEF Cap, Left, Elements
  <2>3. LeftBy(Task, Current) = Left(Task)
    BY <2>2, LeftByIsLess
  <2> QED
    BY <2>1, <2>2, <2>3, EndsThere
<1>4. ASSUME UnitName PROVE Running'
  <2>1. todo # <<>> /\ Task.do = "unit_name" /\ Then(<<>>) /\ (count' = 0 \/ count' = count)
    BY <1>4 DEF UnitName, Doing, Skip, Stay, Look
  <2>2. /\ Task.do \notin Elements \cup {"in_many", "context_clause", "name"}
        /\ Cap(Task) <= Left(Task)
    BY <2>1 DEF Cap, Left, Elements
  <2>3. LeftBy(Task, Current) = Left(Task)
    BY <2>2, LeftByIsLess
  <2> QED
    BY <2>1, <2>2, <2>3, EndsThere
<1>5. ASSUME EntityNamed PROVE Running'
  <2>1. todo # <<>> /\ Task.do = "entity_named" /\ Then(<<>>) /\ count' = count
    BY <1>5 DEF EntityNamed, Doing, Skip, Stay, Look
  <2>2. /\ Task.do \notin Elements \cup {"in_many", "context_clause", "name"}
        /\ Cap(Task) <= Left(Task)
    BY <2>1 DEF Cap, Left, Elements
  <2>3. LeftBy(Task, Current) = Left(Task)
    BY <2>2, LeftByIsLess
  <2> QED
    BY <2>1, <2>2, <2>3, EndsThere
<1>6. ASSUME ClosingLabelOrNone PROVE Running'
  <2>1. todo # <<>> /\ Task.do = "closing_label" /\ Then(<<>>) /\ (count' = 0 \/ count' = count + 1)
    BY <1>6 DEF ClosingLabelOrNone, Doing, Skip, Stay, Look
  <2>2. /\ Task.do \notin Elements \cup {"in_many", "context_clause", "name"}
        /\ Cap(Task) + 1 <= Left(Task)
    BY <2>1 DEF Cap, Left, Elements
  <2>3. LeftBy(Task, Current) = Left(Task)
    BY <2>2, LeftByIsLess
  <2> QED
    BY <2>1, <2>2, <2>3, EndsThere
<1>7. ASSUME UnitEnd PROVE Running'
  <2>1. todo # <<>> /\ Task.do = "unit_end" /\ Then(<<>>) /\ count' = count
    BY <1>7 DEF UnitEnd, Doing, Skip, Stay, Look
  <2>2. /\ Task.do \notin Elements \cup {"in_many", "context_clause", "name"}
        /\ Cap(Task) <= Left(Task)
    BY <2>1 DEF Cap, Left, Elements
  <2>3. LeftBy(Task, Current) = Left(Task)
    BY <2>2, LeftByIsLess
  <2> QED
    BY <2>1, <2>2, <2>3, EndsThere
<1>8. ASSUME NoSubtype PROVE Running'
  <2>1. todo # <<>> /\ Task.do = "subtype" /\ Then(<<>>) /\ count' = count + 1
    BY <1>8 DEF NoSubtype, Doing, Skip, Stay, Look
  <2>2. /\ Task.do \notin Elements \cup {"in_many", "context_clause", "name"}
        /\ Cap(Task) + 1 <= Left(Task)
    BY <2>1 DEF Cap, Left, Elements
  <2>3. LeftBy(Task, Current) = Left(Task)
    BY <2>2, LeftByIsLess
  <2> QED
    BY <2>1, <2>2, <2>3, EndsThere
<1>9. ASSUME AttributeName PROVE Running'
  <2>1. todo # <<>> /\ Task.do = "attribute" /\ Then(<<>>) /\ count' = 0
    BY <1>9 DEF AttributeName, Doing, Skip, Stay, Look
  <2>2. /\ Task.do \notin Elements \cup {"in_many", "context_clause", "name"}
        /\ Cap(Task) <= Left(Task)
    BY <2>1 DEF Cap, Left, Elements
  <2>3. LeftBy(Task, Current) = Left(Task)
    BY <2>2, LeftByIsLess
  <2> QED
    BY <2>1, <2>2, <2>3, EndsThere
<1>11. ASSUME DropCheckpoint PROVE Running'
  <2>1. todo # <<>> /\ Task.do = "drop_checkpoint" /\ Then(<<>>) /\ count' = count
    BY <1>11 DEF DropCheckpoint, Doing, Skip, Stay, Look
  <2>2. /\ Task.do \notin Elements \cup {"in_many", "context_clause", "name"}
        /\ Cap(Task) <= Left(Task)
    BY <2>1 DEF Cap, Left, Elements
  <2>3. LeftBy(Task, Current) = Left(Task)
    BY <2>2, LeftByIsLess
  <2> QED
    BY <2>1, <2>2, <2>3, EndsThere
<1>12. ASSUME NoRange PROVE Running'
  <2>1. todo # <<>> /\ Task.do = "range_end" /\ Then(<<>>) /\ count' = count + 1
    BY <1>12 DEF NoRange, Doing, Skip, Stay, Look
  <2>2. /\ Task.do \notin Elements \cup {"in_many", "context_clause", "name"}
        /\ Cap(Task) + 1 <= Left(Task)
    BY <2>1 DEF Cap, Left, Elements
  <2>3. LeftBy(Task, Current) = Left(Task)
    BY <2>2, LeftByIsLess
  <2> QED
    BY <2>1, <2>2, <2>3, EndsThere
<1> QED
  BY <1>1, <1>2, <1>3, <1>4, <1>5, <1>6, <1>7, <1>8, <1>9, <1>11, <1>12

(* The productions that are one sequence of calls.                         *)
LEMMA OtherScripts ==
  /\ Serves(LibraryClause, 6, 0)
  /\ Serves(VariableDeclaration, 6, 0)
  /\ Serves(RangeConstraint, 6, 4)
  /\ Serves(<<Do("expression"), Do("range_end")>>, 0, 4)
  /\ Serves(UpTo, 6, 1)
  /\ Serves(<<Consume("begin"), Do("generate_body")>>, 6, 2)
  /\ Serves(<<Many("declarative_part_begin", "block"), Consume("begin"),
              Do("generate_body")>>, 1, 2)
  /\ Serves(Instantiation, 2, 0)
  /\ Serves(<<Consume("tick"), Do("attribute"), Do("suffix")>>, 6, 1)
  /\ Serves(<<Consume("semicolon"), Do("unit_end")>>, 6, 3)
  /\ Serves(<<Consume("null"), Consume("semicolon")>>, 6, 0)
  /\ Serves(Append(Label(TRUE), Statement(TRUE)), 6, 1)
PROOF
<1> USE CapsOfCalls, CapsOfSimple
<1>1. /\ \A x \in Plain : Do(x) \in PlainCalls
      /\ \A k \in Kinds : Consume(k) \in PlainCalls
      /\ \A k \in Kinds : Optional(k, <<>>) \in PlainCalls
      /\ Many("declarative_part_begin", "block") \in PlainCalls
      /\ Statement(TRUE) \in PlainCalls
  BY PlainOnes DEF Thens, States, DeclarativeParts, Parts
<1>2. Serves(LibraryClause, 6, 0)
  BY <1>1 DEF Serves, LibraryClause, Plain, Simple, Elements, Kinds
<1>3. Serves(VariableDeclaration, 6, 0)
  BY <1>1 DEF Serves, VariableDeclaration, Plain, Simple, Elements, Kinds
<1>4. Serves(RangeConstraint, 6, 4)
  BY <1>1 DEF Serves, RangeConstraint, Plain, Simple, Elements, Kinds
<1>5. Serves(UpTo, 6, 1)
  BY <1>1 DEF Serves, UpTo, Plain, Simple, Elements, Kinds
<1>6. Serves(Instantiation, 2, 0)
  BY <1>1 DEF Serves, Instantiation, Plain, Simple, Elements, Kinds
<1>7. Serves(<<Consume("tick"), Do("attribute"), Do("suffix")>>, 6, 1)
  BY <1>1 DEF Serves, Plain, Simple, Elements, Kinds
<1>8. Serves(<<Consume("semicolon"), Do("unit_end")>>, 6, 3)
  BY <1>1, ServesTwo DEF Plain, Simple, Elements, Kinds
<1>9. Serves(<<Consume("null"), Consume("semicolon")>>, 6, 0)
  BY <1>1, ServesTwo DEF Kinds
<1>10. Serves(Append(Label(TRUE), Statement(TRUE)), 6, 1)
  <2>1. Serves(<<Consume("identifier"), Consume("colon")>>, 6, 0)
    BY <1>1, ServesTwo DEF Kinds
  <2>2. Label(TRUE) = <<Consume("identifier"), Consume("colon")>>
    BY DEF Label
  <2> DEFINE s == Label(TRUE)
             t == Statement(TRUE)
  <2>3. Serves(s, 6, 0) /\ t \in PlainCalls /\ Cap(t) = 0 /\ Left(t) = 1
    BY <1>1, <2>1, <2>2, Zenon
  <2> HIDE DEF s, t
  <2>4. Serves(Append(s, t), 6, 1)
    <3>1. 0 <= Cap(t) /\ Left(t) <= 1 /\ 6 \in Nat /\ 0 \in Nat /\ 1 \in Nat
      BY <2>3
    <3> QED
      BY <2>3, <3>1, ServesMore
  <2> QED
    BY <2>4 DEF s, t
<1>11. Serves(<<Do("expression"), Do("range_end")>>, 0, 4)
  BY <1>1, ServesTwo DEF Plain, Simple, Elements
<1>12. Serves(<<Consume("begin"), Do("generate_body")>>, 6, 2)
  BY <1>1, ServesTwo DEF Plain, Simple, Elements, Kinds
<1>13. Serves(<<Many("declarative_part_begin", "block"), Consume("begin"),
                Do("generate_body")>>, 1, 2)
  BY <1>1 DEF Serves, Plain, Simple, Elements, Kinds, UnitsState
<1> QED
  BY <1>2, <1>3, <1>4, <1>5, <1>6, <1>7, <1>8, <1>9, <1>10, <1>11, <1>12, <1>13

LEMMA SinglesServe ==
  /\ Serves(<<Do("resync")>>, 2, 2)
  /\ Serves(<<Do("suffix")>>, 0, 1)
  /\ Serves(<<Do("name")>>, 3, 4)
  /\ Serves(<<Many(UnitsState, "none")>>, 1, 7)
  /\ Serves(<<Many("entity_statement_part", "none")>>, 1, 2)
  /\ Serves(<<Many("concurrent_statements", "none")>>, 1, 2)
  /\ Serves(<<Consume("colon")>>, 6, 2)
  /\ Serves(<<Consume("semicolon")>>, 6, 0)
  /\ Serves(<<Optional("colon", <<>>)>>, 2, 2)
PROOF
<1>1. /\ \A x \in Plain : Do(x) \in PlainCalls
      /\ \A k \in Kinds : Consume(k) \in PlainCalls
      /\ \A k \in Kinds : Optional(k, <<>>) \in PlainCalls
      /\ \A s \in States, p \in Parts : Many(s, p) \in PlainCalls
  BY PlainOnes DEF Thens
<1>2. /\ Do("resync") \in PlainCalls /\ Do("suffix") \in PlainCalls
      /\ Do("name") \in PlainCalls
      /\ Consume("colon") \in PlainCalls /\ Consume("semicolon") \in PlainCalls
      /\ Optional("colon", <<>>) \in PlainCalls
  BY <1>1 DEF Plain, Simple, Elements, Kinds
<1>3. /\ Many(UnitsState, "none") \in PlainCalls
      /\ Many("entity_statement_part", "none") \in PlainCalls
      /\ Many("concurrent_statements", "none") \in PlainCalls
  BY <1>1 DEF States, Parts, UnitsState
<1>4. /\ Cap(Many(UnitsState, "none")) = 1 /\ Left(Many(UnitsState, "none")) = 7
      /\ Cap(Many("entity_statement_part", "none")) = 1
      /\ Left(Many("entity_statement_part", "none")) = 2
      /\ Cap(Many("concurrent_statements", "none")) = 1
      /\ Left(Many("concurrent_statements", "none")) = 2
      /\ Cap(Optional("colon", <<>>)) = 2 /\ Left(Optional("colon", <<>>)) = 2
      /\ \A k : Cap(Consume(k)) = 6 /\ Left(Consume(k)) = 0
  BY CapsOfCalls DEF UnitsState
<1>5. Serves(<<Do("resync")>>, 2, 2)
  BY <1>2, CapsOfSimple, ServesOne
<1>6. Serves(<<Do("suffix")>>, 0, 1)
  BY <1>2, CapsOfSimple, ServesOne
<1>7. Serves(<<Do("name")>>, 3, 4)
  BY <1>2, CapsOfSimple, ServesOne
<1>8. Serves(<<Many(UnitsState, "none")>>, 1, 7)
  BY <1>3, <1>4, ServesOne
<1>9. Serves(<<Many("entity_statement_part", "none")>>, 1, 2)
  BY <1>3, <1>4, ServesOne
<1>10. Serves(<<Consume("colon")>>, 6, 2) /\ Serves(<<Consume("semicolon")>>, 6, 0)
  BY <1>2, <1>4, ServesOne
<1>11. Serves(<<Optional("colon", <<>>)>>, 2, 2)
  BY <1>2, <1>4, ServesOne
<1>12. Serves(<<Many("concurrent_statements", "none")>>, 1, 2)
  BY <1>3, <1>4, ServesOne
<1> QED
  BY <1>5, <1>6, <1>7, <1>8, <1>9, <1>10, <1>11, <1>12

(* Those that depend on whether there is a label.                          *)
LEMMA LabelsServe ==
  ASSUME NEW labelled \in BOOLEAN
  PROVE  /\ Serves(ProcedureCall(labelled), 2, 0) /\ ProcedureCall(labelled) # <<>>
         /\ Serves(Process(labelled), 6, 0) /\ Process(labelled) # <<>>
         /\ Serves(Loop(labelled), 6, 0)
         /\ Serves(If(labelled), 6, 0)
         /\ Serves(IfGenerate(labelled), 2, 0) /\ IfGenerate(labelled) # <<>>
PROOF
<1>1. /\ \A x \in Plain : Do(x) \in PlainCalls
      /\ \A k \in Kinds : Consume(k) \in PlainCalls
      /\ \A k \in Kinds : Optional(k, <<>>) \in PlainCalls
      /\ \A s \in States, p \in Parts : Many(s, p) \in PlainCalls
  BY PlainOnes DEF Thens
<1>2. ASSUME NEW c \in Nat, c <= 6 PROVE Serves(Label(labelled), c, c)
  <2>1. CASE labelled = TRUE
    <3>1. Serves(<<Consume("identifier"), Consume("colon")>>, c, c)
      BY <1>1, <1>2, CapsOfCalls, ServesTwo DEF Kinds
    <3> QED
      BY <2>1, <3>1 DEF Label
  <2>2. CASE labelled = FALSE
    <3>1. Label(labelled) = <<>>
      BY <2>2 DEF Label
    <3> QED
      BY <3>1, ServesNothing
  <2> QED
    BY <2>1, <2>2
<1>3. Serves(ClosingLabel(labelled), 0, 3)
  <2>1. CASE labelled = TRUE
    <3>1. Serves(<<Do("closing_label")>>, 0, 3)
      BY <1>1, CapsOfSimple, ServesOne DEF Plain, Simple, Elements
    <3> QED
      BY <2>1, <3>1 DEF ClosingLabel
  <2>2. CASE labelled = FALSE
    <3>1. ClosingLabel(labelled) = <<>>
      BY <2>2 DEF ClosingLabel
    <3> QED
      BY <3>1, ServesNothing
  <2> QED
    BY <2>1, <2>2
<1>4. Serves(<<Consume("semicolon")>>, 3, 0)
  BY SinglesServe, ServesSooner
<1>5. /\ Label(labelled) \in Seq(PlainCalls) /\ ClosingLabel(labelled) \in Seq(PlainCalls)
      /\ <<Consume("semicolon")>> \in Seq(PlainCalls)
  BY <1>2, <1>3, <1>4 DEF Serves
<1>6. Serves(ProcedureCall(labelled), 2, 0) /\ ProcedureCall(labelled) # <<>>
  <2> DEFINE s == <<Do("name"), Consume("semicolon")>>
  <2>1. Serves(s, 2, 0)
    BY <1>1, CapsOfCalls, CapsOfSimple, ServesTwo DEF Plain, Simple, Elements, Kinds
  <2>2. Serves(Label(labelled), 2, 2)
    BY <1>2
  <2>3. Len(s) = 2 /\ s \in Seq(PlainCalls)
    BY <2>1 DEF Serves
  <2> HIDE DEF s
  <2>4. Serves(Label(labelled) \o s, 2, 0)
    BY <2>1, <2>2, ServesConcat
  <2>5. Len(Label(labelled) \o s) = Len(Label(labelled)) + 2 /\ Len(Label(labelled)) \in Nat
    <3>1. Len(Label(labelled) \o s) = Len(Label(labelled)) + Len(s)
      BY <1>5, <2>3, ConcatProperties
    <3> QED
      BY <1>5, <2>3, <3>1, LenProperties
  <2>6. Len(Label(labelled) \o s) # 0
    BY <2>5
  <2>7. Label(labelled) \o s # <<>>
    BY <2>6, EmptySeq
  <2> QED
    BY <2>4, <2>7 DEF ProcedureCall, s
<1>7. Serves(Process(labelled), 6, 0) /\ Process(labelled) # <<>>
  <2> DEFINE s == <<Consume("process"), Optional("is", <<>>),
                    Many("declarative_part_begin", "process"), Consume("begin"),
                    Many("sequential_statements", "none"), Consume("end"),
                    Consume("process")>>
             end == ClosingLabel(labelled) \o <<Consume("semicolon")>>
  <2>1. Serves(s, 6, 0)
    BY <1>1, CapsOfCalls DEF Serves, Kinds, States, DeclarativeParts, Parts, UnitsState
  <2>2. Serves(end, 0, 0)
    BY <1>3, <1>4, ServesConcat
  <2>3. Serves(Label(labelled), 6, 6)
    BY <1>2
  <2>4. Len(s) = 7 /\ s \in Seq(PlainCalls)
    BY <2>1 DEF Serves
  <2>5. end \in Seq(PlainCalls)
    BY <2>2 DEF Serves
  <2>6. Process(labelled) = Label(labelled) \o s \o end
    <3>1. Process(labelled) =
            Label(labelled) \o s \o ClosingLabel(labelled) \o <<Consume("semicolon")>>
      BY DEF Process
    <3> HIDE DEF s
    <3>2. Label(labelled) \o s \in Seq(PlainCalls)
      BY <1>5, <2>4, ConcatProperties
    <3> QED
      BY <1>5, <3>1, <3>2, ConcatAssociative
  <2> HIDE DEF s, end
  <2>7. Serves(Label(labelled) \o s, 6, 0)
    BY <2>1, <2>3, ServesConcat
  <2>8. Serves(Label(labelled) \o s \o end, 6, 0)
    BY <2>2, <2>7, ServesConcat
  <2>9. Len(Label(labelled) \o s) = Len(Label(labelled)) + 7 /\ Len(Label(labelled)) \in Nat
        /\ Label(labelled) \o s \in Seq(PlainCalls)
    <3>1. /\ Len(Label(labelled) \o s) = Len(Label(labelled)) + Len(s)
          /\ Label(labelled) \o s \in Seq(PlainCalls)
      BY <1>5, <2>4, ConcatProperties
    <3> QED
      BY <1>5, <2>4, <3>1, LenProperties
  <2>10. Len(Label(labelled) \o s \o end) = Len(Label(labelled) \o s) + Len(end)
         /\ Len(end) \in Nat
    BY <2>5, <2>9, ConcatProperties, LenProperties
  <2>11. Len(Label(labelled) \o s \o end) # 0
    BY <2>9, <2>10
  <2>12. Label(labelled) \o s \o end # <<>>
    BY <2>11, EmptySeq
  <2> QED
    BY <2>6, <2>8, <2>12
<1>8. Serves(Loop(labelled), 6, 0)
  <2> DEFINE s == <<Consume("loop"), Many("sequential_statements", "none"),
                    Consume("end"), Consume("loop")>>
             end == ClosingLabel(labelled) \o <<Consume("semicolon")>>
  <2>1. Serves(s, 6, 0)
    BY <1>1, CapsOfCalls DEF Serves, Kinds, States, Parts, UnitsState
  <2>2. Serves(end, 0, 0)
    BY <1>3, <1>4, ServesConcat
  <2>3. s \in Seq(PlainCalls)
    BY <2>1 DEF Serves
  <2>4. Loop(labelled) = s \o end
    <3>1. Loop(labelled) = s \o ClosingLabel(labelled) \o <<Consume("semicolon")>>
      BY DEF Loop
    <3> HIDE DEF s
    <3> QED
      BY <1>5, <2>3, <3>1, ConcatAssociative
  <2> HIDE DEF s, end
  <2> QED
    BY <2>1, <2>2, <2>4, ServesConcat
<1>9. Serves(If(labelled), 6, 0)
  <2> DEFINE s == <<Consume("if"), Do("expression"), Consume("then"),
                    Many("sequential_statements", "none"), Consume("end"), Consume("if")>>
             end == ClosingLabel(labelled) \o <<Consume("semicolon")>>
  <2>1. Serves(s, 6, 0)
    BY <1>1, CapsOfCalls, CapsOfSimple
       DEF Serves, Plain, Simple, Elements, Kinds, States, Parts, UnitsState
  <2>2. Serves(end, 0, 0)
    BY <1>3, <1>4, ServesConcat
  <2>3. s \in Seq(PlainCalls)
    BY <2>1 DEF Serves
  <2>4. If(labelled) = s \o end
    <3>1. If(labelled) = s \o ClosingLabel(labelled) \o <<Consume("semicolon")>>
      BY DEF If
    <3> HIDE DEF s
    <3> QED
      BY <1>5, <2>3, <3>1, ConcatAssociative
  <2> HIDE DEF s, end
  <2> QED
    BY <2>1, <2>2, <2>4, ServesConcat
<1>10. Serves(IfGenerate(labelled), 2, 0) /\ IfGenerate(labelled) # <<>>
  <2> DEFINE s == <<Do("inst_label"), Consume("if"), Do("expression"),
                    Consume("generate"), Do("generate"), Consume("end"),
                    Consume("generate")>>
             end == ClosingLabel(labelled) \o <<Consume("semicolon")>>
  <2>1. Serves(s, 2, 0)
    BY <1>1, CapsOfCalls, CapsOfSimple DEF Serves, Plain, Simple, Elements, Kinds
  <2>2. Serves(end, 0, 0)
    BY <1>3, <1>4, ServesConcat
  <2>3. Len(s) = 7 /\ s \in Seq(PlainCalls)
    BY <2>1 DEF Serves
  <2>4. end \in Seq(PlainCalls)
    BY <2>2 DEF Serves
  <2>5. IfGenerate(labelled) = s \o end
    <3>1. IfGenerate(labelled) = s \o ClosingLabel(labelled) \o <<Consume("semicolon")>>
      BY DEF IfGenerate
    <3> HIDE DEF s
    <3> QED
      BY <1>5, <2>3, <3>1, ConcatAssociative
  <2> HIDE DEF s, end
  <2>6. Serves(s \o end, 2, 0)
    BY <2>1, <2>2, ServesConcat
  <2>7. Len(s \o end) = 7 + Len(end) /\ Len(end) \in Nat
    <3>1. Len(s \o end) = Len(s) + Len(end)
      BY <2>3, <2>4, ConcatProperties
    <3> QED
      BY <2>3, <2>4, <3>1, LenProperties
  <2>8. Len(s \o end) # 0
    BY <2>7
  <2>9. s \o end # <<>>
    BY <2>8, EmptySeq
  <2> QED
    BY <2>5, <2>6, <2>9
<1> QED
  BY <1>6, <1>7, <1>8, <1>9, <1>10

(* A production that asks for calls has looked once at most before.        *)
LEMMA AsksFor ==
  ASSUME ParserInv, Running, todo # <<>>, Task.do # "context_clause",
         count <= Cap(Task),
         NEW c \in Nat, NEW n \in Nat, NEW script, Then(script),
         Serves(script, c, n), n <= LeftBy(Task, Current),
         \/ count' = 0
         \/ count' = count /\ Cap(Task) <= c
         \/ count' = count + 1 /\ Cap(Task) + 1 <= c
  PROVE  Running'
PROOF
<1>1. /\ todo \in Seq(Tasks) /\ Joined(todo, Current) /\ Ordered(todo)
      /\ count \in Nat
  BY AtTheTask
<1>2. Cap(Task) \in 0 .. 6 /\ LeftBy(Task, Current) \in Nat
  BY CapsAreSmall, LeftByIsLess
<1>3. count' \in Nat /\ count' <= c
  BY <1>1, <1>2
<1>4. Serves(<<>>, n, LeftBy(Task, Current))
  BY ServesNothing
<1>5. script \o <<>> = script
  BY ConcatEmptySeq DEF Serves
<1>6. Serves(script \o <<>>, c, LeftBy(Task, Current))
  BY <1>2, <1>4, ServesConcat
<1> QED
  BY <1>1, <1>3, <1>5, <1>6, Served

LEMMA UnitsRun ==
  ASSUME ParserInv, Running,
         DesignFile \/ EnterMany \/ OptionalToken \/ LibraryEnd
         \/ resync_to_next_semicolon \/ DesignUnit \/ PackageEnd
  PROVE  Running'
PROOF
<1>1. todo # <<>> => /\ Task \in Tasks /\ Task = todo[1]
                     /\ todo \in Seq(Tasks) /\ Joined(todo, Current) /\ Ordered(todo)
                     /\ count \in Nat
  BY AtTheTask
<1>2. ASSUME todo # <<>>, Task.do \notin Elements \cup {"in_many"} PROVE count <= Cap(Task)
  BY <1>1, <1>2, CountNow
<1>3. ASSUME DesignFile PROVE Running'
  <2>1. /\ todo # <<>> /\ Task.do = "file" /\ count' = count + 1
        /\ Then(<<>>) \/ Then(<<Many(UnitsState, "none")>>)
    BY <1>3 DEF DesignFile, Doing, Look, UnitsState
  <2>2. /\ Task.do \notin Elements \cup {"in_many", "context_clause", "name"}
        /\ Cap(Task) = 0 /\ Left(Task) = 7
    BY <2>1 DEF Cap, Left, Elements
  <2>3. LeftBy(Task, Current) = 7 /\ count <= Cap(Task)
    BY <1>2, <2>1, <2>2, LeftByIsLess
  <2>4. Serves(<<>>, 1, 7) /\ Serves(<<Many(UnitsState, "none")>>, 1, 7)
    BY SinglesServe, ServesNothing
  <2> QED
    BY <2>1, <2>2, <2>3, <2>4, AsksFor
<1>4. ASSUME EnterMany PROVE Running'
  <2> DEFINE opened == InMany(Task.state, Task.part, parsing_states)
  <2>1. /\ todo # <<>> /\ Task.do = "many" /\ count' = count /\ Then(<<opened>>)
    BY <1>4 DEF EnterMany, Doing, Stay
  <2>2. /\ Task.do \notin Elements \cup {"in_many", "context_clause", "name"}
        /\ Cap(Task) = 1 /\ Left(Task) = (IF Task.state = UnitsState THEN 7 ELSE 2)
    BY <2>1 DEF Cap, Left, Elements
  <2>3. /\ Cap(opened) >= 1 /\ Cap(opened) \in 0 .. 6
        /\ Left(opened) = (IF Task.state = UnitsState THEN 7 ELSE 2)
    BY DEF Cap, Left, InMany
  <2>4. Task.state \in States /\ Task.part \in Parts /\ parsing_states \subseteq States
    BY <1>1, <2>1, OfATask, OpenStatesAreStates DEF ParserInv, CallsInv
  <2>5. opened \in PlainCalls
    BY <2>4 DEF InMany, PlainCalls, Tasks, OpenCalls, Inner, Bare, Elements
  <2>6. LeftBy(Task, Current) = Left(Task) /\ count <= Cap(Task) /\ Left(Task) \in Nat
    BY <1>2, <2>1, <2>2, LeftByIsLess
  <2> HIDE DEF opened
  <2>7. Serves(<<opened>>, 1, Left(Task))
    BY <2>2, <2>3, <2>5, <2>6, ServesOne
  <2> QED
    BY <2>1, <2>2, <2>6, <2>7, AsksFor
<1>5. ASSUME OptionalToken PROVE Running'
  <2>1. /\ todo # <<>> /\ Task.do = "optional"
        /\ \/ count' = count /\ Then(<<>>)
           \/ count' = 0 /\ Then(Task.then)
    BY <1>5 DEF OptionalToken, Doing, Stay, Skip
  <2>2. /\ Task.do \notin Elements \cup {"in_many", "context_clause", "name"}
        /\ Cap(Task) = Left(Task)
        /\ Task.then # <<>> => Left(Task) = 2
    BY <2>1 DEF Cap, Left, Elements
  <2>3. LeftBy(Task, Current) = Left(Task) /\ count <= Cap(Task) /\ Left(Task) \in Nat
    BY <1>2, <2>1, <2>2, LeftByIsLess, CapsAreSmall
  <2>4. CASE Then(<<>>)
    <3>1. Serves(<<>>, Left(Task), Left(Task))
      BY <2>3, ServesNothing
    <3> QED
      BY <2>1, <2>2, <2>3, <2>4, <3>1, AsksFor
  <2>5. CASE count' = 0 /\ Then(Task.then) /\ Task.then # <<>>
    <3>1. Task.then = <<Many("entity_statement_part", "none")>>
      BY <1>1, <2>1, <2>5, OfATask DEF Thens
    <3>2. Serves(Task.then, 1, 2)
      BY <3>1, SinglesServe
    <3> QED
      BY <2>1, <2>2, <2>3, <2>5, <3>2, AsksFor
  <2> QED
    BY <2>1, <2>4, <2>5
<1>6. ASSUME LibraryEnd PROVE Running'
  <2>1. /\ todo # <<>> /\ Task.do = "library_end" /\ count' = count + 1
        /\ Then(<<>>) \/ Then(<<Do("resync")>>)
    BY <1>6 DEF LibraryEnd, Doing, Look
  <2>2. /\ Task.do \notin Elements \cup {"in_many", "context_clause", "name"}
        /\ Cap(Task) = 1 /\ Left(Task) = 2
    BY <2>1 DEF Cap, Left, Elements
  <2>3. LeftBy(Task, Current) = 2 /\ count <= Cap(Task)
    BY <1>2, <2>1, <2>2, LeftByIsLess
  <2>4. Serves(<<>>, 2, 2) /\ Serves(<<Do("resync")>>, 2, 2)
    BY SinglesServe, ServesNothing
  <2> QED
    BY <2>1, <2>2, <2>3, <2>4, AsksFor
<1>7. ASSUME resync_to_next_semicolon PROVE Running'
  <2>1. /\ todo # <<>> /\ Task.do = "resync" /\ count' = count
        /\ todo' = todo \/ todo' = Tail(todo)
    BY <1>7 DEF resync_to_next_semicolon, Doing
  <2>2. /\ Task.do \notin Elements \cup {"in_many", "context_clause", "name"}
        /\ Cap(Task) = 2 /\ Left(Task) = 2
    BY <2>1 DEF Cap, Left, Elements
  <2>3. LeftBy(Task, Current) = 2 /\ count <= Cap(Task)
    BY <1>2, <2>1, <2>2, LeftByIsLess
  <2>4. CASE todo' = todo
    <3>1. count' <= Cap(todo[1]) /\ todo[1].do = "resync"
      BY <1>1, <2>1, <2>3
    <3> QED
      BY <1>1, <2>1, <2>4, <3>1, Stays
  <2>5. CASE todo' = Tail(todo)
    <3>1. Tail(todo) \in Seq(Tasks)
      BY <1>1, <2>1, HeadTailProperties
    <3>2. Then(<<>>)
      BY <2>5, <3>1, ConcatEmptySeq DEF Then
    <3> QED
      BY <2>1, <2>2, <2>3, <3>2, EndsThere
  <2> QED
    BY <2>1, <2>4, <2>5
<1>8. ASSUME DesignUnit PROVE Running'
  <2>1. /\ todo # <<>> /\ Task.do = "design_unit" /\ count' = count + 1
        /\ Then(UnitScript(Current)) /\ Current \in UnitKeywords
    BY <1>8 DEF DesignUnit, Doing
  <2>2. /\ Task.do \notin Elements \cup {"in_many", "context_clause", "name"}
        /\ Cap(Task) = 5 /\ Left(Task) = 3
    BY <2>1 DEF Cap, Left, Elements
  <2>3. LeftBy(Task, Current) = 3 /\ count <= Cap(Task)
    BY <1>2, <2>1, <2>2, LeftByIsLess
  <2>4. Serves(UnitScript(Current), 6, 3)
    <3>1. \A token \in UnitKeywords : Serves(UnitScript(token), 6, 3)
      BY UnitScripts DEF UnitScript, UnitKeywords
    <3> QED
      BY <2>1, <3>1
  <2> QED
    BY <2>1, <2>2, <2>3, <2>4, AsksFor
<1>9. ASSUME PackageEnd PROVE Running'
  <2>1. /\ todo # <<>> /\ Task.do = "package_end" /\ count' = count
        /\ Then(<<>>) \/ Then(<<Consume("semicolon"), Do("unit_end")>>)
    BY <1>9 DEF PackageEnd, Doing, Stay
  <2>2. /\ Task.do \notin Elements \cup {"in_many", "context_clause", "name"}
        /\ Cap(Task) = 3 /\ Left(Task) = 3
    BY <2>1 DEF Cap, Left, Elements
  <2>3. LeftBy(Task, Current) = 3 /\ count <= Cap(Task)
    BY <1>2, <2>1, <2>2, LeftByIsLess
  <2>4. Serves(<<>>, 3, 3) /\ Serves(<<Consume("semicolon"), Do("unit_end")>>, 6, 3)
    BY OtherScripts, ServesNothing
  <2> QED
    BY <2>1, <2>2, <2>3, <2>4, AsksFor
<1> QED
  BY <1>3, <1>4, <1>5, <1>6, <1>7, <1>8, <1>9

(* A context clause asks for library clauses until a unit or the end.      *)
LEMMA ContextRuns == ASSUME ParserInv, Running, ContextClause PROVE Running'
PROOF
<1>1. todo # <<>> /\ Task.do = "context_clause"
  BY DEF ContextClause, Doing
<1>2. /\ Task \in Tasks /\ Task = todo[1]
      /\ todo \in Seq(Tasks) /\ Joined(todo, Current) /\ Ordered(todo)
      /\ count \in Nat
  BY <1>1, AtTheTask
<1>3. /\ Task.do \notin Elements \cup {"in_many", "design_unit", "name"}
      /\ Cap(Task) = 4 /\ Left(Task) = 5 /\ ~ Bare(Task)
  BY <1>1 DEF Cap, Left, Elements, Bare
<1>4. LeftBy(Task, Current) = 5 /\ count <= 4
  BY <1>1, <1>2, <1>3, CountNow, LeftByIsLess
<1>5. CASE Current \notin UnitKeywords \cup {"library", "eof"}
  <2>1. todo' = todo /\ count' = 0
    BY <1>5 DEF ContextClause, Skip
  <2>2. count' <= Cap(todo[1])
    BY <1>2, <1>3, <2>1
  <2> QED
    BY <1>1, <1>2, <2>1, <2>2, Stays
<1>6. CASE Current \in UnitKeywords \cup {"eof"}
  <2>1. Then(<<>>) /\ count' = count + 1 /\ UNCHANGED <<lexer, file>>
    BY <1>6 DEF ContextClause, Look, context, UnitKeywords
  <2>2. Current' = Current
    BY <2>1 DEF Current, Kind, current_token, lexer
  <2>3. /\ Joined(todo', Current') /\ Ordered(todo')
        /\ todo' # <<>> => LeftBy(Task, Current) <= Cap(todo'[1]) /\ Inner(todo'[1])
    BY <1>1, <1>2, <2>1, Drops
  <2>4. todo' # <<>> => count' <= Cap(todo'[1])
    <3>1. Cap(todo'[1]) \in 0 .. 6
      BY CapsAreSmall
    <3> QED
      BY <1>2, <1>4, <2>1, <2>3, <3>1
  <2> QED
    BY <1>6, <2>2, <2>3, <2>4, Goes
<1>7. CASE Current = "library"
  <2> DEFINE script == Append(LibraryClause, Task)
  <2>1. Then(script) /\ count' = count + 1
    BY <1>7 DEF ContextClause, Look
  <2>2. Task \in PlainCalls
    BY <1>2, <1>3 DEF PlainCalls, Inner
  <2>3. Serves(script, 6, 5)
    BY <1>3, <2>2, OtherScripts, ServesMore
  <2>4. script \in Seq(Tasks) /\ Joined(script, Current') /\ Ordered(script)
    BY <2>3, ServesInOrder
  <2>5. /\ Len(LibraryClause) = 4 /\ LibraryClause \in Seq(PlainCalls)
        /\ LibraryClause[1] = Consume("library")
    BY OtherScripts DEF LibraryClause, Serves
  <2>6. Len(script) = 5 /\ script[5] = Task /\ script[1] = Consume("library")
    <3>1. /\ Len(script) = Len(LibraryClause) + 1
          /\ \A i \in 1 .. Len(LibraryClause) : script[i] = LibraryClause[i]
          /\ script[Len(LibraryClause) + 1] = Task
      <4>1. ASSUME NEW s \in Seq(PlainCalls), NEW x \in PlainCalls
            PROVE  /\ Len(Append(s, x)) = Len(s) + 1
                   /\ \A i \in 1 .. Len(s) : Append(s, x)[i] = s[i]
                   /\ Append(s, x)[Len(s) + 1] = x
        BY <4>1, AppendProperties
      <4> QED
        BY <2>2, <2>5, <4>1
    <3> HIDE DEF script
    <3> QED
      BY <2>5, <3>1
  <2> HIDE DEF script
  <2>7. script # <<>>
    BY <2>6
  <2>8. LeftByAll(script, Current') = 5
    BY <1>3, <2>6 DEF LeftByAll
  <2>9. Joined(todo', Current') /\ Ordered(todo') /\ todo'[1] = script[1]
    <3>1. LeftByAll(script, Current') <= LeftBy(Task, Current)
      BY <1>4, <2>8
    <3>2. script[Len(script)].do = "context_clause"
      BY <1>1, <2>6
    <3>3. /\ Joined(todo', Current') /\ Ordered(todo')
          /\ \A i \in 1 .. Len(script) : todo'[i] = script[i]
      BY <1>1, <1>2, <2>1, <2>4, <2>7, <3>1, <3>2, Takes
    <3> QED
      BY <2>6, <3>3
  <2>10. Cap(todo'[1]) = 6 /\ Inner(todo'[1]) /\ todo'[1].do # "design_unit"
    BY <2>6, <2>9, CapsOfCalls DEF Consume, Inner, Bare, Elements
  <2>11. count' <= Cap(todo'[1])
    BY <1>2, <1>4, <2>1, <2>10
  <2> QED
    BY <2>9, <2>10, <2>11, Goes
<1> QED
  BY <1>5, <1>6, <1>7

(* A name that is there and is looked at three times at most before.       *)
LEMMA NameFirst ==
  ASSUME ParserInv, Running, todo # <<>>, Task.do # "context_clause",
         Current' = "identifier", count' \in Nat, count' <= 3,
         NEW rest, Serves(rest, 1, LeftBy(Task, Current)),
         Then(<<Do("name")>> \o rest)
  PROVE  Running'
PROOF
<1> DEFINE name == Do("name")
           script == <<name>> \o rest
           n == Len(rest)
           all == Len(script)
           most == LeftBy(Task, Current)
<1>1. /\ todo \in Seq(Tasks) /\ Joined(todo, Current) /\ Ordered(todo)
  BY AtTheTask
<1>2. /\ name \in PlainCalls /\ Cap(name) = 3 /\ LeftBy(name, "identifier") = 1
      /\ name.do = "name"
  BY PlainOnes, CapsOfSimple DEF Plain, Simple, Elements, LeftBy, Do
<1> HIDE DEF name
<1>3. /\ rest \in Seq(PlainCalls) /\ n \in Nat
      /\ <<name>> \in Seq(PlainCalls) /\ Len(<<name>>) = 1 /\ <<name>>[1] = name
  BY <1>2, LenProperties DEF Serves
<1>4. /\ script \in Seq(PlainCalls) /\ all = 1 + n
      /\ \A i \in 1 .. 1 + n : script[i] = IF i <= 1 THEN <<name>>[i] ELSE rest[i - 1]
  BY <1>3, ConcatProperties
<1>5. /\ n > 0 => /\ 1 <= Cap(rest[1])
                  /\ Left(rest[n]) <= most
                  /\ \A i \in 1 .. n - 1 : Left(rest[i]) <= Cap(rest[i + 1])
      /\ n = 0 => 1 <= most
  BY EmptySeq DEF Serves
<1> HIDE DEF n, most
<1>6. /\ script[1] = name /\ 1 \in 1 .. all
      /\ \A i \in 2 .. 1 + n : script[i] = rest[i - 1]
  BY <1>3, <1>4
<1>7. \A i \in 1 .. all : script[i] \in PlainCalls
  BY <1>4, ElementOfSeq
<1>8. script \in Seq(Tasks)
  <2>1. PlainCalls \subseteq Tasks
    BY DEF PlainCalls
  <2> QED
    BY <1>4, <2>1, SeqMonotonic
<1> HIDE DEF script, all
<1>9. script # <<>>
  <2>1. all # 0
    BY <1>3, <1>4
  <2> QED
    BY <1>4, <2>1, EmptySeq DEF all
<1>10. Joined(script, "identifier")
  <2>1. ASSUME all > 1 PROVE LeftBy(script[1], "identifier") <= Cap(script[2])
    <3>1. n > 0 /\ 2 \in 2 .. 1 + n /\ 2 - 1 = 1
      BY <1>3, <1>4, <2>1
    <3>2. script[2] = rest[1]
      BY <1>6, <3>1
    <3> QED
      BY <1>2, <1>5, <1>6, <3>1, <3>2
  <2>2. ASSUME NEW i \in 2 .. all - 1 PROVE Left(script[i]) <= Cap(script[i + 1])
    <3> DEFINE j == i - 1
    <3>1. /\ n > 0 /\ j \in 1 .. n - 1 /\ i \in 2 .. 1 + n /\ i + 1 \in 2 .. 1 + n
          /\ (i + 1) - 1 = j + 1
      BY <1>3, <1>4, <2>2
    <3>2. script[i] = rest[j] /\ script[i + 1] = rest[j + 1]
      BY <1>6, <3>1
    <3> HIDE DEF j
    <3> QED
      BY <1>5, <3>1, <3>2
  <2> QED
    BY <2>1, <2>2 DEF Joined, all
<1>11. Ordered(script)
  <2>1. \A i \in 1 .. all : Inner(script[i]) /\ script[i].do # "design_unit"
    BY <1>7 DEF PlainCalls
  <2>2. \A i \in 2 .. all : i \in 1 .. all
    BY <1>3, <1>4
  <2> QED
    BY <2>1, <2>2 DEF Ordered, all
<1>12. LeftByAll(script, "identifier") <= most
  <2>1. CASE n = 0
    BY <1>2, <1>4, <1>5, <1>6, <2>1 DEF LeftByAll, all
  <2>2. CASE n > 0
    <3>1. all # 1 /\ all \in 2 .. 1 + n /\ all - 1 = n
      BY <1>3, <1>4, <2>2
    <3>2. script[all] = rest[n]
      BY <1>6, <3>1
    <3> QED
      BY <1>5, <2>2, <3>1, <3>2 DEF LeftByAll, all
  <2> QED
    BY <1>3, <2>1, <2>2
<1>13. Then(script)
  BY DEF script, name
<1>14. /\ Joined(todo', "identifier") /\ Ordered(todo') /\ todo'[1] = name
  <2>1. /\ Joined(todo', "identifier") /\ Ordered(todo')
        /\ \A i \in 1 .. Len(script) : todo'[i] = script[i]
    BY <1>1, <1>8, <1>9, <1>10, <1>11, <1>12, <1>13, Takes DEF most
  <2> QED
    BY <1>6, <2>1 DEF all
<1>15. Inner(name) /\ name.do # "design_unit" /\ count' <= Cap(name)
  BY <1>2 DEF PlainCalls
<1> QED
  BY <1>14, <1>15, Goes

LEMMA NamesRun ==
  ASSUME ParserInv, Running,
         SubtypeIndication \/ Constraint \/ ParseName \/ Suffix \/ Expression
         \/ ParseRange \/ RangeUpTo \/ RangeAgain
  PROVE  Running'
PROOF
<1>1. todo # <<>> => /\ Task \in Tasks /\ Task = todo[1]
                     /\ todo \in Seq(Tasks) /\ Joined(todo, Current) /\ Ordered(todo)
                     /\ count \in Nat
  BY AtTheTask
<1>2. ASSUME todo # <<>>, Task.do \notin Elements \cup {"in_many"} PROVE count <= Cap(Task)
  BY <1>1, <1>2, CountNow
<1>3. ASSUME SubtypeIndication PROVE Running'
  <2> DEFINE first == IF Ahead(1) = "identifier" THEN <<Do("name")>> ELSE <<>>
             rest == <<Do("name"), Do("constraint")>>
  <2>1. /\ todo # <<>> /\ Task.do = "subtype" /\ count' = count + 1
        /\ Then(first \o rest) /\ Current = "identifier"
        /\ UNCHANGED <<tokens_, current_one_, file>>
    BY <1>3 DEF SubtypeIndication, Doing, peek, context
  <2>2. Current' = "identifier"
    BY <2>1 DEF Current, Kind, current_token
  <2>3. /\ Task.do \notin Elements \cup {"in_many", "context_clause", "name"}
        /\ Cap(Task) = 0 /\ Left(Task) = 5
    BY <2>1 DEF Cap, Left, Elements
  <2>4. LeftBy(Task, Current) = 5 /\ count = 0 /\ count' = 1
    BY <1>1, <1>2, <2>1, <2>3, LeftByIsLess
  <2>5. Serves(rest, 1, 5) /\ rest \in Seq(PlainCalls)
    <3>1. Do("name") \in PlainCalls /\ Do("constraint") \in PlainCalls
      BY PlainOnes DEF Plain, Simple, Elements
    <3>2. Serves(rest, 1, 5)
      BY <3>1, CapsOfSimple, ServesTwo
    <3> QED
      BY <3>2 DEF Serves
  <2>6. CASE first = <<>>
    <3>1. Then(rest)
      BY <2>1, <2>5, <2>6, ConcatEmptySeq
    <3> HIDE DEF rest
    <3> QED
      BY <1>1, <2>1, <2>3, <2>4, <2>5, <3>1, Served
  <2>7. CASE first = <<Do("name")>>
    <3>1. Then(<<Do("name")>> \o rest)
      BY <2>1, <2>7
    <3> HIDE DEF rest
    <3> QED
      BY <2>1, <2>2, <2>3, <2>4, <2>5, <3>1, NameFirst
  <2> QED
    BY <2>6, <2>7
<1>4. ASSUME Constraint PROVE Running'
  <2>1. /\ todo # <<>> /\ Task.do = "constraint" /\ count' = count + 1
        /\ Then(RangeConstraint) \/ Then(<<>>)
    BY <1>4 DEF Constraint, Doing, Look
  <2>2. /\ Task.do \notin Elements \cup {"in_many", "context_clause", "name"}
        /\ Cap(Task) = 4 /\ Left(Task) = 5
    BY <2>1 DEF Cap, Left, Elements
  <2>3. LeftBy(Task, Current) = 5 /\ count <= Cap(Task)
    BY <1>2, <2>1, <2>2, LeftByIsLess
  <2>4. Serves(<<>>, 5, 5) /\ Serves(RangeConstraint, 6, 4)
    BY OtherScripts, ServesNothing
  <2> QED
    BY <2>1, <2>2, <2>3, <2>4, AsksFor
<1>5. ASSUME ParseName PROVE Running'
  <2>1. /\ todo # <<>> /\ Task.do = "name"
        /\ IF Current = "identifier" THEN count' = 0 /\ Then(<<Do("suffix")>>)
                                     ELSE count' = count + 1 /\ Then(<<>>)
    BY <1>5 DEF ParseName, Doing, Look, Skip
  <2>2. /\ Task.do \notin Elements \cup {"in_many", "context_clause"}
        /\ Cap(Task) = 3 /\ Left(Task) = 4
    BY <2>1 DEF Cap, Left, Elements
  <2>3. /\ LeftBy(Task, Current) = (IF Current = "identifier" THEN 1 ELSE 4)
        /\ count <= Cap(Task)
    BY <1>2, <2>1, <2>2 DEF LeftBy
  <2>4. Serves(<<>>, 4, 4) /\ Serves(<<Do("suffix")>>, 0, 1)
    BY SinglesServe, ServesNothing
  <2>5. CASE Current = "identifier"
    BY <2>1, <2>2, <2>3, <2>4, <2>5, AsksFor
  <2>6. CASE Current # "identifier"
    BY <2>1, <2>2, <2>3, <2>4, <2>6, AsksFor
  <2> QED
    BY <2>5, <2>6
<1>6. ASSUME Suffix PROVE Running'
  <2>1. /\ todo # <<>> /\ Task.do = "suffix" /\ count' = count + 1
        /\ Then(<<Consume("tick"), Do("attribute"), Task>>) \/ Then(<<>>)
    BY <1>6 DEF Suffix, Doing
  <2>2. /\ Task.do \notin Elements \cup {"in_many", "context_clause", "name"}
        /\ Cap(Task) = 0 /\ Left(Task) = 1
    BY <2>1 DEF Cap, Left, Elements
  <2>3. LeftBy(Task, Current) = 1 /\ count <= Cap(Task)
    BY <1>2, <2>1, <2>2, LeftByIsLess
  <2>4. Task = Do("suffix")
    BY <1>1, <2>1 DEF Tasks, Calls, OpenCalls, Do
  <2>5. /\ Serves(<<>>, 1, 1)
        /\ Serves(<<Consume("tick"), Do("attribute"), Do("suffix")>>, 6, 1)
    BY OtherScripts, ServesNothing
  <2>6. /\ Serves(<<Consume("tick"), Do("attribute"), Task>>, 6, 1)
    BY <2>4, <2>5
  <2> QED
    BY <2>1, <2>2, <2>3, <2>5, <2>6, AsksFor
<1>7. ASSUME Expression PROVE Running'
  <2>1. /\ todo # <<>> /\ Task.do = "expression"
        /\ count' = 0 \/ count' = count + 1
        /\ Then(IF Current = "identifier" THEN <<Do("name")>> ELSE <<>>)
        /\ Current = "identifier" => UNCHANGED <<lexer, file>>
    BY <1>7 DEF Expression, Doing, Look, Skip, context
  <2>2. /\ Task.do \notin Elements \cup {"in_many", "context_clause", "name"}
        /\ Cap(Task) = 0 /\ Left(Task) = 1
    BY <2>1 DEF Cap, Left, Elements
  <2>3. LeftBy(Task, Current) = 1 /\ count = 0 /\ count' \in 0 .. 1
    BY <1>1, <1>2, <2>1, <2>2, LeftByIsLess
  <2>4. Serves(<<>>, 1, 1)
    BY ServesNothing
  <2>5. CASE Current = "identifier"
    <3>1. Current' = "identifier"
      BY <2>1, <2>5 DEF Current, Kind, current_token, lexer
    <3>2. <<Do("name")>> \o <<>> = <<Do("name")>>
      <4>1. <<Do("name")>> \in Seq(PlainCalls)
        BY SinglesServe DEF Serves
      <4> QED
        BY <4>1, ConcatEmptySeq
    <3> DEFINE rest == <<>>
    <3>3. Then(<<Do("name")>> \o rest) /\ Serves(rest, 1, LeftBy(Task, Current))
      BY <2>1, <2>3, <2>4, <2>5, <3>2
    <3> HIDE DEF rest
    <3>4. count' \in Nat /\ count' <= 3
      BY <2>3
    <3> QED
      BY <2>1, <2>2, <3>1, <3>3, <3>4, NameFirst
  <2>6. CASE Current # "identifier"
    BY <2>1, <2>2, <2>3, <2>6, EndsThere
  <2> QED
    BY <2>5, <2>6
<1>8. ASSUME RangeUpTo \/ RangeAgain PROVE Running'
  <2>1. /\ todo # <<>> /\ Task.do = "range_end" /\ count' = count + 1
        /\ Then(UpTo) \/ Then(<<Do("name")>>)
    BY <1>8 DEF RangeUpTo, RangeAgain, Doing, LookAt, Look
  <2>2. /\ Task.do \notin Elements \cup {"in_many", "context_clause", "name"}
        /\ Cap(Task) = 1 /\ Left(Task) = 4
    BY <2>1 DEF Cap, Left, Elements
  <2>3. LeftBy(Task, Current) = 4 /\ count <= Cap(Task)
    BY <1>2, <2>1, <2>2, LeftByIsLess
  <2>4. Serves(UpTo, 6, 1) /\ Serves(<<Do("name")>>, 3, 4)
    BY OtherScripts, SinglesServe
  <2> QED
    BY <2>1, <2>2, <2>3, <2>4, AsksFor
<1>9. ASSUME ParseRange PROVE Running'
  <2>1. /\ todo # <<>> /\ Task.do = "range" /\ count' = count
        /\ Then(<<Do("expression"), Do("range_end")>>)
    BY <1>9 DEF ParseRange, Doing
  <2>2. /\ Task.do \notin Elements \cup {"in_many", "context_clause", "name"}
        /\ Cap(Task) = 0 /\ Left(Task) = 4
    BY <2>1 DEF Cap, Left, Elements
  <2>3. LeftBy(Task, Current) = 4 /\ count <= Cap(Task)
    BY <1>2, <2>1, <2>2, LeftByIsLess
  <2>4. Serves(<<Do("expression"), Do("range_end")>>, 0, 4)
    BY OtherScripts
  <2> QED
    BY <2>1, <2>2, <2>3, <2>4, AsksFor
<1> QED
  BY <1>3, <1>4, <1>5, <1>6, <1>7, <1>8, <1>9

--------------------------------------------------------------------------------
(* Elements, and what is ahead of them.                                    *)

LEMMA AheadIs ==
  ASSUME Whole, NEW nth \in Nat
  PROVE  Ahead(nth) = Kind(current_token + nth)
PROOF
<1> DEFINE Q == lookahead_tokens_
<1>1. current_token \in Nat
  BY RingIndexes DEF Whole, Token
<1>2. CASE nth = 0
  BY <1>1, <1>2 DEF Ahead
<1>3. CASE nth # 0
  <2>1. /\ Len(Q) \in Nat /\ lexed = current_token + Len(Q)
        /\ \A i \in 1 .. Len(Q) : Q[i] = current_token + i
    BY LenProperties DEF Whole, LexerTypeOK, QueueFollowsOn
  <2>2. Peeked(nth)[nth] = current_token + nth
    <3>1. CASE Len(Q) >= nth
      BY <1>3, <2>1, <3>1 DEF Peeked
    <3>2. CASE ~ (Len(Q) >= nth)
      <4> DEFINE s == [i \in 1 .. nth |-> IF i <= Len(Q) THEN Q[i] ELSE lexed + i - Len(Q)]
      <4>1. Peeked(nth) = s
        BY <3>2 DEF Peeked
      <4>2. nth \in 1 .. nth /\ ~ (nth <= Len(Q))
        BY <1>3, <2>1, <3>2
      <4>3. s[nth] = lexed + nth - Len(Q)
        BY <4>2
      <4> HIDE DEF s
      <4>4. lexed + nth - Len(Q) = current_token + nth
        BY <1>1, <2>1
      <4> QED
        BY <4>1, <4>3, <4>4
    <3> QED
      BY <3>1, <3>2
  <2> QED
    BY <1>3, <2>2 DEF Ahead
<1> QED
  BY <1>2, <1>3

LEMMA LabelIsThere ==
  ASSUME Whole
  PROVE  /\ Matches(current_token, <<"identifier", "colon">>) <=> HasLabel
         /\ HasLabel => First = Kind(current_token + 2)
         /\ ~ HasLabel => First = Current
         /\ HasLabel \in BOOLEAN
PROOF
<1>1. current_token \in Nat
  BY RingIndexes DEF Whole, Token
<1>2. /\ Ahead(0) = Kind(current_token) /\ Ahead(1) = Kind(current_token + 1)
      /\ Ahead(2) = Kind(current_token + 2)
  <2>1. current_token + 0 = current_token /\ 0 \in Nat /\ 1 \in Nat /\ 2 \in Nat
    BY <1>1
  <2> QED
    BY <2>1, AheadIs
<1>3. HasLabel <=> Kind(current_token) = "identifier" /\ Kind(current_token + 1) = "colon"
  BY <1>2 DEF HasLabel, Current
<1>4. Matches(current_token, <<"identifier", "colon">>) <=>
        Kind(current_token) = "identifier" /\ Kind(current_token + 1) = "colon"
  <2> DEFINE kinds == <<"identifier", "colon">>
  <2>1. DOMAIN kinds = {1, 2} /\ kinds[1] = "identifier" /\ kinds[2] = "colon"
    OBVIOUS
  <2>2. current_token + 1 - 1 = current_token /\ current_token + 2 - 1 = current_token + 1
    BY <1>1
  <2> HIDE DEF kinds
  <2>3. (\A i \in DOMAIN kinds : Kind(current_token + i - 1) = kinds[i]) <=>
          Kind(current_token) = "identifier" /\ Kind(current_token + 1) = "colon"
    BY <2>1, <2>2
  <2> QED
    BY <2>3 DEF Matches, kinds
<1> QED
  BY <1>2, <1>3, <1>4 DEF First, HasLabel, Current

(* A dispatcher starts nothing exactly where a label stands alone.         *)
LEMMA EntityDispatches ==
  ASSUME Whole, BeginsElement(Current, "entity_statement_part")
  PROVE  /\ EntityStatementScript = <<>> <=> StuckIn("entity_statement_part")
         /\ EntityStatementScript # <<>> => Serves(EntityStatementScript, 2, 0)
PROOF
<1>1. /\ Matches(current_token, <<"identifier", "colon">>) <=> HasLabel
      /\ HasLabel => First = Kind(current_token + 2)
      /\ ~ HasLabel => First = Current
      /\ HasLabel \in BOOLEAN
  BY LabelIsThere
<1>2. \A token : BeginsElement(token, "entity_statement_part")
                   <=> token \in {"identifier", "process"}
  BY DEF BeginsElement, DeclarativeParts
<1>3. StuckIn("entity_statement_part") <=> First \notin {"identifier", "process"}
  BY <1>1, <1>2 DEF StuckIn, DeclarativeParts
<1>4. /\ Serves(ProcedureCall(HasLabel), 2, 0) /\ ProcedureCall(HasLabel) # <<>>
      /\ Serves(Process(HasLabel), 2, 0) /\ Process(HasLabel) # <<>>
  BY <1>1, LabelsServe, ServesSooner
<1>5. CASE First = "identifier"
  BY <1>3, <1>4, <1>5 DEF EntityStatementScript
<1>6. CASE First = "process"
  BY <1>3, <1>4, <1>6 DEF EntityStatementScript
<1>7. CASE First \notin {"identifier", "process"}
  BY <1>3, <1>7 DEF EntityStatementScript
<1> QED
  BY <1>5, <1>6, <1>7

LEMMA ConcurrentDispatches ==
  ASSUME Whole, BeginsElement(Current, "concurrent_statements")
  PROVE  /\ ConcurrentScript = <<>> <=> StuckIn("concurrent_statements")
         /\ ConcurrentScript # <<>> => Serves(ConcurrentScript, 2, 0)
PROOF
<1>1. /\ Matches(current_token, <<"identifier", "colon">>) <=> HasLabel
      /\ HasLabel => First = Kind(current_token + 2)
      /\ ~ HasLabel => First = Current
      /\ HasLabel \in BOOLEAN
  BY LabelIsThere
<1>2. \A token : BeginsElement(token, "concurrent_statements")
                   <=> token \in {"identifier", "process", "entity", "if"}
  BY DEF BeginsElement, DeclarativeParts
<1>3. /\ Current = "if" => ~ HasLabel
      /\ Ahead(2) = Kind(current_token + 2)
  <2>1. 2 \in Nat
    OBVIOUS
  <2> QED
    BY <2>1, AheadIs DEF HasLabel
<1>4. StuckIn("concurrent_statements") <=>
        \/ First \notin {"identifier", "process", "entity", "if"}
        \/ First = "if" /\ Ahead(2) # "if"
  <2>1. CASE HasLabel
    BY <1>1, <1>2, <1>3, <2>1 DEF StuckIn, DeclarativeParts
  <2>2. CASE ~ HasLabel
    BY <1>1, <1>2, <1>3, <2>2 DEF StuckIn, DeclarativeParts
  <2> QED
    BY <2>1, <2>2
<1>5. /\ Serves(ProcedureCall(HasLabel), 2, 0) /\ ProcedureCall(HasLabel) # <<>>
      /\ Serves(Process(HasLabel), 2, 0) /\ Process(HasLabel) # <<>>
      /\ Serves(IfGenerate(HasLabel), 2, 0) /\ IfGenerate(HasLabel) # <<>>
  BY <1>1, LabelsServe, ServesSooner
<1>6. Serves(Instantiation, 2, 0) /\ Instantiation # <<>>
  BY OtherScripts DEF Instantiation
<1>7. CASE First = "identifier"
  BY <1>4, <1>5, <1>6, <1>7 DEF ConcurrentScript
<1>8. CASE First = "process"
  BY <1>4, <1>5, <1>8 DEF ConcurrentScript
<1>9. CASE First = "entity"
  BY <1>4, <1>6, <1>9 DEF ConcurrentScript
<1>10. CASE First = "if" /\ Ahead(2) = "if"
  BY <1>4, <1>5, <1>10 DEF ConcurrentScript
<1>11. CASE First = "if" /\ Ahead(2) # "if"
  BY <1>4, <1>11 DEF ConcurrentScript
<1>12. CASE First \notin {"identifier", "process", "entity", "if"}
  BY <1>4, <1>12 DEF ConcurrentScript
<1> QED
  BY <1>7, <1>8, <1>9, <1>10, <1>11, <1>12

(* An element that is not taken leaves its list stuck.                     *)
LEMMA StaysStuck ==
  ASSUME todo \in Seq(Tasks), todo # <<>>, Joined(todo, Current), Ordered(todo),
         Then(<<>>), Len(todo) > 1, todo[2].do = "in_many", StuckIn(todo[2].state),
         UNCHANGED <<file, tokens_, current_one_>>
  PROVE  Running'
PROOF
<1>1. /\ Joined(todo', Current') /\ Ordered(todo')
      /\ Len(todo') = Len(todo) - 1 /\ Len(todo) \in Nat /\ todo' \in Seq(Tasks)
      /\ todo' # <<>> => todo'[1] = todo[2]
  BY Drops
<1>2. Len(todo') # 0
  BY <1>1
<1>3. todo'[1] = todo[2]
  BY <1>1, <1>2, EmptySeq
<1>4. Begun'
  BY <1>3 DEF Begun, Bare, Elements
<1>5. Stuck'
  BY <1>3 DEF Stuck, StuckIn, Current, Kind, Matches, current_token
<1>6. Bounded'
  BY <1>5 DEF Bounded
<1> QED
  BY <1>1, <1>4, <1>6 DEF Running

LEMMA NoAssert ==
  ASSUME todo \in Seq(Tasks), todo # <<>>, NeverGetHere, outcome = "parsing", Parsing'
  PROVE  Then(<<>>)
PROOF
<1>1. todo' = Tail(todo)
  BY DEF NeverGetHere, Parsing
<1>2. Tail(todo) \in Seq(Tasks)
  BY HeadTailProperties
<1> QED
  BY <1>1, <1>2, ConcatEmptySeq DEF Then

(* What is known of an element that begins.                                *)
LEMMA AnElement ==
  ASSUME Running, todo # <<>>, Task = todo[1], Task.do \in Elements
  PROVE  /\ Len(todo) > 1 /\ todo[2].do = "in_many"
         /\ IsElementOf(Task, todo[2].state)
         /\ BeginsElement(Current, todo[2].state)
         /\ count <= Cap(Task) \/ StuckIn(todo[2].state)
PROOF
<1>1. Task.do # "in_many"
  BY DEF Elements
<1> QED
  BY <1>1 DEF Running, Begun, Bounded, Stuck, AtTheEnd

LEMMA ElementsRun ==
  ASSUME ParserInv, Running, Parsing',
         NoDeclaration \/ ObjectDeclaration \/ EntityStatement
         \/ ConcurrentStatement \/ SequentialStatement
  PROVE  Running'
PROOF
<1>1. todo # <<>> => /\ Task \in Tasks /\ Task = todo[1]
                     /\ todo \in Seq(Tasks) /\ Joined(todo, Current) /\ Ordered(todo)
                     /\ count \in Nat
  BY AtTheTask
<1>2. ASSUME todo # <<>>, Task.do \in Elements
      PROVE  /\ Len(todo) > 1 /\ todo[2].do = "in_many"
             /\ IsElementOf(Task, todo[2].state)
             /\ BeginsElement(Current, todo[2].state)
             /\ count <= Cap(Task) \/ StuckIn(todo[2].state)
  BY <1>1, <1>2, AnElement
<1>3. Whole
  BY DEF ParserInv
<1>4. ASSUME NoDeclaration PROVE Running'
  <2>1. /\ todo # <<>> /\ Task.do = "declaration" /\ Then(<<>>)
        /\ Current \in {"package", "group"} /\ UNCHANGED <<file, tokens_, current_one_>>
    BY <1>4 DEF NoDeclaration, Doing, LookAt, Look, context, lexer
  <2>2. /\ Len(todo) > 1 /\ todo[2].do = "in_many" /\ todo[2].state \in DeclarativeParts
    BY <1>2, <2>1 DEF Elements, IsElementOf
  <2>3. StuckIn(todo[2].state)
    BY <2>1, <2>2 DEF StuckIn
  <2> QED
    BY <1>1, <2>1, <2>2, <2>3, StaysStuck
<1>5. ASSUME ObjectDeclaration PROVE Running'
  <2>1. /\ todo # <<>> /\ Task.do = "declaration" /\ Then(VariableDeclaration)
        /\ Current \notin {"package", "group"} /\ count' = count + 1
    BY <1>5 DEF ObjectDeclaration, Doing, Look
  <2>2. /\ todo[2].state \in DeclarativeParts
        /\ count <= Cap(Task) \/ StuckIn(todo[2].state)
    BY <1>2, <2>1 DEF Elements, IsElementOf
  <2>3. ~ StuckIn(todo[2].state)
    BY <2>1, <2>2 DEF StuckIn, DeclarativeParts
  <2>4. /\ Task.do \notin {"context_clause", "name"}
        /\ Cap(Task) = 2 /\ Left(Task) = 0
    BY <2>1 DEF Cap, Left
  <2>5. LeftBy(Task, Current) = 0 /\ count <= Cap(Task)
    BY <2>2, <2>3, <2>4, LeftByIsLess
  <2>6. Serves(VariableDeclaration, 6, 0)
    BY OtherScripts
  <2> QED
    BY <2>1, <2>4, <2>5, <2>6, AsksFor
<1>6. ASSUME EntityStatement PROVE Running'
  <2> DEFINE script == EntityStatementScript
  <2>1. /\ todo # <<>> /\ Task.do = "entity_statement" /\ count' = count
        /\ UNCHANGED <<file, tokens_, current_one_>> /\ outcome = "parsing"
        /\ IF script = <<>> THEN NeverGetHere ELSE Then(script)
    BY <1>6 DEF EntityStatement, Doing, Parsing, peek, NeverGetHere, context
  <2>2. /\ Len(todo) > 1 /\ todo[2].do = "in_many"
        /\ todo[2].state = "entity_statement_part"
        /\ BeginsElement(Current, "entity_statement_part")
        /\ count <= Cap(Task) \/ StuckIn("entity_statement_part")
    BY <1>2, <2>1 DEF Elements, IsElementOf
  <2>3. /\ script = <<>> <=> StuckIn("entity_statement_part")
        /\ script # <<>> => Serves(script, 2, 0)
    BY <1>3, <2>2, EntityDispatches
  <2> HIDE DEF script
  <2>4. /\ Task.do \notin {"context_clause", "name"}
        /\ Cap(Task) = 2 /\ Left(Task) = 1
    BY <2>1 DEF Cap, Left
  <2>5. LeftBy(Task, Current) = 1
    BY <2>4, LeftByIsLess
  <2>6. CASE script = <<>>
    <3>1. Then(<<>>)
      BY <1>1, <2>1, <2>6, NoAssert
    <3> QED
      BY <1>1, <2>1, <2>2, <2>3, <2>6, <3>1, StaysStuck
  <2>7. CASE script # <<>>
    BY <2>1, <2>2, <2>3, <2>4, <2>5, <2>7, AsksFor
  <2> QED
    BY <2>6, <2>7
<1>7. ASSUME ConcurrentStatement PROVE Running'
  <2> DEFINE script == ConcurrentScript
  <2>1. /\ todo # <<>> /\ Task.do = "concurrent" /\ count' = count
        /\ UNCHANGED <<file, tokens_, current_one_>> /\ outcome = "parsing"
        /\ IF script = <<>> /\ First # "if" THEN NeverGetHere ELSE Then(script)
    BY <1>7 DEF ConcurrentStatement, Doing, Parsing, peek, NeverGetHere, context
  <2>2. /\ Len(todo) > 1 /\ todo[2].do = "in_many"
        /\ todo[2].state = "concurrent_statements"
        /\ BeginsElement(Current, "concurrent_statements")
        /\ count <= Cap(Task) \/ StuckIn("concurrent_statements")
    BY <1>2, <2>1 DEF Elements, IsElementOf
  <2>3. /\ script = <<>> <=> StuckIn("concurrent_statements")
        /\ script # <<>> => Serves(script, 2, 0)
    BY <1>3, <2>2, ConcurrentDispatches
  <2> HIDE DEF script
  <2>4. /\ Task.do \notin {"context_clause", "name"}
        /\ Cap(Task) = 2 /\ Left(Task) = 1
    BY <2>1 DEF Cap, Left
  <2>5. LeftBy(Task, Current) = 1
    BY <2>4, LeftByIsLess
  <2>6. CASE script = <<>>
    <3>1. Then(<<>>)
      <4>1. CASE First = "if"
        BY <2>1, <2>6, <4>1
      <4>2. CASE First # "if"
        BY <1>1, <2>1, <2>6, <4>2, NoAssert
      <4> QED
        BY <4>1, <4>2
    <3> QED
      BY <1>1, <2>1, <2>2, <2>3, <2>6, <3>1, StaysStuck
  <2>7. CASE script # <<>>
    BY <2>1, <2>2, <2>3, <2>4, <2>5, <2>7, AsksFor
  <2> QED
    BY <2>6, <2>7
<1>8. ASSUME SequentialStatement PROVE Running'
  <2>1. /\ todo # <<>> /\ Task.do = "sequential" /\ count' = count
        /\ UNCHANGED <<file, tokens_, current_one_>>
        /\ Then(Append(Label(HasLabel), Statement(HasLabel)))
    BY <1>8 DEF SequentialStatement, Doing, peek, context, lexer
  <2>2. /\ todo[2].state = "sequential_statements"
        /\ BeginsElement(Current, "sequential_statements")
        /\ count <= Cap(Task) \/ StuckIn("sequential_statements")
    BY <1>2, <2>1 DEF Elements, IsElementOf
  <2>3. ~ StuckIn("sequential_statements")
    BY DEF StuckIn, DeclarativeParts
  <2>4. BeginsElement(Current, "sequential_statements")
    BY <2>2
  <2>5. /\ Task.do \notin {"context_clause", "name"}
        /\ Cap(Task) = 2 /\ Left(Task) = 1
    BY <2>1 DEF Cap, Left
  <2>6. LeftBy(Task, Current) = 1 /\ count <= Cap(Task)
    BY <2>2, <2>3, <2>5, LeftByIsLess
  <2>7. CASE HasLabel
    <3> DEFINE script == Append(Label(TRUE), Statement(TRUE))
    <3>1. HasLabel = TRUE
      BY <1>3, <2>7, LabelIsThere
    <3>2. Append(Label(HasLabel), Statement(HasLabel)) = script
      BY <3>1, Zenon
    <3>3. Then(script) /\ Serves(script, 6, 1)
      BY <2>1, <3>2, OtherScripts
    <3> HIDE DEF script
    <3> QED
      BY <2>1, <2>5, <2>6, <3>3, AsksFor
  <2>8. CASE ~ HasLabel
    <3> DEFINE bare == Statement(FALSE)
    <3>1. HasLabel = FALSE
      BY <1>3, <2>8, LabelIsThere
    <3>2. Append(Label(HasLabel), Statement(HasLabel)) = <<bare>>
      <4>1. Append(Label(FALSE), bare) = <<bare>>
        BY DEF Label
      <4>2. bare = Statement(FALSE)
        OBVIOUS
      <4> HIDE DEF bare
      <4> QED
        BY <3>1, <4>1, <4>2, Zenon
    <3>3. /\ bare \in Tasks /\ bare.do = "statement" /\ Cap(bare) = 2
          /\ LeftBy(bare, Current') = 1
      BY EachIsACall DEF Statement, Cap, Left, LeftBy, Tasks
    <3> HIDE DEF bare
    <3>4. /\ <<bare>> \in Seq(Tasks) /\ <<bare>> # <<>> /\ Len(<<bare>>) = 1
          /\ <<bare>>[1] = bare
      BY <3>3
    <3>5. /\ Joined(<<bare>>, Current') /\ Ordered(<<bare>>)
          /\ LeftByAll(<<bare>>, Current') = 1
      BY <3>3, <3>4 DEF Joined, Ordered, LeftByAll
    <3>6. /\ Joined(todo', Current') /\ Ordered(todo') /\ todo'[1] = bare
      <4> DEFINE script == <<bare>>
      <4>1. /\ script \in Seq(Tasks) /\ script # <<>> /\ Len(script) = 1
            /\ script[1] = bare /\ Then(script)
            /\ Joined(script, Current') /\ Ordered(script)
            /\ LeftByAll(script, Current') <= LeftBy(Task, Current)
        BY <2>1, <2>6, <3>2, <3>4, <3>5
      <4> HIDE DEF script
      <4>2. /\ Joined(todo', Current') /\ Ordered(todo')
            /\ \A i \in 1 .. Len(script) : todo'[i] = script[i]
        BY <1>1, <2>1, <2>5, <4>1, Takes
      <4> QED
        BY <4>1, <4>2
    <3>7. BeginsElement(Current', "sequential_statements")
      <4>1. Current' = Current
        BY <2>1 DEF Current, Kind, current_token
      <4> QED
        BY <2>4, <4>1
    <3>8. Begun'
      BY <3>3, <3>6, <3>7 DEF Begun, Elements
    <3>9. Bounded'
      BY <2>1, <2>5, <2>6, <3>3, <3>6 DEF Bounded
    <3> QED
      BY <3>6, <3>8, <3>9 DEF Running
  <2> QED
    BY <2>7, <2>8
<1> QED
  BY <1>4, <1>5, <1>6, <1>7, <1>8

LEMMA StatementsRun ==
  ASSUME ParserInv, Running, Parsing',
         InstantiationLabel \/ Generate \/ GenerateBody
         \/ LabelledStatement \/ NoStatement \/ CallEnd
  PROVE  Running'
PROOF
<1>1. todo # <<>> => /\ Task \in Tasks /\ Task = todo[1]
                     /\ todo \in Seq(Tasks) /\ Joined(todo, Current) /\ Ordered(todo)
                     /\ count \in Nat
  BY AtTheTask
<1>2. ASSUME todo # <<>>, Task.do \notin Elements \cup {"in_many"} PROVE count <= Cap(Task)
  BY <1>1, <1>2, CountNow
<1>3. ASSUME InstantiationLabel PROVE Running'
  <2>1. /\ todo # <<>> /\ Task.do = "inst_label"
        /\ \/ count' = 0 /\ Then(<<Consume("colon")>>)
           \/ count' = count /\ Then(<<Optional("colon", <<>>)>>)
    BY <1>3 DEF InstantiationLabel, Doing, Skip, Stay
  <2>2. /\ Task.do \notin Elements \cup {"in_many", "context_clause", "name"}
        /\ Cap(Task) = 2 /\ Left(Task) = 2
    BY <2>1 DEF Cap, Left, Elements
  <2>3. LeftBy(Task, Current) = 2 /\ count <= Cap(Task)
    BY <1>2, <2>1, <2>2, LeftByIsLess
  <2>4. Serves(<<Consume("colon")>>, 6, 2) /\ Serves(<<Optional("colon", <<>>)>>, 2, 2)
    BY SinglesServe
  <2> QED
    BY <2>1, <2>2, <2>3, <2>4, AsksFor
<1>4. ASSUME LabelledStatement PROVE Running'
  <2>1. /\ todo # <<>> /\ Task.do = "statement" /\ count' = count + 1
        /\ Then(StatementScript) /\ Current \in {"identifier", "loop", "null", "if"}
        /\ UNCHANGED <<lexer, file>>
    BY <1>4 DEF LabelledStatement, Doing, Look, context, BeginsElement, DeclarativeParts
  <2>2. /\ Task.do \notin Elements \cup {"in_many", "context_clause", "name"}
        /\ Cap(Task) \in 0 .. 2 /\ Left(Task) = 1
    BY <2>1 DEF Cap, Left, Elements
  <2>3. LeftBy(Task, Current) = 1 /\ count <= Cap(Task)
    BY <1>2, <2>1, <2>2, LeftByIsLess
  <2>4. Task.labelled \in BOOLEAN
    BY <1>1, <2>1 DEF Tasks, Calls, OpenCalls, Simple
  <2>5. count' \in Nat /\ count' <= 3
    BY <1>1, <2>1, <2>2, <2>3
  <2>6. CASE Current = "identifier"
    <3> DEFINE rest == <<Do("call_end")>>
    <3>1. StatementScript = <<Do("name")>> \o rest
      BY <2>6 DEF StatementScript
    <3>2. Serves(rest, 1, 1)
      <4>1. Do("call_end") \in PlainCalls
        BY PlainOnes DEF Plain, Simple, Elements
      <4> QED
        BY <4>1, CapsOfSimple, ServesOne
    <3>3. Current' = "identifier"
      BY <2>1, <2>6 DEF Current, Kind, current_token, lexer
    <3> HIDE DEF rest
    <3> QED
      BY <2>1, <2>2, <2>3, <2>5, <3>1, <3>2, <3>3, NameFirst
  <2>7. CASE Current # "identifier"
    <3>1. /\ Serves(Loop(Task.labelled), 6, 0) /\ Serves(If(Task.labelled), 6, 0)
          /\ Serves(<<Consume("null"), Consume("semicolon")>>, 6, 0)
      BY <2>4, LabelsServe, OtherScripts
    <3>2. Serves(StatementScript, 6, 0)
      BY <2>1, <2>7, <3>1 DEF StatementScript
    <3> QED
      BY <2>1, <2>2, <2>3, <3>2, AsksFor
  <2> QED
    BY <2>6, <2>7
<1>5. ASSUME NoStatement PROVE Running'
  <2>1. /\ todo # <<>> /\ Task.do = "statement" /\ count' = count + 1
        /\ ~ BeginsElement(Current, "sequential_statements")
        /\ NeverGetHere /\ outcome = "parsing"
    BY <1>5 DEF NoStatement, Doing, Parsing, Look
  <2>2. Task.labelled
    BY <1>1, <2>1 DEF Running, Begun, Bare
  <2>3. /\ Task.do \notin Elements \cup {"in_many", "context_clause", "name"}
        /\ Cap(Task) = 0 /\ Left(Task) = 1
    BY <2>1, <2>2 DEF Cap, Left, Elements
  <2>4. LeftBy(Task, Current) = 1
    BY <2>3, LeftByIsLess
  <2>5. Then(<<>>)
    BY <1>1, <2>1, NoAssert
  <2> QED
    BY <2>1, <2>3, <2>4, <2>5, EndsThere
<1>6. ASSUME CallEnd PROVE Running'
  <2>1. /\ todo # <<>> /\ Task.do = "call_end"
        /\ \/ count' = count + 1 /\ Then(<<Consume("semicolon")>>)
           \/ count' = 0 /\ Then(<<>>)
    BY <1>6 DEF CallEnd, Doing, Look, Skip
  <2>2. /\ Task.do \notin Elements \cup {"in_many", "context_clause", "name"}
        /\ Cap(Task) = 1 /\ Left(Task) = 0
    BY <2>1 DEF Cap, Left, Elements
  <2>3. LeftBy(Task, Current) = 0 /\ count <= Cap(Task)
    BY <1>2, <2>1, <2>2, LeftByIsLess
  <2>4. Serves(<<Consume("semicolon")>>, 6, 0)
    BY SinglesServe
  <2>5. CASE Then(<<>>) /\ count' = 0
    BY <2>1, <2>2, <2>5, EndsThere
  <2>6. CASE Then(<<Consume("semicolon")>>) /\ count' = count + 1
    BY <2>1, <2>2, <2>3, <2>4, <2>6, AsksFor
  <2> QED
    BY <2>1, <2>5, <2>6
<1>7. ASSUME Generate \/ GenerateBody PROVE Running'
  <2> DEFINE declared == <<Many("declarative_part_begin", "block"), Consume("begin"),
                           Do("generate_body")>>
             begun == <<Consume("begin"), Do("generate_body")>>
             statements == <<Many("concurrent_statements", "none")>>
  <2>1. /\ todo # <<>> /\ Task.do \in {"generate", "generate_body"} /\ count' = count + 1
        /\ Then(declared) \/ Then(begun) \/ Then(statements) \/ Then(<<>>)
    BY <1>7 DEF Generate, GenerateBody, GenerateStatements, Doing, Look
  <2>2. /\ Task.do \notin Elements \cup {"in_many", "context_clause", "name"}
        /\ Cap(Task) = 0 /\ Left(Task) = 2
    BY <2>1 DEF Cap, Left, Elements
  <2>3. LeftBy(Task, Current) = 2 /\ count <= Cap(Task)
    BY <1>2, <2>1, <2>2, LeftByIsLess
  <2>4. /\ Serves(declared, 1, 2) /\ Serves(begun, 6, 2)
        /\ Serves(statements, 1, 2) /\ Serves(<<>>, 1, 2)
    BY OtherScripts, SinglesServe, ServesNothing
  <2> HIDE DEF declared, begun, statements
  <2>5. CASE Then(declared)
    BY <2>1, <2>2, <2>3, <2>4, <2>5, AsksFor
  <2>6. CASE Then(begun)
    BY <2>1, <2>2, <2>3, <2>4, <2>6, AsksFor
  <2>7. CASE Then(statements)
    BY <2>1, <2>2, <2>3, <2>4, <2>7, AsksFor
  <2>8. CASE Then(<<>>)
    BY <2>1, <2>2, <2>3, <2>4, <2>8, AsksFor
  <2> QED
    BY <2>1, <2>5, <2>6, <2>7, <2>8
<1> QED
  BY <1>3, <1>4, <1>5, <1>6, <1>7

--------------------------------------------------------------------------------
(* The lists: what begins an element, what leaves and what is skipped.     *)

(* Where an element can begin, its list goes on.                           *)
LEMMA StuckBegins ==
  ASSUME Whole, NEW state, StuckIn(state)
  PROVE  BeginsElement(Current, state) /\ ~ EndsState(Current, state)
PROOF
<1>1. \/ state \in DeclarativeParts /\ Current \in {"package", "group"}
      \/ /\ state \in {"entity_statement_part", "concurrent_statements"}
         /\ Current = "identifier"
      \/ state = "concurrent_statements" /\ Current = "if"
  <2>1. Matches(current_token, <<"identifier", "colon">>) => Current = "identifier"
    BY LabelIsThere DEF HasLabel
  <2> QED
    BY <2>1 DEF StuckIn
<1> QED
  BY <1>1 DEF BeginsElement, EndsState, Closes, DeclarativeParts

LEMMA LeavingRuns == ASSUME ParserInv, Running, LeaveMany PROVE Running'
PROOF
<1>1. /\ todo # <<>> /\ Task.do = "in_many" /\ Then(<<>>) /\ count' = count + 1
      /\ EndsState(Current, Task.state) \/ ~ BeginsElement(Current, Task.state)
  BY DEF LeaveMany, Doing, Look
<1>2. /\ Task \in Tasks /\ Task = todo[1]
      /\ todo \in Seq(Tasks) /\ Joined(todo, Current) /\ Ordered(todo)
      /\ count \in Nat
  BY <1>1, AtTheTask
<1>3. /\ Joined(todo', Current') /\ Ordered(todo') /\ Len(todo) \in Nat \ {0}
      /\ Len(todo') = Len(todo) - 1 /\ todo' \in Seq(Tasks)
      /\ todo' # <<>> => /\ Len(todo) > 1
                         /\ LeftBy(Task, Current) <= Cap(todo'[1])
                         /\ Inner(todo'[1])
                         /\ todo'[1].do # "design_unit"
  BY <1>1, <1>2, Drops
<1>4. LeftBy(Task, Current) = Left(Task)
  BY <1>1, LeftByIsLess
<1>5. CASE todo' = <<>>
  BY <1>3, <1>5, Goes
<1>6. CASE todo' # <<>>
  <2>1. Cap(todo'[1]) \in 0 .. 6
    BY CapsAreSmall
  <2>2. Task.state # UnitsState
    <3>1. ASSUME Task.state = UnitsState PROVE Left(Task) = 7
      BY <1>1, <3>1 DEF Left
    <3> QED
      BY <1>3, <1>4, <1>6, <2>1, <3>1
  <2>3. Left(Task) = 2 /\ Cap(Task) = 1
    BY <1>1, <2>2 DEF Left, Cap
  <2>4. ~ StuckIn(Task.state)
    <3>1. Whole
      BY DEF ParserInv
    <3> QED
      BY <1>1, <3>1, StuckBegins
  <2>5. count <= 1
    BY <1>1, <1>2, <2>2, <2>3, <2>4 DEF Running, Bounded, Stuck, AtTheEnd, Elements
  <2>6. count' <= Cap(todo'[1])
    BY <1>1, <1>2, <1>3, <1>4, <1>6, <2>1, <2>3, <2>5
  <2> QED
    BY <1>3, <1>6, <2>6, Goes
<1> QED
  BY <1>5, <1>6

LEMMA SkippingRuns == ASSUME ParserInv, Running, SkipInMany PROVE Running'
PROOF
<1>1. todo # <<>> /\ Task.do = "in_many" /\ todo' = todo /\ count' = 0
  BY DEF SkipInMany, Doing, Skip
<1>2. Task = todo[1] /\ Joined(todo, Current) /\ Ordered(todo)
  BY <1>1, AtTheTask
<1>3. count' <= Cap(todo[1])
  <2>1. Cap(todo[1]) \in 0 .. 6
    BY CapsAreSmall
  <2> QED
    BY <1>1, <2>1
<1> QED
  BY <1>1, <1>2, <1>3, Stays

(* No unit after a context clause: the list of units is at the end.        *)
LEMMA NoUnitRuns == ASSUME ParserInv, Running, NoDesignUnit, Parsing' PROVE Running'
PROOF
<1>1. /\ todo # <<>> /\ Task.do = "design_unit" /\ Current \notin UnitKeywords
      /\ count' = count + 1 /\ NeverGetHere /\ outcome = "parsing"
      /\ UNCHANGED <<lexer, file>>
  BY DEF NoDesignUnit, Doing, Parsing, Look, NeverGetHere
<1>2. /\ Task = todo[1]
      /\ todo \in Seq(Tasks) /\ Joined(todo, Current) /\ Ordered(todo)
      /\ count \in Nat
  BY <1>1, AtTheTask
<1>3. Then(<<>>)
  BY <1>1, <1>2, NoAssert
<1>4. Current = "eof"
  BY <1>1, <1>2 DEF Running, Begun
<1>5. Current' = "eof"
  BY <1>1, <1>4 DEF Current, Kind, current_token, lexer
<1>6. /\ Joined(todo', Current') /\ Ordered(todo') /\ Len(todo) \in Nat \ {0}
      /\ Len(todo') = Len(todo) - 1 /\ todo' \in Seq(Tasks)
      /\ todo' # <<>> => todo'[1] = todo[2]
  BY <1>2, <1>3, <1>1, Drops
<1>7. /\ 1 < Len(todo) /\ todo[2].do = "in_many" /\ todo[2].state = UnitsState
  <2>1. 1 \in 1 .. Len(todo) /\ 1 + 1 = 2
    BY <1>6
  <2> QED
    BY <1>1, <1>2, <2>1 DEF Ordered
<1>8. todo'[1] = todo[2]
  <2>1. Len(todo') # 0
    BY <1>6, <1>7
  <2> QED
    BY <1>6, <2>1, EmptySeq
<1>9. count' <= 6
  <2>1. Cap(Task) = 5 /\ Task.do \notin Elements \cup {"in_many"}
    BY <1>1 DEF Cap, Elements
  <2>2. count <= 5
    BY <1>1, <1>2, <2>1, CountNow
  <2> QED
    BY <1>1, <1>2, <2>2
<1>10. Begun'
  BY <1>7, <1>8 DEF Begun, Bare, Elements
<1>11. Bounded'
  BY <1>5, <1>7, <1>8, <1>9 DEF Bounded, AtTheEnd
<1> QED
  BY <1>6, <1>10, <1>11 DEF Running

(* What a list begins is followed by the list.                             *)
LEMMA AppendToOne ==
  ASSUME NEW S, NEW a \in S, NEW t \in S
  PROVE  Append(<<a>>, t) = <<a, t>>
PROOF
<1>1. <<a>> \in Seq(S) /\ Len(<<a>>) = 1 /\ <<a>>[1] = a
  OBVIOUS
<1> DEFINE s == <<a>>
           q == Append(s, t)
           r == <<a, t>>
<1>2. /\ q \in Seq(S) /\ Len(q) = 2 /\ q[1] = a /\ q[2] = t
  <2>1. s \in Seq(S) /\ Len(s) = 1 /\ s[1] = a
    BY <1>1
  <2>2. 1 \in 1 .. Len(s) /\ Len(s) + 1 = 2
    BY <2>1
  <2> HIDE DEF s
  <2>3. /\ q \in Seq(S) /\ Len(q) = Len(s) + 1
        /\ \A i \in 1 .. Len(s) : q[i] = s[i]
        /\ q[Len(s) + 1] = t
    <3>1. ASSUME NEW z \in Seq(S)
          PROVE  /\ Append(z, t) \in Seq(S) /\ Len(Append(z, t)) = Len(z) + 1
                 /\ \A i \in 1 .. Len(z) : Append(z, t)[i] = z[i]
                 /\ Append(z, t)[Len(z) + 1] = t
      BY AppendProperties
    <3> QED
      BY <2>1, <3>1, Zenon
  <2> HIDE DEF q
  <2> QED
    BY <2>1, <2>2, <2>3
<1>3. /\ r \in Seq(S) /\ Len(r) = 2 /\ r[1] = a /\ r[2] = t
  OBVIOUS
<1> HIDE DEF q, r
<1>4. q = r
  BY <1>2, <1>3, SeqEqual
<1> QED
  BY <1>4 DEF q, r

LEMMA AppendToTwo ==
  ASSUME NEW S, NEW a \in S, NEW b \in S, NEW t \in S
  PROVE  Append(<<a, b>>, t) = <<a, b, t>>
PROOF
<1>1. <<a, b>> \in Seq(S) /\ Len(<<a, b>>) = 2 /\ <<a, b>>[1] = a /\ <<a, b>>[2] = b
  OBVIOUS
<1> DEFINE s == <<a, b>>
           q == Append(s, t)
           r == <<a, b, t>>
<1>2. /\ q \in Seq(S) /\ Len(q) = 3 /\ q[1] = a /\ q[2] = b /\ q[3] = t
  <2>1. s \in Seq(S) /\ Len(s) = 2 /\ s[1] = a /\ s[2] = b
    BY <1>1
  <2>2. 1 \in 1 .. Len(s) /\ 2 \in 1 .. Len(s) /\ Len(s) + 1 = 3
    BY <2>1
  <2> HIDE DEF s
  <2>3. /\ q \in Seq(S) /\ Len(q) = Len(s) + 1
        /\ \A i \in 1 .. Len(s) : q[i] = s[i]
        /\ q[Len(s) + 1] = t
    <3>1. ASSUME NEW z \in Seq(S)
          PROVE  /\ Append(z, t) \in Seq(S) /\ Len(Append(z, t)) = Len(z) + 1
                 /\ \A i \in 1 .. Len(z) : Append(z, t)[i] = z[i]
                 /\ Append(z, t)[Len(z) + 1] = t
      BY AppendProperties
    <3> QED
      BY <2>1, <3>1, Zenon
  <2> HIDE DEF q
  <2> QED
    BY <2>1, <2>2, <2>3
<1>3. /\ r \in Seq(S) /\ Len(r) = 3 /\ r[1] = a /\ r[2] = b /\ r[3] = t
  OBVIOUS
<1> HIDE DEF q, r
<1>4. q = r
  BY <1>2, <1>3, SeqEqual
<1> QED
  BY <1>4 DEF q, r

LEMMA ElementOfUnits ==
  ASSUME NEW part, NEW t \in Tasks
  PROVE  Append(Element(UnitsState, part), t)
           = <<Do("context_clause"), Do("design_unit"), t>>
PROOF
<1>1. Element(UnitsState, part) = <<Do("context_clause"), Do("design_unit")>>
  BY DEF Element, UnitsState, DeclarativeParts
<1>2. ASSUME NEW a \in Tasks, NEW b \in Tasks PROVE Append(<<a, b>>, t) = <<a, b, t>>
  BY AppendToTwo
<1>3. Do("context_clause") \in Tasks /\ Do("design_unit") \in Tasks
  BY EachIsACall DEF Tasks, Simple
<1> QED
  BY <1>1, <1>2, <1>3, Zenon

LEMMA ElementOfOthers ==
  ASSUME NEW state \in States \ {UnitsState}, NEW part \in Parts, NEW t \in Tasks
  PROVE  \E e \in Tasks :
           /\ Append(Element(state, part), t) = <<e, t>>
           /\ e.do \in Elements /\ IsElementOf(e, state)
           /\ Cap(e) = 2 /\ Left(e) \in 0 .. 1
PROOF
<1>1. ASSUME NEW e \in Tasks PROVE Append(<<e>>, t) = <<e, t>>
  BY AppendToOne
<1>2. \A e : e.do \in Elements => Cap(e) = 2 /\ Left(e) \in 0 .. 1
  BY DEF Elements, Cap, Left
<1> DEFINE Goal == \E e \in Tasks :
                     /\ Append(Element(state, part), t) = <<e, t>>
                     /\ e.do \in Elements /\ IsElementOf(e, state)
                     /\ Cap(e) = 2 /\ Left(e) \in 0 .. 1
<1>0. ASSUME NEW e \in Tasks, Element(state, part) = <<e>>,
             e.do \in Elements, IsElementOf(e, state)
      PROVE  Goal
  <2>1. Append(Element(state, part), t) = <<e, t>>
    BY <1>0, <1>1, Zenon
  <2> QED
    BY <1>0, <1>2, <2>1
<1> SUFFICES Goal
  OBVIOUS
<1> HIDE DEF Goal
<1>3. CASE state \in DeclarativeParts
  <2>1. Element(state, part) = <<Declaration(part)>>
    BY <1>3 DEF Element, DeclarativeParts
  <2>2. Declaration(part) \in Tasks /\ Declaration(part).do = "declaration"
    BY EachIsACall DEF Declaration, Tasks
  <2>3. Declaration(part).do \in Elements /\ IsElementOf(Declaration(part), state)
    BY <1>3, <2>2 DEF IsElementOf, Elements
  <2> QED
    BY <1>0, <2>1, <2>2, <2>3
<1>4. CASE state = "entity_statement_part"
  <2>1. Element(state, part) = <<Do("entity_statement")>>
    BY <1>4 DEF Element, DeclarativeParts
  <2>2. Do("entity_statement") \in Tasks /\ Do("entity_statement").do = "entity_statement"
    BY EachIsACall DEF Do, Tasks, Simple
  <2>3. Do("entity_statement").do \in Elements /\ IsElementOf(Do("entity_statement"), state)
    BY <1>4, <2>2 DEF IsElementOf, Elements
  <2> QED
    BY <1>0, <2>1, <2>2, <2>3
<1>5. CASE state = "concurrent_statements"
  <2>1. Element(state, part) = <<Do("concurrent")>>
    BY <1>5 DEF Element, DeclarativeParts
  <2>2. Do("concurrent") \in Tasks /\ Do("concurrent").do = "concurrent"
    BY EachIsACall DEF Do, Tasks, Simple
  <2>3. Do("concurrent").do \in Elements /\ IsElementOf(Do("concurrent"), state)
    BY <1>5, <2>2 DEF IsElementOf, Elements
  <2> QED
    BY <1>0, <2>1, <2>2, <2>3
<1>6. CASE state = "sequential_statements"
  <2>1. Element(state, part) = <<Do("sequential")>>
    BY <1>6 DEF Element, DeclarativeParts
  <2>2. Do("sequential") \in Tasks /\ Do("sequential").do = "sequential"
    BY EachIsACall DEF Do, Tasks, Simple
  <2>3. Do("sequential").do \in Elements /\ IsElementOf(Do("sequential"), state)
    BY <1>6, <2>2 DEF IsElementOf, Elements
  <2> QED
    BY <1>0, <2>1, <2>2, <2>3
<1> QED
  BY <1>3, <1>4, <1>5, <1>6 DEF States, UnitsState

LEMMA BeginningRuns == ASSUME ParserInv, Running, ParseElement PROVE Running'
PROOF
<1>1. /\ todo # <<>> /\ Task.do = "in_many" /\ count' = count + 1
      /\ ~ EndsState(Current, Task.state) /\ BeginsElement(Current, Task.state)
      /\ Then(Append(Element(Task.state, Task.part), Task))
      /\ UNCHANGED <<file, tokens_, current_one_>>
  BY DEF ParseElement, Doing, Look, context, lexer
<1>2. /\ Task \in Tasks /\ Task = todo[1]
      /\ todo \in Seq(Tasks) /\ Joined(todo, Current) /\ Ordered(todo)
      /\ count \in Nat
  BY <1>1, AtTheTask
<1>3. /\ LeftBy(Task, Current) = Left(Task) /\ Inner(Task)
      /\ Task.state \in States /\ Task.part \in Parts
  BY <1>1, <1>2, LeftByIsLess, OfATask DEF Inner, Bare, Elements
<1>4. count <= Cap(Task) \/ StuckIn(Task.state)
  BY <1>1, <1>2 DEF Running, Bounded, Stuck, AtTheEnd, Elements, EndsState
<1>5. Current' = Current
  BY <1>1 DEF Current, Kind, current_token
<1>6. CASE Task.state = UnitsState
  <2> DEFINE clause == Do("context_clause")
             du == Do("design_unit")
             script == <<clause, du, Task>>
  <2>1. Then(script)
    BY <1>1, <1>2, <1>6, ElementOfUnits
  <2>2. /\ clause \in Tasks /\ du \in Tasks
        /\ clause.do = "context_clause" /\ du.do = "design_unit"
    BY EachIsACall DEF Do, Tasks, Simple
  <2>3. /\ Cap(clause) = 4 /\ Left(clause) = 5 /\ Cap(du) = 5 /\ Left(du) = 3
        /\ Inner(clause) /\ Inner(du)
    BY <2>2 DEF Cap, Left, Inner, Bare, Elements
  <2>4. Cap(Task) = 3
    BY <1>1, <1>6 DEF Cap
  <2> HIDE DEF clause, du
  <2>5. /\ script \in Seq(Tasks) /\ script # <<>> /\ Len(script) = 3
        /\ script[1] = clause /\ script[2] = du /\ script[3] = Task
    BY <1>2, <2>2
  <2> HIDE DEF script
  <2>6. LeftBy(script[1], Current') <= Cap(script[2])
    BY <2>2, <2>3, <2>5, LeftByIsLess
  <2>7. Joined(script, Current')
    BY <2>3, <2>4, <2>5, <2>6 DEF Joined
  <2>8. Ordered(script)
    BY <1>1, <1>3, <1>6, <2>2, <2>3, <2>5 DEF Ordered
  <2>9. LeftByAll(script, Current') <= LeftBy(Task, Current)
    <3>1. Left(Task) \in 0 .. 7
      BY CapsAreSmall
    <3> QED
      BY <1>3, <2>5, <3>1 DEF LeftByAll
  <2>10. Joined(todo', Current') /\ Ordered(todo') /\ todo'[1] = clause
    <3>1. /\ Joined(todo', Current') /\ Ordered(todo')
          /\ \A i \in 1 .. Len(script) : todo'[i] = script[i]
      BY <1>1, <1>2, <2>1, <2>5, <2>7, <2>8, <2>9, Takes
    <3> QED
      BY <2>5, <3>1
  <2>11. count' <= Cap(todo'[1])
    <3>1. ~ StuckIn(Task.state)
      BY <1>6 DEF StuckIn, UnitsState, DeclarativeParts
    <3> QED
      BY <1>1, <1>2, <1>4, <2>3, <2>4, <2>10, <3>1
  <2> QED
    BY <2>2, <2>3, <2>10, <2>11, Goes
<1>7. CASE Task.state # UnitsState
  <2>1. PICK e \in Tasks :
          /\ Append(Element(Task.state, Task.part), Task) = <<e, Task>>
          /\ e.do \in Elements /\ IsElementOf(e, Task.state)
          /\ Cap(e) = 2 /\ Left(e) \in 0 .. 1
    BY <1>2, <1>3, <1>7, ElementOfOthers
  <2> DEFINE script == <<e, Task>>
  <2>2. Then(script)
    BY <1>1, <2>1
  <2>3. Cap(Task) = 1 /\ Left(Task) = 2
    BY <1>1, <1>7 DEF Cap, Left
  <2>4. /\ script \in Seq(Tasks) /\ script # <<>> /\ Len(script) = 2
        /\ script[1] = e /\ script[2] = Task
    BY <1>2
  <2> HIDE DEF script
  <2>5. Joined(script, Current')
    <3>1. e.do # "name"
      BY <2>1 DEF Elements
    <3>2. LeftBy(script[1], Current') <= Cap(script[2])
      BY <2>1, <2>3, <2>4, <3>1, LeftByIsLess
    <3> QED
      BY <2>4, <3>2 DEF Joined
  <2>6. Ordered(script)
    <3>1. e.do # "design_unit" /\ Task.do # "design_unit"
      BY <1>1, <2>1 DEF Elements
    <3> QED
      BY <1>3, <2>4, <3>1 DEF Ordered
  <2>7. LeftByAll(script, Current') <= LeftBy(Task, Current)
    BY <1>3, <2>3, <2>4 DEF LeftByAll
  <2>8. /\ Joined(todo', Current') /\ Ordered(todo')
        /\ todo'[1] = e /\ todo'[2] = Task /\ Len(todo') > 1
    <3>1. /\ Joined(todo', Current') /\ Ordered(todo')
          /\ Len(todo') \in Nat /\ Len(todo') >= Len(script)
          /\ \A i \in 1 .. Len(script) : todo'[i] = script[i]
      BY <1>1, <1>2, <2>2, <2>4, <2>5, <2>6, <2>7, Takes
    <3> QED
      BY <2>4, <3>1
  <2>9. Begun'
    <3>1. e.do # "design_unit" /\ ~ Bare(e)
      BY <2>1 DEF Elements, Bare
    <3>2. BeginsElement(Current', Task.state)
      BY <1>1, <1>5
    <3> QED
      BY <1>1, <2>1, <2>8, <3>1, <3>2 DEF Begun
  <2>10. Bounded'
    <3>1. CASE count <= Cap(Task)
      <4>1. count' <= Cap(todo'[1])
        BY <1>1, <1>2, <2>1, <2>3, <2>8, <3>1
      <4> QED
        BY <4>1 DEF Bounded
    <3>2. CASE StuckIn(Task.state)
      <4>1. Stuck'
        BY <1>1, <1>5, <2>1, <2>8, <3>2 DEF Stuck, StuckIn, Matches, Kind, current_token
      <4> QED
        BY <4>1 DEF Bounded
    <3> QED
      BY <1>4, <3>1, <3>2
  <2> QED
    BY <2>8, <2>9, <2>10 DEF Running
<1> QED
  BY <1>6, <1>7

LEMMA RunsOn ==
  ASSUME ParserInv, Running, Next, Parsing'
  PROVE  Running'
PROOF
<1>1. ~ GiveUp /\ ~ Finish
  BY DEF GiveUp, Finish, Parsing
<1> QED
  BY <1>1, EndsRun, UnitsRun, ContextRuns, NamesRun, ElementsRun, StatementsRun,
     LeavingRuns, SkippingRuns, BeginningRuns, NoUnitRuns DEF Next

--------------------------------------------------------------------------------
(* Where a file is given up.                                               *)

Verdict ==
  \/ Current \in {"package", "group"} /\ Innermost \in DeclarativeParts
  \/ LabelAlone
  \/ IfAlone
  \/ Task.do = "statement" /\ Task.labelled
  \/ Task.do = "design_unit" /\ Current = "eof"

(* The innermost list is the first of those that are open.                 *)
LEMMA InnermostIs ==
  ASSUME NEW i \in Open, \A j \in Open : i <= j,
         \A j \in Open : j \in Int
  PROVE  Innermost = todo[i].state
PROOF
<1> DEFINE IsFirst(k) == \A j \in Open : k <= j
           k == CHOOSE x \in Open : IsFirst(x)
<1>1. IsFirst(i)
  OBVIOUS
<1>2. k \in Open /\ IsFirst(k)
  BY <1>1
<1>3. i <= k /\ k <= i /\ i \in Int /\ k \in Int
  BY <1>1, <1>2
<1>4. k = i
  <2> HIDE DEF k
  <2> QED
    BY <1>3
<1> QED
  BY <1>4 DEF Innermost

LEMMA StuckIsNamed ==
  ASSUME todo \in Seq(Tasks), todo # <<>>, Ordered(todo), Begun, Stuck
  PROVE  Verdict
PROOF
<1>1. /\ Len(todo) \in Nat \ {0} /\ DOMAIN todo = 1 .. Len(todo)
  BY TheTask
<1>2. \A j \in Open : j \in Int /\ 1 <= j /\ j \in 1 .. Len(todo) /\ todo[j].do = "in_many"
  BY <1>1 DEF Open
<1>3. ASSUME NEW i \in Open, StuckIn(todo[i].state), \A j \in Open : i <= j
      PROVE  Verdict
  <2>1. Innermost = todo[i].state
    BY <1>2, <1>3, InnermostIs
  <2> QED
    BY <1>3, <2>1 DEF Verdict, StuckIn, LabelAlone, IfAlone
<1>4. CASE todo[1].do = "in_many" /\ StuckIn(todo[1].state)
  <2>1. 1 \in Open
    BY <1>1, <1>4 DEF Open
  <2> QED
    BY <1>2, <1>3, <1>4, <2>1
<1>5. CASE todo[1].do \in Elements /\ StuckIn(todo[2].state)
  <2>1. Len(todo) > 1 /\ todo[2].do = "in_many" /\ todo[1].do # "in_many"
    BY <1>5 DEF Begun, Elements
  <2>2. 2 \in Open
    BY <1>1, <2>1 DEF Open
  <2>3. \A j \in Open : 2 <= j
    BY <1>2, <2>1
  <2> QED
    BY <1>3, <1>5, <2>2, <2>3
<1> QED
  BY <1>4, <1>5 DEF Stuck

(* What is named depends on the tokens and the calls only.                 *)
LEMMA VerdictStays ==
  ASSUME Verdict, UNCHANGED <<file, tokens_, current_one_, todo>>
  PROVE  Verdict'
PROOF
<1>1. Current' = Current /\ current_token' = current_token
  BY DEF Current, Kind, current_token
<1>2. \A n : Kind(n)' = Kind(n)
  BY DEF Kind
<1>3. Innermost' = Innermost
  <2> DEFINE In(calls) == calls[CHOOSE i \in {k \in DOMAIN calls : calls[k].do = "in_many"} :
                                  \A j \in {k \in DOMAIN calls : calls[k].do = "in_many"} :
                                    i <= j].state
  <2>1. Innermost = In(todo)
    BY DEF Innermost, Open
  <2>2. Innermost' = In(todo')
    BY DEF Innermost, Open
  <2> HIDE DEF In
  <2> QED
    BY <2>1, <2>2
<1>4. Task' = Task
  BY DEF Task
<1>5. LabelAlone' = LabelAlone
  <2>1. Matches(current_token, <<"identifier", "colon">>)'
          = Matches(current_token, <<"identifier", "colon">>)
    BY <1>1 DEF Matches, Kind
  <2>2. BeginsElement(Kind(current_token + 2), Innermost)'
          = BeginsElement(Kind(current_token + 2), Innermost)
    BY <1>1, <1>3 DEF BeginsElement, Kind
  <2> QED
    BY <2>1, <2>2 DEF LabelAlone
<1>6. IfAlone' = IfAlone
  BY <1>1, <1>2, <1>3 DEF IfAlone, Kind
<1> QED
  BY <1>1, <1>3, <1>4, <1>5, <1>6 DEF Verdict

(* A parser with patience for seven looks gives up only where it is stuck. *)
LEMMA GivesUpThere ==
  ASSUME Patience > 6, ParserInv, Running, GiveUp
  PROVE  Verdict'
PROOF
<1>1. /\ todo # <<>> /\ ~ (count < Patience)
      /\ UNCHANGED <<file, tokens_, current_one_, todo>>
  BY DEF GiveUp, Patient, lexer
<1>2. todo \in Seq(Tasks) /\ Task = todo[1] /\ Ordered(todo) /\ count \in Nat
  BY <1>1, AtTheTask
<1>3. Stuck
  <2>1. ~ (count <= 6)
    BY <1>1, <1>2, ParserAssumption
  <2>2. Cap(todo[1]) \in 0 .. 6
    BY CapsAreSmall
  <2>3. ~ (count <= Cap(todo[1]))
    BY <1>2, <2>1, <2>2
  <2> QED
    BY <1>1, <2>1, <2>3 DEF Running, Bounded, AtTheEnd
<1>4. Verdict
  BY <1>1, <1>2, <1>3, StuckIsNamed DEF Running
<1> QED
  BY <1>1, <1>4, VerdictStays

(* An assertion fails only there.                                          *)
LEMMA AbortsThere ==
  ASSUME ParserInv, Running,
         NoDesignUnit \/ NoStatement \/ EntityStatement \/ ConcurrentStatement,
         outcome' = "aborted"
  PROVE  Verdict'
PROOF
<1>1. todo # <<>> /\ outcome = "parsing" /\ UNCHANGED <<file, tokens_, current_one_>>
  BY DEF NoDesignUnit, NoStatement, EntityStatement, ConcurrentStatement, Doing,
         Parsing, NeverGetHere, Look, lexer, peek, context
<1>2. todo' = todo
  <2>1. NeverGetHere
    BY <1>1 DEF NoDesignUnit, NoStatement, EntityStatement, ConcurrentStatement, context
  <2> QED
    BY <1>1, <2>1 DEF NeverGetHere
<1>3. /\ Task \in Tasks /\ Task = todo[1] /\ todo \in Seq(Tasks) /\ Ordered(todo)
  BY <1>1, AtTheTask
<1>4. ASSUME Verdict PROVE Verdict'
  BY <1>1, <1>2, <1>4, VerdictStays
<1>5. ASSUME Stuck PROVE Verdict'
  BY <1>1, <1>3, <1>4, <1>5, StuckIsNamed DEF Running
<1>6. Whole
  BY DEF ParserInv
<1>7. ASSUME NoDesignUnit PROVE Verdict'
  <2>1. Task.do = "design_unit" /\ Current \notin UnitKeywords
    BY <1>7 DEF NoDesignUnit, Doing
  <2>2. Current = "eof"
    BY <1>1, <1>3, <2>1 DEF Running, Begun
  <2> QED
    BY <1>4, <2>1, <2>2 DEF Verdict
<1>8. ASSUME NoStatement PROVE Verdict'
  <2>1. Task.do = "statement" /\ ~ BeginsElement(Current, "sequential_statements")
    BY <1>8 DEF NoStatement, Doing
  <2>2. Task.labelled
    BY <1>1, <1>3, <2>1 DEF Running, Begun, Bare
  <2> QED
    BY <1>4, <2>1, <2>2 DEF Verdict
<1>9. ASSUME EntityStatement PROVE Verdict'
  <2>1. Task.do = "entity_statement" /\ EntityStatementScript = <<>>
    BY <1>1, <1>9 DEF EntityStatement, Doing, context
  <2>2. /\ Task.do \in Elements
        /\ IsElementOf(Task, todo[2].state) /\ BeginsElement(Current, todo[2].state)
    BY <1>1, <1>3, <2>1, AnElement DEF Elements
  <2>3. todo[2].state = "entity_statement_part"
    BY <2>1, <2>2 DEF IsElementOf
  <2>4. StuckIn("entity_statement_part")
    BY <1>6, <2>1, <2>2, <2>3, EntityDispatches
  <2> QED
    BY <1>3, <1>5, <2>2, <2>3, <2>4 DEF Stuck
<1>10. ASSUME ConcurrentStatement PROVE Verdict'
  <2>1. Task.do = "concurrent" /\ ConcurrentScript = <<>>
    BY <1>1, <1>10 DEF ConcurrentStatement, Doing, context
  <2>2. /\ Task.do \in Elements
        /\ IsElementOf(Task, todo[2].state) /\ BeginsElement(Current, todo[2].state)
    BY <1>1, <1>3, <2>1, AnElement DEF Elements
  <2>3. todo[2].state = "concurrent_statements"
    BY <2>1, <2>2 DEF IsElementOf
  <2>4. StuckIn("concurrent_statements")
    BY <1>6, <2>1, <2>2, <2>3, ConcurrentDispatches
  <2> QED
    BY <1>3, <1>5, <2>2, <2>3, <2>4 DEF Stuck
<1> QED
  BY <1>7, <1>8, <1>9, <1>10

(* Nothing else ends a parse in any other way than by parsing the file.    *)
LEMMA OutcomesAre ==
  ASSUME Next
  PROVE  /\ Parsing
         /\ \/ outcome' \in {"parsing", "parsed"}
            \/ GiveUp
            \/ /\ NoDesignUnit \/ NoStatement \/ EntityStatement \/ ConcurrentStatement
               /\ outcome' = "aborted"
PROOF
<1>1. CASE GiveUp
  BY <1>1 DEF GiveUp
<1>2. CASE Finish
  BY <1>2 DEF Finish
<1>3. CASE NoDesignUnit \/ NoStatement \/ EntityStatement \/ ConcurrentStatement
  BY <1>3 DEF NoDesignUnit, NoStatement, EntityStatement, ConcurrentStatement,
              NeverGetHere, Doing, Parsing, context
<1>4. CASE \/ ScanFirst \/ DesignFile \/ EnterMany \/ ParseElement \/ LeaveMany
           \/ SkipInMany \/ ConsumeToken \/ OptionalToken \/ ContextClause
           \/ LibraryNames \/ LibraryEnd \/ resync_to_next_semicolon \/ DesignUnit
           \/ UnitName \/ EntityNamed \/ ClosingLabelOrNone \/ PackageEnd \/ UnitEnd
  BY <1>4 DEF ScanFirst, DesignFile, EnterMany, ParseElement, LeaveMany, SkipInMany,
              ConsumeToken, OptionalToken, ContextClause, LibraryNames, LibraryEnd,
              resync_to_next_semicolon, DesignUnit, UnitName, EntityNamed,
              ClosingLabelOrNone, PackageEnd, UnitEnd, Doing, Parsing, context
<1>5. CASE \/ NoDeclaration \/ ObjectDeclaration \/ SubtypeIndication \/ NoSubtype
           \/ Constraint \/ ParseName \/ Suffix \/ AttributeName \/ Expression
           \/ ParseRange \/ Generate \/ GenerateBody \/ DropCheckpoint \/ RangeUpTo \/ RangeAgain \/ NoRange
           \/ InstantiationLabel \/ SequentialStatement \/ LabelledStatement \/ CallEnd
  BY <1>5 DEF NoDeclaration, ObjectDeclaration, SubtypeIndication, NoSubtype,
              Constraint, ParseName, Suffix, AttributeName, Expression, ParseRange,
              Generate, GenerateBody,
              DropCheckpoint, RangeUpTo, RangeAgain, NoRange, InstantiationLabel,
              SequentialStatement, LabelledStatement, CallEnd, Doing, Parsing, context
<1> QED
  BY <1>1, <1>2, <1>3, <1>4, <1>5 DEF Next

LEMMA RecoveryBegins == Init => RecoveryInv
PROOF
<1> SUFFICES ASSUME Init PROVE RecoveryInv
  OBVIOUS
<1>1. todo = <<Do("scan"), Do("file")>> /\ count = 0 /\ outcome = "parsing"
  BY DEF Init
<1>2. /\ Len(todo) = 2 /\ todo[1] = Do("scan") /\ todo[2] = Do("file")
  BY <1>1
<1>3. /\ todo[1].do = "scan" /\ todo[2].do = "file"
      /\ Cap(todo[1]) = 0 /\ Cap(todo[2]) = 0 /\ Left(todo[1]) = 0
  BY <1>2 DEF Do, Cap, Left
<1>4. Joined(todo, Current)
  BY <1>2, <1>3 DEF Joined, LeftBy
<1>5. Ordered(todo) /\ Begun
  BY <1>2, <1>3 DEF Ordered, Begun, Inner, Bare, Elements
<1>6. Bounded
  BY <1>1, <1>3 DEF Bounded
<1> QED
  BY <1>1, <1>4, <1>5, <1>6 DEF RecoveryInv, Running, GivesUpOnlyWhenStuck

LEMMA RecoverySteps ==
  ASSUME Patience > 6, ParserInv, RecoveryInv, [Next]_vars
  PROVE  RecoveryInv'
PROOF
<1>1. GivesUpOnlyWhenStuck <=> (outcome \in {"gave_up", "aborted"} => Verdict)
  BY DEF GivesUpOnlyWhenStuck, Verdict
<1>2. GivesUpOnlyWhenStuck' <=> (outcome' \in {"gave_up", "aborted"} => Verdict')
  BY DEF GivesUpOnlyWhenStuck, Verdict
<1>3. CASE Next
  <2>1. Parsing
    BY <1>3, OutcomesAre
  <2>2. Running
    BY <2>1 DEF RecoveryInv
  <2>3. Parsing' => Running'
    BY <1>3, <2>2, RunsOn
  <2>4. GivesUpOnlyWhenStuck'
    BY <1>2, <1>3, <2>2, OutcomesAre, GivesUpThere, AbortsThere
  <2> QED
    BY <2>3, <2>4 DEF RecoveryInv
<1>4. CASE UNCHANGED vars
  <2>1. UNCHANGED <<file, tokens_, current_one_, todo, count, outcome>>
    BY <1>4 DEF vars, parser, lexer
  <2>2. Parsing' => Running'
    <3>1. Current' = Current
      BY <2>1 DEF Current, Kind, current_token
    <3>2. Joined(todo, Current)' /\ Ordered(todo)' <=> Joined(todo, Current) /\ Ordered(todo)
      BY <2>1, <3>1 DEF Joined, Ordered
    <3>3. Begun' <=> Begun
      BY <2>1, <3>1 DEF Begun
    <3>4. Bounded' <=> Bounded
      BY <2>1, <3>1 DEF Bounded, Stuck, StuckIn, AtTheEnd, Matches, Kind, current_token
    <3>5. Parsing' <=> Parsing
      BY <2>1 DEF Parsing
    <3> QED
      BY <3>2, <3>3, <3>4, <3>5 DEF RecoveryInv, Running
  <2>3. GivesUpOnlyWhenStuck'
    BY <1>1, <1>2, <2>1, VerdictStays DEF RecoveryInv
  <2> QED
    BY <2>2, <2>3 DEF RecoveryInv
<1> QED
  BY <1>3, <1>4

(* For any files, however deep their constructs and whatever their errors, *)
(* a parser that allows seven looks at one token gives a file up, or       *)
(* reaches an assertion, only at the places that are named: everywhere     *)
(* else the recovery of parse_many and of the productions gets on.  Each   *)
(* step stands for at most nine calls of current_token (parser.cpp:5326),  *)
(* which allows a hundred.  "Everywhere" is where the kinds of Kinds lead. *)
THEOREM RecoveryGetsOn ==
  ASSUME Patience > 6
  PROVE  Spec => []GivesUpOnlyWhenStuck
PROOF
<1>1. Spec => []ParserInv
  BY ParserInvariant
<1>2. Init => RecoveryInv
  BY RecoveryBegins
<1>3. ParserInv /\ RecoveryInv /\ [Next]_vars => RecoveryInv'
  BY RecoverySteps
<1>4. RecoveryInv => GivesUpOnlyWhenStuck
  BY DEF RecoveryInv
<1> QED
  BY <1>1, <1>2, <1>3, <1>4, PTL DEF Spec
================================================================================
