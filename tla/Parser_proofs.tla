----------------------------- MODULE Parser_proofs -----------------------------
(***************************************************************************)
(* Proofs about Parser, for any set of files, any patience and any bound   *)
(* on checkpoints.  The parser drives the lexer of Lexer_proofs, of which  *)
(* it keeps the inductive invariant; ParserInv says what the calls in      *)
(* progress have still to do, which is always that of the call for the     *)
(* design units at the bottom, and that a range, which alone adds a        *)
(* checkpoint, never has another inside.                                   *)
(***************************************************************************)
EXTENDS Parser, Lexer_proofs, FiniteSetTheorems, WellFoundedInduction

Parts == {"none", "entity", "block", "package", "process"}

Thens == {<<>>, <<Many("entity_statement_part", "none")>>}

Simple ==
  {"scan", "file", "resync", "library_names", "library_end", "name",
   "entity_named", "closing_label", "unit_end", "package_end", "subtype",
   "constraint", "range", "drop_checkpoint", "expression", "range_end",
   "suffix", "attribute", "inst_label", "context_clause", "design_unit",
   "entity_statement", "concurrent", "generate", "generate_body",
   "sequential", "call_end"}

(* What a production may ask for.                                          *)
Calls ==
  [do : Simple]
  \cup [do : {"consume"}, token : Kinds]
  \cup [do : {"optional"}, token : Kinds, then : Thens]
  \cup [do : {"unit_name"}, kind : UnitKeywords]
  \cup [do : {"many"}, state : States, part : Parts]
  \cup [do : {"statement"}, labelled : BOOLEAN]
  \cup [do : {"declaration"}, part : Parts]

(* The tasks that drop a checkpoint or return to it, and the others.       *)
Releasing == {"range_end", "drop_checkpoint"}

OtherCalls == {c \in Calls : c.do \notin Releasing}

OpenCalls ==
  [do : {"in_many"}, state : States, part : Parts, saved : SUBSET States]

Tasks == Calls \cup OpenCalls

--------------------------------------------------------------------------------
(* The productions ask for calls.                                          *)

LEMMA EachIsACall ==
  /\ \A x \in Simple : Do(x) \in Calls
  /\ \A k \in Kinds : Consume(k) \in Calls
  /\ \A k \in Kinds, s \in Thens : Optional(k, s) \in Calls
  /\ \A k \in UnitKeywords : Named(k) \in Calls
  /\ \A s \in States, p \in Parts : Many(s, p) \in Calls
  /\ \A l \in BOOLEAN : Statement(l) \in Calls
  /\ \A p \in Parts : Declaration(p) \in Calls
PROOF
<1>1. \A x \in Simple : Do(x) \in Calls
  BY DEF Do, Calls
<1>2. \A k \in Kinds : Consume(k) \in Calls
  BY DEF Consume, Calls
<1>3. \A k \in Kinds, s \in Thens : Optional(k, s) \in Calls
  BY DEF Optional, Calls
<1>4. \A k \in UnitKeywords : Named(k) \in Calls
  BY DEF Named, Calls
<1>5. \A s \in States, p \in Parts : Many(s, p) \in Calls
  BY DEF Many, Calls
<1>6. \A l \in BOOLEAN : Statement(l) \in Calls
  BY DEF Statement, Calls
<1>7. \A p \in Parts : Declaration(p) \in Calls
  BY DEF Declaration, Calls
<1> QED
  BY <1>1, <1>2, <1>3, <1>4, <1>5, <1>6, <1>7

LEMMA EachIsAnother ==
  /\ \A x \in Simple \ Releasing : Do(x) \in OtherCalls
  /\ \A k \in Kinds : Consume(k) \in OtherCalls
  /\ \A k \in Kinds, s \in Thens : Optional(k, s) \in OtherCalls
  /\ \A k \in UnitKeywords : Named(k) \in OtherCalls
  /\ \A s \in States, p \in Parts : Many(s, p) \in OtherCalls
  /\ \A l \in BOOLEAN : Statement(l) \in OtherCalls
  /\ \A p \in Parts : Declaration(p) \in OtherCalls
PROOF
<1>1. \A x \in Simple \ Releasing : Do(x) \in OtherCalls
  BY EachIsACall DEF Do, OtherCalls
<1>2. \A k \in Kinds : Consume(k) \in OtherCalls
  BY EachIsACall DEF Consume, OtherCalls, Releasing
<1>3. \A k \in Kinds, s \in Thens : Optional(k, s) \in OtherCalls
  BY EachIsACall DEF Optional, OtherCalls, Releasing
<1>4. \A k \in UnitKeywords : Named(k) \in OtherCalls
  BY EachIsACall DEF Named, OtherCalls, Releasing
<1>5. \A s \in States, p \in Parts : Many(s, p) \in OtherCalls
  BY EachIsACall DEF Many, OtherCalls, Releasing
<1>6. \A l \in BOOLEAN : Statement(l) \in OtherCalls
  BY EachIsACall DEF Statement, OtherCalls, Releasing
<1>7. \A p \in Parts : Declaration(p) \in OtherCalls
  BY EachIsACall DEF Declaration, OtherCalls, Releasing
<1> QED
  BY <1>1, <1>2, <1>3, <1>4, <1>5, <1>6, <1>7

LEMMA OthersAreCalls ==
  ASSUME NEW s \in Seq(OtherCalls)
  PROVE  s \in Seq(Calls)
PROOF
<1>1. OtherCalls \subseteq Calls
  BY DEF OtherCalls
<1> QED
  BY <1>1, SeqMonotonic

LEMMA OfATask ==
  ASSUME NEW t \in Tasks
  PROVE  /\ t.do = "optional" => t.then \in Thens
         /\ t.do = "unit_name" => t.kind \in UnitKeywords
         /\ t.do \in {"many", "in_many"} => t.state \in States /\ t.part \in Parts
         /\ t.do = "in_many" => t.saved \subseteq States
         /\ t.do = "in_many" <=> t \notin Calls
PROOF
<1>1. CASE t \in Calls
  BY <1>1 DEF Calls, Simple
<1>2. CASE t \in OpenCalls
  BY <1>2 DEF OpenCalls, Calls, Simple
<1> QED
  BY <1>1, <1>2 DEF Tasks

LEMMA CallsAreTasks == ASSUME NEW s \in Seq(Calls) PROVE s \in Seq(Tasks)
PROOF
<1>1. Calls \subseteq Tasks
  BY DEF Tasks
<1> QED
  BY <1>1, SeqMonotonic

LEMMA ThensAreOthers == ASSUME NEW s \in Thens PROVE s \in Seq(OtherCalls)
PROOF
<1>1. Many("entity_statement_part", "none") \in OtherCalls
  BY EachIsAnother DEF States, Parts
<1>2. <<Many("entity_statement_part", "none")>> \in Seq(OtherCalls)
  BY <1>1
<1>3. <<>> \in Seq(OtherCalls)
  BY EmptySeq
<1> QED
  BY <1>2, <1>3 DEF Thens

(* The productions that are one sequence of calls.                         *)
LEMMA FixedScripts ==
  /\ LibraryClause \in Seq(OtherCalls)
  /\ Entity \in Seq(OtherCalls)
  /\ Architecture \in Seq(OtherCalls)
  /\ Package \in Seq(OtherCalls)
  /\ VariableDeclaration \in Seq(OtherCalls)
  /\ RangeConstraint \in Seq(OtherCalls)
  /\ UpTo \in Seq(Calls)
  /\ Instantiation \in Seq(OtherCalls)
PROOF
<1>1. /\ \A x \in Simple \ Releasing : Do(x) \in OtherCalls
      /\ \A k \in Kinds : Consume(k) \in OtherCalls
      /\ \A k \in Kinds : Optional(k, <<>>) \in OtherCalls
      /\ Optional("begin", <<Many("entity_statement_part", "none")>>) \in OtherCalls
      /\ \A k \in UnitKeywords : Named(k) \in OtherCalls
      /\ \A s \in States, p \in Parts : Many(s, p) \in OtherCalls
  BY EachIsAnother DEF Thens, Kinds
<1>2. LibraryClause \in Seq(OtherCalls)
  BY <1>1 DEF LibraryClause, Simple, Releasing, Kinds
<1>3. Entity \in Seq(OtherCalls)
  BY <1>1 DEF Entity, Simple, Releasing, Kinds, UnitKeywords, States, DeclarativeParts, Parts
<1>4. Architecture \in Seq(OtherCalls)
  BY <1>1 DEF Architecture, Simple, Releasing, Kinds, UnitKeywords, States, DeclarativeParts, Parts
<1>5. Package \in Seq(OtherCalls)
  BY <1>1 DEF Package, Simple, Releasing, Kinds, UnitKeywords, States, DeclarativeParts, Parts
<1>6. VariableDeclaration \in Seq(OtherCalls)
  BY <1>1 DEF VariableDeclaration, Simple, Releasing, Kinds
<1>7. RangeConstraint \in Seq(OtherCalls)
  BY <1>1 DEF RangeConstraint, Simple, Releasing, Kinds
<1>8. UpTo \in Seq(Calls)
  BY EachIsACall DEF UpTo, Simple, Kinds
<1>9. Instantiation \in Seq(OtherCalls)
  BY <1>1 DEF Instantiation, Simple, Releasing, Kinds
<1> QED
  BY <1>2, <1>3, <1>4, <1>5, <1>6, <1>7, <1>8, <1>9

(* Those that depend on whether there is a label.                          *)
LEMMA LabelledScripts ==
  ASSUME NEW labelled
  PROVE  /\ Label(labelled) \in Seq(OtherCalls)
         /\ ProcedureCall(labelled) \in Seq(OtherCalls)
         /\ Process(labelled) \in Seq(OtherCalls)
         /\ Loop(labelled) \in Seq(OtherCalls)
         /\ If(labelled) \in Seq(OtherCalls)
         /\ IfGenerate(labelled) \in Seq(OtherCalls)
PROOF
<1>1. /\ \A x \in Simple \ Releasing : Do(x) \in OtherCalls
      /\ \A k \in Kinds : Consume(k) \in OtherCalls
      /\ \A k \in Kinds : Optional(k, <<>>) \in OtherCalls
      /\ \A s \in States, p \in Parts : Many(s, p) \in OtherCalls
  BY EachIsAnother DEF Thens
<1>2. /\ Label(labelled) \in Seq(OtherCalls)
      /\ ClosingLabel(labelled) \in Seq(OtherCalls)
  BY <1>1, EmptySeq DEF Label, ClosingLabel, Kinds, Simple, Releasing
<1>3. \A s, t \in Seq(OtherCalls) : s \o t \in Seq(OtherCalls)
  BY ConcatProperties
<1>4. ProcedureCall(labelled) \in Seq(OtherCalls)
  <2>1. <<Do("name"), Consume("semicolon")>> \in Seq(OtherCalls)
    BY <1>1 DEF Simple, Releasing, Kinds
  <2> QED
    BY <1>2, <1>3, <2>1 DEF ProcedureCall
<1>5. <<Consume("semicolon")>> \in Seq(OtherCalls)
  BY <1>1 DEF Kinds
<1>6. Process(labelled) \in Seq(OtherCalls)
  <2>1. <<Consume("process"), Optional("is", <<>>),
          Many("declarative_part_begin", "process"), Consume("begin"),
          Many("sequential_statements", "none"), Consume("end"),
          Consume("process")>> \in Seq(OtherCalls)
    BY <1>1 DEF Kinds, States, DeclarativeParts, Parts
  <2> QED
    BY <1>2, <1>3, <1>5, <2>1 DEF Process
<1>7. Loop(labelled) \in Seq(OtherCalls)
  <2>1. <<Consume("loop"), Many("sequential_statements", "none"), Consume("end"),
          Consume("loop")>> \in Seq(OtherCalls)
    BY <1>1 DEF Kinds, States, Parts
  <2> QED
    BY <1>2, <1>3, <1>5, <2>1 DEF Loop
<1>8. If(labelled) \in Seq(OtherCalls)
  <2>1. <<Consume("if"), Do("expression"), Consume("then"),
          Many("sequential_statements", "none"), Consume("end"),
          Consume("if")>> \in Seq(OtherCalls)
    BY <1>1 DEF Simple, Releasing, Kinds, States, Parts
  <2> QED
    BY <1>2, <1>3, <1>5, <2>1 DEF If
<1>9. IfGenerate(labelled) \in Seq(OtherCalls)
  <2>1. <<Do("inst_label"), Consume("if"), Do("expression"), Consume("generate"),
          Do("generate"), Consume("end"), Consume("generate")>> \in Seq(OtherCalls)
    BY <1>1 DEF Simple, Releasing, Kinds
  <2> QED
    BY <1>2, <1>3, <1>5, <2>1 DEF IfGenerate
<1> QED
  BY <1>2, <1>4, <1>6, <1>7, <1>8, <1>9

--------------------------------------------------------------------------------
(* The states of the calls of parse_many in progress below the nth task.   *)

OpenIn(tasks) == {i \in DOMAIN tasks : tasks[i].do = "in_many"}

StatesBelow(tasks, n) == {tasks[i].state : i \in {j \in OpenIn(tasks) : j > n}}

AreOpenIn(tasks, set) ==
  /\ set = StatesBelow(tasks, 0)
  /\ \A i \in OpenIn(tasks) : tasks[i].saved = StatesBelow(tasks, i)

LEMMA StatesByDepth ==
  ASSUME NEW q \in Seq(Tasks), NEW set
  PROVE  AreOpenIn(q, set) <=>
           /\ set = {q[i].state : i \in OpenIn(q)}
           /\ \A i \in OpenIn(q) :
                q[i].saved = {q[j].state : j \in {k \in OpenIn(q) : k > i}}
PROOF
<1>1. DOMAIN q = 1 .. Len(q) /\ Len(q) \in Nat
  BY LenProperties
<1>2. {j \in OpenIn(q) : j > 0} = OpenIn(q)
  BY <1>1 DEF OpenIn
<1> QED
  BY <1>2 DEF AreOpenIn, StatesBelow

(* Tasks that lie one above the other as before have the same states below.*)
LEMMA StatesBelowStay ==
  ASSUME NEW q \in Seq(Tasks), NEW r \in Seq(Tasks),
         NEW a \in 0 .. Len(q), NEW b \in 0 .. Len(r),
         Len(r) - b = Len(q) - a,
         \A i \in 1 .. Len(q) - a : r[b + i] = q[a + i]
  PROVE  \A n \in 0 .. Len(q) - a : StatesBelow(r, b + n) = StatesBelow(q, a + n)
PROOF
<1>1. /\ DOMAIN q = 1 .. Len(q) /\ Len(q) \in Nat
      /\ DOMAIN r = 1 .. Len(r) /\ Len(r) \in Nat
      /\ a \in Nat /\ b \in Nat
  BY LenProperties
<1> TAKE n \in 0 .. Len(q) - a
<1> DEFINE Q == {j \in OpenIn(q) : j > a + n}
           R == {j \in OpenIn(r) : j > b + n}
<1>2. ASSUME NEW j \in R PROVE j - b + a \in Q /\ r[j] = q[j - b + a]
  <2>1. j \in 1 .. Len(r) /\ j > b + n /\ r[j].do = "in_many"
    BY <1>1, <1>2 DEF OpenIn
  <2>2. j - b \in 1 .. Len(q) - a /\ j - b + a \in 1 .. Len(q) /\ j - b + a > a + n
    BY <1>1, <2>1
  <2>3. b + (j - b) = j /\ a + (j - b) = j - b + a
    BY <1>1, <2>1
  <2>4. r[j] = q[j - b + a]
    BY <2>2, <2>3
  <2> QED
    BY <1>1, <2>1, <2>2, <2>4 DEF OpenIn
<1>3. ASSUME NEW j \in Q PROVE j - a + b \in R /\ q[j] = r[j - a + b]
  <2>1. j \in 1 .. Len(q) /\ j > a + n /\ q[j].do = "in_many"
    BY <1>1, <1>3 DEF OpenIn
  <2>2. j - a \in 1 .. Len(q) - a /\ j - a + b \in 1 .. Len(r) /\ j - a + b > b + n
    BY <1>1, <2>1
  <2>3. a + (j - a) = j /\ b + (j - a) = j - a + b
    BY <1>1, <2>1
  <2>4. q[j] = r[j - a + b]
    BY <2>2, <2>3
  <2> QED
    BY <1>1, <2>1, <2>2, <2>4 DEF OpenIn
<1> HIDE DEF Q, R
<1>4. {r[j].state : j \in R} = {q[j].state : j \in Q}
  <2>1. ASSUME NEW j \in R PROVE \E k \in Q : r[j].state = q[k].state
    BY <1>2, <2>1
  <2>2. ASSUME NEW j \in Q PROVE \E k \in R : q[j].state = r[k].state
    BY <1>3, <2>2
  <2> QED
    BY <2>1, <2>2
<1> QED
  BY <1>4 DEF StatesBelow, Q, R

(* Neither what is done nor what is to be done instead is a call of        *)
(* parse_many in progress.                                                 *)
LEMMA StatesStay ==
  ASSUME todo \in Seq(Tasks), todo' \in Seq(Tasks), StatesAreThoseOpen,
         parsing_states' = parsing_states,
         NEW a \in 0 .. Len(todo), NEW b \in 0 .. Len(todo'),
         Len(todo') - b = Len(todo) - a,
         \A i \in 1 .. Len(todo) - a : todo'[b + i] = todo[a + i],
         \A i \in 1 .. a : todo[i].do # "in_many",
         \A i \in 1 .. b : todo'[i].do # "in_many"
  PROVE  StatesAreThoseOpen'
PROOF
<1> DEFINE q == todo
           r == todo'
<1>1. /\ DOMAIN q = 1 .. Len(q) /\ Len(q) \in Nat
      /\ DOMAIN r = 1 .. Len(r) /\ Len(r) \in Nat
      /\ a \in Nat /\ b \in Nat
  BY LenProperties
<1>2. \A n \in 0 .. Len(q) - a : StatesBelow(r, b + n) = StatesBelow(q, a + n)
  BY StatesBelowStay
<1>3. AreOpenIn(q, parsing_states)
  BY StatesByDepth DEF StatesAreThoseOpen, Open, OpenIn
<1>4. parsing_states = StatesBelow(r, 0)
  <2>1. StatesBelow(q, 0) = StatesBelow(q, a)
    BY <1>1 DEF StatesBelow, OpenIn
  <2>2. StatesBelow(r, 0) = StatesBelow(r, b)
    BY <1>1 DEF StatesBelow, OpenIn
  <2>3. StatesBelow(r, b + 0) = StatesBelow(q, a + 0)
    BY <1>1, <1>2
  <2> QED
    BY <1>1, <1>3, <2>1, <2>2, <2>3 DEF AreOpenIn
<1>5. ASSUME NEW i \in OpenIn(r) PROVE r[i].saved = StatesBelow(r, i)
  <2>1. i \in 1 .. Len(r) /\ r[i].do = "in_many"
    BY <1>1 DEF OpenIn
  <2>2. i > b
    BY <1>1, <2>1
  <2>3. i - b \in 1 .. Len(q) - a /\ b + (i - b) = i /\ a + (i - b) \in 1 .. Len(q)
    BY <1>1, <2>1, <2>2
  <2>4. r[i] = q[a + (i - b)]
    BY <2>3
  <2>5. StatesBelow(r, i) = StatesBelow(q, a + (i - b))
    <3> DEFINE n == i - b
    <3>1. n \in 0 .. Len(q) - a /\ b + n = i
      BY <1>1, <2>3
    <3> HIDE DEF n
    <3>2. StatesBelow(r, b + n) = StatesBelow(q, a + n)
      BY <1>2, <3>1
    <3> QED
      BY <3>1, <3>2 DEF n
  <2>6. a + (i - b) \in OpenIn(q)
    BY <1>1, <2>1, <2>3, <2>4 DEF OpenIn
  <2> QED
    BY <1>3, <2>4, <2>5, <2>6 DEF AreOpenIn
<1>6. AreOpenIn(todo', parsing_states')
  BY <1>4, <1>5 DEF AreOpenIn
<1> QED
  BY <1>6, StatesByDepth DEF StatesAreThoseOpen, Open, OpenIn

--------------------------------------------------------------------------------
(* What a step does to the calls.  At the bottom is the call of parse_many *)
(* for the design units, unless the file has none.                         *)

IsBottom(task) ==
  \/ task.do = "file"
  \/ task.do \in {"many", "in_many"} /\ task.state = "design_unit_in_design_file"

UnitsAtTheBottom ==
  outcome = "parsing" =>
    IF todo = <<>> THEN Current = "eof" ELSE IsBottom(todo[Len(todo)])

CallsInv ==
  /\ todo \in Seq(Tasks)
  /\ StatesAreThoseOpen
  /\ UnitsAtTheBottom
  /\ ReadsToTheEnd

(* Every production but parse_many and the file's does what it is called   *)
(* for, or asks for calls in its place; only a range asks for its release. *)
Produces ==
  /\ Parsing /\ todo # <<>>
  /\ Task.do \notin {"file", "many", "in_many"}
  /\ parsing_states' = parsing_states
  /\ outcome' \in {outcome, "aborted"}
  /\ \/ todo' = todo
     \/ \E script \in Seq(OtherCalls) : Then(script)
     \/ /\ Task.do \in {"range", "range_end"}
        /\ \E script \in Seq(Calls) : Then(script)

LEMMA Replaced ==
  ASSUME todo \in Seq(Tasks), todo # <<>>, NEW script \in Seq(Tasks), Then(script)
  PROVE  /\ todo' \in Seq(Tasks)
         /\ Len(todo) \in Nat \ {0} /\ Len(script) \in Nat
         /\ Len(todo') = Len(script) + Len(todo) - 1
         /\ \A i \in 1 .. Len(script) : todo'[i] = script[i]
         /\ \A i \in 1 .. Len(todo) - 1 : todo'[Len(script) + i] = todo[1 + i]
         /\ Len(todo) > 1 => todo' # <<>> /\ todo'[Len(todo')] = todo[Len(todo)]
PROOF
<1> DEFINE t == Tail(todo)
           n == Len(todo)
           m == Len(script)
<1>1. /\ t \in Seq(Tasks) /\ Len(t) = n - 1
      /\ \A i \in 1 .. n - 1 : t[i] = todo[i + 1]
  BY HeadTailProperties
<1>2. n \in Nat \ {0} /\ m \in Nat
  BY EmptySeq, LenProperties
<1> HIDE DEF t, n, m
<1>3. todo' = script \o t
  BY DEF Then, t
<1>4. /\ todo' \in Seq(Tasks)
      /\ Len(todo') = m + Len(t)
      /\ \A i \in 1 .. m + Len(t) : todo'[i] = IF i <= m THEN script[i] ELSE t[i - m]
  BY <1>1, <1>3, ConcatProperties DEF m
<1>5. Len(todo') = m + n - 1
  BY <1>1, <1>2, <1>4
<1>6. \A i \in 1 .. m : todo'[i] = script[i]
  BY <1>1, <1>2, <1>4
<1>7. ASSUME NEW i \in 1 .. n - 1 PROVE todo'[m + i] = todo[1 + i]
  <2> DEFINE k == m + i
  <2>1. k \in 1 .. m + Len(t) /\ ~ (k <= m) /\ k - m = i /\ 1 + i = i + 1
    BY <1>1, <1>2
  <2> HIDE DEF k
  <2>2. todo'[k] = t[i]
    BY <1>4, <2>1
  <2>3. t[i] = todo[1 + i]
    BY <1>1, <2>1
  <2> QED
    BY <2>2, <2>3 DEF k
<1>8. ASSUME n > 1 PROVE todo' # <<>> /\ todo'[Len(todo')] = todo[n]
  <2>1. n - 1 \in 1 .. n - 1 /\ m + (n - 1) = Len(todo') /\ 1 + (n - 1) = n
    BY <1>2, <1>5, <1>8
  <2>2. Len(todo') > 0
    BY <1>2, <1>5, <1>8
  <2>3. todo' # <<>>
    BY <2>2, EmptySeq
  <2> QED
    BY <1>7, <2>1, <2>3
<1> QED
  BY <1>2, <1>4, <1>5, <1>6, <1>7, <1>8 DEF n, m

LEMMA CallsAreNotOpen ==
  ASSUME NEW script \in Seq(Calls)
  PROVE  \A i \in 1 .. Len(script) : script[i].do # "in_many"
PROOF
<1> TAKE i \in 1 .. Len(script)
<1>1. script[i] \in Calls
  BY ElementOfSeq
<1> QED
  BY <1>1, OfATask DEF Tasks

LEMMA TheTask ==
  ASSUME todo \in Seq(Tasks), todo # <<>>
  PROVE  /\ Task \in Tasks /\ Task = todo[1] /\ Len(todo) \in Nat \ {0}
PROOF
BY EmptySeq, HeadTailProperties DEF Task

LEMMA OneOrMore == \A n \in Nat \ {0} : n = 1 \/ n > 1
PROOF
OBVIOUS

(* The call at the bottom is never a production's own.                     *)
LEMMA NotTheBottom ==
  ASSUME CallsInv, Parsing, todo # <<>>,
         Task.do \notin {"file", "many", "in_many"}
  PROVE  Len(todo) > 1
PROOF
<1>1. Task = todo[1] /\ Len(todo) \in Nat \ {0}
  BY TheTask DEF CallsInv
<1>2. IsBottom(todo[Len(todo)])
  BY DEF CallsInv, UnitsAtTheBottom, Parsing
<1>3. Len(todo) # 1
  BY <1>1, <1>2 DEF IsBottom
<1>4. Len(todo) \in Nat \ {0}
  BY <1>1
<1> QED
  BY <1>3, <1>4, OneOrMore

LEMMA ProducesHolds == ASSUME CallsInv, Produces PROVE CallsInv'
PROOF
<1>1. /\ todo \in Seq(Tasks) /\ StatesAreThoseOpen
      /\ todo # <<>> /\ Task.do \notin {"file", "many", "in_many"}
      /\ parsing_states' = parsing_states
      /\ outcome = "parsing" /\ outcome' \in {outcome, "aborted"}
  BY DEF CallsInv, Produces, Parsing
<1>2. Len(todo) > 1 /\ Task = todo[1] /\ Len(todo) \in Nat \ {0}
  BY <1>1, NotTheBottom, TheTask DEF Parsing
<1>3. IsBottom(todo[Len(todo)])
  BY <1>1 DEF CallsInv, UnitsAtTheBottom
<1>4. ReadsToTheEnd'
  BY <1>1 DEF ReadsToTheEnd
<1>5. CASE todo' = todo
  <2>1. StatesAreThoseOpen'
    BY <1>1, <1>5 DEF StatesAreThoseOpen, Open
  <2>2. UnitsAtTheBottom'
    BY <1>1, <1>3, <1>5 DEF UnitsAtTheBottom
  <2> QED
    BY <1>1, <1>4, <1>5, <2>1, <2>2 DEF CallsInv
<1>6. CASE \E script \in Seq(Calls) : Then(script)
  <2> PICK script \in Seq(Calls) : Then(script)
    BY <1>6
  <2>1. script \in Seq(Tasks)
    BY CallsAreTasks
  <2>2. /\ todo' \in Seq(Tasks) /\ Len(script) \in Nat
        /\ Len(todo') = Len(script) + Len(todo) - 1
        /\ \A i \in 1 .. Len(script) : todo'[i] = script[i]
        /\ \A i \in 1 .. Len(todo) - 1 : todo'[Len(script) + i] = todo[1 + i]
        /\ todo' # <<>> /\ todo'[Len(todo')] = todo[Len(todo)]
    BY <1>1, <1>2, <2>1, Replaced
  <2>3. StatesAreThoseOpen'
    <3>1. \A i \in 1 .. Len(script) : todo'[i].do # "in_many"
      BY <2>2, CallsAreNotOpen
    <3>2. \A i \in 1 .. 1 : todo[i].do # "in_many"
      BY <1>1, <1>2
    <3>3. /\ 1 \in 0 .. Len(todo) /\ Len(script) \in 0 .. Len(todo')
          /\ Len(todo') - Len(script) = Len(todo) - 1
      BY <1>2, <2>2
    <3> QED
      BY <1>1, <2>2, <3>1, <3>2, <3>3, StatesStay
  <2>4. UnitsAtTheBottom'
    BY <1>3, <2>2 DEF UnitsAtTheBottom
  <2> QED
    BY <1>4, <2>2, <2>3, <2>4 DEF CallsInv
<1>7. (\E script \in Seq(OtherCalls) : Then(script)) => \E script \in Seq(Calls) : Then(script)
  BY OthersAreCalls
<1> QED
  BY <1>5, <1>6, <1>7 DEF Produces

LEMMA ScriptProduces ==
  ASSUME NEW what, what \notin {"file", "many", "in_many"}, Doing(what),
         UNCHANGED <<parsing_states, outcome>>,
         NEW script \in Seq(OtherCalls), Then(script)
  PROVE  Produces
PROOF
BY DEF Produces, Doing

LEMMA RangeProduces ==
  ASSUME NEW what, what \in {"range", "range_end"}, Doing(what),
         UNCHANGED <<parsing_states, outcome>>,
         NEW script \in Seq(Calls), Then(script)
  PROVE  Produces
PROOF
BY DEF Produces, Doing

LEMMA NeverProduces ==
  ASSUME NEW what, what \notin {"file", "many", "in_many"}, Doing(what),
         todo \in Seq(Tasks), NeverGetHere
  PROVE  Produces
PROOF
<1>1. CASE asserts
  BY <1>1 DEF NeverGetHere, Produces, Doing
<1>2. CASE ~ asserts
  <2>1. Tail(todo) \in Seq(Tasks) /\ <<>> \in Seq(OtherCalls)
    BY EmptySeq, HeadTailProperties DEF Doing
  <2>2. Then(<<>>)
    BY <1>2, <2>1, ConcatEmptySeq DEF NeverGetHere, Then
  <2>3. UNCHANGED <<parsing_states, outcome>>
    BY <1>2 DEF NeverGetHere
  <2> QED
    BY <2>1, <2>2, <2>3, ScriptProduces
<1> QED
  BY <1>1, <1>2

(* The productions that end there.                                         *)
LEMMA EndsProduce ==
  ASSUME ScanFirst \/ ConsumeToken \/ LibraryNames \/ UnitName \/ EntityNamed
         \/ ClosingLabelOrNone \/ UnitEnd \/ NoDeclaration \/ NoSubtype
         \/ AttributeName \/ DropCheckpoint \/ NoRange
  PROVE  Produces
PROOF
<1>1. <<>> \in Seq(OtherCalls)
  BY EmptySeq
<1>2. ASSUME ScanFirst PROVE Produces
  <2>1. Doing("scan") /\ Then(<<>>) /\ UNCHANGED <<parsing_states, outcome>>
    BY <1>2 DEF ScanFirst, context
  <2> QED
    BY <1>1, <2>1, ScriptProduces
<1>3. ASSUME ConsumeToken PROVE Produces
  <2>1. Doing("consume") /\ Then(<<>>) /\ UNCHANGED <<parsing_states, outcome>>
    BY <1>3 DEF ConsumeToken, context
  <2> QED
    BY <1>1, <2>1, ScriptProduces
<1>4. ASSUME LibraryNames PROVE Produces
  <2>1. Doing("library_names") /\ Then(<<>>) /\ UNCHANGED <<parsing_states, outcome>>
    BY <1>4 DEF LibraryNames, context
  <2> QED
    BY <1>1, <2>1, ScriptProduces
<1>5. ASSUME UnitName PROVE Produces
  <2>1. Doing("unit_name") /\ Then(<<>>) /\ UNCHANGED <<parsing_states, outcome>>
    BY <1>5 DEF UnitName, context
  <2> QED
    BY <1>1, <2>1, ScriptProduces
<1>6. ASSUME EntityNamed PROVE Produces
  <2>1. Doing("entity_named") /\ Then(<<>>) /\ UNCHANGED <<parsing_states, outcome>>
    BY <1>6 DEF EntityNamed, context
  <2> QED
    BY <1>1, <2>1, ScriptProduces
<1>7. ASSUME ClosingLabelOrNone PROVE Produces
  <2>1. Doing("closing_label") /\ Then(<<>>) /\ UNCHANGED <<parsing_states, outcome>>
    BY <1>7 DEF ClosingLabelOrNone, context
  <2> QED
    BY <1>1, <2>1, ScriptProduces
<1>8. ASSUME UnitEnd PROVE Produces
  <2>1. Doing("unit_end") /\ Then(<<>>) /\ UNCHANGED <<parsing_states, outcome>>
    BY <1>8 DEF UnitEnd, context
  <2> QED
    BY <1>1, <2>1, ScriptProduces
<1>9. ASSUME NoDeclaration PROVE Produces
  <2>1. Doing("declaration") /\ Then(<<>>) /\ UNCHANGED <<parsing_states, outcome>>
    BY <1>9 DEF NoDeclaration, context
  <2> QED
    BY <1>1, <2>1, ScriptProduces
<1>10. ASSUME NoSubtype PROVE Produces
  <2>1. Doing("subtype") /\ Then(<<>>) /\ UNCHANGED <<parsing_states, outcome>>
    BY <1>10 DEF NoSubtype, context
  <2> QED
    BY <1>1, <2>1, ScriptProduces
<1>11. ASSUME AttributeName PROVE Produces
  <2>1. Doing("attribute") /\ Then(<<>>) /\ UNCHANGED <<parsing_states, outcome>>
    BY <1>11 DEF AttributeName, context
  <2> QED
    BY <1>1, <2>1, ScriptProduces
<1>12. ASSUME DropCheckpoint PROVE Produces
  <2>1. Doing("drop_checkpoint") /\ Then(<<>>) /\ UNCHANGED <<parsing_states, outcome>>
    BY <1>12 DEF DropCheckpoint, context
  <2> QED
    BY <1>1, <2>1, ScriptProduces
<1>13. ASSUME NoRange PROVE Produces
  <2>1. Doing("range_end") /\ Then(<<>>) /\ UNCHANGED <<parsing_states, outcome>>
    BY <1>13 DEF NoRange, context
  <2> QED
    BY <1>1, <2>1, ScriptProduces
<1> QED
  BY <1>2, <1>3, <1>4, <1>5, <1>6, <1>7, <1>8, <1>9, <1>10, <1>11, <1>12, <1>13

(* Those that ask for calls of their own.                                  *)
LEMMA UnitsProduce ==
  ASSUME todo \in Seq(Tasks),
         OptionalToken \/ ContextClause \/ LibraryEnd \/ resync_to_next_semicolon
         \/ DesignUnit \/ NoDesignUnit \/ PackageEnd
  PROVE  Produces
PROOF
<1>1. <<>> \in Seq(OtherCalls)
  BY EmptySeq
<1>2. /\ \A x \in Simple \ Releasing : Do(x) \in OtherCalls
      /\ \A k \in Kinds : Consume(k) \in OtherCalls
  BY EachIsAnother
<1>3. todo # <<>> => Task \in Tasks
  BY TheTask
<1>4. ASSUME OptionalToken PROVE Produces
  <2> DEFINE script == IF Current = Task.token THEN Task.then ELSE <<>>
  <2>1. /\ Doing("optional") /\ Then(script)
        /\ UNCHANGED <<parsing_states, outcome>>
    BY <1>4 DEF OptionalToken, context
  <2>2. Task.then \in Thens
    BY <1>3, <2>1, OfATask DEF Doing
  <2>3. script \in Seq(OtherCalls)
    BY <1>1, <2>2, ThensAreOthers
  <2> QED
    BY <2>1, <2>3, ScriptProduces
<1>5. ASSUME ContextClause PROVE Produces
  <2>1. Doing("context_clause") /\ UNCHANGED <<parsing_states, outcome>>
    BY <1>5 DEF ContextClause, context
  <2>2. CASE Current \in UnitKeywords \cup {"library", "eof"}
    <3> DEFINE script == IF Current = "library" THEN Append(LibraryClause, Task) ELSE <<>>
    <3>1. Then(script)
      BY <1>5, <2>2 DEF ContextClause
    <3>2. Task \in OtherCalls
      BY <1>3, <2>1, OfATask DEF Doing, OtherCalls, Releasing
    <3>3. script \in Seq(OtherCalls)
      BY <1>1, <3>2, FixedScripts, AppendProperties
    <3> QED
      BY <2>1, <3>1, <3>3, ScriptProduces
  <2>3. CASE Current \notin UnitKeywords \cup {"library", "eof"}
    <3>1. todo' = todo
      BY <1>5, <2>3 DEF ContextClause
    <3> QED
      BY <2>1, <3>1 DEF Produces, Doing
  <2> QED
    BY <2>2, <2>3
<1>6. ASSUME LibraryEnd PROVE Produces
  <2> DEFINE script == IF Current = "semicolon" THEN <<>> ELSE <<Do("resync")>>
  <2>1. /\ Doing("library_end") /\ Then(script)
        /\ UNCHANGED <<parsing_states, outcome>>
    BY <1>6 DEF LibraryEnd, context
  <2>2. <<Do("resync")>> \in Seq(OtherCalls)
    BY <1>2 DEF Simple, Releasing
  <2>3. script \in Seq(OtherCalls)
    BY <1>1, <2>2
  <2> QED
    BY <2>1, <2>3, ScriptProduces
<1>7. ASSUME resync_to_next_semicolon PROVE Produces
  <2>1. /\ Doing("resync") /\ UNCHANGED <<parsing_states, outcome>>
        /\ todo' = todo \/ todo' = Tail(todo)
    BY <1>7 DEF resync_to_next_semicolon, context
  <2>2. Tail(todo) \in Seq(Tasks)
    BY <2>1, HeadTailProperties DEF Doing
  <2>3. <<>> \o Tail(todo) = Tail(todo)
    BY <2>2, ConcatEmptySeq
  <2>4. CASE todo' = todo
    BY <2>1, <2>4 DEF Produces, Doing
  <2>5. CASE todo' = Tail(todo)
    <3>1. Then(<<>>)
      BY <2>3, <2>5 DEF Then
    <3> QED
      BY <1>1, <2>1, <3>1, ScriptProduces
  <2> QED
    BY <2>1, <2>4, <2>5
<1>8. ASSUME DesignUnit PROVE Produces
  <2>1. /\ Doing("design_unit") /\ Then(UnitScript(Current))
        /\ UNCHANGED <<parsing_states, outcome>> /\ Current \in UnitKeywords
    BY <1>8 DEF DesignUnit, context
  <2>2. UnitScript(Current) \in Seq(OtherCalls)
    <3>1. \A token \in UnitKeywords : UnitScript(token) \in Seq(OtherCalls)
      BY FixedScripts DEF UnitScript, UnitKeywords
    <3> QED
      BY <2>1, <3>1
  <2> QED
    BY <2>1, <2>2, ScriptProduces
<1>9. ASSUME NoDesignUnit PROVE Produces
  <2>1. Doing("design_unit") /\ NeverGetHere
    BY <1>9 DEF NoDesignUnit
  <2> QED
    BY <2>1, NeverProduces
<1>10. ASSUME PackageEnd PROVE Produces
  <2> DEFINE script ==
        IF unit.name = 0 THEN <<>> ELSE <<Consume("semicolon"), Do("unit_end")>>
  <2>1. /\ Doing("package_end") /\ Then(script)
        /\ UNCHANGED <<parsing_states, outcome>>
    BY <1>10 DEF PackageEnd, context
  <2>2. <<Consume("semicolon"), Do("unit_end")>> \in Seq(OtherCalls)
    BY <1>2 DEF Simple, Releasing, Kinds
  <2>3. script \in Seq(OtherCalls)
    BY <1>1, <2>2
  <2> QED
    BY <2>1, <2>3, ScriptProduces
<1> QED
  BY <1>4, <1>5, <1>6, <1>7, <1>8, <1>9, <1>10

LEMMA DeclarationsProduce ==
  ASSUME todo \in Seq(Tasks),
         ObjectDeclaration \/ SubtypeIndication \/ Constraint \/ ParseName \/ Suffix
         \/ Expression \/ ParseRange \/ RangeUpTo \/ RangeAgain
  PROVE  Produces
PROOF
<1>1. <<>> \in Seq(OtherCalls)
  BY EmptySeq
<1>2. /\ \A x \in Simple \ Releasing : Do(x) \in OtherCalls
      /\ \A k \in Kinds : Consume(k) \in OtherCalls
  BY EachIsAnother
<1>3. todo # <<>> => Task \in Tasks
  BY TheTask
<1>4. <<Do("name")>> \in Seq(OtherCalls) /\ <<Do("suffix")>> \in Seq(OtherCalls)
  BY <1>2 DEF Simple, Releasing
<1>5. ASSUME ObjectDeclaration PROVE Produces
  <2>1. /\ Doing("declaration") /\ Then(VariableDeclaration)
        /\ UNCHANGED <<parsing_states, outcome>>
    BY <1>5 DEF ObjectDeclaration, context
  <2> QED
    BY <2>1, FixedScripts, ScriptProduces
<1>6. ASSUME SubtypeIndication PROVE Produces
  <2> DEFINE first == IF Ahead(1) = "identifier" THEN <<Do("name")>> ELSE <<>>
             rest == <<Do("name"), Do("constraint")>>
  <2>1. /\ Doing("subtype") /\ Then(first \o rest)
        /\ UNCHANGED <<parsing_states, outcome>>
    BY <1>6 DEF SubtypeIndication, context
  <2>2. first \in Seq(OtherCalls)
    BY <1>1, <1>4
  <2>3. rest \in Seq(OtherCalls)
    BY <1>2 DEF Simple, Releasing
  <2>4. first \o rest \in Seq(OtherCalls)
    BY <2>2, <2>3, ConcatProperties
  <2> QED
    BY <2>1, <2>4, ScriptProduces
<1>7. ASSUME Constraint PROVE Produces
  <2> DEFINE script == IF Current = "range" THEN RangeConstraint ELSE <<>>
  <2>1. /\ Doing("constraint") /\ Then(script)
        /\ UNCHANGED <<parsing_states, outcome>>
    BY <1>7 DEF Constraint, context
  <2>2. script \in Seq(OtherCalls)
    BY <1>1, FixedScripts
  <2> QED
    BY <2>1, <2>2, ScriptProduces
<1>8. ASSUME ParseName PROVE Produces
  <2>1. /\ Doing("name") /\ UNCHANGED <<parsing_states, outcome>>
        /\ Then(<<Do("suffix")>>) \/ Then(<<>>)
    BY <1>8 DEF ParseName, context
  <2> QED
    BY <1>1, <1>4, <2>1, ScriptProduces
<1>9. ASSUME Suffix PROVE Produces
  <2>1. /\ Doing("suffix") /\ UNCHANGED <<parsing_states, outcome>>
        /\ Then(<<Consume("tick"), Do("attribute"), Task>>) \/ Then(<<>>)
    BY <1>9 DEF Suffix, context
  <2>2. Task \in OtherCalls
    BY <1>3, <2>1, OfATask DEF Doing, OtherCalls, Releasing
  <2>3. <<Consume("tick"), Do("attribute"), Task>> \in Seq(OtherCalls)
    BY <1>2, <2>2 DEF Simple, Releasing, Kinds
  <2> QED
    BY <1>1, <2>1, <2>3, ScriptProduces
<1>10. ASSUME Expression PROVE Produces
  <2> DEFINE script == IF Current = "identifier" THEN <<Do("name")>> ELSE <<>>
  <2>1. /\ Doing("expression") /\ Then(script)
        /\ UNCHANGED <<parsing_states, outcome>>
    BY <1>10 DEF Expression, context
  <2>2. script \in Seq(OtherCalls)
    BY <1>1, <1>4
  <2> QED
    BY <2>1, <2>2, ScriptProduces
<1>11. ASSUME RangeUpTo \/ RangeAgain PROVE Produces
  <2>1. /\ Doing("range_end") /\ UNCHANGED <<parsing_states, outcome>>
        /\ Then(UpTo) \/ Then(<<Do("name")>>)
    BY <1>11 DEF RangeUpTo, RangeAgain, context
  <2> QED
    BY <1>4, <2>1, FixedScripts, OthersAreCalls, RangeProduces
<1>12. ASSUME ParseRange PROVE Produces
  <2>1. /\ Doing("range") /\ UNCHANGED <<parsing_states, outcome>>
        /\ Then(<<Do("expression"), Do("range_end")>>)
    BY <1>12 DEF ParseRange, context
  <2>2. <<Do("expression"), Do("range_end")>> \in Seq(Calls)
    BY EachIsACall DEF Simple
  <2> QED
    BY <2>1, <2>2, RangeProduces
<1> QED
  BY <1>5, <1>6, <1>7, <1>8, <1>9, <1>10, <1>11, <1>12

LEMMA StatementsProduce ==
  ASSUME todo \in Seq(Tasks),
         EntityStatement \/ ConcurrentStatement \/ InstantiationLabel
         \/ SequentialStatement \/ LabelledStatement \/ NoStatement \/ CallEnd
         \/ Generate \/ GenerateBody
  PROVE  Produces
PROOF
<1>1. <<>> \in Seq(OtherCalls)
  BY EmptySeq
<1>2. /\ \A x \in Simple \ Releasing : Do(x) \in OtherCalls
      /\ \A k \in Kinds : Consume(k) \in OtherCalls
      /\ Optional("colon", <<>>) \in OtherCalls
  BY EachIsAnother DEF Kinds, Thens
<1>3. /\ ProcedureCall(HasLabel) \in Seq(OtherCalls)
      /\ Process(HasLabel) \in Seq(OtherCalls)
      /\ Label(HasLabel) \in Seq(OtherCalls)
      /\ Instantiation \in Seq(OtherCalls)
      /\ Loop(Task.labelled) \in Seq(OtherCalls)
      /\ If(Task.labelled) \in Seq(OtherCalls)
      /\ IfGenerate(HasLabel) \in Seq(OtherCalls)
  BY LabelledScripts, FixedScripts
<1>4. ASSUME EntityStatement PROVE Produces
  <2>1. /\ Doing("entity_statement")
        /\ \/ NeverGetHere
           \/ Then(EntityStatementScript) /\ UNCHANGED <<parsing_states, outcome>>
    BY <1>4 DEF EntityStatement, context
  <2>2. EntityStatementScript \in Seq(OtherCalls)
    BY <1>1, <1>3 DEF EntityStatementScript
  <2> QED
    BY <2>1, <2>2, NeverProduces, ScriptProduces
<1>5. ASSUME ConcurrentStatement PROVE Produces
  <2>1. /\ Doing("concurrent")
        /\ \/ NeverGetHere
           \/ Then(ConcurrentScript) /\ UNCHANGED <<parsing_states, outcome>>
    BY <1>5 DEF ConcurrentStatement, context
  <2>2. ConcurrentScript \in Seq(OtherCalls)
    BY <1>1, <1>3 DEF ConcurrentScript
  <2> QED
    BY <2>1, <2>2, NeverProduces, ScriptProduces
<1>6. ASSUME InstantiationLabel PROVE Produces
  <2>1. /\ Doing("inst_label") /\ UNCHANGED <<parsing_states, outcome>>
        /\ Then(<<Consume("colon")>>) \/ Then(<<Optional("colon", <<>>)>>)
    BY <1>6 DEF InstantiationLabel, context
  <2>2. <<Consume("colon")>> \in Seq(OtherCalls) /\ <<Optional("colon", <<>>)>> \in Seq(OtherCalls)
    BY <1>2 DEF Kinds
  <2> QED
    BY <2>1, <2>2, ScriptProduces
<1>7. ASSUME SequentialStatement PROVE Produces
  <2> DEFINE script == Append(Label(HasLabel), Statement(HasLabel))
  <2>1. /\ Doing("sequential") /\ Then(script)
        /\ UNCHANGED <<parsing_states, outcome>>
    BY <1>7 DEF SequentialStatement, context
  <2>2. Statement(HasLabel) \in OtherCalls
    <3>1. HasLabel \in BOOLEAN
      BY DEF HasLabel
    <3>2. \A l \in BOOLEAN : Statement(l) \in OtherCalls
      BY EachIsAnother
    <3> QED
      BY <3>1, <3>2
  <2>3. script \in Seq(OtherCalls)
    BY <1>3, <2>2, AppendProperties
  <2> QED
    BY <2>1, <2>3, ScriptProduces
<1>8. ASSUME LabelledStatement PROVE Produces
  <2>1. /\ Doing("statement") /\ Then(StatementScript)
        /\ UNCHANGED <<parsing_states, outcome>>
        /\ Current \in {"identifier", "loop", "null", "if"}
    BY <1>8 DEF LabelledStatement, context, BeginsElement, DeclarativeParts
  <2>2. /\ <<Do("name"), Do("call_end")>> \in Seq(OtherCalls)
        /\ <<Consume("null"), Consume("semicolon")>> \in Seq(OtherCalls)
    BY <1>2 DEF Simple, Releasing, Kinds
  <2>3. StatementScript \in Seq(OtherCalls)
    BY <1>3, <2>1, <2>2 DEF StatementScript
  <2> QED
    BY <2>1, <2>3, ScriptProduces
<1>9. ASSUME NoStatement PROVE Produces
  <2>1. Doing("statement") /\ NeverGetHere
    BY <1>9 DEF NoStatement
  <2> QED
    BY <2>1, NeverProduces
<1>10. ASSUME CallEnd PROVE Produces
  <2>1. /\ Doing("call_end") /\ UNCHANGED <<parsing_states, outcome>>
        /\ Then(<<Consume("semicolon")>>) \/ Then(<<>>)
    BY <1>10 DEF CallEnd, context
  <2>2. <<Consume("semicolon")>> \in Seq(OtherCalls)
    BY <1>2 DEF Kinds
  <2> QED
    BY <1>1, <2>1, <2>2, ScriptProduces
<1>11. ASSUME Generate \/ GenerateBody PROVE Produces
  <2> DEFINE block == <<Many("declarative_part_begin", "block"), Consume("begin"),
                        Do("generate_body")>>
             body == <<Consume("begin"), Do("generate_body")>>
  <2>1. /\ Doing("generate") \/ Doing("generate_body")
        /\ UNCHANGED <<parsing_states, outcome>>
        /\ Then(block) \/ Then(body) \/ Then(GenerateStatements)
    BY <1>11 DEF Generate, GenerateBody, context
  <2>2. /\ Many("declarative_part_begin", "block") \in OtherCalls
        /\ Many("concurrent_statements", "none") \in OtherCalls
    BY EachIsAnother DEF States, DeclarativeParts, Parts
  <2>3. block \in Seq(OtherCalls) /\ body \in Seq(OtherCalls)
    BY <1>2, <2>2 DEF Simple, Releasing, Kinds
  <2>4. <<Many("concurrent_statements", "none")>> \in Seq(OtherCalls)
    BY <2>2
  <2>5. GenerateStatements \in Seq(OtherCalls)
    BY <1>1, <2>4 DEF GenerateStatements
  <2> HIDE DEF block, body
  <2> QED
    BY <2>1, <2>3, <2>5, ScriptProduces
<1> QED
  BY <1>4, <1>5, <1>6, <1>7, <1>8, <1>9, <1>10, <1>11

--------------------------------------------------------------------------------
(* parse_many and the file.                                                *)

LEMMA OpenStatesAreStates ==
  ASSUME todo \in Seq(Tasks), StatesAreThoseOpen
  PROVE  parsing_states \subseteq States
PROOF
<1> SUFFICES ASSUME NEW i \in Open PROVE todo[i].state \in States
  BY DEF StatesAreThoseOpen
<1>1. i \in 1 .. Len(todo) /\ todo[i].do = "in_many"
  BY LenProperties DEF Open
<1>2. todo[i] \in Tasks
  BY <1>1, ElementOfSeq
<1> QED
  BY <1>1, <1>2, OfATask

LEMMA ElementsAreOthers ==
  ASSUME NEW state \in States, NEW part \in Parts
  PROVE  Element(state, part) \in Seq(OtherCalls)
PROOF
<1>1. /\ Declaration(part) \in OtherCalls
      /\ \A x \in Simple \ Releasing : Do(x) \in OtherCalls
  BY EachIsAnother
<1>2. /\ <<Declaration(part)>> \in Seq(OtherCalls)
      /\ <<Do("context_clause"), Do("design_unit")>> \in Seq(OtherCalls)
      /\ <<Do("entity_statement")>> \in Seq(OtherCalls)
      /\ <<Do("concurrent")>> \in Seq(OtherCalls)
      /\ <<Do("sequential")>> \in Seq(OtherCalls)
  BY <1>1 DEF Simple, Releasing
<1> QED
  BY <1>2 DEF Element, States, DeclarativeParts

LEMMA DesignFileHolds == ASSUME CallsInv, DesignFile PROVE CallsInv'
PROOF
<1> DEFINE many == <<Many("design_unit_in_design_file", "none")>>
           script == IF Current = "eof" THEN <<>> ELSE many
<1>1. /\ todo \in Seq(Tasks) /\ StatesAreThoseOpen
      /\ todo # <<>> /\ Task.do = "file" /\ outcome = "parsing"
      /\ UNCHANGED <<parsing_states, outcome, file, lexer>> /\ Then(script)
  BY DEF CallsInv, DesignFile, Doing, Parsing, Look, context
<1>2. Current' = Current
  BY <1>1 DEF Current, Kind, current_token, lexer
<1>3. many \in Seq(Calls)
  <2>1. Many("design_unit_in_design_file", "none") \in Calls
    BY EachIsACall DEF States, Parts
  <2> QED
    BY <2>1
<1>4. <<>> \in Seq(Calls) /\ Len(<<>>) = 0 /\ Len(many) = 1
      /\ IsBottom(many[1])
  BY EmptySeq DEF IsBottom, Many
<1>5. script \in Seq(Calls) /\ script \in Seq(Tasks)
  BY <1>3, <1>4, CallsAreTasks
<1> HIDE DEF many, script
<1>6. /\ todo' \in Seq(Tasks)
      /\ Len(todo) \in Nat \ {0} /\ Len(script) \in Nat
      /\ Len(todo') = Len(script) + Len(todo) - 1
      /\ \A i \in 1 .. Len(script) : todo'[i] = script[i]
      /\ \A i \in 1 .. Len(todo) - 1 : todo'[Len(script) + i] = todo[1 + i]
      /\ Len(todo) > 1 => todo' # <<>> /\ todo'[Len(todo')] = todo[Len(todo)]
  BY <1>1, <1>5, Replaced
<1>7. StatesAreThoseOpen'
  <2>1. \A i \in 1 .. Len(script) : todo'[i].do # "in_many"
    BY <1>5, <1>6, CallsAreNotOpen
  <2>2. \A i \in 1 .. 1 : todo[i].do # "in_many"
    BY <1>1, TheTask
  <2>3. /\ 1 \in 0 .. Len(todo) /\ Len(script) \in 0 .. Len(todo')
        /\ Len(todo') - Len(script) = Len(todo) - 1
    BY <1>6
  <2> QED
    BY <1>1, <1>6, <2>1, <2>2, <2>3, StatesStay
<1>8. UnitsAtTheBottom'
  <2>1. CASE Len(todo) > 1
    <3>1. IsBottom(todo[Len(todo)])
      BY <1>1 DEF CallsInv, UnitsAtTheBottom
    <3> QED
      BY <1>6, <2>1, <3>1 DEF UnitsAtTheBottom
  <2>2. CASE Len(todo) = 1
    <3>1. CASE Current = "eof"
      <4>1. Len(todo') = 0
        BY <1>4, <1>6, <2>2, <3>1 DEF script
      <4>2. todo' = <<>>
        BY <1>6, <4>1, EmptySeq
      <4> QED
        BY <1>2, <3>1, <4>2 DEF UnitsAtTheBottom
    <3>2. CASE Current # "eof"
      <4>1. Len(todo') = 1 /\ todo'[1] = many[1]
        BY <1>4, <1>6, <2>2, <3>2 DEF script
      <4>2. todo' # <<>>
        BY <4>1, EmptySeq
      <4> QED
        BY <1>4, <4>1, <4>2 DEF UnitsAtTheBottom
    <3> QED
      BY <3>1, <3>2
  <2>3. Len(todo) = 1 \/ Len(todo) > 1
    BY <1>6, OneOrMore
  <2> QED
    BY <2>1, <2>2, <2>3
<1>9. ReadsToTheEnd'
  BY <1>1 DEF ReadsToTheEnd
<1> QED
  BY <1>6, <1>7, <1>8, <1>9 DEF CallsInv

LEMMA EnterManyHolds == ASSUME CallsInv, EnterMany PROVE CallsInv'
PROOF
<1> DEFINE opened == InMany(Task.state, Task.part, parsing_states)
           script == <<opened>>
<1>1. /\ todo \in Seq(Tasks) /\ StatesAreThoseOpen
      /\ todo # <<>> /\ Task.do = "many" /\ outcome = "parsing" /\ outcome' = outcome
      /\ parsing_states' = parsing_states \cup {Task.state} /\ Then(script)
  BY DEF CallsInv, EnterMany, Doing, Parsing
<1>2. Task \in Tasks /\ Task = todo[1]
  BY <1>1, TheTask
<1>3. Task.state \in States /\ Task.part \in Parts /\ parsing_states \subseteq States
  BY <1>1, <1>2, OfATask, OpenStatesAreStates
<1>4. /\ opened \in Tasks /\ opened.do = "in_many" /\ opened.state = Task.state
      /\ opened.saved = parsing_states
  BY <1>3 DEF InMany, OpenCalls, Tasks
<1>5. script \in Seq(Tasks) /\ Len(script) = 1 /\ script[1] = opened
  BY <1>4
<1> HIDE DEF opened, script
<1>6. /\ todo' \in Seq(Tasks)
      /\ Len(todo) \in Nat \ {0} /\ Len(todo') = Len(todo)
      /\ todo'[1] = opened
      /\ \A i \in 1 .. Len(todo) - 1 : todo'[1 + i] = todo[1 + i]
      /\ Len(todo) > 1 => todo' # <<>> /\ todo'[Len(todo')] = todo[Len(todo)]
  <2>1. /\ todo' \in Seq(Tasks)
        /\ Len(todo) \in Nat \ {0}
        /\ Len(todo') = Len(script) + Len(todo) - 1
        /\ \A i \in 1 .. Len(script) : todo'[i] = script[i]
        /\ \A i \in 1 .. Len(todo) - 1 : todo'[Len(script) + i] = todo[1 + i]
        /\ Len(todo) > 1 => todo' # <<>> /\ todo'[Len(todo')] = todo[Len(todo)]
    BY <1>1, <1>5, Replaced
  <2>2. Len(todo') = Len(todo) /\ todo'[1] = opened
    BY <1>5, <2>1
  <2>3. \A i \in 1 .. Len(todo) - 1 : todo'[1 + i] = todo[1 + i]
    BY <1>5, <2>1
  <2> QED
    BY <2>1, <2>2, <2>3
<1>7. StatesAreThoseOpen'
  <2> DEFINE q == todo
             r == todo'
  <2>1. /\ AreOpenIn(q, parsing_states)
        /\ DOMAIN q = 1 .. Len(q) /\ DOMAIN r = 1 .. Len(q)
    BY <1>1, <1>6, StatesByDepth, LenProperties DEF StatesAreThoseOpen, Open, OpenIn
  <2>2. ASSUME NEW n \in 0 .. Len(q) - 1 PROVE StatesBelow(r, 1 + n) = StatesBelow(q, 1 + n)
    <3>1. 1 \in 0 .. Len(q) /\ 1 \in 0 .. Len(r) /\ Len(r) - 1 = Len(q) - 1
      BY <1>6
    <3> QED
      BY <1>1, <1>6, <3>1, StatesBelowStay
  <2>3. StatesBelow(r, 1) = parsing_states
    <3>1. StatesBelow(r, 1) = StatesBelow(q, 1)
      BY <1>6, <2>2
    <3>2. {j \in OpenIn(q) : j > 0} = {j \in OpenIn(q) : j > 1}
      BY <1>1, <1>2, <1>6, <2>1 DEF OpenIn
    <3> QED
      BY <2>1, <3>1, <3>2 DEF AreOpenIn, StatesBelow
  <2>4. 1 \in OpenIn(r)
    BY <1>4, <1>6, <2>1 DEF OpenIn
  <2>5. parsing_states' = StatesBelow(r, 0)
    <3>1. {j \in OpenIn(r) : j > 0} = {1} \cup {j \in OpenIn(r) : j > 1}
      BY <1>6, <2>1, <2>4 DEF OpenIn
    <3>2. StatesBelow(r, 0) = {r[1].state} \cup StatesBelow(r, 1)
      BY <3>1 DEF StatesBelow
    <3> QED
      BY <1>1, <1>4, <1>6, <2>3, <3>2
  <2>6. ASSUME NEW i \in OpenIn(r) PROVE r[i].saved = StatesBelow(r, i)
    <3>1. CASE i = 1
      BY <1>4, <1>6, <2>3, <3>1
    <3>2. CASE i # 1
      <4> DEFINE n == i - 1
      <4>1. n \in 1 .. Len(q) - 1 /\ 1 + n = i /\ n \in 0 .. Len(q) - 1 /\ i \in DOMAIN q
        BY <1>6, <2>1, <3>2 DEF OpenIn
      <4> HIDE DEF n
      <4>2. r[i] = q[i] /\ StatesBelow(r, i) = StatesBelow(q, i)
        BY <1>6, <2>2, <4>1
      <4>3. i \in OpenIn(q)
        BY <4>1, <4>2 DEF OpenIn
      <4> QED
        BY <2>1, <4>2, <4>3 DEF AreOpenIn
    <3> QED
      BY <3>1, <3>2
  <2>7. AreOpenIn(todo', parsing_states')
    BY <2>5, <2>6 DEF AreOpenIn
  <2> QED
    BY <1>6, <2>7, StatesByDepth DEF StatesAreThoseOpen, Open, OpenIn
<1>8. UnitsAtTheBottom'
  <2>1. IsBottom(todo[Len(todo)])
    BY <1>1 DEF CallsInv, UnitsAtTheBottom
  <2>2. CASE Len(todo) > 1
    BY <1>6, <2>1, <2>2 DEF UnitsAtTheBottom
  <2>3. CASE Len(todo) = 1
    <3>1. IsBottom(todo'[1])
      BY <1>1, <1>2, <1>4, <1>6, <2>1, <2>3 DEF IsBottom
    <3>2. todo' # <<>>
      BY <1>6, <2>3, EmptySeq
    <3> QED
      BY <1>6, <2>3, <3>1, <3>2 DEF UnitsAtTheBottom
  <2>4. Len(todo) = 1 \/ Len(todo) > 1
    BY <1>6, OneOrMore
  <2> QED
    BY <2>2, <2>3, <2>4
<1>9. ReadsToTheEnd'
  BY <1>1 DEF ReadsToTheEnd
<1> QED
  BY <1>6, <1>7, <1>8, <1>9 DEF CallsInv

(* What is put on top of a call leaves it open.                            *)
LEMMA ParseElementHolds == ASSUME CallsInv, ParseElement PROVE CallsInv'
PROOF
<1> DEFINE element == Element(Task.state, Task.part)
           script == Append(element, Task)
           n == Len(element)
<1>1. /\ todo \in Seq(Tasks) /\ StatesAreThoseOpen
      /\ todo # <<>> /\ Task.do = "in_many" /\ outcome = "parsing"
      /\ UNCHANGED <<parsing_states, outcome>> /\ Then(script)
  BY DEF CallsInv, ParseElement, Doing, Parsing, context
<1>2. Task \in Tasks /\ Task = todo[1]
  BY <1>1, TheTask
<1>3. Task.state \in States /\ Task.part \in Parts
  BY <1>1, <1>2, OfATask
<1>4. element \in Seq(Calls) /\ element \in Seq(Tasks)
  BY <1>3, ElementsAreOthers, OthersAreCalls, CallsAreTasks
<1> HIDE DEF element
<1>5. /\ script \in Seq(Tasks) /\ n \in Nat /\ Len(script) = n + 1
      /\ \A i \in 1 .. n : script[i] = element[i]
      /\ script[n + 1] = Task
  BY <1>2, <1>4, AppendProperties, LenProperties
<1> HIDE DEF script, n
<1>6. /\ todo' \in Seq(Tasks)
      /\ Len(todo) \in Nat \ {0} /\ Len(script) \in Nat
      /\ Len(todo') = Len(script) + Len(todo) - 1
      /\ \A i \in 1 .. Len(script) : todo'[i] = script[i]
      /\ \A i \in 1 .. Len(todo) - 1 : todo'[Len(script) + i] = todo[1 + i]
  BY <1>1, <1>5, Replaced
<1>7. Len(todo') = n + Len(todo)
  BY <1>5, <1>6
<1>8. ASSUME NEW i \in 1 .. Len(todo) PROVE todo'[n + i] = todo[i]
  <2>1. CASE i = 1
    BY <1>2, <1>5, <1>6, <2>1
  <2>2. CASE i # 1
    <3> DEFINE k == i - 1
    <3>1. k \in 1 .. Len(todo) - 1 /\ Len(script) + k = n + i /\ 1 + k = i
      BY <1>5, <1>6, <2>2
    <3> HIDE DEF k
    <3> QED
      BY <1>6, <3>1
  <2> QED
    BY <2>1, <2>2
<1>9. StatesAreThoseOpen'
  <2>1. \A i \in 1 .. n : todo'[i].do # "in_many"
    <3>1. \A i \in 1 .. n : i \in 1 .. Len(script) /\ todo'[i] = element[i]
      BY <1>5, <1>6
    <3> QED
      BY <1>4, <3>1, CallsAreNotOpen DEF n
  <2>2. /\ 0 \in 0 .. Len(todo) /\ n \in 0 .. Len(todo')
        /\ Len(todo') - n = Len(todo) - 0
        /\ \A i \in 1 .. 0 : todo[i].do # "in_many"
    BY <1>5, <1>6, <1>7
  <2>3. \A i \in 1 .. Len(todo) - 0 : todo'[n + i] = todo[0 + i]
    BY <1>6, <1>8
  <2> QED
    BY <1>1, <1>6, <2>1, <2>2, <2>3, StatesStay
<1>10. UnitsAtTheBottom'
  <2>1. IsBottom(todo[Len(todo)])
    BY <1>1 DEF CallsInv, UnitsAtTheBottom
  <2>2. todo'[Len(todo')] = todo[Len(todo)]
    BY <1>6, <1>7, <1>8
  <2>3. Len(todo') # 0
    BY <1>5, <1>6, <1>7
  <2>4. todo' # <<>>
    BY <2>3, EmptySeq
  <2> QED
    BY <2>1, <2>2, <2>4 DEF UnitsAtTheBottom
<1>11. ReadsToTheEnd'
  BY <1>1 DEF ReadsToTheEnd
<1> QED
  BY <1>6, <1>9, <1>10, <1>11 DEF CallsInv

(* The call for the design units leaves at the end of the file only: no    *)
(* other call is open that a token could be left to.                       *)
LEMMA UnitsLeaveAtTheEnd ==
  ASSUME CallsInv, LeaveMany, Len(todo) = 1
  PROVE  Current = "eof"
PROOF
<1>1. /\ todo \in Seq(Tasks) /\ StatesAreThoseOpen
      /\ todo # <<>> /\ Task.do = "in_many" /\ outcome = "parsing"
  BY DEF CallsInv, LeaveMany, Doing, Parsing
<1>2. Task = todo[1]
  BY <1>1, TheTask
<1>3. Task.state = "design_unit_in_design_file"
  BY <1>1, <1>2 DEF CallsInv, UnitsAtTheBottom, IsBottom
<1>4. Open = {1}
  BY <1>1, <1>2, LenProperties DEF Open
<1>5. parsing_states = {"design_unit_in_design_file"}
  BY <1>1, <1>2, <1>3, <1>4 DEF StatesAreThoseOpen
<1>6. ~ Closes(Current, "design_unit_in_design_file")
  BY DEF Closes
<1>7. CASE EndsState(Current, Task.state)
  BY <1>3, <1>6, <1>7 DEF EndsState
<1>8. CASE ~ BeginsElement(Current, Task.state) /\ IsValidInParsingStates(Current)
  BY <1>3, <1>5, <1>6, <1>8 DEF IsValidInParsingStates, EndsState
<1> QED
  BY <1>7, <1>8 DEF LeaveMany

LEMMA LeaveManyHolds == ASSUME CallsInv, LeaveMany PROVE CallsInv'
PROOF
<1>1. /\ todo \in Seq(Tasks) /\ StatesAreThoseOpen
      /\ todo # <<>> /\ Task.do = "in_many" /\ outcome = "parsing"
      /\ parsing_states' = Task.saved /\ UNCHANGED <<outcome, file, lexer>>
      /\ Then(<<>>)
  BY DEF CallsInv, LeaveMany, Doing, Parsing, Look, Restored
<1>2. Task \in Tasks /\ Task = todo[1]
  BY <1>1, TheTask
<1>3. <<>> \in Seq(Tasks) /\ Len(<<>>) = 0
  BY EmptySeq
<1>4. /\ todo' \in Seq(Tasks)
      /\ Len(todo) \in Nat \ {0} /\ Len(todo') = Len(todo) - 1
      /\ \A i \in 1 .. Len(todo) - 1 : todo'[i] = todo[1 + i]
      /\ Len(todo) > 1 => todo' # <<>> /\ todo'[Len(todo')] = todo[Len(todo)]
  <2>1. /\ todo' \in Seq(Tasks)
        /\ Len(todo) \in Nat \ {0}
        /\ Len(todo') = Len(<<>>) + Len(todo) - 1
        /\ \A i \in 1 .. Len(todo) - 1 : todo'[Len(<<>>) + i] = todo[1 + i]
        /\ Len(todo) > 1 => todo' # <<>> /\ todo'[Len(todo')] = todo[Len(todo)]
    BY <1>1, <1>3, Replaced
  <2>2. Len(todo') = Len(todo) - 1
    BY <1>3, <2>1
  <2>3. \A i \in 1 .. Len(todo) - 1 : todo'[i] = todo[1 + i]
    BY <1>3, <2>1
  <2> QED
    BY <2>1, <2>2, <2>3
<1>5. StatesAreThoseOpen'
  <2> DEFINE q == todo
             r == todo'
  <2>1. /\ AreOpenIn(q, parsing_states)
        /\ DOMAIN q = 1 .. Len(q) /\ DOMAIN r = 1 .. Len(r)
    BY <1>1, <1>4, StatesByDepth, LenProperties DEF StatesAreThoseOpen, Open, OpenIn
  <2>2. ASSUME NEW n \in 0 .. Len(q) - 1 PROVE StatesBelow(r, n) = StatesBelow(q, 1 + n)
    <3>1. /\ 1 \in 0 .. Len(q) /\ 0 \in 0 .. Len(r) /\ Len(r) - 0 = Len(q) - 1
          /\ 0 + n = n
      BY <1>4
    <3>2. \A i \in 1 .. Len(q) - 1 : r[0 + i] = q[1 + i]
      BY <1>4
    <3>3. StatesBelow(r, 0 + n) = StatesBelow(q, 1 + n)
      BY <1>1, <1>4, <3>1, <3>2, StatesBelowStay
    <3> QED
      BY <3>1, <3>3
  <2>3. parsing_states' = StatesBelow(r, 0)
    <3>1. 1 \in OpenIn(q)
      BY <1>1, <1>2, <1>4, <2>1 DEF OpenIn
    <3>2. StatesBelow(r, 0) = StatesBelow(q, 1)
      BY <1>4, <2>2
    <3> QED
      BY <1>1, <1>2, <2>1, <3>1, <3>2 DEF AreOpenIn
  <2>4. ASSUME NEW i \in OpenIn(r) PROVE r[i].saved = StatesBelow(r, i)
    <3>1. /\ i \in 1 .. Len(q) - 1 /\ i \in 0 .. Len(q) - 1
          /\ 1 + i \in DOMAIN q /\ r[i].do = "in_many"
      BY <1>4, <2>1 DEF OpenIn
    <3>2. r[i] = q[1 + i] /\ StatesBelow(r, i) = StatesBelow(q, 1 + i)
      BY <1>4, <2>2, <3>1
    <3>3. 1 + i \in OpenIn(q)
      BY <3>1, <3>2 DEF OpenIn
    <3> QED
      BY <2>1, <3>2, <3>3 DEF AreOpenIn
  <2>5. AreOpenIn(todo', parsing_states')
    BY <2>3, <2>4 DEF AreOpenIn
  <2> QED
    BY <1>4, <2>5, StatesByDepth DEF StatesAreThoseOpen, Open, OpenIn
<1>6. UnitsAtTheBottom'
  <2>1. CASE Len(todo) > 1
    <3>1. IsBottom(todo[Len(todo)])
      BY <1>1 DEF CallsInv, UnitsAtTheBottom
    <3> QED
      BY <1>4, <2>1, <3>1 DEF UnitsAtTheBottom
  <2>2. CASE Len(todo) = 1
    <3>1. Len(todo') = 0
      BY <1>4, <2>2
    <3>2. todo' = <<>>
      BY <1>4, <3>1, EmptySeq
    <3>3. Current' = "eof"
      BY <1>1, <2>2, UnitsLeaveAtTheEnd DEF Current, Kind, current_token, lexer
    <3> QED
      BY <3>2, <3>3 DEF UnitsAtTheBottom
  <2>3. Len(todo) = 1 \/ Len(todo) > 1
    BY <1>4, OneOrMore
  <2> QED
    BY <2>1, <2>2, <2>3
<1>7. ReadsToTheEnd'
  BY <1>1 DEF ReadsToTheEnd
<1> QED
  BY <1>4, <1>5, <1>6, <1>7 DEF CallsInv

(* The steps that leave the calls as they are.                             *)
LEMMA SameCallsHold ==
  ASSUME CallsInv, SkipInMany \/ GiveUp \/ Finish \/ UNCHANGED vars
  PROVE  CallsInv'
PROOF
<1>1. todo' = todo /\ parsing_states' = parsing_states
  BY DEF SkipInMany, GiveUp, Finish, vars, parser, context
<1>2. StatesAreThoseOpen'
  BY <1>1 DEF CallsInv, StatesAreThoseOpen, Open
<1>3. CASE SkipInMany
  <2>1. todo # <<>> /\ outcome = "parsing" /\ outcome' = outcome
    BY <1>3 DEF SkipInMany, Doing, Parsing, context
  <2>2. UnitsAtTheBottom'
    BY <1>1, <2>1 DEF CallsInv, UnitsAtTheBottom
  <2> QED
    BY <1>1, <1>2, <2>1, <2>2 DEF CallsInv, ReadsToTheEnd
<1>4. CASE GiveUp
  BY <1>1, <1>2, <1>4 DEF CallsInv, ReadsToTheEnd, UnitsAtTheBottom, GiveUp
<1>5. CASE Finish
  <2>1. /\ todo = <<>> /\ outcome = "parsing" /\ outcome' = "parsed"
        /\ UNCHANGED <<file, lexer>>
    BY <1>5 DEF Finish, Parsing
  <2>2. Current' = Current
    BY <2>1 DEF Current, Kind, current_token, lexer
  <2>3. Current = "eof"
    BY <2>1 DEF CallsInv, UnitsAtTheBottom
  <2> QED
    BY <1>1, <1>2, <2>1, <2>2, <2>3 DEF CallsInv, ReadsToTheEnd, UnitsAtTheBottom
<1>6. CASE UNCHANGED vars
  <2>1. outcome' = outcome /\ UNCHANGED <<file, lexer>>
    BY <1>6 DEF vars, parser
  <2>2. Current' = Current
    BY <2>1 DEF Current, Kind, current_token, lexer
  <2> QED
    BY <1>1, <1>2, <2>1, <2>2 DEF CallsInv, ReadsToTheEnd, UnitsAtTheBottom
<1> QED
  BY <1>3, <1>4, <1>5, <1>6

LEMMA CallsBegin == Init => CallsInv
PROOF
<1> SUFFICES ASSUME Init PROVE CallsInv
  OBVIOUS
<1>1. /\ todo = <<Do("scan"), Do("file")>> /\ parsing_states = {}
      /\ outcome = "parsing"
  BY DEF Init
<1>2. Do("scan") \in Calls /\ Do("file") \in Calls
  BY EachIsACall DEF Simple
<1>3. todo \in Seq(Tasks) /\ Len(todo) = 2 /\ todo # <<>>
  BY <1>1, <1>2 DEF Tasks
<1>4. todo[1].do = "scan" /\ todo[2].do = "file" /\ DOMAIN todo = 1 .. 2
  BY <1>1 DEF Do
<1>5. Open = {}
  BY <1>4 DEF Open
<1> QED
  BY <1>1, <1>3, <1>4, <1>5
     DEF CallsInv, StatesAreThoseOpen, UnitsAtTheBottom, IsBottom, ReadsToTheEnd

LEMMA CallsStep == ASSUME CallsInv, [Next]_vars PROVE CallsInv'
PROOF
<1>1. todo \in Seq(Tasks)
  BY DEF CallsInv
<1>2. ASSUME Produces PROVE CallsInv'
  BY <1>2, ProducesHolds
<1> QED
  BY <1>1, <1>2, EndsProduce, UnitsProduce, DeclarationsProduce, StatementsProduce,
     DesignFileHolds, EnterManyHolds, ParseElementHolds, LeaveManyHolds, SameCallsHold
     DEF Next

(* The set of states that decides whether a token is skipped or left to a  *)
(* caller is that of the calls of parse_many in progress (parser.h:1626    *)
(* saves it and 1652 restores it), however deep the calls.                 *)
THEOREM StatesFollowTheCalls == Spec => []StatesAreThoseOpen
PROOF
<1>1. CallsInv => StatesAreThoseOpen
  BY DEF CallsInv
<1> QED
  BY <1>1, CallsBegin, CallsStep, PTL DEF Spec

(* A file that is parsed is parsed to its end (parse_design_file): the     *)
(* call for the design units stays at the bottom of all calls, and the set *)
(* of states has its state alone when it leaves.                           *)
THEOREM ParsedToTheEnd == Spec => []ReadsToTheEnd
PROOF
<1>1. CallsInv => ReadsToTheEnd
  BY DEF CallsInv
<1> QED
  BY <1>1, CallsBegin, CallsStep, PTL DEF Spec

--------------------------------------------------------------------------------
(* The lexer under the parser.                                             *)

(* peek goes no further than the tokens there are.                         *)
LEMMA PeekIsALexerStep ==
  ASSUME Whole, NEW nth \in Nat \ {0}, peek(nth)
  PROVE  LexerNext
PROOF
<1>1. LexedAfter(nth) <= MaxToken
  BY DEF peek
<1>2. /\ Peeked(nth) \in Seq(Token)
      /\ Len(Peeked(nth)) >= nth
      /\ LexedAfter(nth) = current_token + Len(Peeked(nth))
      /\ current_token \in Token
  BY <1>1, PeekedHasItsType, PeekedIsAhead, RingIndexes DEF Whole
<1>3. Len(Peeked(nth)) \in Nat /\ current_token \in Nat
  BY <1>2, LenProperties DEF Token
<1>4. \A l, c, m \in Nat : l >= nth /\ c + l <= m => nth \in 1 .. m
  OBVIOUS
<1>5. nth \in 1 .. MaxToken
  BY <1>1, <1>2, <1>3, <1>4, LexerAssumption
<1> QED
  BY <1>5 DEF LexerNext

LEMMA Least ==
  ASSUME NEW T, T \subseteq Nat, T # {}
  PROVE  \E m \in T : \A k \in T : ~ (k < m)
PROOF
<1>1. PICK m \in T : \A k \in T : ~ (<<k, m>> \in OpToRel(<, Nat))
  BY WFMin, NatLessThanWellFounded
<1>2. \A k \in T : k \in Nat /\ m \in Nat
  OBVIOUS
<1> QED
  BY <1>1, <1>2 DEF OpToRel

(* look_for finds a semicolon or the end of the file.                      *)
LEMMA TheEndIsAhead ==
  ASSUME Whole, file \in Seq(Kinds), Len(file) < MaxToken
  PROVE  EndAhead \in Token
PROOF
<1> DEFINE T == {n \in Token : Ahead(n) \in {"semicolon", "eof"}}
           n == Len(file) + 1 - current_token
<1>1. /\ current_token \in Nat /\ Len(file) \in Nat /\ MaxToken \in Nat
      /\ DOMAIN file = 1 .. Len(file)
  BY RingIndexes, LenProperties, LexerAssumption DEF Whole, Token
<1>2. T # {}
  <2>1. CASE current_token > Len(file)
    <3>1. Ahead(0) = "eof"
      BY <1>1, <2>1 DEF Ahead, Kind
    <3>2. 0 \in Token
      BY <1>1 DEF Token
    <3> QED
      BY <3>1, <3>2
  <2>2. CASE current_token <= Len(file)
    <3>1. n \in Nat \ {0} /\ n \in Token /\ current_token + n = Len(file) + 1
      BY <1>1, <2>2 DEF Token
    <3> HIDE DEF n
    <3>2. LexedAfter(n) <= MaxToken
      <4>1. /\ lexed \in Nat /\ lexed <= MaxToken /\ Len(lookahead_tokens_) \in Nat
            /\ lexed = current_token + Len(lookahead_tokens_)
        BY LenProperties, LexerAssumption DEF Whole, LexerTypeOK, QueueFollowsOn, Token
      <4>2. \A a, b, c, f, m \in Nat :
              a = c + b /\ c + n = f + 1 /\ f < m => a + n - b <= m
        BY <3>1
      <4> QED
        BY <1>1, <3>1, <4>1, <4>2 DEF LexedAfter
    <3>3. /\ Len(Peeked(n)) >= n /\ Peeked(n) \in Seq(Token)
          /\ \A i \in 1 .. Len(Peeked(n)) : Peeked(n)[i] = current_token + i
      BY <3>1, <3>2, PeekedHasItsType, PeekedIsAhead DEF Whole
    <3>4. n \in 1 .. Len(Peeked(n))
      BY <3>1, <3>3, LenProperties
    <3>5. Peeked(n)[n] = Len(file) + 1
      BY <3>1, <3>3, <3>4
    <3>6. Len(file) + 1 \notin DOMAIN file
      BY <1>1
    <3>7. Ahead(n) = "eof"
      BY <3>1, <3>5, <3>6 DEF Ahead, Kind
    <3> QED
      BY <3>1, <3>7
  <2> QED
    BY <1>1, <2>1, <2>2
<1>3. T \subseteq Nat
  BY <1>1 DEF Token
<1>4. PICK m \in T : \A k \in T : ~ (k < m)
  BY <1>2, <1>3, Least
<1>5. ASSUME NEW k \in 0 .. m - 1 PROVE Ahead(k) \notin {"semicolon", "eof"}
  <2>1. k \in Token /\ k < m
    BY <1>1 DEF Token
  <2> QED
    BY <1>4, <2>1
<1> HIDE DEF n
<1> QED
  BY <1>4, <1>5 DEF EndAhead

(* What a step of the parser does to the lexer: only those of a range have *)
(* to do with checkpoints.                                                 *)
Reads == scan \/ (\E nth \in Nat \ {0} : peek(nth)) \/ UNCHANGED lexer

LEMMA StepsOfTheLexer ==
  ASSUME Whole, file \in Files, [Next]_vars
  PROVE  Reads \/ ParseRange \/ DropCheckpoint \/ RangeAgain \/ NoRange
PROOF
<1> USE DEF Reads
<1>1. ASSUME NEW n \in {1, 2, 3}, peek(n) PROVE Reads
  BY <1>1
<1>2. CASE ScanFirst
  BY <1>1, <1>2 DEF ScanFirst, Look, Skip, Stay
<1>3. CASE DesignFile
  BY <1>1, <1>3 DEF DesignFile, Look, Skip, Stay
<1>4. CASE GiveUp
  BY <1>1, <1>4 DEF GiveUp, Look, Skip, Stay
<1>5. CASE Finish
  BY <1>1, <1>5 DEF Finish, Look, Skip, Stay
<1>6. CASE EnterMany
  BY <1>1, <1>6 DEF EnterMany, Look, Skip, Stay
<1>7. CASE ParseElement
  BY <1>1, <1>7 DEF ParseElement, Look, Skip, Stay
<1>8. CASE LeaveMany
  BY <1>1, <1>8 DEF LeaveMany, Look, Skip, Stay
<1>9. CASE SkipInMany
  BY <1>1, <1>9 DEF SkipInMany, Look, Skip, Stay
<1>10. CASE ConsumeToken
  BY <1>1, <1>10 DEF ConsumeToken, Look, Skip, Stay
<1>11. CASE OptionalToken
  BY <1>1, <1>11 DEF OptionalToken, Look, Skip, Stay
<1>12. CASE ContextClause
  BY <1>1, <1>12 DEF ContextClause, Look, Skip, Stay
<1>13. CASE LibraryNames
  BY <1>1, <1>13 DEF LibraryNames, Look, Skip, Stay
<1>14. CASE LibraryEnd
  BY <1>1, <1>14 DEF LibraryEnd, Look, Skip, Stay
<1>15. CASE resync_to_next_semicolon
  BY <1>1, <1>15 DEF resync_to_next_semicolon, Look, Skip, Stay
<1>16. CASE DesignUnit
  BY <1>1, <1>16 DEF DesignUnit, Look, Skip, Stay
<1>17. CASE NoDesignUnit
  BY <1>1, <1>17 DEF NoDesignUnit, Look, Skip, Stay
<1>18. CASE UnitName
  BY <1>1, <1>18 DEF UnitName, Look, Skip, Stay
<1>19. CASE EntityNamed
  BY <1>1, <1>19 DEF EntityNamed, Look, Skip, Stay
<1>20. CASE ClosingLabelOrNone
  BY <1>1, <1>20 DEF ClosingLabelOrNone, Look, Skip, Stay
<1>21. CASE PackageEnd
  BY <1>1, <1>21 DEF PackageEnd, Look, Skip, Stay
<1>22. CASE UnitEnd
  BY <1>1, <1>22 DEF UnitEnd, Look, Skip, Stay
<1>23. CASE NoDeclaration
  BY <1>1, <1>23 DEF NoDeclaration, LookAt, Look
<1>24. CASE ObjectDeclaration
  BY <1>1, <1>24 DEF ObjectDeclaration, Look, Skip, Stay
<1>25. CASE SubtypeIndication
  BY <1>1, <1>25 DEF SubtypeIndication, Look, Skip, Stay
<1>26. CASE NoSubtype
  BY <1>1, <1>26 DEF NoSubtype, Look, Skip, Stay
<1>27. CASE Constraint
  BY <1>1, <1>27 DEF Constraint, Look, Skip, Stay
<1>28. CASE ParseName
  BY <1>1, <1>28 DEF ParseName, Look, Skip, Stay
<1>29. CASE Suffix
  BY <1>1, <1>29 DEF Suffix, Look, Skip, Stay
<1>30. CASE AttributeName
  BY <1>1, <1>30 DEF AttributeName, Look, Skip, Stay
<1>31. CASE Expression
  BY <1>1, <1>31 DEF Expression, Look, Skip, Stay
<1>32. CASE Generate
  BY <1>1, <1>32 DEF Generate, Look, Skip, Stay
<1>33. CASE GenerateBody
  BY <1>1, <1>33 DEF GenerateBody, Look, Skip, Stay
<1>34. CASE RangeUpTo
  BY <1>1, <1>34 DEF RangeUpTo, LookAt, Look
<1>35. CASE ParseRange \/ DropCheckpoint \/ RangeAgain \/ NoRange
  BY <1>35
<1>36. CASE InstantiationLabel
  BY <1>1, <1>36 DEF InstantiationLabel, Look, Skip, Stay
<1>37. CASE SequentialStatement
  BY <1>1, <1>37 DEF SequentialStatement, Look, Skip, Stay
<1>38. CASE LabelledStatement
  BY <1>1, <1>38 DEF LabelledStatement, Look, Skip, Stay
<1>39. CASE NoStatement
  BY <1>1, <1>39 DEF NoStatement, Look, Skip, Stay
<1>40. CASE CallEnd
  BY <1>1, <1>40 DEF CallEnd, Look, Skip, Stay
<1>41. CASE EntityStatement
  <2>1. peek(1) \/ peek(3)
    BY <1>41 DEF EntityStatement, Farthest
  <2> QED
    BY <1>1, <2>1
<1>42. CASE ConcurrentStatement
  <2>1. EndAhead \in Token
    BY TheEndIsAhead, ParserAssumption
  <2>2. FarthestOfConcurrent \in {1, 2, 3}
    BY DEF FarthestOfConcurrent, Farthest
  <2>3. CASE EndAhead > FarthestOfConcurrent
    <3>1. peek(EndAhead)
      BY <1>42, <2>3 DEF ConcurrentStatement
    <3>2. EndAhead \in Nat \ {0}
      BY <2>1, <2>2, <2>3 DEF Token
    <3> QED
      BY <3>1, <3>2
  <2>4. CASE ~ (EndAhead > FarthestOfConcurrent)
    <3>1. peek(FarthestOfConcurrent)
      BY <1>42, <2>4 DEF ConcurrentStatement
    <3> QED
      BY <1>1, <2>2, <3>1
  <2> QED
    BY <2>3, <2>4
<1>43. CASE UNCHANGED vars
  BY <1>43 DEF vars
<1> QED
  BY <1>2, <1>3, <1>4, <1>5, <1>6, <1>7, <1>8, <1>9, <1>10, <1>11, <1>12,
     <1>13, <1>14, <1>15, <1>16, <1>17, <1>18, <1>19, <1>20, <1>21, <1>22,
     <1>23, <1>24, <1>25, <1>26, <1>27, <1>28, <1>29, <1>30, <1>31, <1>32,
     <1>33, <1>34, <1>35, <1>36, <1>37, <1>38, <1>39, <1>40, <1>41,
     <1>42, <1>43 DEF Next

(* Every step of the parser is one of the lexer, or leaves it alone.       *)
LEMMA ParserStepsTheLexer ==
  ASSUME Whole, file \in Files, [Next]_vars
  PROVE  [LexerNext]_lexer
PROOF
<1>1. CASE Reads
  BY <1>1, PeekIsALexerStep DEF Reads, LexerNext
<1>2. CASE ParseRange \/ DropCheckpoint \/ RangeAgain \/ NoRange
  BY <1>2 DEF ParseRange, DropCheckpoint, RangeAgain, NoRange, LexerNext
<1> QED
  BY <1>1, <1>2, StepsOfTheLexer

--------------------------------------------------------------------------------
(* Types.                                                                  *)

Units == [kind : UnitKeywords, name : Token \ {0}]

Counts ==
  /\ file \in Files
  /\ asserts \in BOOLEAN
  /\ count \in 0 .. Patience
  /\ errors \in BOOLEAN
  /\ outcome \in {"parsing", "parsed", "gave_up", "aborted"}

Made ==
  /\ expr \in {"none", "simple", "range", "other"}
  /\ unit \in [kind : UnitKeywords, name : Token]
  /\ units \in Seq(Units)

LEMMA CountsKept == ASSUME Counts, [Next]_vars PROVE Counts'
PROOF
<1>1. /\ file \in Files /\ asserts \in BOOLEAN /\ count \in 0 .. Patience
      /\ errors \in BOOLEAN
      /\ outcome \in {"parsing", "parsed", "gave_up", "aborted"}
  BY DEF Counts
<1>2. 0 \in 0 .. Patience /\ (count < Patience => count + 1 \in 0 .. Patience)
  BY <1>1, ParserAssumption
<1>3. ASSUME Look \/ LookAt("to") PROVE count' \in 0 .. Patience
  BY <1>2, <1>3 DEF Look, LookAt, Patient
<1> HIDE DEF Counts
<1>4. CASE ScanFirst
  BY <1>1, <1>2, <1>3, <1>4 DEF ScanFirst, Skip, Stay, Patient, Diagnosed, NeverGetHere, context, Counts
<1>5. CASE DesignFile
  BY <1>1, <1>2, <1>3, <1>5 DEF DesignFile, Skip, Stay, Patient, Diagnosed, NeverGetHere, context, Counts
<1>6. CASE GiveUp
  BY <1>1, <1>2, <1>3, <1>6 DEF GiveUp, Skip, Stay, Patient, Diagnosed, NeverGetHere, context, Counts
<1>7. CASE Finish
  BY <1>1, <1>2, <1>3, <1>7 DEF Finish, Skip, Stay, Patient, Diagnosed, NeverGetHere, context, Counts
<1>8. CASE EnterMany
  BY <1>1, <1>2, <1>3, <1>8 DEF EnterMany, Skip, Stay, Patient, Diagnosed, NeverGetHere, context, Counts
<1>9. CASE ParseElement
  BY <1>1, <1>2, <1>3, <1>9 DEF ParseElement, Skip, Stay, Patient, Diagnosed, NeverGetHere, context, Counts
<1>10. CASE LeaveMany
  BY <1>1, <1>2, <1>3, <1>10 DEF LeaveMany, Skip, Stay, Patient, Diagnosed, NeverGetHere, context, Counts
<1>11. CASE SkipInMany
  BY <1>1, <1>2, <1>3, <1>11 DEF SkipInMany, Skip, Stay, Patient, Diagnosed, NeverGetHere, context, Counts
<1>12. CASE ConsumeToken
  BY <1>1, <1>2, <1>3, <1>12 DEF ConsumeToken, Skip, Stay, Patient, Diagnosed, NeverGetHere, context, Counts
<1>13. CASE OptionalToken
  BY <1>1, <1>2, <1>3, <1>13 DEF OptionalToken, Skip, Stay, Patient, Diagnosed, NeverGetHere, context, Counts
<1>14. CASE ContextClause
  BY <1>1, <1>2, <1>3, <1>14 DEF ContextClause, Skip, Stay, Patient, Diagnosed, NeverGetHere, context, Counts
<1>15. CASE LibraryNames
  BY <1>1, <1>2, <1>3, <1>15 DEF LibraryNames, Skip, Stay, Patient, Diagnosed, NeverGetHere, context, Counts
<1>16. CASE LibraryEnd
  BY <1>1, <1>2, <1>3, <1>16 DEF LibraryEnd, Skip, Stay, Patient, Diagnosed, NeverGetHere, context, Counts
<1>17. CASE resync_to_next_semicolon
  BY <1>1, <1>2, <1>3, <1>17 DEF resync_to_next_semicolon, Skip, Stay, Patient, Diagnosed, NeverGetHere, context, Counts
<1>18. CASE DesignUnit
  BY <1>1, <1>2, <1>3, <1>18 DEF DesignUnit, Skip, Stay, Patient, Diagnosed, NeverGetHere, context, Counts
<1>19. CASE NoDesignUnit
  BY <1>1, <1>2, <1>3, <1>19 DEF NoDesignUnit, Skip, Stay, Patient, Diagnosed, NeverGetHere, context, Counts
<1>20. CASE UnitName
  BY <1>1, <1>2, <1>3, <1>20 DEF UnitName, Skip, Stay, Patient, Diagnosed, NeverGetHere, context, Counts
<1>21. CASE EntityNamed
  BY <1>1, <1>2, <1>3, <1>21 DEF EntityNamed, Skip, Stay, Patient, Diagnosed, NeverGetHere, context, Counts
<1>22. CASE ClosingLabelOrNone
  BY <1>1, <1>2, <1>3, <1>22 DEF ClosingLabelOrNone, Skip, Stay, Patient, Diagnosed, NeverGetHere, context, Counts
<1>23. CASE PackageEnd
  BY <1>1, <1>2, <1>3, <1>23 DEF PackageEnd, Skip, Stay, Patient, Diagnosed, NeverGetHere, context, Counts
<1>24. CASE UnitEnd
  BY <1>1, <1>2, <1>3, <1>24 DEF UnitEnd, Skip, Stay, Patient, Diagnosed, NeverGetHere, context, Counts
<1>25. CASE NoDeclaration
  BY <1>1, <1>2, <1>3, <1>25 DEF NoDeclaration, Skip, Stay, Patient, Diagnosed, NeverGetHere, context, Counts
<1>26. CASE ObjectDeclaration
  BY <1>1, <1>2, <1>3, <1>26 DEF ObjectDeclaration, Skip, Stay, Patient, Diagnosed, NeverGetHere, context, Counts
<1>27. CASE SubtypeIndication
  BY <1>1, <1>2, <1>3, <1>27 DEF SubtypeIndication, Skip, Stay, Patient, Diagnosed, NeverGetHere, context, Counts
<1>28. CASE NoSubtype
  BY <1>1, <1>2, <1>3, <1>28 DEF NoSubtype, Skip, Stay, Patient, Diagnosed, NeverGetHere, context, Counts
<1>29. CASE Constraint
  BY <1>1, <1>2, <1>3, <1>29 DEF Constraint, Skip, Stay, Patient, Diagnosed, NeverGetHere, context, Counts
<1>30. CASE ParseName
  BY <1>1, <1>2, <1>3, <1>30 DEF ParseName, Skip, Stay, Patient, Diagnosed, NeverGetHere, context, Counts
<1>31. CASE Suffix
  BY <1>1, <1>2, <1>3, <1>31 DEF Suffix, Skip, Stay, Patient, Diagnosed, NeverGetHere, context, Counts
<1>32. CASE AttributeName
  BY <1>1, <1>2, <1>3, <1>32 DEF AttributeName, Skip, Stay, Patient, Diagnosed, NeverGetHere, context, Counts
<1>33. CASE Expression
  BY <1>1, <1>2, <1>3, <1>33 DEF Expression, Skip, Stay, Patient, Diagnosed, NeverGetHere, context, Counts
<1>34. CASE ParseRange
  BY <1>1, <1>2, <1>3, <1>34 DEF ParseRange, Skip, Stay, Patient, Diagnosed, NeverGetHere, context, Counts
<1>35. CASE DropCheckpoint
  BY <1>1, <1>2, <1>3, <1>35 DEF DropCheckpoint, Skip, Stay, Patient, Diagnosed, NeverGetHere, context, Counts
<1>36. CASE RangeUpTo
  BY <1>1, <1>2, <1>3, <1>36 DEF RangeUpTo, Skip, Stay, Patient, Diagnosed, NeverGetHere, context, Counts
<1>37. CASE RangeAgain
  BY <1>1, <1>2, <1>3, <1>37 DEF RangeAgain, Skip, Stay, Patient, Diagnosed, NeverGetHere, context, Counts
<1>38. CASE NoRange
  BY <1>1, <1>2, <1>3, <1>38 DEF NoRange, Skip, Stay, Patient, Diagnosed, NeverGetHere, context, Counts
<1>39. CASE EntityStatement
  BY <1>1, <1>2, <1>3, <1>39 DEF EntityStatement, Skip, Stay, Patient, Diagnosed, NeverGetHere, context, Counts
<1>40. CASE ConcurrentStatement
  BY <1>1, <1>2, <1>3, <1>40 DEF ConcurrentStatement, Skip, Stay, Patient, Diagnosed, NeverGetHere, context, Counts
<1>41. CASE InstantiationLabel
  BY <1>1, <1>2, <1>3, <1>41 DEF InstantiationLabel, Skip, Stay, Patient, Diagnosed, NeverGetHere, context, Counts
<1>42. CASE SequentialStatement
  BY <1>1, <1>2, <1>3, <1>42 DEF SequentialStatement, Skip, Stay, Patient, Diagnosed, NeverGetHere, context, Counts
<1>43. CASE LabelledStatement
  BY <1>1, <1>2, <1>3, <1>43 DEF LabelledStatement, Skip, Stay, Patient, Diagnosed, NeverGetHere, context, Counts
<1>44. CASE NoStatement
  BY <1>1, <1>2, <1>3, <1>44 DEF NoStatement, Skip, Stay, Patient, Diagnosed, NeverGetHere, context, Counts
<1>45. CASE CallEnd
  BY <1>1, <1>2, <1>3, <1>45 DEF CallEnd, Skip, Stay, Patient, Diagnosed, NeverGetHere, context, Counts
<1>46. CASE Generate
  BY <1>1, <1>2, <1>3, <1>46 DEF Generate, Skip, Stay, Patient, Diagnosed, NeverGetHere, context, Counts
<1>47. CASE GenerateBody
  BY <1>1, <1>2, <1>3, <1>47 DEF GenerateBody, Skip, Stay, Patient, Diagnosed, NeverGetHere, context, Counts
<1>48. CASE UNCHANGED vars
  BY <1>48 DEF vars, parser, Counts
<1> QED
  BY <1>4, <1>5, <1>6, <1>7, <1>8, <1>9, <1>10, <1>11, <1>12, <1>13,
     <1>14, <1>15, <1>16, <1>17, <1>18, <1>19, <1>20, <1>21, <1>22, <1>23,
     <1>24, <1>25, <1>26, <1>27, <1>28, <1>29, <1>30, <1>31, <1>32, <1>33,
     <1>34, <1>35, <1>36, <1>37, <1>38, <1>39, <1>40, <1>41, <1>42, <1>43,
     <1>44, <1>45, <1>46, <1>47, <1>48 DEF Next

LEMMA MadeKept ==
  ASSUME Made, LexerTypeOK, todo \in Seq(Tasks), [Next]_vars
  PROVE  Made'
PROOF
<1>1. /\ expr \in {"none", "simple", "range", "other"}
      /\ unit \in [kind : UnitKeywords, name : Token]
      /\ units \in Seq(Units)
  BY DEF Made
<1>2. current_token \in Token /\ 0 \in Token
  BY RingIndexes, LexerAssumption DEF Token
<1>3. CASE UNCHANGED made
  BY <1>1, <1>3 DEF made, Made
<1>4. CASE UnitName
  <2>1. /\ unit' = [kind |-> Task.kind,
                    name |-> IF Current = "identifier" THEN current_token ELSE 0]
        /\ UNCHANGED <<expr, units>> /\ todo # <<>> /\ Task.do = "unit_name"
    BY <1>4 DEF UnitName, Doing
  <2>2. Task.kind \in UnitKeywords
    BY <2>1, TheTask, OfATask
  <2> QED
    BY <1>1, <1>2, <2>1, <2>2 DEF Made
<1>5. CASE EntityNamed
  BY <1>1, <1>2, <1>5 DEF EntityNamed, Made
<1>6. CASE UnitEnd
  <2>1. /\ units' = IF unit.name = 0 THEN units ELSE Append(units, unit)
        /\ UNCHANGED <<expr, unit>>
    BY <1>6 DEF UnitEnd
  <2>2. CASE unit.name = 0
    BY <1>1, <2>1, <2>2 DEF Made
  <2>3. CASE unit.name # 0
    <3>1. unit \in Units
      BY <1>1, <2>3 DEF Units
    <3>2. Append(units, unit) \in Seq(Units)
      BY <1>1, <3>1, AppendProperties
    <3> QED
      BY <1>1, <2>1, <2>3, <3>2 DEF Made
  <2> QED
    BY <2>2, <2>3
<1>7. CASE ParseName \/ AttributeName \/ Expression
  <2>1. /\ expr' \in {"none", "simple", "range", "other"}
        /\ UNCHANGED <<unit, units>>
    BY <1>7 DEF ParseName, AttributeName, Expression
  <2> QED
    BY <1>1, <2>1 DEF Made
<1>8. CASE GiveUp
  <2>1. units' = <<>> /\ UNCHANGED <<expr, unit>>
    BY <1>8 DEF GiveUp
  <2> QED
    BY <1>1, <2>1, EmptySeq DEF Made
<1>9. [Next]_vars =>
        \/ UNCHANGED made
        \/ UnitName \/ EntityNamed \/ UnitEnd \/ ParseName \/ AttributeName
        \/ Expression \/ GiveUp
  BY DEF Next, vars, parser, made, NeverGetHere,
         ScanFirst, DesignFile, Finish, EnterMany, ParseElement, LeaveMany,
         SkipInMany, ConsumeToken, OptionalToken, ContextClause,
         LibraryNames, LibraryEnd, resync_to_next_semicolon, DesignUnit,
         NoDesignUnit, ClosingLabelOrNone, PackageEnd, NoDeclaration,
         ObjectDeclaration, SubtypeIndication, NoSubtype, Constraint,
         Suffix, ParseRange, DropCheckpoint, Generate, GenerateBody, RangeUpTo, RangeAgain,
         NoRange, EntityStatement, ConcurrentStatement, InstantiationLabel,
         SequentialStatement, LabelledStatement, NoStatement, CallEnd
<1> QED
  BY <1>3, <1>4, <1>5, <1>6, <1>7, <1>8, <1>9

--------------------------------------------------------------------------------
(* Ranges and their checkpoints.                                           *)

(* What a range asks for before its release.                               *)
InsideARange == {"expression", "name", "suffix", "attribute", "consume"}

ReleasedAt(k) ==
  /\ k \in DOMAIN todo /\ todo[k].do \in Releasing
  /\ \A i \in DOMAIN todo : todo[i].do \in Releasing => i = k
  /\ \A i \in DOMAIN todo : i < k => todo[i].do \in InsideARange

(* There is one checkpoint within a range and none elsewhere.              *)
OneRange ==
  /\ torn = {}
  /\ \/ /\ checkpoints_ = <<>>
        /\ \A i \in DOMAIN todo : todo[i].do \notin Releasing
     \/ /\ Len(checkpoints_) = 1
        /\ \E k \in DOMAIN todo : ReleasedAt(k)

LEMMA OneRangeBegins == Init => OneRange
PROOF
<1> SUFFICES ASSUME Init PROVE OneRange
  OBVIOUS
<1>1. todo = <<Do("scan"), Do("file")>> /\ checkpoints_ = <<>> /\ torn = {}
  BY DEF Init, LexerInit
<1>2. DOMAIN todo = 1 .. 2 /\ todo[1].do = "scan" /\ todo[2].do = "file"
  BY <1>1 DEF Do
<1> QED
  BY <1>1, <1>2 DEF OneRange, Releasing

LEMMA RangeGoesOn ==
  ASSUME OneRange, todo \in Seq(Tasks), todo # <<>>,
         NEW script \in Seq(Tasks), Then(script),
         \A i \in 1 .. Len(script) : script[i].do \notin Releasing,
         Task.do \notin Releasing,
         Task.do \in InsideARange =>
           \A i \in 1 .. Len(script) : script[i].do \in InsideARange,
         torn' = torn, Len(checkpoints_') = Len(checkpoints_),
         checkpoints_ = <<>> => checkpoints_' = <<>>
  PROVE  OneRange'
PROOF
<1> DEFINE n == Len(todo)
           m == Len(script)
<1>1. /\ todo' \in Seq(Tasks) /\ n \in Nat \ {0} /\ m \in Nat
      /\ Len(todo') = m + n - 1
      /\ \A i \in 1 .. m : todo'[i] = script[i]
      /\ \A i \in 1 .. n - 1 : todo'[m + i] = todo[1 + i]
  BY Replaced
<1>2. DOMAIN todo = 1 .. n /\ DOMAIN todo' = 1 .. m + n - 1 /\ Task = todo[1]
  BY <1>1, LenProperties, TheTask
<1>3. /\ \A i \in 1 .. m : script[i].do \notin Releasing
      /\ Task.do \in InsideARange => \A i \in 1 .. m : script[i].do \in InsideARange
  OBVIOUS
<1> HIDE DEF n, m
<1>4. ASSUME NEW i \in 1 .. m + n - 1
      PROVE  \/ i \in 1 .. m /\ todo'[i] = script[i]
             \/ /\ i \notin 1 .. m /\ i - m + 1 \in 1 .. n
                /\ todo'[i] = todo[i - m + 1]
  <2>1. CASE i <= m
    BY <1>1, <2>1
  <2>2. CASE ~ (i <= m)
    <3>1. i - m \in 1 .. n - 1 /\ m + (i - m) = i /\ 1 + (i - m) = i - m + 1
      BY <1>1, <2>2
    <3>2. todo'[m + (i - m)] = todo[1 + (i - m)]
      BY <1>1, <3>1
    <3>3. i - m + 1 \in 1 .. n /\ i \notin 1 .. m
      BY <1>1, <2>2
    <3> QED
      BY <3>1, <3>2, <3>3
  <2> QED
    BY <2>1, <2>2
<1>5. CASE checkpoints_ = <<>> /\ \A i \in DOMAIN todo : todo[i].do \notin Releasing
  <2>1. \A i \in 1 .. m + n - 1 : todo'[i].do \notin Releasing
    BY <1>2, <1>3, <1>4, <1>5
  <2> QED
    BY <1>2, <1>5, <2>1 DEF OneRange
<1>6. CASE Len(checkpoints_) = 1 /\ \E k \in DOMAIN todo : ReleasedAt(k)
  <2>1. PICK k \in 1 .. n : ReleasedAt(k)
    BY <1>2, <1>6
  <2>2. /\ todo[k].do \in Releasing
        /\ \A i \in 1 .. n : todo[i].do \in Releasing => i = k
        /\ \A i \in 1 .. n : i < k => todo[i].do \in InsideARange
    BY <1>2, <2>1 DEF ReleasedAt
  <2>3. k # 1
    BY <1>2, <2>2
  <2>4. 1 \in 1 .. n /\ 1 < k
    BY <1>1, <2>3
  <2>5. Task.do \in InsideARange
    BY <1>2, <2>2, <2>4
  <2> DEFINE l == m + k - 1
  <2>6. l \in 1 .. m + n - 1 /\ l \notin 1 .. m /\ l - m + 1 = k
    BY <1>1, <2>4
  <2>7. ASSUME NEW i \in 1 .. m + n - 1, i < l PROVE i - m + 1 < k
    BY <1>1, <2>4, <2>7
  <2>8. ASSUME NEW i \in 1 .. m + n - 1, i - m + 1 = k PROVE i = l
    BY <1>1, <2>4, <2>8
  <2> HIDE DEF l
  <2>9. todo'[l].do \in Releasing
    BY <1>4, <2>2, <2>6
  <2>10. \A i \in 1 .. m + n - 1 : todo'[i].do \in Releasing => i = l
    BY <1>3, <1>4, <2>2, <2>8
  <2>11. \A i \in 1 .. m + n - 1 : i < l => todo'[i].do \in InsideARange
    BY <1>3, <1>4, <2>2, <2>5, <2>7
  <2>12. ReleasedAt(l)'
    BY <1>2, <2>6, <2>9, <2>10, <2>11 DEF ReleasedAt
  <2> QED
    BY <1>2, <1>6, <2>6, <2>12 DEF OneRange
<1> QED
  BY <1>5, <1>6 DEF OneRange

LEMMA OthersDoNotRelease ==
  ASSUME NEW script \in Seq(OtherCalls)
  PROVE  \A i \in 1 .. Len(script) : script[i].do \notin Releasing
PROOF
<1> TAKE i \in 1 .. Len(script)
<1>1. script[i] \in OtherCalls
  BY ElementOfSeq
<1> QED
  BY <1>1 DEF OtherCalls

LEMMA RangeStays ==
  ASSUME OneRange, todo' = todo, torn' = torn, Len(checkpoints_') = Len(checkpoints_),
         checkpoints_ = <<>> => checkpoints_' = <<>>
  PROVE  OneRange'
PROOF
BY DEF OneRange, ReleasedAt

LEMMA ReadingAddsNone ==
  ASSUME Whole, Reads
  PROVE  /\ torn' = torn /\ Len(checkpoints_') = Len(checkpoints_)
         /\ checkpoints_ = <<>> => checkpoints_' = <<>>
PROOF
<1>1. CASE scan
  <2>1. torn' = torn /\ checkpoints_' = Recorded
    BY <1>1 DEF scan
  <2>2. CASE checkpoints_ = <<>>
    BY <2>1, <2>2 DEF Recorded
  <2>3. CASE checkpoints_ # <<>>
    <3> DEFINE n == Len(checkpoints_)
               r == Append(checkpoints_[n], current_token)
    <3>1. /\ checkpoints_ \in Seq(Seq(Token)) /\ n \in 1 .. n
          /\ checkpoints_[n] \in Seq(Token) /\ current_token \in Token
      BY <2>3, Records, RingIndexes, EmptySeq DEF Whole, LexerTypeOK
    <3>2. r \in Seq(Token)
      BY <3>1, AppendProperties
    <3>3. checkpoints_' = [checkpoints_ EXCEPT ![n] = r]
      BY <2>1, <2>3 DEF Recorded
    <3> HIDE DEF r
    <3>4. Len(checkpoints_') = n
      BY <3>1, <3>2, <3>3, ExceptSeq
    <3> QED
      BY <2>1, <2>3, <3>4
  <2> QED
    BY <2>2, <2>3
<1>2. CASE \E nth \in Nat \ {0} : peek(nth)
  BY <1>2 DEF peek
<1>3. CASE UNCHANGED lexer
  BY <1>3 DEF lexer
<1> QED
  BY <1>1, <1>2, <1>3 DEF Reads

(* What is neither a range nor inside one.                                 *)
LEMMA OutsideARange ==
  ASSUME OneRange, CallsInv, Whole, Reads, Produces,
         Task.do \notin Releasing \cup InsideARange \cup {"range"}
  PROVE  OneRange'
PROOF
<1>1. todo \in Seq(Tasks) /\ todo # <<>>
  BY DEF CallsInv, Produces
<1>2. CASE todo' = todo
  BY <1>2, RangeStays, ReadingAddsNone
<1>3. CASE \E script \in Seq(OtherCalls) : Then(script)
  <2> PICK script \in Seq(OtherCalls) : Then(script)
    BY <1>3
  <2>1. script \in Seq(Tasks)
    BY OthersAreCalls, CallsAreTasks
  <2> QED
    BY <1>1, <2>1, OthersDoNotRelease, ReadingAddsNone, RangeGoesOn
<1> QED
  BY <1>2, <1>3 DEF Produces, Releasing

(* What is inside a range stays there.                                     *)
LEMMA InsideStays ==
  ASSUME OneRange, CallsInv, Whole, Reads,
         Expression \/ ParseName \/ Suffix \/ AttributeName \/ ConsumeToken
  PROVE  OneRange'
PROOF
<1> DEFINE name == <<Do("name")>>
           suffix == <<Do("suffix")>>
           attribute == <<Consume("tick"), Do("attribute"), Task>>
<1>1. /\ todo \in Seq(Tasks) /\ todo # <<>> /\ Task.do \in InsideARange
  BY DEF CallsInv, Expression, ParseName, Suffix, AttributeName, ConsumeToken, Doing,
         InsideARange
<1>2. \/ Then(<<>>) \/ Then(name) \/ Then(suffix)
      \/ Task.do = "suffix" /\ Then(attribute)
  BY DEF Expression, ParseName, Suffix, AttributeName, ConsumeToken, Doing
<1>3. Task \in Tasks
  BY <1>1, TheTask
<1>4. /\ Do("name") \in Tasks /\ Do("suffix") \in Tasks /\ Do("attribute") \in Tasks
      /\ Consume("tick") \in Tasks
  BY EachIsACall DEF Simple, Kinds, Tasks
<1>5. /\ <<>> \in Seq(Tasks) /\ name \in Seq(Tasks)
      /\ suffix \in Seq(Tasks) /\ attribute \in Seq(Tasks)
  BY <1>3, <1>4, EmptySeq
<1>6. /\ Len(<<>>) = 0 /\ Len(name) = 1 /\ Len(suffix) = 1 /\ Len(attribute) = 3
      /\ name[1].do = "name" /\ suffix[1].do = "suffix"
      /\ attribute[1].do = "consume" /\ attribute[2].do = "attribute"
      /\ attribute[3] = Task
  BY EmptySeq DEF Do, Consume
<1> HIDE DEF name, suffix, attribute
<1>7. \A i \in 1 .. Len(<<>>) : FALSE
  BY <1>6
<1>8. \A i \in 1 .. Len(name) : name[i].do = "name"
  BY <1>6
<1>9. \A i \in 1 .. Len(suffix) : suffix[i].do = "suffix"
  BY <1>6
<1>10. Task.do = "suffix" =>
        \A i \in 1 .. Len(attribute) : attribute[i].do \in {"consume", "attribute", "suffix"}
  BY <1>6
<1>11. PICK script \in {<<>>, name, suffix, attribute} :
         /\ Then(script)
         /\ \A i \in 1 .. Len(script) : script[i].do \in InsideARange
  <2>1. CASE Then(<<>>)
    BY <1>7, <2>1
  <2>2. CASE Then(name)
    BY <1>8, <2>2 DEF InsideARange
  <2>3. CASE Then(suffix)
    BY <1>9, <2>3 DEF InsideARange
  <2>4. CASE Task.do = "suffix" /\ Then(attribute)
    BY <1>10, <2>4 DEF InsideARange
  <2> QED
    BY <1>2, <2>1, <2>2, <2>3, <2>4
<1>12. script \in Seq(Tasks)
  BY <1>5
<1>13. \A x \in InsideARange : x \notin Releasing
  BY DEF InsideARange, Releasing
<1> QED
  BY <1>1, <1>11, <1>12, <1>13, ReadingAddsNone, RangeGoesOn

LEMMA RangeBegins ==
  ASSUME OneRange, CallsInv, Whole, ParseRange
  PROVE  OneRange'
PROOF
<1> DEFINE script == <<Do("expression"), Do("range_end")>>
<1>1. /\ todo \in Seq(Tasks) /\ todo # <<>> /\ Task.do = "range"
      /\ Then(script) /\ add_checkpoint
  BY DEF CallsInv, ParseRange, Doing
<1>2. script \in Seq(Tasks) /\ Len(script) = 2
  BY EachIsACall DEF Tasks, Simple
<1>3. script[1].do = "expression" /\ script[2].do = "range_end"
  BY DEF Do
<1> HIDE DEF script
<1>4. /\ todo' \in Seq(Tasks) /\ Len(todo) \in Nat \ {0}
      /\ Len(todo') = 2 + Len(todo) - 1
      /\ \A i \in 1 .. 2 : todo'[i] = script[i]
      /\ \A i \in 1 .. Len(todo) - 1 : todo'[2 + i] = todo[1 + i]
  BY <1>1, <1>2, Replaced
<1>5. /\ Task = todo[1] /\ DOMAIN todo = 1 .. Len(todo)
      /\ DOMAIN todo' = 1 .. Len(todo) + 1
  BY <1>1, <1>4, TheTask, LenProperties
<1>6. checkpoints_ = <<>> /\ \A i \in 1 .. Len(todo) : todo[i].do \notin Releasing
  <2>1. ASSUME NEW k \in DOMAIN todo, ReleasedAt(k) PROVE FALSE
    <3>1. k # 1
      BY <1>1, <1>5, <2>1 DEF ReleasedAt, Releasing
    <3>2. 1 \in DOMAIN todo /\ 1 < k
      BY <1>4, <1>5, <3>1
    <3> QED
      BY <1>1, <1>5, <2>1, <3>2 DEF ReleasedAt, InsideARange
  <2> QED
    BY <1>5, <2>1 DEF OneRange
<1>7. torn' = torn /\ Len(checkpoints_') = 1
  <2>1. checkpoints_' = Append(checkpoints_, NewRecord) /\ torn' = torn
    BY <1>1 DEF add_checkpoint
  <2>2. NewRecord \in Seq(Token)
    BY RingIndexes DEF Whole, NewRecord
  <2>3. checkpoints_ \in Seq(Seq(Token)) /\ Len(checkpoints_) = 0
    BY <1>6 DEF Whole, LexerTypeOK
  <2>4. Len(checkpoints_') = Len(checkpoints_) + 1
    BY <2>1, <2>2, <2>3, AppendProperties
  <2> QED
    BY <2>1, <2>3, <2>4
<1>8. ASSUME NEW i \in 1 .. Len(todo) + 1, i # 1, i # 2 PROVE todo'[i].do \notin Releasing
  <2>1. i - 2 \in 1 .. Len(todo) - 1 /\ 2 + (i - 2) = i /\ 1 + (i - 2) \in 1 .. Len(todo)
    BY <1>4, <1>8
  <2>2. todo'[2 + (i - 2)] = todo[1 + (i - 2)]
    BY <1>4, <2>1
  <2> QED
    BY <1>6, <2>1, <2>2
<1>9. todo'[1].do = "expression" /\ todo'[2].do = "range_end"
  BY <1>3, <1>4
<1>10. 2 \in 1 .. Len(todo) + 1
  BY <1>4
<1>11. ReleasedAt(2)'
  <2>1. \A i \in 1 .. Len(todo) + 1 : todo'[i].do \in Releasing => i = 2
    BY <1>8, <1>9 DEF Releasing
  <2>2. \A i \in 1 .. Len(todo) + 1 : i < 2 => todo'[i].do \in InsideARange
    BY <1>9 DEF InsideARange
  <2> QED
    BY <1>5, <1>9, <1>10, <2>1, <2>2 DEF ReleasedAt, Releasing
<1> QED
  BY <1>5, <1>7, <1>10, <1>11 DEF OneRange

(* The task on top releases: it is the only one that does.                 *)
LEMMA TheRelease ==
  ASSUME OneRange, todo \in Seq(Tasks), todo # <<>>, Task.do \in Releasing
  PROVE  /\ Len(checkpoints_) = 1 /\ torn = {}
         /\ \A i \in 1 .. Len(todo) : i # 1 => todo[i].do \notin Releasing
PROOF
<1>1. /\ Task = todo[1] /\ DOMAIN todo = 1 .. Len(todo) /\ 1 \in DOMAIN todo
  BY TheTask, LenProperties
<1>2. PICK k \in DOMAIN todo : ReleasedAt(k) /\ Len(checkpoints_) = 1
  BY <1>1 DEF OneRange
<1>3. k = 1
  BY <1>1, <1>2 DEF ReleasedAt
<1> QED
  BY <1>1, <1>2, <1>3 DEF ReleasedAt, OneRange

LEMMA PoppedToNone ==
  ASSUME Whole, Len(checkpoints_) = 1, torn = {}, backtrack \/ drop_checkpoint
  PROVE  checkpoints_' = <<>> /\ torn' = {}
PROOF
<1>1. checkpoints_ # <<>> /\ checkpoints_' = Popped
  BY DEF backtrack, drop_checkpoint
<1>2. Popped \in Seq(Seq(Token)) /\ Len(Popped) = 0
  BY <1>1, PoppedRecords DEF Whole
<1>3. checkpoints_' = <<>>
  BY <1>1, <1>2, EmptySeq
<1>4. TornByDropping(Len(checkpoints_)) = {}
  BY DEF TornByDropping
<1> QED
  BY <1>3, <1>4 DEF backtrack, drop_checkpoint

LEMMA RangeEnds ==
  ASSUME OneRange, CallsInv, Whole, DropCheckpoint \/ RangeAgain \/ NoRange
  PROVE  OneRange'
PROOF
<1> DEFINE name == <<Do("name")>>
<1>1. /\ todo \in Seq(Tasks) /\ todo # <<>> /\ Task.do \in Releasing
      /\ backtrack \/ drop_checkpoint
  BY DEF CallsInv, DropCheckpoint, RangeAgain, NoRange, Doing, Releasing
<1>2. Then(<<>>) \/ Then(name)
  BY DEF DropCheckpoint, RangeAgain, NoRange
<1>3. name \in Seq(Tasks) /\ Len(name) = 1 /\ name[1].do \notin Releasing
  BY EachIsACall DEF Tasks, Simple, Do, Releasing
<1>4. <<>> \in Seq(Tasks) /\ Len(<<>>) = 0
  BY EmptySeq
<1> HIDE DEF name
<1>5. PICK script \in Seq(Tasks) :
        Then(script) /\ \A i \in 1 .. Len(script) : script[i].do \notin Releasing
  <2>1. CASE Then(name)
    <3>1. \A i \in 1 .. Len(name) : name[i].do \notin Releasing
      BY <1>3
    <3> QED
      BY <1>3, <2>1, <3>1
  <2>2. CASE Then(<<>>)
    <3>1. \A i \in 1 .. Len(<<>>) : (<<>>)[i].do \notin Releasing
      BY <1>4
    <3> QED
      BY <1>4, <2>2, <3>1
  <2> QED
    BY <1>2, <2>1, <2>2
<1> DEFINE m == Len(script)
           n == Len(todo)
<1>6. /\ todo' \in Seq(Tasks) /\ n \in Nat \ {0} /\ m \in Nat
      /\ Len(todo') = m + n - 1
      /\ \A i \in 1 .. m : todo'[i] = script[i]
      /\ \A i \in 1 .. n - 1 : todo'[m + i] = todo[1 + i]
  BY <1>1, <1>5, Replaced
<1>7. DOMAIN todo' = 1 .. m + n - 1
  BY <1>6, LenProperties
<1>8. \A i \in 1 .. n : i # 1 => todo[i].do \notin Releasing
  BY <1>1, TheRelease
<1>9. \A i \in 1 .. m : script[i].do \notin Releasing
  BY <1>5
<1>10. checkpoints_' = <<>> /\ torn' = {}
  BY <1>1, TheRelease, PoppedToNone
<1> HIDE DEF m, n
<1>11. ASSUME NEW i \in 1 .. m + n - 1 PROVE todo'[i].do \notin Releasing
  <2>1. CASE i <= m
    <3>1. i \in 1 .. m
      BY <1>6, <2>1
    <3> QED
      BY <1>6, <1>9, <3>1
  <2>2. CASE ~ (i <= m)
    <3>1. /\ i - m \in 1 .. n - 1 /\ m + (i - m) = i
          /\ 1 + (i - m) \in 1 .. n /\ 1 + (i - m) # 1
      BY <1>6, <2>2
    <3>2. todo'[m + (i - m)] = todo[1 + (i - m)]
      BY <1>6, <3>1
    <3> QED
      BY <1>8, <3>1, <3>2
  <2> QED
    BY <2>1, <2>2
<1> QED
  BY <1>7, <1>10, <1>11 DEF OneRange

LEMMA RangeToBeDropped ==
  ASSUME OneRange, CallsInv, Whole, RangeUpTo
  PROVE  OneRange'
PROOF
<1>1. /\ todo \in Seq(Tasks) /\ todo # <<>> /\ Task.do \in Releasing
      /\ Then(UpTo) /\ UNCHANGED lexer
  BY DEF CallsInv, RangeUpTo, Doing, Releasing, LookAt, Look
<1>2. UpTo \in Seq(Tasks) /\ Len(UpTo) = 3
  BY FixedScripts, CallsAreTasks DEF UpTo
<1>3. /\ UpTo[1].do = "consume" /\ UpTo[2].do = "expression"
      /\ UpTo[3].do = "drop_checkpoint"
  BY DEF UpTo, Do, Consume
<1> DEFINE n == Len(todo)
<1>4. /\ todo' \in Seq(Tasks) /\ n \in Nat \ {0}
      /\ Len(todo') = 3 + n - 1
      /\ \A i \in 1 .. 3 : todo'[i] = UpTo[i]
      /\ \A i \in 1 .. n - 1 : todo'[3 + i] = todo[1 + i]
  BY <1>1, <1>2, Replaced
<1>5. DOMAIN todo' = 1 .. n + 2
  BY <1>4, LenProperties
<1>6. /\ Len(checkpoints_) = 1 /\ torn = {}
      /\ \A i \in 1 .. n : i # 1 => todo[i].do \notin Releasing
  BY <1>1, TheRelease
<1>7. checkpoints_' = checkpoints_ /\ torn' = torn
  BY <1>1 DEF lexer
<1> HIDE DEF n
<1>8. ASSUME NEW i \in 1 .. n + 2, i \notin 1 .. 3 PROVE todo'[i].do \notin Releasing
  <2>1. i - 3 \in 1 .. n - 1 /\ 3 + (i - 3) = i /\ 1 + (i - 3) \in 1 .. n /\ 1 + (i - 3) # 1
    BY <1>4, <1>8
  <2>2. todo'[3 + (i - 3)] = todo[1 + (i - 3)]
    BY <1>4, <2>1
  <2> QED
    BY <1>6, <2>1, <2>2
<1>9. /\ todo'[1].do = "consume" /\ todo'[2].do = "expression"
      /\ todo'[3].do = "drop_checkpoint"
  BY <1>3, <1>4
<1>10. 3 \in 1 .. n + 2
  BY <1>4
<1>11. ReleasedAt(3)'
  <2>1. \A i \in 1 .. n + 2 : todo'[i].do \in Releasing => i = 3
    BY <1>8, <1>9 DEF Releasing
  <2>2. \A i \in 1 .. n + 2 : i < 3 => todo'[i].do \in InsideARange
    BY <1>9 DEF InsideARange
  <2> QED
    BY <1>5, <1>9, <1>10, <2>1, <2>2 DEF ReleasedAt, Releasing
<1> QED
  BY <1>5, <1>6, <1>7, <1>10, <1>11 DEF OneRange

(* The calls of parse_many and of the file are inside no range.            *)
LEMMA ManyOutsideARange ==
  ASSUME OneRange, CallsInv, Whole, Reads,
         DesignFile \/ EnterMany \/ ParseElement \/ LeaveMany
  PROVE  OneRange'
PROOF
<1> DEFINE allUnits == <<Many("design_unit_in_design_file", "none")>>
           opened == <<InMany(Task.state, Task.part, parsing_states)>>
           element == Append(Element(Task.state, Task.part), Task)
<1>1. /\ todo \in Seq(Tasks) /\ todo # <<>> /\ StatesAreThoseOpen
      /\ Task.do \in {"file", "many", "in_many"}
  BY DEF CallsInv, DesignFile, EnterMany, ParseElement, LeaveMany, Doing
<1>2. \/ Then(<<>>) \/ Then(allUnits)
      \/ Task.do = "many" /\ Then(opened)
      \/ Task.do = "in_many" /\ Then(element)
  BY DEF DesignFile, EnterMany, ParseElement, LeaveMany, Doing
<1>3. /\ Task \in Tasks
      /\ Task.do \in {"many", "in_many"} => Task.state \in States /\ Task.part \in Parts
      /\ parsing_states \subseteq States
  BY <1>1, TheTask, OfATask, OpenStatesAreStates
<1>4. <<>> \in Seq(Tasks) /\ \A i \in 1 .. Len(<<>>) : FALSE
  BY EmptySeq
<1>5. allUnits \in Seq(Tasks) /\ \A i \in 1 .. Len(allUnits) : allUnits[i].do \notin Releasing
  <2>1. Many("design_unit_in_design_file", "none") \in OtherCalls
    BY EachIsAnother DEF States, Parts
  <2>2. allUnits \in Seq(OtherCalls)
    BY <2>1
  <2> QED
    BY <2>2, OthersAreCalls, CallsAreTasks, OthersDoNotRelease
<1>6. ASSUME Task.do = "many"
      PROVE  opened \in Seq(Tasks) /\ \A i \in 1 .. Len(opened) : opened[i].do \notin Releasing
  <2>1. InMany(Task.state, Task.part, parsing_states) \in Tasks
    BY <1>3, <1>6 DEF InMany, OpenCalls, Tasks
  <2>2. opened \in Seq(Tasks) /\ Len(opened) = 1 /\ opened[1].do = "in_many"
    BY <2>1 DEF InMany
  <2> QED
    BY <2>2 DEF Releasing
<1>7. ASSUME Task.do = "in_many"
      PROVE  element \in Seq(Tasks) /\ \A i \in 1 .. Len(element) : element[i].do \notin Releasing
  <2> DEFINE e == Element(Task.state, Task.part)
  <2>1. /\ e \in Seq(OtherCalls) /\ e \in Seq(Tasks)
        /\ \A i \in 1 .. Len(e) : e[i].do \notin Releasing
    BY <1>3, <1>7, ElementsAreOthers, OthersAreCalls, CallsAreTasks, OthersDoNotRelease
  <2> HIDE DEF e
  <2>2. /\ Append(e, Task) \in Seq(Tasks) /\ Len(e) \in Nat
        /\ Len(Append(e, Task)) = Len(e) + 1
        /\ \A i \in 1 .. Len(e) : Append(e, Task)[i] = e[i]
        /\ Append(e, Task)[Len(e) + 1] = Task
    BY <1>3, <2>1, AppendProperties, LenProperties
  <2>3. ASSUME NEW i \in 1 .. Len(Append(e, Task))
        PROVE  Append(e, Task)[i].do \notin Releasing
    <3>1. i \in 1 .. Len(e) \/ i = Len(e) + 1
      BY <2>2
    <3> QED
      BY <1>7, <2>1, <2>2, <3>1 DEF Releasing
  <2> QED
    BY <2>2, <2>3 DEF e
<1> HIDE DEF allUnits, opened, element
<1>8. PICK script \in Seq(Tasks) :
        Then(script) /\ \A i \in 1 .. Len(script) : script[i].do \notin Releasing
  <2>1. CASE Then(<<>>)
    BY <1>4, <2>1
  <2>2. CASE Then(allUnits)
    BY <1>5, <2>2
  <2>3. CASE Task.do = "many" /\ Then(opened)
    BY <1>6, <2>3
  <2>4. CASE Task.do = "in_many" /\ Then(element)
    BY <1>7, <2>4
  <2> QED
    BY <1>2, <2>1, <2>2, <2>3, <2>4
<1>9. Task.do \notin Releasing /\ Task.do \notin InsideARange
  BY <1>1 DEF Releasing, InsideARange
<1> QED
  BY <1>1, <1>8, <1>9, ReadingAddsNone, RangeGoesOn

LEMMA OneRangeStep ==
  ASSUME OneRange, CallsInv, Whole, file \in Files, [Next]_vars
  PROVE  OneRange'
PROOF
<1>1. ASSUME todo # <<>>, Task.do \notin Releasing \cup {"range"} PROVE Reads
  BY <1>1, StepsOfTheLexer
     DEF ParseRange, DropCheckpoint, RangeAgain, NoRange, Doing, Releasing
<1>2. ASSUME Produces, Task.do \notin Releasing \cup InsideARange \cup {"range"}
      PROVE  OneRange'
  BY <1>1, <1>2, OutsideARange DEF Produces
<1>3. CASE Expression \/ ParseName \/ Suffix \/ AttributeName \/ ConsumeToken
  <2>1. todo # <<>> /\ Task.do \notin Releasing \cup {"range"}
    BY <1>3 DEF Expression, ParseName, Suffix, AttributeName, ConsumeToken, Doing, Releasing
  <2> QED
    BY <1>1, <1>3, <2>1, InsideStays
<1>4. CASE DesignFile \/ EnterMany \/ ParseElement \/ LeaveMany
  <2>1. todo # <<>> /\ Task.do \notin Releasing \cup {"range"}
    BY <1>4 DEF DesignFile, EnterMany, ParseElement, LeaveMany, Doing, Releasing
  <2> QED
    BY <1>1, <1>4, <2>1, ManyOutsideARange
<1>5. CASE SkipInMany \/ GiveUp \/ Finish \/ UNCHANGED vars
  <2>1. todo' = todo /\ Reads
    BY <1>5 DEF SkipInMany, Skip, GiveUp, Finish, vars, parser, Reads
  <2> QED
    BY <2>1, ReadingAddsNone, RangeStays
<1>6. CASE \/ ScanFirst \/ LibraryNames \/ UnitName \/ EntityNamed
           \/ ClosingLabelOrNone \/ UnitEnd \/ NoDeclaration \/ NoSubtype
  <2>1. Produces
    BY <1>6, EndsProduce
  <2>2. Task.do \notin Releasing \cup InsideARange \cup {"range"}
    BY <1>6 DEF ScanFirst, LibraryNames, UnitName, EntityNamed, ClosingLabelOrNone,
                UnitEnd, NoDeclaration, NoSubtype, Doing, Releasing, InsideARange
  <2> QED
    BY <1>2, <2>1, <2>2
<1>7. CASE \/ OptionalToken \/ ContextClause \/ LibraryEnd \/ resync_to_next_semicolon
           \/ DesignUnit \/ NoDesignUnit \/ PackageEnd
  <2>1. Produces
    BY <1>7, UnitsProduce DEF CallsInv
  <2>2. Task.do \notin Releasing \cup InsideARange \cup {"range"}
    BY <1>7 DEF OptionalToken, ContextClause, LibraryEnd, resync_to_next_semicolon,
                DesignUnit, NoDesignUnit, PackageEnd, Doing, Releasing, InsideARange
  <2> QED
    BY <1>2, <2>1, <2>2
<1>8. CASE ObjectDeclaration \/ SubtypeIndication \/ Constraint
  <2>1. Produces
    BY <1>8, DeclarationsProduce DEF CallsInv
  <2>2. Task.do \notin Releasing \cup InsideARange \cup {"range"}
    BY <1>8 DEF ObjectDeclaration, SubtypeIndication, Constraint, Doing, Releasing,
                InsideARange
  <2> QED
    BY <1>2, <2>1, <2>2
<1>9. CASE \/ EntityStatement \/ ConcurrentStatement \/ InstantiationLabel
           \/ SequentialStatement \/ LabelledStatement \/ NoStatement \/ CallEnd
           \/ Generate \/ GenerateBody
  <2>1. Produces
    BY <1>9, StatementsProduce DEF CallsInv
  <2>2. Task.do \notin Releasing \cup InsideARange \cup {"range"}
    BY <1>9 DEF EntityStatement, ConcurrentStatement, InstantiationLabel,
                SequentialStatement, LabelledStatement, NoStatement, CallEnd,
                Generate, GenerateBody, Doing, Releasing, InsideARange
  <2> QED
    BY <1>2, <2>1, <2>2
<1>10. CASE ParseRange \/ RangeUpTo \/ DropCheckpoint \/ RangeAgain \/ NoRange
  BY <1>10, RangeBegins, RangeToBeDropped, RangeEnds
<1> QED
  BY <1>3, <1>4, <1>5, <1>6, <1>7, <1>8, <1>9, <1>10 DEF Next

--------------------------------------------------------------------------------
(* What holds of the lexer, of the calls in progress and of the values.    *)
ParserInv ==
  /\ Whole
  /\ OneRange
  /\ CallsInv
  /\ Counts
  /\ Made

LEMMA ParserBegins == Init => ParserInv
PROOF
<1> SUFFICES ASSUME Init PROVE ParserInv
  OBVIOUS
<1>1. Whole /\ OneRange /\ CallsInv
  BY InitHolds, OneRangeBegins, CallsBegin DEF Init
<1>2. Counts
  <2>1. 0 \in 0 .. Patience
    BY ParserAssumption
  <2>2. /\ file \in Files /\ asserts \in BOOLEAN /\ count = 0 /\ errors = FALSE
        /\ outcome = "parsing"
    BY DEF Init
  <2> QED
    BY <2>1, <2>2 DEF Counts
<1>3. Made
  BY LexerAssumption, EmptySeq DEF Init, Made, UnitKeywords, Token
<1> QED
  BY <1>1, <1>2, <1>3 DEF ParserInv

LEMMA ParserSteps ==
  ASSUME ParserInv, [Next]_vars
  PROVE  ParserInv' /\ [LexerNext]_lexer
PROOF
<1>1. Whole /\ OneRange /\ CallsInv /\ Counts /\ Made
  BY DEF ParserInv
<1>2. [LexerNext]_lexer
  BY <1>1, ParserStepsTheLexer DEF Counts
<1>3. Whole'
  BY <1>1, <1>2, WholeStep DEF OneRange
<1>4. LexerTypeOK /\ todo \in Seq(Tasks)
  BY <1>1 DEF Whole, CallsInv
<1>5. CallsInv' /\ Counts' /\ Made' /\ OneRange'
  BY <1>1, <1>4, CallsStep, CountsKept, MadeKept, OneRangeStep DEF Counts
<1> QED
  BY <1>2, <1>3, <1>5 DEF ParserInv

THEOREM ParserInvariant == Spec => []ParserInv
PROOF
<1>1. Init => ParserInv
  BY ParserBegins
<1>2. ParserInv /\ [Next]_vars => ParserInv'
  BY ParserSteps
<1> QED
  BY <1>1, <1>2, PTL DEF Spec

(* Whatever the parser keeps, the count of looks at one token among them,  *)
(* stays in its range (parser.cpp:5326, current_token).                    *)
THEOREM TypesOfTheParser == Spec => []TypeOK
PROOF
<1>1. ParserInv => TypeOK
  <2> SUFFICES ASSUME ParserInv PROVE TypeOK
    OBVIOUS
  <2>1. Whole /\ CallsInv /\ Counts /\ Made
    BY DEF ParserInv
  <2>2. LexerTypeOK
    BY <2>1 DEF Whole
  <2>3. parsing_states \subseteq States
    BY <2>1, OpenStatesAreStates DEF CallsInv
  <2>4. file \in Seq(Kinds)
    BY <2>1, ParserAssumption DEF Counts
  <2>5. \A i \in DOMAIN units : units[i] \in [kind : UnitKeywords, name : Token \ {0}]
    <3>1. units \in Seq(Units)
      BY <2>1 DEF Made
    <3>2. \A i \in DOMAIN units : units[i] \in Units
      BY <3>1, LenProperties, ElementOfSeq
    <3> QED
      BY <3>2 DEF Units
  <2> QED
    BY <2>1, <2>2, <2>3, <2>4, <2>5 DEF TypeOK, Counts, Made
<1> QED
  BY <1>1, ParserInvariant, PTL

(* Every checkpoint that parse_range adds is dropped or returned to when   *)
(* it returns (parser.cpp:1030-1111), whatever follows the keyword range   *)
(* and however deep the recovery: those on the lexer's stack are as many   *)
(* as the ranges being parsed.                                             *)
THEOREM RangesRelease == Spec => []CheckpointsAreReleased
PROOF
<1>1. ParserInv => CheckpointsAreReleased
  <2> SUFFICES ASSUME Whole, OneRange PROVE CheckpointsAreReleased
    BY DEF ParserInv
  <2>1. CASE checkpoints_ = <<>> /\ \A i \in DOMAIN todo : todo[i].do \notin Releasing
    <3>1. Releases = {}
      BY <2>1 DEF Releases, Releasing
    <3>2. Len(checkpoints_) = 0
      BY <2>1
    <3> QED
      BY <3>1, <3>2, FS_EmptySet DEF CheckpointsAreReleased
  <2>2. CASE Len(checkpoints_) = 1 /\ \E k \in DOMAIN todo : ReleasedAt(k)
    <3>1. PICK k \in DOMAIN todo : ReleasedAt(k)
      BY <2>2
    <3>2. Releases = {k}
      BY <3>1 DEF Releases, Releasing, ReleasedAt
    <3> QED
      BY <2>2, <3>2, FS_Singleton DEF CheckpointsAreReleased
  <2> QED
    BY <2>1, <2>2 DEF OneRange
<1> QED
  BY <1>1, ParserInvariant, PTL

(* What the calls of the productions do to the lexer is a behaviour of     *)
(* Lexer, whatever the file, the depth of checkpoints and the recovery.    *)
THEOREM ParserDrivesTheLexer == Spec => LexerSpec
PROOF
<1>1. Init => LexerInit
  BY DEF Init
<1>2. ParserInv /\ [Next]_vars => [LexerNext]_lexer
  BY ParserSteps
<1> QED
  BY <1>1, <1>2, ParserInvariant, PTL DEF Spec, LexerSpec

(* In files without parentheses, those of Kinds, a range has no other      *)
(* inside, so no parse of one loses, repeats or reorders a token and the   *)
(* look-back is right throughout.  Parenthesised names, which the code     *)
(* also looks ahead for, can nest ranges: of files with them this says     *)
(* nothing.                                                                *)
THEOREM NoTokenIsLostWithoutParentheses == Spec => [](QueueFollowsOn /\ LookBackIsRight)
PROOF
<1>1. ParserInv => QueueFollowsOn /\ LookBackIsRight
  BY DEF ParserInv, Whole
<1> QED
  BY <1>1, ParserInvariant, PTL
================================================================================
