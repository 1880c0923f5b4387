-------------------------- MODULE ParserUnits_proofs --------------------------
(***************************************************************************)
(* Proofs about the units of Parser: for any files, each unit of a file    *)
(* without diagnostics is found by the explorer's fast parser too, which   *)
(* goes from keyword to keyword.                                           *)
(***************************************************************************)
EXTENDS ParserRecovery_proofs

--------------------------------------------------------------------------------
(* The token before each design unit.  A call that is Clean begins with no *)
(* "library" right before the current token, and one that Keeps leaves     *)
(* none, unless there is a diagnostic.                                     *)

IsUnits(t) == t.do \in {"many", "in_many"} /\ t.state = UnitsState

IsOptional(t) == t.do = "optional" /\ t.then = <<>> /\ t.token # "library"

Clean(t) ==
  \/ t.do \in {"file", "context_clause", "design_unit", "unit_end", "package_end",
               "closing_label"}
  \/ IsUnits(t)
  \/ IsOptional(t)

Keeps(t) ==
  \/ t.do \in {"scan", "context_clause", "design_unit", "unit_end", "package_end",
               "closing_label", "inst_label"}
  \/ IsOptional(t)
  \/ t.do = "consume" /\ t.token # "library"

IsConsume(t, token) == t.do = "consume" /\ t.token = token

(* Two calls that follow each other: before what is clean is what keeps,   *)
(* and the name of a unit is between the tokens of its kind and "of".      *)
Beside(t, u) ==
  /\ Clean(u) => Keeps(t)
  /\ u.do = "unit_name" => IsConsume(t, u.kind)
  /\ t.do = "unit_name" /\ t.kind = "architecture" => IsConsume(u, "of")
  /\ IsConsume(t, "of") => u.do = "name"

AllBeside(calls) == \A i \in 1 .. Len(calls) - 1 : Beside(calls[i], calls[i + 1])

(* What another call must follow.                                          *)
Needs(t) == t.do = "unit_name" \/ IsConsume(t, "of")

Chained(calls) ==
  /\ AllBeside(calls)
  /\ calls # <<>> => ~ Needs(calls[Len(calls)])
  /\ \A i \in 1 .. Len(calls) :
       /\ calls[i].do = "scan" => i = 1
       /\ calls[i].do = "unit_name" => i <= 2

NoLibraryBefore(n) == Kind(n - 1) # "library"

CleanNow == todo # <<>> /\ Clean(todo[1]) => NoLibraryBefore(current_token)

(* A design unit that begins.                                              *)
UnitBegins ==
  /\ Len(todo) > 1 /\ todo[2].do = "unit_name" => NoLibraryBefore(current_token)
  /\ todo # <<>> /\ todo[1].do = "unit_name" =>
       /\ Kind(current_token - 1) = todo[1].kind
       /\ NoLibraryBefore(current_token - 1)

(* A unit as the explorer expects it.                                      *)
IsNamed(u) ==
  /\ Kind(u.name - 1) = u.kind /\ Kind(u.name) = "identifier"
  /\ NoLibraryBefore(u.name - 1)

IsRecorded(u) ==
  u.name # 0 =>
    /\ IsNamed(u)
    /\ u.kind = "architecture" =>
         Kind(u.name + 1) = "of" /\ Kind(u.name + 2) = "identifier"

(* An architecture of which the name is parsed, and not its entity's.      *)
EntityNext ==
  /\ todo # <<>>
  /\ IsNamed(unit)
  /\ \/ IsConsume(todo[1], "of") /\ current_token = unit.name + 1
     \/ /\ todo[1].do = "name" /\ Kind(unit.name + 1) = "of"
        /\ current_token = unit.name + 2

UnitsRecorded ==
  /\ IsRecorded(unit) \/ EntityNext
  /\ \A i \in 1 .. Len(units) : units[i].name # 0 /\ IsRecorded(units[i])

ScansFirst == todo # <<>> /\ todo[1].do = "scan" => current_token = 0

UnitsInv ==
  /\ Chained(todo)
  /\ ScansFirst
  /\ ~ errors => CleanNow /\ UnitBegins /\ UnitsRecorded

--------------------------------------------------------------------------------
(* What takes the place of a call.                                         *)

Linked(script) ==
  /\ script \in Seq(Tasks) /\ script # <<>>
  /\ AllBeside(script)
  /\ ~ Needs(script[Len(script)])
  /\ \A i \in 1 .. Len(script) :
       /\ script[i].do # "scan"
       /\ script[i].do = "unit_name" => i = 2

LEMMA Asks ==
  ASSUME todo \in Seq(Tasks), todo # <<>>, Chained(todo), Task.do # "consume",
         NEW script, Linked(script), Then(script),
         Keeps(Task) => Keeps(script[Len(script)])
  PROVE  /\ Chained(todo') /\ todo' # <<>> /\ todo'[1] = script[1]
         /\ script[1].do \notin {"scan", "unit_name"}
         /\ Len(todo') > 1 /\ todo'[2].do = "unit_name" =>
              Len(script) > 1 /\ script[2].do = "unit_name"
PROOF
<1> DEFINE a == Len(script)
           n == Len(todo)
           q == todo'
           m == Len(q)
<1>1. /\ script \in Seq(Tasks) /\ script # <<>> /\ AllBeside(script)
      /\ ~ Needs(script[a])
      /\ \A i \in 1 .. a : script[i].do # "scan" /\ (script[i].do = "unit_name" => i = 2)
  BY DEF Linked
<1>2. /\ q \in Seq(Tasks) /\ n \in Nat \ {0} /\ a \in Nat \ {0} /\ m \in Nat
      /\ m = a + n - 1
      /\ \A i \in 1 .. a : q[i] = script[i]
      /\ \A i \in 1 .. n - 1 : q[a + i] = todo[1 + i]
  <2>1. a # 0
    BY <1>1, EmptySeq
  <2> QED
    BY <1>1, <2>1, Replaced, LenProperties
<1>3. Task = todo[1]
  BY TheTask
<1>4. /\ \A i \in 1 .. n - 1 : Beside(todo[i], todo[i + 1])
      /\ ~ Needs(todo[n])
      /\ \A i \in 1 .. n : /\ todo[i].do = "scan" => i = 1
                           /\ todo[i].do = "unit_name" => i <= 2
  BY DEF Chained, AllBeside
<1>5. \A i \in 1 .. a - 1 : Beside(script[i], script[i + 1])
  BY <1>1 DEF AllBeside
<1> HIDE DEF a, n, q, m
<1>6. n > 1 => todo[2].do # "unit_name"
  <2> SUFFICES ASSUME n > 1, todo[2].do = "unit_name" PROVE FALSE
    OBVIOUS
  <2>0. 1 \in 1 .. n - 1 /\ 1 + 1 = 2
    BY <1>2
  <2>1. Beside(todo[1], todo[2])
    BY <1>4, <2>0
  <2>2. IsConsume(todo[1], todo[2].kind)
    BY <2>1 DEF Beside
  <2>3. todo[1].do = "consume"
    BY <2>2 DEF IsConsume
  <2> QED
    BY <1>3, <2>3
<1>7. \A j \in 1 .. n - 1 : todo[1 + j].do \notin {"scan", "unit_name"}
  <2> TAKE j \in 1 .. n - 1
  <2>1. 1 + j \in 1 .. n /\ 1 + j # 1
    BY <1>2
  <2>2. todo[1 + j].do # "scan"
    BY <1>4, <2>1
  <2>3. todo[1 + j].do = "unit_name" => 1 + j = 2 /\ n > 1
    BY <1>2, <1>4, <2>1
  <2> QED
    BY <1>6, <2>2, <2>3
<1>8. n > 1 => Beside(script[a], todo[2])
  <2> SUFFICES ASSUME n > 1 PROVE Beside(script[a], todo[2])
    OBVIOUS
  <2>0. 1 \in 1 .. n - 1 /\ 1 + 1 = 2
    BY <1>2
  <2>1. Beside(todo[1], todo[2])
    BY <1>4, <2>0
  <2>2. Clean(todo[2]) => Keeps(script[a])
    BY <1>3, <2>1 DEF Beside, a
  <2> QED
    BY <1>1, <1>6, <2>2 DEF Beside, Needs
<1>9. \A i \in 1 .. m - 1 : Beside(q[i], q[i + 1])
  <2> TAKE i \in 1 .. m - 1
  <2>1. CASE i < a
    <3>1. i \in 1 .. a - 1 /\ i \in 1 .. a /\ i + 1 \in 1 .. a
      BY <1>2, <2>1
    <3> QED
      BY <1>2, <1>5, <3>1
  <2>2. CASE i = a
    <3>1. n > 1 /\ 1 \in 1 .. n - 1 /\ a \in 1 .. a
      BY <1>2, <2>2
    <3>2. q[a + 1] = todo[1 + 1]
      BY <1>2, <3>1
    <3>3. q[i] = script[a] /\ q[i + 1] = todo[2]
      BY <1>2, <2>2, <3>1, <3>2
    <3> QED
      BY <1>8, <3>1, <3>3
  <2>3. CASE i > a
    <3> DEFINE j == i - a
    <3>1. /\ j \in 1 .. n - 1 /\ j + 1 \in 1 .. n - 1 /\ a + j = i /\ a + (j + 1) = i + 1
          /\ 1 + j \in 1 .. n - 1 /\ 1 + (j + 1) = (1 + j) + 1
      BY <1>2, <2>3
    <3> HIDE DEF j
    <3>2. q[i] = todo[1 + j] /\ q[i + 1] = todo[1 + (j + 1)]
      BY <1>2, <3>1
    <3>3. Beside(todo[1 + j], todo[(1 + j) + 1])
      BY <1>4, <3>1
    <3> QED
      BY <3>1, <3>2, <3>3
  <2> QED
    BY <1>2, <2>1, <2>2, <2>3
<1>10. ~ Needs(q[m])
  <2>1. CASE n = 1
    <3>1. m = a /\ a \in 1 .. a
      BY <1>2, <2>1
    <3>2. q[m] = script[a]
      BY <1>2, <3>1
    <3> QED
      BY <1>1, <3>2 DEF a
  <2>2. CASE n > 1
    <3>1. n - 1 \in 1 .. n - 1 /\ a + (n - 1) = m /\ 1 + (n - 1) = n
      BY <1>2, <2>2
    <3>2. q[a + (n - 1)] = todo[1 + (n - 1)]
      BY <1>2, <3>1
    <3> QED
      BY <1>4, <3>1, <3>2
  <2> QED
    BY <1>2, <2>1, <2>2
<1>11. \A i \in 1 .. m : q[i].do # "scan" /\ (q[i].do = "unit_name" => i <= 2 /\ i <= a)
  <2> TAKE i \in 1 .. m
  <2>1. CASE i <= a
    <3>1. i \in 1 .. a
      BY <1>2, <2>1
    <3>2. q[i] = script[i] /\ script[i].do # "scan" /\ (script[i].do = "unit_name" => i = 2)
      BY <1>1, <1>2, <3>1 DEF a
    <3> QED
      BY <2>1, <3>2
  <2>2. CASE i > a
    <3> DEFINE j == i - a
    <3>1. j \in 1 .. n - 1 /\ a + j = i
      BY <1>2, <2>2
    <3> HIDE DEF j
    <3>2. q[i] = todo[1 + j]
      BY <1>2, <3>1
    <3> QED
      BY <1>7, <3>1, <3>2
  <2> QED
    BY <1>2, <2>1, <2>2
<1>12. q # <<>> /\ q[1] = script[1] /\ 1 \in 1 .. a /\ m # 0
  <2>1. m # 0 /\ 1 \in 1 .. a
    BY <1>2
  <2> QED
    BY <1>2, <2>1, EmptySeq DEF m
<1>13. script[1].do \notin {"scan", "unit_name"}
  BY <1>1, <1>12 DEF a
<1>14. Chained(q)
  <2>1. \A i \in 1 .. m : q[i].do # "scan" /\ (q[i].do = "unit_name" => i <= 2)
    BY <1>11
  <2> QED
    BY <1>9, <1>10, <2>1 DEF Chained, AllBeside, m
<1>15. m > 1 /\ q[2].do = "unit_name" => a > 1 /\ script[2].do = "unit_name"
  <2> SUFFICES ASSUME m > 1, q[2].do = "unit_name" PROVE a > 1 /\ script[2].do = "unit_name"
    OBVIOUS
  <2>1. 2 \in 1 .. m
    BY <1>2
  <2>2. 2 <= a
    BY <1>11, <2>1
  <2>3. 2 \in 1 .. a /\ a > 1
    BY <1>2, <2>2
  <2> QED
    BY <1>2, <2>3
<1> QED
  BY <1>12, <1>13, <1>14, <1>15 DEF a, q, m

(* What is next when a call ends.                                          *)
LEMMA Ends ==
  ASSUME todo \in Seq(Tasks), todo # <<>>, Chained(todo), Then(<<>>)
  PROVE  /\ Chained(todo')
         /\ todo' # <<>> => /\ Len(todo) > 1 /\ todo'[1] = todo[2]
                            /\ Beside(Task, todo'[1]) /\ todo'[1].do # "scan"
         /\ Len(todo') > 1 => todo'[2].do # "unit_name"
PROOF
<1> DEFINE n == Len(todo)
           q == todo'
           m == Len(q)
<1>1. /\ q \in Seq(Tasks) /\ n \in Nat \ {0} /\ m \in Nat /\ m = n - 1
      /\ \A i \in 1 .. n - 1 : q[i] = todo[1 + i]
  <2>1. <<>> \in Seq(Tasks) /\ Len(<<>>) = 0
    BY EmptySeq
  <2>2. /\ q \in Seq(Tasks) /\ n \in Nat \ {0} /\ m = 0 + n - 1
        /\ \A i \in 1 .. n - 1 : q[0 + i] = todo[1 + i]
    BY <2>1, Replaced
  <2> HIDE DEF q, n, m
  <2>3. \A i \in 1 .. n - 1 : 0 + i = i
    BY <2>2
  <2>4. \A i \in 1 .. n - 1 : q[i] = todo[1 + i]
    BY <2>2, <2>3
  <2> QED
    BY <2>2, <2>4
<1>2. Task = todo[1] /\ (q # <<>> <=> m # 0)
  BY <1>1, TheTask, EmptySeq
<1>3. /\ \A i \in 1 .. n - 1 : Beside(todo[i], todo[i + 1])
      /\ ~ Needs(todo[n])
      /\ \A i \in 1 .. n : /\ todo[i].do = "scan" => i = 1
                           /\ todo[i].do = "unit_name" => i <= 2
  BY DEF Chained, AllBeside
<1> HIDE DEF n, q, m
<1>4. \A i \in 1 .. m - 1 : Beside(q[i], q[i + 1])
  <2> TAKE i \in 1 .. m - 1
  <2>1. /\ i \in 1 .. n - 1 /\ i + 1 \in 1 .. n - 1 /\ 1 + i \in 1 .. n - 1
        /\ 1 + (i + 1) = (1 + i) + 1
    BY <1>1
  <2>2. q[i] = todo[1 + i] /\ q[i + 1] = todo[1 + (i + 1)]
    BY <1>1, <2>1
  <2>3. Beside(todo[1 + i], todo[(1 + i) + 1])
    BY <1>3, <2>1
  <2> QED
    BY <2>1, <2>2, <2>3
<1>5. m > 0 => ~ Needs(q[m])
  <2> SUFFICES ASSUME m > 0 PROVE ~ Needs(q[m])
    OBVIOUS
  <2>1. m \in 1 .. n - 1 /\ 1 + m = n
    BY <1>1
  <2>2. q[m] = todo[1 + m]
    BY <1>1, <2>1
  <2> QED
    BY <1>3, <2>1, <2>2
<1>6. \A i \in 1 .. m : q[i].do # "scan" /\ (q[i].do = "unit_name" => i = 1)
  <2> TAKE i \in 1 .. m
  <2>1. i \in 1 .. n - 1 /\ 1 + i \in 1 .. n /\ 1 + i # 1
    BY <1>1
  <2>2. q[i] = todo[1 + i]
    BY <1>1, <2>1
  <2>3. todo[1 + i].do # "scan" /\ (todo[1 + i].do = "unit_name" => 1 + i <= 2)
    BY <1>3, <2>1
  <2> QED
    BY <2>1, <2>2, <2>3
<1>7. Chained(q)
  <2>1. \A i \in 1 .. m : q[i].do # "scan" /\ (q[i].do = "unit_name" => i <= 2)
    BY <1>6
  <2>2. q # <<>> => ~ Needs(q[m])
    BY <1>1, <1>2, <1>5
  <2> QED
    BY <1>4, <2>1, <2>2 DEF Chained, AllBeside, m
<1>8. ASSUME q # <<>>
      PROVE  n > 1 /\ q[1] = todo[2] /\ Beside(Task, q[1]) /\ q[1].do # "scan"
  <2>1. n > 1 /\ 1 \in 1 .. n - 1 /\ 1 + 1 = 2 /\ 1 \in 1 .. m
    BY <1>1, <1>2, <1>8
  <2>2. q[1] = todo[2]
    BY <1>1, <2>1
  <2>3. Beside(todo[1], todo[2])
    BY <1>3, <2>1
  <2> QED
    BY <1>2, <1>6, <2>1, <2>2, <2>3
<1>9. m > 1 => q[2].do # "unit_name"
  <2> SUFFICES ASSUME m > 1 PROVE q[2].do # "unit_name"
    OBVIOUS
  <2>1. 2 \in 1 .. m /\ 2 # 1
    BY <1>1
  <2> QED
    BY <1>6, <2>1
<1> QED
  BY <1>7, <1>8, <1>9 DEF n, q, m

(* Calls that neither the ones before nor the ones after depend on.        *)
FreeCalls == {t \in Tasks : ~ Clean(t) /\ ~ Needs(t) /\ t.do # "scan"}

LEMMA FreeLinks ==
  ASSUME NEW s \in Seq(FreeCalls), s # <<>>
  PROVE  Linked(s) /\ \A i \in 1 .. Len(s) : s[i].do # "unit_name"
PROOF
<1>1. Len(s) \in Nat /\ Len(s) # 0 /\ \A i \in 1 .. Len(s) : s[i] \in FreeCalls
  BY LenProperties, ElementOfSeq, EmptySeq
<1>2. s \in Seq(Tasks)
  <2>1. FreeCalls \subseteq Tasks
    BY DEF FreeCalls
  <2> QED
    BY <2>1, SeqMonotonic
<1>3. \A i \in 1 .. Len(s) :
        ~ Clean(s[i]) /\ ~ Needs(s[i]) /\ s[i].do # "scan" /\ s[i].do # "unit_name"
  BY <1>1 DEF FreeCalls, Needs
<1>4. \A t, u : ~ Clean(u) /\ ~ Needs(u) /\ ~ Needs(t) => Beside(t, u)
  BY DEF Beside, Needs
<1>5. AllBeside(s)
  <2> SUFFICES ASSUME NEW i \in 1 .. Len(s) - 1 PROVE Beside(s[i], s[i + 1])
    BY DEF AllBeside
  <2>1. i \in 1 .. Len(s) /\ i + 1 \in 1 .. Len(s)
    BY <1>1
  <2> QED
    BY <1>3, <1>4, <2>1
<1>6. Len(s) \in 1 .. Len(s)
  BY <1>1
<1> QED
  BY <1>2, <1>3, <1>5, <1>6 DEF Linked

(* No name of a unit is in them.                                           *)
Nameless(s) == \A i \in 1 .. Len(s) : s[i].do # "unit_name"

LEMMA LinkedConcat ==
  ASSUME NEW s, Linked(s), NEW t, Linked(t), Nameless(t),
         Clean(t[1]) => Keeps(s[Len(s)])
  PROVE  /\ Linked(s \o t) /\ (s \o t)[1] = s[1]
         /\ (s \o t)[Len(s \o t)] = t[Len(t)]
         /\ Nameless(s) => Nameless(s \o t)
PROOF
<1> DEFINE q == s \o t
           a == Len(s)
           b == Len(t)
<1>1. /\ s \in Seq(Tasks) /\ s # <<>> /\ t \in Seq(Tasks) /\ t # <<>>
      /\ \A i \in 1 .. a - 1 : Beside(s[i], s[i + 1])
      /\ \A i \in 1 .. b - 1 : Beside(t[i], t[i + 1])
      /\ ~ Needs(s[a]) /\ ~ Needs(t[b])
      /\ \A i \in 1 .. a : s[i].do # "scan" /\ (s[i].do = "unit_name" => i = 2)
      /\ \A i \in 1 .. b : t[i].do # "scan" /\ t[i].do # "unit_name"
  BY DEF Linked, AllBeside, Nameless
<1>2. /\ q \in Seq(Tasks) /\ Len(q) = a + b
      /\ \A i \in 1 .. a + b : q[i] = IF i <= a THEN s[i] ELSE t[i - a]
  BY <1>1, ConcatProperties
<1>3. a \in Nat \ {0} /\ b \in Nat \ {0}
  BY <1>1, EmptySeq
<1> HIDE DEF q, a, b
<1>4. \A i \in 1 .. a : i \in 1 .. a + b /\ q[i] = s[i]
  BY <1>2, <1>3
<1>5. \A i \in 1 .. b : a + i \in 1 .. a + b /\ q[a + i] = t[i]
  <2> TAKE i \in 1 .. b
  <2> DEFINE j == a + i
  <2>1. j \in 1 .. a + b /\ ~ (j <= a) /\ j - a = i
    BY <1>3
  <2> HIDE DEF j
  <2>2. q[j] = t[i]
    BY <1>2, <2>1
  <2> QED
    BY <2>1, <2>2 DEF j
<1>6. /\ 1 \in 1 .. a /\ a \in 1 .. a /\ 1 \in 1 .. b /\ b \in 1 .. b
      /\ q[1] = s[1] /\ q[a] = s[a] /\ q[a + 1] = t[1] /\ q[a + b] = t[b]
  BY <1>3, <1>4, <1>5
<1>7. Beside(s[a], t[1])
  <2>1. t[1].do # "unit_name" /\ (Clean(t[1]) => Keeps(s[a]))
    BY <1>1, <1>6 DEF a
  <2> QED
    BY <1>1, <2>1 DEF Beside, Needs
<1>8. \A i \in 1 .. a + b - 1 : Beside(q[i], q[i + 1])
  <2> TAKE i \in 1 .. a + b - 1
  <2>1. CASE i < a
    <3>1. i \in 1 .. a - 1 /\ i \in 1 .. a /\ i + 1 \in 1 .. a
      BY <1>3, <2>1
    <3> QED
      BY <1>1, <1>4, <3>1
  <2>2. CASE i = a
    BY <1>6, <1>7, <2>2
  <2>3. CASE i > a
    <3> DEFINE j == i - a
    <3>1. /\ j \in 1 .. b - 1 /\ j \in 1 .. b /\ j + 1 \in 1 .. b
          /\ a + j = i /\ a + (j + 1) = i + 1
      BY <1>3, <2>3
    <3> HIDE DEF j
    <3>2. q[i] = t[j] /\ q[i + 1] = t[j + 1]
      BY <1>5, <3>1
    <3> QED
      BY <1>1, <3>1, <3>2
  <2> QED
    BY <1>3, <2>1, <2>2, <2>3
<1>9. ASSUME NEW i \in 1 .. a + b
      PROVE  \/ i \in 1 .. a /\ q[i] = s[i]
             \/ \E j \in 1 .. b : q[i] = t[j]
  <2>1. CASE i <= a
    <3>1. i \in 1 .. a
      BY <1>3, <2>1
    <3> QED
      BY <1>4, <3>1
  <2>2. CASE i > a
    <3> DEFINE j == i - a
    <3>1. j \in 1 .. b /\ a + j = i
      BY <1>3, <2>2
    <3> HIDE DEF j
    <3>2. q[i] = t[j]
      BY <1>5, <3>1
    <3> QED
      BY <3>1, <3>2
  <2> QED
    BY <1>3, <2>1, <2>2
<1>10. \A i \in 1 .. a + b : q[i].do # "scan" /\ (q[i].do = "unit_name" => i = 2)
  <2> TAKE i \in 1 .. a + b
  <2> QED
    BY <1>1, <1>9
<1>11. Nameless(s) => \A i \in 1 .. a + b : q[i].do # "unit_name"
  <2> SUFFICES ASSUME Nameless(s), NEW i \in 1 .. a + b PROVE q[i].do # "unit_name"
    OBVIOUS
  <2> QED
    BY <1>1, <1>9 DEF Nameless, a
<1>12. q # <<>>
  <2>1. Len(q) # 0
    BY <1>2, <1>3
  <2> QED
    BY <1>2, <2>1, EmptySeq
<1>13. ~ Needs(q[a + b])
  BY <1>1, <1>6
<1>14. Linked(q)
  <2>1. Len(q) = a + b
    BY <1>2
  <2>2. AllBeside(q)
    <3> SUFFICES ASSUME NEW i \in 1 .. Len(q) - 1 PROVE Beside(q[i], q[i + 1])
      BY DEF AllBeside
    <3>1. i \in 1 .. a + b - 1
      BY <1>3, <2>1
    <3> QED
      BY <1>8, <3>1
  <2>3. ~ Needs(q[Len(q)])
    BY <1>13, <2>1
  <2>4. \A i \in 1 .. Len(q) : q[i].do # "scan" /\ (q[i].do = "unit_name" => i = 2)
    BY <1>10, <2>1
  <2> QED
    BY <1>2, <1>12, <2>2, <2>3, <2>4 DEF Linked
<1> QED
  BY <1>2, <1>6, <1>11, <1>14 DEF q, a, b, Nameless

LEMMA LinkedOne ==
  ASSUME NEW t \in Tasks, ~ Needs(t), t.do # "scan"
  PROVE  /\ Linked(<<t>>) /\ Nameless(<<t>>)
         /\ Len(<<t>>) = 1 /\ <<t>>[1] = t
PROOF
<1>1. /\ <<t>> \in Seq(Tasks) /\ <<t>> # <<>> /\ Len(<<t>>) = 1 /\ <<t>>[1] = t
  OBVIOUS
<1> DEFINE s == <<t>>
<1>2. /\ s \in Seq(Tasks) /\ s # <<>> /\ Len(s) = 1 /\ s[1] = t
  BY <1>1
<1> HIDE DEF s
<1>3. Linked(s) /\ Nameless(s)
  BY <1>2 DEF Linked, AllBeside, Nameless, Needs
<1> QED
  BY <1>2, <1>3 DEF s

LEMMA LinkedMore ==
  ASSUME NEW s, Linked(s), NEW t \in Tasks, ~ Needs(t), t.do # "scan",
         Clean(t) => Keeps(s[Len(s)])
  PROVE  /\ Linked(Append(s, t)) /\ Append(s, t)[1] = s[1]
         /\ Append(s, t)[Len(Append(s, t))] = t
         /\ Nameless(s) => Nameless(Append(s, t))
PROOF
<1>1. s \in Seq(Tasks)
  BY DEF Linked
<1>2. Append(s, t) = s \o <<t>>
  BY <1>1, AppendIsConcat
<1>3. Linked(<<t>>) /\ Nameless(<<t>>) /\ <<t>>[1] = t /\ <<t>>[Len(<<t>>)] = t
  BY LinkedOne
<1>4. /\ Linked(s \o <<t>>) /\ (s \o <<t>>)[1] = s[1]
      /\ (s \o <<t>>)[Len(s \o <<t>>)] = <<t>>[Len(<<t>>)]
      /\ Nameless(s) => Nameless(s \o <<t>>)
  BY <1>3, LinkedConcat
<1> QED
  BY <1>2, <1>3, <1>4

--------------------------------------------------------------------------------
(* The productions.                                                        *)

FreeOnes ==
  Simple \ {"scan", "file", "context_clause", "design_unit", "unit_end", "package_end",
            "closing_label"}

LEMMA FreeCallsAre ==
  /\ \A x \in FreeOnes : Do(x) \in FreeCalls
  /\ \A k \in Kinds \ {"of"} : Consume(k) \in FreeCalls
  /\ Optional("begin", <<Many("entity_statement_part", "none")>>) \in FreeCalls
  /\ \A s \in States \ {UnitsState}, p \in Parts : Many(s, p) \in FreeCalls
  /\ \A l \in BOOLEAN : Statement(l) \in FreeCalls
  /\ \A p \in Parts : Declaration(p) \in FreeCalls
  /\ \A t \in Tasks : t.do = "in_many" /\ t.state # UnitsState => t \in FreeCalls
PROOF
<1> USE EachIsACall DEF FreeCalls, Tasks, Clean, Needs, IsConsume, IsUnits, IsOptional
<1>1. \A x \in FreeOnes : Do(x) \in FreeCalls
  BY DEF FreeOnes, Simple, Do
<1>2. \A k \in Kinds \ {"of"} : Consume(k) \in FreeCalls
  BY DEF Consume
<1>3. Optional("begin", <<Many("entity_statement_part", "none")>>) \in FreeCalls
  <2>1. "begin" \in Kinds /\ <<Many("entity_statement_part", "none")>> \in Thens
    BY DEF Kinds, Thens
  <2>2. <<Many("entity_statement_part", "none")>> # <<>>
    OBVIOUS
  <2> QED
    BY <2>1, <2>2 DEF Optional
<1>4. \A s \in States \ {UnitsState}, p \in Parts : Many(s, p) \in FreeCalls
  BY DEF Many
<1>5. \A l \in BOOLEAN : Statement(l) \in FreeCalls
  BY DEF Statement
<1>6. \A p \in Parts : Declaration(p) \in FreeCalls
  BY DEF Declaration
<1>7. \A t \in Tasks : t.do = "in_many" /\ t.state # UnitsState => t \in FreeCalls
  OBVIOUS
<1> QED
  BY <1>1, <1>2, <1>3, <1>4, <1>5, <1>6, <1>7

(* What the calls of the productions keep and need.                        *)
LEMMA KeepingCalls ==
  /\ \A k \in Kinds : /\ ~ Clean(Consume(k)) /\ (k # "library" => Keeps(Consume(k)))
                      /\ (k # "of" => ~ Needs(Consume(k)))
                      /\ Consume(k).do = "consume"
                      /\ \A j \in Kinds : IsConsume(Consume(k), j) <=> k = j
  /\ \A k \in Kinds : /\ k # "library" => Keeps(Optional(k, <<>>))
                      /\ ~ Needs(Optional(k, <<>>)) /\ Optional(k, <<>>).do = "optional"
  /\ \A x \in Simple : /\ ~ Needs(Do(x)) /\ Do(x).do = x
                       /\ Clean(Do(x)) <=> x \in {"file", "context_clause", "design_unit",
                                "unit_end", "package_end", "closing_label"}
  /\ \A x \in {"scan", "context_clause", "design_unit", "unit_end", "package_end",
               "closing_label", "inst_label"} : Keeps(Do(x))
  /\ \A k \in UnitKeywords : /\ ~ Clean(Named(k)) /\ Named(k).do = "unit_name"
                             /\ Named(k).kind = k
  /\ \A t \in FreeCalls : ~ Clean(t) /\ ~ Needs(t) /\ t.do \notin {"scan", "unit_name"}
PROOF
<1> USE DEF Clean, Keeps, Needs, IsConsume, IsUnits, IsOptional
<1>1. \A k \in Kinds : /\ ~ Clean(Consume(k)) /\ (k # "library" => Keeps(Consume(k)))
                       /\ (k # "of" => ~ Needs(Consume(k)))
                       /\ Consume(k).do = "consume"
                       /\ \A j \in Kinds : IsConsume(Consume(k), j) <=> k = j
  BY DEF Consume
<1>2. \A k \in Kinds : /\ k # "library" => Keeps(Optional(k, <<>>))
                       /\ ~ Needs(Optional(k, <<>>)) /\ Optional(k, <<>>).do = "optional"
  BY DEF Optional
<1>3. \A x \in Simple : /\ ~ Needs(Do(x)) /\ Do(x).do = x
                        /\ Clean(Do(x)) <=> x \in {"file", "context_clause", "design_unit",
                                 "unit_end", "package_end", "closing_label"}
  BY DEF Do, Simple
<1>4. \A x \in {"scan", "context_clause", "design_unit", "unit_end", "package_end",
                "closing_label", "inst_label"} : Keeps(Do(x))
  BY DEF Do
<1>5. \A k \in UnitKeywords : /\ ~ Clean(Named(k)) /\ Named(k).do = "unit_name"
                              /\ Named(k).kind = k
  BY DEF Named
<1>6. \A t \in FreeCalls : ~ Clean(t) /\ ~ Needs(t) /\ t.do \notin {"scan", "unit_name"}
  BY DEF FreeCalls
<1> QED
  BY <1>1, <1>2, <1>3, <1>4, <1>5, <1>6

LEMMA BesideEachOther ==
  /\ \A t, u : ~ Needs(t) /\ (Clean(u) => Keeps(t)) /\ u.do # "unit_name" => Beside(t, u)
  /\ \A k \in UnitKeywords : Beside(Consume(k), Named(k))
  /\ Beside(Named("entity"), Consume("is"))
  /\ Beside(Named("package"), Consume("is"))
  /\ Beside(Named("architecture"), Consume("of"))
  /\ Beside(Consume("of"), Do("name"))
PROOF
<1> USE DEF Beside, Clean, Keeps, Needs, IsConsume, IsUnits, IsOptional, UnitKeywords
<1>1. \A t, u : ~ Needs(t) /\ (Clean(u) => Keeps(t)) /\ u.do # "unit_name" => Beside(t, u)
  OBVIOUS
<1>2. \A k \in UnitKeywords : Beside(Consume(k), Named(k))
  BY DEF Consume, Named
<1>3. /\ Beside(Named("entity"), Consume("is"))
      /\ Beside(Named("package"), Consume("is"))
      /\ Beside(Named("architecture"), Consume("of"))
  BY DEF Consume, Named
<1>4. Beside(Consume("of"), Do("name"))
  BY DEF Consume, Do
<1> QED
  BY <1>1, <1>2, <1>3, <1>4

(* A script of a design unit: its name is second, and it ends clean.       *)
UnitLinked(script) ==
  /\ Linked(script)
  /\ Keeps(script[Len(script)])
  /\ ~ Clean(script[1])

LEMMA EntityLinked == UnitLinked(Entity)
PROOF
<1> DEFINE s == Entity
<1>1. /\ \A x \in Simple : Do(x) \in Tasks
      /\ \A k \in Kinds : Consume(k) \in Tasks /\ Optional(k, <<>>) \in Tasks
      /\ Optional("begin", <<Many("entity_statement_part", "none")>>) \in FreeCalls
      /\ \A k \in UnitKeywords : Named(k) \in Tasks
      /\ \A t \in States \ {UnitsState}, p \in Parts : Many(t, p) \in FreeCalls
      /\ FreeCalls \subseteq Tasks
  BY EachIsACall, FreeCallsAre DEF Tasks, Thens, FreeCalls
<1>2. /\ s \in Seq(Tasks) /\ s # <<>> /\ Len(s) = 10
      /\ s[1] = Consume("entity")
      /\ s[2] = Named("entity")
      /\ s[3] = Consume("is")
      /\ s[4] = Many("declarative_part_begin_end", "entity")
      /\ s[5] = Optional("begin", <<Many("entity_statement_part", "none")>>)
      /\ s[6] = Consume("end")
      /\ s[7] = Optional("entity", <<>>)
      /\ s[8] = Do("closing_label")
      /\ s[9] = Consume("semicolon")
      /\ s[10] = Do("unit_end")
  BY FixedScripts, OthersAreCalls, CallsAreTasks DEF Entity
<1> HIDE DEF s
<1> USE DEF Simple, Kinds, UnitKeywords, States, DeclarativeParts, UnitsState, Parts
<1>3. \A i \in 1 .. 10 : s[i].do # "scan" /\ (s[i].do = "unit_name" => i = 2)
  BY <1>1, <1>2, KeepingCalls
<1>4. Beside(s[1], s[2])
  BY <1>1, <1>2, KeepingCalls, BesideEachOther
<1>5. Beside(s[2], s[3])
  BY <1>1, <1>2, KeepingCalls, BesideEachOther
<1>6. Beside(s[3], s[4])
  BY <1>1, <1>2, KeepingCalls, BesideEachOther
<1>7. Beside(s[4], s[5])
  BY <1>1, <1>2, KeepingCalls, BesideEachOther
<1>8. Beside(s[5], s[6])
  BY <1>1, <1>2, KeepingCalls, BesideEachOther
<1>9. Beside(s[6], s[7])
  BY <1>1, <1>2, KeepingCalls, BesideEachOther
<1>10. Beside(s[7], s[8])
  BY <1>1, <1>2, KeepingCalls, BesideEachOther
<1>11. Beside(s[8], s[9])
  BY <1>1, <1>2, KeepingCalls, BesideEachOther
<1>12. Beside(s[9], s[10])
  BY <1>1, <1>2, KeepingCalls, BesideEachOther
<1>13. AllBeside(s)
  <2> SUFFICES ASSUME NEW i \in 1 .. 9 PROVE Beside(s[i], s[i + 1])
    BY <1>2 DEF AllBeside
  <2>1. \/ i = 1 \/ i = 2 \/ i = 3 \/ i = 4 \/ i = 5 \/ i = 6 \/ i = 7
        \/ i = 8 \/ i = 9
    OBVIOUS
  <2> QED
    BY <2>1, <1>4, <1>5, <1>6, <1>7, <1>8, <1>9, <1>10, <1>11, <1>12
<1>14. ~ Needs(s[10]) /\ Keeps(s[10]) /\ ~ Clean(s[1])
  BY <1>2, KeepingCalls
<1>15. UnitLinked(s)
  BY <1>2, <1>3, <1>13, <1>14 DEF UnitLinked, Linked
<1> QED
  BY <1>15 DEF s

LEMMA ArchitectureLinked == UnitLinked(Architecture)
PROOF
<1> DEFINE s == Architecture
<1>1. /\ \A x \in Simple : Do(x) \in Tasks
      /\ \A k \in Kinds : Consume(k) \in Tasks /\ Optional(k, <<>>) \in Tasks
      /\ Optional("begin", <<Many("entity_statement_part", "none")>>) \in FreeCalls
      /\ \A k \in UnitKeywords : Named(k) \in Tasks
      /\ \A t \in States \ {UnitsState}, p \in Parts : Many(t, p) \in FreeCalls
      /\ FreeCalls \subseteq Tasks
  BY EachIsACall, FreeCallsAre DEF Tasks, Thens, FreeCalls
<1>2. /\ s \in Seq(Tasks) /\ s # <<>> /\ Len(s) = 14
      /\ s[1] = Consume("architecture")
      /\ s[2] = Named("architecture")
      /\ s[3] = Consume("of")
      /\ s[4] = Do("name")
      /\ s[5] = Do("entity_named")
      /\ s[6] = Consume("is")
      /\ s[7] = Many("declarative_part_begin", "block")
      /\ s[8] = Consume("begin")
      /\ s[9] = Many("concurrent_statements", "none")
      /\ s[10] = Consume("end")
      /\ s[11] = Optional("architecture", <<>>)
      /\ s[12] = Do("closing_label")
      /\ s[13] = Consume("semicolon")
      /\ s[14] = Do("unit_end")
  BY FixedScripts, OthersAreCalls, CallsAreTasks DEF Architecture
<1> HIDE DEF s
<1> USE DEF Simple, Kinds, UnitKeywords, States, DeclarativeParts, UnitsState, Parts
<1>3. \A i \in 1 .. 14 : s[i].do # "scan" /\ (s[i].do = "unit_name" => i = 2)
  BY <1>1, <1>2, KeepingCalls
<1>4. Beside(s[1], s[2])
  BY <1>1, <1>2, KeepingCalls, BesideEachOther
<1>5. Beside(s[2], s[3])
  BY <1>1, <1>2, KeepingCalls, BesideEachOther
<1>6. Beside(s[3], s[4])
  BY <1>1, <1>2, KeepingCalls, BesideEachOther
<1>7. Beside(s[4], s[5])
  BY <1>1, <1>2, KeepingCalls, BesideEachOther
<1>8. Beside(s[5], s[6])
  BY <1>1, <1>2, KeepingCalls, BesideEachOther
<1>9. Beside(s[6], s[7])
  BY <1>1, <1>2, KeepingCalls, BesideEachOther
<1>10. Beside(s[7], s[8])
  BY <1>1, <1>2, KeepingCalls, BesideEachOther
<1>11. Beside(s[8], s[9])
  BY <1>1, <1>2, KeepingCalls, BesideEachOther
<1>12. Beside(s[9], s[10])
  BY <1>1, <1>2, KeepingCalls, BesideEachOther
<1>13. Beside(s[10], s[11])
  BY <1>1, <1>2, KeepingCalls, BesideEachOther
<1>14. Beside(s[11], s[12])
  BY <1>1, <1>2, KeepingCalls, BesideEachOther
<1>15. Beside(s[12], s[13])
  BY <1>1, <1>2, KeepingCalls, BesideEachOther
<1>16. Beside(s[13], s[14])
  BY <1>1, <1>2, KeepingCalls, BesideEachOther
<1>17. AllBeside(s)
  <2> SUFFICES ASSUME NEW i \in 1 .. 13 PROVE Beside(s[i], s[i + 1])
    BY <1>2 DEF AllBeside
  <2>1. \/ i = 1 \/ i = 2 \/ i = 3 \/ i = 4 \/ i = 5 \/ i = 6 \/ i = 7
        \/ i = 8 \/ i = 9 \/ i = 10 \/ i = 11 \/ i = 12 \/ i = 13
    OBVIOUS
  <2> QED
    BY <2>1, <1>4, <1>5, <1>6, <1>7, <1>8, <1>9, <1>10, <1>11, <1>12, <1>13,
       <1>14, <1>15, <1>16
<1>18. ~ Needs(s[14]) /\ Keeps(s[14]) /\ ~ Clean(s[1])
  BY <1>2, KeepingCalls
<1>19. UnitLinked(s)
  BY <1>2, <1>3, <1>17, <1>18 DEF UnitLinked, Linked
<1> QED
  BY <1>19 DEF s

LEMMA PackageLinked == UnitLinked(Package)
PROOF
<1> DEFINE s == Package
<1>1. /\ \A x \in Simple : Do(x) \in Tasks
      /\ \A k \in Kinds : Consume(k) \in Tasks /\ Optional(k, <<>>) \in Tasks
      /\ Optional("begin", <<Many("entity_statement_part", "none")>>) \in FreeCalls
      /\ \A k \in UnitKeywords : Named(k) \in Tasks
      /\ \A t \in States \ {UnitsState}, p \in Parts : Many(t, p) \in FreeCalls
      /\ FreeCalls \subseteq Tasks
  BY EachIsACall, FreeCallsAre DEF Tasks, Thens, FreeCalls
<1>2. /\ s \in Seq(Tasks) /\ s # <<>> /\ Len(s) = 8
      /\ s[1] = Consume("package")
      /\ s[2] = Named("package")
      /\ s[3] = Consume("is")
      /\ s[4] = Many("declarative_part_end", "package")
      /\ s[5] = Consume("end")
      /\ s[6] = Optional("package", <<>>)
      /\ s[7] = Do("closing_label")
      /\ s[8] = Do("package_end")
  BY FixedScripts, OthersAreCalls, CallsAreTasks DEF Package
<1> HIDE DEF s
<1> USE DEF Simple, Kinds, UnitKeywords, States, DeclarativeParts, UnitsState, Parts
<1>3. \A i \in 1 .. 8 : s[i].do # "scan" /\ (s[i].do = "unit_name" => i = 2)
  BY <1>1, <1>2, KeepingCalls
<1>4. Beside(s[1], s[2])
  BY <1>1, <1>2, KeepingCalls, BesideEachOther
<1>5. Beside(s[2], s[3])
  BY <1>1, <1>2, KeepingCalls, BesideEachOther
<1>6. Beside(s[3], s[4])
  BY <1>1, <1>2, KeepingCalls, BesideEachOther
<1>7. Beside(s[4], s[5])
  BY <1>1, <1>2, KeepingCalls, BesideEachOther
<1>8. Beside(s[5], s[6])
  BY <1>1, <1>2, KeepingCalls, BesideEachOther
<1>9. Beside(s[6], s[7])
  BY <1>1, <1>2, KeepingCalls, BesideEachOther
<1>10. Beside(s[7], s[8])
  BY <1>1, <1>2, KeepingCalls, BesideEachOther
<1>11. AllBeside(s)
  <2> SUFFICES ASSUME NEW i \in 1 .. 7 PROVE Beside(s[i], s[i + 1])
    BY <1>2 DEF AllBeside
  <2>1. i = 1 \/ i = 2 \/ i = 3 \/ i = 4 \/ i = 5 \/ i = 6 \/ i = 7
    OBVIOUS
  <2> QED
    BY <2>1, <1>4, <1>5, <1>6, <1>7, <1>8, <1>9, <1>10
<1>12. ~ Needs(s[8]) /\ Keeps(s[8]) /\ ~ Clean(s[1])
  BY <1>2, KeepingCalls
<1>13. UnitLinked(s)
  BY <1>2, <1>3, <1>11, <1>12 DEF UnitLinked, Linked
<1> QED
  BY <1>13 DEF s

(* The other scripts: they begin with nothing that is clean.               *)
Asked(script) == Linked(script) /\ Nameless(script) /\ ~ Clean(script[1])

LEMMA FreeAsked == ASSUME NEW s \in Seq(FreeCalls), s # <<>> PROVE Asked(s)
PROOF
<1>1. Linked(s) /\ Nameless(s)
  BY FreeLinks DEF Nameless
<1>2. Len(s) \in Nat /\ Len(s) # 0
  BY EmptySeq, LenProperties
<1>3. 1 \in 1 .. Len(s)
  BY <1>2
<1>4. s[1] \in FreeCalls
  BY <1>3, ElementOfSeq
<1> QED
  BY <1>1, <1>4, KeepingCalls DEF Asked

LEMMA OneIsAsked == ASSUME NEW t \in FreeCalls PROVE Asked(<<t>>)
PROOF
<1>1. <<t>> \in Seq(FreeCalls) /\ <<t>> # <<>>
  OBVIOUS
<1> QED
  BY <1>1, FreeAsked, Zenon

LEMMA FixedAsked ==
  /\ Asked(LibraryClause) /\ LibraryClause[Len(LibraryClause)] = Consume("semicolon")
  /\ Asked(VariableDeclaration)
  /\ Asked(RangeConstraint)
  /\ Asked(UpTo)
  /\ Asked(<<Consume("tick"), Do("attribute"), Do("suffix")>>)
  /\ Asked(<<Consume("null"), Consume("semicolon")>>)
  /\ Asked(<<Do("name"), Do("call_end")>>)
  /\ Asked(<<Do("name"), Do("constraint")>>)
  /\ Asked(<<Do("name"), Do("name"), Do("constraint")>>)
  /\ Asked(<<Do("expression"), Do("range_end")>>)
  /\ Asked(<<Consume("begin"), Do("generate_body")>>)
  /\ Asked(<<Many("declarative_part_begin", "block"), Consume("begin"),
             Do("generate_body")>>)
  /\ Asked(<<Many("concurrent_statements", "none")>>)
PROOF
<1>1. /\ \A x \in FreeOnes : Do(x) \in FreeCalls
      /\ \A k \in Kinds \ {"of"} : Consume(k) \in FreeCalls
      /\ Many("declarative_part_begin", "block") \in FreeCalls
      /\ Many("concurrent_statements", "none") \in FreeCalls
  BY FreeCallsAre DEF States, DeclarativeParts, Parts, UnitsState
<1> USE <1>1 DEF FreeOnes, Simple, Kinds
<1>2. /\ LibraryClause \in Seq(FreeCalls) /\ LibraryClause # <<>>
      /\ LibraryClause[Len(LibraryClause)] = Consume("semicolon")
  BY DEF LibraryClause
<1>3. VariableDeclaration \in Seq(FreeCalls) /\ VariableDeclaration # <<>>
  BY DEF VariableDeclaration
<1>4. RangeConstraint \in Seq(FreeCalls) /\ RangeConstraint # <<>>
  BY DEF RangeConstraint
<1>5. UpTo \in Seq(FreeCalls) /\ UpTo # <<>>
  BY DEF UpTo
<1>6. /\ <<Consume("tick"), Do("attribute"), Do("suffix")>> \in Seq(FreeCalls)
      /\ <<Consume("tick"), Do("attribute"), Do("suffix")>> # <<>>
  OBVIOUS
<1>7. /\ <<Consume("null"), Consume("semicolon")>> \in Seq(FreeCalls)
      /\ <<Consume("null"), Consume("semicolon")>> # <<>>
  OBVIOUS
<1>8. /\ <<Do("name"), Do("call_end")>> \in Seq(FreeCalls)
      /\ <<Do("name"), Do("call_end")>> # <<>>
  OBVIOUS
<1>9. /\ <<Do("name"), Do("constraint")>> \in Seq(FreeCalls)
      /\ <<Do("name"), Do("constraint")>> # <<>>
  OBVIOUS
<1>10. /\ <<Do("name"), Do("name"), Do("constraint")>> \in Seq(FreeCalls)
       /\ <<Do("name"), Do("name"), Do("constraint")>> # <<>>
  OBVIOUS
<1>11. /\ <<Do("expression"), Do("range_end")>> \in Seq(FreeCalls)
       /\ <<Do("expression"), Do("range_end")>> # <<>>
  OBVIOUS
<1>12. /\ <<Consume("begin"), Do("generate_body")>> \in Seq(FreeCalls)
       /\ <<Consume("begin"), Do("generate_body")>> # <<>>
  OBVIOUS
<1>13. /\ <<Many("declarative_part_begin", "block"), Consume("begin"),
            Do("generate_body")>> \in Seq(FreeCalls)
       /\ <<Many("declarative_part_begin", "block"), Consume("begin"),
            Do("generate_body")>> # <<>>
  OBVIOUS
<1>14. /\ <<Many("concurrent_statements", "none")>> \in Seq(FreeCalls)
       /\ <<Many("concurrent_statements", "none")>> # <<>>
  OBVIOUS
<1> QED
  BY <1>2, <1>3, <1>4, <1>5, <1>6, <1>7, <1>8, <1>9, <1>10, <1>11, <1>12, <1>13,
     <1>14, FreeAsked, Zenon

LEMMA AskedConcat ==
  ASSUME NEW s, Asked(s), NEW t, Linked(t), Nameless(t),
         Clean(t[1]) => Keeps(s[Len(s)])
  PROVE  Asked(s \o t) /\ (s \o t)[Len(s \o t)] = t[Len(t)]
PROOF
BY LinkedConcat DEF Asked

LEMMA InstantiationAsked == Asked(Instantiation)
PROOF
<1> DEFINE s == Instantiation
           optional == Optional("entity", <<>>)
<1>1. /\ Do("inst_label") \in FreeCalls /\ Do("name") \in FreeCalls
      /\ Consume("semicolon") \in FreeCalls /\ optional \in Tasks
      /\ FreeCalls \subseteq Tasks
  BY EachIsACall, FreeCallsAre DEF FreeOnes, Simple, Kinds, Thens, Tasks, FreeCalls
<1>2. /\ s \in Seq(Tasks) /\ s # <<>> /\ Len(s) = 4
      /\ s[1] = Do("inst_label") /\ s[2] = optional /\ s[3] = Do("name")
      /\ s[4] = Consume("semicolon")
  BY FixedScripts, OthersAreCalls, CallsAreTasks DEF Instantiation
<1>3. optional.do = "optional" /\ ~ Needs(optional) /\ Keeps(Do("inst_label"))
  BY KeepingCalls DEF Kinds
<1> HIDE DEF s, optional
<1>4. \A i \in 1 .. 4 : s[i].do # "scan" /\ s[i].do # "unit_name"
  BY <1>1, <1>2, <1>3, KeepingCalls
<1>5. Beside(s[1], s[2]) /\ Beside(s[2], s[3]) /\ Beside(s[3], s[4])
  BY <1>1, <1>2, <1>3, KeepingCalls, BesideEachOther
<1>6. AllBeside(s)
  <2> SUFFICES ASSUME NEW i \in 1 .. 3 PROVE Beside(s[i], s[i + 1])
    BY <1>2 DEF AllBeside
  <2>1. i = 1 \/ i = 2 \/ i = 3
    OBVIOUS
  <2> QED
    BY <1>5, <2>1
<1>7. ~ Needs(s[4]) /\ ~ Clean(s[1])
  BY <1>1, <1>2, KeepingCalls
<1>8. Asked(s)
  BY <1>2, <1>4, <1>6, <1>7 DEF Asked, Linked, Nameless
<1> QED
  BY <1>8 DEF s

(* With a label or without one, before and after.                          *)
LEMMA LabelledAsked ==
  ASSUME NEW labelled \in BOOLEAN, NEW s, Asked(s), Nameless(s)
  PROVE  Asked(Label(labelled) \o s)
         /\ (Label(labelled) \o s)[Len(Label(labelled) \o s)] = s[Len(s)]
PROOF
<1>1. s \in Seq(Tasks) /\ Linked(s) /\ Nameless(s) /\ ~ Clean(s[1])
  BY DEF Asked, Linked
<1>2. CASE labelled = TRUE
  <2> DEFINE l == <<Consume("identifier"), Consume("colon")>>
  <2>1. Label(labelled) = l
    BY <1>2 DEF Label
  <2>2. l \in Seq(FreeCalls) /\ l # <<>>
    BY FreeCallsAre DEF Kinds
  <2> HIDE DEF l
  <2>3. Asked(l)
    BY <2>2, FreeAsked
  <2>4. Asked(l \o s) /\ (l \o s)[Len(l \o s)] = s[Len(s)]
    BY <1>1, <2>3, AskedConcat
  <2> QED
    BY <2>1, <2>4
<1>3. CASE labelled = FALSE
  <2>1. Label(labelled) = <<>>
    BY <1>3 DEF Label
  <2>2. Label(labelled) \o s = s
    BY <1>1, <2>1, ConcatEmptySeq
  <2> QED
    BY <2>2
<1> QED
  BY <1>2, <1>3

LEMMA ClosingAsked ==
  ASSUME NEW labelled \in BOOLEAN, NEW s, Asked(s), Keeps(s[Len(s)])
  PROVE  Asked(s \o ClosingLabel(labelled) \o <<Consume("semicolon")>>)
PROOF
<1> DEFINE c == <<Do("closing_label")>>
           d == <<Consume("semicolon")>>
<1>1. /\ Linked(c) /\ Nameless(c)
      /\ c[1] = Do("closing_label") /\ c[Len(c)] = Do("closing_label")
  <2>1. Do("closing_label") \in Tasks
    BY EachIsACall DEF Simple, Tasks
  <2>2. ~ Needs(Do("closing_label")) /\ Do("closing_label").do # "scan"
    BY KeepingCalls DEF Simple
  <2> QED
    BY <2>1, <2>2, LinkedOne
<1>2. Linked(d) /\ Nameless(d) /\ d[1] = Consume("semicolon") /\ ~ Clean(d[1])
  <2>1. Consume("semicolon") \in Tasks
    BY EachIsACall DEF Kinds, Tasks
  <2>2. /\ ~ Needs(Consume("semicolon")) /\ Consume("semicolon").do # "scan"
        /\ ~ Clean(Consume("semicolon"))
    BY KeepingCalls DEF Kinds
  <2> QED
    BY <2>1, <2>2, LinkedOne
<1>3. s \in Seq(Tasks)
  BY DEF Asked, Linked
<1> HIDE DEF c, d
<1>4. CASE labelled = TRUE
  <2>1. ClosingLabel(labelled) = c
    BY <1>4 DEF ClosingLabel, c
  <2>2. Asked(s \o c)
    BY <1>1, AskedConcat
  <2>3. Asked((s \o c) \o d)
    BY <1>2, <2>2, AskedConcat
  <2> QED
    BY <2>1, <2>3 DEF d
<1>5. CASE labelled = FALSE
  <2>1. ClosingLabel(labelled) = <<>>
    BY <1>5 DEF ClosingLabel
  <2>2. s \o ClosingLabel(labelled) = s
    BY <1>3, <2>1, ConcatEmptySeq
  <2>3. Asked(s \o d)
    BY <1>2, AskedConcat
  <2> QED
    BY <2>2, <2>3 DEF d
<1> QED
  BY <1>4, <1>5

LEMMA ProcessBodyAsked ==
  LET s == <<Consume("process"), Optional("is", <<>>),
             Many("declarative_part_begin", "process"), Consume("begin"),
             Many("sequential_statements", "none"), Consume("end"), Consume("process")>>
  IN  Asked(s) /\ Nameless(s) /\ s[Len(s)] = Consume("process")
PROOF
<1> DEFINE s == <<Consume("process"), Optional("is", <<>>),
                  Many("declarative_part_begin", "process"), Consume("begin"),
                  Many("sequential_statements", "none"), Consume("end"),
                  Consume("process")>>
<1>1. /\ \A k \in Kinds \ {"of"} : Consume(k) \in FreeCalls
      /\ \A t \in States \ {UnitsState}, p \in Parts : Many(t, p) \in FreeCalls
      /\ Optional("is", <<>>) \in Tasks
      /\ FreeCalls \subseteq Tasks
  BY EachIsACall, FreeCallsAre DEF Tasks, Thens, FreeCalls, Kinds
<1>2. /\ Consume("process") \in FreeCalls /\ Consume("begin") \in FreeCalls
      /\ Consume("end") \in FreeCalls
      /\ Many("declarative_part_begin", "process") \in FreeCalls
      /\ Many("sequential_statements", "none") \in FreeCalls
      /\ Keeps(Consume("process"))
      /\ ~ Needs(Optional("is", <<>>)) /\ Optional("is", <<>>).do = "optional"
  BY <1>1, KeepingCalls DEF Kinds, States, DeclarativeParts, Parts, UnitsState
<1>3. /\ s \in Seq(Tasks) /\ s # <<>> /\ Len(s) = 7
      /\ s[1] = Consume("process") /\ s[2] = Optional("is", <<>>)
      /\ s[3] = Many("declarative_part_begin", "process") /\ s[4] = Consume("begin")
      /\ s[5] = Many("sequential_statements", "none") /\ s[6] = Consume("end")
      /\ s[7] = Consume("process")
  BY <1>1, <1>2
<1> HIDE DEF s
<1>4. \A i \in 1 .. 7 : s[i].do # "scan" /\ s[i].do # "unit_name" /\ ~ Needs(s[i])
  BY <1>2, <1>3, KeepingCalls
<1>5. \A i \in 1 .. 6 : Clean(s[i + 1]) => i = 1
  BY <1>2, <1>3, KeepingCalls
<1>6. AllBeside(s)
  <2> SUFFICES ASSUME NEW i \in 1 .. 6 PROVE Beside(s[i], s[i + 1])
    BY <1>3 DEF AllBeside
  <2>1. i \in 1 .. 7 /\ i + 1 \in 1 .. 7
    OBVIOUS
  <2>2. Clean(s[i + 1]) => Keeps(s[i])
    BY <1>2, <1>3, <1>5
  <2> QED
    BY <1>4, <2>1, <2>2, BesideEachOther
<1>7. ~ Clean(s[1]) /\ ~ Needs(s[7])
  BY <1>2, <1>3, KeepingCalls
<1>8. Asked(s) /\ Nameless(s) /\ s[Len(s)] = Consume("process")
  BY <1>3, <1>4, <1>6, <1>7 DEF Asked, Linked, Nameless
<1> QED
  BY <1>8 DEF s

LEMMA LabelsAsked ==
  ASSUME NEW labelled \in BOOLEAN
  PROVE  /\ Asked(ProcedureCall(labelled))
         /\ Asked(Process(labelled))
         /\ Asked(Loop(labelled))
         /\ Asked(If(labelled))
         /\ Asked(IfGenerate(labelled))
         /\ Asked(Append(Label(labelled), Statement(labelled)))
PROOF
<1>1. /\ Consume("semicolon") \in FreeCalls /\ Consume("loop") \in FreeCalls
      /\ Consume("end") \in FreeCalls /\ Do("name") \in FreeCalls
      /\ Many("sequential_statements", "none") \in FreeCalls
      /\ Statement(labelled) \in FreeCalls
      /\ Consume("if") \in FreeCalls /\ Consume("then") \in FreeCalls
      /\ Consume("generate") \in FreeCalls /\ Do("expression") \in FreeCalls
      /\ Do("inst_label") \in FreeCalls /\ Do("generate") \in FreeCalls
  BY FreeCallsAre DEF Kinds, FreeOnes, Simple, States, Parts, UnitsState
<1>2. /\ Keeps(Consume("loop")) /\ Keeps(Consume("process"))
      /\ Keeps(Consume("if")) /\ Keeps(Consume("generate"))
  BY KeepingCalls DEF Kinds
<1>3. Asked(ProcedureCall(labelled))
  <2> DEFINE s == <<Do("name"), Consume("semicolon")>>
  <2>1. s \in Seq(FreeCalls) /\ s # <<>>
    BY <1>1
  <2>2. ProcedureCall(labelled) = Label(labelled) \o s
    BY DEF ProcedureCall
  <2> HIDE DEF s
  <2>3. Asked(s) /\ Nameless(s)
    BY <2>1, FreeAsked DEF Asked
  <2> QED
    BY <2>2, <2>3, LabelledAsked
<1>4. Asked(Process(labelled))
  <2> DEFINE s == <<Consume("process"), Optional("is", <<>>),
                    Many("declarative_part_begin", "process"), Consume("begin"),
                    Many("sequential_statements", "none"), Consume("end"),
                    Consume("process")>>
             l == Label(labelled) \o s
  <2>1. Asked(s) /\ Nameless(s) /\ s[Len(s)] = Consume("process")
    BY ProcessBodyAsked
  <2>2. Process(labelled) = l \o ClosingLabel(labelled) \o <<Consume("semicolon")>>
    BY DEF Process
  <2> HIDE DEF s
  <2>3. Asked(l) /\ l[Len(l)] = Consume("process")
    BY <2>1, LabelledAsked
  <2> HIDE DEF l
  <2>4. Keeps(l[Len(l)])
    BY <1>2, <2>3
  <2> QED
    BY <2>2, <2>3, <2>4, ClosingAsked
<1>5. Asked(Loop(labelled))
  <2> DEFINE s == <<Consume("loop"), Many("sequential_statements", "none"),
                    Consume("end"), Consume("loop")>>
  <2>1. s \in Seq(FreeCalls) /\ s # <<>> /\ s[Len(s)] = Consume("loop")
    BY <1>1
  <2>2. Loop(labelled) = s \o ClosingLabel(labelled) \o <<Consume("semicolon")>>
    BY DEF Loop
  <2> HIDE DEF s
  <2>3. Asked(s) /\ Keeps(s[Len(s)])
    BY <1>2, <2>1, FreeAsked
  <2> QED
    BY <2>2, <2>3, ClosingAsked
<1>6. Asked(Append(Label(labelled), Statement(labelled)))
  <2> DEFINE s == <<Statement(labelled)>>
  <2>1. Asked(s) /\ Nameless(s)
    BY <1>1, OneIsAsked DEF Asked
  <2>2. Append(Label(labelled), Statement(labelled)) = Label(labelled) \o s
    <3>1. Label(labelled) \in Seq(Calls)
      BY LabelledScripts, OthersAreCalls
    <3>2. Statement(labelled) \in Calls
      BY EachIsACall
    <3> QED
      BY <3>1, <3>2, AppendIsConcat
  <2> HIDE DEF s
  <2>3. Asked(Label(labelled) \o s)
    BY <2>1, LabelledAsked
  <2> QED
    BY <2>2, <2>3
<1>7. Asked(If(labelled))
  <2> DEFINE s == <<Consume("if"), Do("expression"), Consume("then"),
                    Many("sequential_statements", "none"), Consume("end"),
                    Consume("if")>>
  <2>1. s \in Seq(FreeCalls) /\ s # <<>> /\ s[Len(s)] = Consume("if")
    BY <1>1
  <2>2. If(labelled) = s \o ClosingLabel(labelled) \o <<Consume("semicolon")>>
    BY DEF If
  <2> HIDE DEF s
  <2>3. Asked(s) /\ Keeps(s[Len(s)])
    BY <1>2, <2>1, FreeAsked
  <2> QED
    BY <2>2, <2>3, ClosingAsked
<1>8. Asked(IfGenerate(labelled))
  <2> DEFINE s == <<Do("inst_label"), Consume("if"), Do("expression"),
                    Consume("generate"), Do("generate"), Consume("end"),
                    Consume("generate")>>
  <2>1. s \in Seq(FreeCalls) /\ s # <<>> /\ s[Len(s)] = Consume("generate")
    BY <1>1
  <2>2. IfGenerate(labelled)
          = s \o ClosingLabel(labelled) \o <<Consume("semicolon")>>
    BY DEF IfGenerate
  <2> HIDE DEF s
  <2>3. Asked(s) /\ Keeps(s[Len(s)])
    BY <1>2, <2>1, FreeAsked
  <2> QED
    BY <2>2, <2>3, ClosingAsked
<1> QED
  BY <1>3, <1>4, <1>5, <1>6, <1>7, <1>8

--------------------------------------------------------------------------------
(* What a step that does not diagnose anything leaves.                     *)

LEMMA AtTheCall ==
  ASSUME ParserInv
  PROVE  /\ todo \in Seq(Tasks) /\ Whole
         /\ current_token \in Nat /\ errors \in BOOLEAN
         /\ unit \in [kind : UnitKeywords, name : Token] /\ units \in Seq(Units)
         /\ todo # <<>> => Task \in Tasks /\ Task = todo[1]
PROOF
<1>1. todo \in Seq(Tasks) /\ Whole
  BY DEF ParserInv, CallsInv
<1>2. current_token \in Nat
  BY <1>1, RingIndexes, LexerAssumption DEF Whole, Token
<1> QED
  BY <1>1, <1>2, TheTask DEF ParserInv, Counts, Made

LEMMA UnitsStayRecorded ==
  ASSUME IsRecorded(unit),
         \A i \in 1 .. Len(units) : units[i].name # 0 /\ IsRecorded(units[i]),
         UNCHANGED <<file, units>>, unit' = unit \/ unit'.name = 0
  PROVE  UnitsRecorded' /\ IsRecorded(unit)'
PROOF
<1>1. IsRecorded(unit)'
  BY DEF IsRecorded, IsNamed, NoLibraryBefore, Kind
<1>2. \A i \in 1 .. Len(units') : units'[i].name # 0 /\ IsRecorded(units[i])'
  BY DEF IsRecorded, IsNamed, NoLibraryBefore, Kind
<1> QED
  BY <1>1, <1>2 DEF UnitsRecorded

(* Outside the name of an architecture and its entity, the unit that is    *)
(* being parsed is recorded or has no name.                                *)
LEMMA RecordedNow ==
  ASSUME ParserInv, UnitsInv, ~ errors, todo # <<>>, Task.do \notin {"consume", "name"}
  PROVE  /\ IsRecorded(unit)
         /\ \A i \in 1 .. Len(units) : units[i].name # 0 /\ IsRecorded(units[i])
PROOF
<1>1. Task = todo[1]
  BY AtTheCall
<1>2. ~ EntityNext
  BY <1>1 DEF EntityNext, IsConsume
<1> QED
  BY <1>2 DEF UnitsInv, UnitsRecorded

LEMMA KeepsUnits ==
  ASSUME ParserInv, UnitsInv, ~ errors, todo # <<>>, Task.do \notin {"consume", "name"},
         UNCHANGED <<file, unit, units>>
  PROVE  UnitsRecorded'
PROOF
BY RecordedNow, UnitsStayRecorded

LEMMA AsksOn ==
  ASSUME ParserInv, UnitsInv, todo # <<>>, Task.do # "consume",
         NEW script, Asked(script), Then(script),
         Keeps(Task) => Keeps(script[Len(script)]),
         ~ errors' => UnitsRecorded'
  PROVE  UnitsInv'
PROOF
<1>1. todo \in Seq(Tasks) /\ Chained(todo)
  BY AtTheCall DEF UnitsInv
<1>2. Linked(script) /\ Nameless(script) /\ ~ Clean(script[1])
  BY DEF Asked
<1>3. /\ Chained(todo') /\ todo' # <<>> /\ todo'[1] = script[1]
      /\ script[1].do \notin {"scan", "unit_name"}
      /\ Len(todo') > 1 /\ todo'[2].do = "unit_name" =>
           Len(script) > 1 /\ script[2].do = "unit_name"
  BY <1>1, <1>2, Asks
<1>4. Len(script) \in Nat
  BY <1>2, LenProperties DEF Linked
<1>5. ~ (Len(script) > 1 /\ script[2].do = "unit_name")
  <2>1. Len(script) > 1 => 2 \in 1 .. Len(script)
    BY <1>4
  <2> QED
    BY <1>2, <2>1 DEF Nameless
<1>6. UnitBegins'
  BY <1>3, <1>5 DEF UnitBegins
<1>7. CleanNow' /\ ScansFirst'
  BY <1>2, <1>3 DEF CleanNow, ScansFirst
<1> QED
  BY <1>3, <1>6, <1>7 DEF UnitsInv

(* A script may begin with what is clean, or with a unit, where the token  *)
(* before the current one is no "library".                                 *)
LEMMA AsksClean ==
  ASSUME ParserInv, UnitsInv, todo # <<>>, Task.do # "consume",
         NEW script, Linked(script), Then(script),
         Keeps(Task) => Keeps(script[Len(script)]),
         ~ errors' => UnitsRecorded' /\ NoLibraryBefore(current_token)'
  PROVE  UnitsInv'
PROOF
<1>1. todo \in Seq(Tasks) /\ Chained(todo)
  BY AtTheCall DEF UnitsInv
<1>2. /\ Chained(todo') /\ todo' # <<>> /\ todo'[1] = script[1]
      /\ script[1].do \notin {"scan", "unit_name"}
  BY <1>1, Asks
<1>3. ScansFirst'
  BY <1>2 DEF ScansFirst
<1>4. ~ errors' => CleanNow' /\ UnitBegins'
  BY <1>2 DEF CleanNow, UnitBegins
<1> QED
  BY <1>2, <1>3, <1>4 DEF UnitsInv

LEMMA EndsOn ==
  ASSUME ParserInv, UnitsInv, todo # <<>>, Task.do # "consume", Then(<<>>),
         ~ errors' => UnitsRecorded',
         ~ errors' /\ Keeps(Task) => NoLibraryBefore(current_token)'
  PROVE  UnitsInv'
PROOF
<1>1. todo \in Seq(Tasks) /\ Chained(todo)
  BY AtTheCall DEF UnitsInv
<1>2. /\ Chained(todo')
      /\ todo' # <<>> => Beside(Task, todo'[1]) /\ todo'[1].do # "scan"
      /\ Len(todo') > 1 => todo'[2].do # "unit_name"
  BY <1>1, Ends
<1>3. todo' # <<>> => /\ todo'[1].do # "unit_name"
                      /\ Clean(todo'[1]) => Keeps(Task)
  BY <1>2 DEF Beside, IsConsume
<1>4. ~ errors' => CleanNow'
  BY <1>3 DEF CleanNow
<1>5. UnitBegins' /\ ScansFirst'
  BY <1>2, <1>3 DEF UnitBegins, ScansFirst
<1> QED
  BY <1>2, <1>4, <1>5 DEF UnitsInv

(* The calls that keep nothing clean and name nothing.                     *)
Busy == {"consume", "name", "optional", "scan", "context_clause", "design_unit", "unit_end",
         "package_end", "closing_label", "inst_label", "unit_name"}

LEMMA GoesOn ==
  ASSUME ParserInv, UnitsInv, todo # <<>>, Task.do \notin Busy,
         UNCHANGED <<file, unit, units>>, errors => errors',
         NEW script, Then(script), script = <<>> \/ Asked(script)
  PROVE  UnitsInv'
PROOF
<1>1. ~ Keeps(Task)
  BY DEF Keeps, Busy, IsOptional
<1>2. ~ errors' => UnitsRecorded'
  BY KeepsUnits DEF Busy
<1>3. Task.do # "consume"
  BY DEF Busy
<1>4. CASE script = <<>>
  BY <1>1, <1>2, <1>3, <1>4, EndsOn
<1>5. CASE Asked(script)
  BY <1>1, <1>2, <1>3, <1>5, AsksOn
<1> QED
  BY <1>4, <1>5

LEMMA SameGoesOn ==
  ASSUME ParserInv, UnitsInv, todo' = todo, errors => errors',
         ~ errors' => UNCHANGED <<file, unit, units>>,
         \/ UNCHANGED <<tokens_, current_one_>>
         \/ todo # <<>> /\ Task.do \notin Busy /\ (errors' \/ ~ Clean(Task))
  PROVE  UnitsInv'
PROOF
<1>1. todo # <<>> => Task = todo[1]
  BY AtTheCall
<1>2. Chained(todo')
  BY DEF UnitsInv
<1>3. CASE UNCHANGED <<tokens_, current_one_>>
  <2>1. current_token' = current_token
    BY <1>3 DEF current_token
  <2>2. ScansFirst'
    BY <2>1 DEF UnitsInv, ScansFirst
  <2>3. ASSUME ~ errors' PROVE CleanNow' /\ UnitBegins' /\ UnitsRecorded'
    <3>1. CleanNow /\ UnitBegins /\ UnitsRecorded /\ UNCHANGED <<file, unit, units>>
      BY <2>3 DEF UnitsInv
    <3>2. CleanNow' /\ UnitBegins'
      BY <2>1, <3>1 DEF CleanNow, UnitBegins, NoLibraryBefore, Kind
    <3>3. UnitsRecorded'
      BY <2>1, <3>1
         DEF UnitsRecorded, EntityNext, IsRecorded, IsNamed, NoLibraryBefore, Kind
    <3> QED
      BY <3>2, <3>3
  <2> QED
    BY <1>2, <2>2, <2>3 DEF UnitsInv
<1>4. CASE todo # <<>> /\ Task.do \notin Busy /\ (errors' \/ ~ Clean(Task))
  <2>1. Task.do \notin {"scan", "unit_name", "consume", "name"}
    BY <1>4 DEF Busy
  <2>2. ScansFirst'
    BY <1>1, <1>4, <2>1 DEF ScansFirst
  <2>3. ASSUME ~ errors' PROVE CleanNow' /\ UnitBegins' /\ UnitsRecorded'
    <3>1. CleanNow'
      BY <1>1, <1>4, <2>3 DEF CleanNow
    <3>2. Len(todo) > 1 => todo[2].do # "unit_name"
      <4> SUFFICES ASSUME Len(todo) > 1, todo[2].do = "unit_name" PROVE FALSE
        OBVIOUS
      <4>1. 1 \in 1 .. Len(todo) - 1 /\ 1 + 1 = 2
        BY AtTheCall, LenProperties
      <4>2. Beside(todo[1], todo[2])
        BY <4>1 DEF UnitsInv, Chained, AllBeside
      <4>3. todo[1].do = "consume"
        BY <4>2 DEF Beside, IsConsume
      <4> QED
        BY <1>1, <1>4, <2>1, <4>3
    <3>3. UnitBegins'
      BY <1>1, <1>4, <2>1, <3>2 DEF UnitBegins
    <3>4. UnitsRecorded'
      BY <1>4, <2>1, <2>3, KeepsUnits
    <3> QED
      BY <3>1, <3>3, <3>4
  <2> QED
    BY <1>2, <2>2, <2>3 DEF UnitsInv
<1> QED
  BY <1>3, <1>4

--------------------------------------------------------------------------------
(* The steps.                                                              *)

LEMMA QuietEnds ==
  ASSUME ParserInv, UnitsInv,
         LibraryNames \/ NoDeclaration \/ NoSubtype \/ AttributeName
         \/ DropCheckpoint \/ NoRange
  PROVE  UnitsInv'
PROOF
<1>1. ASSUME todo # <<>>, Task.do \notin Busy, UNCHANGED <<file, unit, units>>,
             errors => errors', Then(<<>>)
      PROVE  UnitsInv'
  BY <1>1, GoesOn
<1> USE DEF Busy, Doing, context, made, Diagnosed
<1>2. CASE LibraryNames
  BY <1>1, <1>2 DEF LibraryNames
<1>3. CASE NoDeclaration
  BY <1>1, <1>3 DEF NoDeclaration
<1>4. CASE NoSubtype
  BY <1>1, <1>4 DEF NoSubtype
<1>5. CASE AttributeName
  BY <1>1, <1>5 DEF AttributeName
<1>6. CASE DropCheckpoint
  BY <1>1, <1>6 DEF DropCheckpoint
<1>7. CASE NoRange
  BY <1>1, <1>7 DEF NoRange
<1> QED
  BY <1>2, <1>3, <1>4, <1>5, <1>6, <1>7

LEMMA QuietAsks ==
  ASSUME ParserInv, UnitsInv,
         LibraryEnd \/ ObjectDeclaration \/ SubtypeIndication \/ Constraint \/ Suffix
         \/ Expression \/ ParseRange \/ RangeUpTo \/ RangeAgain
         \/ SequentialStatement \/ LabelledStatement \/ CallEnd
         \/ Generate \/ GenerateBody
  PROVE  UnitsInv'
PROOF
<1>1. ASSUME todo # <<>>, Task.do \notin Busy, UNCHANGED <<file, unit, units>>,
             errors => errors', NEW script, Then(script), script = <<>> \/ Asked(script)
      PROVE  UnitsInv'
  BY <1>1, GoesOn
<1>2. \A x \in FreeOnes : Do(x) \in FreeCalls
  BY FreeCallsAre
<1>3. Asked(<<Do("resync")>>) /\ Asked(<<Do("name")>>)
  BY <1>2, OneIsAsked DEF FreeOnes, Simple
<1>4. Asked(<<Consume("semicolon")>>)
  BY FreeCallsAre, OneIsAsked DEF Kinds
<1>5. CASE LibraryEnd
  <2>1. /\ todo # <<>> /\ Task.do = "library_end" /\ UNCHANGED <<file, unit, units, errors>>
        /\ Then(<<>>) \/ Then(<<Do("resync")>>)
    BY <1>5 DEF LibraryEnd, Doing, context, made
  <2> QED
    BY <1>1, <1>3, <2>1 DEF Busy
<1>6. CASE ObjectDeclaration
  <2>1. /\ todo # <<>> /\ Task.do = "declaration" /\ UNCHANGED <<file, unit, units>>
        /\ (errors => errors')
        /\ Then(VariableDeclaration)
    BY <1>6 DEF ObjectDeclaration, Doing, context, made, Diagnosed
  <2> QED
    BY <1>1, <2>1, FixedAsked DEF Busy
<1>7. CASE SubtypeIndication
  <2> DEFINE s == <<Do("name"), Do("constraint")>>
  <2>1. /\ todo # <<>> /\ Task.do = "subtype" /\ UNCHANGED <<file, unit, units, errors>>
        /\ Then((IF Ahead(1) = "identifier" THEN <<Do("name")>> ELSE <<>>) \o s)
    BY <1>7 DEF SubtypeIndication, Doing, context, made
  <2>2. /\ Do("name") \in Tasks /\ Do("constraint") \in Tasks
    BY EachIsACall DEF Simple, Tasks
  <2>3. <<>> \o s = s
    BY <2>2, ConcatEmptySeq
  <2>4. Asked(<<>> \o s)
    BY <2>3, FixedAsked
  <2>5. Asked(<<Do("name")>> \o s)
    <3>1. Linked(s) /\ Nameless(s) /\ ~ Clean(s[1])
      BY FixedAsked DEF Asked
    <3> HIDE DEF s
    <3> QED
      BY <1>3, <3>1, AskedConcat
  <2> HIDE DEF s
  <2>6. Then(<<>> \o s) \/ Then(<<Do("name")>> \o s)
    BY <2>1
  <2> QED
    BY <1>1, <2>1, <2>4, <2>5, <2>6 DEF Busy
<1>8. CASE Constraint
  <2>1. /\ todo # <<>> /\ Task.do = "constraint" /\ UNCHANGED <<file, unit, units, errors>>
        /\ Then(<<>>) \/ Then(RangeConstraint)
    BY <1>8 DEF Constraint, Doing, context, made
  <2> QED
    BY <1>1, <2>1, FixedAsked DEF Busy
<1>9. CASE Suffix
  <2>1. /\ todo # <<>> /\ Task.do = "suffix" /\ UNCHANGED <<file, unit, units, errors>>
        /\ Then(<<>>) \/ Then(<<Consume("tick"), Do("attribute"), Task>>)
    BY <1>9 DEF Suffix, Doing, context, made
  <2>2. Task = Do("suffix")
    <3>1. Task \in Tasks
      BY <2>1, AtTheCall
    <3> QED
      BY <2>1, <3>1 DEF Tasks, Calls, OpenCalls, Simple, Do
  <2> QED
    BY <1>1, <2>1, <2>2, FixedAsked DEF Busy
<1>10. CASE Expression
  <2>1. /\ todo # <<>> /\ Task.do = "expression" /\ UNCHANGED <<file, unit, units>>
        /\ (errors => errors')
        /\ Then(<<>>) \/ Then(<<Do("name")>>)
    BY <1>10 DEF Expression, Doing, context, made, Diagnosed
  <2> QED
    BY <1>1, <1>3, <2>1 DEF Busy
<1>11. CASE RangeUpTo \/ RangeAgain
  <2>1. /\ todo # <<>> /\ Task.do = "range_end" /\ UNCHANGED <<file, unit, units, errors>>
        /\ Then(UpTo) \/ Then(<<Do("name")>>)
    BY <1>11 DEF RangeUpTo, RangeAgain, Doing, context, made
  <2> QED
    BY <1>1, <1>3, <2>1, FixedAsked DEF Busy
<1>12. CASE SequentialStatement
  <2>1. /\ todo # <<>> /\ Task.do = "sequential" /\ UNCHANGED <<file, unit, units, errors>>
        /\ Then(Append(Label(HasLabel), Statement(HasLabel)))
    BY <1>12 DEF SequentialStatement, Doing, context, made
  <2>2. HasLabel \in BOOLEAN
    BY DEF HasLabel
  <2> QED
    BY <1>1, <2>1, <2>2, LabelsAsked DEF Busy
<1>13. CASE LabelledStatement
  <2>1. /\ todo # <<>> /\ Task.do = "statement" /\ UNCHANGED <<file, unit, units, errors>>
        /\ Then(StatementScript) /\ Current \in {"identifier", "loop", "null", "if"}
    BY <1>13 DEF LabelledStatement, Doing, context, made, BeginsElement, DeclarativeParts
  <2>2. Task.labelled \in BOOLEAN
    <3>1. Task \in Tasks
      BY <2>1, AtTheCall
    <3> QED
      BY <2>1, <3>1 DEF Tasks, Calls, OpenCalls, Simple
  <2>3. Asked(StatementScript)
    <3>1. Asked(Loop(Task.labelled)) /\ Asked(If(Task.labelled))
      BY <2>2, LabelsAsked
    <3> QED
      BY <2>1, <3>1, FixedAsked DEF StatementScript
  <2> QED
    BY <1>1, <2>1, <2>3 DEF Busy
<1>14. CASE CallEnd
  <2>1. /\ todo # <<>> /\ Task.do = "call_end" /\ UNCHANGED <<file, unit, units>>
        /\ (errors => errors')
        /\ Then(<<>>) \/ Then(<<Consume("semicolon")>>)
    BY <1>14 DEF CallEnd, Doing, context, made, Diagnosed
  <2> QED
    BY <1>1, <1>4, <2>1 DEF Busy
<1>15. CASE ParseRange
  <2>1. /\ todo # <<>> /\ Task.do = "range" /\ UNCHANGED <<file, unit, units, errors>>
        /\ Then(<<Do("expression"), Do("range_end")>>)
    BY <1>15 DEF ParseRange, Doing, context, made
  <2> QED
    BY <1>1, <2>1, FixedAsked DEF Busy
<1>16. CASE Generate \/ GenerateBody
  <2>1. /\ todo # <<>> /\ Task.do \in {"generate", "generate_body"}
        /\ UNCHANGED <<file, unit, units, errors>>
        /\ \/ Then(<<Many("declarative_part_begin", "block"), Consume("begin"),
                    Do("generate_body")>>)
           \/ Then(<<Consume("begin"), Do("generate_body")>>)
           \/ Then(<<Many("concurrent_statements", "none")>>)
           \/ Then(<<>>)
    BY <1>16 DEF Generate, GenerateBody, GenerateStatements, Doing, context, made
  <2> QED
    BY <1>1, <2>1, FixedAsked DEF Busy
<1> QED
  BY <1>5, <1>6, <1>7, <1>8, <1>9, <1>10, <1>11, <1>12, <1>13, <1>14, <1>15, <1>16

(* A token that is scanned is then the one before the current one.         *)
LEMMA ScanLeaves ==
  ASSUME ParserInv, scan, file' = file
  PROVE  /\ current_token' = current_token + 1
         /\ Kind(current_token - 1)' = Kind(current_token' - 1)
         /\ Kind(current_token' - 1) = Current
         /\ NoLibraryBefore(current_token)' <=> Current # "library"
PROOF
<1>1. Whole /\ current_token \in Nat
  BY AtTheCall
<1>2. current_token' = current_token + 1
  BY <1>1, ScanMoves
<1>3. current_token' - 1 = current_token
  BY <1>1, <1>2
<1>4. Kind(current_token - 1)' = Kind(current_token' - 1)
  BY DEF Kind
<1> QED
  BY <1>2, <1>3, <1>4 DEF NoLibraryBefore, Current

LEMMA NowClean ==
  ASSUME ParserInv, UnitsInv, ~ errors, todo # <<>>, Clean(Task),
         UNCHANGED <<file, tokens_, current_one_>>
  PROVE  NoLibraryBefore(current_token)'
PROOF
<1>1. Task = todo[1]
  BY AtTheCall
<1>2. NoLibraryBefore(current_token)
  BY <1>1 DEF UnitsInv, CleanNow
<1> QED
  BY <1>2 DEF NoLibraryBefore, Kind, current_token

LEMMA KeepingEnds ==
  ASSUME ParserInv, UnitsInv,
         ScanFirst \/ EntityNamed \/ ClosingLabelOrNone \/ UnitEnd
  PROVE  UnitsInv'
PROOF
<1>1. CASE ScanFirst
  <2>1. /\ todo # <<>> /\ Task.do = "scan" /\ UNCHANGED <<file, unit, units, errors>>
        /\ Then(<<>>) /\ scan
    BY <1>1 DEF ScanFirst, Doing, context, made
  <2>2. Task = todo[1]
    BY <2>1, AtTheCall
  <2>3. current_token = 0
    BY <2>1, <2>2 DEF UnitsInv, ScansFirst
  <2>4. NoLibraryBefore(current_token)'
    <3>1. 0 \notin DOMAIN file
      <4>1. file \in Seq(Kinds)
        BY ParserAssumption DEF ParserInv, Counts
      <4> QED
        BY <4>1, LenProperties
    <3>2. Current = "eof"
      BY <2>3, <3>1 DEF Current, Kind
    <3> QED
      BY <2>1, <3>2, ScanLeaves
  <2>5. ~ errors' => UnitsRecorded'
    BY <2>1, KeepsUnits
  <2>6. Task.do # "consume"
    BY <2>1
  <2> QED
    BY <2>1, <2>4, <2>5, <2>6, EndsOn
<1>2. CASE EntityNamed
  <2>1. /\ todo # <<>> /\ Task.do = "entity_named" /\ UNCHANGED <<file, units, errors>>
        /\ Then(<<>>) /\ unit' = IF expr = "none" THEN [unit EXCEPT !.name = 0] ELSE unit
    BY <1>2 DEF EntityNamed, Doing, context, made
  <2>2. unit' = unit \/ unit'.name = 0
    BY <2>1, AtTheCall
  <2>3. ~ errors' => UnitsRecorded'
    <3> SUFFICES ASSUME ~ errors' PROVE UnitsRecorded'
      OBVIOUS
    <3>1. /\ IsRecorded(unit)
          /\ \A i \in 1 .. Len(units) : units[i].name # 0 /\ IsRecorded(units[i])
      BY <2>1, RecordedNow
    <3> QED
      BY <2>1, <2>2, <3>1, UnitsStayRecorded
  <2>4. Task.do # "consume" /\ ~ Keeps(Task)
    BY <2>1 DEF Keeps, IsOptional
  <2> QED
    BY <2>1, <2>3, <2>4, EndsOn
<1>3. CASE ClosingLabelOrNone
  <2>1. /\ todo # <<>> /\ Task.do = "closing_label"
        /\ UNCHANGED <<file, unit, units, errors>>
        /\ Then(<<>>)
        /\ \/ Current = "identifier" /\ scan
           \/ UNCHANGED lexer
    BY <1>3 DEF ClosingLabelOrNone, Doing, context, made, Skip, Look
  <2>2. ASSUME ~ errors' PROVE NoLibraryBefore(current_token)'
    <3>1. CASE Current = "identifier" /\ scan
      BY <2>1, <3>1, ScanLeaves
    <3>2. CASE UNCHANGED lexer
      <4>1. Clean(Task)
        BY <2>1 DEF Clean
      <4> QED
        BY <2>1, <2>2, <3>2, <4>1, NowClean DEF lexer
    <3> QED
      BY <2>1, <3>1, <3>2
  <2>3. ~ errors' => UnitsRecorded'
    BY <2>1, KeepsUnits
  <2>4. Task.do # "consume"
    BY <2>1
  <2> QED
    BY <2>1, <2>2, <2>3, <2>4, EndsOn
<1>4. CASE UnitEnd
  <2>1. /\ todo # <<>> /\ Task.do = "unit_end" /\ UNCHANGED <<file, unit, errors, lexer>>
        /\ Then(<<>>)
        /\ units' = IF unit.name = 0 THEN units ELSE Append(units, unit)
    BY <1>4 DEF UnitEnd, Doing, context, Stay
  <2>2. ASSUME ~ errors' PROVE NoLibraryBefore(current_token)'
    <3>1. Clean(Task)
      BY <2>1 DEF Clean
    <3> QED
      BY <2>1, <2>2, <3>1, NowClean DEF lexer
  <2>3. ASSUME ~ errors' PROVE UnitsRecorded'
    <3>1. /\ IsRecorded(unit)
          /\ \A i \in 1 .. Len(units) : units[i].name # 0 /\ IsRecorded(units[i])
      BY <2>1, <2>3, RecordedNow
    <3>2. IsRecorded(unit)'
      BY <2>1, <3>1 DEF IsRecorded, IsNamed, NoLibraryBefore, Kind
    <3>3. CASE unit.name = 0
      <4>1. units' = units
        BY <2>1, <3>3
      <4> QED
        BY <2>1, <3>1, <4>1, UnitsStayRecorded
    <3>4. CASE unit.name # 0
      <4> DEFINE more == Append(units, unit)
      <4>1. /\ units' = more /\ Len(units) \in Nat
            /\ Len(more) = Len(units) + 1
            /\ \A i \in 1 .. Len(units) : more[i] = units[i]
            /\ more[Len(units) + 1] = unit
        BY <2>1, <3>4, AtTheCall, AppendProperties, LenProperties
      <4> HIDE DEF more
      <4>2. ASSUME NEW i \in 1 .. Len(more) PROVE more[i].name # 0 /\ IsRecorded(more[i])
        <5>1. i \in 1 .. Len(units) \/ i = Len(units) + 1
          BY <4>1
        <5> QED
          BY <3>1, <3>4, <4>1, <5>1
      <4>3. \A i \in 1 .. Len(units') : units'[i].name # 0 /\ IsRecorded(units[i])'
        BY <2>1, <4>1, <4>2 DEF IsRecorded, IsNamed, NoLibraryBefore, Kind
      <4> QED
        BY <3>2, <4>3 DEF UnitsRecorded
    <3> QED
      BY <3>3, <3>4
  <2>4. Task.do # "consume"
    BY <2>1
  <2> QED
    BY <2>1, <2>2, <2>3, <2>4, EndsOn
<1> QED
  BY <1>1, <1>2, <1>3, <1>4

LEMMA KeepingAsks ==
  ASSUME ParserInv, UnitsInv,
         DesignFile \/ PackageEnd \/ InstantiationLabel \/ OptionalToken \/ ContextClause
  PROVE  UnitsInv'
PROOF
<1>1. CASE DesignFile
  <2> DEFINE many == Many("design_unit_in_design_file", "none")
  <2>1. /\ todo # <<>> /\ Task.do = "file" /\ UNCHANGED <<lexer, file, unit, units>>
        /\ errors => errors'
        /\ Then(<<>>) \/ Then(<<many>>)
    BY <1>1 DEF DesignFile, Doing, context, made, Diagnosed, Look
  <2>2. CASE Then(<<>>)
    BY <2>1, <2>2, GoesOn DEF Busy
  <2>3. CASE Then(<<many>>)
    <3>1. many \in Tasks /\ many.do = "many" /\ many.state = UnitsState
      BY EachIsACall DEF Many, Tasks, States, Parts, UnitsState
    <3>2. ~ Needs(many)
      BY <3>1 DEF Needs, IsConsume
    <3> HIDE DEF many
    <3>3. Linked(<<many>>) /\ Len(<<many>>) = 1 /\ <<many>>[1] = many
      BY <3>1, <3>2, LinkedOne
    <3>4. Task.do # "consume" /\ ~ Keeps(Task) /\ Clean(Task)
      BY <2>1 DEF Keeps, Clean, IsOptional
    <3>5. ~ errors' => NoLibraryBefore(current_token)'
      BY <2>1, <3>4, NowClean DEF lexer
    <3>6. ~ errors' => UnitsRecorded'
      BY <2>1, KeepsUnits
    <3> QED
      BY <2>1, <2>3, <3>3, <3>4, <3>5, <3>6, AsksClean
  <2> QED
    BY <2>1, <2>2, <2>3
<1>2. CASE PackageEnd
  <2> DEFINE s == <<Consume("semicolon"), Do("unit_end")>>
  <2>1. /\ todo # <<>> /\ Task.do = "package_end"
        /\ UNCHANGED <<lexer, file, unit, units, errors>>
        /\ Then(<<>>) \/ Then(s)
    BY <1>2 DEF PackageEnd, Doing, context, made, Stay
  <2>2. ~ errors' => NoLibraryBefore(current_token)'
    <3>1. Clean(Task)
      BY <2>1 DEF Clean
    <3> QED
      BY <2>1, <3>1, NowClean DEF lexer
  <2>3. ~ errors' => UnitsRecorded'
    BY <2>1, KeepsUnits
  <2>4. Asked(s) /\ Keeps(s[Len(s)])
    <3>1. /\ Consume("semicolon") \in FreeCalls /\ Keeps(Consume("semicolon"))
      BY FreeCallsAre, KeepingCalls DEF Kinds
    <3>2. /\ Do("unit_end") \in Tasks /\ Keeps(Do("unit_end")) /\ ~ Needs(Do("unit_end"))
          /\ Do("unit_end").do = "unit_end"
      BY EachIsACall, KeepingCalls DEF Simple, Tasks
    <3>3. /\ Asked(<<Consume("semicolon")>>) /\ Consume("semicolon") \in Tasks
          /\ <<Consume("semicolon")>>[Len(<<Consume("semicolon")>>)] = Consume("semicolon")
      BY <3>1, OneIsAsked DEF FreeCalls
    <3>4. /\ Linked(<<Do("unit_end")>>) /\ Nameless(<<Do("unit_end")>>)
          /\ Len(<<Do("unit_end")>>) = 1 /\ <<Do("unit_end")>>[1] = Do("unit_end")
      BY <3>2, LinkedOne
    <3> DEFINE a == <<Consume("semicolon")>>
               b == <<Do("unit_end")>>
    <3>5. s = a \o b
      <4>1. ASSUME NEW x \in Tasks, NEW y \in Tasks PROVE Append(<<x>>, y) = <<x, y>>
        BY AppendToOne
      <4>2. a \in Seq(Tasks) /\ Append(a, Do("unit_end")) = s
        BY <3>2, <3>3, <4>1
      <4> QED
        BY <3>2, <4>2, AppendIsConcat
    <3> HIDE DEF a, b, s
    <3>6. /\ Asked(a) /\ Keeps(a[Len(a)])
          /\ Linked(b) /\ Nameless(b) /\ Keeps(b[Len(b)])
      BY <3>1, <3>2, <3>3, <3>4 DEF a, b
    <3>7. Asked(a \o b) /\ (a \o b)[Len(a \o b)] = b[Len(b)]
      BY <3>6, AskedConcat
    <3> QED
      BY <3>5, <3>6, <3>7
  <2>5. Task.do # "consume"
    BY <2>1
  <2> HIDE DEF s
  <2>6. CASE Then(<<>>)
    BY <2>1, <2>2, <2>3, <2>5, <2>6, EndsOn
  <2>7. CASE Then(s)
    BY <2>1, <2>3, <2>4, <2>5, <2>7, AsksOn
  <2> QED
    BY <2>1, <2>6, <2>7
<1>3. CASE InstantiationLabel
  <2>1. /\ todo # <<>> /\ Task.do = "inst_label" /\ UNCHANGED <<file, unit, units>>
        /\ \/ Then(<<Consume("colon")>>) /\ (errors => errors')
           \/ Then(<<Optional("colon", <<>>)>>) /\ errors'
    <3>1. /\ todo # <<>> /\ Task.do = "inst_label" /\ UNCHANGED <<file, unit, units>>
          /\ IF Current = "identifier" THEN Then(<<Consume("colon")>>)
                                       ELSE Then(<<Optional("colon", <<>>)>>)
          /\ errors' = (errors \/ Current # "identifier")
      BY <1>3 DEF InstantiationLabel, Doing, context, made, Diagnosed
    <3>2. (errors => errors') /\ (Current # "identifier" => errors')
      BY <3>1
    <3> QED
      BY <3>1, <3>2
  <2>2. CASE Then(<<Consume("colon")>>) /\ (errors => errors')
    <3>1. Consume("colon") \in FreeCalls /\ Keeps(Consume("colon"))
      BY FreeCallsAre, KeepingCalls DEF Kinds
    <3>2. /\ Asked(<<Consume("colon")>>)
          /\ <<Consume("colon")>>[Len(<<Consume("colon")>>)] = Consume("colon")
      BY <3>1, OneIsAsked
    <3>3. ~ errors' => UnitsRecorded'
      BY <2>1, <2>2, KeepsUnits
    <3>4. Task.do # "consume"
      BY <2>1
    <3> QED
      BY <2>1, <2>2, <3>1, <3>2, <3>3, <3>4, AsksOn
  <2>3. CASE Then(<<Optional("colon", <<>>)>>) /\ errors'
    <3> DEFINE t == Optional("colon", <<>>)
    <3>1. t \in Tasks /\ ~ Needs(t) /\ t.do = "optional" /\ Keeps(t)
      BY EachIsACall, KeepingCalls DEF Kinds, Thens, Tasks
    <3>2. Then(<<t>>)
      BY <2>3
    <3> HIDE DEF t
    <3>3. Linked(<<t>>) /\ Len(<<t>>) = 1 /\ <<t>>[1] = t
      BY <3>1, LinkedOne
    <3>4. todo \in Seq(Tasks) /\ Chained(todo) /\ Task.do # "consume"
      BY <2>1, AtTheCall DEF UnitsInv
    <3>5. Chained(todo') /\ todo' # <<>> /\ todo'[1] = t
      BY <2>1, <3>1, <3>2, <3>3, <3>4, Asks
    <3> QED
      BY <2>3, <3>1, <3>5 DEF UnitsInv, ScansFirst
  <2> QED
    BY <2>1, <2>2, <2>3
<1>4. CASE OptionalToken
  <2>1. /\ todo # <<>> /\ Task.do = "optional" /\ UNCHANGED <<file, unit, units, errors>>
        /\ \/ Current = Task.token /\ scan /\ Then(Task.then)
           \/ UNCHANGED lexer /\ Then(<<>>)
    BY <1>4 DEF OptionalToken, Doing, context, made, Skip, Stay
  <2>2. Task \in Tasks /\ Task.then \in Thens
    BY <2>1, AtTheCall, OfATask
  <2>3. ~ errors' => UnitsRecorded'
    BY <2>1, KeepsUnits
  <2>4. Task.do # "consume" /\ (Keeps(Task) => Clean(Task) /\ Task.token # "library")
    BY <2>1 DEF Keeps, Clean, IsOptional
  <2>5. CASE UNCHANGED lexer /\ Then(<<>>)
    <3>1. ~ errors' /\ Keeps(Task) => NoLibraryBefore(current_token)'
      BY <2>1, <2>4, <2>5, NowClean DEF lexer
    <3> QED
      BY <2>1, <2>3, <2>4, <2>5, <3>1, EndsOn
  <2>6. CASE Current = Task.token /\ scan /\ Then(Task.then) /\ Task.then = <<>>
    <3>1. ~ errors' /\ Keeps(Task) => NoLibraryBefore(current_token)'
      BY <2>1, <2>4, <2>6, ScanLeaves
    <3> QED
      BY <2>1, <2>3, <2>4, <2>6, <3>1, EndsOn
  <2>7. CASE Then(Task.then) /\ Task.then # <<>>
    <3>1. Task.then = <<Many("entity_statement_part", "none")>>
      BY <2>2, <2>7 DEF Thens
    <3>2. Asked(Task.then)
      <4>1. Many("entity_statement_part", "none") \in FreeCalls
        BY FreeCallsAre DEF States, Parts, UnitsState
      <4> QED
        BY <3>1, <4>1, OneIsAsked
    <3>3. ~ Keeps(Task)
      BY <2>1, <2>7 DEF Keeps, IsOptional
    <3> QED
      BY <2>1, <2>3, <2>4, <2>7, <3>2, <3>3, AsksOn
  <2> QED
    BY <2>1, <2>5, <2>6, <2>7
<1>5. CASE ContextClause
  <2>1. /\ todo # <<>> /\ Task.do = "context_clause"
        /\ UNCHANGED <<file, unit, units, errors>>
        /\ \/ UNCHANGED lexer /\ Then(Append(LibraryClause, Task))
           \/ UNCHANGED lexer /\ Then(<<>>)
           \/ Current # "library" /\ scan /\ todo' = todo
    BY <1>5 DEF ContextClause, Doing, context, made, Skip, Look
  <2>2. ~ errors' => UnitsRecorded'
    BY <2>1, KeepsUnits
  <2>3. Task.do # "consume" /\ Clean(Task) /\ Keeps(Task)
    BY <2>1 DEF Keeps, Clean
  <2>4. CASE UNCHANGED lexer /\ Then(<<>>)
    <3>1. ~ errors' => NoLibraryBefore(current_token)'
      BY <2>1, <2>3, <2>4, NowClean DEF lexer
    <3> QED
      BY <2>1, <2>2, <2>3, <2>4, <3>1, EndsOn
  <2>5. CASE Then(Append(LibraryClause, Task))
    <3> DEFINE s == Append(LibraryClause, Task)
    <3>1. Asked(LibraryClause) /\ Keeps(LibraryClause[Len(LibraryClause)])
      BY FixedAsked, KeepingCalls DEF Kinds
    <3>2. Task \in Tasks /\ Task.do \notin {"scan", "unit_name"} /\ ~ Needs(Task)
      BY <2>1, AtTheCall DEF Needs, IsConsume
    <3>3. Linked(s) /\ Nameless(s) /\ s[1] = LibraryClause[1] /\ s[Len(s)] = Task
      BY <3>1, <3>2, LinkedMore DEF Asked
    <3> HIDE DEF s
    <3>4. Asked(s)
      BY <3>1, <3>3 DEF Asked
    <3> QED
      BY <2>1, <2>2, <2>3, <2>5, <3>3, <3>4, AsksOn DEF s
  <2>6. CASE Current # "library" /\ scan /\ todo' = todo
    <3>1. NoLibraryBefore(current_token)'
      BY <2>1, <2>6, ScanLeaves
    <3>2. /\ todo'[1].do = "context_clause" /\ Chained(todo')
      BY <2>1, <2>6, AtTheCall DEF UnitsInv
    <3>3. CleanNow' /\ ScansFirst'
      BY <3>1, <3>2 DEF CleanNow, ScansFirst
    <3>4. UnitBegins'
      BY <3>1, <3>2 DEF UnitBegins
    <3> QED
      BY <2>2, <3>2, <3>3, <3>4 DEF UnitsInv
  <2> QED
    BY <2>1, <2>4, <2>5, <2>6
<1> QED
  BY <1>1, <1>2, <1>3, <1>4, <1>5

LEMMA ListsGoOn ==
  ASSUME ParserInv, UnitsInv, EnterMany \/ ParseElement \/ LeaveMany \/ SkipInMany
  PROVE  UnitsInv'
PROOF
<1>1. CASE EnterMany
  <2> DEFINE t == InMany(Task.state, Task.part, parsing_states)
  <2>1. /\ todo # <<>> /\ Task.do = "many" /\ Then(<<t>>)
        /\ UNCHANGED <<lexer, file, unit, units, errors>>
    BY <1>1 DEF EnterMany, Doing, made, Stay
  <2>2. t \in Tasks /\ t.do = "in_many" /\ t.state = Task.state
    <3>1. Task.state \in States /\ Task.part \in Parts
      BY <2>1, AtTheCall, OfATask
    <3>2. parsing_states \subseteq States
      BY OpenStatesAreStates DEF ParserInv, CallsInv
    <3> QED
      BY <3>1, <3>2 DEF InMany, Tasks, OpenCalls
  <2>3. ~ Needs(t) /\ (Clean(t) <=> Task.state = UnitsState)
    BY <2>2 DEF Needs, IsConsume, Clean, IsUnits, IsOptional
  <2> HIDE DEF t
  <2>4. Task.do # "consume" /\ ~ Keeps(Task) /\ Task.do \notin Busy
    BY <2>1 DEF Keeps, IsOptional, Busy
  <2>5. CASE Task.state = UnitsState
    <3>1. ~ errors' => UnitsRecorded' /\ NoLibraryBefore(current_token)'
      <4>1. Clean(Task)
        BY <2>1, <2>5 DEF Clean, IsUnits
      <4> QED
        BY <2>1, <4>1, NowClean, KeepsUnits DEF lexer
    <3>2. Linked(<<t>>)
      BY <2>2, <2>3, LinkedOne
    <3> QED
      BY <2>1, <2>4, <3>1, <3>2, AsksClean
  <2>6. CASE Task.state # UnitsState
    <3>1. Asked(<<t>>)
      BY <2>2, <2>6, FreeCallsAre, OneIsAsked
    <3> QED
      BY <2>1, <2>4, <3>1, GoesOn
  <2> QED
    BY <2>5, <2>6
<1>2. CASE ParseElement
  <2>1. /\ todo # <<>> /\ Task.do = "in_many"
        /\ Then(Append(Element(Task.state, Task.part), Task))
        /\ UNCHANGED <<lexer, file, unit, units, errors>>
    BY <1>2 DEF ParseElement, Doing, context, made, Look
  <2>2. Task \in Tasks /\ Task.state \in States /\ Task.part \in Parts
    BY <2>1, AtTheCall, OfATask
  <2>3. Task.do # "consume" /\ ~ Keeps(Task) /\ Task.do \notin Busy
    BY <2>1 DEF Keeps, IsOptional, Busy
  <2>4. CASE Task.state = UnitsState
    <3> DEFINE s == <<Do("context_clause"), Do("design_unit"), Task>>
    <3>1. Then(s)
      BY <2>1, <2>2, <2>4, ElementOfUnits
    <3>2. /\ Do("context_clause") \in Tasks /\ Do("design_unit") \in Tasks
          /\ Do("context_clause").do = "context_clause" /\ ~ Needs(Do("context_clause"))
          /\ Do("design_unit").do = "design_unit" /\ ~ Needs(Do("design_unit"))
          /\ Keeps(Do("context_clause")) /\ Keeps(Do("design_unit"))
      BY EachIsACall, KeepingCalls DEF Tasks, Simple
    <3>3. ~ Needs(Task)
      BY <2>1 DEF Needs, IsConsume
    <3>4. /\ s \in Seq(Tasks) /\ s # <<>> /\ Len(s) = 3
          /\ s[1] = Do("context_clause") /\ s[2] = Do("design_unit") /\ s[3] = Task
      BY <2>2, <3>2
    <3> HIDE DEF s
    <3>5. Beside(s[1], s[2]) /\ Beside(s[2], s[3])
      BY <2>1, <3>2, <3>4, BesideEachOther
    <3>6. AllBeside(s)
      <4> SUFFICES ASSUME NEW i \in 1 .. 2 PROVE Beside(s[i], s[i + 1])
        BY <3>4 DEF AllBeside
      <4>1. i = 1 \/ i = 2
        OBVIOUS
      <4> QED
        BY <3>5, <4>1
    <3>7. Linked(s)
      <4>1. \A i \in 1 .. 3 : s[i].do # "scan" /\ s[i].do # "unit_name"
        BY <2>1, <3>2, <3>4
      <4> QED
        BY <3>3, <3>4, <3>6, <4>1 DEF Linked
    <3>8. ~ errors' => UnitsRecorded' /\ NoLibraryBefore(current_token)'
      <4>1. Clean(Task)
        BY <2>1, <2>4 DEF Clean, IsUnits
      <4> QED
        BY <2>1, <4>1, NowClean, KeepsUnits DEF lexer
    <3> QED
      BY <2>1, <2>3, <3>1, <3>7, <3>8, AsksClean
  <2>5. CASE Task.state # UnitsState
    <3>1. PICK e \in Tasks :
            /\ Append(Element(Task.state, Task.part), Task) = <<e, Task>>
            /\ e.do \in Elements /\ IsElementOf(e, Task.state)
            /\ Cap(e) = 2 /\ Left(e) \in 0 .. 1
      BY <2>2, <2>5, ElementOfOthers
    <3>2. e \in FreeCalls
      BY <3>1 DEF FreeCalls, Elements, Clean, Needs, IsConsume, IsUnits, IsOptional
    <3>3. Task \in FreeCalls
      BY <2>1, <2>2, <2>5, FreeCallsAre
    <3>4. Asked(<<e, Task>>)
      <4>1. <<e, Task>> \in Seq(FreeCalls) /\ <<e, Task>> # <<>>
        BY <3>2, <3>3
      <4> QED
        BY <4>1, FreeAsked
    <3> QED
      BY <2>1, <2>3, <3>1, <3>4, GoesOn
  <2> QED
    BY <2>4, <2>5
<1>3. CASE LeaveMany
  <2>1. /\ todo # <<>> /\ Task.do = "in_many" /\ Then(<<>>)
        /\ UNCHANGED <<file, unit, units, errors>>
    BY <1>3 DEF LeaveMany, Doing, made
  <2> QED
    BY <2>1, GoesOn DEF Busy
<1>4. CASE SkipInMany
  <2>1. /\ todo # <<>> /\ Task.do = "in_many" /\ todo' = todo /\ errors' = TRUE
    BY <1>4 DEF SkipInMany, Doing
  <2> QED
    BY <2>1, SameGoesOn DEF Busy
<1> QED
  BY <1>1, <1>2, <1>3, <1>4

LEMMA UnitsGoOn ==
  ASSUME ParserInv, UnitsInv, DesignUnit \/ resync_to_next_semicolon
  PROVE  UnitsInv'
PROOF
<1>1. CASE DesignUnit
  <2>1. /\ todo # <<>> /\ Task.do = "design_unit" /\ Current \in UnitKeywords
        /\ Then(UnitScript(Current))
        /\ UNCHANGED <<tokens_, current_one_, file, unit, units, errors>>
    BY <1>1 DEF DesignUnit, Doing, context, made, peek, lexer
  <2>2. UnitLinked(UnitScript(Current))
    <3>1. \A token \in UnitKeywords : UnitLinked(UnitScript(token))
      BY EntityLinked, ArchitectureLinked, PackageLinked DEF UnitScript, UnitKeywords
    <3> QED
      BY <2>1, <3>1
  <2>3. Task.do # "consume" /\ Clean(Task)
    BY <2>1 DEF Clean
  <2>4. ~ errors' => UnitsRecorded' /\ NoLibraryBefore(current_token)'
    BY <2>1, <2>3, NowClean, KeepsUnits
  <2> QED
    BY <2>1, <2>2, <2>3, <2>4, AsksClean DEF UnitLinked
<1>2. CASE resync_to_next_semicolon
  <2>1. /\ todo # <<>> /\ Task.do = "resync" /\ UNCHANGED <<file, unit, units, errors>>
        /\ todo' = Tail(todo) \/ todo' = todo
    BY <1>2 DEF resync_to_next_semicolon, Doing, context, made
  <2>2. CASE todo' = todo
    <3>1. ~ Clean(Task)
      BY <2>1 DEF Clean, IsUnits, IsOptional
    <3> QED
      BY <2>1, <2>2, <3>1, SameGoesOn DEF Busy
  <2>3. CASE todo' = Tail(todo)
    <3>1. Tail(todo) \in Seq(Tasks)
      BY <2>1, AtTheCall, HeadTailProperties
    <3>2. Then(<<>>)
      BY <2>3, <3>1, ConcatEmptySeq DEF Then
    <3> QED
      BY <2>1, <3>2, GoesOn DEF Busy
  <2> QED
    BY <2>1, <2>2, <2>3
<1> QED
  BY <1>1, <1>2

LEMMA NeverGoesOn ==
  ASSUME ParserInv, UnitsInv, todo # <<>>, NeverGetHere,
         UNCHANGED <<tokens_, current_one_>>,
         Task.do \in {"design_unit", "statement", "entity_statement", "concurrent"}
  PROVE  UnitsInv'
PROOF
<1>1. /\ todo' = todo \/ todo' = Tail(todo)
      /\ UNCHANGED <<file, unit, units, errors>>
  BY DEF NeverGetHere, made
<1>2. CASE todo' = todo
  BY <1>1, <1>2, SameGoesOn
<1>3. CASE todo' = Tail(todo)
  <2>1. Tail(todo) \in Seq(Tasks)
    BY AtTheCall, HeadTailProperties
  <2>2. Then(<<>>)
    BY <1>3, <2>1, ConcatEmptySeq DEF Then
  <2>3. Keeps(Task) => Clean(Task)
    BY DEF Keeps, Clean, IsOptional
  <2>4. ~ errors' /\ Keeps(Task) => NoLibraryBefore(current_token)'
    BY <1>1, <2>3, NowClean
  <2>5. ~ errors' => UnitsRecorded'
    BY <1>1, KeepsUnits
  <2> QED
    BY <2>2, <2>4, <2>5, EndsOn
<1> QED
  BY <1>1, <1>2, <1>3

LEMMA StatementsGoOn ==
  ASSUME ParserInv, UnitsInv,
         NoDesignUnit \/ NoStatement \/ EntityStatement \/ ConcurrentStatement
  PROVE  UnitsInv'
PROOF
<1>1. HasLabel \in BOOLEAN
  BY DEF HasLabel
<1>2. /\ Asked(ProcedureCall(HasLabel)) /\ Asked(Process(HasLabel)) /\ Asked(Instantiation)
      /\ Asked(IfGenerate(HasLabel))
  BY <1>1, LabelsAsked, InstantiationAsked
<1>3. CASE NoDesignUnit
  <2>1. /\ todo # <<>> /\ Task.do = "design_unit" /\ NeverGetHere /\ UNCHANGED lexer
    BY <1>3 DEF NoDesignUnit, Doing, Look
  <2> QED
    BY <2>1, NeverGoesOn DEF lexer
<1>4. CASE NoStatement
  <2>1. /\ todo # <<>> /\ Task.do = "statement" /\ NeverGetHere /\ UNCHANGED lexer
    BY <1>4 DEF NoStatement, Doing, Look
  <2> QED
    BY <2>1, NeverGoesOn DEF lexer
<1>5. CASE EntityStatement
  <2>1. /\ todo # <<>> /\ Task.do = "entity_statement"
        /\ UNCHANGED <<tokens_, current_one_>>
        /\ UNCHANGED made
        /\ IF EntityStatementScript = <<>>
             THEN NeverGetHere
             ELSE Then(EntityStatementScript) /\ UNCHANGED <<errors, context>>
    BY <1>5 DEF EntityStatement, Doing, peek
  <2>2. EntityStatementScript = <<>> \/ Asked(EntityStatementScript)
    BY <1>2 DEF EntityStatementScript
  <2>3. CASE EntityStatementScript = <<>>
    BY <2>1, <2>3, NeverGoesOn
  <2>4. CASE EntityStatementScript # <<>>
    BY <2>1, <2>2, <2>4, GoesOn DEF context, made, Busy
  <2> QED
    BY <2>3, <2>4
<1>6. CASE ConcurrentStatement
  <2>1. /\ todo # <<>> /\ Task.do = "concurrent" /\ UNCHANGED <<tokens_, current_one_>>
        /\ UNCHANGED made
        /\ IF ConcurrentScript = <<>> /\ First # "if"
             THEN NeverGetHere
             ELSE Then(ConcurrentScript) /\ UNCHANGED <<errors, context>>
    BY <1>6 DEF ConcurrentStatement, Doing, peek
  <2>2. ConcurrentScript = <<>> \/ Asked(ConcurrentScript)
    BY <1>2 DEF ConcurrentScript
  <2>3. CASE ConcurrentScript = <<>> /\ First # "if"
    BY <2>1, <2>3, NeverGoesOn
  <2>4. CASE ~ (ConcurrentScript = <<>> /\ First # "if")
    BY <2>1, <2>2, <2>4, GoesOn DEF context, made, Busy
  <2> QED
    BY <2>3, <2>4
<1> QED
  BY <1>3, <1>4, <1>5, <1>6

(* What must be followed is followed.                                      *)
LEMMA NeedsMore ==
  ASSUME ParserInv, UnitsInv, todo # <<>>, Then(<<>>), Needs(Task)
  PROVE  /\ todo' # <<>> /\ Len(todo) > 1 /\ todo'[1] = todo[2]
         /\ Beside(Task, todo'[1])
PROOF
<1>1. todo \in Seq(Tasks) /\ Task = todo[1] /\ Chained(todo)
  BY AtTheCall DEF UnitsInv
<1>2. Len(todo) \in Nat \ {0} /\ Len(todo) # 1
  BY <1>1, TheTask DEF Chained
<1>3. Len(todo') = Len(todo) - 1 /\ todo' \in Seq(Tasks)
  <2>1. <<>> \in Seq(Tasks) /\ Len(<<>>) = 0
    BY EmptySeq
  <2>2. Len(todo') = 0 + Len(todo) - 1 /\ todo' \in Seq(Tasks)
    BY <1>1, <2>1, Replaced
  <2> QED
    BY <1>2, <2>2
<1>4. todo' # <<>>
  BY <1>2, <1>3, EmptySeq
<1> QED
  BY <1>1, <1>4, Ends

LEMMA UnitNameGoesOn == ASSUME ParserInv, UnitsInv, UnitName PROVE UnitsInv'
PROOF
<1>1. /\ todo # <<>> /\ Task.do = "unit_name" /\ Then(<<>>) /\ UNCHANGED <<file, units>>
      /\ unit' = [kind |-> Task.kind,
                  name |-> IF Current = "identifier" THEN current_token ELSE 0]
      /\ Current = "identifier" => scan
      /\ errors' = (errors \/ Current # "identifier")
  BY DEF UnitName, Doing, context, Diagnosed, Skip
<1>2. Task.do # "consume" /\ ~ Keeps(Task)
  BY <1>1 DEF Keeps, IsOptional
<1>3. ASSUME ~ errors' PROVE UnitsRecorded'
  <2>1. ~ errors /\ Current = "identifier" /\ scan
    BY <1>1, <1>3
  <2>2. /\ unit' = [kind |-> Task.kind, name |-> current_token]
        /\ unit'.kind = Task.kind /\ unit'.name = current_token
    BY <1>1, <2>1
  <2>3. current_token' = unit'.name + 1
    BY <1>1, <2>1, <2>2, ScanLeaves
  <2>4. Kind(current_token - 1) = Task.kind /\ NoLibraryBefore(current_token - 1)
    BY <1>1, <2>1, AtTheCall DEF UnitsInv, UnitBegins
  <2>5. IsNamed(unit)'
    BY <1>1, <2>1, <2>2, <2>4 DEF IsNamed, NoLibraryBefore, Kind, Current
  <2>6. IsRecorded(unit)' \/ EntityNext'
    <3>1. CASE Task.kind # "architecture"
      BY <2>2, <2>5, <3>1 DEF IsRecorded
    <3>2. CASE Task.kind = "architecture"
      <4>1. todo' # <<>> /\ Beside(Task, todo'[1])
        BY <1>1, NeedsMore DEF Needs
      <4>2. IsConsume(todo'[1], "of")
        BY <1>1, <3>2, <4>1 DEF Beside
      <4> QED
        BY <2>3, <2>5, <4>1, <4>2 DEF EntityNext, IsConsume
    <3> QED
      BY <3>1, <3>2
  <2>7. \A i \in 1 .. Len(units') : units'[i].name # 0 /\ IsRecorded(units[i])'
    <3>1. \A i \in 1 .. Len(units) : units[i].name # 0 /\ IsRecorded(units[i])
      BY <1>1, <2>1, RecordedNow
    <3> QED
      BY <1>1, <3>1 DEF IsRecorded, IsNamed, NoLibraryBefore, Kind
  <2> QED
    BY <2>6, <2>7 DEF UnitsRecorded
<1> QED
  BY <1>1, <1>2, <1>3, EndsOn

LEMMA NameGoesOn == ASSUME ParserInv, UnitsInv, ParseName PROVE UnitsInv'
PROOF
<1>1. /\ todo # <<>> /\ Task.do = "name" /\ UNCHANGED <<file, unit, units>>
      /\ IF Current = "identifier" THEN Then(<<Do("suffix")>>) ELSE Then(<<>>)
      /\ errors' = (errors \/ Current # "identifier")
  BY DEF ParseName, Doing, context, Diagnosed
<1>2. Task.do # "consume" /\ ~ Keeps(Task) /\ Task = todo[1]
  BY <1>1, AtTheCall DEF Keeps, IsOptional
<1>3. ASSUME ~ errors' PROVE UnitsRecorded'
  <2>1. ~ errors /\ Current = "identifier"
    BY <1>1, <1>3
  <2>2. /\ IsRecorded(unit) \/ EntityNext
        /\ \A i \in 1 .. Len(units) : units[i].name # 0 /\ IsRecorded(units[i])
    BY <2>1 DEF UnitsInv, UnitsRecorded
  <2>3. IsRecorded(unit)
    <3>1. CASE EntityNext
      <4>1. Kind(unit.name + 1) = "of" /\ current_token = unit.name + 2 /\ IsNamed(unit)
        BY <1>1, <1>2, <3>1 DEF EntityNext, IsConsume
      <4>2. Kind(unit.name + 2) = "identifier"
        BY <2>1, <4>1 DEF Current
      <4> QED
        BY <4>1, <4>2 DEF IsRecorded
    <3> QED
      BY <2>2, <3>1
  <2> QED
    BY <1>1, <2>2, <2>3, UnitsStayRecorded
<1>4. CASE Current = "identifier"
  <2>1. Asked(<<Do("suffix")>>)
    BY FreeCallsAre, OneIsAsked DEF FreeOnes, Simple
  <2> QED
    BY <1>1, <1>2, <1>3, <1>4, <2>1, AsksOn
<1>5. CASE Current # "identifier"
  BY <1>1, <1>2, <1>3, <1>5, EndsOn
<1> QED
  BY <1>4, <1>5

LEMMA ConsumeGoesOn == ASSUME ParserInv, UnitsInv, ConsumeToken PROVE UnitsInv'
PROOF
<1>1. /\ todo # <<>> /\ Task.do = "consume" /\ UNCHANGED <<file, unit, units>>
      /\ Current = Task.token => scan
      /\ Then(<<>>)
      /\ errors' = (errors \/ Current # Task.token)
  BY DEF ConsumeToken, Doing, context, made, Diagnosed
<1>2. todo \in Seq(Tasks) /\ Task = todo[1] /\ Chained(todo) /\ current_token \in Nat
  BY <1>1, AtTheCall DEF UnitsInv
<1>3. /\ Chained(todo')
      /\ todo' # <<>> => /\ Len(todo) > 1 /\ todo'[1] = todo[2]
                         /\ Beside(Task, todo'[1]) /\ todo'[1].do # "scan"
      /\ Len(todo') > 1 => todo'[2].do # "unit_name"
  BY <1>1, <1>2, Ends
<1>4. ASSUME ~ errors' PROVE CleanNow' /\ UnitBegins' /\ UnitsRecorded'
  <2>1. ~ errors /\ Current = Task.token /\ scan
    BY <1>1, <1>4
  <2>2. /\ current_token' = current_token + 1
        /\ Kind(current_token - 1)' = Kind(current_token' - 1)
        /\ Kind(current_token' - 1) = Current
        /\ NoLibraryBefore(current_token)' <=> Current # "library"
    BY <1>1, <2>1, ScanLeaves
  <2>3. UnitBegins /\ UnitsRecorded
    BY <2>1 DEF UnitsInv
  <2>4. CleanNow'
    <3> SUFFICES ASSUME todo' # <<>>, Clean(todo'[1]) PROVE NoLibraryBefore(current_token)'
      BY DEF CleanNow
    <3>1. Keeps(Task)
      BY <1>3 DEF Beside
    <3>2. Task.token # "library"
      BY <1>1, <3>1 DEF Keeps, IsOptional
    <3> QED
      BY <2>1, <2>2, <3>2
  <2>5. UnitBegins'
    <3> SUFFICES ASSUME todo' # <<>>, todo'[1].do = "unit_name"
                 PROVE  /\ Kind(current_token - 1)' = todo'[1].kind
                        /\ NoLibraryBefore(current_token - 1)'
      BY <1>3 DEF UnitBegins
    <3>1. IsConsume(Task, todo'[1].kind)
      BY <1>3 DEF Beside
    <3>2. Task.token = todo'[1].kind
      BY <3>1 DEF IsConsume
    <3>3. NoLibraryBefore(current_token)
      BY <1>3, <2>3 DEF UnitBegins
    <3>4. (current_token' - 1) - 1 = current_token - 1
      BY <1>2, <2>2
    <3>5. NoLibraryBefore(current_token - 1)'
      BY <1>1, <3>3, <3>4 DEF NoLibraryBefore, Kind
    <3> QED
      BY <2>1, <2>2, <3>2, <3>5
  <2>6. UnitsRecorded'
    <3>1. \A i \in 1 .. Len(units) : units[i].name # 0 /\ IsRecorded(units[i])
      BY <2>3 DEF UnitsRecorded
    <3>2. CASE IsRecorded(unit)
      BY <1>1, <3>1, <3>2, UnitsStayRecorded
    <3>3. CASE EntityNext
      <4>1. IsConsume(Task, "of") /\ current_token = unit.name + 1 /\ IsNamed(unit)
        BY <1>1, <1>2, <3>3 DEF EntityNext
      <4>2. Kind(unit.name + 1) = "of"
        BY <2>1, <4>1 DEF IsConsume, Current
      <4>3. todo' # <<>> /\ todo'[1].do = "name"
        BY <1>1, <4>1, NeedsMore DEF Needs, Beside
      <4>4. current_token' = unit'.name + 2
        <5>1. unit.name \in Nat
          BY AtTheCall, LexerAssumption DEF Token
        <5> QED
          BY <1>1, <2>2, <4>1, <5>1
      <4>5. IsNamed(unit)' /\ Kind(unit.name + 1)' = "of"
        BY <1>1, <4>1, <4>2 DEF IsNamed, NoLibraryBefore, Kind
      <4>6. EntityNext'
        BY <4>3, <4>4, <4>5 DEF EntityNext
      <4>7. \A i \in 1 .. Len(units') : units'[i].name # 0 /\ IsRecorded(units[i])'
        BY <1>1, <3>1 DEF IsRecorded, IsNamed, NoLibraryBefore, Kind
      <4> QED
        BY <4>6, <4>7 DEF UnitsRecorded
    <3> QED
      BY <2>3, <3>2, <3>3 DEF UnitsRecorded
  <2> QED
    BY <2>4, <2>5, <2>6
<1>5. ScansFirst'
  BY <1>3 DEF ScansFirst
<1> QED
  BY <1>3, <1>4, <1>5 DEF UnitsInv

LEMMA SameTasks ==
  ASSUME ParserInv, UnitsInv, GiveUp \/ Finish \/ UNCHANGED vars
  PROVE  UnitsInv'
PROOF
<1> USE DEF lexer
<1>1. CASE GiveUp
  BY <1>1, SameGoesOn DEF GiveUp
<1>2. CASE Finish
  BY <1>2, SameGoesOn DEF Finish, made
<1>3. CASE UNCHANGED vars
  BY <1>3, SameGoesOn DEF vars, parser
<1> QED
  BY <1>1, <1>2, <1>3

LEMMA UnitsStep == ParserInv /\ UnitsInv /\ [Next]_vars => UnitsInv'
PROOF
<1> SUFFICES ASSUME ParserInv, UnitsInv, [Next]_vars PROVE UnitsInv'
  OBVIOUS
<1>1. CASE GiveUp \/ Finish \/ UNCHANGED vars
  BY <1>1, SameTasks
<1>2. CASE \/ LibraryNames \/ NoDeclaration \/ NoSubtype \/ AttributeName
           \/ DropCheckpoint \/ NoRange
  BY <1>2, QuietEnds
<1>3. CASE \/ LibraryEnd \/ ObjectDeclaration \/ SubtypeIndication \/ Constraint \/ Suffix
           \/ Expression \/ ParseRange \/ RangeUpTo \/ RangeAgain
           \/ SequentialStatement \/ LabelledStatement \/ CallEnd
           \/ Generate \/ GenerateBody
  BY <1>3, QuietAsks
<1>4. CASE ScanFirst \/ EntityNamed \/ ClosingLabelOrNone \/ UnitEnd
  BY <1>4, KeepingEnds
<1>5. CASE DesignFile \/ PackageEnd \/ InstantiationLabel \/ OptionalToken \/ ContextClause
  BY <1>5, KeepingAsks
<1>6. CASE EnterMany \/ ParseElement \/ LeaveMany \/ SkipInMany
  BY <1>6, ListsGoOn
<1>7. CASE DesignUnit \/ resync_to_next_semicolon
  BY <1>7, UnitsGoOn
<1>8. CASE NoDesignUnit \/ NoStatement \/ EntityStatement \/ ConcurrentStatement
  BY <1>8, StatementsGoOn
<1>9. CASE UnitName
  BY <1>9, UnitNameGoesOn
<1>10. CASE ParseName
  BY <1>10, NameGoesOn
<1>11. CASE ConsumeToken
  BY <1>11, ConsumeGoesOn
<1> QED
  BY <1>1, <1>2, <1>3, <1>4, <1>5, <1>6, <1>7, <1>8, <1>9, <1>10, <1>11 DEF Next

LEMMA UnitsBegin == Init => UnitsInv
PROOF
<1> SUFFICES ASSUME Init PROVE UnitsInv
  OBVIOUS
<1> DEFINE s == <<Do("scan"), Do("file")>>
<1>1. todo = s /\ units = <<>> /\ unit.name = 0 /\ LexerInit
  BY DEF Init
<1>2. /\ Len(s) = 2 /\ s # <<>> /\ s[1] = Do("scan") /\ s[2] = Do("file")
      /\ 1 .. Len(s) - 1 = {1} /\ 1 .. Len(s) = {1, 2}
  OBVIOUS
<1> HIDE DEF s
<1>3. /\ Keeps(Do("scan")) /\ ~ Clean(Do("scan")) /\ ~ Needs(Do("file"))
      /\ Do("scan").do = "scan" /\ Do("file").do = "file" /\ ~ Needs(Do("scan"))
  BY DEF Do, Keeps, Clean, Needs, IsUnits, IsOptional, IsConsume
<1>4. Beside(Do("scan"), Do("file"))
  BY <1>3 DEF Beside, Needs
<1>5. Chained(todo)
  BY <1>1, <1>2, <1>3, <1>4 DEF Chained, AllBeside
<1>6. ScansFirst
  BY <1>1 DEF ScansFirst, LexerInit, current_token, MAX_LOOKBACK
<1>7. CleanNow /\ UnitBegins
  BY <1>1, <1>2, <1>3 DEF CleanNow, UnitBegins
<1>8. UnitsRecorded
  <2>1. 1 .. Len(units) = {}
    BY <1>1, EmptySeq
  <2> QED
    BY <1>1, <2>1 DEF UnitsRecorded, IsRecorded
<1> QED
  BY <1>5, <1>6, <1>7, <1>8 DEF UnitsInv

--------------------------------------------------------------------------------
(* The explorer's parser goes on, and not past a unit.                     *)

LEMMA NextUnitIs ==
  ASSUME file \in Seq(Kinds), NEW p \in 1 .. Len(file)
  PROVE  /\ NextUnit(p) \in p + 1 .. Len(file) + 1
         /\ \A q \in p + 1 .. Len(file) :
              BeginsUnit(file[q]) /\ file[q - 1] # "end" => NextUnit(p) <= q
PROOF
<1> DEFINE N == Len(file)
           found == {q \in p + 1 .. N : BeginsUnit(file[q]) /\ file[q - 1] # "end"}
           all == found \cup {N + 1}
<1>1. N \in Nat /\ p \in Nat /\ p <= N
  BY LenProperties
<1>2. found \subseteq p + 1 .. N
  OBVIOUS
<1>3. NextUnit(p) = CHOOSE q \in all : \A r \in found : q <= r
  BY DEF NextUnit
<1>4. \A q \in p + 1 .. N : BeginsUnit(file[q]) /\ file[q - 1] # "end" => q \in found
  OBVIOUS
<1> HIDE DEF N, found
<1>5. all \subseteq p + 1 .. N + 1 /\ all \subseteq Nat /\ all # {} /\ found \subseteq all
  BY <1>1, <1>2
<1>6. PICK m \in all : \A k \in all : ~ (k < m)
  BY <1>5, Least
<1>7. \A r \in found : m <= r
  <2> TAKE r \in found
  <2>1. r \in all /\ r \in Nat /\ m \in Nat
    BY <1>5
  <2>2. ~ (r < m)
    BY <1>6, <2>1
  <2> QED
    BY <2>1, <2>2
<1>8. NextUnit(p) \in all /\ \A r \in found : NextUnit(p) <= r
  BY <1>3, <1>7
<1> QED
  BY <1>4, <1>5, <1>8 DEF N

LEMMA KindsOfTokens ==
  ASSUME file \in Seq(Kinds), NEW n \in Nat
  PROVE  /\ n \in 1 .. Len(file) => Kind(n) = file[n] /\ Kind(n) \in Kinds
         /\ Kind(n) # "eof" => n \in 1 .. Len(file)
PROOF
<1>1. DOMAIN file = 1 .. Len(file) /\ \A i \in 1 .. Len(file) : file[i] \in Kinds
  BY LenProperties, ElementOfSeq
<1> QED
  BY <1>1 DEF Kind

LEMMA FollowingGoesOn ==
  ASSUME file \in Seq(Kinds), NEW p \in 1 .. Len(file)
  PROVE  Following(p) \in p + 1 .. Len(file) + 1
PROOF
<1>1. /\ Len(file) \in Nat /\ p \in Nat /\ p <= Len(file)
      /\ \A n \in Nat : Kind(n) # "eof" => n \in 1 .. Len(file)
  BY KindsOfTokens, LenProperties
<1>2. NextUnit(p) \in p + 1 .. Len(file) + 1
  BY NextUnitIs
<1>3. p < Len(file) => NextUnit(p + 1) \in p + 1 .. Len(file) + 1
  <2> SUFFICES ASSUME p < Len(file) PROVE NextUnit(p + 1) \in p + 1 .. Len(file) + 1
    OBVIOUS
  <2>1. p + 1 \in 1 .. Len(file)
    BY <1>1
  <2>2. NextUnit(p + 1) \in (p + 1) + 1 .. Len(file) + 1
    BY <2>1, NextUnitIs
  <2> QED
    BY <1>1, <2>2
<1>4. /\ p + 1 \in Nat /\ p + 2 \in Nat /\ p + 3 \in Nat
      /\ p + 1 \in p + 1 .. Len(file) + 1
      /\ Kind(p + 1) # "eof" => p + 2 \in p + 1 .. Len(file) + 1
      /\ Kind(p + 2) # "eof" => p + 3 \in p + 1 .. Len(file) + 1
      /\ Kind(p + 3) # "eof" => p + 4 \in p + 1 .. Len(file) + 1
  BY <1>1
<1> QED
  BY <1>2, <1>3, <1>4 DEF Following, UnitKeywords

(* Only after "library" or "end" is a unit passed over.                    *)
LEMMA NotPastAUnit ==
  ASSUME file \in Seq(Kinds), NEW p \in 1 .. Len(file), NEW q \in p + 1 .. Len(file),
         file[q] \in UnitKeywords, file[q - 1] \notin {"library", "end"}
  PROVE  Following(p) <= q
PROOF
<1>1. Len(file) \in Nat /\ p \in Nat /\ q \in Nat /\ p < q /\ q <= Len(file)
  BY LenProperties
<1>2. \A n \in Nat : n = q => Kind(n) \in UnitKeywords
  BY <1>1, KindsOfTokens
<1>3. BeginsUnit(file[q]) /\ file[q - 1] # "end"
  BY DEF BeginsUnit
<1>4. NextUnit(p) <= q
  BY <1>3, NextUnitIs
<1>5. file[p] = "library" => p + 1 < q /\ p + 1 \in 1 .. Len(file) /\ NextUnit(p + 1) <= q
  <2> SUFFICES ASSUME file[p] = "library"
               PROVE  p + 1 < q /\ p + 1 \in 1 .. Len(file) /\ NextUnit(p + 1) <= q
    OBVIOUS
  <2>1. p # q - 1
    OBVIOUS
  <2>2. p + 1 < q /\ p + 1 \in 1 .. Len(file) /\ q \in (p + 1) + 1 .. Len(file)
    BY <1>1, <2>1
  <2>3. NextUnit(p + 1) <= q
    BY <1>3, <2>2, NextUnitIs
  <2> QED
    BY <2>2, <2>3
<1>6. /\ p + 1 <= q
      /\ Kind(p + 1) = "identifier" => p + 2 <= q
      /\ Kind(p + 1) = "identifier" /\ Kind(p + 2) = "of" => p + 3 <= q
      /\ Kind(p + 1) = "identifier" /\ Kind(p + 2) = "of" /\ Kind(p + 3) = "identifier" =>
           p + 4 <= q
  <2>1. /\ Kind(p + 1) = "identifier" => p + 1 # q
        /\ Kind(p + 2) = "of" => p + 2 # q
        /\ Kind(p + 3) = "identifier" => p + 3 # q
    BY <1>1, <1>2 DEF UnitKeywords
  <2> QED
    BY <1>1, <2>1
<1> QED
  BY <1>4, <1>5, <1>6 DEF Following, UnitKeywords

--------------------------------------------------------------------------------
(* What the explorer finds.  Nothing says that its parser's recursive      *)
(* function exists: it does, because a token is followed by a later one.   *)

LEMMA ExploredIsFound ==
  ASSUME file \in Seq(Kinds)
  PROVE  \E g :
           /\ Explored = g[1]
           /\ \A p \in 1 .. Len(file) :
                g[p] = (IF RecordsUnit(p) THEN {[kind |-> file[p], name |-> p + 1]} ELSE {})
                       \cup g[Following(p)]
PROOF
<1> DEFINE N == Len(file)
           Here(p) == IF RecordsUnit(p) THEN {[kind |-> file[p], name |-> p + 1]} ELSE {}
           From(g, p) == IF p = N + 1 THEN {} ELSE Here(p) \cup g[Following(p)]
           Fits(n) == \E g : /\ g = [p \in 1 .. N + 1 |-> g[p]]
                             /\ \A p \in n .. N + 1 : g[p] = From(g, p)
           T == {n \in 1 .. N + 1 : Fits(n)}
<1>1. N \in Nat
  BY LenProperties
<1>2. \A p \in 1 .. N : Following(p) \in p + 1 .. N + 1
  BY FollowingGoesOn
<1> HIDE DEF N, Here
<1>3. Fits(N + 1)
  <2> DEFINE g == [p \in 1 .. N + 1 |-> {}]
  <2>1. g = [p \in 1 .. N + 1 |-> g[p]]
    OBVIOUS
  <2>2. \A p \in N + 1 .. N + 1 : g[p] = From(g, p)
    BY <1>1
  <2> QED
    BY <2>1, <2>2
<1>4. \A n \in 1 .. N : Fits(n + 1) => Fits(n)
  <2> SUFFICES ASSUME NEW n \in 1 .. N, Fits(n + 1) PROVE Fits(n)
    OBVIOUS
  <2>1. PICK g : /\ g = [p \in 1 .. N + 1 |-> g[p]]
                 /\ \A p \in n + 1 .. N + 1 : g[p] = From(g, p)
    OBVIOUS
  <2> DEFINE h == [p \in 1 .. N + 1 |-> IF p = n THEN From(g, n) ELSE g[p]]
  <2>2. h = [p \in 1 .. N + 1 |-> h[p]]
    OBVIOUS
  <2>3. \A p \in n + 1 .. N + 1 : p \in 1 .. N + 1 /\ p # n /\ h[p] = g[p]
    BY <1>1
  <2>4. \A p \in n .. N : Following(p) \in n + 1 .. N + 1
    <3> TAKE p \in n .. N
    <3>1. p \in 1 .. N /\ p >= n
      BY <1>1
    <3> QED
      BY <1>1, <1>2, <3>1
  <2>5. h[n] = From(g, n) /\ n # N + 1
    BY <1>1
  <2> HIDE DEF h
  <2>6. \A p \in n .. N : From(h, p) = From(g, p)
    BY <1>1, <2>3, <2>4
  <2>7. From(h, N + 1) = From(g, N + 1)
    OBVIOUS
  <2>8. \A p \in n .. N + 1 : h[p] = From(h, p)
    <3> TAKE p \in n .. N + 1
    <3>1. CASE p = n
      <4>1. n \in n .. N
        BY <1>1
      <4> QED
        BY <2>5, <2>6, <3>1, <4>1
    <3>2. CASE p # n
      <4>1. p \in n + 1 .. N + 1 /\ (p \in n .. N \/ p = N + 1)
        BY <1>1, <3>2
      <4> QED
        BY <2>1, <2>3, <2>6, <2>7, <4>1
    <3> QED
      BY <3>1, <3>2
  <2> QED
    BY <2>2, <2>8
<1>5. Fits(1)
  <2> HIDE DEF Fits
  <2>1. T \subseteq Nat /\ T # {}
    BY <1>1, <1>3
  <2>2. PICK m \in T : \A k \in T : ~ (k < m)
    BY <2>1, Least
  <2>3. m \in 1 .. N + 1 /\ Fits(m)
    BY <2>2
  <2>4. m = 1
    <3> SUFFICES ASSUME m # 1 PROVE FALSE
      OBVIOUS
    <3> DEFINE k == m - 1
    <3>1. k \in 1 .. N /\ k \in 1 .. N + 1 /\ k + 1 = m /\ k < m
      BY <1>1, <2>3
    <3> HIDE DEF k
    <3>2. Fits(k)
      BY <1>4, <2>3, <3>1
    <3>3. k \in T
      BY <3>1, <3>2
    <3> QED
      BY <2>2, <3>1, <3>3
  <2> QED
    BY <2>3, <2>4
<1>6. PICK g : g = [p \in 1 .. N + 1 |-> From(g, p)]
  <2>1. PICK g : /\ g = [p \in 1 .. N + 1 |-> g[p]]
                 /\ \A p \in 1 .. N + 1 : g[p] = From(g, p)
    BY <1>5
  <2>2. [p \in 1 .. N + 1 |-> g[p]] = [p \in 1 .. N + 1 |-> From(g, p)]
    BY <2>1
  <2> QED
    BY <2>1, <2>2
<1> DEFINE from == CHOOSE f : f = [p \in 1 .. N + 1 |-> From(f, p)]
<1>7. from = [p \in 1 .. N + 1 |-> From(from, p)]
  BY <1>6
<1>8. Explored = from[1]
  BY DEF Explored, N, Here
<1> HIDE DEF from
<1>9. \A p \in 1 .. N : from[p] = Here(p) \cup from[Following(p)]
  <2> TAKE p \in 1 .. N
  <2>1. p \in 1 .. N + 1 /\ p # N + 1
    BY <1>1
  <2>2. from[p] = From(from, p)
    BY <1>7, <2>1
  <2> QED
    BY <2>1, <2>2
<1> QED
  BY <1>8, <1>9 DEF N, Here

LEMMA UnitIsExplored ==
  ASSUME file \in Seq(Kinds), NEW q \in 1 .. Len(file), RecordsUnit(q),
         file[q] \in UnitKeywords, Kind(q - 1) \notin {"library", "end"}
  PROVE  [kind |-> file[q], name |-> q + 1] \in Explored
PROOF
<1> DEFINE u == [kind |-> file[q], name |-> q + 1]
<1>1. PICK g : /\ Explored = g[1]
               /\ \A p \in 1 .. Len(file) :
                    g[p] = (IF RecordsUnit(p) THEN {[kind |-> file[p], name |-> p + 1]}
                            ELSE {}) \cup g[Following(p)]
  BY ExploredIsFound
<1>2. Len(file) \in Nat /\ q \in Nat /\ 1 <= q /\ q <= Len(file)
  BY LenProperties
<1>3. u \in g[q]
  BY <1>1
<1>4. \A p \in 1 .. q - 1 : Following(p) \in p + 1 .. q /\ g[Following(p)] \subseteq g[p]
  <2> TAKE p \in 1 .. q - 1
  <2>1. /\ p \in 1 .. Len(file) /\ q \in p + 1 .. Len(file)
        /\ q - 1 \in Nat /\ q - 1 \in 1 .. Len(file)
    BY <1>2
  <2>2. file[q - 1] \notin {"library", "end"}
    BY <2>1, KindsOfTokens
  <2>3. Following(p) <= q
    BY <2>1, <2>2, NotPastAUnit
  <2>4. Following(p) \in p + 1 .. Len(file) + 1
    BY <2>1, FollowingGoesOn
  <2>5. g[Following(p)] \subseteq g[p]
    BY <1>1, <2>1
  <2> QED
    BY <1>2, <2>1, <2>3, <2>4, <2>5
<1> HIDE DEF u
<1> DEFINE T == {d \in 0 .. q - 1 : u \notin g[q - d]}
<1>5. T = {}
  <2> SUFFICES ASSUME T # {} PROVE FALSE
    OBVIOUS
  <2>1. T \subseteq Nat
    BY <1>2
  <2>2. PICK d \in T : \A k \in T : ~ (k < d)
    BY <2>1, Least
  <2>3. d \in 0 .. q - 1 /\ u \notin g[q - d]
    BY <2>2
  <2>4. d # 0
    BY <1>2, <1>3, <2>3
  <2> DEFINE p == q - d
             k == q - Following(p)
  <2>5. p \in 1 .. q - 1
    BY <1>2, <2>3, <2>4
  <2>6. Following(p) \in p + 1 .. q /\ g[Following(p)] \subseteq g[p]
    BY <1>4, <2>5
  <2>7. k \in 0 .. q - 1 /\ k < d /\ q - k = Following(p)
    BY <1>2, <2>3, <2>5, <2>6
  <2>8. u \in g[q - k]
    <3> HIDE DEF k
    <3> QED
      BY <2>2, <2>7
  <2> QED
    BY <2>3, <2>6, <2>7, <2>8
<1>6. q - 1 \in 0 .. q - 1 /\ q - (q - 1) = 1
  BY <1>2
<1>7. u \in g[1]
  BY <1>5, <1>6
<1> QED
  BY <1>1, <1>7 DEF u

(* A unit as UnitsInv has it is a unit that the explorer records.          *)
LEMMA RecordedIsExplored ==
  ASSUME ParserInv, NEW u \in Units, IsRecorded(u), Kind(u.name - 2) # "end"
  PROVE  u \in Explored
PROOF
<1> DEFINE q == u.name - 1
<1>1. file \in Seq(Kinds)
  BY ParserAssumption DEF ParserInv, Counts
<1>2. /\ u = [kind |-> u.kind, name |-> u.name]
      /\ u.kind \in UnitKeywords /\ u.name \in Nat /\ u.name # 0
  BY LexerAssumption DEF Units, Token
<1>3. /\ Kind(q) = u.kind /\ Kind(u.name) = "identifier" /\ Kind(q - 1) # "library"
      /\ u.kind = "architecture" =>
           Kind(u.name + 1) = "of" /\ Kind(u.name + 2) = "identifier"
  BY <1>2 DEF IsRecorded, IsNamed, NoLibraryBefore
<1>4. /\ q \in Nat /\ q + 1 - 1 = q /\ q + 2 - 1 = u.name /\ q + 3 - 1 = u.name + 1
      /\ q + 4 - 1 = u.name + 2 /\ q - 1 = u.name - 2 /\ q + 1 = u.name
      /\ q + 0 = q /\ q + 1 - 1 = q
  BY <1>2
<1> HIDE DEF q
<1>5. q \in 1 .. Len(file) /\ file[q] = u.kind
  BY <1>1, <1>2, <1>3, <1>4, KindsOfTokens DEF UnitKeywords
<1>6. RecordsUnit(q)
  <2>1. u.kind \in {"entity", "package"} => Matches(q, <<u.kind, "identifier">>)
    BY <1>2, <1>3, <1>4 DEF Matches
  <2>2. u.kind = "architecture" =>
          Matches(q, <<"architecture", "identifier", "of", "identifier">>)
    BY <1>2, <1>3, <1>4 DEF Matches
  <2> QED
    BY <1>2, <2>1, <2>2 DEF RecordsUnit, UnitKeywords
<1>7. [kind |-> file[q], name |-> q + 1] \in Explored
  BY <1>1, <1>2, <1>3, <1>4, <1>5, <1>6, UnitIsExplored
<1> QED
  BY <1>2, <1>4, <1>5, <1>7

(* The explorer's fast parser, which goes from keyword to keyword, finds   *)
(* every unit of a file of any length that the parser reads without a      *)
(* diagnostic, and even those parsed so far, but one after an "end" that   *)
(* a context clause skips.                                                 *)
THEOREM ExplorerFindsTheUnits ==
  Spec => []ExplorerMissesNothing
PROOF
<1>1. ParserInv /\ UnitsInv => ExplorerMissesNothing
  <2> SUFFICES ASSUME ParserInv, UnitsInv, ~ errors, NEW i \in DOMAIN units,
                      Kind(units[i].name - 2) # "end"
               PROVE  units[i] \in Explored
    BY DEF ExplorerMissesNothing
  <2>1. units \in Seq(Units)
    BY AtTheCall
  <2>2. i \in 1 .. Len(units) /\ units[i] \in Units
    BY <2>1, LenProperties, ElementOfSeq
  <2>3. IsRecorded(units[i])
    BY <2>2 DEF UnitsInv, UnitsRecorded
  <2> QED
    BY <2>2, <2>3, RecordedIsExplored
<1>2. Spec => []ParserInv
  BY ParserInvariant
<1> QED
  BY <1>1, <1>2, UnitsBegin, UnitsStep, PTL DEF Spec
================================================================================
