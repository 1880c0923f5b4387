--------------------------------- MODULE Parser --------------------------------
(***************************************************************************)
(* The VHDL parser of src/src/vhdl/parser.{h,cpp} on top of the lexer's    *)
(* tokens: recursive descent with the error recovery of parse_many, the    *)
(* look-ahead and the checkpoints of its productions, and the count of     *)
(* looks at one token after which it gives the file up.                    *)
(*                                                                         *)
(* A file is the sequence of the kinds of its tokens.  The kinds followed  *)
(* are those of Kinds; a case of the code that needs another kind of token *)
(* is left out: interface lists and whatever else is in parentheses, "for" *)
(* and the declarations and statements of other keywords.  The calls in    *)
(* progress are the sequence of what they have still to do.                *)
(***************************************************************************)
EXTENDS Lexer, FiniteSets

CONSTANTS
  Files,     \* the files to parse
  Patience   \* looks at one token; 100 in the code

Kinds ==
  {"library", "entity", "architecture", "package", "identifier", "is", "of",
   "begin", "end", "process", "loop", "null", "if", "then", "generate", "group",
   "variable", "range", "to", "tick", "colon", "semicolon"}

(* The tokens that may be lexed are those of every file and its end.       *)
ASSUME ParserAssumption ==
  /\ Patience \in Nat \ {0}
  /\ Files \subseteq Seq(Kinds)
  /\ \A f \in Files : Len(f) < MaxToken

VARIABLES
  file,            \* the kinds of the tokens of the file
  asserts,         \* the build evaluates assert
  todo,            \* what the calls in progress have still to do
  parsing_states,  \* the states of the calls of parse_many in progress
  count,           \* temporary_count_that_prevents_forever_loops
  expr,            \* what parse_name or parse_expression returned last
  unit,            \* the design unit being parsed
  units,           \* the design units parsed so far
  errors,          \* there are diagnostics
  outcome          \* "parsing", "parsed", "gave_up" or "aborted"

parser == <<file, asserts, todo, parsing_states, count, expr, unit, units,
            errors, outcome>>

vars == <<lexer, parser>>

Kind(n) == IF n \in DOMAIN file THEN file[n] ELSE "eof"

Current == Kind(current_token)

(* The nth token ahead, as peek returns it.                                *)
Ahead(nth) == Kind(IF nth = 0 THEN current_token ELSE Peeked(nth)[nth])

--------------------------------------------------------------------------------
(* The states of parse_many, the tokens an element begins with in each and *)
(* those that end it.                                                      *)

DeclarativeParts ==
  {"declarative_part_begin_end", "declarative_part_begin", "declarative_part_end"}

States ==
  DeclarativeParts \cup {"design_unit_in_design_file", "entity_statement_part",
                         "concurrent_statements", "sequential_statements"}

UnitKeywords == {"entity", "architecture", "package"}

BeginsElement(token, state) ==
  \/ state = "design_unit_in_design_file" /\ token \in UnitKeywords \cup {"library"}
  \/ state \in DeclarativeParts /\ token \in {"variable", "package", "group", "identifier"}
  \/ state = "entity_statement_part" /\ token \in {"identifier", "process"}
  \/ state = "concurrent_statements" /\ token \in {"identifier", "process", "entity", "if"}
  \/ state = "sequential_statements" /\ token \in {"identifier", "loop", "null", "if"}

(* The tokens that end a state, by its own function.                       *)
Closes(token, state) ==
  \/ state = "declarative_part_begin_end" /\ token \in {"begin", "end"}
  \/ state = "declarative_part_begin" /\ token = "begin"
  \/ state \in {"declarative_part_end", "entity_statement_part",
                "concurrent_statements", "sequential_statements"} /\ token = "end"

(* A fault: the end of the file ends no state.                             *)
EndsButForEof(token, state) == Closes(token, state)

(* A fault: "end" ends the design units too.                               *)
EndsUnitsToo(token, state) == token \in {"eof", "end"}

EndsState(token, state) == token = "eof" \/ Closes(token, state)

(* A token that another call of parse_many can go on with is not skipped.  *)
IsValidInParsingStates(token) ==
  \E s \in parsing_states : BeginsElement(token, s) \/ EndsState(token, s)

--------------------------------------------------------------------------------
(* What is to do, and the productions.                                     *)

Do(what) == [do |-> what]

Consume(token) == [do |-> "consume", token |-> token]

Optional(token, then) == [do |-> "optional", token |-> token, then |-> then]

Named(kind) == [do |-> "unit_name", kind |-> kind]

(* parse_many: the part is that of parse_declarative_item.                 *)
Many(state, part) == [do |-> "many", state |-> state, part |-> part]

InMany(state, part, saved) ==
  [do |-> "in_many", state |-> state, part |-> part, saved |-> saved]

Statement(labelled) == [do |-> "statement", labelled |-> labelled]

Declaration(part) == [do |-> "declaration", part |-> part]

LibraryClause ==
  <<Consume("library"), Do("library_names"), Do("library_end"), Consume("semicolon")>>

Entity ==
  <<Consume("entity"), Named("entity"), Consume("is"),
    Many("declarative_part_begin_end", "entity"),
    Optional("begin", <<Many("entity_statement_part", "none")>>),
    Consume("end"), Optional("entity", <<>>), Do("closing_label"),
    Consume("semicolon"), Do("unit_end")>>

Architecture ==
  <<Consume("architecture"), Named("architecture"), Consume("of"), Do("name"),
    Do("entity_named"), Consume("is"), Many("declarative_part_begin", "block"),
    Consume("begin"), Many("concurrent_statements", "none"), Consume("end"),
    Optional("architecture", <<>>), Do("closing_label"), Consume("semicolon"),
    Do("unit_end")>>

Package ==
  <<Consume("package"), Named("package"), Consume("is"),
    Many("declarative_part_end", "package"), Consume("end"),
    Optional("package", <<>>), Do("closing_label"), Do("package_end")>>

VariableDeclaration ==
  <<Consume("variable"), Consume("identifier"), Consume("colon"),
    Do("subtype"), Consume("semicolon")>>

RangeConstraint == <<Consume("range"), Do("range")>>

(* A fault: the checkpoint of the range is kept.                           *)
UpToAndKeep == <<Consume("to"), Do("expression")>>

UpTo == <<Consume("to"), Do("expression"), Do("drop_checkpoint")>>

Label(labelled) ==
  IF labelled THEN <<Consume("identifier"), Consume("colon")>> ELSE <<>>

ClosingLabel(labelled) == IF labelled THEN <<Do("closing_label")>> ELSE <<>>

ProcedureCall(labelled) == Label(labelled) \o <<Do("name"), Consume("semicolon")>>

Process(labelled) ==
  Label(labelled) \o
  <<Consume("process"), Optional("is", <<>>),
    Many("declarative_part_begin", "process"), Consume("begin"),
    Many("sequential_statements", "none"), Consume("end"), Consume("process")>>
  \o ClosingLabel(labelled) \o <<Consume("semicolon")>>

Instantiation ==
  <<Do("inst_label"), Optional("entity", <<>>), Do("name"), Consume("semicolon")>>

Loop(labelled) ==
  <<Consume("loop"), Many("sequential_statements", "none"), Consume("end"),
    Consume("loop")>> \o ClosingLabel(labelled) \o <<Consume("semicolon")>>

If(labelled) ==
  <<Consume("if"), Do("expression"), Consume("then"),
    Many("sequential_statements", "none"), Consume("end"), Consume("if")>>
  \o ClosingLabel(labelled) \o <<Consume("semicolon")>>

IfGenerate(labelled) ==
  <<Do("inst_label"), Consume("if"), Do("expression"), Consume("generate"),
    Do("generate"), Consume("end"), Consume("generate")>>
  \o ClosingLabel(labelled) \o <<Consume("semicolon")>>

(* The element of a state.                                                 *)
Element(state, part) ==
  CASE state = "design_unit_in_design_file" -> <<Do("context_clause"), Do("design_unit")>>
    [] state \in DeclarativeParts           -> <<Declaration(part)>>
    [] state = "entity_statement_part"      -> <<Do("entity_statement")>>
    [] state = "concurrent_statements"      -> <<Do("concurrent")>>
    [] state = "sequential_statements"      -> <<Do("sequential")>>

--------------------------------------------------------------------------------
(* Steps.  A step that asks for the kind of the current token counts it.   *)

Parsing == outcome = "parsing"

Task == Head(todo)

Doing(what) == Parsing /\ todo # <<>> /\ Task.do = what

Then(script) == todo' = script \o Tail(todo)

(* A fault: one look more than those that are allowed.                     *)
PatientOnceMore == count <= Patience

Patient == count < Patience

Look == Patient /\ UNCHANGED lexer /\ count' = count + 1

LookAt(token) == Look /\ Current = token

Skip == scan /\ count' = 0

Stay == UNCHANGED <<lexer, count>>

Diagnosed(is_wrong) == errors' = (errors \/ is_wrong)

context == <<file, asserts, parsing_states, outcome>>

made == <<expr, unit, units>>

--------------------------------------------------------------------------------
(* The constructor scans the token that is current when parsing begins.    *)
ScanFirst ==
  /\ Doing("scan")
  /\ scan
  /\ Then(<<>>)
  /\ UNCHANGED <<count, errors, context, made>>

DesignFile ==
  /\ Doing("file")
  /\ Look
  /\ Then(IF Current = "eof" THEN <<>>
          ELSE <<Many("design_unit_in_design_file", "none")>>)
  /\ Diagnosed(Current = "eof")
  /\ UNCHANGED <<context, made>>

(* parse_many keeps the states of the calls around it, adds its own, and   *)
(* restores them when it returns.                                          *)
EnterMany ==
  /\ Doing("many")
  /\ parsing_states' = parsing_states \cup {Task.state}
  /\ Then(<<InMany(Task.state, Task.part, parsing_states)>>)
  /\ Stay
  /\ UNCHANGED <<file, asserts, outcome, errors, made>>

ParseElement ==
  /\ Doing("in_many")
  /\ ~EndsState(Current, Task.state)
  /\ BeginsElement(Current, Task.state)
  /\ Look
  /\ Then(Append(Element(Task.state, Task.part), Task))
  /\ UNCHANGED <<errors, context, made>>

(* A fault: the state of the call stays set.                               *)
NotRestored == parsing_states

Restored == Task.saved

LeaveMany ==
  /\ Doing("in_many")
  /\ \/ EndsState(Current, Task.state)
     \/ /\ ~BeginsElement(Current, Task.state)
        /\ IsValidInParsingStates(Current)
  /\ Look
  /\ Then(<<>>)
  /\ parsing_states' = Restored
  /\ UNCHANGED <<file, asserts, outcome, errors, made>>

SkipInMany ==
  /\ Doing("in_many")
  /\ ~EndsState(Current, Task.state)
  /\ ~BeginsElement(Current, Task.state)
  /\ ~IsValidInParsingStates(Current)
  /\ Patient
  /\ Skip
  /\ errors' = TRUE
  /\ UNCHANGED <<todo, context, made>>

ConsumeToken ==
  /\ Doing("consume")
  /\ IF Current = Task.token THEN scan ELSE UNCHANGED lexer
  /\ count' = 0
  /\ Then(<<>>)
  /\ Diagnosed(Current # Task.token)
  /\ UNCHANGED <<context, made>>

OptionalToken ==
  /\ Doing("optional")
  /\ IF Current = Task.token THEN Skip /\ Then(Task.then)
                             ELSE Stay /\ Then(<<>>)
  /\ UNCHANGED <<errors, context, made>>

--------------------------------------------------------------------------------
(* Design units.                                                           *)

ContextClause ==
  /\ Doing("context_clause")
  /\ IF Current \in UnitKeywords \cup {"library", "eof"}
       THEN /\ Look
            /\ Then(IF Current = "library"
                      THEN Append(LibraryClause, Task) ELSE <<>>)
       ELSE Patient /\ Skip /\ UNCHANGED todo
  /\ UNCHANGED <<errors, context, made>>

(* The identifier of a library clause, unless the file ends.               *)
LibraryNames ==
  /\ Doing("library_names")
  /\ IF Current = "identifier" THEN Patient /\ Skip ELSE Look
  /\ Then(<<>>)
  /\ Diagnosed(Current \notin {"identifier", "eof"})
  /\ UNCHANGED <<context, made>>

LibraryEnd ==
  /\ Doing("library_end")
  /\ Look
  /\ Then(IF Current = "semicolon" THEN <<>> ELSE <<Do("resync")>>)
  /\ UNCHANGED <<errors, context, made>>

resync_to_next_semicolon ==
  /\ Doing("resync")
  /\ scan
  /\ todo' = IF Ahead(1) \in {"semicolon", "eof"} THEN Tail(todo) ELSE todo
  /\ UNCHANGED <<count, errors, context, made>>

(* Whatever cannot go on: an assertion, or nothing when it is compiled out.*)
NeverGetHere ==
  /\ outcome' = IF asserts THEN "aborted" ELSE outcome
  /\ todo' = IF asserts THEN todo ELSE Tail(todo)
  /\ UNCHANGED <<file, asserts, parsing_states, errors, made>>

UnitScript(token) ==
  CASE token = "entity"       -> Entity
    [] token = "architecture" -> Architecture
    [] token = "package"      -> Package

DesignUnit ==
  /\ Doing("design_unit")
  /\ Current \in UnitKeywords
  /\ Patient
  /\ IF Current = "package" THEN peek(1) ELSE UNCHANGED lexer
  /\ count' = count + 1
  /\ Then(UnitScript(Current))
  /\ UNCHANGED <<errors, context, made>>

NoDesignUnit ==
  /\ Doing("design_unit")
  /\ Current \notin UnitKeywords
  /\ Look
  /\ NeverGetHere

(* A unit without an identifier has the name 0.                            *)
UnitName ==
  /\ Doing("unit_name")
  /\ IF Current = "identifier" THEN Skip ELSE Stay
  /\ unit' = [kind |-> Task.kind,
              name |-> IF Current = "identifier" THEN current_token ELSE 0]
  /\ Then(<<>>)
  /\ Diagnosed(Current # "identifier")
  /\ UNCHANGED <<expr, units, context>>

EntityNamed ==
  /\ Doing("entity_named")
  /\ unit' = IF expr = "none" THEN [unit EXCEPT !.name = 0] ELSE unit
  /\ Then(<<>>)
  /\ Stay
  /\ UNCHANGED <<errors, expr, units, context>>

ClosingLabelOrNone ==
  /\ Doing("closing_label")
  /\ IF Current = "identifier" THEN Patient /\ Skip ELSE Look
  /\ Then(<<>>)
  /\ UNCHANGED <<errors, context, made>>

(* A package without an identifier returns before its semicolon.           *)
PackageEnd ==
  /\ Doing("package_end")
  /\ Then(IF unit.name = 0 THEN <<>> ELSE <<Consume("semicolon"), Do("unit_end")>>)
  /\ Stay
  /\ UNCHANGED <<errors, context, made>>

UnitEnd ==
  /\ Doing("unit_end")
  /\ units' = IF unit.name = 0 THEN units ELSE Append(units, unit)
  /\ Then(<<>>)
  /\ Stay
  /\ UNCHANGED <<errors, expr, unit, context>>

--------------------------------------------------------------------------------
(* Declarations, names, expressions and ranges.                            *)

(* These begin an element of every declarative part, and of neither is     *)
(* anything consumed.                                                      *)
NoDeclaration ==
  /\ Doing("declaration")
  /\ Current \in {"package", "group"}
  /\ Look
  /\ Then(<<>>)
  /\ Diagnosed(Current = "package")
  /\ UNCHANGED <<context, made>>

ObjectDeclaration ==
  /\ Doing("declaration")
  /\ Current \notin {"package", "group"}
  /\ Look
  /\ Then(VariableDeclaration)
  /\ Diagnosed(Current = "identifier" \/ Task.part # "process")
  /\ UNCHANGED <<context, made>>

SubtypeIndication ==
  /\ Doing("subtype")
  /\ Current = "identifier"
  /\ Patient
  /\ peek(1)
  /\ count' = count + 1
  /\ Then((IF Ahead(1) = "identifier" THEN <<Do("name")>> ELSE <<>>)
          \o <<Do("name"), Do("constraint")>>)
  /\ UNCHANGED <<errors, context, made>>

NoSubtype ==
  /\ Doing("subtype")
  /\ Current # "identifier"
  /\ Look
  /\ Then(<<>>)
  /\ UNCHANGED <<errors, context, made>>

Constraint ==
  /\ Doing("constraint")
  /\ Look
  /\ Then(IF Current = "range" THEN RangeConstraint ELSE <<>>)
  /\ UNCHANGED <<errors, context, made>>

ParseName ==
  /\ Doing("name")
  /\ IF Current = "identifier"
       THEN Patient /\ Skip /\ expr' = "simple" /\ Then(<<Do("suffix")>>)
       ELSE Look /\ expr' = "none" /\ Then(<<>>)
  /\ Diagnosed(Current # "identifier")
  /\ UNCHANGED <<unit, units, context>>

Suffix ==
  /\ Doing("suffix")
  /\ Patient
  /\ IF Current = "tick"
       THEN peek(1) /\ Then(<<Consume("tick"), Do("attribute"), Task>>)
       ELSE UNCHANGED lexer /\ Then(<<>>)
  /\ count' = count + 1
  /\ UNCHANGED <<errors, context, made>>

(* An attribute is any token.                                              *)
AttributeName ==
  /\ Doing("attribute")
  /\ Skip
  /\ expr' = IF Current = "range" THEN "range" ELSE "other"
  /\ Then(<<>>)
  /\ UNCHANGED <<errors, unit, units, context>>

(* One look is counted for those of the whole chain of parse_expression,   *)
(* nine when there is no operand.                                          *)
Expression ==
  /\ Doing("expression")
  /\ IF Current = "null" THEN Patient /\ Skip ELSE Look
  /\ expr' = "none"
  /\ Then(IF Current = "identifier" THEN <<Do("name")>> ELSE <<>>)
  /\ Diagnosed(Current \notin {"identifier", "null"})
  /\ UNCHANGED <<unit, units, context>>

ParseRange ==
  /\ Doing("range")
  /\ add_checkpoint
  /\ Then(<<Do("expression"), Do("range_end")>>)
  /\ UNCHANGED <<count, errors, context, made>>

(* The guard of the scope, when parse_range returns.                       *)
DropCheckpoint ==
  /\ Doing("drop_checkpoint")
  /\ drop_checkpoint
  /\ Then(<<>>)
  /\ UNCHANGED <<count, errors, context, made>>

RangeUpTo ==
  /\ Doing("range_end")
  /\ LookAt("to")
  /\ Then(UpTo)
  /\ UNCHANGED <<errors, context, made>>

(* The name of a range attribute is parsed a second time.                  *)
RangeAgain ==
  /\ Doing("range_end")
  /\ Current # "to" /\ expr = "range"
  /\ Patient
  /\ backtrack
  /\ count' = count + 1
  /\ Then(<<Do("name")>>)
  /\ UNCHANGED <<errors, context, made>>

NoRange ==
  /\ Doing("range_end")
  /\ Current # "to" /\ expr # "range"
  /\ Patient
  /\ drop_checkpoint
  /\ count' = count + 1
  /\ Then(<<>>)
  /\ errors' = TRUE
  /\ UNCHANGED <<context, made>>

--------------------------------------------------------------------------------
(* Statements.                                                             *)

HasLabel == Current = "identifier" /\ Ahead(1) = "colon"

First == Ahead(IF HasLabel THEN 2 ELSE 0)

Second == Ahead(IF HasLabel THEN 3 ELSE 1)

Farthest == IF HasLabel THEN 3 ELSE 1

(* How far look_for goes: to a semicolon or the end of the file.           *)
EndAhead ==
  CHOOSE n \in Token :
    /\ Ahead(n) \in {"semicolon", "eof"}
    /\ \A k \in 0 .. n - 1 : Ahead(k) \notin {"semicolon", "eof"}

(* A fault: an element of the state that its dispatcher does not know.     *)
CallsOnly == IF First = "identifier" THEN ProcedureCall(HasLabel) ELSE <<>>

(* What the dispatchers start, or nothing.                                 *)
EntityStatementScript ==
  CASE First = "identifier" -> ProcedureCall(HasLabel)
    [] First = "process"    -> Process(HasLabel)
    [] OTHER                -> <<>>

ConcurrentScript ==
  CASE First = "identifier" ->
         IF HasLabel /\ Second = "semicolon" THEN Instantiation
                                             ELSE ProcedureCall(HasLabel)
    [] First = "process" -> Process(HasLabel)
    [] First = "entity"  -> Instantiation
    [] First = "if" /\ Ahead(2) = "if" -> IfGenerate(HasLabel)
    [] OTHER             -> <<>>

(* parse_generate_statement looks at the second token in any case.         *)
FarthestOfConcurrent == IF First = "if" /\ ~HasLabel THEN 2 ELSE Farthest

EntityStatement ==
  /\ Doing("entity_statement")
  /\ peek(Farthest)
  /\ UNCHANGED count
  /\ IF EntityStatementScript = <<>>
       THEN NeverGetHere
       ELSE Then(EntityStatementScript) /\ UNCHANGED <<errors, context>>
  /\ UNCHANGED made

(* A generate statement without a label is nothing, and no assertion.      *)
ConcurrentStatement ==
  /\ Doing("concurrent")
  /\ peek(IF EndAhead > FarthestOfConcurrent THEN EndAhead ELSE FarthestOfConcurrent)
  /\ UNCHANGED count
  /\ IF ConcurrentScript = <<>> /\ First # "if"
       THEN NeverGetHere
       ELSE Then(ConcurrentScript) /\ UNCHANGED <<errors, context>>
  /\ UNCHANGED made

InstantiationLabel ==
  /\ Doing("inst_label")
  /\ IF Current = "identifier"
       THEN Skip /\ Then(<<Consume("colon")>>)
       ELSE Stay /\ Then(<<Optional("colon", <<>>)>>)
  /\ Diagnosed(Current # "identifier")
  /\ UNCHANGED <<context, made>>

(* What follows the keyword of a generate statement.                       *)
GenerateStatements ==
  IF Current = "end" THEN <<>> ELSE <<Many("concurrent_statements", "none")>>

Generate ==
  /\ Doing("generate")
  /\ Look
  /\ Then(CASE Current \in {"variable", "group"} ->
                <<Many("declarative_part_begin", "block"), Consume("begin"),
                  Do("generate_body")>>
            [] Current = "begin" -> <<Consume("begin"), Do("generate_body")>>
            [] OTHER -> GenerateStatements)
  /\ UNCHANGED <<errors, context, made>>

GenerateBody ==
  /\ Doing("generate_body")
  /\ Look
  /\ Then(GenerateStatements)
  /\ UNCHANGED <<errors, context, made>>

(* parse_optional_label, then the statement itself.                        *)
SequentialStatement ==
  /\ Doing("sequential")
  /\ IF Current = "identifier" THEN peek(1) ELSE UNCHANGED lexer
  /\ UNCHANGED count
  /\ Then(Append(Label(HasLabel), Statement(HasLabel)))
  /\ UNCHANGED <<errors, context, made>>

StatementScript ==
  CASE Current = "identifier" -> <<Do("name"), Do("call_end")>>
    [] Current = "loop"       -> Loop(Task.labelled)
    [] Current = "if"         -> If(Task.labelled)
    [] Current = "null"       -> <<Consume("null"), Consume("semicolon")>>

LabelledStatement ==
  /\ Doing("statement")
  /\ BeginsElement(Current, "sequential_statements")
  /\ Look
  /\ Then(StatementScript)
  /\ UNCHANGED <<errors, context, made>>

NoStatement ==
  /\ Doing("statement")
  /\ ~BeginsElement(Current, "sequential_statements")
  /\ Look
  /\ NeverGetHere

(* A name that nothing follows is skipped with the token after it.         *)
CallEnd ==
  /\ Doing("call_end")
  /\ IF Current = "semicolon"
       THEN Look /\ Then(<<Consume("semicolon")>>)
       ELSE Patient /\ Skip /\ Then(<<>>)
  /\ Diagnosed(Current # "semicolon")
  /\ UNCHANGED <<context, made>>

--------------------------------------------------------------------------------
(* The whole parse.                                                        *)

(* What asks for the kind of the current token.                            *)
Looking ==
  {"file", "in_many", "context_clause", "library_names", "library_end",
   "design_unit", "closing_label", "declaration", "subtype", "constraint",
   "name", "suffix", "expression", "range_end", "generate", "generate_body",
   "statement", "call_end"}

(* The exception of current_token leaves every call; the units are lost.   *)
GiveUp ==
  /\ Parsing /\ todo # <<>>
  /\ Task.do \in Looking
  /\ ~Patient
  /\ outcome' = "gave_up"
  /\ units' = <<>>
  /\ errors' = TRUE
  /\ UNCHANGED <<lexer, file, asserts, todo, parsing_states, count, expr, unit>>

Finish ==
  /\ Parsing /\ todo = <<>>
  /\ outcome' = "parsed"
  /\ UNCHANGED <<lexer, file, asserts, todo, parsing_states, count, errors, made>>

Init ==
  /\ LexerInit
  /\ file \in Files
  /\ asserts \in BOOLEAN
  /\ todo = <<Do("scan"), Do("file")>>
  /\ parsing_states = {}
  /\ count = 0
  /\ expr = "none"
  /\ unit = [kind |-> "entity", name |-> 0]
  /\ units = <<>>
  /\ errors = FALSE
  /\ outcome = "parsing"

Next ==
  \/ ScanFirst \/ DesignFile \/ GiveUp \/ Finish
  \/ EnterMany \/ ParseElement \/ LeaveMany \/ SkipInMany
  \/ ConsumeToken \/ OptionalToken
  \/ ContextClause \/ LibraryNames \/ LibraryEnd \/ resync_to_next_semicolon
  \/ DesignUnit \/ NoDesignUnit \/ UnitName \/ EntityNamed \/ ClosingLabelOrNone
  \/ PackageEnd \/ UnitEnd
  \/ NoDeclaration \/ ObjectDeclaration \/ SubtypeIndication \/ NoSubtype
  \/ Constraint \/ ParseName \/ Suffix \/ AttributeName \/ Expression
  \/ ParseRange \/ DropCheckpoint \/ RangeUpTo \/ RangeAgain \/ NoRange
  \/ EntityStatement \/ ConcurrentStatement \/ InstantiationLabel
  \/ Generate \/ GenerateBody
  \/ SequentialStatement \/ LabelledStatement \/ NoStatement \/ CallEnd

Spec == Init /\ [][Next]_vars

(* One thread parses a file and waits for nothing.                         *)
FairSpec == Spec /\ WF_vars(Next)

--------------------------------------------------------------------------------
(* The units that the explorer's fast_parser finds in the same file.       *)

(* A fault: a keyword forgotten among those that begin a unit.             *)
BeginsPrimaryUnit(token) == token \in {"library", "entity", "package"}

BeginsUnit(token) == token \in UnitKeywords \cup {"library"}

(* resync_to_next_unit from the token p.                                   *)
NextUnit(p) ==
  LET found == {q \in p + 1 .. Len(file) : BeginsUnit(file[q]) /\ file[q - 1] # "end"}
  IN  CHOOSE q \in found \cup {Len(file) + 1} : \A r \in found : q <= r

Matches(p, kinds) == \A i \in DOMAIN kinds : Kind(p + i - 1) = kinds[i]

(* The unit that the explorer records from the token p on.                 *)
RecordsUnit(p) ==
  \/ Matches(p, <<"entity", "identifier">>)
  \/ Matches(p, <<"package", "identifier">>)
  \/ Matches(p, <<"architecture", "identifier", "of", "identifier">>)

(* The token it goes on with.                                              *)
Following(p) ==
  CASE file[p] \in {"entity", "package"} /\ Kind(p + 1) = "identifier" -> p + 2
    [] file[p] = "architecture" /\ Kind(p + 1) = "identifier" ->
         IF Kind(p + 2) # "of" THEN p + 2
         ELSE IF Kind(p + 3) = "identifier" THEN p + 4 ELSE p + 3
    [] file[p] \in UnitKeywords /\ Kind(p + 1) # "identifier" -> p + 1
    [] file[p] = "library" /\ p < Len(file) -> NextUnit(p + 1)
    [] OTHER -> NextUnit(p)

Explored ==
  LET from[p \in 1 .. Len(file) + 1] ==
        IF p = Len(file) + 1 THEN {}
        ELSE (IF RecordsUnit(p) THEN {[kind |-> file[p], name |-> p + 1]} ELSE {})
             \cup from[Following(p)]
  IN  from[1]

--------------------------------------------------------------------------------
(* Properties.                                                             *)

Open == {i \in DOMAIN todo : todo[i].do = "in_many"}

(* What the parser keeps has the shape it is used with.                    *)
TypeOK ==
  /\ LexerTypeOK
  /\ file \in Seq(Kinds)
  /\ asserts \in BOOLEAN
  /\ parsing_states \subseteq States
  /\ count \in 0 .. Patience
  /\ expr \in {"none", "simple", "range", "other"}
  /\ unit \in [kind : UnitKeywords, name : Token]
  /\ \A i \in DOMAIN units : units[i] \in [kind : UnitKeywords, name : Token \ {0}]
  /\ errors \in BOOLEAN
  /\ outcome \in {"parsing", "parsed", "gave_up", "aborted"}

(* The set of states that decides whether a token is skipped or left to a  *)
(* caller is that of the calls of parse_many in progress, at every depth   *)
(* and after every recovery, though each call saves and restores the whole *)
(* set.                                                                    *)
StatesAreThoseOpen ==
  /\ parsing_states = {todo[i].state : i \in Open}
  /\ \A i \in Open : todo[i].saved = {todo[j].state : j \in {k \in Open : k > i}}

(* A file that is parsed is parsed to its end: no "end" too many, and no   *)
(* token that a state leaves to its callers, ends the parse before.        *)
ReadsToTheEnd == outcome = "parsed" => Current = "eof"

Innermost == todo[CHOOSE i \in Open : \A j \in Open : i <= j].state

LabelAlone ==
  /\ Matches(current_token, <<"identifier", "colon">>)
  /\ ~BeginsElement(Kind(current_token + 2), Innermost)

(* An "if" without a label, unless one is the second token after it.       *)
IfAlone ==
  /\ Innermost = "concurrent_statements"
  /\ Current = "if" /\ Kind(current_token + 2) # "if"

(* In what the kinds of Kinds can make up, the recovery gets past every    *)
(* error but at these places: a package or a group in a declarative part,  *)
(* a label with no statement after it, an "if" without a label among       *)
(* concurrent statements, and a context clause with no unit after it.      *)
(* Everywhere else the parser neither asks for one token until it gives    *)
(* the whole file up nor reaches an assertion, however deep the constructs *)
(* around the error.                                                       *)
GivesUpOnlyWhenStuck ==
  outcome \in {"gave_up", "aborted"} =>
    \/ Current \in {"package", "group"} /\ Innermost \in DeclarativeParts
    \/ LabelAlone
    \/ IfAlone
    \/ Task.do = "statement" /\ Task.labelled
    \/ Task.do = "design_unit" /\ Current = "eof"

(* What the end of a range has to do with its checkpoint.                  *)
Releases == {i \in DOMAIN todo : todo[i].do \in {"range_end", "drop_checkpoint"}}

(* Every checkpoint that a range adds is dropped or returned to on every   *)
(* path, recoveries included: those on the lexer's stack are as many as    *)
(* the calls of parse_range that have still to release theirs.  One kept   *)
(* would record every token of the rest of the file.                       *)
CheckpointsAreReleased == Len(checkpoints_) = Cardinality(Releases)

(* The two parsers of this code agree: a unit in a file that the parser    *)
(* has nothing to say against is found by the explorer's fast parser,      *)
(* which skips from keyword to keyword, so the libraries hold it.  The one *)
(* exception is a unit right after an "end" that a context clause skips    *)
(* without a diagnostic: the explorer takes it for the end of a unit.      *)
ExplorerMissesNothing ==
  outcome = "parsed" /\ ~errors =>
    \A i \in DOMAIN units :
      units[i] \in Explored \/ Kind(units[i].name - 2) = "end"

(* Whatever the file, the parse ends.                                      *)
ParseEnds == <>(outcome # "parsing")

================================================================================
