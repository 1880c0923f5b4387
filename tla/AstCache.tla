-------------------------------- MODULE AstCache -------------------------------
(***************************************************************************)
(* The ast of one VHDL document (src/src/vhdl/ast.cpp): its cache of the   *)
(* library units the document refers to, which are parsed and analysed on  *)
(* demand while the units that name them are being analysed.  One thread   *)
(* works on the ast.  Meanwhile files are saved, and the explorer puts     *)
(* units into the library (src/src/vhdl/library_manager.cpp).              *)
(*                                                                         *)
(* A file is the sequence of units the parser finds in it, and a unit is   *)
(* its kind, its name and the names it needs: those of its use clauses     *)
(* and, of an architecture, its entity.  All of them are in one library.   *)
(***************************************************************************)
EXTENDS Naturals, Sequences, SequencesExt

CONSTANTS
  Files,        \* files of the project
  Names,        \* names of units
  Main,         \* the document this ast belongs to
  Contents,     \* per file what it may hold once it is saved
  NoFile,       \* among the contents: the file cannot be read
  Initially,    \* per file its content at the start
  MaxSaves,     \* bound: saves of all files
  MaxUpdates,   \* bound: updates of the ast
  MaxIndexed    \* bound: files the explorer reads

PrimaryKinds == {"entity", "package"}

Kinds == PrimaryKinds \cup {"architecture", "body"}

Units == [kind : Kinds, name : Names, needs : Seq(Names)]

UnitsIn(content) == IF content = NoFile THEN <<>> ELSE content

UnitsOf(f) == UNION {Range(UnitsIn(c)) : c \in Contents[f]}

Declares(f, name) ==
  \E u \in UnitsOf(f) : u.kind \in PrimaryKinds /\ u.name = name

DeclaredBefore(content, i, name) ==
  \E j \in 1 .. i - 1 :
    content[j].kind \in PrimaryKinds /\ content[j].name = name

HeadOf(f, name) ==
  \A c \in Contents[f] : UnitsIn(c) # <<>> =>
    c[1].kind \in PrimaryKinds /\ c[1].name = name

(* Loading a unit loads those it needs, and the recursion has no guard of  *)
(* its own.  It comes back where a name that is needed is declared further *)
(* up in the same file, in a file lower in some order, or at the head of a *)
(* file of the same rank: a head is in analysis, and in the cache, when it *)
(* is needed again.  Where two files need each other in another way, the   *)
(* second load of a file is one that its first has caused.                 *)
GroundedBy(rank) ==
  \A f, g \in Files : \A c \in Contents[f] :
    \A i \in DOMAIN UnitsIn(c) : \A name \in Range(c[i].needs) :
      Declares(g, name) =>
        \/ rank[g] < rank[f]
        \/ rank[g] = rank[f] /\ f # g /\ HeadOf(g, name)
        \/ f = g /\ DeclaredBefore(c, i, name)

ASSUME Grounded == \E rank \in [Files -> 1 .. Cardinality(Files)] : GroundedBy(rank)

ASSUME AstAssumption ==
  /\ IsFiniteSet(Files)
  /\ Main \in Files
  /\ \A f \in Files : \A c \in Contents[f] : c = NoFile \/ c \in Seq(Units)
  /\ Initially \in [Files -> UNION {Contents[f] : f \in Files}]
  /\ \A f \in Files : Initially[f] \in Contents[f]
  /\ {MaxSaves, MaxUpdates, MaxIndexed} \subseteq Nat

VARIABLES
  \* the files and the library
  disk,          \* per file its content
  saves,         \* per file how often it was saved
  unreported,    \* saved files the ast has not been told of
  known,         \* the work library is one of vhdl_config.yaml
  rows,          \* the rows of the library's table, in the order of their ids
  indexing,      \* rows the explorer has still to put
  indexed,       \* files the explorer has read
  \* the ast
  cache,         \* cached_library_units of the work library
  invalidated_,
  main_file,     \* the parse whose units are the document's; 0 for none
  parses,        \* parses so far: each gives its units new addresses
  updates,       \* updates so far
  stack,         \* the calls of update and load_primary_unit in progress
  \* history, for the properties
  abandoned      \* parses whose analysis an exception has ended

world == <<disk, saves, unreported, known, rows, indexing, indexed>>

tree == <<cache, invalidated_, main_file, parses, updates, stack, abandoned>>

vars == <<world, tree>>

Idle == stack = <<>>

--------------------------------------------------------------------------------
(* The library's table.                                                    *)

Row(u, f) == [kind |-> u.kind, name |-> u.name, file |-> f]

(* Two rows have one ID when both are primary or both secondary units of   *)
(* one name.                                                               *)
SameId(r, s) ==
  /\ r.name = s.name
  /\ (r.kind \in PrimaryKinds) = (s.kind \in PrimaryKinds)

(* No two rows have one ID.                                                *)
Without(table, row) ==
  IF \E i \in DOMAIN table : SameId(table[i], row)
    THEN RemoveAt(table, CHOOSE i \in DOMAIN table : SameId(table[i], row))
    ELSE table

(* INSERT OR REPLACE deletes the row that is there and appends the new     *)
(* one.  An architecture's row carries an IDENTIFIER2: no look-up by name  *)
(* alone returns it, and it is left out.                                   *)
Put(table, row) ==
  IF row.kind = "architecture" THEN table ELSE Append(Without(table, row), row)

HasRow(name) == \E i \in DOMAIN rows : rows[i].name = name

(* The first row with the identifier and no IDENTIFIER2: a package and its *)
(* body both have one.                                                     *)
RowNamed(name) ==
  rows[CHOOSE i \in DOMAIN rows :
         rows[i].name = name /\ \A j \in 1 .. i - 1 : rows[j].name # name]

InLibrary(name) == known /\ HasRow(name) /\ RowNamed(name).kind \in PrimaryKinds

--------------------------------------------------------------------------------
(* The cache.  A unit is known by its address, which is the number of its  *)
(* parse and its place in the file.                                        *)

Cached(f, u) ==
  [file |-> f, read |-> saves[f], unit |-> u, state |-> "parsed", depends |-> {}]

(* The cache once file f has been parsed.  A unit of the parse takes the   *)
(* place of the one with its address: no cached unit has one of a new      *)
(* parse, so those of the file's previous parse stay.                      *)
Parsed(f, units) ==
  LET fresh == {<<parses + 1, i>> : i \in DOMAIN disk[f]}
  IN  [s \in DOMAIN units \cup fresh |->
         IF s \in fresh THEN Cached(f, disk[f][s[2]]) ELSE units[s]]

(* A fault: a unit that is being analysed is not returned.                 *)
IsFinished(v) == v.state = "analysed"

(* A unit that is neither outdated nor merely parsed is returned, also one *)
(* that is still being analysed.                                           *)
IsCandidate(v) == v.state \notin {"outdated", "parsed"}

(* A fault: packages are looked for in the library only.                   *)
CandidateEntities(name) ==
  {s \in DOMAIN cache :
     IsCandidate(cache[s]) /\ cache[s].unit.kind = "entity" /\ cache[s].unit.name = name}

Candidates(name) ==
  {s \in DOMAIN cache :
     /\ IsCandidate(cache[s])
     /\ cache[s].unit.kind \in PrimaryKinds
     /\ cache[s].unit.name = name}

(* The binder takes those of the candidates that have been analysed.       *)
Denoted(candidates) == {s \in candidates : cache[s].state = "analysed"}

(* A fault: what is invalid waits to be analysed again.                    *)
Reopens(v, files) ==
  IF v.file \in files THEN [v EXCEPT !.state = "parsed"] ELSE v

Outdates(v, files) ==
  IF v.file \in files THEN [v EXCEPT !.state = "outdated"] ELSE v

(* Faults: nothing is outdated; the units are erased from the cache.       *)
StillValid(files) == cache

Erased(files) ==
  [s \in {t \in DOMAIN cache : cache[t].file \notin files} |-> cache[s]]

Outdated(files) == [s \in DOMAIN cache |-> Outdates(cache[s], files)]

--------------------------------------------------------------------------------
(* The calls in progress: of update for the document, above it those of    *)
(* load_primary_unit.  Each goes over the units of its parse in turn.      *)

(* Once its units are analysed, those of the document are counted by need  *)
(* as they are put into the library.                                       *)
Frame(f, row) ==
  [file |-> f, batch |-> parses + 1, size |-> Len(disk[f]), at |-> 1,
   need |-> 1, wanted |-> row]

Top == stack[Len(stack)]

Below == SubSeq(stack, 1, Len(stack) - 1)

Current == <<Top.batch, Top.at>>

HasUnit == ~ Idle /\ Top.at <= Top.size

Needs == cache[Current].unit.needs

Wanted == Needs[Top.need]

LooksUp ==
  /\ HasUnit
  /\ cache[Current].state = "analysing"
  /\ Top.need <= Len(Needs)

(* A fault: the name is looked up again.                                   *)
WithSameNeed(calls) == calls

WithNextNeed(calls) == [calls EXCEPT ![Len(calls)].need = @ + 1]

--------------------------------------------------------------------------------
(* The files and the explorer.                                             *)

(* Somebody saves a file.  When the editor does, every open document but   *)
(* this one is told that its references may be invalid.                    *)
Save(f, content) ==
  /\ content # disk[f]
  /\ FoldFunction(+, 0, saves) < MaxSaves
  /\ disk' = [disk EXCEPT ![f] = content]
  /\ saves' = [saves EXCEPT ![f] = @ + 1]
  /\ unreported' = unreported \cup {f}
  /\ UNCHANGED <<known, rows, indexing, indexed, tree>>

(* The explorer, or the ast of another document, has read a file.          *)
Index(f) ==
  /\ known
  /\ indexing = <<>>
  /\ indexed < MaxIndexed
  /\ indexed' = indexed + 1
  /\ indexing' = [i \in DOMAIN UnitsIn(disk[f]) |-> Row(disk[f][i], f)]
  /\ UNCHANGED <<disk, saves, unreported, known, rows, tree>>

PutNext ==
  /\ indexing # <<>>
  /\ rows' = Put(rows, Head(indexing))
  /\ indexing' = Tail(indexing)
  /\ UNCHANGED <<disk, saves, unreported, known, indexed, tree>>

--------------------------------------------------------------------------------
(* The document's thread.                                                  *)

(* update from its first line to the first unit it analyses: a document    *)
(* that cannot be read, and one whose parser throws, keep the cache and    *)
(* stay invalidated.                                                       *)
Unreadable(units) ==
  /\ disk[Main] = NoFile
  /\ main_file' = 0
  /\ cache' = units
  /\ UNCHANGED <<parses, stack>>

ParserThrows(units) ==
  /\ disk[Main] # NoFile
  /\ cache' = units
  /\ UNCHANGED <<main_file, parses, stack>>

Parses(units) ==
  /\ disk[Main] # NoFile
  /\ main_file' = parses + 1
  /\ cache' = Parsed(Main, units)
  /\ parses' = parses + 1
  /\ stack' = <<Frame(Main, [kind |-> "none"])>>

Reads(units) ==
  /\ Unreadable(units) \/ ParserThrows(units) \/ Parses(units)
  /\ invalidated_' = TRUE
  /\ UNCHANGED abandoned

(* The task of vhdl_working_file::update: what was reported is outdated,   *)
(* the main file is invalidated, and the ast is updated.                   *)
UpdateTask(reported) ==
  /\ Idle
  /\ updates < MaxUpdates
  /\ reported \subseteq unreported
  /\ updates' = updates + 1
  /\ unreported' = unreported \ reported
  /\ Reads(Outdated(reported \ {Main}))
  /\ UNCHANGED <<disk, saves, known, rows, indexing, indexed>>

(* The task of a request: it updates the ast if that was not done.         *)
RequestTask ==
  /\ Idle
  /\ invalidated_
  /\ updates < MaxUpdates
  /\ updates' = updates + 1
  /\ Reads(cache)
  /\ UNCHANGED world

Analyse ==
  /\ HasUnit
  /\ cache[Current].state = "parsed"
  /\ cache' = [cache EXCEPT ![Current].state = "analysing"]
  /\ UNCHANGED <<world, invalidated_, main_file, parses, updates, stack, abandoned>>

(* load_primary_unit finds the name in the cache.                          *)
FindInCache ==
  /\ LooksUp
  /\ Candidates(Wanted) # {}
  /\ cache' = [cache EXCEPT ![Current].depends = @ \cup Denoted(Candidates(Wanted))]
  /\ stack' = WithNextNeed(stack)
  /\ UNCHANGED <<world, invalidated_, main_file, parses, updates, abandoned>>

FileToLoad == RowNamed(Wanted).file

FindNothing ==
  /\ LooksUp
  /\ Candidates(Wanted) = {}
  /\ InLibrary(Wanted) => disk[FileToLoad] = NoFile
  /\ stack' = WithNextNeed(stack)
  /\ UNCHANGED <<world, cache, invalidated_, main_file, parses, updates, abandoned>>

StartLoad ==
  /\ LooksUp
  /\ Candidates(Wanted) = {}
  /\ InLibrary(Wanted)
  /\ disk[FileToLoad] # NoFile
  /\ cache' = Parsed(FileToLoad, cache)
  /\ stack' = Append(stack, Frame(FileToLoad, RowNamed(Wanted)))
  /\ parses' = parses + 1
  /\ UNCHANGED <<world, invalidated_, main_file, updates, abandoned>>

FinishUnit ==
  /\ HasUnit
  /\ cache[Current].state = "analysing"
  /\ Top.need > Len(Needs)
  /\ cache' = [cache EXCEPT ![Current].state = "analysed"]
  /\ stack' = [stack EXCEPT ![Len(stack)].at = @ + 1, ![Len(stack)].need = 1]
  /\ UNCHANGED <<world, invalidated_, main_file, parses, updates, abandoned>>

(* The units a load returns: those of its parse that the row stands for.   *)
Loaded ==
  {s \in DOMAIN cache :
     /\ s[1] = Top.batch
     /\ cache[s].unit.kind = Top.wanted.kind
     /\ cache[s].unit.name = Top.wanted.name}

Caller == LET c == Below[Len(Below)] IN <<c.batch, c.at>>

FinishLoad ==
  /\ Len(stack) > 1
  /\ ~ HasUnit
  /\ cache' = [cache EXCEPT ![Caller].depends = @ \cup Denoted(Loaded)]
  /\ stack' = WithNextNeed(Below)
  /\ UNCHANGED <<world, invalidated_, main_file, parses, updates, abandoned>>

Analysed == Len(stack) = 1 /\ ~ HasUnit

(* Each unit is put into the library by a call of its own.                 *)
PutUnit ==
  /\ Analysed
  /\ known
  /\ Top.need <= Top.size
  /\ rows' = Put(rows, Row(cache[<<Top.batch, Top.need>>].unit, Main))
  /\ stack' = WithNextNeed(stack)
  /\ UNCHANGED <<disk, saves, unreported, known, indexing, indexed, cache,
                 invalidated_, main_file, parses, updates, abandoned>>

FinishUpdate ==
  /\ Analysed
  /\ known => Top.need > Top.size
  /\ invalidated_' = FALSE
  /\ stack' = <<>>
  /\ UNCHANGED <<world, cache, main_file, parses, updates, abandoned>>

(* An exception out of a parser, the binder or the library ends the task:  *)
(* no call catches it, and the thread logs it and takes its next task.     *)
(* The units are left in the state they are in.                            *)
Throws ==
  /\ ~ Idle
  /\ stack' = <<>>
  /\ abandoned' = abandoned \cup {stack[i].batch : i \in DOMAIN stack}
  /\ UNCHANGED <<world, cache, invalidated_, main_file, parses, updates>>

FileWork ==
  \/ Analyse
  \/ FindInCache
  \/ FindNothing
  \/ StartLoad
  \/ FinishUnit
  \/ FinishLoad
  \/ PutUnit
  \/ FinishUpdate

--------------------------------------------------------------------------------
Init ==
  /\ disk = Initially
  /\ saves = [f \in Files |-> 0]
  /\ unreported = {}
  /\ known \in BOOLEAN
  /\ rows = <<>>
  /\ indexing = <<>>
  /\ indexed = 0
  /\ cache = <<>>
  /\ invalidated_ = TRUE
  /\ main_file = 0
  /\ parses = 0
  /\ updates = 0
  /\ stack = <<>>
  /\ abandoned = {}

Next ==
  \/ \E f \in Files : \E content \in Contents[f] : Save(f, content)
  \/ \E f \in Files : Index(f)
  \/ PutNext
  \/ \E reported \in SUBSET unreported : UpdateTask(reported)
  \/ RequestTask
  \/ FileWork
  \/ Throws

Spec == Init /\ [][Next]_vars

(* The thread goes on with the task it has begun, and need not fail.       *)
FairSpec == Spec /\ WF_vars(FileWork)

--------------------------------------------------------------------------------
States == {"outdated", "parsed", "analysing", "analysed"}

Rows == [kind : Kinds, name : Names, file : Files]

TypeOK ==
  /\ \A f \in Files : disk[f] \in Contents[f]
  /\ saves \in [Files -> Nat]
  /\ unreported \subseteq Files
  /\ known \in BOOLEAN
  /\ rows \in Seq(Rows)
  /\ indexing \in Seq(Rows)
  /\ indexed \in 0 .. MaxIndexed
  /\ \A s \in DOMAIN cache :
       /\ s[1] \in 1 .. parses
       /\ cache[s].file \in Files
       /\ cache[s].unit \in UnitsOf(cache[s].file)
       /\ cache[s].state \in States
       /\ cache[s].depends \subseteq DOMAIN cache
  /\ invalidated_ \in BOOLEAN
  /\ main_file \in 0 .. parses
  /\ updates \in 0 .. MaxUpdates
  /\ \A i \in DOMAIN stack : stack[i].batch \in 1 .. parses
  /\ abandoned \subseteq 1 .. parses

(* The recursion through the library always comes back: no file is read    *)
(* again by a load it has itself caused, also where files need each other. *)
(* A unit in analysis is returned as it is, so its file is not loaded for  *)
(* it (ast.cpp, load_primary_unit).                                        *)
NoFileLoadsItself ==
  \A i, j \in DOMAIN stack : i # j => stack[i].file # stack[j].file

(* Only an exception leaves a unit parsed or analysing between two tasks:  *)
(* one left parsed is never returned, and one left analysing is returned   *)
(* and never denotes anything, until its file is saved.  It leaves no more *)
(* than one unit of a parse in analysis, and that of a task that goes on   *)
(* is the unit its call is at (ast.cpp, update and load_primary_unit).     *)
NothingHalfAnalysed ==
  /\ Idle =>
       \A s \in DOMAIN cache :
         cache[s].state \in {"outdated", "analysed"} \/ s[1] \in abandoned
  /\ \A s \in DOMAIN cache : cache[s].state = "analysing" =>
       \/ \E i \in DOMAIN stack : s = <<stack[i].batch, stack[i].at>>
       \/ /\ s[1] \in abandoned
          /\ \A t \in DOMAIN cache :
               t[1] = s[1] /\ cache[t].state = "analysing" => t = s

(* After an update the units of the document depend on units of other      *)
(* files as those files are now, unless a save has not been reported yet,  *)
(* however saves, reports and loads interleaved.                           *)
DependenciesAreFresh ==
  Idle /\ ~ invalidated_ =>
    \A s \in DOMAIN cache : s[1] = main_file =>
      \A d \in cache[s].depends :
        LET v == cache[d] IN
          \/ v.file \in unreported \cup {Main}
          \/ (v.state = "analysed" /\ v.read = saves[v.file])

(* A row names the file for a unit that is no longer there.                *)
Misleads(f) ==
  \E r \in Range(rows) :
    /\ r.file = f
    /\ \A u \in Range(UnitsIn(disk[f])) : <<r.kind, r.name>> # <<u.kind, u.name>>

(* A name is not resolved to two units of one file: two that can be        *)
(* returned together are "Multiple named entities ... could not be         *)
(* resolved".  It takes a row for a unit that its file has no longer to    *)
(* have the file parsed twice, a save that was not reported, or a parse    *)
(* whose analysis an exception has ended: the units after the one it ended *)
(* at cannot be returned, and the file is parsed again for them.           *)
OneUnitPerName ==
  \A s, t \in DOMAIN cache :
    /\ s # t
    /\ cache[s].file = cache[t].file
    /\ cache[s].unit.name = cache[t].unit.name
    /\ {cache[s].unit.kind, cache[t].unit.kind} \subseteq PrimaryKinds
    /\ IsCandidate(cache[s]) /\ IsCandidate(cache[t])
    => \/ cache[s].file \in unreported \cup {Main}
       \/ Misleads(cache[s].file)
       \/ {s[1], t[1]} \cap abandoned # {}

(* A task that has begun to analyse the document ends, in an exception or  *)
(* with the document up to date.                                           *)
UpdateCompletes == ~ Idle ~> Idle
================================================================================
