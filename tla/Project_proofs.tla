--------------------------- MODULE Project_proofs ----------------------------
(***************************************************************************)
(* Proofs about Project.  The inductive invariant, IInv, bounds what a     *)
(* worker has done by what its load asked of it.                           *)
(***************************************************************************)
EXTENDS Project, TLAPS

Working(v) == worker[v] \notin {"none", "finished"}

(* A load to come has left no trace yet, and the explorer is of one that    *)
(* was made.                                                                *)
NothingAhead ==
  /\ explorer <= version
  /\ \A v \in Loads :
       v > version => /\ worker[v] = "none"
                      /\ completed[v] = 0 /\ found[v] = 0 /\ units[v] = 0

(* A worker inside of a specification has not completed all of them.        *)
SpecsLeft ==
  \A v \in Loads :
    /\ completed[v] <= total[v]
    /\ worker[v] \in {"exploring", "putting", "counting"} => completed[v] < total[v]

(* Units are put once for each specification, at most.                      *)
PutOnce ==
  \A v \in Loads :
    IF worker[v] = "counting"
      THEN found[v] <= completed[v] + 1 /\ units[v] <= completed[v] + 1
      ELSE found[v] <= completed[v] /\ units[v] <= completed[v]

IInv ==
  /\ TypeOK
  /\ NothingAhead
  /\ SpecsLeft
  /\ PutOnce
  /\ OnlyTheCurrentExplorerWorks
  /\ ProgressInTurn
  /\ ErrorsAreCleared

LEMMA Initially == Init => IInv
PROOF
<1> SUFFICES ASSUME Init PROVE IInv
  OBVIOUS
<1> USE ProjectAssumption
<1>1. 0 \in Loads /\ 0 \in 0 .. MaxSpecs /\ 0 \in 0 .. MaxTasks /\ NoView \in Views
      /\ NoAst \in Asts
  BY DEF Loads, NoView, Views, NoAst, Asts
<1>2. TypeOK
  BY <1>1 DEF Init, TypeOK
<1>3. NothingAhead /\ SpecsLeft /\ PutOnce
  BY DEF Init, NothingAhead, SpecsLeft, PutOnce
<1>4. OnlyTheCurrentExplorerWorks /\ ProgressInTurn /\ ErrorsAreCleared
  BY DEF Init, OnlyTheCurrentExplorerWorks, ProgressInTurn, ErrorsAreCleared
<1> QED
  BY <1>2, <1>3, <1>4 DEF IInv

-----------------------------------------------------------------------------
(* The steps of main.                                                       *)

LEMMA LoadStep ==
  ASSUME IInv, LoadFails \/ \E n \in 0 .. MaxSpecs : LoadSucceeds(n)
  PROVE  IInv'
PROOF
<1> USE ProjectAssumption
<1>1. /\ version' = version + 1 /\ version + 1 \in Loads /\ version \in Nat
      /\ main = "reading" /\ main' \in {"reading", "joining"}
      /\ explorer \in Nat /\ explorer <= version
      /\ UNCHANGED <<explorer, manager, initialised, worker, completed, holds_known, found,
                     units, to_notify, progress, fileVars, tasks>>
  BY DEF LoadFails, LoadSucceeds, Load, Loads, workVars, IInv, TypeOK, NothingAhead
<1>2. /\ total' \in [Loads -> 0 .. MaxSpecs]
      /\ \A v \in Loads : v # version + 1 => total'[v] = total[v]
  BY <1>1 DEF LoadFails, LoadSucceeds, workVars, IInv, TypeOK
<1>3. quit' \in [Loads -> BOOLEAN] /\ shown' \subseteq {"error", "missing"}
  BY DEF LoadFails, LoadSucceeds, Stopped, workVars, IInv, TypeOK
<1>4. TypeOK'
  BY <1>1, <1>2, <1>3 DEF IInv, TypeOK, fileVars
<1>5. NothingAhead'
  BY <1>1 DEF IInv, NothingAhead, Loads
<1>6. worker[version + 1] = "none" /\ completed[version + 1] = 0
  BY <1>1 DEF IInv, NothingAhead
<1>7. \A v \in Loads : completed[v] \in Nat /\ total'[v] \in Nat
  BY <1>2 DEF IInv, TypeOK
<1>8. SpecsLeft'
  BY <1>1, <1>2, <1>6, <1>7 DEF IInv, SpecsLeft
<1>9. PutOnce'
  BY <1>1 DEF IInv, PutOnce
<1>10. OnlyTheCurrentExplorerWorks' /\ ProgressInTurn'
  BY <1>1 DEF IInv, OnlyTheCurrentExplorerWorks, ProgressInTurn
<1>11. ErrorsAreCleared'
  BY <1>1 DEF ErrorsAreCleared
<1> QED
  BY <1>4, <1>5, <1>8, <1>9, <1>10, <1>11 DEF IInv

LEMMA JoinStep ==
  ASSUME IInv, ExplorerJoined \/ ExitJoined
  PROVE  IInv'
PROOF
<1>1. /\ main' \in {"replacing", "gone"}
      /\ progress' = Ended(explorer) /\ explorer \in Loads
      /\ Joins(explorer)
      /\ UNCHANGED <<version, explorer, manager, initialised, worker, quit, total,
                     completed, holds_known, units, to_notify, shown, fileVars, tasks>>
      /\ found' \in {found, [found EXCEPT ![explorer] = 0]}
  BY DEF ExplorerJoined, ExitJoined, IInv, TypeOK
<1>2. \A v \in Loads : /\ progress'[v] \in {"none", "begun", "ended"}
                       /\ progress'[v] = "begun" => progress[v] = "begun" /\ v # explorer
  BY <1>1 DEF Ended, IInv, TypeOK
<1>3. \A v \in Loads : found'[v] \in {found[v], 0}
  BY <1>1 DEF IInv, TypeOK
<1>4. progress' \in [Loads -> {"none", "begun", "ended"}]
      /\ found' \in [Loads -> 0 .. MaxSpecs]
  BY <1>1, ProjectAssumption DEF Ended, IInv, TypeOK
<1>5. TypeOK'
  BY <1>1, <1>4 DEF IInv, TypeOK, fileVars
<1>6. NothingAhead' /\ SpecsLeft'
  BY <1>1, <1>3 DEF IInv, NothingAhead, SpecsLeft
<1>7. PutOnce'
  BY <1>1, <1>3 DEF IInv, PutOnce, TypeOK
<1>8. OnlyTheCurrentExplorerWorks'
  BY <1>1 DEF Joins, IInv, OnlyTheCurrentExplorerWorks
<1>9. ProgressInTurn'
  BY <1>1, <1>2 DEF IInv, ProgressInTurn
<1>10. ErrorsAreCleared'
  BY <1>1 DEF ErrorsAreCleared
<1> QED
  BY <1>5, <1>6, <1>7, <1>8, <1>9, <1>10 DEF IInv

LEMMA StartStep ==
  ASSUME IInv, StartExplorer
  PROVE  IInv'
PROOF
<1>1. /\ main = "replacing" /\ main' = "started" /\ explorer' = version
      /\ worker' = [worker EXCEPT ![version] = "between"]
      /\ version \in Loads
      /\ UNCHANGED <<version, manager, initialised, workVars, shown, fileVars, tasks>>
  BY DEF StartExplorer, IInv, TypeOK
<1>2. \A v \in Loads : worker'[v] = IF v = version THEN "between" ELSE worker[v]
  BY <1>1 DEF IInv, TypeOK
<1>3. \A v \in Loads : worker[v] \in {"none", "finished"} /\ progress[v] # "begun"
  BY <1>1 DEF IInv, OnlyTheCurrentExplorerWorks, ProgressInTurn
<1>4. TypeOK'
  BY <1>1 DEF IInv, TypeOK, workVars, fileVars
<1>5. NothingAhead'
  BY <1>1, <1>2, ProjectAssumption DEF IInv, NothingAhead, workVars, Loads
<1>6. SpecsLeft' /\ PutOnce'
  BY <1>1, <1>2, <1>3 DEF IInv, SpecsLeft, PutOnce, workVars
<1>7. OnlyTheCurrentExplorerWorks' /\ ProgressInTurn' /\ ErrorsAreCleared'
  BY <1>1, <1>2, <1>3 DEF OnlyTheCurrentExplorerWorks, ProgressInTurn, ErrorsAreCleared,
     workVars
<1> QED
  BY <1>4, <1>5, <1>6, <1>7 DEF IInv

LEMMA LibrariesStep ==
  ASSUME IInv, ReplaceManagers \/ ClearDiagnostics
  PROVE  IInv'
PROOF
<1>1. /\ main \in {"started", "libraries"} /\ main' \in {"libraries", "reading"}
      /\ UNCHANGED <<version, explorer, worker, quit, total, completed, holds_known,
                     found, to_notify, progress, fileVars, tasks>>
      /\ units' \in {units, [units EXCEPT ![manager] = 0, ![version] = 0]}
      /\ manager' \in Loads /\ initialised' \subseteq Loads
      /\ shown' \subseteq {"error", "missing"}
      /\ main' = "reading" => shown' = {}
  BY DEF ReplaceManagers, ClearDiagnostics, ClearedShown, workVars, IInv, TypeOK
<1>2. \A v \in Loads : units'[v] \in {units[v], 0}
  BY <1>1 DEF IInv, TypeOK
<1>3. units' \in [Loads -> 0 .. MaxSpecs]
  BY <1>1, ProjectAssumption DEF IInv, TypeOK
<1>4. TypeOK'
  BY <1>1, <1>3 DEF IInv, TypeOK, fileVars
<1>5. NothingAhead' /\ SpecsLeft'
  BY <1>1, <1>2 DEF IInv, NothingAhead, SpecsLeft
<1>6. PutOnce'
  BY <1>1, <1>2 DEF IInv, PutOnce, TypeOK
<1>7. OnlyTheCurrentExplorerWorks' /\ ProgressInTurn'
  BY <1>1 DEF IInv, OnlyTheCurrentExplorerWorks, ProgressInTurn
<1>8. ErrorsAreCleared'
  BY <1>1 DEF ErrorsAreCleared
<1> QED
  BY <1>4, <1>5, <1>6, <1>7, <1>8 DEF IInv

LEMMA ExitStep ==
  ASSUME IInv, Exit
  PROVE  IInv'
PROOF
<1>1. /\ main = "reading" /\ main' = "exiting"
      /\ quit' \in [Loads -> BOOLEAN]
      /\ UNCHANGED <<version, explorer, manager, initialised, worker, total, completed,
                     holds_known, found, units, to_notify, progress, shown, fileVars,
                     tasks>>
  BY DEF Exit, Stopped, IInv, TypeOK
<1>2. TypeOK'
  BY <1>1 DEF IInv, TypeOK, fileVars
<1>3. NothingAhead' /\ SpecsLeft' /\ PutOnce'
  BY <1>1 DEF IInv, NothingAhead, SpecsLeft, PutOnce
<1>4. OnlyTheCurrentExplorerWorks' /\ ProgressInTurn' /\ ErrorsAreCleared'
  BY <1>1 DEF IInv, OnlyTheCurrentExplorerWorks, ProgressInTurn, ErrorsAreCleared
<1> QED
  BY <1>2, <1>3, <1>4 DEF IInv

-----------------------------------------------------------------------------
(* The steps of a worker and of the file threads.                           *)

LEMMA WorkerStep ==
  ASSUME IInv, NEW v \in Loads, WorkerWork(v)
  PROVE  IInv'
PROOF
<1>1. /\ Working(v)
      /\ UNCHANGED <<main, version, explorer, manager, initialised, quit, total, tasks>>
      /\ worker' \in [Loads -> {"none", "between", "exploring", "putting", "counting",
                                "notifying", "finished"}]
      /\ \A u \in Loads : u # v => worker'[u] = worker[u]
  BY DEF WorkerWork, NextSpec, FinishWork, GetLibrary, PutUnits, FindNothing, Count, Notify,
     Notified, Working, workVars, IInv, TypeOK
<1>2. v = explorer /\ main \notin {"replacing", "gone"} /\ v <= version
      /\ \A u \in Loads : u > version => u # v
  BY <1>1 DEF Working, IInv, OnlyTheCurrentExplorerWorks, NothingAhead, Loads
<1>3. OnlyTheCurrentExplorerWorks'
  BY <1>1, <1>2 DEF IInv, OnlyTheCurrentExplorerWorks
<1>4. \A u \in Loads : total[u] \in 0 .. MaxSpecs /\ completed[u] \in 0 .. MaxSpecs
                       /\ found[u] \in 0 .. MaxSpecs /\ units[u] \in 0 .. MaxSpecs
                       /\ completed[u] <= total[u]
  BY DEF IInv, TypeOK, SpecsLeft
<1>5. CASE NextSpec(v) \/ FinishWork(v) \/ Notified(v) \/ GetLibrary(v)
  <2>1. /\ UNCHANGED <<completed, found, units, to_notify, progress, shown, fileVars>>
        /\ holds_known' \in [Loads -> BOOLEAN]
        /\ worker[v] \in {"between", "notifying", "exploring"}
        /\ worker'[v] \in {"between", "finished", "exploring", "putting"}
        /\ worker'[v] \in {"exploring", "putting"} =>
             ~LeavesLoop(v) \/ worker[v] = "exploring"
    <3>1. CASE NextSpec(v) \/ FinishWork(v) \/ Notified(v)
      BY <3>1 DEF NextSpec, FinishWork, Notified, workVars, IInv, TypeOK
    <3>2. CASE GetLibrary(v)
      <4>1. (v \in initialised) \in BOOLEAN
        OBVIOUS
      <4>2. [holds_known EXCEPT ![v] = v \in initialised] \in [Loads -> BOOLEAN]
        BY <4>1, Zenon DEF IInv, TypeOK
      <4>3. holds_known' \in [Loads -> BOOLEAN]
        BY <3>2, <4>2, Zenon DEF GetLibrary
      <4> QED
        BY <3>2, <4>3 DEF GetLibrary, fileVars, IInv, TypeOK
    <3> QED
      BY <1>5, <3>1, <3>2
  <2>2. TypeOK'
    BY <1>1, <2>1 DEF IInv, TypeOK, fileVars
  <2>3. NothingAhead' /\ PutOnce'
    BY <1>1, <1>2, <2>1 DEF IInv, NothingAhead, PutOnce
  <2>4. SpecsLeft'
    BY <1>1, <1>4, <2>1 DEF IInv, SpecsLeft, LeavesLoop
  <2>5. ProgressInTurn' /\ ErrorsAreCleared'
    BY <1>1, <2>1 DEF IInv, ProgressInTurn, ErrorsAreCleared
  <2> QED
    BY <1>3, <2>2, <2>3, <2>4, <2>5 DEF IInv
<1>6. CASE PutUnits(v)
  <2>1. /\ UNCHANGED <<completed, to_notify, progress, shown, fileVars>>
        /\ holds_known' = [holds_known EXCEPT ![v] = FALSE]
        /\ worker[v] = "putting" /\ worker'[v] = "counting"
        /\ found' = [found EXCEPT ![v] = @ + 1]
        /\ units' \in {units, [units EXCEPT ![v] = @ + 1]}
    BY <1>6 DEF PutUnits, IInv, TypeOK
  <2>2. completed[v] < total[v] /\ found[v] <= completed[v] /\ units[v] <= completed[v]
    BY <2>1 DEF IInv, SpecsLeft, PutOnce
  <2>3. found[v] + 1 \in 0 .. MaxSpecs /\ units[v] + 1 \in 0 .. MaxSpecs
    BY <1>4, <2>2, ProjectAssumption
  <2>4. found' \in [Loads -> 0 .. MaxSpecs] /\ units' \in [Loads -> 0 .. MaxSpecs]
    BY <2>1, <2>3 DEF IInv, TypeOK
  <2>5. /\ found'[v] = found[v] + 1 /\ units'[v] \in {units[v], units[v] + 1}
        /\ \A u \in Loads : u # v => found'[u] = found[u] /\ units'[u] = units[u]
    BY <2>1 DEF IInv, TypeOK
  <2>6. TypeOK'
    BY <1>1, <2>1, <2>4 DEF IInv, TypeOK, fileVars
  <2>7. NothingAhead' /\ SpecsLeft'
    BY <1>1, <1>2, <2>1, <2>2, <2>5 DEF IInv, NothingAhead, SpecsLeft
  <2>8. PutOnce'
    BY <1>1, <1>4, <2>1, <2>2, <2>5 DEF IInv, PutOnce
  <2>9. ProgressInTurn' /\ ErrorsAreCleared'
    BY <1>1, <2>1 DEF IInv, ProgressInTurn, ErrorsAreCleared
  <2> QED
    BY <1>3, <2>6, <2>7, <2>8, <2>9 DEF IInv
<1>7. CASE FindNothing(v)
  <2>1. /\ UNCHANGED <<completed, holds_known, found, units, to_notify, progress, fileVars>>
        /\ shown' \in {shown, shown \cup {"missing"}}
        /\ worker[v] = "exploring" /\ worker'[v] = "counting"
    BY <1>7 DEF FindNothing, workVars, IInv, TypeOK
  <2>2. TypeOK'
    BY <1>1, <2>1 DEF IInv, TypeOK, fileVars
  <2>3. NothingAhead' /\ SpecsLeft'
    BY <1>1, <1>2, <2>1 DEF IInv, NothingAhead, SpecsLeft
  <2>4. PutOnce'
    BY <1>1, <1>4, <2>1 DEF IInv, PutOnce
  <2>5. ProgressInTurn' /\ ErrorsAreCleared'
    BY <1>1, <2>1 DEF IInv, ProgressInTurn, ErrorsAreCleared
  <2> QED
    BY <1>3, <2>2, <2>3, <2>4, <2>5 DEF IInv
<1>8. CASE Count(v)
  <2>1. /\ UNCHANGED <<found, units, holds_known, shown, fileVars>>
        /\ completed' = [completed EXCEPT ![v] = @ + 1]
        /\ worker[v] = "counting" /\ worker'[v] \in {"notifying", "between"}
        /\ progress' \in {Ended(v), [progress EXCEPT ![v] = "begun"]}
        /\ to_notify' \in {to_notify, [to_notify EXCEPT ![v] = Documents]}
    BY <1>8 DEF Count, IInv, TypeOK
  <2>2. /\ completed'[v] = completed[v] + 1
        /\ \A u \in Loads : u # v => completed'[u] = completed[u] /\ progress'[u] = progress[u]
    BY <2>1 DEF Ended, IInv, TypeOK
  <2>3. completed[v] < total[v] /\ found[v] <= completed[v] + 1
        /\ units[v] <= completed[v] + 1
    BY <2>1 DEF IInv, SpecsLeft, PutOnce
  <2>4. completed[v] + 1 \in 0 .. MaxSpecs
    BY <1>4, <2>3, ProjectAssumption
  <2>5. completed' \in [Loads -> 0 .. MaxSpecs]
        /\ progress' \in [Loads -> {"none", "begun", "ended"}]
        /\ to_notify' \in [Loads -> SUBSET Documents]
    BY <2>1, <2>4 DEF Ended, IInv, TypeOK
  <2>6. TypeOK'
    BY <1>1, <2>1, <2>5 DEF IInv, TypeOK, fileVars
  <2>7. NothingAhead'
    BY <1>1, <1>2, <2>1, <2>2 DEF IInv, NothingAhead
  <2>8. SpecsLeft'
    BY <1>1, <1>4, <2>1, <2>2, <2>3 DEF IInv, SpecsLeft
  <2>9. PutOnce'
    BY <1>1, <2>1, <2>2, <2>3 DEF IInv, PutOnce
  <2>10. ProgressInTurn' /\ ErrorsAreCleared'
    BY <1>1, <1>2, <2>1, <2>2 DEF IInv, ProgressInTurn, ErrorsAreCleared
  <2> QED
    BY <1>3, <2>6, <2>7, <2>8, <2>9, <2>10 DEF IInv
<1>9. ASSUME NEW d \in Documents, Notify(v, d) PROVE IInv'
  <2>1. /\ UNCHANGED <<worker, completed, holds_known, found, units, progress, shown,
                       thread, looked, ast>>
        /\ to_notify' \in [Loads -> SUBSET Documents]
        /\ pending' \in [Documents -> BOOLEAN]
    BY <1>9 DEF Notify, IInv, TypeOK
  <2>2. TypeOK'
    BY <1>1, <2>1 DEF IInv, TypeOK
  <2>3. NothingAhead' /\ SpecsLeft' /\ PutOnce'
    BY <1>1, <2>1 DEF IInv, NothingAhead, SpecsLeft, PutOnce
  <2>4. ProgressInTurn' /\ ErrorsAreCleared'
    BY <1>1, <2>1 DEF IInv, ProgressInTurn, ErrorsAreCleared
  <2> QED
    BY <1>3, <2>2, <2>3, <2>4 DEF IInv
<1> QED
  BY <1>5, <1>6, <1>7, <1>8, <1>9 DEF WorkerWork

LEMMA FileStep ==
  ASSUME IInv, NEW d \in Documents, GiveTask(d) \/ FileWork(d) \/ MeetsNothing(d)
  PROVE  IInv'
PROOF
<1>1. /\ UNCHANGED <<version, explorer, manager, initialised, worker, workVars, shown>>
      /\ main' \in {main, "crashed"}
  BY DEF GiveTask, FileWork, TakeTask, LookAtManager, LookAtVersion, LookAtExplorer,
     RunTask, Goes, MeetsNothing
<1>2. looked[d] \in Views /\ ast[d] \in Asts /\ NoView \in Views
  <2>1. NoView \in Views
    BY ProjectAssumption DEF NoView, Views, Loads
  <2> QED
    BY <2>1 DEF IInv, TypeOK
<1>3. \A w \in Views : /\ [w EXCEPT !.manager = manager] \in Views
                       /\ [w EXCEPT !.version = version] \in Views
                       /\ \A b \in BOOLEAN : [w EXCEPT !.populated = b] \in Views
                       /\ [made |-> TRUE, from |-> w] \in Asts
  BY DEF IInv, TypeOK, Views, Asts
<1>4. thread' \in [Documents -> {"idle", "started", "managed", "versioned", "ready"}]
      /\ pending' \in [Documents -> BOOLEAN] /\ tasks' \in 0 .. MaxTasks
  <2>1. CASE GiveTask(d)
    BY <2>1, ProjectAssumption DEF GiveTask, IInv, TypeOK
  <2>2. CASE TakeTask(d)
    BY <2>2 DEF TakeTask, Goes, IInv, TypeOK
  <2>3. CASE LookAtManager(d) \/ LookAtVersion(d)
    BY <2>3 DEF LookAtManager, LookAtVersion, Goes, IInv, TypeOK
  <2>4. CASE LookAtExplorer(d) \/ RunTask(d)
    <3>1. (Goes(d, "versioned", "ready") \/ Goes(d, "ready", "idle")) /\ pending' = pending
      BY <2>4, Zenon DEF LookAtExplorer, RunTask
    <3> QED
      BY <3>1 DEF Goes, IInv, TypeOK
  <2>5. CASE MeetsNothing(d)
    BY <2>5 DEF MeetsNothing, fileVars, IInv, TypeOK
  <2> QED
    BY <2>1, <2>2, <2>3, <2>4, <2>5 DEF FileWork
<1>5. looked' \in [Documents -> Views] /\ ast' \in [Documents -> Asts]
  <2>1. CASE GiveTask(d) \/ MeetsNothing(d) \/ TakeTask(d)
    BY <2>1 DEF GiveTask, MeetsNothing, TakeTask, fileVars, IInv, TypeOK
  <2>2. CASE LookAtManager(d) \/ LookAtVersion(d)
    <3>1. /\ ast' = ast
          /\ \/ looked' = [looked EXCEPT ![d] = [looked[d] EXCEPT !.manager = manager]]
             \/ looked' = [looked EXCEPT ![d] = [looked[d] EXCEPT !.version = version]]
      BY <2>2 DEF LookAtManager, LookAtVersion
    <3>2. /\ [looked[d] EXCEPT !.manager = manager] \in Views
          /\ [looked[d] EXCEPT !.version = version] \in Views
      BY <1>2, <1>3
    <3>3. looked \in [Documents -> Views] /\ ast \in [Documents -> Asts]
      BY DEF IInv, TypeOK
    <3>4. PICK w \in Views : looked' = [looked EXCEPT ![d] = w]
      BY <3>1, <3>2
    <3> QED
      BY <3>1, <3>3, <3>4
  <2>3. CASE LookAtExplorer(d)
    <3>1. Populated \in BOOLEAN
      BY DEF Populated, Busy
    <3>2. PICK b \in BOOLEAN : looked' = [looked EXCEPT ![d] = [looked[d] EXCEPT !.populated = b]]
      BY <2>3, <3>1 DEF LookAtExplorer
    <3> QED
      BY <1>2, <1>3, <2>3, <3>2 DEF LookAtExplorer, IInv, TypeOK
  <2>4. CASE RunTask(d)
    <3>1. looked' = [looked EXCEPT ![d] = NoView]
          /\ \E a \in {ast[d], [made |-> TRUE, from |-> looked[d]]} : ast' = [ast EXCEPT ![d] = a]
      BY <2>4 DEF RunTask
    <3>2. [made |-> TRUE, from |-> looked[d]] \in Asts
      BY <1>2, <1>3
    <3>3. PICK a \in Asts : ast' = [ast EXCEPT ![d] = a]
      BY <1>2, <3>1, <3>2
    <3> QED
      BY <1>2, <3>1, <3>3 DEF IInv, TypeOK
  <2> QED
    BY <2>1, <2>2, <2>3, <2>4 DEF FileWork
<1>6. TypeOK'
  BY <1>1, <1>4, <1>5 DEF IInv, TypeOK, workVars
<1>7. NothingAhead' /\ SpecsLeft' /\ PutOnce'
  BY <1>1 DEF IInv, NothingAhead, SpecsLeft, PutOnce, workVars
<1>8. OnlyTheCurrentExplorerWorks' /\ ProgressInTurn' /\ ErrorsAreCleared'
  BY <1>1 DEF IInv, OnlyTheCurrentExplorerWorks, ProgressInTurn, ErrorsAreCleared, workVars
<1> QED
  BY <1>6, <1>7, <1>8 DEF IInv

-----------------------------------------------------------------------------
(* The inductive invariant holds of every behaviour, for any number of      *)
(* documents, loads and specifications.                                     *)
THEOREM Inductive == Spec => []IInv
PROOF
<1>1. Init => IInv
  BY Initially
<1>2. IInv /\ [Next]_vars => IInv'
  <2> SUFFICES ASSUME IInv, [Next]_vars PROVE IInv'
    OBVIOUS
  <2>1. CASE UNCHANGED vars
    BY <2>1 DEF vars, workVars, fileVars, IInv, TypeOK, NothingAhead, SpecsLeft, PutOnce,
       OnlyTheCurrentExplorerWorks, ProgressInTurn, ErrorsAreCleared
  <2>2. CASE MainWork
    BY <2>2, JoinStep, StartStep, LibrariesStep DEF MainWork, Reload
  <2>3. CASE LoadFails \/ (\E n \in 0 .. MaxSpecs : LoadSucceeds(n)) \/ Exit
    BY <2>3, LoadStep, ExitStep
  <2>4. CASE \E v \in Loads : WorkerWork(v)
    BY <2>4, WorkerStep
  <2>5. CASE \E d \in Documents : GiveTask(d) \/ FileWork(d) \/ MeetsNothing(d)
    BY <2>5, FileStep
  <2> QED
    BY <2>1, <2>2, <2>3, <2>4, <2>5 DEF Next
<1> QED
  BY <1>1, <1>2, PTL DEF Spec

(* Type correctness; in particular no worker completes more specifications  *)
(* than its configuration has, nor puts units twice for one of them.        *)
THEOREM TypeCorrect == Spec => []TypeOK
PROOF
<1>1. IInv => TypeOK
  BY DEF IInv
<1> QED
  BY <1>1, Inductive, PTL

(* A worker that runs is the one of the current explorer, so explorer::join *)
(* is all that has to be waited for before the file list goes.              *)
THEOREM OneWorker == Spec => []OnlyTheCurrentExplorerWorks
PROOF
<1>1. IInv => OnlyTheCurrentExplorerWorks
  BY DEF IInv
<1> QED
  BY <1>1, Inductive, PTL

(* A progress bar shown as in progress is the current explorer's.           *)
THEOREM BarsInTurn == Spec => []ProgressInTurn
PROOF
<1>1. IInv => ProgressInTurn
  BY DEF IInv
<1> QED
  BY <1>1, Inductive, PTL

(* A load that succeeds takes the errors of those before it away.           *)
THEOREM ErrorsGo == Spec => []ErrorsAreCleared
PROOF
<1>1. IInv => ErrorsAreCleared
  BY DEF IInv
<1> QED
  BY <1>1, Inductive, PTL
=============================================================================
