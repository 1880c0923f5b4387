------------------------------- MODULE Project ------------------------------
(***************************************************************************)
(* The project and its background exploration (src/things/project.{h,cpp}, *)
(* the progress bar and the persistent diagnostics of client.cpp), with    *)
(* the file threads that read it before every task (working_files.cpp).    *)
(*                                                                         *)
(* The main thread reloads vhdl_config.yaml: it stops the explorer of the  *)
(* previous load and busy-waits for its worker, swaps explorer and file    *)
(* list, starts the new worker, and only then replaces the library manager *)
(* under clm_mtx_.  The worker goes over the file specifications of the    *)
(* configuration one by one, and the last one calls update_all_files,      *)
(* which takes the mutex of every open document.  A file thread holds that *)
(* mutex while it looks the project up, in four separate reads.            *)
(*                                                                         *)
(* An explorer, its worker, file list and library manager are named by the *)
(* load they were made for; those of the constructor are named 0.  The     *)
(* libraries followed are the VHDL ones.                                   *)
(***************************************************************************)
EXTENDS Naturals, FiniteSets

CONSTANTS
  Documents,    (* the open documents, each with its file thread            *)
  MaxLoads,     (* bound: times vhdl_config.yaml is loaded                  *)
  MaxSpecs,     (* bound: file specifications in a configuration            *)
  MaxTasks      (* bound: tasks the editor's messages give the documents    *)

ASSUME ProjectAssumption ==
  MaxLoads \in Nat /\ MaxSpecs \in Nat /\ MaxTasks \in Nat

Loads == 0 .. MaxLoads

VARIABLES
  main,        (* "reading", in the reload "joining", "replacing", "started"*)
               (* or "libraries", "exiting", "gone", or "crashed"           *)
  version,     (* loaded_version_; path_to_loaded_yaml_ is set if it is not *)
               (* 0                                                         *)
  explorer,    (* the load of current_background_explorer_ and the file list*)
  manager,     (* the load of current_library_manager_                      *)
  initialised, (* the loads whose manager is initialised                    *)
  worker,      (* load -> "none", "between" two specifications, "exploring",*)
               (*         "putting", "counting", "notifying" or "finished"  *)
  quit,        (* load -> quit_                                             *)
  total,       (* load -> total_number_of_requests                          *)
  completed,   (* load -> number_of_requests_completed                      *)
  holds_known, (* load -> the backend the worker holds is the manager's     *)
  found,       (* load -> specifications whose units were put               *)
  units,       (* load -> those of them the manager has                     *)
  to_notify,   (* load -> documents its callback has left                   *)
  progress,    (* load -> its progress bar: "none", "begun" or "ended"      *)
  shown,       (* persistent diagnostics of vhdl_config.yaml at the editor  *)
  thread,      (* document -> "idle", or holding its mutex "started",       *)
               (*             "managed", "versioned" or "ready"             *)
  pending,     (* document -> it has a task that is not superseded          *)
  tasks,       (* tasks the editor has given so far                         *)
  looked,      (* document -> what its thread has read of the project       *)
  ast          (* document -> what its ast was made from                    *)

workVars == <<quit, total, completed, holds_known, found, units, to_notify, progress>>
fileVars == <<thread, pending, looked, ast>>
vars == <<main, version, explorer, manager, initialised, worker, workVars,
          shown, fileVars, tasks>>

-----------------------------------------------------------------------------
Views == [manager : Loads, version : Loads, populated : BOOLEAN]
NoView == [manager |-> 0, version |-> 0, populated |-> FALSE]
Asts == [made : BOOLEAN, from : Views]
NoAst == [made |-> FALSE, from |-> NoView]

(* worker::busy(), between busy_.store(true) and busy_.store(false).        *)
Busy(v) == worker[v] \in {"exploring", "putting", "counting", "notifying"}

(* libraries_have_been_populated().                                         *)
Populated == version # 0 /\ ~Busy(explorer)

(* explorer::join(): every worker has quit_ and done_.                      *)
JoinsAtOnce(v) == TRUE                                          \* a fault
Joins(v) == worker[v] = "none" \/ (quit[v] /\ worker[v] = "finished")

(* The mutex of the library managers, held to the end of the reload.        *)
LockedFromTheStart ==                                           \* a fault
  main \in {"joining", "replacing", "started", "libraries"}
ManagersLocked == main = "libraries"

(* The destructor of a progress bar still in progress ends it.              *)
LeftBegun(v) == progress                                        \* a fault
Ended(v) == [progress EXCEPT ![v] = IF @ = "begun" THEN "ended" ELSE @]

KeptShown == shown                                              \* a fault
ClearedShown == {}

(* The last request completed calls on_all_requests_completed.              *)
IsLastOfMore(v) == completed'[v] > total[v]                     \* a fault
IsLast(v) == completed'[v] = total[v]

(* A worker leaves its loop when it has quit_, or after the last request.   *)
GoesOnePast(v) == quit[v] \/ completed[v] > total[v]            \* a fault
LeavesLoop(v) == quit[v] \/ completed[v] = total[v]

(* explorer::stop().                                                        *)
NotStopped(v) == quit                                           \* a fault
Stopped(v) == [quit EXCEPT ![v] = TRUE]

-----------------------------------------------------------------------------
Init ==
  /\ main = "reading"
  /\ version = 0
  /\ explorer = 0
  /\ manager = 0
  /\ initialised = {}
  /\ worker = [v \in Loads |-> "none"]
  /\ quit = [v \in Loads |-> FALSE]
  /\ total = [v \in Loads |-> 0]
  /\ completed = [v \in Loads |-> 0]
  /\ holds_known = [v \in Loads |-> FALSE]
  /\ found = [v \in Loads |-> 0]
  /\ units = [v \in Loads |-> 0]
  /\ to_notify = [v \in Loads |-> {}]
  /\ progress = [v \in Loads |-> "none"]
  /\ shown = {}
  /\ thread = [d \in Documents |-> "idle"]
  /\ pending = [d \in Documents |-> FALSE]
  /\ tasks = 0
  /\ looked = [d \in Documents |-> NoView]
  /\ ast = [d \in Documents |-> NoAst]

-----------------------------------------------------------------------------
(* The main thread: 'initialized' and workspace/didChangeWatchedFiles.      *)

(* The version moves on before the file is read.  With an error in it that  *)
(* is all, and the editor is shown the error.                               *)
Load ==
  /\ main = "reading"
  /\ version < MaxLoads
  /\ version' = version + 1

LoadFails ==
  /\ Load
  /\ shown' = shown \cup {"error"}
  /\ UNCHANGED <<main, explorer, manager, initialised, worker, workVars,
                 fileVars, tasks>>

(* Otherwise the current explorer is told to stop, and waited for.          *)
LoadSucceeds(specs) ==
  /\ Load
  /\ total' = [total EXCEPT ![version + 1] = specs]
  /\ quit' = Stopped(explorer)
  /\ main' = "joining"
  /\ UNCHANGED <<explorer, manager, initialised, worker, completed, holds_known,
                 found, units, to_notify, progress, shown, fileVars, tasks>>

(* It is destroyed, with its compass and progress bar.                      *)
ExplorerJoined ==
  /\ main = "joining"
  /\ Joins(explorer)
  /\ progress' = Ended(explorer)
  /\ found' = [found EXCEPT ![explorer] = 0]
  /\ main' = "replacing"
  /\ UNCHANGED <<version, explorer, manager, initialised, worker, quit, total,
                 completed, holds_known, units, to_notify, shown, fileVars,
                 tasks>>

(* Explorer and file list are the new ones, and the worker starts.          *)
StartExplorer ==
  /\ main = "replacing"
  /\ explorer' = version
  /\ worker' = [worker EXCEPT ![version] = "between"]
  /\ main' = "started"
  /\ UNCHANGED <<version, manager, initialised, workVars, shown, fileVars, tasks>>

(* Under clm_mtx_ the old manager is destroyed and gives way to the new     *)
(* one, whose initialise() also throws out the backends it has made so far. *)
ReplaceManagers ==
  /\ main = "started"
  /\ manager' = version
  /\ initialised' = initialised \cup {version}
  /\ units' = [units EXCEPT ![manager] = 0, ![version] = 0]
  /\ main' = "libraries"
  /\ UNCHANGED <<version, explorer, worker, quit, total, completed, holds_known,
                 found, to_notify, progress, shown, fileVars, tasks>>

ClearDiagnostics ==
  /\ main = "libraries"
  /\ shown' = ClearedShown
  /\ main' = "reading"
  /\ UNCHANGED <<version, explorer, manager, initialised, worker, workVars,
                 fileVars, tasks>>

(* A message about a document: add_task, under its mutex.                   *)
GiveTask(d) ==
  /\ main = "reading"
  /\ tasks < MaxTasks
  /\ thread[d] = "idle"
  /\ tasks' = tasks + 1
  /\ pending' = [pending EXCEPT ![d] = TRUE]
  /\ UNCHANGED <<main, version, explorer, manager, initialised, worker,
                 workVars, shown, thread, looked, ast>>

(* The project is destroyed before the documents are: ~explorer stops its   *)
(* worker and waits for it.                                                 *)
Exit ==
  /\ main = "reading"
  /\ main' = "exiting"
  /\ quit' = Stopped(explorer)
  /\ UNCHANGED <<version, explorer, manager, initialised, worker, total,
                 completed, holds_known, found, units, to_notify, progress,
                 shown, fileVars, tasks>>

ExitJoined ==
  /\ main = "exiting"
  /\ Joins(explorer)
  /\ progress' = Ended(explorer)
  /\ main' = "gone"
  /\ UNCHANGED <<version, explorer, manager, initialised, worker, quit, total,
                 completed, holds_known, found, units, to_notify, shown,
                 fileVars, tasks>>

-----------------------------------------------------------------------------
(* The worker of load v: worker::work.                                      *)
Alive == main # "crashed"

NextSpec(v) ==
  /\ Alive
  /\ worker[v] = "between"
  /\ ~LeavesLoop(v)
  /\ worker' = [worker EXCEPT ![v] = "exploring"]
  /\ UNCHANGED <<main, version, explorer, manager, initialised, workVars,
                 shown, fileVars, tasks>>

FinishWork(v) ==
  /\ Alive
  /\ worker[v] = "between"
  /\ LeavesLoop(v)
  /\ worker' = [worker EXCEPT ![v] = "finished"]
  /\ UNCHANGED <<main, version, explorer, manager, initialised, workVars,
                 shown, fileVars, tasks>>

(* A file of the specification is parsed and its library looked up ...      *)
GetLibrary(v) ==
  /\ Alive
  /\ worker[v] = "exploring"
  /\ holds_known' = [holds_known EXCEPT ![v] = v \in initialised]
  /\ worker' = [worker EXCEPT ![v] = "putting"]
  /\ UNCHANGED <<main, version, explorer, manager, initialised, quit, total,
                 completed, found, units, to_notify, progress, shown,
                 fileVars, tasks>>

(* ... and its units are put there, which a backend that has been thrown    *)
(* out refuses.                                                             *)
PutUnits(v) ==
  /\ Alive
  /\ worker[v] = "putting"
  /\ found' = [found EXCEPT ![v] = @ + 1]
  /\ units' = [units EXCEPT ![v] =
                 IF holds_known[v] = (v \in initialised) THEN @ + 1 ELSE @]
  /\ holds_known' = [holds_known EXCEPT ![v] = FALSE]
  /\ worker' = [worker EXCEPT ![v] = "counting"]
  /\ UNCHANGED <<main, version, explorer, manager, initialised, quit, total,
                 completed, to_notify, progress, shown, fileVars, tasks>>

(* The path does not exist, or an exception is thrown.                      *)
FindNothing(v) ==
  /\ Alive
  /\ worker[v] = "exploring"
  /\ shown' \in {shown, shown \cup {"missing"}}
  /\ worker' = [worker EXCEPT ![v] = "counting"]
  /\ UNCHANGED <<main, version, explorer, manager, initialised, workVars,
                 fileVars, tasks>>

(* compass::i_just_completed_a_request: the progress is reported, and after *)
(* the last request the documents are to be updated.                        *)
Count(v) ==
  /\ Alive
  /\ worker[v] = "counting"
  /\ completed' = [completed EXCEPT ![v] = @ + 1]
  /\ progress' = IF completed'[v] = total[v]
                   THEN Ended(v)
                   ELSE [progress EXCEPT ![v] = "begun"]
  /\ \/ /\ IsLast(v)
        /\ worker' = [worker EXCEPT ![v] = "notifying"]
        /\ to_notify' = [to_notify EXCEPT ![v] = Documents]
     \/ /\ ~IsLast(v)
        /\ worker' = [worker EXCEPT ![v] = "between"]
        /\ UNCHANGED to_notify
  /\ UNCHANGED <<main, version, explorer, manager, initialised, quit, total,
                 holds_known, found, units, shown, fileVars, tasks>>

(* update_all_files: add_task, under the mutex of each document.            *)
Notify(v, d) ==
  /\ Alive
  /\ worker[v] = "notifying"
  /\ d \in to_notify[v]
  /\ thread[d] = "idle"
  /\ to_notify' = [to_notify EXCEPT ![v] = @ \ {d}]
  /\ pending' = [pending EXCEPT ![d] = TRUE]
  /\ UNCHANGED <<main, version, explorer, manager, initialised, worker, quit,
                 total, completed, holds_known, found, units, progress, shown,
                 thread, looked, ast, tasks>>

Notified(v) ==
  /\ Alive
  /\ worker[v] = "notifying"
  /\ to_notify[v] = {}
  /\ worker' = [worker EXCEPT ![v] = "between"]
  /\ UNCHANGED <<main, version, explorer, manager, initialised, workVars,
                 shown, fileVars, tasks>>

-----------------------------------------------------------------------------
(* The file threads: make_sure_this_is_latest_project_version.              *)
Goes(d, from, to) ==
  /\ Alive
  /\ thread[d] = from
  /\ thread' = [thread EXCEPT ![d] = to]
  /\ UNCHANGED <<main, version, explorer, manager, initialised, worker,
                 workVars, shown, tasks>>

TakeTask(d) ==
  /\ Goes(d, "idle", "started")
  /\ pending[d]
  /\ pending' = [pending EXCEPT ![d] = FALSE]
  /\ UNCHANGED <<looked, ast>>

LookAtManager(d) ==
  /\ Goes(d, "started", "managed")
  /\ ~ManagersLocked
  /\ looked' = [looked EXCEPT ![d].manager = manager]
  /\ UNCHANGED <<pending, ast>>

LookAtVersion(d) ==
  /\ Goes(d, "managed", "versioned")
  /\ looked' = [looked EXCEPT ![d].version = version]
  /\ UNCHANGED <<pending, ast>>

(* There may be no explorer to ask for a moment.                            *)
LookAtExplorer(d) ==
  /\ Goes(d, "versioned", "ready")
  /\ \E populated \in {Populated} \cup (IF main = "replacing" THEN {FALSE} ELSE {}) :
       looked' = [looked EXCEPT ![d].populated = populated]
  /\ UNCHANGED <<pending, ast>>

(* Would the ast be kept?  The manager is not looked at.                    *)
Keeps(a, view) ==
  /\ a.made
  /\ a.from.version = view.version
  /\ a.from.populated = view.populated

(* The ast is made anew or kept, the task runs on it and the mutex is       *)
(* released.                                                                *)
RunTask(d) ==
  /\ Goes(d, "ready", "idle")
  /\ ast' = [ast EXCEPT ![d] =
               IF Keeps(@, looked[d]) THEN @ ELSE [made |-> TRUE, from |-> looked[d]]]
  /\ looked' = [looked EXCEPT ![d] = NoView]
  /\ UNCHANGED pending

(* The explorer and the file list are read without a lock, while main swaps *)
(* them, and all of the project while or after it is destroyed.             *)
MeetsNothing(d) ==
  /\ \/ main = "replacing" /\ thread[d] \in {"versioned", "ready"}
     \/ main \in {"exiting", "gone"} /\ thread[d] # "idle"
  /\ main' = "crashed"
  /\ UNCHANGED <<version, explorer, manager, initialised, worker, workVars,
                 shown, fileVars, tasks>>

-----------------------------------------------------------------------------
Reload == ExplorerJoined \/ StartExplorer \/ ReplaceManagers \/ ClearDiagnostics
MainWork == Reload \/ ExitJoined

WorkerWork(v) ==
  \/ NextSpec(v) \/ FinishWork(v) \/ GetLibrary(v) \/ PutUnits(v)
  \/ FindNothing(v) \/ Count(v) \/ Notified(v)
  \/ \E d \in Documents : Notify(v, d)

FileWork(d) ==
  \/ TakeTask(d) \/ LookAtManager(d) \/ LookAtVersion(d) \/ LookAtExplorer(d)
  \/ RunTask(d)

Next ==
  \/ LoadFails
  \/ \E n \in 0 .. MaxSpecs : LoadSucceeds(n)
  \/ MainWork
  \/ Exit
  \/ \E v \in Loads : WorkerWork(v)
  \/ \E d \in Documents : GiveTask(d) \/ FileWork(d) \/ MeetsNothing(d)

Spec == Init /\ [][Next]_vars

(* Every thread is scheduled; the editor need not send anything.            *)
Fairness ==
  /\ WF_vars(MainWork)
  /\ \A v \in Loads : WF_vars(WorkerWork(v))
  /\ \A d \in Documents : WF_vars(FileWork(d))

FairSpec == Spec /\ Fairness

-----------------------------------------------------------------------------
(* Every variable holds a value of its kind.                                *)
TypeOK ==
  /\ main \in {"reading", "joining", "replacing", "started", "libraries",
               "exiting", "gone", "crashed"}
  /\ version \in Loads
  /\ explorer \in Loads
  /\ manager \in Loads
  /\ initialised \subseteq Loads
  /\ worker \in [Loads -> {"none", "between", "exploring", "putting",
                           "counting", "notifying", "finished"}]
  /\ quit \in [Loads -> BOOLEAN]
  /\ total \in [Loads -> 0 .. MaxSpecs]
  /\ completed \in [Loads -> 0 .. MaxSpecs]
  /\ holds_known \in [Loads -> BOOLEAN]
  /\ found \in [Loads -> 0 .. MaxSpecs]
  /\ units \in [Loads -> 0 .. MaxSpecs]
  /\ to_notify \in [Loads -> SUBSET Documents]
  /\ progress \in [Loads -> {"none", "begun", "ended"}]
  /\ shown \subseteq {"error", "missing"}
  /\ thread \in [Documents -> {"idle", "started", "managed", "versioned", "ready"}]
  /\ pending \in [Documents -> BOOLEAN]
  /\ tasks \in 0 .. MaxTasks
  /\ looked \in [Documents -> Views]
  /\ ast \in [Documents -> Asts]

(* "It is important that all the background explorer works are fully        *)
(* stopped before resetting the filelist": a worker that has not finished   *)
(* is that of the current explorer, so its specifications still exist.      *)
OnlyTheCurrentExplorerWorks ==
  \A v \in Loads :
    worker[v] \notin {"none", "finished"} =>
      v = explorer /\ main \notin {"replacing", "gone"}

(* At the editor a progress bar is begun for the current explorer alone:    *)
(* whichever way an earlier one was left, it has ended.                     *)
ProgressInTurn ==
  \A v \in Loads :
    progress[v] = "begun" => v = explorer /\ main \notin {"replacing", "gone"}

(* No error of vhdl_config.yaml stays shown after a load that succeeded.    *)
ErrorsAreCleared ==
  main = "reading" /\ explorer = version => "error" \notin shown

(* A reload that has begun comes to its end, in spite of busy-waiting for a *)
(* worker that may be in its callback, waiting for a document whose thread  *)
(* may be waiting for the managers; and so does the server's exit.          *)
ReloadCompletes == main = "joining" ~> main \in {"reading", "crashed"}
ExitCompletes == main = "exiting" ~> main \in {"gone", "crashed"}

(* After its last specification the explorer has every document updated,    *)
(* unless it is stopped first.                                              *)
ExplorationIsAnnounced ==
  \A v \in Loads :
    worker[v] = "exploring" ~>
      (worker[v] = "notifying" \/ quit[v] \/ main = "crashed")

(* The units the explorer has found are in the current library manager once *)
(* it has gone over all of its specifications.                              *)
UnitsAreKept ==
  main = "reading" /\ worker[explorer] = "finished" /\ explorer = manager =>
    units[explorer] = found[explorer]

(* "In this case, whatever ast we have cached is invalid and must be        *)
(* rebuilt": with the exploration finished and the documents updated, an    *)
(* ast that would be kept was made with the current library manager.        *)
KeptAstsAreCurrent ==
  \A d \in Documents :
    /\ main = "reading" /\ worker[explorer] = "finished"
    /\ completed[explorer] = total[explorer] /\ total[explorer] > 0
    /\ thread[d] = "idle" /\ ~pending[d]
    /\ Keeps(ast[d], [manager |-> manager, version |-> version, populated |-> Populated])
    => ast[d].from.manager = manager
=============================================================================
