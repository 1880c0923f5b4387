---------------------------- MODULE WorkingFiles ----------------------------
(***************************************************************************)
(* The documents the editor has open (src/things/working_files.{h,cpp}).   *)
(*                                                                         *)
(* Every open document is a working_file object with a thread of its own,  *)
(* which takes tasks off a queue and runs them while it HOLDS the object's *)
(* mutex_.  Tasks are queued by the main thread, which handles one editor  *)
(* message at a time, and by the explorer's worker, whose completion       *)
(* callback updates every open document.  add_task marks what is queued as *)
(* superseded before it takes the mutex; stop() takes the mutex, so it     *)
(* waits for the task that runs.  A document closed and opened again is a  *)
(* new object, while the old thread may still be on its way out.           *)
(***************************************************************************)
EXTENDS Naturals, Sequences, FiniteSets

CONSTANTS
  Files,            (* the documents the editor may open                    *)
  SvFiles,          (* those among them in SystemVerilog, the rest is VHDL  *)
  MaxObjects,       (* bound: working_file objects created                  *)
  MaxMessages,      (* bound: document messages the editor sends            *)
  MaxUpdateAll,     (* bound: completion callbacks of the explorer          *)
  MaxGenerations,   (* bound: changes of the project's version or state     *)
  MaxFailures,      (* bound: tasks that end in an exception                *)
  SpuriousWakeups   (* may the wait of ~working_files return by itself?     *)

ASSUME BoundsAssumption ==
  /\ SvFiles \subseteq Files
  /\ MaxObjects \in Nat
  /\ MaxMessages \in Nat
  /\ MaxUpdateAll \in Nat
  /\ MaxGenerations \in Nat
  /\ MaxFailures \in Nat
  /\ SpuriousWakeups \in BOOLEAN

Objects  == 1 .. MaxObjects
Requests == 1 .. MaxMessages  (* a request is named by its message's number *)
NoObject == 0
NoRequest == 0
Contents == Nat               (* versions of a file's content, 0 is none    *)
Generations == 0 .. MaxGenerations

(* The threads that queue tasks.                                            *)
Producers == {"main", "worker"}

Tasks == [name : {"update", "run_with_ast"},
          request : Requests \cup {NoRequest},
          is_superseded : BOOLEAN]

UpdateTask == [name |-> "update", request |-> NoRequest, is_superseded |-> FALSE]
RunWithAst(r) == [name |-> "run_with_ast", request |-> r, is_superseded |-> FALSE]

NoTask == [name |-> "none", request |-> NoRequest, is_superseded |-> FALSE]
NoAdd  == [object |-> NoObject, task |-> NoTask]

VARIABLES
  main,        (* where the main thread is                                  *)
  current,     (* the document main is updating or closing                  *)
  messages,    (* document messages handled so far                          *)
  updates,     (* completion callbacks so far                               *)
  failures,    (* tasks that threw so far                                   *)
  disk,        (* file -> version of its content on disk                    *)
  project,     (* the project's loaded version and populated state          *)
  opened,      (* working_files_: file -> object, or NoObject               *)
  created,     (* number of objects created                                 *)
  file,        (* object -> its document                                    *)
  todo,        (* producer -> objects its loop over working_files_ has left *)
  adding,      (* producer -> the add_task it is in, past the marking       *)
  queue,       (* object -> queue_                                          *)
  stopped,     (* object -> stopped_                                        *)
  thread,      (* object -> "none", "loop" (outside the mutex), "took",     *)
               (*           "analysed" (both holding it) or "ended"         *)
  running,     (* object -> the task its thread is on                       *)
  stale,       (* object -> list_of_potentially_referenced_files_now_invalid*)
  looked,      (* object -> what its update found the list to be: "no" (it  *)
               (*           has not looked), "empty" or "some"              *)
  ast,         (* object -> its ast and project version                     *)
  sending,     (* object -> the running task will send diagnostics          *)
  published,   (* file -> content version of the diagnostics at the editor  *)
  threads,     (* number_of_running_threads_                                *)
  status,      (* request -> what became of it                              *)
  target       (* request -> the object it was queued on                    *)

mainVars   == <<main, current, messages>>
fileVars   == <<opened, created, file>>
objectVars == <<stopped, thread, running, stale, looked, ast, sending>>
vars == <<main, current, messages, updates, failures, disk, project, opened,
          created, file, todo, adding, queue, stopped, thread, running, stale, looked,
          ast, sending, published, threads, status, target>>

-----------------------------------------------------------------------------
(* An ast: the project generation it was made for, the content of the main  *)
(* file it last parsed, whether it is invalidated_, the content of the      *)
(* other files its cached units come from (0: none cached), and the files   *)
(* whose units are outdated.                                                *)
Asts == [made : BOOLEAN, generation : Generations, source : Contents,
         invalidated : BOOLEAN, seen : [Files -> Contents],
         outdated : SUBSET Files]

NoAst == [made |-> FALSE, generation |-> 0, source |-> 0, invalidated |-> TRUE,
          seen |-> [f \in Files |-> 0], outdated |-> {}]

FreshAst == [NoAst EXCEPT !.made = TRUE, !.generation = project]

(* make_sure_this_is_latest_project_version: a fresh, invalidated ast when  *)
(* there is none, when the project moved on, or when it is forced.          *)
LatestAst(o, force) ==
  IF ast[o].made /\ ast[o].generation = project /\ ~force
    THEN ast[o]
    ELSE FreshAst

(* The files an update hands over to the ast and takes off the list, under  *)
(* the list's mutex: all that is there by now, if the list was not empty    *)
(* when the update looked, without that mutex.                              *)
HandedOver(o) == IF looked[o] = "some" THEN stale[o] ELSE {}

ClearedBeforeRead(o) ==                                         \* a fault
  IF running[o].name = "update"
    THEN [ast[o] EXCEPT !.invalidated = TRUE]
    ELSE LatestAst(o, FALSE)

(* The ast a live task works on.  An update of a VHDL document outdates the *)
(* units of the files handed over and invalidates the main file; one of a   *)
(* SystemVerilog document starts from nothing.                              *)
Prepared(o) ==
  IF running[o].name = "update"
    THEN [ast[o] EXCEPT
            !.invalidated = TRUE,
            !.outdated = IF file[o] \in SvFiles THEN @ ELSE @ \cup HandedOver(o)]
    ELSE LatestAst(o, FALSE)

(* ast::update as far as the files in loaded: the main file is read and     *)
(* parsed, and the units it refers to are taken from the cache unless they  *)
(* are outdated or not there.                                               *)
Parsed(a, f, loaded) ==
  [a EXCEPT !.source = disk[f],
            !.outdated = @ \ loaded,
            !.seen = [g \in Files |->
                        IF g \in loaded /\ (g \in a.outdated \/ a.seen[g] = 0)
                          THEN disk[g] ELSE a.seen[g]]]

(* The whole of ast::update: nothing when the ast is up to date.            *)
Updated(a, f) ==
  IF a.invalidated
    THEN [Parsed(a, f, Files \ {f}) EXCEPT !.invalidated = FALSE]
    ELSE a

Superseded(q) == [i \in DOMAIN q |-> [q[i] EXCEPT !.is_superseded = TRUE]]

OpenObjects == {opened[f] : f \in Files} \ {NoObject}

(* Main is in connection->read(), ready for the next message.               *)
Reading == main = "reading" /\ todo["main"] = {} /\ adding["main"] = NoAdd

Unlocked(o) == thread[o] \notin {"took", "analysed"}

(* The new task goes to the back of the queue.                              *)
PushedInFront(q, task) == <<task>> \o q                         \* a fault
PushedThenMarked(q, task) == Superseded(Append(q, task))        \* a fault
Pushed(q, task) == Append(q, task)

(* stop() takes the mutex, and it does not wait for the thread to end.      *)
CanStopAnyTime(o) == TRUE                                       \* a fault
CanStopOnceJoined(o) == thread[o] = "ended"                     \* a fault
CanStop(o) == Unlocked(o)

(* number_of_running_threads_ as a thread starts and ends, and as it is     *)
(* looked at by ~working_files.                                             *)
NotCountedIn == threads                                         \* a fault
CountedIn == threads + 1
NotCountedOut == threads                                        \* a fault
CountedOut == threads - 1
NeverWait == FALSE                                              \* a fault
MustWait == threads # 0

(* A superseded request is answered, with an empty result.                  *)
NoReply == "waiting"                                            \* a fault
SupersededOutcome == "empty"

-----------------------------------------------------------------------------
Init ==
  /\ main = "reading"
  /\ current \in Files
  /\ messages = 0
  /\ updates = 0
  /\ failures = 0
  /\ disk = [f \in Files |-> 1]
  /\ project = 0
  /\ opened = [f \in Files |-> NoObject]
  /\ created = 0
  /\ file = [o \in Objects |-> current]
  /\ todo = [p \in Producers |-> {}]
  /\ adding = [p \in Producers |-> NoAdd]
  /\ queue = [o \in Objects |-> <<>>]
  /\ stopped = [o \in Objects |-> FALSE]
  /\ thread = [o \in Objects |-> "none"]
  /\ running = [o \in Objects |-> NoTask]
  /\ stale = [o \in Objects |-> {}]
  /\ looked = [o \in Objects |-> "no"]
  /\ ast = [o \in Objects |-> NoAst]
  /\ sending = [o \in Objects |-> FALSE]
  /\ published = [f \in Files |-> 0]
  /\ threads = 0
  /\ status = [r \in Requests |-> "none"]
  /\ target = [r \in Requests |-> NoObject]

-----------------------------------------------------------------------------
(* add_task, first half: everything on the queue is invalidated, without    *)
(* the mutex; the producer is then committed to queueing its task.          *)
BeginAdd(p, o, task) ==
  /\ queue' = [queue EXCEPT ![o] = Superseded(@)]
  /\ adding' = [adding EXCEPT ![p] = [object |-> o, task |-> task]]

(* add_task, second half: under the mutex, so never while the object's      *)
(* thread runs a task.                                                      *)
EndAdd(p) ==
  LET o == adding[p].object
  IN  /\ adding[p] # NoAdd
      /\ Unlocked(o)
      /\ queue' = [queue EXCEPT ![o] = Pushed(@, adding[p].task)]
      /\ adding' = [adding EXCEPT ![p] = NoAdd]
      /\ UNCHANGED <<main, current, messages, updates, failures, disk,
                     project, fileVars, todo, objectVars, published, threads,
                     status, target>>

-----------------------------------------------------------------------------
(* The main thread's handlers.                                              *)

NextMessage ==
  /\ Reading
  /\ messages < MaxMessages
  /\ messages' = messages + 1

(* didOpen and didSave, working_files::update: create the object and start  *)
(* its thread if the document is not open, then go over every object.       *)
(* The editor has written the content it announces.                         *)
Update(f) ==
  /\ NextMessage
  /\ disk' = [disk EXCEPT ![f] = @ + 1]
  /\ current' = f
  /\ \/ /\ opened[f] # NoObject
        /\ todo' = [todo EXCEPT !["main"] = OpenObjects]
        /\ UNCHANGED <<opened, created, file, thread, threads>>
     \/ /\ opened[f] = NoObject
        /\ created < MaxObjects
        /\ LET o == created + 1
           IN  /\ created' = o
               /\ file' = [file EXCEPT ![o] = f]
               /\ opened' = [opened EXCEPT ![f] = o]
               /\ thread' = [thread EXCEPT ![o] = "loop"]
               /\ threads' = CountedIn
               /\ \E seen \in SUBSET {o} :
                    /\ seen # {} => todo["worker"] # {}
                    /\ todo' = [main |-> OpenObjects \cup {o},
                                worker |-> todo["worker"] \cup seen]
  /\ UNCHANGED <<main, updates, failures, project, adding, queue, stopped,
                 running, stale, looked, ast, sending, published, status, target>>

(* The loop of working_files::update on the document's own object ...       *)
UpdateOwn(o) ==
  /\ main = "reading" /\ o \in todo["main"] /\ adding["main"] = NoAdd
  /\ file[o] = current
  /\ todo' = [todo EXCEPT !["main"] = @ \ {o}]
  /\ BeginAdd("main", o, UpdateTask)
  /\ UNCHANGED <<main, current, messages, updates, failures, disk, project,
                 opened, created, file, stopped, thread, running, stale, looked, ast,
                 sending, published, threads, status, target>>

(* ... and on another one: invalidate_potentially_referenced_file, under    *)
(* the list's own mutex.                                                    *)
InvalidateOther(o) ==
  /\ main = "reading" /\ o \in todo["main"] /\ adding["main"] = NoAdd
  /\ file[o] # current
  /\ todo' = [todo EXCEPT !["main"] = @ \ {o}]
  /\ stale' = [stale EXCEPT ![o] = @ \cup {current}]
  /\ UNCHANGED <<main, current, messages, updates, failures, disk, project,
                 opened, created, file, adding, queue, stopped, thread,
                 running, looked, ast, sending, published, threads, status,
                 target>>

(* foldingRange, documentSymbol, hover, definition: queued on the           *)
(* document's object; for a document that is not open the handler returns.  *)
Ask(f) ==
  LET r == messages + 1
      o == opened[f]
  IN  /\ NextMessage
      /\ \/ /\ o = NoObject
            /\ status' = [status EXCEPT ![r] = "refused"]
            /\ UNCHANGED <<target, queue, adding>>
         \/ /\ o # NoObject
            /\ status' = [status EXCEPT ![r] = "waiting"]
            /\ target' = [target EXCEPT ![r] = o]
            /\ BeginAdd("main", o, RunWithAst(r))
      /\ UNCHANGED <<main, current, updates, failures, disk, project, opened,
                     created, file, todo, stopped, thread, running, stale,
                     looked, ast, sending, published, threads>>

(* didClose, working_files::remove: stop() waits for the mutex.  Then the   *)
(* editor's list of diagnostics is emptied.                                 *)
BeginClose(f) ==
  /\ NextMessage
  /\ current' = f
  /\ main' = "closing"
  /\ UNCHANGED <<updates, failures, disk, project, fileVars, todo, adding,
                 queue, objectVars, published, threads, status, target>>

EndClose ==
  LET o == opened[current]
  IN  /\ main = "closing"
      /\ \/ /\ o # NoObject
            /\ CanStop(o)
            /\ stopped' = [stopped EXCEPT ![o] = TRUE]
            /\ opened' = [opened EXCEPT ![current] = NoObject]
         \/ /\ o = NoObject
            /\ UNCHANGED <<stopped, opened>>
      /\ published' = [published EXCEPT ![current] = 0]
      /\ main' = "reading"
      /\ UNCHANGED <<current, messages, updates, failures, disk, project,
                     created, file, todo, adding, queue, thread, running,
                     stale, looked, ast, sending, threads, status, target>>

-----------------------------------------------------------------------------
(* forever_loop has returned and the server is destroyed: the project,      *)
(* which joins the explorer's worker, then working_files, which stops every *)
(* object and waits for the threads.                                        *)
Exit ==
  /\ Reading
  /\ main' = "joining"
  /\ UNCHANGED <<current, messages, updates, failures, disk, project,
                 fileVars, todo, adding, queue, objectVars, published,
                 threads, status, target>>

WorkerJoined ==
  /\ main = "joining"
  /\ todo["worker"] = {} /\ adding["worker"] = NoAdd
  /\ main' = "stopping"
  /\ todo' = [todo EXCEPT !["main"] = OpenObjects]
  /\ UNCHANGED <<current, messages, updates, failures, disk, project,
                 fileVars, adding, queue, objectVars, published, threads,
                 status, target>>

StopOne(o) ==
  /\ main = "stopping"
  /\ o \in todo["main"]
  /\ CanStop(o)
  /\ stopped' = [stopped EXCEPT ![o] = TRUE]
  /\ todo' = [todo EXCEPT !["main"] = @ \ {o}]
  /\ UNCHANGED <<main, current, messages, updates, failures, disk, project,
                 fileVars, adding, queue, thread, running, stale, looked, ast,
                 sending, published, threads, status, target>>

ClearAndWait ==
  /\ main = "stopping"
  /\ todo["main"] = {}
  /\ opened' = [f \in Files |-> NoObject]
  /\ main' = IF MustWait THEN "waiting" ELSE "destroyed"
  /\ UNCHANGED <<current, messages, updates, failures, disk, project,
                 created, file, todo, adding, queue, objectVars, published,
                 threads, status, target>>

(* One wait without a predicate: the notification of the last thread ends   *)
(* it, and so does a spurious wakeup.                                       *)
WakeUp ==
  /\ main = "waiting"
  /\ threads = 0 \/ SpuriousWakeups
  /\ main' = "destroyed"
  /\ UNCHANGED <<current, messages, updates, failures, disk, project,
                 fileVars, todo, adding, queue, objectVars, published,
                 threads, status, target>>

-----------------------------------------------------------------------------
(* The explorer's worker: its completion callback is update_all_files.      *)

BeginUpdateAll ==
  /\ main \in {"reading", "closing", "joining"}
  /\ updates < MaxUpdateAll
  /\ todo["worker"] = {} /\ adding["worker"] = NoAdd
  /\ updates' = updates + 1
  /\ todo' = [todo EXCEPT !["worker"] = OpenObjects]
  /\ UNCHANGED <<mainVars, failures, disk, project, fileVars, adding, queue,
                 objectVars, published, threads, status, target>>

UpdateAllVisit(o) ==
  /\ o \in todo["worker"] /\ adding["worker"] = NoAdd
  /\ todo' = [todo EXCEPT !["worker"] = @ \ {o}]
  /\ IF o \in OpenObjects
       THEN BeginAdd("worker", o, UpdateTask)
       ELSE UNCHANGED <<queue, adding>>
  /\ UNCHANGED <<mainVars, updates, failures, disk, project, fileVars,
                 objectVars, published, threads, status, target>>

(* The project's version or populated state changes under the documents.    *)
ProjectChanges ==
  /\ main \in {"reading", "closing", "joining"}
  /\ project < MaxGenerations
  /\ project' = project + 1
  /\ UNCHANGED <<mainVars, updates, failures, disk, fileVars, todo, adding,
                 queue, objectVars, published, threads, status, target>>

-----------------------------------------------------------------------------
(* The object's own thread: forever_loop.                                   *)

(* What a task's request becomes, if it has one, as the task ends.          *)
Settle(task, outcome) ==
  status' = IF task.request = NoRequest
              THEN status
              ELSE [status EXCEPT ![task.request] = outcome]

ReleaseMutex(o) ==
  /\ thread' = [thread EXCEPT ![o] = "loop"]
  /\ running' = [running EXCEPT ![o] = NoTask]

Pop(o) ==
  /\ thread[o] = "loop"
  /\ ~stopped[o]
  /\ queue[o] # <<>>
  /\ queue' = [queue EXCEPT ![o] = Tail(@)]

Take(o) ==
  /\ Pop(o)
  /\ ~Head(queue[o]).is_superseded
  /\ thread' = [thread EXCEPT ![o] = "took"]
  /\ running' = [running EXCEPT ![o] = Head(queue[o])]
  /\ UNCHANGED <<mainVars, updates, failures, disk, project, fileVars, todo,
                 adding, stopped, stale, looked, ast, sending, published,
                 threads, status, target>>

(* A superseded update does nothing, a superseded request is answered with  *)
(* an empty result.                                                         *)
SkipSuperseded(o) ==
  /\ Pop(o)
  /\ Head(queue[o]).is_superseded
  /\ Settle(Head(queue[o]), SupersededOutcome)
  /\ UNCHANGED <<mainVars, updates, failures, disk, project, fileVars, todo,
                 adding, objectVars, published, threads, target>>

(* An update first makes sure of the ast, from nothing for a SystemVerilog  *)
(* document, and looks whether the list is empty; main may still put a file *)
(* on the list before the update takes its mutex, or passes by.             *)
Look(o) ==
  /\ thread[o] = "took"
  /\ running[o].name = "update"
  /\ looked[o] = "no"
  /\ ast' = [ast EXCEPT ![o] = LatestAst(o, file[o] \in SvFiles)]
  /\ looked' = [looked EXCEPT ![o] = IF stale[o] = {} THEN "empty" ELSE "some"]
  /\ UNCHANGED <<mainVars, updates, failures, disk, project, fileVars, todo,
                 adding, queue, stopped, thread, running, stale, sending,
                 published, threads, status, target>>

(* What is handed over is off the list.                                     *)
HandOver(o) ==
  /\ thread[o] = "took"
  /\ running[o].name = "update" => looked[o] # "no"
  /\ stale' = [stale EXCEPT ![o] = @ \ HandedOver(o)]
  /\ looked' = [looked EXCEPT ![o] = "no"]

(* The task's work on the ast; the diagnostics are sent if it was rebuilt   *)
(* and the object is not stopped.                                           *)
Analyse(o) ==
  /\ HandOver(o)
  /\ thread' = [thread EXCEPT ![o] = "analysed"]
  /\ ast' = [ast EXCEPT ![o] = Updated(Prepared(o), file[o])]
  /\ sending' = [sending EXCEPT ![o] = Prepared(o).invalidated /\ ~stopped[o]]
  /\ UNCHANGED <<mainVars, updates, failures, disk, project, fileVars, todo,
                 adding, queue, stopped, running, published, threads, status,
                 target>>

(* The diagnostics reach the editor if there are any to send.               *)
SendDiagnostics(o) ==
  published' = IF sending[o]
                 THEN [published EXCEPT ![file[o]] = ast[o].source]
                 ELSE published

(* They do, and then the reply does.                                        *)
Finish(o) ==
  /\ thread[o] = "analysed"
  /\ SendDiagnostics(o)
  /\ sending' = [sending EXCEPT ![o] = FALSE]
  /\ Settle(running[o], "answered")
  /\ ReleaseMutex(o)
  /\ UNCHANGED <<mainVars, updates, failures, disk, project, fileVars, todo,
                 adding, queue, stopped, stale, looked, ast, threads, target>>

(* An exception is logged by forever_loop and the mutex is released.  One   *)
(* out of the parser or the binder leaves an ast with some of its files     *)
(* loaded and sends nothing; one out of a provider comes after the          *)
(* diagnostics, in place of the reply.                                      *)
Fail(o) ==
  /\ failures < MaxFailures
  /\ failures' = failures + 1
  /\ \/ /\ HandOver(o)
        /\ Prepared(o).invalidated
        /\ \E loaded \in SUBSET (Files \ {file[o]}) :
             ast' = [ast EXCEPT ![o] = Parsed(Prepared(o), file[o], loaded)]
        /\ UNCHANGED published
     \/ /\ thread[o] = "analysed"
        /\ running[o].name = "run_with_ast"
        /\ SendDiagnostics(o)
        /\ UNCHANGED <<ast, stale, looked>>
  /\ sending' = [sending EXCEPT ![o] = FALSE]
  /\ Settle(running[o], "failed")
  /\ ReleaseMutex(o)
  /\ UNCHANGED <<mainVars, updates, disk, project, fileVars, todo, adding,
                 queue, stopped, threads, target>>

(* Stopped: the loop breaks, what is queued is never run, and the thread's  *)
(* scope guard counts it out.                                               *)
Leave(o) ==
  /\ thread[o] = "loop"
  /\ stopped[o]
  /\ thread' = [thread EXCEPT ![o] = "ended"]
  /\ threads' = CountedOut
  /\ status' = [r \in Requests |->
                  IF target[r] = o /\ status[r] = "waiting" THEN "dropped" ELSE status[r]]
  /\ UNCHANGED <<mainVars, updates, failures, disk, project, fileVars, todo,
                 adding, queue, stopped, running, stale, looked, ast, sending,
                 published, target>>

-----------------------------------------------------------------------------
MainStep ==
  \/ \E f \in Files : Update(f) \/ Ask(f) \/ BeginClose(f)
  \/ \E o \in Objects : UpdateOwn(o) \/ InvalidateOther(o) \/ StopOne(o)
  \/ EndAdd("main") \/ EndClose \/ Exit \/ WorkerJoined \/ ClearAndWait \/ WakeUp

WorkerStep ==
  \/ BeginUpdateAll
  \/ \E o \in Objects : UpdateAllVisit(o)
  \/ EndAdd("worker")

FileStep(o) ==
  \/ Take(o) \/ SkipSuperseded(o) \/ Look(o) \/ Analyse(o) \/ Finish(o) \/ Fail(o) \/ Leave(o)

(* The server is gone.                                                      *)
Destroyed == main = "destroyed" /\ UNCHANGED vars

Next ==
  \/ MainStep
  \/ WorkerStep
  \/ ProjectChanges
  \/ \E o \in Objects : FileStep(o)
  \/ Destroyed

Spec == Init /\ [][Next]_vars

(* Every thread that can run is scheduled: main finishes the message it is  *)
(* on, the worker its callback and a file thread its task.  Nothing forces  *)
(* the editor to send a message, nor a task to throw.                       *)
MainWork ==
  \/ \E o \in Objects : UpdateOwn(o) \/ InvalidateOther(o) \/ StopOne(o)
  \/ EndAdd("main") \/ EndClose \/ WorkerJoined \/ ClearAndWait \/ WakeUp

WorkerWork ==
  \/ \E o \in Objects : UpdateAllVisit(o)
  \/ EndAdd("worker")

Fairness ==
  /\ WF_vars(MainWork)
  /\ WF_vars(WorkerWork)
  /\ \A o \in Objects : WF_vars(FileStep(o))

FairSpec == Spec /\ Fairness

-----------------------------------------------------------------------------
Statuses == {"none", "waiting", "answered", "empty", "failed", "refused", "dropped"}

(* Every variable holds a value of its kind.                                *)
TypeOK ==
  /\ main \in {"reading", "closing", "joining", "stopping", "waiting", "destroyed"}
  /\ current \in Files
  /\ messages \in 0 .. MaxMessages
  /\ updates \in 0 .. MaxUpdateAll
  /\ failures \in 0 .. MaxFailures
  /\ disk \in [Files -> Nat]
  /\ project \in Generations
  /\ opened \in [Files -> Objects \cup {NoObject}]
  /\ created \in 0 .. MaxObjects
  /\ file \in [Objects -> Files]
  /\ todo \in [Producers -> SUBSET Objects]
  /\ adding \in [Producers -> {NoAdd} \cup [object : Objects, task : Tasks]]
  /\ queue \in [Objects -> Seq(Tasks)]
  /\ stopped \in [Objects -> BOOLEAN]
  /\ thread \in [Objects -> {"none", "loop", "took", "analysed", "ended"}]
  /\ running \in [Objects -> Tasks \cup {NoTask}]
  /\ stale \in [Objects -> SUBSET Files]
  /\ looked \in [Objects -> {"no", "empty", "some"}]
  /\ ast \in [Objects -> Asts]
  /\ sending \in [Objects -> BOOLEAN]
  /\ published \in [Files -> Nat]
  /\ threads \in Nat
  /\ status \in [Requests -> Statuses]
  /\ target \in [Requests -> Objects \cup {NoObject}]

-----------------------------------------------------------------------------
(* Main has not started to destroy the server.                              *)
Serving == main \in {"reading", "closing", "joining", "stopping"}

(* The editor shows no diagnostics for a document that is not open: nothing *)
(* a thread of a closed document still has to send comes after the empty    *)
(* list didClose sends, and none is sent before the document is opened.     *)
ClosedFileStaysClear ==
  \A f \in Files : Serving /\ opened[f] = NoObject => published[f] = 0

(* add_task invalidates a task only in favour of a younger one: behind a    *)
(* superseded task there is another in the queue, or a producer past the    *)
(* marking that is about to queue its own.  So the last task queued is      *)
(* never skipped.                                                           *)
SupersededByYounger ==
  \A o \in Objects : \A i \in DOMAIN queue[o] :
    queue[o][i].is_superseded =>
      \/ i < Len(queue[o])
      \/ \E p \in Producers : adding[p].object = o

(* "tasks will be queued and processed first come first served": the        *)
(* requests queued on an object are served in the order they came, each     *)
(* once, and none once the thread has left its loop.                        *)
Lines == INSTANCE RequestLines WITH
  Lines <- Objects, NoLine <- NoObject, line <- target, outcome <- status,
  closed <- {o \in Objects : thread[o] = "ended"}

FirstComeFirstServed == Lines!Spec

(* An object whose ast holds units of a file that has been saved since      *)
(* knows: the file is on its list, its units are outdated already, or main  *)
(* is still on its way round the objects.                                   *)
NoInvalidationLost ==
  \A o \in OpenObjects : \A g \in Files \ {file[o]} :
    ast[o].seen[g] # 0 /\ ast[o].seen[g] < disk[g] =>
      \/ g \in stale[o] \cup ast[o].outdated
      \/ main = "reading" /\ g = current /\ o \in todo["main"]

(* ~working_files "needs to ensure that no threads are running when it is   *)
(* destroyed".                                                              *)
NoThreadOutlivesWorkingFiles ==
  main = "destroyed" => \A o \in Objects : thread[o] \in {"none", "ended"}

(* While a document stays open the diagnostics at the editor never go back  *)
(* to those of an older content.                                            *)
DiagnosticsNeverRegress ==
  [][\A f \in Files : published'[f] # 0 => published'[f] >= published[f]]_vars

(* What the user saved is recompiled: with nothing left to run for it, an   *)
(* open document's ast is that of its content on disk.                      *)
SavedContentIsRecompiled ==
  \A f \in Files :
    LET o == opened[f]
    IN  /\ Reading
        /\ o # NoObject
        /\ thread[o] = "loop" /\ queue[o] = <<>>
        /\ \A p \in Producers : adding[p].object # o
        => ast[o].source = disk[f]

(* No queued request is forgotten: it is answered in the end, unless its    *)
(* task throws or its document is stopped first.                            *)
RequestsAreSettled ==
  \A r \in Requests :
    status[r] = "waiting" ~>
      \/ status[r] \in {"answered", "empty", "failed"}
      \/ status[r] = "dropped" /\ stopped[target[r]]

(* didClose and the end of the server come through: main gets the mutex of  *)
(* every object it stops, and the wait for the threads ends.                *)
CloseCompletes == main = "closing" ~> main = "reading"
ExitCompletes == main = "joining" ~> main = "destroyed"
=============================================================================
