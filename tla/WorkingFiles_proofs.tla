------------------------ MODULE WorkingFiles_proofs ------------------------
(***************************************************************************)
(* Proofs about WorkingFiles.  The inductive invariant, IInv, follows an   *)
(* object from its creation to the end of its thread.                      *)
(***************************************************************************)
EXTENDS WorkingFiles, FiniteSetTheorems, TLAPS

Live == {o \in Objects : thread[o] \in {"loop", "took", "analysed"}}

(* number_of_running_threads_ counts the threads that have not ended.       *)
ThreadsCounted == threads = Cardinality(Live)

(* An object that is not created has no thread.                             *)
NotYetCreated == \A o \in Objects : o > created => thread[o] = "none"

(* working_files_ maps a document to an object made for it.                 *)
OpenedIsCreated ==
  \A f \in Files : opened[f] # NoObject => opened[f] <= created /\ file[opened[f]] = f

(* A thread that holds the mutex is not stopped: stop() takes the mutex.    *)
LockedIsNotStopped ==
  \A o \in Objects : thread[o] \in {"took", "analysed"} => ~stopped[o]

(* Diagnostics are sent in the middle of a task.                            *)
SenderHoldsMutex == \A o \in Objects : sending[o] => thread[o] = "analysed"

(* An object that is not stopped is the one of its document.                *)
LiveIsOpen ==
  \A o \in Objects : o <= created => stopped[o] \/ opened[file[o]] = o

(* ~working_files has stopped, or has yet to stop, every object.            *)
StoppingCoversAll ==
  main = "stopping" =>
    \A f \in Files : opened[f] # NoObject => stopped[opened[f]] \/ opened[f] \in todo["main"]

(* Without spurious wakeups the wait ends with no thread left.              *)
WaitIsLongEnough == main = "destroyed" /\ ~SpuriousWakeups => threads = 0

IInv ==
  /\ TypeOK
  /\ ThreadsCounted
  /\ NotYetCreated
  /\ OpenedIsCreated
  /\ LockedIsNotStopped
  /\ SenderHoldsMutex
  /\ LiveIsOpen
  /\ StoppingCoversAll
  /\ WaitIsLongEnough

LEMMA TasksType ==
  /\ UpdateTask \in Tasks
  /\ \A r \in Requests : RunWithAst(r) \in Tasks
  /\ NoTask.request = NoRequest
PROOF BY DEF UpdateTask, RunWithAst, Tasks, NoTask, NoRequest

LEMMA SupersededType ==
  ASSUME NEW q \in Seq(Tasks)
  PROVE  /\ Superseded(q) \in Seq(Tasks)
         /\ Len(Superseded(q)) = Len(q)
         /\ \A i \in 1 .. Len(q) : Superseded(q)[i] = [q[i] EXCEPT !.is_superseded = TRUE]
PROOF
<1>1. DOMAIN q = 1 .. Len(q) /\ Len(q) \in Nat /\ \A i \in 1 .. Len(q) : q[i] \in Tasks
  OBVIOUS
<1>2. \A t \in Tasks : [t EXCEPT !.is_superseded = TRUE] \in Tasks
  BY DEF Tasks
<1>3. Superseded(q) \in [1 .. Len(q) -> Tasks]
  BY <1>1, <1>2 DEF Superseded
<1>4. \A i \in 1 .. Len(q) : Superseded(q)[i] = [q[i] EXCEPT !.is_superseded = TRUE]
  BY <1>1 DEF Superseded
<1> QED
  BY <1>1, <1>3, <1>4

LEMMA PreparedType ==
  ASSUME TypeOK, NEW o \in Objects
  PROVE  Prepared(o) \in Asts
PROOF
<1>1. FreshAst \in Asts /\ ast[o] \in Asts /\ stale[o] \in SUBSET Files
  BY DEF FreshAst, NoAst, Asts, Contents, TypeOK
<1>2. LatestAst(o, FALSE) \in Asts
  BY <1>1 DEF LatestAst
<1>3. \A a \in Asts : \A out \in SUBSET Files :
        [a EXCEPT !.invalidated = TRUE, !.outdated = out] \in Asts
  BY DEF Asts
<1>4. ast[o].outdated \in SUBSET Files /\ HandedOver(o) \in SUBSET Files
  BY <1>1 DEF Asts, HandedOver
<1> DEFINE out == IF file[o] \in SvFiles THEN ast[o].outdated
                                        ELSE ast[o].outdated \cup HandedOver(o)
<1>5. [ast[o] EXCEPT !.invalidated = TRUE, !.outdated = out] \in Asts
  BY <1>1, <1>3, <1>4
<1> QED
  BY <1>2, <1>5 DEF Prepared

LEMMA LatestType ==
  ASSUME TypeOK, NEW o \in Objects
  PROVE  LatestAst(o, file[o] \in SvFiles) \in Asts
PROOF
<1>1. FreshAst \in Asts /\ ast[o] \in Asts
  BY DEF FreshAst, NoAst, Asts, Contents, TypeOK
<1> QED
  BY <1>1 DEF LatestAst

LEMMA ParsedType ==
  ASSUME TypeOK, NEW a \in Asts, NEW f \in Files, NEW loaded \in SUBSET Files
  PROVE  /\ Parsed(a, f, loaded) \in Asts
         /\ Updated(a, f) \in Asts
PROOF
<1>1. \A l \in SUBSET Files : Parsed(a, f, l) \in Asts
  BY DEF Parsed, Asts, Contents, TypeOK
<1>2. \A b \in Asts : [b EXCEPT !.invalidated = FALSE] \in Asts
  BY DEF Asts
<1>3. Updated(a, f) \in Asts
  BY <1>1, <1>2 DEF Updated
<1> QED
  BY <1>1, <1>3

LEMMA TypeInit == Init => TypeOK /\ ThreadsCounted
PROOF
<1> SUFFICES ASSUME Init PROVE TypeOK /\ ThreadsCounted
  OBVIOUS
<1>1. TypeOK
  BY BoundsAssumption DEF Init, TypeOK, NoAst, Asts, Contents, Generations, Requests,
     Objects, NoObject, Producers, NoTask, NoAdd, Statuses
<1>2. Live = {}
  BY DEF Init, Live
<1> QED
  BY <1>1, <1>2, FS_EmptySet DEF ThreadsCounted, Init

LEMMA CountFacts ==
  ASSUME TypeOK, ThreadsCounted
  PROVE  /\ IsFiniteSet(Live)
         /\ threads \in Nat
         /\ \A o \in Objects : thread[o] \in {"loop", "took", "analysed"} => threads # 0
PROOF
<1>1. IsFiniteSet(Live)
  <2>1. IsFiniteSet(Objects)
    BY FS_Interval, BoundsAssumption DEF Objects
  <2> QED
    BY <2>1, FS_Subset DEF Live
<1>2. threads \in Nat
  BY <1>1, FS_CardinalityType DEF ThreadsCounted
<1>3. ASSUME NEW o \in Objects, thread[o] \in {"loop", "took", "analysed"}
      PROVE  threads # 0
  <2>1. Live # {}
    BY <1>3 DEF Live
  <2> QED
    BY <1>1, <2>1, FS_EmptySet DEF ThreadsCounted
<1> QED
  BY <1>1, <1>2, <1>3

LEMMA BeginAddType ==
  ASSUME TypeOK, NEW p \in Producers, NEW o \in Objects, NEW task \in Tasks,
         BeginAdd(p, o, task)
  PROVE  /\ queue' \in [Objects -> Seq(Tasks)]
         /\ adding' \in [Producers -> {NoAdd} \cup [object : Objects, task : Tasks]]
PROOF
<1>1. Superseded(queue[o]) \in Seq(Tasks)
  BY SupersededType DEF TypeOK
<1> QED
  BY <1>1 DEF BeginAdd, TypeOK

LEMMA SettleType ==
  ASSUME TypeOK, NEW task \in Tasks \cup {NoTask}, NEW outcome \in Statuses,
         Settle(task, outcome)
  PROVE  status' \in [Requests -> Statuses]
PROOF BY DEF Settle, TypeOK

LEMMA SendType ==
  ASSUME TypeOK, NEW o \in Objects, SendDiagnostics(o)
  PROVE  published' \in [Files -> Nat]
PROOF
<1>1. ast[o].source \in Nat
  BY DEF TypeOK, Asts, Contents
<1> QED
  BY <1>1 DEF SendDiagnostics, TypeOK

LEMMA TypeStep ==
  ASSUME TypeOK, ThreadsCounted, [Next]_vars
  PROVE  TypeOK'
PROOF
<1> USE DEF mainVars, fileVars, objectVars
<1>1. ASSUME NEW f \in Files, Update(f) PROVE TypeOK'
  <2>1. messages' \in 0 .. MaxMessages /\ disk' \in [Files -> Nat]
    BY <1>1, BoundsAssumption DEF Update, NextMessage, TypeOK
  <2>2. OpenObjects \subseteq Objects
    BY DEF OpenObjects, TypeOK
  <2>3. CASE opened[f] # NoObject /\ todo' = [todo EXCEPT !["main"] = OpenObjects]
             /\ UNCHANGED <<opened, created, file, thread, threads>>
    BY <1>1, <2>1, <2>2, <2>3 DEF Update, TypeOK, Producers
  <2>4. CASE opened[f] = NoObject /\ created < MaxObjects /\ created' = created + 1
    <3> DEFINE o == created + 1
    <3>1. o \in Objects /\ created' \in 0 .. MaxObjects
      BY <2>4, BoundsAssumption DEF TypeOK, Objects
    <3>2. threads' \in Nat
      BY <1>1, <2>4, SMTT(20) DEF Update, TypeOK, CountedIn
    <3>3. todo' \in [Producers -> SUBSET Objects]
      <4>1. PICK seen \in SUBSET {o} :
              todo' = [main |-> OpenObjects \cup {o},
                       worker |-> todo["worker"] \cup seen]
        BY <1>1, <2>4 DEF Update
      <4>2. /\ OpenObjects \cup {o} \in SUBSET Objects
            /\ todo["worker"] \cup seen \in SUBSET Objects
        BY <2>2, <3>1 DEF TypeOK, Producers
      <4> QED
        BY <4>1, <4>2 DEF Producers
    <3>4. opened' = [opened EXCEPT ![f] = o] /\ file' = [file EXCEPT ![o] = f]
          /\ thread' = [thread EXCEPT ![o] = "loop"]
      BY <1>1, <2>4 DEF Update
    <3> QED
      BY <1>1, <2>1, <3>1, <3>2, <3>3, <3>4 DEF Update, TypeOK
  <2> QED
    BY <1>1, <2>3, <2>4 DEF Update
<1>2. ASSUME NEW f \in Files, Ask(f) PROVE TypeOK'
  <2>1. messages + 1 \in Requests /\ messages' \in 0 .. MaxMessages
    BY <1>2, BoundsAssumption DEF Ask, NextMessage, Requests, TypeOK
  <2>2. CASE opened[f] = NoObject
    BY <1>2, <2>1, <2>2 DEF Ask, TypeOK, Statuses
  <2>3. CASE opened[f] # NoObject
    <3>1. opened[f] \in Objects
      BY <2>3 DEF TypeOK
    <3>2. BeginAdd("main", opened[f], RunWithAst(messages + 1))
          /\ status' = [status EXCEPT ![messages + 1] = "waiting"]
          /\ target' = [target EXCEPT ![messages + 1] = opened[f]]
      BY <1>2, <2>3 DEF Ask
    <3>3. /\ queue' \in [Objects -> Seq(Tasks)]
          /\ adding' \in [Producers -> {NoAdd} \cup [object : Objects, task : Tasks]]
      BY <2>1, <3>1, <3>2, BeginAddType, TasksType DEF Producers
    <3> QED
      BY <1>2, <2>1, <3>1, <3>2, <3>3 DEF Ask, TypeOK, Statuses
  <2> QED
    BY <2>2, <2>3
<1>3. ASSUME NEW f \in Files, BeginClose(f) PROVE TypeOK'
  BY <1>3, BoundsAssumption DEF TypeOK, BeginClose, NextMessage
<1>4. ASSUME NEW o \in Objects, UpdateOwn(o) PROVE TypeOK'
  <2>1. /\ queue' \in [Objects -> Seq(Tasks)]
        /\ adding' \in [Producers -> {NoAdd} \cup [object : Objects, task : Tasks]]
    BY <1>4, BeginAddType, TasksType DEF UpdateOwn, Producers
  <2> QED
    BY <1>4, <2>1 DEF UpdateOwn, TypeOK, Producers
<1>5. ASSUME NEW o \in Objects, InvalidateOther(o) PROVE TypeOK'
  BY <1>5 DEF TypeOK, InvalidateOther, Producers
<1>6. ASSUME NEW o \in Objects, StopOne(o) PROVE TypeOK'
  BY <1>6 DEF TypeOK, StopOne, Producers
<1>7. ASSUME NEW p \in Producers, EndAdd(p) PROVE TypeOK'
  <2>1. adding[p].object \in Objects /\ adding[p].task \in Tasks
    BY <1>7 DEF TypeOK, EndAdd
  <2>2. queue' \in [Objects -> Seq(Tasks)]
    BY <1>7, <2>1 DEF TypeOK, EndAdd, Pushed
  <2>3. adding' \in [Producers -> {NoAdd} \cup [object : Objects, task : Tasks]]
    BY <1>7 DEF TypeOK, EndAdd
  <2> QED
    BY <1>7, <2>2, <2>3 DEF TypeOK, EndAdd
<1>8. CASE EndClose
  BY <1>8 DEF TypeOK, EndClose, NoObject
<1>9. CASE Exit
  BY <1>9 DEF TypeOK, Exit
<1>10. CASE WorkerJoined
  BY <1>10 DEF TypeOK, WorkerJoined, OpenObjects, Producers
<1>11. CASE ClearAndWait
  BY <1>11 DEF TypeOK, ClearAndWait, NoObject
<1>12. CASE WakeUp
  BY <1>12 DEF TypeOK, WakeUp
<1>13. CASE BeginUpdateAll
  BY <1>13, BoundsAssumption, SMTT(20) DEF TypeOK, BeginUpdateAll, OpenObjects, Producers
<1>14. ASSUME NEW o \in Objects, UpdateAllVisit(o) PROVE TypeOK'
  <2>1. /\ queue' \in [Objects -> Seq(Tasks)]
        /\ adding' \in [Producers -> {NoAdd} \cup [object : Objects, task : Tasks]]
    BY <1>14, BeginAddType, TasksType DEF UpdateAllVisit, Producers, TypeOK
  <2> QED
    BY <1>14, <2>1 DEF UpdateAllVisit, TypeOK, Producers
<1>15. CASE ProjectChanges
  BY <1>15, BoundsAssumption DEF TypeOK, ProjectChanges, Generations
<1>16. ASSUME NEW o \in Objects, Take(o) PROVE TypeOK'
  BY <1>16, SMTT(20) DEF TypeOK, Take, Pop
<1>17. ASSUME NEW o \in Objects, SkipSuperseded(o) PROVE TypeOK'
  <2>1. Len(queue[o]) # 0 /\ Head(queue[o]) \in Tasks /\ Tail(queue[o]) \in Seq(Tasks)
    BY <1>17 DEF SkipSuperseded, Pop, TypeOK
  <2>2. status' \in [Requests -> Statuses]
    BY <1>17, <2>1, SettleType DEF SkipSuperseded, SupersededOutcome, Statuses
  <2> QED
    BY <1>17, <2>1, <2>2 DEF SkipSuperseded, Pop, TypeOK
<1>18. ASSUME NEW o \in Objects, Analyse(o) PROVE TypeOK'
  <2>1. Prepared(o) \in Asts
    BY PreparedType
  <2>2. \A f \in Files : Updated(Prepared(o), f) \in Asts
    BY <2>1, ParsedType
  <2>3. file[o] \in Files
    BY DEF TypeOK
  <2>4. Updated(Prepared(o), file[o]) \in Asts
    BY <2>2, <2>3
  <2>5. ast' \in [Objects -> Asts]
    BY <1>18, <2>4 DEF Analyse, TypeOK
  <2>6. sending' \in [Objects -> BOOLEAN]
    BY <1>18 DEF Analyse, TypeOK
  <2>7. /\ stale' \in [Objects -> SUBSET Files]
        /\ looked' \in [Objects -> {"no", "empty", "some"}]
    BY <1>18 DEF Analyse, HandOver, TypeOK
  <2>8. thread' = [thread EXCEPT ![o] = "analysed"]
    BY <1>18 DEF Analyse
  <2> QED
    BY <1>18, <2>5, <2>6, <2>7, <2>8 DEF Analyse, TypeOK
<1>19. ASSUME NEW o \in Objects, Finish(o) PROVE TypeOK'
  <2>1. status' \in [Requests -> Statuses]
    BY <1>19, SettleType DEF Finish, Statuses, TypeOK
  <2>2. published' \in [Files -> Nat]
    BY <1>19, SendType DEF Finish
  <2> QED
    BY <1>19, <2>1, <2>2 DEF Finish, ReleaseMutex, TypeOK
<1>20. ASSUME NEW o \in Objects, Fail(o) PROVE TypeOK'
  <2>1. status' \in [Requests -> Statuses]
    BY <1>20, SettleType DEF Fail, Statuses, TypeOK
  <2>2. failures' \in 0 .. MaxFailures
    BY <1>20, BoundsAssumption DEF Fail, TypeOK
  <2>3. \A loaded \in SUBSET (Files \ {file[o]}) :
          Parsed(Prepared(o), file[o], loaded) \in Asts
    BY PreparedType, ParsedType DEF TypeOK
  <2>4. ast' \in [Objects -> Asts]
    <3>1. CASE ast' = ast
      BY <3>1 DEF TypeOK
    <3>2. CASE \E loaded \in SUBSET (Files \ {file[o]}) :
                 ast' = [ast EXCEPT ![o] = Parsed(Prepared(o), file[o], loaded)]
      <4>1. PICK loaded \in SUBSET (Files \ {file[o]}) :
              ast' = [ast EXCEPT ![o] = Parsed(Prepared(o), file[o], loaded)]
        BY <3>2
      <4>2. Parsed(Prepared(o), file[o], loaded) \in Asts
        BY <2>3
      <4> QED
        BY <4>1, <4>2 DEF TypeOK
    <3> QED
      BY <1>20, <3>1, <3>2 DEF Fail
  <2>5. /\ stale' \in [Objects -> SUBSET Files]
        /\ looked' \in [Objects -> {"no", "empty", "some"}]
    <3>1. CASE UNCHANGED <<stale, looked>>
      BY <3>1 DEF TypeOK
    <3>2. CASE HandOver(o)
      BY <3>2 DEF HandOver, TypeOK
    <3> QED
      BY <1>20, <3>1, <3>2 DEF Fail
  <2>6. published' \in [Files -> Nat]
    <3>1. CASE SendDiagnostics(o)
      BY <3>1, SendType
    <3>2. CASE UNCHANGED published
      BY <3>2 DEF TypeOK
    <3> QED
      BY <1>20, <3>1, <3>2 DEF Fail
  <2>7. /\ thread' \in [Objects -> {"none", "loop", "took", "analysed", "ended"}]
        /\ running' \in [Objects -> Tasks \cup {NoTask}]
        /\ sending' \in [Objects -> BOOLEAN]
    BY <1>20 DEF Fail, ReleaseMutex, TypeOK
  <2>8. UNCHANGED <<mainVars, updates, disk, project, fileVars, todo, adding, queue,
                    stopped, threads, target>>
    BY <1>20 DEF Fail
  <2> QED
    BY <2>1, <2>2, <2>4, <2>5, <2>6, <2>7, <2>8 DEF TypeOK
<1>21. ASSUME NEW o \in Objects, Leave(o) PROVE TypeOK'
  BY <1>21, CountFacts DEF TypeOK, Leave, CountedOut, Statuses
<1>22. ASSUME NEW o \in Objects, Look(o) PROVE TypeOK'
  <2>1. LatestAst(o, file[o] \in SvFiles) \in Asts
    BY LatestType
  <2>2. ast' \in [Objects -> Asts] /\ looked' \in [Objects -> {"no", "empty", "some"}]
    BY <1>22, <2>1 DEF Look, TypeOK
  <2> QED
    BY <1>22, <2>2 DEF Look, TypeOK
<1>23. CASE UNCHANGED vars
  BY <1>23 DEF TypeOK, vars
<1> QED
  BY <1>1, <1>2, <1>3, <1>4, <1>5, <1>6, <1>7, <1>8, <1>9, <1>10, <1>11, <1>12, <1>13, <1>14, <1>15, <1>16, <1>17, <1>18, <1>19, <1>20, <1>21, <1>22, <1>23 DEF Next, MainStep, WorkerStep, FileStep, Destroyed, Producers

LEMMA CountStep ==
  ASSUME IInv, [Next]_vars
  PROVE  ThreadsCounted' /\ WaitIsLongEnough'
PROOF
<1> USE DEF mainVars, fileVars, objectVars
<1>1. IsFiniteSet(Live) /\ threads \in Nat
  BY CountFacts DEF IInv
<1>2. CASE UNCHANGED <<thread, threads>> /\ (main' = "destroyed" => main = "destroyed")
  BY <1>2 DEF IInv, ThreadsCounted, WaitIsLongEnough, Live
<1>3. ASSUME NEW f \in Files, Update(f), opened[f] = NoObject
      PROVE  ThreadsCounted' /\ WaitIsLongEnough'
  <2> DEFINE o == created + 1
  <2>1. o \in Objects /\ o > created /\ main = "reading" /\ main' = main
    BY <1>3, BoundsAssumption DEF Update, NextMessage, Reading, IInv, TypeOK, Objects
  <2>2. thread' = [thread EXCEPT ![o] = "loop"] /\ threads' = threads + 1
    BY <1>3 DEF Update, CountedIn
  <2>3. o \notin Live
    BY <2>1 DEF IInv, NotYetCreated, Live
  <2>4. Live' = Live \cup {o}
    BY <2>1, <2>2 DEF Live, IInv, TypeOK
  <2>5. Cardinality(Live \cup {o}) = Cardinality(Live) + 1
    BY <1>1, <2>3, FS_AddElement
  <2> QED
    BY <2>1, <2>2, <2>4, <2>5 DEF IInv, ThreadsCounted, WaitIsLongEnough
<1>4. ASSUME NEW o \in Objects, Take(o) \/ Analyse(o) \/ Finish(o) \/ Fail(o)
      PROVE  ThreadsCounted' /\ WaitIsLongEnough'
  <2>1. /\ threads' = threads /\ main' = main
        /\ thread[o] \in {"loop", "took", "analysed"}
        /\ \E at \in {"loop", "took", "analysed"} : thread' = [thread EXCEPT ![o] = at]
    BY <1>4 DEF Take, Pop, Analyse, Finish, Fail, HandOver, ReleaseMutex
  <2>2. Live' = Live
    BY <2>1 DEF Live, IInv, TypeOK
  <2> QED
    BY <2>1, <2>2 DEF IInv, ThreadsCounted, WaitIsLongEnough
<1>5. ASSUME NEW o \in Objects, Leave(o)
      PROVE  ThreadsCounted' /\ WaitIsLongEnough'
  <2>1. /\ thread[o] = "loop" /\ thread' = [thread EXCEPT ![o] = "ended"]
        /\ threads' = threads - 1 /\ main' = main
    BY <1>5 DEF Leave, CountedOut
  <2>2. o \in Live /\ Live' = Live \ {o}
    BY <2>1 DEF Live, IInv, TypeOK
  <2>3. Cardinality(Live \ {o}) = Cardinality(Live) - 1
    BY <1>1, <2>2, FS_RemoveElement
  <2>4. threads # 0
    BY <2>1, CountFacts DEF IInv
  <2> QED
    BY <2>1, <2>2, <2>3, <2>4 DEF IInv, ThreadsCounted, WaitIsLongEnough
<1>6. CASE ClearAndWait \/ WakeUp
  <2>1. UNCHANGED <<thread, threads>>
    BY <1>6 DEF ClearAndWait, WakeUp
  <2>2. main' = "destroyed" /\ ~SpuriousWakeups => threads = 0
    BY <1>6 DEF ClearAndWait, WakeUp, MustWait
  <2> QED
    BY <2>1, <2>2 DEF IInv, ThreadsCounted, WaitIsLongEnough, Live
<1>7. ASSUME NEW f \in Files, (Update(f) /\ opened[f] # NoObject) \/ Ask(f) \/ BeginClose(f)
      PROVE  UNCHANGED <<thread, threads>> /\ (main' = "destroyed" => main = "destroyed")
  BY <1>7 DEF Update, Ask, BeginClose
<1>8. ASSUME NEW o \in Objects, UpdateOwn(o) \/ InvalidateOther(o) \/ StopOne(o)
                                \/ UpdateAllVisit(o) \/ SkipSuperseded(o) \/ Look(o)
      PROVE  UNCHANGED <<thread, threads>> /\ (main' = "destroyed" => main = "destroyed")
  BY <1>8 DEF UpdateOwn, InvalidateOther, StopOne, UpdateAllVisit, SkipSuperseded, Look
<1>9. CASE EndAdd("main") \/ EndAdd("worker") \/ EndClose \/ Exit \/ WorkerJoined
           \/ BeginUpdateAll \/ ProjectChanges \/ Destroyed \/ UNCHANGED vars
  <2>1. UNCHANGED <<thread, threads>> /\ (main' = "destroyed" => main = "destroyed")
    BY <1>9 DEF EndAdd, EndClose, Exit, WorkerJoined, BeginUpdateAll, ProjectChanges,
       Destroyed, vars
  <2> QED
    BY <1>2, <2>1
<1> QED
  BY <1>2, <1>3, <1>4, <1>5, <1>6, <1>7, <1>8, <1>9
     DEF Next, MainStep, WorkerStep, FileStep

(* The life of an object: created for a document, stopped under its mutex,  *)
(* never let go of by working_files_ before it is stopped.                  *)
Lifecycle ==
  /\ NotYetCreated
  /\ OpenedIsCreated
  /\ LockedIsNotStopped
  /\ SenderHoldsMutex
  /\ LiveIsOpen
  /\ StoppingCoversAll

LEMMA LifecycleStep ==
  ASSUME IInv, TypeOK', [Next]_vars
  PROVE  Lifecycle'
PROOF
<1> USE DEF mainVars, fileVars, objectVars, Lifecycle
<1>1. ASSUME UNCHANGED <<opened, created, file, stopped, thread, sending>>,
             main' = "stopping" => main = "stopping" /\ todo' = todo
      PROVE  Lifecycle'
  BY <1>1 DEF IInv, NotYetCreated, OpenedIsCreated, LockedIsNotStopped,
     SenderHoldsMutex, LiveIsOpen, StoppingCoversAll
<1>2. ASSUME NEW f \in Files, Update(f), opened[f] # NoObject PROVE Lifecycle'
  BY <1>1, <1>2 DEF Update, NextMessage, Reading
<1>3. ASSUME NEW f \in Files, Update(f), opened[f] = NoObject PROVE Lifecycle'
  <2> DEFINE o == created + 1
  <2>1. o \in Objects /\ o > created /\ created' = o /\ main' = "reading"
    BY <1>3, BoundsAssumption DEF Update, NextMessage, Reading, IInv, TypeOK, Objects
  <2>2. /\ thread' = [thread EXCEPT ![o] = "loop"]
        /\ opened' = [opened EXCEPT ![f] = o]
        /\ file' = [file EXCEPT ![o] = f]
        /\ UNCHANGED <<stopped, sending>>
    BY <1>3 DEF Update
  <2>3. \A x \in Objects : x <= o <=> x <= created \/ x = o
    BY <2>1, BoundsAssumption DEF Objects, IInv, TypeOK
  <2>4. NotYetCreated' /\ LockedIsNotStopped' /\ SenderHoldsMutex'
    <3>1. \A x \in Objects : x > o => x > created /\ x # o
      BY <2>1, BoundsAssumption DEF Objects, IInv, TypeOK
    <3>2. NotYetCreated'
      BY <2>1, <2>2, <3>1 DEF IInv, TypeOK, NotYetCreated
    <3>3. \A x \in Objects : thread'[x] = IF x = o THEN "loop" ELSE thread[x]
      BY <2>1, <2>2 DEF IInv, TypeOK
    <3>4. thread[o] = "none"
      BY <2>1 DEF IInv, NotYetCreated
    <3> QED
      BY <2>2, <3>2, <3>3, <3>4 DEF IInv, LockedIsNotStopped, SenderHoldsMutex
  <2>5. OpenedIsCreated'
    <3> SUFFICES ASSUME NEW g \in Files, opened'[g] # NoObject
                 PROVE  opened'[g] <= o /\ file'[opened'[g]] = g
      BY <2>1 DEF OpenedIsCreated
    <3>1. CASE g = f
      BY <2>1, <2>2, <3>1 DEF IInv, TypeOK, Objects
    <3>2. CASE g # f
      <4>1. opened'[g] = opened[g] /\ opened[g] \in Objects
        BY <2>2, <3>2 DEF IInv, TypeOK
      <4>2. opened[g] <= created /\ file[opened[g]] = g
        BY <4>1 DEF IInv, OpenedIsCreated
      <4>3. opened[g] <= o /\ opened[g] # o
        <5>1. created \in Nat /\ MaxObjects \in Nat
          BY BoundsAssumption DEF IInv, TypeOK
        <5> QED
          BY <2>1, <4>1, <4>2, <5>1 DEF Objects
      <4> QED
        BY <2>2, <4>1, <4>2, <4>3 DEF IInv, TypeOK
    <3> QED
      BY <3>1, <3>2
  <2>6. LiveIsOpen'
    <3> SUFFICES ASSUME NEW x \in Objects, x <= o
                 PROVE  stopped'[x] \/ opened'[file'[x]] = x
      BY <2>1 DEF LiveIsOpen
    <3>1. CASE x = o
      BY <2>1, <2>2, <3>1 DEF IInv, TypeOK
    <3>2. CASE x <= created
      <4>1. stopped[x] \/ opened[file[x]] = x
        BY <3>2 DEF IInv, LiveIsOpen
      <4>2. x # NoObject /\ x # o /\ file'[x] = file[x]
        BY <2>1, <2>2, <3>2 DEF IInv, TypeOK, Objects, NoObject
      <4> QED
        BY <1>3, <2>2, <4>1, <4>2 DEF IInv, TypeOK
    <3> QED
      BY <2>3, <3>1, <3>2
  <2> QED
    BY <2>1, <2>4, <2>5, <2>6 DEF StoppingCoversAll
<1>4. ASSUME NEW f \in Files, Ask(f) \/ BeginClose(f) PROVE Lifecycle'
  BY <1>1, <1>4 DEF Ask, BeginClose, NextMessage, Reading
<1>5. ASSUME NEW o \in Objects, UpdateOwn(o) \/ InvalidateOther(o) PROVE Lifecycle'
  BY <1>1, <1>5 DEF UpdateOwn, InvalidateOther
<1>6. ASSUME NEW o \in Objects, StopOne(o) PROVE Lifecycle'
  <2>1. /\ o \in todo["main"] /\ thread[o] \notin {"took", "analysed"}
        /\ stopped' = [stopped EXCEPT ![o] = TRUE]
        /\ todo' = [todo EXCEPT !["main"] = @ \ {o}]
        /\ UNCHANGED <<main, opened, created, file, thread, sending>>
    BY <1>6 DEF StopOne, CanStop, Unlocked
  <2>2. /\ \A x \in Objects : stopped'[x] <=> stopped[x] \/ x = o
        /\ todo'["main"] = todo["main"] \ {o}
    BY <2>1 DEF IInv, TypeOK, Producers
  <2>3. LockedIsNotStopped' /\ SenderHoldsMutex' /\ OpenedIsCreated'
    BY <2>1, <2>2 DEF IInv, LockedIsNotStopped, SenderHoldsMutex, OpenedIsCreated
  <2>4. NotYetCreated'
    BY <2>1, <2>2 DEF IInv, NotYetCreated
  <2>5. LiveIsOpen'
    BY <2>1, <2>2 DEF IInv, LiveIsOpen
  <2>6. \A f \in Files : opened[f] # NoObject => opened[f] \in Objects
    BY DEF IInv, TypeOK
  <2>7. StoppingCoversAll'
    BY <2>1, <2>2, <2>6 DEF IInv, StoppingCoversAll
  <2> QED
    BY <2>3, <2>4, <2>5, <2>7
<1>7. CASE EndClose
  <2>1. /\ main' = "reading" /\ UNCHANGED <<created, file, thread, sending>>
        /\ \/ /\ opened[current] # NoObject
              /\ thread[opened[current]] \notin {"took", "analysed"}
              /\ stopped' = [stopped EXCEPT ![opened[current]] = TRUE]
              /\ opened' = [opened EXCEPT ![current] = NoObject]
           \/ UNCHANGED <<stopped, opened>>
    BY <1>7 DEF EndClose, CanStop, Unlocked
  <2>2. CASE UNCHANGED <<stopped, opened>>
    BY <2>1, <2>2 DEF IInv, NotYetCreated, OpenedIsCreated, LockedIsNotStopped,
       SenderHoldsMutex, LiveIsOpen, StoppingCoversAll
  <2>3. ASSUME NEW o \in Objects, o = opened[current],
               thread[o] \notin {"took", "analysed"},
               stopped' = [stopped EXCEPT ![o] = TRUE],
               opened' = [opened EXCEPT ![current] = NoObject]
        PROVE  Lifecycle'
    <3>1. \A x \in Objects : stopped'[x] <=> stopped[x] \/ x = o
      BY <2>3 DEF IInv, TypeOK
    <3>2. \A g \in Files : opened'[g] = IF g = current THEN NoObject ELSE opened[g]
      BY <2>3 DEF IInv, TypeOK
    <3>3. NotYetCreated' /\ LockedIsNotStopped' /\ SenderHoldsMutex'
      BY <2>1, <2>3, <3>1 DEF IInv, NotYetCreated, LockedIsNotStopped, SenderHoldsMutex
    <3>4. OpenedIsCreated'
      BY <2>1, <3>2 DEF IInv, OpenedIsCreated
    <3>5. LiveIsOpen'
      <4> SUFFICES ASSUME NEW x \in Objects, x <= created, ~stopped'[x]
                   PROVE  opened'[file[x]] = x
        BY <2>1 DEF LiveIsOpen
      <4>1. opened[file[x]] = x /\ x # o /\ file[x] \in Files
        BY <3>1 DEF IInv, TypeOK, LiveIsOpen
      <4>2. file[x] # current
        BY <2>3, <4>1
      <4> QED
        BY <3>2, <4>1, <4>2
    <3> QED
      BY <2>1, <3>3, <3>4, <3>5 DEF StoppingCoversAll
  <2>4. opened[current] # NoObject => opened[current] \in Objects
    BY DEF IInv, TypeOK
  <2> QED
    BY <2>1, <2>2, <2>3, <2>4
<1>8. CASE ClearAndWait
  <2>1. /\ main = "stopping" /\ main' # "stopping" /\ todo["main"] = {}
        /\ opened' = [f \in Files |-> NoObject]
        /\ UNCHANGED <<created, file, stopped, thread, sending>>
    BY <1>8 DEF ClearAndWait
  <2>2. \A o \in Objects : o <= created => stopped[o]
    <3> SUFFICES ASSUME NEW o \in Objects, o <= created, ~stopped[o] PROVE FALSE
      OBVIOUS
    <3>1. opened[file[o]] = o /\ file[o] \in Files
      BY DEF IInv, LiveIsOpen, TypeOK
    <3>2. o # NoObject
      BY DEF Objects, NoObject
    <3> QED
      BY <2>1, <3>1, <3>2 DEF IInv, StoppingCoversAll
  <2> QED
    BY <2>1, <2>2 DEF IInv, TypeOK, NotYetCreated, OpenedIsCreated, LockedIsNotStopped,
       SenderHoldsMutex, LiveIsOpen, StoppingCoversAll
<1>9. CASE WorkerJoined
  <2>1. /\ todo' = [todo EXCEPT !["main"] = OpenObjects]
        /\ UNCHANGED <<opened, created, file, stopped, thread, sending>>
    BY <1>9 DEF WorkerJoined
  <2> QED
    BY <2>1 DEF IInv, TypeOK, Producers, OpenObjects, NotYetCreated, OpenedIsCreated,
       LockedIsNotStopped, SenderHoldsMutex, LiveIsOpen, StoppingCoversAll
<1>10. CASE BeginUpdateAll
  <2>1. /\ todo' = [todo EXCEPT !["worker"] = OpenObjects]
        /\ UNCHANGED <<main, opened, created, file, stopped, thread, sending>>
    BY <1>10 DEF BeginUpdateAll
  <2> QED
    BY <2>1 DEF IInv, TypeOK, Producers, NotYetCreated, OpenedIsCreated,
       LockedIsNotStopped, SenderHoldsMutex, LiveIsOpen, StoppingCoversAll
<1>11. ASSUME NEW o \in Objects, UpdateAllVisit(o) PROVE Lifecycle'
  <2>1. /\ todo' = [todo EXCEPT !["worker"] = @ \ {o}]
        /\ UNCHANGED <<main, opened, created, file, stopped, thread, sending>>
    BY <1>11 DEF UpdateAllVisit
  <2> QED
    BY <2>1 DEF IInv, TypeOK, Producers, NotYetCreated, OpenedIsCreated,
       LockedIsNotStopped, SenderHoldsMutex, LiveIsOpen, StoppingCoversAll
<1>12. CASE EndAdd("main") \/ EndAdd("worker") \/ Exit \/ WakeUp \/ ProjectChanges
            \/ Destroyed \/ UNCHANGED vars
  BY <1>1, <1>12 DEF EndAdd, Exit, WakeUp, ProjectChanges, Destroyed, vars
<1>13. ASSUME NEW o \in Objects, SkipSuperseded(o) PROVE Lifecycle'
  BY <1>1, <1>13 DEF SkipSuperseded
<1>14. ASSUME NEW o \in Objects, NEW at \in {"loop", "took", "analysed", "ended"},
              thread[o] \in {"loop", "took", "analysed"},
              thread' = [thread EXCEPT ![o] = at],
              at \in {"took", "analysed"} => ~stopped[o],
              sending' = sending \/ \E s \in BOOLEAN : sending' = [sending EXCEPT ![o] = s],
              sending'[o] => at = "analysed",
              UNCHANGED <<main, opened, created, file, stopped, todo>>
       PROVE  Lifecycle'
  <2>1. \A x \in Objects : thread'[x] = IF x = o THEN at ELSE thread[x]
    BY <1>14 DEF IInv, TypeOK
  <2>2. \A x \in Objects : x # o => sending'[x] = sending[x]
    <3>1. sending \in [Objects -> BOOLEAN]
      BY DEF IInv, TypeOK
    <3>2. CASE sending' = sending
      BY <3>2
    <3>3. CASE \E s \in BOOLEAN : sending' = [sending EXCEPT ![o] = s]
      BY <3>1, <3>3
    <3> QED
      BY <1>14, <3>2, <3>3
  <2>3. NotYetCreated'
    BY <1>14, <2>1 DEF IInv, NotYetCreated
  <2>4. LockedIsNotStopped'
    BY <1>14, <2>1 DEF IInv, LockedIsNotStopped
  <2>5. SenderHoldsMutex'
    BY <1>14, <2>1, <2>2 DEF IInv, SenderHoldsMutex
  <2>6. OpenedIsCreated' /\ LiveIsOpen' /\ StoppingCoversAll'
    BY <1>14 DEF IInv, OpenedIsCreated, LiveIsOpen, StoppingCoversAll
  <2> QED
    BY <2>3, <2>4, <2>5, <2>6
<1>15. ASSUME NEW o \in Objects, Take(o) \/ Look(o) PROVE Lifecycle'
  <2>1. CASE Take(o)
    BY <1>14, <2>1 DEF Take, Pop, IInv, TypeOK, SenderHoldsMutex
  <2>2. CASE Look(o)
    BY <1>1, <2>2 DEF Look
  <2> QED
    BY <1>15, <2>1, <2>2
<1>16. ASSUME NEW o \in Objects, Analyse(o) PROVE Lifecycle'
  <2>1. Prepared(o).invalidated \in BOOLEAN
    BY PreparedType DEF IInv, Asts
  <2> QED
    BY <1>14, <1>16, <2>1 DEF Analyse, HandOver, IInv, TypeOK, LockedIsNotStopped
<1>17. ASSUME NEW o \in Objects, Finish(o) \/ Fail(o) PROVE Lifecycle'
  <2>1. /\ thread[o] \in {"took", "analysed"}
        /\ thread' = [thread EXCEPT ![o] = "loop"]
        /\ sending' = [sending EXCEPT ![o] = FALSE]
        /\ UNCHANGED <<main, opened, created, file, stopped, todo>>
    BY <1>17 DEF Finish, Fail, HandOver, ReleaseMutex
  <2>2. ~sending'[o]
    BY <2>1 DEF IInv, TypeOK
  <2> QED
    BY <1>14, <2>1, <2>2
<1>18. ASSUME NEW o \in Objects, Leave(o) PROVE Lifecycle'
  BY <1>14, <1>18 DEF Leave, IInv, TypeOK, SenderHoldsMutex
<1> QED
  BY <1>2, <1>3, <1>4, <1>5, <1>6, <1>7, <1>8, <1>9, <1>10, <1>11, <1>12, <1>13,
     <1>15, <1>16, <1>17, <1>18 DEF Next, MainStep, WorkerStep, FileStep

LEMMA IInvInit == Init => IInv
PROOF
<1> SUFFICES ASSUME Init PROVE IInv
  OBVIOUS
<1>1. TypeOK /\ ThreadsCounted
  BY TypeInit
<1>2. Lifecycle
  BY DEF Init, Objects, Lifecycle, NotYetCreated, OpenedIsCreated, LockedIsNotStopped,
     SenderHoldsMutex, LiveIsOpen, StoppingCoversAll
<1> QED
  BY <1>1, <1>2 DEF IInv, Lifecycle, WaitIsLongEnough, Init

LEMMA IInvStep == IInv /\ [Next]_vars => IInv'
PROOF
<1> SUFFICES ASSUME IInv, [Next]_vars PROVE IInv'
  OBVIOUS
<1>1. TypeOK'
  BY TypeStep DEF IInv
<1>2. ThreadsCounted' /\ WaitIsLongEnough'
  BY CountStep
<1>3. Lifecycle'
  BY <1>1, LifecycleStep
<1> QED
  BY <1>1, <1>2, <1>3 DEF IInv, Lifecycle

(* The inductive invariant holds of every behaviour of the open documents.  *)
THEOREM Inductive == Spec => []IInv
PROOF
<1>1. Init => IInv
  BY IInvInit
<1>2. IInv /\ [Next]_vars => IInv'
  BY IInvStep
<1> QED
  BY <1>1, <1>2, PTL DEF Spec

(* The variables of working_files and of its objects keep their types, the  *)
(* count of the running threads among them: it never goes below zero.       *)
THEOREM TypeCorrect == Spec => []TypeOK
PROOF
<1>1. IInv => TypeOK
  BY DEF IInv
<1> QED
  BY <1>1, Inductive, PTL

(* ~working_files leaves no thread behind, for any number of documents and  *)
(* objects, provided its condition variable does not wake up by itself.     *)
THEOREM NoThreadOutlives ==
  ~SpuriousWakeups => (Spec => []NoThreadOutlivesWorkingFiles)
PROOF
<1> SUFFICES ASSUME ~SpuriousWakeups PROVE Spec => []NoThreadOutlivesWorkingFiles
  OBVIOUS
<1>1. IInv => NoThreadOutlivesWorkingFiles
  <2> SUFFICES ASSUME IInv, main = "destroyed", NEW o \in Objects
               PROVE  thread[o] \in {"none", "ended"}
    BY DEF NoThreadOutlivesWorkingFiles
  <2>1. threads = 0
    BY DEF IInv, WaitIsLongEnough
  <2>2. thread[o] \notin {"loop", "took", "analysed"}
    BY <2>1, CountFacts DEF IInv
  <2> QED
    BY <2>2 DEF IInv, TypeOK
<1> QED
  BY <1>1, Inductive, PTL

-----------------------------------------------------------------------------
(* The diagnostics at the editor.  What a thread is about to send is not    *)
(* older than what the editor shows for its document.                       *)
NothingOlderIsSent ==
  /\ \A f \in Files : published[f] <= disk[f]
  /\ \A o \in Objects : sending[o] =>
       published[file[o]] <= ast[o].source /\ ast[o].source <= disk[file[o]]

(* The step by which the thread of o sends its diagnostics.                 *)
Sends(o) == sending[o] /\ published' = [published EXCEPT ![file[o]] = ast[o].source]

(* How the diagnostics, and what they are made from, may change in a step.  *)
LEMMA DiagnosticsSteps ==
  ASSUME IInv, [Next]_vars
  PROVE  \/ published' = published
         \/ main = "closing" /\ published' = [published EXCEPT ![current] = 0]
              /\ opened'[current] = NoObject
         \/ \E o \in Objects : Sends(o) /\ UNCHANGED <<opened, main, disk, file>>
PROOF
<1> USE DEF mainVars, fileVars, objectVars
<1>1. ASSUME NEW f \in Files, Update(f) \/ Ask(f) \/ BeginClose(f) PROVE published' = published
  BY <1>1 DEF Update, Ask, BeginClose
<1>2. ASSUME NEW o \in Objects, UpdateOwn(o) \/ InvalidateOther(o) \/ StopOne(o)
                                \/ UpdateAllVisit(o) \/ Take(o) \/ SkipSuperseded(o)
                                \/ Look(o) \/ Analyse(o) \/ Leave(o)
      PROVE  published' = published
  BY <1>2 DEF UpdateOwn, InvalidateOther, StopOne, UpdateAllVisit, Take, SkipSuperseded,
     Look, Analyse, Leave
<1>3. CASE EndAdd("main") \/ EndAdd("worker") \/ Exit \/ WorkerJoined \/ ClearAndWait
           \/ WakeUp \/ BeginUpdateAll \/ ProjectChanges \/ Destroyed \/ UNCHANGED vars
  BY <1>3 DEF EndAdd, Exit, WorkerJoined, ClearAndWait, WakeUp, BeginUpdateAll,
     ProjectChanges, Destroyed, vars
<1>4. CASE EndClose
  BY <1>4 DEF EndClose, IInv, TypeOK
<1>5. ASSUME NEW o \in Objects, Finish(o) \/ Fail(o)
      PROVE  published' = published \/ (Sends(o) /\ UNCHANGED <<opened, main, disk, file>>)
  BY <1>5 DEF Finish, Fail, SendDiagnostics, Sends
<1> QED
  BY <1>1, <1>2, <1>3, <1>4, <1>5 DEF Next, MainStep, WorkerStep, FileStep

(* A thread that is about to send is that of the open document's object.    *)
LEMMA SenderIsOpen ==
  ASSUME IInv, NEW o \in Objects, sending[o]
  PROVE  opened[file[o]] = o /\ file[o] \in Files /\ o # NoObject
PROOF
<1>1. thread[o] = "analysed" /\ ~stopped[o]
  BY DEF IInv, SenderHoldsMutex, LockedIsNotStopped
<1>2. o <= created
  BY <1>1, BoundsAssumption DEF IInv, TypeOK, NotYetCreated, Objects
<1>3. file[o] \in Files
  BY DEF IInv, TypeOK
<1>4. o # NoObject
  BY DEF Objects, NoObject
<1> QED
  BY <1>1, <1>2, <1>3, <1>4 DEF IInv, LiveIsOpen

LEMMA ClosingSteps ==
  ASSUME IInv, [Next]_vars, Serving'
  PROVE  /\ Serving
         /\ \A f \in Files : opened'[f] = NoObject =>
              opened[f] = NoObject \/ published'[f] = 0
PROOF
<1> USE DEF mainVars, fileVars, objectVars, Serving
<1>1. ASSUME NEW f \in Files, Update(f)
      PROVE  Serving /\ \A g \in Files : opened'[g] = NoObject => opened[g] = NoObject
  <2>1. main = "reading"
    BY <1>1 DEF Update, NextMessage, Reading
  <2>2. created + 1 # NoObject
    BY BoundsAssumption DEF IInv, TypeOK, NoObject
  <2> QED
    BY <1>1, <2>1, <2>2 DEF Update, IInv, TypeOK
<1>2. ASSUME NEW f \in Files, Ask(f) \/ BeginClose(f) PROVE Serving /\ opened' = opened
  BY <1>2 DEF Ask, BeginClose, NextMessage, Reading
<1>3. ASSUME NEW o \in Objects, UpdateOwn(o) \/ InvalidateOther(o) \/ StopOne(o)
                                \/ UpdateAllVisit(o) \/ FileStep(o)
      PROVE  Serving /\ opened' = opened
  BY <1>3 DEF UpdateOwn, InvalidateOther, StopOne, UpdateAllVisit, FileStep, Take,
     SkipSuperseded, Look, Analyse, Finish, Fail, Leave
<1>4. CASE EndAdd("main") \/ EndAdd("worker") \/ Exit \/ WorkerJoined \/ WakeUp
           \/ BeginUpdateAll \/ ProjectChanges \/ Destroyed \/ UNCHANGED vars
  BY <1>4 DEF EndAdd, Exit, Reading, WorkerJoined, WakeUp, BeginUpdateAll, ProjectChanges,
     Destroyed, vars
<1>5. CASE EndClose
  BY <1>5 DEF EndClose, IInv, TypeOK
<1>6. CASE ClearAndWait
  BY <1>6 DEF ClearAndWait
<1> QED
  BY <1>1, <1>2, <1>3, <1>4, <1>5, <1>6 DEF Next, MainStep, WorkerStep

(* didClose leaves the editor with no diagnostics for the document, for     *)
(* good: no thread of it sends any afterwards.                              *)
THEOREM ClosedStaysClear == Spec => []ClosedFileStaysClear
PROOF
<1>1. Init => ClosedFileStaysClear
  BY DEF Init, ClosedFileStaysClear
<1>2. ClosedFileStaysClear /\ IInv /\ [Next]_vars => ClosedFileStaysClear'
  <2> SUFFICES ASSUME ClosedFileStaysClear, IInv, [Next]_vars, Serving',
                      NEW f \in Files, opened'[f] = NoObject
               PROVE  published'[f] = 0
    BY DEF ClosedFileStaysClear, Serving
  <2>1. Serving /\ (opened[f] = NoObject \/ published'[f] = 0)
    BY ClosingSteps
  <2> SUFFICES ASSUME opened[f] = NoObject PROVE published'[f] = 0
    BY <2>1
  <2>2. published[f] = 0
    BY <2>1 DEF ClosedFileStaysClear
  <2>3. CASE \E o \in Objects : Sends(o)
    <3>1. PICK o \in Objects : Sends(o)
      BY <2>3
    <3>2. file[o] # f
      BY <3>1, SenderIsOpen DEF Sends
    <3> QED
      BY <2>2, <3>1, <3>2 DEF Sends, IInv, TypeOK
  <2> QED
    BY <2>2, <2>3, DiagnosticsSteps DEF IInv, TypeOK
<1> QED
  BY <1>1, <1>2, Inductive, PTL DEF Spec

LEMMA NothingOlderStep ==
  ASSUME IInv, TypeOK', NothingOlderIsSent, [Next]_vars
  PROVE  NothingOlderIsSent'
PROOF
<1> USE DEF mainVars, fileVars, objectVars
<1>1. ASSUME UNCHANGED <<disk, published, file, sending>>,
             \A o \in Objects : sending[o] => ast'[o] = ast[o]
      PROVE  NothingOlderIsSent'
  BY <1>1 DEF NothingOlderIsSent
<1>2. ASSUME NEW f \in Files, Update(f) PROVE NothingOlderIsSent'
  <2>1. /\ UNCHANGED <<published, sending, ast>>
        /\ disk' = [disk EXCEPT ![f] = @ + 1]
    BY <1>2 DEF Update
  <2>2. \A g \in Files : disk[g] <= disk'[g] /\ disk[g] \in Nat /\ disk'[g] \in Nat
    <3>1. disk \in [Files -> Nat]
      BY DEF IInv, TypeOK
    <3>2. \A g \in Files : disk'[g] = IF g = f THEN disk[g] + 1 ELSE disk[g]
      BY <2>1, <3>1
    <3> QED
      BY <3>1, <3>2
  <2>3. \A g \in Files : published[g] <= disk'[g]
    <3>1. \A g \in Files : published[g] <= disk[g] /\ published[g] \in Nat
      BY DEF NothingOlderIsSent, IInv, TypeOK
    <3> QED
      BY <2>2, <3>1
  <2>4. ASSUME NEW o \in Objects, sending[o] PROVE file'[o] = file[o]
    <3>1. o \in Nat /\ created \in Nat
      BY BoundsAssumption DEF IInv, TypeOK, Objects
    <3>2. o # created + 1
      <4>1. thread[o] = "analysed"
        BY <2>4 DEF IInv, SenderHoldsMutex
      <4>2. ~(o > created)
        BY <4>1 DEF IInv, NotYetCreated
      <4> QED
        BY <3>1, <4>2
    <3>3. file' = file \/ file' = [file EXCEPT ![created + 1] = f]
      BY <1>2 DEF Update
    <3>4. file \in [Objects -> Files]
      BY DEF IInv, TypeOK
    <3> QED
      BY <3>2, <3>3, <3>4
  <2>5. ASSUME NEW o \in Objects, sending[o]
        PROVE  published[file[o]] <= ast[o].source /\ ast[o].source <= disk'[file[o]]
    <3>1. file[o] \in Files /\ ast[o].source \in Nat
      BY DEF IInv, TypeOK, Asts, Contents
    <3>2. ast[o].source <= disk[file[o]] /\ published[file[o]] <= ast[o].source
      BY <2>5 DEF NothingOlderIsSent
    <3> QED
      BY <2>2, <3>1, <3>2
  <2> QED
    BY <2>1, <2>3, <2>4, <2>5 DEF NothingOlderIsSent
<1>3. ASSUME NEW o \in Objects, Analyse(o) PROVE NothingOlderIsSent'
  <2>1. /\ UNCHANGED <<disk, published, file>>
        /\ ast' = [ast EXCEPT ![o] = Updated(Prepared(o), file[o])]
        /\ sending' = [sending EXCEPT ![o] = Prepared(o).invalidated /\ ~stopped[o]]
    BY <1>3 DEF Analyse
  <2>2. sending'[o] => ast'[o].source = disk[file[o]]
    <3>1. Prepared(o) \in Asts
      BY PreparedType DEF IInv
    <3>2. \A a \in Asts : a.invalidated => Updated(a, file[o]).source = disk[file[o]]
      BY DEF Updated, Parsed, Asts
    <3>3. sending \in [Objects -> BOOLEAN] /\ ast \in [Objects -> Asts]
      BY DEF IInv, TypeOK
    <3>4. sending'[o] = (Prepared(o).invalidated /\ ~stopped[o])
      BY <2>1, <3>3
    <3>5. ast'[o] = Updated(Prepared(o), file[o])
      BY <2>1, <3>3
    <3> QED
      BY <3>1, <3>2, <3>4, <3>5
  <2>3. \A x \in Objects : x # o => sending'[x] = sending[x] /\ ast'[x] = ast[x]
    BY <2>1 DEF IInv, TypeOK
  <2>4. sending'[o] => published[file[o]] <= ast'[o].source /\ ast'[o].source <= disk[file[o]]
    <3>1. file[o] \in Files
      BY DEF IInv, TypeOK
    <3>2. disk[file[o]] \in Nat /\ published[file[o]] <= disk[file[o]]
      BY <3>1 DEF NothingOlderIsSent, IInv, TypeOK
    <3> QED
      BY <2>2, <3>2
  <2> QED
    BY <2>1, <2>3, <2>4 DEF NothingOlderIsSent
<1>4. ASSUME NEW o \in Objects, Look(o) PROVE NothingOlderIsSent'
  <2>1. /\ UNCHANGED <<disk, published, file, sending>>
        /\ thread[o] = "took"
        /\ \A x \in Objects : x # o => ast'[x] = ast[x]
    BY <1>4 DEF Look, IInv, TypeOK
  <2>2. ~sending[o]
    BY <2>1 DEF IInv, SenderHoldsMutex
  <2> QED
    BY <1>1, <2>1, <2>2
<1>5. ASSUME NEW o \in Objects, Finish(o) \/ Fail(o) PROVE NothingOlderIsSent'
  <2>1. /\ UNCHANGED <<disk, file>> /\ sending' = [sending EXCEPT ![o] = FALSE]
        /\ \A x \in Objects : x # o => ast'[x] = ast[x]
        /\ \/ published' = published
           \/ sending[o] /\ published' = [published EXCEPT ![file[o]] = ast[o].source]
    <3>1. ast \in [Objects -> Asts]
      BY DEF IInv, TypeOK
    <3>2. \/ ast' = ast
          \/ \E loaded \in SUBSET (Files \ {file[o]}) :
               ast' = [ast EXCEPT ![o] = Parsed(Prepared(o), file[o], loaded)]
      BY <1>5 DEF Finish, Fail
    <3>3. \A x \in Objects : x # o => ast'[x] = ast[x]
      BY <3>1, <3>2
    <3>4. published' = published \/ SendDiagnostics(o)
      BY <1>5 DEF Finish, Fail
    <3>5. /\ UNCHANGED <<disk, file>>
          /\ sending' = [sending EXCEPT ![o] = FALSE]
      BY <1>5 DEF Finish, Fail
    <3> QED
      BY <3>3, <3>4, <3>5 DEF SendDiagnostics
  <2>2. \A x \in Objects : sending'[x] => x # o /\ sending[x]
    <3>1. sending \in [Objects -> BOOLEAN]
      BY DEF IInv, TypeOK
    <3> QED
      BY <2>1, <3>1
  <2>3. ASSUME NEW x \in Objects, sending'[x], sending[o] PROVE file[x] # file[o]
    BY <2>2, <2>3, SenderIsOpen
  <2>4. \/ published' = published
        \/ /\ sending[o]
           /\ \A f \in Files : published'[f] =
                IF f = file[o] THEN ast[o].source ELSE published[f]
    <3>1. published \in [Files -> Nat] /\ file[o] \in Files
      BY DEF IInv, TypeOK
    <3> QED
      BY <2>1, <3>1
  <2>6. \A f \in Files : published'[f] <= disk[f]
    BY <2>4 DEF NothingOlderIsSent
  <2>7. \A x \in Objects : sending'[x] => published'[file[x]] = published[file[x]]
    BY <2>3, <2>4 DEF IInv, TypeOK
  <2> QED
    BY <2>1, <2>2, <2>6, <2>7 DEF NothingOlderIsSent
<1>6. CASE EndClose
  <2>1. /\ UNCHANGED <<disk, file, ast, sending>>
        /\ published' = [published EXCEPT ![current] = 0]
    BY <1>6 DEF EndClose
  <2>2. \A f \in Files : published'[f] <= published[f] /\ published[f] \in Nat
                         /\ published'[f] \in Nat /\ disk[f] \in Nat
    BY <2>1 DEF IInv, TypeOK
  <2>3. \A o \in Objects : file[o] \in Files /\ ast[o].source \in Nat
    BY DEF IInv, TypeOK, Asts, Contents
  <2>4. \A f \in Files : published'[f] <= disk[f]
    BY <2>2 DEF NothingOlderIsSent
  <2>5. \A o \in Objects : sending[o] => published'[file[o]] <= ast[o].source
    BY <2>2, <2>3 DEF NothingOlderIsSent
  <2> QED
    BY <2>1, <2>4, <2>5 DEF NothingOlderIsSent
<1>7. ASSUME NEW f \in Files, Ask(f) \/ BeginClose(f) PROVE NothingOlderIsSent'
  BY <1>1, <1>7 DEF Ask, BeginClose
<1>8. ASSUME NEW o \in Objects, UpdateOwn(o) \/ InvalidateOther(o) \/ StopOne(o)
                                \/ UpdateAllVisit(o) \/ Take(o) \/ SkipSuperseded(o)
                                \/ Leave(o)
      PROVE  NothingOlderIsSent'
  BY <1>1, <1>8 DEF UpdateOwn, InvalidateOther, StopOne, UpdateAllVisit, Take,
     SkipSuperseded, Leave
<1>9. CASE EndAdd("main") \/ EndAdd("worker") \/ Exit \/ WorkerJoined \/ ClearAndWait
           \/ WakeUp \/ BeginUpdateAll \/ ProjectChanges \/ Destroyed \/ UNCHANGED vars
  BY <1>1, <1>9 DEF EndAdd, Exit, WorkerJoined, ClearAndWait, WakeUp, BeginUpdateAll,
     ProjectChanges, Destroyed, vars
<1> QED
  BY <1>2, <1>3, <1>4, <1>5, <1>6, <1>7, <1>8, <1>9
     DEF Next, MainStep, WorkerStep, FileStep

(* Diagnostics never go back to an older content of an open document, nor   *)
(* to one from before it was closed and opened again.                       *)
THEOREM NeverRegress == Spec => DiagnosticsNeverRegress
PROOF
<1>1. Init => NothingOlderIsSent
  BY DEF Init, NothingOlderIsSent
<1>2. IInv /\ IInv' /\ NothingOlderIsSent /\ [Next]_vars => NothingOlderIsSent'
  BY NothingOlderStep DEF IInv
<1>3. IInv /\ NothingOlderIsSent /\ [Next]_vars
        => [\A f \in Files : published'[f] # 0 => published'[f] >= published[f]]_vars
  <2> SUFFICES ASSUME IInv, NothingOlderIsSent, [Next]_vars,
                      NEW f \in Files, published'[f] # 0
               PROVE  published'[f] >= published[f]
    OBVIOUS
  <2>1. published[f] \in Nat
    BY DEF IInv, TypeOK
  <2>2. ASSUME NEW o \in Objects, Sends(o) PROVE published'[f] >= published[f]
    BY <2>1, <2>2 DEF Sends, NothingOlderIsSent, IInv, TypeOK, Asts, Contents
  <2>3. CASE published' = published
    BY <2>1, <2>3
  <2>4. CASE published' = [published EXCEPT ![current] = 0]
    <3>1. published'[f] = published[f]
      BY <2>4 DEF IInv, TypeOK
    <3> QED
      BY <2>1, <3>1
  <2> QED
    BY <2>2, <2>3, <2>4, DiagnosticsSteps
<1> QED
  BY <1>1, <1>2, <1>3, Inductive, PTL DEF Spec, DiagnosticsNeverRegress

-----------------------------------------------------------------------------
(* The tasks and the requests: which task add_task supersedes, what an      *)
(* update knows of the other documents, and that requests are served first  *)
(* come first served, as RequestLines says.                                 *)

(* Facts about a queue of tasks.                                            *)

LEMMA QueueType ==
  ASSUME TypeOK, NEW o \in Objects
  PROVE  /\ queue[o] \in Seq(Tasks)
         /\ Len(queue[o]) \in Nat
         /\ DOMAIN queue[o] = 1 .. Len(queue[o])
         /\ \A i \in 1 .. Len(queue[o]) : queue[o][i] \in Tasks
PROOF
<1>1. queue[o] \in Seq(Tasks)
  BY DEF TypeOK
<1> QED
  BY <1>1

LEMMA TailFacts ==
  ASSUME NEW q \in Seq(Tasks), q # <<>>
  PROVE  /\ Len(q) \in Nat \ {0}
         /\ Head(q) = q[1] /\ Head(q) \in Tasks
         /\ Tail(q) \in Seq(Tasks)
         /\ Len(Tail(q)) = Len(q) - 1
         /\ \A i \in 1 .. Len(q) - 1 : Tail(q)[i] = q[i + 1]
PROOF OBVIOUS

LEMMA AppendFacts ==
  ASSUME NEW q \in Seq(Tasks), NEW task \in Tasks
  PROVE  /\ Append(q, task) \in Seq(Tasks)
         /\ Len(q) \in Nat
         /\ Len(Append(q, task)) = Len(q) + 1
         /\ \A i \in 1 .. Len(q) : Append(q, task)[i] = q[i]
         /\ Append(q, task)[Len(q) + 1] = task
PROOF OBVIOUS

(* Marking the tasks of a queue as superseded moves none of them.           *)
SameTasks(o) ==
  /\ Len(queue'[o]) = Len(queue[o])
  /\ \A i \in 1 .. Len(queue[o]) : queue'[o][i].request = queue[o][i].request

LEMMA BeginAddFacts ==
  ASSUME TypeOK, NEW p \in Producers, NEW o \in Objects, NEW task \in Tasks,
         BeginAdd(p, o, task)
  PROVE  /\ \A x \in Objects : SameTasks(x)
         /\ \A x \in Objects : x # o => queue'[x] = queue[x]
         /\ \A x \in Producers : adding'[x] = IF x = p THEN [object |-> o, task |-> task]
                                                       ELSE adding[x]
PROOF
<1>1. queue' = [queue EXCEPT ![o] = Superseded(queue[o])] /\ queue \in [Objects -> Seq(Tasks)]
  BY DEF BeginAdd, TypeOK
<1>2. queue[o] \in Seq(Tasks)
  BY QueueType
<1>3. /\ Len(Superseded(queue[o])) = Len(queue[o])
      /\ \A i \in 1 .. Len(queue[o]) :
           Superseded(queue[o])[i] = [queue[o][i] EXCEPT !.is_superseded = TRUE]
  BY <1>2, SupersededType
<1>4. \A i \in 1 .. Len(queue[o]) : Superseded(queue[o])[i].request = queue[o][i].request
  BY <1>2, <1>3, QueueType DEF Tasks
<1>5. SameTasks(o)
  BY <1>1, <1>3, <1>4 DEF SameTasks
<1>6. \A x \in Objects : x # o => queue'[x] = queue[x] /\ SameTasks(x)
  BY <1>1 DEF SameTasks
<1>7. \A x \in Producers : adding'[x] = IF x = p THEN [object |-> o, task |-> task]
                                                 ELSE adding[x]
  BY DEF BeginAdd, TypeOK
<1> QED
  BY <1>5, <1>6, <1>7

-----------------------------------------------------------------------------
(* What add_task marks.  No producer queues a task that is superseded.      *)
NeverAddedSuperseded == \A p \in Producers : ~adding[p].task.is_superseded

SupersedingInv == NeverAddedSuperseded /\ SupersededByYounger

(* A step that starts add_task: the producer was not in one.                *)
LEMMA BeginAddSupersedes ==
  ASSUME TypeOK, TypeOK', SupersedingInv, NEW p \in Producers, NEW o \in Objects,
         NEW task \in Tasks, ~task.is_superseded, adding[p] = NoAdd, BeginAdd(p, o, task)
  PROVE  SupersedingInv'
PROOF
<1>1. /\ \A x \in Objects : x # o => queue'[x] = queue[x]
      /\ \A x \in Producers : adding'[x] = IF x = p THEN [object |-> o, task |-> task]
                                                    ELSE adding[x]
  BY BeginAddFacts
<1>2. NeverAddedSuperseded'
  BY <1>1 DEF SupersedingInv, NeverAddedSuperseded
<1>3. ASSUME NEW x \in Objects, NEW i \in DOMAIN queue'[x], queue'[x][i].is_superseded
      PROVE  i < Len(queue'[x]) \/ \E c \in Producers : adding'[c].object = x
  <2>1. CASE x = o
    BY <1>1, <2>1
  <2>2. CASE x # o
    <3>1. i < Len(queue[x]) \/ \E c \in Producers : adding[c].object = x
      BY <1>1, <1>3, <2>2 DEF SupersedingInv, SupersededByYounger
    <3>2. adding[p].object # x
      BY DEF NoAdd, NoObject, Objects
    <3> QED
      BY <1>1, <2>2, <3>1, <3>2
  <2> QED
    BY <2>1, <2>2
<1> QED
  BY <1>2, <1>3 DEF SupersedingInv, SupersededByYounger

LEMMA PopKeepsSuperseding ==
  ASSUME TypeOK, TypeOK', SupersedingInv, NEW o \in Objects, Pop(o), UNCHANGED adding
  PROVE  SupersedingInv'
PROOF
<1>1. queue' = [queue EXCEPT ![o] = Tail(queue[o])] /\ queue[o] # <<>>
  BY DEF Pop
<1>2. queue[o] \in Seq(Tasks)
  BY QueueType
<1>3. NeverAddedSuperseded'
  BY DEF SupersedingInv, NeverAddedSuperseded
<1>4. ASSUME NEW x \in Objects, NEW i \in DOMAIN queue'[x], queue'[x][i].is_superseded
      PROVE  i < Len(queue'[x]) \/ \E c \in Producers : adding'[c].object = x
  <2>1. CASE x # o
    BY <1>1, <1>4, <2>1 DEF SupersedingInv, SupersededByYounger, TypeOK
  <2>2. CASE x = o
    <3>1. queue'[o] = Tail(queue[o]) /\ Len(Tail(queue[o])) = Len(queue[o]) - 1
          /\ Len(queue[o]) \in Nat
      BY <1>1, <1>2, TailFacts DEF TypeOK
    <3>2. i \in 1 .. Len(queue[o]) - 1 /\ queue[o][i + 1].is_superseded
      <4>1. DOMAIN Tail(queue[o]) = 1 .. Len(Tail(queue[o]))
        BY <1>1, <1>2, TailFacts
      <4>2. i \in 1 .. Len(queue[o]) - 1
        BY <1>4, <2>2, <3>1, <4>1
      <4>3. Tail(queue[o])[i] = queue[o][i + 1]
        BY <1>1, <1>2, <4>2, TailFacts
      <4>4. Tail(queue[o])[i].is_superseded
        BY <1>4, <2>2, <3>1
      <4> QED
        BY <4>2, <4>3, <4>4
    <3>3. i + 1 \in DOMAIN queue[o]
      BY <1>2, <3>1, <3>2
    <3>4. i + 1 < Len(queue[o]) \/ \E c \in Producers : adding[c].object = o
      BY <3>2, <3>3 DEF SupersedingInv, SupersededByYounger
    <3> QED
      BY <2>2, <3>1, <3>2, <3>4
  <2> QED
    BY <2>1, <2>2
<1> QED
  BY <1>3, <1>4 DEF SupersedingInv, SupersededByYounger

LEMMA EndAddKeepsSuperseding ==
  ASSUME TypeOK, TypeOK', SupersedingInv, NEW p \in Producers, EndAdd(p)
  PROVE  SupersedingInv'
PROOF
<1> DEFINE o == adding[p].object
           t == adding[p].task
<1>1. o \in Objects /\ t \in Tasks /\ ~t.is_superseded
  BY DEF EndAdd, TypeOK, SupersedingInv, NeverAddedSuperseded
<1>2. /\ queue' = [queue EXCEPT ![o] = Append(queue[o], t)]
      /\ adding' = [adding EXCEPT ![p] = NoAdd]
  BY DEF EndAdd, Pushed
<1> HIDE DEF o, t
<1>3. queue[o] \in Seq(Tasks)
  BY <1>1, QueueType
<1>4. \A c \in Producers : adding'[c] = IF c = p THEN NoAdd ELSE adding[c]
  BY <1>2 DEF TypeOK
<1>5. NeverAddedSuperseded'
  BY <1>4 DEF SupersedingInv, NeverAddedSuperseded, NoAdd, NoTask
<1>6. ASSUME NEW x \in Objects, NEW i \in DOMAIN queue'[x], queue'[x][i].is_superseded
      PROVE  i < Len(queue'[x]) \/ \E c \in Producers : adding'[c].object = x
  <2>1. CASE x # o
    <3>1. queue'[x] = queue[x]
      BY <1>2, <2>1 DEF TypeOK
    <3>2. i < Len(queue[x]) \/ \E c \in Producers : adding[c].object = x
      BY <1>6, <3>1 DEF SupersedingInv, SupersededByYounger
    <3> QED
      BY <1>4, <2>1, <3>1, <3>2 DEF o
  <2>2. CASE x = o
    <3>1. queue'[o] = Append(queue[o], t)
      BY <1>1, <1>2 DEF TypeOK
    <3>2. /\ Len(queue'[o]) = Len(queue[o]) + 1 /\ Len(queue[o]) \in Nat
          /\ queue'[o][Len(queue[o]) + 1] = t
          /\ DOMAIN queue'[o] = 1 .. Len(queue[o]) + 1
      BY <1>1, <1>3, <3>1
    <3>3. i # Len(queue[o]) + 1
      BY <1>1, <1>6, <2>2, <3>2
    <3> QED
      BY <2>2, <3>2, <3>3
  <2> QED
    BY <2>1, <2>2
<1> QED
  BY <1>5, <1>6 DEF SupersedingInv, SupersededByYounger

LEMMA SupersedingStep ==
  ASSUME TypeOK, TypeOK', SupersedingInv, [Next]_vars
  PROVE  SupersedingInv'
PROOF
<1> USE DEF mainVars, fileVars, objectVars
<1>1. ASSUME UNCHANGED <<queue, adding>> PROVE SupersedingInv'
  BY <1>1 DEF SupersedingInv, NeverAddedSuperseded, SupersededByYounger
<1>2. UpdateTask \in Tasks /\ ~UpdateTask.is_superseded
      /\ \A r \in Requests : RunWithAst(r) \in Tasks /\ ~RunWithAst(r).is_superseded
  BY TasksType DEF UpdateTask, RunWithAst
<1>3. ASSUME NEW f \in Files, Ask(f) PROVE SupersedingInv'
  <2>1. CASE opened[f] = NoObject
    BY <1>1, <1>3, <2>1 DEF Ask
  <2>2. CASE opened[f] # NoObject
    <3>1. /\ BeginAdd("main", opened[f], RunWithAst(messages + 1))
          /\ adding["main"] = NoAdd
          /\ messages + 1 \in Requests /\ opened[f] \in Objects
      BY <1>3, <2>2, BoundsAssumption DEF Ask, NextMessage, Reading, Requests, TypeOK
    <3> QED
      BY <1>2, <3>1, BeginAddSupersedes DEF Producers
  <2> QED
    BY <2>1, <2>2
<1>4. ASSUME NEW o \in Objects, UpdateOwn(o) PROVE SupersedingInv'
  BY <1>2, <1>4, BeginAddSupersedes DEF UpdateOwn, Producers
<1>5. ASSUME NEW o \in Objects, UpdateAllVisit(o) PROVE SupersedingInv'
  BY <1>1, <1>2, <1>5, BeginAddSupersedes DEF UpdateAllVisit, Producers
<1>6. ASSUME NEW o \in Objects, Take(o) \/ SkipSuperseded(o) PROVE SupersedingInv'
  BY <1>6, PopKeepsSuperseding DEF Take, SkipSuperseded
<1>7. CASE EndAdd("main") \/ EndAdd("worker")
  BY <1>7, EndAddKeepsSuperseding DEF Producers
<1>8. ASSUME NEW f \in Files, Update(f) \/ BeginClose(f) PROVE SupersedingInv'
  BY <1>1, <1>8 DEF Update, BeginClose
<1>9. ASSUME NEW o \in Objects, InvalidateOther(o) \/ StopOne(o) \/ Analyse(o)
                                \/ Look(o) \/ Finish(o) \/ Fail(o) \/ Leave(o)
      PROVE  SupersedingInv'
  BY <1>1, <1>9 DEF InvalidateOther, StopOne, Look, Analyse, Finish, Fail, Leave
<1>10. CASE EndClose \/ Exit \/ WorkerJoined \/ ClearAndWait \/ WakeUp \/ BeginUpdateAll
            \/ ProjectChanges \/ Destroyed \/ UNCHANGED vars
  BY <1>1, <1>10 DEF EndClose, Exit, WorkerJoined, ClearAndWait, WakeUp, BeginUpdateAll,
     ProjectChanges, Destroyed, vars
<1> QED
  BY <1>3, <1>4, <1>5, <1>6, <1>7, <1>8, <1>9, <1>10
     DEF Next, MainStep, WorkerStep, FileStep

(* add_task invalidates a task only in favour of a younger one, however     *)
(* many documents are open and however main and the worker interleave.      *)
THEOREM OnlyByYounger == Spec => []SupersededByYounger
PROOF
<1>1. Init => SupersedingInv
  BY DEF Init, SupersedingInv, NeverAddedSuperseded, SupersededByYounger, NoAdd, NoTask
<1>2. TypeOK /\ TypeOK' /\ SupersedingInv /\ [Next]_vars => SupersedingInv'
  BY SupersedingStep
<1>3. SupersedingInv => SupersededByYounger
  BY DEF SupersedingInv
<1> QED
  BY <1>1, <1>2, <1>3, TypeCorrect, PTL DEF Spec

-----------------------------------------------------------------------------
(* What an update knows of the other documents.  Nothing is cached for an   *)
(* object before it is created.                                             *)
NotYetAnalysed ==
  \A o \in Objects : o > created => \A g \in Files : ast[o].seen[g] = 0

(* The units of g that o has cached are outdated.                           *)
Behind(o, g) == ast[o].seen[g] # 0 /\ ast[o].seen[g] < disk[g]

(* Main has yet to tell o of g.                                             *)
OnItsWay(o, g) == main = "reading" /\ g = current /\ o \in todo["main"]

InvalidationInv == NotYetAnalysed /\ NoInvalidationLost

(* Only an update looks at the list; the ast of a SystemVerilog document is *)
(* then a fresh one, so that it loses nothing by what is taken off.         *)
LookInv ==
  \A o \in Objects : looked[o] # "no" =>
    /\ thread[o] = "took" /\ running[o].name = "update"
    /\ file[o] \in SvFiles => \A g \in Files : ast[o].seen[g] = 0

LEMMA FreshHasSeenNothing ==
  ASSUME NEW o \in Objects
  PROVE  \A g \in Files : LatestAst(o, TRUE).seen[g] = 0
PROOF BY DEF LatestAst, FreshAst, NoAst

LEMMA LookStep ==
  ASSUME IInv, LookInv, [Next]_vars
  PROVE  LookInv'
PROOF
<1> USE DEF mainVars, fileVars, objectVars
<1>1. ASSUME UNCHANGED <<looked, thread, running, file, ast>> PROVE LookInv'
  BY <1>1 DEF LookInv
<1>2. ASSUME NEW o \in Objects, looked'[o] = "no",
             \A x \in Objects : x # o =>
               /\ looked'[x] = looked[x] /\ thread'[x] = thread[x]
               /\ running'[x] = running[x] /\ file'[x] = file[x] /\ ast'[x] = ast[x]
      PROVE  LookInv'
  BY <1>2 DEF LookInv
<1>3. ASSUME NEW o \in Objects, thread[o] # "took", looked' = looked,
             \A x \in Objects : x # o =>
               /\ thread'[x] = thread[x] /\ running'[x] = running[x]
               /\ file'[x] = file[x] /\ ast'[x] = ast[x]
      PROVE  LookInv'
  BY <1>3 DEF LookInv
<1>4. ASSUME NEW f \in Files, Update(f) PROVE LookInv'
  <2>1. CASE opened[f] # NoObject
    BY <1>1, <1>4, <2>1 DEF Update
  <2>2. CASE opened[f] = NoObject
    <3> DEFINE o == created + 1
    <3>1. /\ o \in Objects /\ o > created
          /\ file' = [file EXCEPT ![o] = f] /\ thread' = [thread EXCEPT ![o] = "loop"]
          /\ UNCHANGED <<looked, running, ast>>
      <4>1. /\ created < MaxObjects
            /\ file' = [file EXCEPT ![o] = f] /\ thread' = [thread EXCEPT ![o] = "loop"]
            /\ UNCHANGED <<looked, running, ast>>
        BY <1>4, <2>2 DEF Update
      <4>2. created \in Nat /\ MaxObjects \in Nat
        BY BoundsAssumption DEF IInv, TypeOK
      <4>3. o \in Objects /\ o > created
        BY <4>1, <4>2 DEF Objects
      <4> QED
        BY <4>1, <4>3
    <3>2. thread[o] = "none"
      BY <3>1 DEF IInv, NotYetCreated
    <3> HIDE DEF o
    <3>3. \A x \in Objects : x # o => thread'[x] = thread[x] /\ file'[x] = file[x]
      BY <3>1 DEF IInv, TypeOK
    <3> QED
      BY <1>3, <3>1, <3>2, <3>3
  <2> QED
    BY <2>1, <2>2
<1>5. ASSUME NEW o \in Objects, Take(o) \/ Leave(o) PROVE LookInv'
  <2>1. /\ thread[o] = "loop" /\ UNCHANGED <<looked, file, ast>>
        /\ \A x \in Objects : x # o => thread'[x] = thread[x] /\ running'[x] = running[x]
    BY <1>5 DEF Take, Pop, Leave, IInv, TypeOK
  <2> QED
    BY <1>3, <2>1
<1>6. ASSUME NEW o \in Objects, Look(o) PROVE LookInv'
  <2>1. /\ thread[o] = "took" /\ running[o].name = "update"
        /\ UNCHANGED <<thread, running, file>>
        /\ ast'[o] = LatestAst(o, file[o] \in SvFiles)
        /\ \A x \in Objects : x # o => looked'[x] = looked[x] /\ ast'[x] = ast[x]
    BY <1>6 DEF Look, IInv, TypeOK
  <2>2. file[o] \in SvFiles => \A g \in Files : ast'[o].seen[g] = 0
    BY <2>1, FreshHasSeenNothing
  <2> QED
    BY <2>1, <2>2 DEF LookInv
<1>7. ASSUME NEW o \in Objects, HandOver(o), UNCHANGED file,
             \A x \in Objects : x # o =>
               thread'[x] = thread[x] /\ running'[x] = running[x] /\ ast'[x] = ast[x]
      PROVE  LookInv'
  BY <1>2, <1>7 DEF HandOver, IInv, TypeOK
<1>8. ASSUME NEW o \in Objects, Analyse(o) PROVE LookInv'
  BY <1>7, <1>8 DEF Analyse, IInv, TypeOK
<1>9. ASSUME NEW o \in Objects, Finish(o) \/ Fail(o) PROVE LookInv'
  <2>1. /\ UNCHANGED file
        /\ \A x \in Objects : x # o =>
             thread'[x] = thread[x] /\ running'[x] = running[x] /\ ast'[x] = ast[x]
        /\ HandOver(o) \/ (thread[o] = "analysed" /\ UNCHANGED looked)
    BY <1>9 DEF Finish, Fail, ReleaseMutex, IInv, TypeOK
  <2> QED
    BY <1>3, <1>7, <2>1
<1>10. ASSUME NEW o \in Objects, UpdateOwn(o) \/ InvalidateOther(o) \/ StopOne(o)
                                 \/ UpdateAllVisit(o) \/ SkipSuperseded(o)
       PROVE  LookInv'
  BY <1>1, <1>10 DEF UpdateOwn, InvalidateOther, StopOne, UpdateAllVisit, SkipSuperseded
<1>11. ASSUME NEW f \in Files, Ask(f) \/ BeginClose(f) PROVE LookInv'
  BY <1>1, <1>11 DEF Ask, BeginClose
<1>12. CASE EndAdd("main") \/ EndAdd("worker") \/ EndClose \/ Exit \/ WorkerJoined
            \/ ClearAndWait \/ WakeUp \/ BeginUpdateAll \/ ProjectChanges \/ Destroyed
            \/ UNCHANGED vars
  BY <1>1, <1>12 DEF EndAdd, EndClose, Exit, WorkerJoined, ClearAndWait, WakeUp,
     BeginUpdateAll, ProjectChanges, Destroyed, vars
<1> QED
  BY <1>4, <1>5, <1>6, <1>8, <1>9, <1>10, <1>11, <1>12
     DEF Next, MainStep, WorkerStep, FileStep

(* Whatever ast::update, or the part of it before an exception, leaves      *)
(* behind was behind before, and what was outdated still is.                *)
LEMMA ParsedKeepsOutdated ==
  ASSUME TypeOK, NEW a \in Asts, NEW f \in Files, NEW loaded \in SUBSET Files,
         NEW g \in Files, Parsed(a, f, loaded).seen[g] < disk[g]
  PROVE  /\ a.seen[g] = Parsed(a, f, loaded).seen[g]
         /\ a.seen[g] # 0 /\ g \in a.outdated => g \in Parsed(a, f, loaded).outdated
PROOF
<1>1. /\ Parsed(a, f, loaded).seen[g] =
           IF g \in loaded /\ (g \in a.outdated \/ a.seen[g] = 0) THEN disk[g] ELSE a.seen[g]
      /\ Parsed(a, f, loaded).outdated = a.outdated \ loaded
  BY DEF Parsed, Asts
<1>2. disk[g] \in Nat
  BY DEF TypeOK
<1> QED
  BY <1>1, <1>2

LEMMA PreparedKeepsOutdated ==
  ASSUME TypeOK, LookInv, NEW o \in Objects, NEW g \in Files, Prepared(o).seen[g] # 0
  PROVE  /\ ast[o].seen[g] = Prepared(o).seen[g]
         /\ g \in ast[o].outdated => g \in Prepared(o).outdated
         /\ g \in HandedOver(o) => g \in Prepared(o).outdated
PROOF
<1>1. ast[o] \in Asts /\ FreshAst \in Asts /\ FreshAst.seen[g] = 0
  BY DEF FreshAst, NoAst, Asts, Contents, TypeOK
<1>2. LatestAst(o, FALSE).seen[g] # 0 => LatestAst(o, FALSE) = ast[o]
  BY <1>1 DEF LatestAst
<1>3. CASE running[o].name # "update"
  <2>1. HandedOver(o) = {}
    BY <1>3 DEF LookInv, HandedOver
  <2> QED
    BY <1>2, <1>3, <2>1 DEF Prepared
<1>4. CASE running[o].name = "update"
  <2>1. /\ Prepared(o).seen = ast[o].seen
        /\ Prepared(o).outdated = IF file[o] \in SvFiles
                                    THEN ast[o].outdated
                                    ELSE ast[o].outdated \cup HandedOver(o)
    BY <1>1, <1>4 DEF Prepared, Asts
  <2>2. file[o] \in SvFiles => HandedOver(o) = {}
    BY <2>1 DEF LookInv, HandedOver
  <2> QED
    BY <2>1, <2>2
<1> QED
  BY <1>3, <1>4

LEMMA UpdatedKeepsOutdated ==
  ASSUME TypeOK, LookInv, NEW o \in Objects, NEW g \in Files, g # file[o],
         Updated(Prepared(o), file[o]).seen[g] # 0,
         Updated(Prepared(o), file[o]).seen[g] < disk[g]
  PROVE  /\ ast[o].seen[g] = Updated(Prepared(o), file[o]).seen[g]
         /\ g \in ast[o].outdated => g \in Updated(Prepared(o), file[o]).outdated
         /\ g \in HandedOver(o) =>
              g \in Updated(Prepared(o), file[o]).outdated
PROOF
<1> DEFINE a == Prepared(o)
           loaded == Files \ {file[o]}
<1>1. a \in Asts /\ file[o] \in Files /\ loaded \in SUBSET Files
  BY PreparedType DEF TypeOK
<1>2. CASE a.invalidated
  <2>1. Parsed(a, file[o], loaded) \in Asts
    BY <1>1, ParsedType
  <2>2. /\ Updated(a, file[o]).seen = Parsed(a, file[o], loaded).seen
        /\ Updated(a, file[o]).outdated = Parsed(a, file[o], loaded).outdated
    BY <1>2, <2>1 DEF Updated, Asts
  <2>3. /\ a.seen[g] = Parsed(a, file[o], loaded).seen[g]
        /\ a.seen[g] # 0 /\ g \in a.outdated => g \in Parsed(a, file[o], loaded).outdated
    BY <1>1, <2>2, ParsedKeepsOutdated
  <2>4. a.seen[g] # 0
    BY <2>2, <2>3
  <2> QED
    BY <2>2, <2>3, <2>4, PreparedKeepsOutdated
<1>3. CASE ~a.invalidated
  <2>1. Updated(a, file[o]) = a
    BY <1>3 DEF Updated
  <2> QED
    BY <2>1, PreparedKeepsOutdated
<1> QED
  BY <1>2, <1>3

(* A step of a thread at work on o: what is behind for o was, and o still   *)
(* knows of it.                                                             *)
LEMMA WorkKeepsInvalidations ==
  ASSUME IInv, InvalidationInv, NEW o \in Objects, NEW b \in Asts,
         ast' = [ast EXCEPT ![o] = b],
         stale' = [stale EXCEPT ![o] = @ \ HandedOver(o)],
         o <= created,
         \A g \in Files \ {file[o]} : b.seen[g] # 0 /\ b.seen[g] < disk[g] =>
            /\ ast[o].seen[g] = b.seen[g]
            /\ g \in ast[o].outdated => g \in b.outdated
            /\ g \in HandedOver(o) => g \in b.outdated,
         UNCHANGED <<main, current, disk, opened, created, file, todo>>
  PROVE  InvalidationInv'
PROOF
<1>1. /\ ast'[o] = b /\ \A x \in Objects : x # o => ast'[x] = ast[x] /\ stale'[x] = stale[x]
      /\ stale'[o] = stale[o] \ HandedOver(o)
  BY DEF IInv, TypeOK
<1>2. NotYetAnalysed'
  BY <1>1 DEF InvalidationInv, NotYetAnalysed, IInv, TypeOK, Objects
<1>3. OpenObjects' = OpenObjects /\ OpenObjects \subseteq Objects
  BY DEF OpenObjects, IInv, TypeOK
<1>4. ASSUME NEW x \in OpenObjects, NEW g \in Files \ {file[x]}, Behind(x, g)'
      PROVE  g \in stale'[x] \cup ast'[x].outdated \/ OnItsWay(x, g)
  <2>1. CASE x # o
    BY <1>1, <1>3, <1>4, <2>1 DEF Behind, OnItsWay, InvalidationInv, NoInvalidationLost
  <2>2. CASE x = o
    <3>1. b.seen[g] # 0 /\ b.seen[g] < disk[g]
      BY <1>1, <1>4, <2>2 DEF Behind
    <3>2. /\ ast[o].seen[g] = b.seen[g]
          /\ g \in ast[o].outdated => g \in b.outdated
          /\ g \in HandedOver(o) => g \in b.outdated
      BY <2>2, <3>1
    <3>3. g \in stale[o] \cup ast[o].outdated \/ OnItsWay(o, g)
      BY <2>2, <3>1, <3>2 DEF InvalidationInv, NoInvalidationLost, OnItsWay
    <3> QED
      BY <1>1, <2>2, <3>2, <3>3
  <2> QED
    BY <2>1, <2>2
<1> QED
  BY <1>2, <1>3, <1>4 DEF InvalidationInv, NoInvalidationLost, Behind, OnItsWay

(* An object whose thread is at work has been created.                      *)
LEMMA WorkerIsCreated ==
  ASSUME IInv, NEW o \in Objects, thread[o] # "none"
  PROVE  o <= created
PROOF BY BoundsAssumption DEF IInv, TypeOK, NotYetCreated, Objects

LEMMA InvalidationStep ==
  ASSUME IInv, LookInv, InvalidationInv, [Next]_vars
  PROVE  InvalidationInv'
PROOF
<1> USE DEF mainVars, fileVars, objectVars
<1>1. OpenObjects \subseteq Objects
  BY DEF OpenObjects, IInv, TypeOK
<1>2. ASSUME UNCHANGED <<disk, created, file, ast>>,
             \A x \in OpenObjects' : x \in OpenObjects /\ stale[x] \subseteq stale'[x],
             \A x \in OpenObjects' : \A g \in Files \ {file[x]} :
               OnItsWay(x, g) => OnItsWay(x, g)' \/ g \in stale'[x]
      PROVE  InvalidationInv'
  BY <1>2 DEF InvalidationInv, NotYetAnalysed, NoInvalidationLost, OnItsWay
<1>3. ASSUME UNCHANGED <<disk, created, file, ast, opened, stale>>,
             main = "reading" => todo["main"] = {} \/ UNCHANGED <<main, current, todo>>
      PROVE  InvalidationInv'
  <2>1. OpenObjects' = OpenObjects
    BY <1>3 DEF OpenObjects
  <2>2. \A x \in OpenObjects' : \A g \in Files \ {file[x]} :
          OnItsWay(x, g) => OnItsWay(x, g)'
    BY <1>3 DEF OnItsWay
  <2> QED
    BY <1>2, <1>3, <2>1, <2>2
<1>4. ASSUME NEW f \in Files, Update(f) PROVE InvalidationInv'
  <2>1. /\ main = "reading" /\ main' = "reading" /\ current' = f /\ todo["main"] = {}
        /\ disk' = [disk EXCEPT ![f] = @ + 1] /\ UNCHANGED <<ast, stale>>
    BY <1>4 DEF Update, NextMessage, Reading
  <2>2. /\ \A x \in OpenObjects' : x \in todo'["main"]
        /\ \A x \in OpenObjects' : x \in OpenObjects \/ (x \in Objects /\ x > created)
        /\ \A x \in OpenObjects : file'[x] = file[x]
        /\ \A x \in Objects : x > created' => x > created
    <3>1. CASE opened[f] # NoObject
      <4>1. /\ todo' = [todo EXCEPT !["main"] = OpenObjects]
            /\ UNCHANGED <<opened, created, file>>
        BY <1>4, <3>1 DEF Update
      <4>2. todo'["main"] = OpenObjects
        BY <4>1 DEF IInv, TypeOK, Producers
      <4>3. OpenObjects' = OpenObjects
        BY <4>1 DEF OpenObjects
      <4> QED
        BY <4>1, <4>2, <4>3
    <3>2. CASE opened[f] = NoObject
      <4> DEFINE o == created + 1
      <4>1. /\ o \in Objects /\ created' = o /\ o > created /\ created \in Nat
            /\ opened' = [opened EXCEPT ![f] = o]
            /\ file' = [file EXCEPT ![o] = f]
            /\ todo'["main"] = OpenObjects \cup {o}
        BY <1>4, <3>2, BoundsAssumption DEF Update, IInv, TypeOK, Objects
      <4> HIDE DEF o
      <4>2. OpenObjects' \subseteq OpenObjects \cup {o}
        BY <4>1 DEF OpenObjects, IInv, TypeOK
      <4>3. \A x \in OpenObjects : x <= created
        BY DEF OpenObjects, IInv, OpenedIsCreated
      <4>4. \A x \in Objects : x > created' => x > created
        <5>1. Objects \subseteq Nat /\ o \in Nat
          BY <4>1, BoundsAssumption DEF Objects
        <5> QED
          BY <4>1, <5>1
      <4>5. \A x \in OpenObjects : file'[x] = file[x]
        <5>1. \A x \in OpenObjects : x # o
          BY <1>1, <4>1, <4>3 DEF Objects
        <5> QED
          BY <1>1, <4>1, <5>1 DEF IInv, TypeOK
      <4> QED
        BY <4>1, <4>2, <4>4, <4>5
    <3> QED
      BY <3>1, <3>2
  <2>3. NotYetAnalysed'
    BY <2>1, <2>2 DEF InvalidationInv, NotYetAnalysed
  <2>4. ASSUME NEW x \in OpenObjects', NEW g \in Files \ {file'[x]}, Behind(x, g)'
        PROVE  g \in stale'[x] \cup ast'[x].outdated \/ OnItsWay(x, g)'
    <3>1. CASE g = f
      BY <2>1, <2>2, <3>1 DEF OnItsWay
    <3>2. CASE g # f
      <4>1. disk'[g] = disk[g]
        BY <2>1, <3>2 DEF IInv, TypeOK
      <4>2. x \in OpenObjects
        BY <2>1, <2>2, <2>4 DEF Behind, InvalidationInv, NotYetAnalysed
      <4>3. g \in Files \ {file[x]} /\ Behind(x, g) /\ ~OnItsWay(x, g)
        BY <2>1, <2>2, <2>4, <4>1, <4>2 DEF Behind, OnItsWay
      <4> QED
        BY <2>1, <4>2, <4>3 DEF InvalidationInv, NoInvalidationLost, Behind, OnItsWay
    <3> QED
      BY <3>1, <3>2
  <2> QED
    BY <2>3, <2>4 DEF InvalidationInv, NoInvalidationLost, Behind, OnItsWay
<1>5. ASSUME NEW o \in Objects, InvalidateOther(o) PROVE InvalidationInv'
  <2>1. /\ todo' = [todo EXCEPT !["main"] = @ \ {o}]
        /\ stale' = [stale EXCEPT ![o] = @ \cup {current}]
        /\ UNCHANGED <<main, current, disk, created, file, ast, opened>>
    BY <1>5 DEF InvalidateOther
  <2>2. OpenObjects' = OpenObjects
    BY <2>1 DEF OpenObjects
  <2>3. \A x \in OpenObjects : stale[x] \subseteq stale'[x]
    BY <1>1, <2>1 DEF IInv, TypeOK
  <2>4. ASSUME NEW x \in OpenObjects, NEW g \in Files, OnItsWay(x, g)
        PROVE  OnItsWay(x, g)' \/ g \in stale'[x]
    BY <1>1, <2>1, <2>4 DEF OnItsWay, IInv, TypeOK, Producers
  <2> QED
    BY <1>2, <2>1, <2>2, <2>3, <2>4
<1>6. ASSUME NEW o \in Objects, UpdateOwn(o) PROVE InvalidationInv'
  <2>1. /\ todo' = [todo EXCEPT !["main"] = @ \ {o}] /\ file[o] = current
        /\ UNCHANGED <<main, current, disk, created, file, ast, opened, stale>>
    BY <1>6 DEF UpdateOwn
  <2>2. OpenObjects' = OpenObjects
    BY <2>1 DEF OpenObjects
  <2>3. ASSUME NEW x \in OpenObjects, NEW g \in Files \ {file[x]}, OnItsWay(x, g)
        PROVE  OnItsWay(x, g)'
    BY <1>1, <2>1, <2>3 DEF OnItsWay, IInv, TypeOK, Producers
  <2> QED
    BY <1>2, <2>1, <2>2, <2>3
<1>7. ASSUME NEW o \in Objects, StopOne(o) PROVE InvalidationInv'
  BY <1>3, <1>7 DEF StopOne
<1>8. ASSUME NEW o \in Objects, UpdateAllVisit(o) PROVE InvalidationInv'
  <2>1. /\ todo' = [todo EXCEPT !["worker"] = @ \ {o}]
        /\ UNCHANGED <<main, current, disk, created, file, ast, opened, stale>>
    BY <1>8 DEF UpdateAllVisit
  <2>2. OpenObjects' = OpenObjects /\ todo'["main"] = todo["main"]
    BY <2>1 DEF OpenObjects, IInv, TypeOK, Producers
  <2> QED
    BY <1>2, <2>1, <2>2 DEF OnItsWay
<1>9. CASE BeginUpdateAll
  <2>1. /\ todo' = [todo EXCEPT !["worker"] = OpenObjects]
        /\ UNCHANGED <<main, current, disk, created, file, ast, opened, stale>>
    BY <1>9 DEF BeginUpdateAll
  <2>2. OpenObjects' = OpenObjects /\ todo'["main"] = todo["main"]
    BY <2>1 DEF OpenObjects, IInv, TypeOK, Producers
  <2> QED
    BY <1>2, <2>1, <2>2 DEF OnItsWay
<1>10. CASE EndClose \/ ClearAndWait
  <2>1. /\ main # "reading" /\ UNCHANGED <<disk, created, file, ast, stale>>
        /\ \A f \in Files : opened'[f] \in {opened[f], NoObject}
    BY <1>10 DEF EndClose, ClearAndWait, IInv, TypeOK
  <2>2. OpenObjects' \subseteq OpenObjects
    BY <2>1 DEF OpenObjects
  <2> QED
    BY <1>2, <2>1, <2>2 DEF OnItsWay
<1>11. ASSUME NEW f \in Files, Ask(f) \/ BeginClose(f) PROVE InvalidationInv'
  BY <1>3, <1>11 DEF Ask, BeginClose, NextMessage, Reading
<1>12. CASE EndAdd("main") \/ EndAdd("worker") \/ Exit \/ WorkerJoined \/ WakeUp
            \/ ProjectChanges \/ Destroyed \/ UNCHANGED vars
  BY <1>3, <1>12 DEF EndAdd, Exit, Reading, WorkerJoined, WakeUp, ProjectChanges,
     Destroyed, vars
<1>13. ASSUME NEW o \in Objects, Take(o) \/ SkipSuperseded(o) \/ Finish(o) \/ Leave(o)
       PROVE  InvalidationInv'
  BY <1>3, <1>13 DEF Take, SkipSuperseded, Finish, Leave
<1>14. ASSUME NEW o \in Objects, Analyse(o) PROVE InvalidationInv'
  <2> DEFINE b == Updated(Prepared(o), file[o])
  <2>1. b \in Asts
    BY PreparedType, ParsedType DEF IInv, TypeOK
  <2>2. \A g \in Files \ {file[o]} : b.seen[g] # 0 /\ b.seen[g] < disk[g] =>
          /\ ast[o].seen[g] = b.seen[g]
          /\ g \in ast[o].outdated => g \in b.outdated
          /\ g \in HandedOver(o) => g \in b.outdated
    BY UpdatedKeepsOutdated DEF IInv
  <2>3. /\ ast' = [ast EXCEPT ![o] = b]
        /\ stale' = [stale EXCEPT ![o] = @ \ HandedOver(o)]
        /\ thread[o] = "took"
        /\ UNCHANGED <<main, current, disk, opened, created, file, todo>>
    BY <1>14 DEF Analyse, HandOver
  <2> HIDE DEF b
  <2> QED
    BY <2>1, <2>2, <2>3, WorkerIsCreated, WorkKeepsInvalidations
<1>15. ASSUME NEW o \in Objects, Fail(o) PROVE InvalidationInv'
  <2>1. UNCHANGED <<main, current, disk, opened, created, file, todo>>
    BY <1>15 DEF Fail
  <2>2. CASE UNCHANGED <<ast, stale>>
    BY <1>3, <2>1, <2>2
  <2>3. ASSUME NEW loaded \in SUBSET (Files \ {file[o]}),
               ast' = [ast EXCEPT ![o] = Parsed(Prepared(o), file[o], loaded)],
               stale' = [stale EXCEPT ![o] = @ \ HandedOver(o)],
               thread[o] = "took"
        PROVE  InvalidationInv'
    <3> DEFINE b == Parsed(Prepared(o), file[o], loaded)
    <3>1. Prepared(o) \in Asts /\ b \in Asts
      BY PreparedType, ParsedType DEF IInv, TypeOK
    <3>2. ASSUME NEW g \in Files \ {file[o]}, b.seen[g] # 0, b.seen[g] < disk[g]
          PROVE  /\ ast[o].seen[g] = b.seen[g]
                 /\ g \in ast[o].outdated => g \in b.outdated
                 /\ g \in HandedOver(o) => g \in b.outdated
      <4>1. /\ Prepared(o).seen[g] = b.seen[g]
            /\ Prepared(o).seen[g] # 0 /\ g \in Prepared(o).outdated => g \in b.outdated
        BY <3>1, <3>2, ParsedKeepsOutdated DEF IInv, TypeOK
      <4> QED
        BY <3>2, <4>1, PreparedKeepsOutdated DEF IInv
    <3> HIDE DEF b
    <3> QED
      BY <2>1, <2>3, <3>1, <3>2, WorkerIsCreated, WorkKeepsInvalidations DEF b
  <2> QED
    BY <1>15, <2>2, <2>3 DEF Fail, HandOver
<1>16. ASSUME NEW o \in Objects, Look(o) PROVE InvalidationInv'
  <2> DEFINE b == LatestAst(o, file[o] \in SvFiles)
  <2>1. b \in Asts /\ ast[o] \in Asts
    BY LatestType DEF IInv, TypeOK
  <2>2. ASSUME NEW g \in Files, b.seen[g] # 0 PROVE b = ast[o]
    BY <2>2 DEF LatestAst, FreshAst, NoAst
  <2>3. /\ ast' = [ast EXCEPT ![o] = b]
        /\ thread[o] = "took" /\ looked[o] = "no"
        /\ UNCHANGED <<main, current, disk, opened, created, file, todo, stale>>
    BY <1>16 DEF Look
  <2>4. HandedOver(o) = {} /\ stale' = [stale EXCEPT ![o] = @ \ HandedOver(o)]
    BY <2>3 DEF HandedOver, IInv, TypeOK
  <2> HIDE DEF b
  <2> QED
    BY <2>1, <2>2, <2>3, <2>4, WorkerIsCreated, WorkKeepsInvalidations
<1> QED
  BY <1>4, <1>5, <1>6, <1>7, <1>8, <1>9, <1>10, <1>11, <1>12, <1>13, <1>14, <1>15, <1>16
     DEF Next, MainStep, WorkerStep, FileStep

(* The save of another document is never forgotten: whatever an open        *)
(* document's ast holds of an older content is on its list, is outdated     *)
(* already, or main is about to report it; an exception in the middle of an *)
(* update, or a change of the project, loses none.                          *)
THEOREM SavesAreNotForgotten == Spec => []NoInvalidationLost
PROOF
<1>1. Init => LookInv /\ InvalidationInv
  BY DEF Init, LookInv, InvalidationInv, NotYetAnalysed, NoInvalidationLost, NoAst,
     OpenObjects
<1>2. IInv /\ LookInv /\ InvalidationInv /\ [Next]_vars => LookInv' /\ InvalidationInv'
  BY LookStep, InvalidationStep
<1>3. InvalidationInv => NoInvalidationLost
  BY DEF InvalidationInv
<1> QED
  BY <1>1, <1>2, <1>3, Inductive, PTL DEF Spec

-----------------------------------------------------------------------------
(* Requests.  Where they may be, and which of the objects that hold them    *)
(* are stopped.                                                             *)

(* Until the end of the server an object that is open, or still to be made, *)
(* is not stopped.                                                          *)
OpenIsNotStopped ==
  main \in {"reading", "closing", "joining"} =>
    /\ \A f \in Files : opened[f] # NoObject => ~stopped[opened[f]]
    /\ \A o \in Objects : o > created => ~stopped[o]

EndedIsStopped == \A o \in Objects : thread[o] = "ended" => stopped[o]

(* A thread runs a task while it holds the mutex, and then only.            *)
IdleRunsNothing == \A o \in Objects : Unlocked(o) => running[o] = NoTask

WorkerAsksNothing == adding["worker"].task.request = NoRequest

StopInv == OpenIsNotStopped /\ EndedIsStopped /\ IdleRunsNothing /\ WorkerAsksNothing

LEMMA StopStep ==
  ASSUME IInv, IInv', StopInv, [Next]_vars
  PROVE  StopInv'
PROOF
<1> USE DEF mainVars, fileVars, objectVars
<1>1. ASSUME UNCHANGED <<opened, created, stopped, thread, running>>,
             adding'["worker"].task.request = adding["worker"].task.request,
             main' \in {"reading", "closing", "joining"} =>
               main \in {"reading", "closing", "joining"}
      PROVE  StopInv'
  BY <1>1 DEF StopInv, OpenIsNotStopped, EndedIsStopped, IdleRunsNothing, Unlocked,
     WorkerAsksNothing
<1>2. ASSUME NEW o \in Objects, UNCHANGED <<main, opened, created, stopped, adding>>,
             NEW t \in Tasks \cup {NoTask}, running' = [running EXCEPT ![o] = t],
             NEW at \in {"loop", "took"}, thread' = [thread EXCEPT ![o] = at],
             at = "loop" => t = NoTask
      PROVE  StopInv'
  <2>1. \A x \in Objects : /\ running'[x] = IF x = o THEN t ELSE running[x]
                           /\ thread'[x] = IF x = o THEN at ELSE thread[x]
    BY <1>2 DEF IInv, TypeOK
  <2> QED
    BY <1>2, <2>1 DEF StopInv, OpenIsNotStopped, EndedIsStopped, IdleRunsNothing,
       Unlocked, WorkerAsksNothing
<1>3. ASSUME NEW f \in Files, Update(f) PROVE StopInv'
  <2>1. main = "reading" /\ UNCHANGED <<main, stopped, adding, running>>
    BY <1>3 DEF Update, NextMessage, Reading
  <2>2. CASE opened[f] # NoObject
    BY <1>1, <1>3, <2>1, <2>2 DEF Update
  <2>3. CASE opened[f] = NoObject
    <3> DEFINE o == created + 1
    <3>1. /\ o \in Objects /\ created' = o /\ o > created
          /\ opened' = [opened EXCEPT ![f] = o]
          /\ thread' = [thread EXCEPT ![o] = "loop"]
      <4>1. /\ created < MaxObjects /\ created' = o
            /\ opened' = [opened EXCEPT ![f] = o]
            /\ thread' = [thread EXCEPT ![o] = "loop"]
        BY <1>3, <2>3 DEF Update
      <4>2. created \in Nat /\ MaxObjects \in Nat
        BY BoundsAssumption DEF IInv, TypeOK
      <4> QED
        BY <4>1, <4>2 DEF Objects
    <3>2. \A x \in Objects : x > created' => x > created
      BY <3>1, BoundsAssumption DEF Objects, IInv, TypeOK
    <3> HIDE DEF o
    <3>3. thread[o] = "none"
      BY <3>1 DEF IInv, NotYetCreated
    <3>4. \A x \in Objects : thread'[x] = IF x = o THEN "loop" ELSE thread[x]
      BY <3>1 DEF IInv, TypeOK
    <3>5. \A g \in Files : opened'[g] = IF g = f THEN o ELSE opened[g]
      BY <3>1 DEF IInv, TypeOK
    <3>6. OpenIsNotStopped'
      BY <2>1, <3>1, <3>2, <3>5 DEF StopInv, OpenIsNotStopped
    <3>7. EndedIsStopped' /\ IdleRunsNothing' /\ WorkerAsksNothing'
      BY <2>1, <3>3, <3>4 DEF StopInv, EndedIsStopped, IdleRunsNothing, Unlocked,
         WorkerAsksNothing
    <3> QED
      BY <3>6, <3>7 DEF StopInv
  <2> QED
    BY <2>2, <2>3
<1>4. ASSUME NEW f \in Files, Ask(f) PROVE StopInv'
  <2>1. UNCHANGED <<main, opened, created, stopped, thread, running>>
    BY <1>4 DEF Ask
  <2>2. adding'["worker"] = adding["worker"]
    BY <1>4 DEF Ask, BeginAdd, IInv, TypeOK, Producers
  <2> QED
    BY <1>1, <2>1, <2>2
<1>5. ASSUME NEW o \in Objects, UpdateOwn(o) PROVE StopInv'
  <2>1. adding'["worker"] = adding["worker"]
    BY <1>5 DEF UpdateOwn, BeginAdd, IInv, TypeOK, Producers
  <2> QED
    BY <1>1, <1>5, <2>1 DEF UpdateOwn
<1>6. ASSUME NEW o \in Objects, UpdateAllVisit(o) PROVE StopInv'
  <2>1. adding'["worker"].task.request = NoRequest
    BY <1>6 DEF UpdateAllVisit, BeginAdd, UpdateTask, IInv, TypeOK, Producers, StopInv,
       WorkerAsksNothing
  <2> QED
    BY <1>1, <1>6, <2>1 DEF UpdateAllVisit, StopInv, WorkerAsksNothing
<1>7. ASSUME NEW p \in Producers, EndAdd(p) PROVE StopInv'
  <2>1. adding'["worker"].task.request = NoRequest
    BY <1>7 DEF EndAdd, IInv, TypeOK, Producers, StopInv, WorkerAsksNothing, NoAdd, NoTask
  <2> QED
    BY <1>1, <1>7, <2>1 DEF EndAdd, StopInv, WorkerAsksNothing
<1>8. ASSUME NEW o \in Objects, StopOne(o) PROVE StopInv'
  BY <1>8 DEF StopOne, StopInv, OpenIsNotStopped, EndedIsStopped, IdleRunsNothing,
     Unlocked, WorkerAsksNothing, IInv, TypeOK
<1>9. CASE EndClose
  <2> DEFINE o == opened[current]
  <2>1. /\ main = "closing" /\ UNCHANGED <<created, adding, thread, running, file>>
        /\ \/ /\ o # NoObject
              /\ stopped' = [stopped EXCEPT ![o] = TRUE]
              /\ opened' = [opened EXCEPT ![current] = NoObject]
           \/ UNCHANGED <<stopped, opened>>
    BY <1>9 DEF EndClose
  <2>2. CASE UNCHANGED <<stopped, opened>>
    BY <1>1, <2>1, <2>2
  <2>3. CASE /\ o # NoObject
             /\ stopped' = [stopped EXCEPT ![o] = TRUE]
             /\ opened' = [opened EXCEPT ![current] = NoObject]
    <3>1. /\ o \in Objects /\ ~(o > created)
          /\ \A g \in Files : opened[g] = o => g = current
      <4>1. o \in Objects /\ current \in Files /\ created \in Nat
        BY <2>3, BoundsAssumption DEF IInv, TypeOK
      <4>2. o <= created /\ file[o] = current
        BY <2>3, <4>1 DEF IInv, OpenedIsCreated
      <4>3. \A g \in Files : opened[g] = o => g = current
        BY <2>3, <4>2 DEF IInv, OpenedIsCreated
      <4>4. o \in Nat
        BY <4>1 DEF Objects
      <4> QED
        BY <4>1, <4>2, <4>3, <4>4
    <3> HIDE DEF o
    <3>2. \A x \in Objects : stopped'[x] <=> stopped[x] \/ x = o
      BY <2>3 DEF IInv, TypeOK
    <3>3. \A g \in Files : opened'[g] = IF g = current THEN NoObject ELSE opened[g]
      BY <2>3 DEF IInv, TypeOK
    <3>4. OpenIsNotStopped'
      <4>1. /\ \A f \in Files : opened[f] # NoObject => ~stopped[opened[f]]
            /\ \A x \in Objects : x > created => ~stopped[x]
        BY <2>1 DEF StopInv, OpenIsNotStopped
      <4>2. \A g \in Files : opened[g] # NoObject => opened[g] \in Objects
        BY DEF IInv, TypeOK
      <4>3. ASSUME NEW g \in Files, opened'[g] # NoObject PROVE ~stopped'[opened'[g]]
        <5>1. opened'[g] = opened[g] /\ opened[g] # o /\ opened[g] \in Objects
              /\ ~stopped[opened[g]]
          BY <3>1, <3>3, <4>1, <4>2, <4>3
        <5> QED
          BY <3>2, <5>1
      <4>4. \A x \in Objects : x > created' => ~stopped'[x]
        BY <2>1, <3>1, <3>2, <4>1
      <4> QED
        BY <4>3, <4>4 DEF OpenIsNotStopped
    <3>5. EndedIsStopped' /\ IdleRunsNothing' /\ WorkerAsksNothing'
      BY <2>1, <3>2 DEF StopInv, EndedIsStopped, IdleRunsNothing, Unlocked,
         WorkerAsksNothing
    <3> QED
      BY <3>4, <3>5 DEF StopInv
  <2> QED
    BY <2>1, <2>2, <2>3
<1>10. CASE ClearAndWait
  BY <1>10 DEF ClearAndWait, StopInv, OpenIsNotStopped, EndedIsStopped, IdleRunsNothing,
     Unlocked, WorkerAsksNothing
<1>11. ASSUME NEW o \in Objects, Take(o) PROVE StopInv'
  <2>1. Head(queue[o]) \in Tasks
    BY <1>11, QueueType, TailFacts DEF Take, Pop, IInv
  <2> QED
    BY <1>2, <1>11, <2>1 DEF Take
<1>12. ASSUME NEW o \in Objects, Finish(o) \/ Fail(o) PROVE StopInv'
  BY <1>2, <1>12 DEF Finish, Fail, HandOver, ReleaseMutex
<1>13. ASSUME NEW o \in Objects, Analyse(o) PROVE StopInv'
  BY <1>13 DEF Analyse, HandOver, StopInv, OpenIsNotStopped, EndedIsStopped, IdleRunsNothing,
     Unlocked, WorkerAsksNothing, IInv, TypeOK
<1>14. ASSUME NEW o \in Objects, Leave(o) PROVE StopInv'
  BY <1>14 DEF Leave, StopInv, OpenIsNotStopped, EndedIsStopped, IdleRunsNothing,
     Unlocked, WorkerAsksNothing, IInv, TypeOK
<1>15. ASSUME NEW f \in Files, BeginClose(f) PROVE StopInv'
  BY <1>1, <1>15 DEF BeginClose, NextMessage, Reading
<1>16. ASSUME NEW o \in Objects, InvalidateOther(o) \/ SkipSuperseded(o) \/ Look(o)
       PROVE  StopInv'
  BY <1>1, <1>16 DEF InvalidateOther, SkipSuperseded, Look
<1>17. CASE Exit \/ WorkerJoined \/ WakeUp \/ BeginUpdateAll \/ ProjectChanges \/ Destroyed
            \/ UNCHANGED vars
  BY <1>1, <1>17 DEF Exit, Reading, WorkerJoined, WakeUp, BeginUpdateAll, ProjectChanges,
     Destroyed, vars
<1> QED
  BY <1>3, <1>4, <1>5, <1>6, <1>7, <1>8, <1>9, <1>10, <1>11, <1>12, <1>13, <1>14, <1>15,
     <1>16, <1>17 DEF Next, MainStep, WorkerStep, FileStep, Producers

-----------------------------------------------------------------------------
(* A request is numbered by its message.                                    *)
LaterAreNew == \A r \in Requests : r > messages => status[r] = "none" /\ target[r] = NoObject

(* The request main is queueing is younger than all those on its object,    *)
(* which main cannot stop in the meantime.                                  *)
AskerIsLive ==
  LET r == adding["main"].task.request
      o == adding["main"].object
  IN  r # NoRequest =>
        /\ main = "reading" /\ ~stopped[o]
        /\ status[r] = "waiting" /\ target[r] = o
        /\ \A i \in 1 .. Len(queue[o]) : queue[o][i].request < r
        /\ running[o].request < r

(* A request in a queue waits, until the thread has left its loop.          *)
QueuedWait ==
  \A o \in Objects : thread[o] # "ended" =>
    \A i \in 1 .. Len(queue[o]) : LET r == queue[o][i].request IN
      r # NoRequest => status[r] = "waiting" /\ target[r] = o

RunningWaits ==
  \A o \in Objects : LET r == running[o].request IN
    r # NoRequest => status[r] = "waiting" /\ target[r] = o

(* No request that waits is lost.                                           *)
WaitersArePlaced ==
  \A r \in Requests : status[r] = "waiting" =>
    /\ target[r] \in Objects
    /\ \/ running[target[r]].request = r
       \/ adding["main"].task.request = r
       \/ \E i \in 1 .. Len(queue[target[r]]) : queue[target[r]][i].request = r

QueueInOrder ==
  \A o \in Objects : \A i, j \in 1 .. Len(queue[o]) :
    i < j /\ queue[o][j].request # NoRequest => queue[o][i].request < queue[o][j].request

RunningIsOldest ==
  \A o \in Objects : \A i \in 1 .. Len(queue[o]) :
    queue[o][i].request # NoRequest => running[o].request < queue[o][i].request

RequestInv ==
  /\ LaterAreNew
  /\ AskerIsLive
  /\ QueuedWait
  /\ RunningWaits
  /\ WaitersArePlaced
  /\ QueueInOrder
  /\ RunningIsOldest

LEMMA RequestTypes ==
  ASSUME TypeOK
  PROVE  /\ \A o \in Objects : running[o].request \in Requests \cup {NoRequest}
         /\ \A o \in Objects : \A i \in 1 .. Len(queue[o]) :
              queue[o][i].request \in Requests \cup {NoRequest}
         /\ \A p \in Producers : adding[p].task.request \in Requests \cup {NoRequest}
         /\ \A p \in Producers : adding[p].task.request # NoRequest =>
              adding[p].object \in Objects
         /\ Requests \subseteq Nat /\ NoRequest = 0 /\ NoRequest \notin Requests
         /\ messages \in Nat
         /\ \A o \in Objects : Len(queue[o]) \in Nat
PROOF
<1>1. \A o \in Objects : \A i \in 1 .. Len(queue[o]) : queue[o][i] \in Tasks
  BY QueueType
<1>2. \A o \in Objects : running[o] \in Tasks \cup {NoTask}
  BY DEF TypeOK
<1>3. \A p \in Producers : adding[p] = NoAdd \/ adding[p] \in [object : Objects, task : Tasks]
  BY DEF TypeOK
<1>4. NoTask.request = NoRequest /\ NoAdd.task.request = NoRequest
  BY DEF NoTask, NoAdd
<1>5. \A t \in Tasks : t.request \in Requests \cup {NoRequest}
  BY DEF Tasks
<1>6. /\ Requests \subseteq Nat /\ NoRequest = 0 /\ NoRequest \notin Requests
      /\ messages \in Nat
  BY BoundsAssumption DEF Requests, NoRequest, TypeOK
<1> QED
  BY <1>1, <1>2, <1>3, <1>4, <1>5, <1>6, QueueType

(* A step that leaves every request where it is.                            *)
LEMMA RequestsStay ==
  ASSUME TypeOK, RequestInv,
         \A x \in Objects : SameTasks(x),
         UNCHANGED <<running, status, target>>,
         messages' \in Nat, messages <= messages',
         adding'["main"].task.request = adding["main"].task.request,
         adding["main"].task.request # NoRequest =>
           adding'["main"] = adding["main"] /\ UNCHANGED <<main, stopped>>,
         \A x \in Objects : thread'[x] = "ended" <=> thread[x] = "ended"
  PROVE  RequestInv'
PROOF
<1>1. LaterAreNew'
  <2>1. \A r \in Requests : r > messages' => r > messages
    BY RequestTypes
  <2> QED
    BY <2>1 DEF RequestInv, LaterAreNew
<1>2. AskerIsLive'
  <2> DEFINE r == adding["main"].task.request
             o == adding["main"].object
  <2> SUFFICES ASSUME r # NoRequest
               PROVE  /\ main' = "reading" /\ ~stopped'[o]
                      /\ status'[r] = "waiting" /\ target'[r] = o
                      /\ \A i \in 1 .. Len(queue'[o]) : queue'[o][i].request < r
                      /\ running'[o].request < r
    BY DEF AskerIsLive
  <2>1. o \in Objects
    BY RequestTypes DEF Producers
  <2>2. SameTasks(o)
    BY <2>1
  <2> QED
    BY <2>2 DEF RequestInv, AskerIsLive, SameTasks
<1>3. QueuedWait'
  BY DEF RequestInv, QueuedWait, SameTasks
<1>4. RunningWaits'
  BY DEF RequestInv, RunningWaits
<1>5. WaitersArePlaced'
  <2> SUFFICES ASSUME NEW r \in Requests, status[r] = "waiting",
                      running[target[r]].request # r, adding["main"].task.request # r
               PROVE  /\ target[r] \in Objects
                      /\ \E i \in 1 .. Len(queue'[target[r]]) :
                           queue'[target[r]][i].request = r
    BY DEF RequestInv, WaitersArePlaced
  <2>1. /\ target[r] \in Objects
        /\ \E i \in 1 .. Len(queue[target[r]]) : queue[target[r]][i].request = r
    BY DEF RequestInv, WaitersArePlaced
  <2> QED
    BY <2>1 DEF SameTasks
<1>6. QueueInOrder'
  BY DEF RequestInv, QueueInOrder, SameTasks
<1>7. RunningIsOldest'
  BY DEF RequestInv, RunningIsOldest, SameTasks
<1> QED
  BY <1>1, <1>2, <1>3, <1>4, <1>5, <1>6, <1>7 DEF RequestInv

(* An object that may be asked: every request on it has a smaller number.   *)
LEMMA QueuedIsNotLater ==
  ASSUME TypeOK, RequestInv, NEW o \in Objects, thread[o] # "ended"
  PROVE  /\ \A i \in 1 .. Len(queue[o]) : queue[o][i].request <= messages
         /\ running[o].request <= messages
PROOF
<1>1. \A r \in Requests : status[r] = "waiting" => r <= messages
  <2>1. \A r \in Requests : r > messages \/ r <= messages
    BY RequestTypes
  <2> QED
    BY <2>1 DEF RequestInv, LaterAreNew
<1>2. ASSUME NEW i \in 1 .. Len(queue[o]) PROVE queue[o][i].request <= messages
  <2>1. CASE queue[o][i].request = NoRequest
    BY <2>1, RequestTypes
  <2>2. CASE queue[o][i].request # NoRequest
    BY <1>1, <2>2, RequestTypes DEF RequestInv, QueuedWait
  <2> QED
    BY <2>1, <2>2
<1>3. running[o].request <= messages
  <2>1. CASE running[o].request = NoRequest
    BY <2>1, RequestTypes
  <2>2. CASE running[o].request # NoRequest
    BY <1>1, <2>2, RequestTypes DEF RequestInv, RunningWaits
  <2> QED
    BY <2>1, <2>2
<1> QED
  BY <1>2, <1>3

LEMMA AskedRequest ==
  ASSUME IInv, StopInv, RequestInv, NEW f \in Files, Ask(f)
  PROVE  LET r == messages + 1 IN
         /\ r \in Requests /\ r > messages /\ messages' = r
         /\ status[r] = "none" /\ target[r] = NoObject
         /\ main = "reading" /\ adding["main"] = NoAdd /\ UNCHANGED main
         /\ \A x \in Requests : x # r => x > r \/ x <= messages
PROOF
<1>1. /\ messages < MaxMessages /\ messages' = messages + 1
      /\ main = "reading" /\ adding["main"] = NoAdd /\ UNCHANGED main
  BY DEF Ask, NextMessage, Reading
<1>2. messages \in Nat /\ MaxMessages \in Nat
  BY BoundsAssumption DEF IInv, TypeOK
<1>3. messages + 1 \in Requests /\ messages + 1 > messages
  BY <1>1, <1>2 DEF Requests
<1>4. \A x \in Requests : x # messages + 1 => x > messages + 1 \/ x <= messages
  BY <1>2 DEF Requests
<1> QED
  BY <1>1, <1>3, <1>4 DEF RequestInv, LaterAreNew

LEMMA AskKeepsRequests ==
  ASSUME IInv, StopInv, RequestInv, NEW f \in Files, Ask(f)
  PROVE  RequestInv'
PROOF
<1> DEFINE r == messages + 1
<1>1. /\ r \in Requests /\ r > messages /\ messages' = r
      /\ status[r] = "none" /\ target[r] = NoObject
      /\ main = "reading" /\ adding["main"] = NoAdd /\ UNCHANGED main
      /\ \A x \in Requests : x # r => x > r \/ x <= messages
  BY AskedRequest
<1>2. UNCHANGED <<running, thread, stopped>>
  BY DEF Ask
<1>3. \A x \in Requests : x > r => x > messages /\ x # r
  BY <1>1, RequestTypes DEF IInv
<1>4. CASE opened[f] = NoObject
  <2>1. status' = [status EXCEPT ![r] = "refused"] /\ UNCHANGED <<target, queue, adding>>
    BY <1>4 DEF Ask
  <2> HIDE DEF r
  <2>2. \A x \in Requests : x # r => status'[x] = status[x]
    BY <2>1 DEF IInv, TypeOK
  <2>3. status'[r] = "refused"
    BY <1>1, <2>1 DEF IInv, TypeOK
  <2>4. LaterAreNew'
    BY <1>1, <1>3, <2>1, <2>2 DEF RequestInv, LaterAreNew
  <2>5. AskerIsLive'
    BY <1>1, <2>1 DEF AskerIsLive, NoAdd, NoTask
  <2>6. QueuedWait'
    <3>1. \A x \in Objects : \A i \in 1 .. Len(queue[x]) :
            queue[x][i].request # NoRequest => queue[x][i].request \in Requests
      BY RequestTypes DEF IInv
    <3> QED
      BY <1>1, <1>2, <2>1, <2>2, <3>1 DEF RequestInv, QueuedWait
  <2>7. RunningWaits'
    BY <1>1, <1>2, <2>1, <2>2, RequestTypes DEF RequestInv, RunningWaits, IInv
  <2>8. WaitersArePlaced'
    BY <1>2, <2>1, <2>2, <2>3 DEF RequestInv, WaitersArePlaced
  <2>9. QueueInOrder' /\ RunningIsOldest'
    BY <1>2, <2>1 DEF RequestInv, QueueInOrder, RunningIsOldest
  <2> QED
    BY <2>4, <2>5, <2>6, <2>7, <2>8, <2>9 DEF RequestInv
<1>5. CASE opened[f] # NoObject
  <2> DEFINE o == opened[f]
  <2>1. /\ o \in Objects /\ ~stopped[o] /\ thread[o] # "ended"
    BY <1>1, <1>5 DEF IInv, TypeOK, StopInv, OpenIsNotStopped, EndedIsStopped
  <2>2. /\ status' = [status EXCEPT ![r] = "waiting"]
        /\ target' = [target EXCEPT ![r] = o]
        /\ BeginAdd("main", o, RunWithAst(r))
    BY <1>5 DEF Ask
  <2> HIDE DEF r, o
  <2>3. /\ \A x \in Objects : SameTasks(x)
        /\ adding'["main"].object = o /\ adding'["main"].task.request = r
    <3>1. RunWithAst(r) \in Tasks /\ RunWithAst(r).request = r
      BY <1>1, TasksType DEF RunWithAst
    <3>2. /\ \A x \in Objects : SameTasks(x)
          /\ \A x \in Producers : adding'[x] = IF x = "main"
                                                  THEN [object |-> o, task |-> RunWithAst(r)]
                                                  ELSE adding[x]
      BY <2>1, <2>2, <3>1, BeginAddFacts DEF IInv, Producers
    <3> QED
      BY <3>1, <3>2 DEF Producers
  <2>4. \A x \in Requests : /\ x # r => status'[x] = status[x] /\ target'[x] = target[x]
                            /\ x = r => status'[x] = "waiting" /\ target'[x] = o
    BY <2>2 DEF IInv, TypeOK
  <2>5. LaterAreNew'
    BY <1>1, <1>3, <2>4 DEF RequestInv, LaterAreNew
  <2>6. \A x \in Requests : status[x] = "waiting" => x # r
    BY <1>1
  <2>7. \A x \in Objects : \A i \in 1 .. Len(queue[x]) :
          queue[x][i].request # NoRequest => queue[x][i].request \in Requests
    BY RequestTypes DEF IInv
  <2>8. AskerIsLive'
    <3>1. SameTasks(o)
      BY <2>1, <2>3
    <3>2. /\ \A i \in 1 .. Len(queue[o]) : queue[o][i].request <= messages
          /\ running[o].request <= messages
      BY <2>1, QueuedIsNotLater DEF IInv
    <3>3. \A i \in 1 .. Len(queue[o]) : queue[o][i].request \in Nat
      BY <2>1, RequestTypes DEF IInv
    <3>4. /\ running[o].request \in Nat /\ messages \in Nat /\ r \in Nat
      BY <1>1, <2>1, RequestTypes DEF IInv
    <3>5. \A i \in 1 .. Len(queue[o]) : queue[o][i].request < r
      BY <1>1, <3>2, <3>3, <3>4
    <3>6. running[o].request < r
      BY <1>1, <3>2, <3>4
    <3>7. \A i \in 1 .. Len(queue'[o]) : queue'[o][i].request < r
      BY <3>1, <3>5 DEF SameTasks
    <3> QED
      BY <1>1, <1>2, <2>1, <2>3, <2>4, <3>6, <3>7 DEF AskerIsLive
  <2>9. QueuedWait'
    <3> SUFFICES ASSUME NEW x \in Objects, thread[x] # "ended",
                        NEW i \in 1 .. Len(queue'[x]), queue'[x][i].request # NoRequest
                 PROVE  /\ status'[queue'[x][i].request] = "waiting"
                        /\ target'[queue'[x][i].request] = x
      BY <1>2 DEF QueuedWait
    <3>1. i \in 1 .. Len(queue[x]) /\ queue'[x][i].request = queue[x][i].request
      BY <2>3 DEF SameTasks
    <3>2. /\ status[queue[x][i].request] = "waiting"
          /\ target[queue[x][i].request] = x
          /\ queue[x][i].request \in Requests
      BY <2>7, <3>1 DEF RequestInv, QueuedWait
    <3> QED
      BY <2>4, <2>6, <3>1, <3>2
  <2>10. RunningWaits'
    BY <1>2, <2>4, <2>6, RequestTypes DEF RequestInv, RunningWaits, IInv
  <2>11. WaitersArePlaced'
    <3> SUFFICES ASSUME NEW x \in Requests, status'[x] = "waiting"
                 PROVE  /\ target'[x] \in Objects
                        /\ \/ running'[target'[x]].request = x
                           \/ adding'["main"].task.request = x
                           \/ \E i \in 1 .. Len(queue'[target'[x]]) :
                                queue'[target'[x]][i].request = x
      BY DEF WaitersArePlaced
    <3>1. CASE x = r
      BY <2>1, <2>3, <2>4, <3>1
    <3>2. CASE x # r
      <4>1. /\ target[x] \in Objects /\ target'[x] = target[x]
            /\ \/ running[target[x]].request = x
               \/ adding["main"].task.request = x
               \/ \E i \in 1 .. Len(queue[target[x]]) : queue[target[x]][i].request = x
        BY <2>4, <3>2 DEF RequestInv, WaitersArePlaced
      <4>2. adding["main"].task.request # x
        BY <1>1, RequestTypes DEF NoAdd, NoTask, IInv
      <4>3. SameTasks(target[x])
        BY <2>3, <4>1
      <4> QED
        BY <1>2, <4>1, <4>2, <4>3 DEF SameTasks
    <3> QED
      BY <3>1, <3>2
  <2>12. QueueInOrder' /\ RunningIsOldest'
    BY <1>2, <2>3 DEF RequestInv, QueueInOrder, RunningIsOldest, SameTasks
  <2> QED
    BY <2>5, <2>8, <2>9, <2>10, <2>11, <2>12 DEF RequestInv
<1> QED
  BY <1>4, <1>5

(* The second half of add_task: a request goes behind all of its object's.  *)
LEMMA EndAddKeepsRequests ==
  ASSUME IInv, StopInv, RequestInv, NEW p \in Producers, EndAdd(p)
  PROVE  RequestInv'
PROOF
<1> DEFINE o == adding[p].object
           t == adding[p].task
           r == t.request
           n == Len(queue[o])
<1>1. o \in Objects /\ t \in Tasks
  BY DEF EndAdd, IInv, TypeOK
<1>2. /\ queue' = [queue EXCEPT ![o] = Append(queue[o], t)]
      /\ adding' = [adding EXCEPT ![p] = NoAdd]
      /\ Unlocked(o)
      /\ UNCHANGED <<main, messages, thread, stopped, running, status, target>>
  BY DEF EndAdd, Pushed, mainVars, fileVars, objectVars
<1>3. r \in Requests \cup {NoRequest}
  BY RequestTypes DEF IInv
<1>4. r # NoRequest => p = "main"
  BY DEF StopInv, WorkerAsksNothing, Producers
<1>5. r # NoRequest => /\ ~stopped[o] /\ status[r] = "waiting" /\ target[r] = o
                       /\ \A i \in 1 .. n : queue[o][i].request < r
                       /\ running[o].request < r
  BY <1>4 DEF RequestInv, AskerIsLive
<1>6. running[o] = NoTask
  BY <1>1, <1>2 DEF StopInv, IdleRunsNothing
<1> HIDE DEF o, t, r, n
<1>7. /\ n \in Nat /\ Len(queue'[o]) = n + 1 /\ queue'[o][n + 1].request = r
      /\ \A i \in 1 .. n : queue'[o][i] = queue[o][i]
  <2>1. queue[o] \in Seq(Tasks)
    BY <1>1, QueueType DEF IInv
  <2>2. queue'[o] = Append(queue[o], t)
    BY <1>1, <1>2 DEF IInv, TypeOK
  <2> QED
    BY <1>1, <2>1, <2>2, AppendFacts DEF n, r
<1>8. 1 .. n + 1 = 1 .. n \cup {n + 1} /\ n + 1 \notin 1 .. n
  BY <1>7
<1>9. \A x \in Objects : x # o => queue'[x] = queue[x]
  BY <1>2 DEF IInv, TypeOK
<1>10. \A c \in Producers : adding'[c] = IF c = p THEN NoAdd ELSE adding[c]
  BY <1>2 DEF IInv, TypeOK
<1>11. LaterAreNew' /\ RunningWaits'
  BY <1>2 DEF RequestInv, LaterAreNew, RunningWaits
<1>12. AskerIsLive'
  <2> DEFINE a == adding["main"]
  <2> SUFFICES ASSUME adding'["main"].task.request # NoRequest
               PROVE  /\ main = "reading" /\ ~stopped[a.object]
                      /\ status[a.task.request] = "waiting"
                      /\ target[a.task.request] = a.object
                      /\ \A i \in 1 .. Len(queue'[a.object]) :
                           queue'[a.object][i].request < a.task.request
                      /\ running[a.object].request < a.task.request
                      /\ adding'["main"] = a
    BY <1>2 DEF AskerIsLive
  <2>1. p # "main" /\ adding'["main"] = a
    BY <1>10 DEF Producers, NoAdd, NoTask
  <2>2. r = NoRequest
    BY <1>4, <2>1
  <2>3. /\ main = "reading" /\ ~stopped[a.object]
        /\ status[a.task.request] = "waiting" /\ target[a.task.request] = a.object
        /\ \A i \in 1 .. Len(queue[a.object]) : queue[a.object][i].request < a.task.request
        /\ running[a.object].request < a.task.request
    BY <2>1 DEF RequestInv, AskerIsLive
  <2>4. a.object \in Objects /\ a.task.request \in Nat \ {0}
    BY <2>1, RequestTypes DEF IInv, Producers
  <2> HIDE DEF a
  <2>5. CASE a.object # o
    BY <1>9, <2>1, <2>3, <2>4, <2>5
  <2>6. CASE a.object = o
    <3>1. queue'[o][n + 1].request < a.task.request
      BY <1>7, <2>2, <2>4 DEF NoRequest
    <3>2. \A i \in 1 .. n : queue'[o][i].request < a.task.request
      BY <1>7, <2>3, <2>6 DEF n
    <3>3. \A i \in 1 .. Len(queue'[o]) : queue'[o][i].request < a.task.request
      BY <1>7, <1>8, <3>1, <3>2
    <3> QED
      BY <2>1, <2>3, <2>6, <3>3
  <2> QED
    BY <2>5, <2>6
<1>13. QueuedWait'
  <2> SUFFICES ASSUME NEW x \in Objects, thread[x] # "ended", NEW i \in 1 .. Len(queue'[x]),
                      queue'[x][i].request # NoRequest
               PROVE  /\ status[queue'[x][i].request] = "waiting"
                      /\ target[queue'[x][i].request] = x
    BY <1>2 DEF QueuedWait
  <2>1. CASE x # o
    BY <1>9, <2>1 DEF RequestInv, QueuedWait
  <2>2. CASE x = o /\ i = n + 1
    BY <1>5, <1>7, <2>2
  <2>3. CASE x = o /\ i \in 1 .. n
    BY <1>7, <2>3 DEF RequestInv, QueuedWait, n
  <2> QED
    BY <1>7, <1>8, <2>1, <2>2, <2>3
<1>14. WaitersArePlaced'
  <2> SUFFICES ASSUME NEW s \in Requests, status[s] = "waiting"
               PROVE  /\ target[s] \in Objects
                      /\ \/ running[target[s]].request = s
                         \/ adding'["main"].task.request = s
                         \/ \E i \in 1 .. Len(queue'[target[s]]) :
                              queue'[target[s]][i].request = s
    BY <1>2 DEF WaitersArePlaced
  <2>1. /\ target[s] \in Objects
        /\ \/ running[target[s]].request = s
           \/ adding["main"].task.request = s
           \/ \E i \in 1 .. Len(queue[target[s]]) : queue[target[s]][i].request = s
    BY DEF RequestInv, WaitersArePlaced
  <2>2. CASE adding["main"].task.request = s
    <3>1. CASE p # "main"
      BY <1>10, <2>1, <2>2, <3>1 DEF Producers
    <3>2. CASE p = "main"
      <4>1. s = r /\ s # NoRequest
        BY <2>2, <3>2, RequestTypes DEF r, t, IInv
      <4>2. target[s] = o
        BY <1>5, <4>1
      <4>3. n + 1 \in 1 .. Len(queue'[o])
        BY <1>7
      <4> QED
        BY <1>1, <1>7, <4>1, <4>2, <4>3
    <3> QED
      BY <3>1, <3>2
  <2>3. ASSUME NEW i \in 1 .. Len(queue[target[s]]), queue[target[s]][i].request = s
        PROVE  \E j \in 1 .. Len(queue'[target[s]]) : queue'[target[s]][j].request = s
    <3>1. CASE target[s] # o
      BY <1>9, <2>1, <2>3, <3>1
    <3>2. CASE target[s] = o
      <4>1. i \in 1 .. n /\ i \in 1 .. Len(queue'[o])
        BY <1>7, <1>8, <2>3, <3>2 DEF n
      <4> QED
        BY <1>7, <2>3, <3>2, <4>1
    <3> QED
      BY <3>1, <3>2
  <2> QED
    BY <2>1, <2>2, <2>3
<1>15. QueueInOrder'
  <2> SUFFICES ASSUME NEW x \in Objects, NEW i \in 1 .. Len(queue'[x]),
                      NEW j \in 1 .. Len(queue'[x]), i < j,
                      queue'[x][j].request # NoRequest
               PROVE  queue'[x][i].request < queue'[x][j].request
    BY DEF QueueInOrder
  <2>1. CASE x # o
    BY <1>9, <2>1 DEF RequestInv, QueueInOrder
  <2>2. CASE x = o /\ j = n + 1
    <3>1. i \in 1 .. n
      BY <1>7, <2>2
    <3>2. queue'[o][i].request < r
      BY <1>5, <1>7, <2>2, <3>1
    <3> QED
      BY <1>7, <2>2, <3>2
  <2>3. CASE x = o /\ j \in 1 .. n
    <3>1. i \in 1 .. n
      BY <1>7, <2>3
    <3> QED
      BY <1>7, <2>3, <3>1 DEF RequestInv, QueueInOrder, n
  <2> QED
    BY <1>7, <1>8, <2>1, <2>2, <2>3
<1>16. RunningIsOldest'
  <2> SUFFICES ASSUME NEW x \in Objects, NEW i \in 1 .. Len(queue'[x]),
                      queue'[x][i].request # NoRequest
               PROVE  running[x].request < queue'[x][i].request
    BY <1>2 DEF RunningIsOldest
  <2>1. CASE x # o
    BY <1>9, <2>1 DEF RequestInv, RunningIsOldest
  <2>2. CASE x = o /\ i = n + 1
    BY <1>5, <1>7, <2>2
  <2>3. CASE x = o /\ i \in 1 .. n
    BY <1>7, <2>3 DEF RequestInv, RunningIsOldest, n
  <2> QED
    BY <1>7, <1>8, <2>1, <2>2, <2>3
<1> QED
  BY <1>11, <1>12, <1>13, <1>14, <1>15, <1>16 DEF RequestInv

(* The front of the queue, its request and the rest.                        *)
LEMMA PopFacts ==
  ASSUME IInv, StopInv, RequestInv, NEW o \in Objects, Pop(o)
  PROVE  LET n == Len(queue[o])
             r == Head(queue[o]).request
         IN  /\ thread[o] = "loop" /\ running[o].request = NoRequest
             /\ n \in Nat \ {0} /\ 1 \in 1 .. n
             /\ Head(queue[o]) \in Tasks
             /\ Head(queue[o]) = queue[o][1]
             /\ r \in Requests \cup {NoRequest}
             /\ Len(queue'[o]) = n - 1
             /\ \A i \in 1 .. n - 1 : queue'[o][i] = queue[o][i + 1] /\ i + 1 \in 1 .. n
             /\ \A i \in 1 .. n : i = 1 \/ (i - 1 \in 1 .. n - 1 /\ queue'[o][i - 1] = queue[o][i])
             /\ \A x \in Objects : x # o => queue'[x] = queue[x]
PROOF
<1> DEFINE n == Len(queue[o])
<1>1. queue[o] \in Seq(Tasks) /\ queue[o] # <<>> /\ thread[o] = "loop"
  BY QueueType DEF IInv, Pop
<1>2. /\ queue'[o] = Tail(queue[o]) /\ \A x \in Objects : x # o => queue'[x] = queue[x]
  BY DEF Pop, IInv, TypeOK
<1>3. /\ n \in Nat \ {0}
      /\ Head(queue[o]) = queue[o][1] /\ Head(queue[o]) \in Tasks
      /\ Len(queue'[o]) = n - 1
      /\ \A i \in 1 .. n - 1 : queue'[o][i] = queue[o][i + 1]
  BY <1>1, <1>2, TailFacts
<1>4. running[o].request = NoRequest
  BY <1>1 DEF StopInv, IdleRunsNothing, Unlocked, NoTask
<1>5. Head(queue[o]).request \in Requests \cup {NoRequest}
  BY <1>3 DEF Tasks
<1> HIDE DEF n
<1>6. /\ 1 \in 1 .. n
      /\ \A i \in 1 .. n - 1 : i + 1 \in 1 .. n
      /\ \A i \in 1 .. n : i = 1 \/ (i - 1 \in 1 .. n - 1 /\ (i - 1) + 1 = i)
  BY <1>3
<1>7. \A i \in 1 .. n : i = 1 \/ (i - 1 \in 1 .. n - 1 /\ queue'[o][i - 1] = queue[o][i])
  BY <1>3, <1>6
<1> QED
  BY <1>1, <1>2, <1>3, <1>4, <1>5, <1>6, <1>7 DEF n

(* All but the front stay in the queue, and nothing else is in it.          *)
LEMMA PopMoves ==
  ASSUME IInv, StopInv, RequestInv, NEW o \in Objects, Pop(o)
  PROVE  /\ \A i \in 1 .. Len(queue'[o]) :
              \E j \in 1 .. Len(queue[o]) : queue'[o][i] = queue[o][j]
         /\ \A j \in 1 .. Len(queue[o]) :
              j = 1 \/ \E i \in 1 .. Len(queue'[o]) : queue'[o][i] = queue[o][j]
PROOF
<1> DEFINE n == Len(queue[o])
<1>1. /\ Len(queue'[o]) = n - 1
      /\ \A i \in 1 .. n - 1 : queue'[o][i] = queue[o][i + 1] /\ i + 1 \in 1 .. n
      /\ \A i \in 1 .. n : i = 1 \/ (i - 1 \in 1 .. n - 1 /\ queue'[o][i - 1] = queue[o][i])
  BY PopFacts
<1> HIDE DEF n
<1>2. ASSUME NEW i \in 1 .. n - 1 PROVE \E j \in 1 .. n : queue'[o][i] = queue[o][j]
  <2>1. i + 1 \in 1 .. n /\ queue'[o][i] = queue[o][i + 1]
    BY <1>1
  <2> QED
    BY <2>1
<1>3. ASSUME NEW j \in 1 .. n, j # 1 PROVE \E i \in 1 .. n - 1 : queue'[o][i] = queue[o][j]
  <2>1. j - 1 \in 1 .. n - 1 /\ queue'[o][j - 1] = queue[o][j]
    BY <1>1, <1>3
  <2> QED
    BY <2>1
<1>4. \A j \in 1 .. n : j = 1 \/ \E i \in 1 .. n - 1 : queue'[o][i] = queue[o][j]
  BY <1>3
<1> QED
  BY <1>1, <1>2, <1>4 DEF n

(* Taking the front off a queue leaves the rest in order, and younger.      *)
LEMMA PopKeepsOrder ==
  ASSUME IInv, StopInv, RequestInv, NEW o \in Objects, Pop(o)
  PROVE  /\ QueueInOrder'
         /\ \A i \in 1 .. Len(queue'[o]) : queue'[o][i].request # NoRequest =>
              Head(queue[o]).request < queue'[o][i].request
PROOF
<1> DEFINE n == Len(queue[o])
<1>1. /\ n \in Nat \ {0} /\ 1 \in 1 .. n
      /\ Head(queue[o]) = queue[o][1] /\ Len(queue'[o]) = n - 1
      /\ \A i \in 1 .. n - 1 : queue'[o][i] = queue[o][i + 1] /\ i + 1 \in 1 .. n
      /\ \A x \in Objects : x # o => queue'[x] = queue[x]
  BY PopFacts
<1>2. \A i, j \in 1 .. n : i < j /\ queue[o][j].request # NoRequest =>
        queue[o][i].request < queue[o][j].request
  BY DEF RequestInv, QueueInOrder
<1> HIDE DEF n
<1>3. \A i \in 1 .. n - 1 : 1 < i + 1
  BY <1>1
<1>4. \A i \in 1 .. n - 1 : queue'[o][i].request # NoRequest =>
        queue[o][1].request < queue'[o][i].request
  BY <1>1, <1>2, <1>3
<1>5. \A i, j \in 1 .. n - 1 : i < j => i + 1 < j + 1
  BY <1>1
<1>6. ASSUME NEW i \in 1 .. n - 1, NEW j \in 1 .. n - 1, i < j,
             queue'[o][j].request # NoRequest
      PROVE  queue'[o][i].request < queue'[o][j].request
  <2>1. /\ queue'[o][i] = queue[o][i + 1] /\ i + 1 \in 1 .. n
        /\ queue'[o][j] = queue[o][j + 1] /\ j + 1 \in 1 .. n
    BY <1>1
  <2>2. i + 1 < j + 1
    BY <1>5, <1>6
  <2> QED
    BY <1>2, <1>6, <2>1, <2>2
<1>7. QueueInOrder'
  BY <1>1, <1>6 DEF RequestInv, QueueInOrder
<1> QED
  BY <1>1, <1>4, <1>7

LEMMA TakeKeepsRequests ==
  ASSUME IInv, StopInv, RequestInv, NEW o \in Objects, Take(o)
  PROVE  RequestInv'
PROOF
<1> DEFINE r == Head(queue[o]).request
           n == Len(queue[o])
<1>1. /\ Pop(o)
      /\ thread' = [thread EXCEPT ![o] = "took"]
      /\ running' = [running EXCEPT ![o] = Head(queue[o])]
      /\ UNCHANGED <<main, messages, adding, stopped, status, target>>
  BY DEF Take, mainVars
<1>2. /\ thread[o] = "loop" /\ running[o].request = NoRequest
      /\ n \in Nat \ {0} /\ 1 \in 1 .. n
      /\ r = queue[o][1].request /\ r \in Requests \cup {NoRequest}
      /\ \A x \in Objects : x # o => queue'[x] = queue[x]
  BY <1>1, PopFacts
<1>moves. /\ \A i \in 1 .. Len(queue'[o]) : \E j \in 1 .. n : queue'[o][i] = queue[o][j]
      /\ \A j \in 1 .. n :
           j = 1 \/ \E i \in 1 .. Len(queue'[o]) : queue'[o][i] = queue[o][j]
  BY <1>1, PopMoves
<1>3. /\ running'[o].request = r
      /\ \A x \in Objects : x # o => running'[x] = running[x]
      /\ \A x \in Objects : thread'[x] = "ended" <=> thread[x] = "ended"
  BY <1>1, <1>2 DEF IInv, TypeOK
<1>4. \A i \in 1 .. n : queue[o][i].request # NoRequest =>
        status[queue[o][i].request] = "waiting" /\ target[queue[o][i].request] = o
  BY <1>2 DEF RequestInv, QueuedWait
<1> HIDE DEF r, n
<1>5. LaterAreNew'
  BY <1>1 DEF RequestInv, LaterAreNew
<1>6. AskerIsLive'
  <2> DEFINE a == adding["main"]
  <2> SUFFICES ASSUME a.task.request # NoRequest
               PROVE  /\ main = "reading" /\ ~stopped[a.object]
                      /\ status[a.task.request] = "waiting"
                      /\ target[a.task.request] = a.object
                      /\ \A i \in 1 .. Len(queue'[a.object]) :
                           queue'[a.object][i].request < a.task.request
                      /\ running'[a.object].request < a.task.request
    BY <1>1 DEF AskerIsLive
  <2>1. /\ main = "reading" /\ ~stopped[a.object]
        /\ status[a.task.request] = "waiting" /\ target[a.task.request] = a.object
        /\ \A i \in 1 .. Len(queue[a.object]) : queue[a.object][i].request < a.task.request
        /\ running[a.object].request < a.task.request
    BY DEF RequestInv, AskerIsLive
  <2>2. a.object \in Objects
    BY RequestTypes DEF IInv, Producers
  <2> HIDE DEF a
  <2>3. CASE a.object # o
    BY <1>2, <1>3, <2>1, <2>2, <2>3
  <2>4. CASE a.object = o
    <3>1. r < a.task.request
      BY <1>2, <2>1, <2>4 DEF n
    <3>2. \A i \in 1 .. n : queue[o][i].request < a.task.request
      BY <2>1, <2>4 DEF n
    <3>3. \A i \in 1 .. Len(queue'[o]) : queue'[o][i].request < a.task.request
      BY <1>moves, <3>2
    <3> QED
      BY <1>3, <2>1, <2>4, <3>1, <3>3
  <2> QED
    BY <2>3, <2>4
<1>7. QueuedWait'
  <2> SUFFICES ASSUME NEW x \in Objects, thread[x] # "ended", NEW i \in 1 .. Len(queue'[x]),
                      queue'[x][i].request # NoRequest
               PROVE  /\ status[queue'[x][i].request] = "waiting"
                      /\ target[queue'[x][i].request] = x
    BY <1>1, <1>3 DEF QueuedWait
  <2>1. CASE x # o
    BY <1>2, <2>1 DEF RequestInv, QueuedWait
  <2>2. CASE x = o
    BY <1>4, <1>moves, <2>2
  <2> QED
    BY <2>1, <2>2
<1>8. RunningWaits'
  <2>1. r # NoRequest => status[r] = "waiting" /\ target[r] = o
    BY <1>2, <1>4
  <2> QED
    BY <1>1, <1>3, <2>1 DEF RequestInv, RunningWaits
<1>9. WaitersArePlaced'
  <2> SUFFICES ASSUME NEW s \in Requests, status[s] = "waiting"
               PROVE  /\ target[s] \in Objects
                      /\ \/ running'[target[s]].request = s
                         \/ adding["main"].task.request = s
                         \/ \E i \in 1 .. Len(queue'[target[s]]) :
                              queue'[target[s]][i].request = s
    BY <1>1 DEF WaitersArePlaced
  <2>1. /\ target[s] \in Objects
        /\ \/ running[target[s]].request = s
           \/ adding["main"].task.request = s
           \/ \E i \in 1 .. Len(queue[target[s]]) : queue[target[s]][i].request = s
    BY DEF RequestInv, WaitersArePlaced
  <2>2. s # NoRequest
    BY RequestTypes DEF IInv
  <2>3. CASE target[s] # o
    BY <1>2, <1>3, <2>1, <2>3
  <2>4. ASSUME target[s] = o, NEW i \in 1 .. n, queue[o][i].request = s
        PROVE  \/ running'[o].request = s
               \/ \E j \in 1 .. Len(queue'[o]) : queue'[o][j].request = s
    <3>1. CASE i = 1
      BY <1>2, <1>3, <2>4, <3>1
    <3>2. CASE i # 1
      BY <1>moves, <2>4, <3>2
    <3> QED
      BY <3>1, <3>2
  <2> QED
    BY <1>2, <2>1, <2>2, <2>3, <2>4 DEF n
<1>10. QueueInOrder'
  BY <1>1, PopKeepsOrder
<1>11. RunningIsOldest'
  <2>1. \A i \in 1 .. Len(queue'[o]) : queue'[o][i].request # NoRequest =>
          running'[o].request < queue'[o][i].request
    BY <1>1, <1>3, PopKeepsOrder DEF r
  <2> QED
    BY <1>2, <1>3, <2>1 DEF RequestInv, RunningIsOldest
<1> QED
  BY <1>5, <1>6, <1>7, <1>8, <1>9, <1>10, <1>11 DEF RequestInv

(* A superseded task leaves the queue, and its request is answered.         *)
LEMMA SkipKeepsRequests ==
  ASSUME IInv, StopInv, RequestInv, NEW o \in Objects, SkipSuperseded(o)
  PROVE  RequestInv'
PROOF
<1> DEFINE r == Head(queue[o]).request
           n == Len(queue[o])
<1>1. /\ Pop(o)
      /\ status' = IF r = NoRequest THEN status ELSE [status EXCEPT ![r] = "empty"]
      /\ UNCHANGED <<main, messages, adding, stopped, running, thread, target>>
  BY DEF SkipSuperseded, Settle, SupersededOutcome, mainVars, objectVars
<1>2. /\ thread[o] = "loop" /\ running[o].request = NoRequest
      /\ n \in Nat \ {0} /\ 1 \in 1 .. n
      /\ r = queue[o][1].request /\ r \in Requests \cup {NoRequest}
      /\ \A x \in Objects : x # o => queue'[x] = queue[x]
  BY <1>1, PopFacts
<1>moves. /\ \A i \in 1 .. Len(queue'[o]) : \E j \in 1 .. n : queue'[o][i] = queue[o][j]
      /\ \A j \in 1 .. n :
           j = 1 \/ \E i \in 1 .. Len(queue'[o]) : queue'[o][i] = queue[o][j]
  BY <1>1, PopMoves
<1>3. \A i \in 1 .. n : queue[o][i].request # NoRequest =>
        status[queue[o][i].request] = "waiting" /\ target[queue[o][i].request] = o
  BY <1>2 DEF RequestInv, QueuedWait
<1>4. \A i \in 1 .. Len(queue'[o]) : queue'[o][i].request # NoRequest =>
        r < queue'[o][i].request
  BY <1>1, PopKeepsOrder
<1> HIDE DEF r, n
<1>5. r # NoRequest => r \in Requests /\ status[r] = "waiting" /\ target[r] = o
  BY <1>2, <1>3
<1>6. /\ \A s \in Requests : s # r => status'[s] = status[s]
      /\ r # NoRequest => status'[r] = "empty"
  BY <1>1, <1>5 DEF IInv, TypeOK
<1>7. LaterAreNew'
  BY <1>1, <1>5, <1>6 DEF RequestInv, LaterAreNew
<1>8. AskerIsLive'
  <2> DEFINE a == adding["main"]
  <2> SUFFICES ASSUME a.task.request # NoRequest
               PROVE  /\ main = "reading" /\ ~stopped[a.object]
                      /\ status'[a.task.request] = "waiting"
                      /\ target[a.task.request] = a.object
                      /\ \A i \in 1 .. Len(queue'[a.object]) :
                           queue'[a.object][i].request < a.task.request
                      /\ running[a.object].request < a.task.request
    BY <1>1 DEF AskerIsLive
  <2>1. /\ main = "reading" /\ ~stopped[a.object]
        /\ status[a.task.request] = "waiting" /\ target[a.task.request] = a.object
        /\ \A i \in 1 .. Len(queue[a.object]) : queue[a.object][i].request < a.task.request
        /\ running[a.object].request < a.task.request
    BY DEF RequestInv, AskerIsLive
  <2>2. a.object \in Objects /\ a.task.request \in Requests
    BY RequestTypes DEF IInv, Producers
  <2> HIDE DEF a
  <2>3. a.task.request # r
    <3>1. CASE a.object = o
      <4>1. queue[o][1].request < a.task.request
        BY <1>2, <2>1, <3>1 DEF n
      <4> QED
        BY <1>2, <2>2, <4>1, RequestTypes DEF IInv
    <3>2. CASE a.object # o
      BY <1>5, <2>1, <2>2, <3>2
    <3> QED
      BY <3>1, <3>2
  <2>4. \A i \in 1 .. Len(queue'[a.object]) : queue'[a.object][i].request < a.task.request
    <3>1. CASE a.object # o
      BY <1>2, <2>1, <2>2, <3>1
    <3>2. CASE a.object = o
      BY <1>moves, <2>1, <3>2 DEF n
    <3> QED
      BY <3>1, <3>2
  <2> QED
    BY <1>6, <2>1, <2>2, <2>3, <2>4
<1>9. QueuedWait'
  <2> SUFFICES ASSUME NEW x \in Objects, thread[x] # "ended", NEW i \in 1 .. Len(queue'[x]),
                      queue'[x][i].request # NoRequest
               PROVE  /\ status'[queue'[x][i].request] = "waiting"
                      /\ target[queue'[x][i].request] = x
    BY <1>1 DEF QueuedWait
  <2>1. CASE x # o
    <3>1. queue'[x] = queue[x]
      BY <1>2, <2>1
    <3>2. /\ status[queue[x][i].request] = "waiting" /\ target[queue[x][i].request] = x
          /\ queue[x][i].request \in Requests
      BY <3>1, RequestTypes DEF RequestInv, QueuedWait, IInv
    <3> QED
      BY <1>5, <1>6, <2>1, <3>1, <3>2
  <2>2. CASE x = o
    <3>1. /\ status[queue'[o][i].request] = "waiting" /\ target[queue'[o][i].request] = o
          /\ queue'[o][i].request \in Requests
      <4>1. PICK j \in 1 .. n : queue'[o][i] = queue[o][j]
        BY <1>moves, <2>2
      <4>2. queue[o][j].request \in Requests \cup {NoRequest}
        BY RequestTypes DEF n, IInv
      <4> QED
        BY <1>3, <2>2, <4>1, <4>2
    <3>2. r < queue'[o][i].request
      BY <1>4, <2>2
    <3>3. queue'[o][i].request # r
      BY <1>2, <3>1, <3>2, RequestTypes DEF IInv
    <3> QED
      BY <1>6, <2>2, <3>1, <3>3
  <2> QED
    BY <2>1, <2>2
<1>10. RunningWaits'
  <2> SUFFICES ASSUME NEW x \in Objects, running[x].request # NoRequest
               PROVE  /\ status'[running[x].request] = "waiting"
                      /\ target[running[x].request] = x
    BY <1>1 DEF RunningWaits
  <2>1. /\ status[running[x].request] = "waiting" /\ target[running[x].request] = x
        /\ running[x].request \in Requests /\ x # o
    BY <1>2, RequestTypes DEF RequestInv, RunningWaits, IInv
  <2> QED
    BY <1>5, <1>6, <2>1
<1>11. WaitersArePlaced'
  <2> SUFFICES ASSUME NEW s \in Requests, status'[s] = "waiting"
               PROVE  /\ target[s] \in Objects
                      /\ \/ running[target[s]].request = s
                         \/ adding["main"].task.request = s
                         \/ \E i \in 1 .. Len(queue'[target[s]]) :
                              queue'[target[s]][i].request = s
    BY <1>1 DEF WaitersArePlaced
  <2>1. s # r /\ status[s] = "waiting"
    BY <1>6, RequestTypes DEF IInv
  <2>2. /\ target[s] \in Objects
        /\ \/ running[target[s]].request = s
           \/ adding["main"].task.request = s
           \/ \E i \in 1 .. Len(queue[target[s]]) : queue[target[s]][i].request = s
    BY <2>1 DEF RequestInv, WaitersArePlaced
  <2>3. CASE target[s] # o
    BY <1>2, <2>2, <2>3
  <2>4. ASSUME target[s] = o, NEW i \in 1 .. n, queue[o][i].request = s
        PROVE  \E j \in 1 .. Len(queue'[o]) : queue'[o][j].request = s
    <3>1. i # 1
      BY <1>2, <2>1, <2>4
    <3> QED
      BY <1>moves, <2>4, <3>1
  <2> QED
    BY <2>2, <2>3, <2>4 DEF n
<1>12. QueueInOrder'
  BY <1>1, PopKeepsOrder
<1>13. RunningIsOldest'
  <2>1. \A i \in 1 .. Len(queue'[o]) : queue'[o][i].request # NoRequest =>
          running[o].request < queue'[o][i].request
    BY <1>moves DEF RequestInv, RunningIsOldest, n
  <2> QED
    BY <1>1, <1>2, <2>1 DEF RequestInv, RunningIsOldest
<1> QED
  BY <1>7, <1>8, <1>9, <1>10, <1>11, <1>12, <1>13 DEF RequestInv

(* The task that runs ends: its request, if it has one, is settled.         *)
LEMMA EndOfTaskKeepsRequests ==
  ASSUME IInv, StopInv, RequestInv, NEW o \in Objects,
         NEW how \in {"answered", "failed"}, Settle(running[o], how), ReleaseMutex(o),
         thread[o] \in {"took", "analysed"},
         UNCHANGED <<main, messages, adding, queue, stopped, target>>
  PROVE  RequestInv'
PROOF
<1> DEFINE r == running[o].request
<1>1. /\ status' = IF r = NoRequest THEN status ELSE [status EXCEPT ![r] = how]
      /\ r \in Requests \cup {NoRequest}
  BY RequestTypes DEF Settle, IInv
<1>2. r # NoRequest => status[r] = "waiting" /\ target[r] = o
  BY DEF RequestInv, RunningWaits
<1>3. /\ running'[o].request = NoRequest
      /\ \A x \in Objects : x # o => running'[x] = running[x]
      /\ \A x \in Objects : thread'[x] = "ended" <=> thread[x] = "ended"
  BY DEF ReleaseMutex, IInv, TypeOK, NoTask
<1>4. \A i \in 1 .. Len(queue[o]) : queue[o][i].request # NoRequest =>
        r < queue[o][i].request
  BY DEF RequestInv, RunningIsOldest
<1> HIDE DEF r
<1>5. /\ \A s \in Requests : s # r => status'[s] = status[s]
      /\ r # NoRequest => status'[r] = how /\ r \in Requests
  BY <1>1 DEF IInv, TypeOK
<1>6. how # "none" /\ how # "waiting"
  OBVIOUS
<1>7. LaterAreNew'
  BY <1>1, <1>2, <1>5 DEF RequestInv, LaterAreNew
<1>8. AskerIsLive'
  <2> DEFINE a == adding["main"]
  <2> SUFFICES ASSUME a.task.request # NoRequest
               PROVE  /\ main = "reading" /\ ~stopped[a.object]
                      /\ status'[a.task.request] = "waiting"
                      /\ target[a.task.request] = a.object
                      /\ \A i \in 1 .. Len(queue[a.object]) :
                           queue[a.object][i].request < a.task.request
                      /\ running'[a.object].request < a.task.request
    BY DEF AskerIsLive
  <2>1. /\ main = "reading" /\ ~stopped[a.object]
        /\ status[a.task.request] = "waiting" /\ target[a.task.request] = a.object
        /\ \A i \in 1 .. Len(queue[a.object]) : queue[a.object][i].request < a.task.request
        /\ running[a.object].request < a.task.request
    BY DEF RequestInv, AskerIsLive
  <2>2. a.object \in Objects /\ a.task.request \in Requests
    BY RequestTypes DEF IInv, Producers
  <2> HIDE DEF a
  <2>3. 0 < a.task.request
    BY <2>2, BoundsAssumption DEF Requests
  <2>4. a.task.request # r
    <3>1. CASE a.object = o
      BY <2>1, <2>2, <3>1, RequestTypes DEF r, IInv
    <3>2. CASE a.object # o
      BY <1>2, <2>1, <2>2, <3>2, RequestTypes DEF IInv
    <3> QED
      BY <3>1, <3>2
  <2>5. running'[a.object].request < a.task.request
    BY <1>3, <2>1, <2>2, <2>3 DEF NoRequest
  <2> QED
    BY <1>5, <2>1, <2>2, <2>4, <2>5
<1>9. QueuedWait'
  <2> SUFFICES ASSUME NEW x \in Objects, thread[x] # "ended", NEW i \in 1 .. Len(queue[x]),
                      queue[x][i].request # NoRequest
               PROVE  /\ status'[queue[x][i].request] = "waiting"
                      /\ target[queue[x][i].request] = x
    BY <1>3 DEF QueuedWait
  <2>1. /\ status[queue[x][i].request] = "waiting" /\ target[queue[x][i].request] = x
        /\ queue[x][i].request \in Requests
    BY RequestTypes DEF RequestInv, QueuedWait, IInv
  <2>2. CASE x # o
    BY <1>2, <1>5, <2>1, <2>2, RequestTypes DEF IInv
  <2>3. CASE x = o
    <3>1. r < queue[x][i].request
      BY <1>4, <2>3
    <3>2. queue[x][i].request # r
      BY <1>1, <2>1, <3>1, RequestTypes DEF IInv
    <3> QED
      BY <1>5, <2>1, <3>2
  <2> QED
    BY <2>2, <2>3
<1>10. RunningWaits'
  <2> SUFFICES ASSUME NEW x \in Objects, x # o, running[x].request # NoRequest
               PROVE  /\ status'[running[x].request] = "waiting"
                      /\ target[running[x].request] = x
    BY <1>3 DEF RunningWaits
  <2>1. /\ status[running[x].request] = "waiting" /\ target[running[x].request] = x
        /\ running[x].request \in Requests
    BY RequestTypes DEF RequestInv, RunningWaits, IInv
  <2> QED
    BY <1>2, <1>5, <2>1, RequestTypes DEF IInv
<1>11. WaitersArePlaced'
  <2> SUFFICES ASSUME NEW s \in Requests, status'[s] = "waiting"
               PROVE  /\ target[s] \in Objects
                      /\ \/ running'[target[s]].request = s
                         \/ adding["main"].task.request = s
                         \/ \E i \in 1 .. Len(queue[target[s]]) : queue[target[s]][i].request = s
    BY DEF WaitersArePlaced
  <2>1. s # r /\ status[s] = "waiting"
    BY <1>5, <1>6, RequestTypes DEF IInv
  <2>2. /\ target[s] \in Objects
        /\ \/ running[target[s]].request = s
           \/ adding["main"].task.request = s
           \/ \E i \in 1 .. Len(queue[target[s]]) : queue[target[s]][i].request = s
    BY <2>1 DEF RequestInv, WaitersArePlaced
  <2> QED
    BY <1>3, <2>1, <2>2 DEF r
<1>12. QueueInOrder'
  BY DEF RequestInv, QueueInOrder
<1>13. RunningIsOldest'
  <2> SUFFICES ASSUME NEW x \in Objects, NEW i \in 1 .. Len(queue[x]),
                      queue[x][i].request # NoRequest
               PROVE  running'[x].request < queue[x][i].request
    BY DEF RunningIsOldest
  <2>1. CASE x # o
    BY <1>3, <2>1 DEF RequestInv, RunningIsOldest
  <2>2. CASE x = o
    <3>1. queue[x][i].request \in Requests
      BY RequestTypes DEF IInv
    <3>2. 0 < queue[x][i].request
      BY <3>1, BoundsAssumption DEF Requests
    <3> QED
      BY <1>3, <2>2, <3>2 DEF NoRequest
  <2> QED
    BY <2>1, <2>2
<1> QED
  BY <1>7, <1>8, <1>9, <1>10, <1>11, <1>12, <1>13 DEF RequestInv

(* The thread leaves its loop, and the requests in its queue are dropped.   *)
LEMMA LeaveKeepsRequests ==
  ASSUME IInv, StopInv, RequestInv, NEW o \in Objects, Leave(o)
  PROVE  RequestInv'
PROOF
<1>1. /\ thread[o] = "loop" /\ stopped[o]
      /\ thread' = [thread EXCEPT ![o] = "ended"]
      /\ status' = [r \in Requests |-> IF target[r] = o /\ status[r] = "waiting"
                                          THEN "dropped" ELSE status[r]]
      /\ UNCHANGED <<main, messages, adding, queue, stopped, running, target>>
  BY DEF Leave, mainVars
<1>2. \A x \in Objects : thread'[x] = IF x = o THEN "ended" ELSE thread[x]
  BY <1>1 DEF IInv, TypeOK
<1>3. \A r \in Requests : target[r] # o => status'[r] = status[r]
  BY <1>1
<1>4. \A r \in Requests : status'[r] = "waiting" => status[r] = "waiting" /\ target[r] # o
  BY <1>1
<1>5. running[o].request = NoRequest
  BY <1>1 DEF StopInv, IdleRunsNothing, Unlocked, NoTask
<1>6. LaterAreNew'
  BY <1>1 DEF RequestInv, LaterAreNew
<1>7. AskerIsLive'
  <2> DEFINE a == adding["main"]
  <2> SUFFICES ASSUME a.task.request # NoRequest PROVE status'[a.task.request] = "waiting"
    BY <1>1 DEF RequestInv, AskerIsLive
  <2>1. /\ ~stopped[a.object] /\ a.task.request \in Requests
        /\ status[a.task.request] = "waiting" /\ target[a.task.request] = a.object
    BY RequestTypes DEF RequestInv, AskerIsLive, IInv, Producers
  <2> QED
    BY <1>1, <1>3, <2>1
<1>8. QueuedWait'
  <2> SUFFICES ASSUME NEW x \in Objects, x # o, thread[x] # "ended",
                      NEW i \in 1 .. Len(queue[x]), queue[x][i].request # NoRequest
               PROVE  /\ status'[queue[x][i].request] = "waiting"
                      /\ target[queue[x][i].request] = x
    BY <1>1, <1>2 DEF QueuedWait
  <2>1. /\ status[queue[x][i].request] = "waiting" /\ target[queue[x][i].request] = x
        /\ queue[x][i].request \in Requests
    BY RequestTypes DEF RequestInv, QueuedWait, IInv
  <2> QED
    BY <1>3, <2>1
<1>9. RunningWaits'
  <2> SUFFICES ASSUME NEW x \in Objects, running[x].request # NoRequest
               PROVE  /\ status'[running[x].request] = "waiting"
                      /\ target[running[x].request] = x
    BY <1>1 DEF RunningWaits
  <2>1. /\ status[running[x].request] = "waiting" /\ target[running[x].request] = x
        /\ running[x].request \in Requests /\ x # o
    BY <1>5, RequestTypes DEF RequestInv, RunningWaits, IInv
  <2> QED
    BY <1>3, <2>1
<1>10. WaitersArePlaced'
  BY <1>1, <1>4 DEF RequestInv, WaitersArePlaced
<1>11. QueueInOrder' /\ RunningIsOldest'
  BY <1>1 DEF RequestInv, QueueInOrder, RunningIsOldest
<1> QED
  BY <1>6, <1>7, <1>8, <1>9, <1>10, <1>11 DEF RequestInv

-----------------------------------------------------------------------------
(* The refinement: what a step of the open documents is to the lines.       *)

Ended == {o \in Objects : thread[o] = "ended"}

LEMMA LinesStutter ==
  ASSUME UNCHANGED <<status, target>>,
         \A x \in Objects : thread'[x] = "ended" <=> thread[x] = "ended"
  PROVE  UNCHANGED Lines!vars
PROOF
<1>1. Ended' = Ended
  BY DEF Ended
<1> QED
  BY <1>1 DEF Lines!vars, Ended

(* A question to a document that is open arrives on its line, one to a      *)
(* document that is not is refused.                                         *)
LEMMA AskArrives ==
  ASSUME IInv, StopInv, RequestInv, NEW f \in Files, Ask(f)
  PROVE  Lines!Next
PROOF
<1> DEFINE r == messages + 1
           o == opened[f]
<1>1. /\ r \in Requests /\ status[r] = "none" /\ r > messages
      /\ main = "reading"
  BY AskedRequest
<1>2. UNCHANGED thread
  BY DEF Ask
<1>3. CASE o = NoObject
  <2>1. status' = [status EXCEPT ![r] = "refused"] /\ UNCHANGED target
    BY <1>3 DEF Ask
  <2> HIDE DEF r, o
  <2>2. Lines!Refuse(r)
    BY <1>1, <1>2, <2>1 DEF Lines!Refuse
  <2> QED
    BY <1>1, <2>2 DEF Lines!Next
<1>4. CASE o # NoObject
  <2>1. /\ status' = [status EXCEPT ![r] = "waiting"]
        /\ target' = [target EXCEPT ![r] = o]
    BY <1>4 DEF Ask
  <2>2. o \in Objects /\ thread[o] # "ended"
    BY <1>1, <1>4 DEF IInv, TypeOK, StopInv, OpenIsNotStopped, EndedIsStopped
  <2> HIDE DEF r, o
  <2>3. ASSUME NEW s \in Requests, target[s] = o PROVE s < r
    <3>1. target[s] # NoObject
      BY <1>4, <2>3
    <3>2. s \in Nat /\ r \in Nat /\ messages \in Nat
      BY <1>1, RequestTypes DEF IInv
    <3>3. ~(s > messages)
      BY <3>1 DEF RequestInv, LaterAreNew
    <3> QED
      BY <1>1, <3>2, <3>3
  <2>4. Lines!Arrive(r, o)
    BY <1>1, <1>2, <2>1, <2>2, <2>3 DEF Lines!Arrive
  <2> QED
    BY <1>1, <2>2, <2>4 DEF Lines!Next
<1> QED
  BY <1>3, <1>4

(* The request of the front task, or of the task that runs, is the oldest   *)
(* that waits for its object.                                               *)
LEMMA SkipServes ==
  ASSUME IInv, StopInv, RequestInv, NEW o \in Objects, SkipSuperseded(o)
  PROVE  [Lines!Next]_(Lines!vars)
PROOF
<1> DEFINE r == Head(queue[o]).request
<1>1. /\ Pop(o)
      /\ status' = IF r = NoRequest THEN status ELSE [status EXCEPT ![r] = "empty"]
      /\ UNCHANGED <<running, thread, target, adding>>
  BY DEF SkipSuperseded, Settle, SupersededOutcome, objectVars
<1>2. /\ thread[o] = "loop" /\ running[o].request = NoRequest
      /\ 1 \in 1 .. Len(queue[o]) /\ r = queue[o][1].request
      /\ r \in Requests \cup {NoRequest}
  BY <1>1, PopFacts
<1>3. \A i \in 1 .. Len(queue'[o]) : queue'[o][i].request # NoRequest =>
        r < queue'[o][i].request
  BY <1>1, PopKeepsOrder
<1>4. \A j \in 1 .. Len(queue[o]) :
        j = 1 \/ \E i \in 1 .. Len(queue'[o]) : queue'[o][i] = queue[o][j]
  BY <1>1, PopMoves
<1> HIDE DEF r
<1>5. CASE r = NoRequest
  BY <1>1, <1>5, LinesStutter
<1>6. CASE r # NoRequest
  <2>1. r \in Requests /\ status[r] = "waiting" /\ target[r] = o
    BY <1>2, <1>6 DEF RequestInv, QueuedWait
  <2>2. ASSUME NEW s \in Requests, target[s] = o, status[s] = "waiting" PROVE r <= s
    <3>1. s \in Nat /\ r \in Nat /\ s # NoRequest
      BY <2>1, RequestTypes DEF IInv
    <3>2. CASE adding["main"].task.request = s
      <4>1. /\ target[s] = adding["main"].object
            /\ \A i \in 1 .. Len(queue[adding["main"].object]) :
                 queue[adding["main"].object][i].request < s
        BY <3>1, <3>2 DEF RequestInv, AskerIsLive
      <4>2. r < s
        BY <1>2, <2>2, <4>1
      <4> QED
        BY <3>1, <4>2
    <3>3. ASSUME NEW j \in 1 .. Len(queue[o]), queue[o][j].request = s PROVE r <= s
      <4>1. CASE j = 1
        BY <1>2, <3>1, <3>3, <4>1
      <4>2. ASSUME NEW i \in 1 .. Len(queue'[o]), queue'[o][i] = queue[o][j] PROVE r <= s
        <5>1. r < s
          BY <1>3, <3>1, <3>3, <4>2
        <5> QED
          BY <3>1, <5>1
      <4> QED
        BY <1>4, <4>1, <4>2
    <3>4. running[o].request # s
      BY <1>2, <3>1
    <3> QED
      BY <2>2, <3>2, <3>3, <3>4 DEF RequestInv, WaitersArePlaced
  <2>3. \A s \in Lines!Waiting(target[r]) : r <= s
    BY <2>1, <2>2 DEF Lines!Waiting
  <2>4. Lines!Serve(r, "empty")
    BY <1>1, <1>2, <1>6, <2>1, <2>3 DEF Lines!Serve
  <2> QED
    BY <2>1, <2>4 DEF Lines!Next
<1> QED
  BY <1>5, <1>6

LEMMA EndOfTaskServes ==
  ASSUME IInv, StopInv, RequestInv, NEW o \in Objects,
         NEW how \in {"answered", "failed"}, Settle(running[o], how), ReleaseMutex(o),
         thread[o] \in {"took", "analysed"}, UNCHANGED target
  PROVE  [Lines!Next]_(Lines!vars)
PROOF
<1> DEFINE r == running[o].request
<1>1. /\ status' = IF r = NoRequest THEN status ELSE [status EXCEPT ![r] = how]
      /\ r \in Requests \cup {NoRequest}
  BY RequestTypes DEF Settle, IInv
<1>2. \A x \in Objects : thread'[x] = "ended" <=> thread[x] = "ended"
  BY DEF ReleaseMutex, IInv, TypeOK
<1>3. CASE r = NoRequest
  BY <1>1, <1>2, <1>3, LinesStutter
<1>4. CASE r # NoRequest
  <2>1. r \in Requests /\ status[r] = "waiting" /\ target[r] = o
    BY <1>1, <1>4 DEF RequestInv, RunningWaits
  <2>2. ASSUME NEW s \in Requests, target[s] = o, status[s] = "waiting" PROVE r <= s
    <3>1. s \in Nat /\ r \in Nat /\ s # NoRequest
      BY <2>1, RequestTypes DEF IInv
    <3>2. CASE adding["main"].task.request = s
      <4>1. /\ target[s] = adding["main"].object
            /\ running[adding["main"].object].request < s
        BY <3>1, <3>2 DEF RequestInv, AskerIsLive
      <4>2. r < s
        BY <2>2, <4>1
      <4> QED
        BY <3>1, <4>2
    <3>3. ASSUME NEW j \in 1 .. Len(queue[o]), queue[o][j].request = s PROVE r <= s
      <4>1. r < s
        BY <3>1, <3>3 DEF RequestInv, RunningIsOldest
      <4> QED
        BY <3>1, <4>1
    <3>4. running[o].request = s => r <= s
      BY <3>1
    <3> QED
      BY <2>2, <3>2, <3>3, <3>4 DEF RequestInv, WaitersArePlaced
  <2> HIDE DEF r
  <2>3. \A s \in Lines!Waiting(target[r]) : r <= s
    BY <2>1, <2>2 DEF Lines!Waiting
  <2>4. Ended' = Ended
    BY <1>2 DEF Ended
  <2>5. Lines!Serve(r, how)
    BY <1>1, <1>4, <2>1, <2>3, <2>4 DEF Lines!Serve, Ended
  <2> QED
    BY <2>1, <2>5 DEF Lines!Next
<1> QED
  BY <1>3, <1>4

LEMMA LeaveCloses ==
  ASSUME IInv, NEW o \in Objects, Leave(o)
  PROVE  Lines!Next
PROOF
<1>1. /\ thread[o] = "loop"
      /\ thread' = [thread EXCEPT ![o] = "ended"]
      /\ status' = [r \in Requests |-> IF target[r] = o /\ status[r] = "waiting"
                                          THEN "dropped" ELSE status[r]]
      /\ UNCHANGED target
  BY DEF Leave
<1>2. Ended' = Ended \cup {o} /\ o \notin Ended
  BY <1>1 DEF Ended, IInv, TypeOK
<1>3. status' = [r \in Requests |-> IF r \in Lines!Waiting(o) THEN "dropped" ELSE status[r]]
  BY <1>1 DEF Lines!Waiting
<1>4. Lines!Close(o)
  BY <1>1, <1>2, <1>3 DEF Lines!Close, Ended
<1> QED
  BY <1>4 DEF Lines!Next

LEMMA LinesStep ==
  ASSUME IInv, StopInv, RequestInv, [Next]_vars
  PROVE  RequestInv' /\ [Lines!Next]_(Lines!vars)
PROOF
<1> USE DEF mainVars, fileVars, objectVars
<1> DEFINE Goal == RequestInv' /\ [Lines!Next]_(Lines!vars)
<1> SUFFICES Goal
  OBVIOUS
<1>1. ASSUME \A x \in Objects : SameTasks(x),
             UNCHANGED <<running, status, target>>,
             messages' \in Nat, messages <= messages',
             adding'["main"].task.request = adding["main"].task.request,
             adding["main"].task.request # NoRequest =>
               adding'["main"] = adding["main"] /\ UNCHANGED <<main, stopped>>,
             \A x \in Objects : thread'[x] = "ended" <=> thread[x] = "ended"
      PROVE  Goal
  BY <1>1, RequestsStay, LinesStutter DEF IInv
<1>2. messages \in Nat /\ messages <= messages /\ messages + 1 \in Nat /\ messages <= messages + 1
  BY RequestTypes DEF IInv
<1>3. adding["main"].task.request # NoRequest => main = "reading" /\ adding["main"] # NoAdd
  BY DEF RequestInv, AskerIsLive, NoAdd, NoTask
<1>4. ASSUME UNCHANGED <<queue, adding, running, status, target>>,
             messages' = messages \/ messages' = messages + 1,
             adding["main"].task.request # NoRequest => UNCHANGED <<main, stopped>>,
             \A x \in Objects : thread'[x] = "ended" <=> thread[x] = "ended"
      PROVE  Goal
  <2>1. \A x \in Objects : SameTasks(x)
    BY <1>4 DEF SameTasks
  <2>2. messages' \in Nat /\ messages <= messages'
    BY <1>2, <1>4
  <2> QED
    BY <1>1, <1>4, <2>1, <2>2
<1>5. ASSUME NEW p \in Producers, NEW o \in Objects, BeginAdd(p, o, UpdateTask),
             adding[p] = NoAdd,
             UNCHANGED <<main, messages, stopped, running, status, target, thread>>
      PROVE  Goal
  <2>1. /\ \A x \in Objects : SameTasks(x)
        /\ \A x \in Producers : adding'[x] = IF x = p THEN [object |-> o, task |-> UpdateTask]
                                                      ELSE adding[x]
    BY <1>5, BeginAddFacts, TasksType DEF IInv
  <2>2. /\ adding'["main"].task.request = adding["main"].task.request
        /\ adding["main"].task.request # NoRequest => adding'["main"] = adding["main"]
    BY <1>5, <2>1 DEF Producers, NoAdd, NoTask, UpdateTask
  <2> QED
    BY <1>1, <1>2, <1>5, <2>1, <2>2
<1>6. ASSUME NEW f \in Files, Update(f) PROVE Goal
  <2>1. /\ adding["main"] = NoAdd /\ messages' = messages + 1
        /\ UNCHANGED <<queue, adding, running, status, target>>
    BY <1>6 DEF Update, NextMessage, Reading
  <2>2. ASSUME NEW x \in Objects PROVE thread'[x] = "ended" <=> thread[x] = "ended"
    <3>1. CASE opened[f] # NoObject
      BY <1>6, <3>1 DEF Update
    <3>2. CASE opened[f] = NoObject
      <4>1. /\ thread' = [thread EXCEPT ![created + 1] = "loop"] /\ created < MaxObjects
        BY <1>6, <3>2 DEF Update
      <4>2. created \in Nat /\ MaxObjects \in Nat
        BY BoundsAssumption DEF IInv, TypeOK
      <4>3. created + 1 \in Objects /\ created + 1 > created
        BY <4>1, <4>2 DEF Objects
      <4>4. thread[created + 1] = "none"
        BY <4>3 DEF IInv, NotYetCreated
      <4> QED
        BY <4>1, <4>3, <4>4 DEF IInv, TypeOK
    <3> QED
      BY <3>1, <3>2
  <2> QED
    BY <1>3, <1>4, <2>1, <2>2
<1>7. ASSUME NEW f \in Files, Ask(f) PROVE Goal
  BY <1>7, AskKeepsRequests, AskArrives
<1>8. ASSUME NEW f \in Files, BeginClose(f) PROVE Goal
  BY <1>3, <1>4, <1>8 DEF BeginClose, NextMessage, Reading
<1>9. ASSUME NEW o \in Objects, UpdateOwn(o) PROVE Goal
  BY <1>5, <1>9 DEF UpdateOwn, Producers
<1>10. ASSUME NEW o \in Objects, UpdateAllVisit(o) PROVE Goal
  <2>1. CASE o \in OpenObjects
    BY <1>5, <1>10, <2>1 DEF UpdateAllVisit, Producers
  <2>2. CASE o \notin OpenObjects
    BY <1>4, <1>10, <2>2 DEF UpdateAllVisit
  <2> QED
    BY <2>1, <2>2
<1>11. ASSUME NEW o \in Objects, InvalidateOther(o) PROVE Goal
  BY <1>4, <1>11 DEF InvalidateOther
<1>12. ASSUME NEW o \in Objects, StopOne(o) PROVE Goal
  BY <1>3, <1>4, <1>12 DEF StopOne
<1>13. ASSUME NEW p \in Producers, EndAdd(p) PROVE Goal
  <2>1. RequestInv'
    BY <1>13, EndAddKeepsRequests
  <2>2. UNCHANGED <<status, target, thread>>
    BY <1>13 DEF EndAdd
  <2> QED
    BY <2>1, <2>2, LinesStutter
<1>14. CASE EndClose \/ Exit \/ WorkerJoined \/ ClearAndWait \/ WakeUp \/ BeginUpdateAll
            \/ ProjectChanges \/ Destroyed \/ UNCHANGED vars
  <2>1. adding["main"].task.request # NoRequest => UNCHANGED <<main, stopped>>
    BY <1>3, <1>14 DEF EndClose, Exit, Reading, WorkerJoined, ClearAndWait, WakeUp,
       BeginUpdateAll, ProjectChanges, Destroyed, vars
  <2>2. UNCHANGED <<queue, adding, running, status, target, messages, thread>>
    BY <1>14 DEF EndClose, Exit, WorkerJoined, ClearAndWait, WakeUp, BeginUpdateAll,
       ProjectChanges, Destroyed, vars
  <2> QED
    BY <1>4, <2>1, <2>2
<1>15. ASSUME NEW o \in Objects, Take(o) PROVE Goal
  <2>1. RequestInv'
    BY <1>15, TakeKeepsRequests
  <2>2. /\ UNCHANGED <<status, target>> /\ thread[o] = "loop"
        /\ thread' = [thread EXCEPT ![o] = "took"]
    BY <1>15 DEF Take, Pop
  <2>3. \A x \in Objects : thread'[x] = "ended" <=> thread[x] = "ended"
    BY <2>2 DEF IInv, TypeOK
  <2> QED
    BY <2>1, <2>2, <2>3, LinesStutter
<1>16. ASSUME NEW o \in Objects, SkipSuperseded(o) PROVE Goal
  BY <1>16, SkipKeepsRequests, SkipServes
<1>17. ASSUME NEW o \in Objects, Analyse(o) PROVE Goal
  <2>1. /\ UNCHANGED <<main, messages, stopped, queue, adding, running, status, target>>
        /\ thread[o] = "took" /\ thread' = [thread EXCEPT ![o] = "analysed"]
    BY <1>17 DEF Analyse, HandOver
  <2>2. \A x \in Objects : thread'[x] = "ended" <=> thread[x] = "ended"
    BY <2>1 DEF IInv, TypeOK
  <2> QED
    BY <1>4, <2>1, <2>2
<1>18. ASSUME NEW o \in Objects, Finish(o) PROVE Goal
  <2>1. /\ Settle(running[o], "answered") /\ ReleaseMutex(o) /\ thread[o] = "analysed"
        /\ UNCHANGED <<main, messages, adding, queue, stopped, target>>
    BY <1>18 DEF Finish
  <2> QED
    BY <2>1, EndOfTaskKeepsRequests, EndOfTaskServes
<1>19. ASSUME NEW o \in Objects, Fail(o) PROVE Goal
  <2>1. /\ Settle(running[o], "failed") /\ ReleaseMutex(o)
        /\ thread[o] \in {"took", "analysed"}
        /\ UNCHANGED <<main, messages, adding, queue, stopped, target>>
    BY <1>19 DEF Fail, HandOver
  <2> QED
    BY <2>1, EndOfTaskKeepsRequests, EndOfTaskServes
<1>20. ASSUME NEW o \in Objects, Leave(o) PROVE Goal
  BY <1>20, LeaveKeepsRequests, LeaveCloses
<1>21. ASSUME NEW o \in Objects, Look(o) PROVE Goal
  BY <1>4, <1>21 DEF Look
<1> QED
  BY <1>6, <1>7, <1>8, <1>9, <1>10, <1>11, <1>12, <1>13, <1>14, <1>15, <1>16, <1>17,
     <1>18, <1>19, <1>20, <1>21 DEF Next, MainStep, WorkerStep, FileStep, Producers

LEMMA LinesInit == Init => StopInv /\ RequestInv /\ Lines!Init
PROOF
<1> SUFFICES ASSUME Init PROVE StopInv /\ RequestInv /\ Lines!Init
  OBVIOUS
<1> USE DEF Init, NoAdd, NoTask
<1>1. StopInv
  BY DEF StopInv, OpenIsNotStopped, EndedIsStopped, IdleRunsNothing, WorkerAsksNothing,
     Producers
<1>2. \A o \in Objects : Len(queue[o]) = 0 /\ 1 .. Len(queue[o]) = {}
  OBVIOUS
<1>3. LaterAreNew /\ AskerIsLive /\ RunningWaits /\ WaitersArePlaced
  BY DEF LaterAreNew, AskerIsLive, RunningWaits, WaitersArePlaced, Producers
<1>4. QueuedWait /\ QueueInOrder /\ RunningIsOldest
  BY <1>2 DEF QueuedWait, QueueInOrder, RunningIsOldest
<1>5. Ended = {}
  BY DEF Ended
<1>6. Lines!Init
  BY <1>5 DEF Lines!Init, Ended
<1> QED
  BY <1>1, <1>3, <1>4, <1>6 DEF RequestInv

(* The open documents implement RequestLines: the requests on an object are *)
(* served in the order they came, each at most once, and none after its     *)
(* thread has left the loop, for any number of documents, of objects and of *)
(* messages.  That rests on where every waiting request is: in its object's *)
(* queue, in order, with its thread ahead of them, or with main, behind.    *)
THEOREM RequestsInOrder == Spec => FirstComeFirstServed
PROOF
<1>1. Init => StopInv /\ RequestInv /\ Lines!Init
  BY LinesInit
<1>2. IInv /\ IInv' /\ StopInv /\ RequestInv /\ [Next]_vars
        => StopInv' /\ RequestInv' /\ [Lines!Next]_(Lines!vars)
  BY StopStep, LinesStep
<1> QED
  BY <1>1, <1>2, Inductive, PTL DEF Spec, FirstComeFirstServed, Lines!Spec
=============================================================================
