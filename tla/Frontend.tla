------------------------------ MODULE Frontend ------------------------------
(***************************************************************************)
(* The JSON-RPC frontend (src/lsp/frontend.{h,cpp}, server.cpp, client.cpp *)
(* and src/common/cancellation.cpp).                                       *)
(*                                                                         *)
(* The main thread reads the editor's messages one at a time and runs the  *)
(* handler bound to each.  A handler may answer its request, or hand it to *)
(* a file thread that answers later, while main reads on.  The requests    *)
(* not yet answered are kept in incoming_requests_in_flight under the id   *)
(* the EDITOR gave them; an answer takes its request's entry out, but only *)
(* if the entry is still its own.  Requests are named here by the order    *)
(* they came in, which is also the order of their internal ids.            *)
(***************************************************************************)
EXTENDS Naturals, FiniteSets

CONSTANTS
  Numbers,        (* an id is one of these, as a number or as a string      *)
  MaxRequests,    (* bound: requests the editor sends                       *)
  MaxReplies,     (* bound: replies the application attempts to a request   *)
  MaxOutgoing,    (* bound: requests the server sends to the editor         *)
  RacyInsert      (* may an answer come while main inserts without the lock?*)

ASSUME FrontendAssumption ==
  /\ Numbers # {}
  /\ MaxRequests \in Nat
  /\ MaxReplies \in Nat
  /\ MaxOutgoing \in Nat
  /\ RacyInsert \in BOOLEAN

Requests == 1 .. MaxRequests
NoRequest == 0
Outgoing == 1 .. MaxOutgoing

(* std::variant<int, std::string>; std::to_string makes the second kind out *)
(* of the first.                                                            *)
Ids == {"int", "string"} \X Numbers
AsString(i) == <<"string", i[2]>>
AnyId == CHOOSE i \in Ids : TRUE

(* A query's handler may hand the request over, the other two answer it     *)
(* before they return; nothing is bound to the methods called unknown.      *)
Synchronous == {"initialize", "shutdown"}
Bound       == Synchronous \cup {"query"}
Methods     == Bound \cup {"unknown"}

VARIABLES
  main,        (* "reading", "inserting" or "handling" a request, "returned"*)
               (* from forever_loop, or "crashed"                           *)
  handled,     (* the request main is on                                    *)
  is_running,  (* is_running_                                               *)
  started,     (* the server's started_                                     *)
  received,    (* requests received so far                                  *)
  id,          (* request -> the editor's id                                *)
  method,      (* request -> its method                                     *)
  holder,      (* request -> who may answer it: "nobody", "main", "thread"  *)
  in_flight,   (* incoming_requests_in_flight: id -> request, or NoRequest  *)
  replied,     (* request -> replied_                                       *)
  sending,     (* request -> send()'s progress: "no", "tested", "marked",   *)
               (*            "erased"                                       *)
  attempts,    (* request -> calls of reply or error                        *)
  answers,     (* request -> responses written to the editor                *)
  raced,       (* an entry was erased under main's insertion                *)
  cancel_asked,(* requests the editor cancelled while they were in flight   *)
  cancelled,   (* requests whose cancellation token is toggled              *)
  sent,        (* next_outgoing_request_id                                  *)
  outgoing,    (* outgoing_requests_in_flight                               *)
  matched      (* outgoing request -> responses handed to it                *)

tableVars    == <<in_flight, raced>>
replyVars    == <<replied, sending, attempts, answers>>
requestVars  == <<received, id, method>>
cancelVars   == <<cancel_asked, cancelled>>
outgoingVars == <<sent, outgoing, matched>>
vars == <<main, handled, is_running, started, requestVars, holder, tableVars,
          replyVars, cancelVars, outgoingVars>>

-----------------------------------------------------------------------------
Reading == main = "reading" /\ is_running

(* Only 'initialize' is let through before it has started.                  *)
AnythingGoes(m) == TRUE                                         \* a fault
LetThrough(m) == started \/ m = "initialize"

(* A reply erases the entry under its id only if that is its own request.   *)
ErasedById(r) == [in_flight EXCEPT ![id[r]] = NoRequest]        \* a fault
Erased(r) ==
  [in_flight EXCEPT ![id[r]] = IF @ = r THEN NoRequest ELSE @]

(* "Only one reply per request".                                            *)
AlwaysMayReply(r) == TRUE                                       \* a fault
MayReply(r) == ~replied[r]

NeverWritten(r) == answers                                      \* a fault
Written(r) == [answers EXCEPT ![r] = @ + 1]

(* A cancellation_source has no state: nothing ever makes one for it.       *)
HasState(r) == FALSE

-----------------------------------------------------------------------------
Init ==
  /\ main = "reading"
  /\ handled = NoRequest
  /\ is_running = TRUE
  /\ started = FALSE
  /\ received = 0
  /\ id = [r \in Requests |-> AnyId]
  /\ method = [r \in Requests |-> "unknown"]
  /\ holder = [r \in Requests |-> "nobody"]
  /\ in_flight = [i \in Ids |-> NoRequest]
  /\ replied = [r \in Requests |-> FALSE]
  /\ sending = [r \in Requests |-> "no"]
  /\ attempts = [r \in Requests |-> 0]
  /\ answers = [r \in Requests |-> 0]
  /\ raced = FALSE
  /\ cancel_asked = {}
  /\ cancelled = {}
  /\ sent = 0
  /\ outgoing = {}
  /\ matched = [q \in Outgoing |-> 0]

-----------------------------------------------------------------------------
(* A request is received.  The editor may use an id again.                  *)
Receive(i, m) ==
  /\ Reading
  /\ received < MaxRequests
  /\ received' = received + 1
  /\ id' = [id EXCEPT ![received + 1] = i]
  /\ method' = [method EXCEPT ![received + 1] = m]

(* Before 'initialize', or without a handler, it is answered with an error. *)
Refuse(i, m) ==
  /\ Receive(i, m)
  /\ ~LetThrough(m) \/ m \notin Bound
  /\ answers' = Written(received + 1)
  /\ started' = (started \/ m = "initialize")
  /\ UNCHANGED <<main, handled, is_running, holder, tableVars, replied,
                 sending, attempts, cancelVars, outgoingVars>>

Accept(i, m) ==
  /\ Receive(i, m)
  /\ LetThrough(m) /\ m \in Bound
  /\ started' = TRUE
  /\ main' = "inserting"
  /\ handled' = received + 1
  /\ holder' = [holder EXCEPT ![received + 1] = "main"]
  /\ UNCHANGED <<is_running, tableVars, replyVars, cancelVars, outgoingVars>>

(* incoming_requests_in_flight[id] = ..., without the lock: an erasure in   *)
(* the middle of it may lose the entry.  Then the handler is called.        *)
Insert ==
  /\ main = "inserting"
  /\ main' = "handling"
  /\ in_flight' \in {[in_flight EXCEPT ![id[handled]] = handled]}
                    \cup (IF raced THEN {in_flight} ELSE {})
  /\ raced' = FALSE
  /\ UNCHANGED <<handled, is_running, started, requestVars, holder, replyVars,
                 cancelVars, outgoingVars>>

(* The handler queues the request on a document, whose thread may answer    *)
(* before the handler returns.                                              *)
HandOver ==
  /\ main = "handling"
  /\ method[handled] \notin Synchronous
  /\ holder[handled] = "main" /\ attempts[handled] = 0
  /\ holder' = [holder EXCEPT ![handled] = "thread"]
  /\ UNCHANGED <<main, handled, is_running, started, requestVars, tableVars,
                 replyVars, cancelVars, outgoingVars>>

(* A request that nobody has kept is never answered.                        *)
HandlerReturns ==
  /\ main = "handling"
  /\ sending[handled] = "no" \/ holder[handled] # "main"
  /\ method[handled] \in Synchronous => replied[handled]
  /\ main' = "reading"
  /\ handled' = NoRequest
  /\ holder' = [holder EXCEPT ![handled] = IF @ = "main" THEN "nobody" ELSE @]
  /\ UNCHANGED <<is_running, started, requestVars, tableVars, replyVars,
                 cancelVars, outgoingVars>>

(* A handler may throw, on malformed parameters or, after its reply, on an  *)
(* 'initialize' without a root: the exception leaves forever_loop.          *)
HandlerThrows ==
  /\ main = "handling"
  /\ holder[handled] = "main"
  /\ IF method[handled] \in Synchronous
       THEN method[handled] = "initialize" /\ replied[handled] /\ sending[handled] = "no"
       ELSE attempts[handled] = 0
  /\ main' = "returned"
  /\ holder' = [holder EXCEPT ![handled] = "nobody"]
  /\ UNCHANGED <<handled, is_running, started, requestVars, tableVars,
                 replyVars, cancelVars, outgoingVars>>

-----------------------------------------------------------------------------
(* incoming_request::reply and error, by whoever holds the request.         *)

Active(r) ==
  /\ holder[r] = "thread" \/ (holder[r] = "main" /\ main = "handling")
  /\ main # "crashed"

(* send(): the reply is refused if there has been one already.  A request   *)
(* has one holder, which replies to it one call after the other.            *)
Reply(r) ==
  /\ Active(r)
  /\ sending[r] = "no"
  /\ attempts[r] < MaxReplies
  /\ attempts' = [attempts EXCEPT ![r] = @ + 1]
  /\ sending' = [sending EXCEPT ![r] = IF MayReply(r) THEN "tested" ELSE @]
  /\ UNCHANGED <<main, handled, is_running, started, requestVars, holder,
                 tableVars, replied, answers, cancelVars, outgoingVars>>

(* The request is marked, in a step of its own.                             *)
Mark(r) ==
  /\ Active(r)
  /\ sending[r] = "tested"
  /\ replied' = [replied EXCEPT ![r] = TRUE]
  /\ sending' = [sending EXCEPT ![r] = "marked"]
  /\ UNCHANGED <<main, handled, is_running, started, requestVars, holder,
                 tableVars, attempts, answers, cancelVars, outgoingVars>>

(* The entry is erased under the lock, which main does not take to insert:  *)
(* when the two meet in the map, either change may be lost, or the server   *)
(* crash.                                                                   *)
Erase(r) ==
  LET meets == main = "inserting"
  IN  /\ Active(r)
      /\ sending[r] = "marked"
      /\ meets => RacyInsert
      /\ in_flight' \in {Erased(r)} \cup (IF meets THEN {in_flight} ELSE {})
      /\ main' \in {main} \cup (IF meets THEN {"crashed"} ELSE {})
      /\ raced' = (raced \/ meets)
      /\ sending' = [sending EXCEPT ![r] = "erased"]
      /\ UNCHANGED <<handled, is_running, started, requestVars, holder,
                     replied, attempts, answers, cancelVars, outgoingVars>>

(* Then the response is written, under the connection's lock.               *)
Write(r) ==
  /\ Active(r)
  /\ sending[r] = "erased"
  /\ sending' = [sending EXCEPT ![r] = "no"]
  /\ answers' = Written(r)
  /\ UNCHANGED <<main, handled, is_running, started, requestVars, holder,
                 tableVars, replied, attempts, cancelVars, outgoingVars>>

(* A thread lets go of a request it has answered, or never will answer.     *)
LetGo(r) ==
  /\ holder[r] = "thread"
  /\ sending[r] = "no"
  /\ holder' = [holder EXCEPT ![r] = "nobody"]
  /\ UNCHANGED <<main, handled, is_running, started, requestVars, tableVars,
                 replyVars, cancelVars, outgoingVars>>

-----------------------------------------------------------------------------
(* '$/cancelRequest': the id is looked up as a string, whatever it was, and *)
(* a source without a state is written through a null pointer.              *)
Cancel(i) ==
  LET found == {in_flight[AsString(i)]} \ {NoRequest}
  IN  /\ Reading
      /\ started
      /\ cancel_asked' = cancel_asked \cup ({in_flight[i]} \ {NoRequest})
      /\ cancelled' = cancelled \cup {r \in found : HasState(r)}
      /\ main' = IF \A r \in found : HasState(r) THEN main ELSE "crashed"
      /\ UNCHANGED <<handled, is_running, started, requestVars, holder,
                     tableVars, replyVars, outgoingVars>>

(* 'exit' is let through before 'initialize', and ends the loop ...         *)
ExitNotification ==
  /\ Reading
  /\ is_running' = FALSE
  /\ UNCHANGED <<main, handled, started, requestVars, holder, tableVars,
                 replyVars, cancelVars, outgoingVars>>

(* ... and so does a connection that fails.                                 *)
Return ==
  /\ main = "reading"
  /\ main' = "returned"
  /\ UNCHANGED <<handled, is_running, started, requestVars, holder, tableVars,
                 replyVars, cancelVars, outgoingVars>>

EndLoop == ~is_running /\ Return
ConnectionFails == is_running /\ Return

-----------------------------------------------------------------------------
(* client::request, as the handlers of 'initialized' and of a changed       *)
(* vhdl_config.yaml call it.                                                *)
SendRequest ==
  /\ Reading
  /\ started
  /\ sent < MaxOutgoing
  /\ sent' = sent + 1
  /\ outgoing' = outgoing \cup {sent + 1}
  /\ UNCHANGED <<main, handled, is_running, started, requestVars, holder,
                 tableVars, replyVars, cancelVars, matched>>

(* A response is handed to the request in flight under its id; the editor   *)
(* may send one twice, or to nothing.                                       *)
NotTaken(q) == outgoing                                         \* a fault
Taken(q) == outgoing \ {q}

Take(q) ==
  /\ outgoing' = Taken(q)
  /\ matched' = [matched EXCEPT ![q] = IF q \in outgoing THEN @ + 1 ELSE @]

Response(q) ==
  /\ Reading
  /\ Take(q)
  /\ UNCHANGED <<main, handled, is_running, started, requestVars, holder,
                 tableVars, replyVars, cancelVars, sent>>

(* Of an error the member "id" is read, which JSON-RPC errors do not have:  *)
(* with assertions on this ends the server, without them it reads 0.  Then  *)
(* an id that is a string is taken for a number, which throws.              *)
ErrorResponse(q) ==
  /\ Reading
  /\ \/ /\ Take(q)
        /\ UNCHANGED main
     \/ /\ main' \in {"crashed", "returned"}
        /\ UNCHANGED <<outgoing, matched>>
  /\ UNCHANGED <<handled, is_running, started, requestVars, holder, tableVars,
                 replyVars, cancelVars, sent>>

-----------------------------------------------------------------------------
(* Nothing more happens after a crash, or once main has returned and no     *)
(* thread holds a request.                                                  *)
Over ==
  /\ \/ main = "crashed"
     \/ /\ main = "returned"
        /\ \A r \in Requests : holder[r] # "thread"
  /\ UNCHANGED vars

SendStep(r) == Mark(r) \/ Erase(r) \/ Write(r)

MainWork == Insert \/ HandlerReturns \/ EndLoop

Next ==
  \/ \E i \in Ids, m \in Methods : Refuse(i, m) \/ Accept(i, m)
  \/ \E i \in Ids : Cancel(i)
  \/ MainWork \/ HandOver \/ HandlerThrows
  \/ \E r \in Requests : Reply(r) \/ SendStep(r) \/ LetGo(r)
  \/ ExitNotification \/ ConnectionFails
  \/ SendRequest
  \/ \E q \in Outgoing : Response(q) \/ ErrorResponse(q)
  \/ Over

Spec == Init /\ [][Next]_vars

(* Threads are scheduled, and a handler that runs gets to reply; nothing    *)
(* makes a thread reply, or the editor send anything.                       *)
Fairness ==
  /\ WF_vars(MainWork)
  /\ \A r \in Requests :
       /\ WF_vars(SendStep(r))
       /\ WF_vars(method[r] \in Synchronous /\ Reply(r))

FairSpec == Spec /\ Fairness

-----------------------------------------------------------------------------
(* Every variable holds a value of its kind, and what has not been received *)
(* has no state yet.                                                        *)
TypeOK ==
  /\ main \in {"reading", "inserting", "handling", "returned", "crashed"}
  /\ handled \in 0 .. received
  /\ is_running \in BOOLEAN
  /\ started \in BOOLEAN
  /\ received \in 0 .. MaxRequests
  /\ id \in [Requests -> Ids]
  /\ method \in [Requests -> Methods]
  /\ holder \in [Requests -> {"nobody", "main", "thread"}]
  /\ in_flight \in [Ids -> 0 .. received]
  /\ replied \in [Requests -> BOOLEAN]
  /\ sending \in [Requests -> {"no", "tested", "marked", "erased"}]
  /\ attempts \in [Requests -> 0 .. MaxReplies]
  /\ answers \in [Requests -> Nat]
  /\ raced \in BOOLEAN
  /\ cancel_asked \subseteq Requests
  /\ cancelled \subseteq Requests
  /\ sent \in 0 .. MaxOutgoing
  /\ outgoing \subseteq Outgoing
  /\ matched \in [Outgoing -> 0 .. 1]

(* "It makes sure the server has sent one reply to that request": however   *)
(* often the application replies, no request gets two responses, and none   *)
(* of the server's own requests is handed two.                              *)
OneResponsePerRequest ==
  /\ \A r \in Requests : answers[r] <= 1
  /\ \A q \in Outgoing : matched[q] <= 1

(* Requests that got past the frontend and into the map: one refused has    *)
(* its response without a reply.                                            *)
Dispatched(r) ==
  /\ r <= received
  /\ answers[r] = 0 \/ replied[r]
  /\ ~(main = "inserting" /\ handled = r)

Youngest(r) == \A s \in Requests : Dispatched(s) /\ id[s] = id[r] => s <= r

(* "keeping track of incoming requests": while the application holds a      *)
(* request it has not answered, its entry is there, unless the editor has   *)
(* used its id again; an answer to an older request of the same id never    *)
(* takes the younger one's entry, and none is left of an answered request.  *)
TrackedUntilReplied ==
  main # "crashed" =>
    \A r \in Requests :
      /\ Dispatched(r) /\ Youngest(r) /\ ~replied[r] => in_flight[id[r]] = r
      /\ answers[r] = 1 => in_flight[id[r]] # r

(* "It ensures that requests are only processed after 'initialize'": by the *)
(* time any other request reaches its handler, the answer to 'initialize'   *)
(* has been written.                                                        *)
InitializeAnsweredFirst ==
  \A r \in Requests :
    Dispatched(r) /\ method[r] # "initialize" =>
      \E s \in 1 .. r : method[s] = "initialize" /\ answers[s] = 1

(* The first reply to a request reaches the editor, and its entry is gone.  *)
RepliesReachTheEditor ==
  \A r \in Requests :
    attempts[r] > 0 ~>
                  \/ main = "crashed"
                  \/ answers[r] = 1 /\ in_flight[id[r]] # r
=============================================================================
