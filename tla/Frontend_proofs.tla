--------------------------- MODULE Frontend_proofs ---------------------------
(***************************************************************************)
(* Proofs about Frontend: OneInv follows a request from its arrival to its *)
(* response, InitInv the initialization, and TableInv the entry a request   *)
(* has in incoming_requests_in_flight.                                      *)
(***************************************************************************)
EXTENDS Frontend, TLAPS

(* A request not received yet has no state.                                 *)
NotYetReceived ==
  \A r \in Requests :
    r > received => /\ holder[r] = "nobody"
                    /\ sending[r] = "no"
                    /\ answers[r] = 0
                    /\ ~replied[r]

(* Between the test and the write nothing is written, and the mark comes    *)
(* after the test.                                                          *)
MarkedIsUnwritten ==
  \A r \in Requests : sending[r] # "no" =>
    answers[r] = 0 /\ (replied[r] <=> sending[r] # "tested")

(* A reply that is marked and not on its way has been written.              *)
RepliedIsWritten ==
  \A r \in Requests : replied[r] /\ sending[r] = "no" => answers[r] = 1

(* Whoever holds a request that is not replied to has written nothing.      *)
HeldIsUnanswered ==
  \A r \in Requests : holder[r] # "nobody" /\ ~replied[r] => answers[r] = 0

AtMostOne == \A r \in Requests : answers[r] \in {0, 1}

(* An outgoing request is handed one response, and then it is not there.    *)
MatchedOnce ==
  \A q \in Outgoing :
    /\ q \in outgoing \/ q > sent => matched[q] = 0
    /\ q \in outgoing => q <= sent

(* main is on the last request received.                                    *)
HandledIsLast ==
  main \in {"inserting", "handling"} => handled = received /\ handled # NoRequest

(* A request is with main until its handler has been called, and one that   *)
(* is answered on the spot until the handler returns.                       *)
HandledByMain ==
  /\ main = "inserting" =>
       holder[handled] = "main" /\ ~replied[handled] /\ sending[handled] = "no"
  /\ main = "handling" /\ method[handled] \in Synchronous => holder[handled] = "main"

OneInv ==
  /\ NotYetReceived
  /\ MarkedIsUnwritten
  /\ RepliedIsWritten
  /\ HeldIsUnanswered
  /\ AtMostOne
  /\ MatchedOnce
  /\ HandledIsLast
  /\ HandledByMain

LEMMA BoundsType == MaxRequests \in Nat /\ MaxReplies \in Nat /\ MaxOutgoing \in Nat
PROOF BY FrontendAssumption

LEMMA SomeId == AnyId \in Ids
PROOF
<1>1. PICK n \in Numbers : TRUE
  BY FrontendAssumption
<1>2. <<"int", n>> \in Ids
  BY DEF Ids
<1> QED
  BY <1>2 DEF AnyId

(* Facts about the ranges that grow with received.                          *)
LEMMA RangeGrows ==
  ASSUME TypeOK, received < MaxRequests
  PROVE  /\ received + 1 \in Requests /\ received + 1 \in 0 .. MaxRequests
         /\ handled \in 0 .. received + 1
         /\ received + 1 \in 0 .. received + 1
         /\ in_flight \in [Ids -> 0 .. received + 1]
PROOF
<1>1. \A n \in 0 .. received : n \in 0 .. received + 1
  BY BoundsType DEF TypeOK
<1> QED
  BY <1>1, BoundsType DEF TypeOK, Requests

LEMMA OneInit == Init => TypeOK /\ OneInv
PROOF
<1> SUFFICES ASSUME Init PROVE TypeOK /\ OneInv
  OBVIOUS
<1>1. in_flight \in [Ids -> 0 .. received] /\ handled \in 0 .. received
        /\ matched \in [Outgoing -> 0 .. 1] /\ attempts \in [Requests -> 0 .. MaxReplies]
  BY BoundsType DEF Init, NoRequest
<1>2. /\ id \in [Requests -> Ids]
      /\ method \in [Requests -> Methods]
      /\ holder \in [Requests -> {"nobody", "main", "thread"}]
      /\ replied \in [Requests -> BOOLEAN]
      /\ sending \in [Requests -> {"no", "tested", "marked", "erased"}]
      /\ answers \in [Requests -> Nat]
  BY SomeId DEF Init, Methods
<1>3. is_running \in BOOLEAN /\ started \in BOOLEAN /\ raced \in BOOLEAN
  BY Zenon DEF Init
<1>4. /\ main = "reading" /\ received \in 0 .. MaxRequests /\ sent \in 0 .. MaxOutgoing
      /\ cancel_asked = {} /\ cancelled = {} /\ outgoing = {}
  BY BoundsType DEF Init
<1>5. TypeOK
  BY <1>1, <1>2, <1>3, <1>4 DEF TypeOK
<1>6. OneInv
  BY DEF Init, OneInv, NotYetReceived, MarkedIsUnwritten, RepliedIsWritten,
     HeldIsUnanswered, AtMostOne, MatchedOnce, HandledIsLast, HandledByMain, Requests, Outgoing,
     NoRequest
<1> QED
  BY <1>5, <1>6

(* The steps by what they have in common.                                   *)
RequestStep == \E i \in Ids, m \in Methods : Refuse(i, m) \/ Accept(i, m)
HandlerStep == Insert \/ HandOver \/ HandlerReturns \/ HandlerThrows
AnswerStep(r) == Reply(r) \/ Mark(r) \/ Erase(r) \/ Write(r) \/ LetGo(r)
LoopStep ==
  \/ \E i \in Ids : Cancel(i)
  \/ ExitNotification \/ EndLoop \/ ConnectionFails \/ Over
OutgoingStep ==
  SendRequest \/ \E q \in Outgoing : Response(q) \/ ErrorResponse(q)

LEMMA NextSteps ==
  ASSUME [Next]_vars
  PROVE  \/ RequestStep \/ HandlerStep \/ LoopStep \/ OutgoingStep
         \/ \E r \in Requests : AnswerStep(r)
         \/ UNCHANGED vars
PROOF
BY DEF Next, RequestStep, HandlerStep, LoopStep, OutgoingStep, AnswerStep, MainWork,
   SendStep

LEMMA TypeStep ==
  ASSUME TypeOK, OneInv, [Next]_vars
  PROVE  TypeOK'
PROOF
<1> USE BoundsType
<1>1. CASE UNCHANGED vars
  BY <1>1 DEF TypeOK, vars, requestVars, tableVars, replyVars, cancelVars, outgoingVars
<1>2. ASSUME NEW i \in Ids, NEW m \in Methods, Refuse(i, m) PROVE TypeOK'
  BY <1>2, RangeGrows DEF TypeOK, Refuse, Receive, Written, requestVars, tableVars,
     cancelVars, outgoingVars
<1>3. ASSUME NEW i \in Ids, NEW m \in Methods, Accept(i, m) PROVE TypeOK'
  BY <1>3, RangeGrows DEF TypeOK, Accept, Receive, tableVars, replyVars, cancelVars,
     outgoingVars
<1>4. CASE Insert
  <2>1. handled \in Requests /\ id[handled] \in Ids
    BY <1>4 DEF Insert, OneInv, HandledIsLast, TypeOK, Requests, NoRequest
  <2>2. in_flight' \in [Ids -> 0 .. received']
    BY <1>4, <2>1 DEF Insert, TypeOK, requestVars
  <2> QED
    BY <1>4, <2>2 DEF TypeOK, Insert, requestVars, replyVars, cancelVars, outgoingVars
<1>5. CASE HandOver \/ HandlerThrows \/ HandlerReturns
  BY <1>5 DEF TypeOK, HandOver, HandlerThrows, HandlerReturns, NoRequest, requestVars,
     tableVars, replyVars, cancelVars, outgoingVars
<1>6. ASSUME NEW r \in Requests, Reply(r) \/ Mark(r) PROVE TypeOK'
  <2>1. attempts' \in [Requests -> 0 .. MaxReplies]
    BY <1>6 DEF TypeOK, Reply, Mark
  <2>2. /\ replied' \in [Requests -> BOOLEAN]
        /\ sending' \in [Requests -> {"no", "tested", "marked", "erased"}]
    BY <1>6 DEF TypeOK, Reply, Mark
  <2> QED
    BY <1>6, <2>1, <2>2
       DEF TypeOK, Reply, Mark, requestVars, tableVars, cancelVars, outgoingVars
<1>7. ASSUME NEW r \in Requests, Erase(r) PROVE TypeOK'
  <2>1. Erased(r) \in [Ids -> 0 .. received]
    BY DEF Erased, TypeOK, NoRequest
  <2> QED
    BY <1>7, <2>1 DEF TypeOK, Erase, requestVars, cancelVars, outgoingVars
<1>8. ASSUME NEW r \in Requests, Write(r) \/ LetGo(r) PROVE TypeOK'
  BY <1>8 DEF TypeOK, Write, LetGo, Written, requestVars, tableVars, replyVars,
     cancelVars, outgoingVars
<1>9. ASSUME NEW i \in Ids, Cancel(i) PROVE TypeOK'
  <2>1. in_flight[i] \in Requests \cup {NoRequest}
    BY SMTT(20) DEF TypeOK, Requests, NoRequest
  <2>2. cancel_asked' \subseteq Requests
    BY <1>9, <2>1 DEF TypeOK, Cancel
  <2>3. cancelled' = cancelled
    BY <1>9 DEF Cancel, HasState
  <2>4. main' \in {main, "crashed"}
    BY <1>9 DEF Cancel
  <2> QED
    BY <1>9, <2>2, <2>3, <2>4 DEF TypeOK, Cancel, requestVars, tableVars, replyVars,
       outgoingVars
<1>10. CASE ExitNotification \/ EndLoop \/ ConnectionFails \/ Over
  BY <1>10, <1>1 DEF TypeOK, ExitNotification, EndLoop, ConnectionFails, Return, Over,
     requestVars, tableVars, replyVars, cancelVars, outgoingVars
<1>11. CASE SendRequest
  BY <1>11 DEF TypeOK, SendRequest, Outgoing, requestVars, tableVars, replyVars,
     cancelVars
<1>12. ASSUME NEW q \in Outgoing, Response(q) \/ ErrorResponse(q) PROVE TypeOK'
  <2>1. q \in outgoing => matched[q] = 0
    BY DEF OneInv, MatchedOnce
  <2>2. CASE Take(q)
    BY <1>12, <2>1, <2>2 DEF TypeOK, Response, ErrorResponse, Take, Taken, requestVars,
       tableVars, replyVars, cancelVars
  <2>3. CASE UNCHANGED <<outgoing, matched>>
    BY <1>12, <2>3 DEF TypeOK, Response, ErrorResponse, requestVars,
       tableVars, replyVars, cancelVars
  <2> QED
    BY <1>12, <2>2, <2>3 DEF Response, ErrorResponse
<1> QED
  BY <1>1, <1>2, <1>3, <1>4, <1>5, <1>6, <1>7, <1>8, <1>9, <1>10, <1>11, <1>12, NextSteps
     DEF RequestStep, HandlerStep, LoopStep, OutgoingStep, AnswerStep

LEMMA OneStep ==
  ASSUME TypeOK, OneInv, [Next]_vars
  PROVE  OneInv'
PROOF
<1> USE BoundsType DEF OneInv
<1>1. CASE UNCHANGED vars
  BY <1>1 DEF NotYetReceived, MarkedIsUnwritten, RepliedIsWritten, HeldIsUnanswered,
     AtMostOne, MatchedOnce, HandledIsLast, HandledByMain, vars, requestVars, tableVars,
     replyVars, cancelVars, outgoingVars
<1>2. ASSUME NEW i \in Ids, NEW m \in Methods, Refuse(i, m) PROVE OneInv'
  <2>1. received + 1 \in Requests /\ received' = received + 1 /\ main = "reading"
    BY <1>2, RangeGrows DEF Refuse, Receive, Reading
  <2>2. /\ answers' = [answers EXCEPT ![received + 1] = @ + 1]
        /\ UNCHANGED <<main, handled, holder, replied, sending, outgoing, sent, matched>>
    BY <1>2 DEF Refuse, Written, outgoingVars
  <2>3. answers[received + 1] = 0 /\ ~replied[received + 1]
        /\ holder[received + 1] = "nobody" /\ sending[received + 1] = "no"
    BY <2>1 DEF NotYetReceived, TypeOK
  <2>4. \A r \in Requests : answers'[r] = IF r = received + 1 THEN 1 ELSE answers[r]
    BY <2>2, <2>3 DEF TypeOK
  <2>5. NotYetReceived'
    BY <2>1, <2>2, <2>4 DEF NotYetReceived, TypeOK, Requests
  <2>6. MarkedIsUnwritten' /\ RepliedIsWritten' /\ HeldIsUnanswered' /\ AtMostOne'
    BY <2>2, <2>3, <2>4 DEF MarkedIsUnwritten, RepliedIsWritten, HeldIsUnanswered, AtMostOne
  <2>7. MatchedOnce' /\ HandledIsLast' /\ HandledByMain'
    BY <2>1, <2>2 DEF MatchedOnce, HandledIsLast, HandledByMain
  <2> QED
    BY <2>5, <2>6, <2>7
<1>3. ASSUME NEW i \in Ids, NEW m \in Methods, Accept(i, m) PROVE OneInv'
  <2>1. received + 1 \in Requests /\ received' = received + 1
    BY <1>3, RangeGrows DEF Accept, Receive
  <2>2. /\ holder' = [holder EXCEPT ![received + 1] = "main"]
        /\ main' = "inserting" /\ handled' = received + 1
        /\ UNCHANGED <<answers, replied, sending, outgoing, sent, matched>>
    BY <1>3 DEF Accept, replyVars, outgoingVars
  <2>3. answers[received + 1] = 0 /\ ~replied[received + 1] /\ sending[received + 1] = "no"
    BY <2>1 DEF NotYetReceived, TypeOK
  <2>4. \A r \in Requests : holder'[r] = IF r = received + 1 THEN "main" ELSE holder[r]
    BY <2>2 DEF TypeOK
  <2>5. NotYetReceived'
    BY <2>1, <2>2, <2>4 DEF NotYetReceived, TypeOK, Requests
  <2>6. MarkedIsUnwritten' /\ RepliedIsWritten' /\ HeldIsUnanswered' /\ AtMostOne'
    BY <2>2, <2>3, <2>4 DEF MarkedIsUnwritten, RepliedIsWritten, HeldIsUnanswered, AtMostOne
  <2>7. MatchedOnce'
    BY <2>2 DEF MatchedOnce
  <2>8. HandledIsLast' /\ HandledByMain'
    BY <2>1, <2>2, <2>3, <2>4 DEF HandledIsLast, HandledByMain, Requests, NoRequest
  <2> QED
    BY <2>5, <2>6, <2>7, <2>8
<1>4. CASE Insert
  <2>1. /\ main' = "handling" /\ main = "inserting"
        /\ UNCHANGED <<handled, received, method, holder, answers, replied, sending,
                       outgoing, sent, matched>>
    BY <1>4 DEF Insert, requestVars, replyVars, outgoingVars
  <2> QED
    BY <2>1 DEF NotYetReceived, MarkedIsUnwritten, RepliedIsWritten, HeldIsUnanswered,
       AtMostOne, MatchedOnce, HandledIsLast, HandledByMain
<1>5. CASE HandOver \/ HandlerReturns \/ HandlerThrows
  <2>1. /\ UNCHANGED <<received, method, answers, replied, sending, outgoing, sent, matched>>
        /\ main = "handling"
    BY <1>5 DEF HandOver, HandlerReturns, HandlerThrows, requestVars, replyVars,
       outgoingVars
  <2>2. handled \in Requests /\ handled = received
    BY <2>1 DEF HandledIsLast, TypeOK, Requests, NoRequest
  <2>3. \A r \in Requests :
          holder'[r] \in {holder[r], "nobody"} \/ (r = handled /\ holder[r] = "main")
    BY <1>5, <2>2 DEF HandOver, HandlerReturns, HandlerThrows, TypeOK
  <2>4. NotYetReceived'
    BY <2>1, <2>2, <2>3 DEF NotYetReceived, TypeOK, Requests
  <2>5. MarkedIsUnwritten' /\ RepliedIsWritten' /\ HeldIsUnanswered' /\ AtMostOne'
        /\ MatchedOnce'
    BY <2>1, <2>3 DEF MarkedIsUnwritten, RepliedIsWritten, HeldIsUnanswered, AtMostOne,
       MatchedOnce
  <2>6. main' \notin {"inserting", "handling"}
        \/ (main' = "handling" /\ handled' = handled /\ method[handled] \notin Synchronous)
    BY <1>5 DEF HandOver, HandlerReturns, HandlerThrows
  <2>7. HandledIsLast' /\ HandledByMain'
    BY <2>1, <2>6 DEF HandledIsLast, HandledByMain
  <2> QED
    BY <2>4, <2>5, <2>7
<1>6. ASSUME NEW r \in Requests, Reply(r) \/ Mark(r) \/ Erase(r) \/ Write(r) \/ LetGo(r) PROVE OneInv'
  <2>1. /\ UNCHANGED <<handled, received, method, outgoing, sent, matched>>
        /\ main' \in {main, "crashed"}
    BY <1>6 DEF Reply, Mark, Erase, Write, LetGo, requestVars, outgoingVars
  <2>2. MatchedOnce' /\ HandledIsLast'
    BY <2>1 DEF MatchedOnce, HandledIsLast
  <2>3. holder[r] # "nobody" /\ r <= received
    BY <1>6, SMTT(20) DEF Reply, Mark, Erase, Write, LetGo, Active, NotYetReceived, TypeOK, Requests
  <2>4. main = "inserting" => holder[r] = "thread"
    BY <1>6 DEF Reply, Mark, Erase, Write, LetGo, Active
  <2>5. main = "inserting" => r # handled
    BY <2>4 DEF HandledByMain
  <2>6. CASE Reply(r) \/ Mark(r)
    <3>1. UNCHANGED <<holder, answers, main>>
      BY <2>6 DEF Reply, Mark
    <3>2. \/ UNCHANGED <<replied, sending>>
          \/ /\ ~replied[r] /\ replied' = replied
             /\ sending' = [sending EXCEPT ![r] = "tested"]
          \/ /\ sending[r] = "tested"
             /\ replied' = [replied EXCEPT ![r] = TRUE]
             /\ sending' = [sending EXCEPT ![r] = "marked"]
      BY <2>6 DEF Reply, Mark, MayReply, TypeOK
    <3>3. CASE UNCHANGED <<replied, sending>>
      BY <2>1, <2>2, <3>1, <3>3 DEF NotYetReceived, MarkedIsUnwritten, RepliedIsWritten,
         HeldIsUnanswered, AtMostOne, HandledByMain
    <3>4. CASE \/ /\ ~replied[r] /\ replied' = replied
                  /\ sending' = [sending EXCEPT ![r] = "tested"]
               \/ /\ sending[r] = "tested"
                  /\ replied' = [replied EXCEPT ![r] = TRUE]
                  /\ sending' = [sending EXCEPT ![r] = "marked"]
      <4>1. answers[r] = 0
        BY <2>3, <3>4 DEF HeldIsUnanswered, MarkedIsUnwritten
      <4>2. \A s \in Requests \ {r} : replied'[s] = replied[s] /\ sending'[s] = sending[s]
        BY <3>4 DEF TypeOK
      <4>3. sending'[r] # "no" /\ (replied'[r] <=> sending'[r] # "tested")
        BY <3>4 DEF TypeOK
      <4>6. NotYetReceived'
        BY <2>1, <2>3, <3>1, <4>2 DEF NotYetReceived, TypeOK, Requests
      <4>7. MarkedIsUnwritten'
        BY <3>1, <4>1, <4>2, <4>3 DEF MarkedIsUnwritten
      <4>8. RepliedIsWritten'
        BY <3>1, <4>2, <4>3 DEF RepliedIsWritten
      <4>9. HeldIsUnanswered' /\ AtMostOne'
        BY <3>1, <4>1, <4>2, <4>3 DEF HeldIsUnanswered, AtMostOne
      <4>5. HandledByMain'
        BY <2>1, <2>5, <3>1, <4>2 DEF HandledByMain, HandledIsLast, TypeOK, Requests, NoRequest
      <4> QED
        BY <2>2, <4>5, <4>6, <4>7, <4>8, <4>9
    <3> QED
      BY <3>2, <3>3, <3>4
  <2>7. CASE Erase(r) \/ Write(r)
    <3>1. UNCHANGED <<holder, replied>> /\ sending[r] \in {"marked", "erased"}
      BY <2>7 DEF Erase, Write
    <3>2. \/ /\ sending' = [sending EXCEPT ![r] = "erased"]
             /\ answers' = answers
          \/ /\ sending' = [sending EXCEPT ![r] = "no"]
             /\ answers' = [answers EXCEPT ![r] = @ + 1]
      BY <2>7 DEF Erase, Write, Written
    <3>3. replied[r] /\ answers[r] = 0
      BY <3>1 DEF MarkedIsUnwritten
    <3>4. /\ \A s \in Requests \ {r} : answers'[s] = answers[s] /\ sending'[s] = sending[s]
          /\ \/ sending'[r] = "erased" /\ answers'[r] = 0
             \/ sending'[r] = "no" /\ answers'[r] = 1
      BY <3>2, <3>3 DEF TypeOK
    <3>5. NotYetReceived'
      BY <2>1, <2>3, <3>1, <3>4 DEF NotYetReceived, TypeOK, Requests
    <3>7. MarkedIsUnwritten' /\ RepliedIsWritten'
      BY <3>1, <3>3, <3>4 DEF MarkedIsUnwritten, RepliedIsWritten
    <3>8. HeldIsUnanswered' /\ AtMostOne'
      BY <3>1, <3>3, <3>4 DEF HeldIsUnanswered, AtMostOne
    <3>6. HandledByMain'
      BY <2>1, <2>5, <3>1, <3>4, SMTT(20) DEF HandledByMain, HandledIsLast, TypeOK, Requests, NoRequest
    <3> QED
      BY <2>2, <3>5, <3>6, <3>7, <3>8
  <2>8. CASE LetGo(r)
    <3>1. /\ UNCHANGED <<answers, replied, sending, main>>
          /\ \A s \in Requests : holder'[s] \in {holder[s], "nobody"}
          /\ holder[r] = "thread"
          /\ \A s \in Requests \ {r} : holder'[s] = holder[s]
      BY <2>8 DEF LetGo, replyVars, TypeOK
    <3>2. NotYetReceived' /\ MarkedIsUnwritten' /\ RepliedIsWritten' /\ HeldIsUnanswered'
          /\ AtMostOne'
      BY <2>1, <3>1 DEF NotYetReceived, MarkedIsUnwritten, RepliedIsWritten,
         HeldIsUnanswered, AtMostOne
    <3>3. HandledByMain'
      BY <2>1, <3>1, SMTT(20) DEF HandledByMain, HandledIsLast, TypeOK, Requests, NoRequest
    <3> QED
      BY <2>2, <3>2, <3>3
  <2> QED
    BY <1>6, <2>6, <2>7, <2>8
<1>7. CASE LoopStep
  <2>1. /\ UNCHANGED <<received, method, holder, answers, replied, sending, outgoing, sent,
                       matched, handled>>
        /\ main' \in {main, "crashed", "returned"}
    BY <1>7 DEF LoopStep, Cancel, ExitNotification, EndLoop, ConnectionFails, Return, Over,
       vars, requestVars, replyVars, outgoingVars
  <2> QED
    BY <2>1 DEF NotYetReceived, MarkedIsUnwritten, RepliedIsWritten, HeldIsUnanswered,
       AtMostOne, MatchedOnce, HandledIsLast, HandledByMain
<1>8. CASE OutgoingStep
  <2>1. /\ UNCHANGED <<received, method, holder, answers, replied, sending, handled>>
        /\ main' \in {main, "crashed", "returned"}
    BY <1>8 DEF OutgoingStep, SendRequest, Response, ErrorResponse, Take, requestVars,
       replyVars
  <2>2. NotYetReceived' /\ MarkedIsUnwritten' /\ RepliedIsWritten' /\ HeldIsUnanswered'
        /\ AtMostOne' /\ HandledIsLast' /\ HandledByMain'
    BY <2>1 DEF NotYetReceived, MarkedIsUnwritten, RepliedIsWritten, HeldIsUnanswered,
       AtMostOne, HandledIsLast, HandledByMain
  <2>3. CASE SendRequest
    <3>1. sent' = sent + 1 /\ outgoing' = outgoing \cup {sent + 1} /\ matched' = matched
          /\ sent \in Nat
      BY <2>3 DEF SendRequest, TypeOK
    <3>2. \A q \in Outgoing : q \in Nat
      BY DEF Outgoing
    <3> QED
      BY <2>2, <3>1, <3>2 DEF MatchedOnce
  <2>4. ASSUME NEW q \in Outgoing, Response(q) \/ ErrorResponse(q) PROVE MatchedOnce'
    <3>1. sent' = sent
      BY <2>4 DEF Response, ErrorResponse
    <3>2. CASE UNCHANGED <<outgoing, matched>>
      BY <3>1, <3>2 DEF MatchedOnce
    <3>3. CASE Take(q)
      <4>1. outgoing' = outgoing \ {q}
        BY <3>3 DEF Take, Taken
      <4>2. \A p \in Outgoing : matched'[p] = IF p = q /\ q \in outgoing
                                             THEN matched[p] + 1 ELSE matched[p]
        BY <3>3 DEF Take, TypeOK
      <4>3. \A p \in Outgoing : p \in outgoing => p <= sent
        BY DEF MatchedOnce
      <4> QED
        BY <3>1, <4>1, <4>2, <4>3 DEF MatchedOnce, TypeOK, Outgoing
    <3> QED
      BY <2>4, <3>2, <3>3 DEF Response, ErrorResponse
  <2> QED
    BY <1>8, <2>2, <2>3, <2>4 DEF OutgoingStep
<1> QED
  BY <1>1, <1>2, <1>3, <1>4, <1>5, <1>6, <1>7, <1>8, NextSteps
     DEF RequestStep, HandlerStep, AnswerStep

(* What holds of every request, from its arrival to its response.           *)
THEOREM Inductive == Spec => [](TypeOK /\ OneInv)
PROOF
<1>1. Init => TypeOK /\ OneInv
  BY OneInit
<1>2. TypeOK /\ OneInv /\ [Next]_vars => (TypeOK /\ OneInv)'
  BY TypeStep, OneStep
<1> QED
  BY <1>1, <1>2, PTL DEF Spec

(* Type correctness; in particular no response comes to more requests than  *)
(* were sent, and no entry of the map is of a request to come.              *)
THEOREM TypeCorrect == Spec => []TypeOK
PROOF BY Inductive, PTL

(* However often a handler and the threads it hands the request to reply,   *)
(* the editor gets at most one response to each request.                    *)
THEOREM AtMostOneResponse == Spec => []OneResponsePerRequest
PROOF
<1>1. TypeOK /\ OneInv => OneResponsePerRequest
  <2> SUFFICES ASSUME TypeOK, OneInv PROVE OneResponsePerRequest
    OBVIOUS
  <2>1. \A r \in Requests : answers[r] <= 1
    BY DEF OneInv, AtMostOne
  <2>2. \A q \in Outgoing : matched[q] <= 1
    BY DEF TypeOK
  <2> QED
    BY <2>1, <2>2 DEF OneResponsePerRequest
<1> QED
  BY <1>1, Inductive, PTL

-----------------------------------------------------------------------------
(* Nothing before 'initialize'.                                             *)

Initialized ==
  \E s \in Requests :
    s <= received /\ method[s] = "initialize" /\ answers[s] = 1

(* Once a request other than 'initialize' is let through, and whenever main *)
(* is back to reading after the first one, 'initialize' has been answered.  *)
InitInv ==
  /\ started /\ main = "reading" => Initialized
  /\ main \in {"inserting", "handling"} /\ method[handled] # "initialize" => Initialized
  /\ InitializeAnsweredFirst

(* Nothing takes back that 'initialize' has been answered.                  *)
LEMMA StaysInitialized ==
  ASSUME TypeOK, OneInv, OneInv', [Next]_vars, NEW s \in Requests,
         s <= received, method[s] = "initialize", answers[s] = 1
  PROVE  s <= received' /\ method'[s] = "initialize" /\ answers'[s] = 1
PROOF
<1>1. CASE RequestStep
  <2> PICK i \in Ids, m \in Methods : Refuse(i, m) \/ Accept(i, m)
    BY <1>1 DEF RequestStep
  <2>1. received' = received + 1 /\ method' = [method EXCEPT ![received + 1] = m]
    BY DEF Refuse, Accept, Receive
  <2>2. answers' = answers \/ answers' = [answers EXCEPT ![received + 1] = @ + 1]
    BY DEF Refuse, Accept, Written, replyVars
  <2>3. s # received + 1 /\ s <= received + 1
    BY DEF TypeOK, Requests
  <2>4. method'[s] = method[s] /\ answers'[s] = answers[s]
    BY <2>1, <2>2, <2>3 DEF TypeOK
  <2> QED
    BY <2>1, <2>3, <2>4
<1>2. ASSUME NEW r \in Requests, AnswerStep(r)
      PROVE  s <= received' /\ method'[s] = "initialize" /\ answers'[s] = 1
  <2>1. UNCHANGED <<received, method>>
    BY <1>2 DEF AnswerStep, Reply, Mark, Erase, Write, LetGo, requestVars
  <2>2. answers' = answers \/ (Write(r) /\ answers' = [answers EXCEPT ![r] = @ + 1])
    BY <1>2 DEF AnswerStep, Reply, Mark, Erase, Write, LetGo, Written, replyVars
  <2>3. Write(r) => r # s
    BY DEF Write, OneInv, MarkedIsUnwritten
  <2> QED
    BY <2>1, <2>2, <2>3 DEF TypeOK
<1>3. CASE HandlerStep \/ LoopStep \/ OutgoingStep \/ UNCHANGED vars
  <2>1. UNCHANGED <<received, method, answers>>
    BY <1>3 DEF HandlerStep, Insert, HandOver, HandlerReturns, HandlerThrows, LoopStep,
       Cancel, ExitNotification, EndLoop, ConnectionFails, Return, Over, OutgoingStep,
       SendRequest, Response, ErrorResponse, vars, requestVars, replyVars
  <2> QED
    BY <2>1
<1> QED
  BY <1>1, <1>2, <1>3, NextSteps

LEMMA InitializedStep ==
  ASSUME TypeOK, OneInv, OneInv', [Next]_vars, Initialized
  PROVE  Initialized'
PROOF
<1>1. PICK s \in Requests :
        s <= received /\ method[s] = "initialize" /\ answers[s] = 1
  BY DEF Initialized
<1>2. s <= received' /\ method'[s] = "initialize" /\ answers'[s] = 1
  BY <1>1, StaysInitialized
<1> QED
  BY <1>2 DEF Initialized

(* A request that gets past the frontend is the one main was inserting.     *)
LEMMA NewlyDispatched ==
  ASSUME TypeOK, OneInv, [Next]_vars, NEW r \in Requests, Dispatched(r)', ~Dispatched(r)
  PROVE  /\ main = "inserting" /\ r = handled
         /\ UNCHANGED <<received, method, answers>>
         /\ Insert \/ RacyInsert
PROOF
<1> USE DEF Dispatched
<1>1. CASE RequestStep
  <2> PICK i \in Ids, m \in Methods : Refuse(i, m) \/ Accept(i, m)
    BY <1>1 DEF RequestStep
  <2>1. received + 1 \in Requests
    BY RangeGrows DEF Refuse, Accept, Receive
  <2>2. received' = received + 1 /\ main = "reading" /\ replied' = replied
    BY DEF Refuse, Accept, Receive, Reading, replyVars
  <2>3. \A s \in Requests : s # received + 1 => answers'[s] = answers[s]
    BY DEF Refuse, Accept, Written, replyVars, TypeOK
  <2>4. r = received + 1
    BY <2>2, <2>3 DEF Requests, TypeOK
  <2>5. ~replied[r] /\ answers[r] = 0
    BY <2>1, <2>4 DEF OneInv, NotYetReceived, TypeOK
  <2>6. Refuse(i, m) => answers'[r] = 1
    BY <2>4, <2>5 DEF Refuse, Written, TypeOK
  <2>7. Accept(i, m) => main' = "inserting" /\ handled' = r
    BY <2>4 DEF Accept
  <2> QED
    BY <2>2, <2>5, <2>6, <2>7
<1>2. ASSUME NEW s \in Requests, AnswerStep(s)
      PROVE  /\ main = "inserting" /\ r = handled
             /\ UNCHANGED <<received, method, answers>> /\ RacyInsert
  <2>1. UNCHANGED <<received, method, handled>>
    BY <1>2 DEF AnswerStep, Reply, Mark, Erase, Write, LetGo, requestVars
  <2>2. main' # main => main = "inserting" /\ UNCHANGED answers /\ RacyInsert
    BY <1>2 DEF AnswerStep, Reply, Mark, Erase, Write, LetGo
  <2>3. answers[r] # 0 => answers'[r] # 0
    BY <1>2 DEF AnswerStep, Reply, Mark, Erase, Write, LetGo, Written, replyVars, TypeOK
  <2>4. ~replied[r] /\ replied'[r] => answers[r] = 0
    <3>1. ~replied[r] /\ replied'[r] => r = s /\ holder[s] # "nobody"
      BY <1>2 DEF AnswerStep, Reply, Mark, Erase, Write, LetGo, Active, replyVars, TypeOK
    <3> QED
      BY <3>1 DEF OneInv, HeldIsUnanswered
  <2> QED
    BY <2>1, <2>2, <2>3, <2>4
<1>3. CASE HandlerStep \/ LoopStep \/ OutgoingStep \/ UNCHANGED vars
  <2>1. UNCHANGED <<received, method, answers, replied>>
    BY <1>3 DEF HandlerStep, Insert, HandOver, HandlerReturns, HandlerThrows, LoopStep,
       Cancel, ExitNotification, EndLoop, ConnectionFails, Return, Over, OutgoingStep,
       SendRequest, Response, ErrorResponse, vars, requestVars, replyVars
  <2>2. main = "inserting" => Insert \/ UNCHANGED <<main, handled>>
    BY <1>3 DEF HandlerStep, HandOver, HandlerReturns, HandlerThrows, LoopStep, Cancel,
       ExitNotification, EndLoop, ConnectionFails, Return, Over, OutgoingStep,
       SendRequest, Response, ErrorResponse, Reading, vars
  <2> QED
    BY <2>1, <2>2
<1> QED
  BY <1>1, <1>2, <1>3, NextSteps

(* The method of a request received does not change.                        *)
LEMMA MethodStays ==
  ASSUME TypeOK, [Next]_vars, NEW r \in Requests, r <= received
  PROVE  method'[r] = method[r]
PROOF
<1>1. UNCHANGED method \/ \E m \in Methods : method' = [method EXCEPT ![received + 1] = m]
  <2>1. RequestStep => \E m \in Methods : method' = [method EXCEPT ![received + 1] = m]
    BY DEF RequestStep, Refuse, Accept, Receive
  <2>2. HandlerStep \/ LoopStep \/ OutgoingStep \/ UNCHANGED vars => UNCHANGED method
    BY DEF HandlerStep, Insert, HandOver, HandlerReturns, HandlerThrows, LoopStep,
       Cancel, ExitNotification, EndLoop, ConnectionFails, Return, Over, OutgoingStep,
       SendRequest, Response, ErrorResponse, vars, requestVars
  <2>3. \A s \in Requests : AnswerStep(s) => UNCHANGED method
    BY DEF AnswerStep, Reply, Mark, Erase, Write, LetGo, requestVars
  <2> QED
    BY <2>1, <2>2, <2>3, NextSteps
<1>2. r # received + 1
  BY DEF TypeOK, Requests
<1> QED
  BY <1>1, <1>2 DEF TypeOK

LEMMA InitStep ==
  ASSUME TypeOK, OneInv, OneInv', InitInv, [Next]_vars
  PROVE  InitInv'
PROOF
<1>1. InitializeAnsweredFirst'
  <2> SUFFICES ASSUME NEW r \in Requests, Dispatched(r)', method'[r] # "initialize"
               PROVE  \E s \in 1 .. r : method'[s] = "initialize" /\ answers'[s] = 1
    BY DEF InitializeAnsweredFirst
  <2>1. CASE Dispatched(r)
    <3>1. method[r] # "initialize" /\ r <= received
      BY <2>1, MethodStays DEF Dispatched
    <3>2. PICK s \in 1 .. r : method[s] = "initialize" /\ answers[s] = 1
      BY <2>1, <3>1 DEF InitInv, InitializeAnsweredFirst
    <3>3. received \in Nat /\ r <= received
      BY <3>1 DEF TypeOK
    <3>4. s \in Requests /\ s <= received
      BY <3>3, BoundsType DEF Requests
    <3>5. method'[s] = "initialize" /\ answers'[s] = 1
      BY <3>2, <3>4, StaysInitialized
    <3> QED
      BY <3>5
  <2>2. CASE ~Dispatched(r)
    <3>1. /\ main = "inserting" /\ r = handled
          /\ UNCHANGED <<received, method, answers>>
      BY <2>2, NewlyDispatched
    <3>2. r = received /\ Initialized
      BY <3>1 DEF InitInv, OneInv, HandledIsLast
    <3> QED
      BY <3>1, <3>2 DEF Initialized, Requests
  <2> QED
    BY <2>1, <2>2
<1>2. started' /\ main' = "reading" => Initialized'
  <2> SUFFICES ASSUME started', main' = "reading" PROVE Initialized'
    OBVIOUS
  <2>1. CASE HandlerReturns
    <3>1. main = "handling" /\ UNCHANGED <<received, method, answers, started>>
      BY <2>1 DEF HandlerReturns, requestVars, replyVars
    <3>2. CASE method[handled] # "initialize"
      BY <3>1, <3>2, InitializedStep DEF InitInv
    <3>3. CASE method[handled] = "initialize"
      <4>1. handled \in Requests /\ handled <= received
        BY <3>1 DEF OneInv, HandledIsLast, TypeOK, Requests, NoRequest
      <4>2. replied[handled] /\ sending[handled] = "no"
        BY <2>1, <3>1, <3>3 DEF HandlerReturns, Synchronous, OneInv, HandledByMain
      <4>3. answers[handled] = 1
        BY <4>1, <4>2 DEF OneInv, RepliedIsWritten
      <4> QED
        BY <3>1, <3>3, <4>1, <4>3 DEF Initialized
    <3> QED
      BY <3>2, <3>3
  <2>2. CASE main = "reading" /\ started
    BY <2>2, InitializedStep DEF InitInv
  <2>3. HandlerReturns \/ (main = "reading" /\ started)
    <3>1. RequestStep => main = "reading" /\ started
      BY DEF RequestStep, Refuse, Accept, Receive, Reading, LetThrough, Bound, Synchronous
    <3>2. HandlerStep \/ LoopStep \/ OutgoingStep \/ UNCHANGED vars
            => HandlerReturns \/ (main = "reading" /\ started)
      BY DEF HandlerStep, Insert, HandOver, HandlerThrows, LoopStep, Cancel,
         ExitNotification, EndLoop, ConnectionFails, Return, Over, OutgoingStep,
         SendRequest, Response, ErrorResponse, Reading, vars
    <3>3. \A s \in Requests : AnswerStep(s) => main = "reading" /\ started
      BY DEF AnswerStep, Reply, Mark, Erase, Write, LetGo
    <3> QED
      BY <3>1, <3>2, <3>3, NextSteps
  <2> QED
    BY <2>1, <2>2, <2>3
<1>3. main' \in {"inserting", "handling"} /\ method'[handled'] # "initialize" => Initialized'
  <2> SUFFICES ASSUME main' \in {"inserting", "handling"}, method'[handled'] # "initialize"
               PROVE  Initialized
    BY InitializedStep
  <2>1. CASE main \in {"inserting", "handling"} /\ UNCHANGED <<method, handled>>
    BY <2>1 DEF InitInv
  <2>2. CASE RequestStep
    <3> PICK i \in Ids, m \in Methods : Refuse(i, m) \/ Accept(i, m)
      BY <2>2 DEF RequestStep
    <3>1. main = "reading" /\ Accept(i, m)
      BY DEF Refuse, Accept, Receive, Reading
    <3>2. received + 1 \in Requests
      BY <3>1, RangeGrows DEF Accept, Receive
    <3>3. method'[handled'] = m
      BY <3>1, <3>2 DEF Accept, Receive, TypeOK
    <3> QED
      BY <3>1, <3>3 DEF Accept, LetThrough, InitInv
  <2>3. RequestStep \/ (main \in {"inserting", "handling"} /\ UNCHANGED <<method, handled>>)
    <3>1. HandlerStep \/ LoopStep \/ OutgoingStep \/ UNCHANGED vars
            => main \in {"inserting", "handling"} /\ UNCHANGED <<method, handled>>
      BY DEF HandlerStep, Insert, HandOver, HandlerReturns, HandlerThrows, LoopStep, Cancel,
         ExitNotification, EndLoop, ConnectionFails, Return, Over, OutgoingStep,
         SendRequest, Response, ErrorResponse, Reading, vars, requestVars
    <3>2. \A s \in Requests : AnswerStep(s) =>
            main \in {"inserting", "handling"} /\ UNCHANGED <<method, handled>>
      BY DEF AnswerStep, Reply, Mark, Erase, Write, LetGo, requestVars
    <3> QED
      BY <3>1, <3>2, NextSteps
  <2> QED
    BY <2>1, <2>2, <2>3
<1> QED
  BY <1>1, <1>2, <1>3 DEF InitInv

(* No request but 'initialize' reaches a handler before the response to     *)
(* 'initialize' is written, also when 'initialize' is refused, repeated, or *)
(* its handler throws.                                                      *)
THEOREM NothingBeforeInitialize == Spec => []InitializeAnsweredFirst
PROOF
<1>1. Init => InitInv
  BY DEF Init, InitInv, InitializeAnsweredFirst, Dispatched, Requests
<1>2. TypeOK /\ OneInv /\ (TypeOK /\ OneInv)' /\ InitInv /\ [Next]_vars => InitInv'
  BY InitStep
<1>3. InitInv => InitializeAnsweredFirst
  BY DEF InitInv
<1> QED
  BY <1>1, <1>2, <1>3, Inductive, PTL DEF Spec

-----------------------------------------------------------------------------
(* The map of requests in flight, as long as nothing is erased while main   *)
(* inserts.                                                                 *)

ErasedIsGone == \A r \in Requests : sending[r] = "erased" => in_flight[id[r]] # r
AnsweredIsGone == \A r \in Requests : answers[r] = 1 => in_flight[id[r]] # r
YoungestIsThere ==
  \A r \in Requests :
    Dispatched(r) /\ Youngest(r) /\ ~replied[r] => in_flight[id[r]] = r

TableInv ==
  /\ raced = FALSE
  /\ ErasedIsGone
  /\ AnsweredIsGone
  /\ YoungestIsThere

(* Steps that leave the table, ids and answers alone, and make no request   *)
(* dispatched.                                                              *)
LEMMA TableKept ==
  ASSUME TypeOK, OneInv, TableInv, UNCHANGED <<in_flight, raced, id, answers>>,
         \A r \in Requests : sending'[r] = "erased" => sending[r] = "erased",
         \A r \in Requests : ~replied'[r] => ~replied[r],
         \A r \in Requests : Dispatched(r)' = Dispatched(r)
  PROVE  TableInv'
PROOF
<1>1. ErasedIsGone' /\ AnsweredIsGone'
  BY DEF TableInv, ErasedIsGone, AnsweredIsGone
<1>2. \A r \in Requests : Youngest(r)' => Youngest(r)
  BY DEF Youngest
<1>3. YoungestIsThere'
  BY <1>2 DEF TableInv, YoungestIsThere
<1> QED
  BY <1>1, <1>3 DEF TableInv

LEMMA TableRequest ==
  ASSUME TypeOK, OneInv, OneInv', TableInv, [Next]_vars, RequestStep
  PROVE  TableInv'
PROOF
<1> PICK i \in Ids, m \in Methods : Refuse(i, m) \/ Accept(i, m)
  BY DEF RequestStep
<1>1. /\ received + 1 \in Requests /\ received \in Nat
      /\ received' = received + 1 /\ main = "reading"
      /\ UNCHANGED <<in_flight, raced, replied, sending>>
  BY RangeGrows DEF Refuse, Accept, Receive, Reading, TypeOK, tableVars, replyVars
<1>2. id' = [id EXCEPT ![received + 1] = i]
  BY DEF Refuse, Accept, Receive
<1>3. \A r \in Requests : r # received + 1 => id'[r] = id[r] /\ answers'[r] = answers[r]
  BY <1>2 DEF Refuse, Accept, Written, replyVars, TypeOK
<1>4. id'[received + 1] = i
  BY <1>1, <1>2 DEF TypeOK
<1>5. \A j \in Ids : in_flight[j] # received + 1
  BY <1>1 DEF TypeOK
<1>6. ErasedIsGone'
  BY <1>1, <1>3, <1>4, <1>5 DEF ErasedIsGone, TableInv
<1>7. AnsweredIsGone'
  BY <1>1, <1>3, <1>4, <1>5 DEF AnsweredIsGone, TableInv
<1>8. \A r \in Requests : Dispatched(r)' => Dispatched(r)
  BY <1>1, NewlyDispatched
<1>9. \A r \in Requests : Dispatched(r) => r # received + 1 /\ Dispatched(r)'
  <2> SUFFICES ASSUME NEW r \in Requests, Dispatched(r)
               PROVE  r # received + 1 /\ Dispatched(r)'
    OBVIOUS
  <2>1. r <= received /\ r \in Nat
    BY DEF Dispatched, Requests
  <2>2. r # received + 1 /\ r <= received'
    BY <1>1, <2>1
  <2>3. main' = "inserting" => handled' = received + 1
    BY <1>1 DEF Refuse, Accept
  <2> QED
    BY <1>1, <1>3, <2>2, <2>3 DEF Dispatched
<1>10. YoungestIsThere'
  <2> SUFFICES ASSUME NEW r \in Requests, Dispatched(r)', Youngest(r)', ~replied'[r]
               PROVE  in_flight'[id'[r]] = r
    BY DEF YoungestIsThere
  <2>1. Dispatched(r) /\ r # received + 1
    BY <1>8, <1>9
  <2>2. Youngest(r)
    BY <1>3, <1>9, <2>1 DEF Youngest
  <2> QED
    BY <1>1, <1>3, <2>1, <2>2 DEF TableInv, YoungestIsThere
<1> QED
  BY <1>1, <1>6, <1>7, <1>10 DEF TableInv

LEMMA TableInsert ==
  ASSUME TypeOK, OneInv, TableInv, Insert
  PROVE  TableInv'
PROOF
<1>1. /\ main = "inserting" /\ main' = "handling" /\ raced' = FALSE
      /\ UNCHANGED <<handled, id, received, answers, replied, sending>>
  BY DEF Insert, requestVars, replyVars
<1>2. handled \in Requests /\ handled = received /\ sending[handled] = "no"
      /\ answers[handled] = 0 /\ ~replied[handled] /\ id[handled] \in Ids
  BY <1>1 DEF OneInv, HandledIsLast, HandledByMain, HeldIsUnanswered, TypeOK, Requests,
     NoRequest
<1>3. in_flight' = [in_flight EXCEPT ![id[handled]] = handled]
  BY DEF Insert, TableInv
<1>4. \A i \in Ids : in_flight'[i] = IF i = id[handled] THEN handled ELSE in_flight[i]
  BY <1>3 DEF TypeOK
<1>5. \A r \in Requests : id[r] \in Ids
  BY DEF TypeOK
<1>6. ErasedIsGone' /\ AnsweredIsGone'
  BY <1>1, <1>2, <1>4, <1>5 DEF TableInv, ErasedIsGone, AnsweredIsGone
<1>7. \A r \in Requests : Dispatched(r) => Dispatched(r)'
  BY <1>1 DEF Dispatched
<1>8. \A r \in Requests : Dispatched(r)' /\ r # handled => Dispatched(r)
  BY <1>1 DEF Dispatched
<1>9. \A r \in Requests : r = handled => Dispatched(r)'
  BY <1>1, <1>2 DEF Dispatched, TypeOK
<1>10. YoungestIsThere'
  <2> SUFFICES ASSUME NEW r \in Requests, Dispatched(r)', Youngest(r)', ~replied'[r]
               PROVE  in_flight'[id'[r]] = r
    BY DEF YoungestIsThere
  <2>1. CASE r = handled
    BY <1>1, <1>4, <1>5, <2>1
  <2>2. CASE r # handled
    <3>1. Youngest(r) /\ Dispatched(r)
      BY <1>1, <1>7, <1>8, <2>2 DEF Youngest
    <3>2. id[r] # id[handled]
      <4>1. id[r] = id[handled] => handled <= r
        <5>1. \A s \in Requests : Dispatched(s)' /\ id'[s] = id'[r] => s <= r
          BY DEF Youngest
        <5> QED
          BY <1>1, <1>2, <1>9, <5>1
      <4>2. r <= received
        BY <3>1 DEF Dispatched
      <4> QED
        BY <1>2, <2>2, <4>1, <4>2 DEF Requests
    <3> QED
      BY <1>1, <1>4, <1>5, <3>1, <3>2 DEF TableInv, YoungestIsThere
  <2> QED
    BY <2>1, <2>2
<1> QED
  BY <1>1, <1>6, <1>10 DEF TableInv

LEMMA TableErase ==
  ASSUME ~RacyInsert, TypeOK, OneInv, TableInv, NEW r \in Requests, Erase(r)
  PROVE  TableInv'
PROOF
<1>1. /\ main' = main /\ in_flight' = Erased(r) /\ raced' = FALSE
      /\ UNCHANGED <<id, received, handled, answers, replied>>
      /\ sending' = [sending EXCEPT ![r] = "erased"]
      /\ replied[r]
  BY DEF Erase, requestVars, TableInv, OneInv, MarkedIsUnwritten
<1>2. /\ \A s \in Requests : id[s] \in Ids
      /\ \A i \in Ids : in_flight'[i] = IF i = id[r] /\ in_flight[i] = r
                                          THEN NoRequest ELSE in_flight[i]
  BY <1>1 DEF Erased, TypeOK
<1>3. \A s \in Requests : s # NoRequest
  BY DEF Requests, NoRequest
<1>4. \A s \in Requests : Dispatched(s)' = Dispatched(s)
  BY <1>1 DEF Dispatched
<1>5. \A s \in Requests : Youngest(s)' => Youngest(s)
  BY <1>1, <1>4 DEF Youngest
<1>6. ErasedIsGone'
  BY <1>1, <1>2, <1>3 DEF TableInv, ErasedIsGone, TypeOK
<1>7. AnsweredIsGone'
  BY <1>1, <1>2, <1>3 DEF TableInv, AnsweredIsGone
<1>8. YoungestIsThere'
  BY <1>1, <1>2, <1>4, <1>5 DEF TableInv, YoungestIsThere
<1> QED
  BY <1>1, <1>6, <1>7, <1>8 DEF TableInv

LEMMA TableWrite ==
  ASSUME TypeOK, OneInv, TableInv, NEW r \in Requests, Write(r)
  PROVE  TableInv'
PROOF
<1>1. /\ UNCHANGED <<main, in_flight, raced, id, received, handled, replied>>
      /\ sending' = [sending EXCEPT ![r] = "no"]
      /\ answers' = [answers EXCEPT ![r] = @ + 1]
      /\ sending[r] = "erased"
      /\ replied[r]
  BY DEF Write, Written, requestVars, tableVars, OneInv, MarkedIsUnwritten
<1>2. \A s \in Requests : s # r => answers'[s] = answers[s] /\ sending'[s] = sending[s]
  BY <1>1 DEF TypeOK
<1>3. sending'[r] = "no" /\ in_flight[id[r]] # r
  BY <1>1 DEF TypeOK, TableInv, ErasedIsGone
<1>4. ErasedIsGone' /\ AnsweredIsGone'
  BY <1>1, <1>2, <1>3 DEF TableInv, ErasedIsGone, AnsweredIsGone
<1>5. \A s \in Requests : Dispatched(s)' = Dispatched(s)
  BY <1>1, <1>2 DEF Dispatched
<1>6. \A s \in Requests : Youngest(s)' => Youngest(s)
  BY <1>1, <1>5 DEF Youngest
<1>7. YoungestIsThere'
  BY <1>1, <1>5, <1>6 DEF TableInv, YoungestIsThere
<1> QED
  BY <1>1, <1>4, <1>7 DEF TableInv

LEMMA TableStep ==
  ASSUME ~RacyInsert, TypeOK, OneInv, OneInv', TableInv, [Next]_vars
  PROVE  TableInv'
PROOF
<1>1. CASE RequestStep
  BY <1>1, TableRequest
<1>2. CASE Insert
  BY <1>2, TableInsert
<1>3. ASSUME NEW r \in Requests, AnswerStep(r) PROVE TableInv'
  <2>1. CASE Reply(r) \/ Mark(r)
    <3>1. /\ UNCHANGED <<main, handled, in_flight, raced, id, answers, received>>
          /\ \/ /\ replied' = replied
                /\ \E at \in {sending[r], "tested"} : sending' = [sending EXCEPT ![r] = at]
             \/ /\ holder[r] # "nobody"
                /\ replied' = [replied EXCEPT ![r] = TRUE]
                /\ sending' = [sending EXCEPT ![r] = "marked"]
      BY <2>1 DEF Reply, Mark, Active, requestVars, tableVars
    <3>2. \A s \in Requests : sending'[s] = "erased" => sending[s] = "erased"
      BY <3>1 DEF TypeOK
    <3>3. \A s \in Requests : ~replied'[s] => ~replied[s]
      BY <3>1 DEF TypeOK
    <3>4. \A s \in Requests : replied'[s] /\ ~replied[s] => answers[s] = 0
      BY <3>1 DEF TypeOK, OneInv, HeldIsUnanswered
    <3>5. \A s \in Requests : Dispatched(s)' = Dispatched(s)
      BY <3>1, <3>3, <3>4 DEF Dispatched
    <3> QED
      BY <3>1, <3>2, <3>3, <3>5, TableKept
  <2>2. CASE LetGo(r)
    <3>1. UNCHANGED <<main, handled, in_flight, raced, id, answers, replied, sending, received>>
      BY <2>2 DEF LetGo, requestVars, tableVars, replyVars
    <3>2. \A s \in Requests : Dispatched(s)' = Dispatched(s)
      BY <3>1 DEF Dispatched
    <3> QED
      BY <3>1, <3>2, TableKept
  <2> QED
    BY <1>3, <2>1, <2>2, TableErase, TableWrite DEF AnswerStep
<1>4. CASE HandOver \/ HandlerReturns \/ HandlerThrows \/ LoopStep \/ OutgoingStep
           \/ UNCHANGED vars
  <2>1. /\ UNCHANGED <<in_flight, raced, id, answers, replied, sending, received>>
        /\ main = "inserting" => handled' = handled
    BY <1>4 DEF HandOver, HandlerReturns, HandlerThrows, LoopStep,
       Cancel, ExitNotification, EndLoop, ConnectionFails, Return, Over, OutgoingStep,
       SendRequest, Response, ErrorResponse, Reading, vars, requestVars, tableVars, replyVars
  <2>2. \A s \in Requests : Dispatched(s)' = Dispatched(s)
    <3>1. main = "inserting" <=> main' = "inserting"
      BY <1>4 DEF HandOver, HandlerReturns, HandlerThrows, LoopStep,
         Cancel, ExitNotification, EndLoop, ConnectionFails, Return, Over, OutgoingStep,
         SendRequest, Response, ErrorResponse, Reading, vars
    <3> QED
      BY <2>1, <3>1 DEF Dispatched
  <2> QED
    BY <2>1, <2>2, TableKept
<1> QED
  BY <1>1, <1>2, <1>3, <1>4, NextSteps DEF HandlerStep

(* Were main to insert under the lock, the map would be right whatever the  *)
(* interleaving and however the editor uses its ids: the youngest request   *)
(* of an id is there until it is replied to, and an answered one is gone.   *)
THEOREM TableIsRight == Spec => (~RacyInsert => []TrackedUntilReplied)
PROOF
<1>1. Init => TableInv
  <2>1. Init => raced = FALSE
    BY Zenon DEF Init
  <2>2. Init => ErasedIsGone /\ AnsweredIsGone
    BY DEF Init, ErasedIsGone, AnsweredIsGone
  <2>3. Init => YoungestIsThere
    BY DEF Init, YoungestIsThere, Dispatched, Requests
  <2> QED
    BY <2>1, <2>2, <2>3 DEF TableInv
<1>2. ~RacyInsert /\ TypeOK /\ OneInv /\ (TypeOK /\ OneInv)' /\ TableInv /\ [Next]_vars
        => TableInv'
  BY TableStep
<1>3. TableInv => TrackedUntilReplied
  BY DEF TableInv, AnsweredIsGone, YoungestIsThere, TrackedUntilReplied
<1>4. CASE RacyInsert
  BY <1>4, PTL
<1>5. CASE ~RacyInsert
  <2>1. TypeOK /\ OneInv /\ (TypeOK /\ OneInv)' /\ TableInv /\ [Next]_vars => TableInv'
    BY <1>2, <1>5
  <2> QED
    BY <1>1, <1>3, <2>1, Inductive, PTL DEF Spec
<1> QED
  BY <1>4, <1>5
=============================================================================
