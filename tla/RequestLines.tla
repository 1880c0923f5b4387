---------------------------- MODULE RequestLines ----------------------------
(***************************************************************************)
(* What the open documents promise about requests: every document object   *)
(* is a line, requests are served in the order they arrived on it, each at *)
(* most once, and none after the line has closed.                          *)
(***************************************************************************)
EXTENDS Naturals

CONSTANTS Requests,  (* a set of numbers: the order of arrival              *)
          Lines,
          NoLine

VARIABLES line,      (* request -> the line it is on                        *)
          outcome,   (* request -> what became of it                        *)
          closed     (* the lines that serve nothing more                   *)

vars == <<line, outcome, closed>>

Waiting(l) == {r \in Requests : line[r] = l /\ outcome[r] = "waiting"}

Init ==
  /\ line = [r \in Requests |-> NoLine]
  /\ outcome = [r \in Requests |-> "none"]
  /\ closed = {}

(* A request joins an open line; it is younger than all of those on it.     *)
Arrive(r, l) ==
  /\ outcome[r] = "none"
  /\ l \notin closed
  /\ \A s \in Requests : line[s] = l => s < r
  /\ line' = [line EXCEPT ![r] = l]
  /\ outcome' = [outcome EXCEPT ![r] = "waiting"]
  /\ UNCHANGED closed

(* There is no line for it.                                                 *)
Refuse(r) ==
  /\ outcome[r] = "none"
  /\ outcome' = [outcome EXCEPT ![r] = "refused"]
  /\ UNCHANGED <<line, closed>>

(* The oldest request of an open line is served.                            *)
Serve(r, how) ==
  /\ outcome[r] = "waiting"
  /\ line[r] \notin closed
  /\ \A s \in Waiting(line[r]) : r <= s
  /\ outcome' = [outcome EXCEPT ![r] = how]
  /\ UNCHANGED <<line, closed>>

(* The line closes, and whoever is still on it leaves empty-handed.         *)
Close(l) ==
  /\ l \notin closed
  /\ closed' = closed \cup {l}
  /\ outcome' = [r \in Requests |->
                   IF r \in Waiting(l) THEN "dropped" ELSE outcome[r]]
  /\ UNCHANGED line

Next ==
  \/ \E r \in Requests, l \in Lines : Arrive(r, l)
  \/ \E r \in Requests : Refuse(r)
  \/ \E r \in Requests, how \in {"answered", "empty", "failed"} : Serve(r, how)
  \/ \E l \in Lines : Close(l)

Spec == Init /\ [][Next]_vars
=============================================================================
