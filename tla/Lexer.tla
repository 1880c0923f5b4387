--------------------------------- MODULE Lexer ---------------------------------
(***************************************************************************)
(* The token buffer of src/src/vhdl/lexer.cpp: the ring of the current and *)
(* the previous token, the queue of tokens looked at ahead of time, and    *)
(* the stack of checkpoints from which they are replayed.  A token is the  *)
(* number of its place in the file; what the characters of a token are is  *)
(* left out.  Every action is a call the parser makes.                     *)
(***************************************************************************)
EXTENDS Naturals, Sequences

CONSTANTS
  MaxToken,   \* bound: the highest token number that is lexed
  MaxDepth    \* bound: checkpoints that are active at once

ASSUME LexerAssumption ==
  /\ MaxToken \in Nat
  /\ MaxDepth \in Nat

VARIABLES
  lexed,              \* tokens that the character stream has given
  lookahead_tokens_,  \* tokens lexed and not yet scanned
  tokens_,            \* the ring of the current and the previous token
  current_one_,       \* the index of the current token in the ring
  checkpoints_,       \* per checkpoint the tokens recorded since
  torn,               \* history: the checkpoints whose record misses tokens
  lost                \* history: such a checkpoint was returned to

lexer == <<lexed, lookahead_tokens_, tokens_, current_one_, checkpoints_, torn, lost>>

MAX_LOOKBACK == 2

Token == 0 .. MaxToken

current_token == tokens_[current_one_]

Previous == (current_one_ + 1) % MAX_LOOKBACK

previous_token == tokens_[Previous]

Top == checkpoints_[Len(checkpoints_)]

(* A fault: the record is looked at and left on the stack.                 *)
NotPopped == checkpoints_

Popped == SubSeq(checkpoints_, 1, Len(checkpoints_) - 1)

LexerInit ==
  /\ lexed = 0
  /\ lookahead_tokens_ = <<>>
  /\ tokens_ = [i \in 0 .. MAX_LOOKBACK - 1 |-> 0]
  /\ current_one_ = 0
  /\ checkpoints_ = <<>>
  /\ torn = {}
  /\ lost = FALSE

(* The queue of the tokens ahead once the nth one has been peeked.         *)
Peeked(nth) ==
  IF Len(lookahead_tokens_) >= nth
    THEN lookahead_tokens_
    ELSE [i \in 1 .. nth |->
            IF i <= Len(lookahead_tokens_) THEN lookahead_tokens_[i]
            ELSE lexed + i - Len(lookahead_tokens_)]

LexedAfter(nth) ==
  IF Len(lookahead_tokens_) >= nth THEN lexed
  ELSE lexed + nth - Len(lookahead_tokens_)

(* peek and, for as many tokens as it goes through, look_for.              *)
peek(nth) ==
  /\ LexedAfter(nth) <= MaxToken
  /\ lookahead_tokens_' = Peeked(nth)
  /\ lexed' = LexedAfter(nth)
  /\ UNCHANGED <<tokens_, current_one_, checkpoints_, torn, lost>>

(* The token left behind is recorded by the checkpoint on top only.        *)
Recorded ==
  IF checkpoints_ = <<>> THEN checkpoints_
  ELSE [checkpoints_ EXCEPT ![Len(checkpoints_)] = Append(@, current_token)]

scan ==
  /\ LexedAfter(1) <= MaxToken
  /\ lexed' = LexedAfter(1)
  /\ checkpoints_' = Recorded
  /\ current_one_' = Previous
  /\ tokens_' = [tokens_ EXCEPT ![Previous] = Head(Peeked(1))]
  /\ lookahead_tokens_' = Tail(Peeked(1))
  /\ UNCHANGED <<torn, lost>>

(* A fault: the previous token is not kept.                                *)
TwiceTheCurrent == <<current_token, current_token>>

NewRecord == <<previous_token, current_token>>

add_checkpoint ==
  /\ Len(checkpoints_) < MaxDepth
  /\ checkpoints_' = Append(checkpoints_, NewRecord)
  /\ UNCHANGED <<lexed, lookahead_tokens_, tokens_, current_one_, torn, lost>>

(* A fault: the token that is current again is replayed as well.           *)
ReplayedFromThree(record) ==
  SubSeq(record, 3, Len(record)) \o <<current_token>> \o lookahead_tokens_

(* The tokens a checkpoint replays: those recorded after the three that    *)
(* every record begins with once something was scanned.                    *)
Replayed(record) ==
  SubSeq(record, 4, Len(record)) \o <<current_token>> \o lookahead_tokens_

backtrack ==
  /\ checkpoints_ # <<>>
  /\ checkpoints_' = Popped
  /\ IF Len(Top) <= 2
       THEN UNCHANGED <<lookahead_tokens_, tokens_>>
       ELSE /\ lookahead_tokens_' = Replayed(Top)
            /\ tokens_' = [tokens_ EXCEPT ![current_one_] = Top[2],
                                          ![Previous] = Top[1]]
  /\ torn' = torn \ {Len(checkpoints_)}
  /\ lost' = (lost \/ Len(checkpoints_) \in torn)
  /\ UNCHANGED <<lexed, current_one_>>

(* The record below the nth, which misses what the nth held and missed.    *)
TornByDropping(n) == IF n > 1 /\ (Len(Top) > 2 \/ n \in torn) THEN {n - 1} ELSE {}

(* What was recorded goes with the checkpoint: it is appended to a copy of *)
(* the record below, which keeps what it had.                              *)
drop_checkpoint ==
  /\ checkpoints_ # <<>>
  /\ checkpoints_' = Popped
  /\ torn' = (torn \ {Len(checkpoints_)}) \cup TornByDropping(Len(checkpoints_))
  /\ UNCHANGED <<lexed, lookahead_tokens_, tokens_, current_one_, lost>>

LexerNext ==
  \/ scan
  \/ \E nth \in 1 .. MaxToken : peek(nth)
  \/ add_checkpoint
  \/ backtrack
  \/ drop_checkpoint

LexerSpec == LexerInit /\ [][LexerNext]_lexer

--------------------------------------------------------------------------------
(* Every token is a number that has been given, and records and ring are   *)
(* of the shape the code indexes them by.                                  *)
LexerTypeOK ==
  /\ lexed \in Token
  /\ lookahead_tokens_ \in Seq(Token)
  /\ tokens_ \in [0 .. MAX_LOOKBACK - 1 -> Token]
  /\ current_one_ \in 0 .. MAX_LOOKBACK - 1
  /\ checkpoints_ \in Seq(Seq(Token))
  /\ Len(checkpoints_) <= MaxDepth
  /\ \A i \in DOMAIN checkpoints_ : Len(checkpoints_[i]) >= 2
  /\ torn \subseteq DOMAIN checkpoints_
  /\ lost \in BOOLEAN

(* The queue holds the tokens that follow the current one, each once and   *)
(* in order, up to the last one lexed.  The comment of drop_checkpoint     *)
(* promises it however checkpoints nest: "lexer should not drop tokens, we *)
(* may still want to replay those!" (src/src/vhdl/lexer.h:109-110).        *)
QueueFollowsOn ==
  /\ lexed = current_token + Len(lookahead_tokens_)
  /\ \A i \in DOMAIN lookahead_tokens_ :
       lookahead_tokens_[i] = current_token + i

(* However scans, look-aheads, nested checkpoints, drops and replays       *)
(* alternate, no token is lost, repeated or lexed a second time before a   *)
(* checkpoint is returned to inside which another was dropped after a      *)
(* scan: that is the one way in which the code loses tokens.               *)
NothingLostAhead == lost \/ QueueFollowsOn

LookBackIsRight ==
  previous_token = IF current_token = 0 THEN 0 ELSE current_token - 1

(* So long, the look-back of one token survives every replay: the token    *)
(* before the current one is the one before it in the file.                *)
(* get_previous_location closes the ranges of the syntax tree with it.     *)
PreviousIsTheOneBefore == lost \/ LookBackIsRight

(* The ring, the queue and the records together are a cursor with marks:   *)
(* backtrack returns to where its checkpoint was added, at every depth,    *)
(* and drop_checkpoint moves nothing; a mark is fragile when another was   *)
(* forgotten above it after the cursor had moved.                          *)
Cursor == INSTANCE TokenCursor WITH
            position <- current_token,
            marks <- [i \in 1 .. Len(checkpoints_) |-> checkpoints_[i][2]],
            fragile <- torn,
            broken <- lost

LexerIsACursor == Cursor!CursorSpec
================================================================================
