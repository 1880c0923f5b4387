----------------------------- MODULE Lexer_proofs -----------------------------
(***************************************************************************)
(* Proofs about Lexer, for files of any length and checkpoints of any      *)
(* depth, dropped and returned to in any order.  The inductive invariant,  *)
(* IInv, says what each record holds as long as no token is lost: the      *)
(* token before its checkpoint, the token at it and, unless it is torn,    *)
(* that one again with those that follow, up to where the record above it  *)
(* begins.                                                                 *)
(***************************************************************************)
EXTENDS Lexer, SequenceTheorems, TLAPS

Before(token) == IF token = 0 THEN 0 ELSE token - 1

(* A record that begins at r[2] and has come as far as the token end.      *)
InOrder(r, end) ==
  /\ r[2] <= end
  /\ Len(r) = 2 + end - r[2]
  /\ r[1] = Before(r[2])
  /\ \A k \in 3 .. Len(r) : r[k] = r[2] + k - 3

(* How far the ith record has come: to the checkpoint above it.            *)
EndOf(i) ==
  IF i = Len(checkpoints_) THEN current_token ELSE checkpoints_[i + 1][2]

(* A record that begins at r[2], whatever it misses on the way to end.     *)
Begins(r, end) == r[2] <= end /\ r[1] = Before(r[2])

RecordsInOrder ==
  \A i \in DOMAIN checkpoints_ :
    /\ Begins(checkpoints_[i], EndOf(i))
    /\ i \notin torn => InOrder(checkpoints_[i], EndOf(i))

(* The lexer while it has lost nothing.                                    *)
Whole ==
  /\ LexerTypeOK
  /\ QueueFollowsOn
  /\ LookBackIsRight
  /\ RecordsInOrder

IInv == LexerTypeOK /\ (lost \/ Whole)

LEMMA RingIndexes ==
  ASSUME LexerTypeOK
  PROVE  /\ Previous \in {0, 1} /\ current_one_ \in {0, 1}
         /\ Previous # current_one_
         /\ Previous = 1 - current_one_
         /\ current_token \in Token /\ previous_token \in Token
PROOF
<1>1. current_one_ \in {0, 1} /\ tokens_ \in [{0, 1} -> Token]
  BY DEF LexerTypeOK, MAX_LOOKBACK
<1>2. CASE current_one_ = 0
  BY <1>1, <1>2 DEF Previous, MAX_LOOKBACK, current_token, previous_token
<1>3. CASE current_one_ = 1
  BY <1>1, <1>3 DEF Previous, MAX_LOOKBACK, current_token, previous_token
<1> QED
  BY <1>1, <1>2, <1>3

LEMMA PeekedHasItsType ==
  ASSUME LexerTypeOK, NEW nth \in Nat \ {0}, LexedAfter(nth) <= MaxToken
  PROVE  /\ Peeked(nth) \in Seq(Token)
         /\ Len(Peeked(nth)) \in Nat /\ Len(Peeked(nth)) >= nth
         /\ LexedAfter(nth) \in Token
PROOF
<1> USE LexerAssumption DEF Token
<1> DEFINE Q == lookahead_tokens_
<1>1. /\ Q \in Seq(Token) /\ Len(Q) \in Nat /\ DOMAIN Q = 1 .. Len(Q)
      /\ lexed \in Token /\ lexed \in Nat /\ MaxToken \in Nat
  BY LenProperties DEF LexerTypeOK
<1>2. CASE Len(Q) >= nth
  BY <1>1, <1>2 DEF Peeked, LexedAfter
<1>3. CASE ~(Len(Q) >= nth)
  <2> DEFINE s == [i \in 1 .. nth |-> IF i <= Len(Q) THEN Q[i] ELSE lexed + i - Len(Q)]
  <2>1. Peeked(nth) = s
    BY <1>3 DEF Peeked
  <2>2. LexedAfter(nth) = lexed + nth - Len(Q)
    BY <1>3 DEF LexedAfter
  <2>3. ASSUME NEW i \in 1 .. nth PROVE s[i] \in Token
    <3>1. CASE i <= Len(Q)
      <4>1. i \in 1 .. Len(Q) /\ s[i] = Q[i]
        BY <1>1, <3>1
      <4> QED
        BY <1>1, <4>1, ElementOfSeq
    <3>2. CASE ~(i <= Len(Q))
      BY <1>1, <2>2, <3>2
    <3> QED
      BY <3>1, <3>2
  <2>4. s \in [1 .. nth -> Token]
    BY <2>3
  <2>5. s \in Seq(Token) /\ Len(s) = nth
    BY <2>4
  <2> HIDE DEF s
  <2> QED
    BY <1>1, <1>3, <2>1, <2>2, <2>5
<1> QED
  BY <1>2, <1>3

(* The queue after a look-ahead: the tokens that follow the current one.   *)
LEMMA PeekedIsAhead ==
  ASSUME LexerTypeOK, QueueFollowsOn,
         NEW nth \in Nat \ {0}, LexedAfter(nth) <= MaxToken
  PROVE  /\ LexedAfter(nth) = current_token + Len(Peeked(nth))
         /\ \A i \in 1 .. Len(Peeked(nth)) : Peeked(nth)[i] = current_token + i
PROOF
<1> USE LexerAssumption DEF Token
<1> DEFINE Q == lookahead_tokens_
<1>1. /\ Q \in Seq(Token) /\ Len(Q) \in Nat /\ DOMAIN Q = 1 .. Len(Q)
      /\ lexed = current_token + Len(Q)
      /\ \A i \in 1 .. Len(Q) : Q[i] = current_token + i
      /\ lexed \in Token
  BY LenProperties DEF LexerTypeOK, QueueFollowsOn
<1>2. current_token \in Nat /\ MaxToken \in Nat
  BY RingIndexes
<1>3. CASE Len(Q) >= nth
  BY <1>1, <1>2, <1>3 DEF Peeked, LexedAfter
<1>4. CASE ~(Len(Q) >= nth)
  <2> DEFINE s == [i \in 1 .. nth |-> IF i <= Len(Q) THEN Q[i] ELSE lexed + i - Len(Q)]
  <2>1. Peeked(nth) = s
    BY <1>4 DEF Peeked
  <2>2. LexedAfter(nth) = lexed + nth - Len(Q)
    BY <1>4 DEF LexedAfter
  <2>3. \A i \in 1 .. nth : s[i] = current_token + i
    BY <1>1, <1>2
  <2>4. Len(s) = nth
    OBVIOUS
  <2> HIDE DEF s
  <2> QED
    BY <1>1, <1>2, <2>1, <2>2, <2>3, <2>4
<1> QED
  BY <1>3, <1>4

(* A record goes on by the token that was left behind.                     *)
LEMMA RecordGoesOn ==
  ASSUME NEW r \in Seq(Token), Len(r) >= 2, NEW end \in Token, InOrder(r, end)
  PROVE  /\ Append(r, end) \in Seq(Token)
         /\ Len(Append(r, end)) >= 2
         /\ Append(r, end)[2] = r[2]
         /\ InOrder(Append(r, end), end + 1)
PROOF
<1> DEFINE s == Append(r, end)
<1>1. /\ s \in Seq(Token)
      /\ Len(r) \in Nat
      /\ Len(s) = Len(r) + 1
      /\ \A i \in 1 .. Len(r) : s[i] = r[i]
      /\ s[Len(r) + 1] = end
  BY AppendProperties, LenProperties
<1> HIDE DEF s
<1>2. r[2] \in Nat /\ end \in Nat
  BY ElementOfSeq, <1>1, LexerAssumption DEF Token
<1>3. r[2] <= end /\ Len(r) = 2 + end - r[2] /\ r[1] = Before(r[2])
  BY DEF InOrder
<1>4. s[1] = r[1] /\ s[2] = r[2]
  BY <1>1
<1>5. s[2] <= end + 1 /\ Len(s) = 2 + (end + 1) - s[2]
  <2>1. Len(s) = Len(r) + 1
    BY <1>1
  <2> QED
    BY <1>2, <1>3, <1>4, <2>1
<1>6. ASSUME NEW k \in 3 .. Len(s) PROVE s[k] = s[2] + k - 3
  <2>1. CASE k = Len(r) + 1
    <3>1. s[k] = end
      BY <1>1, <2>1
    <3>2. ASSUME NEW x \in Nat, NEW y \in Nat, NEW l \in Nat, l = 2 + y - x
          PROVE  y = x + (l + 1) - 3
      BY <3>2
    <3>3. end = r[2] + (Len(r) + 1) - 3
      BY <1>1, <1>2, <1>3, <3>2
    <3> QED
      BY <1>4, <2>1, <3>1, <3>3
  <2>2. CASE k <= Len(r)
    <3>1. k \in 3 .. Len(r) /\ k \in 1 .. Len(r)
      BY <1>1, <2>2
    <3>2. r[k] = r[2] + k - 3
      BY <3>1 DEF InOrder
    <3> QED
      BY <1>1, <1>4, <3>1, <3>2
  <2> QED
    BY <1>1, <2>1, <2>2
<1>7. InOrder(s, end + 1)
  BY <1>3, <1>4, <1>5, <1>6 DEF InOrder
<1> QED
  BY <1>1, <1>4, <1>7 DEF s

LEMMA InitHolds == LexerInit => Whole
PROOF
<1> SUFFICES ASSUME LexerInit PROVE Whole
  OBVIOUS
<1> USE LexerAssumption DEF LexerInit, Token, MAX_LOOKBACK
<1>1. current_token = 0 /\ previous_token = 0
  BY DEF current_token, previous_token, Previous
<1>2. LexerTypeOK
  BY DEF LexerTypeOK
<1>3. QueueFollowsOn /\ LookBackIsRight /\ RecordsInOrder
  BY <1>1 DEF QueueFollowsOn, LookBackIsRight, RecordsInOrder
<1> QED
  BY <1>2, <1>3 DEF Whole

LEMMA Records ==
  ASSUME LexerTypeOK
  PROVE  /\ Len(checkpoints_) \in Nat
         /\ DOMAIN checkpoints_ = 1 .. Len(checkpoints_)
         /\ \A i \in 1 .. Len(checkpoints_) :
              /\ checkpoints_[i] \in Seq(Token)
              /\ Len(checkpoints_[i]) \in Nat
              /\ Len(checkpoints_[i]) >= 2
              /\ checkpoints_[i][1] \in Token /\ checkpoints_[i][2] \in Token
PROOF
<1>1. /\ Len(checkpoints_) \in Nat
      /\ DOMAIN checkpoints_ = 1 .. Len(checkpoints_)
  BY LenProperties DEF LexerTypeOK
<1>2. ASSUME NEW i \in 1 .. Len(checkpoints_)
      PROVE  checkpoints_[i] \in Seq(Token) /\ Len(checkpoints_[i]) >= 2
  BY <1>1, <1>2, ElementOfSeq DEF LexerTypeOK
<1>3. ASSUME NEW i \in 1 .. Len(checkpoints_)
      PROVE  /\ Len(checkpoints_[i]) \in Nat
             /\ checkpoints_[i][1] \in Token /\ checkpoints_[i][2] \in Token
  <2> DEFINE r == checkpoints_[i]
  <2>1. r \in Seq(Token) /\ Len(r) >= 2
    BY <1>2
  <2> HIDE DEF r
  <2>2. Len(r) \in Nat /\ r[1] \in Token /\ r[2] \in Token
    BY <2>1, LenProperties, ElementOfSeq
  <2> QED
    BY <2>2 DEF r
<1> QED
  BY <1>1, <1>2, <1>3

(* The records below the one on top, once that is popped.                  *)
LEMMA PoppedRecords ==
  ASSUME LexerTypeOK, checkpoints_ # <<>>
  PROVE  /\ Popped \in Seq(Seq(Token))
         /\ Len(checkpoints_) \in Nat \ {0}
         /\ Len(Popped) = Len(checkpoints_) - 1
         /\ \A i \in 1 .. Len(checkpoints_) - 1 : Popped[i] = checkpoints_[i]
PROOF
<1>1. checkpoints_ \in Seq(Seq(Token)) /\ Len(checkpoints_) \in Nat \ {0}
  BY EmptySeq DEF LexerTypeOK
<1> DEFINE n == Len(checkpoints_) - 1
<1>2. \A i \in 1 .. n : checkpoints_[i] \in Seq(Token)
  BY <1>1, Records
<1>3. n \in Nat
  BY <1>1
<1> DEFINE s == SubSeq(checkpoints_, 1, n)
<1>4. /\ s \in Seq(Seq(Token))
      /\ Len(s) = IF 1 <= n THEN n - 1 + 1 ELSE 0
      /\ \A i \in 1 .. n - 1 + 1 : s[i] = checkpoints_[1 + i - 1]
  <2>1. n \in Int /\ 1 \in Int
    BY <1>3
  <2> HIDE DEF n
  <2> QED
    BY <1>2, <2>1, SubSeqProperties
<1> HIDE DEF n, s
<1>5. Len(s) = n
  BY <1>3, <1>4
<1>6. ASSUME NEW i \in 1 .. n PROVE s[i] = checkpoints_[i]
  BY <1>3, <1>4
<1> QED
  BY <1>1, <1>4, <1>5, <1>6 DEF Popped, n, s

LEMMA PoppedHasItsType ==
  ASSUME LexerTypeOK, checkpoints_ # <<>>, checkpoints_' = Popped
  PROVE  /\ checkpoints_' \in Seq(Seq(Token))
         /\ Len(checkpoints_') <= MaxDepth
         /\ \A i \in DOMAIN checkpoints_' : Len(checkpoints_'[i]) >= 2
PROOF
<1> DEFINE n == Len(checkpoints_)
           p == Len(Popped)
<1>1. /\ n \in Nat \ {0} /\ p = n - 1
      /\ \A i \in 1 .. n - 1 : Popped[i] = checkpoints_[i]
      /\ Popped \in Seq(Seq(Token))
  BY PoppedRecords
<1>2. \A i \in 1 .. n : Len(checkpoints_[i]) >= 2
  BY Records
<1>3. n <= MaxDepth /\ MaxDepth \in Nat
  BY LexerAssumption DEF LexerTypeOK
<1>4. DOMAIN Popped = 1 .. p
  BY <1>1, LenProperties
<1> HIDE DEF n, p
<1>5. p <= MaxDepth
  BY <1>1, <1>3
<1>6. ASSUME NEW i \in 1 .. p PROVE Len(Popped[i]) >= 2
  <2>1. i \in 1 .. n - 1 /\ i \in 1 .. n
    BY <1>1
  <2> QED
    BY <1>1, <1>2, <2>1
<1> QED
  BY <1>1, <1>4, <1>5, <1>6 DEF p

--------------------------------------------------------------------------------
(* The types, which hold whatever was lost.                                *)
LEMMA ScanKeepsTypes == ASSUME LexerTypeOK, scan PROVE LexerTypeOK'
PROOF
<1> DEFINE C == checkpoints_
           n == Len(checkpoints_)
           P == Peeked(1)
<1>1. /\ P \in Seq(Token) /\ Len(P) \in Nat \ {0} /\ P # <<>>
      /\ LexedAfter(1) \in Token
  BY PeekedHasItsType, EmptySeq DEF scan
<1>2. /\ lexed' = LexedAfter(1)
      /\ lookahead_tokens_' = Tail(P)
      /\ current_one_' = Previous
      /\ tokens_' = [tokens_ EXCEPT ![Previous] = Head(P)]
      /\ torn' = torn /\ lost' = lost
  BY DEF scan
<1> HIDE DEF P
<1>3. Head(P) \in Token /\ Tail(P) \in Seq(Token)
  BY <1>1, HeadTailProperties
<1>4. tokens_' \in [{0, 1} -> Token] /\ current_one_' \in {0, 1}
  <2>1. tokens_ \in [{0, 1} -> Token]
    BY DEF LexerTypeOK, MAX_LOOKBACK
  <2> QED
    BY <1>2, <1>3, <2>1, RingIndexes
<1>5. /\ checkpoints_' \in Seq(Seq(Token))
      /\ Len(checkpoints_') = n
      /\ DOMAIN checkpoints_' = DOMAIN checkpoints_
      /\ \A i \in DOMAIN checkpoints_' : Len(checkpoints_'[i]) >= 2
  <2>1. CASE C = <<>>
    <3>1. checkpoints_' = checkpoints_
      BY <2>1 DEF scan, Recorded
    <3> QED
      BY <3>1 DEF LexerTypeOK
  <2>2. CASE C # <<>>
    <3> DEFINE r == Append(C[n], current_token)
    <3>1. /\ C \in Seq(Seq(Token)) /\ n \in Nat \ {0} /\ n \in 1 .. n
          /\ C[n] \in Seq(Token) /\ Len(C[n]) \in Nat /\ Len(C[n]) >= 2
      BY <2>2, Records, EmptySeq DEF LexerTypeOK
    <3>2. r \in Seq(Token) /\ Len(r) >= 2
      <4>1. r \in Seq(Token) /\ Len(r) = Len(C[n]) + 1
        BY <3>1, RingIndexes, AppendProperties
      <4> QED
        BY <3>1, <4>1
    <3>3. checkpoints_' = [C EXCEPT ![n] = r]
      BY <2>2 DEF scan, Recorded
    <3> HIDE DEF r
    <3>4. /\ checkpoints_' \in Seq(Seq(Token))
          /\ Len(checkpoints_') = n
          /\ \A j \in 1 .. n : checkpoints_'[j] = IF j = n THEN r ELSE C[j]
      BY <3>1, <3>2, <3>3, ExceptSeq
    <3>5. DOMAIN checkpoints_' = 1 .. n /\ DOMAIN checkpoints_ = 1 .. n
      BY <3>4, Records, LenProperties
    <3>6. \A j \in 1 .. n : Len(checkpoints_'[j]) >= 2
      BY <3>2, <3>4, Records
    <3> QED
      BY <3>4, <3>5, <3>6
  <2> QED
    BY <2>1, <2>2
<1> QED
  BY <1>1, <1>2, <1>3, <1>4, <1>5 DEF LexerTypeOK, MAX_LOOKBACK

LEMMA AddCheckpointKeepsTypes == ASSUME LexerTypeOK, add_checkpoint PROVE LexerTypeOK'
PROOF
<1> DEFINE C == checkpoints_
           n == Len(checkpoints_)
           r == NewRecord
<1>1. /\ current_token \in Token /\ previous_token \in Token
      /\ C \in Seq(Seq(Token)) /\ n \in Nat
      /\ DOMAIN C = 1 .. n
      /\ MaxDepth \in Nat
  BY RingIndexes, Records, LexerAssumption DEF LexerTypeOK
<1>2. r \in Seq(Token) /\ Len(r) = 2
  BY <1>1 DEF NewRecord
<1>3. /\ UNCHANGED <<lexed, lookahead_tokens_, tokens_, current_one_, torn, lost>>
      /\ n < MaxDepth
      /\ checkpoints_' = Append(C, r)
  BY DEF add_checkpoint
<1> HIDE DEF r
<1>4. /\ checkpoints_' \in Seq(Seq(Token))
      /\ Len(checkpoints_') = n + 1
      /\ DOMAIN checkpoints_' = 1 .. n + 1
      /\ \A i \in 1 .. n : checkpoints_'[i] = C[i]
      /\ checkpoints_'[n + 1] = r
  BY <1>1, <1>2, <1>3, AppendProperties, LenProperties
<1>5. ASSUME NEW i \in 1 .. n + 1 PROVE Len(checkpoints_'[i]) >= 2
  <2>1. CASE i = n + 1
    <3>1. checkpoints_'[i] = r
      BY <1>4, <2>1
    <3>2. Len(r) >= 2
      BY <1>2
    <3> QED
      BY <3>1, <3>2
  <2>2. CASE i # n + 1
    <3>1. i \in 1 .. n
      BY <1>1, <2>2
    <3> QED
      BY <1>4, <3>1, Records
  <2> QED
    BY <2>1, <2>2
<1>6. torn' \subseteq DOMAIN checkpoints_'
  <2>1. torn \subseteq 1 .. n
    BY <1>1 DEF LexerTypeOK
  <2> QED
    BY <1>1, <1>3, <1>4, <2>1
<1> QED
  BY <1>1, <1>3, <1>4, <1>5, <1>6 DEF LexerTypeOK

LEMMA TopHasItsType ==
  ASSUME LexerTypeOK, checkpoints_ # <<>>
  PROVE  /\ Len(checkpoints_) \in Nat \ {0}
         /\ Len(checkpoints_) \in DOMAIN checkpoints_
         /\ Top \in Seq(Token) /\ Len(Top) \in Nat /\ Len(Top) >= 2
         /\ Top[1] \in Token /\ Top[2] \in Token
PROOF
<1>1. /\ Len(checkpoints_) \in Nat \ {0} /\ Len(checkpoints_) \in DOMAIN checkpoints_
      /\ Len(checkpoints_) \in 1 .. Len(checkpoints_)
  BY Records, EmptySeq DEF LexerTypeOK
<1> QED
  BY <1>1, Records DEF Top

(* What is torn below the top is below the top of what is left.            *)
LEMMA PoppedTorn ==
  ASSUME LexerTypeOK, checkpoints_ # <<>>, checkpoints_' = Popped
  PROVE  /\ torn \ {Len(checkpoints_)} \subseteq DOMAIN checkpoints_'
         /\ TornByDropping(Len(checkpoints_)) \subseteq DOMAIN checkpoints_'
PROOF
<1> DEFINE n == Len(checkpoints_)
<1>1. n \in Nat \ {0} /\ DOMAIN checkpoints_ = 1 .. n /\ torn \subseteq 1 .. n
  BY Records, PoppedRecords DEF LexerTypeOK
<1>2. DOMAIN checkpoints_' = 1 .. n - 1
  BY PoppedRecords, LenProperties
<1>3. TornByDropping(n) \subseteq IF n > 1 THEN {n - 1} ELSE {}
  BY DEF TornByDropping
<1> HIDE DEF n
<1>4. (IF n > 1 THEN {n - 1} ELSE {}) \subseteq 1 .. n - 1
  BY <1>1
<1>5. torn \ {n} \subseteq 1 .. n - 1
  BY <1>1
<1> QED
  BY <1>2, <1>3, <1>4, <1>5 DEF n

LEMMA BacktrackKeepsTypes == ASSUME LexerTypeOK, backtrack PROVE LexerTypeOK'
PROOF
<1> DEFINE t == Top
           Q == lookahead_tokens_
<1>1. /\ checkpoints_ # <<>>
      /\ checkpoints_' = Popped
      /\ lexed' = lexed /\ current_one_' = current_one_
      /\ torn' = torn \ {Len(checkpoints_)}
      /\ lost' = (lost \/ Len(checkpoints_) \in torn)
  BY DEF backtrack
<1>2. /\ t \in Seq(Token) /\ Len(t) \in Nat
      /\ t[1] \in Token /\ t[2] \in Token
  BY <1>1, TopHasItsType
<1>3. tokens_' \in [{0, 1} -> Token] /\ lookahead_tokens_' \in Seq(Token)
  <2>1. tokens_ \in [{0, 1} -> Token] /\ Q \in Seq(Token)
    BY DEF LexerTypeOK, MAX_LOOKBACK
  <2>2. CASE Len(t) <= 2
    BY <2>1, <2>2 DEF backtrack
  <2>3. CASE ~(Len(t) <= 2)
    <3> DEFINE a == SubSeq(t, 4, Len(t))
               c == <<current_token>>
    <3>1. /\ lookahead_tokens_' = a \o c \o Q
          /\ tokens_' = [tokens_ EXCEPT ![current_one_] = t[2], ![Previous] = t[1]]
      BY <2>3 DEF backtrack, Replayed
    <3>2. c \in Seq(Token)
      BY RingIndexes
    <3>3. a \in Seq(Token)
      <4>1. \A i \in 4 .. Len(t) : t[i] \in Token
        BY <1>2, ElementOfSeq
      <4>2. 4 \in Int /\ Len(t) \in Int
        BY <1>2
      <4> HIDE DEF t
      <4> QED
        BY <4>1, <4>2, SubSeqProperties
    <3> HIDE DEF a, c, t
    <3>4. a \o c \in Seq(Token)
      BY <3>2, <3>3, ConcatProperties
    <3>5. a \o c \o Q \in Seq(Token)
      BY <2>1, <3>4, ConcatProperties
    <3> QED
      BY <1>2, <2>1, <3>1, <3>5, RingIndexes
  <2> QED
    BY <2>2, <2>3
<1>4. /\ checkpoints_' \in Seq(Seq(Token))
      /\ Len(checkpoints_') <= MaxDepth
      /\ \A i \in DOMAIN checkpoints_' : Len(checkpoints_'[i]) >= 2
  BY <1>1, PoppedHasItsType
<1>5. torn' \subseteq DOMAIN checkpoints_' /\ lost' \in BOOLEAN
  <2>1. torn' \subseteq DOMAIN checkpoints_'
    BY <1>1, PoppedTorn
  <2> QED
    BY <1>1, <2>1
<1> QED
  BY <1>1, <1>3, <1>4, <1>5 DEF LexerTypeOK, MAX_LOOKBACK

LEMMA DropKeepsTypes == ASSUME LexerTypeOK, drop_checkpoint PROVE LexerTypeOK'
PROOF
<1>1. /\ checkpoints_ # <<>>
      /\ checkpoints_' = Popped
      /\ UNCHANGED <<lexed, lookahead_tokens_, tokens_, current_one_, lost>>
      /\ torn' = (torn \ {Len(checkpoints_)}) \cup TornByDropping(Len(checkpoints_))
  BY DEF drop_checkpoint
<1>2. /\ checkpoints_' \in Seq(Seq(Token))
      /\ Len(checkpoints_') <= MaxDepth
      /\ \A i \in DOMAIN checkpoints_' : Len(checkpoints_'[i]) >= 2
  BY <1>1, PoppedHasItsType
<1>3. torn' \subseteq DOMAIN checkpoints_'
  <2>1. /\ torn \ {Len(checkpoints_)} \subseteq DOMAIN checkpoints_'
        /\ TornByDropping(Len(checkpoints_)) \subseteq DOMAIN checkpoints_'
    BY <1>1, PoppedTorn
  <2> QED
    BY <1>1, <2>1
<1> QED
  BY <1>1, <1>2, <1>3 DEF LexerTypeOK

LEMMA TypesStep == ASSUME LexerTypeOK, [LexerNext]_lexer PROVE LexerTypeOK'
PROOF
<1>1. CASE scan
  BY <1>1, ScanKeepsTypes
<1>2. CASE \E nth \in 1 .. MaxToken : peek(nth)
  <2>1. PICK nth \in 1 .. MaxToken : peek(nth)
    BY <1>2
  <2>2. /\ LexedAfter(nth) <= MaxToken
        /\ lookahead_tokens_' = Peeked(nth)
        /\ lexed' = LexedAfter(nth)
        /\ UNCHANGED <<tokens_, current_one_, checkpoints_, torn, lost>>
    BY <2>1 DEF peek
  <2>3. Peeked(nth) \in Seq(Token) /\ LexedAfter(nth) \in Token
    BY <2>2, PeekedHasItsType, LexerAssumption
  <2> QED
    BY <2>2, <2>3 DEF LexerTypeOK
<1>3. CASE add_checkpoint
  BY <1>3, AddCheckpointKeepsTypes
<1>4. CASE backtrack
  BY <1>4, BacktrackKeepsTypes
<1>5. CASE drop_checkpoint
  BY <1>5, DropKeepsTypes
<1>6. CASE UNCHANGED lexer
  BY <1>6 DEF lexer, LexerTypeOK
<1> QED
  BY <1>1, <1>2, <1>3, <1>4, <1>5, <1>6 DEF LexerNext

--------------------------------------------------------------------------------
(* The lexer while it has lost nothing.                                    *)
LEMMA ScanMoves ==
  ASSUME Whole, scan
  PROVE  /\ current_token' = current_token + 1
         /\ previous_token' = current_token
         /\ current_token' \in Token
         /\ tokens_' \in [0 .. MAX_LOOKBACK - 1 -> Token]
         /\ current_one_' \in 0 .. MAX_LOOKBACK - 1
         /\ lookahead_tokens_' \in Seq(Token)
         /\ lexed' \in Token
         /\ QueueFollowsOn'
PROOF
<1> USE LexerAssumption DEF Token
<1> DEFINE P == Peeked(1)
<1>1. /\ P \in Seq(Token) /\ Len(P) \in Nat \ {0} /\ P # <<>>
      /\ LexedAfter(1) \in Token
      /\ LexedAfter(1) = current_token + Len(P)
      /\ \A i \in 1 .. Len(P) : P[i] = current_token + i
  BY PeekedHasItsType, PeekedIsAhead, LenProperties, EmptySeq DEF Whole, scan
<1> HIDE DEF P
<1>2. current_token \in Nat /\ MaxToken \in Nat
  BY RingIndexes DEF Whole
<1>3. Head(P) = current_token + 1 /\ Head(P) \in Token
  BY <1>1, <1>2, HeadTailProperties
<1>4. /\ Tail(P) \in Seq(Token)
      /\ Len(Tail(P)) = Len(P) - 1
      /\ \A i \in 1 .. Len(Tail(P)) : Tail(P)[i] = P[i + 1]
  BY <1>1, HeadTailProperties
<1>5. /\ lexed' = LexedAfter(1)
      /\ lookahead_tokens_' = Tail(P)
      /\ current_one_' = Previous
      /\ tokens_' = [tokens_ EXCEPT ![Previous] = Head(P)]
  BY DEF scan, P
<1>6. tokens_ \in [{0, 1} -> Token]
  BY DEF Whole, LexerTypeOK, MAX_LOOKBACK
<1>7. /\ Previous \in {0, 1} /\ current_one_ \in {0, 1} /\ Previous = 1 - current_one_
  BY RingIndexes DEF Whole
<1>8. tokens_' \in [{0, 1} -> Token] /\ current_one_' \in {0, 1}
  BY <1>3, <1>5, <1>6, <1>7
<1>9. current_token' = current_token + 1
  BY <1>3, <1>5, <1>6, <1>7 DEF current_token
<1>10. Previous' = current_one_
  BY <1>5, <1>7 DEF Previous, MAX_LOOKBACK
<1>11. previous_token' = current_token
  BY <1>5, <1>6, <1>7, <1>10 DEF previous_token, current_token
<1>12. \A i \in 1 .. Len(Tail(P)) : Tail(P)[i] = current_token + 1 + i
  BY <1>1, <1>2, <1>4
<1>13. DOMAIN Tail(P) = 1 .. Len(Tail(P))
  BY <1>4, LenProperties
<1>14. QueueFollowsOn'
  BY <1>1, <1>2, <1>4, <1>5, <1>9, <1>12, <1>13 DEF QueueFollowsOn
<1> QED
  BY <1>1, <1>3, <1>4, <1>5, <1>8, <1>9, <1>11, <1>14 DEF MAX_LOOKBACK

LEMMA ScanHolds == ASSUME Whole, scan PROVE Whole'
PROOF
<1> DEFINE C == checkpoints_
           n == Len(checkpoints_)
<1> USE ScanMoves, RingIndexes DEF Whole
<1>1. RecordsInOrder'
  <2>1. CASE checkpoints_ = <<>>
    <3>1. checkpoints_' = <<>>
      BY <2>1 DEF scan, Recorded
    <3> QED
      BY <2>1, <3>1, EmptySeq DEF LexerTypeOK, RecordsInOrder
  <2>2. CASE checkpoints_ # <<>>
    <3> DEFINE r == Append(C[n], current_token)
    <3>1. /\ C \in Seq(Seq(Token)) /\ n \in Nat \ {0} /\ n \in 1 .. n /\ n \in DOMAIN C
          /\ C[n] \in Seq(Token) /\ Len(C[n]) >= 2
          /\ C[n][2] \in Nat /\ current_token \in Nat
      <4>1. C[n][2] \in Token /\ current_token \in Token
        BY <2>2, TopHasItsType DEF Top
      <4>2. C[n][2] \in Nat /\ current_token \in Nat
        BY <4>1, LexerAssumption DEF Token
      <4>3. C \in Seq(Seq(Token)) /\ n \in Nat \ {0} /\ n \in 1 .. n /\ n \in DOMAIN C
        BY <2>2, Records, EmptySeq DEF LexerTypeOK
      <4>4. C[n] \in Seq(Token) /\ Len(C[n]) >= 2
        BY <2>2, TopHasItsType DEF Top
      <4> QED
        BY <4>2, <4>3, <4>4
    <3>2. /\ Begins(C[n], current_token)
          /\ n \notin torn => InOrder(C[n], current_token)
      BY <3>1 DEF RecordsInOrder, EndOf
    <3>3. r \in Seq(Token) /\ r[2] = C[n][2] /\ r[1] = C[n][1]
      <4>1. Len(C[n]) \in Nat /\ 1 \in 1 .. Len(C[n]) /\ 2 \in 1 .. Len(C[n])
        BY <3>1, LenProperties
      <4> QED
        BY <3>1, <4>1, AppendProperties
    <3>4. Begins(r, current_token + 1)
      BY <3>1, <3>2, <3>3 DEF Begins, Token
    <3>5. n \notin torn => InOrder(r, current_token + 1)
      BY <3>1, <3>2, RecordGoesOn
    <3>6. checkpoints_' = [C EXCEPT ![n] = r] /\ torn' = torn
      BY <2>2 DEF scan, Recorded
    <3> HIDE DEF r
    <3>7. /\ checkpoints_' \in Seq(Seq(Token))
          /\ Len(checkpoints_') = n
          /\ \A j \in 1 .. n : checkpoints_'[j] = IF j = n THEN r ELSE C[j]
      BY <3>1, <3>3, <3>6, ExceptSeq
    <3>8. DOMAIN checkpoints_' = 1 .. n
      BY <3>7, LenProperties
    <3>9. ASSUME NEW i \in 1 .. n
          PROVE  /\ Begins(checkpoints_'[i], EndOf(i)')
                 /\ i \notin torn' => InOrder(checkpoints_'[i], EndOf(i)')
      <4>1. CASE i = n
        BY <3>4, <3>5, <3>6, <3>7, <4>1 DEF EndOf
      <4>2. CASE i # n
        <5>1. i + 1 \in 1 .. n /\ n \in Nat
          BY <3>1, <4>2
        <5>2. checkpoints_'[i + 1][2] = C[i + 1][2]
          BY <3>3, <3>7, <5>1
        <5>3. EndOf(i)' = EndOf(i)
          BY <3>7, <4>2, <5>2 DEF EndOf
        <5>4. i \in DOMAIN C
          BY Records
        <5> QED
          BY <3>6, <3>7, <4>2, <5>3, <5>4 DEF RecordsInOrder
      <4> QED
        BY <4>1, <4>2
    <3> QED
      BY <3>8, <3>9 DEF RecordsInOrder
  <2> QED
    BY <2>1, <2>2
<1>2. LookBackIsRight'
  BY LexerAssumption DEF LookBackIsRight, Token
<1>3. LexerTypeOK'
  BY ScanKeepsTypes
<1> QED
  BY <1>1, <1>2, <1>3

LEMMA PeekHolds ==
  ASSUME Whole, NEW nth \in 1 .. MaxToken, peek(nth)
  PROVE  Whole'
PROOF
<1> DEFINE P == Peeked(nth)
<1>1. /\ P \in Seq(Token)
      /\ LexedAfter(nth) \in Token
      /\ LexedAfter(nth) = current_token + Len(P)
      /\ \A i \in 1 .. Len(P) : P[i] = current_token + i
  BY PeekedHasItsType, PeekedIsAhead, LexerAssumption DEF Whole, peek
<1>2. lexed' = LexedAfter(nth) /\ lookahead_tokens_' = P
  BY DEF peek
<1> HIDE DEF P
<1>3. UNCHANGED <<tokens_, current_one_, checkpoints_, torn, lost>>
  BY DEF peek
<1>4. current_token' = current_token /\ previous_token' = previous_token
  BY <1>3 DEF current_token, previous_token, Previous
<1>5. LexerTypeOK'
  BY <1>1, <1>2, <1>3 DEF Whole, LexerTypeOK
<1>6. QueueFollowsOn'
  BY <1>1, <1>2, <1>4, LenProperties DEF QueueFollowsOn
<1>7. LookBackIsRight' /\ RecordsInOrder'
  BY <1>3, <1>4 DEF Whole, LookBackIsRight, RecordsInOrder, EndOf
<1> QED
  BY <1>5, <1>6, <1>7 DEF Whole

LEMMA AddCheckpointHolds == ASSUME Whole, add_checkpoint PROVE Whole'
PROOF
<1> DEFINE C == checkpoints_
           n == Len(checkpoints_)
           r == NewRecord
<1>1. /\ current_token \in Token /\ previous_token \in Token
      /\ C \in Seq(Seq(Token)) /\ n \in Nat
      /\ DOMAIN C = 1 .. n
      /\ MaxToken \in Nat /\ MaxDepth \in Nat
  BY RingIndexes, Records, LexerAssumption DEF Whole, LexerTypeOK
<1>2. r \in Seq(Token) /\ Len(r) = 2 /\ r[1] = previous_token /\ r[2] = current_token
  BY <1>1 DEF NewRecord
<1>3. InOrder(r, current_token) /\ Begins(r, current_token)
  BY <1>1, <1>2 DEF InOrder, Begins, Whole, LookBackIsRight, Before, Token
<1>4. /\ UNCHANGED <<lexed, lookahead_tokens_, tokens_, current_one_, torn>>
      /\ checkpoints_' = Append(C, r)
  BY DEF add_checkpoint
<1>5. current_token' = current_token /\ previous_token' = previous_token
  BY <1>4 DEF current_token, previous_token, Previous
<1> HIDE DEF r
<1>6. /\ checkpoints_' \in Seq(Seq(Token))
      /\ Len(checkpoints_') = n + 1
      /\ DOMAIN checkpoints_' = 1 .. n + 1
      /\ \A i \in 1 .. n : checkpoints_'[i] = C[i]
      /\ checkpoints_'[n + 1] = r
  BY <1>1, <1>2, <1>4, AppendProperties, LenProperties
<1> HIDE DEF n
<1>11. n \in Nat /\ n = Len(checkpoints_)
  BY <1>1 DEF n
<1>7. ASSUME NEW i \in 1 .. n + 1
      PROVE  /\ Begins(checkpoints_'[i], EndOf(i)')
             /\ i \notin torn => InOrder(checkpoints_'[i], EndOf(i)')
  <2>1. CASE i = n + 1
    <3>1. i = Len(checkpoints_')
      BY <1>6, <2>1
    <3>2. EndOf(i)' = current_token'
      BY <3>1 DEF EndOf
    <3>3. checkpoints_'[i] = r
      BY <1>6, <2>1
    <3>4. EndOf(i)' = current_token
      BY <1>5, <3>2
    <3> QED
      BY <1>3, <3>3, <3>4
  <2>2. CASE i \in 1 .. n
    <3>1. Begins(C[i], EndOf(i)) /\ (i \notin torn => InOrder(C[i], EndOf(i)))
      BY <1>1, <1>11, <2>2 DEF Whole, RecordsInOrder
    <3>2. i # n + 1
      BY <1>11, <2>2
    <3>3. EndOf(i)' = checkpoints_'[i + 1][2]
      BY <1>6, <3>2 DEF EndOf
    <3>4. CASE i = n
      <4>1. EndOf(i)' = current_token
        BY <1>2, <1>6, <3>3, <3>4
      <4>2. EndOf(i) = current_token
        BY <1>11, <3>4 DEF EndOf
      <4> QED
        BY <1>6, <2>2, <3>1, <4>1, <4>2
    <3>5. CASE i # n
      <4>1. i + 1 \in 1 .. n
        BY <1>11, <2>2, <3>5
      <4>2. EndOf(i) = checkpoints_[i + 1][2]
        BY <1>11, <3>5 DEF EndOf
      <4> QED
        BY <1>6, <2>2, <3>1, <3>3, <4>1, <4>2
    <3> QED
      BY <3>4, <3>5
  <2>3. i = n + 1 \/ i \in 1 .. n
    BY <1>11
  <2> QED
    BY <2>1, <2>2, <2>3
<1>8. RecordsInOrder'
  BY <1>4, <1>6, <1>7 DEF RecordsInOrder
<1>9. LexerTypeOK'
  BY AddCheckpointKeepsTypes DEF Whole
<1>10. QueueFollowsOn' /\ LookBackIsRight'
  BY <1>4, <1>5 DEF Whole, QueueFollowsOn, LookBackIsRight
<1> QED
  BY <1>8, <1>9, <1>10 DEF Whole

(* Once a record is popped the one below it ends at the current token, if  *)
(* that is where the popped one begins; else it is torn.                   *)
LEMMA PoppedInOrder ==
  ASSUME Whole, checkpoints_ # <<>>, checkpoints_' = Popped,
         current_token' \in Nat, Top[2] <= current_token',
         \A i \in 1 .. Len(checkpoints_) - 1 : i \notin torn' =>
           i \notin torn /\ (i = Len(checkpoints_) - 1 => current_token' = Top[2])
  PROVE  RecordsInOrder'
PROOF
<1> DEFINE n == Len(checkpoints_)
<1>1. /\ n \in Nat \ {0}
      /\ Len(checkpoints_') = n - 1
      /\ DOMAIN checkpoints_' = 1 .. n - 1
      /\ \A i \in 1 .. n - 1 : checkpoints_'[i] = checkpoints_[i]
  BY PoppedRecords, LenProperties DEF Whole
<1>2. ASSUME NEW i \in 1 .. n - 1
      PROVE  /\ Begins(checkpoints_'[i], EndOf(i)')
             /\ i \notin torn' => InOrder(checkpoints_'[i], EndOf(i)')
  <2>1. i \in DOMAIN checkpoints_ /\ i # n /\ checkpoints_'[i] = checkpoints_[i]
        /\ i \in 1 .. n /\ i + 1 \in 1 .. n
    BY <1>1, Records DEF Whole
  <2>2. /\ Begins(checkpoints_[i], checkpoints_[i + 1][2])
        /\ i \notin torn => InOrder(checkpoints_[i], checkpoints_[i + 1][2])
    BY <2>1 DEF Whole, RecordsInOrder, EndOf
  <2>3. CASE i = n - 1
    <3>1. i + 1 = n
      BY <1>1, <2>3
    <3>2. EndOf(i)' = current_token' /\ checkpoints_[i + 1][2] = Top[2]
      BY <1>1, <2>3, <3>1 DEF EndOf, Top
    <3>3. checkpoints_[i][2] \in Nat /\ Top[2] \in Nat
      <4>1. checkpoints_[i][2] \in Token /\ checkpoints_[i + 1][2] \in Token
        BY <2>1, Records DEF Whole
      <4> QED
        BY <3>2, <4>1, LexerAssumption DEF Token
    <3>4. Begins(checkpoints_[i], current_token')
      BY <2>2, <3>2, <3>3 DEF Begins
    <3>5. i \notin torn' => InOrder(checkpoints_[i], current_token')
      BY <2>2, <2>3, <3>2
    <3> QED
      BY <2>1, <3>2, <3>4, <3>5
  <2>4. CASE i # n - 1
    <3>1. i + 1 \in 1 .. n - 1
      BY <1>1, <2>4
    <3>2. EndOf(i)' = checkpoints_[i + 1][2]
      BY <1>1, <2>4, <3>1 DEF EndOf
    <3> QED
      BY <2>1, <2>2, <3>2
  <2> QED
    BY <2>3, <2>4
<1> QED
  BY <1>1, <1>2 DEF RecordsInOrder

(* What a backtrack puts in front of the queue follows the checkpoint.     *)
LEMMA ReplayIsInOrder ==
  ASSUME Whole, checkpoints_ # <<>>, Len(checkpoints_) \notin torn, Len(Top) > 2
  PROVE  /\ Replayed(Top) \in Seq(Token)
         /\ lexed = Top[2] + Len(Replayed(Top))
         /\ \A i \in 1 .. Len(Replayed(Top)) : Replayed(Top)[i] = Top[2] + i
PROOF
<1> DEFINE t == Top
           Q == lookahead_tokens_
           c == current_token
           a == SubSeq(t, 4, Len(t))
           b == a \o <<c>>
           q == b \o Q
<1>1. /\ t \in Seq(Token) /\ Len(t) \in Nat /\ t[2] \in Nat
      /\ InOrder(t, c)
  <2>1. Len(checkpoints_) \in DOMAIN checkpoints_ /\ Len(checkpoints_) \in 1 .. Len(checkpoints_)
    BY Records, EmptySeq DEF Whole, LexerTypeOK
  <2>2. InOrder(t, c)
    BY <2>1 DEF Whole, RecordsInOrder, EndOf, Top
  <2>3. t \in Seq(Token) /\ Len(t) \in Nat /\ t[2] \in Token
    BY <2>1, Records DEF Whole, Top
  <2> QED
    BY <2>2, <2>3 DEF Token
<1>2. c \in Token /\ c \in Nat /\ Q \in Seq(Token) /\ Len(Q) \in Nat
      /\ lexed = c + Len(Q)
      /\ \A i \in 1 .. Len(Q) : Q[i] = c + i
  <2>1. c \in Token /\ c \in Nat
    BY RingIndexes DEF Whole, Token
  <2>2. Q \in Seq(Token) /\ Len(Q) \in Nat /\ DOMAIN Q = 1 .. Len(Q)
    BY LenProperties DEF Whole, LexerTypeOK
  <2> QED
    BY <2>1, <2>2 DEF Whole, QueueFollowsOn
<1>3. Len(t) > 2 /\ Replayed(Top) = q
  BY DEF Replayed
<1> HIDE DEF t, c, Q
<1>4. t[2] <= c /\ Len(t) = 2 + c - t[2]
  BY <1>1 DEF InOrder
<1>5. \A k \in 3 .. Len(t) : t[k] = t[2] + k - 3
  BY <1>1 DEF InOrder
<1>6. \A i \in 4 .. Len(t) : t[i] \in Token
  BY <1>1, ElementOfSeq
<1>7. /\ a \in Seq(Token)
      /\ Len(a) = IF 4 <= Len(t) THEN Len(t) - 4 + 1 ELSE 0
      /\ \A i \in 1 .. Len(t) - 4 + 1 : a[i] = t[4 + i - 1]
  <2>1. 4 \in Int /\ Len(t) \in Int
    BY <1>1
  <2> QED
    BY <1>6, <2>1, SubSeqProperties
<1> HIDE DEF a
<1>8. Len(a) \in Nat /\ Len(a) = Len(t) - 3
  <2>1. Len(t) \in Nat /\ Len(t) > 2
    BY <1>1, <1>3
  <2>2. CASE 4 <= Len(t)
    <3>1. Len(a) = Len(t) - 4 + 1
      BY <1>7, <2>2
    <3> QED
      BY <2>1, <2>2, <3>1
  <2>3. CASE ~(4 <= Len(t))
    <3>1. Len(a) = 0
      BY <1>7, <2>3
    <3>2. ASSUME NEW x \in Nat, x > 2, ~(4 <= x) PROVE x = 3
      BY <3>2
    <3>3. Len(t) = 3
      BY <2>1, <2>3, <3>2
    <3> QED
      BY <3>1, <3>3
  <2> QED
    BY <2>2, <2>3
<1>9. ASSUME NEW i \in 1 .. Len(a) PROVE a[i] = t[2] + i
  <2>1. i \in 1 .. Len(t) - 4 + 1 /\ i + 3 \in 3 .. Len(t) /\ 4 + i - 1 = i + 3
    BY <1>1, <1>8
  <2>2. a[i] = t[i + 3]
    BY <1>7, <2>1
  <2>3. t[i + 3] = t[2] + (i + 3) - 3
    BY <1>5, <2>1
  <2> QED
    BY <1>1, <1>8, <2>2, <2>3
<1>10. /\ b \in Seq(Token)
       /\ Len(b) = Len(a) + 1
       /\ \A i \in 1 .. Len(a) + 1 : b[i] = IF i <= Len(a) THEN a[i] ELSE <<c>>[i - Len(a)]
  <2>1. <<c>> \in Seq(Token) /\ Len(<<c>>) = 1
    BY <1>2
  <2> QED
    BY <1>7, <2>1, ConcatProperties
<1> HIDE DEF b
<1>11. ASSUME NEW i \in 1 .. Len(b) PROVE b[i] = t[2] + i
  <2>1. CASE i <= Len(a)
    BY <1>8, <1>9, <1>10, <2>1
  <2>2. CASE i = Len(a) + 1
    <3>1. b[i] = c
      BY <1>8, <1>10, <2>2
    <3>2. ASSUME NEW x \in Nat, NEW y \in Nat, NEW l \in Nat, l = 2 + y - x
          PROVE  l - 3 + 1 = y - x
      BY <3>2
    <3>3. i = Len(t) - 3 + 1
      BY <1>8, <2>2
    <3>4. i = c - t[2]
      BY <1>1, <1>2, <1>4, <3>2, <3>3
    <3> QED
      BY <1>1, <1>2, <3>1, <3>4
  <2> QED
    BY <1>8, <1>10, <2>1, <2>2
<1>12. Len(b) \in Nat /\ Len(b) = c - t[2]
  <2>1. /\ t[2] \in Nat /\ c \in Nat /\ Len(a) \in Nat /\ Len(t) \in Nat
        /\ Len(t) = 2 + c - t[2] /\ Len(a) = Len(t) - 3 /\ Len(b) = Len(a) + 1
    BY <1>1, <1>2, <1>4, <1>8, <1>10
  <2> QED
    BY <2>1, SMTT(30)
<1>13. /\ q \in Seq(Token)
       /\ Len(q) = Len(b) + Len(Q)
       /\ \A i \in 1 .. Len(b) + Len(Q) : q[i] = IF i <= Len(b) THEN b[i] ELSE Q[i - Len(b)]
  BY <1>2, <1>10, ConcatProperties
<1> HIDE DEF q
<1>14. ASSUME NEW i \in 1 .. Len(q) PROVE q[i] = t[2] + i
  <2>1. CASE i <= Len(b)
    BY <1>2, <1>11, <1>12, <1>13, <2>1
  <2>2. CASE ~(i <= Len(b))
    <3>1. i - Len(b) \in 1 .. Len(Q)
      BY <1>2, <1>12, <1>13, <2>2
    <3>2. q[i] = c + (i - Len(b))
      BY <1>2, <1>12, <1>13, <2>2, <3>1
    <3>3. ASSUME NEW x \in Nat, NEW y \in Nat, NEW j \in Nat
          PROVE  y + (j - (y - x)) = x + j
      BY <3>3
    <3>4. i \in Nat /\ Len(b) = c - t[2] /\ t[2] \in Nat /\ c \in Nat
      BY <1>1, <1>2, <1>12, <1>13
    <3> QED
      BY <3>2, <3>3, <3>4
  <2> QED
    BY <2>1, <2>2
<1>15. lexed = t[2] + Len(q)
  <2>1. /\ t[2] \in Nat /\ c \in Nat /\ Len(Q) \in Nat /\ Len(b) = c - t[2]
        /\ lexed = c + Len(Q) /\ Len(q) = Len(b) + Len(Q)
    BY <1>1, <1>2, <1>12, <1>13
  <2>2. ASSUME NEW x \in Nat, NEW y \in Nat, NEW l \in Nat
        PROVE  y + l = x + ((y - x) + l)
    BY <2>2
  <2> QED
    BY <2>1, <2>2
<1> QED
  BY <1>3, <1>13, <1>14, <1>15 DEF t

LEMMA BacktrackMoves ==
  ASSUME Whole, Len(checkpoints_) \notin torn, backtrack
  PROVE  /\ current_token' = Top[2]
         /\ previous_token' = Before(Top[2])
         /\ tokens_' \in [{0, 1} -> Token]
         /\ lookahead_tokens_' \in Seq(Token)
         /\ QueueFollowsOn'
PROOF
<1> USE LexerAssumption
<1> DEFINE n == Len(checkpoints_)
           t == Top
<1>1. /\ checkpoints_ # <<>>
      /\ checkpoints_' = Popped
      /\ lexed' = lexed /\ current_one_' = current_one_
  BY DEF backtrack
<1>2. /\ t \in Seq(Token) /\ Len(t) \in Nat /\ Len(t) >= 2
      /\ t[1] \in Token /\ t[2] \in Token
      /\ InOrder(t, current_token)
  <2>1. n \in DOMAIN checkpoints_ /\ n \in 1 .. n
    BY <1>1, Records, EmptySeq DEF Whole, LexerTypeOK
  <2> QED
    BY <2>1, Records DEF Whole, RecordsInOrder, EndOf, Top
<1>3. /\ Previous \in {0, 1} /\ current_one_ \in {0, 1} /\ Previous # current_one_
      /\ tokens_ \in [{0, 1} -> Token]
      /\ current_token \in Token
  BY RingIndexes DEF Whole, LexerTypeOK, MAX_LOOKBACK
<1>4. Previous' = Previous
  BY <1>1 DEF Previous
<1>5. /\ current_token' = t[2]
      /\ previous_token' = Before(t[2])
      /\ tokens_' \in [{0, 1} -> Token]
      /\ lookahead_tokens_' \in Seq(Token)
      /\ QueueFollowsOn'
  <2>1. CASE Len(t) <= 2
    <3>1. lookahead_tokens_' = lookahead_tokens_ /\ tokens_' = tokens_
      BY <2>1 DEF backtrack
    <3>2. current_token' = current_token /\ previous_token' = previous_token
      BY <1>1, <1>4, <3>1 DEF current_token, previous_token
    <3>3. current_token = t[2]
      BY <1>2, <1>3, <2>1 DEF InOrder, Token
    <3>4. previous_token = Before(current_token)
      BY DEF Whole, LookBackIsRight, Before
    <3>5. QueueFollowsOn'
      BY <1>1, <3>1, <3>2 DEF Whole, QueueFollowsOn
    <3> QED
      BY <1>3, <3>1, <3>2, <3>3, <3>4, <3>5 DEF Whole, LexerTypeOK
  <2>2. CASE ~(Len(t) <= 2)
    <3> DEFINE q == Replayed(t)
    <3>1. /\ lookahead_tokens_' = q
          /\ tokens_' = [tokens_ EXCEPT ![current_one_] = t[2], ![Previous] = t[1]]
      BY <2>2 DEF backtrack
    <3>2. Len(t) > 2
      BY <1>2, <2>2
    <3>3. /\ q \in Seq(Token)
          /\ lexed = t[2] + Len(q)
          /\ \A i \in 1 .. Len(q) : q[i] = t[2] + i
      BY <1>1, <3>2, ReplayIsInOrder
    <3>4. DOMAIN q = 1 .. Len(q)
      BY <3>3, LenProperties
    <3> HIDE DEF q, t
    <3>5. /\ tokens_' \in [{0, 1} -> Token]
          /\ tokens_'[current_one_] = t[2]
          /\ tokens_'[Previous] = t[1]
      BY <1>2, <1>3, <3>1
    <3>6. current_token' = t[2] /\ previous_token' = t[1]
      BY <1>1, <1>4, <3>5 DEF current_token, previous_token
    <3>7. t[1] = Before(t[2])
      BY <1>2 DEF InOrder
    <3>8. QueueFollowsOn'
      BY <1>1, <3>1, <3>3, <3>4, <3>6 DEF QueueFollowsOn
    <3> QED
      BY <3>1, <3>3, <3>5, <3>6, <3>7, <3>8
  <2> QED
    BY <2>1, <2>2
<1> QED
  BY <1>5 DEF t

LEMMA BacktrackHolds ==
  ASSUME Whole, Len(checkpoints_) \notin torn, backtrack PROVE Whole'
PROOF
<1>1. /\ checkpoints_ # <<>>
      /\ checkpoints_' = Popped
      /\ torn' = torn \ {Len(checkpoints_)}
  BY DEF backtrack
<1>2. /\ current_token' = Top[2]
      /\ previous_token' = Before(Top[2])
      /\ QueueFollowsOn'
  BY BacktrackMoves
<1>3. RecordsInOrder'
  <2>1. Top[2] \in Nat /\ Len(checkpoints_) \in Nat
    BY <1>1, TopHasItsType, LexerAssumption DEF Whole, Token
  <2>2. \A i \in 1 .. Len(checkpoints_) - 1 : i \notin torn' => i \notin torn
    BY <1>1, <2>1
  <2> QED
    BY <1>1, <1>2, <2>1, <2>2, PoppedInOrder
<1>4. LookBackIsRight'
  BY <1>2 DEF LookBackIsRight, Before
<1>5. LexerTypeOK'
  BY BacktrackKeepsTypes DEF Whole
<1> QED
  BY <1>2, <1>3, <1>4, <1>5 DEF Whole

(* The record on top that is not torn has two tokens where it began.       *)
LEMMA NothingScanned ==
  ASSUME Whole, checkpoints_ # <<>>
  PROVE  /\ current_token \in Nat /\ Top[2] \in Nat /\ Top[2] <= current_token
         /\ Len(checkpoints_) \notin torn => (Len(Top) > 2 <=> current_token # Top[2])
PROOF
<1> DEFINE n == Len(checkpoints_)
           t == Top
           c == current_token
<1>1. n \in DOMAIN checkpoints_ /\ Len(t) \in Nat /\ Len(t) >= 2 /\ t[2] \in Nat
  BY TopHasItsType, LexerAssumption DEF Whole, Token
<1>2. c \in Nat
  BY RingIndexes, LexerAssumption DEF Whole, Token
<1>3. Begins(t, c) /\ (n \notin torn => InOrder(t, c))
  BY <1>1 DEF Whole, RecordsInOrder, EndOf, Top
<1> HIDE DEF n, t, c
<1>4. t[2] <= c
  BY <1>3 DEF Begins
<1>5. ASSUME n \notin torn PROVE Len(t) > 2 <=> c # t[2]
  <2>1. Len(t) = 2 + c - t[2]
    BY <1>3, <1>5 DEF InOrder
  <2> QED
    BY <1>1, <1>2, <1>4, <2>1
<1> QED
  BY <1>1, <1>2, <1>4, <1>5 DEF n, t, c

LEMMA DropHolds == ASSUME Whole, drop_checkpoint PROVE Whole'
PROOF
<1> DEFINE n == Len(checkpoints_)
<1>1. /\ checkpoints_ # <<>>
      /\ checkpoints_' = Popped
      /\ UNCHANGED <<lexed, lookahead_tokens_, tokens_, current_one_>>
      /\ torn' = (torn \ {n}) \cup TornByDropping(n)
  BY DEF drop_checkpoint
<1>2. current_token' = current_token /\ previous_token' = previous_token
  BY <1>1 DEF current_token, previous_token, Previous
<1>3. /\ current_token \in Nat /\ Top[2] \in Nat /\ Top[2] <= current_token
      /\ n \notin torn => (Len(Top) > 2 <=> current_token # Top[2])
  BY <1>1, NothingScanned
<1>4. RecordsInOrder'
  <2>1. n \in Nat \ {0}
    BY <1>1, TopHasItsType DEF Whole
  <2>2. ASSUME NEW i \in 1 .. n - 1, i \notin torn'
        PROVE  i \notin torn /\ (i = n - 1 => current_token' = Top[2])
    <3>1. i # n /\ i \notin torn
      BY <1>1, <2>1, <2>2
    <3>2. ASSUME i = n - 1 PROVE current_token' = Top[2]
      <4>1. (n > 1 /\ TornByDropping(n) = {}) \/ TornByDropping(n) = {n - 1}
        BY <2>1, <2>2, <3>2 DEF TornByDropping
      <4>2. n > 1 /\ TornByDropping(n) = {}
        BY <1>1, <2>2, <3>2, <4>1
      <4>3. ~(Len(Top) > 2) /\ n \notin torn
        BY <4>2 DEF TornByDropping
      <4> QED
        BY <1>2, <1>3, <4>3
    <3> QED
      BY <3>1, <3>2
  <2> QED
    BY <1>1, <1>2, <1>3, <2>2, PoppedInOrder
<1>5. LexerTypeOK'
  BY DropKeepsTypes DEF Whole
<1>6. QueueFollowsOn' /\ LookBackIsRight'
  BY <1>1, <1>2 DEF Whole, QueueFollowsOn, LookBackIsRight
<1> QED
  BY <1>4, <1>5, <1>6 DEF Whole

LEMMA StutterHolds == ASSUME Whole, UNCHANGED lexer PROVE Whole'
PROOF
<1>1. UNCHANGED <<lexed, lookahead_tokens_, tokens_, current_one_, checkpoints_, torn, lost>>
  BY DEF lexer
<1>2. current_token' = current_token /\ previous_token' = previous_token
  BY <1>1 DEF current_token, previous_token, Previous
<1> QED
  BY <1>1, <1>2 DEF Whole, LexerTypeOK, QueueFollowsOn, LookBackIsRight,
                    RecordsInOrder, EndOf

(* Only a return to a torn record loses tokens.                            *)
LEMMA WholeStep ==
  ASSUME Whole, [LexerNext]_lexer, ~(backtrack /\ Len(checkpoints_) \in torn)
  PROVE  Whole'
PROOF
<1>1. CASE scan
  BY <1>1, ScanHolds
<1>2. CASE \E nth \in 1 .. MaxToken : peek(nth)
  BY <1>2, PeekHolds
<1>3. CASE add_checkpoint
  BY <1>3, AddCheckpointHolds
<1>4. CASE backtrack
  BY <1>4, BacktrackHolds
<1>5. CASE drop_checkpoint
  BY <1>5, DropHolds
<1>6. CASE UNCHANGED lexer
  BY <1>6, StutterHolds
<1> QED
  BY <1>1, <1>2, <1>3, <1>4, <1>5, <1>6 DEF LexerNext

(* What was lost stays lost.                                               *)
LEMMA LostForGood == ASSUME lost, [LexerNext]_lexer PROVE lost'
PROOF
<1>1. ASSUME NEW nth \in 1 .. MaxToken, peek(nth) PROVE lost'
  BY <1>1 DEF peek
<1> QED
  BY <1>1 DEF LexerNext, lexer, scan, add_checkpoint, backtrack, drop_checkpoint

LEMMA LexerStepHolds == ASSUME IInv, [LexerNext]_lexer PROVE IInv'
PROOF
<1>1. LexerTypeOK'
  BY TypesStep DEF IInv
<1>2. CASE lost
  BY <1>1, <1>2, LostForGood DEF IInv
<1>3. CASE backtrack /\ Len(checkpoints_) \in torn
  BY <1>1, <1>3 DEF IInv, backtrack
<1>4. CASE ~lost /\ ~(backtrack /\ Len(checkpoints_) \in torn)
  BY <1>1, <1>4, WholeStep DEF IInv
<1> QED
  BY <1>2, <1>3, <1>4

(* Whatever the parser calls, in whatever order and however checkpoints    *)
(* nest: scan, peek, add_checkpoint, drop_checkpoint and backtrack keep the*)
(* invariant, which says nothing of the queue once a torn record has been  *)
(* returned to.                                                            *)
THEOREM InvariantHolds == LexerSpec => []IInv
PROOF
<1>1. LexerInit => IInv
  BY InitHolds DEF IInv, Whole
<1>2. IInv /\ [LexerNext]_lexer => IInv'
  BY LexerStepHolds
<1> QED
  BY <1>1, <1>2, PTL DEF LexerSpec

(* The ring, the queue and the records keep their shape, also after tokens *)
(* were lost, so that the code's indexing of tokens_ and of a checkpoint's *)
(* first two tokens is defined.                                            *)
THEOREM TypesHold == LexerSpec => []LexerTypeOK
PROOF
<1>1. IInv => LexerTypeOK
  BY DEF IInv
<1> QED
  BY <1>1, InvariantHolds, PTL

(* Until a torn record is returned to, no look-ahead, drop or replay loses,*)
(* repeats or reorders a token that scan will give: lexer::peek, scan,     *)
(* drop_checkpoint and backtrack.                                          *)
THEOREM NoTokenIsLost == LexerSpec => []NothingLostAhead
PROOF
<1>1. IInv => NothingLostAhead
  BY DEF IInv, Whole, NothingLostAhead
<1> QED
  BY <1>1, InvariantHolds, PTL

(* Until then lexer::previous_token is the one before the current one also *)
(* after a backtrack, where both slots of the ring are rewritten.          *)
THEOREM PreviousSurvives == LexerSpec => []PreviousIsTheOneBefore
PROOF
<1>1. IInv => PreviousIsTheOneBefore
  BY DEF IInv, Whole, PreviousIsTheOneBefore
<1> QED
  BY <1>1, InvariantHolds, PTL

--------------------------------------------------------------------------------
(* The refinement: what a step does to the marks of the cursor.            *)
Marks == [i \in 1 .. Len(checkpoints_) |-> checkpoints_[i][2]]

(* Popping the record on top forgets its mark.                             *)
LEMMA PoppedMarks ==
  ASSUME LexerTypeOK, checkpoints_ # <<>>, checkpoints_' = Popped
  PROVE  /\ Marks # <<>> /\ Len(Marks) = Len(checkpoints_)
         /\ Marks' = SubSeq(Marks, 1, Len(Marks) - 1)
         /\ Marks[Len(Marks)] = Top[2]
PROOF
<1> DEFINE n == Len(checkpoints_)
           m == Marks
<1>1. /\ n \in Nat \ {0} /\ Len(Popped) = n - 1
      /\ \A i \in 1 .. n - 1 : Popped[i] = checkpoints_[i]
  BY PoppedRecords
<1>2. m = [i \in 1 .. n |-> checkpoints_[i][2]]
  BY DEF Marks
<1>3. \A i \in 1 .. n : m[i] \in Token
  BY <1>2, Records
<1> HIDE DEF m
<1>4. m \in Seq(Token) /\ Len(m) = n
  BY <1>1, <1>2, <1>3
<1>5. m # <<>> /\ m[n] = Top[2]
  BY <1>1, <1>2, <1>4, EmptySeq DEF Top
<1> DEFINE s == SubSeq(m, 1, n - 1)
<1>6. Marks' = [i \in 1 .. n - 1 |-> checkpoints_[i][2]]
  BY <1>1 DEF Marks
<1>7. /\ Len(s) = IF 1 <= n - 1 THEN n - 1 - 1 + 1 ELSE 0
      /\ \A i \in 1 .. n - 1 - 1 + 1 : s[i] = m[1 + i - 1]
      /\ s \in Seq(Token)
  <2> DEFINE k == n - 1
  <2>1. 1 \in Int /\ k \in Int /\ \A i \in 1 .. k : m[i] \in Token
    BY <1>1, <1>3
  <2> HIDE DEF k
  <2>2. /\ Len(SubSeq(m, 1, k)) = IF 1 <= k THEN k - 1 + 1 ELSE 0
        /\ \A i \in 1 .. k - 1 + 1 : SubSeq(m, 1, k)[i] = m[1 + i - 1]
        /\ SubSeq(m, 1, k) \in Seq(Token)
    BY <2>1, SubSeqProperties
  <2> QED
    BY <2>2 DEF k
<1> HIDE DEF n, s
<1>8. Len(s) = n - 1 /\ s = [i \in 1 .. n - 1 |-> s[i]]
  <2>1. Len(s) = n - 1
    BY <1>1, <1>7
  <2> QED
    BY <1>7, <2>1, LenProperties
<1>9. \A i \in 1 .. n - 1 : s[i] = checkpoints_[i][2]
  <2> TAKE i \in 1 .. n - 1
  <2>1. i \in 1 .. n /\ i \in 1 .. n - 1 - 1 + 1 /\ 1 + i - 1 = i
    BY <1>1
  <2>2. s[i] = m[i]
    BY <1>7, <2>1
  <2> QED
    BY <1>2, <2>1, <2>2
<1>10. Marks' = s
  BY <1>6, <1>8, <1>9
<1> QED
  BY <1>4, <1>5, <1>10 DEF s, m, n

LEMMA ScanMarks == ASSUME Whole, scan PROVE Marks' = Marks
PROOF
<1> DEFINE C == checkpoints_
           n == Len(checkpoints_)
<1>1. CASE C = <<>>
  <2>1. checkpoints_' = C
    BY <1>1 DEF scan, Recorded
  <2> QED
    BY <2>1 DEF Marks
<1>2. CASE C # <<>>
  <2> DEFINE r == Append(C[n], current_token)
  <2>1. /\ C \in Seq(Seq(Token)) /\ n \in Nat \ {0} /\ n \in 1 .. n
        /\ C[n] \in Seq(Token) /\ Len(C[n]) >= 2 /\ current_token \in Token
    BY <1>2, Records, RingIndexes, EmptySeq DEF Whole, LexerTypeOK
  <2>2. r \in Seq(Token) /\ r[2] = C[n][2]
    <3>1. Len(C[n]) \in Nat /\ 2 \in 1 .. Len(C[n])
      BY <2>1, LenProperties
    <3> QED
      BY <2>1, <3>1, AppendProperties
  <2>3. checkpoints_' = [C EXCEPT ![n] = r]
    BY <1>2 DEF scan, Recorded
  <2> HIDE DEF r
  <2>4. /\ Len(checkpoints_') = n
        /\ \A j \in 1 .. n : checkpoints_'[j] = IF j = n THEN r ELSE C[j]
    BY <2>1, <2>2, <2>3, ExceptSeq
  <2>5. \A j \in 1 .. n : checkpoints_'[j][2] = C[j][2]
    BY <2>2, <2>4
  <2> QED
    BY <2>4, <2>5 DEF Marks
<1> QED
  BY <1>1, <1>2

LEMMA AddCheckpointMarks ==
  ASSUME Whole, add_checkpoint PROVE Marks' = Append(Marks, current_token)
PROOF
<1> DEFINE C == checkpoints_
           n == Len(checkpoints_)
           r == NewRecord
           m == Marks
<1>1. /\ current_token \in Token /\ previous_token \in Token
      /\ C \in Seq(Seq(Token)) /\ n \in Nat
  BY RingIndexes, Records DEF Whole, LexerTypeOK
<1>2. r \in Seq(Token) /\ r[2] = current_token
  BY <1>1 DEF NewRecord
<1>3. checkpoints_' = Append(C, r)
  BY DEF add_checkpoint
<1>4. m = [i \in 1 .. n |-> C[i][2]] /\ \A i \in 1 .. n : m[i] \in Token
  BY Records DEF Marks, Whole
<1> HIDE DEF r, m
<1>5. /\ Len(checkpoints_') = n + 1
      /\ \A i \in 1 .. n : checkpoints_'[i] = C[i]
      /\ checkpoints_'[n + 1] = r
  BY <1>1, <1>2, <1>3, AppendProperties
<1>6. m \in Seq(Token) /\ Len(m) = n
  BY <1>1, <1>4
<1> DEFINE s == Append(m, current_token)
<1>7. /\ s \in Seq(Token) /\ Len(s) = n + 1
      /\ \A i \in 1 .. n : s[i] = m[i]
      /\ s[n + 1] = current_token
  BY <1>1, <1>6, AppendProperties
<1>8. Marks' = [i \in 1 .. n + 1 |-> checkpoints_'[i][2]]
  BY <1>5 DEF Marks
<1> HIDE DEF n, s
<1>9. ASSUME NEW i \in 1 .. n + 1 PROVE s[i] = checkpoints_'[i][2]
  <2>1. CASE i = n + 1
    BY <1>2, <1>5, <1>7, <2>1
  <2>2. CASE i \in 1 .. n
    BY <1>4, <1>5, <1>7, <2>2
  <2> QED
    BY <1>1, <2>1, <2>2 DEF n
<1>10. s = [i \in 1 .. n + 1 |-> s[i]]
  BY <1>7, LenProperties
<1>11. Marks' = s
  BY <1>8, <1>9, <1>10
<1> QED
  BY <1>11 DEF s, m

(* Of all the lexer keeps, the parser sees a cursor and its marks: scan    *)
(* advances, add_checkpoint marks, backtrack returns, drop_checkpoint      *)
(* forgets and peek does nothing.  A mark is fragile exactly when its      *)
(* record misses tokens.                                                   *)
THEOREM IsACursor == LexerSpec => LexerIsACursor
PROOF
<1>1. LexerInit => Cursor!Start
  BY EmptySeq DEF LexerInit, Cursor!Start, current_token, MAX_LOOKBACK
<1>2. IInv /\ [LexerNext]_lexer =>
        [\/ Cursor!Advance \/ Cursor!Mark \/ Cursor!Return \/ Cursor!Forget
         \/ Cursor!ReturnToFragile \/ Cursor!Broken]_(Cursor!cursor)
  <2> SUFFICES ASSUME IInv, [LexerNext]_lexer
               PROVE  \/ Cursor!Advance \/ Cursor!Mark \/ Cursor!Return \/ Cursor!Forget
                      \/ Cursor!ReturnToFragile \/ Cursor!Broken
                      \/ UNCHANGED Cursor!cursor
    OBVIOUS
  <2>0. CASE lost
    BY <2>0, LostForGood DEF Cursor!Broken
  <2> SUFFICES ASSUME ~lost
               PROVE  \/ Cursor!Advance \/ Cursor!Mark \/ Cursor!Return \/ Cursor!Forget
                      \/ Cursor!ReturnToFragile \/ Cursor!Broken
                      \/ UNCHANGED Cursor!cursor
    BY <2>0
  <2>w. Whole
    BY DEF IInv
  <2>1. CASE scan
    <3>1. current_token' = current_token + 1 /\ Marks' = Marks
      BY <2>w, <2>1, ScanMoves, ScanMarks
    <3>2. torn' = torn /\ lost' = lost
      BY <2>1 DEF scan
    <3> QED
      BY <3>1, <3>2 DEF Cursor!Advance, Marks
  <2>2. CASE (\E nth \in 1 .. MaxToken : peek(nth)) \/ UNCHANGED lexer
    <3>1. UNCHANGED <<tokens_, current_one_, checkpoints_, torn, lost>>
      BY <2>2 DEF peek, lexer
    <3>2. current_token' = current_token /\ Marks' = Marks
      BY <3>1 DEF current_token, Marks
    <3> QED
      BY <3>1, <3>2 DEF Cursor!cursor, Marks
  <2>3. CASE add_checkpoint
    <3>1. current_token' = current_token /\ torn' = torn /\ lost' = lost
      BY <2>3 DEF add_checkpoint, current_token
    <3>2. Marks' = Append(Marks, current_token)
      BY <2>w, <2>3, AddCheckpointMarks
    <3> QED
      BY <3>1, <3>2 DEF Cursor!Mark, Marks
  <2>4. CASE backtrack
    <3>1. /\ checkpoints_ # <<>> /\ checkpoints_' = Popped
          /\ torn' = torn \ {Len(checkpoints_)}
          /\ lost' = (lost \/ Len(checkpoints_) \in torn)
      BY <2>4 DEF backtrack
    <3>2. /\ Marks # <<>> /\ Len(Marks) = Len(checkpoints_)
          /\ Marks' = SubSeq(Marks, 1, Len(Marks) - 1)
          /\ Marks[Len(Marks)] = Top[2]
      BY <2>w, <3>1, PoppedMarks DEF Whole
    <3>3. CASE Len(checkpoints_) \in torn
      <4>1. lost' = TRUE
        BY <3>1, <3>3
      <4> QED
        BY <3>2, <3>3, <4>1 DEF Cursor!ReturnToFragile, Marks
    <3>4. CASE Len(checkpoints_) \notin torn
      <4>1. current_token' = Top[2]
        BY <2>w, <2>4, <3>4, BacktrackMoves
      <4>2. torn' = torn /\ lost' = lost
        BY <3>1, <3>4 DEF IInv, LexerTypeOK
      <4> QED
        BY <3>2, <3>4, <4>1, <4>2 DEF Cursor!Return, Cursor!Front, Marks
    <3> QED
      BY <3>3, <3>4
  <2>5. CASE drop_checkpoint
    <3> DEFINE n == Len(checkpoints_)
    <3>1. /\ checkpoints_ # <<>> /\ checkpoints_' = Popped
          /\ torn' = (torn \ {n}) \cup TornByDropping(n)
          /\ lost' = lost
      BY <2>5 DEF drop_checkpoint
    <3>2. current_token' = current_token
      BY <2>5 DEF drop_checkpoint, current_token
    <3>3. /\ Marks # <<>> /\ Len(Marks) = n
          /\ Marks' = SubSeq(Marks, 1, Len(Marks) - 1)
          /\ Marks[Len(Marks)] = Top[2]
      BY <2>w, <3>1, PoppedMarks DEF Whole
    <3>4. n \notin torn => (Len(Top) > 2 <=> current_token # Top[2])
      BY <2>w, <3>1, NothingScanned
    <3>5. (Len(Top) > 2 \/ n \in torn) <=> (current_token # Top[2] \/ n \in torn)
      BY <3>4
    <3>6. TornByDropping(n) =
            IF n > 1 /\ (current_token # Top[2] \/ n \in torn) THEN {n - 1} ELSE {}
      BY <3>5 DEF TornByDropping
    <3> HIDE DEF n
    <3> QED
      BY <3>1, <3>2, <3>3, <3>6 DEF Cursor!Forget, Cursor!Front, Marks
  <2> QED
    BY <2>1, <2>2, <2>3, <2>4, <2>5 DEF LexerNext
<1> QED
  BY <1>1, <1>2, InvariantHolds, PTL DEF LexerSpec, LexerIsACursor, Cursor!CursorSpec

================================================================================
