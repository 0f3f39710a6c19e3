--------------------------- MODULE FujiBusProofs ---------------------------
(***************************************************************************)
(* Theorems about fuji_bus_call() over a serial port, for any number of    *)
(* calls, any devices and reply lengths, any bounds of the drain and of    *)
(* the search for a frame, any number of tokens lost or garbled, and       *)
(* replies as late as the device likes; and a proof that it is a bus call, *)
(* on a line that is good enough.                                          *)
(***************************************************************************)
EXTENDS FujiBus, SequenceTheorems, TLAPS

USE FujiBusAssumption DEF FujiBusAssumption

(***************************************************************************)
(* Whose tokens a sequence holds.                                          *)
(***************************************************************************)

(* The owners of tokens are calls, or 0. *)
LEMMA OwnersType ==
  ASSUME NEW s \in Seq(Token0)
  PROVE  /\ Owners(s) \in SUBSET (0..MaxCalls)
         /\ \A i \in 1..Len(s) : s[i] \in Token0 /\ s[i][1] \in Owners(s)
<1>1. DOMAIN s = 1..Len(s) /\ \A i \in 1..Len(s) : s[i] \in Token0
  BY LenProperties, ElementOfSeq
<1>2. \A t \in Token0 : t[1] \in 0..MaxCalls
  BY DEF Token0
<1>3. \A i \in 1..Len(s) : s[i][1] \in Owners(s)
  BY <1>1 DEF Owners
<1>4. \A o \in Owners(s) : o \in 0..MaxCalls
  BY <1>1, <1>2 DEF Owners
<1>5. QED
  BY <1>1, <1>3, <1>4

(* A sequence whose tokens are all found in another has no other owners. *)
LEMMA OwnersWithin ==
  ASSUME NEW s \in Seq(Token0), NEW t \in Seq(Token0),
         \A i \in 1..Len(s) : \E j \in 1..Len(t) : s[i] = t[j]
  PROVE  Owners(s) \subseteq Owners(t)
<1>1. DOMAIN s = 1..Len(s) /\ DOMAIN t = 1..Len(t)
  BY LenProperties
<1>2. ASSUME NEW o \in Owners(s) PROVE o \in Owners(t)
  <2>1. PICK i \in 1..Len(s) : o = s[i][1]
    BY <1>1 DEF Owners
  <2>2. PICK j \in 1..Len(t) : s[i] = t[j]
    OBVIOUS
  <2>3. QED
    BY <1>1, <2>1, <2>2 DEF Owners
<1>3. QED
  BY <1>2

(* What is left of the line when its first token is taken. *)
LEMMA TailTokens ==
  ASSUME NEW s \in Seq(Token0), s # <<>>
  PROVE  /\ Head(s) \in Token0 /\ Head(s)[1] \in Owners(s)
         /\ Tail(s) \in Seq(Token0) /\ Len(Tail(s)) = Len(s) - 1
         /\ Owners(Tail(s)) \subseteq Owners(s)
<1>1. /\ Head(s) \in Token0 /\ Head(s) = s[1]
      /\ Tail(s) \in Seq(Token0)
      /\ Len(Tail(s)) = Len(s) - 1
      /\ \A i \in 1..Len(Tail(s)) : Tail(s)[i] = s[i + 1]
  BY HeadTailProperties
<1>2. Len(s) \in Nat \ {0}
  BY EmptySeq
<1>3. \A i \in 1..Len(Tail(s)) : \E j \in 1..Len(s) : Tail(s)[i] = s[j]
  <2>1. ASSUME NEW i \in 1..Len(Tail(s)) PROVE \E j \in 1..Len(s) : Tail(s)[i] = s[j]
    <3>1. i + 1 \in 1..Len(s) /\ Tail(s)[i] = s[i + 1]
      BY <1>1, <1>2
    <3>2. QED
      BY <3>1
  <2>2. QED
    BY <2>1
<1>4. Owners(Tail(s)) \subseteq Owners(s)
  BY <1>1, <1>3, OwnersWithin
<1>5. Head(s)[1] \in Owners(s)
  BY <1>1, <1>2, OwnersType
<1>6. QED
  BY <1>1, <1>4, <1>5

(* A part of the line. *)
LEMMA SubSeqTokens ==
  ASSUME NEW s \in Seq(Token0), NEW m \in 1..Len(s)+1, NEW n \in 0..Len(s)
  PROVE  /\ SubSeq(s, m, n) \in Seq(Token0)
         /\ Len(SubSeq(s, m, n)) = IF m <= n THEN n - m + 1 ELSE 0
         /\ Owners(SubSeq(s, m, n)) \subseteq Owners(s)
<1> DEFINE u == SubSeq(s, m, n)
<1>1. Len(s) \in Nat
  BY LenProperties
<1>2. \A i \in m..n : s[i] \in Token0
  BY <1>1, ElementOfSeq
<1>3. /\ u \in Seq(Token0)
      /\ Len(u) = IF m <= n THEN n - m + 1 ELSE 0
      /\ \A i \in 1..n - m + 1 : u[i] = s[m + i - 1]
  BY <1>1, <1>2, SubSeqProperties
<1>4. ASSUME NEW i \in 1..Len(u) PROVE \E j \in 1..Len(s) : u[i] = s[j]
  <2>1. m + i - 1 \in 1..Len(s) /\ u[i] = s[m + i - 1]
    BY <1>1, <1>3
  <2>2. QED
    BY <2>1
<1>5. Owners(u) \subseteq Owners(s)
  BY <1>3, <1>4, OwnersWithin
<1>6. QED
  BY <1>3, <1>5

(* Two parts put together. *)
LEMMA ConcatTokens ==
  ASSUME NEW s \in Seq(Token0), NEW t \in Seq(Token0)
  PROVE  /\ s \o t \in Seq(Token0)
         /\ Len(s \o t) = Len(s) + Len(t)
         /\ Owners(s \o t) \subseteq Owners(s) \cup Owners(t)
<1>1. Len(s) \in Nat /\ Len(t) \in Nat
  BY LenProperties
<1>2. /\ s \o t \in Seq(Token0)
      /\ Len(s \o t) = Len(s) + Len(t)
      /\ \A i \in 1..Len(s) + Len(t) :
           (s \o t)[i] = IF i <= Len(s) THEN s[i] ELSE t[i - Len(s)]
  BY ConcatProperties
<1>3. ASSUME NEW o \in Owners(s \o t) PROVE o \in Owners(s) \cup Owners(t)
  <2>1. DOMAIN (s \o t) = 1..Len(s) + Len(t)
    BY <1>2, LenProperties
  <2>2. PICK i \in 1..Len(s) + Len(t) : o = (s \o t)[i][1]
    BY <2>1 DEF Owners
  <2>3. CASE i <= Len(s)
    <3>1. i \in 1..Len(s) /\ o = s[i][1]
      BY <1>1, <1>2, <2>2, <2>3
    <3>2. QED
      BY <3>1, OwnersType
  <2>4. CASE i > Len(s)
    <3>1. i - Len(s) \in 1..Len(t) /\ o = t[i - Len(s)][1]
      BY <1>1, <1>2, <2>2, <2>4
    <3>2. QED
      BY <3>1, OwnersType
  <2>5. QED
    BY <1>1, <2>3, <2>4
<1>4. QED
  BY <1>2, <1>3

(* A token more. *)
LEMMA AppendTokens ==
  ASSUME NEW s \in Seq(Token0), NEW t \in Token0
  PROVE  /\ Append(s, t) \in Seq(Token0)
         /\ Len(Append(s, t)) = Len(s) + 1
         /\ Owners(Append(s, t)) \subseteq Owners(s) \cup {t[1]}
         /\ \A i \in 1..Len(s) + 1 : Append(s, t)[i] = IF i <= Len(s) THEN s[i] ELSE t
<1>1. Len(s) \in Nat
  BY LenProperties
<1>2. /\ Append(s, t) \in Seq(Token0)
      /\ Len(Append(s, t)) = Len(s) + 1
      /\ \A i \in 1..Len(s) : Append(s, t)[i] = s[i]
      /\ Append(s, t)[Len(s) + 1] = t
  BY AppendProperties
<1>3. DOMAIN Append(s, t) = 1..Len(s) + 1
  BY <1>2, LenProperties
<1>4. ASSUME NEW o \in Owners(Append(s, t)) PROVE o \in Owners(s) \cup {t[1]}
  <2>1. PICK i \in 1..Len(s) + 1 : o = Append(s, t)[i][1]
    BY <1>3 DEF Owners
  <2>2. CASE i = Len(s) + 1
    BY <1>2, <2>1, <2>2
  <2>3. CASE i \in 1..Len(s)
    BY <1>2, <2>1, <2>3, OwnersType
  <2>4. QED
    BY <1>1, <2>2, <2>3
<1>5. QED
  BY <1>1, <1>2, <1>4

(* A token garbled. *)
LEMMA ExceptTokens ==
  ASSUME NEW s \in Seq(Token0), NEW i \in 1..Len(s), NEW t \in Token0
  PROVE  /\ [s EXCEPT ![i] = t] \in Seq(Token0)
         /\ Len([s EXCEPT ![i] = t]) = Len(s)
         /\ Owners([s EXCEPT ![i] = t]) \subseteq Owners(s) \cup {t[1]}
<1> DEFINE u == [s EXCEPT ![i] = t]
<1>1. /\ u \in Seq(Token0)
      /\ Len(u) = Len(s)
      /\ \A j \in 1..Len(s) : u[j] = IF j = i THEN t ELSE s[j]
  BY ExceptSeq
<1>2. DOMAIN u = 1..Len(s)
  BY <1>1, LenProperties
<1>3. ASSUME NEW o \in Owners(u) PROVE o \in Owners(s) \cup {t[1]}
  <2>1. PICK j \in 1..Len(s) : o = u[j][1]
    BY <1>2 DEF Owners
  <2>2. QED
    BY <1>1, <2>1, OwnersType
<1>4. QED
  BY <1>1, <1>3

(* A reply's frame holds its own tokens and delimiters. *)
LEMMA FrameTokens ==
  ASSUME NEW c \in CallIds, NEW n \in Nat
  PROVE  /\ Frame(c, n) \in Seq(Token0)
         /\ Owners(Frame(c, n)) \subseteq {0, c}
<1> DEFINE pieces == [i \in 1..n+1 |-> Piece(c, i)]
<1>1. END \in Token0
  BY DEF END, Token0
<1>2. <<END>> \in Seq(Token0) /\ \A i \in DOMAIN <<END>> : <<END>>[i] = END
  BY <1>1
<1>3. \A i \in 1..n+1 : Piece(c, i) \in Token0
  BY DEF Piece, Token0, CallIds
<1>4. pieces \in [1..n+1 -> Token0]
  BY <1>3
<1>5. pieces \in Seq(Token0)
  BY <1>4, SeqDef
<1>6. Owners(<<END>>) \subseteq {0}
  BY <1>2 DEF Owners, END
<1>7. Owners(pieces) \subseteq {c}
  BY DEF Owners, Piece
<1>8. <<END>> \o pieces \in Seq(Token0) /\ Owners(<<END>> \o pieces) \subseteq {0, c}
  BY <1>2, <1>5, <1>6, <1>7, ConcatTokens
<1>9. QED
  BY <1>2, <1>6, <1>8, ConcatTokens DEF Frame

(* What TypeOK says of a sequence of tokens. *)
LEMMA TokensTyped ==
  ASSUME NEW s \in Seq(Token0)
  PROVE  /\ \A i \in DOMAIN s : s[i] \in (0..MaxCalls) \X Nat
         /\ Len(s) \in Nat
         /\ DOMAIN s = 1..Len(s)
BY LenProperties, ElementOfSeq DEF Token0

(* Nothing has no owner. *)
LEMMA EmptyTokens ==
  /\ Owners(<<>>) = {} /\ <<>> \in Seq(Token0) /\ Len(<<>>) = 0
BY EmptySeq DEF Owners

(***************************************************************************)
(* The initial state.                                                      *)
(***************************************************************************)

LEMMA InitInv == Init => IInv
<1> SUFFICES ASSUME Init PROVE IInv
  OBVIOUS
<1>1. req \in RequestType /\ ~req.read
  <2>1. PICK d \in Devices, l \in PayloadLens : TRUE
    OBVIOUS
  <2>2. [dev |-> d, read |-> FALSE, len |-> l] \in RequestType
    BY <2>1 DEF RequestType
  <2>3. \E r \in RequestType : ~r.read
    BY <2>2
  <2>4. QED
    BY <2>3 DEF Init
<1>2. req.dev \in Devices /\ req.len \in Nat
  BY <1>1 DEF RequestType
<1>3. [dev |-> req.dev, ack |-> FALSE, len |-> 0] \in ReplyType
  BY <1>2 DEF ReplyType
<1>4. replies \in [CallIds -> ReplyType] /\ runs \in [CallIds -> Nat]
  BY <1>3 DEF Init
<1>5. outcome \in [call : 0..MaxCalls, ok : BOOLEAN, seen : SUBSET (0..MaxCalls)]
  BY DEF Init, NoOutcome
<1>6. SeqTypes
  BY DEF Init, SeqTypes
<1>7. Len(got) = 0 /\ Len(line) = 0 /\ DOMAIN got = {} /\ DOMAIN line = {} /\ DOMAIN reqs = {}
  BY DEF Init
<1>8. TypeOK
  BY <1>1, <1>2, <1>4, <1>5, <1>7 DEF Init, TypeOK
<1>9. Callers = {} /\ Owners(line) = {} /\ Owners(got) = {}
  BY <1>7 DEF Callers, Owners
<1>10. Filling /\ Requested /\ Replied /\ Alone
  BY <1>7, <1>9 DEF Init, Filling, Requested, Replied, Alone
<1>11. OwnReply /\ WholeReply
  BY DEF Init, OwnReply, WholeReply, NoOutcome
<1>12. QED
  BY <1>6, <1>8, <1>10, <1>11 DEF IInv

(***************************************************************************)
(* The steps of the client.                                                *)
(***************************************************************************)

(* A call that gives up. *)
LEMMA GiveUp ==
  ASSUME cur \in 0..MaxCalls, Return(FALSE)
  PROVE  /\ pc' = "idle" /\ ~outcome'.ok
         /\ outcome' \in [call : 0..MaxCalls, ok : BOOLEAN, seen : SUBSET (0..MaxCalls)]
<1>1. outcome' = [call |-> cur, ok |-> FALSE, seen |-> {}]
  BY DEF Return, NoOutcome
<1>2. {} \in SUBSET (0..MaxCalls) /\ FALSE \in BOOLEAN
  BY Zenon
<1>3. outcome' \in [call : 0..MaxCalls, ok : BOOLEAN, seen : SUBSET (0..MaxCalls)]
  BY <1>1, <1>2, Zenon
<1>4. pc' = "idle" /\ ~outcome'.ok
  BY <1>1 DEF Return, Goto
<1>5. QED
  BY <1>3, <1>4

(* The next call has a number no request and no token bears yet. *)
LEMMA CallStep ==
  ASSUME IInv, Call
  PROVE  IInv'
<1> USE DEF IInv
<1>1. SeqTypes'
  BY EmptyTokens DEF Call, SeqTypes, far
<1>2. TypeOK'
  <2>1. Len(got') = 0 /\ DOMAIN got' = {}
    BY DEF Call
  <2>2. req'.read => req'.len \in Nat
    BY DEF Call, RequestType
  <2>3. quiet' \in BOOLEAN /\ outcome' = outcome
    BY DEF Call, TypeOK
  <2>4. QED
    BY <2>1, <2>2, <2>3 DEF Call, TypeOK, far, At, Goto
<1>3. Filling'
  BY DEF Call, Filling, Goto
<1>4. Callers' = Callers /\ UNCHANGED <<reqs, runs, line>> /\ cur' = cur + 1 /\ pc' = "drain"
  BY DEF Call, Callers, far, Goto
<1>5. cur \in Nat /\ cur' \in CallIds
  BY DEF Call, TypeOK, CallIds
<1>6. Requested'
  BY <1>4, <1>5 DEF Requested, Callers, CallIds
<1>7. Replied'
  BY <1>4, <1>5, EmptyTokens DEF Call, Replied, Owners, TypeOK
<1>8. Alone' /\ OwnReply' /\ WholeReply'
  BY <1>4 DEF Alone, OwnReply, WholeReply, At
<1>9. QED
  BY <1>1, <1>2, <1>3, <1>6, <1>7, <1>8

(* The drain leaves nothing when it found everything there. *)
LEMMA DrainStep ==
  ASSUME IInv, Drain
  PROVE  IInv'
<1> USE DEF IInv
<1>1. PICK k \in Lesser(arrived, DrainMax)..Lesser(Len(line), DrainMax) : DrainLine(k)
  BY DEF Drain
<1>2. /\ pc = "drain" /\ pc' = "send"
      /\ UNCHANGED <<cur, req, got, skipped, outcome, reqs, replies, runs, hits>>
      /\ quiet' = (reqs = <<>> /\ arrived = Len(line) /\ Len(line) <= DrainMax)
  BY DEF Drain, At, Goto
<1>3. line \in Seq(Token0) /\ Len(line) \in Nat /\ arrived \in 0..Len(line)
  BY TokensTyped DEF SeqTypes, TypeOK
<1>4. k \in 0..Len(line)
  BY <1>3 DEF Lesser
<1>5. /\ line' \in Seq(Token0)
      /\ Len(line') = Len(line) - k
      /\ Owners(line') \subseteq Owners(line)
  <2>1. k + 1 \in 1..Len(line)+1 /\ Len(line) \in 0..Len(line)
    BY <1>3, <1>4
  <2>2. line' = SubSeq(line, k + 1, Len(line))
    BY <1>1 DEF DrainLine
  <2>3. /\ line' \in Seq(Token0)
        /\ Len(line') = IF k + 1 <= Len(line) THEN Len(line) - (k + 1) + 1 ELSE 0
        /\ Owners(line') \subseteq Owners(line)
    BY <1>3, <2>1, <2>2, SubSeqTokens
  <2>4. QED
    BY <1>3, <1>4, <2>3
<1>6. quiet' => reqs = <<>> /\ line' = <<>>
  <2>1. SUFFICES ASSUME quiet' PROVE reqs = <<>> /\ line' = <<>>
    OBVIOUS
  <2>2. reqs = <<>> /\ arrived = Len(line) /\ Len(line) <= DrainMax
    BY <1>2, <2>1, Zenon
  <2>3. k = Len(line)
    BY <1>3, <2>2 DEF Lesser
  <2>4. Len(line') = 0
    BY <1>3, <1>5, <2>3
  <2>5. QED
    BY <1>5, <2>2, <2>4, EmptySeq
<1>7. SeqTypes'
  BY <1>2, <1>5 DEF SeqTypes
<1>8. TypeOK'
  <2>1. arrived' \in 0..Len(line')
    BY <1>1, <1>3, <1>4, <1>5 DEF DrainLine
  <2>2. quiet' \in BOOLEAN
    BY <1>2, Zenon
  <2>3. \A i \in DOMAIN line' : line'[i] \in (0..MaxCalls) \X Nat
    BY <1>5, TokensTyped
  <2>4. QED
    BY <1>2, <2>1, <2>2, <2>3 DEF TypeOK
<1>9. Filling'
  BY <1>2 DEF Filling
<1>10. Callers' = Callers /\ Owners(got') = Owners(got)
  BY <1>2 DEF Callers, Owners
<1>11. Requested'
  BY <1>2, <1>10 DEF Requested
<1>12. Replied'
  BY <1>2, <1>5, <1>10 DEF Replied
<1>13. Alone'
  <2>1. quiet' => Callers' = {} /\ Owners(line') = {} /\ Owners(got') = {}
    BY <1>2, <1>6, EmptyTokens DEF Filling, Callers
  <2>2. QED
    BY <2>1 DEF Alone
<1>14. OwnReply' /\ WholeReply'
  BY <1>2 DEF OwnReply, WholeReply, At
<1>15. QED
  BY <1>7, <1>8, <1>9, <1>11, <1>12, <1>13, <1>14

(* The request goes out, the only one of its call. *)
LEMMA SendStep ==
  ASSUME IInv, Send
  PROVE  IInv'
<1> USE DEF IInv
<1> DEFINE r == [call |-> cur, dev |-> req.dev]
<1>1. /\ pc = "send" /\ pc' = "sync"
      /\ UNCHANGED <<cur, req, got, skipped, quiet, outcome, replies, runs, line, arrived, hits>>
      /\ reqs' = Append(reqs, r) \/ reqs' = reqs
  BY DEF Send, At, Goto
<1>2. cur \in CallIds /\ req.dev \in Devices /\ cur \notin Callers /\ runs[cur] = 0
  BY <1>1 DEF Requested, TypeOK, RequestType, CallIds
<1>3. reqs \in Seq([call : CallIds, dev : Devices]) /\ r \in [call : CallIds, dev : Devices]
  BY <1>2 DEF SeqTypes
<1>4. Len(reqs) \in Nat /\ DOMAIN reqs = 1..Len(reqs)
  BY <1>3, LenProperties
<1>5. CASE reqs' = reqs
  <2>1. Callers' = Callers /\ Owners(line') = Owners(line) /\ Owners(got') = Owners(got)
    BY <1>1, <1>5 DEF Callers, Owners
  <2>2. Requested' /\ Replied' /\ Alone' /\ Filling' /\ SeqTypes'
    BY <1>1, <1>5, <2>1 DEF Requested, Replied, Alone, Filling, SeqTypes
  <2>3. OwnReply' /\ WholeReply'
    BY <1>1 DEF OwnReply, WholeReply, At
  <2>4. TypeOK'
    BY <1>1, <1>5 DEF TypeOK
  <2>5. QED
    BY <2>2, <2>3, <2>4
<1>6. CASE reqs' = Append(reqs, r)
  <2>1. /\ reqs' \in Seq([call : CallIds, dev : Devices])
        /\ Len(reqs') = Len(reqs) + 1
        /\ \A i \in 1..Len(reqs) : reqs'[i] = reqs[i]
        /\ reqs'[Len(reqs) + 1] = r
    BY <1>3, <1>6, AppendProperties
  <2>2. DOMAIN reqs' = 1..Len(reqs) + 1
    BY <2>1, LenProperties
  <2>3. Callers' \subseteq Callers \cup {cur}
    <3>1. ASSUME NEW i \in 1..Len(reqs) + 1 PROVE reqs'[i].call \in Callers \cup {cur}
      <4>1. CASE i = Len(reqs) + 1
        BY <2>1, <4>1
      <4>2. CASE i \in 1..Len(reqs)
        BY <1>4, <2>1, <4>2 DEF Callers
      <4>3. QED
        BY <1>4, <4>1, <4>2
    <3>2. QED
      BY <2>2, <3>1 DEF Callers
  <2>4. \A i, j \in DOMAIN reqs' : reqs'[i].call = reqs'[j].call => i = j
    <3>1. SUFFICES ASSUME NEW i \in 1..Len(reqs) + 1, NEW j \in 1..Len(reqs) + 1,
                          reqs'[i].call = reqs'[j].call
                   PROVE  i = j
      BY <2>2
    <3>2. \A m \in 1..Len(reqs) : reqs'[m].call \in Callers
      BY <1>4, <2>1 DEF Callers
    <3>3. CASE i \in 1..Len(reqs) /\ j \in 1..Len(reqs)
      BY <1>4, <2>1, <3>1, <3>3 DEF Requested
    <3>4. CASE i = Len(reqs) + 1 \/ j = Len(reqs) + 1
      BY <1>2, <1>4, <2>1, <3>1, <3>2, <3>4
    <3>5. QED
      BY <1>4, <3>3, <3>4
  <2>5. Requested'
    BY <1>1, <1>2, <2>3, <2>4 DEF Requested, CallIds
  <2>6. Owners(line') = Owners(line) /\ Owners(got') = Owners(got)
    BY <1>1 DEF Owners
  <2>7. Replied' /\ Alone' /\ Filling' /\ SeqTypes'
    BY <1>1, <2>1, <2>3, <2>6 DEF Replied, Alone, Filling, SeqTypes
  <2>8. OwnReply' /\ WholeReply'
    BY <1>1 DEF OwnReply, WholeReply, At
  <2>9. TypeOK'
    <3>1. \A i \in DOMAIN reqs' : reqs'[i] \in [call : CallIds, dev : Devices]
      BY <2>1, <2>2, ElementOfSeq
    <3>2. QED
      BY <1>1, <3>1 DEF TypeOK
  <2>10. QED
    BY <2>5, <2>7, <2>8, <2>9
<1>7. QED
  BY <1>1, <1>5, <1>6

(* A token is read off the line; what is left is still in order. *)
LEMMA ReadToken ==
  ASSUME IInv, Read
  PROVE  /\ Token \in Token0 /\ Token[1] \in Owners(line)
         /\ line' \in Seq(Token0) /\ arrived' \in 0..Len(line')
         /\ Owners(line') \subseteq Owners(line)
<1>1. line \in Seq(Token0) /\ Len(line) \in Nat /\ arrived \in 0..Len(line) /\ arrived > 0
  BY TokensTyped DEF IInv, SeqTypes, TypeOK, Read
<1>2. line # <<>>
  BY <1>1, EmptySeq
<1>3. line' = Tail(line) /\ arrived' = arrived - 1
  BY DEF Read
<1>4. /\ Token \in Token0 /\ Token[1] \in Owners(line)
      /\ line' \in Seq(Token0) /\ Len(line') = Len(line) - 1
      /\ Owners(line') \subseteq Owners(line)
  BY <1>1, <1>2, <1>3, TailTokens DEF Token
<1>5. QED
  BY <1>1, <1>3, <1>4

(* A call always has room for the header. *)
LEMMA RoomType ==
  ASSUME req \in RequestType, UNCHANGED req
  PROVE  Room \in Nat \ {0} /\ Room' = Room
<1>1. req.len \in Nat
  BY DEF RequestType
<1>2. Room \in Nat \ {0}
  BY <1>1 DEF Room
<1>3. Room' = Room
  BY Zenon DEF Room
<1>4. QED
  BY <1>2, <1>3

(* A token goes to the header, or to the caller's buffer while it has room. *)
LEMMA StoreToken ==
  ASSUME IInv, Store, Token \in Token0, Token # END, pc \in {"skip", "body"}, UNCHANGED req
  PROVE  /\ got' \in Seq(Token0)
         /\ \A i \in DOMAIN got' : got'[i] \in (0..MaxCalls) \X Nat /\ got'[i] # END
         /\ Len(got') <= Room'
         /\ pc' \in {"check", "body"} /\ (pc' = "body" => Len(got') < Room')
         /\ Owners(got') \subseteq Owners(got) \cup {Token[1]}
<1>1. got \in Seq(Token0) /\ Len(got) \in Nat /\ DOMAIN got = 1..Len(got)
  BY TokensTyped DEF IInv, SeqTypes
<1>2. Room \in Nat \ {0} /\ Room' = Room
  BY RoomType DEF IInv, TypeOK
<1>3. Len(got) < Room
  BY <1>2, EmptyTokens DEF IInv, Filling
<1>4. /\ got' \in Seq(Token0)
      /\ Len(got') = Len(got) + 1
      /\ Owners(got') \subseteq Owners(got) \cup {Token[1]}
      /\ \A i \in 1..Len(got) + 1 : got'[i] = IF i <= Len(got) THEN got[i] ELSE Token
  BY <1>1, AppendTokens DEF Store
<1>5. \A i \in 1..Len(got) : got[i] # END
  BY <1>1 DEF IInv, TypeOK
<1>6. DOMAIN got' = 1..Len(got) + 1
  BY <1>4, LenProperties
<1>7. \A i \in DOMAIN got' : got'[i] # END
  BY <1>1, <1>4, <1>5, <1>6
<1>8. \A i \in DOMAIN got' : got'[i] \in (0..MaxCalls) \X Nat
  BY <1>4, TokensTyped
<1>9. pc' \in {"check", "body"} /\ (pc' = "body" => Len(got') # Room)
  BY DEF Store, Goto
<1>10. QED
  BY <1>1, <1>2, <1>3, <1>4, <1>7, <1>8, <1>9

(* What a step of the client keeps that reads a token and may store it. *)
LEMMA ReadKeeps ==
  ASSUME IInv, Read, pc \in {"sync", "skip", "body"},
         UNCHANGED <<cur, req, quiet, reqs, replies, runs, hits>>,
         pc' \in {"idle", "sync", "skip", "body", "check"},
         got' \in Seq(Token0),
         \A i \in DOMAIN got' : got'[i] \in (0..MaxCalls) \X Nat /\ got'[i] # END,
         Len(got') <= Room',
         pc' \in {"sync", "skip"} => got' = <<>>,
         pc' = "body" => Len(got') < Room',
         Owners(got') \subseteq Owners(got) \cup {Token[1]},
         skipped' \in Nat,
         outcome' \in [call : 0..MaxCalls, ok : BOOLEAN, seen : SUBSET (0..MaxCalls)],
         pc' = "idle" => ~outcome'.ok
  PROVE  IInv'
<1> USE DEF IInv
<1>1. /\ Token \in Token0 /\ Token[1] \in Owners(line)
      /\ line' \in Seq(Token0) /\ arrived' \in 0..Len(line')
      /\ Owners(line') \subseteq Owners(line)
  BY ReadToken
<1>2. SeqTypes'
  BY <1>1 DEF SeqTypes
<1>3. TypeOK'
  <2>1. \A i \in DOMAIN line' : line'[i] \in (0..MaxCalls) \X Nat
    BY <1>1, TokensTyped
  <2>2. Len(got') <= 1 + (IF req'.read THEN req'.len ELSE 0)
    BY DEF Room
  <2>3. QED
    BY <1>1, <2>1, <2>2 DEF TypeOK
<1>4. Filling'
  BY DEF Filling
<1>5. Callers' = Callers
  BY DEF Callers
<1>6. Requested'
  BY <1>5 DEF Requested
<1>7. Owners(line') \cup Owners(got') \subseteq Owners(line) \cup Owners(got)
  BY <1>1
<1>8. Replied'
  BY <1>7 DEF Replied
<1>9. Alone'
  BY <1>5, <1>7 DEF Alone
<1>10. OwnReply' /\ WholeReply'
  BY DEF OwnReply, WholeReply, At
<1>11. QED
  BY <1>2, <1>3, <1>4, <1>6, <1>8, <1>9, <1>10

(* The search for a frame stores nothing. *)
LEMMA SyncStep ==
  ASSUME IInv, Sync
  PROVE  IInv'
<1>1. /\ pc = "sync" /\ Read /\ skipped' = skipped + 1
      /\ UNCHANGED <<cur, req, got, quiet, reqs, replies, runs, hits>>
      /\ IF skipped' > SyncMax THEN Return(FALSE)
         ELSE pc' \in {"sync", "skip"} /\ UNCHANGED outcome
  BY DEF Sync, At, Goto
<1>2. got = <<>> /\ got \in Seq(Token0) /\ Len(got) = 0 /\ DOMAIN got = {}
  BY <1>1, EmptyTokens DEF IInv, Filling
<1>3. Room' = Room /\ Room \in Nat
  BY <1>1, RoomType DEF IInv, TypeOK
<1>4. /\ cur \in 0..MaxCalls /\ skipped' \in Nat
      /\ outcome \in [call : 0..MaxCalls, ok : BOOLEAN, seen : SUBSET (0..MaxCalls)]
  BY <1>1 DEF IInv, TypeOK
<1>5. CASE skipped' > SyncMax
  <2>1. /\ pc' = "idle" /\ ~outcome'.ok
        /\ outcome' \in [call : 0..MaxCalls, ok : BOOLEAN, seen : SUBSET (0..MaxCalls)]
    BY <1>1, <1>4, <1>5, GiveUp
  <2>2. QED
    BY <1>1, <1>2, <1>3, <1>4, <2>1, ReadKeeps
<1>6. CASE ~(skipped' > SyncMax)
  BY <1>1, <1>2, <1>3, <1>4, <1>6, ReadKeeps
<1>7. QED
  BY <1>5, <1>6

(* The first token of a frame is stored. *)
LEMMA SkipStep ==
  ASSUME IInv, Skip
  PROVE  IInv'
<1>1. /\ pc = "skip" /\ Read
      /\ UNCHANGED <<cur, req, skipped, quiet, outcome, reqs, replies, runs, hits>>
      /\ IF Token = END THEN UNCHANGED <<pc, got>> ELSE Store
  BY DEF Skip, At
<1>2. got = <<>> /\ got \in Seq(Token0) /\ Len(got) = 0 /\ DOMAIN got = {}
  BY <1>1, EmptyTokens DEF IInv, Filling
<1>3. Room' = Room /\ Room \in Nat
  BY <1>1, RoomType DEF IInv, TypeOK
<1>4. /\ skipped' \in Nat
      /\ outcome' \in [call : 0..MaxCalls, ok : BOOLEAN, seen : SUBSET (0..MaxCalls)]
  BY <1>1 DEF IInv, TypeOK
<1>5. CASE Token = END
  BY <1>1, <1>2, <1>3, <1>4, <1>5, ReadKeeps
<1>6. CASE Token # END
  <2>1. Token \in Token0
    BY <1>1, ReadToken
  <2>2. /\ got' \in Seq(Token0)
        /\ \A i \in DOMAIN got' : got'[i] \in (0..MaxCalls) \X Nat /\ got'[i] # END
        /\ Len(got') <= Room'
        /\ pc' \in {"check", "body"} /\ (pc' = "body" => Len(got') < Room')
        /\ Owners(got') \subseteq Owners(got) \cup {Token[1]}
    BY <1>1, <1>6, <2>1, StoreToken
  <2>3. QED
    BY <1>1, <1>4, <2>2, ReadKeeps
<1>7. QED
  BY <1>5, <1>6

(* The tokens after it are stored up to a delimiter or the end of the buffer. *)
LEMMA BodyStep ==
  ASSUME IInv, Body
  PROVE  IInv'
<1>1. /\ pc = "body" /\ Read
      /\ UNCHANGED <<cur, req, skipped, quiet, outcome, reqs, replies, runs, hits>>
      /\ IF Token = END THEN pc' = "check" /\ UNCHANGED got ELSE Store
  BY DEF Body, At, Goto
<1>2. Room' = Room /\ Len(got) <= Room /\ got \in Seq(Token0)
      /\ \A i \in DOMAIN got : got[i] \in (0..MaxCalls) \X Nat /\ got[i] # END
  BY <1>1 DEF IInv, TypeOK, SeqTypes, Room
<1>3. /\ skipped' \in Nat
      /\ outcome' \in [call : 0..MaxCalls, ok : BOOLEAN, seen : SUBSET (0..MaxCalls)]
  BY <1>1 DEF IInv, TypeOK
<1>4. CASE Token = END
  BY <1>1, <1>2, <1>3, <1>4, ReadKeeps
<1>5. CASE Token # END
  <2>1. Token \in Token0
    BY <1>1, ReadToken
  <2>2. /\ got' \in Seq(Token0)
        /\ \A i \in DOMAIN got' : got'[i] \in (0..MaxCalls) \X Nat /\ got'[i] # END
        /\ Len(got') <= Room'
        /\ pc' \in {"check", "body"} /\ (pc' = "body" => Len(got') < Room')
        /\ Owners(got') \subseteq Owners(got) \cup {Token[1]}
    BY <1>1, <1>5, <2>1, StoreToken
  <2>3. QED
    BY <1>1, <1>3, <2>2, ReadKeeps
<1>6. QED
  BY <1>4, <1>5

(* No byte comes: the call gives up, or looks at what it has. *)
LEMMA TimeoutStep ==
  ASSUME IInv, Timeout
  PROVE  IInv'
<1> USE DEF IInv
<1>1. /\ pc \in {"sync", "skip", "body"}
      /\ UNCHANGED <<cur, req, got, skipped, quiet, far>>
      /\ IF pc = "body" THEN pc' = "check" /\ UNCHANGED outcome ELSE Return(FALSE)
  BY DEF Timeout, At, Goto
<1>2. /\ pc' \in {"idle", "check"} /\ (pc' = "idle" => ~outcome'.ok)
      /\ outcome' \in [call : 0..MaxCalls, ok : BOOLEAN, seen : SUBSET (0..MaxCalls)]
  <2>1. CASE pc = "body"
    BY <1>1, <2>1 DEF TypeOK
  <2>2. CASE pc # "body"
    BY <1>1, <2>2, GiveUp DEF TypeOK
  <2>3. QED
    BY <2>1, <2>2
<1>3. UNCHANGED <<reqs, replies, runs, line, arrived, hits>>
  BY <1>1 DEF far
<1>4. SeqTypes' /\ TypeOK'
  BY <1>1, <1>2, <1>3 DEF SeqTypes, TypeOK
<1>5. Callers' = Callers /\ Owners(line') = Owners(line) /\ Owners(got') = Owners(got)
  BY <1>1, <1>3 DEF Callers, Owners
<1>6. Filling' /\ Requested' /\ Replied' /\ Alone'
  BY <1>1, <1>2, <1>3, <1>5 DEF Filling, Requested, Replied, Alone
<1>7. OwnReply' /\ WholeReply'
  BY <1>2 DEF OwnReply, WholeReply, At
<1>8. QED
  BY <1>4, <1>6, <1>7

(* What the checks let through is one whole reply, and all of one call. *)
LEMMA Accepted ==
  ASSUME IInv, Accept
  PROVE  \E f \in CallIds :
           /\ got = [i \in 1..1 + replies[f].len |-> Piece(f, i)]
           /\ replies[f].ack /\ replies[f].dev = req.dev
           /\ Owners(got) = {f}
<1>1. got \in Seq(Token0) /\ Len(got) \in Nat /\ DOMAIN got = 1..Len(got)
  BY TokensTyped DEF IInv, SeqTypes
<1>2. PICK f \in CallIds : got[1] = Piece(f, 1)
  BY DEF Accept, HasHeader
<1>3. got[1][1] = f /\ Header = replies[f]
  BY <1>2 DEF Piece, Header
<1>4. Len(got) > 0 /\ Len(got) = 1 + replies[f].len
  BY <1>3 DEF Accept, HasHeader, LengthOK
<1>5. \A i \in 1..Len(got) : got[i] = Piece(f, i)
  BY <1>3 DEF Accept, ChecksumOK
<1>6. got = [i \in 1..Len(got) |-> got[i]]
  BY <1>1, LenProperties
<1>7. got = [i \in 1..Len(got) |-> Piece(f, i)]
  BY <1>5, <1>6
<1>8. replies[f].ack /\ replies[f].dev = req.dev
  BY <1>3 DEF Accept, DeviceOK, AckOK
<1>9. Owners(got) = {f}
  <2>1. \A i \in DOMAIN got : got[i][1] = f
    BY <1>1, <1>5 DEF Piece
  <2>2. 1 \in DOMAIN got
    BY <1>1, <1>4
  <2>3. QED
    BY <2>1, <2>2 DEF Owners
<1>10. QED
  BY <1>4, <1>7, <1>8, <1>9

(* Nothing but the call's own answer is left to be accepted after a quiet
   drain. *)
LEMMA CheckStep ==
  ASSUME IInv, Check
  PROVE  IInv'
<1> USE DEF IInv
<1>1. /\ pc = "check" /\ Return(Accept) /\ pc' = "idle"
      /\ UNCHANGED <<cur, req, got, skipped, quiet, far>>
  BY DEF Check, At, Goto, Return
<1>2. UNCHANGED <<reqs, replies, runs, line, arrived, hits>>
  BY <1>1 DEF far
<1>3. Callers' = Callers /\ Owners(line') = Owners(line) /\ Owners(got') = Owners(got)
  BY <1>1, <1>2 DEF Callers, Owners
<1>4. SeqTypes' /\ Filling' /\ Requested' /\ Replied' /\ Alone'
  BY <1>1, <1>2, <1>3 DEF SeqTypes, Filling, Requested, Replied, Alone
<1>5. CASE Accept
  <2>1. PICK f \in CallIds :
          /\ got = [i \in 1..1 + replies[f].len |-> Piece(f, i)]
          /\ replies[f].ack /\ replies[f].dev = req.dev
          /\ Owners(got) = {f}
    BY <1>5, Accepted
  <2>2. outcome' = [call |-> cur, ok |-> TRUE, seen |-> Owners(got)]
    BY <1>1, <1>5 DEF Return
  <2>3. Owners(got) \in SUBSET (0..MaxCalls)
    BY OwnersType DEF SeqTypes
  <2>4. outcome' \in [call : 0..MaxCalls, ok : BOOLEAN, seen : SUBSET (0..MaxCalls)]
    BY <2>2, <2>3, Zenon DEF TypeOK
  <2>5. TypeOK'
    BY <1>1, <1>2, <2>4 DEF TypeOK
  <2>6. OwnReply'
    <3>1. f \in Owners(got) /\ f # 0
      BY <2>1, FujiBusAssumption DEF CallIds
    <3>2. quiet => Owners(got) \subseteq {0, cur}
      BY <1>1 DEF Alone
    <3>3. quiet => f = cur
      BY <3>1, <3>2
    <3>4. QED
      BY <1>1, <2>1, <2>2, <3>3 DEF OwnReply
  <2>7. WholeReply'
    BY <1>1, <1>2, <2>1 DEF WholeReply
  <2>8. QED
    BY <1>4, <2>5, <2>6, <2>7
<1>6. CASE ~Accept
  <2>1. Return(FALSE)
    BY <1>1, <1>6 DEF Return
  <2>2. /\ ~outcome'.ok
        /\ outcome' \in [call : 0..MaxCalls, ok : BOOLEAN, seen : SUBSET (0..MaxCalls)]
    BY <2>1, GiveUp DEF TypeOK
  <2>3. TypeOK' /\ OwnReply' /\ WholeReply'
    BY <1>1, <1>2, <2>2 DEF TypeOK, OwnReply, WholeReply
  <2>4. QED
    BY <1>4, <2>3
<1>7. QED
  BY <1>5, <1>6

(***************************************************************************)
(* The steps of the device and the line.                                   *)
(***************************************************************************)

(* A step that only moves, loses or garbles tokens of the line. *)
LEMMA LineKeeps ==
  ASSUME IInv, UNCHANGED <<client, reqs, replies, runs>>,
         line' \in Seq(Token0), arrived' \in 0..Len(line'), hits' \in 0..MaxHits,
         Owners(line') \subseteq Owners(line) \cup {0}
  PROVE  IInv'
<1> USE DEF IInv
<1>1. UNCHANGED <<pc, cur, req, got, skipped, quiet, outcome, reqs, replies, runs>>
  BY DEF client
<1>2. \A i \in DOMAIN line' : line'[i] \in (0..MaxCalls) \X Nat
  BY TokensTyped
<1>3. TypeOK' /\ SeqTypes'
  BY <1>1, <1>2 DEF TypeOK, SeqTypes
<1>4. Callers' = Callers /\ Owners(got') = Owners(got)
  BY <1>1 DEF Callers, Owners
<1>5. Filling'
  BY <1>1 DEF Filling, Room
<1>6. Requested' /\ Replied' /\ Alone'
  BY <1>1, <1>4 DEF Requested, Replied, Alone
<1>7. OwnReply' /\ WholeReply'
  BY <1>1 DEF OwnReply, WholeReply, At
<1>8. QED
  BY <1>3, <1>5, <1>6, <1>7

(* The device answers a call that was not answered yet, so no reply that is
   on the line or was accepted changes. *)
LEMMA ServeStep ==
  ASSUME IInv, Serve
  PROVE  IInv'
<1> USE DEF IInv
<1> DEFINE R == [call : CallIds, dev : Devices]
           c == Head(reqs).call
<1>1. /\ reqs # <<>> /\ reqs' = Tail(reqs)
      /\ UNCHANGED <<pc, cur, req, got, skipped, quiet, outcome, arrived, hits>>
  BY DEF Serve, client
<1>2. PICK a \in BOOLEAN, n \in AnswerLens :
        /\ replies' = [replies EXCEPT ![c] = [dev |-> Head(reqs).dev, ack |-> a, len |-> n]]
        /\ line' = line \o Frame(c, n)
        /\ runs' = [runs EXCEPT ![c] = @ + 1]
  BY DEF Serve
<1>3. /\ reqs \in Seq(R) /\ Len(reqs) \in Nat \ {0} /\ DOMAIN reqs = 1..Len(reqs)
      /\ Head(reqs) \in R /\ Head(reqs) = reqs[1]
      /\ reqs' \in Seq(R) /\ Len(reqs') = Len(reqs) - 1 /\ DOMAIN reqs' = 1..Len(reqs')
      /\ \A i \in 1..Len(reqs') : reqs'[i] = reqs[i + 1]
  <2>1. reqs \in Seq(R)
    BY DEF SeqTypes
  <2>2. Len(reqs) \in Nat \ {0}
    BY <1>1, <2>1, EmptySeq
  <2>3. /\ Head(reqs) \in R
        /\ reqs' \in Seq(R) /\ Len(reqs') = Len(reqs) - 1
        /\ \A i \in 1..Len(reqs') : reqs'[i] = reqs[i + 1]
    BY <1>1, <2>1, HeadTailProperties
  <2>4. DOMAIN reqs = 1..Len(reqs) /\ DOMAIN reqs' = 1..Len(reqs')
    BY <2>1, <2>3, LenProperties
  <2>5. Head(reqs) = reqs[1]
    OBVIOUS
  <2>6. QED
    BY <2>1, <2>2, <2>3, <2>4, <2>5
<1> HIDE DEF R
<1>4. c \in CallIds /\ Head(reqs).dev \in Devices /\ c = reqs[1].call
  BY <1>3 DEF R
<1>5. c \in Callers /\ c <= cur /\ runs[c] = 0
  <2>1. 1 \in DOMAIN reqs
    BY <1>3
  <2>2. c \in Callers
    BY <1>4, <2>1 DEF Callers
  <2>3. QED
    BY <1>4, <2>2 DEF Requested, CallIds, TypeOK
<1>6. Callers' \subseteq Callers \ {c}
  <2>1. ASSUME NEW i \in 1..Len(reqs') PROVE reqs'[i].call \in Callers /\ reqs'[i].call # c
    <3>1. i + 1 \in DOMAIN reqs /\ 1 \in DOMAIN reqs /\ i + 1 # 1 /\ reqs'[i] = reqs[i + 1]
      BY <1>3
    <3>2. reqs[i + 1].call # reqs[1].call
      BY <3>1 DEF Requested
    <3>3. QED
      BY <1>4, <3>1, <3>2 DEF Callers
  <2>2. QED
    BY <1>3, <2>1 DEF Callers
<1>7. /\ replies' \in [CallIds -> ReplyType]
      /\ \A f \in CallIds \ {c} : replies'[f] = replies[f]
  <2>1. [dev |-> Head(reqs).dev, ack |-> a, len |-> n] \in ReplyType
    BY <1>4 DEF ReplyType
  <2>2. QED
    BY <1>2, <2>1 DEF TypeOK
<1>8. /\ runs' \in [CallIds -> Nat] /\ runs'[c] = 1
      /\ \A f \in CallIds \ {c} : runs'[f] = runs[f]
  BY <1>2, <1>4, <1>5 DEF TypeOK
<1>9. /\ line' \in Seq(Token0) /\ Len(line') >= Len(line)
      /\ Owners(line') \subseteq Owners(line) \cup {0, c}
  <2>1. line \in Seq(Token0) /\ Len(line) \in Nat
    BY TokensTyped DEF SeqTypes
  <2>2. /\ Frame(c, n) \in Seq(Token0) /\ Len(Frame(c, n)) \in Nat
        /\ Owners(Frame(c, n)) \subseteq {0, c}
    BY <1>4, FrameTokens, TokensTyped
  <2>3. /\ line' \in Seq(Token0) /\ Len(line') = Len(line) + Len(Frame(c, n))
        /\ Owners(line') \subseteq Owners(line) \cup Owners(Frame(c, n))
    BY <1>2, <2>1, <2>2, ConcatTokens
  <2>4. QED
    BY <2>1, <2>2, <2>3
<1>10. SeqTypes'
  BY <1>1, <1>3, <1>9 DEF SeqTypes, R
<1>11. TypeOK'
  <2>1. \A i \in DOMAIN reqs' : reqs'[i] \in [call : CallIds, dev : Devices]
    BY <1>3, ElementOfSeq DEF R
  <2>2. /\ \A i \in DOMAIN line' : line'[i] \in (0..MaxCalls) \X Nat
        /\ Len(line') \in Nat
    BY <1>9, TokensTyped
  <2>3. arrived' \in 0..Len(line')
    BY <1>1, <1>9, <2>2, TokensTyped DEF TypeOK, SeqTypes
  <2>4. QED
    BY <1>1, <1>7, <1>8, <2>1, <2>2, <2>3 DEF TypeOK
<1>12. Filling'
  BY <1>1 DEF Filling, Room
<1>13. Requested'
  <2>1. Callers' \subseteq 1..cur'
    BY <1>1, <1>6 DEF Requested
  <2>2. \A i, j \in DOMAIN reqs' : reqs'[i].call = reqs'[j].call => i = j
    <3>1. SUFFICES ASSUME NEW i \in 1..Len(reqs'), NEW j \in 1..Len(reqs'),
                          reqs'[i].call = reqs'[j].call
                   PROVE  i = j
      BY <1>3
    <3>2. i + 1 \in DOMAIN reqs /\ j + 1 \in DOMAIN reqs /\ reqs[i + 1].call = reqs[j + 1].call
      BY <1>3, <3>1
    <3>3. i + 1 = j + 1
      BY <3>2 DEF Requested
    <3>4. QED
      BY <3>3
  <2>3. \A f \in CallIds : f \in Callers' \/ f > cur' => runs'[f] = 0
    <3>1. ASSUME NEW f \in CallIds, f \in Callers' \/ f > cur' PROVE runs'[f] = 0
      <4>1. f # c
        BY <1>1, <1>5, <1>6, <3>1 DEF TypeOK, CallIds
      <4>2. f \in Callers \/ f > cur
        BY <1>1, <1>6, <3>1
      <4>3. QED
        BY <1>8, <4>1, <4>2 DEF Requested
    <3>2. QED
      BY <3>1
  <2>4. pc' \in {"drain", "send"} => cur' \notin Callers' /\ runs'[cur'] = 0 /\ cur' > 0
    <3>1. SUFFICES ASSUME pc \in {"drain", "send"}
                   PROVE  cur \notin Callers' /\ runs'[cur] = 0 /\ cur > 0
      BY <1>1
    <3>2. cur \notin Callers /\ runs[cur] = 0 /\ cur > 0 /\ cur \in CallIds
      BY <3>1 DEF Requested, TypeOK, CallIds
    <3>3. cur # c
      BY <1>5, <3>2
    <3>4. QED
      BY <1>6, <1>8, <3>2, <3>3
  <2>5. QED
    BY <2>1, <2>2, <2>3, <2>4 DEF Requested
<1>14. Replied'
  <2>1. ASSUME NEW f \in (Owners(line') \cup Owners(got')) \ {0} PROVE f <= cur' /\ runs'[f] > 0
    <3>1. CASE f = c
      BY <1>1, <1>5, <1>8, <3>1
    <3>2. CASE f # c
      <4>1. f \in (Owners(line) \cup Owners(got)) \ {0}
        BY <1>1, <1>9, <2>1, <3>2
      <4>2. f \in CallIds
        BY <4>1, OwnersType DEF SeqTypes, CallIds
      <4>3. f <= cur /\ runs[f] > 0
        BY <4>1 DEF Replied
      <4>4. QED
        BY <1>1, <1>8, <3>2, <4>2, <4>3
    <3>3. QED
      BY <3>1, <3>2
  <2>2. QED
    BY <2>1 DEF Replied
<1>15. Alone'
  BY <1>1, <1>5, <1>6, <1>9 DEF Alone
<1>16. OwnReply'
  BY <1>1 DEF OwnReply, At
<1>17. WholeReply'
  <2>1. SUFFICES ASSUME pc = "idle", outcome.ok
                 PROVE  \E f \in CallIds :
                          /\ got = [i \in 1..1 + replies'[f].len |-> Piece(f, i)]
                          /\ replies'[f].ack /\ replies'[f].dev = req.dev
    BY <1>1 DEF WholeReply, At
  <2>2. PICK f \in CallIds :
          /\ got = [i \in 1..1 + replies[f].len |-> Piece(f, i)]
          /\ replies[f].ack /\ replies[f].dev = req.dev
    BY <2>1 DEF WholeReply, At
  <2>3. replies[f].len \in Nat
    BY DEF TypeOK, ReplyType
  <2>4. 1 \in DOMAIN got /\ got[1] = Piece(f, 1)
    BY <2>2, <2>3
  <2>5. f \in Owners(got) \ {0}
    BY <2>4 DEF Owners, Piece, CallIds
  <2>6. f # c
    BY <1>5, <2>5 DEF Replied
  <2>7. QED
    BY <1>7, <2>2, <2>6
<1>18. QED
  BY <1>10, <1>11, <1>12, <1>13, <1>14, <1>15, <1>16, <1>17

(* A token reaches the port. *)
LEMMA ArriveStep ==
  ASSUME IInv, Arrive
  PROVE  IInv'
<1>1. line \in Seq(Token0) /\ Len(line) \in Nat /\ arrived \in 0..Len(line)
  BY TokensTyped DEF IInv, SeqTypes, TypeOK
<1>2. line' = line /\ arrived' \in 0..Len(line') /\ hits' \in 0..MaxHits
      /\ UNCHANGED <<client, reqs, replies, runs>>
  BY <1>1 DEF Arrive, IInv, TypeOK
<1>3. QED
  BY <1>1, <1>2, LineKeeps

(* A token is lost on its way. *)
LEMMA LoseStep ==
  ASSUME IInv, Lose
  PROVE  IInv'
<1>1. line \in Seq(Token0) /\ Len(line) \in Nat /\ arrived \in 0..Len(line)
  BY TokensTyped DEF IInv, SeqTypes, TypeOK
<1>2. PICK i \in arrived+1..Len(line) :
        line' = SubSeq(line, 1, i - 1) \o SubSeq(line, i + 1, Len(line))
  BY DEF Lose
<1>3. /\ SubSeq(line, 1, i - 1) \in Seq(Token0)
      /\ Len(SubSeq(line, 1, i - 1)) = i - 1
      /\ Owners(SubSeq(line, 1, i - 1)) \subseteq Owners(line)
  <2>1. 1 \in 1..Len(line)+1 /\ i - 1 \in 0..Len(line)
    BY <1>1
  <2>2. /\ SubSeq(line, 1, i - 1) \in Seq(Token0)
        /\ Len(SubSeq(line, 1, i - 1)) = IF 1 <= i - 1 THEN i - 1 - 1 + 1 ELSE 0
        /\ Owners(SubSeq(line, 1, i - 1)) \subseteq Owners(line)
    BY <1>1, <2>1, SubSeqTokens
  <2>3. QED
    BY <1>1, <2>2
<1>4. /\ SubSeq(line, i + 1, Len(line)) \in Seq(Token0)
      /\ Len(SubSeq(line, i + 1, Len(line))) = Len(line) - i
      /\ Owners(SubSeq(line, i + 1, Len(line))) \subseteq Owners(line)
  <2>1. i + 1 \in 1..Len(line)+1 /\ Len(line) \in 0..Len(line)
    BY <1>1
  <2>2. /\ SubSeq(line, i + 1, Len(line)) \in Seq(Token0)
        /\ Len(SubSeq(line, i + 1, Len(line)))
             = IF i + 1 <= Len(line) THEN Len(line) - (i + 1) + 1 ELSE 0
        /\ Owners(SubSeq(line, i + 1, Len(line))) \subseteq Owners(line)
    BY <1>1, <2>1, SubSeqTokens
  <2>3. QED
    BY <1>1, <2>2
<1>5. /\ line' \in Seq(Token0) /\ Len(line') = Len(line) - 1
      /\ Owners(line') \subseteq Owners(line)
  <2> DEFINE a == SubSeq(line, 1, i - 1)
             b == SubSeq(line, i + 1, Len(line))
  <2>1. /\ a \in Seq(Token0) /\ b \in Seq(Token0)
        /\ Len(a) = i - 1 /\ Len(b) = Len(line) - i
        /\ Owners(a) \subseteq Owners(line) /\ Owners(b) \subseteq Owners(line)
        /\ line' = a \o b
    BY <1>2, <1>3, <1>4
  <2> HIDE DEF a, b
  <2>2. /\ a \o b \in Seq(Token0) /\ Len(a \o b) = Len(a) + Len(b)
        /\ Owners(a \o b) \subseteq Owners(a) \cup Owners(b)
    BY <2>1, ConcatTokens
  <2>3. Len(line') = Len(line) - 1
    BY <1>1, <2>1, <2>2
  <2>4. QED
    BY <2>1, <2>2, <2>3
<1>6. arrived' \in 0..Len(line') /\ hits' \in 0..MaxHits
      /\ UNCHANGED <<client, reqs, replies, runs>>
  <2>1. arrived' = arrived /\ arrived < i /\ i \in 1..Len(line)
    BY <1>1 DEF Lose
  <2>2. arrived' \in 0..Len(line')
    BY <1>1, <1>5, <2>1
  <2>3. hits' \in 0..MaxHits /\ UNCHANGED <<client, reqs, replies, runs>>
    BY DEF Lose, IInv, TypeOK
  <2>4. QED
    BY <2>2, <2>3
<1>7. QED
  BY <1>5, <1>6, LineKeeps

(* A token is garbled on its way. *)
LEMMA GarbleStep ==
  ASSUME IInv, Garble
  PROVE  IInv'
<1>1. line \in Seq(Token0) /\ Len(line) \in Nat /\ arrived \in 0..Len(line)
  BY TokensTyped DEF IInv, SeqTypes, TypeOK
<1>2. PICK i \in arrived+1..Len(line), t \in {Junk, END} : line' = [line EXCEPT ![i] = t]
  BY DEF Garble, Noise
<1>3. i \in 1..Len(line) /\ t \in Token0 /\ t[1] = 0
  BY <1>1 DEF Junk, END, Token0
<1>4. /\ line' \in Seq(Token0) /\ Len(line') = Len(line)
      /\ Owners(line') \subseteq Owners(line) \cup {0}
  BY <1>1, <1>2, <1>3, ExceptTokens
<1>5. arrived' \in 0..Len(line') /\ hits' \in 0..MaxHits
      /\ UNCHANGED <<client, reqs, replies, runs>>
  BY <1>1, <1>4 DEF Garble, IInv, TypeOK
<1>6. QED
  BY <1>4, <1>5, LineKeeps

(***************************************************************************)
(* The theorems.                                                           *)
(***************************************************************************)

(* No step disturbs the invariant. *)
LEMMA NextInv == IInv /\ [Next]_vars => IInv'
<1> SUFFICES ASSUME IInv, [Next]_vars PROVE IInv'
  OBVIOUS
<1>1. CASE Call
  BY <1>1, CallStep
<1>2. CASE Drain
  BY <1>2, DrainStep
<1>3. CASE Send
  BY <1>3, SendStep
<1>4. CASE Sync
  BY <1>4, SyncStep
<1>5. CASE Skip
  BY <1>5, SkipStep
<1>6. CASE Body
  BY <1>6, BodyStep
<1>7. CASE Timeout
  BY <1>7, TimeoutStep
<1>8. CASE Check
  BY <1>8, CheckStep
<1>9. CASE Serve
  BY <1>9, ServeStep
<1>10. CASE Arrive
  BY <1>10, ArriveStep
<1>11. CASE Lose
  BY <1>11, LoseStep
<1>12. CASE Garble
  BY <1>12, GarbleStep
<1>13. CASE UNCHANGED vars
  <2>1. UNCHANGED <<pc, cur, req, got, skipped, quiet, outcome,
                    reqs, replies, runs, line, arrived, hits>>
    BY <1>13 DEF vars, client, far
  <2>2. line \in Seq(Token0) /\ Owners(line) \subseteq Owners(line) \cup {0}
        /\ arrived \in 0..Len(line) /\ hits \in 0..MaxHits
    BY DEF IInv, SeqTypes, TypeOK
  <2>3. QED
    BY <2>1, <2>2, LineKeeps DEF client
<1>14. QED
  BY <1>1, <1>2, <1>3, <1>4, <1>5, <1>6, <1>7, <1>8, <1>9, <1>10, <1>11, <1>12, <1>13
  DEF Next, Client

(* The invariant of fuji_packet_call, port_drain and the device. *)
THEOREM Invariant == Spec => []IInv
BY InitInv, NextInv, PTL DEF Spec

(* Types; no more is stored than the header and the caller's buffer, however
   long the reply is (port_getbuf_slip_dual). *)
THEOREM TypeCorrect == Spec => []TypeOK
<1>1. IInv => TypeOK
  BY DEF IInv
<1>2. QED
  BY <1>1, Invariant, PTL

(* A call that found at its port all there was to drain succeeds only by its
   own reply. *)
THEOREM OwnReplyCorrect == Spec => []OwnReply
<1>1. IInv => OwnReply
  BY DEF IInv
<1>2. QED
  BY <1>1, Invariant, PTL

(* Whatever reply a call accepts is one whole acknowledging reply from the
   device it called. *)
THEOREM WholeReplyCorrect == Spec => []WholeReply
<1>1. IInv => WholeReply
  BY DEF IInv
<1>2. QED
  BY <1>1, Invariant, PTL

-----------------------------------------------------------------------------
(***************************************************************************)
(* The bus call: fuji_bus_call() over a serial port implements it, if the  *)
(* device answers in time, SYNC_MAX is longer than any reply and noise     *)
(* makes up no delimiter.                                                  *)
(***************************************************************************)

(* The search for a frame discards more than any reply and its delimiters. *)
LongSync == \A n \in AnswerLens : n + 4 <= SyncMax

(* Noise is no delimiter, and the device is never late. *)
GoodLine == Prompt /\ ~FalseEnds /\ LongSync

(***************************************************************************)
(* The invariant: what is on the line, and where its delimiters are.       *)
(***************************************************************************)

IsHeader(t) == t[1] # 0 /\ t[2] = 1

\* delimiters among tokens m..n of the line only where P says
Ends(m, n, where) == \A i \in m..n : line[i] = END => i \in where

(* Nothing is owed, and what is left of older replies ends with the only
   delimiter in it: a search that finds it is through. *)
Cold == reqs = <<>> /\ Len(line) <= SyncMax - 2 /\ Ends(1, Len(line), {Len(line)})

(* The tokens from m on are, or were, the frame of the current call. *)
OwnFrame(m) ==
  /\ Len(line) - m <= SyncMax - 2
  /\ Ends(m, Len(line), {m, Len(line)})
  /\ \A i \in m..Len(line) : IsHeader(line[i]) => line[i][1] = cur

(* The search is in the rest of an older reply, k tokens long; the call's own
   reply follows it. *)
Searching(k) ==
  /\ skipped + k <= SyncMax - 2
  /\ Ends(1, k, {k})
  /\ OwnFrame(k + 1)
  /\ reqs # <<>> => k = Len(line)

(* A delimiter was found: what follows is the call's own reply. *)
Found == OwnFrame(1) /\ (reqs # <<>> => line = <<>>)

LineInv ==
  /\ pc \in {"drain", "send"} => skipped = 0
  /\ pc \in {"idle", "drain", "send", "body", "check"} => Cold
  /\ pc = "sync" => Cold \/ \E k \in 0..Len(line) : Searching(k)
  /\ pc = "skip" => Found

(* Only the current call is asked for, and is served once; only its header can
   be the first token stored. *)
CallInv ==
  /\ Callers \subseteq {cur}
  /\ \A c \in CallIds : runs[c] \in {0, 1}
  /\ pc \in {"body", "check"} => Len(got) > 0 /\ (IsHeader(got[1]) => got[1][1] = cur)

RInv == LineInv /\ CallInv

(***************************************************************************)
(* Reading the line.                                                       *)
(***************************************************************************)

(* The types this proof uses. *)
LEMMA Types ==
  ASSUME IInv
  PROVE  /\ line \in Seq(Token0) /\ Len(line) \in Nat /\ arrived \in 0..Len(line)
         /\ skipped \in Nat /\ SyncMax \in Nat /\ cur \in 0..MaxCalls
         /\ got \in Seq(Token0) /\ Len(got) \in Nat
         /\ reqs \in Seq([call : CallIds, dev : Devices])
<1>1. line \in Seq(Token0) /\ got \in Seq(Token0)
      /\ reqs \in Seq([call : CallIds, dev : Devices])
  BY DEF IInv, SeqTypes
<1>2. Len(line) \in Nat /\ Len(got) \in Nat
  BY <1>1, TokensTyped
<1>3. arrived \in 0..Len(line) /\ skipped \in Nat /\ SyncMax \in Nat /\ cur \in 0..MaxCalls
  BY DEF IInv, TypeOK
<1>4. QED
  BY <1>1, <1>2, <1>3

(* A token is taken off the line. *)
LEMMA OneLess ==
  ASSUME IInv, Read
  PROVE  /\ line # <<>> /\ Len(line) > 0 /\ Token = line[1] /\ Token \in Token0
         /\ Len(line') = Len(line) - 1 /\ Len(line') \in Nat
         /\ \A i \in 1..Len(line') : line'[i] = line[i + 1] /\ i + 1 \in 1..Len(line)
<1>1. line \in Seq(Token0) /\ Len(line) \in Nat /\ arrived \in 0..Len(line) /\ arrived > 0
      /\ line' = Tail(line)
  BY Types DEF Read
<1>2. line # <<>> /\ Len(line) > 0
  BY <1>1, EmptySeq
<1>3. /\ Head(line) = line[1] /\ Head(line) \in Token0
      /\ Len(line') = Len(line) - 1
      /\ \A i \in 1..Len(line') : line'[i] = line[i + 1]
  BY <1>1, <1>2, HeadTailProperties
<1>4. \A i \in 1..Len(line') : i + 1 \in 1..Len(line)
  BY <1>1, <1>3
<1>5. QED
  BY <1>1, <1>2, <1>3, <1>4 DEF Token

(* The rest of an older reply gets shorter. *)
LEMMA ColdRead ==
  ASSUME IInv, Cold, Read, UNCHANGED reqs
  PROVE  Cold' /\ (Token = END => line' = <<>>)
<1>1. /\ Len(line) > 0 /\ Token = line[1] /\ Len(line') = Len(line) - 1 /\ Len(line') \in Nat
      /\ \A i \in 1..Len(line') : line'[i] = line[i + 1] /\ i + 1 \in 1..Len(line)
  BY OneLess
<1>2. Len(line) \in Nat /\ SyncMax \in Nat
  BY Types
<1>3. Cold'
  BY <1>1, <1>2 DEF Cold, Ends
<1>4. Token = END => line' = <<>>
  <2>1. SUFFICES ASSUME Token = END PROVE line' = <<>>
    OBVIOUS
  <2>2. Len(line) = 1
    <3>1. 1 \in 1..Len(line) /\ line[1] = END
      BY <1>1, <1>2, <2>1
    <3>2. 1 \in {Len(line)}
      BY <3>1, Zenon DEF Cold, Ends
    <3>3. QED
      BY <3>2
  <2>3. line' \in Seq(Token0) /\ Len(line') = 0
    BY <1>1, <2>2, ReadToken
  <2>4. QED
    BY <2>3, EmptySeq
<1>5. QED
  BY <1>3, <1>4

(* So does the call's own reply. *)
LEMMA OwnRead ==
  ASSUME IInv, OwnFrame(1), Read, UNCHANGED cur
  PROVE  /\ OwnFrame(1)' /\ (IsHeader(Token) => Token[1] = cur)
         /\ Len(line') <= SyncMax - 2
         /\ Ends(1, Len(line), {1, Len(line)})' /\ Ends(1, Len(line), {Len(line)})'
<1>1. /\ Len(line) > 0 /\ Token = line[1] /\ Len(line') = Len(line) - 1 /\ Len(line') \in Nat
      /\ \A i \in 1..Len(line') : line'[i] = line[i + 1] /\ i + 1 \in 1..Len(line)
  BY OneLess
<1>2. Len(line) \in Nat /\ SyncMax \in Nat
  BY Types
<1>3. Len(line') <= SyncMax - 2
  BY <1>1, <1>2 DEF OwnFrame
<1>4. Ends(1, Len(line), {Len(line)})'
  BY <1>1, <1>2 DEF OwnFrame, Ends
<1>5. Ends(1, Len(line), {1, Len(line)})'
  BY <1>4 DEF Ends
<1>6. \A i \in 1..Len(line') : IsHeader(line'[i]) => line'[i][1] = cur
  BY <1>1, <1>2 DEF OwnFrame
<1>7. IsHeader(Token) => Token[1] = cur
  BY <1>1, <1>2 DEF OwnFrame
<1>8. OwnFrame(1)'
  BY <1>1, <1>2, <1>3, <1>5, <1>6 DEF OwnFrame
<1>9. QED
  BY <1>3, <1>4, <1>5, <1>7, <1>8

(* The search goes through the rest of an older reply, or comes to the call's
   own. *)
LEMMA SearchRead ==
  ASSUME IInv, NEW k \in 0..Len(line), Searching(k), Read, skipped' = skipped + 1,
         UNCHANGED <<cur, reqs>>
  PROVE  /\ skipped' <= SyncMax
         /\ Token = END => Found'
         /\ Token # END => Cold' \/ \E j \in 0..Len(line') : Searching(j)'
<1>1. /\ line # <<>> /\ Len(line) > 0 /\ Token = line[1]
      /\ Len(line') = Len(line) - 1 /\ Len(line') \in Nat
      /\ \A i \in 1..Len(line') : line'[i] = line[i + 1] /\ i + 1 \in 1..Len(line)
  BY OneLess
<1>2. Len(line) \in Nat /\ SyncMax \in Nat /\ skipped \in Nat /\ line' \in Seq(Token0)
  BY Types, ReadToken
<1>3. skipped' <= SyncMax
  BY <1>2 DEF Searching
<1>4. CASE k = 0
  <2>1. OwnFrame(1) /\ reqs = <<>>
    BY <1>1, <1>4 DEF Searching
  <2>2. /\ OwnFrame(1)' /\ Len(line') <= SyncMax - 2 /\ Ends(1, Len(line), {Len(line)})'
    BY <2>1, OwnRead
  <2>3. Found' /\ Cold'
    BY <2>1, <2>2 DEF Found, Cold
  <2>4. QED
    BY <1>3, <2>3
<1>5. CASE k > 0
  <2> DEFINE j == k - 1
  <2>1. j \in 0..Len(line') /\ j + 1 = k
    BY <1>1, <1>2, <1>5
  <2>2. skipped' + j <= SyncMax - 2
    BY <1>2, <2>1 DEF Searching
  <2>3. Ends(1, j, {j})'
    BY <1>1, <1>2, <2>1 DEF Searching, Ends
  <2>4. OwnFrame(j + 1)'
    <3>1. Len(line') - (j + 1) <= SyncMax - 2
      BY <1>1, <1>2, <2>1 DEF Searching, OwnFrame
    <3>2. ASSUME NEW i \in j + 1..Len(line')
          PROVE  /\ line'[i] = END => i \in {j + 1, Len(line')}
                 /\ IsHeader(line'[i]) => line'[i][1] = cur
      <4>1. i + 1 \in k + 1..Len(line) /\ line'[i] = line[i + 1]
        BY <1>1, <1>2, <2>1
      <4>2. /\ line[i + 1] = END => i + 1 \in {k + 1, Len(line)}
            /\ IsHeader(line[i + 1]) => line[i + 1][1] = cur
        BY <4>1 DEF Searching, OwnFrame, Ends
      <4>3. QED
        BY <1>1, <1>2, <2>1, <4>1, <4>2
    <3>3. QED
      BY <3>1, <3>2 DEF OwnFrame, Ends
  <2>5. reqs' # <<>> => j = Len(line')
    BY <1>1, <1>2, <2>1 DEF Searching
  <2>6. Searching(j)'
    BY <2>2, <2>3, <2>4, <2>5 DEF Searching
  <2>7. Token = END => Found'
    <3>1. SUFFICES ASSUME Token = END PROVE Found'
      OBVIOUS
    <3>2. k = 1
      <4>1. 1 \in 1..k /\ line[1] = END
        BY <1>1, <1>5, <3>1
      <4>2. 1 \in {k}
        BY <4>1, Zenon DEF Searching, Ends
      <4>3. QED
        BY <4>2
    <3>3. j = 0
      BY <3>2
    <3>4. OwnFrame(1)'
      BY <2>4, <3>3
    <3>5. reqs' # <<>> => line' = <<>>
      BY <1>2, <2>5, <3>3, EmptySeq
    <3>6. QED
      BY <3>4, <3>5 DEF Found
  <2>8. QED
    BY <1>3, <2>1, <2>6, <2>7
<1>6. QED
  BY <1>2, <1>4, <1>5

(***************************************************************************)
(* The steps of the client.                                                *)
(***************************************************************************)

(* What CallInv needs of a step of the client that stores nothing. *)
LEMMA SameRequests ==
  ASSUME CallInv, UNCHANGED <<cur, reqs, runs, got>>,
         pc' \in {"body", "check"} => pc \in {"body", "check"}
  PROVE  CallInv'
BY DEF CallInv, Callers

(* The next call finds nothing asked for. *)
LEMMA RCall ==
  ASSUME IInv, RInv, Call
  PROVE  RInv'
<1>1. /\ pc = "idle" /\ pc' = "drain" /\ skipped' = 0 /\ cur' = cur + 1
      /\ UNCHANGED <<reqs, line, runs>>
  BY DEF Call, At, Goto, far
<1>2. Cold /\ Cold'
  BY <1>1 DEF RInv, LineInv, Cold, Ends
<1>3. LineInv'
  BY <1>1, <1>2 DEF LineInv
<1>4. Callers' = {}
  BY <1>2 DEF Cold, Callers
<1>5. CallInv'
  BY <1>1, <1>4 DEF RInv, CallInv
<1>6. QED
  BY <1>3, <1>5 DEF RInv

(* A drain leaves the end of what was left. *)
LEMMA RDrain ==
  ASSUME IInv, RInv, Drain
  PROVE  RInv'
<1>1. /\ pc = "drain" /\ pc' = "send"
      /\ UNCHANGED <<cur, req, got, skipped, reqs, runs>>
  BY DEF Drain, At, Goto
<1>2. PICK k \in Lesser(arrived, DrainMax)..Lesser(Len(line), DrainMax) : DrainLine(k)
  BY DEF Drain
<1>3. line \in Seq(Token0) /\ Len(line) \in Nat /\ arrived \in 0..Len(line) /\ SyncMax \in Nat
  BY Types
<1>4. k \in 0..Len(line)
  BY <1>3 DEF Lesser
<1>5. /\ Len(line') = Len(line) - k
      /\ \A i \in 1..Len(line') : line'[i] = line[k + i] /\ k + i \in 1..Len(line)
  <2>1. line' = SubSeq(line, k + 1, Len(line))
    BY <1>2 DEF DrainLine
  <2>2. \A i \in k + 1..Len(line) : line[i] \in Token0
    BY <1>3, <1>4, ElementOfSeq
  <2>3. /\ Len(line') = IF k + 1 <= Len(line) THEN Len(line) - (k + 1) + 1 ELSE 0
        /\ \A i \in 1..Len(line) - (k + 1) + 1 : line'[i] = line[k + 1 + i - 1]
    BY <1>3, <1>4, <2>1, <2>2, SubSeqProperties
  <2>4. Len(line') = Len(line) - k
    BY <1>3, <1>4, <2>3
  <2>5. ASSUME NEW i \in 1..Len(line') PROVE line'[i] = line[k + i] /\ k + i \in 1..Len(line)
    <3>1. i \in 1..Len(line) - (k + 1) + 1 /\ k + 1 + i - 1 = k + i
      BY <1>3, <1>4, <2>4
    <3>2. k + i \in 1..Len(line)
      BY <1>3, <1>4, <2>4
    <3>3. line'[i] = line[k + 1 + i - 1]
      BY <2>3, <3>1
    <3>4. QED
      BY <3>1, <3>2, <3>3
  <2>6. QED
    BY <2>4, <2>5
<1>6. Cold
  BY <1>1 DEF RInv, LineInv
<1>7. Cold'
  <2>1. Len(line') <= SyncMax - 2
    BY <1>3, <1>4, <1>5, <1>6 DEF Cold
  <2>2. ASSUME NEW i \in 1..Len(line'), line'[i] = END PROVE i = Len(line')
    <3>1. k + i \in 1..Len(line) /\ line[k + i] = END
      BY <1>5, <2>2
    <3>2. k + i \in {Len(line)}
      BY <1>6, <3>1, Zenon DEF Cold, Ends
    <3>3. k + i = Len(line) /\ k \in Nat /\ i \in Nat
      BY <1>3, <1>4, <3>2
    <3>4. Len(line') = Len(line) - k
      BY <1>5
    <3>5. QED
      BY <1>3, <3>3, <3>4
  <2>3. QED
    BY <1>1, <1>6, <2>1, <2>2 DEF Cold, Ends
<1>8. LineInv'
  BY <1>1, <1>7 DEF RInv, LineInv
<1>9. QED
  BY <1>1, <1>8, SameRequests DEF RInv

(* The request is the only one, and everything on the line is older. *)
LEMMA RSend ==
  ASSUME IInv, RInv, Send
  PROVE  RInv'
<1>1. /\ pc = "send" /\ pc' = "sync"
      /\ UNCHANGED <<cur, req, got, skipped, runs, line>>
      /\ reqs' = Append(reqs, [call |-> cur, dev |-> req.dev]) \/ reqs' = reqs
  BY DEF Send, At, Goto
<1>2. Cold /\ skipped = 0 /\ reqs = <<>>
  BY <1>1 DEF RInv, LineInv, Cold
<1>3. Len(line) \in Nat /\ SyncMax \in Nat
  BY Types
<1>4. Searching(Len(line))'
  <2>1. \A i \in Len(line) + 1..Len(line) : FALSE
    BY <1>3
  <2>2. OwnFrame(Len(line) + 1)'
    BY <1>1, <1>2, <1>3, <2>1 DEF OwnFrame, Ends, Cold
  <2>3. Ends(1, Len(line), {Len(line)})'
    BY <1>1, <1>2 DEF Cold, Ends
  <2>4. skipped' + Len(line') <= SyncMax - 2
    BY <1>1, <1>2, <1>3 DEF Cold
  <2>5. QED
    BY <1>1, <2>2, <2>3, <2>4 DEF Searching
<1>5. LineInv'
  BY <1>1, <1>3, <1>4 DEF LineInv
<1>6. Callers' \subseteq {cur}
  <2>1. CASE reqs' = reqs
    BY <1>2, <2>1 DEF Callers
  <2>2. CASE reqs' = Append(reqs, [call |-> cur, dev |-> req.dev])
    <3>1. reqs' = <<[call |-> cur, dev |-> req.dev]>>
      BY <1>2, <2>2
    <3>2. QED
      BY <3>1 DEF Callers
  <2>3. QED
    BY <1>1, <2>1, <2>2
<1>7. CallInv'
  BY <1>1, <1>6 DEF RInv, CallInv
<1>8. QED
  BY <1>5, <1>7 DEF RInv

(* The search ends at the delimiter before the call's own reply, or goes on
   behind it. *)
LEMMA RSync ==
  ASSUME IInv, RInv, Sync
  PROVE  RInv'
<1>1. /\ pc = "sync" /\ Read /\ skipped' = skipped + 1
      /\ UNCHANGED <<cur, req, got, reqs, runs>>
      /\ IF skipped' > SyncMax THEN pc' = "idle"
         ELSE pc' = IF Token = END THEN "skip" ELSE "sync"
  BY DEF Sync, At, Goto, Return
<1>2. CASE Cold
  <2>1. Cold' /\ (Token = END => line' = <<>>)
    BY <1>1, <1>2, ColdRead
  <2>2. Token = END => Found'
    <3>1. SUFFICES ASSUME line' = <<>> PROVE Found'
      BY <2>1
    <3>2. Len(line') = 0 /\ SyncMax - 2 >= 0 - 1 /\ \A i \in 1..Len(line') : FALSE
      <4>1. Len(line) > 0 /\ Len(line) <= SyncMax - 2
        BY <1>1, <1>2, OneLess DEF Cold
      <4>2. Len(line) \in Nat /\ SyncMax \in Nat
        BY Types
      <4>3. QED
        BY <3>1, <4>1, <4>2
    <3>3. OwnFrame(1)'
      BY <3>2 DEF OwnFrame, Ends
    <3>4. QED
      BY <3>1, <3>3 DEF Found
  <2>3. LineInv'
    BY <1>1, <2>1, <2>2 DEF LineInv
  <2>4. QED
    BY <1>1, <2>3, SameRequests DEF RInv
<1>3. CASE ~Cold
  <2>1. PICK k \in 0..Len(line) : Searching(k)
    BY <1>1, <1>3 DEF RInv, LineInv
  <2>2. /\ skipped' <= SyncMax
        /\ Token = END => Found'
        /\ Token # END => Cold' \/ \E j \in 0..Len(line') : Searching(j)'
    BY <1>1, <2>1, SearchRead
  <2>3. ~(skipped' > SyncMax)
    BY <1>1, <2>2, Types
  <2>4. pc' = IF Token = END THEN "skip" ELSE "sync"
    BY <1>1, <2>3
  <2>5. LineInv'
    BY <2>2, <2>4 DEF LineInv
  <2>6. QED
    BY <1>1, <2>4, <2>5, SameRequests DEF RInv
<1>4. QED
  BY <1>2, <1>3

(* Storing a token behind others keeps the first. *)
LEMMA StoreFirst ==
  ASSUME IInv, Store, Token \in Token0
  PROVE  /\ Len(got') > 0 /\ pc' \in {"body", "check"}
         /\ got'[1] = IF got = <<>> THEN Token ELSE got[1]
<1>1. got \in Seq(Token0) /\ Len(got) \in Nat
  BY Types
<1>2. /\ Len(got') = Len(got) + 1
      /\ \A i \in 1..Len(got) + 1 : got'[i] = IF i <= Len(got) THEN got[i] ELSE Token
  BY <1>1, AppendTokens DEF Store
<1>3. got = <<>> <=> Len(got) = 0
  BY <1>1, EmptySeq
<1>4. 1 \in 1..Len(got) + 1
  BY <1>1
<1>5. pc' \in {"body", "check"}
  BY DEF Store, Goto
<1>6. QED
  BY <1>1, <1>2, <1>3, <1>4, <1>5

(* The first token of the call's own reply is stored. *)
LEMMA RSkip ==
  ASSUME IInv, RInv, Skip
  PROVE  RInv'
<1>1. /\ pc = "skip" /\ Read
      /\ UNCHANGED <<cur, req, skipped, reqs, runs>>
      /\ IF Token = END THEN UNCHANGED <<pc, got>> ELSE Store
  BY DEF Skip, At
<1>2. OwnFrame(1) /\ reqs = <<>>
  BY <1>1, OneLess DEF RInv, LineInv, Found
<1>3. /\ OwnFrame(1)' /\ (IsHeader(Token) => Token[1] = cur)
      /\ Len(line') <= SyncMax - 2 /\ Ends(1, Len(line), {Len(line)})'
  BY <1>1, <1>2, OwnRead
<1>4. Found' /\ Cold'
  BY <1>1, <1>2, <1>3 DEF Found, Cold
<1>5. CASE Token = END
  <2>1. LineInv'
    BY <1>1, <1>4, <1>5 DEF LineInv
  <2>2. QED
    BY <1>1, <1>5, <2>1, SameRequests DEF RInv
<1>6. CASE Token # END
  <2>1. got = <<>>
    BY <1>1 DEF IInv, Filling
  <2>2. Len(got') > 0 /\ pc' \in {"body", "check"} /\ got'[1] = Token
    BY <1>1, <1>6, <2>1, StoreFirst, OneLess
  <2>3. LineInv'
    BY <1>4, <2>2 DEF LineInv
  <2>4. CallInv'
    BY <1>1, <1>3, <2>2 DEF RInv, CallInv, Callers
  <2>5. QED
    BY <2>3, <2>4 DEF RInv
<1>7. QED
  BY <1>5, <1>6

(* The others follow. *)
LEMMA RBody ==
  ASSUME IInv, RInv, Body
  PROVE  RInv'
<1>1. /\ pc = "body" /\ Read
      /\ UNCHANGED <<cur, req, skipped, reqs, runs>>
      /\ IF Token = END THEN pc' = "check" /\ UNCHANGED got ELSE Store
  BY DEF Body, At, Goto
<1>2. Cold'
  BY <1>1, ColdRead DEF RInv, LineInv
<1>3. Len(got) > 0 /\ (IsHeader(got[1]) => got[1][1] = cur)
  BY <1>1 DEF RInv, CallInv
<1>4. /\ Len(got') > 0 /\ pc' \in {"body", "check"} /\ got'[1] = got[1]
  <2>1. CASE Token = END
    BY <1>1, <1>3, <2>1
  <2>2. CASE Token # END
    <3>1. got # <<>>
      BY <1>3
    <3>2. QED
      BY <1>1, <2>2, <3>1, StoreFirst, OneLess
  <2>3. QED
    BY <2>1, <2>2
<1>5. LineInv'
  BY <1>2, <1>4 DEF LineInv
<1>6. CallInv'
  BY <1>1, <1>3, <1>4 DEF RInv, CallInv, Callers
<1>7. QED
  BY <1>5, <1>6 DEF RInv

(* A prompt device is silent only when it owes nothing. *)
LEMMA RTimeout ==
  ASSUME IInv, RInv, GoodLine, Timeout
  PROVE  RInv'
<1>1. /\ pc \in {"sync", "skip", "body"} /\ line = <<>> /\ reqs = <<>>
      /\ UNCHANGED <<cur, req, got, skipped, line, reqs, runs>>
      /\ pc' = IF pc = "body" THEN "check" ELSE "idle"
  BY DEF Timeout, Silence, GoodLine, At, Goto, Return, far
<1>2. Cold'
  <2>1. Len(line') = 0 /\ \A i \in 1..Len(line') : FALSE
    BY <1>1
  <2>2. SyncMax - 2 >= 0
    <3>1. 0 + 4 <= SyncMax
      BY DEF GoodLine, LongSync
    <3>2. QED
      BY <3>1, Types
  <2>3. QED
    BY <1>1, <2>1, <2>2 DEF Cold, Ends
<1>3. LineInv'
  BY <1>1, <1>2 DEF LineInv
<1>4. QED
  BY <1>1, <1>3, SameRequests DEF RInv

(* The checks leave the line as it is. *)
LEMMA RCheck ==
  ASSUME IInv, RInv, Check
  PROVE  RInv'
<1>1. /\ pc = "check" /\ pc' = "idle"
      /\ UNCHANGED <<cur, req, got, skipped, line, reqs, runs>>
  BY DEF Check, At, Goto, Return, far
<1>2. LineInv'
  BY <1>1 DEF RInv, LineInv, Cold, Ends
<1>3. QED
  BY <1>1, <1>2, SameRequests DEF RInv

(***************************************************************************)
(* The steps of the device and the line.                                   *)
(***************************************************************************)

(* The tokens of a reply's frame. *)
LEMMA FrameShape ==
  ASSUME NEW c \in CallIds, NEW n \in Nat
  PROVE  LET f == Frame(c, n)
         IN /\ f \in Seq(Token0) /\ Len(f) = n + 3
            /\ \A i \in 1..n + 3 : /\ f[i] = END => i \in {1, n + 3}
                                   /\ IsHeader(f[i]) => f[i][1] = c
<1> DEFINE pieces == [i \in 1..n+1 |-> Piece(c, i)]
           a == <<END>>
           b == a \o pieces
<1>1. END \in Token0
  BY DEF END, Token0
<1>2. a \in Seq(Token0) /\ Len(a) = 1 /\ a[1] = END
  BY <1>1
<1>3. \A i \in 1..n+1 : Piece(c, i) \in Token0 /\ Piece(c, i) # END /\ Piece(c, i)[1] = c
  BY DEF Piece, Token0, CallIds, END
<1>4. pieces \in Seq(Token0) /\ Len(pieces) = n + 1 /\ \A i \in 1..n+1 : pieces[i] = Piece(c, i)
  BY <1>3
<1> HIDE DEF a, pieces
<1>5. /\ b \in Seq(Token0) /\ Len(b) = n + 2
      /\ \A i \in 1..n + 2 : b[i] = IF i <= 1 THEN a[i] ELSE pieces[i - 1]
  <2>1. /\ a \o pieces \in Seq(Token0) /\ Len(a \o pieces) = Len(a) + Len(pieces)
        /\ \A i \in 1..Len(a) + Len(pieces) :
             (a \o pieces)[i] = IF i <= Len(a) THEN a[i] ELSE pieces[i - Len(a)]
    BY <1>2, <1>4, ConcatProperties
  <2>2. Len(a) + Len(pieces) = n + 2
    BY <1>2, <1>4
  <2>3. QED
    BY <1>2, <2>1, <2>2
<1> HIDE DEF b
<1>6. /\ b \o a \in Seq(Token0) /\ Len(b \o a) = n + 3
      /\ \A i \in 1..n + 3 : (b \o a)[i] = IF i <= n + 2 THEN b[i] ELSE a[i - (n + 2)]
  <2>1. /\ b \o a \in Seq(Token0) /\ Len(b \o a) = Len(b) + Len(a)
        /\ \A i \in 1..Len(b) + Len(a) :
             (b \o a)[i] = IF i <= Len(b) THEN b[i] ELSE a[i - Len(b)]
    BY <1>2, <1>5, ConcatProperties
  <2>2. Len(b) + Len(a) = n + 3
    BY <1>2, <1>5
  <2>3. QED
    BY <1>2, <1>5, <2>1, <2>2
<1>7. Frame(c, n) = b \o a
  BY DEF Frame, a, b, pieces
<1>8. ASSUME NEW i \in 1..n + 3
      PROVE  /\ (b \o a)[i] = END => i \in {1, n + 3}
             /\ IsHeader((b \o a)[i]) => (b \o a)[i][1] = c
  <2>1. CASE i = 1
    BY <1>2, <1>5, <1>6, <2>1 DEF IsHeader, END
  <2>2. CASE i \in 2..n + 2
    <3>1. i - 1 \in 1..n + 1 /\ (b \o a)[i] = pieces[i - 1]
      BY <1>5, <1>6, <2>2
    <3>2. QED
      BY <1>3, <1>4, <3>1
  <2>3. CASE i = n + 3
    BY <1>2, <1>6, <2>3 DEF IsHeader, END
  <2>4. i = 1 \/ i \in 2..n + 2 \/ i = n + 3
    OBVIOUS
  <2>5. QED
    BY <2>1, <2>2, <2>3, <2>4
<1>9. QED
  BY <1>6, <1>7, <1>8

(* There is at most one request, the current call's. *)
LEMMA OneRequest ==
  ASSUME IInv, RInv, reqs # <<>>
  PROVE  Head(reqs).call = cur /\ cur \in CallIds /\ runs[cur] = 0 /\ Tail(reqs) = <<>>
<1> DEFINE R == [call : CallIds, dev : Devices]
<1>1. reqs \in Seq(R)
  BY Types
<1>2. Len(reqs) \in Nat \ {0} /\ DOMAIN reqs = 1..Len(reqs)
  BY <1>1, EmptySeq, LenProperties
<1> HIDE DEF R
<1>3. /\ Head(reqs) \in R /\ Head(reqs) = reqs[1]
      /\ Tail(reqs) \in Seq(R) /\ Len(Tail(reqs)) = Len(reqs) - 1
  BY <1>1, HeadTailProperties
<1>4. \A i \in DOMAIN reqs : reqs[i].call = cur
  BY DEF RInv, CallInv, Callers
<1>5. 1 \in DOMAIN reqs
  BY <1>2
<1>6. Head(reqs).call = cur /\ cur \in Callers
  BY <1>3, <1>4, <1>5 DEF Callers
<1>7. cur \in CallIds
  BY <1>3, <1>6 DEF R
<1>8. runs[cur] = 0
  BY <1>6, <1>7 DEF IInv, Requested
<1>9. Len(reqs) = 1
  <2>1. \A i \in DOMAIN reqs : i = 1
    BY <1>4, <1>5 DEF IInv, Requested
  <2>2. Len(reqs) \in DOMAIN reqs
    BY <1>2
  <2>3. QED
    BY <2>1, <2>2
<1>10. Tail(reqs) = <<>>
  <2>1. Len(Tail(reqs)) = 0
    BY <1>3, <1>9
  <2>2. QED
    BY <1>3, <2>1, EmptySeq
<1>11. QED
  BY <1>6, <1>7, <1>8, <1>10

(* The reply to the current call follows whatever is left on the line. *)
LEMMA RServe ==
  ASSUME IInv, RInv, GoodLine, Serve
  PROVE  RInv'
<1>1. /\ reqs # <<>> /\ reqs' = Tail(reqs)
      /\ UNCHANGED <<pc, cur, req, got, skipped>>
  BY DEF Serve, client
<1>2. Head(reqs).call = cur /\ cur \in CallIds /\ runs[cur] = 0 /\ reqs' = <<>>
  BY <1>1, OneRequest
<1>3. PICK n \in AnswerLens : line' = line \o Frame(cur, n)
  BY <1>2 DEF Serve
<1>4. runs' = [runs EXCEPT ![cur] = 1]
  <2>1. runs' = [runs EXCEPT ![cur] = runs[cur] + 1]
    BY <1>2 DEF Serve
  <2>2. QED
    BY <1>2, <2>1
<1>5. n \in Nat /\ n + 4 <= SyncMax /\ SyncMax \in Nat /\ skipped \in Nat
      /\ line \in Seq(Token0) /\ Len(line) \in Nat
  BY Types DEF GoodLine, LongSync
<1> DEFINE f == Frame(cur, n)
<1>6. /\ f \in Seq(Token0) /\ Len(f) = n + 3
      /\ \A i \in 1..n + 3 : /\ f[i] = END => i \in {1, n + 3}
                             /\ IsHeader(f[i]) => f[i][1] = cur
  BY <1>2, <1>5, FrameShape
<1>7. line' = line \o f
  BY <1>3
<1> HIDE DEF f
<1>8. /\ line' \in Seq(Token0) /\ Len(line') = Len(line) + n + 3
      /\ \A i \in 1..Len(line) + n + 3 :
           line'[i] = IF i <= Len(line) THEN line[i] ELSE f[i - Len(line)]
  <2>1. /\ line \o f \in Seq(Token0) /\ Len(line \o f) = Len(line) + Len(f)
        /\ \A i \in 1..Len(line) + Len(f) :
             (line \o f)[i] = IF i <= Len(line) THEN line[i] ELSE f[i - Len(line)]
    BY <1>5, <1>6, ConcatProperties
  <2>2. Len(line) + Len(f) = Len(line) + n + 3
    BY <1>5, <1>6
  <2>3. QED
    BY <1>7, <2>1, <2>2
<1>9. PICK k \in Nat : k = Len(line)
  BY <1>5
<1>10. OwnFrame(k + 1)'
  <2>1. Len(line') - (k + 1) <= SyncMax - 2
    BY <1>5, <1>8, <1>9
  <2>2. ASSUME NEW i \in k + 1..Len(line')
        PROVE  /\ line'[i] = END => i \in {k + 1, Len(line')}
               /\ IsHeader(line'[i]) => line'[i][1] = cur
    <3>1. i - k \in 1..n + 3 /\ line'[i] = f[i - k]
      BY <1>5, <1>8, <1>9
    <3>2. /\ f[i - k] = END => i - k \in {1, n + 3}
          /\ IsHeader(f[i - k]) => f[i - k][1] = cur
      BY <1>6, <3>1
    <3>3. i - k \in {1, n + 3} => i \in {k + 1, Len(line')}
      <4>1. Len(line') = k + n + 3 /\ i \in Nat
        BY <1>5, <1>8, <1>9
      <4>2. QED
        BY <1>5, <4>1
    <3>4. QED
      BY <3>1, <3>2, <3>3
  <2>3. QED
    BY <1>1, <2>1, <2>2 DEF OwnFrame, Ends
<1>11. ASSUME pc = "sync" PROVE LineInv'
  <2>1. PICK j \in 0..Len(line) : Searching(j)
    BY <1>1, <1>11 DEF RInv, LineInv, Cold
  <2>2. Searching(k)
    BY <1>1, <1>9, <2>1 DEF Searching
  <2>3. Ends(1, k, {k})'
    <3>1. \A i \in 1..k : line'[i] = line[i]
      BY <1>5, <1>8, <1>9
    <3>2. QED
      BY <2>2, <3>1 DEF Searching, Ends
  <2>4. Searching(k)' /\ k \in 0..Len(line')
    BY <1>1, <1>2, <1>5, <1>8, <1>9, <1>10, <2>2, <2>3 DEF Searching
  <2>5. QED
    BY <1>1, <1>11, <2>4 DEF LineInv
<1>12. ASSUME pc = "skip" PROVE LineInv'
  <2>1. k = 0
    BY <1>1, <1>9, <1>12 DEF RInv, LineInv, Found
  <2>2. OwnFrame(1)'
    BY <1>10, <2>1
  <2>3. Found'
    BY <1>2, <2>2 DEF Found
  <2>4. QED
    BY <1>1, <1>12, <2>3 DEF LineInv
<1>13. LineInv'
  <2>1. pc \in {"idle", "drain", "send", "sync", "skip", "body", "check"}
    BY DEF IInv, TypeOK
  <2>2. pc \notin {"idle", "drain", "send", "body", "check"}
    BY <1>1 DEF RInv, LineInv, Cold
  <2>3. QED
    BY <1>11, <1>12, <2>1, <2>2
<1>14. CallInv'
  <2>1. Callers' = {}
    BY <1>2 DEF Callers
  <2>2. \A c \in CallIds : runs'[c] \in {0, 1}
    BY <1>2, <1>4 DEF RInv, CallInv, IInv, TypeOK
  <2>3. QED
    BY <1>1, <2>1, <2>2 DEF RInv, CallInv
<1>15. QED
  BY <1>13, <1>14 DEF RInv

(* Nothing is said of how many tokens have arrived. *)
LEMMA RArrive ==
  ASSUME IInv, RInv, Arrive
  PROVE  RInv'
<1>1. UNCHANGED <<pc, cur, got, skipped, line, reqs, runs>>
  BY DEF Arrive, client
<1>2. LineInv'
  BY <1>1 DEF RInv, LineInv, Cold, Searching, Found, OwnFrame, Ends
<1>3. QED
  BY <1>1, <1>2, SameRequests DEF RInv

(* Where delimiters are allowed, and whose headers, is so without a token. *)
LEMMA RLose ==
  ASSUME IInv, RInv, Lose
  PROVE  RInv'
<1>1. UNCHANGED <<pc, cur, got, skipped, reqs, runs>>
  BY DEF Lose, client
<1>2. line \in Seq(Token0) /\ Len(line) \in Nat /\ arrived \in 0..Len(line)
      /\ SyncMax \in Nat /\ skipped \in Nat
  BY Types
<1>3. PICK m \in arrived+1..Len(line) :
        line' = SubSeq(line, 1, m - 1) \o SubSeq(line, m + 1, Len(line))
  BY DEF Lose
<1>4. m \in 1..Len(line) /\ Len(line) > 0
  BY <1>2
<1>5. /\ Len(line') = Len(line) - 1
      /\ \A i \in 1..Len(line') : line'[i] = IF i < m THEN line[i] ELSE line[i + 1]
  <2> DEFINE a == SubSeq(line, 1, m - 1)
             b == SubSeq(line, m + 1, Len(line))
  <2>1. \A i \in 1..Len(line) : line[i] \in Token0
    BY <1>2, ElementOfSeq
  <2>2. /\ a \in Seq(Token0) /\ Len(a) = m - 1
        /\ \A i \in 1..m - 1 : a[i] = line[i]
    <3>1. \A i \in 1..m - 1 : line[i] \in Token0
      BY <1>2, <1>4, <2>1
    <3>2. /\ a \in Seq(Token0)
          /\ Len(a) = IF 1 <= m - 1 THEN m - 1 - 1 + 1 ELSE 0
          /\ \A i \in 1..m - 1 - 1 + 1 : a[i] = line[1 + i - 1]
      BY <1>2, <1>4, <3>1, SubSeqProperties
    <3>3. QED
      BY <1>2, <1>4, <3>2
  <2>3. /\ b \in Seq(Token0) /\ Len(b) = Len(line) - m
        /\ \A i \in 1..Len(line) - m : b[i] = line[m + i]
    <3>1. \A i \in m + 1..Len(line) : line[i] \in Token0
      BY <1>2, <1>4, <2>1
    <3>2. /\ b \in Seq(Token0)
          /\ Len(b) = IF m + 1 <= Len(line) THEN Len(line) - (m + 1) + 1 ELSE 0
          /\ \A i \in 1..Len(line) - (m + 1) + 1 : b[i] = line[m + 1 + i - 1]
      BY <1>2, <1>4, <3>1, SubSeqProperties
    <3>3. QED
      BY <1>2, <1>4, <3>2
  <2>4. line' = a \o b
    BY <1>3
  <2> HIDE DEF a, b
  <2>5. /\ Len(a \o b) = Len(a) + Len(b)
        /\ \A i \in 1..Len(a) + Len(b) : (a \o b)[i] = IF i <= Len(a) THEN a[i] ELSE b[i - Len(a)]
    BY <2>2, <2>3, ConcatProperties
  <2>6. Len(line') = Len(line) - 1
    BY <1>2, <1>4, <2>2, <2>3, <2>4, <2>5
  <2>7. ASSUME NEW i \in 1..Len(line')
        PROVE  line'[i] = IF i < m THEN line[i] ELSE line[i + 1]
    <3>1. i \in 1..Len(a) + Len(b)
      BY <1>2, <1>4, <2>2, <2>3, <2>6
    <3>2. CASE i < m
      <4>1. i <= Len(a) /\ i \in 1..m - 1
        BY <1>2, <1>4, <2>2, <3>2
      <4>2. QED
        BY <2>2, <2>4, <2>5, <3>1, <3>2, <4>1
    <3>3. CASE ~(i < m)
      <4>1. ~(i <= Len(a)) /\ i - Len(a) \in 1..Len(line) - m /\ m + (i - Len(a)) = i + 1
        BY <1>2, <1>4, <2>2, <2>6, <3>3
      <4>2. QED
        BY <2>3, <2>4, <2>5, <3>1, <3>3, <4>1
    <3>4. QED
      BY <3>2, <3>3
  <2>8. QED
    BY <2>6, <2>7
<1>6. ASSUME Cold PROVE Cold'
  <2>1. ASSUME NEW i \in 1..Len(line'), line'[i] = END PROVE i = Len(line')
    <3>1. CASE i < m
      <4>1. i \in 1..Len(line) /\ line[i] = END
        BY <1>2, <1>4, <1>5, <2>1, <3>1
      <4>2. i \in {Len(line)}
        BY <1>6, <4>1, Zenon DEF Cold, Ends
      <4>3. QED
        BY <1>2, <1>4, <1>5, <3>1, <4>2
    <3>2. CASE ~(i < m)
      <4>1. i + 1 \in 1..Len(line) /\ line[i + 1] = END
        BY <1>2, <1>4, <1>5, <2>1, <3>2
      <4>2. i + 1 \in {Len(line)}
        BY <1>6, <4>1, Zenon DEF Cold, Ends
      <4>3. QED
        BY <1>2, <1>5, <4>2
    <3>3. QED
      BY <3>1, <3>2
  <2>2. QED
    BY <1>1, <1>2, <1>5, <1>6, <2>1 DEF Cold, Ends
<1>7. ASSUME NEW k \in 0..Len(line), OwnFrame(k + 1), m > k
      PROVE  OwnFrame(k + 1)'
  <2>1. ASSUME NEW i \in k + 1..Len(line')
        PROVE  /\ line'[i] = END => i \in {k + 1, Len(line')}
               /\ IsHeader(line'[i]) => line'[i][1] = cur
    <3>1. CASE i < m
      <4>1. i \in k + 1..Len(line) /\ i \in 1..Len(line') /\ line'[i] = line[i] /\ i # Len(line)
        BY <1>2, <1>4, <1>5, <1>7, <3>1
      <4>2. /\ line[i] = END => i \in {k + 1, Len(line)}
            /\ IsHeader(line[i]) => line[i][1] = cur
        BY <1>7, <4>1 DEF OwnFrame, Ends
      <4>3. QED
        BY <4>1, <4>2
    <3>2. CASE ~(i < m)
      <4>1. i + 1 \in k + 1..Len(line) /\ i \in 1..Len(line') /\ line'[i] = line[i + 1] /\ i + 1 # k + 1
        BY <1>2, <1>4, <1>5, <1>7, <3>2
      <4>2. /\ line[i + 1] = END => i + 1 \in {k + 1, Len(line)}
            /\ IsHeader(line[i + 1]) => line[i + 1][1] = cur
        BY <1>7, <4>1 DEF OwnFrame, Ends
      <4>3. QED
        BY <1>2, <1>5, <4>1, <4>2
    <3>3. QED
      BY <3>1, <3>2
  <2>2. Len(line') - (k + 1) <= SyncMax - 2
    BY <1>2, <1>5, <1>7 DEF OwnFrame
  <2>3. QED
    BY <1>1, <2>1, <2>2 DEF OwnFrame, Ends
<1>8. ASSUME NEW k \in 0..Len(line), Searching(k)
      PROVE  \E j \in 0..Len(line') : Searching(j)'
  <2>1. CASE m > k
    <3>1. OwnFrame(k + 1)'
      BY <1>7, <1>8, <2>1 DEF Searching
    <3>2. ASSUME NEW i \in 1..k, line'[i] = END PROVE i = k
      <4>1. line'[i] = line[i]
        BY <1>2, <1>4, <1>5, <2>1
      <4>2. i \in {k}
        BY <1>8, <3>2, <4>1, Zenon DEF Searching, Ends
      <4>3. QED
        BY <4>2
    <3>3. reqs = <<>>
      BY <1>2, <1>4, <1>8, <2>1 DEF Searching
    <3>4. k \in 0..Len(line')
      BY <1>2, <1>4, <1>5, <2>1
    <3>5. Searching(k)'
      BY <1>1, <1>8, <3>1, <3>2, <3>3 DEF Searching, Ends
    <3>6. QED
      BY <3>4, <3>5
  <2>2. CASE m <= k
    <3> DEFINE j == k - 1
    <3>1. j \in 0..Len(line') /\ j + 1 = k
      BY <1>2, <1>4, <1>5, <2>2
    <3>2. Ends(1, j, {j})'
      <4>1. ASSUME NEW i \in 1..j, line'[i] = END PROVE i = j
        <5>1. i \in 1..k /\ i + 1 \in 1..k /\ i \in 1..Len(line') /\ i # k
          BY <1>2, <1>5, <3>1
        <5>2. line[i] # END
          BY <1>8, <5>1 DEF Searching, Ends
        <5>3. line[i + 1] = END
          BY <1>5, <4>1, <5>1, <5>2
        <5>4. i + 1 \in {k}
          BY <1>8, <5>1, <5>3, Zenon DEF Searching, Ends
        <5>5. QED
          BY <3>1, <5>4
      <4>2. QED
        BY <4>1 DEF Ends
    <3>3. OwnFrame(j + 1)'
      <4>1. ASSUME NEW i \in j + 1..Len(line')
            PROVE  /\ line'[i] = END => i \in {j + 1, Len(line')}
                   /\ IsHeader(line'[i]) => line'[i][1] = cur
        <5>1. i + 1 \in k + 1..Len(line) /\ line'[i] = line[i + 1]
          BY <1>2, <1>4, <1>5, <2>2, <3>1
        <5>2. /\ line[i + 1] = END => i + 1 \in {k + 1, Len(line)}
              /\ IsHeader(line[i + 1]) => line[i + 1][1] = cur
          BY <1>8, <5>1 DEF Searching, OwnFrame, Ends
        <5>3. QED
          BY <1>2, <1>5, <3>1, <5>1, <5>2
      <4>2. Len(line') - (j + 1) <= SyncMax - 2
        BY <1>2, <1>5, <1>8, <3>1 DEF Searching, OwnFrame
      <4>3. QED
        BY <1>1, <4>1, <4>2 DEF OwnFrame, Ends
    <3>4. skipped' + j <= SyncMax - 2 /\ (reqs' # <<>> => j = Len(line'))
      BY <1>1, <1>2, <1>5, <1>8, <3>1 DEF Searching
    <3>5. Searching(j)'
      BY <3>2, <3>3, <3>4 DEF Searching
    <3>6. QED
      BY <3>1, <3>5
  <2>3. QED
    BY <1>2, <1>4, <2>1, <2>2
<1>9. ASSUME Found PROVE Found'
  <2>1. OwnFrame(1) /\ reqs = <<>> /\ 0 \in 0..Len(line) /\ m > 0 /\ 0 + 1 = 1
    BY <1>2, <1>4, <1>9 DEF Found
  <2>2. OwnFrame(0 + 1)'
    BY <1>7, <2>1
  <2>3. OwnFrame(1)'
    BY <2>2
  <2>4. QED
    BY <1>1, <2>1, <2>3 DEF Found
<1>10. LineInv'
  BY <1>1, <1>6, <1>8, <1>9 DEF RInv, LineInv
<1>11. QED
  BY <1>1, <1>10, SameRequests DEF RInv

(* A garbled token is no delimiter and no header. *)
LEMMA RGarble ==
  ASSUME IInv, RInv, GoodLine, Garble
  PROVE  RInv'
<1>1. UNCHANGED <<pc, cur, got, skipped, reqs, runs>>
  BY DEF Garble, client
<1>2. line \in Seq(Token0) /\ Len(line) \in Nat /\ arrived \in 0..Len(line)
  BY Types
<1>3. PICK m \in arrived+1..Len(line) : line' = [line EXCEPT ![m] = Junk]
  BY DEF Garble, Noise, GoodLine
<1>4. Junk # END /\ ~IsHeader(Junk) /\ Junk \in Token0
  BY DEF Junk, END, IsHeader, Token0
<1>5. /\ Len(line') = Len(line)
      /\ \A i \in 1..Len(line) : line'[i] = line[i] \/ line'[i] = Junk
  <2>1. m \in 1..Len(line)
    BY <1>2
  <2>2. /\ Len(line') = Len(line)
        /\ \A i \in 1..Len(line) : line'[i] = IF i = m THEN Junk ELSE line[i]
    BY <1>2, <1>3, <1>4, <2>1, ExceptSeq
  <2>3. QED
    BY <2>2
<1>6. /\ \A i \in 1..Len(line) : line'[i] = END => line[i] = END
      /\ \A i \in 1..Len(line) : IsHeader(line'[i]) => line'[i] = line[i]
  BY <1>4, <1>5
<1>7. (line = <<>>) => (line' = <<>>)
  BY <1>2, <1>3
<1>8. Cold => Cold'
  BY <1>1, <1>5, <1>6 DEF Cold, Ends
<1>9. ASSUME NEW k \in 0..Len(line), OwnFrame(k + 1) PROVE OwnFrame(k + 1)'
  <2>1. \A i \in k + 1..Len(line) : i \in 1..Len(line)
    BY <1>2
  <2>2. QED
    BY <1>1, <1>5, <1>6, <1>9, <2>1 DEF OwnFrame, Ends
<1>10. ASSUME NEW k \in 0..Len(line), Searching(k)
       PROVE  Searching(k)' /\ k \in 0..Len(line')
  <2>1. OwnFrame(k + 1)'
    BY <1>9, <1>10 DEF Searching
  <2>2. Ends(1, k, {k})'
    <3>1. \A i \in 1..k : i \in 1..Len(line)
      BY <1>2
    <3>2. QED
      BY <1>6, <1>10, <3>1 DEF Searching, Ends
  <2>3. QED
    BY <1>1, <1>5, <1>10, <2>1, <2>2 DEF Searching
<1>11. ASSUME Found PROVE Found'
  <2>1. OwnFrame(0 + 1) /\ 0 \in 0..Len(line)
    BY <1>2, <1>11 DEF Found
  <2>2. OwnFrame(0 + 1)'
    BY <1>9, <2>1
  <2>3. OwnFrame(1)'
    BY <2>2
  <2>4. QED
    BY <1>1, <1>7, <1>11, <2>3 DEF Found
<1>12. LineInv'
  BY <1>1, <1>8, <1>10, <1>11 DEF RInv, LineInv
<1>13. QED
  BY <1>1, <1>12, SameRequests DEF RInv

(***************************************************************************)
(* The theorem.                                                            *)
(***************************************************************************)

(* It holds when the program starts ... *)
LEMMA RInit == GoodLine /\ Init => RInv
<1> SUFFICES ASSUME GoodLine, Init PROVE RInv
  OBVIOUS
<1>1. SyncMax - 2 >= 0
  <2>1. 0 + 4 <= SyncMax
    BY DEF GoodLine, LongSync
  <2>2. QED
    BY <2>1
<1>2. Cold
  <2>1. Len(line) = 0 /\ reqs = <<>> /\ \A i \in 1..Len(line) : FALSE
    BY DEF Init
  <2>2. QED
    BY <1>1, <2>1 DEF Cold, Ends
<1>3. LineInv
  BY <1>2 DEF Init, LineInv
<1>4. CallInv
  BY DEF Init, CallInv, Callers
<1>5. QED
  BY <1>3, <1>4 DEF RInv

(* ... and every step keeps it. *)
LEMMA RNext ==
  ASSUME GoodLine
  PROVE  IInv /\ RInv /\ [Next]_vars => RInv'
<1> SUFFICES ASSUME IInv, RInv, [Next]_vars PROVE RInv'
  OBVIOUS
<1>1. CASE Call
  BY <1>1, RCall
<1>2. CASE Drain
  BY <1>2, RDrain
<1>3. CASE Send
  BY <1>3, RSend
<1>4. CASE Sync
  BY <1>4, RSync
<1>5. CASE Skip
  BY <1>5, RSkip
<1>6. CASE Body
  BY <1>6, RBody
<1>7. CASE Timeout
  BY <1>7, RTimeout
<1>8. CASE Check
  BY <1>8, RCheck
<1>9. CASE Serve
  BY <1>9, RServe
<1>10. CASE Arrive
  BY <1>10, RArrive
<1>11. CASE Lose
  BY <1>11, RLose
<1>12. CASE Garble
  BY <1>12, RGarble
<1>13. CASE UNCHANGED vars
  <2>1. UNCHANGED <<pc, cur, got, skipped, line, reqs, runs>>
    BY <1>13 DEF vars, client, far
  <2>2. LineInv'
    BY <2>1 DEF RInv, LineInv, Cold, Searching, Found, OwnFrame, Ends
  <2>3. QED
    BY <2>1, <2>2, SameRequests DEF RInv
<1>14. QED
  BY <1>1, <1>2, <1>3, <1>4, <1>5, <1>6, <1>7, <1>8, <1>9, <1>10, <1>11, <1>12, <1>13
  DEF Next, Client

(* Every step is one of the abstract call, or leaves it alone. *)
LEMMA RefinementStep ==
  ASSUME GoodLine
  PROVE  IInv /\ RInv /\ [Next]_vars => [Abstract!BusNext]_(Abstract!busVars)
<1> SUFFICES ASSUME IInv, RInv, [Next]_vars
             PROVE  Abstract!BusNext \/ UNCHANGED Abstract!busVars
  OBVIOUS
<1> USE DEF At, Goto, Abstract!busVars
<1>1. Abstract!NoOutcome = NoOutcome
  BY DEF Abstract!NoOutcome, NoOutcome
<1>2. ASSUME pc # "idle", Return(FALSE), UNCHANGED <<cur, runs>> PROVE Abstract!BusNext
  <2>1. pc' = "idle" /\ outcome' = [NoOutcome EXCEPT !.call = cur]
    BY <1>2 DEF Return
  <2>2. Abstract!Fail
    BY <1>1, <1>2, <2>1 DEF Abstract!Fail
  <2>3. QED
    BY <2>2 DEF Abstract!BusNext
<1>3. CASE Call
  <2>1. Abstract!Begin
    BY <1>3 DEF Call, far, Abstract!Begin
  <2>2. QED
    BY <2>1 DEF Abstract!BusNext
<1>4. CASE Drain \/ Send
  BY <1>4 DEF Drain, Send
<1>5. CASE Sync
  <2>1. pc = "sync" /\ UNCHANGED <<cur, runs>>
    BY <1>5 DEF Sync
  <2>2. CASE skipped' > SyncMax
    BY <1>2, <1>5, <2>1, <2>2 DEF Sync
  <2>3. CASE ~(skipped' > SyncMax)
    BY <1>5, <2>1, <2>3 DEF Sync
  <2>4. QED
    BY <2>2, <2>3
<1>6. CASE Skip \/ Body
  BY <1>6 DEF Skip, Body, Store
<1>7. CASE Timeout
  <2>1. pc \in {"sync", "skip", "body"} /\ UNCHANGED <<cur, runs>>
    BY <1>7 DEF Timeout, far
  <2>2. CASE pc = "body"
    BY <1>7, <2>1, <2>2 DEF Timeout
  <2>3. CASE pc # "body"
    BY <1>2, <1>7, <2>1, <2>3 DEF Timeout
  <2>4. QED
    BY <2>2, <2>3
<1>8. CASE Check
  <2>1. pc = "check" /\ pc' = "idle" /\ Return(Accept) /\ UNCHANGED <<cur, runs, got>>
    BY <1>8 DEF Check, Return, far
  <2>2. CASE Accept
    <3>1. PICK f \in CallIds :
            /\ got = [i \in 1..1 + replies[f].len |-> Piece(f, i)]
            /\ Owners(got) = {f}
      BY <2>2, Accepted
    <3>2. got[1] = Piece(f, 1)
      <4>1. replies[f].len \in Nat
        BY DEF IInv, TypeOK, ReplyType
      <4>2. 1 \in 1..1 + replies[f].len
        BY <4>1
      <4>3. QED
        BY <3>1, <4>2
    <3>3. f = cur
      <4>1. IsHeader(got[1]) /\ got[1][1] = f
        BY <3>2 DEF Piece, IsHeader, CallIds
      <4>2. QED
        BY <2>1, <4>1 DEF RInv, CallInv
    <3>4. runs[cur] = 1
      <4>1. cur \in Owners(got) \ {0}
        BY <3>1, <3>3 DEF CallIds
      <4>2. runs[cur] > 0
        BY <4>1 DEF IInv, Replied
      <4>3. runs[cur] \in {0, 1}
        BY <3>3 DEF RInv, CallInv
      <4>4. QED
        BY <4>2, <4>3
    <3>5. outcome' = [call |-> cur, ok |-> TRUE, seen |-> {cur}]
      BY <2>1, <2>2, <3>1, <3>3 DEF Return
    <3>6. Abstract!Succeed
      BY <2>1, <3>4, <3>5 DEF Abstract!Succeed
    <3>7. QED
      BY <3>6 DEF Abstract!BusNext
  <2>3. CASE ~Accept
    <3>1. Return(FALSE)
      BY <2>1, <2>3 DEF Return
    <3>2. QED
      BY <1>2, <2>1, <3>1
  <2>4. QED
    BY <2>2, <2>3
<1>9. CASE Serve
  <2>1. /\ reqs # <<>> /\ UNCHANGED <<pc, cur, outcome>>
        /\ runs' = [runs EXCEPT ![Head(reqs).call] = @ + 1]
    BY <1>9 DEF Serve, client
  <2>2. Head(reqs).call = cur /\ cur \in CallIds /\ runs[cur] = 0
    BY <2>1, OneRequest
  <2>3. runs' = [runs EXCEPT ![cur] = runs[cur] + 1]
    BY <2>1, <2>2
  <2>4. runs' = [runs EXCEPT ![cur] = 1]
    BY <2>2, <2>3
  <2>5. cur \in 1..cur
    BY <2>2 DEF CallIds
  <2>6. Abstract!Serve
    BY <2>1, <2>2, <2>4, <2>5 DEF Abstract!Serve
  <2>7. QED
    BY <2>6 DEF Abstract!BusNext
<1>10. CASE Arrive \/ Lose \/ Garble
  BY <1>10 DEF Arrive, Lose, Garble, client
<1>11. CASE UNCHANGED vars
  BY <1>11 DEF vars, client, far
<1>12. QED
  BY <1>3, <1>4, <1>5, <1>6, <1>7, <1>8, <1>9, <1>10, <1>11 DEF Next, Client

(* If the device answers within TIMEOUT_SLOW, SYNC_MAX is longer than any     *)
(* reply and noise makes up no SLIP_END, fuji_bus_call() over a serial port   *)
(* implements the abstract bus call: each call is carried out at most once    *)
(* and returns TRUE only after it was, with its own answer.                   *)
THEOREM Refinement ==
  ASSUME GoodLine
  PROVE  Spec => ImplementsBusCall
<1>1. Init => Abstract!BusInit
  BY DEF Init, Abstract!BusInit, At, NoOutcome, Abstract!NoOutcome, CallIds, Abstract!CallIds
<1>2. Init => RInv
  BY RInit
<1>3. IInv /\ RInv /\ [Next]_vars => RInv'
  BY RNext
<1>4. IInv /\ RInv /\ [Next]_vars => [Abstract!BusNext]_(Abstract!busVars)
  BY RefinementStep
<1>5. QED
  BY <1>1, <1>2, <1>3, <1>4, Invariant, PTL DEF Spec, ImplementsBusCall, Abstract!BusSpec
=============================================================================
