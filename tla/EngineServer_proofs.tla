------------------------ MODULE EngineServer_proofs -------------------------
(***************************************************************************)
(* The safety of EngineServer for any number of requests and any capacity  *)
(* of the channel of new sockets.                                          *)
(***************************************************************************)
EXTENDS EngineServer, SequenceTheorems, TLAPS

(* Sequences in which nothing occurs twice.                                *)

\* Concatenation is associative.
LEMMA Regroup ==
  ASSUME NEW A, NEW a \in Seq(A), NEW b \in Seq(A), NEW c \in Seq(A)
  PROVE  (a \o b) \o c = a \o (b \o c)
  BY ConcatAssociative

\* What follows a part of such a sequence is not in that part.
LEMMA InjectiveParts ==
  ASSUME NEW S, NEW a \in Seq(S), NEW b \in Seq(S), IsInjective(a \o b)
  PROVE  Range(a) \cap Range(b) = {}
<1> SUFFICES ASSUME NEW i \in DOMAIN a, NEW j \in DOMAIN b, a[i] = b[j] PROVE FALSE
  BY DEF Range
<1>1. i \in 1 .. Len(a) /\ j \in 1 .. Len(b) /\ Len(a) \in Nat /\ Len(b) \in Nat
  OBVIOUS
<1> DEFINE c == a \o b
<1>2. /\ DOMAIN c = 1 .. (Len(a) + Len(b))
      /\ c[i] = a[i] /\ c[Len(a) + j] = b[j]
  BY <1>1
<1>3. IsInjective(c)
  OBVIOUS
<1> HIDE DEF c
<1>4. i \in DOMAIN c /\ Len(a) + j \in DOMAIN c /\ c[i] = c[Len(a) + j]
  BY <1>1, <1>2
<1>5. i = Len(a) + j
  BY <1>3, <1>4 DEF IsInjective
<1> QED  BY <1>1, <1>5

\* A new element at the end leaves it so.
LEMMA InjectiveAppend ==
  ASSUME NEW S, NEW a \in Seq(S), NEW e \in S, IsInjective(a), e \notin Range(a)
  PROVE  IsInjective(Append(a, e))
<1> DEFINE b == Append(a, e)
<1>1. DOMAIN b = 1 .. (Len(a) + 1) /\ Len(a) \in Nat
  OBVIOUS
<1>2. \A i \in 1 .. Len(a) : b[i] = a[i] /\ a[i] # e
  BY DEF Range
<1>3. b[Len(a) + 1] = e
  OBVIOUS
<1> HIDE DEF b
<1> SUFFICES ASSUME NEW i \in DOMAIN b, NEW j \in DOMAIN b, b[i] = b[j] PROVE i = j
  BY DEF IsInjective, b
<1>4. CASE i = Len(a) + 1
  BY <1>1, <1>2, <1>3, <1>4
<1>5. CASE j = Len(a) + 1
  BY <1>1, <1>2, <1>3, <1>5
<1>6. CASE i \in 1 .. Len(a) /\ j \in 1 .. Len(a)
  <2>1. a[i] = a[j] /\ DOMAIN a = 1 .. Len(a)
    BY <1>2, <1>6
  <2> QED  BY <1>6, <2>1 DEF IsInjective
<1> QED  BY <1>1, <1>4, <1>5, <1>6

\* The ranges of the sequences that the actions build.
LEMMA SeqRanges ==
  ASSUME NEW S, NEW q \in Seq(S)
  PROVE  /\ Range(<<>>) = {}
         /\ \A e \in S : Range(<<e>>) = {e}
         /\ \A e \in S : Range(q \o <<e>>) = Range(q) \cup {e}
         /\ q # <<>> => Range(q) = {Head(q)} \cup Range(Tail(q))
<1>1. Range(<<>>) = {} /\ \A e \in S : Range(<<e>>) = {e}
  BY DEF Range
<1>2. ASSUME NEW e \in S PROVE Range(q \o <<e>>) = Range(q) \cup {e}
  <2>1. <<e>> \in Seq(S)
    OBVIOUS
  <2>2. Range(q \o <<e>>) = Range(q) \cup Range(<<e>>)
    BY <2>1, RangeConcatenation
  <2> QED  BY <1>1, <2>1, <2>2
<1>3. ASSUME q # <<>> PROVE Range(q) = {Head(q)} \cup Range(Tail(q))
  <2>1. Head(q) \in S /\ Tail(q) \in Seq(S) /\ <<Head(q)>> \in Seq(S)
    BY <1>3, HeadTailProperties
  <2>2. q = <<Head(q)>> \o Tail(q)
    BY <1>3, SMT
  <2>3. Range(<<Head(q)>> \o Tail(q)) = Range(<<Head(q)>>) \cup Range(Tail(q))
    BY <2>1, RangeConcatenation
  <2> QED  BY <1>1, <2>1, <2>2, <2>3
<1> QED  BY <1>1, <1>2, <1>3

-----------------------------------------------------------------------------
(* The inductive invariant.  SomebodyReads needs to know when the loop has *)
(* a socket in hand, and that it lets go of one only when its reader runs; *)
(* OpensFresh, that a request hands over a socket that nobody has read or  *)
(* closed, and hands it over once.                                         *)

\* The sockets that the loop has not opened yet.
Waiting == (IF lpc = "open" THEN lsock ELSE <<>>) \o schan

\* The loop has a socket in hand from the select to the return of onOpen.
LoopInv ==
  /\ lpc \in {"open", "callback"} <=> lsock # <<>>
  /\ lpc = "callback" => reader[lsock[1]] # "none"

\* A request that has not handed its socket over is the only one to know it.
UnopenedInv ==
  \A r \in Requests : rpc[r] \in {"idle", "handover"} =>
    /\ r \notin Range(handed) /\ reader[r] = "none"
    /\ rpc[r] = "handover" => sock[r] = "open"

\* Nobody reads or closes a socket that was not opened.
FreshInv == \A r \in Range(Waiting) : sock[r] = "open" /\ reader[r] = "none"

ServerIndInv ==
  /\ ServerTypeOK /\ SomebodyReads /\ OpenedInOrder
  /\ LoopInv /\ UnopenedInv /\ FreshInv

\* What the loop may have in hand: nothing, or one socket.
LEMMA InHand ==
  ASSUME NEW S
  PROVE  /\ <<>> \in AtMostOne(S) /\ \A e \in S : <<e>> \in AtMostOne(S)
         /\ \A h \in AtMostOne(S) : h # <<>> => \E e \in S : h = <<e>>
  BY Zenon DEF AtMostOne

\* What was handed over is what was opened and, apart from it, what waits.
InLine ==
  /\ lsock \in Seq(Requests) /\ Waiting \in Seq(Requests)
  /\ handed = opened \o Waiting
  /\ Range(handed) = Range(opened) \cup Range(Waiting)
  /\ Range(opened) \cap Range(Waiting) = {}
  /\ Range(Waiting) = Range(IF lpc = "open" THEN lsock ELSE <<>>) \cup Range(schan)

\* That is how the sockets stand whenever they are opened in order.
LEMMA LineOfSockets == ServerTypeOK /\ OpenedInOrder => InLine
<1> SUFFICES ASSUME ServerTypeOK, OpenedInOrder PROVE InLine
  OBVIOUS
<1> DEFINE held == IF lpc = "open" THEN lsock ELSE <<>>
<1>1. lsock \in Seq(Requests) /\ held \in Seq(Requests)
  <2>1. <<>> \in Seq(Requests) /\ \A r \in Requests : <<r>> \in Seq(Requests)
    OBVIOUS
  <2> QED  BY <2>1, Zenon DEF ServerTypeOK, AtMostOne
<1>2. opened \in Seq(Requests) /\ schan \in Seq(Requests)
  BY DEF ServerTypeOK
<1>3. Waiting = held \o schan /\ handed = (opened \o held) \o schan
  BY DEF Waiting, OpenedInOrder
<1> HIDE DEF held
<1>4. Waiting \in Seq(Requests) /\ Range(Waiting) = Range(held) \cup Range(schan)
  BY <1>1, <1>2, <1>3, ConcatProperties, RangeConcatenation
<1>5. handed = opened \o Waiting
  <2>1. (opened \o held) \o schan = opened \o (held \o schan)
    BY ONLY <1>1, <1>2, Regroup
  <2> QED  BY <1>3, <2>1, Zenon
<1>6. Range(handed) = Range(opened) \cup Range(Waiting)
  BY <1>2, <1>4, <1>5, RangeConcatenation
<1>7. Range(opened) \cap Range(Waiting) = {}
  <2>1. IsInjective(opened \o Waiting)
    BY <1>5 DEF OpenedInOrder
  <2> QED  BY <1>2, <1>4, <2>1, InjectiveParts
<1> QED  BY <1>1, <1>4, <1>5, <1>6, <1>7 DEF held, InLine

\* The initial state satisfies the inductive invariant.
LEMMA ServerIndInit == Init => ServerIndInv
<1> SUFFICES ASSUME Init PROVE ServerIndInv
  OBVIOUS
<1>1. Range(<<>>) = {} /\ <<>> \in Seq(Requests) /\ Len(<<>>) = 0 /\ IsInjective(<<>>)
  BY DEF Range, IsInjective
<1>2. Waiting = <<>>
  BY DEF Init, Waiting
<1>3. ServerTypeOK
  <2>1. /\ schan \in Seq(Requests) /\ Len(schan) <= ChanSize /\ handed \in Seq(Requests)
        /\ opened \in Seq(Requests)
    BY <1>1, EngineServerAssumption DEF Init
  <2>2. lsock \in AtMostOne(Requests)
    BY InHand DEF Init
  <2> QED  BY <2>1, <2>2 DEF Init, ServerTypeOK
<1>4. OpenedInOrder /\ LoopInv
  BY <1>1 DEF Init, OpenedInOrder, LoopInv
<1>5. SomebodyReads /\ UnopenedInv /\ FreshInv
  BY <1>1, <1>2 DEF Init, SomebodyReads, UnopenedInv, FreshInv
<1> QED  BY <1>3, <1>4, <1>5 DEF ServerIndInv

\* Every step preserves the inductive invariant.
LEMMA ServerIndStep == ServerIndInv /\ [Next]_vars => ServerIndInv'
<1> SUFFICES ASSUME ServerIndInv, [Next]_vars PROVE ServerIndInv'
  OBVIOUS
<1> USE EngineServerAssumption DEF ServerIndInv
<1>i. /\ lsock \in Seq(Requests) /\ Waiting \in Seq(Requests)
      /\ Range(handed) = Range(opened) \cup Range(Waiting)
      /\ Range(opened) \cap Range(Waiting) = {}
      /\ Range(Waiting) = Range(IF lpc = "open" THEN lsock ELSE <<>>) \cup Range(schan)
  BY LineOfSockets DEF InLine
<1>q. ASSUME UNCHANGED <<schan, lpc, lsock, handed, opened>>
      PROVE  OpenedInOrder' /\ Waiting' = Waiting
  BY <1>q DEF OpenedInOrder, Waiting
<1>1. ASSUME NEW r \in Requests,
             Refuse(r) \/ Serve(r) \/ Cancel(r) \/ PostDone(r) \/ PostAtOnce(r)
      PROVE  ServerIndInv'
  <2> USE DEF Refuse, Serve, Cancel, PostDone, PostAtOnce, Return, sessvars, loopvars
  <2>1. /\ rpc' \in [Requests -> {"idle", "handover", "serve", "waiting", "posting", "returned"}]
        /\ \A q \in Requests : \/ rpc'[q] = rpc[q]
                               \/ rpc'[q] \in {"waiting", "posting", "returned"} /\ rpc[q] # "handover"
        /\ UNCHANGED <<sessvars, loopvars, schan, done, handed, left>>
    BY <1>1 DEF ServerTypeOK
  <2> QED
    BY <2>1, <1>q DEF ServerTypeOK, SomebodyReads, LoopInv, UnopenedInv, FreshInv
<1>2. ASSUME NEW r \in Requests, NewSession(r) PROVE ServerIndInv'
  <2>1. /\ rpc[r] = "idle" /\ rpc' = [rpc EXCEPT ![r] = "handover"]
        /\ sessions' = sessions \cup {r} /\ sock' = [sock EXCEPT ![r] = "open"]
        /\ UNCHANGED <<open, lpc, lsock, reader, opened, schan, done, handed, left>>
    BY <1>2 DEF NewSession, loopvars
  <2>2. r \notin Range(Waiting)
    BY <1>i, <2>1 DEF UnopenedInv
  <2>3. ServerTypeOK' /\ LoopInv'
    BY <2>1 DEF ServerTypeOK, LoopInv
  <2>4. SomebodyReads' /\ UnopenedInv'
    BY <2>1 DEF ServerTypeOK, SomebodyReads, UnopenedInv
  <2>5. FreshInv'
    BY <2>1, <2>2, <1>q DEF ServerTypeOK, FreshInv
  <2> QED  BY <2>1, <2>3, <2>4, <2>5, <1>q
<1>3. ASSUME NEW r \in Requests, HandOver(r) PROVE ServerIndInv'
  <2>1. /\ rpc[r] = "handover" /\ Len(schan) < ChanSize
        /\ schan' = Append(schan, r) /\ handed' = Append(handed, r)
        /\ rpc' = [rpc EXCEPT ![r] = "serve"]
        /\ UNCHANGED <<sessions, sock, open, lpc, lsock, reader, opened, done, left>>
    BY <1>3 DEF HandOver, sessvars, loopvars
  <2>2. schan \in Seq(Requests) /\ handed \in Seq(Requests) /\ opened \in Seq(Requests)
    BY DEF ServerTypeOK
  <2>3. r \notin Range(handed) /\ sock[r] = "open" /\ reader[r] = "none"
    BY <2>1 DEF UnopenedInv
  <2>4. /\ schan' \in Seq(Requests) /\ Len(schan') = Len(schan) + 1
        /\ handed' \in Seq(Requests)
        /\ Range(schan') = Range(schan) \cup {r}
        /\ Range(handed') = Range(handed) \cup {r}
    <3>1. /\ Append(schan, r) \in Seq(Requests) /\ Len(Append(schan, r)) = Len(schan) + 1
          /\ Append(handed, r) \in Seq(Requests)
          /\ Append(schan, r) = schan \o <<r>> /\ Append(handed, r) = handed \o <<r>>
      BY <2>2, AppendProperties
    <3>2. Range(schan \o <<r>>) = Range(schan) \cup {r}
      BY <2>2, SeqRanges
    <3>3. Range(handed \o <<r>>) = Range(handed) \cup {r}
      BY <2>2, SeqRanges
    <3> QED  BY <2>1, <3>1, <3>2, <3>3
  <2>5. ServerTypeOK'
    <3>1. Len(schan') <= ChanSize
      BY <2>1, <2>2, <2>4
    <3> QED  BY <2>1, <2>4, <3>1 DEF ServerTypeOK
  <2>6. OpenedInOrder'
    <3> DEFINE before == opened \o (IF lpc = "open" THEN lsock ELSE <<>>)
    <3>1. before \in Seq(Requests)
      BY <1>i, <2>2, ConcatProperties, EmptySeq
    <3>2. handed = before \o schan /\ before' = before
      BY <2>1 DEF OpenedInOrder
    <3>3. IsInjective(handed')
      BY <2>1, <2>2, <2>3, InjectiveAppend DEF OpenedInOrder
    <3> HIDE DEF before
    <3>4. handed' = before' \o schan'
      <4>1. handed' = handed \o <<r>> /\ schan' = schan \o <<r>> /\ <<r>> \in Seq(Requests)
        <5>1. Append(schan, r) = schan \o <<r>> /\ Append(handed, r) = handed \o <<r>>
          BY <2>2
        <5>2. <<r>> \in Seq(Requests)
          OBVIOUS
        <5> QED  BY <2>1, <5>1, <5>2
      <4>2. (before \o schan) \o <<r>> = before \o (schan \o <<r>>)
        BY ONLY <2>2, <3>1, <4>1, Regroup
      <4> QED  BY <3>2, <4>1, <4>2
    <3> QED  BY <3>3, <3>4 DEF OpenedInOrder, before
  <2>7. Range(Waiting)' = Range(Waiting) \cup {r}
    <3>1. InLine'
      BY <2>5, <2>6, LineOfSockets, PTL
    <3> QED  BY <1>i, <2>1, <2>4, <3>1 DEF InLine
  <2>8. SomebodyReads' /\ LoopInv'
    BY <2>1, <2>4 DEF ServerTypeOK, SomebodyReads, LoopInv
  <2>9. UnopenedInv' /\ FreshInv'
    BY <2>1, <2>3, <2>4, <2>7 DEF ServerTypeOK, UnopenedInv, FreshInv
  <2> QED  BY <2>5, <2>6, <2>8, <2>9
<1>4. ASSUME NEW r \in Requests, HandOverDone(r) PROVE ServerIndInv'
  <2>1. /\ rpc[r] = "handover" /\ done /\ left' = left \cup {r}
        /\ rpc' = [rpc EXCEPT ![r] = "returned"]
        /\ UNCHANGED <<sessions, sock, open, lpc, lsock, reader, opened, schan, done, handed>>
    BY <1>4 DEF HandOverDone, Return, sessvars, loopvars
  <2>2. ServerTypeOK' /\ LoopInv'
    BY <2>1 DEF ServerTypeOK, LoopInv
  <2>3. SomebodyReads' /\ UnopenedInv' /\ FreshInv'
    BY <2>1, <1>q DEF ServerTypeOK, SomebodyReads, UnopenedInv, FreshInv
  <2> QED  BY <2>1, <2>2, <2>3, <1>q
<1>5. ASSUME NEW r \in Requests, Answer(r) PROVE ServerIndInv'
  <2>1. /\ rpc[r] = "waiting" /\ rpc' = [rpc EXCEPT ![r] = "returned"]
        /\ open' = open \/ open' = [open EXCEPT ![r] = "taken"]
        /\ UNCHANGED <<sessions, sock, lpc, lsock, reader, opened, schan, done, handed, left>>
    BY <1>5 DEF Answer, Return, loopvars
  <2>2. ServerTypeOK' /\ LoopInv'
    BY <2>1 DEF ServerTypeOK, LoopInv
  <2>3. SomebodyReads' /\ UnopenedInv' /\ FreshInv'
    BY <2>1, <1>q DEF ServerTypeOK, SomebodyReads, UnopenedInv, FreshInv
  <2> QED  BY <2>1, <2>2, <2>3, <1>q
<1>6. CASE LoopTake
  <2> DEFINE r == Head(schan)
  <2>1. /\ lpc = "select" /\ schan # <<>> /\ lsock' = <<r>> /\ schan' = Tail(schan)
        /\ lpc' = "open"
        /\ UNCHANGED <<rpc, sessions, sock, open, reader, opened, done, handed, left>>
    BY <1>6 DEF LoopTake, sessvars
  <2>2. schan \in Seq(Requests) /\ opened \in Seq(Requests) /\ lsock = <<>>
    BY <2>1 DEF ServerTypeOK, LoopInv
  <2>3. /\ r \in Requests /\ schan' \in Seq(Requests) /\ Len(schan') = Len(schan) - 1
        /\ <<r>> \o schan' = schan /\ Range(schan) = {r} \cup Range(schan')
        /\ Range(<<r>>) = {r} /\ Range(<<>>) = {}
    <3>1. r \in Requests /\ schan' \in Seq(Requests) /\ Len(schan') = Len(schan) - 1
      BY <2>1, <2>2, HeadTailProperties
    <3>2. Range(schan) = {r} \cup Range(schan') /\ Range(<<r>>) = {r} /\ Range(<<>>) = {}
      BY <2>1, <2>2, <3>1, SeqRanges
    <3>3. <<r>> \o Tail(schan) = schan
      BY <2>1, <2>2, SMT
    <3> QED  BY <2>1, <3>1, <3>2, <3>3
  <2> HIDE DEF r
  <2>4. ServerTypeOK'
    <3>1. Len(schan') <= ChanSize
      BY <2>2, <2>3 DEF ServerTypeOK
    <3> QED  BY <2>1, <2>3, <3>1, InHand DEF ServerTypeOK
  <2>5. OpenedInOrder' /\ Waiting' = Waiting
    <3>1. Waiting = schan /\ Waiting' = <<r>> \o schan'
      BY <2>1, <2>2, ConcatEmptySeq DEF Waiting
    <3>2. handed = opened \o schan
      BY <3>1, LineOfSockets DEF InLine
    <3>3. opened \o (<<r>> \o schan') = (opened \o <<r>>) \o schan'
      <4>1. <<r>> \in Seq(Requests)
        BY <2>3
      <4>2. opened \in Seq(Requests) /\ schan' \in Seq(Requests)
        BY <2>2, <2>3
      <4> QED  BY ONLY <4>1, <4>2, Regroup
    <3>4. handed' = (opened \o <<r>>) \o schan'
      BY <2>1, <2>3, <3>2, <3>3
    <3> QED  BY <2>1, <2>3, <3>1, <3>4 DEF OpenedInOrder
  <2>6. SomebodyReads' /\ LoopInv'
    <3>1. lsock' # <<>>
      BY <2>1
    <3> QED  BY <2>1, <2>2, <2>3, <3>1 DEF SomebodyReads, LoopInv
  <2>7. UnopenedInv' /\ FreshInv'
    BY <2>1, <2>5 DEF UnopenedInv, FreshInv
  <2> QED  BY <2>4, <2>5, <2>6, <2>7
<1>7. CASE LoopDone
  <2>1. /\ lpc = "select" /\ lpc' = "exited"
        /\ UNCHANGED <<rpc, sessions, sock, open, lsock, reader, opened, schan, done, handed, left>>
    BY <1>7 DEF LoopDone, sessvars
  <2>2. OpenedInOrder' /\ Waiting' = Waiting
    BY <2>1 DEF OpenedInOrder, Waiting
  <2>3. ServerTypeOK' /\ LoopInv'
    BY <2>1 DEF ServerTypeOK, LoopInv
  <2>4. SomebodyReads' /\ UnopenedInv' /\ FreshInv'
    BY <2>1, <2>2 DEF SomebodyReads, UnopenedInv, FreshInv
  <2> QED  BY <2>2, <2>3, <2>4
<1>8. CASE LoopOpen
  <2>0. PICK r \in Requests : lsock = <<r>>
    <3>1. lsock \in AtMostOne(Requests) /\ lsock # <<>>
      BY <1>8 DEF LoopOpen, ServerTypeOK, LoopInv
    <3> QED  BY <3>1, InHand
  <2>1. /\ lpc = "open" /\ lpc' = "callback" /\ lsock[1] = r
        /\ open' = [open EXCEPT ![r] = IF r \in Polls THEN "out" ELSE "taken"]
        /\ reader' = [reader EXCEPT ![r] = "reading"] /\ opened' = Append(opened, r)
        /\ UNCHANGED <<rpc, sessions, lsock, sock, schan, done, handed, left>>
    BY <1>8, <2>0 DEF LoopOpen
  <2>2. opened \in Seq(Requests) /\ schan \in Seq(Requests) /\ <<r>> \in Seq(Requests)
    BY DEF ServerTypeOK
  <2>3. Waiting = <<r>> \o schan /\ Waiting' = schan
    <3>1. Waiting = <<r>> \o schan /\ Waiting' = <<>> \o schan
      BY <2>0, <2>1 DEF Waiting
    <3> QED  BY <2>2, <3>1, ConcatEmptySeq
  <2>4. Range(Waiting) = {r} \cup Range(schan) /\ r \notin Range(schan)
    <3>1. Range(Waiting) = {r} \cup Range(schan)
      <4>1. Range(<<r>>) = {r}
        BY <2>2, SeqRanges
      <4> QED  BY <1>i, <2>0, <2>1, <4>1
    <3>2. IsInjective((opened \o <<r>>) \o schan)
      BY <2>0, <2>1 DEF OpenedInOrder
    <3>3. opened \o <<r>> \in Seq(Requests) /\ r \in Range(opened \o <<r>>)
      <4>1. Append(opened, r) = opened \o <<r>> /\ Append(opened, r) \in Seq(Requests)
        BY <2>2, AppendIsConcat, AppendProperties
      <4>2. Range(opened \o <<r>>) = Range(opened) \cup {r}
        BY <2>2, SeqRanges
      <4> QED  BY <4>1, <4>2
    <3>4. r \notin Range(schan)
      BY <2>2, <3>2, <3>3, InjectiveParts
    <3> QED  BY <3>1, <3>4
  <2>5. ServerTypeOK'
    <3>1. opened' \in Seq(Requests)
      BY <2>1, <2>2, AppendProperties
    <3> QED  BY <2>1, <3>1 DEF ServerTypeOK
  <2>6. OpenedInOrder'
    <3>1. handed = (opened \o <<r>>) \o schan
      BY <2>0, <2>1 DEF OpenedInOrder
    <3>2. opened' = opened \o <<r>> /\ opened' \in Seq(Requests)
      BY <2>1, <2>2, AppendIsConcat, AppendProperties
    <3>3. opened' \o <<>> = opened'
      BY <3>2, ConcatEmptySeq
    <3>4. handed' = (opened' \o <<>>) \o schan'
      BY <2>1, <3>1, <3>2, <3>3
    <3> QED  BY <2>1, <3>4 DEF OpenedInOrder
  <2>7. SomebodyReads' /\ LoopInv'
    BY <2>0, <2>1 DEF ServerTypeOK, SomebodyReads, LoopInv
  <2>8. UnopenedInv'
    BY <1>i, <2>1, <2>4 DEF ServerTypeOK, UnopenedInv
  <2>9. FreshInv'
    BY <2>1, <2>3, <2>4 DEF ServerTypeOK, FreshInv
  <2> QED  BY <2>5, <2>6, <2>7, <2>8, <2>9
<1>9. CASE OnOpenReturn
  <2>0. PICK r \in Requests : lsock = <<r>>
    <3>1. lsock \in AtMostOne(Requests) /\ lsock # <<>>
      BY <1>9 DEF OnOpenReturn, ServerTypeOK, LoopInv
    <3> QED  BY <3>1, InHand
  <2>1. /\ lpc = "callback" /\ lpc' = "select" /\ lsock' = <<>> /\ lsock[1] = r
        /\ UNCHANGED <<rpc, sessions, sock, open, reader, opened, schan, done, handed, left>>
    BY <1>9, <2>0 DEF OnOpenReturn, sessvars
  <2>2. OpenedInOrder' /\ Waiting' = Waiting
    BY <2>1 DEF OpenedInOrder, Waiting
  <2>3. ServerTypeOK' /\ LoopInv'
    BY <2>1, InHand DEF ServerTypeOK, LoopInv
  <2>4. SomebodyReads'
    <3>1. Range(lsock) = {r} /\ Range(<<>>) = {} /\ reader[r] # "none"
      BY <2>0, <2>1, SeqRanges, EmptySeq DEF LoopInv
    <3> QED  BY <2>1, <3>1 DEF SomebodyReads
  <2>5. UnopenedInv' /\ FreshInv'
    BY <2>1, <2>2 DEF UnopenedInv, FreshInv
  <2> QED  BY <2>2, <2>3, <2>4, <2>5
<1>10. ASSUME NEW r \in Requests, ReadFails(r) PROVE ServerIndInv'
  <2>1. /\ reader[r] = "reading" /\ reader' = [reader EXCEPT ![r] = "exited"]
        /\ sessions' = sessions \ {r} /\ sock' = [sock EXCEPT ![r] = "closed"]
        /\ UNCHANGED <<rpc, open, lpc, lsock, opened, schan, done, handed, left>>
    BY <1>10 DEF ReadFails
  <2>2. ServerTypeOK'
    BY <2>1 DEF ServerTypeOK
  <2>3. SomebodyReads' /\ UnopenedInv' /\ FreshInv'
    BY <2>1, <1>q DEF ServerTypeOK, SomebodyReads, UnopenedInv, FreshInv
  <2>4. LoopInv'
    BY <2>1 DEF ServerTypeOK, LoopInv
  <2> QED  BY <2>1, <2>2, <2>3, <2>4, <1>q
<1>11. ASSUME NEW r \in Requests, AppClose(r) PROVE ServerIndInv'
  <2>1. /\ r \in Range(opened) /\ sock[r] = "open"
        /\ sock' = [sock EXCEPT ![r] = "closed"]
        /\ UNCHANGED <<rpc, sessions, open, lpc, lsock, reader, opened, schan, done, handed, left>>
    BY <1>11 DEF AppClose, loopvars
  <2>2. ServerTypeOK' /\ LoopInv'
    BY <2>1 DEF ServerTypeOK, LoopInv
  <2>3. SomebodyReads' /\ UnopenedInv' /\ FreshInv'
    BY <2>1, <1>i, <1>q DEF ServerTypeOK, SomebodyReads, UnopenedInv, FreshInv
  <2> QED  BY <2>1, <2>2, <2>3, <1>q
<1>12. CASE Close
  <2>1. /\ done' = TRUE
        /\ UNCHANGED <<rpc, sessions, sock, open, lpc, lsock, reader, opened, schan, handed, left>>
    BY <1>12 DEF Close, sessvars, loopvars
  <2>2. ServerTypeOK' /\ LoopInv'
    BY <2>1 DEF ServerTypeOK, LoopInv
  <2>3. SomebodyReads' /\ UnopenedInv' /\ FreshInv'
    BY <2>1, <1>q DEF SomebodyReads, UnopenedInv, FreshInv
  <2> QED  BY <2>1, <2>2, <2>3, <1>q
<1>13. CASE UNCHANGED vars
  <2>1. ServerTypeOK' /\ LoopInv'
    BY <1>13 DEF vars, ServerTypeOK, LoopInv
  <2>2. SomebodyReads' /\ UnopenedInv' /\ FreshInv'
    BY <1>13, <1>q DEF vars, SomebodyReads, UnopenedInv, FreshInv
  <2> QED  BY <1>13, <2>1, <2>2, <1>q DEF vars
<1> QED
  BY <1>1, <1>2, <1>3, <1>4, <1>5, <1>6, <1>7, <1>8, <1>9, <1>10, <1>11, <1>12, <1>13
  DEF Next, ServeStep, LoopStep

\* The server's safety: no socket waits for a reader that nobody will start, unless the
\* server was closed, and the loop opens each socket once, still open, in the order in
\* which the requests handed them over.
THEOREM ServerSafe == Spec => []ServerInv
<1>1. Init => ServerIndInv
  BY ServerIndInit
<1>2. ServerIndInv /\ [Next]_vars => ServerIndInv'
  BY ServerIndStep
<1>3. ServerIndInv => ServerInv
  <2> SUFFICES ASSUME ServerIndInv, lpc = "open"
               PROVE  sock[lsock[1]] = "open" /\ reader[lsock[1]] = "none"
    BY DEF ServerIndInv, ServerInv, OpensFresh
  <2>1. PICK r \in Requests : lsock = <<r>>
    <3>1. lsock \in AtMostOne(Requests) /\ lsock # <<>>
      BY DEF ServerIndInv, ServerTypeOK, LoopInv
    <3> QED  BY <3>1, InHand
  <2>2. Range(lsock) = {r} /\ lsock[1] = r
    BY <2>1, SeqRanges, EmptySeq
  <2>3. r \in Range(Waiting)
    BY <2>2, LineOfSockets DEF ServerIndInv, InLine
  <2> QED  BY <2>2, <2>3 DEF ServerIndInv, FreshInv
<1> QED  BY <1>1, <1>2, <1>3, PTL DEF Spec
=============================================================================
