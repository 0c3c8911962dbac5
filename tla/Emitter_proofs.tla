--------------------------- MODULE Emitter_proofs ---------------------------
(***************************************************************************)
(* The safety properties of Emitter for any number of goroutines, packets  *)
(* and any capacity, and that Emitter implements Outbox.                   *)
(***************************************************************************)
EXTENDS Emitter, SequenceTheorems, TLAPS

(* Sequences of at most one packet, and how they shift between hand and    *)
(* channel.                                                                *)

\* Taking the head of the channel in hand does not change the line of packets.
LEMMA TakeKeepsLine ==
  ASSUME NEW S, NEW q \in Seq(S), q # <<>>
  PROVE  /\ Head(q) \in S
         /\ Tail(q) \in Seq(S)
         /\ Len(Tail(q)) = Len(q) - 1
         /\ <<Head(q)>> \o Tail(q) = q
<1>1. Head(q) \in S /\ Tail(q) \in Seq(S) /\ Len(Tail(q)) = Len(q) - 1
  BY HeadTailProperties
<1>2. <<Head(q)>> \o Tail(q) = q
  BY SMT
<1> QED  BY <1>1, <1>2

\* A sequence of at most one packet is a sequence.
LEMMA AtMostOneIsSeq ==
  ASSUME NEW S, NEW h \in AtMostOne(S)
  PROVE  /\ h \in Seq(S)
         /\ h # <<>> => /\ Head(h) \in S
                        /\ h = <<Head(h)>>
                        /\ Len(h) = 1
<1>1. CASE h = <<>>
  BY <1>1
<1>2. CASE h # <<>>
  <2>1. PICK p \in S : h = <<p>>
    BY <1>2 DEF AtMostOne
  <2>2. <<p>> \in Seq(S) /\ Head(<<p>>) = p /\ Len(<<p>>) = 1
    OBVIOUS
  <2> QED  BY <2>1, <2>2
<1> QED  BY <1>1, <1>2

\* What is of at most one packet: nothing, and one packet.
LEMMA AtMostOneIntro ==
  ASSUME NEW S
  PROVE  <<>> \in AtMostOne(S) /\ \A p \in S : <<p>> \in AtMostOne(S)
  BY Zenon DEF AtMostOne

\* Writing what is in hand moves it from the line to what was written.
LEMMA WriteShiftsLine ==
  ASSUME NEW S, NEW h \in AtMostOne(S), NEW q \in Seq(S), NEW w \in Seq(S), h # <<>>
  PROVE  /\ h \o q # <<>>
         /\ w \o h = Append(w, Head(h \o q))
         /\ Tail(h \o q) = q
<1>1. h = <<Head(h)>> /\ Head(h) \in S
  BY AtMostOneIsSeq
<1>2. PICK p \in S : h = <<p>>
  BY <1>1
<1>3. <<p>> \o q # <<>> /\ Head(<<p>> \o q) = p /\ Tail(<<p>> \o q) = q
  BY SMT
<1>4. w \o <<p>> = Append(w, p)
  BY SMT
<1> QED  BY <1>2, <1>3, <1>4

-----------------------------------------------------------------------------
(* The inductive invariant.  Conservation and FlushedBeforeClosed are not  *)
(* inductive: the first needs to know when the hand is empty, the second   *)
(* that an emitter that exited had nothing left at that moment.            *)

HandInv == epc \in {"wait", "write"} <=> hand # <<>>

CloseInv ==
  /\ done <=> once # "open"
  /\ once = "closed" => epc = "exited"
  /\ due <= Len(accepted)
  /\ epc = "exited" => done /\ Len(written) >= due

EmitterInv == EmitterTypeOK /\ Conservation /\ HandInv /\ CloseInv

\* The initial state satisfies the inductive invariant.
LEMMA EmitterInvInit == EmitterInit => EmitterInv
<1> SUFFICES ASSUME EmitterInit PROVE EmitterInv
  OBVIOUS
<1> USE EmitterSizeAssumption
<1>1. EmitterTypeOK
  <2>1. <<>> \in Seq(Packets) /\ Len(<<>>) = 0 /\ <<>> \in AtMostOne(Packets)
    BY AtMostOneIntro
  <2>2. spkt \in [Submitters -> AtMostOne(Packets)] /\ cpc \in [Closers -> {"idle", "closing"}]
    BY <2>1 DEF EmitterInit
  <2>3. packets \in Seq(Packets) /\ Len(packets) <= EmitterSize
    BY <2>1 DEF EmitterInit
  <2>4. hand \in AtMostOne(Packets) /\ accepted \in Seq(Packets) /\ written \in Seq(Packets)
    BY <2>1 DEF EmitterInit
  <2>5. /\ done \in BOOLEAN /\ epc \in {"top", "wait", "write", "exited"}
        /\ once \in {"open", "closing", "closed"} /\ due \in Nat
    BY DEF EmitterInit
  <2> QED  BY <2>2, <2>3, <2>4, <2>5 DEF EmitterTypeOK
<1>2. Conservation
  BY DEF EmitterInit, Conservation
<1>3. HandInv /\ CloseInv
  BY DEF EmitterInit, HandInv, CloseInv
<1> QED  BY <1>1, <1>2, <1>3 DEF EmitterInv

\* Concatenation is associative on the three parts of the line.
LEMMA LineAssoc ==
  ASSUME NEW S, NEW a \in Seq(S), NEW b \in Seq(S), NEW c \in Seq(S)
  PROVE  (a \o b) \o c = a \o (b \o c)
  BY ConcatAssociative

\* Length and type of a concatenation, and the empty sequence on either side.
LEMMA LineFacts ==
  ASSUME NEW S, NEW a \in Seq(S), NEW b \in Seq(S)
  PROVE  /\ a \o b \in Seq(S)
         /\ Len(a \o b) = Len(a) + Len(b)
         /\ a \o <<>> = a
         /\ <<>> \o a = a
  BY ConcatProperties, ConcatEmptySeq

\* One packet more at the end of a sequence, or of the last part of the line.
LEMMA OneMore ==
  ASSUME NEW S, NEW a \in Seq(S), NEW p \in S
  PROVE  /\ a \o <<p>> \in Seq(S)
         /\ Len(a \o <<p>>) = Len(a) + 1
         /\ \A w \in Seq(S) : (w \o a) \o <<p>> = w \o (a \o <<p>>)
<1>1. <<p>> \in Seq(S) /\ Len(<<p>>) = 1
  OBVIOUS
<1>2. a \o <<p>> \in Seq(S) /\ Len(a \o <<p>>) = Len(a) + 1
  BY <1>1, LineFacts
<1>3. ASSUME NEW w \in Seq(S) PROVE (w \o a) \o <<p>> = w \o (a \o <<p>>)
  BY <1>1, LineAssoc
<1> QED  BY <1>2, <1>3

\* A step of the emitter's goroutines, whatever packet is submitted: EmitterNext
\* without its bound on the packets, which is what Session takes.
EmitterStep ==
  \/ \E s \in Submitters : \E p \in Packets : Submit(s, p)
  \/ \E s \in Submitters : SubmitSend(s) \/ SubmitFail(s)
  \/ Take \/ Pass \/ Written \/ Exit
  \/ \E c \in Closers : CloseCall(c) \/ CloseReturn(c)
  \/ CloseConn

\* Every step preserves the inductive invariant.
LEMMA EmitterInvStep == EmitterInv /\ [EmitterStep]_evars => EmitterInv'
<1> SUFFICES ASSUME EmitterInv, [EmitterStep]_evars PROVE EmitterInv'
  OBVIOUS
<1> USE EmitterSizeAssumption DEF EmitterInv
<1>1. ASSUME NEW s \in Submitters, NEW p \in Packets, Submit(s, p) PROVE EmitterInv'
  <2>1. EmitterTypeOK'
    BY <1>1, AtMostOneIntro DEF Submit, EmitterTypeOK
  <2>2. (Conservation /\ HandInv /\ CloseInv)'
    BY <1>1 DEF Submit, Conservation, HandInv, CloseInv
  <2> QED  BY <2>1, <2>2
<1>2. ASSUME NEW s \in Submitters, SubmitSend(s) PROVE EmitterInv'
  <2>0. PICK p \in Packets : spkt[s] = <<p>>
    <3>1. spkt[s] \in AtMostOne(Packets) /\ spkt[s] # <<>>
      BY <1>2 DEF SubmitSend, EmitterTypeOK
    <3> QED  BY <3>1, AtMostOneIsSeq
  <2>1. /\ packets' = packets \o <<p>> /\ accepted' = accepted \o <<p>>
        /\ Len(packets) < EmitterSize
    BY <1>2, <2>0 DEF SubmitSend
  <2>2. /\ packets' \in Seq(Packets) /\ Len(packets') = Len(packets) + 1
        /\ accepted' \in Seq(Packets) /\ Len(accepted') = Len(accepted) + 1
    BY <2>1, OneMore DEF EmitterTypeOK
  <2>3. EmitterTypeOK'
    <3>1. Len(packets') <= EmitterSize
      BY <2>1, <2>2 DEF EmitterTypeOK
    <3> QED  BY <1>2, <2>2, <3>1, AtMostOneIntro DEF SubmitSend, EmitterTypeOK
  <2>4. Conservation'
    <3>1. hand \in Seq(Packets) /\ packets \in Seq(Packets) /\ written \in Seq(Packets)
      BY AtMostOneIsSeq DEF EmitterTypeOK
    <3>2. written \o hand \in Seq(Packets)
      BY <3>1, LineFacts
    <3>3. ((written \o hand) \o packets) \o <<p>> = (written \o hand) \o (packets \o <<p>>)
      BY <3>1, <3>2, OneMore
    <3> QED  BY <1>2, <2>1, <3>3 DEF SubmitSend, Conservation
  <2>5. HandInv' /\ CloseInv'
    <3>1. due \in Nat /\ Len(accepted) \in Nat
      BY DEF EmitterTypeOK
    <3> QED  BY <1>2, <2>2, <3>1 DEF SubmitSend, HandInv, CloseInv
  <2> QED  BY <2>3, <2>4, <2>5
<1>3. ASSUME NEW s \in Submitters, SubmitFail(s) PROVE EmitterInv'
  <2>1. EmitterTypeOK'
    BY <1>3, AtMostOneIntro DEF SubmitFail, EmitterTypeOK
  <2>2. (Conservation /\ HandInv /\ CloseInv)'
    BY <1>3 DEF SubmitFail, Conservation, HandInv, CloseInv
  <2> QED  BY <2>1, <2>2
<1>4. CASE Take
  <2>1. /\ Head(packets) \in Packets
        /\ Tail(packets) \in Seq(Packets)
        /\ Len(Tail(packets)) = Len(packets) - 1
        /\ <<Head(packets)>> \o Tail(packets) = packets
    BY <1>4, TakeKeepsLine DEF Take, EmitterTypeOK
  <2>2. Len(packets) \in Nat
    BY DEF EmitterTypeOK
  <2>3. EmitterTypeOK'
    BY <1>4, <2>1, <2>2, AtMostOneIntro DEF Take, EmitterTypeOK
  <2>4. Conservation'
    <3>1. hand = <<>>
      BY <1>4 DEF Take, HandInv
    <3>2. <<Head(packets)>> \in Seq(Packets)
      BY <2>1
    <3>3. accepted = written \o packets
      BY <3>1, LineFacts DEF Conservation, EmitterTypeOK
    <3>4. (written \o <<Head(packets)>>) \o Tail(packets)
            = written \o (<<Head(packets)>> \o Tail(packets))
      BY <2>1, <3>2, LineAssoc DEF EmitterTypeOK
    <3> QED  BY <1>4, <2>1, <3>3, <3>4 DEF Take, Conservation
  <2>5. HandInv' /\ CloseInv'
    BY <1>4 DEF Take, HandInv, CloseInv
  <2> QED  BY <2>3, <2>4, <2>5
<1>5. CASE Pass
  <2>1. EmitterTypeOK'
    BY <1>5 DEF Pass, EmitterTypeOK
  <2>2. (Conservation /\ HandInv /\ CloseInv)'
    BY <1>5 DEF Pass, Conservation, HandInv, CloseInv
  <2> QED  BY <2>1, <2>2
<1>6. CASE Written
  <2>1. hand \in Seq(Packets) /\ written \in Seq(Packets) /\ packets \in Seq(Packets)
    BY AtMostOneIsSeq DEF EmitterTypeOK
  <2>2. /\ written \o hand \in Seq(Packets)
        /\ (written \o hand) \o <<>> = written \o hand
    BY <2>1, LineFacts
  <2>3. EmitterTypeOK'
    BY <1>6, <2>2, AtMostOneIntro DEF Written, EmitterTypeOK
  <2>4. Conservation'
    BY <1>6, <2>2 DEF Written, Conservation
  <2>5. HandInv' /\ CloseInv'
    BY <1>6 DEF Written, HandInv, CloseInv
  <2> QED  BY <2>3, <2>4, <2>5
<1>7. CASE Exit
  <2>1. EmitterTypeOK'
    BY <1>7 DEF Exit, EmitterTypeOK
  <2>2. Conservation' /\ HandInv'
    BY <1>7 DEF Exit, Conservation, HandInv
  <2>3. accepted = written
    <3>1. hand = <<>> /\ packets = <<>>
      BY <1>7 DEF Exit, HandInv
    <3> QED  BY <3>1, LineFacts DEF Conservation, EmitterTypeOK
  <2>4. CloseInv'
    BY <1>7, <2>3 DEF Exit, CloseInv
  <2> QED  BY <2>1, <2>2, <2>4
<1>8. ASSUME NEW c \in Closers, CloseCall(c) PROVE EmitterInv'
  <2>1. Len(accepted) \in Nat
    BY DEF EmitterTypeOK
  <2>2. EmitterTypeOK'
    BY <1>8, <2>1 DEF CloseCall, EmitterTypeOK
  <2>3. Conservation' /\ HandInv'
    BY <1>8 DEF CloseCall, Conservation, HandInv
  <2>4. CloseInv'
    BY <1>8, <2>1 DEF CloseCall, CloseInv
  <2> QED  BY <2>2, <2>3, <2>4
<1>9. CASE CloseConn
  <2>1. EmitterTypeOK'
    BY <1>9 DEF CloseConn, EmitterTypeOK
  <2>2. (Conservation /\ HandInv /\ CloseInv)'
    BY <1>9 DEF CloseConn, Conservation, HandInv, CloseInv
  <2> QED  BY <2>1, <2>2
<1>10. ASSUME NEW c \in Closers, CloseReturn(c) PROVE EmitterInv'
  <2>1. EmitterTypeOK'
    BY <1>10 DEF CloseReturn, EmitterTypeOK
  <2>2. (Conservation /\ HandInv /\ CloseInv)'
    BY <1>10 DEF CloseReturn, Conservation, HandInv, CloseInv
  <2> QED  BY <2>1, <2>2
<1>11. CASE UNCHANGED evars
  <2>1. EmitterTypeOK'
    BY <1>11 DEF evars, EmitterTypeOK
  <2>2. (Conservation /\ HandInv /\ CloseInv)'
    BY <1>11 DEF evars, Conservation, HandInv, CloseInv
  <2> QED  BY <2>1, <2>2
<1> QED
  BY <1>1, <1>2, <1>3, <1>4, <1>5, <1>6, <1>7, <1>8, <1>9, <1>10, <1>11
  DEF EmitterStep

\* The inductive invariant holds in every reachable state.
THEOREM EmitterInvariance == EmitterSpec => []EmitterInv
<1>1. EmitterInit => EmitterInv
  BY EmitterInvInit
<1>2. EmitterInv /\ [EmitterNext]_evars => EmitterInv'
  <2>1. EmitterNext => EmitterStep
    BY DEF EmitterNext, EmitterStep
  <2> QED  BY <2>1, EmitterInvStep
<1> QED  BY <1>1, <1>2, PTL DEF EmitterSpec

\* Type correctness: in particular the channel never exceeds its capacity.
THEOREM EmitterTypeCorrect == EmitterSpec => []EmitterTypeOK
<1>1. EmitterInv => EmitterTypeOK
  BY DEF EmitterInv
<1> QED  BY <1>1, EmitterInvariance, PTL

\* No packet is lost, doubled or reordered between submit and WritePacket.
THEOREM EmitterConserves == EmitterSpec => []Conservation
<1>1. EmitterInv => Conservation
  BY DEF EmitterInv
<1> QED  BY <1>1, EmitterInvariance, PTL

\* Close closes the connection only after the packets it found are written.
THEOREM CloseFlushes == EmitterSpec => []FlushedBeforeClosed
<1>1. EmitterInv => FlushedBeforeClosed
  BY DEF EmitterInv, CloseInv, FlushedBeforeClosed
<1> QED  BY <1>1, EmitterInvariance, PTL

-----------------------------------------------------------------------------
(* Emitter implements Outbox.                                              *)

\* The initial states map to initial states.
LEMMA PromiseInit == EmitterInit => Promise!Init
  BY DEF EmitterInit, Promise!Init

\* Every step maps to a step of Outbox or to a stutter.
LEMMA PromiseStep ==
  EmitterInv /\ [EmitterNext]_evars => [Promise!Next]_Promise!vars
<1> SUFFICES ASSUME EmitterInv, [EmitterNext]_evars PROVE [Promise!Next]_Promise!vars
  OBVIOUS
<1>t. /\ hand \in AtMostOne(Packets) /\ hand \in Seq(Packets) /\ packets \in Seq(Packets)
      /\ written \in Seq(Packets)
  BY AtMostOneIsSeq DEF EmitterInv, EmitterTypeOK
<1>1. ASSUME NEW s \in Submitters, NEW p \in Packets, Submit(s, p)
      PROVE  UNCHANGED Promise!vars
  BY <1>1 DEF Submit, Promise!vars
<1>2. ASSUME NEW s \in Submitters, SubmitSend(s) PROVE Promise!Next
  <2>1. PICK p \in Packets : spkt[s] = <<p>>
    <3>1. spkt[s] \in AtMostOne(Packets) /\ spkt[s] # <<>>
      BY <1>2 DEF SubmitSend, EmitterInv, EmitterTypeOK
    <3> QED  BY <3>1, AtMostOneIsSeq
  <2>2. hand \o (packets \o <<p>>) = (hand \o packets) \o <<p>>
    BY <1>t, OneMore
  <2>3. (hand \o packets) \o <<p>> = Append(hand \o packets, p)
    <3>1. hand \o packets \in Seq(Packets)
      BY <1>t, LineFacts
    <3> DEFINE q == hand \o packets
    <3> HIDE DEF q
    <3>2. q \in Seq(Packets)
      BY <3>1 DEF q
    <3>3. q \o <<p>> = Append(q, p)
      BY <3>2
    <3> QED  BY <3>3 DEF q
  <2>4. Promise!Accept(p)
    BY <1>2, <2>1, <2>2, <2>3 DEF SubmitSend, Promise!Accept
  <2> QED  BY <2>4 DEF Promise!Next
<1>3. ASSUME NEW s \in Submitters, SubmitFail(s) PROVE UNCHANGED Promise!vars
  BY <1>3 DEF SubmitFail, Promise!vars
<1>4. CASE Take
  <2>1. hand = <<>>
    BY <1>4 DEF Take, EmitterInv, HandInv
  <2>2. hand \o packets = packets
    BY <1>t, <2>1, LineFacts
  <2>3. <<Head(packets)>> \o Tail(packets) = packets
    BY <1>4, <1>t, TakeKeepsLine DEF Take
  <2> QED  BY <1>4, <2>2, <2>3 DEF Take, Promise!vars
<1>5. CASE Pass
  BY <1>5 DEF Pass, Promise!vars
<1>6. CASE Written
  <2>1. hand # <<>> /\ once # "closed"
    BY <1>6 DEF Written, EmitterInv, HandInv, CloseInv
  <2>2. /\ hand \o packets # <<>>
        /\ written \o hand = Append(written, Head(hand \o packets))
        /\ Tail(hand \o packets) = packets
    BY <1>t, <2>1, WriteShiftsLine
  <2>3. <<>> \o packets = packets
    BY <1>t, LineFacts
  <2>4. Promise!Transmit
    BY <1>6, <2>1, <2>2, <2>3 DEF Written, Promise!Transmit
  <2> QED  BY <2>4 DEF Promise!Next
<1>7. CASE Exit
  BY <1>7 DEF Exit, Promise!vars
<1>8. ASSUME NEW c \in Closers, CloseCall(c) PROVE [Promise!Next]_Promise!vars
  <2>1. CASE once = "open"
    <3>1. Len(accepted) = Len(written) + Len(hand \o packets)
      <4>1. hand \o packets \in Seq(Packets)
        BY <1>t, LineFacts
      <4>2. accepted = written \o (hand \o packets)
        BY <1>t, LineAssoc DEF EmitterInv, Conservation
      <4> QED  BY <1>t, <4>1, <4>2, LineFacts
    <3>2. Promise!Shut
      BY <1>8, <2>1, <3>1 DEF CloseCall, Promise!Shut
    <3> QED  BY <3>2 DEF Promise!Next
  <2>2. CASE once # "open"
    BY <1>8, <2>2 DEF CloseCall, Promise!vars
  <2> QED  BY <2>1, <2>2
<1>9. CASE CloseConn
  <2>1. Promise!Finish
    BY <1>9 DEF CloseConn, EmitterInv, CloseInv, Promise!Finish
  <2> QED  BY <2>1 DEF Promise!Next
<1>10. ASSUME NEW c \in Closers, CloseReturn(c) PROVE UNCHANGED Promise!vars
  BY <1>10 DEF CloseReturn, Promise!vars
<1>11. CASE UNCHANGED evars
  BY <1>11 DEF evars, Promise!vars
<1> QED
  BY <1>1, <1>2, <1>3, <1>4, <1>5, <1>6, <1>7, <1>8, <1>9, <1>10, <1>11
  DEF EmitterNext

\* A Socket keeps the promise of Outbox: order, at most once, and Close after
\* every packet that was accepted before it.
THEOREM EmitterImplementsOutbox == EmitterSpec => PromiseSpec
<1>1. EmitterInit => Promise!Init
  BY PromiseInit
<1>2. EmitterInv /\ [EmitterNext]_evars => [Promise!Next]_Promise!vars
  BY PromiseStep
<1> QED  BY <1>1, <1>2, EmitterInvariance, PTL DEF EmitterSpec, PromiseSpec, Promise!Spec
=============================================================================
