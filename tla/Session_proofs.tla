--------------------------- MODULE Session_proofs ---------------------------
(***************************************************************************)
(* Safety of Session for any number of application goroutines and upgrade  *)
(* requests, any capacities and any number of packets.                     *)
(***************************************************************************)
EXTENDS Session, Emitter_proofs

-----------------------------------------------------------------------------
(* The emitter inside the session takes steps of Emitter only, so what is  *)
(* proved of Emitter holds of it.                                          *)

\* The packet a handler answers is one the client sent.
LEMMA PendingIsInbound ==
  ASSUME InboundTypeOK, NEW h \in Handlers, Pending(h) # <<>>
  PROVE  Head(Pending(h)) \in InPackets
<1>1. CASE h = Reader
  BY <1>1, AtMostOneIsSeq DEF InboundTypeOK, Pending
<1>2. CASE h # Reader
  BY <1>2, HeadTailProperties DEF InboundTypeOK, Pending
<1> QED  BY <1>1, <1>2

\* Every step of a session is a step of its emitter or leaves the emitter alone.
LEMMA StepsOfEmitter ==
  ASSUME InboundTypeOK, OutboundTypeOK, [Next]_vars
  PROVE  [EmitterStep]_evars
<1> USE SessionAssumption
<1>1. ASSUME NEW a \in Apps, AppEmit(a) PROVE EmitterStep
  <2>1. a \in Submitters
    BY DEF Goroutines
  <2>2. <<"message", nout'>> \in Packets
    BY <1>1 DEF AppEmit, OutboundTypeOK, OutPackets
  <2> QED  BY <1>1, <2>1, <2>2 DEF AppEmit, EmitterStep
<1>2. ASSUME NEW h \in Handlers, Handle(h) PROVE [EmitterStep]_evars
  <2>1. h \in Submitters /\ h \in Closers
    BY DEF Goroutines
  <2>2. Head(Pending(h)) \in InPackets
    BY <1>2, PendingIsInbound DEF Handle
  <2>3. <<"pong", Head(Pending(h))[2]>> \in Packets
    BY <2>2 DEF InPackets, OutPackets
  <2>4. \/ UNCHANGED evars
        \/ Submit(h, <<"pong", Head(Pending(h))[2]>>)
        \/ CloseCall(h)
    BY <1>2 DEF Handle
  <2> QED  BY <2>1, <2>3, <2>4 DEF EmitterStep
<1>3. ASSUME NEW a \in AppClosers, AppClose(a) PROVE EmitterStep
  BY <1>3 DEF AppClose, EmitterStep, Goroutines
<1>4. CASE ReadFatal
  BY <1>4 DEF ReadFatal, EmitterStep, Goroutines, Handlers
<1>5. ASSUME NEW g \in Goroutines, SubmitReturn(g) \/ SocketCloseReturn(g) PROVE EmitterStep
  BY <1>5 DEF SubmitReturn, SocketCloseReturn, EmitterStep
<1>6. CASE SocketClose
  BY <1>6 DEF SocketClose, EmitterStep
<1>7. CASE EmitterLoopStep
  <2>1. CASE EmitterTake \/ BarrierWait \/ EmitterExit
    BY <2>1 DEF EmitterTake, BarrierWait, EmitterExit, EmitterStep
  <2>2. CASE WriteOut \/ WriteFail \/ WriteWs
    BY <2>2 DEF WriteOut, WriteFail, WriteWs, EmitterStep
  <2>3. CASE WriteBegin
    BY <2>3 DEF WriteBegin
  <2> QED  BY <1>7, <2>1, <2>2, <2>3 DEF EmitterLoopStep
<1>8. CASE ReadBegin \/ ReadPacket \/ ReadError \/ ReadWs \/ ReadWait \/ ReaderExit
  BY <1>8 DEF ReadBegin, ReadPacket, ReadError, ReadWs, ReadWait, ReaderExit
<1>9. ASSUME NEW h \in Handlers, HandleReturn(h) PROVE UNCHANGED evars
  BY <1>9 DEF HandleReturn
<1>10. ASSUME NEW u \in Upgrades, UpgradeRequest(u) \/ UpgradeStep(u) PROVE UNCHANGED evars
  BY <1>10 DEF UpgradeStep, UpgradeRequest, BarrierPause, Probe, ProbeFail, PauseConn,
     CloseOld, UpgradeFail, Drain, Swap, TakeIn, UpgradeDone, ServeBegin, ServeSelect
<1>11. CASE RequestStep
  BY <1>11 DEF RequestStep, PollPacket, PollEnd, PostPush, PostClosed
<1>12. CASE ClientStep
  BY <1>12 DEF ClientStep, PollArrive, ClientPost, ClientUpgrade, ClientSend, ClientLeave,
     ClientProbe, ClientPause
<1>13. CASE UNCHANGED vars
  BY <1>13 DEF vars
<1> QED
  BY <1>1, <1>2, <1>3, <1>4, <1>5, <1>6, <1>7, <1>8, <1>9, <1>10, <1>11, <1>12, <1>13
  DEF Next, ReaderStep, HandleStep

-----------------------------------------------------------------------------
(* Who holds the barrier, and the polling connection paused only then.     *)

PausedByHolder ==
  paused /\ cur = Polling =>
    \E u \in Upgrades : barrier = u /\ pc[u] \in {"upgrade", "flushout", "swap"}

ControlInv == ControlTypeOK /\ BarrierExclusive /\ PausedByHolder

\* It holds initially.
LEMMA ControlInvInit == Init => ControlInv
<1> SUFFICES ASSUME Init PROVE ControlInv
  OBVIOUS
<1> USE SessionAssumption DEF Init, ConnInit
<1>1. ControlTypeOK
  BY DEF ControlTypeOK, Handlers
<1>2. BarrierExclusive
  BY DEF BarrierExclusive, Handlers
<1>3. PausedByHolder
  BY DEF PausedByHolder
<1> QED  BY <1>1, <1>2, <1>3 DEF ControlInv

\* Every step preserves it.
LEMMA ControlInvStep ==
  ASSUME ControlInv, [Next]_vars
  PROVE  ControlInv'
<1> USE SessionAssumption DEF ControlInv, ControlTypeOK, BarrierExclusive, PausedByHolder,
        Handlers, Goto
<1>1. CASE ReadBegin
  <2>1. UNCHANGED <<epc, closed, paused, barrier, cur, locked, wsOpen, registered, pausers,
                    mode, att, hs, poll>>
    BY <1>1 DEF ReadBegin, evars, cvars, clvars
  <2>2. /\ pc' \in {[pc EXCEPT ![Reader] = l] : l \in {"select", "paused", "fatal", "wsread"}}
        /\ rerr' \in {rerr, "closed", "ws"}
    BY <1>1 DEF ReadBegin, SetDeadlineResults, ConnErrors
  <2> QED  BY <2>1, <2>2
<1>2. CASE ReadPacket
  BY <1>2 DEF ReadPacket, ReadIn, evars, cvars, clvars
<1>3. CASE ReadError
  BY <1>3 DEF ReadError, evars, cvars, clvars
<1>4. CASE ReadWs
  BY <1>4 DEF ReadWs, evars, cvars, clvars
<1>5. CASE ReadWait \/ ReaderExit
  BY <1>5 DEF ReadWait, ReaderExit, evars, cvars, clvars
<1>6. CASE ReadFatal
  <2>1. epc' = epc
    BY <1>6 DEF ReadFatal, CloseCall
  <2>2. UNCHANGED <<closed, paused, rerr, barrier, cur, locked, wsOpen, pausers, mode, att, hs, poll>>
    BY <1>6 DEF ReadFatal, cvars, clvars
  <2>3. pc' = [pc EXCEPT ![Reader] = "exiting"] /\ registered' \in BOOLEAN
    BY <1>6 DEF ReadFatal
  <2> QED  BY <2>1, <2>2, <2>3
<1>7. ASSUME NEW h \in Handlers, Handle(h) PROVE ControlInv'
  <2>1. epc' = epc
    BY <1>7 DEF Handle, Submit, CloseCall, evars
  <2>2. UNCHANGED <<closed, paused, rerr, barrier, cur, locked, wsOpen, registered, pausers,
                    mode, att, hs, poll>>
    BY <1>7 DEF Handle, cvars, clvars
  <2>3. /\ pc[h] = "handle"
        /\ \/ pc' = [pc EXCEPT ![h] = IF h = Reader THEN "read" ELSE "handle"]
           \/ pc' = [pc EXCEPT ![h] = "reply"]
           \/ pc' = [pc EXCEPT ![h] = "closing"]
    BY <1>7 DEF Handle
  <2> QED  BY <2>1, <2>2, <2>3
<1>8. ASSUME NEW h \in Handlers, HandleReturn(h) PROVE ControlInv'
  BY <1>8 DEF HandleReturn, evars, cvars, clvars
<1>9. ASSUME NEW u \in Upgrades, UpgradeRequest(u) PROVE ControlInv'
  BY <1>9 DEF UpgradeRequest, evars, cvars, clvars
<1>10. ASSUME NEW u \in Upgrades, BarrierPause(u) PROVE ControlInv'
  BY <1>10 DEF BarrierPause, evars, cvars, clvars
<1>11. ASSUME NEW u \in Upgrades, Probe(u) PROVE ControlInv'
  BY <1>11 DEF Probe, evars, cvars, clvars
<1>12. ASSUME NEW u \in Upgrades, ProbeFail(u) PROVE ControlInv'
  BY <1>12 DEF ProbeFail, Abandon, evars, cvars, clvars
<1>13. ASSUME NEW u \in Upgrades, PauseConn(u) PROVE ControlInv'
  <2>1. UNCHANGED <<epc, closed, rerr, cur, locked, registered, mode, att, hs, poll>>
    BY <1>13 DEF PauseConn, Pause, evars, cvars, clvars
  <2>2. CASE /\ cur = Polling /\ paused' = TRUE /\ pausers' = pausers \cup {u}
             /\ pc[u] = "pause" /\ pc' = [pc EXCEPT ![u] = "upgrade"]
             /\ UNCHANGED <<wsOpen, barrier>>
    BY <2>1, <2>2
  <2>3. CASE /\ cur # Polling /\ wsOpen' = wsOpen \ {u} /\ barrier' = None
             /\ pc[u] = "pause" /\ pc' = [pc EXCEPT ![u] = "serve"]
             /\ UNCHANGED <<paused, pausers>>
    BY <2>1, <2>3
  <2> QED  BY <1>13, <2>2, <2>3 DEF PauseConn, Abandon, Pause, cvars
<1>14. ASSUME NEW u \in Upgrades, CloseOld(u) PROVE ControlInv'
  BY <1>14 DEF CloseOld, CloseChan, evars, cvars, clvars
<1>15. ASSUME NEW u \in Upgrades, UpgradeFail(u) PROVE ControlInv'
  BY <1>15 DEF UpgradeFail, Abandon, Resume, evars, cvars, clvars
<1>16. ASSUME NEW u \in Upgrades, Drain(u) PROVE ControlInv'
  BY <1>16 DEF Drain, FlushOut, evars, cvars, clvars
<1>17. ASSUME NEW u \in Upgrades, Swap(u) PROVE ControlInv'
  BY <1>17 DEF Swap, evars, cvars, clvars
<1>18. ASSUME NEW u \in Upgrades, TakeIn(u) PROVE ControlInv'
  BY <1>18 DEF TakeIn, FlushIn, evars, cvars, clvars
<1>19. ASSUME NEW u \in Upgrades, UpgradeDone(u) PROVE ControlInv'
  BY <1>19 DEF UpgradeDone, evars, cvars, clvars
<1>20. ASSUME NEW u \in Upgrades, ServeBegin(u) PROVE ControlInv'
  BY <1>20 DEF ServeBegin, evars, cvars, clvars
<1>21. ASSUME NEW u \in Upgrades, ServeSelect(u) PROVE ControlInv'
  BY <1>21 DEF ServeSelect, ReadOut, evars, cvars, clvars
<1>22. CASE EmitterTake \/ BarrierWait \/ EmitterExit
  BY <1>22 DEF EmitterTake, BarrierWait, EmitterExit, Take, Pass, Exit, cvars, xvars, clvars
<1>23. CASE WriteBegin
  BY <1>23 DEF WriteBegin, evars, cvars, clvars
<1>24. CASE WriteOut
  <2>1. /\ UNCHANGED <<closed, paused, pc, rerr, barrier, cur, wsOpen, registered, pausers,
                       mode, att, hs, poll>>
        /\ ~locked' /\ locked' \in BOOLEAN
    BY <1>24 DEF WriteOut, PutOut, clvars
  <2> QED  BY <2>1
<1>25. CASE WriteFail
  <2>1. /\ UNCHANGED <<closed, paused, pc, rerr, barrier, cur, wsOpen, registered, pausers,
                       mode, att, hs, poll>>
        /\ ~locked' /\ locked' \in BOOLEAN
    BY <1>25 DEF WriteFail, cvars, clvars
  <2> QED  BY <2>1
<1>26. CASE WriteWs
  BY <1>26 DEF WriteWs, cvars, xvars
<1>27. ASSUME NEW g \in Goroutines, SubmitReturn(g) \/ SocketCloseReturn(g) PROVE ControlInv'
  BY <1>27 DEF SubmitReturn, SocketCloseReturn, SubmitSend, SubmitFail, CloseReturn,
     cvars, xvars, clvars
<1>28. CASE SocketClose
  <2>1. /\ UNCHANGED <<epc, paused, pc, rerr, barrier, cur, locked, registered, pausers,
                       mode, att, hs, poll>>
        /\ closed' \in BOOLEAN /\ wsOpen' \subseteq wsOpen
    BY <1>28 DEF SocketClose, CloseConn, CloseChan, cvars, clvars
  <2> QED  BY <2>1
<1>29. ASSUME NEW a \in Apps, AppEmit(a) PROVE ControlInv'
  BY <1>29 DEF AppEmit, Submit, cvars, xvars, clvars
<1>30. ASSUME NEW a \in AppClosers, AppClose(a) PROVE ControlInv'
  <2>1. epc' = epc
    BY <1>30 DEF AppClose, CloseCall
  <2> QED  BY <1>30, <2>1 DEF AppClose, cvars, xvars, clvars
<1>31. CASE RequestStep
  BY <1>31 DEF RequestStep, PollPacket, PollEnd, PostPush, PostClosed, ReadOut, PutIn,
     evars, cvars, xvars
<1>32. CASE PollArrive \/ ClientPost \/ ClientUpgrade \/ ClientSend \/ ClientLeave
  BY <1>32 DEF PollArrive, ClientPost, ClientUpgrade, ClientSend, ClientLeave,
     evars, cvars, xvars
<1>33. ASSUME NEW u \in Upgrades, ClientProbe(u) \/ ClientPause(u) PROVE ControlInv'
  BY <1>33 DEF ClientProbe, ClientPause, evars, cvars, xvars
<1>34. CASE UNCHANGED vars
  BY <1>34 DEF vars, evars, cvars, xvars, clvars
<1> QED
  BY <1>1, <1>2, <1>3, <1>4, <1>5, <1>6, <1>7, <1>8, <1>9, <1>10, <1>11, <1>12, <1>13,
     <1>14, <1>15, <1>16, <1>17, <1>18, <1>19, <1>20, <1>21, <1>22, <1>23, <1>24, <1>25,
     <1>26, <1>27, <1>28, <1>29, <1>30, <1>31, <1>32, <1>33, <1>34
  DEF Next, ReaderStep, HandleStep, UpgradeStep, EmitterLoopStep, ClientStep

-----------------------------------------------------------------------------
(* Types of the packets on their way in.                                   *)

ivars == <<in, rpkt, flushed, wsIn, post, handled, nin>>

\* Every step preserves the types of the client's packets.
LEMMA InboundStep ==
  ASSUME InboundTypeOK, [Next]_vars
  PROVE  InboundTypeOK'
<1> USE SessionAssumption, BufSizeAssumption DEF InboundTypeOK
<1>1. CASE ReadPacket
  <2>1. Head(in) \in InPackets /\ Tail(in) \in Seq(InPackets) /\ Len(Tail(in)) = Len(in) - 1
    BY <1>1, TakeKeepsLine DEF ReadPacket, ReadIn
  <2>2. rpkt' \in AtMostOne(InPackets)
    BY <1>1, <2>1, AtMostOneIntro DEF ReadPacket
  <2> QED  BY <1>1, <2>1, <2>2 DEF ReadPacket, ReadIn, clvars
<1>2. CASE ReadWs
  <2>1. CASE wsIn # <<>> /\ rpkt' = <<Head(wsIn)>> /\ wsIn' = Tail(wsIn)
    <3>1. Head(wsIn) \in InPackets /\ Tail(wsIn) \in Seq(InPackets)
      BY <2>1, TakeKeepsLine
    <3>2. rpkt' \in AtMostOne(InPackets)
      BY <2>1, <3>1, AtMostOneIntro
    <3> QED  BY <1>2, <2>1, <3>1, <3>2 DEF ReadWs, cvars
  <2>2. CASE UNCHANGED <<rpkt, wsIn>>
    BY <1>2, <2>2 DEF ReadWs, cvars
  <2> QED  BY <1>2, <2>1, <2>2 DEF ReadWs
<1>3. ASSUME NEW h \in Handlers, Handle(h) PROVE InboundTypeOK'
  <2>1. Head(Pending(h)) \in InPackets
    BY <1>3, PendingIsInbound DEF Handle
  <2>2. handled' \in Seq(InPackets)
    BY <1>3, <2>1, AppendProperties DEF Handle
  <2>3. UNCHANGED <<in, wsIn, post, nin>>
    BY <1>3 DEF Handle, cvars, clvars
  <2>4. rpkt' \in AtMostOne(InPackets)
    BY <1>3, AtMostOneIntro DEF Handle
  <2>5. flushed' \in Seq(InPackets)
    <3>1. CASE h = Reader
      BY <1>3, <3>1 DEF Handle
    <3>2. CASE h # Reader
      <4>1. flushed # <<>> /\ flushed' = Tail(flushed)
        BY <1>3, <3>2 DEF Handle, Pending
      <4> QED  BY <4>1, TakeKeepsLine
    <3> QED  BY <3>1, <3>2
  <2> QED  BY <2>2, <2>3, <2>4, <2>5
<1>4. ASSUME NEW u \in Upgrades, TakeIn(u) PROVE InboundTypeOK'
  BY <1>4 DEF TakeIn, FlushIn, clvars
<1>5. CASE ClientPost
  <2>1. UNCHANGED <<in, rpkt, flushed, wsIn, handled>>
    BY <1>5 DEF ClientPost, cvars, xvars
  <2>2. PICK n \in 1 .. MaxPost : \E k \in [1 .. n -> InKinds] :
          /\ nin + n <= MaxIn /\ nin' = nin + n
          /\ post' = [i \in 1 .. n |-> <<k[i], nin + i>>] \/ post' = post
    BY <1>5 DEF ClientPost
  <2>3. PICK k \in [1 .. n -> InKinds] :
          /\ nin + n <= MaxIn /\ nin' = nin + n
          /\ post' = [i \in 1 .. n |-> <<k[i], nin + i>>] \/ post' = post
    BY <2>2
  <2>4. [i \in 1 .. n |-> <<k[i], nin + i>>] \in Seq(InPackets)
    <3>1. \A i \in 1 .. n : <<k[i], nin + i>> \in InPackets
      BY <2>3 DEF InPackets
    <3> QED  BY <3>1
  <2>5. nin' \in 0 .. MaxIn
    BY <2>3
  <2> QED  BY <2>1, <2>3, <2>4, <2>5
<1>6. CASE PostPush
  <2>1. Head(post) \in InPackets /\ Tail(post) \in Seq(InPackets)
    BY <1>6, TakeKeepsLine DEF PostPush
  <2>2. in' \in Seq(InPackets) /\ Len(in') <= BufSize
    BY <1>6, <2>1, AppendProperties DEF PostPush, PutIn
  <2> QED  BY <1>6, <2>1, <2>2 DEF PostPush, xvars
<1>7. CASE PostClosed
  BY <1>7 DEF PostClosed, cvars, xvars
<1>8. CASE ClientSend
  <2>1. PICK k \in InKinds : wsIn' = Append(wsIn, <<k, nin'>>)
    BY <1>8 DEF ClientSend
  <2>2. nin' = nin + 1 /\ nin < MaxIn
    BY <1>8 DEF ClientSend
  <2>3. <<k, nin'>> \in InPackets
    BY <2>2 DEF InPackets
  <2>4. wsIn' \in Seq(InPackets)
    BY <2>1, <2>3, AppendProperties
  <2> QED  BY <1>8, <2>2, <2>4 DEF ClientSend, cvars, xvars
<1>9. CASE UNCHANGED ivars
  BY <1>9 DEF ivars
<1>10. ASSUME NEW u \in Upgrades,
              UpgradeRequest(u) \/ (UpgradeStep(u) /\ ~TakeIn(u)) \/ ClientProbe(u) \/ ClientPause(u)
       PROVE  UNCHANGED ivars
  BY <1>10 DEF UpgradeStep, UpgradeRequest, BarrierPause, Probe, ProbeFail, PauseConn, CloseOld,
     UpgradeFail, Drain, Swap, UpgradeDone, ServeBegin, ServeSelect, ClientProbe, ClientPause,
     Pause, Resume, CloseChan, FlushOut, ReadOut, ivars, cvars, xvars, clvars
<1>11. CASE ReadBegin \/ ReadError \/ ReadWait \/ ReadFatal \/ ReaderExit
  BY <1>9, <1>11 DEF ReadBegin, ReadError, ReadWait, ReadFatal, ReaderExit, ivars, cvars, clvars
<1>12. CASE EmitterLoopStep
  BY <1>9, <1>12 DEF EmitterLoopStep, EmitterTake, BarrierWait, WriteBegin, WriteOut, WriteFail,
     WriteWs, EmitterExit, PutOut, ivars, cvars, xvars, clvars
<1>13. ASSUME NEW g \in Goroutines, SubmitReturn(g) \/ SocketCloseReturn(g) PROVE UNCHANGED ivars
  BY <1>13 DEF SubmitReturn, SocketCloseReturn, ivars, cvars, xvars, clvars
<1>14. CASE SocketClose
  BY <1>9, <1>14 DEF SocketClose, CloseChan, ivars, cvars, clvars
<1>15. ASSUME NEW a \in Apps, AppEmit(a) \/ (a \in AppClosers /\ AppClose(a)) PROVE UNCHANGED ivars
  BY <1>15 DEF AppEmit, AppClose, ivars, cvars, xvars, clvars
<1>16. CASE PollPacket \/ PollEnd \/ PollArrive \/ ClientUpgrade \/ ClientLeave
  BY <1>9, <1>16 DEF PollPacket, PollEnd, PollArrive, ClientUpgrade, ClientLeave, ReadOut,
     ivars, cvars, xvars
<1>17. ASSUME NEW h \in Handlers, HandleReturn(h) PROVE UNCHANGED ivars
  BY <1>17 DEF HandleReturn, ivars, cvars, clvars
<1>18. CASE UNCHANGED vars
  BY <1>9, <1>18 DEF vars, ivars, cvars, xvars, clvars
<1> QED
  BY <1>1, <1>2, <1>3, <1>4, <1>5, <1>6, <1>7, <1>8, <1>9, <1>10, <1>11, <1>12, <1>13, <1>14,
     <1>15, <1>16, <1>17, <1>18
  DEF Next, ReaderStep, HandleStep, RequestStep, ClientStep

-----------------------------------------------------------------------------
(* Types of the packets on their way out.                                  *)

ovars == <<out, rcvd, dropped, nout>>

\* The packet that a write disposes of.
LEMMA HandIsPacket ==
  ASSUME EmitterInv, epc = "write"
  PROVE  hand \in Seq(Packets) /\ Head(hand) \in Packets
<1>1. hand \in AtMostOne(Packets) /\ hand # <<>>
  BY DEF EmitterInv, EmitterTypeOK, HandInv
<1> QED  BY <1>1, AtMostOneIsSeq

\* Every step preserves the types of the server's packets.
LEMMA OutboundStep ==
  ASSUME EmitterInv, OutboundTypeOK, ControlTypeOK, [Next]_vars
  PROVE  OutboundTypeOK'
<1> USE SessionAssumption, BufSizeAssumption DEF OutboundTypeOK
<1>1. CASE WriteOut
  <2>1. epc = "write" /\ out' = Append(out, Head(hand)) /\ Len(out) < BufSize
    BY <1>1 DEF WriteOut, PutOut, Written
  <2>2. Head(hand) \in Packets
    BY <2>1, HandIsPacket
  <2>3. out' \in Seq(Packets) /\ Len(out') <= BufSize
    BY <2>1, <2>2, AppendProperties
  <2> QED  BY <1>1, <2>3 DEF WriteOut, clvars
<1>2. CASE WriteFail
  <2>1. Head(hand) \in Packets
    BY <1>2, HandIsPacket DEF WriteFail, Written
  <2>2. PICK e \in WriteErrors : dropped' = dropped \cup {<<Head(hand), e>>}
    BY <1>2 DEF WriteFail
  <2>3. e \in {"closed", "paused", "timeout", "ws"}
    BY <2>2 DEF WriteErrors, ConnErrors
  <2> QED  BY <1>2, <2>1, <2>2, <2>3 DEF WriteFail, cvars, clvars
<1>3. CASE WriteWs
  <2>1. hand \in Seq(Packets)
    BY <1>3, HandIsPacket DEF WriteWs, Written
  <2>2. rcvd' \in Seq(Packets)
    BY <1>3, <2>1, LineFacts DEF WriteWs
  <2> QED  BY <1>3, <2>2 DEF WriteWs, cvars, xvars
<1>4. ASSUME NEW u \in Upgrades, Drain(u) PROVE OutboundTypeOK'
  <2>1. out' \in Seq(Packets) /\ Len(out') <= BufSize
    BY <1>4 DEF Drain, FlushOut
  <2>2. rcvd \o out \in Seq(Packets)
    BY LineFacts
  <2>3. {<<p, "ws">> : p \in Range(out)}
          \subseteq Packets \X {"closed", "paused", "timeout", "ws", "hijacked", "canceled"}
    BY DEF Range
  <2>4. /\ rcvd' \in {rcvd, rcvd \o out}
        /\ dropped' \in {dropped, dropped \cup {<<p, "ws">> : p \in Range(out)}}
        /\ nout' = nout
    BY <1>4 DEF Drain
  <2>5. rcvd' \in Seq(Packets)
    BY <2>2, <2>4
  <2>6. dropped' \subseteq Packets \X {"closed", "paused", "timeout", "ws", "hijacked", "canceled"}
    BY <2>3, <2>4
  <2> QED  BY <2>1, <2>4, <2>5, <2>6
<1>5. ASSUME NEW u \in Upgrades, ServeSelect(u) PROVE OutboundTypeOK'
  <2>1. CASE ReadOut /\ dropped' = dropped \cup {<<Head(out), "hijacked">>}
    <3>1. Head(out) \in Packets /\ Tail(out) \in Seq(Packets) /\ Len(Tail(out)) = Len(out) - 1
      BY <2>1, TakeKeepsLine DEF ReadOut
    <3> QED  BY <1>5, <2>1, <3>1 DEF ServeSelect, ReadOut, clvars
  <2>2. CASE UNCHANGED <<cvars, dropped>>
    BY <1>5, <2>2 DEF ServeSelect, cvars, clvars
  <2> QED  BY <1>5, <2>1, <2>2 DEF ServeSelect
<1>6. CASE PollPacket
  <2>1. Head(out) \in Packets /\ Tail(out) \in Seq(Packets) /\ Len(Tail(out)) = Len(out) - 1
    BY <1>6, TakeKeepsLine DEF PollPacket, ReadOut
  <2>2. Append(rcvd, Head(out)) \in Seq(Packets)
    BY <2>1, AppendProperties
  <2>3. /\ rcvd' \in {rcvd, Append(rcvd, Head(out))}
        /\ dropped' \in {dropped, dropped \cup {<<Head(out), "canceled">>}}
        /\ out' = Tail(out) /\ nout' = nout
    BY <1>6 DEF PollPacket, ReadOut
  <2>4. rcvd' \in Seq(Packets)
    BY <2>2, <2>3
  <2>5. dropped' \subseteq Packets \X {"closed", "paused", "timeout", "ws", "hijacked", "canceled"}
    BY <2>1, <2>3
  <2>6. out' \in Seq(Packets) /\ Len(out') <= BufSize
    BY <2>1, <2>3
  <2> QED  BY <2>3, <2>4, <2>5, <2>6
<1>7. ASSUME NEW a \in Apps, AppEmit(a) PROVE OutboundTypeOK'
  BY <1>7 DEF AppEmit, cvars, xvars, clvars
<1>8. CASE UNCHANGED ovars
  BY <1>8 DEF ovars
<1>9. ASSUME NEW u \in Upgrades,
             \/ UpgradeRequest(u) \/ ClientProbe(u) \/ ClientPause(u)
             \/ UpgradeStep(u) /\ ~Drain(u) /\ ~ServeSelect(u)
      PROVE  UNCHANGED ovars
  BY <1>9 DEF UpgradeStep, UpgradeRequest, BarrierPause, Probe, ProbeFail, PauseConn, CloseOld,
     UpgradeFail, Swap, TakeIn, UpgradeDone, ServeBegin, ClientProbe, ClientPause,
     Pause, Resume, CloseChan, FlushIn, ovars, cvars, xvars, clvars
<1>10. CASE ReaderStep
  BY <1>8, <1>10 DEF ReaderStep, ReadBegin, ReadPacket, ReadError, ReadWs, ReadWait, ReadFatal,
     ReaderExit, ReadIn, ovars, cvars, clvars
<1>11. ASSUME NEW h \in Handlers, HandleStep(h) PROVE UNCHANGED ovars
  BY <1>11 DEF HandleStep, Handle, HandleReturn, ovars, cvars, clvars
<1>12. CASE EmitterTake \/ BarrierWait \/ WriteBegin \/ EmitterExit
  BY <1>8, <1>12 DEF EmitterTake, BarrierWait, WriteBegin, EmitterExit, ovars, cvars, xvars, clvars
<1>13. ASSUME NEW g \in Goroutines, SubmitReturn(g) \/ SocketCloseReturn(g) PROVE UNCHANGED ovars
  BY <1>13 DEF SubmitReturn, SocketCloseReturn, ovars, cvars, xvars, clvars
<1>14. CASE SocketClose
  BY <1>8, <1>14 DEF SocketClose, CloseChan, ovars, cvars, clvars
<1>15. ASSUME NEW a \in AppClosers, AppClose(a) PROVE UNCHANGED ovars
  BY <1>15 DEF AppClose, ovars, cvars, xvars, clvars
<1>16. CASE PollEnd \/ PostPush \/ PostClosed
  BY <1>8, <1>16 DEF PollEnd, PostPush, PostClosed, PutIn, ovars, cvars, xvars
<1>17. CASE PollArrive \/ ClientPost \/ ClientUpgrade \/ ClientSend \/ ClientLeave
  BY <1>8, <1>17 DEF PollArrive, ClientPost, ClientUpgrade, ClientSend, ClientLeave,
     ovars, cvars, xvars
<1>18. CASE UNCHANGED vars
  BY <1>8, <1>18 DEF vars, ovars, cvars, xvars, clvars
<1> QED
  BY <1>1, <1>2, <1>3, <1>4, <1>5, <1>6, <1>7, <1>8, <1>9, <1>10, <1>11, <1>12, <1>13, <1>14,
     <1>15, <1>16, <1>17, <1>18
  DEF Next, EmitterLoopStep, RequestStep, ClientStep

-----------------------------------------------------------------------------
(* The invariant of the session and what follows from it.                  *)

SessionInv == EmitterInv /\ InboundTypeOK /\ OutboundTypeOK /\ ControlInv

\* It holds initially: the open packet is in the emitter's channel.
LEMMA SessionInvInit == Init => SessionInv
<1> SUFFICES ASSUME Init PROVE SessionInv
  OBVIOUS
<1> USE SessionAssumption, EmitterSizeAssumption, BufSizeAssumption DEF Init, ConnInit
<1>1. Open \in Packets
  BY DEF OutPackets
<1>2. <<Open>> \in Seq(Packets) /\ Len(<<Open>>) = 1 /\ <<>> \in Seq(Packets)
  BY <1>1
<1>3. <<>> \in AtMostOne(Packets) /\ <<>> \in AtMostOne(InPackets)
  BY AtMostOneIntro
<1>4. EmitterTypeOK
  <2>1. packets \in Seq(Packets) /\ Len(packets) <= EmitterSize
    BY <1>2
  <2>2. hand \in AtMostOne(Packets) /\ accepted \in Seq(Packets) /\ written \in Seq(Packets)
    BY <1>2, <1>3
  <2>3. spkt \in [Submitters -> AtMostOne(Packets)] /\ cpc \in [Closers -> {"idle", "closing"}]
    BY <1>3
  <2>4. /\ done \in BOOLEAN /\ epc \in {"top", "wait", "write", "exited"}
        /\ once \in {"open", "closing", "closed"} /\ due \in Nat
    OBVIOUS
  <2> QED  BY <2>1, <2>2, <2>3, <2>4 DEF EmitterTypeOK
<1>5. Conservation
  BY <1>2, LineFacts DEF Conservation
<1>6. HandInv /\ CloseInv
  BY <1>2 DEF HandInv, CloseInv
<1>7. InboundTypeOK
  BY <1>3 DEF InboundTypeOK
<1>8. OutboundTypeOK
  BY <1>2 DEF OutboundTypeOK
<1> QED  BY <1>4, <1>5, <1>6, <1>7, <1>8, ControlInvInit DEF SessionInv, EmitterInv

\* The invariant of a session: that of its emitter, types, and the barrier.
THEOREM SessionInvariance == Spec => []SessionInv
<1>1. Init => SessionInv
  BY SessionInvInit
<1>2. SessionInv /\ [Next]_vars => SessionInv'
  <2> SUFFICES ASSUME SessionInv, [Next]_vars PROVE SessionInv'
    OBVIOUS
  <2>1. EmitterInv'
    BY StepsOfEmitter, EmitterInvStep DEF SessionInv
  <2>2. InboundTypeOK'
    BY InboundStep DEF SessionInv
  <2>3. OutboundTypeOK'
    BY OutboundStep DEF SessionInv, ControlInv
  <2>4. ControlInv'
    BY ControlInvStep DEF SessionInv
  <2> QED  BY <2>1, <2>2, <2>3, <2>4 DEF SessionInv
<1> QED  BY <1>1, <1>2, PTL DEF Spec

\* Type correctness: channels of both directions stay within their capacities.
THEOREM SessionTypeCorrect == Spec => []TypeOK
<1>1. SessionInv => TypeOK
  BY DEF SessionInv, EmitterInv, ControlInv, TypeOK
<1> QED  BY <1>1, SessionInvariance, PTL

\* Whatever upgrades, timeouts and closes do, no packet is lost or reordered
\* between Emit and the write.
THEOREM SessionConserves == Spec => []Conservation
<1>1. SessionInv => Conservation
  BY DEF SessionInv, EmitterInv
<1> QED  BY <1>1, SessionInvariance, PTL

\* Close hands every earlier packet to a connection before it closes one.
THEOREM SessionCloseFlushes == Spec => []FlushedBeforeClosed
<1>1. SessionInv => FlushedBeforeClosed
  BY DEF SessionInv, EmitterInv, CloseInv, FlushedBeforeClosed
<1> QED  BY <1>1, SessionInvariance, PTL

\* One upgrade at a time is between Pause and Resume of the barrier, and the
\* connection does not change under an emitter that writes.
THEOREM UpgradesExclude == Spec => []BarrierExclusive
<1>1. SessionInv => BarrierExclusive
  BY DEF SessionInv, ControlInv
<1> QED  BY <1>1, SessionInvariance, PTL

\* The polling connection is never left paused, and never paused twice.
THEOREM PauseIsSafe == Spec => []PausedUnderBarrier
<1>1. SessionInv => PausedUnderBarrier
  BY DEF SessionInv, ControlInv, BarrierExclusive, PausedByHolder, PausedUnderBarrier
<1> QED  BY <1>1, SessionInvariance, PTL
=============================================================================
