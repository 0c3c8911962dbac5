----------------------- MODULE SessionPackets_proofs ------------------------
(***************************************************************************)
(* What becomes of the packets of a session, for any number of application *)
(* goroutines and upgrade requests, any capacities and any number of       *)
(* packets: across polling, upgrades and the websocket none is lost,       *)
(* doubled or reordered unnoticed, in either direction.                    *)
(***************************************************************************)
EXTENDS Session_proofs, FiniteSetTheorems

-----------------------------------------------------------------------------
(* Sequences.                                                              *)

\* A sequence without its first element.
LEMMA Popped ==
  ASSUME NEW S, NEW q \in Seq(S), q # <<>>
  PROVE  /\ Len(q) \in Nat /\ DOMAIN q = 1 .. Len(q) /\ 1 \in DOMAIN q /\ Head(q) = q[1]
         /\ Tail(q) \in Seq(S) /\ Len(Tail(q)) = Len(q) - 1 /\ DOMAIN Tail(q) = 1 .. (Len(q) - 1)
         /\ \A i \in DOMAIN Tail(q) : i + 1 \in DOMAIN q /\ i + 1 > 1 /\ Tail(q)[i] = q[i + 1]
  OBVIOUS

\* The elements of a concatenation.
LEMMA Joined ==
  ASSUME NEW S, NEW a \in Seq(S), NEW b \in Seq(S)
  PROVE  /\ a \o b \in Seq(S) /\ Len(a) \in Nat /\ Len(b) \in Nat
         /\ DOMAIN a = 1 .. Len(a) /\ DOMAIN b = 1 .. Len(b)
         /\ DOMAIN (a \o b) = 1 .. (Len(a) + Len(b))
         /\ \A i \in 1 .. Len(a) : (a \o b)[i] = a[i]
         /\ \A i \in 1 .. Len(b) : (a \o b)[Len(a) + i] = b[i]
         /\ \A i \in DOMAIN (a \o b) : \/ i \in DOMAIN a /\ (a \o b)[i] = a[i]
                                       \/ /\ i - Len(a) \in DOMAIN b
                                          /\ (a \o b)[i] = b[i - Len(a)]
  OBVIOUS

-----------------------------------------------------------------------------
(* The order of the packets that the client receives.                      *)

\* The steps that move packets out, or change the connection.
LEMMA OutboundCases ==
  ASSUME [Next]_vars
  PROVE  \/ WriteOut \/ WriteFail \/ WriteWs \/ PollPacket
         \/ \E u \in Upgrades : Drain(u) \/ ServeSelect(u) \/ Swap(u)
         \/ UNCHANGED <<out, rcvd, dropped, written, cur>>
<1> DEFINE still == UNCHANGED <<out, rcvd, dropped, written, cur>>
<1>1. CASE ReaderStep
  BY <1>1 DEF ReaderStep, ReadBegin, ReadPacket, ReadError, ReadWs, ReadWait, ReadFatal,
     ReaderExit, ReadIn, CloseCall, evars, cvars, clvars
<1>2. ASSUME NEW h \in Handlers, HandleStep(h) PROVE still
  BY <1>2 DEF HandleStep, Handle, HandleReturn, Submit, CloseCall, evars, cvars, clvars
<1>3. ASSUME NEW u \in Upgrades, UpgradeRequest(u) \/ ClientProbe(u) \/ ClientPause(u)
      PROVE  still
  BY <1>3 DEF UpgradeRequest, ClientProbe, ClientPause, evars, cvars, xvars, clvars
<1>4. ASSUME NEW u \in Upgrades, UpgradeStep(u) PROVE Drain(u) \/ ServeSelect(u) \/ Swap(u) \/ still
  BY <1>4 DEF UpgradeStep, BarrierPause, Probe, ProbeFail, PauseConn, CloseOld, UpgradeFail,
     TakeIn, UpgradeDone, ServeBegin, Pause, Resume, CloseChan, FlushIn, evars, cvars, xvars, clvars
<1>5. CASE EmitterTake \/ BarrierWait \/ WriteBegin \/ EmitterExit
  BY <1>5 DEF EmitterTake, BarrierWait, WriteBegin, EmitterExit, Take, Pass, Exit,
     evars, cvars, xvars, clvars
<1>6. ASSUME NEW g \in Goroutines, SubmitReturn(g) \/ SocketCloseReturn(g) PROVE still
  BY <1>6 DEF SubmitReturn, SocketCloseReturn, SubmitSend, SubmitFail, CloseReturn, cvars, xvars, clvars
<1>7. CASE SocketClose
  BY <1>7 DEF SocketClose, CloseConn, CloseChan, cvars, clvars
<1>8. ASSUME NEW a \in Apps, AppEmit(a) PROVE still
  BY <1>8 DEF AppEmit, Submit, cvars, xvars, clvars
<1>9. ASSUME NEW a \in AppClosers, AppClose(a) PROVE still
  BY <1>9 DEF AppClose, CloseCall, cvars, xvars, clvars
<1>10. CASE PollEnd \/ PostPush \/ PostClosed
  BY <1>10 DEF PollEnd, PostPush, PostClosed, PutIn, evars, cvars, xvars
<1>11. CASE PollArrive \/ ClientPost \/ ClientUpgrade \/ ClientSend \/ ClientLeave
  BY <1>11 DEF PollArrive, ClientPost, ClientUpgrade, ClientSend, ClientLeave, evars, cvars, xvars
<1>12. CASE UNCHANGED vars
  BY <1>12 DEF vars, evars, cvars, xvars, clvars
<1> QED
  BY <1>1, <1>2, <1>3, <1>4, <1>5, <1>6, <1>7, <1>8, <1>9, <1>10, <1>11, <1>12
  DEF Next, EmitterLoopStep, RequestStep, ClientStep

\* A client that has sent the upgrade packet neither polls nor posts any more, and
\* only such a client has its connection changed, by the upgrade that holds the barrier.
SwitchInv ==
  /\ mode = "ws" => poll = "idle" /\ post = <<>>
  /\ \A u \in Upgrades : hs[u] = "upgrade" => mode \in {"ws", "gone"}
  /\ \A u \in Upgrades : pc[u] \in {"flushout", "swap"} => hs[u] = "upgrade"
  /\ \A u \in Upgrades : pc[u] \in {"upgrade", "flushout", "swap"} => cur = Polling
  /\ cur # Polling => mode \in {"ws", "gone"}

\* Every step keeps it.
LEMMA SwitchStep ==
  ASSUME ControlInv, SwitchInv, [Next]_vars
  PROVE  SwitchInv'
<1> USE SessionAssumption DEF SwitchInv, Goto
<1>0. /\ pc \in [Handlers -> {"read", "select", "paused", "wsread", "fatal", "exiting",
                           "exited", "handle", "reply", "closing", "idle", "blocked",
                           "probe", "pause", "upgrade", "flushout", "swap",
                           "flushin", "done", "serve", "steal", "failed"}]
      /\ hs \in [Upgrades -> {"none", "mute", "open", "probe", "pong", "upgrade"}]
      /\ Upgrades \subseteq Handlers /\ Reader \in Handlers /\ Reader \notin Upgrades
  BY DEF ControlInv, ControlTypeOK, Handlers
<1>1. CASE UNCHANGED <<mode, poll, post, hs, pc, cur>>
  BY <1>1
<1>2. ASSUME NEW h \in Handlers, NEW l, h \in Upgrades => l \notin {"upgrade", "flushout", "swap"},
             pc' = [pc EXCEPT ![h] = l], UNCHANGED <<mode, poll, post, hs, cur>>
      PROVE  SwitchInv'
  BY <1>0, <1>2
<1>3. CASE ReadBegin
  <2>1. \E l : pc' = [pc EXCEPT ![Reader] = l]
    BY <1>3 DEF ReadBegin, SetDeadlineResults, ConnErrors
  <2> QED  BY <1>0, <1>2, <1>3, <2>1 DEF ReadBegin, clvars
<1>4. CASE ReadPacket \/ ReadError \/ ReadWs \/ ReadWait \/ ReadFatal \/ ReaderExit
  BY <1>0, <1>2, <1>4 DEF ReadPacket, ReadError, ReadWs, ReadWait, ReadFatal, ReaderExit, clvars
<1>5. ASSUME NEW h \in Handlers, HandleStep(h) PROVE SwitchInv'
  <2>1. \E l \in {"read", "handle", "reply", "closing"} : pc' = [pc EXCEPT ![h] = l]
    BY <1>5 DEF HandleStep, Handle, HandleReturn
  <2> QED  BY <1>2, <1>5, <2>1 DEF HandleStep, Handle, HandleReturn, clvars
<1>6. ASSUME NEW u \in Upgrades, UpgradeRequest(u) PROVE SwitchInv'
  BY <1>0, <1>6 DEF UpgradeRequest
<1>7. ASSUME NEW u \in Upgrades,
             BarrierPause(u) \/ ProbeFail(u) \/ UpgradeFail(u) \/ TakeIn(u) \/ UpgradeDone(u)
      PROVE  SwitchInv'
  BY <1>0, <1>2, <1>7 DEF BarrierPause, ProbeFail, UpgradeFail, TakeIn, UpgradeDone, Abandon, clvars
<1>8. ASSUME NEW u \in Upgrades, ServeBegin(u) \/ ServeSelect(u) PROVE SwitchInv'
  BY <1>0, <1>2, <1>8 DEF ServeBegin, ServeSelect, clvars
<1>9. ASSUME NEW u \in Upgrades, Probe(u) PROVE SwitchInv'
  BY <1>0, <1>9 DEF Probe
<1>10. ASSUME NEW u \in Upgrades, PauseConn(u) PROVE SwitchInv'
  <2>1. UNCHANGED <<mode, poll, post, hs, cur>>
    BY <1>10 DEF PauseConn, clvars
  <2>2. \/ cur = Polling /\ pc' = [pc EXCEPT ![u] = "upgrade"]
        \/ pc' = [pc EXCEPT ![u] = "serve"]
    BY <1>10 DEF PauseConn, Abandon
  <2> QED  BY <1>0, <2>1, <2>2
<1>11. ASSUME NEW u \in Upgrades, CloseOld(u) \/ Drain(u) PROVE SwitchInv'
  <2>1. UNCHANGED <<mode, poll, post, hs, cur>>
    BY <1>11 DEF CloseOld, Drain, clvars
  <2>2. \/ pc[u] = "upgrade" /\ hs[u] = "upgrade" /\ pc' = [pc EXCEPT ![u] = "flushout"]
        \/ pc[u] = "flushout" /\ pc' = [pc EXCEPT ![u] = "swap"]
    BY <1>11 DEF CloseOld, Drain
  <2> QED  BY <1>0, <2>1, <2>2
<1>12. ASSUME NEW u \in Upgrades, Swap(u) PROVE SwitchInv'
  <2>1. /\ UNCHANGED <<mode, poll, post, hs>> /\ pc[u] = "swap"
        /\ pc' = [pc EXCEPT ![u] = "flushin"]
    BY <1>12 DEF Swap, clvars
  <2>2. \A v \in Upgrades : v # u => pc[v] \notin {"upgrade", "flushout", "swap"}
    BY <2>1 DEF ControlInv, BarrierExclusive
  <2>3. mode \in {"ws", "gone"}
    BY <2>1
  <2> QED  BY <1>0, <2>1, <2>2, <2>3
<1>13. CASE EmitterLoopStep
  BY <1>1, <1>13 DEF EmitterLoopStep, EmitterTake, BarrierWait, WriteBegin, WriteOut, WriteFail,
     WriteWs, EmitterExit, xvars, clvars
<1>14. ASSUME NEW g \in Goroutines, SubmitReturn(g) \/ SocketCloseReturn(g) PROVE SwitchInv'
  BY <1>1, <1>14 DEF SubmitReturn, SocketCloseReturn, xvars, clvars
<1>15. CASE SocketClose
  BY <1>1, <1>15 DEF SocketClose, clvars
<1>16. ASSUME NEW a \in Apps, AppEmit(a) \/ (a \in AppClosers /\ AppClose(a)) PROVE SwitchInv'
  BY <1>1, <1>16 DEF AppEmit, AppClose, xvars, clvars
<1>17. CASE PollPacket
  BY <1>17 DEF PollPacket, clvars
<1>18. CASE PollEnd \/ PostClosed
  BY <1>18 DEF PollEnd, PostClosed, xvars
<1>19. CASE PostPush
  BY <1>19 DEF PostPush, xvars
<1>20. CASE PollArrive \/ ClientPost \/ ClientLeave
  BY <1>20 DEF PollArrive, ClientPost, ClientLeave, xvars
<1>21. CASE ClientSend
  BY <1>1, <1>21 DEF ClientSend, xvars
<1>22. CASE ClientUpgrade
  BY <1>0, <1>22 DEF ClientUpgrade, xvars
<1>23. ASSUME NEW u \in Upgrades, ClientProbe(u) \/ ClientPause(u) PROVE SwitchInv'
  BY <1>0, <1>23 DEF ClientProbe, ClientPause, xvars
<1>24. CASE UNCHANGED vars
  BY <1>1, <1>24 DEF vars, xvars, clvars
<1> QED
  BY <1>3, <1>4, <1>5, <1>6, <1>7, <1>8, <1>9, <1>10, <1>11, <1>12, <1>13, <1>14, <1>15, <1>16,
     <1>17, <1>18, <1>19, <1>20, <1>21, <1>22, <1>23, <1>24
  DEF Next, ReaderStep, UpgradeStep, RequestStep, ClientStep

\* x was written before y.
Before(x, y) == \E m, n \in DOMAIN written : m < n /\ written[m] = x /\ written[n] = y
WasWritten(x) == \E m \in DOMAIN written : written[m] = x

\* What the client has and what is in the polling connection are in the order of
\* writing; and the first come before the second as long as the client polls.
OrderInv ==
  /\ \A i \in DOMAIN rcvd : WasWritten(rcvd[i])
  /\ \A i \in DOMAIN out : WasWritten(out[i])
  /\ \A i, j \in DOMAIN rcvd : i < j => Before(rcvd[i], rcvd[j])
  /\ \A i, j \in DOMAIN out : i < j => Before(out[i], out[j])
  /\ cur = Polling => \A i \in DOMAIN rcvd, j \in DOMAIN out : Before(rcvd[i], out[j])

\* A write hands the one packet in hand to the connection, after all others.
LEMMA WriteFacts ==
  ASSUME SessionInv, Written
  PROVE  \E p \in Packets :
           /\ hand = <<p>> /\ Head(hand) = p /\ WasWritten(p)'
           /\ \A x : WasWritten(x) => WasWritten(x)' /\ Before(x, p)'
           /\ \A x, y : Before(x, y) => Before(x, y)'
<1>1. hand \in AtMostOne(Packets) /\ hand # <<>> /\ written \in Seq(Packets)
  BY DEF Written, SessionInv, EmitterInv, EmitterTypeOK, HandInv
<1>2. PICK p \in Packets : hand = <<p>> /\ Head(hand) = p
  BY <1>1, AtMostOneIsSeq
<1>4. written' = written \o <<p>>
  BY <1>2 DEF Written
<1>5. /\ DOMAIN written = 1 .. Len(written) /\ Len(written) \in Nat
      /\ DOMAIN written' = 1 .. (Len(written) + 1) /\ written'[Len(written) + 1] = p
      /\ \A i \in 1 .. Len(written) : written'[i] = written[i]
  BY <1>1, <1>4
<1>6. WasWritten(p)'
  BY <1>5 DEF WasWritten
<1>7. ASSUME NEW x, WasWritten(x) PROVE WasWritten(x)' /\ Before(x, p)'
  <2>1. PICK m \in 1 .. Len(written) : written[m] = x
    BY <1>5, <1>7 DEF WasWritten
  <2>2. /\ m < Len(written) + 1 /\ m \in DOMAIN written' /\ Len(written) + 1 \in DOMAIN written'
        /\ written'[m] = x
    BY <1>5, <2>1
  <2> QED  BY <1>5, <2>2 DEF WasWritten, Before
<1>8. ASSUME NEW x, NEW y, Before(x, y) PROVE Before(x, y)'
  <2>1. \A m \in DOMAIN written : m \in DOMAIN written' /\ written'[m] = written[m]
    BY <1>5
  <2> QED  BY <1>8, <2>1 DEF Before
<1> QED  BY <1>2, <1>6, <1>7, <1>8

\* Every step keeps the order.
LEMMA OrderStep ==
  ASSUME SessionInv, SwitchInv, OrderInv, [Next]_vars
  PROVE  OrderInv'
<1>0. /\ out \in Seq(Packets) /\ rcvd \in Seq(Packets)
      /\ DOMAIN out = 1 .. Len(out) /\ Len(out) \in Nat
      /\ DOMAIN rcvd = 1 .. Len(rcvd) /\ Len(rcvd) \in Nat
  BY DEF SessionInv, OutboundTypeOK
<1>s. ASSUME UNCHANGED written
      PROVE  /\ \A x : WasWritten(x) => WasWritten(x)'
             /\ \A x, y : Before(x, y) => Before(x, y)'
  BY <1>s DEF WasWritten, Before
<1>1. CASE WriteOut
  <2>3. PICK p \in Packets :
          /\ hand = <<p>> /\ Head(hand) = p /\ WasWritten(p)'
          /\ \A x : WasWritten(x) => WasWritten(x)' /\ Before(x, p)'
          /\ \A x, y : Before(x, y) => Before(x, y)'
    BY <1>1, WriteFacts DEF WriteOut
  <2>2. Written /\ out' = Append(out, p) /\ UNCHANGED <<rcvd, cur>>
    BY <1>1, <2>3 DEF WriteOut, PutOut, clvars
  <2>4. /\ DOMAIN out' = 1 .. (Len(out) + 1) /\ out'[Len(out) + 1] = p
        /\ \A i \in 1 .. Len(out) : out'[i] = out[i]
    BY <1>0, <2>2
  <2>5. \A i \in DOMAIN out' : \/ i \in DOMAIN out /\ out'[i] = out[i]
                               \/ i = Len(out) + 1 /\ out'[i] = p /\ \A j \in DOMAIN out' : j <= i
    BY <1>0, <2>4
  <2> HIDE DEF WasWritten, Before
  <2>6. \A i, j \in DOMAIN out' : i < j => Before(out[i], out[j])'
    <3> SUFFICES ASSUME NEW i \in DOMAIN out', NEW j \in DOMAIN out', i < j
                 PROVE  Before(out[i], out[j])'
      OBVIOUS
    <3>1. i \in DOMAIN out /\ out'[i] = out[i] /\ WasWritten(out[i])
      BY <1>0, <2>4, <2>5 DEF OrderInv
    <3>2. CASE j \in DOMAIN out /\ out'[j] = out[j]
      BY <2>3, <3>1, <3>2 DEF OrderInv
    <3>3. CASE out'[j] = p
      BY <2>3, <3>1, <3>3
    <3> QED  BY <2>5, <3>2, <3>3
  <2> QED  BY <2>2, <2>3, <2>5, <2>6 DEF OrderInv
<1>2. CASE WriteFail
  <2>1. Written /\ UNCHANGED <<out, rcvd, cur>>
    BY <1>2 DEF WriteFail, cvars, clvars
  <2> QED  BY <2>1, WriteFacts DEF OrderInv
<1>3. CASE WriteWs
  <2>3. PICK p \in Packets :
          /\ hand = <<p>> /\ Head(hand) = p /\ WasWritten(p)'
          /\ \A x : WasWritten(x) => WasWritten(x)' /\ Before(x, p)'
          /\ \A x, y : Before(x, y) => Before(x, y)'
    BY <1>3, WriteFacts DEF WriteWs
  <2>2. Written /\ rcvd' = rcvd \o <<p>> /\ UNCHANGED <<out, cur>> /\ cur # Polling
    BY <1>3, <2>3, SessionAssumption
    DEF WriteWs, cvars, xvars, SessionInv, ControlInv, ControlTypeOK
  <2>4. /\ DOMAIN rcvd' = 1 .. (Len(rcvd) + 1) /\ rcvd'[Len(rcvd) + 1] = p
        /\ \A i \in 1 .. Len(rcvd) : rcvd'[i] = rcvd[i]
    BY <1>0, <2>2
  <2>5. \A i \in DOMAIN rcvd' : \/ i \in DOMAIN rcvd /\ rcvd'[i] = rcvd[i]
                                \/ i = Len(rcvd) + 1 /\ rcvd'[i] = p
    BY <1>0, <2>4
  <2> HIDE DEF WasWritten, Before
  <2>6. \A i, j \in DOMAIN rcvd' : i < j => Before(rcvd[i], rcvd[j])'
    <3> SUFFICES ASSUME NEW i \in DOMAIN rcvd', NEW j \in DOMAIN rcvd', i < j
                 PROVE  Before(rcvd[i], rcvd[j])'
      OBVIOUS
    <3>1. i \in DOMAIN rcvd /\ rcvd'[i] = rcvd[i] /\ WasWritten(rcvd[i])
      BY <1>0, <2>4, <2>5 DEF OrderInv
    <3>2. CASE j \in DOMAIN rcvd /\ rcvd'[j] = rcvd[j]
      BY <2>3, <3>1, <3>2 DEF OrderInv
    <3>3. CASE rcvd'[j] = p
      BY <2>3, <3>1, <3>3
    <3> QED  BY <2>5, <3>2, <3>3
  <2> QED  BY <2>2, <2>3, <2>5, <2>6 DEF OrderInv
<1>4. CASE PollPacket
  <2>1. /\ out # <<>> /\ out' = Tail(out) /\ UNCHANGED <<written, cur>> /\ poll = "waiting"
        /\ \/ rcvd' = rcvd
           \/ mode # "gone" /\ rcvd' = Append(rcvd, Head(out))
    BY <1>4 DEF PollPacket, ReadOut, evars
  <2>2. /\ Head(out) = out[1] /\ 1 \in DOMAIN out
        /\ \A i \in DOMAIN out' : i + 1 \in DOMAIN out /\ i + 1 > 1 /\ out'[i] = out[i + 1]
        /\ \A i \in DOMAIN out' : i \in Nat
    BY <1>0, <2>1, Popped
  <2>3. /\ \A x : WasWritten(x) => WasWritten(x)'
        /\ \A x, y : Before(x, y) => Before(x, y)'
    BY <1>s, <2>1
  <2> HIDE DEF WasWritten, Before
  <2>4. \A i, j \in DOMAIN out' : i < j => i + 1 < j + 1
    BY <2>2
  <2>5. CASE rcvd' = rcvd
    BY <2>1, <2>2, <2>3, <2>4, <2>5 DEF OrderInv
  <2>6. CASE mode # "gone" /\ rcvd' = Append(rcvd, Head(out))
    <3>1. cur = Polling
      BY <2>1, <2>6 DEF SwitchInv
    <3>2. PICK p \in Packets : p = out[1]
      BY <1>0, <2>2
    <3>3. /\ DOMAIN rcvd' = 1 .. (Len(rcvd) + 1) /\ rcvd'[Len(rcvd) + 1] = p
          /\ \A i \in 1 .. Len(rcvd) : rcvd'[i] = rcvd[i]
      BY <1>0, <2>2, <2>6, <3>2
    <3>4. \A i \in DOMAIN rcvd' : \/ i \in DOMAIN rcvd /\ rcvd'[i] = rcvd[i]
                                  \/ i = Len(rcvd) + 1 /\ rcvd'[i] = p
      BY <1>0, <3>3
    <3>5. WasWritten(p) /\ \A i \in DOMAIN rcvd : Before(rcvd[i], p)
      BY <2>2, <3>1, <3>2 DEF OrderInv
    <3>6. \A j \in DOMAIN out' : Before(p, out'[j])
      BY <2>2, <3>2 DEF OrderInv
    <3>7. \A i, j \in DOMAIN rcvd' : i < j => Before(rcvd[i], rcvd[j])'
      <4> SUFFICES ASSUME NEW i \in DOMAIN rcvd', NEW j \in DOMAIN rcvd', i < j
                   PROVE  Before(rcvd[i], rcvd[j])'
        OBVIOUS
      <4>1. i \in DOMAIN rcvd /\ rcvd'[i] = rcvd[i]
        BY <1>0, <3>3, <3>4
      <4> QED  BY <2>3, <3>4, <3>5, <4>1 DEF OrderInv
    <3>8. \A i \in DOMAIN rcvd', j \in DOMAIN out' : Before(rcvd[i], out[j])'
      BY <2>2, <2>3, <3>1, <3>4, <3>6 DEF OrderInv
    <3> QED  BY <2>2, <2>3, <2>4, <3>4, <3>5, <3>7, <3>8 DEF OrderInv
  <2> QED  BY <2>1, <2>5, <2>6
<1>5. ASSUME NEW u \in Upgrades, Drain(u) PROVE OrderInv'
  <2>1. /\ out' = <<>> /\ UNCHANGED <<written, cur>> /\ cur = Polling
        /\ \/ rcvd' = rcvd
           \/ rcvd' = rcvd \o out
    BY <1>5 DEF Drain, FlushOut, evars, SwitchInv
  <2>2. /\ \A x : WasWritten(x) => WasWritten(x)'
        /\ \A x, y : Before(x, y) => Before(x, y)'
    BY <1>s, <2>1
  <2> HIDE DEF WasWritten, Before
  <2>3. DOMAIN out' = {}
    BY <2>1
  <2>4. CASE rcvd' = rcvd
    BY <2>1, <2>2, <2>3, <2>4 DEF OrderInv
  <2>5. CASE rcvd' = rcvd \o out
    <3>1. /\ \A i \in DOMAIN rcvd' : \/ i \in DOMAIN rcvd /\ rcvd'[i] = rcvd[i]
                                     \/ /\ i - Len(rcvd) \in DOMAIN out /\ i > Len(rcvd)
                                        /\ rcvd'[i] = out[i - Len(rcvd)]
          /\ DOMAIN rcvd' \subseteq Nat
      BY <1>0, <2>5
    <3>2. \A i \in DOMAIN rcvd' : WasWritten(rcvd'[i])
      BY <3>1 DEF OrderInv
    <3>3. \A i, j \in DOMAIN rcvd' : i < j => Before(rcvd'[i], rcvd'[j])
      <4> SUFFICES ASSUME NEW i \in DOMAIN rcvd', NEW j \in DOMAIN rcvd', i < j
                   PROVE  Before(rcvd'[i], rcvd'[j])
        OBVIOUS
      <4>1. CASE j \in DOMAIN rcvd /\ rcvd'[j] = rcvd[j]
        <5>1. i \in DOMAIN rcvd /\ rcvd'[i] = rcvd[i]
          BY <1>0, <3>1, <4>1
        <5> QED  BY <4>1, <5>1 DEF OrderInv
      <4>2. CASE j - Len(rcvd) \in DOMAIN out /\ rcvd'[j] = out[j - Len(rcvd)]
        <5>1. CASE i \in DOMAIN rcvd /\ rcvd'[i] = rcvd[i]
          BY <2>1, <4>2, <5>1 DEF OrderInv
        <5>2. CASE i - Len(rcvd) \in DOMAIN out /\ rcvd'[i] = out[i - Len(rcvd)]
          <6>1. i - Len(rcvd) < j - Len(rcvd)
            BY <1>0, <3>1
          <6> QED  BY <4>2, <5>2, <6>1 DEF OrderInv
        <5> QED  BY <3>1, <5>1, <5>2
      <4> QED  BY <3>1, <4>1, <4>2
    <3> QED  BY <2>2, <2>3, <3>2, <3>3 DEF OrderInv
  <2> QED  BY <2>1, <2>4, <2>5
<1>6. ASSUME NEW u \in Upgrades, ServeSelect(u) PROVE OrderInv'
  <2>1. UNCHANGED <<written, cur, rcvd>> /\ (UNCHANGED out \/ (out # <<>> /\ out' = Tail(out)))
    BY <1>6 DEF ServeSelect, ReadOut, evars, cvars, clvars
  <2>2. /\ \A x : WasWritten(x) => WasWritten(x)'
        /\ \A x, y : Before(x, y) => Before(x, y)'
    BY <1>s, <2>1
  <2> HIDE DEF WasWritten, Before
  <2>3. CASE UNCHANGED out
    BY <2>1, <2>2, <2>3 DEF OrderInv
  <2>4. CASE out # <<>> /\ out' = Tail(out)
    <3>1. /\ \A i \in DOMAIN out' : i + 1 \in DOMAIN out /\ out'[i] = out[i + 1]
          /\ \A i, j \in DOMAIN out' : i < j => i + 1 < j + 1
      BY <1>0, <2>4, Popped
    <3> QED  BY <2>1, <2>2, <3>1 DEF OrderInv
  <2> QED  BY <2>1, <2>3, <2>4
<1>7. ASSUME NEW u \in Upgrades, Swap(u) PROVE OrderInv'
  <2>1. UNCHANGED <<out, rcvd, written>> /\ cur' = u /\ u # Polling
    BY <1>7, SessionAssumption DEF Swap, evars, cvars, clvars
  <2> QED  BY <1>s, <2>1 DEF OrderInv
<1>8. CASE UNCHANGED <<out, rcvd, dropped, written, cur>>
  BY <1>s, <1>8 DEF OrderInv
<1> QED  BY <1>1, <1>2, <1>3, <1>4, <1>5, <1>6, <1>7, <1>8, OutboundCases

\* Initially the client has nothing and polls.
LEMMA OrderInit == Init => SwitchInv /\ OrderInv
<1> SUFFICES ASSUME Init PROVE SwitchInv /\ OrderInv
  OBVIOUS
<1> USE SessionAssumption DEF Init, ConnInit
<1>1. DOMAIN out = {} /\ DOMAIN rcvd = {}
  OBVIOUS
<1>2. SwitchInv
  BY DEF SwitchInv, Handlers
<1> QED  BY <1>1, <1>2 DEF OrderInv

\* The invariants of the order hold throughout.
THEOREM OrderInvariance == Spec => [](SessionInv /\ SwitchInv /\ OrderInv)
<1>1. Init => SwitchInv /\ OrderInv
  BY OrderInit
<1>2. SessionInv /\ SwitchInv /\ OrderInv /\ [Next]_vars => (SwitchInv /\ OrderInv)'
  BY SwitchStep, OrderStep DEF SessionInv
<1> QED  BY <1>1, <1>2, SessionInvariance, PTL DEF Spec

\* The client gets the packets in the order in which Emit accepted them, each at
\* most once, whatever transports they take.
THEOREM ReceivedInOrder == Spec => []OutboundFIFO
<1>1. SessionInv /\ OrderInv => OutboundFIFO
  <2> SUFFICES ASSUME SessionInv, OrderInv PROVE OutboundFIFO
    OBVIOUS
  <2>1. /\ written \in Seq(Packets) /\ hand \in Seq(Packets) /\ packets \in Seq(Packets)
        /\ accepted = (written \o hand) \o packets
    BY AtMostOneIsSeq DEF SessionInv, EmitterInv, EmitterTypeOK, Conservation
  <2>2. \A m \in DOMAIN written : m \in DOMAIN accepted /\ accepted[m] = written[m]
    BY <2>1
  <2> QED  BY <2>2 DEF OrderInv, Before, OutboundFIFO
<1> QED  BY <1>1, OrderInvariance, PTL

-----------------------------------------------------------------------------
(* The packets that the client sends.                                      *)

\* The numbers of the packets in a sequence.
Numbers(s) == {s[i][2] : i \in DOMAIN s}

\* Numbers of a sequence that is put together or taken apart.
LEMMA NumbersEmpty == Numbers(<<>>) = {} /\ \A p : Numbers(<<p>>) = {p[2]}
  BY DEF Numbers

LEMMA NumbersJoin ==
  ASSUME NEW S, NEW a \in Seq(S), NEW b \in Seq(S)
  PROVE  /\ a \o b \in Seq(S) /\ Len(a \o b) = Len(a) + Len(b) /\ Len(a) \in Nat /\ Len(b) \in Nat
         /\ Numbers(a \o b) = Numbers(a) \cup Numbers(b)
<1> DEFINE c == a \o b
<1>1. /\ \A i \in DOMAIN c : \/ i \in DOMAIN a /\ c[i] = a[i]
                             \/ i - Len(a) \in DOMAIN b /\ c[i] = b[i - Len(a)]
      /\ \A i \in DOMAIN a : i \in DOMAIN c /\ c[i] = a[i]
      /\ \A i \in DOMAIN b : Len(a) + i \in DOMAIN c /\ c[Len(a) + i] = b[i]
  BY Joined
<1>2. c \in Seq(S) /\ Len(c) = Len(a) + Len(b) /\ Len(a) \in Nat /\ Len(b) \in Nat
  BY LineFacts
<1> HIDE DEF c
<1>3. Numbers(c) \subseteq Numbers(a) \cup Numbers(b)
  BY <1>1 DEF Numbers
<1>4. Numbers(a) \subseteq Numbers(c)
  BY <1>1 DEF Numbers
<1>5. Numbers(b) \subseteq Numbers(c)
  BY <1>1 DEF Numbers
<1> QED  BY <1>2, <1>3, <1>4, <1>5 DEF c

LEMMA NumbersMore ==
  ASSUME NEW S, NEW q \in Seq(S), NEW p \in S
  PROVE  /\ Append(q, p) \in Seq(S) /\ Len(Append(q, p)) = Len(q) + 1 /\ Len(q) \in Nat
         /\ Numbers(Append(q, p)) = Numbers(q) \cup {p[2]}
<1>1. Append(q, p) = q \o <<p>> /\ <<p>> \in Seq(S) /\ Len(<<p>>) = 1
  OBVIOUS
<1>2. Numbers(q \o <<p>>) = Numbers(q) \cup Numbers(<<p>>)
  BY <1>1, NumbersJoin
<1>3. Append(q, p) \in Seq(S) /\ Len(Append(q, p)) = Len(q) + 1 /\ Len(q) \in Nat
  OBVIOUS
<1> QED  BY <1>1, <1>2, <1>3, NumbersEmpty

LEMMA NumbersLess ==
  ASSUME NEW S, NEW q \in Seq(S), q # <<>>
  PROVE  /\ Head(q) \in S /\ Tail(q) \in Seq(S) /\ Len(q) = Len(Tail(q)) + 1 /\ Len(Tail(q)) \in Nat
         /\ Numbers(q) = Numbers(Tail(q)) \cup {Head(q)[2]}
<1>1. /\ Head(q) \in S /\ Tail(q) \in Seq(S) /\ Len(Tail(q)) = Len(q) - 1
      /\ <<Head(q)>> \o Tail(q) = q
  BY TakeKeepsLine
<1>2. Len(q) \in Nat /\ Len(Tail(q)) \in Nat
  BY <1>1
<1> DEFINE p == Head(q)
           t == Tail(q)
<1> HIDE DEF p, t
<1>3. p \in S /\ t \in Seq(S) /\ <<p>> \o t = q
  BY <1>1 DEF p, t
<1>4. <<p>> \in Seq(S)
  BY <1>3
<1>5. Numbers(q) = Numbers(<<p>>) \cup Numbers(t)
  BY <1>3, <1>4, NumbersJoin
<1>6. Numbers(q) = Numbers(t) \cup {p[2]}
  BY <1>5, NumbersEmpty
<1> QED  BY <1>1, <1>2, <1>6 DEF p, t

\* A sequence has at most as many numbers as places.
LEMMA NumbersBound ==
  ASSUME NEW S, NEW q \in Seq(S)
  PROVE  IsFiniteSet(Numbers(q)) /\ Cardinality(Numbers(q)) <= Len(q)
<1>1. DOMAIN q = 1 .. Len(q) /\ Len(q) \in Nat
  OBVIOUS
<1>2. IsFiniteSet(1 .. Len(q)) /\ Cardinality(1 .. Len(q)) = Len(q)
  BY <1>1, FS_Interval
<1> DEFINE f == [i \in 1 .. Len(q) |-> q[i][2]]
<1>3. f \in Surjection(1 .. Len(q), Numbers(q))
  BY <1>1 DEF Surjection, Numbers
<1> HIDE DEF f
<1> QED  BY <1>2, <1>3, FS_Surjection

\* The steps that move packets of the client.
LEMMA InboundCases ==
  ASSUME [Next]_vars
  PROVE  \/ ReadPacket \/ ReadWs \/ ClientPost \/ PostPush \/ PostClosed \/ ClientSend
         \/ \E h \in Handlers : Handle(h)
         \/ \E u \in Upgrades : TakeIn(u)
         \/ UNCHANGED ivars
<1>1. ASSUME NEW u \in Upgrades,
             UpgradeRequest(u) \/ (UpgradeStep(u) /\ ~TakeIn(u)) \/ ClientProbe(u) \/ ClientPause(u)
      PROVE  UNCHANGED ivars
  BY <1>1 DEF UpgradeStep, UpgradeRequest, BarrierPause, Probe, ProbeFail, PauseConn, CloseOld,
     UpgradeFail, Drain, Swap, UpgradeDone, ServeBegin, ServeSelect, ClientProbe, ClientPause,
     Pause, Resume, CloseChan, FlushOut, ReadOut, ivars, cvars, xvars, clvars
<1>2. CASE ReadBegin \/ ReadError \/ ReadWait \/ ReadFatal \/ ReaderExit
  BY <1>2 DEF ReadBegin, ReadError, ReadWait, ReadFatal, ReaderExit, ivars, cvars, clvars
<1>3. CASE EmitterLoopStep
  BY <1>3 DEF EmitterLoopStep, EmitterTake, BarrierWait, WriteBegin, WriteOut, WriteFail,
     WriteWs, EmitterExit, PutOut, ivars, cvars, xvars, clvars
<1>4. ASSUME NEW g \in Goroutines, SubmitReturn(g) \/ SocketCloseReturn(g) PROVE UNCHANGED ivars
  BY <1>4 DEF SubmitReturn, SocketCloseReturn, ivars, cvars, xvars, clvars
<1>5. CASE SocketClose
  BY <1>5 DEF SocketClose, CloseChan, ivars, cvars, clvars
<1>6. ASSUME NEW a \in Apps, AppEmit(a) \/ (a \in AppClosers /\ AppClose(a)) PROVE UNCHANGED ivars
  BY <1>6 DEF AppEmit, AppClose, ivars, cvars, xvars, clvars
<1>7. CASE PollPacket \/ PollEnd \/ PollArrive \/ ClientUpgrade \/ ClientLeave
  BY <1>7 DEF PollPacket, PollEnd, PollArrive, ClientUpgrade, ClientLeave, ReadOut,
     ivars, cvars, xvars
<1>8. ASSUME NEW h \in Handlers, HandleReturn(h) PROVE UNCHANGED ivars
  BY <1>8 DEF HandleReturn, ivars, cvars, clvars
<1>9. CASE UNCHANGED vars
  BY <1>9 DEF vars, ivars, cvars, xvars, clvars
<1> QED
  BY <1>1, <1>2, <1>3, <1>4, <1>5, <1>6, <1>7, <1>8, <1>9, SessionAssumption
  DEF Next, ReaderStep, HandleStep, RequestStep, ClientStep

\* A client that is gone stays away.
LEMMA GoneStays == ASSUME [Next]_vars, mode = "gone" PROVE mode' = "gone"
<1>1. CASE ReaderStep
  BY <1>1 DEF ReaderStep, ReadBegin, ReadPacket, ReadError, ReadWs, ReadWait, ReadFatal,
     ReaderExit, clvars
<1>2. ASSUME NEW h \in Handlers, HandleStep(h) PROVE mode' = "gone"
  BY <1>2 DEF HandleStep, Handle, HandleReturn, clvars
<1>3. ASSUME NEW u \in Upgrades, UpgradeRequest(u) \/ ClientProbe(u) \/ ClientPause(u)
      PROVE  mode' = "gone"
  BY <1>3 DEF UpgradeRequest, ClientProbe, ClientPause
<1>4. ASSUME NEW u \in Upgrades, UpgradeStep(u) PROVE mode' = "gone"
  BY <1>4 DEF UpgradeStep, BarrierPause, Probe, ProbeFail, PauseConn, CloseOld, UpgradeFail,
     Drain, Swap, TakeIn, UpgradeDone, ServeBegin, ServeSelect, clvars
<1>5. CASE EmitterLoopStep
  BY <1>5 DEF EmitterLoopStep, EmitterTake, BarrierWait, WriteBegin, WriteOut, WriteFail,
     WriteWs, EmitterExit, clvars
<1>6. ASSUME NEW g \in Goroutines, SubmitReturn(g) \/ SocketCloseReturn(g) PROVE mode' = "gone"
  BY <1>6 DEF SubmitReturn, SocketCloseReturn, clvars
<1>7. CASE SocketClose
  BY <1>7 DEF SocketClose, clvars
<1>8. ASSUME NEW a \in Apps, AppEmit(a) \/ (a \in AppClosers /\ AppClose(a)) PROVE mode' = "gone"
  BY <1>8 DEF AppEmit, AppClose, clvars
<1>9. CASE RequestStep
  BY <1>9 DEF RequestStep, PollPacket, PollEnd, PostPush, PostClosed
<1>10. CASE PollArrive \/ ClientPost \/ ClientUpgrade \/ ClientSend \/ ClientLeave
  BY <1>10 DEF PollArrive, ClientPost, ClientUpgrade, ClientSend, ClientLeave
<1>11. CASE UNCHANGED vars
  BY <1>11 DEF vars, clvars
<1> QED
  BY <1>1, <1>2, <1>3, <1>4, <1>5, <1>6, <1>7, <1>8, <1>9, <1>10, <1>11, SessionAssumption
  DEF Next, ClientStep

\* A handler has packets at hand only while it handles them.
PendingInv ==
  /\ rpkt # <<>> => pc[Reader] = "handle"
  /\ flushed # <<>> => \E u \in Upgrades : pc[u] \in {"handle", "reply", "closing"}

\* Every step keeps that.
LEMMA PendingStep ==
  ASSUME ControlInv, PendingInv, [Next]_vars
  PROVE  PendingInv'
<1> USE SessionAssumption DEF PendingInv, Goto
<1>0. /\ pc \in [Handlers -> {"read", "select", "paused", "wsread", "fatal", "exiting",
                           "exited", "handle", "reply", "closing", "idle", "blocked",
                           "probe", "pause", "upgrade", "flushout", "swap",
                           "flushin", "done", "serve", "steal", "failed"}]
      /\ Upgrades \subseteq Handlers /\ Reader \in Handlers /\ Reader \notin Upgrades
      /\ Handlers = {Reader} \cup Upgrades
  BY DEF ControlInv, ControlTypeOK, Handlers
<1>1. CASE UNCHANGED <<pc, rpkt, flushed>>
  BY <1>1
<1>2. ASSUME NEW h \in Handlers, NEW l, pc[h] \notin {"handle", "reply", "closing"},
             pc' = [pc EXCEPT ![h] = l], UNCHANGED <<rpkt, flushed>>
      PROVE  PendingInv'
  BY <1>0, <1>2
<1>3. CASE ReadBegin
  <2>1. \E l : pc' = [pc EXCEPT ![Reader] = l]
    BY <1>3 DEF ReadBegin, SetDeadlineResults, ConnErrors
  <2> QED  BY <1>0, <1>2, <1>3, <2>1 DEF ReadBegin
<1>4. CASE ReadPacket \/ ReadWs
  <2>1. /\ \/ pc' = [pc EXCEPT ![Reader] = "handle"]
           \/ pc' = [pc EXCEPT ![Reader] = "fatal"] /\ UNCHANGED rpkt
        /\ UNCHANGED flushed /\ pc[Reader] # "handle"
    BY <1>4 DEF ReadPacket, ReadWs
  <2> QED  BY <1>0, <2>1
<1>5. CASE ReadError \/ ReadWait \/ ReadFatal \/ ReaderExit
  BY <1>0, <1>2, <1>5 DEF ReadError, ReadWait, ReadFatal, ReaderExit
<1>6. ASSUME NEW h \in Handlers, Handle(h) PROVE PendingInv'
  <2>1. \E l \in {"read", "handle", "reply", "closing"} :
          pc' = [pc EXCEPT ![h] = l] /\ (h # Reader => l # "read")
    BY <1>6 DEF Handle
  <2>2. CASE h = Reader
    BY <1>0, <1>6, <2>1, <2>2 DEF Handle
  <2>3. CASE h # Reader
    BY <1>0, <1>6, <2>1, <2>3 DEF Handle
  <2> QED  BY <2>2, <2>3
<1>7. ASSUME NEW h \in Handlers, HandleReturn(h) PROVE PendingInv'
  <2>1. /\ pc' = [pc EXCEPT ![h] = IF h = Reader THEN "read" ELSE "handle"]
        /\ pc[h] \in {"reply", "closing"} /\ UNCHANGED <<rpkt, flushed>>
    BY <1>7 DEF HandleReturn
  <2> QED  BY <1>0, <2>1
<1>8. ASSUME NEW u \in Upgrades, TakeIn(u) PROVE PendingInv'
  BY <1>0, <1>8 DEF TakeIn
<1>9. ASSUME NEW u \in Upgrades, UpgradeDone(u) PROVE PendingInv'
  BY <1>0, <1>9 DEF UpgradeDone
<1>10. ASSUME NEW u \in Upgrades, UpgradeRequest(u) \/ BarrierPause(u) \/ Probe(u) \/ ProbeFail(u)
       PROVE  PendingInv'
  BY <1>0, <1>2, <1>10 DEF UpgradeRequest, BarrierPause, Probe, ProbeFail, Abandon
<1>11. ASSUME NEW u \in Upgrades, PauseConn(u) \/ CloseOld(u) \/ UpgradeFail(u) \/ Drain(u)
       PROVE  PendingInv'
  BY <1>0, <1>2, <1>11 DEF PauseConn, CloseOld, UpgradeFail, Drain, Abandon
<1>12. ASSUME NEW u \in Upgrades, Swap(u) \/ ServeBegin(u) \/ ServeSelect(u) PROVE PendingInv'
  BY <1>0, <1>2, <1>12 DEF Swap, ServeBegin, ServeSelect
<1>13. CASE EmitterLoopStep
  BY <1>1, <1>13 DEF EmitterLoopStep, EmitterTake, BarrierWait, WriteBegin, WriteOut, WriteFail,
     WriteWs, EmitterExit, xvars
<1>14. ASSUME NEW g \in Goroutines, SubmitReturn(g) \/ SocketCloseReturn(g) PROVE PendingInv'
  BY <1>1, <1>14 DEF SubmitReturn, SocketCloseReturn, xvars
<1>15. CASE SocketClose
  BY <1>1, <1>15 DEF SocketClose
<1>16. ASSUME NEW a \in Apps, AppEmit(a) \/ (a \in AppClosers /\ AppClose(a)) PROVE PendingInv'
  BY <1>1, <1>16 DEF AppEmit, AppClose, xvars
<1>17. CASE RequestStep
  BY <1>1, <1>17 DEF RequestStep, PollPacket, PollEnd, PostPush, PostClosed, xvars
<1>18. CASE ClientStep
  BY <1>1, <1>18 DEF ClientStep, PollArrive, ClientPost, ClientUpgrade, ClientSend, ClientLeave,
     ClientProbe, ClientPause, xvars
<1>19. CASE UNCHANGED vars
  BY <1>1, <1>19 DEF vars, xvars
<1> QED
  BY <1>3, <1>4, <1>5, <1>6, <1>7, <1>8, <1>9, <1>10, <1>11, <1>12, <1>13, <1>14, <1>15, <1>16,
     <1>17, <1>18, <1>19
  DEF Next, ReaderStep, HandleStep, UpgradeStep

\* Where the packets of the client are: numbers and places, beside those in l.
Placed ==
  Numbers(post) \cup Numbers(in) \cup Numbers(rpkt) \cup Numbers(flushed) \cup Numbers(wsIn)
    \cup Numbers(handled)
Places == Len(post) + Len(in) + Len(rpkt) + Len(flushed) + Len(wsIn) + Len(handled)

\* Each number that the client gave is in one place, or among the refused ones, l.
PlacedBut(l) ==
  /\ Numbers(l) \cup Placed = 1 .. nin
  /\ Len(l) + Places = nin
  /\ mode # "gone" => l = <<>>

InboundInv == \E l \in Seq(InPackets) : PlacedBut(l)

\* Every step keeps each packet in its place, or moves it.
LEMMA InboundInvStep ==
  ASSUME SessionInv, PendingInv, InboundInv, [Next]_vars
  PROVE  InboundInv'
<1> USE SessionAssumption, NumbersEmpty
<1>0. /\ in \in Seq(InPackets) /\ rpkt \in Seq(InPackets) /\ flushed \in Seq(InPackets)
      /\ wsIn \in Seq(InPackets) /\ post \in Seq(InPackets) /\ handled \in Seq(InPackets)
      /\ nin \in Nat
  BY AtMostOneIsSeq DEF SessionInv, InboundTypeOK
<1>1. PICK l \in Seq(InPackets) : PlacedBut(l)
  BY DEF InboundInv
<1>2. /\ Len(in) \in Nat /\ Len(rpkt) \in Nat /\ Len(flushed) \in Nat /\ Len(wsIn) \in Nat
      /\ Len(post) \in Nat /\ Len(handled) \in Nat /\ Len(l) \in Nat
  BY <1>0, <1>1
<1>3. mode' # "gone" => mode # "gone" /\ l = <<>>
  BY <1>1, GoneStays DEF PlacedBut
<1>4. ASSUME (Placed' = Placed /\ Places' = Places /\ nin' = nin) PROVE InboundInv'
  <2>1. PlacedBut(l)'
    BY <1>1, <1>3, <1>4 DEF PlacedBut
  <2> QED  BY <1>1, <2>1 DEF InboundInv
<1>5. CASE ReadPacket
  <2>1. /\ in # <<>> /\ in' = Tail(in) /\ rpkt' = <<Head(in)>> /\ rpkt = <<>>
        /\ UNCHANGED <<post, flushed, wsIn, handled, nin>>
    BY <1>5 DEF ReadPacket, ReadIn, clvars, PendingInv
  <2>2. Len(in) = Len(in') + 1 /\ Len(in') \in Nat /\ Numbers(in) = Numbers(in') \cup {Head(in)[2]}
    BY <1>0, <2>1, NumbersLess
  <2>3. Len(rpkt) = 0 /\ Len(rpkt') = 1 /\ Numbers(rpkt) = {} /\ Numbers(rpkt') = {Head(in)[2]}
    BY <2>1
  <2> QED  BY <1>2, <1>4, <2>1, <2>2, <2>3 DEF Placed, Places
<1>6. CASE ReadWs
  <2>1. CASE /\ wsIn # <<>> /\ wsIn' = Tail(wsIn) /\ rpkt' = <<Head(wsIn)>> /\ rpkt = <<>>
             /\ UNCHANGED <<post, flushed, in, handled, nin>>
    <3>1. /\ Len(wsIn) = Len(wsIn') + 1 /\ Len(wsIn') \in Nat
          /\ Numbers(wsIn) = Numbers(wsIn') \cup {Head(wsIn)[2]}
      BY <1>0, <2>1, NumbersLess
    <3>2. Len(rpkt) = 0 /\ Len(rpkt') = 1 /\ Numbers(rpkt) = {} /\ Numbers(rpkt') = {Head(wsIn)[2]}
      BY <2>1
    <3> QED  BY <1>2, <1>4, <2>1, <3>1, <3>2 DEF Placed, Places
  <2>2. CASE UNCHANGED ivars
    BY <1>4, <2>2 DEF ivars, Placed, Places
  <2> QED  BY <1>6, <2>1, <2>2 DEF ReadWs, cvars, ivars, PendingInv
<1>7. ASSUME NEW h \in Handlers, Handle(h) PROVE InboundInv'
  <2>1. UNCHANGED <<post, in, wsIn, nin>>
    BY <1>7 DEF Handle, cvars, clvars
  <2>2. CASE h = Reader
    <3>1. rpkt # <<>> /\ rpkt' = <<>> /\ handled' = Append(handled, Head(rpkt)) /\ UNCHANGED flushed
      BY <1>7, <2>2 DEF Handle, Pending
    <3>2. rpkt \in AtMostOne(InPackets)
      BY DEF SessionInv, InboundTypeOK
    <3>3. PICK p \in InPackets : rpkt = <<p>> /\ Head(rpkt) = p
      BY <3>1, <3>2, AtMostOneIsSeq
    <3>4. Len(rpkt) = 1 /\ Len(rpkt') = 0 /\ Numbers(rpkt) = {p[2]} /\ Numbers(rpkt') = {}
      BY <3>1, <3>3
    <3>5. Len(handled') = Len(handled) + 1 /\ Numbers(handled') = Numbers(handled) \cup {p[2]}
      BY <1>0, <3>1, <3>3, NumbersMore
    <3> QED  BY <1>2, <1>4, <2>1, <3>1, <3>4, <3>5 DEF Placed, Places
  <2>3. CASE h # Reader
    <3>1. /\ flushed # <<>> /\ flushed' = Tail(flushed) /\ handled' = Append(handled, Head(flushed))
          /\ UNCHANGED rpkt
      BY <1>7, <2>3 DEF Handle, Pending
    <3>2. PICK p \in InPackets : p = Head(flushed)
      BY <1>0, <3>1, NumbersLess
    <3>3. /\ Len(flushed) = Len(flushed') + 1 /\ Len(flushed') \in Nat
          /\ Numbers(flushed) = Numbers(flushed') \cup {p[2]}
      BY <1>0, <3>1, <3>2, NumbersLess
    <3>4. Len(handled') = Len(handled) + 1 /\ Numbers(handled') = Numbers(handled) \cup {p[2]}
      BY <1>0, <3>1, <3>2, NumbersMore
    <3> QED  BY <1>2, <1>4, <2>1, <3>1, <3>3, <3>4 DEF Placed, Places
  <2> QED  BY <2>2, <2>3
<1>8. ASSUME NEW u \in Upgrades, TakeIn(u) PROVE InboundInv'
  <2>1. /\ in' = <<>> /\ flushed' = in /\ pc[u] = "flushin"
        /\ UNCHANGED <<post, rpkt, wsIn, handled, nin>>
    BY <1>8 DEF TakeIn, FlushIn, clvars
  <2>2. flushed = <<>>
    BY <2>1 DEF PendingInv, SessionInv, ControlInv, BarrierExclusive
  <2>3. Len(flushed) = 0 /\ Len(in') = 0 /\ Numbers(flushed) = {} /\ Numbers(in') = {}
    BY <2>1, <2>2
  <2> QED  BY <1>2, <1>4, <2>1, <2>3 DEF Placed, Places
<1>9. CASE PostPush
  <2>1. /\ post # <<>> /\ post' = Tail(post) /\ in' = Append(in, Head(post))
        /\ UNCHANGED <<rpkt, flushed, wsIn, handled, nin>>
    BY <1>9 DEF PostPush, PutIn, xvars
  <2>2. PICK p \in InPackets : p = Head(post)
    BY <1>0, <2>1, NumbersLess
  <2>3. /\ Len(post) = Len(post') + 1 /\ Len(post') \in Nat
        /\ Numbers(post) = Numbers(post') \cup {p[2]}
    BY <1>0, <2>1, <2>2, NumbersLess
  <2>4. Len(in') = Len(in) + 1 /\ Numbers(in') = Numbers(in) \cup {p[2]}
    BY <1>0, <2>1, <2>2, NumbersMore
  <2> QED  BY <1>2, <1>4, <2>1, <2>3, <2>4 DEF Placed, Places
<1>10. CASE PostClosed
  <2>1. post' = <<>> /\ mode' = "gone" /\ UNCHANGED <<in, rpkt, flushed, wsIn, handled, nin>>
    BY <1>10 DEF PostClosed, cvars, xvars
  <2>2. PICK k \in Seq(InPackets) : /\ Len(k) = Len(l) + Len(post)
                                    /\ Numbers(k) = Numbers(l) \cup Numbers(post)
    <3>1. /\ l \o post \in Seq(InPackets) /\ Len(l \o post) = Len(l) + Len(post)
          /\ Numbers(l \o post) = Numbers(l) \cup Numbers(post)
      BY <1>0, <1>1, NumbersJoin
    <3> QED  BY <3>1
  <2>3. Len(post') = 0 /\ Numbers(post') = {}
    BY <2>1
  <2>4. Numbers(k) \cup Placed' = Numbers(l) \cup Placed /\ Len(k) + Places' = Len(l) + Places
    BY <1>2, <2>1, <2>2, <2>3 DEF Placed, Places
  <2>5. PlacedBut(k)'
    BY <1>1, <2>1, <2>4 DEF PlacedBut
  <2> QED  BY <2>5 DEF InboundInv
<1>11. CASE ClientSend
  <2>1. PICK k \in InKinds : wsIn' = Append(wsIn, <<k, nin'>>)
    BY <1>11 DEF ClientSend
  <2>2. nin' = nin + 1 /\ nin < MaxIn /\ UNCHANGED <<post, in, rpkt, flushed, handled, mode>>
    BY <1>11 DEF ClientSend, cvars, xvars
  <2>3. <<k, nin'>> \in InPackets
    BY <1>0, <2>2 DEF InPackets
  <2>4. Len(wsIn') = Len(wsIn) + 1 /\ Numbers(wsIn') = Numbers(wsIn) \cup {nin'}
    BY <1>0, <2>1, <2>3, NumbersMore
  <2>5. Placed' = Placed \cup {nin'} /\ Places' = Places + 1
    BY <1>2, <2>2, <2>4 DEF Placed, Places
  <2>6. 1 .. nin' = (1 .. nin) \cup {nin'}
    BY <1>0, <2>2
  <2>7. Places \in Nat
    BY <1>2 DEF Places
  <2>8. PlacedBut(l)'
    BY <1>1, <1>2, <1>3, <2>2, <2>5, <2>6, <2>7 DEF PlacedBut
  <2> QED  BY <1>1, <2>8 DEF InboundInv
<1>12. CASE ClientPost
  <2>1. UNCHANGED <<in, rpkt, flushed, wsIn, handled>> /\ post = <<>>
    BY <1>12 DEF ClientPost, cvars, xvars
  <2>a. PICK n \in 1 .. MaxPost : \E k \in [1 .. n -> InKinds] :
          /\ nin + n <= MaxIn /\ nin' = nin + n
          /\ \/ post' = [i \in 1 .. n |-> <<k[i], nin + i>>] /\ UNCHANGED mode
             \/ post' = post /\ mode' = "gone"
    BY <1>12 DEF ClientPost
  <2>2. PICK k \in [1 .. n -> InKinds] :
          /\ nin + n <= MaxIn /\ nin' = nin + n
          /\ \/ post' = [i \in 1 .. n |-> <<k[i], nin + i>>] /\ UNCHANGED mode
             \/ post' = post /\ mode' = "gone"
    BY <2>a
  <2> DEFINE q == [i \in 1 .. n |-> <<k[i], nin + i>>]
  <2>3. q \in Seq(InPackets) /\ Len(q) = n /\ DOMAIN q = 1 .. n /\ \A i \in 1 .. n : q[i][2] = nin + i
    <3>1. \A i \in 1 .. n : <<k[i], nin + i>> \in InPackets
      BY <1>0, <2>2 DEF InPackets
    <3> QED  BY <3>1
  <2>4. (post' = q /\ UNCHANGED mode) \/ (post' = post /\ mode' = "gone")
    BY <2>2
  <2> HIDE DEF q
  <2>5. Numbers(q) = (nin + 1) .. (nin + n)
    <3>1. \A i \in DOMAIN q : q[i][2] \in (nin + 1) .. (nin + n)
      BY <1>0, <2>3
    <3>2. \A x \in (nin + 1) .. (nin + n) : x - nin \in DOMAIN q /\ q[x - nin][2] = x
      BY <1>0, <2>3
    <3> QED  BY <3>1, <3>2 DEF Numbers
  <2>6. 1 .. nin' = (1 .. nin) \cup Numbers(q)
    BY <1>0, <2>2, <2>5
  <2>7. Len(post) = 0 /\ Numbers(post) = {} /\ Places \in Nat
    BY <1>2, <2>1 DEF Places
  <2>8. CASE post' = q /\ UNCHANGED mode
    <3>1. Placed' = Placed \cup Numbers(q) /\ Places' = Places + n
      <4>1. Placed' = Placed \cup Numbers(q)
        BY <2>1, <2>7, <2>8 DEF Placed
      <4>2. Len(post') = n /\ n \in Nat
        BY <2>3, <2>8
      <4>3. Places' = Places + n
        BY <1>2, <2>1, <2>7, <4>2 DEF Places
      <4> QED  BY <4>1, <4>3
    <3>2. PlacedBut(l)'
      BY <1>1, <1>2, <1>3, <2>2, <2>6, <2>7, <3>1 DEF PlacedBut
    <3> QED  BY <1>1, <3>2 DEF InboundInv
  <2>9. CASE post' = post /\ mode' = "gone"
    <3>1. PICK m \in Seq(InPackets) : Len(m) = Len(l) + n /\ Numbers(m) = Numbers(l) \cup Numbers(q)
      <4>1. PICK r \in Seq(InPackets) : r = q
        BY <2>3
      <4>2. /\ l \o r \in Seq(InPackets) /\ Len(l \o r) = Len(l) + Len(r)
            /\ Numbers(l \o r) = Numbers(l) \cup Numbers(r)
        BY ONLY l \in Seq(InPackets), r \in Seq(InPackets), NumbersJoin
      <4> QED  BY <2>3, <4>1, <4>2
    <3>2. Placed' = Placed /\ Places' = Places
      BY <2>1, <2>9 DEF Placed, Places
    <3>3. PlacedBut(m)'
      BY <1>1, <1>2, <2>2, <2>6, <2>7, <2>9, <3>1, <3>2 DEF PlacedBut
    <3> QED  BY <3>3 DEF InboundInv
  <2> QED  BY <2>4, <2>8, <2>9
<1>13. CASE UNCHANGED ivars
  BY <1>4, <1>13 DEF ivars, Placed, Places
<1> QED  BY <1>5, <1>6, <1>7, <1>8, <1>9, <1>10, <1>11, <1>12, <1>13, InboundCases

\* Initially the client has sent nothing.
LEMMA InboundInit == Init => PendingInv /\ InboundInv
<1> SUFFICES ASSUME Init PROVE PendingInv /\ InboundInv
  OBVIOUS
<1> USE DEF Init, ConnInit
<1>1. PendingInv
  BY DEF PendingInv
<1>2. Placed = {} /\ Places = 0 /\ nin = 0
  BY NumbersEmpty DEF Placed, Places
<1>3. PlacedBut(<<>>)
  BY <1>2, NumbersEmpty DEF PlacedBut
<1>4. <<>> \in Seq(InPackets)
  OBVIOUS
<1> QED  BY <1>1, <1>3, <1>4 DEF InboundInv

\* The invariants of the packets of the client hold throughout.
THEOREM InboundInvariance == Spec => [](SessionInv /\ PendingInv /\ InboundInv)
<1>1. Init => PendingInv /\ InboundInv
  BY InboundInit
<1>2. SessionInv /\ PendingInv /\ InboundInv /\ [Next]_vars => (PendingInv /\ InboundInv)'
  BY PendingStep, InboundInvStep DEF SessionInv
<1> QED  BY <1>1, <1>2, SessionInvariance, PTL DEF Spec

\* Until the client leaves, each packet it sent is in exactly one place on its way
\* to handle: no upgrade loses one or handles one twice.
THEOREM InboundIsConserved == Spec => []InboundConserved
<1>1. SessionInv /\ InboundInv => InboundConserved
  <2> SUFFICES ASSUME SessionInv, InboundInv, mode # "gone"
               PROVE  LET c == post \o in \o rpkt \o flushed \o wsIn \o handled
                      IN  {p[2] : p \in Range(c)} = 1 .. nin /\ Len(c) = nin
    BY DEF InboundConserved
  <2>1. /\ in \in Seq(InPackets) /\ rpkt \in Seq(InPackets) /\ flushed \in Seq(InPackets)
        /\ wsIn \in Seq(InPackets) /\ post \in Seq(InPackets) /\ handled \in Seq(InPackets)
    BY AtMostOneIsSeq DEF SessionInv, InboundTypeOK
  <2>2. Placed = 1 .. nin /\ Places = nin
    <3>1. PICK l \in Seq(InPackets) : PlacedBut(l)
      BY DEF InboundInv
    <3>2. l = <<>> /\ Numbers(l) = {} /\ Len(l) = 0 /\ Places \in Nat
      BY <2>1, <3>1, NumbersEmpty DEF PlacedBut, Places
    <3>3. {} \cup Placed = 1 .. nin /\ 0 + Places = nin
      BY <3>1, <3>2 DEF PlacedBut
    <3> QED  BY <3>2, <3>3
  <2>3. PICK c1 \in Seq(InPackets) :
          /\ c1 = post \o in /\ Len(c1) = Len(post) + Len(in)
          /\ Numbers(c1) = Numbers(post) \cup Numbers(in)
    <3>1. /\ post \o in \in Seq(InPackets) /\ Len(post \o in) = Len(post) + Len(in)
          /\ Numbers(post \o in) = Numbers(post) \cup Numbers(in)
      BY ONLY <2>1, post \in Seq(InPackets), in \in Seq(InPackets), NumbersJoin
    <3> QED  BY ONLY <3>1
  <2>4. PICK c2 \in Seq(InPackets) :
          /\ c2 = c1 \o rpkt /\ Len(c2) = Len(c1) + Len(rpkt)
          /\ Numbers(c2) = Numbers(c1) \cup Numbers(rpkt)
    <3>1. /\ c1 \o rpkt \in Seq(InPackets) /\ Len(c1 \o rpkt) = Len(c1) + Len(rpkt)
          /\ Numbers(c1 \o rpkt) = Numbers(c1) \cup Numbers(rpkt)
      BY ONLY <2>1, c1 \in Seq(InPackets), rpkt \in Seq(InPackets), NumbersJoin
    <3> QED  BY ONLY <3>1
  <2>5. PICK c3 \in Seq(InPackets) :
          /\ c3 = c2 \o flushed /\ Len(c3) = Len(c2) + Len(flushed)
          /\ Numbers(c3) = Numbers(c2) \cup Numbers(flushed)
    <3>1. /\ c2 \o flushed \in Seq(InPackets) /\ Len(c2 \o flushed) = Len(c2) + Len(flushed)
          /\ Numbers(c2 \o flushed) = Numbers(c2) \cup Numbers(flushed)
      BY ONLY <2>1, c2 \in Seq(InPackets), flushed \in Seq(InPackets), NumbersJoin
    <3> QED  BY ONLY <3>1
  <2>6. PICK c4 \in Seq(InPackets) :
          /\ c4 = c3 \o wsIn /\ Len(c4) = Len(c3) + Len(wsIn)
          /\ Numbers(c4) = Numbers(c3) \cup Numbers(wsIn)
    <3>1. /\ c3 \o wsIn \in Seq(InPackets) /\ Len(c3 \o wsIn) = Len(c3) + Len(wsIn)
          /\ Numbers(c3 \o wsIn) = Numbers(c3) \cup Numbers(wsIn)
      BY ONLY <2>1, c3 \in Seq(InPackets), wsIn \in Seq(InPackets), NumbersJoin
    <3> QED  BY ONLY <3>1
  <2>7. PICK c5 \in Seq(InPackets) :
          /\ c5 = c4 \o handled /\ Len(c5) = Len(c4) + Len(handled)
          /\ Numbers(c5) = Numbers(c4) \cup Numbers(handled)
    <3>1. /\ c4 \o handled \in Seq(InPackets) /\ Len(c4 \o handled) = Len(c4) + Len(handled)
          /\ Numbers(c4 \o handled) = Numbers(c4) \cup Numbers(handled)
      BY ONLY <2>1, c4 \in Seq(InPackets), handled \in Seq(InPackets), NumbersJoin
    <3> QED  BY ONLY <3>1
  <2>8. Numbers(c5) = Placed /\ Len(c5) = Places
    BY <2>1, <2>3, <2>4, <2>5, <2>6, <2>7 DEF Placed, Places
  <2>9. {p[2] : p \in Range(c5)} = Numbers(c5)
    BY DEF Range, Numbers
  <2>10. c5 = post \o in \o rpkt \o flushed \o wsIn \o handled
    BY ONLY <2>3, <2>4, <2>5, <2>6, <2>7
  <2> QED  BY ONLY <2>2, <2>8, <2>9, <2>10
<1> QED  BY <1>1, InboundInvariance, PTL

-----------------------------------------------------------------------------
(* No two packets of the server are the same.                              *)

\* Two finite sets together have at most as many elements as both bounds allow.
LEMMA UnionBound ==
  ASSUME NEW A, NEW B, NEW m \in Nat, NEW n \in Nat, IsFiniteSet(A), IsFiniteSet(B),
         Cardinality(A) <= m, Cardinality(B) <= n
  PROVE  IsFiniteSet(A \cup B) /\ Cardinality(A \cup B) <= m + n
<1>1. /\ IsFiniteSet(A \cup B)
      /\ Cardinality(A \cup B) = Cardinality(A) + Cardinality(B) - Cardinality(A \cap B)
  BY FS_Union
<1>2. IsFiniteSet(A \cap B)
  BY FS_Intersection
<1>3. Cardinality(A) \in Nat /\ Cardinality(B) \in Nat /\ Cardinality(A \cap B) \in Nat
  BY <1>2, FS_CardinalityType
<1> QED  BY <1>1, <1>3

LEMMA NumbersBoundMore ==
  ASSUME NEW A, NEW m \in Nat, IsFiniteSet(A), Cardinality(A) <= m, NEW q \in Seq(InPackets)
  PROVE  \E n \in Nat : /\ n = m + Len(q) /\ IsFiniteSet(A \cup Numbers(q))
                        /\ Cardinality(A \cup Numbers(q)) <= n
<1>1. Len(q) \in Nat /\ IsFiniteSet(Numbers(q)) /\ Cardinality(Numbers(q)) <= Len(q)
  BY NumbersBound
<1>2. PICK n \in Nat : n = Len(q)
  BY <1>1
<1>3. IsFiniteSet(A \cup Numbers(q)) /\ Cardinality(A \cup Numbers(q)) <= m + n
  BY <1>1, <1>2, UnionBound
<1> QED  BY <1>2, <1>3

LEMMA NumbersBoundAll ==
  ASSUME NEW a \in Seq(InPackets), NEW b \in Seq(InPackets), NEW c \in Seq(InPackets),
         NEW d \in Seq(InPackets), NEW e \in Seq(InPackets), NEW f \in Seq(InPackets),
         NEW g \in Seq(InPackets)
  PROVE  Cardinality(Numbers(a) \cup Numbers(b) \cup Numbers(c) \cup Numbers(d) \cup Numbers(e)
                       \cup Numbers(f) \cup Numbers(g))
           <= Len(a) + Len(b) + Len(c) + Len(d) + Len(e) + Len(f) + Len(g)
<1> DEFINE A == Numbers(a)
           B == A \cup Numbers(b)
           C == B \cup Numbers(c)
           D == C \cup Numbers(d)
           E == D \cup Numbers(e)
           F == E \cup Numbers(f)
           G == F \cup Numbers(g)
<1>1. PICK n1 \in Nat : n1 = Len(a) /\ IsFiniteSet(A) /\ Cardinality(A) <= n1
  BY NumbersBound
<1> HIDE DEF A
<1>2. PICK n2 \in Nat : n2 = n1 + Len(b) /\ IsFiniteSet(B) /\ Cardinality(B) <= n2
  BY <1>1, NumbersBoundMore
<1> HIDE DEF B
<1>3. PICK n3 \in Nat : n3 = n2 + Len(c) /\ IsFiniteSet(C) /\ Cardinality(C) <= n3
  BY <1>2, NumbersBoundMore
<1> HIDE DEF C
<1>4. PICK n4 \in Nat : n4 = n3 + Len(d) /\ IsFiniteSet(D) /\ Cardinality(D) <= n4
  BY <1>3, NumbersBoundMore
<1> HIDE DEF D
<1>5. PICK n5 \in Nat : n5 = n4 + Len(e) /\ IsFiniteSet(E) /\ Cardinality(E) <= n5
  BY <1>4, NumbersBoundMore
<1> HIDE DEF E
<1>6. PICK n6 \in Nat : n6 = n5 + Len(f) /\ IsFiniteSet(F) /\ Cardinality(F) <= n6
  BY <1>5, NumbersBoundMore
<1> HIDE DEF F
<1>7. PICK n7 \in Nat : n7 = n6 + Len(g) /\ IsFiniteSet(G) /\ Cardinality(G) <= n7
  BY <1>6, NumbersBoundMore
<1> HIDE DEF G
<1>8. n7 = Len(a) + Len(b) + Len(c) + Len(d) + Len(e) + Len(f) + Len(g)
  BY <1>1, <1>2, <1>3, <1>4, <1>5, <1>6, <1>7
<1> QED  BY <1>7, <1>8 DEF A, B, C, D, E, F, G

\* A packet that is handled was not handled before: there are as many places as
\* numbers, so that no number is in two of them.
LEMMA HandledOnce ==
  ASSUME SessionInv, InboundInv, NEW h \in Handlers, Handle(h)
  PROVE  Head(Pending(h))[2] \notin Numbers(handled)
<1>0. /\ in \in Seq(InPackets) /\ rpkt \in Seq(InPackets) /\ flushed \in Seq(InPackets)
      /\ wsIn \in Seq(InPackets) /\ post \in Seq(InPackets) /\ handled \in Seq(InPackets)
      /\ nin \in Nat
  BY AtMostOneIsSeq, SessionAssumption DEF SessionInv, InboundTypeOK
<1>1. PICK l \in Seq(InPackets) : PlacedBut(l)
  BY DEF InboundInv
<1>2. PICK x : x = Head(Pending(h))[2]
  OBVIOUS
<1>3. PICK r \in Seq(InPackets) : \E t \in Seq(InPackets) :
          /\ Numbers(rpkt) \cup Numbers(flushed) = Numbers(r) \cup Numbers(t) \cup {x}
          /\ Len(rpkt) + Len(flushed) = Len(r) + Len(t) + 1
  <2>1. ASSUME NEW q \in Seq(InPackets), q # <<>>, x = Head(q)[2]
        PROVE  \E t \in Seq(InPackets) : Numbers(q) = Numbers(t) \cup {x} /\ Len(q) = Len(t) + 1
    BY <2>1, NumbersLess
  <2>2. Pending(h) # <<>>
    BY DEF Handle
  <2>3. CASE h = Reader
    <3>1. PICK t \in Seq(InPackets) : Numbers(rpkt) = Numbers(t) \cup {x} /\ Len(rpkt) = Len(t) + 1
      BY <1>0, <1>2, <2>1, <2>2, <2>3 DEF Pending
    <3>2. Len(t) \in Nat /\ Len(flushed) \in Nat
      BY <1>0
    <3>3. /\ Numbers(rpkt) \cup Numbers(flushed) = Numbers(t) \cup Numbers(flushed) \cup {x}
          /\ Len(rpkt) + Len(flushed) = Len(t) + Len(flushed) + 1
      BY <3>1, <3>2
    <3> QED  BY <1>0, <3>3
  <2>4. CASE h # Reader
    <3>1. PICK t \in Seq(InPackets) :
            Numbers(flushed) = Numbers(t) \cup {x} /\ Len(flushed) = Len(t) + 1
      BY <1>0, <1>2, <2>1, <2>2, <2>4 DEF Pending
    <3>2. Len(t) \in Nat /\ Len(rpkt) \in Nat
      BY <1>0
    <3>3. /\ Numbers(rpkt) \cup Numbers(flushed) = Numbers(rpkt) \cup Numbers(t) \cup {x}
          /\ Len(rpkt) + Len(flushed) = Len(rpkt) + Len(t) + 1
      BY <3>1, <3>2
    <3> QED  BY <1>0, <3>3
  <2> QED  BY <2>3, <2>4
<1>4. PICK t \in Seq(InPackets) :
          /\ Numbers(rpkt) \cup Numbers(flushed) = Numbers(r) \cup Numbers(t) \cup {x}
          /\ Len(rpkt) + Len(flushed) = Len(r) + Len(t) + 1
  BY <1>3
<1> DEFINE all == Numbers(l) \cup Numbers(post) \cup Numbers(in) \cup Numbers(r) \cup Numbers(t)
                    \cup Numbers(wsIn) \cup Numbers(handled)
<1>5. Cardinality(all) <= Len(l) + Len(post) + Len(in) + Len(r) + Len(t) + Len(wsIn) + Len(handled)
  BY <1>0, NumbersBoundAll
<1>6. Cardinality(1 .. nin) = nin
  BY <1>0, FS_Interval
<1>7. SUFFICES ASSUME x \in Numbers(handled) PROVE FALSE
  BY <1>2
<1>8. all = 1 .. nin
  <2>1. Numbers(l) \cup Placed = 1 .. nin
    BY <1>1 DEF PlacedBut
  <2> QED  BY <1>4, <1>7, <2>1 DEF Placed
<1>9. Len(l) + Len(post) + Len(in) + Len(r) + Len(t) + Len(wsIn) + Len(handled) = nin - 1
  <2>1. Len(l) + (Len(post) + Len(in) + Len(rpkt) + Len(flushed) + Len(wsIn) + Len(handled)) = nin
    BY <1>1 DEF PlacedBut, Places
  <2>2. /\ Len(in) \in Nat /\ Len(rpkt) \in Nat /\ Len(flushed) \in Nat /\ Len(wsIn) \in Nat
        /\ Len(post) \in Nat /\ Len(handled) \in Nat /\ Len(l) \in Nat /\ Len(r) \in Nat
        /\ Len(t) \in Nat
    BY <1>0
  <2> QED  BY ONLY <1>4, <2>1, <2>2, nin \in Nat
<1> HIDE DEF all
<1> QED  BY <1>0, <1>5, <1>6, <1>8, <1>9

\* The packets that were offered to the emitter so far are among these.
Issued(p) ==
  \/ p = Open
  \/ p[1] = "message" /\ p[2] \in 1 .. nout
  \/ p[1] = "pong" /\ p[2] \in Numbers(handled)

\* No packet is offered to the emitter twice, and so none is accepted twice.
UniqueInv ==
  /\ \A i \in DOMAIN accepted : Issued(accepted[i])
  /\ \A g \in Goroutines : spkt[g] # <<>> => Issued(Head(spkt[g]))
  /\ \A i, j \in DOMAIN accepted : accepted[i] = accepted[j] => i = j
  /\ \A g \in Goroutines : \A i \in DOMAIN accepted : spkt[g] # <<>> => accepted[i] # Head(spkt[g])
  /\ \A g, k \in Goroutines :
       spkt[g] # <<>> /\ spkt[k] # <<>> /\ Head(spkt[g]) = Head(spkt[k]) => g = k

\* The steps that offer a packet, or settle what becomes of one.
LEMMA OfferCases ==
  ASSUME [Next]_vars
  PROVE  \/ \E a \in Apps : AppEmit(a)
         \/ \E h \in Handlers : Handle(h)
         \/ \E g \in Goroutines : SubmitReturn(g)
         \/ UNCHANGED <<spkt, accepted, nout, handled>>
<1> DEFINE still == UNCHANGED <<spkt, accepted, nout, handled>>
<1>1. CASE ReaderStep
  BY <1>1 DEF ReaderStep, ReadBegin, ReadPacket, ReadError, ReadWs, ReadWait, ReadFatal,
     ReaderExit, CloseCall, evars
<1>2. ASSUME NEW h \in Handlers, HandleReturn(h) PROVE still
  BY <1>2 DEF HandleReturn, evars
<1>3. ASSUME NEW u \in Upgrades, UpgradeRequest(u) \/ ClientProbe(u) \/ ClientPause(u)
      PROVE  still
  BY <1>3 DEF UpgradeRequest, ClientProbe, ClientPause, evars, xvars
<1>4. ASSUME NEW u \in Upgrades, UpgradeStep(u) PROVE still
  BY <1>4 DEF UpgradeStep, BarrierPause, Probe, ProbeFail, PauseConn, CloseOld, UpgradeFail,
     Drain, Swap, TakeIn, UpgradeDone, ServeBegin, ServeSelect, evars, xvars
<1>5. CASE EmitterLoopStep
  BY <1>5 DEF EmitterLoopStep, EmitterTake, BarrierWait, WriteBegin, WriteOut, WriteFail,
     WriteWs, EmitterExit, Take, Pass, Exit, Written, evars, xvars
<1>6. ASSUME NEW g \in Goroutines, SocketCloseReturn(g) PROVE still
  BY <1>6 DEF SocketCloseReturn, CloseReturn, xvars
<1>7. CASE SocketClose
  BY <1>7 DEF SocketClose, CloseConn
<1>8. ASSUME NEW a \in AppClosers, AppClose(a) PROVE still
  BY <1>8 DEF AppClose, CloseCall, xvars
<1>9. CASE RequestStep
  BY <1>9 DEF RequestStep, PollPacket, PollEnd, PostPush, PostClosed, evars, xvars
<1>10. CASE PollArrive \/ ClientPost \/ ClientUpgrade \/ ClientSend \/ ClientLeave
  BY <1>10 DEF PollArrive, ClientPost, ClientUpgrade, ClientSend, ClientLeave, evars, xvars
<1>11. CASE UNCHANGED vars
  BY <1>11 DEF vars, evars, xvars
<1> QED
  BY <1>1, <1>2, <1>3, <1>4, <1>5, <1>6, <1>7, <1>8, <1>9, <1>10, <1>11
  DEF Next, HandleStep, ClientStep

\* Every step keeps the packets apart.
LEMMA UniqueStep ==
  ASSUME SessionInv, InboundInv, UniqueInv, [Next]_vars
  PROVE  UniqueInv'
<1>0. /\ spkt \in [Goroutines -> AtMostOne(Packets)] /\ accepted \in Seq(Packets)
      /\ handled \in Seq(InPackets) /\ nout \in Nat
      /\ Handlers \subseteq Goroutines /\ Apps \subseteq Goroutines
  BY SessionAssumption
  DEF SessionInv, EmitterInv, EmitterTypeOK, InboundTypeOK, OutboundTypeOK, Goroutines
<1>1. ASSUME NEW g \in Goroutines, NEW p, ~Issued(p), Issued(p)',
             \A x : Issued(x) => Issued(x)', UNCHANGED accepted,
             spkt' = spkt \/ spkt' = [spkt EXCEPT ![g] = <<p>>]
      PROVE  UniqueInv'
  <2>1. CASE spkt' = spkt
    BY <1>1, <2>1 DEF UniqueInv
  <2>2. CASE spkt' = [spkt EXCEPT ![g] = <<p>>]
    <3>1. /\ spkt'[g] = <<p>> /\ Head(spkt'[g]) = p /\ spkt'[g] # <<>>
          /\ \A k \in Goroutines : k # g => spkt'[k] = spkt[k]
      BY <1>0, <2>2
    <3>2. /\ \A i \in DOMAIN accepted : accepted[i] # p
          /\ \A k \in Goroutines : spkt[k] # <<>> => Head(spkt[k]) # p
      BY <1>1 DEF UniqueInv
    <3> QED  BY <1>1, <3>1, <3>2 DEF UniqueInv
  <2> QED  BY <1>1, <2>1, <2>2
<1>2. ASSUME NEW a \in Apps, AppEmit(a) PROVE UniqueInv'
  <2>1. PICK p : p = <<"message", nout + 1>>
    OBVIOUS
  <2>2. /\ nout' = nout + 1 /\ UNCHANGED <<handled, accepted>>
        /\ spkt' = spkt \/ spkt' = [spkt EXCEPT ![a] = <<p>>]
    BY <1>2, <2>1 DEF AppEmit, Submit, xvars
  <2>3. p[1] = "message" /\ p[2] = nout + 1
    BY <2>1
  <2>4. p # Open
    BY <2>1 DEF Open
  <2>5. ~Issued(p) /\ Issued(p)'
    BY <1>0, <2>2, <2>3, <2>4 DEF Issued
  <2>6. \A x : Issued(x) => Issued(x)'
    <3>1. SUFFICES ASSUME NEW x, Issued(x) PROVE Issued(x)'
      OBVIOUS
    <3>2. CASE x[1] = "message" /\ x[2] \in 1 .. nout
      BY <1>0, <2>2, <3>2 DEF Issued
    <3>3. CASE ~(x[1] = "message" /\ x[2] \in 1 .. nout)
      BY <2>2, <3>1, <3>3 DEF Issued, Open
    <3> QED  BY <3>2, <3>3
  <2> QED  BY <1>0, <1>1, <2>2, <2>5, <2>6
<1>3. ASSUME NEW h \in Handlers, Handle(h) PROVE UniqueInv'
  <2>1. PICK q \in InPackets : q = Head(Pending(h))
    BY <1>3, PendingIsInbound DEF Handle, SessionInv
  <2>2. handled' = Append(handled, q) /\ UNCHANGED <<nout, accepted>>
    BY <1>3, <2>1 DEF Handle, Submit, CloseCall, evars
  <2>3. PICK p : p = <<"pong", q[2]>>
    OBVIOUS
  <2>4. p[1] = "pong" /\ p[2] = q[2] /\ p # Open
    BY <2>3 DEF Open
  <2>5. spkt' = spkt \/ spkt' = [spkt EXCEPT ![h] = <<p>>]
    BY <1>3, <2>1, <2>3 DEF Handle, Submit, CloseCall, evars
  <2>6. Numbers(handled') = Numbers(handled) \cup {q[2]} /\ q[2] \notin Numbers(handled)
    BY <1>0, <1>3, <2>1, <2>2, NumbersMore, HandledOnce
  <2>7. ~Issued(p) /\ Issued(p)'
    BY <2>4, <2>6 DEF Issued
  <2>8. \A x : Issued(x) => Issued(x)'
    BY <2>2, <2>6 DEF Issued, Open
  <2> QED  BY <1>0, <1>1, <2>2, <2>5, <2>7, <2>8
<1>4. ASSUME NEW g \in Goroutines, SubmitReturn(g) PROVE UniqueInv'
  <2>1. UNCHANGED <<nout, handled>> /\ spkt[g] # <<>> /\ spkt' = [spkt EXCEPT ![g] = <<>>]
    BY <1>4 DEF SubmitReturn, SubmitSend, SubmitFail, xvars
  <2>2. /\ spkt'[g] = <<>> /\ \A k \in Goroutines : k # g => spkt'[k] = spkt[k]
        /\ \A x : Issued(x) <=> Issued(x)'
    BY <1>0, <2>1 DEF Issued, Open
  <2>3. CASE UNCHANGED accepted
    BY <2>2, <2>3 DEF UniqueInv
  <2>4. CASE accepted' = accepted \o spkt[g]
    <3>1. PICK p \in Packets : spkt[g] = <<p>> /\ Head(spkt[g]) = p
      BY <1>0, <2>1, AtMostOneIsSeq
    <3>2. /\ DOMAIN accepted' = 1 .. (Len(accepted) + 1) /\ DOMAIN accepted = 1 .. Len(accepted)
          /\ Len(accepted) \in Nat /\ accepted'[Len(accepted) + 1] = p
          /\ \A i \in 1 .. Len(accepted) : accepted'[i] = accepted[i]
      BY <1>0, <2>4, <3>1
    <3>3. /\ \A i \in DOMAIN accepted : accepted[i] # p
          /\ \A k \in Goroutines : k # g /\ spkt[k] # <<>> => Head(spkt[k]) # p
          /\ Issued(p)
      BY <2>1, <3>1 DEF UniqueInv
    <3>4. \A i \in DOMAIN accepted' : \/ i \in DOMAIN accepted /\ accepted'[i] = accepted[i]
                                      \/ i = Len(accepted) + 1 /\ accepted'[i] = p
      BY <3>2
    <3>5. \A i \in DOMAIN accepted' : Issued(accepted[i])'
      <4>1. \A i \in DOMAIN accepted : Issued(accepted[i])
        BY DEF UniqueInv
      <4>2. \A i \in DOMAIN accepted' : accepted'[i] = p \/ \E j \in DOMAIN accepted : accepted'[i] = accepted[j]
        BY <3>4
      <4>3. \A x : Issued(x) <=> Issued(x)'
        BY <2>2
      <4> QED  BY <2>1, <3>3, <4>1, <4>2 DEF Issued, Open
    <3>6. \A k \in Goroutines : spkt'[k] # <<>> => Issued(Head(spkt[k]))'
      <4>1. \A k \in Goroutines : spkt[k] # <<>> => Issued(Head(spkt[k]))
        BY DEF UniqueInv
      <4> QED  BY <2>1, <2>2, <4>1 DEF Issued, Open
    <3>7. \A i, j \in DOMAIN accepted' : accepted'[i] = accepted'[j] => i = j
      BY <3>3, <3>4 DEF UniqueInv
    <3>8. \A k \in Goroutines : \A i \in DOMAIN accepted' :
            spkt'[k] # <<>> => accepted'[i] # Head(spkt'[k])
      BY <2>2, <3>3, <3>4 DEF UniqueInv
    <3>9. \A k, m \in Goroutines :
            spkt'[k] # <<>> /\ spkt'[m] # <<>> /\ Head(spkt'[k]) = Head(spkt'[m]) => k = m
      BY <2>2 DEF UniqueInv
    <3> QED  BY <3>5, <3>6, <3>7, <3>8, <3>9 DEF UniqueInv
  <2> QED  BY <1>4, <2>3, <2>4 DEF SubmitReturn, SubmitSend, SubmitFail
<1>5. CASE UNCHANGED <<spkt, accepted, nout, handled>>
  BY <1>5 DEF UniqueInv, Issued, Open
<1> QED  BY <1>2, <1>3, <1>4, <1>5, OfferCases

\* Initially there is the open packet alone.
LEMMA UniqueInit == Init => UniqueInv
<1> SUFFICES ASSUME Init PROVE UniqueInv
  OBVIOUS
<1>1. /\ DOMAIN accepted = {1} /\ accepted[1] = Open
      /\ \A g \in Goroutines : spkt[g] = <<>>
  BY SessionAssumption DEF Init
<1>2. Issued(Open)
  BY DEF Issued
<1> QED  BY <1>1, <1>2 DEF UniqueInv

-----------------------------------------------------------------------------
(* Where the packets go that the emitter wrote.                            *)

\* The packets of a set of refusals, and the refusals of all packets of a sequence.
Refused(D) == {d[1] : d \in D}
Refusals(q, e) == {<<p, e>> : p \in Range(q)}

LEMMA RangeJoin ==
  ASSUME NEW S, NEW a \in Seq(S), NEW b \in Seq(S)
  PROVE  /\ a \o b \in Seq(S) /\ Len(a \o b) = Len(a) + Len(b) /\ Len(a) \in Nat /\ Len(b) \in Nat
         /\ Range(a \o b) = Range(a) \cup Range(b)
<1> DEFINE c == a \o b
<1>1. /\ \A i \in DOMAIN c : \/ i \in DOMAIN a /\ c[i] = a[i]
                             \/ i - Len(a) \in DOMAIN b /\ c[i] = b[i - Len(a)]
      /\ \A i \in DOMAIN a : i \in DOMAIN c /\ c[i] = a[i]
      /\ \A i \in DOMAIN b : Len(a) + i \in DOMAIN c /\ c[Len(a) + i] = b[i]
  BY Joined
<1>2. c \in Seq(S) /\ Len(c) = Len(a) + Len(b) /\ Len(a) \in Nat /\ Len(b) \in Nat
  BY LineFacts
<1> HIDE DEF c
<1>3. Range(c) \subseteq Range(a) \cup Range(b)
  BY <1>1 DEF Range
<1>4. Range(a) \subseteq Range(c)
  BY <1>1 DEF Range
<1>5. Range(b) \subseteq Range(c)
  BY <1>1 DEF Range
<1> QED  BY <1>2, <1>3, <1>4, <1>5 DEF c

LEMMA RangeEmpty == Range(<<>>) = {} /\ Len(<<>>) = 0 /\ \A p : Range(<<p>>) = {p} /\ Len(<<p>>) = 1
  BY DEF Range

LEMMA RangeMore ==
  ASSUME NEW S, NEW q \in Seq(S), NEW p \in S
  PROVE  /\ Append(q, p) \in Seq(S) /\ Len(Append(q, p)) = Len(q) + 1 /\ Len(q) \in Nat
         /\ Range(Append(q, p)) = Range(q) \cup {p}
<1>1. Append(q, p) = q \o <<p>> /\ <<p>> \in Seq(S) /\ Len(<<p>>) = 1
  OBVIOUS
<1>2. Range(q \o <<p>>) = Range(q) \cup Range(<<p>>)
  BY <1>1, RangeJoin
<1>3. Append(q, p) \in Seq(S) /\ Len(Append(q, p)) = Len(q) + 1 /\ Len(q) \in Nat
  OBVIOUS
<1> QED  BY <1>1, <1>2, <1>3, RangeEmpty

LEMMA RangeLess ==
  ASSUME NEW S, NEW q \in Seq(S), q # <<>>
  PROVE  /\ Head(q) \in S /\ Tail(q) \in Seq(S) /\ Len(q) = Len(Tail(q)) + 1 /\ Len(Tail(q)) \in Nat
         /\ Range(q) = Range(Tail(q)) \cup {Head(q)}
<1>1. /\ Head(q) \in S /\ Tail(q) \in Seq(S) /\ Len(Tail(q)) = Len(q) - 1
      /\ <<Head(q)>> \o Tail(q) = q
  BY TakeKeepsLine
<1>2. Len(q) \in Nat /\ Len(Tail(q)) \in Nat
  BY <1>1
<1> DEFINE p == Head(q)
           t == Tail(q)
<1> HIDE DEF p, t
<1>3. p \in S /\ t \in Seq(S) /\ <<p>> \o t = q
  BY <1>1 DEF p, t
<1>4. <<p>> \in Seq(S)
  BY <1>3
<1>5. Range(q) = Range(<<p>>) \cup Range(t)
  BY <1>3, <1>4, RangeJoin
<1>6. Range(q) = Range(t) \cup {p}
  BY <1>5, RangeEmpty
<1> QED  BY <1>1, <1>2, <1>6 DEF p, t

\* A sequence has at most as many elements as places, and just as many when no
\* element is repeated.
LEMMA RangeBound ==
  ASSUME NEW S, NEW q \in Seq(S)
  PROVE  /\ IsFiniteSet(Range(q)) /\ Cardinality(Range(q)) <= Len(q) /\ Len(q) \in Nat
         /\ (\A i, j \in DOMAIN q : q[i] = q[j] => i = j) => Cardinality(Range(q)) = Len(q)
<1>1. DOMAIN q = 1 .. Len(q) /\ Len(q) \in Nat
  OBVIOUS
<1>2. IsFiniteSet(1 .. Len(q)) /\ Cardinality(1 .. Len(q)) = Len(q)
  BY <1>1, FS_Interval
<1> DEFINE f == [i \in 1 .. Len(q) |-> q[i]]
<1>3. f \in Surjection(1 .. Len(q), Range(q))
  BY <1>1 DEF Surjection, Range
<1>4. ASSUME \A i, j \in DOMAIN q : q[i] = q[j] => i = j
      PROVE  f \in Injection(1 .. Len(q), Range(q))
  <2>1. f \in [1 .. Len(q) -> Range(q)]
    BY <1>3 DEF Surjection
  <2>2. \A i, j \in 1 .. Len(q) : f[i] = f[j] => i = j
    BY <1>1, <1>4
  <2> HIDE DEF f
  <2> QED  BY <2>1, <2>2 DEF Injection, IsInjective
<1> HIDE DEF f
<1> QED  BY <1>1, <1>2, <1>3, <1>4, FS_Surjection

\* What one more refusal, or the refusal of a whole sequence, adds.
LEMMA RefuseOne ==
  ASSUME NEW D, IsFiniteSet(D), NEW p, NEW e
  PROVE  /\ IsFiniteSet(D \cup {<<p, e>>}) /\ Cardinality(D) \in Nat
         /\ Cardinality(D \cup {<<p, e>>}) \in Nat
         /\ Cardinality(D \cup {<<p, e>>}) <= Cardinality(D) + 1
         /\ Refused(D \cup {<<p, e>>}) = Refused(D) \cup {p}
<1>1. /\ IsFiniteSet(D \cup {<<p, e>>}) /\ Cardinality(D) \in Nat
      /\ Cardinality(D \cup {<<p, e>>}) \in Nat
      /\ Cardinality(D \cup {<<p, e>>}) <= Cardinality(D) + 1
  BY FS_AddElement, FS_CardinalityType
<1> DEFINE x == <<p, e>>
<1>2. x[1] = p
  OBVIOUS
<1> HIDE DEF x
<1>3. Refused(D \cup {x}) = Refused(D) \cup {x[1]}
  BY DEF Refused
<1> QED  BY <1>1, <1>2, <1>3 DEF x

LEMMA RefuseAll ==
  ASSUME NEW D, IsFiniteSet(D), NEW S, NEW q \in Seq(S), NEW e,
         NEW E, E = D \cup Refusals(q, e)
  PROVE  /\ IsFiniteSet(E) /\ Cardinality(D) \in Nat /\ Cardinality(E) \in Nat
         /\ Cardinality(E) <= Cardinality(D) + Len(q)
         /\ Refused(E) = Refused(D) \cup Range(q)
<1> USE DEF Refusals
<1> DEFINE R == Refusals(q, e)
           f == [p \in Range(q) |-> <<p, e>>]
<1>1. f \in Surjection(Range(q), R)
  BY DEF Surjection
<1>a. /\ \A r \in R : r[1] \in Range(q)
      /\ \A p \in Range(q) : \E r \in R : r[1] = p
  <2>1. ASSUME NEW r \in R PROVE r[1] \in Range(q)
    BY <2>1
  <2>2. ASSUME NEW p \in Range(q) PROVE \E r \in R : r[1] = p
    <3>1. <<p, e>> \in R /\ <<p, e>>[1] = p
      BY <2>2
    <3> QED  BY <3>1
  <2> QED  BY <2>1, <2>2
<1> HIDE DEF f, R, Refusals
<1>2. Refused(D \cup R) = Refused(D) \cup Range(q)
  BY <1>a DEF Refused
<1>3. /\ Len(q) \in Nat /\ IsFiniteSet(Range(q)) /\ Cardinality(Range(q)) <= Len(q)
      /\ Cardinality(Range(q)) \in Nat /\ Cardinality(D) \in Nat
  BY RangeBound, FS_CardinalityType
<1>4. IsFiniteSet(R) /\ Cardinality(R) <= Cardinality(Range(q))
  BY <1>1, <1>3, FS_Surjection
<1>5. Cardinality(R) \in Nat
  BY <1>4, FS_CardinalityType
<1>6. PICK m \in Nat : m = Cardinality(D) /\ Cardinality(D) <= m
  BY <1>3
<1>7. PICK n \in Nat : n = Len(q)
  BY <1>3
<1>8. Cardinality(R) <= n
  BY <1>3, <1>4, <1>5, <1>7
<1>9. IsFiniteSet(D \cup R) /\ Cardinality(D \cup R) <= m + n
  BY <1>4, <1>6, <1>8, UnionBound
<1>10. Cardinality(D \cup R) \in Nat
  BY <1>9, FS_CardinalityType
<1> QED  BY <1>2, <1>3, <1>6, <1>7, <1>9, <1>10 DEF R

\* What was written is somewhere, and there are no more places than packets.
OutboundInv ==
  /\ Range(written) = Range(rcvd) \cup Range(out) \cup Refused(dropped)
  /\ IsFiniteSet(dropped)
  /\ Len(rcvd) + Len(out) + Cardinality(dropped) <= Len(written)

\* Every step keeps each packet in its place, moves it, or drops it.
LEMMA OutboundInvStep ==
  ASSUME SessionInv, OutboundInv, [Next]_vars
  PROVE  OutboundInv'
<1>0. /\ out \in Seq(Packets) /\ rcvd \in Seq(Packets) /\ written \in Seq(Packets)
      /\ Len(out) \in Nat /\ Len(rcvd) \in Nat /\ Len(written) \in Nat
      /\ IsFiniteSet(dropped) /\ Cardinality(dropped) \in Nat
  BY FS_CardinalityType
  DEF SessionInv, EmitterInv, EmitterTypeOK, OutboundTypeOK, OutboundInv
<1>1. ASSUME Written
      PROVE  \E p \in Packets : /\ hand = <<p>> /\ Head(hand) = p
                                /\ Len(written') = Len(written) + 1
                                /\ Range(written') = Range(written) \cup {p}
  <2>1. PICK p \in Packets : hand = <<p>> /\ Head(hand) = p
    BY <1>1, WriteFacts
  <2>2. written' = Append(written, p)
    BY <1>0, <1>1, <2>1 DEF Written
  <2>3. Len(written') = Len(written) + 1 /\ Range(written') = Range(written) \cup {p}
    BY ONLY <1>0, <2>2, p \in Packets, RangeMore
  <2> QED  BY <2>1, <2>3
<1>2. CASE WriteOut
  <2>1. Written /\ out' = Append(out, Head(hand)) /\ UNCHANGED <<rcvd, dropped>>
    BY <1>2 DEF WriteOut, PutOut, clvars
  <2>2. PICK p \in Packets : /\ hand = <<p>> /\ Head(hand) = p
                             /\ Len(written') = Len(written) + 1
                             /\ Range(written') = Range(written) \cup {p}
    BY <1>1, <2>1
  <2>3. Len(out') = Len(out) + 1 /\ Range(out') = Range(out) \cup {p}
    <3>1. out' = Append(out, p)
      BY <2>1, <2>2
    <3> QED  BY ONLY <1>0, <3>1, p \in Packets, RangeMore
  <2> QED  BY <1>0, <2>1, <2>2, <2>3 DEF OutboundInv
<1>3. CASE WriteFail
  <2>1. Written /\ UNCHANGED <<rcvd, out>>
    BY <1>3 DEF WriteFail, cvars, clvars
  <2>2. PICK p \in Packets : /\ hand = <<p>> /\ Head(hand) = p
                             /\ Len(written') = Len(written) + 1
                             /\ Range(written') = Range(written) \cup {p}
    BY <1>1, <2>1
  <2>3. PICK e : dropped' = dropped \cup {<<p, e>>}
    BY <1>3, <2>2 DEF WriteFail
  <2>4. /\ IsFiniteSet(dropped') /\ Cardinality(dropped') \in Nat
        /\ Cardinality(dropped') <= Cardinality(dropped) + 1
        /\ Refused(dropped') = Refused(dropped) \cup {p}
    BY <1>0, <2>3, RefuseOne
  <2> QED  BY <1>0, <2>1, <2>2, <2>4 DEF OutboundInv
<1>4. CASE WriteWs
  <2>1. Written /\ rcvd' = rcvd \o hand /\ UNCHANGED <<out, dropped>>
    BY <1>4 DEF WriteWs, cvars, xvars
  <2>2. PICK p \in Packets : /\ hand = <<p>> /\ Head(hand) = p
                             /\ Len(written') = Len(written) + 1
                             /\ Range(written') = Range(written) \cup {p}
    BY <1>1, <2>1
  <2>3. Len(rcvd') = Len(rcvd) + 1 /\ Range(rcvd') = Range(rcvd) \cup {p}
    <3>1. rcvd' = Append(rcvd, p)
      BY <1>0, <2>1, <2>2
    <3> QED  BY ONLY <1>0, <3>1, p \in Packets, RangeMore
  <2> QED  BY <1>0, <2>1, <2>2, <2>3 DEF OutboundInv
<1>5. ASSUME out # <<>>, out' = Tail(out), UNCHANGED written,
             \/ rcvd' = Append(rcvd, Head(out)) /\ UNCHANGED dropped
             \/ (\E e : dropped' = dropped \cup {<<Head(out), e>>}) /\ UNCHANGED rcvd
      PROVE  OutboundInv'
  <2>1. PICK p \in Packets : /\ p = Head(out) /\ Len(out) = Len(out') + 1 /\ Len(out') \in Nat
                             /\ Range(out) = Range(out') \cup {p}
    BY <1>0, <1>5, RangeLess
  <2>2. CASE rcvd' = Append(rcvd, p) /\ UNCHANGED dropped
    <3>1. Len(rcvd') = Len(rcvd) + 1 /\ Range(rcvd') = Range(rcvd) \cup {p}
      BY ONLY <1>0, <2>2, p \in Packets, RangeMore
    <3> QED  BY <1>0, <1>5, <2>1, <2>2, <3>1 DEF OutboundInv
  <2>3. CASE (\E e : dropped' = dropped \cup {<<p, e>>}) /\ UNCHANGED rcvd
    <3>1. PICK e : dropped' = dropped \cup {<<p, e>>}
      BY <2>3
    <3>2. /\ IsFiniteSet(dropped') /\ Cardinality(dropped') \in Nat
          /\ Cardinality(dropped') <= Cardinality(dropped) + 1
          /\ Refused(dropped') = Refused(dropped) \cup {p}
      BY <1>0, <3>1, RefuseOne
    <3>3. Range(written') = Range(rcvd') \cup Range(out') \cup Refused(dropped')
      BY <1>5, <2>1, <2>3, <3>2 DEF OutboundInv
    <3>4. Len(rcvd') + Len(out') + Cardinality(dropped') <= Len(written')
      BY <1>0, <1>5, <2>1, <2>3, <3>2 DEF OutboundInv
    <3> QED  BY <3>2, <3>3, <3>4 DEF OutboundInv
  <2> QED  BY <1>5, <2>1, <2>2, <2>3
<1>6. CASE PollPacket
  BY <1>5, <1>6 DEF PollPacket, ReadOut, evars
<1>7. ASSUME NEW u \in Upgrades, ServeSelect(u) PROVE OutboundInv'
  <2>1. UNCHANGED <<written, rcvd>>
    BY <1>7 DEF ServeSelect, evars, clvars
  <2>2. CASE UNCHANGED <<out, dropped>>
    BY <2>1, <2>2 DEF OutboundInv
  <2> QED  BY <1>5, <1>7, <2>1, <2>2 DEF ServeSelect, ReadOut, cvars
<1>8. ASSUME NEW u \in Upgrades, Drain(u) PROVE OutboundInv'
  <2>1. /\ UNCHANGED written /\ out' = <<>>
        /\ \/ rcvd' = rcvd \o out /\ UNCHANGED dropped
           \/ dropped' = dropped \cup {<<p, "ws">> : p \in Range(out)} /\ UNCHANGED rcvd
    BY <1>8 DEF Drain, FlushOut, evars
  <2>2. Range(out') = {} /\ Len(out') = 0
    BY <2>1, RangeEmpty
  <2>3. CASE rcvd' = rcvd \o out /\ UNCHANGED dropped
    <3>1. Len(rcvd') = Len(rcvd) + Len(out) /\ Range(rcvd') = Range(rcvd) \cup Range(out)
      BY ONLY <1>0, <2>3, RangeJoin
    <3> QED  BY <1>0, <2>1, <2>2, <2>3, <3>1 DEF OutboundInv
  <2>4. CASE dropped' = dropped \cup {<<p, "ws">> : p \in Range(out)} /\ UNCHANGED rcvd
    <3>1. /\ IsFiniteSet(dropped') /\ Cardinality(dropped') \in Nat
          /\ Cardinality(dropped') <= Cardinality(dropped) + Len(out)
          /\ Refused(dropped') = Refused(dropped) \cup Range(out)
      <4>1. dropped' = dropped \cup Refusals(out, "ws")
        BY <2>4 DEF Refusals
      <4> QED  BY ONLY <1>0, <4>1, RefuseAll
    <3> QED  BY <1>0, <2>1, <2>2, <2>4, <3>1 DEF OutboundInv
  <2> QED  BY <2>1, <2>3, <2>4
<1>9. CASE UNCHANGED <<out, rcvd, dropped, written>>
  BY <1>9 DEF OutboundInv
<1>10. ASSUME NEW u \in Upgrades, Swap(u) PROVE OutboundInv'
  BY <1>9, <1>10 DEF Swap, evars, cvars, clvars
<1> QED  BY <1>2, <1>3, <1>4, <1>6, <1>7, <1>8, <1>9, <1>10, OutboundCases

\* Initially nothing is written.
LEMMA OutboundInit == Init => OutboundInv
<1> SUFFICES ASSUME Init PROVE OutboundInv
  OBVIOUS
<1>1. written = <<>> /\ rcvd = <<>> /\ out = <<>> /\ dropped = {}
  BY DEF Init, ConnInit
<1>2. Refused({}) = {}
  BY DEF Refused
<1> QED  BY <1>1, <1>2, RangeEmpty, FS_EmptySet DEF OutboundInv

\* The invariants of the packets of the server hold throughout.
THEOREM OutboundInvariance == Spec => [](SessionInv /\ UniqueInv /\ OutboundInv)
<1>1. Init => UniqueInv /\ OutboundInv
  BY UniqueInit, OutboundInit
<1>2. SessionInv /\ InboundInv /\ UniqueInv /\ OutboundInv /\ [Next]_vars
        => (UniqueInv /\ OutboundInv)'
  BY UniqueStep, OutboundInvStep
<1> QED  BY <1>1, <1>2, InboundInvariance, PTL DEF Spec

\* A packet that the emitter wrote is with the client, in the polling connection
\* or among the dropped ones, and it is nowhere twice.
THEOREM OutboundIsConserved == Spec => []OutboundConserved
<1>1. SessionInv /\ UniqueInv /\ OutboundInv => OutboundConserved
  <2> SUFFICES ASSUME SessionInv, UniqueInv, OutboundInv PROVE OutboundConserved
    OBVIOUS
  <2>1. /\ written \in Seq(Packets) /\ hand \in Seq(Packets) /\ packets \in Seq(Packets)
        /\ rcvd \in Seq(Packets) /\ out \in Seq(Packets)
        /\ accepted = (written \o hand) \o packets
    BY AtMostOneIsSeq
    DEF SessionInv, EmitterInv, EmitterTypeOK, OutboundTypeOK, Conservation
  <2>2. \A m \in DOMAIN written : m \in DOMAIN accepted /\ accepted[m] = written[m]
    BY <2>1
  <2>3. \A i, j \in DOMAIN written : written[i] = written[j] => i = j
    BY <2>2 DEF UniqueInv
  <2>4. Cardinality(Range(written)) = Len(written)
    BY <2>1, <2>3, RangeBound
  <2>5. /\ IsFiniteSet(Range(rcvd)) /\ Cardinality(Range(rcvd)) <= Len(rcvd) /\ Len(rcvd) \in Nat
        /\ IsFiniteSet(Range(out)) /\ Cardinality(Range(out)) <= Len(out) /\ Len(out) \in Nat
        /\ Len(written) \in Nat
    BY <2>1, RangeBound
  <2>6. /\ IsFiniteSet(Refused(dropped)) /\ Cardinality(Refused(dropped)) <= Cardinality(dropped)
        /\ Cardinality(dropped) \in Nat
    <3> DEFINE f == [d \in dropped |-> d[1]]
    <3>1. f \in Surjection(dropped, Refused(dropped))
      BY DEF Surjection, Refused
    <3> HIDE DEF f
    <3> QED  BY <3>1, FS_Surjection, FS_CardinalityType DEF OutboundInv
  <2>7. /\ IsFiniteSet(Range(rcvd) \cup Range(out))
        /\ Cardinality(Range(rcvd) \cup Range(out)) <= Len(rcvd) + Len(out)
    BY <2>5, UnionBound
  <2>8. PICK n \in Nat : n = Len(rcvd) + Len(out)
    BY <2>5
  <2>9. PICK A : A = Range(rcvd) \cup Range(out)
    OBVIOUS
  <2>10. Cardinality(A \cup Refused(dropped)) <= n + Cardinality(dropped)
    BY <2>6, <2>7, <2>8, <2>9, UnionBound
  <2>11. /\ Range(written) = Range(rcvd) \cup Range(out) \cup Refused(dropped)
         /\ Len(rcvd) + Len(out) + Cardinality(dropped) <= Len(written)
    BY DEF OutboundInv
  <2>12. Len(written) = Len(rcvd) + Len(out) + Cardinality(dropped)
    BY <2>4, <2>5, <2>6, <2>8, <2>9, <2>10, <2>11
  <2> QED  BY <2>11, <2>12 DEF OutboundConserved, Refused
<1> QED  BY <1>1, OutboundInvariance, PTL

-----------------------------------------------------------------------------
(* What upgrades cost.                                                     *)

\* The refusals for a cause in E, and those that a pause and its end account for.
Caused(D, E) == {d \in D : d[2] \in E}
Cost == Cardinality(Caused(dropped, {"paused", "closed"}))

LEMMA CausedFinite ==
  ASSUME NEW D, IsFiniteSet(D), NEW E
  PROVE  IsFiniteSet(Caused(D, E)) /\ Cardinality(Caused(D, E)) \in Nat
<1>1. IsFiniteSet(Caused(D, E))
  BY FS_Subset DEF Caused
<1> QED  BY <1>1, FS_CardinalityType

LEMMA CausedMore ==
  ASSUME NEW D, IsFiniteSet(D), NEW x, NEW E
  PROVE  /\ Cardinality(Caused(D \cup {x}, E)) \in Nat
         /\ Cardinality(Caused(D \cup {x}, E)) <= Cardinality(Caused(D, E)) + 1
         /\ x[2] \notin E => Caused(D \cup {x}, E) = Caused(D, E)
<1>1. PICK C : C = Caused(D, E)
  OBVIOUS
<1>2. Caused(D \cup {x}, E) = IF x[2] \in E THEN C \cup {x} ELSE C
  BY <1>1 DEF Caused
<1>3. IsFiniteSet(C) /\ Cardinality(C) \in Nat
  BY <1>1, CausedFinite
<1>4. Cardinality(C \cup {x}) = IF x \in C THEN Cardinality(C) ELSE Cardinality(C) + 1
  BY <1>3, FS_AddElement
<1> QED  BY <1>1, <1>2, <1>3, <1>4

LEMMA CausedAll ==
  ASSUME NEW D, NEW q, NEW e, NEW E, e \notin E
  PROVE  Caused(D \cup Refusals(q, e), E) = Caused(D, E)
<1>1. \A r \in Refusals(q, e) : r[2] = e
  BY DEF Refusals
<1> QED  BY <1>1 DEF Caused

\* The emitter is past the barrier with a packet.
InWrite == IF epc = "write" THEN 1 ELSE 0

\* Where an upgrade stands before it pauses the connection.
Early == {"idle", "blocked", "probe", "pause"}

\* While an upgrade has the connection paused, the packet that was past the barrier
\* is still to be paid for; once FlushOut ran, so is what was left behind.  A closed
\* polling connection that the emitter still writes to was closed by an upgrade.
CostInv ==
  /\ IsFiniteSet(pausers) /\ \A u \in pausers : pc[u] \notin Early
  /\ Cost <= Cardinality(pausers)
  /\ cur # Polling => Cost + Len(out) <= Cardinality(pausers)
  /\ \A u \in Upgrades : pc[u] \in {"upgrade", "flushout", "swap"} =>
       Cost + InWrite <= Cardinality(pausers)
  /\ \A u \in Upgrades : pc[u] = "swap" => Cost + InWrite + Len(out) <= Cardinality(pausers)
  /\ closed /\ cur = Polling =>
       epc = "exited" \/ \E u \in Upgrades : pc[u] \in {"flushout", "swap"}

\* A step that neither moves packets, nor lets the emitter past the barrier, nor
\* takes an upgrade across one of the stages that matter here.
Quiet ==
  /\ UNCHANGED <<out, dropped, cur, pausers>>
  /\ (epc' = "write" => epc = "write") /\ (epc = "exited" => epc' = "exited")
  /\ \A u \in Upgrades :
       \/ pc'[u] = pc[u]
       \/ /\ pc[u] \notin {"flushout", "swap", "failed"}
          /\ pc'[u] \notin {"upgrade", "flushout", "swap", "failed"}
          /\ pc'[u] \in Early => pc[u] \in Early
       \/ pc[u] = "upgrade" /\ pc'[u] = "flushout"
  /\ closed' => closed \/ epc' = "exited" \/ \E u \in Upgrades : pc'[u] = "flushout"

LEMMA CostCases ==
  ASSUME ControlInv, [Next]_vars
  PROVE  \/ WriteOut \/ WriteFail \/ WriteWs \/ PollPacket \/ BarrierWait
         \/ \E u \in Upgrades : Drain(u) \/ ServeSelect(u) \/ Swap(u) \/ PauseConn(u) \/ ServeBegin(u)
         \/ Quiet
<1> USE SessionAssumption DEF Goto
<1>0. /\ pc \in [Handlers -> {"read", "select", "paused", "wsread", "fatal", "exiting",
                           "exited", "handle", "reply", "closing", "idle", "blocked",
                           "probe", "pause", "upgrade", "flushout", "swap",
                           "flushin", "done", "serve", "steal", "failed"}]
      /\ Upgrades \subseteq Handlers /\ Reader \in Handlers /\ Reader \notin Upgrades
  BY DEF ControlInv, ControlTypeOK, Handlers
<1>1. ASSUME UNCHANGED <<out, dropped, cur, pausers, closed, pc>>,
             epc' = "write" => epc = "write", epc = "exited" => epc' = "exited"
      PROVE  Quiet
  BY <1>1 DEF Quiet
<1>2. ASSUME UNCHANGED <<out, dropped, cur, pausers, closed, epc>>,
             NEW h \in Handlers, NEW l, pc' = [pc EXCEPT ![h] = l],
             h \in Upgrades => /\ pc[h] \notin {"flushout", "swap", "failed"}
                               /\ l \notin {"upgrade", "flushout", "swap", "failed"}
                               /\ l \in Early => pc[h] \in Early
      PROVE  Quiet
  BY <1>0, <1>2 DEF Quiet
<1>3. CASE ReadBegin
  <2>1. \E l : pc' = [pc EXCEPT ![Reader] = l]
    BY <1>3 DEF ReadBegin, SetDeadlineResults, ConnErrors
  <2> QED  BY <1>0, <1>2, <1>3, <2>1 DEF ReadBegin, evars, cvars
<1>4. CASE ReadPacket \/ ReadError \/ ReadWs \/ ReadWait \/ ReadFatal \/ ReaderExit
  BY <1>0, <1>2, <1>4
  DEF ReadPacket, ReadError, ReadWs, ReadWait, ReadFatal, ReaderExit, ReadIn, CloseCall, evars, cvars
<1>5. ASSUME NEW h \in Handlers, HandleStep(h) PROVE Quiet
  <2>1. \E l \in {"read", "handle", "reply", "closing"} : pc' = [pc EXCEPT ![h] = l]
    BY <1>5 DEF HandleStep, Handle, HandleReturn
  <2>2. pc[h] \in {"handle", "reply", "closing"}
    BY <1>5 DEF HandleStep, Handle, HandleReturn
  <2>3. UNCHANGED <<out, dropped, cur, pausers, closed, epc>>
    BY <1>5 DEF HandleStep, Handle, HandleReturn, Submit, CloseCall, evars, cvars
  <2> QED  BY <1>2, <2>1, <2>2, <2>3 DEF Early
<1>6. ASSUME NEW u \in Upgrades,
             UpgradeRequest(u) \/ BarrierPause(u) \/ Probe(u) \/ ProbeFail(u) \/ UpgradeFail(u)
               \/ TakeIn(u) \/ UpgradeDone(u)
      PROVE  Quiet
  BY <1>0, <1>2, <1>6 DEF UpgradeRequest, BarrierPause, Probe, ProbeFail, UpgradeFail, TakeIn,
     UpgradeDone, Abandon, Resume, FlushIn, Early, evars, cvars
<1>7. ASSUME NEW u \in Upgrades, CloseOld(u) PROVE Quiet
  BY <1>0, <1>7 DEF CloseOld, CloseChan, Quiet, evars
<1>8. CASE EmitterTake \/ WriteBegin \/ EmitterExit
  BY <1>1, <1>8 DEF EmitterTake, WriteBegin, EmitterExit, Take, Exit, evars, cvars, xvars
<1>9. ASSUME NEW g \in Goroutines, SubmitReturn(g) \/ SocketCloseReturn(g) PROVE Quiet
  BY <1>1, <1>9 DEF SubmitReturn, SocketCloseReturn, SubmitSend, SubmitFail, CloseReturn, cvars, xvars
<1>10. CASE SocketClose
  BY <1>10 DEF SocketClose, CloseConn, CloseChan, Quiet, cvars
<1>11. ASSUME NEW a \in Apps, AppEmit(a) \/ (a \in AppClosers /\ AppClose(a)) PROVE Quiet
  BY <1>1, <1>11 DEF AppEmit, AppClose, Submit, CloseCall, cvars, xvars
<1>12. CASE PollEnd \/ PostPush \/ PostClosed
  BY <1>1, <1>12 DEF PollEnd, PostPush, PostClosed, PutIn, evars, cvars, xvars
<1>13. CASE PollArrive \/ ClientPost \/ ClientUpgrade \/ ClientSend \/ ClientLeave
  BY <1>1, <1>13 DEF PollArrive, ClientPost, ClientUpgrade, ClientSend, ClientLeave, evars, cvars, xvars
<1>14. ASSUME NEW u \in Upgrades, ClientProbe(u) \/ ClientPause(u) PROVE Quiet
  BY <1>1, <1>14 DEF ClientProbe, ClientPause, evars, cvars, xvars
<1>15. CASE UNCHANGED vars
  BY <1>1, <1>15 DEF vars, evars, cvars, xvars
<1> QED
  BY <1>3, <1>4, <1>5, <1>6, <1>7, <1>8, <1>9, <1>10, <1>11, <1>12, <1>13, <1>14, <1>15
  DEF Next, ReaderStep, UpgradeStep, EmitterLoopStep, RequestStep, ClientStep

\* Every step keeps the account.
LEMMA CostStep ==
  ASSUME SessionInv, SwitchInv, OutboundInv, CostInv, [Next]_vars
  PROVE  CostInv'
<1> USE SessionAssumption
<1>0. /\ pc \in [Handlers -> {"read", "select", "paused", "wsread", "fatal", "exiting",
                           "exited", "handle", "reply", "closing", "idle", "blocked",
                           "probe", "pause", "upgrade", "flushout", "swap",
                           "flushin", "done", "serve", "steal", "failed"}]
      /\ Upgrades \subseteq Handlers /\ pausers \subseteq Upgrades /\ ControlInv
      /\ cur \in Upgrades \cup {Polling}
  BY DEF SessionInv, ControlInv, ControlTypeOK, Handlers
<1>1. /\ out \in Seq(Packets) /\ Len(out) \in Nat /\ IsFiniteSet(dropped) /\ IsFiniteSet(pausers)
      /\ Cardinality(pausers) \in Nat /\ Cost \in Nat /\ InWrite \in {0, 1}
  <2>1. out \in Seq(Packets) /\ IsFiniteSet(dropped) /\ IsFiniteSet(pausers)
    BY DEF SessionInv, OutboundTypeOK, OutboundInv, CostInv
  <2>2. Cost \in Nat
    BY <2>1, CausedFinite DEF Cost
  <2>3. Cardinality(pausers) \in Nat /\ Len(out) \in Nat /\ InWrite \in {0, 1}
    BY <2>1, FS_CardinalityType DEF InWrite
  <2> QED  BY <2>1, <2>2, <2>3
<1>2. /\ \A u \in Upgrades : pc[u] \in {"upgrade", "flushout", "swap"} => barrier = u /\ cur = Polling
      /\ locked => cur = Polling /\ epc = "write"
      /\ paused /\ cur = Polling => \E u \in Upgrades : pc[u] \in {"upgrade", "flushout", "swap"}
      /\ \A u \in Upgrades : u # None
  BY DEF SessionInv, ControlInv, BarrierExclusive, PausedByHolder, SwitchInv
<1>k. PICK K : /\ K = {"paused", "closed"} /\ Cost = Cardinality(Caused(dropped, K))
               /\ Cost' = Cardinality(Caused(dropped', K))
  BY DEF Cost
<1>m. ASSUME NEW p, NEW e, dropped' = dropped \cup {<<p, e>>}
      PROVE  Cost' \in Nat /\ Cost' <= Cost + 1 /\ (e \notin {"paused", "closed"} => Cost' = Cost)
  <2>f. IsFiniteSet(dropped)
    BY <1>1
  <2>1. /\ Cardinality(Caused(dropped', K)) \in Nat
        /\ Cardinality(Caused(dropped', K)) <= Cardinality(Caused(dropped, K)) + 1
        /\ e \notin K => Caused(dropped', K) = Caused(dropped, K)
    <3> DEFINE x == <<p, e>>
    <3>1. x[2] = e /\ dropped' = dropped \cup {x}
      BY <1>m
    <3> HIDE DEF x
    <3> QED  BY ONLY <2>f, <3>1, CausedMore
  <2> QED  BY <1>k, <2>1
<1>3. CASE Quiet
  <2>1. UNCHANGED <<out, dropped, cur, pausers>> /\ Cost' = Cost
    BY <1>3 DEF Quiet, Cost
  <2>2. InWrite' <= InWrite /\ InWrite' \in {0, 1}
    BY <1>3 DEF Quiet, InWrite
  <2>3. \A u \in pausers' : pc'[u] \notin Early
    BY <1>0, <1>3, <2>1 DEF Quiet, CostInv, Early
  <2>4. \A u \in Upgrades : pc'[u] \in {"upgrade", "flushout", "swap"} =>
          Cost' + InWrite' <= Cardinality(pausers')
    <3>1. \A u \in Upgrades : pc'[u] \in {"upgrade", "flushout", "swap"} =>
            pc[u] \in {"upgrade", "flushout", "swap"}
      BY <1>3 DEF Quiet
    <3> QED  BY <1>1, <2>1, <2>2, <3>1 DEF CostInv
  <2>5. \A u \in Upgrades : pc'[u] = "swap" => Cost' + InWrite' + Len(out') <= Cardinality(pausers')
    <3>1. \A u \in Upgrades : pc'[u] = "swap" => pc[u] = "swap"
      BY <1>3 DEF Quiet
    <3> QED  BY <1>1, <2>1, <2>2, <3>1 DEF CostInv
  <2>6. closed' /\ cur' = Polling =>
          epc' = "exited" \/ \E u \in Upgrades : pc'[u] \in {"flushout", "swap"}
    BY <1>3, <2>1 DEF Quiet, CostInv
  <2>7. /\ IsFiniteSet(pausers') /\ Cost' <= Cardinality(pausers')
        /\ cur' # Polling => Cost' + Len(out') <= Cardinality(pausers')
    BY <2>1 DEF CostInv
  <2> QED  BY <2>3, <2>4, <2>5, <2>6, <2>7 DEF CostInv
<1>4. CASE BarrierWait
  <2>1. /\ UNCHANGED <<out, dropped, cur, pausers, pc, closed>> /\ barrier = None
        /\ epc # "exited" /\ Cost' = Cost
    BY <1>4 DEF BarrierWait, Pass, cvars, xvars, Cost
  <2>2. \A u \in Upgrades : pc[u] \notin {"upgrade", "flushout", "swap"}
    BY <1>2, <2>1
  <2> QED  BY <2>1, <2>2 DEF CostInv
<1>5. CASE WriteOut
  <2>1. /\ UNCHANGED <<dropped, cur, pausers, pc, closed>> /\ Cost' = Cost /\ cur = Polling
        /\ out' = Append(out, Head(hand)) /\ InWrite = 1 /\ InWrite' = 0 /\ epc # "exited"
    BY <1>2, <1>5 DEF WriteOut, PutOut, Written, Cost, InWrite
  <2>2. Len(out') = Len(out) + 1
    BY <1>1, <2>1
  <2> QED  BY <1>1, <2>1, <2>2 DEF CostInv
<1>6. CASE WriteFail
  <2>1. /\ UNCHANGED <<out, cur, pausers, pc, closed>> /\ InWrite = 1 /\ InWrite' = 0
        /\ epc = "write" /\ epc # "exited"
    BY <1>6 DEF WriteFail, Written, cvars, InWrite
  <2>2. PICK e \in WriteErrors : dropped' = dropped \cup {<<Head(hand), e>>}
    BY <1>6 DEF WriteFail
  <2>3. /\ Cost' \in Nat /\ Cost' <= Cost + 1
        /\ e \notin {"paused", "closed"} => Cost' = Cost
    BY <1>m, <2>2
  <2>4. CASE Cost' = Cost
    BY <1>1, <2>1, <2>4 DEF CostInv
  <2>5. CASE e \in {"paused", "closed"}
    <3>1. cur = Polling /\ (paused \/ closed)
      BY <2>2, <2>5 DEF WriteErrors, ConnErrors
    <3>2. PICK u \in Upgrades : pc[u] \in {"upgrade", "flushout", "swap"}
      BY <1>2, <2>1, <3>1 DEF CostInv
    <3>3. Cost' <= Cardinality(pausers')
      BY <1>1, <2>1, <2>3, <3>2 DEF CostInv
    <3>4. \A v \in Upgrades : pc'[v] = "swap" =>
            Cost' + InWrite' + Len(out') <= Cardinality(pausers')
      BY <1>1, <2>1, <2>3 DEF CostInv
    <3> QED  BY <1>1, <2>1, <2>3, <3>1, <3>3, <3>4 DEF CostInv
  <2> QED  BY <2>3, <2>4, <2>5
<1>7. CASE WriteWs
  <2>1. /\ UNCHANGED <<out, dropped, cur, pausers, pc, closed>> /\ Cost' = Cost
        /\ InWrite = 1 /\ InWrite' = 0 /\ epc # "exited"
    BY <1>7 DEF WriteWs, Written, cvars, xvars, Cost, InWrite
  <2> QED  BY <1>1, <2>1 DEF CostInv
<1>8. ASSUME UNCHANGED <<cur, pausers, closed, epc>>, out' = Tail(out), out # <<>>, Cost' = Cost,
             \A u \in Upgrades : pc'[u] = pc[u] \/ (pc[u] = "steal" /\ pc'[u] = "failed")
      PROVE  CostInv'
  <2>1. Len(out') = Len(out) - 1 /\ Len(out') \in Nat
    BY <1>1, <1>8
  <2>2. InWrite' = InWrite
    BY <1>8 DEF InWrite
  <2> QED  BY <1>0, <1>1, <1>8, <2>1, <2>2 DEF CostInv, Early
<1>9. CASE PollPacket
  <2>1. /\ UNCHANGED <<cur, pausers, closed, epc, pc>> /\ out # <<>> /\ out' = Tail(out)
        /\ dropped' = dropped \/ dropped' = dropped \cup {<<Head(out), "canceled">>}
    BY <1>9 DEF PollPacket, ReadOut, evars
  <2>2. Cost' = Cost
    <3>1. CASE dropped' = dropped
      BY <1>k, <3>1
    <3>2. CASE dropped' = dropped \cup {<<Head(out), "canceled">>}
      <4>1. "canceled" \notin {"paused", "closed"}
        OBVIOUS
      <4> QED  BY <1>m, <3>2, <4>1
    <3> QED  BY <2>1, <3>1, <3>2
  <2> QED  BY <1>8, <2>1, <2>2
<1>10. ASSUME NEW u \in Upgrades, ServeSelect(u) PROVE CostInv'
  <2>1. /\ UNCHANGED <<cur, pausers, closed, epc>> /\ pc[u] = "steal"
        /\ pc' = [pc EXCEPT ![u] = "failed"]
        /\ \/ /\ out # <<>> /\ out' = Tail(out)
              /\ dropped' = dropped \cup {<<Head(out), "hijacked">>}
           \/ UNCHANGED <<out, dropped>>
    BY <1>10 DEF ServeSelect, ReadOut, Goto, evars, cvars
  <2>2. Cost' = Cost
    <3>1. CASE dropped' = dropped
      BY <1>k, <3>1
    <3>2. CASE dropped' = dropped \cup {<<Head(out), "hijacked">>}
      <4>1. "hijacked" \notin {"paused", "closed"}
        OBVIOUS
      <4> QED  BY <1>m, <3>2, <4>1
    <3> QED  BY <2>1, <3>1, <3>2
  <2>3. \A v \in Upgrades : pc'[v] = pc[v] \/ (pc[v] = "steal" /\ pc'[v] = "failed")
    BY <1>0, <2>1
  <2>4. CASE UNCHANGED <<out, dropped>>
    <3>1. InWrite' = InWrite
      BY <2>1 DEF InWrite
    <3> QED  BY <1>0, <2>1, <2>2, <2>3, <2>4, <3>1 DEF CostInv, Early
  <2> QED  BY <1>8, <2>1, <2>2, <2>3, <2>4
<1>11. ASSUME NEW u \in Upgrades, ServeBegin(u) PROVE CostInv'
  <2>1. /\ UNCHANGED <<out, dropped, cur, pausers, closed, epc>> /\ pc[u] = "serve"
        /\ pc' = [pc EXCEPT ![u] = "steal"] \/ pc' = [pc EXCEPT ![u] = "failed"]
    BY <1>11 DEF ServeBegin, Goto, evars, cvars
  <2>2. \A v \in Upgrades : pc'[v] = pc[v] \/ (pc[v] = "serve" /\ pc'[v] \in {"steal", "failed"})
    BY <1>0, <2>1
  <2>3. Cost' = Cost /\ InWrite' = InWrite
    BY <2>1 DEF Cost, InWrite
  <2> QED  BY <1>0, <2>1, <2>2, <2>3 DEF CostInv, Early
<1>12. ASSUME NEW u \in Upgrades, Drain(u) PROVE CostInv'
  <2>1. /\ UNCHANGED <<cur, pausers, closed, epc>> /\ out' = <<>> /\ pc[u] = "flushout"
        /\ pc' = [pc EXCEPT ![u] = "swap"]
        /\ dropped' = dropped \/ dropped' = dropped \cup Refusals(out, "ws")
    BY <1>12 DEF Drain, FlushOut, Goto, evars, Refusals
  <2>2. Cost' = Cost
    <3>1. "ws" \notin K
      BY <1>k
    <3>2. Caused(dropped \cup Refusals(out, "ws"), K) = Caused(dropped, K)
      BY <3>1, CausedAll
    <3> QED  BY <1>k, <2>1, <3>2
  <2>3. InWrite' = InWrite /\ Len(out') = 0 /\ cur = Polling
    BY <1>2, <2>1 DEF InWrite
  <2>4. /\ \A v \in Upgrades : v # u => pc'[v] = pc[v]
        /\ pc'[u] = "swap"
    BY <1>0, <2>1
  <2>5. \A v \in Upgrades : pc'[v] \in {"upgrade", "flushout", "swap"} =>
          Cost' + InWrite' <= Cardinality(pausers')
    BY <2>1, <2>2, <2>3 DEF CostInv
  <2>6. \A v \in pausers' : pc'[v] \notin Early
    BY <1>0, <2>1, <2>4 DEF CostInv, Early
  <2> QED  BY <1>1, <2>1, <2>2, <2>3, <2>4, <2>5, <2>6 DEF CostInv
<1>13. ASSUME NEW u \in Upgrades, Swap(u) PROVE CostInv'
  <2>1. /\ UNCHANGED <<out, dropped, pausers, closed, epc>> /\ pc[u] = "swap" /\ cur' = u
        /\ pc' = [pc EXCEPT ![u] = "flushin"] /\ u # Polling
    BY <1>13 DEF Swap, Goto, evars, cvars
  <2>2. Cost' = Cost /\ InWrite' = InWrite
    BY <2>1 DEF Cost, InWrite
  <2>3. /\ \A v \in Upgrades : v # u => pc'[v] = pc[v]
        /\ pc'[u] = "flushin"
    BY <1>0, <2>1
  <2>4. \A v \in pausers' : pc'[v] \notin Early
    BY <1>0, <2>1, <2>3 DEF CostInv, Early
  <2>5. Cost' + Len(out') <= Cardinality(pausers')
    BY <1>1, <2>1, <2>2 DEF CostInv
  <2>6. \A v \in Upgrades : pc'[v] \notin {"upgrade", "flushout", "swap"}
    BY <1>2, <2>1, <2>3
  <2> QED  BY <2>1, <2>2, <2>4, <2>5, <2>6 DEF CostInv
<1>14. ASSUME NEW u \in Upgrades, PauseConn(u) PROVE CostInv'
  <2>1. UNCHANGED <<out, dropped, cur, closed, epc>> /\ pc[u] = "pause"
    BY <1>14 DEF PauseConn, Pause, cvars, evars
  <2>2. Cost' = Cost /\ InWrite' = InWrite
    BY <2>1 DEF Cost, InWrite
  <2>3. CASE pc' = [pc EXCEPT ![u] = "serve"] /\ UNCHANGED pausers
    <3>1. \A v \in Upgrades : pc'[v] = pc[v] \/ (pc[v] = "pause" /\ pc'[v] = "serve")
      BY <1>0, <2>1, <2>3
    <3> QED  BY <1>0, <2>1, <2>2, <2>3, <3>1 DEF CostInv, Early
  <2>4. CASE pc' = [pc EXCEPT ![u] = "upgrade"] /\ pausers' = pausers \cup {u}
    <3>1. \A v \in Upgrades : pc'[v] = pc[v] \/ (pc[v] = "pause" /\ pc'[v] = "upgrade")
      BY <1>0, <2>1, <2>4
    <3>2. u \notin pausers
      BY <2>1 DEF CostInv, Early
    <3>3. IsFiniteSet(pausers') /\ Cardinality(pausers') = Cardinality(pausers) + 1
      BY <1>1, <2>4, <3>2, FS_AddElement
    <3>4. pc'[u] = "upgrade"
      BY <1>0, <2>4
    <3>5. \A v \in pausers' : pc'[v] \notin Early
      BY <1>0, <2>4, <3>1, <3>4 DEF CostInv, Early
    <3>6. Cost' + InWrite' <= Cardinality(pausers')
      BY <1>1, <2>2, <3>3 DEF CostInv
    <3>7. /\ \A v \in Upgrades : pc'[v] = "swap" =>
               Cost' + InWrite' + Len(out') <= Cardinality(pausers')
          /\ cur' # Polling => Cost' + Len(out') <= Cardinality(pausers')
          /\ Cost' <= Cardinality(pausers')
      BY <1>1, <2>1, <2>2, <3>1, <3>3 DEF CostInv
    <3>8. closed' /\ cur' = Polling =>
            epc' = "exited" \/ \E v \in Upgrades : pc'[v] \in {"flushout", "swap"}
      BY <2>1, <3>1 DEF CostInv
    <3> QED  BY <3>3, <3>5, <3>6, <3>7, <3>8 DEF CostInv
  <2> QED  BY <1>14, <2>3, <2>4 DEF PauseConn, Abandon, Goto
<1> QED
  BY <1>0, <1>3, <1>4, <1>5, <1>6, <1>7, <1>9, <1>10, <1>11, <1>12, <1>13, <1>14, CostCases

\* The upgrades that failed, each of which took at most one packet with it.
Failed == {u \in Upgrades : pc[u] = "failed"}

HijackInv ==
  /\ IsFiniteSet(Failed)
  /\ Cardinality(Caused(dropped, {"hijacked"})) <= Cardinality(Failed)

\* Every step keeps that.
LEMMA HijackStep ==
  ASSUME SessionInv, OutboundInv, HijackInv, [Next]_vars
  PROVE  HijackInv'
<1> USE SessionAssumption
<1>0. /\ pc \in [Handlers -> {"read", "select", "paused", "wsread", "fatal", "exiting",
                           "exited", "handle", "reply", "closing", "idle", "blocked",
                           "probe", "pause", "upgrade", "flushout", "swap",
                           "flushin", "done", "serve", "steal", "failed"}]
      /\ Upgrades \subseteq Handlers /\ ControlInv
  BY DEF SessionInv, ControlInv, ControlTypeOK, Handlers
<1>1. PICK K : /\ K = {"hijacked"}
               /\ HijackInv <=> IsFiniteSet(Failed) /\ Cardinality(Caused(dropped, K)) <= Cardinality(Failed)
               /\ HijackInv' <=> IsFiniteSet(Failed') /\ Cardinality(Caused(dropped', K)) <= Cardinality(Failed')
  BY DEF HijackInv
<1>2. /\ IsFiniteSet(dropped) /\ IsFiniteSet(Failed) /\ Cardinality(Failed) \in Nat
  BY FS_CardinalityType DEF OutboundInv, HijackInv
<1>3. /\ IsFiniteSet(Caused(dropped, K)) /\ Cardinality(Caused(dropped, K)) \in Nat
      /\ Cardinality(Caused(dropped, K)) <= Cardinality(Failed)
  BY <1>1, <1>2, CausedFinite
<1>4. ASSUME NEW p, NEW e, dropped' = dropped \cup {<<p, e>>}
      PROVE  /\ Cardinality(Caused(dropped', K)) \in Nat
             /\ Cardinality(Caused(dropped', K)) <= Cardinality(Caused(dropped, K)) + 1
             /\ e \notin K => Caused(dropped', K) = Caused(dropped, K)
  <2>1. IsFiniteSet(dropped)
    BY <1>2
  <2> DEFINE x == <<p, e>>
  <2>2. x[2] = e /\ dropped' = dropped \cup {x}
    BY <1>4
  <2> HIDE DEF x
  <2> QED  BY ONLY <2>1, <2>2, CausedMore
<1>5. ASSUME Failed' = Failed, Caused(dropped', K) = Caused(dropped, K) PROVE HijackInv'
  BY <1>1, <1>2, <1>3, <1>5
<1>6. ASSUME NEW u \in Upgrades, pc[u] # "failed", pc' = [pc EXCEPT ![u] = "failed"]
      PROVE  IsFiniteSet(Failed') /\ Cardinality(Failed') = Cardinality(Failed) + 1
  <2>1. Failed' = Failed \cup {u} /\ u \notin Failed
    BY <1>0, <1>6 DEF Failed
  <2> QED  BY <1>2, <2>1, FS_AddElement
<1>7. CASE WriteOut \/ WriteFail \/ WriteWs \/ PollPacket \/ BarrierWait
  <2>0. UNCHANGED pc
    BY <1>7 DEF WriteOut, WriteFail, WriteWs, PollPacket, BarrierWait, xvars
  <2>1. Failed' = Failed
    BY <2>0 DEF Failed
  <2>2. CASE WriteFail
    <3>1. PICK e \in WriteErrors : dropped' = dropped \cup {<<Head(hand), e>>}
      BY <2>2 DEF WriteFail
    <3>2. e \notin K
      BY <1>1, <3>1 DEF WriteErrors, ConnErrors
    <3> QED  BY <1>4, <1>5, <2>1, <3>1, <3>2
  <2>3. CASE dropped' = dropped \cup {<<Head(out), "canceled">>}
    <3>1. "canceled" \notin K
      BY <1>1
    <3> QED  BY <1>4, <1>5, <2>1, <2>3, <3>1
  <2>4. CASE UNCHANGED dropped
    BY <1>5, <2>1, <2>4
  <2>5. CASE WriteOut \/ WriteWs \/ BarrierWait
    BY <2>4, <2>5 DEF WriteOut, WriteWs, BarrierWait, xvars
  <2>6. CASE PollPacket
    BY <2>3, <2>4, <2>6 DEF PollPacket
  <2> QED  BY <1>7, <2>2, <2>5, <2>6
<1>8. CASE Quiet
  <2>1. Failed' = Failed
    BY <1>8 DEF Quiet, Failed
  <2> QED  BY <1>5, <1>8, <2>1 DEF Quiet
<1>9. ASSUME NEW u \in Upgrades, Drain(u) \/ Swap(u) \/ PauseConn(u) PROVE HijackInv'
  <2>1. PICK l : pc' = [pc EXCEPT ![u] = l] /\ l # "failed" /\ pc[u] # "failed"
    BY <1>9 DEF Drain, Swap, PauseConn, Abandon, Goto
  <2>2. Failed' = Failed
    BY <1>0, <2>1 DEF Failed
  <2>3. dropped' = dropped \/ dropped' = dropped \cup Refusals(out, "ws")
    BY <1>9 DEF Drain, Swap, PauseConn, Refusals
  <2>4. "ws" \notin K
    BY <1>1
  <2>5. Caused(dropped \cup Refusals(out, "ws"), K) = Caused(dropped, K)
    BY <2>4, CausedAll
  <2> QED  BY <1>5, <2>2, <2>3, <2>5
<1>10. ASSUME NEW u \in Upgrades, ServeBegin(u) PROVE HijackInv'
  <2>1. UNCHANGED dropped /\ pc[u] = "serve"
    BY <1>10 DEF ServeBegin
  <2>2. CASE pc' = [pc EXCEPT ![u] = "steal"]
    <3>1. Failed' = Failed
      BY <1>0, <2>1, <2>2 DEF Failed
    <3> QED  BY <1>5, <2>1, <3>1
  <2>3. CASE pc' = [pc EXCEPT ![u] = "failed"]
    <3>1. IsFiniteSet(Failed') /\ Cardinality(Failed') = Cardinality(Failed) + 1
      BY <1>6, <2>1, <2>3
    <3>2. Caused(dropped', K) = Caused(dropped, K)
      BY <2>1
    <3> QED  BY <1>1, <1>2, <1>3, <3>1, <3>2
  <2> QED  BY <1>10, <2>2, <2>3 DEF ServeBegin, Goto
<1>11. ASSUME NEW u \in Upgrades, ServeSelect(u) PROVE HijackInv'
  <2>1. /\ pc[u] = "steal" /\ pc' = [pc EXCEPT ![u] = "failed"]
        /\ dropped' = dropped \/ dropped' = dropped \cup {<<Head(out), "hijacked">>}
    BY <1>11 DEF ServeSelect, Goto
  <2>2. IsFiniteSet(Failed') /\ Cardinality(Failed') = Cardinality(Failed) + 1
    BY <1>6, <2>1
  <2>3. /\ Cardinality(Caused(dropped', K)) \in Nat
        /\ Cardinality(Caused(dropped', K)) <= Cardinality(Caused(dropped, K)) + 1
    <3>1. CASE dropped' = dropped
      BY <1>3, <3>1
    <3>2. CASE dropped' = dropped \cup {<<Head(out), "hijacked">>}
      BY <1>4, <3>2
    <3> QED  BY <2>1, <3>1, <3>2
  <2> QED  BY <1>1, <1>2, <1>3, <2>2, <2>3
<1> QED  BY <1>0, <1>7, <1>8, <1>9, <1>10, <1>11, CostCases

\* Initially no upgrade has begun.
LEMMA CostInit == Init => CostInv /\ HijackInv
<1> SUFFICES ASSUME Init PROVE CostInv /\ HijackInv
  OBVIOUS
<1>1. /\ dropped = {} /\ pausers = {} /\ cur = Polling /\ ~closed
      /\ \A u \in Upgrades : pc[u] = "idle"
  BY SessionAssumption DEF Init, ConnInit, Handlers
<1>2. Failed = {} /\ \A E : Caused(dropped, E) = {}
  BY <1>1 DEF Failed, Caused
<1>3. IsFiniteSet({}) /\ Cardinality({}) = 0
  BY FS_EmptySet
<1>4. Cost = 0 /\ Cardinality(pausers) = 0
  BY <1>1, <1>2, <1>3 DEF Cost
<1>5. CostInv
  BY <1>1, <1>3, <1>4 DEF CostInv
<1>6. HijackInv
  BY <1>2, <1>3 DEF HijackInv
<1> QED  BY <1>5, <1>6

\* The account is kept throughout.
THEOREM CostInvariance == Spec => [](CostInv /\ HijackInv)
<1>1. Init => CostInv /\ HijackInv
  BY CostInit
<1>2. SessionInv /\ SwitchInv /\ OutboundInv /\ CostInv /\ HijackInv /\ [Next]_vars
        => (CostInv /\ HijackInv)'
  BY CostStep, HijackStep
<1> QED  BY <1>1, <1>2, OrderInvariance, OutboundInvariance, PTL DEF Spec

\* However many upgrades there are, each that pauses the polling connection costs
\* at most one packet, and each that fails at most one more.
THEOREM UpgradesCost == Spec => []UpgradeCost
<1>1. SessionInv /\ OutboundInv /\ CostInv /\ HijackInv => UpgradeCost
  <2> SUFFICES ASSUME SessionInv, OutboundInv, CostInv, HijackInv PROVE UpgradeCost
    OBVIOUS
  <2>1. /\ {d \in dropped : d[2] \in {"paused", "closed"}} = Caused(dropped, {"paused", "closed"})
        /\ {d \in dropped : d[2] = "hijacked"} = Caused(dropped, {"hijacked"})
    BY DEF Caused
  <2>2. Cost \in Nat
    BY CausedFinite DEF Cost, OutboundInv
  <2>3. Cost + (IF cur # Polling THEN Len(out) ELSE 0) <= Cardinality(pausers)
    BY <2>2 DEF CostInv
  <2> QED  BY <2>1, <2>3 DEF UpgradeCost, Cost, HijackInv, Failed
<1> QED  BY <1>1, OutboundInvariance, CostInvariance, PTL
=============================================================================
