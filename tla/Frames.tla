------------------------------- MODULE Frames -------------------------------
(***************************************************************************)
(* Packets of socket.io as frames of engine.io.  Two peers, both running   *)
(* this library, exchange events and acknowledgements: emit and emitPacket *)
(* (socket.go), the encoders and decoders of both parsers                  *)
(* (parser_default.go, parser_msgp.go), and the event callback with        *)
(* process (server.go, client.go).                                         *)
(*                                                                         *)
(* A packet's data is a list of "name" (of the event), "json" and "bin"    *)
(* items; <<>> is nil data.  The n-th event has number n, which is its id  *)
(* when it asks for an acknowledgement.  The engine is a FIFO channel that *)
(* loses a frame now and then (Session says when) and that may be closed.  *)
(***************************************************************************)
EXTENDS Arguments, Selection, Functions

CONSTANTS Parsers,   \* "default" and "msgpack", or one of them
          Peers,     \* the two ends; each also names its reading goroutine
          Senders,   \* application goroutines
          Home,      \* [Senders -> Peers]
          ArgLists,  \* argument lists that events are emitted with
          ParamLists,\* parameters that event callbacks have
          Replies,   \* what event callbacks return: a list, or <<>> for nothing
          MaxEvents, \* bound on the events emitted
          MaxLoss    \* bound on the frames lost

ASSUME FramesAssumption ==
  /\ Parsers \subseteq {"default", "msgpack"}
  /\ \E p, q \in Peers : p # q /\ Peers = {p, q}
  /\ Senders \cap Peers = {}
  /\ Home \in [Senders -> Peers]
  /\ ArgLists \subseteq Seq({"json", "bin"})
  /\ ParamLists \subseteq Seq({"json", "bin", "socket"})
  /\ Replies \subseteq Seq({"json", "bin"})
  /\ MaxEvents \in Nat /\ MaxLoss \in Nat

Goroutines == Senders \cup Peers
PeerOf(g) == IF g \in Peers THEN g ELSE Home[g]
Other(p) == CHOOSE q \in Peers : q # p

VARIABLES
  parser,  \* the parser that both peers use
  params,  \* the parameters of the event callback of both peers
  outq,    \* per goroutine: frames its emitPacket has still to Emit
  wire,    \* per peer: frames on their way to it
  lastp,   \* per peer: the decoder's packet that waits for attachments, <<>> or one
  closed,  \* the engine's sockets are closed
  nev,     \* events emitted so far
  lost,    \* history: how many frames were lost
  begun,   \* history, per peer: packets that emitPacket began to send, in order
  decoded, \* history, per peer: packets that the decoder completed
  refused, \* history: frames that Add refused
  mute,    \* history: acknowledgements that ParseData refused
  args,    \* history: the arguments of each event emitted
  calls,   \* history: <<event, values>> for the calls of event callbacks, or Fail
  fired    \* history: events whose acknowledgement callback was called

vars == <<parser, params, outq, wire, lastp, closed, nev, lost, begun, decoded, refused,
          mute, args, calls, fired>>

-----------------------------------------------------------------------------
(* Encoding.                                                               *)

Binaries(data) == {i \in DOMAIN data : data[i] = "bin"}
BinaryOf(type) == IF type = "event" THEN "binevent" ELSE "binack"

\* preprocess: each binary becomes a placeholder and a buffer.  The buffers are
\* made anew only when the packet has a list of data.
preprocess(p) ==
  LET n == Cardinality(Binaries(p.data)) IN
  [p EXCEPT
     !.type = IF n > 0 THEN BinaryOf(p.type) ELSE p.type,
     !.attachments = n,
     !.data = [i \in DOMAIN p.data |-> IF p.data[i] = "bin" THEN "placeholder" ELSE p.data[i]],
     !.buffer = IF p.data = <<>> THEN p.buffer
                ELSE [k \in 1 .. n |-> <<p.type, p.num, k>>]]

StringFrame(p) == [kind |-> "string", packet |-> [p EXCEPT !.buffer = <<>>]]
BinaryFrame(b) == [kind |-> "binary", bytes |-> b]
EmptyFrame == [kind |-> "empty"]
PackedFrame(p) == [kind |-> "packed", packet |-> [p EXCEPT !.buffer = <<>>]]

\* defaultEncoder.Encode: the header and data as a string, then the buffers.
EncodeDefault(p) ==
  LET q == preprocess(p) IN
  <<StringFrame(q)>> \o [k \in DOMAIN q.buffer |-> BinaryFrame(q.buffer[k])]

\* msgpackEncoder.Encode: no string and one buffer, of which emitPacket makes an
\* empty string frame and a binary one.
EncodeMsgpack(p) == <<EmptyFrame, PackedFrame(p)>>

Encode(p) == IF parser = "default" THEN EncodeDefault(p) ELSE EncodeMsgpack(p)

-----------------------------------------------------------------------------
(* Decoding.  The result of Add: the packet that waits, the packet that is *)
(* complete, and whether the frame was accepted.                           *)

Result(last, out, ok) == [last |-> last, out |-> out, ok |-> ok]

\* extractAttachments takes a placeholder for one only after a comma: the first
\* item of the list is none.
Found(p) ==
  IF p.type \in {"binevent", "binack"}
  THEN {i \in DOMAIN p.data : p.data[i] = "placeholder" /\ i > 1} ELSE {}

\* decode, of a string that Encode made: the header comes back as it was, the
\* placeholders are taken out of the data, and the packet is refused if they are
\* not as many as the header says.
Decodes(p) == Cardinality(Found(p)) = p.attachments
decode(p) == [p EXCEPT !.data = Selected(@, {"name", "json", "bin"})]

\* Mutant: a packet without attachments waits as well.
AddLate(last, f) ==
  IF f.kind = "string" THEN Result(<<f.packet>>, last, TRUE)
  ELSE IF last = <<>> THEN Result(last, <<>>, FALSE)
  ELSE LET p == [last[1] EXCEPT !.buffer = Append(@, f.bytes)] IN
       IF Len(p.buffer) = p.attachments THEN Result(<<>>, <<p>>, TRUE)
                                        ELSE Result(<<p>>, <<>>, TRUE)

\* Mutant: a new string frame leaves the packet that waits in place.
AddKeepsLast(last, f) ==
  IF f.kind = "string"
  THEN IF ~Decodes(f.packet) THEN Result(last, <<>>, FALSE)
       ELSE IF f.packet.attachments = 0 THEN Result(last, <<decode(f.packet)>>, TRUE)
       ELSE Result(IF last = <<>> THEN <<decode(f.packet)>> ELSE last, <<>>, TRUE)
  ELSE IF last = <<>> THEN Result(last, <<>>, FALSE)
  ELSE LET p == [last[1] EXCEPT !.buffer = Append(@, f.bytes)] IN
       IF Len(p.buffer) = p.attachments THEN Result(<<>>, <<p>>, TRUE)
                                        ELSE Result(<<p>>, <<>>, TRUE)

\* defaultDecoder.Add: a string starts a packet, in place of one that waits; a
\* binary fills the next attachment of the packet that waits.
AddDefault(last, f) ==
  IF f.kind = "string"
  THEN IF ~Decodes(f.packet) THEN Result(last, <<>>, FALSE)
       ELSE IF f.packet.attachments = 0 THEN Result(<<>>, <<decode(f.packet)>>, TRUE)
       ELSE Result(<<decode(f.packet)>>, <<>>, TRUE)
  ELSE IF last = <<>> THEN Result(last, <<>>, FALSE)
  ELSE LET p == [last[1] EXCEPT !.buffer = Append(@, f.bytes)] IN
       IF Len(p.buffer) = p.attachments THEN Result(<<>>, <<p>>, TRUE)
                                        ELSE Result(<<p>>, <<>>, TRUE)

\* msgpackDecoder.Add: an empty string is no JSON.
AddMsgpack(last, f) ==
  IF f.kind = "packed" THEN Result(last, <<f.packet>>, TRUE) ELSE Result(last, <<>>, FALSE)

Add(last, f) == IF parser = "default" THEN AddDefault(last, f) ELSE AddMsgpack(last, f)

\* defaultDecoder.ParseData: the data must be a list, of an event one with a name.
ParseDefault(p) ==
  p.data # <<>> /\ (p.type \in {"event", "binevent"} => p.data[1] = "name")

\* msgpackDecoder.ParseData: nil is no list.
ParseMsgpack(p) == p.data # <<>> /\ (p.type = "event" => p.data[1] = "name")

ParseOK(p) == IF parser = "default" THEN ParseDefault(p) ELSE ParseMsgpack(p)

\* callback.Call, with the data and buffers of the packet q.
Call(q) ==
  LET items == Tail(q.data)
      values == [i \in DOMAIN items |-> <<items[i], q.num, Rank(items, i)>>]
  IN  IF parser = "default"
      THEN UnmarshalDefault(params, values,
                            [j \in DOMAIN q.buffer |-> <<"bin", q.buffer[j][2], q.buffer[j][3]>>])
      ELSE UnmarshalMsgpack(params, values)

-----------------------------------------------------------------------------
Init ==
  /\ parser \in Parsers /\ params \in ParamLists
  /\ outq = [g \in Goroutines |-> <<>>]
  /\ wire = [p \in Peers |-> <<>>]
  /\ lastp = [p \in Peers |-> <<>>]
  /\ closed = FALSE /\ nev = 0 /\ lost = 0
  /\ begun = [p \in Peers |-> <<>>]
  /\ decoded = [p \in Peers |-> <<>>]
  /\ refused = {} /\ mute = {} /\ args = <<>> /\ calls = {} /\ fired = {}

\* emitPacket, up to its first Emit.  An argument that Encode cannot marshal is
\* reported to the caller before anything is emitted, which is no step here.
Begin(g, p) ==
  /\ outq' = [outq EXCEPT ![g] = Encode(p)]
  /\ begun' = [begun EXCEPT ![PeerOf(g)] = Append(@, <<p.type, p.num>>)]

\* emit: the event's name and arguments, and an id if a callback is among them.
Emit(g) ==
  /\ outq[g] = <<>>
  /\ nev < MaxEvents
  /\ nev' = nev + 1
  /\ \E list \in ArgLists, id \in {0, nev'} :
       /\ Begin(g, [type |-> "event", num |-> nev', id |-> id, data |-> <<"name">> \o list,
                    attachments |-> 0, buffer |-> <<>>])
       /\ args' = Append(args, list)
  /\ UNCHANGED <<parser, params, wire, lastp, closed, lost, decoded, refused, mute, calls, fired>>

\* Mutant: a frame overtakes those that wait.
SubmitAhead(g) ==
  /\ outq[g] # <<>> /\ ~closed
  /\ wire' = [wire EXCEPT ![Other(PeerOf(g))] = <<Head(outq[g])>> \o @]
  /\ outq' = [outq EXCEPT ![g] = Tail(@)]
  /\ UNCHANGED <<parser, params, lastp, closed, nev, lost, begun, decoded, refused, mute,
                 args, calls, fired>>

\* One Emit of emitPacket.  Other goroutines may get in between two of them.
Submit(g) ==
  /\ outq[g] # <<>> /\ ~closed
  /\ wire' = [wire EXCEPT ![Other(PeerOf(g))] = Append(@, Head(outq[g]))]
  /\ outq' = [outq EXCEPT ![g] = Tail(@)]
  /\ UNCHANGED <<parser, params, lastp, closed, nev, lost, begun, decoded, refused, mute,
                 args, calls, fired>>

\* The emitter accepted the frame and its connection refused it.
SubmitLost(g) ==
  /\ outq[g] # <<>> /\ ~closed
  /\ lost < MaxLoss
  /\ lost' = lost + 1
  /\ outq' = [outq EXCEPT ![g] = Tail(@)]
  /\ UNCHANGED <<parser, params, wire, lastp, closed, nev, begun, decoded, refused, mute,
                 args, calls, fired>>

\* Emit fails: emitPacket leaves the rest of the packet.
SubmitFail(g) ==
  /\ outq[g] # <<>> /\ closed
  /\ outq' = [outq EXCEPT ![g] = <<>>]
  /\ UNCHANGED <<parser, params, wire, lastp, closed, nev, lost, begun, decoded, refused, mute,
                 args, calls, fired>>

Close ==
  /\ ~closed
  /\ closed' = TRUE
  /\ UNCHANGED <<parser, params, outq, wire, lastp, nev, lost, begun, decoded, refused, mute,
                 args, calls, fired>>

\* process for an event: the callback is called, unless its arguments cannot be
\* unmarshalled, and what it returns sent if the event asks for it.  The
\* acknowledgement is the packet that came in, with its type and data replaced.
processEvent(p, q) ==
  LET result == IF ParseOK(q) THEN Call(q) ELSE Fail IN
  /\ q.type \in {"event", "binevent"}
  /\ calls' = calls \cup {<<q.num, result>>}
  /\ IF q.id # 0 /\ result # Fail
     THEN \E v \in Replies : Begin(p, [q EXCEPT !.type = "ack", !.data = v])
     ELSE UNCHANGED <<outq, begun>>
  /\ UNCHANGED <<mute, fired>>

\* Mutant: a binary acknowledgement is no case of process.
processAckNoBinary(q) ==
  /\ q.type \in {"ack", "binack"}
  /\ IF ParseOK(q)
     THEN fired' = (IF q.type = "ack" THEN fired \cup {q.id} ELSE fired) /\ UNCHANGED mute
     ELSE mute' = mute \cup {q.id} /\ UNCHANGED fired
  /\ UNCHANGED <<outq, begun, calls>>

\* process for an acknowledgement: ParseData, and the callback of the event, which has
\* no parameters.
processAck(q) ==
  /\ q.type \in {"ack", "binack"}
  /\ IF ParseOK(q) THEN fired' = fired \cup {q.id} /\ UNCHANGED mute
                   ELSE mute' = mute \cup {q.id} /\ UNCHANGED fired
  /\ UNCHANGED <<outq, begun, calls>>

\* The callback of EventMessage, on the peer's reading goroutine: Add, then yield
\* and process.
Receive(p) ==
  /\ wire[p] # <<>> /\ outq[p] = <<>>
  /\ wire' = [wire EXCEPT ![p] = Tail(@)]
  /\ LET r == Add(lastp[p], Head(wire[p])) IN
       /\ lastp' = [lastp EXCEPT ![p] = r.last]
       /\ decoded' = [decoded EXCEPT ![p] = @ \o r.out]
       /\ refused' = IF r.ok THEN refused ELSE refused \cup {Head(wire[p])}
       /\ IF r.out = <<>> THEN UNCHANGED <<outq, begun, mute, calls, fired>>
                          ELSE processEvent(p, r.out[1]) \/ processAck(r.out[1])
  /\ UNCHANGED <<parser, params, closed, nev, lost, args>>

Next ==
  \/ \E g \in Senders : Emit(g)
  \/ \E g \in Goroutines : Submit(g) \/ SubmitLost(g) \/ SubmitFail(g)
  \/ \E p \in Peers : Receive(p)
  \/ Close

Spec == Init /\ [][Next]_vars

\* A goroutine in emitPacket goes on, and the readers read.
FairSpec ==
  /\ Spec
  /\ \A g \in Goroutines : WF_vars(Submit(g) \/ SubmitFail(g))
  /\ \A p \in Peers : WF_vars(Receive(p))

-----------------------------------------------------------------------------
(* Properties *)

Base(q) == IF q.type \in {"event", "binevent"} THEN "event" ELSE "ack"

\* Add never writes past the attachments of the packet that waits, which would
\* panic: that packet always has one to come (parser_default.go:175-177).
RoomForAttachment ==
  \A p \in Peers : lastp[p] # <<>> => Len(lastp[p][1].buffer) < lastp[p][1].attachments

\* A string frame that Encode made was refused: one of a packet whose first item is
\* binary, an acknowledgement.
Refusal == \E f \in refused : f.kind = "string"

\* A packet that comes out of the decoder was sent by the other peer, comes out
\* once, and has its own attachments, all of them and in order.  One lost frame does
\* no harm to other packets, except with a Refusal: the packet before it still waits.
Intact ==
  lost = 0 \/ ~Refusal => \A p \in Peers :
    /\ \A k \in DOMAIN decoded[p] : LET q == decoded[p][k] IN
         /\ <<Base(q), q.num>> \in Range(begun[Other(p)])
         /\ q.buffer = [j \in 1 .. q.attachments |-> <<Base(q), q.num, j>>]
    /\ \A i, j \in DOMAIN decoded[p] : i # j =>
         <<Base(decoded[p][i]), decoded[p][i].num>> # <<Base(decoded[p][j]), decoded[p][j].num>>

\* When one goroutine of a peer sends, its packets come out in its order.
InOrder ==
  \A p \in Peers : \A i, j \in DOMAIN decoded[p] : i < j =>
    \E m, n \in DOMAIN begun[Other(p)] :
      /\ m < n
      /\ begun[Other(p)][m] = <<Base(decoded[p][i]), decoded[p][i].num>>
      /\ begun[Other(p)][n] = <<Base(decoded[p][j]), decoded[p][j].num>>

\* With either parser, a callback whose parameters, the Socket aside, have the kinds of
\* the event's arguments is called, and gets each argument in its place.
MatchedCall ==
  lost = 0 \/ ~Refusal =>
    \A c \in calls : Selected(params, {"json", "bin"}) = args[c[1]] =>
      /\ c[2] # Fail
      /\ Selected(c[2], Range(c[2]) \ {TheSocket}) =
           [i \in DOMAIN args[c[1]] |-> <<args[c[1]][i], c[1], Rank(args[c[1]], i)>>]

\* An event that arrives and asks for it is acknowledged, and the callback of the
\* peer that emitted it is called, unless the event's arguments did not fit, its
\* callback had nothing to return (mute), the acknowledgement was refused or a frame
\* lost, or the engine is closed.
EventAcked ==
  \A n \in 1 .. MaxEvents :
    (\E p \in Peers : \E k \in DOMAIN decoded[p] :
        decoded[p][k].id = n /\ Base(decoded[p][k]) = "event")
      ~> (n \in fired \cup mute \/ <<n, Fail>> \in calls \/ closed \/ Refusal \/ lost > 0)

-----------------------------------------------------------------------------
(* What the documentation says and the code does not do.                   *)

\* protocol.md:33, "The expectation for any implementation is that each item in the
\* array is transported sequentially": no packet gets attachments of another.
TransportedSequentially ==
  \A p \in Peers : \A k \in DOMAIN decoded[p] :
    \A j \in DOMAIN decoded[p][k].buffer : decoded[p][k].buffer[j][2] = decoded[p][k].num
=============================================================================
