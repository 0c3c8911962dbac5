--------------------------- MODULE Frames_proofs ----------------------------
(***************************************************************************)
(* Proofs about Frames: the decoder has room for the attachment that comes *)
(* next, packets come out in the order in which they were sent and with    *)
(* their own attachments, and callbacks get the arguments of the events.   *)
(***************************************************************************)
EXTENDS Frames, Selection_proofs, FiniteSetTheorems

-----------------------------------------------------------------------------
(* Types.                                                                  *)

Items == {"name", "json", "bin", "placeholder"}
Kinds == {"event", "ack"}
PacketTypes == {"event", "ack", "binevent", "binack"}
Bytes == Kinds \X Nat \X Nat

Packets == [type : PacketTypes, num : Nat, id : Nat, data : Seq(Items), attachments : Nat,
            buffer : Seq(Bytes)]

\* Packets as they are in a frame, without buffers.
BarePackets == {q \in Packets : q.buffer = <<>>}

DefaultFrames == [kind : {"string"}, packet : BarePackets] \cup [kind : {"binary"}, bytes : Bytes]
PlainPackets == {q \in BarePackets : q.attachments = 0}
MsgpackFrames == [kind : {"packed"}, packet : PlainPackets] \cup {EmptyFrame}
FrameSet == IF parser = "default" THEN DefaultFrames ELSE MsgpackFrames

\* The variables have their types; a frame is one of the parser in use.
FramesTypeOK ==
  /\ parser \in {"default", "msgpack"}
  /\ outq \in [Goroutines -> Seq(FrameSet)]
  /\ wire \in [Peers -> Seq(FrameSet)]
  /\ lastp \in [Peers -> Seq(Packets)]
  /\ nev \in Nat
  /\ begun \in [Peers -> Seq(Kinds \X Nat)]
  /\ decoded \in [Peers -> Seq(Packets)]
  /\ closed \in BOOLEAN /\ lost \in Nat

\* There are two peers, and each goroutine belongs to one of them.
LEMMA TwoPeers ==
  /\ \A p \in Peers : Other(p) \in Peers /\ Other(p) # p /\ Other(Other(p)) = p
  /\ \A p, q \in Peers : q = p \/ q = Other(p)
  /\ \A g \in Goroutines : PeerOf(g) \in Peers
<1>1. PICK a \in Peers, b \in Peers : a # b /\ Peers = {a, b}
  BY FramesAssumption
<1>2. Other(a) = b /\ Other(b) = a
  BY <1>1 DEF Other
<1>3. \A g \in Goroutines : PeerOf(g) \in Peers
  BY FramesAssumption DEF PeerOf, Goroutines
<1> QED  BY <1>1, <1>2, <1>3

\* A function on 1 .. n is a sequence.
LEMMA FunctionIsSeq ==
  ASSUME NEW S, NEW n \in Nat, NEW f \in [1 .. n -> S]
  PROVE  f \in Seq(S) /\ Len(f) = n /\ DOMAIN f = 1 .. n
<1>1. f \in Seq(S)
  BY SeqDef
<1>2. DOMAIN f = 1 .. n /\ Len(f) \in Nat /\ DOMAIN f = 1 .. Len(f)
  BY <1>1
<1> QED  BY <1>1, <1>2

\* preprocess makes a packet of a packet; it keeps number, id and kind.
LEMMA PreprocessFacts ==
  ASSUME NEW p \in Packets, p.type \in Kinds
  PROVE  /\ preprocess(p) \in Packets
         /\ preprocess(p).num = p.num
         /\ Base(preprocess(p)) = p.type
         /\ preprocess(p).attachments > 0 =>
              preprocess(p).buffer = [k \in 1 .. preprocess(p).attachments |-> <<p.type, p.num, k>>]
<1> DEFINE n == Cardinality(Binaries(p.data))
           d == [i \in DOMAIN p.data |->
                   IF p.data[i] = "bin" THEN "placeholder" ELSE p.data[i]]
           b == IF p.data = <<>> THEN p.buffer
                ELSE [k \in 1 .. n |-> <<p.type, p.num, k>>]
           t == IF n > 0 THEN BinaryOf(p.type) ELSE p.type
<1>1. p.data \in Seq(Items) /\ Len(p.data) \in Nat /\ DOMAIN p.data = 1 .. Len(p.data)
  BY DEF Packets
<1>2. n \in Nat
  <2>1. IsFiniteSet(1 .. Len(p.data))
    <3>1. 1 \in Int /\ Len(p.data) \in Int
      BY <1>1
    <3> QED  BY ONLY <3>1, FS_Interval
  <2>2. Binaries(p.data) \subseteq 1 .. Len(p.data)
    BY <1>1 DEF Binaries
  <2> QED  BY <2>1, <2>2, FS_Subset, FS_CardinalityType
<1>3. d \in Seq(Items)
  <2>1. d \in [1 .. Len(p.data) -> Items]
    BY <1>1 DEF Items
  <2> HIDE DEF d
  <2> QED  BY <1>1, <2>1, FunctionIsSeq
<1> HIDE DEF n
<1>4. b \in Seq(Bytes)
  <2> DEFINE f == [k \in 1 .. n |-> <<p.type, p.num, k>>]
  <2>1. f \in [1 .. n -> Bytes]
    BY <1>2 DEF Packets, Bytes
  <2> HIDE DEF f
  <2>2. f \in Seq(Bytes)
    BY <1>2, <2>1, FunctionIsSeq
  <2>3. p.buffer \in Seq(Bytes)
    BY DEF Packets
  <2> QED  BY <2>2, <2>3 DEF f
<1>5. t \in PacketTypes /\ (t \in {"event", "binevent"} <=> p.type = "event")
  BY DEF Kinds, PacketTypes, BinaryOf
<1>6. preprocess(p) = [p EXCEPT !.type = t, !.attachments = n, !.data = d, !.buffer = b]
  BY DEF preprocess, n
<1> HIDE DEF d, b, t
<1>7. /\ preprocess(p) \in Packets /\ preprocess(p).num = p.num
      /\ preprocess(p).type = t /\ preprocess(p).attachments = n /\ preprocess(p).buffer = b
  BY <1>2, <1>3, <1>4, <1>5, <1>6 DEF Packets
<1>8. n > 0 => b = [k \in 1 .. n |-> <<p.type, p.num, k>>]
  <2> SUFFICES ASSUME n > 0 PROVE p.data # <<>>
    BY DEF b
  <2> SUFFICES ASSUME p.data = <<>> PROVE n = 0
    BY <1>2
  <2>1. Binaries(p.data) = {}
    BY DEF Binaries
  <2> QED  BY <2>1, FS_EmptySet DEF n
<1>9. Base(preprocess(p)) = p.type
  BY <1>5, <1>7 DEF Base, Kinds
<1> QED  BY <1>7, <1>8, <1>9

-----------------------------------------------------------------------------
(* Frames.                                                                 *)

\* A frame that begins a packet, which it names.
IsHead(f) == f.kind \in {"string", "packed"}

\* The frames that Encode makes of a packet: one is a head, which names the packet.
EncodedWell(s, p) ==
  /\ s \in Seq(FrameSet)
  /\ \A i \in DOMAIN s : IsHead(s[i]) => Base(s[i].packet) = p.type /\ s[i].packet.num = p.num
  /\ \A i, j \in DOMAIN s : IsHead(s[i]) /\ IsHead(s[j]) => i = j
  /\ \A i \in DOMAIN s : IsHead(s[i]) /\ s[i].packet.attachments > 0 =>
       /\ i = 1 /\ Len(s) = 1 + s[i].packet.attachments
       /\ \A k \in 1 .. s[i].packet.attachments :
            s[1 + k] = BinaryFrame(<<p.type, p.num, k>>)
  /\ s # <<>> /\ (parser = "default" => IsHead(s[1]))

LEMMA StringFrameFacts ==
  ASSUME NEW q \in Packets
  PROVE  /\ StringFrame(q) \in DefaultFrames /\ IsHead(StringFrame(q))
         /\ StringFrame(q).packet.attachments = q.attachments
         /\ PackedFrame(q).packet.attachments = q.attachments
         /\ Base(StringFrame(q).packet) = Base(q) /\ StringFrame(q).packet.num = q.num
         /\ q.attachments = 0 => PackedFrame(q) \in MsgpackFrames
         /\ IsHead(PackedFrame(q))
         /\ Base(PackedFrame(q).packet) = Base(q) /\ PackedFrame(q).packet.num = q.num
<1>1. PICK b : b = [q EXCEPT !.buffer = <<>>]
  OBVIOUS
<1>2. <<>> \in Seq(Bytes)
  OBVIOUS
<1>3. b \in Packets /\ b.num = q.num /\ b.type = q.type /\ b.buffer = <<>>
      /\ b.attachments = q.attachments
  BY <1>1, <1>2 DEF Packets
<1>4. b \in BarePackets /\ Base(b) = Base(q)
  BY <1>3 DEF BarePackets, Base
<1>5. /\ StringFrame(q) = [kind |-> "string", packet |-> b]
      /\ PackedFrame(q) = [kind |-> "packed", packet |-> b]
  BY <1>1 DEF StringFrame, PackedFrame
<1> QED  BY <1>3, <1>4, <1>5 DEF DefaultFrames, MsgpackFrames, PlainPackets, IsHead

LEMMA EncodeFacts ==
  ASSUME NEW p \in Packets, p.type \in Kinds, parser = "default" \/ p.attachments = 0
  PROVE  EncodedWell(Encode(p), p)
<1>0. Base(p) = p.type
  BY DEF Base, Kinds
<1>1. CASE parser = "default"
  <2> DEFINE q == preprocess(p)
             h == StringFrame(q)
             b == [k \in DOMAIN q.buffer |-> BinaryFrame(q.buffer[k])]
             s == <<h>> \o b
  <2>1. /\ q \in Packets /\ q.num = p.num /\ Base(q) = p.type
        /\ q.attachments > 0 => q.buffer = [k \in 1 .. q.attachments |-> <<p.type, p.num, k>>]
    BY PreprocessFacts
  <2>2. Encode(p) = s
    BY <1>1 DEF Encode, EncodeDefault
  <2> HIDE DEF q
  <2>3. /\ h \in DefaultFrames /\ Base(h.packet) = p.type /\ h.packet.num = p.num
        /\ IsHead(h) /\ h.packet.attachments = q.attachments
    BY <2>1, StringFrameFacts
  <2>4. /\ b \in Seq(DefaultFrames) /\ Len(b) = Len(q.buffer)
        /\ \A k \in DOMAIN b : ~IsHead(b[k])
    <3>1. q.buffer \in Seq(Bytes)
      BY <2>1 DEF Packets
    <3>2. DOMAIN q.buffer = 1 .. Len(q.buffer) /\ Len(q.buffer) \in Nat
          /\ \A k \in DOMAIN q.buffer : q.buffer[k] \in Bytes
      BY <3>1
    <3>3. b \in [1 .. Len(q.buffer) -> DefaultFrames]
      BY <3>2 DEF DefaultFrames, BinaryFrame
    <3>4. \A k \in DOMAIN b : b[k].kind = "binary"
      BY DEF BinaryFrame
    <3> HIDE DEF b
    <3> QED  BY <3>2, <3>3, <3>4, FunctionIsSeq DEF IsHead
  <2>5. q.attachments > 0 =>
          /\ Len(b) = q.attachments
          /\ \A k \in 1 .. q.attachments : b[k] = BinaryFrame(<<p.type, p.num, k>>)
    <3> SUFFICES ASSUME q.attachments > 0
                 PROVE  /\ Len(b) = q.attachments
                        /\ \A k \in 1 .. q.attachments : b[k] = BinaryFrame(<<p.type, p.num, k>>)
      OBVIOUS
    <3>1. q.attachments \in Nat /\ q.buffer \in Seq(Bytes)
      BY <2>1 DEF Packets
    <3>2. DOMAIN q.buffer = 1 .. q.attachments
          /\ \A k \in 1 .. q.attachments : q.buffer[k] = <<p.type, p.num, k>>
      BY <2>1
    <3>3. Len(q.buffer) = q.attachments
      <4>1. DOMAIN q.buffer = 1 .. Len(q.buffer) /\ Len(q.buffer) \in Nat
        BY <3>1
      <4> QED  BY <3>1, <3>2, <4>1
    <3> QED  BY <2>4, <3>2, <3>3
  <2> HIDE DEF h, b
  <2>6. /\ s \in Seq(DefaultFrames) /\ Len(s) = 1 + Len(b) /\ s[1] = h /\ s # <<>>
        /\ \A i \in DOMAIN s : \/ i = 1 /\ s[i] = h
                               \/ i - 1 \in DOMAIN b /\ s[i] = b[i - 1]
        /\ \A k \in 1 .. Len(b) : s[1 + k] = b[k]
    BY <2>3, <2>4
  <2> HIDE DEF s
  <2>7. \A i \in DOMAIN s : IsHead(s[i]) => i = 1 /\ s[i] = h
    BY <2>4, <2>6
  <2>8. FrameSet = DefaultFrames
    BY <1>1 DEF FrameSet
  <2>9. \A i \in DOMAIN s : IsHead(s[i]) /\ s[i].packet.attachments > 0 =>
          /\ i = 1 /\ Len(s) = 1 + s[i].packet.attachments
          /\ \A k \in 1 .. s[i].packet.attachments :
               s[1 + k] = BinaryFrame(<<p.type, p.num, k>>)
    BY <2>3, <2>5, <2>6, <2>7
  <2> QED  BY <2>2, <2>3, <2>6, <2>7, <2>8, <2>9 DEF EncodedWell
<1>2. CASE parser # "default"
  <2> DEFINE h == PackedFrame(p)
             s == <<EmptyFrame, h>>
  <2>1. Encode(p) = s
    BY <1>2 DEF Encode, EncodeMsgpack
  <2>2. /\ h \in MsgpackFrames /\ Base(h.packet) = p.type /\ h.packet.num = p.num
        /\ h.packet.attachments = 0
    BY <1>0, <1>2, StringFrameFacts
  <2>3. EmptyFrame \in MsgpackFrames /\ ~IsHead(EmptyFrame)
    BY DEF MsgpackFrames, IsHead, EmptyFrame
  <2>4. FrameSet = MsgpackFrames
    BY <1>2 DEF FrameSet
  <2> HIDE DEF h
  <2>5. /\ s \in Seq(MsgpackFrames) /\ s # <<>>
        /\ \A i \in DOMAIN s : (i = 1 /\ s[i] = EmptyFrame) \/ (i = 2 /\ s[i] = h)
    BY <2>2, <2>3
  <2> HIDE DEF s
  <2>6. \A i \in DOMAIN s : IsHead(s[i]) => i = 2 /\ s[i] = h
    BY <2>3, <2>5
  <2> QED  BY <1>2, <2>1, <2>2, <2>4, <2>5, <2>6 DEF EncodedWell
<1> QED  BY <1>1, <1>2

-----------------------------------------------------------------------------
(* The decoder.                                                            *)

\* A decoder's packet that waits has room for an attachment.  Msgpack has none.
Waits(last) ==
  /\ last \in Seq(Packets)
  /\ last # <<>> => parser = "default" /\ Len(last[1].buffer) < last[1].attachments

\* The same packet, as the numbers tell.
Same(q, p) == Base(q) = Base(p) /\ q.num = p.num

\* What Add makes of the packet that waits and a frame.  A frame that changes nothing is
\* a head that is refused, or finds no packet that waits.
AddKeeps(last, f, r) ==
  /\ r.last = last /\ r.out = <<>>
  /\ IF IsHead(f) THEN f.kind = "string" /\ ~r.ok ELSE last = <<>>
AddStarts(f, r) ==
  /\ IsHead(f)
  /\ \E q \in Packets : /\ r.last = <<q>> /\ r.out = <<>> /\ Same(q, f.packet)
                        /\ q.attachments = f.packet.attachments /\ q.buffer = <<>>
AddPasses(f, r) ==
  /\ IsHead(f)
  /\ \E q \in Packets : /\ r.last = <<>> /\ r.out = <<q>> /\ Same(q, f.packet)
                        /\ q.attachments = 0 /\ q.buffer = <<>>
AddFills(last, f, r) ==
  /\ ~IsHead(f) /\ last # <<>>
  /\ \E q \in Packets : /\ r.last = <<q>> /\ r.out = <<>> /\ Same(q, last[1])
                        /\ q.attachments = last[1].attachments
                        /\ q.buffer = Append(last[1].buffer, f.bytes)
AddCompletes(last, f, r) ==
  /\ ~IsHead(f) /\ last # <<>>
  /\ \E q \in Packets : /\ r.last = <<>> /\ r.out = <<q>> /\ Same(q, last[1])
                        /\ q.attachments = last[1].attachments
                        /\ q.buffer = Append(last[1].buffer, f.bytes)
                        /\ Len(q.buffer) = q.attachments

\* Every result of Add is one of these, and what waits has room.
LEMMA AddFacts ==
  ASSUME parser \in {"default", "msgpack"}, NEW last, Waits(last), NEW f \in FrameSet
  PROVE  LET r == Add(last, f) IN
         /\ Waits(r.last)
         /\ \/ AddKeeps(last, f, r) \/ AddStarts(f, r) \/ AddPasses(f, r)
            \/ AddFills(last, f, r) \/ AddCompletes(last, f, r)
<1> DEFINE r == Add(last, f)
<1>1. CASE parser = "default" /\ f.kind = "string"
  <2>1. f.packet \in BarePackets /\ IsHead(f)
    BY <1>1 DEF FrameSet, DefaultFrames, IsHead
  <2>2. PICK p \in Packets : p = f.packet /\ p.buffer = <<>>
    BY <2>1 DEF BarePackets
  <2>3. PICK q : q = decode(p)
    OBVIOUS
  <2>4. q \in Packets /\ Same(q, p) /\ q.attachments = p.attachments /\ q.buffer = <<>>
    <3>1. PICK d \in Seq(Items) : d = Selected(p.data, {"name", "json", "bin"})
      <4>1. p.data \in Seq(Items)
        BY DEF Packets
      <4> QED  BY <4>1, SelectedType
    <3>2. q = [p EXCEPT !.data = d]
      BY <2>3, <3>1 DEF decode
    <3> QED  BY <2>2, <3>2 DEF Packets, Same, Base
  <2>5. \/ r = Result(last, <<>>, FALSE)
        \/ p.attachments = 0 /\ r = Result(<<>>, <<q>>, TRUE)
        \/ p.attachments # 0 /\ r = Result(<<q>>, <<>>, TRUE)
    BY <1>1, <2>2, <2>3 DEF Add, AddDefault
  <2>6. CASE r = Result(last, <<>>, FALSE)
    <3>1. r.last = last /\ r.out = <<>> /\ ~r.ok
      BY <2>6 DEF Result
    <3> QED  BY <1>1, <2>1, <3>1 DEF AddKeeps
  <2>7. CASE p.attachments = 0 /\ r = Result(<<>>, <<q>>, TRUE)
    <3>1. r.last = <<>> /\ r.out = <<q>>
      BY <2>7 DEF Result
    <3>2. AddPasses(f, r)
      BY <2>1, <2>2, <2>4, <2>7, <3>1 DEF AddPasses
    <3> QED  BY <3>1, <3>2 DEF Waits
  <2>8. CASE p.attachments # 0 /\ r = Result(<<q>>, <<>>, TRUE)
    <3>1. r.last = <<q>> /\ r.out = <<>>
      BY <2>8 DEF Result
    <3>2. AddStarts(f, r)
      BY <2>1, <2>2, <2>4, <3>1 DEF AddStarts
    <3>3. <<q>> \in Seq(Packets) /\ <<q>>[1] = q /\ Len(<<>>) = 0
      BY <2>4
    <3>4. Len(q.buffer) < q.attachments
      BY <2>4, <2>8, <3>3 DEF Packets
    <3> QED  BY <1>1, <3>1, <3>2, <3>3, <3>4 DEF Waits
  <2> QED  BY <2>5, <2>6, <2>7, <2>8
<1>2. CASE parser = "default" /\ f.kind # "string"
  <2>1. f.bytes \in Bytes /\ ~IsHead(f)
    BY <1>2 DEF FrameSet, DefaultFrames, IsHead
  <2>2. CASE last = <<>>
    <3>1. r.last = last /\ r.out = <<>>
      BY <1>2, <2>2 DEF Add, AddDefault, Result
    <3> QED  BY <2>1, <2>2, <3>1 DEF AddKeeps
  <2>3. CASE last # <<>>
    <3>1. PICK p \in Packets : p = last[1] /\ Len(p.buffer) < p.attachments
      BY <2>3 DEF Waits
    <3>2. PICK b \in Seq(Bytes) : b = Append(p.buffer, f.bytes) /\ Len(b) = Len(p.buffer) + 1
      <4>1. PICK c \in Seq(Bytes), x \in Bytes : c = p.buffer /\ x = f.bytes
        BY <2>1 DEF Packets
      <4>2. Append(c, x) \in Seq(Bytes) /\ Len(Append(c, x)) = Len(c) + 1
        OBVIOUS
      <4> QED  BY <4>1, <4>2
    <3>3. PICK q : q = [p EXCEPT !.buffer = b]
      OBVIOUS
    <3>4. q \in Packets /\ Same(q, p) /\ q.attachments = p.attachments /\ q.buffer = b
      BY <3>3 DEF Packets, Same, Base
    <3>5. q = [last[1] EXCEPT !.buffer = Append(@, f.bytes)]
      BY <3>1, <3>2, <3>3
    <3>6. \/ Len(b) = p.attachments /\ r = Result(<<>>, <<q>>, TRUE)
          \/ Len(b) # p.attachments /\ r = Result(<<q>>, <<>>, TRUE)
      BY <1>2, <2>3, <3>4, <3>5 DEF Add, AddDefault
    <3>7. CASE Len(b) = p.attachments /\ r = Result(<<>>, <<q>>, TRUE)
      <4>1. r.last = <<>> /\ r.out = <<q>>
        BY <3>7 DEF Result
      <4>2. AddCompletes(last, f, r)
        BY <2>1, <2>3, <3>1, <3>2, <3>4, <3>7, <4>1 DEF AddCompletes
      <4> QED  BY <4>1, <4>2 DEF Waits
    <3>8. CASE Len(b) # p.attachments /\ r = Result(<<q>>, <<>>, TRUE)
      <4>1. r.last = <<q>> /\ r.out = <<>>
        BY <3>8 DEF Result
      <4>2. AddFills(last, f, r)
        BY <2>1, <2>3, <3>1, <3>2, <3>4, <4>1 DEF AddFills
      <4>3. <<q>> \in Seq(Packets) /\ <<q>>[1] = q
        BY <3>4
      <4>4. Len(q.buffer) < q.attachments
        <5>1. Len(p.buffer) \in Nat /\ p.attachments \in Nat
          BY DEF Packets
        <5> QED  BY <3>1, <3>2, <3>4, <3>8, <5>1
      <4> QED  BY <1>2, <4>1, <4>2, <4>3, <4>4 DEF Waits
    <3> QED  BY <3>6, <3>7, <3>8
  <2> QED  BY <2>2, <2>3
<1>3. CASE parser = "msgpack"
  <2>1. last = <<>>
    BY <1>3 DEF Waits
  <2>2. CASE f.kind = "packed"
    <3>1. /\ f.packet \in Packets /\ IsHead(f)
          /\ f.packet.attachments = 0 /\ f.packet.buffer = <<>>
      BY <1>3, <2>2 DEF FrameSet, MsgpackFrames, PlainPackets, BarePackets, EmptyFrame, IsHead
    <3>2. r.last = <<>> /\ r.out = <<f.packet>>
      BY <1>3, <2>1, <2>2 DEF Add, AddMsgpack, Result
    <3>3. AddPasses(f, r)
      BY <3>1, <3>2 DEF AddPasses, Same
    <3> QED  BY <3>2, <3>3 DEF Waits
  <2>3. CASE f.kind # "packed"
    <3>1. r.last = last /\ r.out = <<>>
      BY <1>3, <2>3 DEF Add, AddMsgpack, Result
    <3>2. ~IsHead(f)
      BY <1>3, <2>3 DEF FrameSet, MsgpackFrames, EmptyFrame, IsHead
    <3> QED  BY <2>1, <3>1, <3>2 DEF AddKeeps
  <2> QED  BY <2>2, <2>3
<1> QED  BY <1>1, <1>2, <1>3

-----------------------------------------------------------------------------
(* Steps.                                                                  *)

\* The types, and room in what waits.
FramesInv == FramesTypeOK /\ \A p \in Peers : Waits(lastp[p])

\* emit begins an event with the next number.
EmitStep(g, p) ==
  /\ p \in Packets /\ p.type = "event" /\ p.num = nev + 1 /\ p.attachments = 0
  /\ nev' = nev + 1
  /\ outq[g] = <<>> /\ outq' = [outq EXCEPT ![g] = Encode(p)]
  /\ begun' = [begun EXCEPT ![PeerOf(g)] = Append(@, <<"event", nev + 1>>)]
  /\ UNCHANGED <<parser, wire, lastp, decoded, closed, lost, refused>>

\* A frame goes on its way.
SubmitStep(g) ==
  /\ outq[g] # <<>>
  /\ outq' = [outq EXCEPT ![g] = Tail(@)]
  /\ wire' = [wire EXCEPT ![Other(PeerOf(g))] = Append(@, Head(outq[g]))]
  /\ ~closed
  /\ UNCHANGED <<parser, lastp, nev, begun, decoded, closed, lost, refused>>

\* Frames that are not sent.
DropStep(g) ==
  /\ outq[g] # <<>>
  /\ \/ ~closed /\ lost < MaxLoss /\ lost' = lost + 1 /\ outq' = [outq EXCEPT ![g] = Tail(@)]
     \/ closed /\ lost' = lost /\ outq' = [outq EXCEPT ![g] = <<>>]
  /\ UNCHANGED <<parser, wire, lastp, nev, begun, decoded, closed, refused>>

\* A frame is received; the reply a to the packet q, if there is one.
ReceiveStep(p, f, r) ==
  /\ wire[p] # <<>> /\ f = Head(wire[p]) /\ r = Add(lastp[p], f)
  /\ wire' = [wire EXCEPT ![p] = Tail(@)]
  /\ lastp' = [lastp EXCEPT ![p] = r.last]
  /\ decoded' = [decoded EXCEPT ![p] = @ \o r.out]
  /\ refused' = IF r.ok THEN refused ELSE refused \cup {f}
  /\ UNCHANGED <<parser, nev, closed, lost>>
ReplyStep(p, q, a) ==
  /\ a \in Packets /\ a.type = "ack" /\ a.num = q.num /\ Base(q) = "event"
  /\ parser = "default" \/ a.attachments = 0
  /\ outq[p] = <<>> /\ outq' = [outq EXCEPT ![p] = Encode(a)]
  /\ begun' = [begun EXCEPT ![p] = Append(@, <<"ack", q.num>>)]

\* Items of argument lists are items.
LEMMA ListsOfItems ==
  ASSUME NEW v \in Seq({"json", "bin"})
  PROVE  v \in Seq(Items) /\ <<"name">> \o v \in Seq(Items)
<1>1. {"json", "bin"} \subseteq Items /\ <<"name">> \in Seq(Items)
  BY DEF Items
<1>2. v \in Seq(Items)
  <2>1. v \in [1 .. Len(v) -> {"json", "bin"}] /\ Len(v) \in Nat
    OBVIOUS
  <2>2. v \in [1 .. Len(v) -> Items]
    BY <1>1, <2>1
  <2> QED  BY <2>1, <2>2, FunctionIsSeq
<1> HIDE DEF Items
<1> QED  BY <1>1, <1>2, ConcatProperties

\* A frame is received, and a reply is sent or not.
LEMMA ReceiveIsStep ==
  ASSUME FramesInv, NEW p \in Peers, Receive(p)
  PROVE  \E f \in FrameSet : \E r :
           /\ ReceiveStep(p, f, r)
           /\ \/ UNCHANGED <<outq, begun>>
              \/ \E q, a \in Packets : r.out = <<q>> /\ ReplyStep(p, q, a)
<1>1. PICK f \in FrameSet : f = Head(wire[p])
  BY DEF Receive, FramesInv, FramesTypeOK
<1>2. PICK r : r = Add(lastp[p], f)
  OBVIOUS
<1>3. /\ ReceiveStep(p, f, r)
      /\ outq[p] = <<>>
      /\ IF r.out = <<>> THEN UNCHANGED <<outq, begun, mute, calls, fired>>
                         ELSE processEvent(p, r.out[1]) \/ processAck(r.out[1])
  BY <1>1, <1>2 DEF Receive, ReceiveStep
<1>4. CASE r.out # <<>> /\ processEvent(p, r.out[1]) /\ ~UNCHANGED <<outq, begun>>
  <2>1. PICK q \in Packets : r.out = <<q>>
    <3>1. \/ AddKeeps(lastp[p], f, r) \/ AddStarts(f, r) \/ AddPasses(f, r)
          \/ AddFills(lastp[p], f, r) \/ AddCompletes(lastp[p], f, r)
      BY <1>2, AddFacts DEF FramesInv, FramesTypeOK
    <3> QED  BY <1>4, <3>1 DEF AddKeeps, AddStarts, AddPasses, AddFills, AddCompletes
  <2>a. <<q>>[1] = q
    OBVIOUS
  <2>b. r.out[1] = q
    BY <2>1, <2>a, Zenon
  <2>2. q.type \in {"event", "binevent"} /\ r.out[1] = q
    BY <1>4, <2>b DEF processEvent
  <2>3. PICK v \in Replies : Begin(p, [q EXCEPT !.type = "ack", !.data = v])
    BY <1>4, <2>2 DEF processEvent
  <2>4. PICK d \in Seq(Items) : d = v
    BY FramesAssumption, ListsOfItems
  <2>5. PICK a : a = [q EXCEPT !.type = "ack", !.data = d]
    OBVIOUS
  <2>6. a \in Packets /\ a.type = "ack" /\ a.num = q.num /\ a.attachments = q.attachments
    BY <2>5 DEF Packets, PacketTypes
  <2>7. Begin(p, a) /\ PeerOf(p) = p
    BY <2>3, <2>4, <2>5 DEF PeerOf
  <2>c. parser = "default" \/ q.attachments = 0
    <3>1. CASE parser = "msgpack"
      <4>1. f.kind = "packed" /\ r.out = <<f.packet>>
        BY <1>2, <1>4, <3>1 DEF Add, AddMsgpack, Result
      <4>2. f.packet.attachments = 0
        BY <3>1, <4>1 DEF FrameSet, MsgpackFrames, PlainPackets, EmptyFrame
      <4>3. <<f.packet>>[1] = f.packet
        OBVIOUS
      <4> QED  BY <2>b, <4>1, <4>2, <4>3
    <3> QED  BY <3>1 DEF FramesInv, FramesTypeOK
  <2>8. ReplyStep(p, q, a)
    BY <1>3, <2>2, <2>6, <2>7, <2>c DEF ReplyStep, Begin, Base
  <2> QED  BY <1>3, <2>1, <2>6, <2>8
<1>5. UNCHANGED <<outq, begun>> \/ (r.out # <<>> /\ processEvent(p, r.out[1]))
  BY <1>3 DEF processAck
<1> QED  BY <1>3, <1>4, <1>5

\* Every step is one of these.
LEMMA StepsOfFrames ==
  ASSUME FramesInv, [Next]_vars
  PROVE  \/ \E g \in Senders : \E p : EmitStep(g, p)
         \/ \E g \in Goroutines : SubmitStep(g) \/ DropStep(g)
         \/ \E p \in Peers : \E f \in FrameSet : \E r :
              /\ ReceiveStep(p, f, r)
              /\ \/ UNCHANGED <<outq, begun>>
                 \/ \E q, a \in Packets : r.out = <<q>> /\ ReplyStep(p, q, a)
         \/ /\ UNCHANGED <<parser, outq, wire, lastp, nev, begun, decoded, lost, refused>>
            /\ closed' \in {closed, TRUE}
<1>1. CASE UNCHANGED vars \/ Close
  BY <1>1 DEF vars, Close
<1>2. ASSUME NEW g \in Senders, Emit(g) PROVE \E p : EmitStep(g, p)
  <2>1. PICK list \in ArgLists, id \in {0, nev'} :
          Begin(g, [type |-> "event", num |-> nev', id |-> id, data |-> <<"name">> \o list,
                    attachments |-> 0, buffer |-> <<>>])
    BY <1>2 DEF Emit
  <2>2. PICK d \in Seq(Items) : d = <<"name">> \o list
    BY FramesAssumption, ListsOfItems
  <2>3. nev \in Nat /\ nev' = nev + 1 /\ id \in Nat
    BY <1>2 DEF Emit, FramesInv, FramesTypeOK
  <2> DEFINE p == [type |-> "event", num |-> nev + 1, id |-> id, data |-> d,
                   attachments |-> 0, buffer |-> <<>>]
  <2>4. p \in Packets /\ p.type = "event" /\ p.num = nev + 1 /\ p.attachments = 0
    BY <2>3 DEF Packets, PacketTypes
  <2>5. Begin(g, p)
    BY <2>1, <2>2, <2>3
  <2> HIDE DEF p
  <2>6. EmitStep(g, p)
    BY <1>2, <2>3, <2>4, <2>5 DEF EmitStep, Begin, Emit
  <2> QED  BY <2>6
<1>3. ASSUME NEW g \in Goroutines, Submit(g) \/ SubmitLost(g) \/ SubmitFail(g)
      PROVE  SubmitStep(g) \/ DropStep(g)
  BY <1>3 DEF Submit, SubmitLost, SubmitFail, SubmitStep, DropStep
<1>4. ASSUME NEW p \in Peers, Receive(p)
      PROVE  \E f \in FrameSet : \E r :
               /\ ReceiveStep(p, f, r)
               /\ \/ UNCHANGED <<outq, begun>>
                  \/ \E q, a \in Packets : r.out = <<q>> /\ ReplyStep(p, q, a)
  BY <1>4, ReceiveIsStep
<1> QED  BY <1>1, <1>2, <1>3, <1>4 DEF Next

\* The types and the room are kept.
LEMMA FramesInvStep == FramesInv /\ [Next]_vars => FramesInv'
<1> SUFFICES ASSUME FramesInv, [Next]_vars PROVE FramesInv'
  OBVIOUS
<1>0. /\ parser \in {"default", "msgpack"} /\ nev \in Nat
      /\ outq \in [Goroutines -> Seq(FrameSet)] /\ wire \in [Peers -> Seq(FrameSet)]
      /\ lastp \in [Peers -> Seq(Packets)] /\ decoded \in [Peers -> Seq(Packets)]
      /\ begun \in [Peers -> Seq(Kinds \X Nat)]
      /\ \A p \in Peers : Waits(lastp[p])
      /\ closed \in BOOLEAN /\ lost \in Nat
  BY DEF FramesInv, FramesTypeOK
<1>k. PICK K : K = Kinds \X Nat
  OBVIOUS
<1>p. ASSUME parser' = parser PROVE FrameSet' = FrameSet /\ \A s : Waits(s)' = Waits(s)
  BY <1>p DEF FrameSet, Waits
<1>1. ASSUME NEW g \in Senders, NEW p, EmitStep(g, p) PROVE FramesInv'
  <2>1. Encode(p) \in Seq(FrameSet)
    BY <1>1, EncodeFacts DEF EmitStep, EncodedWell, Kinds
  <2>2. <<"event", nev + 1>> \in K /\ g \in Goroutines /\ PeerOf(g) \in Peers
    BY <1>0, <1>k, TwoPeers DEF Kinds, Goroutines
  <2>3. /\ outq' = [outq EXCEPT ![g] = Encode(p)] /\ nev' = nev + 1
        /\ begun' = [begun EXCEPT ![PeerOf(g)] = Append(@, <<"event", nev + 1>>)]
        /\ UNCHANGED <<parser, wire, lastp, decoded, closed, lost>>
    BY <1>1 DEF EmitStep
  <2>4. outq' \in [Goroutines -> Seq(FrameSet)] /\ nev' \in Nat
    BY <1>0, <2>1, <2>2, <2>3
  <2>5. begun' \in [Peers -> Seq(K)]
    BY <1>0, <1>k, <2>2, <2>3
  <2> QED  BY <1>0, <1>k, <1>p, <2>3, <2>4, <2>5 DEF FramesInv, FramesTypeOK
<1>2. ASSUME NEW g \in Goroutines, SubmitStep(g) PROVE FramesInv'
  <2>1. /\ outq' = [outq EXCEPT ![g] = Tail(@)] /\ outq[g] # <<>>
        /\ wire' = [wire EXCEPT ![Other(PeerOf(g))] = Append(@, Head(outq[g]))]
        /\ UNCHANGED <<parser, lastp, nev, begun, decoded, closed, lost>>
    BY <1>2 DEF SubmitStep
  <2>2. Other(PeerOf(g)) \in Peers
    BY TwoPeers
  <2>3. Tail(outq[g]) \in Seq(FrameSet) /\ Head(outq[g]) \in FrameSet
    BY <1>0, <2>1
  <2>4. outq' \in [Goroutines -> Seq(FrameSet)] /\ wire' \in [Peers -> Seq(FrameSet)]
    BY <1>0, <2>1, <2>2, <2>3
  <2> QED  BY <1>0, <1>p, <2>1, <2>4 DEF FramesInv, FramesTypeOK
<1>3. ASSUME NEW g \in Goroutines, DropStep(g) PROVE FramesInv'
  <2>1. /\ outq[g] # <<>>
        /\ outq' = [outq EXCEPT ![g] = Tail(@)] \/ outq' = [outq EXCEPT ![g] = <<>>]
        /\ UNCHANGED <<parser, wire, lastp, nev, begun, decoded, closed>>
        /\ lost' \in {lost, lost + 1}
    BY <1>3 DEF DropStep
  <2>2. Tail(outq[g]) \in Seq(FrameSet) /\ <<>> \in Seq(FrameSet)
    BY <1>0, <2>1
  <2>3. outq' \in [Goroutines -> Seq(FrameSet)]
    BY <1>0, <2>1, <2>2
  <2> QED  BY <1>0, <1>p, <2>1, <2>3 DEF FramesInv, FramesTypeOK
<1>4. ASSUME NEW p \in Peers, NEW f \in FrameSet, NEW r, ReceiveStep(p, f, r),
             \/ UNCHANGED <<outq, begun>>
             \/ \E q, a \in Packets : r.out = <<q>> /\ ReplyStep(p, q, a)
      PROVE  FramesInv'
  <2>1. /\ wire[p] # <<>> /\ r = Add(lastp[p], f)
        /\ wire' = [wire EXCEPT ![p] = Tail(@)]
        /\ lastp' = [lastp EXCEPT ![p] = r.last]
        /\ decoded' = [decoded EXCEPT ![p] = @ \o r.out]
        /\ UNCHANGED <<parser, nev, closed, lost>>
    BY <1>4 DEF ReceiveStep
  <2>2. /\ Waits(r.last)
        /\ \/ AddKeeps(lastp[p], f, r) \/ AddStarts(f, r) \/ AddPasses(f, r)
           \/ AddFills(lastp[p], f, r) \/ AddCompletes(lastp[p], f, r)
    BY <1>0, <2>1, AddFacts
  <2>3. r.last \in Seq(Packets) /\ r.out \in Seq(Packets)
    <3>1. <<>> \in Seq(Packets) /\ \A q \in Packets : <<q>> \in Seq(Packets)
      OBVIOUS
    <3>2. r.out = <<>> \/ \E q \in Packets : r.out = <<q>>
      BY <2>2, Zenon DEF AddKeeps, AddStarts, AddPasses, AddFills, AddCompletes
    <3>3. r.last \in Seq(Packets)
      BY <2>2 DEF Waits
    <3> QED  BY <3>1, <3>2, <3>3, Zenon
  <2>4. Tail(wire[p]) \in Seq(FrameSet) /\ decoded[p] \o r.out \in Seq(Packets)
    BY <1>0, <2>1, <2>3
  <2>5. /\ wire' \in [Peers -> Seq(FrameSet)] /\ lastp' \in [Peers -> Seq(Packets)]
        /\ decoded' \in [Peers -> Seq(Packets)]
    BY <1>0, <2>1, <2>3, <2>4
  <2>6. \A s \in Peers : Waits(lastp'[s])
    BY <1>0, <2>1, <2>2
  <2>7. outq' \in [Goroutines -> Seq(FrameSet)] /\ begun' \in [Peers -> Seq(K)]
    <3>1. CASE UNCHANGED <<outq, begun>>
      BY <1>0, <1>k, <3>1
    <3>2. ASSUME NEW q \in Packets, NEW a \in Packets, ReplyStep(p, q, a)
          PROVE  outq' \in [Goroutines -> Seq(FrameSet)] /\ begun' \in [Peers -> Seq(K)]
      <4>1. Encode(a) \in Seq(FrameSet)
        BY <3>2, EncodeFacts DEF ReplyStep, EncodedWell, Kinds
      <4>2. <<"ack", q.num>> \in K /\ p \in Goroutines
        BY <1>k DEF Packets, Kinds, Goroutines
      <4>3. /\ outq' = [outq EXCEPT ![p] = Encode(a)]
            /\ begun' = [begun EXCEPT ![p] = Append(@, <<"ack", q.num>>)]
        BY <3>2 DEF ReplyStep
      <4>4. outq' \in [Goroutines -> Seq(FrameSet)]
        BY <1>0, <4>1, <4>2, <4>3
      <4>5. begun' \in [Peers -> Seq(K)]
        BY <1>0, <1>k, <4>2, <4>3
      <4> QED  BY <4>4, <4>5
    <3> QED  BY <1>4, <3>1, <3>2
  <2> QED  BY <1>0, <1>k, <1>p, <2>1, <2>5, <2>6, <2>7 DEF FramesInv, FramesTypeOK
<1>5. CASE /\ UNCHANGED <<parser, outq, wire, lastp, nev, begun, decoded, lost, refused>>
           /\ closed' \in {closed, TRUE}
  BY <1>0, <1>p, <1>5 DEF FramesInv, FramesTypeOK
<1> QED  BY <1>1, <1>2, <1>3, <1>4, <1>5, StepsOfFrames

\* Initially nothing is anywhere.
LEMMA FramesInvInit == Init => FramesInv
<1> SUFFICES ASSUME Init PROVE FramesInv
  OBVIOUS
<1>1. <<>> \in Seq(FrameSet) /\ <<>> \in Seq(Packets) /\ <<>> \in Seq(Kinds \X Nat)
  OBVIOUS
<1>2. FramesTypeOK
  BY <1>1, FramesAssumption DEF Init, FramesTypeOK
<1>3. \A p \in Peers : Waits(lastp[p])
  BY <1>1 DEF Init, Waits
<1> QED  BY <1>2, <1>3 DEF FramesInv

THEOREM FramesTypeCorrect == Spec => []FramesInv
  BY FramesInvInit, FramesInvStep, PTL DEF Spec

\* Add always finds room for the attachment that it stores: the index that it writes
\* to is in the buffer of the packet that waits, whatever frames are lost and however
\* the goroutines of a peer interleave (parser_default.go:175-177).
THEOREM AttachmentsHaveRoom == Spec => []RoomForAttachment
<1>1. FramesInv => RoomForAttachment
  BY DEF FramesInv, Waits, RoomForAttachment
<1> QED  BY <1>1, FramesTypeCorrect, PTL

-----------------------------------------------------------------------------
(* The stream to a peer: D what it has decoded, L what waits, W the frames *)
(* on the wire, O the frames that the sender has still to Emit, and B the  *)
(* packets that the sender began, in order.                                *)

Begun(q, B) == <<Base(q), q.num>> \in Range(B)

\* All of them were begun by the sender, and their numbers grow along the stream.
StreamInv(D, L, W, O, B) ==
  /\ \A i \in DOMAIN D : Begun(D[i], B)
  /\ L # <<>> => Begun(L[1], B)
  /\ \A i \in DOMAIN W : IsHead(W[i]) => Begun(W[i].packet, B)
  /\ \A i \in DOMAIN O : IsHead(O[i]) => Begun(O[i].packet, B)
  /\ \A i, j \in DOMAIN D : i < j => D[i].num < D[j].num
  /\ L # <<>> => \A i \in DOMAIN D : D[i].num < L[1].num
  /\ \A i \in DOMAIN D, j \in DOMAIN W : IsHead(W[j]) => D[i].num < W[j].packet.num
  /\ \A i \in DOMAIN D, j \in DOMAIN O : IsHead(O[j]) => D[i].num < O[j].packet.num
  /\ L # <<>> => \A j \in DOMAIN W : IsHead(W[j]) => L[1].num < W[j].packet.num
  /\ L # <<>> => \A j \in DOMAIN O : IsHead(O[j]) => L[1].num < O[j].packet.num
  /\ \A i, j \in DOMAIN W : i < j /\ IsHead(W[i]) /\ IsHead(W[j]) =>
       W[i].packet.num < W[j].packet.num
  /\ \A i \in DOMAIN W, j \in DOMAIN O : IsHead(W[i]) /\ IsHead(O[j]) =>
       W[i].packet.num < O[j].packet.num
  /\ \A i, j \in DOMAIN O : IsHead(O[i]) /\ IsHead(O[j]) => i = j

\* The goroutine that sends for the peer p when c is the one sender, and the kind of
\* packet that it sends.
Source(c, p) == IF p = Home[c] THEN c ELSE p
KindOf(c, p) == IF p = Home[c] THEN "event" ELSE "ack"

\* What a peer began is of its kind and sorted by number.
SortedInv(c) ==
  \A p \in Peers :
    /\ \A i \in DOMAIN begun[p] : begun[p][i][1] = KindOf(c, p)
    /\ \A i, j \in DOMAIN begun[p] : i < j => begun[p][i][2] < begun[p][j][2]

\* Events have the numbers so far, and acknowledgements those of decoded events; the
\* reader of the peer that sends events has nothing to send.
NumberInv(c) ==
  /\ \A i \in DOMAIN begun[Home[c]] : begun[Home[c]][i][2] <= nev
  /\ \A p \in Peers \ {Home[c]} : \A i \in DOMAIN begun[p] :
       \E k \in DOMAIN decoded[p] : decoded[p][k].num = begun[p][i][2]
  /\ outq[Home[c]] = <<>>

\* The streams of both directions.
OrderInv(c) ==
  /\ \A p \in Peers :
       StreamInv(decoded[p], lastp[p], wire[p], outq[Source(c, Other(p))], begun[Other(p)])
  /\ SortedInv(c)
  /\ NumberInv(c)

LEMMA Shorter ==
  ASSUME NEW F, NEW s \in Seq(F), s # <<>>
  PROVE  /\ Head(s) = s[1] /\ 1 \in DOMAIN s /\ Tail(s) \in Seq(F)
         /\ \A i \in DOMAIN Tail(s) : /\ i + 1 \in DOMAIN s /\ Tail(s)[i] = s[i + 1]
                                      /\ i \in Nat /\ 1 < i + 1 /\ 1 # i + 1
  OBVIOUS

LEMMA Longer ==
  ASSUME NEW F, NEW s \in Seq(F), NEW e
  PROVE  \A i \in DOMAIN Append(s, e) :
           \/ i \in DOMAIN s /\ Append(s, e)[i] = s[i]
           \/ /\ i = Len(s) + 1 /\ Append(s, e)[i] = e
              /\ \A j \in DOMAIN Append(s, e) : j <= i /\ (j < i => j \in DOMAIN s)
  OBVIOUS

LEMMA StreamTail ==
  ASSUME NEW D, NEW L, NEW W, NEW F, NEW O \in Seq(F), NEW B,
         StreamInv(D, L, W, O, B)
  PROVE  /\ StreamInv(D, L, W, <<>>, B)
         /\ O # <<>> => StreamInv(D, L, W, Tail(O), B)
<1>1. StreamInv(D, L, W, <<>>, B)
  <2>1. DOMAIN <<>> = {}
    OBVIOUS
  <2> QED  BY <2>1 DEF StreamInv
<1>2. ASSUME O # <<>> PROVE StreamInv(D, L, W, Tail(O), B)
  <2>1. PICK T : T = Tail(O)
    OBVIOUS
  <2>2. \A i \in DOMAIN T : i + 1 \in DOMAIN O /\ T[i] = O[i + 1] /\ i \in Nat
    BY <1>2, <2>1, Shorter
  <2>3. \A i, j \in DOMAIN T : i + 1 = j + 1 => i = j
    BY <2>2
  <2>4. StreamInv(D, L, W, T, B)
    BY <2>2, <2>3 DEF StreamInv
  <2> QED  BY <2>1, <2>4
<1> QED  BY <1>1, <1>2

LEMMA StreamSubmit ==
  ASSUME NEW D, NEW L, NEW F, NEW W \in Seq(F), NEW O \in Seq(F), NEW B, O # <<>>,
         StreamInv(D, L, W, O, B)
  PROVE  StreamInv(D, L, Append(W, Head(O)), Tail(O), B)
<1>1. PICK T : T = Tail(O)
  OBVIOUS
<1>2. \A i \in DOMAIN T : i + 1 \in DOMAIN O /\ T[i] = O[i + 1] /\ i \in Nat /\ 1 # i + 1
  BY <1>1, Shorter
<1>3. PICK f : f = Head(O) /\ f = O[1] /\ 1 \in DOMAIN O
  BY Shorter
<1>4. PICK V : V = Append(W, f)
  OBVIOUS
<1>5. \A i \in DOMAIN V : \/ i \in DOMAIN W /\ V[i] = W[i]
                          \/ /\ i = Len(W) + 1 /\ V[i] = f
                             /\ \A j \in DOMAIN V : j <= i /\ (j < i => j \in DOMAIN W)
  BY <1>4, Longer
<1>6. \A i, j \in DOMAIN T : i + 1 = j + 1 => i = j
  BY <1>2
<1>7. \A i \in DOMAIN T : IsHead(T[i]) => ~IsHead(f)
  BY <1>2, <1>3 DEF StreamInv
<1>8. \A i, j \in DOMAIN V : i < j /\ IsHead(V[i]) /\ IsHead(V[j]) =>
        V[i].packet.num < V[j].packet.num
  <2> SUFFICES ASSUME NEW i \in DOMAIN V, NEW j \in DOMAIN V, i < j, IsHead(V[i]), IsHead(V[j])
               PROVE  V[i].packet.num < V[j].packet.num
    OBVIOUS
  <2>0. i \in Nat /\ j \in Nat
    BY <1>4
  <2>1. i \in DOMAIN W /\ V[i] = W[i]
    BY <1>5, <2>0
  <2> QED  BY <1>3, <1>5, <2>1 DEF StreamInv
<1>9. /\ \A i \in DOMAIN V : IsHead(V[i]) => Begun(V[i].packet, B)
      /\ \A i \in DOMAIN D, j \in DOMAIN V : IsHead(V[j]) => D[i].num < V[j].packet.num
      /\ L # <<>> => \A j \in DOMAIN V : IsHead(V[j]) => L[1].num < V[j].packet.num
  BY <1>3, <1>5 DEF StreamInv
<1>10. \A i \in DOMAIN V, j \in DOMAIN T : IsHead(V[i]) /\ IsHead(T[j]) =>
         V[i].packet.num < T[j].packet.num
  BY <1>2, <1>5, <1>7 DEF StreamInv
<1>11. StreamInv(D, L, V, T, B)
  BY <1>2, <1>6, <1>8, <1>9, <1>10 DEF StreamInv
<1> QED  BY <1>1, <1>3, <1>4, <1>11

LEMMA StreamBegin ==
  ASSUME NEW D, NEW L, NEW W, NEW O, NEW K, NEW B \in Seq(K), NEW p, NEW n, NEW x,
         x = <<p.type, n>>, p.num = n, EncodedWell(O, p),
         \A i \in DOMAIN B : B[i][2] < n,
         StreamInv(D, L, W, <<>>, B)
  PROVE  StreamInv(D, L, W, O, Append(B, x))
<1>1. PICK C : C = Append(B, x)
  OBVIOUS
<1>2. x \in Range(C) /\ \A y : y \in Range(B) => y \in Range(C)
  <2>1. /\ Len(B) + 1 \in DOMAIN C /\ C[Len(B) + 1] = x
        /\ \A i \in DOMAIN B : i \in DOMAIN C /\ C[i] = B[i]
    BY <1>1
  <2> QED  BY <2>1 DEF Range
<1>3. \A q : Begun(q, B) => Begun(q, C) /\ q.num < n
  <2> SUFFICES ASSUME NEW q, Begun(q, B) PROVE Begun(q, C) /\ q.num < n
    OBVIOUS
  <2>1. PICK i \in DOMAIN B : B[i] = <<Base(q), q.num>>
    BY DEF Begun, Range
  <2>2. B[i][2] = q.num
    BY <2>1
  <2> QED  BY <1>2, <2>2 DEF Begun
<1>4. \A i \in DOMAIN O : IsHead(O[i]) => O[i].packet.num = n /\ Begun(O[i].packet, C)
  BY <1>2 DEF EncodedWell, Begun
<1>5. \A i, j \in DOMAIN O : IsHead(O[i]) /\ IsHead(O[j]) => i = j
  BY DEF EncodedWell
<1>6. StreamInv(D, L, W, O, C)
  BY <1>3, <1>4, <1>5 DEF StreamInv
<1> QED  BY <1>1, <1>6

LEMMA StreamReceive ==
  ASSUME NEW D \in Seq(Packets), NEW L, NEW F, NEW W \in Seq(F), NEW O, NEW B, W # <<>>,
         NEW f, f = Head(W), NEW r,
         \/ AddKeeps(L, f, r) \/ AddStarts(f, r) \/ AddPasses(f, r)
         \/ AddFills(L, f, r) \/ AddCompletes(L, f, r),
         StreamInv(D, L, W, O, B)
  PROVE  StreamInv(D \o r.out, r.last, Tail(W), O, B)
<1>1. PICK T : T = Tail(W)
  OBVIOUS
<1>2. f = W[1] /\ 1 \in DOMAIN W
      /\ \A i \in DOMAIN T : i + 1 \in DOMAIN W /\ T[i] = W[i + 1] /\ i \in Nat /\ 1 < i + 1
  BY <1>1, Shorter
<1>3. \A i, j \in DOMAIN T : i < j => i + 1 < j + 1
  BY <1>2
<1>4. StreamInv(D, L, T, O, B)
  BY <1>2, <1>3 DEF StreamInv
<1> DEFINE Fits(q) ==
      /\ Begun(q, B)
      /\ \A i \in DOMAIN D : D[i].num < q.num
      /\ \A j \in DOMAIN T : IsHead(T[j]) => q.num < T[j].packet.num
      /\ \A j \in DOMAIN O : IsHead(O[j]) => q.num < O[j].packet.num
<1>5. ASSUME NEW q, IsHead(f), Same(q, f.packet) PROVE Fits(q)
  BY <1>2, <1>5 DEF StreamInv, Same, Begun
<1>6. ASSUME NEW q, L # <<>>, Same(q, L[1]) PROVE Fits(q)
  BY <1>4, <1>6 DEF StreamInv, Same, Begun
<1>7. ASSUME NEW q \in Packets, Fits(q) PROVE StreamInv(D, <<q>>, T, O, B)
  <2>1. <<q>>[1] = q
    OBVIOUS
  <2>2. PICK M : M = <<q>> /\ M[1] = q
    BY <2>1
  <2>3. StreamInv(D, M, T, O, B)
    BY <1>4, <1>7, <2>2 DEF StreamInv
  <2> QED  BY <2>2, <2>3
<1>8. ASSUME NEW q \in Packets, Fits(q) PROVE StreamInv(D \o <<q>>, <<>>, T, O, B)
  <2>1. PICK E : E = D \o <<q>>
    OBVIOUS
  <2>2. /\ \A i \in DOMAIN E : (i \in DOMAIN D /\ E[i] = D[i]) \/ (i = Len(D) + 1 /\ E[i] = q)
        /\ \A i, j \in DOMAIN E : i < j => i \in DOMAIN D /\ E[i] = D[i]
    BY <2>1
  <2>3. \A i, j \in DOMAIN E : i < j => E[i].num < E[j].num
    BY <1>4, <1>8, <2>2 DEF StreamInv
  <2>4. StreamInv(E, <<>>, T, O, B)
    BY <1>4, <1>8, <2>2, <2>3 DEF StreamInv
  <2> QED  BY <2>1, <2>4
<1> HIDE DEF Fits
<1>9. CASE AddKeeps(L, f, r)
  <2>1. D \o <<>> = D
    BY ConcatEmptySeq
  <2> QED  BY <1>1, <1>4, <1>9, <2>1 DEF AddKeeps
<1>10. ASSUME NEW q \in Packets, r.last = <<q>>, r.out = <<>>, Fits(q)
       PROVE  StreamInv(D \o r.out, r.last, Tail(W), O, B)
  <2>1. D \o <<>> = D
    BY ConcatEmptySeq
  <2> QED  BY <1>1, <1>7, <1>10, <2>1
<1>11. ASSUME NEW q \in Packets, r.last = <<>>, r.out = <<q>>, Fits(q)
       PROVE  StreamInv(D \o r.out, r.last, Tail(W), O, B)
  BY <1>1, <1>8, <1>11
<1>12. CASE AddStarts(f, r) \/ AddFills(L, f, r)
  BY <1>5, <1>6, <1>10, <1>12, Zenon DEF AddStarts, AddFills
<1>13. CASE AddPasses(f, r) \/ AddCompletes(L, f, r)
  BY <1>5, <1>6, <1>11, <1>13, Zenon DEF AddPasses, AddCompletes
<1> QED  BY <1>9, <1>12, <1>13

\* The packet that comes out is of the stream and has a number of its own.
LEMMA DecodedNext ==
  ASSUME NEW D \in Seq(Packets), NEW q \in Packets, NEW L, NEW W, NEW O, NEW B, NEW K, B \in Seq(K),
         StreamInv(D \o <<q>>, L, W, O, B)
  PROVE  /\ Begun(q, B)
         /\ \A i \in DOMAIN D : D[i].num < q.num
         /\ \E k \in DOMAIN (D \o <<q>>) : (D \o <<q>>)[k].num = q.num
         /\ \A i \in DOMAIN D : i \in DOMAIN (D \o <<q>>) /\ (D \o <<q>>)[i] = D[i]
<1>1. PICK E : E = D \o <<q>>
  OBVIOUS
<1>2. /\ Len(D) + 1 \in DOMAIN E /\ E[Len(D) + 1] = q
      /\ \A i \in DOMAIN D : i \in DOMAIN E /\ E[i] = D[i] /\ i < Len(D) + 1
  BY <1>1
<1> QED  BY <1>1, <1>2 DEF StreamInv

-----------------------------------------------------------------------------
(* Packets come out in order.                                              *)

\* A sorted sequence of packets of one kind, and one more.
Sorted(B, kind) ==
  /\ \A i \in DOMAIN B : B[i][1] = kind
  /\ \A i, j \in DOMAIN B : i < j => B[i][2] < B[j][2]

LEMMA SortedAppend ==
  ASSUME NEW K, NEW B \in Seq(K), NEW kind, NEW x, x[1] = kind, Sorted(B, kind),
         \A i \in DOMAIN B : B[i][2] < x[2]
  PROVE  Sorted(Append(B, x), kind)
<1>1. PICK C : C = Append(B, x)
  OBVIOUS
<1>2. \A i \in DOMAIN C : \/ i \in DOMAIN B /\ C[i] = B[i]
                          \/ /\ i = Len(B) + 1 /\ C[i] = x
                             /\ \A j \in DOMAIN C : j <= i /\ (j < i => j \in DOMAIN B)
  BY <1>1, Longer
<1>3. \A i, j \in DOMAIN C : i < j => i \in DOMAIN B /\ C[i] = B[i]
  BY <1>1
<1>4. Sorted(C, kind)
  BY <1>2, <1>3 DEF Sorted
<1> QED  BY <1>1, <1>4

\* Goroutines and peers when there is one sender.
LEMMA SoleSender ==
  ASSUME NEW c, Senders = {c}
  PROVE  /\ Home[c] \in Peers /\ c \in Goroutines /\ c \notin Peers /\ PeerOf(c) = Home[c]
         /\ \A g \in Goroutines : g = c \/ (g \in Peers /\ PeerOf(g) = g)
         /\ \A p \in Peers : Source(c, p) \in Goroutines /\ PeerOf(Source(c, p)) = p
         /\ \A g \in Goroutines : g # Home[c] => g = Source(c, PeerOf(g))
         /\ \A p \in Peers : Source(c, Other(p)) # p
         /\ \A p \in Peers : p # Home[c] => Source(c, p) = p
         /\ Source(c, Home[c]) = c
<1>1. Home[c] \in Peers /\ c \in Goroutines /\ c \notin Peers /\ Goroutines = {c} \cup Peers
  BY FramesAssumption DEF Goroutines
<1>2. PeerOf(c) = Home[c] /\ \A p \in Peers : PeerOf(p) = p
  BY <1>1 DEF PeerOf
<1> QED  BY <1>1, <1>2, TwoPeers DEF Source

LEMMA OrderInvStep ==
  ASSUME NEW c, Senders = {c}, FramesInv, OrderInv(c), [Next]_vars
  PROVE  OrderInv(c)'
<1> DEFINE H == Home[c]
           Stream(p) ==
             StreamInv(decoded[p], lastp[p], wire[p], outq[Source(c, Other(p))], begun[Other(p)])
<1>0. /\ parser \in {"default", "msgpack"} /\ nev \in Nat
      /\ outq \in [Goroutines -> Seq(FrameSet)] /\ wire \in [Peers -> Seq(FrameSet)]
      /\ lastp \in [Peers -> Seq(Packets)] /\ decoded \in [Peers -> Seq(Packets)]
      /\ begun \in [Peers -> Seq(Kinds \X Nat)]
      /\ \A p \in Peers : Waits(lastp[p])
      /\ closed \in BOOLEAN /\ lost \in Nat
  BY DEF FramesInv, FramesTypeOK
<1>k. PICK K : K = Kinds \X Nat
  OBVIOUS
<1>b. begun \in [Peers -> Seq(K)]
  BY <1>0, <1>k
<1>h. H \in Peers /\ c \in Goroutines /\ c \notin Peers /\ PeerOf(c) = H
  BY SoleSender
<1>s. \A p \in Peers : Stream(p)
  BY DEF OrderInv
<1>t. \A p \in Peers : Sorted(begun[p], KindOf(c, p))
  BY DEF OrderInv, SortedInv, Sorted
<1>n. /\ \A i \in DOMAIN begun[H] : begun[H][i][2] <= nev
      /\ \A p \in Peers \ {H} : \A i \in DOMAIN begun[p] :
           \E k \in DOMAIN decoded[p] : decoded[p][k].num = begun[p][i][2]
      /\ outq[H] = <<>>
  BY DEF OrderInv, NumberInv
<1>q. ASSUME \A p \in Peers : Stream(p)', \A p \in Peers : Sorted(begun'[p], KindOf(c, p)),
             NumberInv(c)'
      PROVE  OrderInv(c)'
  BY <1>q DEF OrderInv, SortedInv, Sorted
<1>i. \A i \in DOMAIN begun[H] : begun[H][i][2] \in Nat
  BY <1>0, <1>h
<1>1. ASSUME NEW g \in Senders, NEW p, EmitStep(g, p) PROVE OrderInv(c)'
  <2>1. /\ p \in Packets /\ p.type = "event" /\ p.num = nev + 1 /\ nev' = nev + 1
        /\ p.attachments = 0
        /\ outq[c] = <<>> /\ outq' = [outq EXCEPT ![c] = Encode(p)]
        /\ begun' = [begun EXCEPT ![H] = Append(@, <<"event", nev + 1>>)]
        /\ UNCHANGED <<parser, wire, lastp, decoded>>
    BY <1>1, <1>h DEF EmitStep
  <2>2. PICK x : /\ x = <<"event", nev + 1>> /\ x[1] = "event" /\ x[2] = nev + 1
                 /\ x = <<p.type, p.num>>
    BY <2>1
  <2>3. \A i \in DOMAIN begun[H] : begun[H][i][2] < x[2]
    BY <1>0, <1>n, <1>i, <2>2
  <2>4. begun'[H] = Append(begun[H], x) /\ \A s \in Peers : s # H => begun'[s] = begun[s]
    BY <1>b, <1>h, <2>1, <2>2
  <2>5. outq'[c] = Encode(p) /\ \A s \in Goroutines : s # c => outq'[s] = outq[s]
    BY <1>0, <1>h, <2>1
  <2>6. ASSUME NEW s \in Peers PROVE Sorted(begun'[s], KindOf(c, s))
    <3>1. CASE s = H
      <4>1. KindOf(c, H) = "event" /\ begun[H] \in Seq(K)
        BY <1>b, <1>h DEF KindOf
      <4>2. Sorted(Append(begun[H], x), "event")
        BY <1>t, <1>h, <2>2, <2>3, <4>1, SortedAppend
      <4> QED  BY <2>4, <3>1, <4>1, <4>2
    <3>2. CASE s # H
      BY <1>t, <2>4, <3>2
    <3> QED  BY <3>1, <3>2
  <2>7. ASSUME NEW s \in Peers PROVE Stream(s)'
    <3>1. CASE s = Other(H)
      <4>1. Other(s) = H /\ Source(c, Other(s)) = c
        BY <1>h, <3>1, TwoPeers, SoleSender
      <4>2. StreamInv(decoded[s], lastp[s], wire[s], <<>>, begun[H])
        BY <1>s, <2>1, <4>1
      <4>3. EncodedWell(Encode(p), p)
        BY <2>1, EncodeFacts DEF Kinds
      <4>4. begun[H] \in Seq(K) /\ \A i \in DOMAIN begun[H] : begun[H][i][2] < p.num
        BY <1>b, <1>h, <2>1, <2>2, <2>3
      <4>5. StreamInv(decoded[s], lastp[s], wire[s], Encode(p), Append(begun[H], x))
        BY <2>2, <4>2, <4>3, <4>4, StreamBegin
      <4> QED  BY <2>1, <2>4, <2>5, <4>1, <4>5
    <3>2. CASE s # Other(H)
      <4>1. s = H /\ Other(s) # H /\ Other(s) \in Peers /\ Source(c, Other(s)) \in Goroutines
            /\ Source(c, Other(s)) # c
        BY <1>h, <3>2, TwoPeers, SoleSender
      <4>2. Stream(s)
        BY <1>s
      <4> QED  BY <2>1, <2>4, <2>5, <4>1, <4>2
    <3> QED  BY <3>1, <3>2
  <2>8. NumberInv(c)'
    <3>1. \A i \in DOMAIN begun'[H] : begun'[H][i][2] <= nev'
      <4>1. begun[H] \in Seq(K)
        BY <1>b, <1>h
      <4>2. \A i \in DOMAIN Append(begun[H], x) :
              \/ Append(begun[H], x)[i] = x
              \/ i \in DOMAIN begun[H] /\ Append(begun[H], x)[i] = begun[H][i]
        BY <4>1, Longer
      <4> QED  BY <1>0, <1>i, <1>n, <2>1, <2>2, <2>4, <4>2
    <3>2. outq'[H] = <<>>
      BY <1>h, <1>n, <2>5 DEF Goroutines
    <3>3. decoded' = decoded
      BY <2>1
    <3> QED  BY <1>n, <2>4, <3>1, <3>2, <3>3 DEF NumberInv
  <2> QED  BY <1>q, <2>6, <2>7, <2>8
<1>2. ASSUME NEW g \in Goroutines, SubmitStep(g) \/ DropStep(g) PROVE OrderInv(c)'
  <2>1. /\ outq[g] # <<>> /\ UNCHANGED <<parser, lastp, nev, begun, decoded>>
        /\ \A s \in Goroutines : s # g => outq'[s] = outq[s]
        /\ \A s \in Peers : s # Other(PeerOf(g)) => wire'[s] = wire[s]
        /\ \/ /\ outq'[g] = Tail(outq[g])
              /\ wire'[Other(PeerOf(g))] = Append(wire[Other(PeerOf(g))], Head(outq[g]))
           \/ /\ outq'[g] = Tail(outq[g]) \/ outq'[g] = <<>>
              /\ wire'[Other(PeerOf(g))] = wire[Other(PeerOf(g))]
    <3>1. Other(PeerOf(g)) \in Peers
      BY TwoPeers
    <3> QED  BY <1>0, <1>2, <3>1 DEF SubmitStep, DropStep
  <2>2. g = Source(c, PeerOf(g)) /\ PeerOf(g) \in Peers
    BY <1>n, <2>1, SoleSender, TwoPeers
  <2>3. ASSUME NEW s \in Peers PROVE Stream(s)'
    <3>1. CASE s = Other(PeerOf(g))
      <4>1. Other(s) = PeerOf(g) /\ Source(c, Other(s)) = g
        BY <2>2, <3>1, TwoPeers
      <4>2. StreamInv(decoded[s], lastp[s], wire[s], outq[g], begun[Other(s)])
        BY <1>s, <4>1
      <4>3. outq[g] \in Seq(FrameSet) /\ wire[s] \in Seq(FrameSet)
        BY <1>0
      <4>4. /\ StreamInv(decoded[s], lastp[s], wire[s], Tail(outq[g]), begun[Other(s)])
            /\ StreamInv(decoded[s], lastp[s], wire[s], <<>>, begun[Other(s)])
        BY <2>1, <4>2, <4>3, StreamTail
      <4>5. StreamInv(decoded[s], lastp[s], Append(wire[s], Head(outq[g])), Tail(outq[g]),
                      begun[Other(s)])
        BY <2>1, <4>2, <4>3, StreamSubmit
      <4> QED  BY <2>1, <3>1, <4>1, <4>4, <4>5
    <3>2. CASE s # Other(PeerOf(g))
      <4>1. s = PeerOf(g) /\ Source(c, Other(s)) # g /\ Source(c, Other(s)) \in Goroutines
        BY <2>2, <3>2, TwoPeers, SoleSender
      <4>2. Stream(s)
        BY <1>s
      <4> QED  BY <2>1, <3>2, <4>1, <4>2
    <3> QED  BY <3>1, <3>2
  <2>4. NumberInv(c)'
    <3>1. outq'[H] = <<>>
      BY <1>h, <1>n, <2>1 DEF Goroutines
    <3> QED  BY <1>n, <2>1, <3>1 DEF NumberInv
  <2> QED  BY <1>q, <1>t, <2>1, <2>3, <2>4
<1>3. ASSUME NEW p \in Peers, NEW f \in FrameSet, NEW r, ReceiveStep(p, f, r),
             \/ UNCHANGED <<outq, begun>>
             \/ \E q, a \in Packets : r.out = <<q>> /\ ReplyStep(p, q, a)
      PROVE  OrderInv(c)'
  <2>1. /\ wire[p] # <<>> /\ f = Head(wire[p]) /\ r = Add(lastp[p], f)
        /\ UNCHANGED <<parser, nev>>
        /\ wire'[p] = Tail(wire[p]) /\ lastp'[p] = r.last /\ decoded'[p] = decoded[p] \o r.out
        /\ \A s \in Peers : s # p => /\ wire'[s] = wire[s] /\ lastp'[s] = lastp[s]
                                     /\ decoded'[s] = decoded[s]
    BY <1>0, <1>3 DEF ReceiveStep
  <2>2. \/ AddKeeps(lastp[p], f, r) \/ AddStarts(f, r) \/ AddPasses(f, r)
        \/ AddFills(lastp[p], f, r) \/ AddCompletes(lastp[p], f, r)
    BY <1>0, <2>1, AddFacts
  <2>3. /\ decoded[p] \in Seq(Packets) /\ wire[p] \in Seq(FrameSet)
        /\ Other(p) \in Peers /\ Other(p) # p /\ Other(Other(p)) = p
    BY <1>0, TwoPeers
  <2>4. StreamInv(decoded[p] \o r.out, r.last, Tail(wire[p]), outq[Source(c, Other(p))],
                  begun[Other(p)])
    BY <1>s, <2>1, <2>2, <2>3, StreamReceive
  <2>5. \A i \in DOMAIN decoded[p] : i \in DOMAIN decoded'[p] /\ decoded'[p][i] = decoded[p][i]
    <3>1. r.out = <<>> \/ \E q \in Packets : r.out = <<q>>
      BY <2>2, Zenon DEF AddKeeps, AddStarts, AddPasses, AddFills, AddCompletes
    <3>2. r.out \in Seq(Packets)
      <4>1. <<>> \in Seq(Packets) /\ \A q \in Packets : <<q>> \in Seq(Packets)
        OBVIOUS
      <4> QED  BY <3>1, <4>1, Zenon
    <3>3. PICK D \in Seq(Packets), E \in Seq(Packets) : D = decoded[p] /\ E = r.out
      BY <2>3, <3>2
    <3>4. \A i \in DOMAIN D : i \in DOMAIN (D \o E) /\ (D \o E)[i] = D[i]
      OBVIOUS
    <3> QED  BY <2>1, <3>3, <3>4
  <2>6. \A s \in Peers : \A k \in DOMAIN decoded[s] :
          k \in DOMAIN decoded'[s] /\ decoded'[s][k] = decoded[s][k]
    BY <2>1, <2>5
  <2>7. CASE UNCHANGED <<outq, begun>>
    <3>1. Stream(p)' /\ Stream(Other(p))'
      BY <1>s, <2>1, <2>3, <2>4, <2>7
    <3>2. NumberInv(c)'
      BY <1>n, <2>1, <2>6, <2>7 DEF NumberInv
    <3> QED  BY <1>q, <1>t, <2>7, <3>1, <3>2, TwoPeers
  <2>8. ASSUME NEW q \in Packets, NEW a \in Packets, r.out = <<q>>, ReplyStep(p, q, a)
        PROVE  OrderInv(c)'
    <3>1. /\ a.type = "ack" /\ a.num = q.num /\ Base(q) = "event" /\ outq[p] = <<>>
          /\ parser = "default" \/ a.attachments = 0
          /\ outq' = [outq EXCEPT ![p] = Encode(a)]
          /\ begun' = [begun EXCEPT ![p] = Append(@, <<"ack", q.num>>)]
      BY <2>8 DEF ReplyStep
    <3>2. /\ Begun(q, begun[Other(p)])
          /\ \A i \in DOMAIN decoded[p] : decoded[p][i].num < q.num
          /\ \E k \in DOMAIN decoded'[p] : decoded'[p][k].num = q.num
      <4>1. StreamInv(decoded[p] \o <<q>>, r.last, Tail(wire[p]), outq[Source(c, Other(p))],
                      begun[Other(p)])
        BY <2>4, <2>8
      <4>2. begun[Other(p)] \in Seq(K)
        BY <1>b, <2>3
      <4>3. PICK D \in Seq(Packets) : D = decoded[p]
        BY <2>3
      <4>4. decoded'[p] = D \o <<q>>
        BY <2>1, <2>8, <4>3
      <4>5. StreamInv(D \o <<q>>, r.last, Tail(wire[p]), outq[Source(c, Other(p))], begun[Other(p)])
        BY <4>1, <4>3
      <4>6. /\ Begun(q, begun[Other(p)]) /\ \A i \in DOMAIN D : D[i].num < q.num
            /\ \E k \in DOMAIN (D \o <<q>>) : (D \o <<q>>)[k].num = q.num
        BY <4>2, <4>5, DecodedNext
      <4> QED  BY <4>3, <4>4, <4>6
    <3>3. Other(p) = H /\ p # H
      <4>1. PICK i \in DOMAIN begun[Other(p)] : begun[Other(p)][i] = <<Base(q), q.num>>
        BY <3>2 DEF Begun, Range
      <4>2. begun[Other(p)][i][1] = "event"
        BY <3>1, <4>1
      <4>3. KindOf(c, Other(p)) = "event"
        BY <1>t, <2>3, <4>2 DEF Sorted
      <4> QED  BY <2>3, <4>3 DEF KindOf
    <3>4. PICK x : x = <<"ack", q.num>> /\ x[1] = "ack" /\ x[2] = q.num /\ x = <<a.type, a.num>>
      BY <3>1
    <3>5. \A i \in DOMAIN begun[p] : begun[p][i][2] < x[2]
      BY <1>n, <3>2, <3>3, <3>4
    <3>6. begun'[p] = Append(begun[p], x) /\ \A s \in Peers : s # p => begun'[s] = begun[s]
      BY <1>b, <3>1, <3>4
    <3>7. /\ outq'[p] = Encode(a) /\ p \in Goroutines
          /\ \A s \in Goroutines : s # p => outq'[s] = outq[s]
      BY <1>0, <3>1 DEF Goroutines
    <3>8. begun[p] \in Seq(K) /\ KindOf(c, p) = "ack"
      BY <1>b, <3>3 DEF KindOf
    <3>9. ASSUME NEW s \in Peers PROVE Sorted(begun'[s], KindOf(c, s))
      <4>1. Sorted(Append(begun[p], x), "ack")
        BY <1>t, <3>4, <3>5, <3>8, SortedAppend
      <4> QED  BY <1>t, <3>6, <3>8, <4>1
    <3>10. Stream(p)'
      <4>1. Source(c, Other(p)) # p /\ Source(c, Other(p)) \in Goroutines
        BY <2>3, SoleSender
      <4> QED  BY <2>1, <2>3, <2>4, <3>6, <3>7, <4>1
    <3>11. Stream(Other(p))'
      <4> DEFINE o == Other(p)
      <4>1. Source(c, p) = p
        BY <3>3, SoleSender
      <4>2. StreamInv(decoded[o], lastp[o], wire[o], <<>>, begun[p])
        BY <1>s, <2>3, <3>1, <4>1
      <4>3. EncodedWell(Encode(a), a)
        BY <3>1, EncodeFacts DEF Kinds
      <4>4. \A i \in DOMAIN begun[p] : begun[p][i][2] < a.num
        BY <3>1, <3>4, <3>5
      <4>5. StreamInv(decoded[o], lastp[o], wire[o], Encode(a), Append(begun[p], x))
        BY <3>4, <3>8, <4>2, <4>3, <4>4, StreamBegin
      <4> QED  BY <2>1, <2>3, <3>6, <3>7, <4>1, <4>5
    <3>12. NumberInv(c)'
      <4>1. ASSUME NEW s \in Peers \ {H}, NEW i \in DOMAIN begun'[s]
            PROVE  \E k \in DOMAIN decoded'[s] : decoded'[s][k].num = begun'[s][i][2]
        <5>1. s = p
          BY <3>3, TwoPeers
        <5>2. \/ Append(begun[p], x)[i] = x
              \/ i \in DOMAIN begun[p] /\ Append(begun[p], x)[i] = begun[p][i]
          BY <3>6, <3>8, <5>1, Longer
        <5>3. CASE Append(begun[p], x)[i] = x
          <6>1. begun'[p][i][2] = q.num
            BY <3>4, <3>6, <5>3
          <6> QED  BY <3>2, <5>1, <6>1
        <5>4. CASE i \in DOMAIN begun[p] /\ Append(begun[p], x)[i] = begun[p][i]
          <6>1. begun'[p][i] = begun[p][i]
            BY <3>6, <5>4
          <6>2. PICK k \in DOMAIN decoded[p] : decoded[p][k].num = begun[p][i][2]
            BY <1>n, <3>3, <5>4
          <6> QED  BY <2>6, <5>1, <6>1, <6>2
        <5> QED  BY <5>2, <5>3, <5>4
      <4>2. outq'[H] = <<>> /\ begun'[H] = begun[H]
        BY <1>h, <1>n, <3>3, <3>6, <3>7 DEF Goroutines
      <4> QED  BY <1>n, <2>1, <4>1, <4>2 DEF NumberInv
    <3> QED  BY <1>q, <3>9, <3>10, <3>11, <3>12, TwoPeers
  <2> QED  BY <1>3, <2>7, <2>8
<1>4. CASE UNCHANGED <<parser, outq, wire, lastp, nev, begun, decoded, lost, refused>>
  BY <1>4, <1>q, <1>s, <1>t, <1>n DEF NumberInv
<1> QED  BY <1>1, <1>2, <1>3, <1>4, StepsOfFrames

LEMMA OrderInvInit ==
  ASSUME NEW c, Senders = {c}, Init
  PROVE  OrderInv(c)
<1>1. /\ \A p \in Peers : /\ decoded[p] = <<>> /\ lastp[p] = <<>> /\ wire[p] = <<>>
                          /\ begun[p] = <<>> /\ outq[Source(c, Other(p))] = <<>>
      /\ outq[Home[c]] = <<>> /\ begun[Home[c]] = <<>>
  <2>1. \A p \in Peers : Source(c, Other(p)) \in Goroutines /\ Other(p) \in Peers
    BY TwoPeers, SoleSender
  <2>2. Home[c] \in Peers /\ Home[c] \in Goroutines
    BY SoleSender DEF Goroutines
  <2> QED  BY <2>1, <2>2 DEF Init
<1>2. DOMAIN <<>> = {}
  OBVIOUS
<1>3. StreamInv(<<>>, <<>>, <<>>, <<>>, <<>>)
  BY <1>2 DEF StreamInv
<1>4. \A p \in Peers :
        StreamInv(decoded[p], lastp[p], wire[p], outq[Source(c, Other(p))], begun[Other(p)])
  BY <1>1, <1>3, TwoPeers
<1>5. SortedInv(c) /\ NumberInv(c)
  BY <1>1, <1>2 DEF SortedInv, NumberInv
<1> QED  BY <1>4, <1>5 DEF OrderInv

\* Sorted numbers tell the order in which packets were begun.
LEMMA OrderFollows ==
  ASSUME NEW c, Senders = {c}, FramesInv, OrderInv(c)
  PROVE  InOrder
<1> SUFFICES ASSUME NEW p \in Peers, NEW i \in DOMAIN decoded[p], NEW j \in DOMAIN decoded[p], i < j
             PROVE  \E m, n \in DOMAIN begun[Other(p)] :
                      /\ m < n
                      /\ begun[Other(p)][m] = <<Base(decoded[p][i]), decoded[p][i].num>>
                      /\ begun[Other(p)][n] = <<Base(decoded[p][j]), decoded[p][j].num>>
  BY DEF InOrder
<1>1. Other(p) \in Peers
  BY TwoPeers
<1>2. /\ Begun(decoded[p][i], begun[Other(p)]) /\ Begun(decoded[p][j], begun[Other(p)])
      /\ decoded[p][i].num < decoded[p][j].num
  BY DEF OrderInv, StreamInv
<1>3. PICK m \in DOMAIN begun[Other(p)] :
        begun[Other(p)][m] = <<Base(decoded[p][i]), decoded[p][i].num>>
  BY <1>2 DEF Begun, Range
<1>4. PICK n \in DOMAIN begun[Other(p)] :
        begun[Other(p)][n] = <<Base(decoded[p][j]), decoded[p][j].num>>
  BY <1>2 DEF Begun, Range
<1>5. begun[Other(p)][m][2] < begun[Other(p)][n][2]
  BY <1>2, <1>3, <1>4
<1>6. /\ m \in Nat /\ n \in Nat
      /\ begun[Other(p)][m][2] \in Nat /\ begun[Other(p)][n][2] \in Nat
  BY <1>1 DEF FramesInv, FramesTypeOK
<1>7. n < m => begun[Other(p)][n][2] < begun[Other(p)][m][2]
  BY <1>1 DEF OrderInv, SortedInv
<1>8. m < n
  <2>1. m # n /\ ~(n < m)
    BY <1>5, <1>6, <1>7
  <2> QED  BY <1>6, <2>1
<1> QED  BY <1>3, <1>4, <1>8

\* When one goroutine emits events, packets come out of the decoders in the order in
\* which they were begun, events and acknowledgements, with either parser and whatever
\* frames are lost (emitPacket, Add and process).
THEOREM PacketsInOrder ==
  ASSUME NEW c, Senders = {c}
  PROVE  Spec => []InOrder
<1>1. Init => FramesInv /\ OrderInv(c)
  BY FramesInvInit, OrderInvInit
<1>2. (FramesInv /\ OrderInv(c)) /\ [Next]_vars => (FramesInv /\ OrderInv(c))'
  BY FramesInvStep, OrderInvStep
<1>3. FramesInv /\ OrderInv(c) => InOrder
  BY OrderFollows
<1> QED  BY <1>1, <1>2, <1>3, PTL DEF Spec

-----------------------------------------------------------------------------
(* Attachments.  In the stream to a peer, the packet at the place 0 is the *)
(* one that waits, and the packet at the place i > 0 the one whose head is *)
(* the frame S[i].  The places in gone are those after S to which no frame *)
(* will come.                                                              *)

Owes(q) == q.attachments - Len(q.buffer)

IsPlace(L, S, i) == IF i = 0 THEN L # <<>> ELSE IsHead(S[i])
PacketAt(L, S, i) == IF i = 0 THEN L[1] ELSE S[i].packet

\* The buffer is right so far, and what is missing follows, unless it is cut off.
Whole(q, i, S, gone) ==
  /\ \A j \in 1 .. Len(q.buffer) : q.buffer[j] = <<Base(q), q.num, j>>
  /\ \A k \in 1 .. Owes(q) :
       IF i + k \in 1 .. Len(S)
       THEN S[i + k] = BinaryFrame(<<Base(q), q.num, Len(q.buffer) + k>>)
       ELSE i + k \in gone

\* The packet never comes out: another begins before all that is missing has come.
Spoiled(q, i, S, gone) ==
  \E k \in 1 .. Owes(q) :
    IF i + k \in 1 .. Len(S) THEN IsHead(S[i + k]) ELSE i + k \in gone \cup {Len(S) + 1}

AllWhole(L, S, gone) ==
  \A i \in 0 .. Len(S) : IsPlace(L, S, i) => Whole(PacketAt(L, S, i), i, S, gone)
WholeOrSpoiled(L, S, gone) ==
  \A i \in 0 .. Len(S) : IsPlace(L, S, i) =>
    \/ Whole(PacketAt(L, S, i), i, S, gone)
    \/ Spoiled(PacketAt(L, S, i), i, S, gone)

\* The frames after the place n, not on the wire yet, are of one packet and its last.
EndsWell(L, S, n) ==
  \A i \in 0 .. Len(S) : IsPlace(L, S, i) /\ Owes(PacketAt(L, S, i)) > 0 =>
    i + Owes(PacketAt(L, S, i)) \in 1 .. n \cup {Len(S)}

\* A packet with all its attachments.
Filled(q) ==
  /\ Len(q.buffer) = q.attachments
  /\ \A j \in 1 .. q.attachments : q.buffer[j] = <<Base(q), q.num, j>>

\* When the engine is closed the sender's frames stay where they are.
ToCome(c, p) == IF closed THEN wire[p] ELSE wire[p] \o outq[Source(c, Other(p))]
Gone == IF closed THEN Nat ELSE {}

WholeAt(c, p) ==
  /\ lost = 0 => /\ AllWhole(lastp[p], ToCome(c, p), Gone)
                 /\ ~closed => EndsWell(lastp[p], ToCome(c, p), Len(wire[p]))
  /\ ~Refusal => WholeOrSpoiled(lastp[p], ToCome(c, p), Gone)
  /\ lost = 0 \/ ~Refusal => \A k \in DOMAIN decoded[p] : Filled(decoded[p][k])

\* Without a loss every packet is whole.  After one, a packet that lost a frame never
\* comes out, as long as no head was refused.
WholeInv(c) == lost <= 1 /\ \A p \in Peers : WholeAt(c, p)

\* More frames follow.
LEMMA WholeGrows ==
  ASSUME NEW S, NEW T, Len(S) \in Nat, Len(T) \in Nat, Len(S) <= Len(T),
         \A x \in 1 .. Len(S) : T[x] = S[x],
         NEW q \in Packets, NEW i \in Nat
  PROVE  /\ Whole(q, i, S, {}) => Whole(q, i, T, {})
         /\ Spoiled(q, i, S, {}) /\ Len(S) < Len(T) /\ IsHead(T[Len(S) + 1]) =>
              Spoiled(q, i, T, {})
<1>0. Owes(q) \in Int /\ Len(q.buffer) \in Nat
  BY DEF Owes, Packets
<1>1. ASSUME Whole(q, i, S, {}) PROVE Whole(q, i, T, {})
  <2>1. \A k \in 1 .. Owes(q) :
          /\ i + k \in 1 .. Len(T)
          /\ T[i + k] = BinaryFrame(<<Base(q), q.num, Len(q.buffer) + k>>)
    BY <1>0, <1>1 DEF Whole
  <2> QED  BY <1>1, <2>1 DEF Whole
<1>2. ASSUME Spoiled(q, i, S, {}), Len(S) < Len(T), IsHead(T[Len(S) + 1])
      PROVE  Spoiled(q, i, T, {})
  <2>1. PICK k \in 1 .. Owes(q) :
          IF i + k \in 1 .. Len(S) THEN IsHead(S[i + k]) ELSE i + k \in {} \cup {Len(S) + 1}
    BY <1>2 DEF Spoiled
  <2>2. i + k \in 1 .. Len(T) /\ IsHead(T[i + k])
    BY <1>0, <1>2, <2>1
  <2> QED  BY <2>2 DEF Spoiled
<1> QED  BY <1>1, <1>2

\* The frames after S are cut off.
LEMMA WholeCut ==
  ASSUME NEW S, NEW T, Len(S) \in Nat, Len(T) \in Nat, Len(S) <= Len(T),
         \A x \in 1 .. Len(S) : T[x] = S[x],
         NEW q \in Packets, NEW i \in Nat
  PROVE  /\ Whole(q, i, T, {}) => Whole(q, i, S, Nat)
         /\ Spoiled(q, i, T, {}) => Spoiled(q, i, S, Nat)
<1>0. Owes(q) \in Int /\ Len(q.buffer) \in Nat
  BY DEF Owes, Packets
<1>1. ASSUME Whole(q, i, T, {}) PROVE Whole(q, i, S, Nat)
  <2>1. \A k \in 1 .. Owes(q) :
          IF i + k \in 1 .. Len(S)
          THEN S[i + k] = BinaryFrame(<<Base(q), q.num, Len(q.buffer) + k>>)
          ELSE i + k \in Nat
    <3> SUFFICES ASSUME NEW k \in 1 .. Owes(q)
                 PROVE  i + k \in 1 .. Len(S) =>
                          S[i + k] = BinaryFrame(<<Base(q), q.num, Len(q.buffer) + k>>)
      BY <1>0
    <3>1. i + k \in 1 .. Len(T) => T[i + k] = BinaryFrame(<<Base(q), q.num, Len(q.buffer) + k>>)
      BY <1>1 DEF Whole
    <3>2. i + k \in 1 .. Len(S) => i + k \in 1 .. Len(T) /\ T[i + k] = S[i + k]
      BY <1>0
    <3> QED  BY <3>1, <3>2
  <2> QED  BY <1>1, <2>1 DEF Whole
<1>2. ASSUME Spoiled(q, i, T, {}) PROVE Spoiled(q, i, S, Nat)
  <2>1. PICK k \in 1 .. Owes(q) :
          IF i + k \in 1 .. Len(T) THEN IsHead(T[i + k]) ELSE i + k \in {} \cup {Len(T) + 1}
    BY <1>2 DEF Spoiled
  <2>2. i + k \in 1 .. Len(S) => i + k \in 1 .. Len(T) /\ T[i + k] = S[i + k]
    BY <1>0
  <2>3. i + k \in Nat
    BY <1>0
  <2> QED  BY <2>1, <2>2, <2>3 DEF Spoiled
<1> QED  BY <1>1, <1>2

\* The first frame is taken.
Shifted(S, T) ==
  /\ Len(S) \in Nat /\ Len(T) \in Nat /\ Len(S) = Len(T) + 1
  /\ \A x \in 1 .. Len(T) : T[x] = S[x + 1]

IsGone(gone) == gone \in {{}, Nat}

LEMMA WholeShifts ==
  ASSUME NEW S, NEW T, Shifted(S, T),
         NEW q \in Packets, NEW i \in Nat, NEW gone, IsGone(gone)
  PROVE  /\ Whole(q, i + 1, S, gone) => Whole(q, i, T, gone)
         /\ Spoiled(q, i + 1, S, gone) => Spoiled(q, i, T, gone)
<1>0. Owes(q) \in Int /\ Len(q.buffer) \in Nat
  BY DEF Owes, Packets
<1>s. /\ Len(S) \in Nat /\ Len(T) \in Nat /\ Len(S) = Len(T) + 1
      /\ \A x \in 1 .. Len(T) : T[x] = S[x + 1]
  BY DEF Shifted
<1>1. \A k \in 1 .. Owes(q) :
        /\ i + 1 + k \in 1 .. Len(S) <=> i + k \in 1 .. Len(T)
        /\ i + k \in 1 .. Len(T) => T[i + k] = S[i + 1 + k]
        /\ i + 1 + k \in gone <=> i + k \in gone
        /\ i + 1 + k = Len(S) + 1 <=> i + k = Len(T) + 1
  <2> SUFFICES ASSUME NEW k \in 1 .. Owes(q)
               PROVE  /\ i + 1 + k \in 1 .. Len(S) <=> i + k \in 1 .. Len(T)
                      /\ i + k \in 1 .. Len(T) => T[i + k] = S[i + 1 + k]
                      /\ i + 1 + k \in gone <=> i + k \in gone
                      /\ i + 1 + k = Len(S) + 1 <=> i + k = Len(T) + 1
    OBVIOUS
  <2>1. i + k \in Nat /\ i + 1 + k = (i + k) + 1
    BY <1>0
  <2>2. PICK m \in Nat : m = i + k /\ m + 1 = i + 1 + k
    BY <2>1
  <2>3. /\ m + 1 \in 1 .. Len(S) <=> m \in 1 .. Len(T)
        /\ m \in 1 .. Len(T) => T[m] = S[m + 1]
        /\ m + 1 = Len(S) + 1 <=> m = Len(T) + 1
    <3>1. m >= 1
      BY <2>2
    <3> QED  BY <1>s, <3>1
  <2>4. m + 1 \in gone <=> m \in gone
    BY DEF IsGone
  <2> QED  BY <2>2, <2>3, <2>4
<1>2. ASSUME Whole(q, i + 1, S, gone) PROVE Whole(q, i, T, gone)
  BY <1>1, <1>2 DEF Whole
<1>3. ASSUME Spoiled(q, i + 1, S, gone) PROVE Spoiled(q, i, T, gone)
  <2>1. PICK k \in 1 .. Owes(q) :
          IF i + 1 + k \in 1 .. Len(S) THEN IsHead(S[i + 1 + k])
                                       ELSE i + 1 + k \in gone \cup {Len(S) + 1}
    BY <1>3 DEF Spoiled
  <2>2. IF i + k \in 1 .. Len(T) THEN IsHead(T[i + k]) ELSE i + k \in gone \cup {Len(T) + 1}
    BY <1>1, <2>1
  <2> QED  BY <2>2 DEF Spoiled
<1> QED  BY <1>2, <1>3

\* The packet q that waits gets the attachment that comes.
LEMMA WholeFills ==
  ASSUME NEW S, NEW T, Shifted(S, T),
         NEW q \in Packets, NEW p \in Packets, NEW gone, IsGone(gone), NEW b,
         Owes(q) > 0, ~IsHead(S[1]), b = S[1].bytes,
         Same(p, q), p.attachments = q.attachments, p.buffer = Append(q.buffer, b)
  PROVE  /\ Whole(q, 0, S, gone) => Whole(p, 0, T, gone)
         /\ Spoiled(q, 0, S, gone) => Spoiled(p, 0, T, gone)
<1>0. /\ Owes(q) \in Int /\ Owes(q) > 0 /\ Len(q.buffer) \in Nat
      /\ q.buffer \in Seq(Bytes)
  BY DEF Owes, Packets
<1>s. /\ Len(S) \in Nat /\ Len(T) \in Nat /\ Len(S) = Len(T) + 1
      /\ \A x \in 1 .. Len(T) : T[x] = S[x + 1]
  BY DEF Shifted
<1>1. /\ Len(p.buffer) = Len(q.buffer) + 1
      /\ \A j \in 1 .. Len(q.buffer) : p.buffer[j] = q.buffer[j]
      /\ p.buffer[Len(q.buffer) + 1] = b
  BY <1>0
<1>2. Owes(p) = Owes(q) - 1 /\ Base(p) = Base(q) /\ p.num = q.num
  BY <1>0, <1>1 DEF Owes, Same, Packets
<1>3. \A k \in 1 .. Owes(p) :
        /\ k + 1 \in 1 .. Owes(q)
        /\ 0 + (k + 1) \in 1 .. Len(S) <=> 0 + k \in 1 .. Len(T)
        /\ 0 + k \in 1 .. Len(T) => T[0 + k] = S[0 + (k + 1)]
        /\ 0 + (k + 1) \in gone <=> 0 + k \in gone
        /\ Len(q.buffer) + (k + 1) = Len(p.buffer) + k
  <2> SUFFICES ASSUME NEW k \in 1 .. Owes(p)
               PROVE  /\ k + 1 \in 1 .. Owes(q)
                      /\ 0 + (k + 1) \in 1 .. Len(S) <=> 0 + k \in 1 .. Len(T)
                      /\ 0 + k \in 1 .. Len(T) => T[0 + k] = S[0 + (k + 1)]
                      /\ 0 + (k + 1) \in gone <=> 0 + k \in gone
                      /\ Len(q.buffer) + (k + 1) = Len(p.buffer) + k
    OBVIOUS
  <2>1. k \in Nat /\ k >= 1 /\ k <= Owes(q) - 1 /\ 0 + (k + 1) = k + 1 /\ 0 + k = k
    BY <1>0, <1>2
  <2>2. k + 1 \in 1 .. Owes(q) /\ Len(q.buffer) + (k + 1) = Len(p.buffer) + k
    <3>1. k + 1 \in 1 .. Owes(q)
      BY ONLY <1>0, <2>1
    <3>2. Len(q.buffer) + (k + 1) = Len(p.buffer) + k
      <4>1. \A m \in Nat : m + (k + 1) = (m + 1) + k
        BY ONLY <2>1
      <4> QED  BY <1>0, <1>1, <4>1, Zenon
    <3> QED  BY <3>1, <3>2
  <2>3. k + 1 \in 1 .. Len(S) <=> k \in 1 .. Len(T)
    BY <1>s, <2>1
  <2>4. k + 1 \in gone <=> k \in gone
    BY <2>1 DEF IsGone
  <2> QED  BY <1>s, <2>1, <2>2, <2>3, <2>4
<1>4. ASSUME Whole(q, 0, S, gone) PROVE Whole(p, 0, T, gone)
  <2>1. S[1] = BinaryFrame(<<Base(q), q.num, Len(q.buffer) + 1>>)
    <3>1. 1 \in 1 .. Owes(q) /\ 0 + 1 = 1 /\ 1 \in 1 .. Len(S)
      BY <1>0, <1>s
    <3> QED  BY <1>4, <3>1 DEF Whole
  <2>2. b = <<Base(q), q.num, Len(q.buffer) + 1>>
    BY <2>1 DEF BinaryFrame
  <2>3. \A j \in 1 .. Len(p.buffer) : p.buffer[j] = <<Base(p), p.num, j>>
    <3> SUFFICES ASSUME NEW j \in 1 .. Len(p.buffer) PROVE p.buffer[j] = <<Base(p), p.num, j>>
      OBVIOUS
    <3>1. CASE j \in 1 .. Len(q.buffer)
      BY <1>1, <1>2, <1>4, <3>1 DEF Whole
    <3>2. CASE j = Len(q.buffer) + 1
      BY <1>1, <1>2, <2>2, <3>2
    <3> QED  BY <1>0, <1>1, <3>1, <3>2
  <2>4. \A k \in 1 .. Owes(p) :
          IF 0 + k \in 1 .. Len(T)
          THEN T[0 + k] = BinaryFrame(<<Base(p), p.num, Len(p.buffer) + k>>)
          ELSE 0 + k \in gone
    <3> SUFFICES ASSUME NEW k \in 1 .. Owes(p)
                 PROVE  IF 0 + k \in 1 .. Len(T)
                        THEN T[0 + k] = BinaryFrame(<<Base(p), p.num, Len(p.buffer) + k>>)
                        ELSE 0 + k \in gone
      OBVIOUS
    <3>1. IF 0 + (k + 1) \in 1 .. Len(S)
          THEN S[0 + (k + 1)] = BinaryFrame(<<Base(q), q.num, Len(q.buffer) + (k + 1)>>)
          ELSE 0 + (k + 1) \in gone
      BY <1>3, <1>4 DEF Whole
    <3> QED  BY <1>2, <1>3, <3>1
  <2> QED  BY <2>3, <2>4 DEF Whole
<1>5. ASSUME Spoiled(q, 0, S, gone) PROVE Spoiled(p, 0, T, gone)
  <2>1. PICK k \in 1 .. Owes(q) :
          IF 0 + k \in 1 .. Len(S) THEN IsHead(S[0 + k]) ELSE 0 + k \in gone \cup {Len(S) + 1}
    BY <1>5 DEF Spoiled
  <2>2. 1 \in 1 .. Len(S) /\ k # 1
    BY <1>s, <2>1
  <2>3. PICK m \in 1 .. Owes(p) : k = m + 1
    <3>1. k - 1 \in 1 .. Owes(p) /\ k = (k - 1) + 1
      BY <1>0, <1>2, <2>2
    <3> QED  BY <3>1
  <2>4. IF 0 + m \in 1 .. Len(T) THEN IsHead(T[0 + m]) ELSE 0 + m \in gone \cup {Len(T) + 1}
    <3>1. /\ 0 + (m + 1) \in 1 .. Len(S) <=> 0 + m \in 1 .. Len(T)
          /\ 0 + m \in 1 .. Len(T) => T[0 + m] = S[0 + (m + 1)]
          /\ 0 + (m + 1) \in gone <=> 0 + m \in gone
      BY <1>3
    <3>2. 0 + (m + 1) = Len(S) + 1 <=> 0 + m = Len(T) + 1
      <4>1. m \in Nat
        BY <1>0, <1>2
      <4>2. \A x, y, z \in Nat : z = y + 1 => (0 + (x + 1) = z + 1 <=> 0 + x = y + 1)
        OBVIOUS
      <4> QED  BY <1>s, <4>1, <4>2, Zenon
    <3>3. IF 0 + (m + 1) \in 1 .. Len(S) THEN IsHead(S[0 + (m + 1)])
                                         ELSE 0 + (m + 1) \in gone \cup {Len(S) + 1}
      BY <2>1, <2>3
    <3> QED  BY <3>1, <3>2, <3>3
  <2> QED  BY <2>4 DEF Spoiled
<1> QED  BY <1>4, <1>5

\* The last attachment makes a packet complete, and no packet that is spoiled gets it.
LEMMA WholeCompletes ==
  ASSUME NEW S, Len(S) \in Nat, Len(S) > 0, NEW q \in Packets, NEW p \in Packets,
         NEW gone, IsGone(gone), NEW b,
         Owes(q) > 0, ~IsHead(S[1]), b = S[1].bytes,
         Same(p, q), p.attachments = q.attachments, p.buffer = Append(q.buffer, b),
         Len(p.buffer) = p.attachments
  PROVE  /\ Whole(q, 0, S, gone) => Filled(p)
         /\ ~Spoiled(q, 0, S, gone)
<1>0. Len(q.buffer) \in Nat /\ q.buffer \in Seq(Bytes)
  BY DEF Packets
<1>1. /\ Len(p.buffer) = Len(q.buffer) + 1
      /\ \A j \in 1 .. Len(q.buffer) : p.buffer[j] = q.buffer[j]
      /\ p.buffer[Len(q.buffer) + 1] = b
  BY <1>0
<1>2. Owes(q) = 1 /\ Base(p) = Base(q) /\ p.num = q.num
  BY <1>0, <1>1 DEF Owes, Same, Packets
<1>3. 1 \in 1 .. Owes(q) /\ 0 + 1 = 1 /\ 1 \in 1 .. Len(S)
  BY <1>2
<1>4. ASSUME Whole(q, 0, S, gone) PROVE Filled(p)
  <2>1. S[1] = BinaryFrame(<<Base(q), q.num, Len(q.buffer) + 1>>)
    BY <1>3, <1>4 DEF Whole
  <2>2. b = <<Base(q), q.num, Len(q.buffer) + 1>>
    BY <2>1 DEF BinaryFrame
  <2>3. \A j \in 1 .. p.attachments : p.buffer[j] = <<Base(p), p.num, j>>
    <3> SUFFICES ASSUME NEW j \in 1 .. p.attachments PROVE p.buffer[j] = <<Base(p), p.num, j>>
      OBVIOUS
    <3>1. CASE j \in 1 .. Len(q.buffer)
      BY <1>1, <1>2, <1>4, <3>1 DEF Whole
    <3>2. CASE j = Len(q.buffer) + 1
      BY <1>1, <1>2, <2>2, <3>2
    <3> QED  BY <1>0, <1>1, <3>1, <3>2
  <2> QED  BY <2>3 DEF Filled
<1>5. ASSUME Spoiled(q, 0, S, gone) PROVE FALSE
  <2>1. PICK k \in 1 .. Owes(q) :
          IF 0 + k \in 1 .. Len(S) THEN IsHead(S[0 + k]) ELSE 0 + k \in gone \cup {Len(S) + 1}
    BY <1>5 DEF Spoiled
  <2>2. k = 1
    BY <1>2
  <2> QED  BY <1>3, <2>1, <2>2
<1> QED  BY <1>4, <1>5

\* The frame after the place n is lost.
LEMMA WholeLoses ==
  ASSUME NEW S, NEW T, Len(S) \in Nat, Len(T) \in Nat, Len(S) = Len(T) + 1,
         NEW n \in 0 .. Len(T),
         \A x \in 1 .. n : T[x] = S[x],
         \A x \in n + 1 .. Len(T) : T[x] = S[x + 1],
         NEW q \in Packets, NEW i \in Nat, Whole(q, i, S, {}),
         Owes(q) > 0 => i + Owes(q) \in 1 .. n \cup {Len(S)}
  PROVE  /\ i <= n => Whole(q, i, T, {}) \/ Spoiled(q, i, T, {})
         /\ i > n + 1 => Whole(q, i - 1, T, {})
<1>0. Owes(q) \in Int /\ Len(q.buffer) \in Nat
  BY DEF Owes, Packets
<1>1. \A k \in 1 .. Owes(q) :
        /\ i + k \in 1 .. Len(S)
        /\ S[i + k] = BinaryFrame(<<Base(q), q.num, Len(q.buffer) + k>>)
  BY <1>0 DEF Whole
<1>2. ASSUME i <= n, Owes(q) > 0 => i + Owes(q) <= n PROVE Whole(q, i, T, {})
  <2>1. \A k \in 1 .. Owes(q) : i + k \in 1 .. Len(T) /\ T[i + k] = S[i + k]
    <3> SUFFICES ASSUME NEW k \in 1 .. Owes(q)
                 PROVE  i + k \in 1 .. Len(T) /\ T[i + k] = S[i + k]
      OBVIOUS
    <3>1. i + k \in 1 .. n /\ i + k \in 1 .. Len(T)
      BY <1>0, <1>2
    <3> QED  BY <3>1
  <2> QED  BY <1>1, <2>1 DEF Whole
<1>3. ASSUME i <= n, Owes(q) > 0, i + Owes(q) = Len(S) PROVE Spoiled(q, i, T, {})
  <2>1. Owes(q) \in 1 .. Owes(q) /\ i + Owes(q) = Len(T) + 1 /\ i + Owes(q) \notin 1 .. Len(T)
    BY <1>0, <1>3
  <2> QED  BY <2>1 DEF Spoiled
<1>4. ASSUME i > n + 1 PROVE Whole(q, i - 1, T, {})
  <2>1. \A k \in 1 .. Owes(q) : (i - 1) + k \in 1 .. Len(T) /\ T[(i - 1) + k] = S[i + k]
    <3> SUFFICES ASSUME NEW k \in 1 .. Owes(q)
                 PROVE  (i - 1) + k \in 1 .. Len(T) /\ T[(i - 1) + k] = S[i + k]
      OBVIOUS
    <3>1. /\ i + k \in 1 .. Len(S) /\ (i - 1) + k + 1 = i + k
          /\ (i - 1) + k \in n + 1 .. Len(T) /\ (i - 1) + k \in 1 .. Len(T)
      BY <1>0, <1>1, <1>4
    <3> QED  BY <3>1
  <2> QED  BY <1>1, <2>1 DEF Whole
<1> QED  BY <1>0, <1>2, <1>3, <1>4

\* The packet at a place.  The packets of msgpack have all that they need.
Placed(q, i) ==
  /\ q \in Packets /\ Owes(q) \in Nat /\ i \in Nat
  /\ parser # "default" => Owes(q) = 0
  /\ i = 0 => Owes(q) > 0
  /\ i > 0 => q.buffer = <<>> /\ Len(q.buffer) = 0 /\ Owes(q) = q.attachments

LEMMA PlaceFacts ==
  ASSUME parser \in {"default", "msgpack"}, NEW L, Waits(L), NEW S \in Seq(FrameSet),
         NEW i \in 0 .. Len(S), IsPlace(L, S, i), NEW q, q = PacketAt(L, S, i)
  PROVE  Placed(q, i)
<1>1. CASE i = 0
  <2>1. L \in Seq(Packets) /\ L # <<>> /\ q = L[1]
    BY <1>1 DEF IsPlace, PacketAt, Waits
  <2>2. q \in Packets /\ parser = "default" /\ Len(q.buffer) < q.attachments
    BY <2>1 DEF Waits
  <2>3. Len(q.buffer) \in Nat /\ q.attachments \in Nat
    BY <2>2 DEF Packets
  <2> QED  BY <1>1, <2>2, <2>3 DEF Owes, Placed
<1>2. CASE i > 0
  <2>1. S[i] \in FrameSet /\ IsHead(S[i]) /\ q = S[i].packet
    BY <1>2 DEF IsPlace, PacketAt
  <2>2. q \in BarePackets /\ (parser # "default" => q \in PlainPackets)
    BY <2>1 DEF FrameSet, DefaultFrames, MsgpackFrames, PlainPackets, IsHead, EmptyFrame
  <2>3. /\ q \in Packets /\ q.buffer = <<>> /\ q.attachments \in Nat
        /\ parser # "default" => q.attachments = 0
    BY <2>2 DEF BarePackets, PlainPackets, Packets
  <2>4. Len(q.buffer) = 0
    <3>1. Len(<<>>) = 0
      OBVIOUS
    <3> QED  BY <2>3, <3>1, Zenon
  <2>5. Owes(q) = q.attachments
    BY <2>3, <2>4 DEF Owes
  <2> QED  BY <1>2, <2>3, <2>4, <2>5 DEF Placed
<1> QED  BY <1>1, <1>2

\* Two sequences one after the other.
LEMMA Joined ==
  ASSUME NEW F, NEW S \in Seq(F), NEW E \in Seq(F), NEW T, T = S \o E
  PROVE  /\ Len(S) \in Nat /\ Len(E) \in Nat /\ T \in Seq(F) /\ Len(T) = Len(S) + Len(E)
         /\ \A x \in 1 .. Len(S) : T[x] = S[x]
         /\ \A x \in 1 .. Len(E) : T[Len(S) + x] = E[x]
  OBVIOUS

\* A packet begins.
LEMMA StreamGrows ==
  ASSUME parser \in {"default", "msgpack"}, NEW L, Waits(L), NEW S \in Seq(FrameSet),
         NEW p, NEW E \in Seq(FrameSet), EncodedWell(E, p), NEW T, T = S \o E
  PROVE  /\ AllWhole(L, S, {}) => AllWhole(L, T, {})
         /\ WholeOrSpoiled(L, S, {}) => WholeOrSpoiled(L, T, {})
         /\ EndsWell(L, S, Len(S)) => EndsWell(L, T, Len(S))
<1>1. /\ Len(S) \in Nat /\ Len(E) \in Nat /\ T \in Seq(FrameSet) /\ Len(T) = Len(S) + Len(E)
      /\ \A x \in 1 .. Len(S) : T[x] = S[x]
      /\ \A x \in 1 .. Len(E) : T[Len(S) + x] = E[x]
  BY Joined
<1>2. Len(S) <= Len(T) /\ Len(T) \in Nat
  BY <1>1
<1>3. Len(S) < Len(T) /\ (parser = "default" => IsHead(T[Len(S) + 1]))
  <2>1. E # <<>> /\ (parser = "default" => IsHead(E[1]))
    BY DEF EncodedWell
  <2>2. Len(E) > 0 /\ 1 \in 1 .. Len(E)
    BY <1>1, <2>1
  <2> QED  BY <1>1, <2>1, <2>2
<1>4. ASSUME NEW i \in 0 .. Len(S), IsPlace(L, T, i)
      PROVE  IsPlace(L, S, i) /\ PacketAt(L, T, i) = PacketAt(L, S, i)
  BY <1>1, <1>4 DEF IsPlace, PacketAt
<1>5. ASSUME NEW i \in 0 .. Len(T), i \notin 0 .. Len(S), IsPlace(L, T, i),
             NEW q, q = PacketAt(L, T, i)
      PROVE  Whole(q, i, T, {}) /\ (Owes(q) > 0 => i + Owes(q) = Len(T))
  <2>1. PICK x \in 1 .. Len(E) : i = Len(S) + x
    <3>1. i - Len(S) \in 1 .. Len(E) /\ i = Len(S) + (i - Len(S))
      BY <1>1, <1>5
    <3> QED  BY <3>1
  <2>2. T[i] = E[x] /\ i > 0 /\ x \in DOMAIN E
    BY <1>1, <2>1
  <2>3. IsHead(E[x]) /\ q = E[x].packet
    BY <1>5, <2>2 DEF IsPlace, PacketAt
  <2>4. /\ q \in Packets /\ Len(q.buffer) = 0 /\ Owes(q) = q.attachments /\ Owes(q) \in Nat
    <3>1. T \in Seq(FrameSet)
      BY <1>1
    <3>2. Placed(q, i)
      BY <1>5, <3>1, PlaceFacts
    <3> QED  BY <2>2, <3>2 DEF Placed
  <2>5. CASE Owes(q) = 0
    <3>1. 1 .. Owes(q) = {} /\ 1 .. Len(q.buffer) = {}
      BY <2>4, <2>5
    <3>2. Whole(q, i, T, {})
      BY <3>1 DEF Whole
    <3>3. ~(Owes(q) > 0)
      BY <2>5
    <3> QED  BY <3>2, <3>3
  <2>6. CASE Owes(q) > 0
    <3>1. /\ x = 1 /\ Len(E) = 1 + Owes(q)
          /\ \A k \in 1 .. Owes(q) : E[1 + k] = BinaryFrame(<<p.type, p.num, k>>)
          /\ Base(q) = p.type /\ q.num = p.num
      BY <2>2, <2>3, <2>4, <2>6 DEF EncodedWell
    <3>2. i = Len(S) + 1
      BY <2>1, <3>1
    <3>3. i + Owes(q) = Len(T)
      <4>1. \A a, b \in Nat : (a + 1) + b = a + (1 + b)
        OBVIOUS
      <4> QED  BY <1>1, <2>4, <3>1, <3>2, <4>1, Zenon
    <3>4. \A k \in 1 .. Owes(q) :
            /\ i + k \in 1 .. Len(T) /\ Len(q.buffer) + k = k
            /\ T[i + k] = BinaryFrame(<<Base(q), q.num, k>>)
      <4> SUFFICES ASSUME NEW k \in 1 .. Owes(q)
                   PROVE  /\ i + k \in 1 .. Len(T) /\ Len(q.buffer) + k = k
                          /\ T[i + k] = BinaryFrame(<<Base(q), q.num, k>>)
        OBVIOUS
      <4>1. i + k = Len(S) + (1 + k) /\ 1 + k \in 1 .. Len(E)
        BY <1>1, <2>4, <3>1, <3>2
      <4>2. i + k \in 1 .. Len(T) /\ Len(q.buffer) + k = k
        BY <1>1, <2>4, <4>1
      <4>3. T[i + k] = E[1 + k]
        BY <1>1, <4>1
      <4> QED  BY <3>1, <4>2, <4>3
    <3>5. 1 .. Len(q.buffer) = {}
      BY <2>4
    <3> QED  BY <3>3, <3>4, <3>5 DEF Whole
  <2> QED  BY <2>4, <2>5, <2>6
<1>6. ASSUME NEW i \in 0 .. Len(S), IsPlace(L, S, i), NEW q, q = PacketAt(L, S, i)
      PROVE  /\ Whole(q, i, S, {}) => Whole(q, i, T, {})
             /\ Spoiled(q, i, S, {}) => Spoiled(q, i, T, {})
  <2>1. q \in Packets /\ (parser # "default" => Owes(q) = 0) /\ i \in Nat
    BY <1>6, PlaceFacts DEF Placed
  <2>2. Whole(q, i, S, {}) => Whole(q, i, T, {})
    BY <1>1, <1>2, <2>1, WholeGrows
  <2>3. parser = "default" => (Spoiled(q, i, S, {}) => Spoiled(q, i, T, {}))
    BY <1>1, <1>2, <1>3, <2>1, WholeGrows
  <2>4. parser # "default" => ~Spoiled(q, i, S, {})
    BY <2>1 DEF Spoiled
  <2> QED  BY <2>2, <2>3, <2>4
<1>7. ASSUME AllWhole(L, S, {}) PROVE AllWhole(L, T, {})
  BY <1>4, <1>5, <1>6, <1>7 DEF AllWhole
<1>8. ASSUME WholeOrSpoiled(L, S, {}) PROVE WholeOrSpoiled(L, T, {})
  BY <1>4, <1>5, <1>6, <1>8 DEF WholeOrSpoiled
<1>9. ASSUME EndsWell(L, S, Len(S)) PROVE EndsWell(L, T, Len(S))
  <2> SUFFICES ASSUME NEW i \in 0 .. Len(T), IsPlace(L, T, i), NEW q, q = PacketAt(L, T, i),
                      Owes(q) > 0
               PROVE  i + Owes(q) \in 1 .. Len(S) \cup {Len(T)}
    BY DEF EndsWell
  <2>1. CASE i \in 0 .. Len(S)
    <3>1. IsPlace(L, S, i) /\ q = PacketAt(L, S, i)
      BY <1>4, <2>1
    <3>2. i + Owes(q) \in 1 .. Len(S) \cup {Len(S)}
      BY <1>9, <2>1, <3>1 DEF EndsWell
    <3>3. Owes(q) \in Nat /\ i \in Nat
      BY <2>1, <3>1, PlaceFacts DEF Placed
    <3> QED  BY <1>1, <3>2, <3>3
  <2>2. CASE i \notin 0 .. Len(S)
    BY <1>5, <2>2
  <2> QED  BY <2>1, <2>2
<1> QED  BY <1>7, <1>8, <1>9

\* The engine is closed.
LEMMA StreamCut ==
  ASSUME parser \in {"default", "msgpack"}, NEW L, Waits(L), NEW S \in Seq(FrameSet),
         NEW E \in Seq(FrameSet), NEW T, T = S \o E
  PROVE  /\ AllWhole(L, T, {}) => AllWhole(L, S, Nat)
         /\ WholeOrSpoiled(L, T, {}) => WholeOrSpoiled(L, S, Nat)
<1>1. /\ Len(S) \in Nat /\ Len(E) \in Nat /\ T \in Seq(FrameSet) /\ Len(T) = Len(S) + Len(E)
      /\ \A x \in 1 .. Len(S) : T[x] = S[x]
  BY Joined
<1>2. Len(S) <= Len(T) /\ Len(T) \in Nat
  BY <1>1
<1>3. ASSUME NEW i \in 0 .. Len(S), IsPlace(L, S, i), NEW q, q = PacketAt(L, S, i)
      PROVE  /\ i \in 0 .. Len(T) /\ IsPlace(L, T, i) /\ q = PacketAt(L, T, i)
             /\ Whole(q, i, T, {}) => Whole(q, i, S, Nat)
             /\ Spoiled(q, i, T, {}) => Spoiled(q, i, S, Nat)
  <2>1. i \in 0 .. Len(T) /\ IsPlace(L, T, i) /\ q = PacketAt(L, T, i)
    BY <1>1, <1>2, <1>3 DEF IsPlace, PacketAt
  <2>2. q \in Packets /\ i \in Nat
    BY <1>3, PlaceFacts DEF Placed
  <2> QED  BY <1>1, <1>2, <2>1, <2>2, WholeCut
<1>4. ASSUME AllWhole(L, T, {}) PROVE AllWhole(L, S, Nat)
  BY <1>3, <1>4 DEF AllWhole
<1>5. ASSUME WholeOrSpoiled(L, T, {}) PROVE WholeOrSpoiled(L, S, Nat)
  BY <1>3, <1>5 DEF WholeOrSpoiled
<1> QED  BY <1>4, <1>5

\* A frame that its sender has handed over is lost.
LEMMA StreamLoses ==
  ASSUME parser \in {"default", "msgpack"}, NEW L, Waits(L), NEW W \in Seq(FrameSet),
         NEW O \in Seq(FrameSet), O # <<>>, NEW S, S = W \o O, NEW T, T = W \o Tail(O),
         AllWhole(L, S, {}), EndsWell(L, S, Len(W))
  PROVE  WholeOrSpoiled(L, T, {})
<1> DEFINE n == Len(W)
<1>1. /\ n \in Nat /\ Len(O) \in Nat /\ S \in Seq(FrameSet) /\ Len(S) = n + Len(O)
      /\ \A x \in 1 .. n : S[x] = W[x]
      /\ \A x \in 1 .. Len(O) : S[n + x] = O[x]
  BY Joined
<1>2. /\ Tail(O) \in Seq(FrameSet) /\ Len(Tail(O)) = Len(O) - 1
      /\ \A x \in 1 .. Len(O) - 1 : Tail(O)[x] = O[x + 1]
  OBVIOUS
<1>3. /\ T \in Seq(FrameSet) /\ Len(T) = n + Len(Tail(O))
      /\ \A x \in 1 .. n : T[x] = W[x]
      /\ \A x \in 1 .. Len(Tail(O)) : T[n + x] = Tail(O)[x]
  BY <1>2, Joined
<1>4. Len(O) > 0 /\ Len(S) \in Nat /\ Len(T) \in Nat /\ Len(S) = Len(T) + 1 /\ n \in 0 .. Len(T)
  <2>1. Len(O) > 0
    BY <1>1
  <2> QED  BY ONLY <1>1, <1>2, <1>3, <2>1
<1>5. \A x \in 1 .. n : T[x] = S[x]
  BY <1>1, <1>3
<1>6. \A x \in n + 1 .. Len(T) : T[x] = S[x + 1]
  <2> SUFFICES ASSUME NEW x \in n + 1 .. Len(T) PROVE T[x] = S[x + 1]
    OBVIOUS
  <2>1. PICK y \in 1 .. Len(O) - 1 : x = n + y
    <3>1. x - n \in 1 .. Len(O) - 1 /\ x = n + (x - n)
      BY ONLY <1>1, <1>2, <1>3, <1>4, x \in n + 1 .. Len(T)
    <3> QED  BY <3>1
  <2>2. y + 1 \in 1 .. Len(O) /\ n + (y + 1) = x + 1 /\ y \in 1 .. Len(Tail(O))
    BY ONLY <1>1, <1>2, <2>1, y \in 1 .. Len(O) - 1
  <2>3. S[x + 1] = O[y + 1]
    BY <1>1, <2>2
  <2>4. T[x] = Tail(O)[y] /\ Tail(O)[y] = O[y + 1]
    BY <1>2, <1>3, <2>1, <2>2
  <2> QED  BY <2>3, <2>4
<1> HIDE DEF n
<1>7. ASSUME NEW i \in 0 .. Len(S), IsPlace(L, S, i), NEW q, q = PacketAt(L, S, i)
      PROVE  /\ i <= n => Whole(q, i, T, {}) \/ Spoiled(q, i, T, {})
             /\ i > n + 1 => Whole(q, i - 1, T, {})
  <2>1. q \in Packets /\ i \in Nat
    <3>1. S \in Seq(FrameSet)
      BY <1>1
    <3>2. Placed(q, i)
      BY <1>7, <3>1, PlaceFacts
    <3> QED  BY <3>2 DEF Placed
  <2>2. Whole(q, i, S, {}) /\ (Owes(q) > 0 => i + Owes(q) \in 1 .. n \cup {Len(S)})
    BY <1>7 DEF AllWhole, EndsWell, n
  <2> QED  BY <1>1, <1>4, <1>5, <1>6, <2>1, <2>2, WholeLoses
<1> SUFFICES ASSUME NEW i \in 0 .. Len(T), IsPlace(L, T, i), NEW q, q = PacketAt(L, T, i)
             PROVE  Whole(q, i, T, {}) \/ Spoiled(q, i, T, {})
  BY DEF WholeOrSpoiled
<1>8. CASE i <= n
  <2>1. i \in 0 .. Len(S) /\ (i > 0 => T[i] = S[i])
    BY <1>1, <1>4, <1>5, <1>8
  <2>2. IsPlace(L, S, i) /\ q = PacketAt(L, S, i)
    BY <2>1 DEF IsPlace, PacketAt
  <2> QED  BY <1>7, <1>8, <2>1, <2>2
<1>9. CASE i > n
  <2>1. /\ i + 1 \in 0 .. Len(S) /\ i # 0 /\ i + 1 # 0 /\ i + 1 > n + 1 /\ (i + 1) - 1 = i
        /\ i \in n + 1 .. Len(T)
    BY <1>1, <1>4, <1>9
  <2>2. T[i] = S[i + 1]
    BY <1>6, <2>1
  <2>3. IsPlace(L, S, i + 1) /\ q = PacketAt(L, S, i + 1)
    BY <2>1, <2>2 DEF IsPlace, PacketAt
  <2> QED  BY <1>7, <2>1, <2>3
<1> QED  BY <1>1, <1>8, <1>9

\* A frame is received.
LEMMA StreamTakes ==
  ASSUME parser \in {"default", "msgpack"}, NEW L, Waits(L), NEW S \in Seq(FrameSet), S # <<>>,
         NEW T, T = Tail(S), NEW f, f = S[1], NEW gone, IsGone(gone), NEW r, Waits(r.last),
         \/ AddKeeps(L, f, r) \/ AddStarts(f, r) \/ AddPasses(f, r)
         \/ AddFills(L, f, r) \/ AddCompletes(L, f, r)
  PROVE  /\ AllWhole(L, S, gone) =>
              /\ AllWhole(r.last, T, gone)
              /\ \A n \in 1 .. Len(S) : EndsWell(L, S, n) => EndsWell(r.last, T, n - 1)
              /\ \A q : r.out = <<q>> => Filled(q)
         /\ WholeOrSpoiled(L, S, gone) =>
              \/ f.kind = "string" /\ ~r.ok
              \/ WholeOrSpoiled(r.last, T, gone) /\ \A q : r.out = <<q>> => Filled(q)
<1>1. /\ Len(S) \in Nat /\ Len(T) \in Nat /\ Len(S) = Len(T) + 1 /\ T \in Seq(FrameSet)
      /\ \A x \in 1 .. Len(T) : T[x] = S[x + 1]
  OBVIOUS
<1>s. Shifted(S, T)
  BY <1>1 DEF Shifted
<1>e. \A q : <<q>> # <<>> /\ \A p : <<p>> = <<q>> => p = q
  <2>1. \A q : <<q>> # <<>> /\ <<q>>[1] = q
    OBVIOUS
  <2> QED  BY <2>1, Zenon
\* The packets whose heads remain.
<1>2. ASSUME NEW M, NEW i \in 0 .. Len(T), i # 0, IsPlace(M, T, i), NEW q, q = PacketAt(M, T, i)
      PROVE  /\ i + 1 \in 0 .. Len(S) /\ IsPlace(L, S, i + 1) /\ q = PacketAt(L, S, i + 1)
             /\ q \in Packets /\ Owes(q) \in Nat /\ i \in Nat
             /\ Whole(q, i + 1, S, gone) => Whole(q, i, T, gone)
             /\ Spoiled(q, i + 1, S, gone) => Spoiled(q, i, T, gone)
  <2>1. i + 1 \in 0 .. Len(S) /\ i + 1 # 0 /\ i \in Nat /\ T[i] = S[i + 1]
    BY <1>1, <1>2
  <2>2. IsPlace(L, S, i + 1) /\ q = PacketAt(L, S, i + 1)
    BY <1>2, <2>1 DEF IsPlace, PacketAt
  <2>3. Placed(q, i + 1)
    BY <2>1, <2>2, PlaceFacts
  <2>4. q \in Packets /\ Owes(q) \in Nat
    BY <2>3 DEF Placed
  <2>5. /\ Whole(q, i + 1, S, gone) => Whole(q, i, T, gone)
        /\ Spoiled(q, i + 1, S, gone) => Spoiled(q, i, T, gone)
    BY <1>s, <2>1, <2>4, WholeShifts, Zenon
  <2> QED  BY <2>1, <2>2, <2>4, <2>5
\* The packet that waits before and after.
<1>3. ASSUME NEW p \in Packets, IsHead(f), Same(p, f.packet),
             p.attachments = f.packet.attachments, p.buffer = <<>>
      PROVE  /\ 1 \in 0 .. Len(S) /\ IsPlace(L, S, 1) /\ f.packet = PacketAt(L, S, 1)
             /\ Owes(p) = Owes(f.packet)
             /\ Whole(f.packet, 1, S, gone) => Whole(p, 0, T, gone)
             /\ Spoiled(f.packet, 1, S, gone) => Spoiled(p, 0, T, gone)
  <2>1. 1 \in 0 .. Len(S) /\ IsPlace(L, S, 1) /\ f.packet = PacketAt(L, S, 1)
    BY <1>1, <1>3 DEF IsPlace, PacketAt
  <2>2. PICK h : h = f.packet
    OBVIOUS
  <2>3. Placed(h, 1)
    BY <2>1, <2>2, PlaceFacts
  <2>4. h \in Packets /\ h.buffer = <<>> /\ Same(p, h) /\ p.attachments = h.attachments
    BY <1>3, <2>2, <2>3 DEF Placed
  <2>5. p.buffer = h.buffer /\ Owes(p) = Owes(h) /\ Base(p) = Base(h) /\ p.num = h.num
    BY <1>3, <2>4 DEF Owes, Same
  <2>6. /\ Whole(h, 0, T, gone) => Whole(p, 0, T, gone)
        /\ Spoiled(h, 0, T, gone) => Spoiled(p, 0, T, gone)
    BY <2>5 DEF Whole, Spoiled
  <2>7. 0 \in Nat /\ 0 + 1 = 1
    OBVIOUS
  <2>8. /\ Whole(h, 0 + 1, S, gone) => Whole(h, 0, T, gone)
        /\ Spoiled(h, 0 + 1, S, gone) => Spoiled(h, 0, T, gone)
    BY <1>s, <2>4, <2>7, WholeShifts, Zenon
  <2> QED  BY <2>1, <2>2, <2>5, <2>6, <2>7, <2>8
<1>4. ASSUME L # <<>>
      PROVE  /\ 0 \in 0 .. Len(S) /\ IsPlace(L, S, 0) /\ L[1] = PacketAt(L, S, 0)
             /\ L[1] \in Packets /\ Owes(L[1]) > 0 /\ Owes(L[1]) \in Nat
  <2>1. 0 \in 0 .. Len(S) /\ IsPlace(L, S, 0) /\ L[1] = PacketAt(L, S, 0)
    BY <1>1, <1>4 DEF IsPlace, PacketAt
  <2>2. Placed(L[1], 0)
    BY <2>1, PlaceFacts
  <2> QED  BY <2>1, <2>2 DEF Placed
<1>5. ASSUME NEW M, IsPlace(M, T, 0), NEW p, M = <<p>> PROVE PacketAt(M, T, 0) = p
  <2>1. <<p>>[1] = p
    OBVIOUS
  <2> QED  BY <1>5, <2>1 DEF PacketAt
<1>6. ASSUME NEW p, AddFills(L, f, r), r.last = <<p>>
      PROVE  /\ L # <<>> /\ p \in Packets /\ Owes(p) = Owes(L[1]) - 1
             /\ Whole(L[1], 0, S, gone) => Whole(p, 0, T, gone)
             /\ Spoiled(L[1], 0, S, gone) => Spoiled(p, 0, T, gone)
  <2>1. /\ ~IsHead(f) /\ L # <<>> /\ p \in Packets /\ Same(p, L[1])
        /\ p.attachments = L[1].attachments /\ p.buffer = Append(L[1].buffer, f.bytes)
    BY <1>6, <1>e, Zenon DEF AddFills
  <2>2. PICK q : q = L[1]
    OBVIOUS
  <2>3. q \in Packets /\ Owes(q) > 0
    BY <1>4, <2>1, <2>2
  <2>4. PICK b : b = S[1].bytes
    OBVIOUS
  <2>5. /\ ~IsHead(S[1]) /\ Same(p, q) /\ p.attachments = q.attachments
        /\ p.buffer = Append(q.buffer, b)
    BY <2>1, <2>2, <2>4
  <2>6. /\ Whole(q, 0, S, gone) => Whole(p, 0, T, gone)
        /\ Spoiled(q, 0, S, gone) => Spoiled(p, 0, T, gone)
    BY <1>s, <2>1, <2>3, <2>4, <2>5, WholeFills, Zenon
  <2>7. Owes(p) = Owes(q) - 1
    <3>1. q.buffer \in Seq(Bytes) /\ q.attachments \in Nat
      BY <2>3 DEF Packets
    <3>2. Len(Append(q.buffer, b)) = Len(q.buffer) + 1 /\ Len(q.buffer) \in Nat
      BY <3>1
    <3> QED  BY <2>5, <3>1, <3>2 DEF Owes
  <2> QED  BY <2>1, <2>2, <2>6, <2>7
<1>7. ASSUME NEW p, AddCompletes(L, f, r), r.out = <<p>>
      PROVE  /\ L # <<>>
             /\ Whole(L[1], 0, S, gone) => Filled(p)
             /\ ~Spoiled(L[1], 0, S, gone)
  <2>1. /\ ~IsHead(f) /\ L # <<>> /\ p \in Packets /\ Same(p, L[1])
        /\ p.attachments = L[1].attachments /\ p.buffer = Append(L[1].buffer, f.bytes)
        /\ Len(p.buffer) = p.attachments
    BY <1>7, <1>e, Zenon DEF AddCompletes
  <2>2. PICK q : q = L[1]
    OBVIOUS
  <2>3. q \in Packets /\ Owes(q) > 0
    BY <1>4, <2>1, <2>2
  <2>4. PICK b : b = S[1].bytes
    OBVIOUS
  <2>5. /\ ~IsHead(S[1]) /\ Same(p, q) /\ p.attachments = q.attachments
        /\ p.buffer = Append(q.buffer, b)
    BY <2>1, <2>2, <2>4
  <2>6. Len(S) > 0
    BY <1>1
  <2>7. (Whole(q, 0, S, gone) => Filled(p)) /\ ~Spoiled(q, 0, S, gone)
    BY <1>1, <2>1, <2>3, <2>4, <2>5, <2>6, WholeCompletes
  <2> QED  BY <2>1, <2>2, <2>7
<1>8. ASSUME NEW p, AddPasses(f, r), r.out = <<p>> PROVE Filled(p)
  <2>1. p.attachments = 0 /\ p.buffer = <<>>
    BY <1>8, <1>e, Zenon DEF AddPasses
  <2>2. Len(<<>>) = 0 /\ 1 .. 0 = {}
    OBVIOUS
  <2>3. Len(p.buffer) = 0
    BY <2>1, <2>2, Zenon
  <2> QED  BY <2>1, <2>2, <2>3 DEF Filled
\* A packet that remains, and the same packet before.
<1>9. ASSUME NEW i \in 0 .. Len(T), IsPlace(r.last, T, i), NEW p, p = PacketAt(r.last, T, i),
             i # 0 \/ ~AddKeeps(L, f, r)
      PROVE  \E j \in 0 .. Len(S) : \E q :
               /\ IsPlace(L, S, j) /\ q = PacketAt(L, S, j)
               /\ Owes(p) \in Nat /\ j + Owes(q) = (i + Owes(p)) + 1
               /\ Owes(p) > 0 => Owes(q) > 0
               /\ Whole(q, j, S, gone) => Whole(p, i, T, gone)
               /\ Spoiled(q, j, S, gone) => Spoiled(p, i, T, gone)
  <2>0. Owes(p) \in Nat
    <3>1. T \in Seq(FrameSet)
      BY <1>1
    <3>2. Placed(p, i)
      BY <1>9, <3>1, PlaceFacts
    <3> QED  BY <3>2 DEF Placed
  <2>1. CASE i # 0
    <3>1. /\ i + 1 \in 0 .. Len(S) /\ IsPlace(L, S, i + 1) /\ p = PacketAt(L, S, i + 1)
          /\ i \in Nat
          /\ Whole(p, i + 1, S, gone) => Whole(p, i, T, gone)
          /\ Spoiled(p, i + 1, S, gone) => Spoiled(p, i, T, gone)
      BY <1>2, <1>9, <2>1
    <3>2. (i + 1) + Owes(p) = (i + Owes(p)) + 1
      BY <2>0, <3>1
    <3> QED  BY <2>0, <3>1, <3>2
  <2>2. CASE i = 0
    <3>1. r.last # <<>>
      BY <1>9, <2>2 DEF IsPlace
    <3>2. AddStarts(f, r) \/ AddFills(L, f, r)
      BY <1>9, <2>2, <3>1 DEF AddPasses, AddCompletes
    <3>3. CASE AddStarts(f, r)
      <4>1. PICK q \in Packets : /\ r.last = <<q>> /\ Same(q, f.packet) /\ IsHead(f)
                                 /\ q.attachments = f.packet.attachments /\ q.buffer = <<>>
        BY <3>3 DEF AddStarts
      <4>2. p = q
        BY <1>5, <1>9, <2>2, <4>1
      <4>3. /\ 1 \in 0 .. Len(S) /\ IsPlace(L, S, 1) /\ f.packet = PacketAt(L, S, 1)
            /\ Owes(p) = Owes(f.packet)
            /\ Whole(f.packet, 1, S, gone) => Whole(p, 0, T, gone)
            /\ Spoiled(f.packet, 1, S, gone) => Spoiled(p, 0, T, gone)
        BY <1>3, <4>1, <4>2
      <4>4. 1 + Owes(f.packet) = (0 + Owes(p)) + 1
        BY <2>0, <4>3
      <4> QED  BY <2>0, <2>2, <4>3, <4>4
    <3>4. CASE AddFills(L, f, r)
      <4>1. PICK q : r.last = <<q>>
        BY <3>4 DEF AddFills
      <4>2. p = q
        BY <1>5, <1>9, <2>2, <4>1
      <4>3. /\ L # <<>> /\ Owes(p) = Owes(L[1]) - 1
            /\ Whole(L[1], 0, S, gone) => Whole(p, 0, T, gone)
            /\ Spoiled(L[1], 0, S, gone) => Spoiled(p, 0, T, gone)
        BY <1>6, <3>4, <4>1, <4>2
      <4>4. /\ 0 \in 0 .. Len(S) /\ IsPlace(L, S, 0) /\ L[1] = PacketAt(L, S, 0)
            /\ Owes(L[1]) > 0 /\ Owes(L[1]) \in Nat
        BY <1>4, <4>3
      <4>5. 0 + Owes(L[1]) = (0 + Owes(p)) + 1
        BY <4>3, <4>4
      <4> QED  BY <2>0, <2>2, <4>3, <4>4, <4>5
    <3> QED  BY <3>2, <3>3, <3>4
  <2> QED  BY <2>1, <2>2
\* While a packet waits that is whole, no head comes.
<1>10. ASSUME L # <<>>, Whole(L[1], 0, S, gone) PROVE ~IsHead(f)
  <2>1. 1 \in 1 .. Owes(L[1]) /\ 0 + 1 = 1 /\ 1 \in 1 .. Len(S)
    BY <1>1, <1>4, <1>10
  <2>2. PICK b : S[1] = BinaryFrame(b)
    BY <1>10, <2>1 DEF Whole
  <2> QED  BY <2>2 DEF BinaryFrame, IsHead
<1>11. ASSUME AllWhole(L, S, gone)
       PROVE  /\ AllWhole(r.last, T, gone)
              /\ \A n \in 1 .. Len(S) : EndsWell(L, S, n) => EndsWell(r.last, T, n - 1)
              /\ \A q : r.out = <<q>> => Filled(q)
  <2>1. ASSUME NEW i \in 0 .. Len(T), IsPlace(r.last, T, i) PROVE i # 0 \/ ~AddKeeps(L, f, r)
    <3> SUFFICES ASSUME i = 0, AddKeeps(L, f, r) PROVE FALSE
      OBVIOUS
    <3>1. L # <<>> /\ IsHead(f)
      BY <2>1 DEF AddKeeps, IsPlace
    <3>2. Whole(L[1], 0, S, gone)
      BY <1>4, <1>11, <3>1 DEF AllWhole
    <3> QED  BY <1>10, <3>1, <3>2
  <2>2. AllWhole(r.last, T, gone)
    <3> SUFFICES ASSUME NEW i \in 0 .. Len(T), IsPlace(r.last, T, i),
                        NEW p, p = PacketAt(r.last, T, i)
                 PROVE  Whole(p, i, T, gone)
      BY DEF AllWhole
    <3> QED  BY <1>9, <1>11, <2>1 DEF AllWhole
  <2>3. ASSUME NEW n \in 1 .. Len(S), EndsWell(L, S, n) PROVE EndsWell(r.last, T, n - 1)
    <3> SUFFICES ASSUME NEW i \in 0 .. Len(T), IsPlace(r.last, T, i),
                        NEW p, p = PacketAt(r.last, T, i), Owes(p) > 0
                 PROVE  i + Owes(p) \in 1 .. (n - 1) \cup {Len(T)}
      BY DEF EndsWell
    <3>0. PICK j \in 0 .. Len(S) : \E q :
            /\ IsPlace(L, S, j) /\ q = PacketAt(L, S, j) /\ Owes(p) \in Nat
            /\ j + Owes(q) = (i + Owes(p)) + 1 /\ Owes(q) > 0
      BY <1>9, <2>1
    <3>1. PICK q :
            /\ IsPlace(L, S, j) /\ q = PacketAt(L, S, j) /\ Owes(p) \in Nat
            /\ j + Owes(q) = (i + Owes(p)) + 1 /\ Owes(q) > 0
      BY <3>0
    <3>2. (i + Owes(p)) + 1 \in 1 .. n \cup {Len(S)}
      BY <2>3, <3>1 DEF EndsWell
    <3>3. PICK m \in Nat : m = i + Owes(p) /\ m > 0
      BY <3>1
    <3> QED  BY <1>1, <3>2, <3>3
  <2>4. ASSUME NEW q, r.out = <<q>> PROVE Filled(q)
    <3>1. AddPasses(f, r) \/ AddCompletes(L, f, r)
      BY <1>e, <2>4 DEF AddKeeps, AddStarts, AddFills
    <3>2. L # <<>> => Whole(L[1], 0, S, gone)
      BY <1>4, <1>11 DEF AllWhole
    <3> QED  BY <1>7, <1>8, <2>4, <3>1, <3>2
  <2> QED  BY <2>2, <2>3, <2>4
<1>12. ASSUME WholeOrSpoiled(L, S, gone), ~(f.kind = "string" /\ ~r.ok)
       PROVE  WholeOrSpoiled(r.last, T, gone) /\ \A q : r.out = <<q>> => Filled(q)
  <2>1. ASSUME NEW i \in 0 .. Len(T), IsPlace(r.last, T, i) PROVE i # 0 \/ ~AddKeeps(L, f, r)
    BY <1>12, <2>1 DEF AddKeeps, IsPlace
  <2>2. WholeOrSpoiled(r.last, T, gone)
    <3> SUFFICES ASSUME NEW i \in 0 .. Len(T), IsPlace(r.last, T, i),
                        NEW p, p = PacketAt(r.last, T, i)
                 PROVE  Whole(p, i, T, gone) \/ Spoiled(p, i, T, gone)
      BY DEF WholeOrSpoiled
    <3> QED  BY <1>9, <1>12, <2>1 DEF WholeOrSpoiled
  <2>3. ASSUME NEW q, r.out = <<q>> PROVE Filled(q)
    <3>1. AddPasses(f, r) \/ AddCompletes(L, f, r)
      BY <1>e, <2>3 DEF AddKeeps, AddStarts, AddFills
    <3>2. L # <<>> => Whole(L[1], 0, S, gone) \/ Spoiled(L[1], 0, S, gone)
      BY <1>4, <1>12 DEF WholeOrSpoiled
    <3> QED  BY <1>7, <1>8, <2>3, <3>1, <3>2
  <2> QED  BY <2>2, <2>3
<1> QED  BY <1>11, <1>12

-----------------------------------------------------------------------------
(* Packets come out whole.                                                 *)

LEMMA Moved ==
  ASSUME NEW F, NEW W \in Seq(F), NEW O \in Seq(F), O # <<>>
  PROVE  Append(W, Head(O)) \o Tail(O) = W \o O
<1>1. PICK x \in F, T \in Seq(F) : x = Head(O) /\ T = Tail(O)
  BY HeadTailProperties
<1>2. O = <<x>> \o T /\ <<x>> \in Seq(F)
  BY <1>1
<1>3. Append(W, x) = W \o <<x>>
  BY <1>1, AppendIsConcat
<1>4. (W \o <<x>>) \o T = W \o (<<x>> \o T)
  BY <1>1, <1>2, ConcatAssociative
<1> QED  BY <1>1, <1>2, <1>3, <1>4

LEMMA Taken ==
  ASSUME NEW F, NEW W \in Seq(F), NEW O \in Seq(F), W # <<>>
  PROVE  /\ W \o O \in Seq(F) /\ W \o O # <<>> /\ (W \o O)[1] = Head(W)
         /\ Tail(W \o O) = Tail(W) \o O
         /\ Len(W) \in 1 .. Len(W \o O) /\ Len(Tail(W)) = Len(W) - 1
<1>1. PICK x \in F, T \in Seq(F) : x = Head(W) /\ T = Tail(W)
  BY HeadTailProperties
<1>2. W = <<x>> \o T /\ <<x>> \in Seq(F)
  BY <1>1
<1>3. PICK U \in Seq(F) : U = T \o O
  BY <1>1, ConcatProperties
<1>4. W \o O = <<x>> \o U
  BY <1>1, <1>2, <1>3, ConcatAssociative
<1>5. (<<x>> \o U) # <<>> /\ (<<x>> \o U)[1] = x /\ Tail(<<x>> \o U) = U
  OBVIOUS
<1>6. W \o O \in Seq(F) /\ Len(W) \in 1 .. Len(W \o O) /\ Len(Tail(W)) = Len(W) - 1
  OBVIOUS
<1> QED  BY <1>1, <1>3, <1>4, <1>5, <1>6

\* A refusal stays.
LEMMA Refuses ==
  /\ refused' = refused => (Refusal' <=> Refusal)
  /\ \A f : refused' = refused \cup {f} => (Refusal' <=> Refusal \/ f.kind = "string")
  BY DEF Refusal

\* A stream to which nothing happens; frames may be lost elsewhere, and a closed engine
\* takes no more of them.
LEMMA WholeStays ==
  ASSUME NEW c, NEW s \in Peers, WholeAt(c, s),
         wire'[s] = wire[s], lastp'[s] = lastp[s], decoded'[s] = decoded[s], closed' = closed,
         closed \/ outq'[Source(c, Other(s))] = outq[Source(c, Other(s))],
         lost' = 0 => lost = 0, Refusal => Refusal', lost = 0 \/ lost' = lost
  PROVE  WholeAt(c, s)'
<1>1. ToCome(c, s)' = ToCome(c, s) /\ Gone' = Gone
  BY DEF ToCome, Gone
<1> QED  BY <1>1 DEF WholeAt

\* A packet begins.
LEMMA WholeBegins ==
  ASSUME FramesInv, NEW c, Senders = {c}, NEW s \in Peers, WholeAt(c, s),
         outq[Source(c, Other(s))] = <<>>, NEW p, NEW E, EncodedWell(E, p),
         wire'[s] = wire[s], lastp'[s] = lastp[s], decoded'[s] = decoded[s],
         closed' = closed, lost' = lost, Refusal => Refusal',
         outq'[Source(c, Other(s))] = E
  PROVE  WholeAt(c, s)'
<1>1. CASE closed
  <2>1. ToCome(c, s)' = ToCome(c, s) /\ Gone' = Gone
    BY <1>1 DEF ToCome, Gone
  <2> QED  BY <2>1 DEF WholeAt
<1>2. CASE ~closed
  <2>1. PICK S \in Seq(FrameSet) : S = wire[s]
    BY DEF FramesInv, FramesTypeOK
  <2>2. S \o <<>> = S
    BY ConcatEmptySeq
  <2>3. PICK T : T = S \o E
    OBVIOUS
  <2>4. ToCome(c, s) = S /\ ToCome(c, s)' = T /\ Gone = {} /\ Gone' = {}
    BY <1>2, <2>1, <2>2, <2>3 DEF ToCome, Gone
  <2>5. E \in Seq(FrameSet) /\ Waits(lastp[s]) /\ parser \in {"default", "msgpack"}
    BY DEF FramesInv, FramesTypeOK, EncodedWell
  <2>6. PICK L : L = lastp[s] /\ Waits(L)
    BY <2>5
  <2>7. /\ AllWhole(L, S, {}) => AllWhole(L, T, {})
        /\ WholeOrSpoiled(L, S, {}) => WholeOrSpoiled(L, T, {})
        /\ EndsWell(L, S, Len(S)) => EndsWell(L, T, Len(S))
    BY <2>3, <2>5, <2>6, StreamGrows
  <2> QED  BY <1>2, <2>1, <2>4, <2>6, <2>7 DEF WholeAt
<1> QED  BY <1>1, <1>2

\* A frame is submitted, or lost.
LEMMA WholeSubmits ==
  ASSUME FramesInv, NEW c, Senders = {c}, NEW s \in Peers, WholeAt(c, s), ~closed,
         NEW O, O = outq[Source(c, Other(s))], O # <<>>,
         lastp'[s] = lastp[s], decoded'[s] = decoded[s], closed' = closed, Refusal => Refusal',
         outq'[Source(c, Other(s))] = Tail(O),
         \/ wire'[s] = Append(wire[s], Head(O)) /\ lost' = lost
         \/ wire'[s] = wire[s] /\ lost = 0 /\ lost' = 1
  PROVE  WholeAt(c, s)'
<1>1. PICK W \in Seq(FrameSet) : W = wire[s]
  BY DEF FramesInv, FramesTypeOK
<1>2. O \in Seq(FrameSet) /\ Waits(lastp[s]) /\ parser \in {"default", "msgpack"}
  <2>1. Source(c, Other(s)) \in Goroutines
    BY SoleSender, TwoPeers
  <2> QED  BY <2>1 DEF FramesInv, FramesTypeOK
<1>3. PICK L : L = lastp[s] /\ Waits(L)
  BY <1>2
<1>4. PICK S : S = W \o O
  OBVIOUS
<1>5. ToCome(c, s) = S /\ Gone = {} /\ Gone' = {}
  BY <1>1, <1>4 DEF ToCome, Gone
<1>6. CASE wire'[s] = Append(wire[s], Head(O)) /\ lost' = lost
  <2>1. Append(W, Head(O)) \o Tail(O) = S
    BY <1>2, <1>4, Moved
  <2>2. ToCome(c, s)' = S
    BY <1>1, <1>6, <2>1 DEF ToCome
  <2>3. Len(Append(W, Head(O))) = Len(W) + 1 /\ Len(W) \in Nat
    OBVIOUS
  <2>4. ASSUME EndsWell(L, S, Len(W)) PROVE EndsWell(L, S, Len(W) + 1)
    <3>1. \A x : x \in 1 .. Len(W) \cup {Len(S)} => x \in 1 .. (Len(W) + 1) \cup {Len(S)}
      BY <2>3
    <3> QED  BY <2>4, <3>1, Zenon DEF EndsWell
  <2> QED  BY <1>1, <1>3, <1>5, <1>6, <2>2, <2>3, <2>4 DEF WholeAt
<1>7. CASE wire'[s] = wire[s] /\ lost = 0 /\ lost' = 1
  <2>1. PICK T : T = W \o Tail(O)
    OBVIOUS
  <2>2. ToCome(c, s)' = T
    BY <1>1, <1>7, <2>1 DEF ToCome
  <2>3. AllWhole(L, S, {}) /\ EndsWell(L, S, Len(W))
    BY <1>1, <1>3, <1>5, <1>7 DEF WholeAt
  <2>4. WholeOrSpoiled(L, T, {})
    BY <1>2, <1>3, <1>4, <2>1, <2>3, StreamLoses
  <2>5. \A k \in DOMAIN decoded[s] : Filled(decoded[s][k])
    BY <1>7 DEF WholeAt
  <2>6. ~(lost' = 0)
    BY <1>7
  <2> QED  BY <1>3, <1>5, <2>2, <2>4, <2>5, <2>6 DEF WholeAt
<1> QED  BY <1>6, <1>7

\* The engine is closed.
LEMMA WholeCloses ==
  ASSUME FramesInv, NEW c, Senders = {c}, NEW s \in Peers, WholeAt(c, s), ~closed, closed',
         UNCHANGED <<outq, wire, lastp, decoded, lost, refused>>
  PROVE  WholeAt(c, s)'
<1>1. PICK S \in Seq(FrameSet), E \in Seq(FrameSet) : S = wire[s] /\ E = outq[Source(c, Other(s))]
  <2>1. Source(c, Other(s)) \in Goroutines
    BY SoleSender, TwoPeers
  <2> QED  BY <2>1 DEF FramesInv, FramesTypeOK
<1>2. PICK L : L = lastp[s] /\ Waits(L)
  BY DEF FramesInv
<1>3. PICK T : T = S \o E
  OBVIOUS
<1>4. ToCome(c, s) = T /\ Gone = {} /\ ToCome(c, s)' = S /\ Gone' = Nat
  BY <1>1, <1>3 DEF ToCome, Gone
<1>5. parser \in {"default", "msgpack"}
  BY DEF FramesInv, FramesTypeOK
<1>6. /\ AllWhole(L, T, {}) => AllWhole(L, S, Nat)
      /\ WholeOrSpoiled(L, T, {}) => WholeOrSpoiled(L, S, Nat)
  BY <1>2, <1>3, <1>5, StreamCut
<1>7. Refusal' = Refusal
  BY DEF Refusal
<1> QED  BY <1>2, <1>4, <1>6, <1>7 DEF WholeAt

\* A frame is received.
LEMMA WholeReceives ==
  ASSUME FramesInv, NEW c, Senders = {c}, NEW p \in Peers, WholeAt(c, p),
         NEW f \in FrameSet, NEW r, ReceiveStep(p, f, r),
         outq'[Source(c, Other(p))] = outq[Source(c, Other(p))]
  PROVE  WholeAt(c, p)'
<1>1. /\ wire[p] # <<>> /\ f = Head(wire[p]) /\ r = Add(lastp[p], f)
      /\ closed' = closed /\ lost' = lost
      /\ refused' = IF r.ok THEN refused ELSE refused \cup {f}
      /\ wire'[p] = Tail(wire[p]) /\ lastp'[p] = r.last /\ decoded'[p] = decoded[p] \o r.out
  BY DEF ReceiveStep, FramesInv, FramesTypeOK
<1>2. /\ parser \in {"default", "msgpack"} /\ Waits(lastp[p]) /\ wire[p] \in Seq(FrameSet)
      /\ decoded[p] \in Seq(Packets) /\ outq[Source(c, Other(p))] \in Seq(FrameSet)
  <2>1. Source(c, Other(p)) \in Goroutines
    BY SoleSender, TwoPeers
  <2> QED  BY <2>1 DEF FramesInv, FramesTypeOK
<1>3. PICK L : L = lastp[p] /\ Waits(L)
  BY <1>2
<1>4. /\ Waits(r.last)
      /\ \/ AddKeeps(L, f, r) \/ AddStarts(f, r) \/ AddPasses(f, r)
         \/ AddFills(L, f, r) \/ AddCompletes(L, f, r)
  BY <1>1, <1>2, <1>3, AddFacts
<1>5. PICK S, T :
        /\ S \in Seq(FrameSet)
        /\ S = ToCome(c, p) /\ T = ToCome(c, p)' /\ S # <<>> /\ T = Tail(S) /\ f = S[1]
        /\ Len(wire[p]) \in 1 .. Len(S) /\ Len(wire'[p]) = Len(wire[p]) - 1
  <2>1. PICK W \in Seq(FrameSet), O \in Seq(FrameSet) :
          W = wire[p] /\ O = outq[Source(c, Other(p))]
    BY <1>2
  <2>2. CASE closed
    <3>1. ToCome(c, p) = W /\ ToCome(c, p)' = Tail(W)
      BY <1>1, <2>1, <2>2 DEF ToCome
    <3>2. Head(W) = W[1] /\ Len(W) \in 1 .. Len(W) /\ Len(Tail(W)) = Len(W) - 1
      BY <1>1, <2>1
    <3> QED  BY <1>1, <2>1, <3>1, <3>2
  <2>3. CASE ~closed
    <3>1. ToCome(c, p) = W \o O /\ ToCome(c, p)' = Tail(W) \o O
      BY <1>1, <2>1, <2>3 DEF ToCome
    <3>2. /\ W \o O \in Seq(FrameSet) /\ W \o O # <<>> /\ (W \o O)[1] = Head(W)
          /\ Tail(W \o O) = Tail(W) \o O
          /\ Len(W) \in 1 .. Len(W \o O) /\ Len(Tail(W)) = Len(W) - 1
      <4>1. W # <<>>
        BY <1>1, <2>1
      <4> QED  BY ONLY <4>1, W \in Seq(FrameSet), O \in Seq(FrameSet), Taken
    <3> QED  BY <1>1, <2>1, <3>1, <3>2
  <2> QED  BY <2>2, <2>3
<1>6. PICK g : g = Gone /\ g = Gone' /\ IsGone(g)
  BY <1>1 DEF Gone, IsGone
<1>7. /\ AllWhole(L, S, g) =>
           /\ AllWhole(r.last, T, g)
           /\ \A n \in 1 .. Len(S) : EndsWell(L, S, n) => EndsWell(r.last, T, n - 1)
           /\ \A q : r.out = <<q>> => Filled(q)
      /\ WholeOrSpoiled(L, S, g) =>
           \/ f.kind = "string" /\ ~r.ok
           \/ WholeOrSpoiled(r.last, T, g) /\ \A q : r.out = <<q>> => Filled(q)
  BY <1>2, <1>3, <1>4, <1>5, <1>6, StreamTakes
<1>8. (Refusal => Refusal') /\ (f.kind = "string" /\ ~r.ok => Refusal')
  BY <1>1 DEF Refusal
<1>9. ASSUME \A k \in DOMAIN decoded[p] : Filled(decoded[p][k]),
             \A q : r.out = <<q>> => Filled(q)
      PROVE  \A k \in DOMAIN decoded'[p] : Filled(decoded'[p][k])
  <2>1. PICK D \in Seq(Packets) : D = decoded[p]
    BY <1>2
  <2>2. r.out = <<>> \/ \E q \in Packets : r.out = <<q>>
    BY <1>4, Zenon DEF AddKeeps, AddStarts, AddPasses, AddFills, AddCompletes
  <2>3. CASE r.out = <<>>
    <3>1. D \o <<>> = D
      BY ConcatEmptySeq
    <3> QED  BY <1>1, <1>9, <2>1, <2>3, <3>1
  <2>4. ASSUME NEW q \in Packets, r.out = <<q>>
        PROVE  \A k \in DOMAIN decoded'[p] : Filled(decoded'[p][k])
    <3>1. \A k \in DOMAIN (D \o <<q>>) :
            (k \in DOMAIN D /\ (D \o <<q>>)[k] = D[k]) \/ (D \o <<q>>)[k] = q
      OBVIOUS
    <3> QED  BY <1>1, <1>9, <2>1, <2>4, <3>1
  <2> QED  BY <2>2, <2>3, <2>4
<1>10. ASSUME lost' = 0
       PROVE  /\ AllWhole(lastp'[p], T, g)
              /\ ~closed' => EndsWell(lastp'[p], T, Len(wire'[p]))
  <2>1. AllWhole(L, S, g) /\ (~closed => EndsWell(L, S, Len(wire[p])))
    BY <1>1, <1>3, <1>5, <1>6, <1>10 DEF WholeAt
  <2> QED  BY <1>1, <1>5, <1>7, <2>1
<1>11. ASSUME ~Refusal' PROVE WholeOrSpoiled(lastp'[p], T, g)
  <2>1. WholeOrSpoiled(L, S, g)
    BY <1>3, <1>5, <1>6, <1>8, <1>11 DEF WholeAt
  <2> QED  BY <1>1, <1>7, <1>8, <1>11, <2>1
<1>12. ASSUME lost' = 0 \/ ~Refusal' PROVE \A k \in DOMAIN decoded'[p] : Filled(decoded'[p][k])
  <2>1. lost = 0 \/ ~Refusal
    BY <1>1, <1>8, <1>12
  <2>2. \A k \in DOMAIN decoded[p] : Filled(decoded[p][k])
    BY <2>1 DEF WholeAt
  <2>3. \A q : r.out = <<q>> => Filled(q)
    <3>1. CASE lost' = 0
      <4>1. AllWhole(L, S, g)
        BY <1>1, <1>3, <1>5, <1>6, <3>1 DEF WholeAt
      <4> QED  BY <1>7, <4>1
    <3>2. CASE ~Refusal'
      <4>1. WholeOrSpoiled(L, S, g)
        BY <1>3, <1>5, <1>6, <1>8, <3>2 DEF WholeAt
      <4> QED  BY <1>7, <1>8, <3>2, <4>1
    <3> QED  BY <1>12, <3>1, <3>2
  <2> QED  BY <1>9, <2>2, <2>3
<1> QED  BY <1>5, <1>6, <1>10, <1>11, <1>12 DEF WholeAt

LEMMA WholeInvStep ==
  ASSUME NEW c, Senders = {c}, MaxLoss <= 1, FramesInv, OrderInv(c), WholeInv(c), [Next]_vars
  PROVE  WholeInv(c)'
<1>0. /\ outq \in [Goroutines -> Seq(FrameSet)] /\ wire \in [Peers -> Seq(FrameSet)]
      /\ lastp \in [Peers -> Seq(Packets)] /\ decoded \in [Peers -> Seq(Packets)]
      /\ closed \in BOOLEAN /\ lost \in Nat /\ lost <= 1
      /\ \A s \in Peers : WholeAt(c, s)
      /\ MaxLoss \in Nat /\ MaxLoss <= 1
  BY FramesAssumption DEF FramesInv, FramesTypeOK, WholeInv
<1>1. ASSUME NEW g \in Senders, NEW a, EmitStep(g, a) PROVE WholeInv(c)'
  <2>1. /\ a \in Packets /\ a.type = "event" /\ a.attachments = 0 /\ g = c
        /\ outq[c] = <<>> /\ outq' = [outq EXCEPT ![c] = Encode(a)]
        /\ UNCHANGED <<wire, lastp, decoded, closed, lost, refused>>
    BY <1>1 DEF EmitStep
  <2>2. EncodedWell(Encode(a), a)
    BY <2>1, EncodeFacts DEF Kinds
  <2>3. /\ c \in Goroutines /\ outq'[c] = Encode(a)
        /\ \A s \in Goroutines : s # c => outq'[s] = outq[s]
    BY <1>0, <2>1, SoleSender
  <2>4. Refusal => Refusal'
    BY <2>1, Refuses
  <2>5. ASSUME NEW s \in Peers PROVE WholeAt(c, s)'
    <3>1. Source(c, Other(s)) \in Goroutines
      BY TwoPeers, SoleSender
    <3>2. CASE Source(c, Other(s)) = c
      BY <1>0, <2>1, <2>2, <2>3, <2>4, <3>2, WholeBegins
    <3>3. CASE Source(c, Other(s)) # c
      BY <1>0, <2>1, <2>3, <2>4, <3>1, <3>3, WholeStays
    <3> QED  BY <3>2, <3>3
  <2> QED  BY <1>0, <2>1, <2>5 DEF WholeInv
<1>2. ASSUME NEW g \in Goroutines, SubmitStep(g) \/ DropStep(g) PROVE WholeInv(c)'
  <2>0. Other(PeerOf(g)) \in Peers /\ PeerOf(g) \in Peers
    BY TwoPeers
  <2>1. /\ outq[g] # <<>> /\ UNCHANGED <<lastp, decoded, closed, refused>>
        /\ \A s \in Goroutines : s # g => outq'[s] = outq[s]
        /\ \A s \in Peers : s # Other(PeerOf(g)) => wire'[s] = wire[s]
        /\ \/ /\ ~closed /\ lost' = lost /\ outq'[g] = Tail(outq[g])
              /\ wire'[Other(PeerOf(g))] = Append(wire[Other(PeerOf(g))], Head(outq[g]))
           \/ /\ ~closed /\ lost = 0 /\ lost' = 1 /\ outq'[g] = Tail(outq[g])
              /\ wire'[Other(PeerOf(g))] = wire[Other(PeerOf(g))]
           \/ closed /\ lost' = lost /\ wire' = wire
    <3>1. CASE SubmitStep(g)
      BY <1>0, <2>0, <3>1 DEF SubmitStep
    <3>2. CASE DropStep(g) /\ ~closed
      <4>1. lost < MaxLoss /\ lost' = lost + 1
        BY <3>2 DEF DropStep
      <4>2. lost = 0 /\ lost' = 1
        BY <1>0, <4>1
      <4> QED  BY <1>0, <2>0, <3>2, <4>2 DEF DropStep
    <3>3. CASE DropStep(g) /\ closed
      BY <1>0, <3>3 DEF DropStep
    <3> QED  BY <1>2, <3>1, <3>2, <3>3
  <2>2. g = Source(c, PeerOf(g))
    <3>1. outq[Home[c]] = <<>>
      BY DEF OrderInv, NumberInv
    <3> QED  BY <2>1, <3>1, SoleSender
  <2>3. Refusal => Refusal'
    BY <2>1, Refuses
  <2>4. ASSUME NEW s \in Peers PROVE WholeAt(c, s)'
    <3>1. Source(c, Other(s)) \in Goroutines
      BY TwoPeers, SoleSender
    <3>2. (lost' = 0 => lost = 0) /\ (lost = 0 \/ lost' = lost)
      BY <2>1
    <3>3. CASE s = Other(PeerOf(g)) /\ ~closed
      <4>1. Other(s) = PeerOf(g) /\ Source(c, Other(s)) = g
        BY <2>0, <2>2, <3>3, TwoPeers
      <4> QED  BY <1>0, <2>1, <2>3, <3>3, <4>1, WholeSubmits
    <3>4. CASE closed
      <4>1. wire' = wire
        BY <2>1, <3>4
      <4> QED  BY <1>0, <2>1, <2>3, <3>2, <3>4, <4>1, WholeStays
    <3>5. CASE s # Other(PeerOf(g))
      <4>1. Source(c, Other(s)) # g
        BY <2>0, <2>2, <3>5, TwoPeers, SoleSender
      <4> QED  BY <1>0, <2>1, <2>3, <3>1, <3>2, <3>5, <4>1, WholeStays
    <3> QED  BY <3>3, <3>4, <3>5
  <2>5. lost' <= 1
    BY <1>0, <2>1
  <2> QED  BY <2>4, <2>5 DEF WholeInv
<1>3. ASSUME NEW p \in Peers, NEW f \in FrameSet, NEW r, ReceiveStep(p, f, r),
             \/ UNCHANGED <<outq, begun>>
             \/ \E q, a \in Packets : r.out = <<q>> /\ ReplyStep(p, q, a)
      PROVE  WholeInv(c)'
  <2>1. /\ closed' = closed /\ lost' = lost /\ UNCHANGED parser
        /\ \A s \in Peers : s # p => /\ wire'[s] = wire[s] /\ lastp'[s] = lastp[s]
                                     /\ decoded'[s] = decoded[s]
    BY <1>0, <1>3 DEF ReceiveStep
  <2>2. Refusal => Refusal'
    BY <1>3 DEF ReceiveStep, Refusal
  <2>3. \A g \in Goroutines : g # p => outq'[g] = outq[g]
    BY <1>0, <1>3 DEF ReplyStep
  <2>4. /\ Other(p) \in Peers /\ Other(p) # p /\ Other(Other(p)) = p
        /\ \A s \in Peers : s = p \/ s = Other(p)
        /\ Source(c, Other(p)) # p /\ Source(c, Other(p)) \in Goroutines
        /\ Source(c, p) \in Goroutines
    BY TwoPeers, SoleSender
  <2>5. WholeAt(c, p)'
    BY <1>0, <1>3, <2>3, <2>4, WholeReceives
  <2>6. WholeAt(c, Other(p))'
    <3>1. PICK s \in Peers : s = Other(p) /\ s # p /\ Other(s) = p
      BY <2>4
    <3>2. CASE outq'[Source(c, p)] = outq[Source(c, p)]
      BY <1>0, <2>1, <2>2, <3>1, <3>2, WholeStays
    <3>3. CASE outq'[Source(c, p)] # outq[Source(c, p)]
      <4>1. Source(c, p) = p
        BY <2>3, <2>4, <3>3
      <4>2. PICK q \in Packets, a \in Packets : ReplyStep(p, q, a)
        BY <1>3, <3>3
      <4>3. /\ a.type = "ack" /\ (parser = "default" \/ a.attachments = 0) /\ outq[p] = <<>>
            /\ outq'[p] = Encode(a)
        BY <1>0, <4>2 DEF ReplyStep, Goroutines
      <4>4. EncodedWell(Encode(a), a)
        BY <4>3, EncodeFacts DEF Kinds
      <4> QED  BY <1>0, <2>1, <2>2, <3>1, <4>1, <4>3, <4>4, WholeBegins
    <3> QED  BY <3>2, <3>3
  <2> QED  BY <1>0, <2>1, <2>4, <2>5, <2>6 DEF WholeInv
<1>4. CASE /\ UNCHANGED <<parser, outq, wire, lastp, nev, begun, decoded, lost, refused>>
           /\ closed' \in {closed, TRUE}
  <2>1. Refusal' = Refusal
    BY <1>4 DEF Refusal
  <2>2. ASSUME NEW s \in Peers PROVE WholeAt(c, s)'
    <3>1. CASE closed' = closed
      BY <1>0, <1>4, <2>1, <3>1, WholeStays
    <3>2. CASE ~closed /\ closed'
      BY <1>0, <1>4, <3>2, WholeCloses
    <3> QED  BY <1>0, <1>4, <3>1, <3>2
  <2> QED  BY <1>0, <1>4, <2>2 DEF WholeInv
<1> QED  BY <1>1, <1>2, <1>3, <1>4, StepsOfFrames

LEMMA WholeInvInit ==
  ASSUME NEW c, Senders = {c}, Init
  PROVE  WholeInv(c)
<1>1. /\ lost = 0 /\ ~closed
      /\ \A p \in Peers : /\ decoded[p] = <<>> /\ lastp[p] = <<>> /\ wire[p] = <<>>
                          /\ outq[Source(c, Other(p))] = <<>>
  <2>1. \A p \in Peers : Source(c, Other(p)) \in Goroutines
    BY TwoPeers, SoleSender
  <2> QED  BY <2>1 DEF Init
<1>2. <<>> \o <<>> = <<>> /\ Len(<<>>) = 0 /\ DOMAIN <<>> = {} /\ 0 .. 0 = {0}
  OBVIOUS
<1>3. \A p \in Peers : ToCome(c, p) = <<>>
  BY <1>1, <1>2 DEF ToCome
<1>4. \A i \in 0 .. Len(<<>>) : ~IsPlace(<<>>, <<>>, i)
  BY <1>2 DEF IsPlace
<1>5. \A p \in Peers : WholeAt(c, p)
  BY <1>1, <1>2, <1>3, <1>4 DEF WholeAt, AllWhole, WholeOrSpoiled, EndsWell
<1> QED  BY <1>1, <1>5 DEF WholeInv

LEMMA IntactFollows ==
  ASSUME NEW c, Senders = {c}, FramesInv, OrderInv(c), WholeInv(c)
  PROVE  Intact
<1> SUFFICES ASSUME lost = 0 \/ ~Refusal, NEW p \in Peers
             PROVE  /\ \A k \in DOMAIN decoded[p] :
                         /\ <<Base(decoded[p][k]), decoded[p][k].num>> \in Range(begun[Other(p)])
                         /\ decoded[p][k].buffer =
                              [j \in 1 .. decoded[p][k].attachments |->
                                 <<Base(decoded[p][k]), decoded[p][k].num, j>>]
                    /\ \A i, j \in DOMAIN decoded[p] : i # j =>
                         <<Base(decoded[p][i]), decoded[p][i].num>> #
                           <<Base(decoded[p][j]), decoded[p][j].num>>
  BY DEF Intact
<1>1. decoded[p] \in Seq(Packets)
  BY DEF FramesInv, FramesTypeOK
<1>2. ASSUME NEW k \in DOMAIN decoded[p], NEW q, q = decoded[p][k]
      PROVE  /\ <<Base(q), q.num>> \in Range(begun[Other(p)])
             /\ q.buffer = [j \in 1 .. q.attachments |-> <<Base(q), q.num, j>>]
  <2>1. Begun(q, begun[Other(p)])
    BY <1>2 DEF OrderInv, StreamInv
  <2>2. q \in Packets /\ Filled(q)
    BY <1>1, <1>2 DEF WholeInv, WholeAt
  <2>3. q.buffer \in Seq(Bytes) /\ Len(q.buffer) = q.attachments
    BY <2>2 DEF Packets, Filled
  <2>4. q.buffer = [j \in 1 .. Len(q.buffer) |-> q.buffer[j]]
    BY <2>3
  <2> QED  BY <2>1, <2>2, <2>3, <2>4 DEF Begun, Filled
<1>3. ASSUME NEW i \in DOMAIN decoded[p], NEW j \in DOMAIN decoded[p], i # j
      PROVE  decoded[p][i].num # decoded[p][j].num
  <2>0. i \in Nat /\ j \in Nat /\ decoded[p][i] \in Packets /\ decoded[p][j] \in Packets
    BY <1>1
  <2>1. i \in Nat /\ j \in Nat /\ decoded[p][i].num \in Nat /\ decoded[p][j].num \in Nat
    BY <2>0 DEF Packets
  <2>2. i < j => decoded[p][i].num < decoded[p][j].num
    BY DEF OrderInv, StreamInv
  <2>3. j < i => decoded[p][j].num < decoded[p][i].num
    BY DEF OrderInv, StreamInv
  <2> QED  BY <1>3, <2>1, <2>2, <2>3
<1> QED  BY <1>2, <1>3

\* When one goroutine emits events and at most one frame is lost, a packet that comes
\* out of a decoder is one that the other peer sent, comes out once, and has its own
\* attachments, all of them and in order; the exception is a loss together with an
\* acknowledgement whose head the decoder refuses (emitPacket, Encode and Add).
THEOREM PacketsIntact ==
  ASSUME NEW c, Senders = {c}, MaxLoss <= 1
  PROVE  Spec => []Intact
<1>1. Init => FramesInv /\ OrderInv(c) /\ WholeInv(c)
  BY FramesInvInit, OrderInvInit, WholeInvInit
<1>2. (FramesInv /\ OrderInv(c) /\ WholeInv(c)) /\ [Next]_vars =>
        (FramesInv /\ OrderInv(c) /\ WholeInv(c))'
  BY FramesInvStep, OrderInvStep, WholeInvStep
<1>3. FramesInv /\ OrderInv(c) /\ WholeInv(c) => Intact
  BY IntactFollows
<1> QED  BY <1>1, <1>2, <1>3, PTL DEF Spec

-----------------------------------------------------------------------------
(* Ranks and counts. The k-th argument of a kind goes to the k-th          *)
(* parameter of that kind.                                                 *)

\* The kinds of arguments and of parameters.
ItemKinds == {"json", "bin"}
ParamKinds == {"json", "bin", "socket"}

\* How often x is in s.
Count(s, x) == Cardinality({j \in 1 .. Len(s) : s[j] = x})

\* The elements of a sequence with one more.
LEMMA ElementsLast ==
  ASSUME NEW A, NEW q \in Seq(A), NEW e \in A, NEW s, s = q \o <<e>>, NEW m, m = Len(q)
  PROVE  /\ \A i \in 1 .. m : s[i] = q[i]
         /\ s[m + 1] = e
         /\ DOMAIN s = 1 .. (m + 1) /\ DOMAIN q = 1 .. m
<1>1. m \in Nat /\ s \in Seq(A) /\ Len(s) = m + 1
  OBVIOUS
<1>2. \A i \in 1 .. m : s[i] = q[i]
  OBVIOUS
<1>3. s[m + 1] = e
  OBVIOUS
<1> QED  BY <1>1, <1>2, <1>3

\* Positions are finitely many, and one more makes one more.
LEMMA Positions ==
  ASSUME NEW l \in Nat, NEW D \in SUBSET (1 .. l)
  PROVE  /\ IsFiniteSet(D) /\ Cardinality(D) \in Nat
         /\ Cardinality(D \cup {l + 1}) = Cardinality(D) + 1
<1>1. 1 \in Int /\ l \in Int
  OBVIOUS
<1>2. IsFiniteSet(D)
  BY <1>1, FS_Interval, FS_Subset
<1>3. l + 1 \notin D
  OBVIOUS
<1> QED  BY <1>2, <1>3, FS_AddElement, FS_CardinalityType

\* An element at the end counts if it is the one.
LEMMA CountLast ==
  ASSUME NEW A, NEW s \in Seq(A), NEW e \in A, NEW x
  PROVE  /\ Count(s, x) \in Nat
         /\ e = x => Count(s \o <<e>>, x) = Count(s, x) + 1
         /\ e # x => Count(s \o <<e>>, x) = Count(s, x)
<1> DEFINE t == s \o <<e>>
           l == Len(s)
           D == {j \in 1 .. l : s[j] = x}
           E == {j \in 1 .. Len(t) : t[j] = x}
<1>1. /\ l \in Nat /\ Len(t) = l + 1
      /\ \A j \in 1 .. l : t[j] = s[j]
      /\ t[l + 1] = e
  OBVIOUS
<1> HIDE DEF t, l
<1>2. D \in SUBSET (1 .. l)
  OBVIOUS
<1>3. e = x => E = D \cup {l + 1}
  BY <1>1
<1>4. e # x => E = D
  BY <1>1
<1>5. Count(s, x) = Cardinality(D) /\ Count(t, x) = Cardinality(E)
  BY DEF Count, l
<1> HIDE DEF D, E
<1>6. Cardinality(D) \in Nat /\ Cardinality(D \cup {l + 1}) = Cardinality(D) + 1
  BY <1>1, <1>2, Positions
<1> QED  BY <1>3, <1>4, <1>5, <1>6 DEF t

\* The rank of the last element is how often it is there; other ranks stay.
LEMMA RankLast ==
  ASSUME NEW A, NEW s \in Seq(A), NEW e \in A
  PROVE  /\ Rank(s \o <<e>>, Len(s) + 1) = Count(s \o <<e>>, e)
         /\ \A i \in 1 .. Len(s) : Rank(s \o <<e>>, i) = Rank(s, i)
<1> DEFINE t == s \o <<e>>
           l == Len(s)
<1>1. /\ l \in Nat /\ Len(t) = l + 1
      /\ \A j \in 1 .. l : t[j] = s[j]
      /\ t[l + 1] = e
  OBVIOUS
<1>2. l = Len(s) /\ t = s \o <<e>>
  OBVIOUS
<1> HIDE DEF t, l
<1>3. Rank(t, l + 1) = Count(t, e)
  BY <1>1 DEF Rank, Count
<1>4. ASSUME NEW i \in 1 .. l PROVE Rank(t, i) = Rank(s, i)
  <2>1. \A j \in 1 .. i : t[j] = s[j]
    BY <1>1
  <2>2. {j \in 1 .. i : t[j] = t[i]} = {j \in 1 .. i : s[j] = s[i]}
    BY <1>1, <2>1
  <2> QED  BY <2>2 DEF Rank
<1> QED  BY <1>2, <1>3, <1>4

\* The rank of an element is at most how often it is there.
LEMMA RankBounds ==
  ASSUME NEW A, NEW s \in Seq(A), NEW i \in 1 .. Len(s)
  PROVE  Rank(s, i) \in Nat /\ 1 <= Rank(s, i) /\ Rank(s, i) <= Count(s, s[i])
<1> DEFINE D == {j \in 1 .. i : s[j] = s[i]}
           E == {j \in 1 .. Len(s) : s[j] = s[i]}
<1>1. D \subseteq E /\ i \in D /\ E \in SUBSET (1 .. Len(s)) /\ Len(s) \in Nat
  OBVIOUS
<1>2. Rank(s, i) = Cardinality(D) /\ Count(s, s[i]) = Cardinality(E)
  BY DEF Rank, Count
<1> HIDE DEF D, E
<1>3. IsFiniteSet(E) /\ Cardinality(E) \in Nat
  BY <1>1, Positions
<1>4. IsFiniteSet(D) /\ Cardinality(D) <= Cardinality(E)
  BY <1>1, <1>3, FS_Subset
<1>5. Cardinality(D) \in Nat /\ Cardinality(D) # 0
  BY <1>1, <1>4, FS_CardinalityType, FS_EmptySet
<1> QED  BY <1>2, <1>4, <1>5

\* Nothing is lost of an element that is selected.
LEMMA CountSelected ==
  ASSUME NEW A, NEW S, NEW x \in S
  PROVE  \A s \in Seq(A) : Count(Selected(s, S), x) = Count(s, x)
<1> DEFINE T == {n \in Nat : \A s \in Seq(A) : Len(s) = n => Count(Selected(s, S), x) = Count(s, x)}
<1>1. 0 \in T
  <2> SUFFICES ASSUME NEW s \in Seq(A), Len(s) = 0 PROVE Count(Selected(s, S), x) = Count(s, x)
    OBVIOUS
  <2>1. s = <<>>
    BY EmptySeq
  <2> QED  BY <2>1, SelectedEmpty
<1>2. ASSUME NEW n \in Nat, n \in T PROVE n + 1 \in T
  <2> SUFFICES ASSUME NEW s, s \in Seq(A), Len(s) = n + 1
               PROVE  Count(Selected(s, S), x) = Count(s, x)
    OBVIOUS
  <2>1. PICK q, e : q \in Seq(A) /\ e \in A /\ s = q \o <<e>> /\ Len(q) = n
    <3>1. \E q \in Seq(A), e \in A : s = q \o <<e>> /\ Len(q) = n
      BY LastOff
    <3> QED  BY <3>1, Zenon
  <2>2. PICK r : r = Selected(q, S) /\ r \in Seq(A)
    BY <2>1, SelectedType
  <2>3. Selected(q \o <<e>>, S) = r \o Whether(e, S)
    BY <2>1, <2>2, SelectedLast
  <2>4. Count(r, x) = Count(q, x)
    BY <1>2, <2>1, <2>2
  <2>5. CASE e \in S
    <3>1. Whether(e, S) = <<e>>
      BY <2>5 DEF Whether
    <3>2. Selected(s, S) = r \o <<e>>
      BY <2>1, <2>3, <3>1, Zenon
    <3>3. /\ e = x => Count(r \o <<e>>, x) = Count(r, x) + 1
          /\ e # x => Count(r \o <<e>>, x) = Count(r, x)
      BY <2>1, <2>2, CountLast
    <3>4. /\ e = x => Count(q \o <<e>>, x) = Count(q, x) + 1
          /\ e # x => Count(q \o <<e>>, x) = Count(q, x)
      BY <2>1, CountLast
    <3> QED  BY <2>1, <2>4, <3>2, <3>3, <3>4, Zenon
  <2>6. CASE e \notin S
    <3>1. Whether(e, S) = <<>>
      BY <2>6 DEF Whether
    <3>2. r \o <<>> = r
      BY <2>2, ConcatEmptySeq
    <3>3. Selected(s, S) = r
      BY <2>1, <2>3, <3>1, <3>2, Zenon
    <3>4. e # x
      BY <2>6
    <3>5. Count(q \o <<e>>, x) = Count(q, x)
      BY <2>1, <3>4, CountLast
    <3> QED  BY <2>1, <2>4, <3>3, <3>5, Zenon
  <2> QED  BY <2>5, <2>6
<1> HIDE DEF T
<1>3. \A n \in Nat : n \in T
  BY <1>1, <1>2, SetInduction
<1> QED  BY <1>3 DEF T

-----------------------------------------------------------------------------
(* Arguments in their places, as induction on the list of parameters       *)
(* shows.                                                                  *)

\* What a callback with the parameters s gets of the n-th event: each argument that
\* is as often there as its parameter is, and the Socket.
Value(k, n, r) == IF k = "socket" THEN TheSocket ELSE <<k, n, r>>
Places(s, n) == [i \in DOMAIN s |-> Value(s[i], n, Rank(s, i))]
Values == {TheSocket} \cup (ItemKinds \X Nat \X Nat)

\* Values have their types.
LEMMA ValueType ==
  ASSUME NEW k \in ParamKinds, NEW n \in Nat, NEW r \in Nat
  PROVE  /\ Value(k, n, r) \in Values
         /\ k # "socket" => Value(k, n, r) = <<k, n, r>> /\ k \in ItemKinds
         /\ Value("socket", n, r) = TheSocket
  BY DEF Value, Values, ParamKinds, ItemKinds

LEMMA PlacesType ==
  ASSUME NEW s \in Seq(ParamKinds), NEW n \in Nat
  PROVE  /\ Places(s, n) \in Seq(Values) /\ Len(Places(s, n)) = Len(s)
         /\ DOMAIN Places(s, n) = 1 .. Len(s)
<1>1. DOMAIN s = 1 .. Len(s) /\ Len(s) \in Nat
  OBVIOUS
<1>2. \A i \in 1 .. Len(s) : s[i] \in ParamKinds /\ Rank(s, i) \in Nat
  BY RankBounds
<1>3. \A i \in 1 .. Len(s) : Value(s[i], n, Rank(s, i)) \in Values
  BY <1>2, ValueType
<1>4. Places(s, n) \in [1 .. Len(s) -> Values]
  BY <1>1, <1>3 DEF Places
<1> QED  BY <1>1, <1>4, FunctionIsSeq

\* One parameter more.
LEMMA PlacesLast ==
  ASSUME NEW s \in Seq(ParamKinds), NEW e \in ParamKinds, NEW n \in Nat
  PROVE  Places(s \o <<e>>, n) = Places(s, n) \o <<Value(e, n, Count(s \o <<e>>, e))>>
<1> DEFINE t == s \o <<e>>
           v == Value(e, n, Count(t, e))
           l == Len(s)
           a == Places(t, n)
           b == Places(s, n)
<1>1. /\ t \in Seq(ParamKinds) /\ l \in Nat /\ Len(t) = l + 1 /\ t[l + 1] = e
      /\ DOMAIN t = 1 .. (l + 1) /\ DOMAIN s = 1 .. l
      /\ \A i \in 1 .. l : t[i] = s[i]
  OBVIOUS
<1>2. Rank(t, l + 1) = Count(t, e) /\ \A i \in 1 .. l : Rank(t, i) = Rank(s, i)
  BY RankLast
<1>3. t = s \o <<e>> /\ l = Len(s)
  OBVIOUS
<1> HIDE DEF t, l
<1>4. a = [i \in 1 .. (l + 1) |-> Value(t[i], n, Rank(t, i))]
  BY <1>1 DEF Places
<1>5. b = [i \in 1 .. l |-> Value(s[i], n, Rank(s, i))]
  BY <1>1 DEF Places
<1>6. a[l + 1] = v
  BY <1>1, <1>2, <1>4
<1>7. \A i \in 1 .. l : a[i] = b[i]
  BY <1>1, <1>2, <1>4, <1>5
<1>8. a \in Seq(Values) /\ Len(a) = l + 1 /\ b \in Seq(Values) /\ Len(b) = l
  BY <1>1, <1>3, PlacesType
<1>9. v \in Values
  <2>1. l + 1 \in 1 .. Len(a) /\ a[l + 1] \in Values
    BY <1>1, <1>8
  <2> QED  BY <1>6, <2>1
<1> HIDE DEF a, b, v
<1>10. a = b \o <<v>>
  <2>1. b \o <<v>> \in Seq(Values) /\ Len(b \o <<v>>) = l + 1
    BY <1>8, <1>9, <1>1
  <2>2. \A i \in 1 .. (l + 1) : a[i] = (b \o <<v>>)[i]
    BY <1>1, <1>6, <1>7, <1>8, <1>9
  <2> QED  BY <1>8, <2>1, <2>2
<1> QED  BY <1>3, <1>10 DEF a, b, v

\* What is selected of values are those of the parameters that are selected.
LEMMA PlacesSelected ==
  ASSUME NEW n \in Nat, NEW S, TheSocket \notin S
  PROVE  \A s \in Seq(ParamKinds) :
           (\A i \in DOMAIN s : s[i] # "socket" => Places(s, n)[i] \in S) =>
             Selected(Places(s, n), S) = Places(Selected(s, ItemKinds), n)
<1> DEFINE All(s) == \A i \in DOMAIN s : s[i] # "socket" => Places(s, n)[i] \in S
           Holds(s) == Selected(Places(s, n), S) = Places(Selected(s, ItemKinds), n)
           T == {m \in Nat : \A s \in Seq(ParamKinds) : Len(s) = m => (All(s) => Holds(s))}
<1>1. 0 \in T
  <2> SUFFICES ASSUME NEW s \in Seq(ParamKinds), Len(s) = 0 PROVE Holds(s)
    OBVIOUS
  <2>1. s = <<>>
    BY EmptySeq
  <2>2. Places(<<>>, n) = <<>>
    BY DEF Places
  <2> QED  BY <2>1, <2>2, SelectedEmpty
<1>2. ASSUME NEW m \in Nat, m \in T PROVE m + 1 \in T
  <2> SUFFICES ASSUME NEW s, s \in Seq(ParamKinds), Len(s) = m + 1, All(s) PROVE Holds(s)
    OBVIOUS
  <2>1. PICK q, e : q \in Seq(ParamKinds) /\ e \in ParamKinds /\ s = q \o <<e>> /\ Len(q) = m
    <3>1. \E q \in Seq(ParamKinds), e \in ParamKinds : s = q \o <<e>> /\ Len(q) = m
      BY LastOff
    <3> QED  BY <3>1, Zenon
  <2>2. PICK v : v = Value(e, n, Count(q \o <<e>>, e))
    OBVIOUS
  <2>3. PICK b \in Seq(Values) : b = Places(q, n) /\ Len(b) = m
    BY <2>1, PlacesType
  <2>4. Places(s, n) = b \o <<v>>
    BY <2>1, <2>2, <2>3, PlacesLast
  <2>5. Count(q \o <<e>>, e) \in Nat
    BY <2>1, CountLast
  <2>6. v \in Values /\ (e = "socket" => v = TheSocket) /\ (e # "socket" => e \in ItemKinds)
    BY <2>1, <2>2, <2>5, ValueType
  <2>7. PICK w : w = Places(s, n)
    OBVIOUS
  <2>8. All(q) /\ (e # "socket" => v \in S)
    <3>1. /\ \A i \in 1 .. m : w[i] = b[i] /\ s[i] = q[i]
          /\ w[m + 1] = v /\ s[m + 1] = e
          /\ DOMAIN s = 1 .. (m + 1) /\ DOMAIN q = 1 .. m
      <4>1. w = b \o <<v>> /\ b \in Seq(Values) /\ Len(b) = m /\ v \in Values
        BY <2>3, <2>4, <2>6, <2>7
      <4>2. (\A i \in 1 .. m : w[i] = b[i]) /\ w[m + 1] = v
        BY <4>1, ElementsLast
      <4>3. /\ \A i \in 1 .. m : s[i] = q[i]
            /\ s[m + 1] = e /\ DOMAIN s = 1 .. (m + 1) /\ DOMAIN q = 1 .. m
        BY <2>1, ElementsLast
      <4> QED  BY <4>2, <4>3
    <3>2. \A i \in 1 .. (m + 1) : s[i] # "socket" => w[i] \in S
      BY <2>7, <3>1
    <3>3. m + 1 \in 1 .. (m + 1) /\ \A i \in 1 .. m : i \in 1 .. (m + 1)
      OBVIOUS
    <3>4. \A i \in 1 .. m : q[i] # "socket" => b[i] \in S
      BY <3>1, <3>2, <3>3, Zenon
    <3>5. e # "socket" => v \in S
      BY <3>1, <3>2, <3>3, Zenon
    <3> QED  BY <2>3, <3>1, <3>4, <3>5
  <2>9. Selected(b, S) = Places(Selected(q, ItemKinds), n)
    BY <1>2, <2>1, <2>3, <2>8
  <2>10. Selected(b \o <<v>>, S) = Selected(b, S) \o Whether(v, S)
    BY <2>3, <2>6, SelectedLast
  <2>11. PICK a \in Seq(ParamKinds) : a = Selected(q, ItemKinds)
    BY <2>1, SelectedType
  <2>12. Selected(q \o <<e>>, ItemKinds) = a \o Whether(e, ItemKinds)
    BY <2>1, <2>11, SelectedLast
  <2>13. CASE e = "socket"
    <3>1. Whether(v, S) = <<>> /\ Whether(e, ItemKinds) = <<>>
      BY <2>6, <2>13 DEF Whether, ItemKinds
    <3>2. Selected(b, S) \in Seq(Values)
      BY <2>3, SelectedType
    <3>3. Selected(b, S) \o <<>> = Selected(b, S) /\ a \o <<>> = a
      BY <2>11, <3>2, ConcatEmptySeq
    <3> QED  BY <2>1, <2>4, <2>9, <2>10, <2>11, <2>12, <3>1, <3>3, Zenon
  <2>14. CASE e # "socket"
    <3>1. Whether(v, S) = <<v>> /\ Whether(e, ItemKinds) = <<e>>
      BY <2>6, <2>8, <2>14 DEF Whether
    <3>2. Places(a \o <<e>>, n) = Places(a, n) \o <<Value(e, n, Count(a \o <<e>>, e))>>
      BY <2>1, <2>11, PlacesLast
    <3>3. Count(a \o <<e>>, e) = Count(q \o <<e>>, e)
      <4>1. Count(Selected(q \o <<e>>, ItemKinds), e) = Count(q \o <<e>>, e)
        <5>1. q \o <<e>> \in Seq(ParamKinds) /\ e \in ItemKinds
          BY <2>1, <2>6, <2>14
        <5> QED  BY <5>1, CountSelected
      <4> QED  BY <2>12, <3>1, <4>1, Zenon
    <3> QED  BY <2>1, <2>2, <2>4, <2>9, <2>10, <2>11, <2>12, <3>1, <3>2, <3>3, Zenon
  <2> QED  BY <2>13, <2>14
<1> HIDE DEF T
<1>3. \A m \in Nat : m \in T
  BY <1>1, <1>2, SetInduction
<1> QED  BY <1>3 DEF T

\* How many arguments the parameters before and at i take: the argument at that place
\* is of the parameter's kind, and is as often there as its parameter.
LEMMA ItemPlaces ==
  \A s \in Seq(ParamKinds) :
    /\ Cardinality({j \in 1 .. Len(s) : s[j] # "socket"}) = Len(Selected(s, ItemKinds))
    /\ \A i \in 1 .. Len(s) : s[i] # "socket" =>
         /\ ItemOf(s, i) \in 1 .. Len(Selected(s, ItemKinds))
         /\ Selected(s, ItemKinds)[ItemOf(s, i)] = s[i]
         /\ Rank(Selected(s, ItemKinds), ItemOf(s, i)) = Rank(s, i)
<1> DEFINE Kept(s) == {j \in 1 .. Len(s) : s[j] # "socket"}
           Fits(s, a, i) == /\ ItemOf(s, i) \in 1 .. Len(a)
                            /\ a[ItemOf(s, i)] = s[i]
                            /\ Rank(a, ItemOf(s, i)) = Rank(s, i)
           Holds(s, a) == /\ Cardinality(Kept(s)) = Len(a)
                          /\ \A i \in 1 .. Len(s) : s[i] # "socket" => Fits(s, a, i)
           T == {m \in Nat : \A s \in Seq(ParamKinds) : Len(s) = m =>
                               Holds(s, Selected(s, ItemKinds))}
<1>1. 0 \in T
  <2> SUFFICES ASSUME NEW s \in Seq(ParamKinds), Len(s) = 0 PROVE Holds(s, Selected(s, ItemKinds))
    OBVIOUS
  <2>1. s = <<>> /\ Len(<<>>) = 0 /\ 1 .. 0 = {}
    BY EmptySeq
  <2>2. Kept(s) = {} /\ Cardinality({}) = 0
    BY <2>1, FS_EmptySet
  <2> QED  BY <2>1, <2>2, SelectedEmpty
<1>2. ASSUME NEW m \in Nat, m \in T PROVE m + 1 \in T
  <2> SUFFICES ASSUME NEW s, s \in Seq(ParamKinds), Len(s) = m + 1
               PROVE  Holds(s, Selected(s, ItemKinds))
    OBVIOUS
  <2>1. PICK q, e : q \in Seq(ParamKinds) /\ e \in ParamKinds /\ s = q \o <<e>> /\ Len(q) = m
    <3>1. \E q \in Seq(ParamKinds), e \in ParamKinds : s = q \o <<e>> /\ Len(q) = m
      BY LastOff
    <3> QED  BY <3>1, Zenon
  <2>2. PICK a \in Seq(ParamKinds) : a = Selected(q, ItemKinds)
    BY <2>1, SelectedType
  <2>3. Selected(s, ItemKinds) = a \o Whether(e, ItemKinds)
    BY <2>1, <2>2, SelectedLast
  <2>4. Holds(q, a)
    BY <1>2, <2>1, <2>2
  <2>5. /\ \A i \in 1 .. m : s[i] = q[i]
        /\ s[m + 1] = e /\ Len(q) = m
    BY <2>1, ElementsLast
  <2>6. \A i \in 1 .. m : ItemOf(s, i) = ItemOf(q, i) /\ Rank(s, i) = Rank(q, i)
    <3>1. ASSUME NEW i \in 1 .. m PROVE ItemOf(s, i) = ItemOf(q, i)
      <4>1. {j \in 1 .. i : s[j] # "socket"} = {j \in 1 .. i : q[j] # "socket"}
        BY <2>5
      <4> QED  BY <4>1 DEF ItemOf
    <3> QED  BY <2>1, <3>1, RankLast
  <2>7. ItemOf(s, m + 1) = Cardinality(Kept(s)) /\ Rank(s, m + 1) = Count(s, e)
    <3>1. Rank(s, m + 1) = Count(s, e)
      BY <2>1, RankLast
    <3> QED  BY <3>1 DEF ItemOf
  <2>8. Kept(q) \in SUBSET (1 .. m) /\ Len(a) \in Nat
    BY <2>5
  <2>9. CASE e = "socket"
    <3>1. Whether(e, ItemKinds) = <<>> /\ a \o <<>> = a
      BY <2>2, <2>9, ConcatEmptySeq DEF Whether, ItemKinds
    <3>2. Selected(s, ItemKinds) = a
      BY <2>3, <3>1, Zenon
    <3>3. Kept(s) = Kept(q)
      BY <2>5, <2>9
    <3>4. \A i \in 1 .. (m + 1) : s[i] # "socket" => i \in 1 .. m
      BY <2>5, <2>9
    <3>5. \A i \in 1 .. (m + 1) : s[i] # "socket" => Fits(s, a, i)
      BY <2>4, <2>5, <2>6, <3>4
    <3> QED  BY <2>4, <3>2, <3>3, <3>5
  <2>10. CASE e # "socket"
    <3>1. PICK t : t = a \o <<e>>
      OBVIOUS
    <3>2. e \in ItemKinds /\ Selected(s, ItemKinds) = t
      BY <2>1, <2>3, <2>10, <3>1 DEF Whether, ItemKinds, ParamKinds
    <3>3. /\ Len(t) = Len(a) + 1 /\ t[Len(a) + 1] = e
          /\ \A j \in 1 .. Len(a) : t[j] = a[j] /\ Rank(t, j) = Rank(a, j)
          /\ Rank(t, Len(a) + 1) = Count(t, e)
      BY <2>1, <2>2, <3>1, RankLast
    <3>4. Kept(s) = Kept(q) \cup {m + 1}
      BY <2>5, <2>10
    <3>5. Cardinality(Kept(s)) = Len(a) + 1
      <4>1. PICK D : D = Kept(q)
        OBVIOUS
      <4>2. D \in SUBSET (1 .. m) /\ Cardinality(D) = Len(a)
        BY <2>4, <2>8, <4>1
      <4>3. Cardinality(D \cup {m + 1}) = Cardinality(D) + 1
        BY <4>2, Positions
      <4> QED  BY <3>4, <4>1, <4>2, <4>3
    <3>6. Count(t, e) = Count(s, e)
      BY <3>2, CountSelected
    <3>7. Fits(s, t, m + 1)
      BY <2>5, <2>7, <2>8, <3>3, <3>5, <3>6
    <3>8. ASSUME NEW i \in 1 .. m, s[i] # "socket" PROVE Fits(s, t, i)
      <4>1. Fits(q, a, i)
        BY <2>4, <2>5, <3>8
      <4> QED  BY <2>5, <2>6, <2>8, <3>3, <4>1
    <3> QED  BY <3>2, <3>3, <3>5, <3>7, <3>8
  <2> QED  BY <2>9, <2>10
<1> HIDE DEF T
<1>3. \A m \in Nat : m \in T
  BY <1>1, <1>2, SetInduction
<1>4. SUFFICES ASSUME NEW s \in Seq(ParamKinds) PROVE Holds(s, Selected(s, ItemKinds))
  OBVIOUS
<1>5. Len(s) \in T
  BY <1>3
<1> QED  BY <1>5 DEF T

-----------------------------------------------------------------------------
(* What the frames of an event hold of its arguments.                      *)

\* What is selected is in the set.
LEMMA SelectedWithin ==
  ASSUME NEW A, NEW S
  PROVE  \A s \in Seq(A) : Selected(s, S) \in Seq(A \cap S)
<1> DEFINE T == {n \in Nat : \A s \in Seq(A) : Len(s) = n => Selected(s, S) \in Seq(A \cap S)}
<1>1. 0 \in T
  <2> SUFFICES ASSUME NEW s \in Seq(A), Len(s) = 0 PROVE Selected(s, S) \in Seq(A \cap S)
    OBVIOUS
  <2>1. s = <<>> /\ <<>> \in Seq(A \cap S)
    BY EmptySeq
  <2> QED  BY <2>1, SelectedEmpty
<1>2. ASSUME NEW n \in Nat, n \in T PROVE n + 1 \in T
  <2> SUFFICES ASSUME NEW s, s \in Seq(A), Len(s) = n + 1 PROVE Selected(s, S) \in Seq(A \cap S)
    OBVIOUS
  <2>1. PICK q, e : q \in Seq(A) /\ e \in A /\ s = q \o <<e>> /\ Len(q) = n
    <3>1. \E q \in Seq(A), e \in A : s = q \o <<e>> /\ Len(q) = n
      BY LastOff
    <3> QED  BY <3>1, Zenon
  <2>2. Selected(q, S) \in Seq(A \cap S)
    BY <1>2, <2>1
  <2>3. Whether(e, S) \in Seq(A \cap S)
    <3>1. <<>> \in Seq(A \cap S) /\ \A x \in A \cap S : <<x>> \in Seq(A \cap S)
      OBVIOUS
    <3>2. CASE e \in S
      <4>1. e \in A \cap S /\ Whether(e, S) = <<e>>
        BY <2>1, <3>2 DEF Whether
      <4> QED  BY <3>1, <4>1, Zenon
    <3>3. CASE e \notin S
      <4>1. Whether(e, S) = <<>>
        BY <3>3 DEF Whether
      <4> QED  BY <3>1, <4>1, Zenon
    <3> QED  BY <3>2, <3>3
  <2>4. Selected(s, S) = Selected(q, S) \o Whether(e, S)
    BY <2>1, SelectedLast
  <2>5. Selected(q, S) \o Whether(e, S) \in Seq(A \cap S)
    BY <2>2, <2>3, ConcatProperties
  <2> QED  BY <2>4, <2>5, Zenon
<1> HIDE DEF T
<1>3. \A n \in Nat : n \in T
  BY <1>1, <1>2, SetInduction
<1> QED  BY <1>3 DEF T

\* What the JSON text of an event holds of its arguments.
Json(a) == Selected(a, {"name", "json"})

\* Each item is "json", and there are as many as there are of that kind.
LEMMA JsonFacts ==
  ASSUME NEW a \in Seq(ItemKinds)
  PROVE  /\ Json(a) \in Seq({"json"})
         /\ Len(Json(a)) = Count(a, "json")
         /\ \A i \in 1 .. Len(Json(a)) : Rank(Json(a), i) = i
<1>1. ItemKinds \cap {"name", "json"} = {"json"}
  BY DEF ItemKinds
<1>2. PICK b \in Seq({"json"}) : b = Json(a)
  <2>1. Selected(a, {"name", "json"}) \in Seq(ItemKinds \cap {"name", "json"})
    BY SelectedWithin
  <2> QED  BY <1>1, <2>1 DEF Json
<1>3. \A i \in 1 .. Len(b) : b[i] = "json"
  OBVIOUS
<1>4. ASSUME NEW i \in 0 .. Len(b) PROVE Cardinality(1 .. i) = i
  <2>1. 1 \in Int /\ i \in Int /\ i >= 0
    OBVIOUS
  <2>2. Cardinality(1 .. i) = IF 1 > i THEN 0 ELSE i - 1 + 1
    BY <2>1, FS_Interval
  <2> QED  BY <2>1, <2>2
<1>5. ASSUME NEW i \in 1 .. Len(b) PROVE Rank(b, i) = i
  <2>1. {j \in 1 .. i : b[j] = b[i]} = 1 .. i
    BY <1>3
  <2>2. i \in 0 .. Len(b)
    OBVIOUS
  <2>3. Cardinality(1 .. i) = i
    BY <1>4, <2>2
  <2> QED  BY <2>1, <2>3 DEF Rank
<1>6. Count(b, "json") = Len(b)
  <2>1. {j \in 1 .. Len(b) : b[j] = "json"} = 1 .. Len(b)
    BY <1>3
  <2>2. Len(b) \in 0 .. Len(b)
    OBVIOUS
  <2>3. Cardinality(1 .. Len(b)) = Len(b)
    BY <1>4, <2>2
  <2> QED  BY <2>1, <2>3 DEF Count
<1>7. Count(b, "json") = Count(a, "json")
  <2>1. PICK S, x : S = {"name", "json"} /\ x = "json" /\ x \in S
    OBVIOUS
  <2>2. Count(Selected(a, S), x) = Count(a, x)
    BY <2>1, CountSelected
  <2> QED  BY <1>2, <2>1, <2>2, Zenon DEF Json
<1> QED  BY <1>2, <1>5, <1>6, <1>7

\* The list with placeholders, as preprocess leaves it.
Hidden(s) == [i \in DOMAIN s |-> IF s[i] = "bin" THEN "placeholder" ELSE s[i]]

\* What decode leaves of it is what is no binary.
LEMMA HiddenSelected ==
  \A s \in Seq(Items) : (\A i \in DOMAIN s : s[i] # "placeholder") =>
    Selected(Hidden(s), {"name", "json", "bin"}) = Json(s)
<1> DEFINE Bare(s) == \A i \in DOMAIN s : s[i] # "placeholder"
           All == {"name", "json", "bin"}
           Holds(s) == Selected(Hidden(s), All) = Json(s)
           T == {m \in Nat : \A s \in Seq(Items) : Len(s) = m => (Bare(s) => Holds(s))}
<1>1. 0 \in T
  <2> SUFFICES ASSUME NEW s \in Seq(Items), Len(s) = 0 PROVE Holds(s)
    OBVIOUS
  <2>1. s = <<>>
    BY EmptySeq
  <2>2. Hidden(<<>>) = <<>>
    BY DEF Hidden
  <2> QED  BY <2>1, <2>2, SelectedEmpty DEF Json
<1>2. ASSUME NEW m \in Nat, m \in T PROVE m + 1 \in T
  <2> SUFFICES ASSUME NEW s, s \in Seq(Items), Len(s) = m + 1, Bare(s) PROVE Holds(s)
    OBVIOUS
  <2>1. PICK q, e : q \in Seq(Items) /\ e \in Items /\ s = q \o <<e>> /\ Len(q) = m
    <3>1. \E q \in Seq(Items), e \in Items : s = q \o <<e>> /\ Len(q) = m
      BY LastOff
    <3> QED  BY <3>1, Zenon
  <2>2. PICK v : v = IF e = "bin" THEN "placeholder" ELSE e
    OBVIOUS
  <2>3. /\ \A i \in 1 .. m : s[i] = q[i]
        /\ s[m + 1] = e
        /\ q \in Seq(Items) /\ Len(q) = m
    BY <2>1, ElementsLast
  <2>4. DOMAIN s = 1 .. (m + 1) /\ DOMAIN q = 1 .. m
    BY <2>3
  <2>5. Bare(q) /\ e # "placeholder" /\ e \in Items /\ v \in Items
    <3>1. m + 1 \in 1 .. (m + 1) /\ \A i \in 1 .. m : i \in 1 .. (m + 1)
      OBVIOUS
    <3>2. Bare(q) /\ e # "placeholder"
      BY <2>3, <2>4, <3>1
    <3> QED  BY <2>1, <2>2, <3>2 DEF Items
  <2>6. PICK h \in Seq(Items) : h = Hidden(q) /\ Len(h) = m
    <3>1. \A i \in 1 .. m : q[i] \in Items
      BY <2>3, <2>4
    <3>2. Hidden(q) \in [1 .. m -> Items]
      BY <2>4, <3>1 DEF Hidden, Items
    <3> QED  BY <3>2, FunctionIsSeq
  <2>7. Hidden(s) = h \o <<v>>
    <3>1. PICK w : w = Hidden(s)
      OBVIOUS
    <3>2. w = [i \in 1 .. (m + 1) |-> IF s[i] = "bin" THEN "placeholder" ELSE s[i]]
      BY <2>4, <3>1 DEF Hidden
    <3>3. h = [i \in 1 .. m |-> IF q[i] = "bin" THEN "placeholder" ELSE q[i]]
      BY <2>4, <2>6 DEF Hidden
    <3>4. \A i \in 1 .. m : w[i] = h[i]
      BY <2>3, <3>2, <3>3
    <3>5. w[m + 1] = v
      BY <2>2, <2>3, <3>2
    <3>6. \A i \in 1 .. (m + 1) : w[i] \in Items
      <4>1. \A i \in 1 .. m : h[i] \in Items
        BY <2>6
      <4> QED  BY <2>5, <3>4, <3>5, <4>1
    <3>7. w \in [1 .. (m + 1) -> Items] /\ m + 1 \in Nat
      BY <3>2, <3>6
    <3>8. w \in Seq(Items) /\ Len(w) = m + 1
      BY <3>7, FunctionIsSeq
    <3>9. h \o <<v>> \in Seq(Items) /\ Len(h \o <<v>>) = m + 1
      BY <2>5, <2>6
    <3>10. \A i \in 1 .. (m + 1) : w[i] = (h \o <<v>>)[i]
      BY <2>5, <2>6, <3>4, <3>5
    <3> QED  BY <3>1, <3>8, <3>9, <3>10
  <2>8. Selected(h, All) = Json(q)
    BY <1>2, <2>1, <2>5, <2>6
  <2>9. Selected(h \o <<v>>, All) = Selected(h, All) \o Whether(v, All)
    BY <2>5, <2>6, SelectedLast
  <2>10. Selected(q \o <<e>>, {"name", "json"})
           = Selected(q, {"name", "json"}) \o Whether(e, {"name", "json"})
    BY <2>1, SelectedLast
  <2>11. Whether(v, All) = Whether(e, {"name", "json"})
    BY <2>2, <2>5 DEF Whether, Items
  <2> QED  BY <2>1, <2>7, <2>8, <2>9, <2>10, <2>11, Zenon DEF Json
<1> HIDE DEF T
<1>3. SUFFICES ASSUME NEW s \in Seq(Items), Bare(s) PROVE Holds(s)
  OBVIOUS
<1>4. Len(s) \in T
  BY <1>1, <1>2, SetInduction
<1> QED  BY <1>3, <1>4 DEF T

\* An event's name and arguments: how many binaries there are, and what is left when
\* they are taken out.
LEMMA EventData ==
  ASSUME NEW a \in Seq(ItemKinds)
  PROVE  LET d == <<"name">> \o a IN
         /\ d \in Seq(Items) /\ d # <<>>
         /\ Cardinality(Binaries(d)) = Count(a, "bin")
         /\ Selected(Hidden(d), {"name", "json", "bin"}) = <<"name">> \o Json(a)
<1>1. PICK d : d = <<"name">> \o a
  OBVIOUS
<1>2. a \in Seq(Items) /\ d \in Seq(Items) /\ <<"name">> \in Seq(Items)
  BY <1>1, ListsOfItems DEF Items, ItemKinds
<1>3. d # <<>> /\ \A i \in DOMAIN d : d[i] # "placeholder"
  <2>1. \A i \in 1 .. Len(a) : a[i] # "placeholder"
    BY DEF ItemKinds
  <2> QED  BY <1>1, <2>1
<1>4. Selected(Hidden(d), {"name", "json", "bin"}) = Json(d)
  BY <1>2, <1>3, HiddenSelected
<1>5. \A S : Selected(d, S) = Selected(<<"name">>, S) \o Selected(a, S)
  BY <1>1, <1>2, SelectedConcat
<1>6. Json(d) = <<"name">> \o Json(a)
  <2>1. Selected(<<"name">>, {"name", "json"}) = Whether("name", {"name", "json"})
    BY SelectedOne
  <2>2. Whether("name", {"name", "json"}) = <<"name">>
    BY DEF Whether
  <2> QED  BY <1>5, <2>1, <2>2, Zenon DEF Json
<1>7. Count(d, "bin") = Count(a, "bin")
  <2>1. Selected(<<"name">>, {"bin"}) = Whether("name", {"bin"})
    BY SelectedOne
  <2>2. Whether("name", {"bin"}) = <<>>
    BY DEF Whether
  <2>3. Selected(a, {"bin"}) \in Seq(Items)
    BY <1>2, SelectedType
  <2>4. <<>> \o Selected(a, {"bin"}) = Selected(a, {"bin"})
    BY <2>3, ConcatEmptySeq
  <2>5. Selected(d, {"bin"}) = Selected(a, {"bin"})
    BY <1>5, <2>1, <2>2, <2>4, Zenon
  <2>6. PICK S, x : S = {"bin"} /\ x = "bin" /\ x \in S
    OBVIOUS
  <2>7. \A s \in Seq(Items) : Count(Selected(s, S), x) = Count(s, x)
    <3>1. x \in S
      BY <2>6
    <3> QED  BY ONLY <3>1, CountSelected
  <2> QED  BY <1>2, <2>5, <2>6, <2>7, Zenon
<1>8. Cardinality(Binaries(d)) = Count(d, "bin")
  <2>1. DOMAIN d = 1 .. Len(d)
    BY <1>2
  <2> QED  BY <2>1 DEF Binaries, Count
<1> QED  BY <1>1, <1>2, <1>3, <1>4, <1>6, <1>7, <1>8

-----------------------------------------------------------------------------
(* Calls.                                                                  *)

\* With either parser, a callback that has, the Socket aside, parameters of the kinds of
\* the arguments gets each argument in its place.
LEMMA CallFits ==
  ASSUME NEW q \in Packets, NEW a \in Seq(ItemKinds), params \in Seq(ParamKinds),
         parser \in {"default", "msgpack"}, Base(q) = "event",
         Selected(params, ItemKinds) = a,
         parser = "default" => /\ q.data = <<"name">> \o Json(a)
                               /\ q.attachments = Count(a, "bin") /\ Filled(q),
         parser = "msgpack" => q.data = <<"name">> \o a
  PROVE  ParseOK(q) /\ Call(q) = Places(params, q.num)
<1> DEFINE n == q.num
           At(i) == Value(params[i], n, Rank(params, i))
<1>1. n \in Nat /\ q.attachments \in Nat /\ q.buffer \in Seq(Bytes)
  BY DEF Packets
<1>2. DOMAIN params = 1 .. Len(params) /\ \A i \in 1 .. Len(params) : params[i] \in ParamKinds
  OBVIOUS
<1>3. Places(params, n) = [i \in DOMAIN params |-> At(i)]
  BY DEF Places
<1>4. \A b \in Seq(ItemKinds) : /\ Tail(<<"name">> \o b) = b
                                /\ <<"name">> \o b # <<>> /\ (<<"name">> \o b)[1] = "name"
  OBVIOUS
<1>5. CASE parser = "default"
  <2>1. PICK b \in Seq({"json"}) : b = Json(a)
    BY JsonFacts
  <2>2. b \in Seq(ItemKinds)
    <3>1. b \in [1 .. Len(b) -> {"json"}] /\ Len(b) \in Nat
      OBVIOUS
    <3>2. b \in [1 .. Len(b) -> ItemKinds]
      BY <3>1 DEF ItemKinds
    <3> QED  BY <3>1, <3>2, FunctionIsSeq
  <2>3. ParseOK(q) /\ Tail(q.data) = b
    BY <1>4, <1>5, <2>1, <2>2 DEF ParseOK, ParseDefault
  <2> DEFINE values == [i \in DOMAIN b |-> <<b[i], n, Rank(b, i)>>]
             buffer == [j \in DOMAIN q.buffer |-> <<"bin", q.buffer[j][2], q.buffer[j][3]>>]
  <2>4. values = [i \in 1 .. Count(a, "json") |-> <<"json", n, i>>]
    <3>1. DOMAIN b = 1 .. Len(b) /\ Len(b) = Count(a, "json")
      BY <2>1, JsonFacts
    <3>2. \A i \in 1 .. Len(b) : b[i] = "json" /\ Rank(b, i) = i
      BY <2>1, JsonFacts
    <3> QED  BY <3>1, <3>2
  <2>5. buffer = [j \in 1 .. Count(a, "bin") |-> <<"bin", n, j>>]
    <3>1. DOMAIN q.buffer = 1 .. Count(a, "bin")
      BY <1>1, <1>5 DEF Filled
    <3>2. \A j \in 1 .. Count(a, "bin") : q.buffer[j] = <<"event", n, j>>
      BY <1>5 DEF Filled
    <3>3. \A j \in 1 .. Count(a, "bin") : q.buffer[j][2] = n /\ q.buffer[j][3] = j
      BY <3>2
    <3> QED  BY <3>1, <3>3
  <2>6. Call(q) = UnmarshalDefault(params, values, buffer)
    BY <1>5, <2>3 DEF Call
  <2> HIDE DEF values, buffer
  <2>7. ASSUME NEW i \in DOMAIN params
        PROVE  At(i) = LET from == IF params[i] = "bin" THEN buffer ELSE values
                       IN  IF params[i] = "socket" THEN TheSocket
                           ELSE IF Rank(params, i) \in DOMAIN from THEN from[Rank(params, i)]
                                ELSE ZeroValue
    <3>1. PICK k, r : k = params[i] /\ k \in ParamKinds /\ r = Rank(params, i)
      BY <1>2
    <3>2. r \in Nat /\ 1 <= r /\ r <= Count(params, k)
      BY <1>2, <3>1, RankBounds
    <3>3. CASE k = "socket"
      BY <3>1, <3>3 DEF Value
    <3>4. CASE k # "socket"
      <4>1. k \in ItemKinds
        BY <3>1, <3>4 DEF ParamKinds, ItemKinds
      <4>2. Count(Selected(params, ItemKinds), k) = Count(params, k)
        BY ONLY <4>1, CountSelected, params \in Seq(ParamKinds)
      <4>3. Count(a, k) \in Nat /\ r \in 1 .. Count(a, k)
        <5>1. Count(a, k) \in Nat
          BY <4>1, CountLast
        <5>2. Count(a, k) = Count(params, k)
          BY <4>2
        <5> QED  BY <3>2, <5>1, <5>2
      <4>4. At(i) = <<k, n, r>>
        BY <3>1, <3>4 DEF Value
      <4>5. CASE k = "bin"
        BY <2>5, <3>1, <4>3, <4>4, <4>5
      <4>6. CASE k = "json"
        BY <2>4, <3>1, <4>3, <4>4, <4>6
      <4> QED  BY <4>1, <4>5, <4>6 DEF ItemKinds
    <3> QED  BY <3>3, <3>4
  <2>8. UnmarshalDefault(params, values, buffer) = [i \in DOMAIN params |-> At(i)]
    BY <2>7, Zenon DEF UnmarshalDefault
  <2> QED  BY <1>3, <2>3, <2>6, <2>8
<1>6. CASE parser = "msgpack"
  <2>1. ParseOK(q) /\ Tail(q.data) = a
    BY <1>4, <1>6 DEF ParseOK, ParseMsgpack
  <2> DEFINE values == [i \in DOMAIN a |-> <<a[i], n, Rank(a, i)>>]
  <2>2. Call(q) = UnmarshalMsgpack(params, values)
    BY <1>6, <2>1 DEF Call
  <2>3. DOMAIN values = 1 .. Len(a) /\ \A k \in 1 .. Len(a) : values[k] = <<a[k], n, Rank(a, k)>>
    OBVIOUS
  <2> HIDE DEF values
  <2>4. ASSUME NEW i \in DOMAIN params, params[i] # "socket"
        PROVE  Readable(params[i], values, ItemOf(params, i)) /\ values[ItemOf(params, i)] = At(i)
    <3>1. PICK k : k = ItemOf(params, i)
      OBVIOUS
    <3>2. k \in 1 .. Len(a) /\ a[k] = params[i] /\ Rank(a, k) = Rank(params, i)
      BY <1>2, <2>4, <3>1, ItemPlaces
    <3>3. values[k] = <<params[i], n, Rank(params, i)>>
      BY <2>3, <3>2
    <3>4. values[k] = At(i)
      BY <2>4, <3>3 DEF Value
    <3>5. values[k][1] = params[i]
      BY <3>3
    <3> QED  BY <2>3, <3>1, <3>2, <3>4, <3>5 DEF Readable
  <2>5. \A i \in DOMAIN params :
          At(i) = IF params[i] = "socket" THEN TheSocket ELSE values[ItemOf(params, i)]
    BY <2>4, Zenon DEF Value
  <2>6. UnmarshalMsgpack(params, values) = [i \in DOMAIN params |-> At(i)]
    BY <2>4, <2>5, Zenon DEF UnmarshalMsgpack
  <2> QED  BY <1>3, <2>1, <2>2, <2>6
<1> QED  BY <1>5, <1>6

\* That is not a failure, and has the arguments in their order.
LEMMA PlacesMatch ==
  ASSUME NEW s \in Seq(ParamKinds), NEW n \in Nat, NEW a \in Seq(ItemKinds),
         Selected(s, ItemKinds) = a
  PROVE  /\ Places(s, n) # Fail
         /\ Selected(Places(s, n), Range(Places(s, n)) \ {TheSocket})
              = [i \in DOMAIN a |-> <<a[i], n, Rank(a, i)>>]
<1>0. \A k, r : Len(<<k, n, r>>) = 3
  OBVIOUS
<1>1. Len(TheSocket) = 1 /\ Len(<<"fail">>) = 1 /\ <<"fail">> # TheSocket
  BY DEF TheSocket
<1>2. \A k, r : <<k, n, r>> # TheSocket /\ <<k, n, r>> # <<"fail">>
  BY <1>0, <1>1
<1>3. DOMAIN Places(s, n) = DOMAIN s
      /\ \A i \in DOMAIN s : Places(s, n)[i] = Value(s[i], n, Rank(s, i))
  BY DEF Places
<1>4. \A k, r : Value(k, n, r) # <<"fail">> /\ (k # "socket" => Value(k, n, r) # TheSocket)
  BY <1>1, <1>2 DEF Value
<1>5. Places(s, n) # Fail
  <2>1. 1 \in DOMAIN Fail /\ Fail[1] = <<"fail">>
    BY DEF Fail
  <2> QED  BY <1>3, <1>4, <2>1
<1>6. PICK S : S = Range(Places(s, n)) \ {TheSocket}
  OBVIOUS
<1>7. TheSocket \notin S /\ \A i \in DOMAIN s : s[i] # "socket" => Places(s, n)[i] \in S
  <2>1. \A i \in DOMAIN s : Places(s, n)[i] \in Range(Places(s, n))
    BY <1>3 DEF Range
  <2> QED  BY <1>3, <1>4, <1>6, <2>1
<1>8. Selected(Places(s, n), S) = Places(a, n)
  BY <1>7, PlacesSelected
<1>9. Places(a, n) = [i \in DOMAIN a |-> <<a[i], n, Rank(a, i)>>]
  <2>1. \A i \in DOMAIN a : a[i] # "socket"
    BY DEF ItemKinds
  <2>2. \A i \in DOMAIN a : Value(a[i], n, Rank(a, i)) = <<a[i], n, Rank(a, i)>>
    BY <2>1 DEF Value
  <2> QED  BY <2>2 DEF Places
<1> QED  BY <1>5, <1>6, <1>8, <1>9

-----------------------------------------------------------------------------
(* From emit to the callback.                                              *)

\* A packet q that is an event has, when its data is d, what was emitted: A are the
\* arguments of the events.
Carries(q, d, A) ==
  Base(q) = "event" =>
    /\ q.num \in DOMAIN A
    /\ parser = "default" => /\ d = <<"name">> \o Json(A[q.num])
                             /\ q.attachments = Count(A[q.num], "bin")
    /\ parser = "msgpack" => d = <<"name">> \o A[q.num]

\* The data that the decoder makes of a head.
DataOf(q) == IF parser = "default" THEN Selected(q.data, {"name", "json", "bin"}) ELSE q.data
HeadCarries(f, A) == IsHead(f) => Carries(f.packet, DataOf(f.packet), A)

\* A call fits the arguments of its event.
Matched(c, A) ==
  Selected(params, ItemKinds) = A[c[1]] =>
    /\ c[2] # Fail
    /\ Selected(c[2], Range(c[2]) \ {TheSocket}) =
         [i \in DOMAIN A[c[1]] |-> <<A[c[1]][i], c[1], Rank(A[c[1]], i)>>]

\* Every event, wherever it is, carries what was emitted.
CarryInv ==
  /\ params \in Seq(ParamKinds)
  /\ args \in Seq(Seq(ItemKinds)) /\ Len(args) = nev
  /\ \A g \in Goroutines : \A i \in DOMAIN outq[g] : HeadCarries(outq[g][i], args)
  /\ \A p \in Peers : \A i \in DOMAIN wire[p] : HeadCarries(wire[p][i], args)
  /\ \A p \in Peers : lastp[p] # <<>> => Carries(lastp[p][1], lastp[p][1].data, args)

\* The calls fit.
CallInv ==
  /\ \A c \in calls : c[1] \in DOMAIN args
  /\ lost = 0 \/ ~Refusal => \A c \in calls : Matched(c, args)

\* More arguments change nothing for events that were emitted.
LEMMA CarriesLonger ==
  ASSUME NEW A \in Seq(Seq(ItemKinds)), NEW a \in Seq(ItemKinds), NEW B, B = Append(A, a)
  PROVE  /\ B \in Seq(Seq(ItemKinds)) /\ Len(B) = Len(A) + 1 /\ B[Len(A) + 1] = a
         /\ \A n \in DOMAIN A : n \in DOMAIN B /\ B[n] = A[n]
         /\ \A q, d : Carries(q, d, A) => Carries(q, d, B)
         /\ \A f : HeadCarries(f, A) => HeadCarries(f, B)
<1>0. A \in Seq(Seq(ItemKinds)) /\ a \in Seq(ItemKinds)
  OBVIOUS
<1>1. /\ B \in Seq(Seq(ItemKinds)) /\ Len(B) = Len(A) + 1 /\ B[Len(A) + 1] = a
      /\ \A n \in DOMAIN A : n \in DOMAIN B /\ B[n] = A[n]
  <2>1. PICK K : K = Seq(ItemKinds)
    OBVIOUS
  <2>2. A \in Seq(K) /\ a \in K
    BY <2>1
  <2>3. /\ B \in Seq(K) /\ Len(B) = Len(A) + 1 /\ B[Len(A) + 1] = a
        /\ \A n \in DOMAIN A : n \in DOMAIN B /\ B[n] = A[n]
    BY ONLY <2>2, B = Append(A, a)
  <2> QED  BY <2>1, <2>3
<1>2. ASSUME NEW q, NEW d, Carries(q, d, A) PROVE Carries(q, d, B)
  BY <1>1, <1>2, Zenon DEF Carries
<1>3. \A f : HeadCarries(f, A) => HeadCarries(f, B)
  BY <1>2 DEF HeadCarries
<1> QED  BY <1>1, <1>2, <1>3

\* An event on its way carries what emit was called with.
LEMMA EncodeCarries ==
  ASSUME parser \in {"default", "msgpack"}, NEW a \in Seq(ItemKinds), NEW p \in Packets,
         NEW A, p.type = "event", p.data = <<"name">> \o a, p.num \in DOMAIN A, A[p.num] = a
  PROVE  \A i \in DOMAIN Encode(p) : HeadCarries(Encode(p)[i], A)
<1>1. CASE parser = "default"
  <2> DEFINE q == preprocess(p)
             b == [k \in DOMAIN q.buffer |-> BinaryFrame(q.buffer[k])]
  <2>1. q \in Packets /\ q.num = p.num
    BY PreprocessFacts DEF Kinds
  <2>2. q.data = Hidden(p.data) /\ q.attachments = Cardinality(Binaries(p.data))
    BY DEF preprocess, Hidden, Packets
  <2>3. q.attachments = Count(a, "bin")
        /\ Selected(q.data, {"name", "json", "bin"}) = <<"name">> \o Json(a)
    BY <2>2, EventData
  <2> HIDE DEF q
  <2>4. PICK f : f = StringFrame(q)
    OBVIOUS
  <2>5. f.packet.data = q.data /\ f.packet.attachments = q.attachments /\ f.packet.num = q.num
    BY <2>1, <2>4 DEF StringFrame, Packets
  <2>6. Carries(f.packet, DataOf(f.packet), A)
    BY <1>1, <2>1, <2>3, <2>5 DEF Carries, DataOf
  <2>7. Encode(p) = <<f>> \o b
    BY <1>1, <2>4 DEF Encode, EncodeDefault, q
  <2>8. DOMAIN q.buffer = 1 .. Len(q.buffer) /\ Len(q.buffer) \in Nat
    BY <2>1 DEF Packets
  <2>9. b \in Seq({BinaryFrame(q.buffer[k]) : k \in DOMAIN q.buffer}) /\ Len(b) = Len(q.buffer)
    <3>1. b \in [1 .. Len(q.buffer) -> {BinaryFrame(q.buffer[k]) : k \in DOMAIN q.buffer}]
      BY <2>8
    <3> QED  BY <2>8, <3>1, FunctionIsSeq
  <2>10. \A k \in 1 .. Len(b) : ~IsHead(b[k])
    BY <2>8, <2>9 DEF BinaryFrame, IsHead
  <2> HIDE DEF b
  <2>11. ASSUME NEW i \in DOMAIN Encode(p), i # 1 PROVE ~IsHead(Encode(p)[i])
    <3>1. Len(b) \in Nat /\ DOMAIN Encode(p) = 1 .. (1 + Len(b))
      BY <2>7, <2>9
    <3>2. \A j \in 1 .. Len(b) : (<<f>> \o b)[j + 1] = b[j]
      BY <2>9
    <3>3. PICK j : j = i - 1
      OBVIOUS
    <3>4. j \in 1 .. Len(b) /\ i = j + 1
      BY <2>11, <3>1, <3>3
    <3>5. Encode(p)[j + 1] = b[j]
      BY <2>7, <3>2, <3>4
    <3> QED  BY <2>10, <3>4, <3>5
  <2>12. Encode(p)[1] = f
    BY <2>7, <2>9
  <2> QED  BY <2>6, <2>11, <2>12 DEF HeadCarries
<1>2. CASE parser = "msgpack"
  <2>1. PICK e, f : e = EmptyFrame /\ f = PackedFrame(p)
    OBVIOUS
  <2>2. Encode(p) = <<e, f>>
    BY <1>2, <2>1 DEF Encode, EncodeMsgpack
  <2>3. ~IsHead(e)
    BY <2>1 DEF EmptyFrame, IsHead
  <2>4. f.packet.data = p.data /\ f.packet.num = p.num
    BY <2>1 DEF PackedFrame, Packets
  <2>5. Carries(f.packet, DataOf(f.packet), A)
    BY <1>2, <2>4 DEF Carries, DataOf
  <2>6. DOMAIN Encode(p) = {1, 2} /\ Encode(p)[1] = e /\ Encode(p)[2] = f
    BY <2>2
  <2> QED  BY <2>3, <2>5, <2>6 DEF HeadCarries
<1> QED  BY <1>1, <1>2

\* An acknowledgement is no event.
LEMMA ReplyCarries ==
  ASSUME NEW p \in Packets, p.type = "ack", parser = "default" \/ p.attachments = 0, NEW A
  PROVE  \A i \in DOMAIN Encode(p) : HeadCarries(Encode(p)[i], A)
<1>1. EncodedWell(Encode(p), p)
  BY EncodeFacts DEF Kinds
<1> QED  BY <1>1 DEF EncodedWell, HeadCarries, Carries

\* What Add makes of it carries the same.
LEMMA AddCarries ==
  ASSUME parser \in {"default", "msgpack"}, NEW last, Waits(last), NEW f \in FrameSet, NEW A,
         HeadCarries(f, A), last # <<>> => Carries(last[1], last[1].data, A)
  PROVE  LET r == Add(last, f) IN
         /\ r.last # <<>> => Carries(r.last[1], r.last[1].data, A)
         /\ r.out # <<>> => Carries(r.out[1], r.out[1].data, A)
<1> DEFINE r == Add(last, f)
<1>0. \A q : <<q>>[1] = q
  OBVIOUS
<1>1. CASE parser = "default" /\ IsHead(f)
  <2>1. f.kind = "string" /\ f.packet \in Packets
    BY <1>1 DEF FrameSet, DefaultFrames, IsHead, BarePackets
  <2>2. PICK q : q = decode(f.packet)
    OBVIOUS
  <2>3. /\ q.data = Selected(f.packet.data, {"name", "json", "bin"}) /\ q.num = f.packet.num
        /\ q.type = f.packet.type /\ q.attachments = f.packet.attachments
    BY <2>1, <2>2 DEF decode, Packets
  <2>4. Carries(q, q.data, A)
    BY <1>1, <2>3 DEF HeadCarries, Carries, DataOf, Base
  <2>5. r \in {Result(last, <<>>, FALSE), Result(<<>>, <<q>>, TRUE), Result(<<q>>, <<>>, TRUE)}
    BY <1>1, <2>1, <2>2 DEF Add, AddDefault
  <2> QED  BY <1>0, <2>4, <2>5 DEF Result
<1>2. CASE parser = "default" /\ ~IsHead(f)
  <2>1. f.kind # "string"
    BY <1>2 DEF IsHead
  <2>2. CASE last = <<>>
    <3>1. r = Result(last, <<>>, FALSE)
      BY <1>2, <2>1, <2>2 DEF Add, AddDefault
    <3> QED  BY <2>2, <3>1 DEF Result
  <2>3. CASE last # <<>>
    <3>1. last[1] \in Packets
      BY <2>3 DEF Waits
    <3>2. PICK q : q = [last[1] EXCEPT !.buffer = Append(@, f.bytes)]
      OBVIOUS
    <3>3. /\ q.data = last[1].data /\ q.num = last[1].num
          /\ q.type = last[1].type /\ q.attachments = last[1].attachments
      BY <3>1, <3>2 DEF Packets
    <3>4. Carries(q, q.data, A)
      BY <2>3, <3>3 DEF Carries, Base
    <3>5. r \in {Result(<<>>, <<q>>, TRUE), Result(<<q>>, <<>>, TRUE)}
      BY <1>2, <2>1, <2>3, <3>2 DEF Add, AddDefault
    <3> QED  BY <1>0, <3>4, <3>5 DEF Result
  <2> QED  BY <2>2, <2>3
<1>3. CASE parser = "msgpack"
  <2>1. last = <<>>
    BY <1>3 DEF Waits
  <2>2. r = IF f.kind = "packed" THEN Result(last, <<f.packet>>, TRUE)
                                 ELSE Result(last, <<>>, FALSE)
    BY <1>3 DEF Add, AddMsgpack
  <2>3. f.kind = "packed" => Carries(f.packet, f.packet.data, A)
    BY <1>3 DEF HeadCarries, IsHead, DataOf
  <2> QED  BY <1>0, <2>1, <2>2, <2>3 DEF Result
<1> QED  BY <1>1, <1>2, <1>3

\* Events keep what they carry.
LEMMA CarryInvStep == FramesInv /\ CarryInv /\ [Next]_vars => CarryInv'
<1> SUFFICES ASSUME FramesInv, CarryInv, [Next]_vars PROVE CarryInv'
  OBVIOUS
<1>0. /\ parser \in {"default", "msgpack"} /\ nev \in Nat
      /\ outq \in [Goroutines -> Seq(FrameSet)] /\ wire \in [Peers -> Seq(FrameSet)]
      /\ lastp \in [Peers -> Seq(Packets)]
      /\ \A p \in Peers : Waits(lastp[p])
      /\ args \in Seq(Seq(ItemKinds)) /\ Len(args) = nev
      /\ params \in Seq(ParamKinds)
  BY DEF FramesInv, FramesTypeOK, CarryInv
<1>p. ASSUME parser' = parser
      PROVE  /\ \A q, d, A : Carries(q, d, A)' <=> Carries(q, d, A)
             /\ \A f, A : HeadCarries(f, A)' <=> HeadCarries(f, A)
  BY <1>p DEF Carries, HeadCarries, DataOf
<1> DEFINE Out(O, A) == \A g \in Goroutines : \A i \in DOMAIN O[g] : HeadCarries(O[g][i], A)
           Way(W, A) == \A p \in Peers : \A i \in DOMAIN W[p] : HeadCarries(W[p][i], A)
           Held(L, A) == \A p \in Peers : L[p] # <<>> => Carries(L[p][1], L[p][1].data, A)
<1>c. Out(outq, args) /\ Way(wire, args) /\ Held(lastp, args)
  BY DEF CarryInv
<1>q. ASSUME UNCHANGED <<parser, params>>, args' \in Seq(Seq(ItemKinds)), Len(args') = nev',
             Out(outq', args'), Way(wire', args'), Held(lastp', args')
      PROVE  CarryInv'
  BY <1>0, <1>p, <1>q DEF CarryInv
<1>1. ASSUME NEW g \in Senders, Emit(g) PROVE CarryInv'
  <2>1. PICK list \in ArgLists, id \in {0, nev'} :
          /\ Begin(g, [type |-> "event", num |-> nev', id |-> id, data |-> <<"name">> \o list,
                       attachments |-> 0, buffer |-> <<>>])
          /\ args' = Append(args, list)
    BY <1>1 DEF Emit
  <2>2. PICK a \in Seq(ItemKinds) : a = list
    BY FramesAssumption DEF ItemKinds
  <2>3. /\ nev' = nev + 1 /\ id \in Nat /\ g \in Goroutines
        /\ UNCHANGED <<parser, params, wire, lastp>>
    BY <1>0, <1>1 DEF Emit, Goroutines
  <2>4. PICK d \in Seq(Items) : d = <<"name">> \o a
    BY ListsOfItems DEF ItemKinds
  <2> DEFINE p == [type |-> "event", num |-> nev + 1, id |-> id, data |-> d,
                   attachments |-> 0, buffer |-> <<>>]
  <2>5. p \in Packets /\ p.type = "event" /\ p.num = nev + 1 /\ p.data = <<"name">> \o a
    BY <1>0, <2>3, <2>4 DEF Packets, PacketTypes
  <2>6. Begin(g, p)
    BY <2>1, <2>2, <2>3, <2>4
  <2> HIDE DEF p
  <2>7. PICK B : B = Append(args, a)
    OBVIOUS
  <2>8. /\ B \in Seq(Seq(ItemKinds)) /\ Len(B) = nev + 1 /\ B[nev + 1] = a
        /\ \A q, e : Carries(q, e, args) => Carries(q, e, B)
        /\ \A f : HeadCarries(f, args) => HeadCarries(f, B)
    BY <1>0, <2>7, CarriesLonger
  <2>9. nev + 1 \in DOMAIN B
    BY <1>0, <2>8
  <2>10. \A i \in DOMAIN Encode(p) : HeadCarries(Encode(p)[i], B)
    BY <1>0, <2>5, <2>8, <2>9, EncodeCarries
  <2>11. outq' = [outq EXCEPT ![g] = Encode(p)]
    BY <2>6 DEF Begin
  <2>12. Out(outq', B)
    BY <1>0, <1>c, <2>3, <2>8, <2>10, <2>11
  <2>13. Way(wire', B) /\ Held(lastp', B)
    BY <1>c, <2>3, <2>8
  <2>14. args' = B
    BY <2>1, <2>2, <2>7
  <2> QED  BY <1>q, <2>3, <2>8, <2>12, <2>13, <2>14
<1>2. ASSUME NEW g \in Goroutines, Submit(g) \/ SubmitLost(g) \/ SubmitFail(g) PROVE CarryInv'
  <2>1. /\ UNCHANGED <<parser, params, lastp, nev, args>> /\ outq[g] # <<>>
        /\ outq' = [outq EXCEPT ![g] = Tail(@)] \/ outq' = [outq EXCEPT ![g] = <<>>]
        /\ \/ wire' = wire
           \/ wire' = [wire EXCEPT ![Other(PeerOf(g))] = Append(@, Head(outq[g]))]
    BY <1>2 DEF Submit, SubmitLost, SubmitFail
  <2>2. PICK s \in Seq(FrameSet) : s = outq[g] /\ s # <<>>
    BY <1>0, <2>1
  <2>3. /\ \A i \in DOMAIN Tail(s) : i + 1 \in DOMAIN s /\ Tail(s)[i] = s[i + 1]
        /\ 1 \in DOMAIN s /\ Head(s) = s[1]
    BY <2>2
  <2>4. HeadCarries(Head(s), args) /\ \A i \in DOMAIN Tail(s) : HeadCarries(Tail(s)[i], args)
    BY <1>c, <2>2, <2>3
  <2>5. \A h \in Goroutines : outq'[h] \in {outq[h], <<>>} \/ (h = g /\ outq'[h] = Tail(s))
    BY <1>0, <2>1, <2>2
  <2>6. Out(outq', args)
    <3>1. SUFFICES ASSUME NEW h \in Goroutines, NEW i \in DOMAIN (outq'[h])
                   PROVE  HeadCarries(outq'[h][i], args)
      OBVIOUS
    <3>2. CASE outq'[h] = outq[h]
      BY <1>c, <3>2, Zenon
    <3>3. CASE outq'[h] = Tail(s)
      BY <2>4, <3>3, Zenon
    <3>4. outq'[h] # <<>>
      <4>1. DOMAIN <<>> = {}
        OBVIOUS
      <4> QED  BY <3>1, <4>1, Zenon
    <3> QED  BY <2>5, <3>2, <3>3, <3>4
  <2>7. Other(PeerOf(g)) \in Peers
    BY TwoPeers
  <2>8. Way(wire', args)
    <3>1. CASE wire' = wire
      BY <1>c, <3>1
    <3>2. CASE wire' # wire
      <4>1. PICK w \in Seq(FrameSet), f \in FrameSet :
              w = wire[Other(PeerOf(g))] /\ f = Head(s)
        BY <1>0, <2>2, <2>7
      <4>2. \A i \in DOMAIN Append(w, f) : (i \in DOMAIN w /\ Append(w, f)[i] = w[i])
                                           \/ Append(w, f)[i] = f
        OBVIOUS
      <4>3. \A i \in DOMAIN Append(w, f) : HeadCarries(Append(w, f)[i], args)
        BY <1>c, <2>4, <2>7, <4>1, <4>2
      <4>4. \A p \in Peers : wire'[p] = IF p = Other(PeerOf(g)) THEN Append(w, f) ELSE wire[p]
        BY <1>0, <2>1, <2>2, <3>2, <4>1
      <4> QED  BY <1>c, <4>3, <4>4
    <3> QED  BY <3>1, <3>2
  <2> QED  BY <1>0, <1>c, <1>q, <2>1, <2>6, <2>8
<1>3. ASSUME NEW p \in Peers, Receive(p) PROVE CarryInv'
  <2>1. PICK w \in Seq(FrameSet), f \in FrameSet : w = wire[p] /\ w # <<>> /\ f = Head(w)
    BY <1>0, <1>3 DEF Receive
  <2>2. PICK r : r = Add(lastp[p], f)
    OBVIOUS
  <2>3. /\ wire' = [wire EXCEPT ![p] = Tail(w)]
        /\ lastp' = [lastp EXCEPT ![p] = r.last]
        /\ UNCHANGED <<parser, params, nev, args>>
    BY <1>0, <1>3, <2>1, <2>2 DEF Receive
  <2>4. HeadCarries(f, args) /\ \A i \in DOMAIN Tail(w) : HeadCarries(Tail(w)[i], args)
    <3>1. /\ \A i \in DOMAIN Tail(w) : i + 1 \in DOMAIN w /\ Tail(w)[i] = w[i + 1]
          /\ 1 \in DOMAIN w /\ f = w[1]
      BY <2>1
    <3> QED  BY <1>c, <2>1, <3>1
  <2>5. Way(wire', args)
    BY <1>0, <1>c, <2>3, <2>4
  <2>6. r.last # <<>> => Carries(r.last[1], r.last[1].data, args)
    <3>1. PICK l : l = lastp[p]
      OBVIOUS
    <3>2. Waits(l) /\ (l # <<>> => Carries(l[1], l[1].data, args))
      BY <1>0, <1>c, <3>1
    <3> QED  BY <1>0, <2>2, <2>4, <3>1, <3>2, AddCarries
  <2>7. Held(lastp', args)
    BY <1>0, <1>c, <2>3, <2>6
  <2>8. Out(outq', args)
    <3>1. CASE UNCHANGED outq
      BY <1>c, <3>1
    <3>2. CASE ~UNCHANGED outq
      <4>1. PICK q, a : q \in Packets /\ a \in Packets /\ ReplyStep(p, q, a)
        BY <1>3, <3>2, ReceiveIsStep
      <4>2. /\ a.type = "ack" /\ (parser = "default" \/ a.attachments = 0)
            /\ outq' = [outq EXCEPT ![p] = Encode(a)]
        BY <4>1 DEF ReplyStep
      <4>3. \A i \in DOMAIN Encode(a) : HeadCarries(Encode(a)[i], args)
        BY <4>1, <4>2, ReplyCarries
      <4> QED  BY <1>0, <1>c, <4>2, <4>3
    <3> QED  BY <3>1, <3>2
  <2> QED  BY <1>0, <1>q, <2>3, <2>5, <2>7, <2>8
<1>4. CASE Close \/ UNCHANGED vars
  <2>1. UNCHANGED <<parser, params, outq, wire, lastp, nev, args>>
    BY <1>4 DEF Close, vars
  <2> QED  BY <1>0, <1>c, <1>q, <2>1
<1> QED  BY <1>1, <1>2, <1>3, <1>4 DEF Next

\* The packet that comes out, when it has its attachments, fits.
LEMMA CallMatches ==
  ASSUME FramesInv, CarryInv, NEW q \in Packets, Base(q) = "event", Carries(q, q.data, args),
         Filled(q)
  PROVE  Matched(<<q.num, IF ParseOK(q) THEN Call(q) ELSE Fail>>, args)
<1>1. PICK a, n : a = args[q.num] /\ n = q.num
  OBVIOUS
<1>2. /\ a \in Seq(ItemKinds) /\ params \in Seq(ParamKinds) /\ n \in Nat
      /\ parser \in {"default", "msgpack"}
  <2>1. args \in Seq(Seq(ItemKinds)) /\ q.num \in DOMAIN args
    BY DEF CarryInv, Carries
  <2> QED  BY <1>1, <2>1 DEF CarryInv, FramesInv, FramesTypeOK, Packets
<1>3. PICK v : v = IF ParseOK(q) THEN Call(q) ELSE Fail
  OBVIOUS
<1>4. ASSUME Selected(params, ItemKinds) = a
      PROVE  /\ v # Fail
             /\ Selected(v, Range(v) \ {TheSocket}) = [i \in DOMAIN a |-> <<a[i], n, Rank(a, i)>>]
  <2>1. /\ parser = "default" => q.data = <<"name">> \o Json(a) /\ q.attachments = Count(a, "bin")
        /\ parser = "msgpack" => q.data = <<"name">> \o a
    BY <1>1 DEF Carries
  <2>2. ParseOK(q) /\ Call(q) = Places(params, q.num)
    BY <1>2, <1>4, <2>1, CallFits
  <2>3. v = Places(params, n)
    BY <1>1, <1>3, <2>2
  <2> QED  BY <1>2, <1>4, <2>3, PlacesMatch
<1>5. PICK c : c = <<n, v>>
  OBVIOUS
<1>6. c[1] = n /\ c[2] = v
  BY <1>5
<1>7. Matched(c, args)
  BY <1>1, <1>4, <1>6 DEF Matched
<1> QED  BY <1>1, <1>3, <1>5, <1>7

\* The calls keep fitting: packets that come out have their attachments.
LEMMA CallInvStep ==
  ASSUME NEW c, FramesInv, CarryInv, CallInv, WholeInv(c)', [Next]_vars
  PROVE  CallInv'
<1> DEFINE Good == lost = 0 \/ ~Refusal
<1>0. /\ parser \in {"default", "msgpack"} /\ nev \in Nat /\ lost \in Nat
      /\ wire \in [Peers -> Seq(FrameSet)]
      /\ lastp \in [Peers -> Seq(Packets)] /\ decoded \in [Peers -> Seq(Packets)]
      /\ \A p \in Peers : Waits(lastp[p])
      /\ args \in Seq(Seq(ItemKinds)) /\ Len(args) = nev
      /\ \A d \in calls : d[1] \in DOMAIN args
      /\ Good => \A d \in calls : Matched(d, args)
  BY DEF FramesInv, FramesTypeOK, CarryInv, CallInv
<1>p. ASSUME params' = params PROVE \A d, A : Matched(d, A)' <=> Matched(d, A)
  BY <1>p DEF Matched
<1>q. ASSUME params' = params, calls' = calls, Good' => Good,
             \A n \in DOMAIN args : n \in DOMAIN args' /\ args'[n] = args[n]
      PROVE  CallInv'
  <2>1. \A d \in calls : d[1] \in DOMAIN args'
    BY <1>0, <1>q
  <2>2. ASSUME Good', NEW d \in calls PROVE Matched(d, args')
    <3>1. Matched(d, args) /\ args'[d[1]] = args[d[1]]
      BY <1>0, <1>q, <2>2
    <3> QED  BY <3>1, Zenon DEF Matched
  <2> QED  BY <1>p, <1>q, <2>1, <2>2 DEF CallInv
<1>1. ASSUME NEW g \in Senders, Emit(g) PROVE CallInv'
  <2>1. PICK list \in ArgLists : args' = Append(args, list)
    BY <1>1 DEF Emit
  <2>2. list \in Seq(ItemKinds)
    BY FramesAssumption DEF ItemKinds
  <2>3. \A n \in DOMAIN args : n \in DOMAIN args' /\ args'[n] = args[n]
    BY <1>0, <2>1, <2>2, CarriesLonger
  <2>4. params' = params /\ calls' = calls /\ (Good' => Good)
    BY <1>1 DEF Emit, Refusal
  <2> QED  BY <1>q, <2>3, <2>4
<1>2. ASSUME NEW g \in Goroutines, Submit(g) \/ SubmitLost(g) \/ SubmitFail(g) PROVE CallInv'
  <2>1. /\ UNCHANGED <<params, calls, args, refused>>
        /\ lost' = lost \/ lost' = lost + 1
    BY <1>2 DEF Submit, SubmitLost, SubmitFail
  <2>2. Good' => Good
    BY <1>0, <2>1 DEF Refusal
  <2> QED  BY <1>q, <2>1, <2>2
<1>3. CASE Close \/ UNCHANGED vars
  <2>1. UNCHANGED <<params, calls, args, lost, refused>>
    BY <1>3 DEF Close, vars
  <2> QED  BY <1>q, <2>1 DEF Refusal
<1>4. ASSUME NEW p \in Peers, Receive(p) PROVE CallInv'
  <2>1. PICK w \in Seq(FrameSet), f \in FrameSet : w = wire[p] /\ w # <<>> /\ f = Head(w)
    BY <1>0, <1>4 DEF Receive
  <2>2. PICK r : r = Add(lastp[p], f)
    OBVIOUS
  <2>3. /\ decoded' = [decoded EXCEPT ![p] = @ \o r.out]
        /\ refused \subseteq refused'
        /\ UNCHANGED <<parser, params, lost, args>>
        /\ IF r.out = <<>> THEN UNCHANGED <<outq, begun, mute, calls, fired>>
                           ELSE processEvent(p, r.out[1]) \/ processAck(r.out[1])
    BY <1>0, <1>4, <2>1, <2>2 DEF Receive
  <2>4. Good' => Good
    BY <2>3 DEF Refusal
  <2>5. CASE calls' = calls
    BY <1>q, <2>3, <2>4, <2>5
  <2>6. CASE calls' # calls
    <3>1. r.out # <<>> /\ processEvent(p, r.out[1])
      BY <2>3, <2>6 DEF processAck
    <3>2. PICK q \in Packets : r.out = <<q>>
      <4>1. \/ AddKeeps(lastp[p], f, r) \/ AddStarts(f, r) \/ AddPasses(f, r)
            \/ AddFills(lastp[p], f, r) \/ AddCompletes(lastp[p], f, r)
        BY <1>0, <2>2, AddFacts
      <4> QED  BY <3>1, <4>1 DEF AddKeeps, AddStarts, AddPasses, AddFills, AddCompletes
    <3>3. r.out[1] = q
      <4>1. <<q>>[1] = q
        OBVIOUS
      <4> QED  BY <3>2, <4>1, Zenon
    <3>4. PICK d : d = <<q.num, IF ParseOK(q) THEN Call(q) ELSE Fail>>
      OBVIOUS
    <3>5. Base(q) = "event" /\ calls' = calls \cup {d}
      BY <3>1, <3>3, <3>4 DEF processEvent, Base
    <3>6. Carries(q, q.data, args)
      <4>1. PICK l : l = lastp[p]
        OBVIOUS
      <4>2. Waits(l) /\ (l # <<>> => Carries(l[1], l[1].data, args))
        BY <1>0, <4>1 DEF CarryInv
      <4>3. HeadCarries(f, args)
        <5>1. 1 \in DOMAIN w /\ f = w[1]
          BY <2>1
        <5> QED  BY <2>1, <5>1 DEF CarryInv
      <4> QED  BY <1>0, <2>2, <3>1, <3>3, <4>1, <4>2, <4>3, AddCarries
    <3>7. ASSUME Good' PROVE Filled(q)
      <4>1. PICK D \in Seq(Packets) : D = decoded[p]
        BY <1>0
      <4>2. decoded'[p] = D \o <<q>>
        BY <1>0, <2>3, <3>2, <4>1
      <4>3. Len(D) + 1 \in DOMAIN (D \o <<q>>) /\ (D \o <<q>>)[Len(D) + 1] = q
        OBVIOUS
      <4>4. \A k \in DOMAIN (decoded'[p]) : Filled(decoded'[p][k])
        BY <3>7 DEF WholeInv, WholeAt
      <4> QED  BY <4>2, <4>3, <4>4, Zenon
    <3>8. Good' => Matched(d, args)
      BY <3>4, <3>5, <3>6, <3>7, CallMatches
    <3>9. d[1] \in DOMAIN args
      <4>1. d[1] = q.num
        BY <3>4
      <4> QED  BY <3>5, <3>6, <4>1 DEF Carries
    <3>10. \A e \in calls' : e[1] \in DOMAIN args
      BY <1>0, <3>5, <3>9
    <3>11. Good' => \A e \in calls' : Matched(e, args)
      BY <1>0, <2>4, <3>5, <3>8
    <3> QED  BY <1>p, <2>3, <3>10, <3>11 DEF CallInv
  <2> QED  BY <2>5, <2>6
<1> QED  BY <1>1, <1>2, <1>3, <1>4 DEF Next

\* Initially there is no event.
LEMMA MatchInit == Init => CarryInv /\ CallInv
<1> SUFFICES ASSUME Init PROVE CarryInv /\ CallInv
  OBVIOUS
<1>1. <<>> \in Seq(Seq(ItemKinds)) /\ Len(<<>>) = 0 /\ DOMAIN <<>> = {}
  OBVIOUS
<1>2. params \in Seq(ParamKinds)
  BY FramesAssumption DEF Init, ParamKinds
<1>3. CarryInv
  BY <1>1, <1>2 DEF Init, CarryInv
<1> QED  BY <1>3 DEF Init, CallInv

\* When one goroutine emits events and at most one frame is lost, a callback whose
\* parameters, the Socket aside, have the kinds of the event's arguments is called, and
\* gets each argument in its place, with either parser and for any lists of arguments and
\* of parameters (UnmarshalArgs of both parsers, callback.go); the exception is the one of
\* PacketsIntact.
THEOREM CallsMatch ==
  ASSUME NEW c, Senders = {c}, MaxLoss <= 1
  PROVE  Spec => []MatchedCall
<1>1. Init => FramesInv /\ OrderInv(c) /\ WholeInv(c) /\ CarryInv /\ CallInv
  BY FramesInvInit, OrderInvInit, WholeInvInit, MatchInit
<1>2. FramesInv /\ OrderInv(c) /\ WholeInv(c) /\ CarryInv /\ CallInv /\ [Next]_vars =>
        (FramesInv /\ OrderInv(c) /\ WholeInv(c) /\ CarryInv /\ CallInv)'
  <2> SUFFICES ASSUME FramesInv, OrderInv(c), WholeInv(c), CarryInv, CallInv, [Next]_vars
               PROVE  (FramesInv /\ OrderInv(c) /\ WholeInv(c) /\ CarryInv /\ CallInv)'
    OBVIOUS
  <2>1. FramesInv' /\ OrderInv(c)' /\ WholeInv(c)' /\ CarryInv'
    BY FramesInvStep, OrderInvStep, WholeInvStep, CarryInvStep
  <2>2. CallInv'
    BY <2>1, CallInvStep
  <2> QED  BY <2>1, <2>2
<1>3. CallInv => MatchedCall
  BY DEF CallInv, Matched, MatchedCall, ItemKinds
<1> QED  BY <1>1, <1>2, <1>3, PTL DEF Spec
=============================================================================
