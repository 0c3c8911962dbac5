------------------------------ MODULE Payload -------------------------------
(***************************************************************************)
(* The payload of a POST to a polling connection: packets encoded as XHR   *)
(* or XHR2 (engine/payload.go), and the handler that decodes the body as   *)
(* it arrives and passes on the packets (POST of engine/polling.go).       *)
(*                                                                         *)
(* The body is a sequence of bytes, which come in pieces or at once, and   *)
(* may break off.  bufio.Reader and base64.Decoder, through which          *)
(* ReadFrom reads, are external: one Read of either returns what it has,   *)
(* and no more than fits in its buffer.  A Read of as much as the buffer   *)
(* of bufio.Reader holds, or more, goes past the buffer to the body.       *)
(***************************************************************************)
EXTENDS Decimal, FiniteSetsExt

CONSTANTS Payloads,   \* sequences of packets that clients write
          BufSize,    \* the buffer of bufio.Reader, 4096 in the code
          DecSize     \* the buffer of base64.Decoder, 1024 in the code

Colon == 58
LetterB == 98
Pad == 61     \* the byte '=' of base64

Packets == [msgType : {"string", "binary"}, pktType : 0 .. 6, data : Seq(Byte)]

ASSUME PayloadAssumption ==
  /\ \A ps \in Payloads : ps \in Seq(Packets)
  /\ BufSize \in Nat \ {0} /\ DecSize \in {4 * k : k \in 1 .. 256}
  /\ DecSize < BufSize

-----------------------------------------------------------------------------
(* Encoding.                                                               *)

\* base64.StdEncoding (external): three bytes make four characters.
Alphabet ==
  [v \in 0 .. 63 |-> CASE v < 26 -> 65 + v [] v \in 26 .. 51 -> 71 + v [] v \in 52 .. 61 -> v - 4
                       [] v = 62 -> 43 [] v = 63 -> 47]
EncodeGroup(g) ==
  LET at(i) == IF i \in DOMAIN g THEN g[i] ELSE 0
      v == at(1) * 65536 + at(2) * 256 + at(3)
  IN  [k \in 1 .. 4 |-> IF k <= Len(g) + 1 THEN Alphabet[(v \div 64^(4 - k)) % 64] ELSE Pad]
Groups(s, n) ==
  [i \in 1 .. (Len(s) + n - 1) \div n |-> SubSeq(s, n * (i - 1) + 1, Min({n * i, Len(s)}))]
Base64(d) == FlattenSeq([i \in DOMAIN Groups(d, 3) |-> EncodeGroup(Groups(d, 3)[i])])

\* Mutant: the length of a string does not count the packet type.
WriteXhrNoType(p) ==
  IF p.msgType = "string"
  THEN Digits(Len(p.data), Zero) \o <<Colon, p.pktType + Zero>> \o p.data
  ELSE LET dst == Base64(p.data)
       IN  Digits(Len(dst) + 2, Zero) \o <<Colon, LetterB, p.pktType + Zero>> \o dst

\* Packet.WriteTo.
WriteXhr(p) ==
  IF p.msgType = "string"
  THEN Digits(Len(p.data) + 1, Zero) \o <<Colon, p.pktType + Zero>> \o p.data
  ELSE LET dst == Base64(p.data)
       IN  Digits(Len(dst) + 2, Zero) \o <<Colon, LetterB, p.pktType + Zero>> \o dst

\* packet2.WriteTo.
WriteXhr2(p) ==
  IF p.msgType = "string"
  THEN <<0>> \o Digits(Len(p.data) + 1, 0) \o <<255, p.pktType + Zero>> \o p.data
  ELSE <<1>> \o Digits(Len(p.data) + 1, 0) \o <<255, p.pktType>> \o p.data

\* Payload.WriteTo.
WriteTo(ps, xhr2) ==
  FlattenSeq([i \in DOMAIN ps |-> IF xhr2 THEN WriteXhr2(ps[i]) ELSE WriteXhr(ps[i])])

-----------------------------------------------------------------------------
VARIABLES
  media,   \* the Content-Type: "xhr", "xhr2", or "other"
  packets, \* what the client wrote
  rest,    \* bytes of the body that bufio.Reader has not got yet
  pieces,  \* the body comes in pieces, rather than in one
  broken,  \* the body breaks off after rest
  eager,   \* the end of the body comes with its last bytes, rather than alone
  buf,     \* the contents of bufio.Reader
  step,    \* where decode stands: "msg", "len", "kind", "type", "data"; or "start", "end"
  pkt,     \* the packet that is decoded, and the length of its data
  quad,    \* the characters that base64.Decoder has
  got,     \* payload.packets
  status,  \* of the response, 0 before it
  in,      \* packets that went to the channel in
  whole    \* history: packets decoded before the first that was read short, or -1

vars == <<media, packets, rest, pieces, broken, eager, buf, step, pkt, quad, got, status, in, whole>>
body == <<media, packets, pieces, broken, eager>>

Xhr2 == media = "xhr2"
FirstStep == IF Xhr2 THEN "msg" ELSE "len"
NoPkt == [msgType |-> "string", pktType |-> 0, length |-> 0]

Init ==
  /\ media \in {"xhr", "xhr2", "other"}
  /\ packets \in Payloads
  /\ \E k \in 0 .. Len(WriteTo(packets, Xhr2)) :
       /\ rest = SubSeq(WriteTo(packets, Xhr2), 1, k)
       /\ broken = (k < Len(WriteTo(packets, Xhr2)))
  /\ pieces \in BOOLEAN /\ eager \in BOOLEAN
  /\ buf = <<>> /\ quad = <<>> /\ got = <<>> /\ in = <<>>
  /\ step = "start" /\ pkt = NoPkt /\ status = 0 /\ whole = -1

\* The media type is looked at first.
Post ==
  /\ step = "start"
  /\ IF media = "other" THEN step' = "end" /\ status' = 400
                        ELSE step' = FirstStep /\ UNCHANGED status
  /\ UNCHANGED <<body, rest, buf, pkt, quad, got, in, whole>>

\* readFrom is over: the packets are passed on, or the error is answered.
Return(s) ==
  /\ step' = "end" /\ status' = s
  /\ in' = IF s = 200 THEN got ELSE <<>>

-----------------------------------------------------------------------------
(* The reader.                                                             *)

\* How much one Read of the body returns, of the n bytes asked for.
Comes(n) == LET m == Min({n, Len(rest)}) IN IF pieces THEN 1 .. m ELSE {m}

\* A Read of n bytes from bufio.Reader, with a buffer that is not empty.
Take(n) == SubSeq(buf, 1, Min({n, Len(buf)}))
Left(n) == SubSeq(buf, Min({n, Len(buf)}) + 1, Len(buf))

\* Base64 is read through base64.Decoder, in fours, and no more than its buffer takes.
InBase64 == ~Xhr2 /\ pkt.msgType = "binary"
Want ==
  IF step # "data" THEN 1
  ELSE IF InBase64 THEN Min({(pkt.length \div 3) * 4, DecSize}) - Len(quad)
  ELSE pkt.length

\* bufio.Reader reads as much as there is room for, and keeps an error for later.
Fill ==
  /\ buf = <<>> /\ rest # <<>>
  /\ step \notin {"start", "end"} /\ Want \in 1 .. BufSize - 1 /\ Len(quad) < 4
  /\ \E k \in Comes(BufSize) :
       buf' = SubSeq(rest, 1, k) /\ rest' = SubSeq(rest, k + 1, Len(rest))
  /\ UNCHANGED <<body, step, pkt, quad, got, status, in, whole>>

\* The end of the body, or its error, in a head or in front of a packet's data; among
\* the characters of base64 it is an error.
EndOfBody ==
  /\ buf = <<>> /\ rest = <<>>
  /\ step \notin {"start", "end"} /\ Want > 0 /\ Len(quad) < 4
  /\ Return(IF broken \/ quad # <<>> THEN 500 ELSE 200)
  /\ UNCHANGED <<body, rest, buf, pkt, quad, got, whole>>

-----------------------------------------------------------------------------
(* decodeHead of Packet and of packet2, one byte at a time.                *)

\* The next byte b leads to step s, with the packet p.
HeadTo(s, p) ==
  /\ step' = s /\ pkt' = p /\ buf' = Tail(buf)
  /\ UNCHANGED <<body, rest, quad, got, status, in, whole>>

\* The next byte is none that may come here: ErrInvalidPayload.
HeadInvalid ==
  /\ Return(500)
  /\ buf' = Tail(buf)
  /\ UNCHANGED <<body, rest, pkt, quad, got, whole>>

\* packet2 begins with the message type.
HeadMsg ==
  /\ step = "msg" /\ buf # <<>>
  /\ LET b == Head(buf) IN
     IF b > 1 THEN HeadInvalid
     ELSE HeadTo("len", [pkt EXCEPT !.msgType = IF b = 0 THEN "string" ELSE "binary"])

\* The digits of the length, up to ':' or 0xFF.
HeadLen ==
  /\ step = "len" /\ buf # <<>>
  /\ LET b == Head(buf)
         digit == IF Xhr2 THEN b ELSE b - Zero
     IN  IF b = (IF Xhr2 THEN 255 ELSE Colon)
         THEN HeadTo(IF Xhr2 THEN "type" ELSE "kind", pkt)
         ELSE IF digit \in 0 .. 9
         THEN HeadTo("len", [pkt EXCEPT !.length = Shift(@, digit)])
         ELSE HeadInvalid

\* The length of the data that the length in the head stands for, and its capacity
\* when that is base64 (a division that rounds to zero).
DecodedLen(l) == IF l < 4 THEN 0 ELSE (l \div 4) * 3

\* Mutant: the packet type is counted as data.
HeadKindKeepsLength ==
  /\ step = "kind" /\ buf # <<>>
  /\ IF Head(buf) = LetterB
     THEN HeadTo("type", [pkt EXCEPT !.msgType = "binary", !.length = @ - 1])
     ELSE HeadTo("data", [msgType |-> "string", pktType |-> (Head(buf) - Zero) % 256,
                          length |-> pkt.length])

\* After ':' comes 'b', of a binary, or the packet type of a string.
HeadKind ==
  /\ step = "kind" /\ buf # <<>>
  /\ IF Head(buf) = LetterB
     THEN HeadTo("type", [pkt EXCEPT !.msgType = "binary", !.length = @ - 1])
     ELSE HeadTo("data", [msgType |-> "string", pktType |-> (Head(buf) - Zero) % 256,
                          length |-> pkt.length - 1])

HeadType ==
  /\ step = "type" /\ buf # <<>>
  /\ LET b == Head(buf)
         t == IF Xhr2 /\ pkt.msgType = "binary" THEN b ELSE (b - Zero) % 256
     IN  HeadTo("data", [pkt EXCEPT !.pktType = t,
                                    !.length = IF Xhr2 THEN @ - 1 ELSE DecodedLen(@ - 1)])

-----------------------------------------------------------------------------
(* decode, once the head is read.                                          *)

\* The slice made for the data holds zeros where nothing was read.
Filled(d, l) == d \o [k \in 1 .. l - Len(d) |-> 0]

\* One Read gave the data d, which stands for n bytes of the slice.
Decoded(d, n) ==
  /\ got' = Append(got, [msgType |-> pkt.msgType, pktType |-> pkt.pktType,
                         data |-> Filled(d, pkt.length)])
  /\ whole' = IF n < pkt.length /\ whole = -1 THEN Len(got) ELSE whole
  /\ step' = FirstStep /\ pkt' = NoPkt /\ quad' = <<>>
  /\ UNCHANGED <<body, status, in>>

\* Mutant: a packet without data is left out.
NoDataNoPacket ==
  /\ step = "data" /\ pkt.length = 0
  /\ step' = FirstStep /\ pkt' = NoPkt
  /\ UNCHANGED <<body, rest, buf, quad, got, status, in, whole>>

\* A length of 0 needs no Read.
NoData ==
  /\ step = "data" /\ pkt.length = 0
  /\ Decoded(<<>>, 0)
  /\ UNCHANGED <<rest, buf>>

\* make panics with a negative length; net/http recovers, and closes the connection.
Panic ==
  /\ step = "data" /\ pkt.length < 0
  /\ Return(-1)
  /\ UNCHANGED <<body, rest, buf, pkt, quad, got, whole>>

ReadData ==
  /\ step = "data" /\ pkt.length > 0 /\ ~InBase64
  /\ buf # <<>>
  /\ Decoded(Take(Want), Len(Take(Want)))
  /\ buf' = Left(Want) /\ UNCHANGED rest

\* A Read past the buffer.  When the end of the body, or its error, comes with the data,
\* decode returns it, and readFrom leaves the packet out: the end is no error to it.
ReadDirect ==
  /\ step = "data" /\ buf = <<>> /\ rest # <<>> /\ Want >= BufSize
  /\ \E k \in Comes(Want) :
       /\ rest' = SubSeq(rest, k + 1, Len(rest))
       /\ IF eager /\ k = Len(rest)
          THEN /\ Return(IF broken THEN 500 ELSE 200)
               /\ UNCHANGED <<body, pkt, quad, got, whole>>
          ELSE Decoded(SubSeq(rest, 1, k), k)
  /\ UNCHANGED buf

\* base64.Decoder reads until it has four characters.
ReadChars ==
  /\ step = "data" /\ pkt.length > 0 /\ InBase64
  /\ buf # <<>> /\ Len(quad) < 4
  /\ quad' = quad \o Take(Want)
  /\ buf' = Left(Want)
  /\ UNCHANGED <<body, rest, step, pkt, got, status, in, whole>>

\* The value of a character, and the bytes of four of them.
Value(c) == CHOOSE v \in 0 .. 63 : Alphabet[v] = c
IsGroup(q) ==
  /\ \A k \in 1 .. 4 : q[k] \in Range(Alphabet) \cup (IF k > 2 THEN {Pad} ELSE {})
  /\ q[3] = Pad => q[4] = Pad
DecodeGroup(q) ==
  LET at(k) == IF q[k] = Pad THEN 0 ELSE Value(q[k])
      v == at(1) * 262144 + at(2) * 4096 + at(3) * 64 + at(4)
      n == IF q[3] = Pad THEN 1 ELSE IF q[4] = Pad THEN 2 ELSE 3
  IN  [k \in 1 .. n |-> (v \div 256^(3 - k)) % 256]

\* Whole fours are decoded, and what is left over is dropped with the decoder.
DecodeChars ==
  /\ step = "data" /\ InBase64 /\ Len(quad) >= 4
  /\ LET n == Len(quad) \div 4
         gs == Groups(SubSeq(quad, 1, 4 * n), 4)
     IN  IF /\ \A i \in 1 .. n : IsGroup(gs[i])
            /\ \A i \in 1 .. n - 1 : gs[i][4] # Pad
         THEN Decoded(FlattenSeq([i \in 1 .. n |-> DecodeGroup(gs[i])]), 3 * n)
         ELSE Return(500) /\ UNCHANGED <<body, pkt, quad, got, whole>>
  /\ UNCHANGED <<rest, buf>>

-----------------------------------------------------------------------------
Next ==
  \/ Post \/ Fill \/ EndOfBody
  \/ HeadMsg \/ HeadLen \/ HeadKind \/ HeadType
  \/ NoData \/ Panic \/ ReadData \/ ReadDirect \/ ReadChars \/ DecodeChars

Spec == Init /\ [][Next]_vars

-----------------------------------------------------------------------------
(* Properties *)

\* Types, and both buffers within their size.
PayloadTypeOK ==
  /\ rest \in Seq(Byte) /\ buf \in Seq(Byte) /\ quad \in Seq(Byte)
  /\ Len(buf) <= BufSize /\ Len(quad) <= DecSize
  /\ step \in {"start", "msg", "len", "kind", "type", "data", "end"}
  /\ pkt.msgType \in {"string", "binary"} /\ pkt.pktType \in Byte /\ pkt.length \in Int
  /\ status \in {0, 200, 400, 500, -1}
  /\ \A i \in DOMAIN got : got[i].data \in Seq(Byte) /\ got[i].pktType \in Byte
  /\ whole \in -1 .. Len(got)

\* What decoding gives for a packet: base64 leaves a zero for each '='.
Padded(p) ==
  IF media = "xhr" /\ p.msgType = "binary"
  THEN [p EXCEPT !.data = Filled(@, 3 * ((Len(@) + 2) \div 3))] ELSE p

\* Packets that were decoded with nothing read short before them are those that the
\* client wrote, in order, each of its length and with its bytes.
IntactUntilShort ==
  LET n == IF whole = -1 THEN Len(got) ELSE whole IN
  /\ n <= Len(packets)
  /\ \A i \in 1 .. n : got[i] = Padded(packets[i])

\* The last packet may be left out: its data are read past the buffer, to the end of
\* the body, which comes with them.
LastLeftOut ==
  /\ eager /\ packets # <<>>
  /\ Len(Last(packets).data) >= BufSize
  /\ Xhr2 \/ Last(packets).msgType = "string"

\* All of a payload is passed on and answered with 200, or nothing of it: a body that
\* breaks off is an error, although packets in front were decoded.  Only after a short
\* read may packets be missing, or the handler panic when data are taken for a head;
\* without one the last packet alone may be, and only when a Read past the buffer got
\* the end of the body with its data.
AllOrError ==
  /\ status # 200 \/ broken => in = <<>>
  /\ status = 200 => ~broken
  /\ status = 200 /\ whole = -1 =>
       \/ Len(in) = Len(packets)
       \/ LastLeftOut /\ Len(in) = Len(packets) - 1
  /\ status = -1 => whole # -1

\* The safety of the handler of a POST, of any payload that this library wrote.
PayloadInv == PayloadTypeOK /\ AllOrError

\* The end of a packet's data comes early only when the body came in pieces, was larger
\* than the buffer, or had a binary larger than the base64 decoder's buffer.
ShortOnlyAtLimits ==
  whole # -1 =>
    \/ pieces \/ broken
    \/ Len(WriteTo(packets, Xhr2)) > BufSize
    \/ \E i \in DOMAIN packets : ~Xhr2 /\ packets[i].msgType = "binary"
                                  /\ Len(Base64(packets[i].data)) > DecSize

-----------------------------------------------------------------------------
(* What the documentation says and the code does not do.                   *)

\* payload.go:27, ReadFrom "decodes data from r and unmarshals to p": the packets that
\* are passed on are those that were written.
ReadsWhatWasWritten == status = 200 => IsPrefix(in, packets)

\* payload.go:27, the same of a payload of which each Read got all that it asked for:
\* none of its packets is left out.
DecodesAllThatWasRead ==
  status = 200 /\ whole = -1 => Len(in) = Len(packets)
=============================================================================
