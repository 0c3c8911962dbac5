----------------------------- MODULE PacketText -----------------------------
(***************************************************************************)
(* The text of a socket.io packet in the default parser: encodeTo and      *)
(* decode of parser_default.go, as operators on bytes.                     *)
(*                                                                         *)
(* A packet has a type, a count of attachments, a namespace, an id (<<>>   *)
(* for nil) and data, the bytes of its JSON (<<>> for nil).  Placeholders  *)
(* and buffers are in Frames.                                              *)
(***************************************************************************)
EXTENDS Decimal, FiniteSetsExt

Slash == 47
Comma == 44
Dash == 45
Bracket == 91
Query == {63, 35}     \* '?' and '#', which end a path
Newline == 10

Event == 2
Ack == 3
Error == 4
BinaryEvent == 5
BinaryAck == 6
BinaryTypes == {BinaryEvent, BinaryAck}

-----------------------------------------------------------------------------
\* preprocess gives the namespace its slash.
Slashed(nsp) == IF nsp # <<>> /\ nsp[1] # Slash THEN <<Slash>> \o nsp ELSE nsp

\* json.Encoder ends the data with a newline.
encodeTo(p) ==
  <<p.type + Zero>>
    \o (IF p.attachments > 0 THEN Digits(p.attachments, Zero) \o <<Dash>> ELSE <<>>)
    \o (IF Slashed(p.nsp) \notin {<<>>, <<Slash>>} THEN Slashed(p.nsp) \o <<Comma>> ELSE <<>>)
    \o (IF p.id # <<>> THEN Digits(p.id[1], Zero) ELSE <<>>)
    \o (IF p.data # <<>> THEN p.data \o <<Newline>> ELSE <<>>)

-----------------------------------------------------------------------------
\* How many bytes of the set the text begins with, and the text after k bytes.
Leading(s, set) == Min({k \in 0 .. Len(s) : k = Len(s) \/ s[k + 1] \notin set})
After(s, k) == SubSeq(s, k + 1, Len(s))

\* url.Parse (external), of a path without escapes: its Path.
Path(u) == SubSeq(u, 1, Leading(u, Byte \ Query))

\* The stages of decode.  Each takes the text that is left: an early return is an
\* empty text, of which the later stages make nothing.
decodeAttachments(type, s) ==
  IF type \notin BinaryTypes THEN [ok |-> TRUE, attachments |-> 0, left |-> s]
  ELSE LET k == Leading(s, IsDigit) IN
       [ok |-> k = Len(s) \/ s[k + 1] = Dash,
        attachments |-> Number(SubSeq(s, 1, k)), left |-> After(s, k + 1)]

decodeNsp(s) ==
  IF s = <<>> \/ s[1] # Slash THEN [nsp |-> <<Slash>>, left |-> s]
  ELSE LET k == Leading(s, Byte \ {Comma}) IN
       [nsp |-> Path(SubSeq(s, 1, k)), left |-> After(s, k + 1)]

decodeID(s) ==
  LET k == Leading(s, IsDigit) IN
  [id |-> IF k = 0 THEN <<>> ELSE <<Number(SubSeq(s, 1, k))>>, left |-> After(s, k)]

\* Events and acknowledgements have a list; other data are JSON, which json.Unmarshal
\* (external) reads when json.Encoder wrote them.
decodesData(type, s) ==
  s = <<>> \/ (type \in {Event, Ack} \cup BinaryTypes => s[1] = Bracket)

Unknown == [ok |-> FALSE]

\* Mutant: the id is looked for in front of the namespace.
decodeIdFirst(s) ==
  LET type == s[1] - Zero
      a == decodeAttachments(type, Tail(s))
      i == decodeID(a.left)
      n == decodeNsp(i.left)
  IN  [ok |-> a.ok /\ decodesData(type, n.left), type |-> type, attachments |-> a.attachments,
       nsp |-> n.nsp, id |-> i.id, data |-> n.left]

decode(s) ==
  IF s = <<>> \/ s[1] - Zero \notin 0 .. BinaryAck THEN Unknown
  ELSE LET type == s[1] - Zero
           a == decodeAttachments(type, Tail(s))
           n == decodeNsp(a.left)
           i == decodeID(n.left)
       IN  [ok |-> a.ok /\ decodesData(type, i.left), type |-> type,
            attachments |-> a.attachments, nsp |-> n.nsp, id |-> i.id, data |-> i.left]

-----------------------------------------------------------------------------
\* What a receiver is to see of a packet: the namespace with its slash and without its
\* query, "/" for the empty one, and the data with the newline.
Seen(p) ==
  [ok |-> TRUE, type |-> p.type, attachments |-> p.attachments,
   nsp |-> IF p.nsp = <<>> THEN <<Slash>> ELSE Path(Slashed(p.nsp)),
   id |-> p.id, data |-> IF p.data = <<>> THEN <<>> ELSE Append(p.data, Newline)]
=============================================================================
