----------------------------- MODULE WireCodec -----------------------------
(***************************************************************************)
(* The bytes of the peer wire protocol: the handshake (peer/handshake.py),  *)
(* the messages (peer/messages.py), the stream that frames them             *)
(* (peer/protocol.py) and the bitfield (peer/bitfield.py), read from a TCP  *)
(* stream that delivers bytes in pieces of any size.  A byte holds Bits     *)
(* bits and a 32-bit field is Width bytes; a message id and the parts of    *)
(* the handshake, which are compared whole, are one value each.             *)
(***************************************************************************)
EXTENDS Integers, Sequences, FiniteSets, SequencesExt

CONSTANTS
  Bits,       \* bits in a byte
  Width,      \* bytes in a field
  PieceCount, \* pieces of the torrent
  MaxBlock,   \* MAX_BLOCK_SIZE
  MaxFrame,   \* max_message_length
  Writes,     \* messages our own code writes
  Strange,    \* bodies another client may write
  MaxWrites,  \* bound: frames written
  Reads       \* bound: sizes of the pieces TCP delivers

VARIABLES
  role,     \* whether we dialled or were dialled
  ours,     \* whether our handshake has been written
  theirs,   \* the handshake the peer wrote, once it has
  opened,   \* whether it was read and accepted
  bodies,   \* bodies of the frames the peer wrote
  pipe,     \* bytes on their way
  buffer,   \* bytes the StreamReader holds
  need,     \* bytes the reader waits for: a header, or the body it announced
  inBody,   \* whether they are a body
  got,      \* messages read
  counted,  \* bytes_received after the handshake
  ended     \* why reading ended

openVars == <<role, ours, theirs, opened>>
codecVars == <<openVars, bodies, pipe, buffer, need, inBody, got, counted, ended>>

Base == 2 ^ Bits
Byte == 0 .. Base - 1
HandshakeLength == 5

-----------------------------------------------------------------------------
(* Fields and messages.                                                     *)

(* to_bytes(n, "big"), and back.                                            *)
Field(n, width) == [k \in 1 .. width |-> (n \div (Base ^ (width - k))) % Base]
FieldValue(s) == FoldLeft(LAMBDA n, b : Base * n + b, 0, s)

Simple == {"choke", "unchoke", "interested", "not_interested"}
Message(kind, args, data) == [kind |-> kind, args |-> args, data |-> data]
KeepAlive == Message("keep_alive", <<>>, <<>>)
Invalid == Message("invalid", <<>>, <<>>)

(* Faulty variant: the largest block is refused.                            *)
ValidLess(m) ==
  CASE m.kind = "bitfield" -> m.data # <<>>
    [] m.kind \in {"request", "cancel"} -> m.args[3] \in 1 .. MaxBlock - 1
    [] m.kind = "piece" -> Len(m.data) \in 1 .. MaxBlock - 1
    [] m.kind = "port" -> m.args[1] > 0
    [] OTHER -> TRUE

(* What the dataclasses refuse to be built with.                            *)
Valid(m) ==
  CASE m.kind = "bitfield" -> m.data # <<>>
    [] m.kind \in {"request", "cancel"} -> m.args[3] \in 1 .. MaxBlock
    [] m.kind = "piece" -> Len(m.data) \in 1 .. MaxBlock
    [] m.kind = "port" -> m.args[1] > 0
    [] OTHER -> TRUE

(* _encode_body                                                             *)
EncodeBody(m) ==
  CASE m.kind = "keep_alive" -> <<>>
    [] m.kind \in {"port", "extended"} -> <<m.kind, m.args[1]>> \o m.data
    [] OTHER -> <<m.kind>> \o FlattenSeq([k \in DOMAIN m.args |-> Field(m.args[k], Width)]) \o m.data

(* decode: the fixed sizes, the least sizes, and what no message may say.   *)
DecodeBody(body) ==
  LET kind == body[1]
      rest == Tail(body)
      fields == Len(rest) \div Width
      args == [k \in 1 .. fields |-> FieldValue(SubSeq(rest, (k - 1) * Width + 1, k * Width))]
      Exact(n) == Len(rest) = n
      m == CASE kind \in Simple /\ Exact(0) -> Message(kind, <<>>, <<>>)
             [] kind = "have" /\ Exact(Width) -> Message(kind, args, <<>>)
             [] kind \in {"request", "cancel"} /\ Exact(3 * Width) -> Message(kind, args, <<>>)
             [] kind = "bitfield" -> Message(kind, <<>>, rest)
             [] kind = "piece" /\ Len(rest) > 2 * Width ->
                  Message(kind, SubSeq(args, 1, 2), SubSeq(rest, 2 * Width + 1, Len(rest)))
             [] kind = "port" /\ Exact(1) -> Message(kind, rest, <<>>)
             [] kind = "extended" /\ Len(rest) >= 1 -> Message(kind, <<rest[1]>>, Tail(rest))
             [] OTHER -> Invalid
  IN IF Valid(m) THEN m ELSE Invalid

(* encode                                                                   *)
Framed(body) == Field(Len(body), Width) \o body

-----------------------------------------------------------------------------
(* Bitfields.                                                               *)

ByteCount(pieces) == (pieces + Bits - 1) \div Bits
BitOf(b, k) == (b \div (2 ^ (Bits - 1 - k))) % 2

(* indices: the bits of the pieces there are.                               *)
Held(data) == {p \in 0 .. PieceCount - 1 : BitOf(data[(p \div Bits) + 1], p % Bits) = 1}

(* to_bytes, the spare bits zero.                                           *)
BitBytes(S) ==
  [k \in 1 .. ByteCount(PieceCount) |->
     FoldLeft(LAMBDA n, b : 2 * n + (IF (k - 1) * Bits + b \in S THEN 1 ELSE 0), 0,
              [j \in 1 .. Bits |-> j - 1])]

(* from_bytes: more than is needed is tolerated, less is not.               *)
FromBytes(data) ==
  IF Len(data) < ByteCount(PieceCount) THEN [ok |-> FALSE, has |-> {}]
  ELSE [ok |-> TRUE, has |-> Held(SubSeq(data, 1, ByteCount(PieceCount)))]

-----------------------------------------------------------------------------
(* The stream.                                                              *)

CodecInit ==
  /\ role \in {"dialled", "accepted"}
  /\ ours = FALSE /\ theirs = <<>> /\ opened = FALSE
  /\ bodies = <<>> /\ pipe = <<>> /\ buffer = <<>>
  /\ need = 0 /\ inBody = FALSE /\ got = <<>> /\ counted = 0 /\ ended = "no"

(* perform_handshake writes ours before it reads theirs.                    *)
WeOpen ==
  /\ role = "dialled" /\ ~ours /\ ended = "no"
  /\ ours' = TRUE
  /\ UNCHANGED <<role, theirs, opened, bodies, pipe, buffer, need, inBody, got, counted, ended>>

(* The peer writes its handshake: the protocol's length and name, flags,    *)
(* the torrent and itself.  One that was dialled is told the torrent first. *)
PeerOpens ==
  /\ theirs = <<>> /\ (role = "dialled" => ours)
  /\ \E length \in {"19", "0"}, name \in {"BitTorrent", "?"}, hash \in {"ours", "another"} :
       theirs' = <<length, name, "flags", hash, "id">>
  /\ pipe' = pipe \o theirs'
  /\ UNCHANGED <<role, ours, opened, bodies, buffer, need, inBody, got, counted, ended>>

(* Handshake.decode                                                         *)
Accepted(h) == h[1] = "19" /\ h[2] = "BitTorrent" /\ h[4] = "ours"

Opening(rest) ==
  /\ ~opened /\ ended = "no" /\ Len(buffer) >= HandshakeLength
  /\ buffer' = rest
  /\ IF Accepted(SubSeq(buffer, 1, HandshakeLength))
     THEN opened' = TRUE /\ ours' = TRUE /\ need' = Width /\ UNCHANGED ended
     ELSE ended' = "refused" /\ UNCHANGED <<opened, ours, need>>
  /\ UNCHANGED <<role, theirs, bodies, pipe, inBody, got, counted>>

(* Faulty variant: what came with the handshake is dropped.                 *)
OpensWithDrained == Opening(<<>>)

(* Theirs is read and accepted or not; accept_handshake answers only then.  *)
OpensWith == Opening(SubSeq(buffer, HandshakeLength + 1, Len(buffer)))

(* The peer writes a frame: one of ours, or what another client makes.  It  *)
(* may follow its handshake before it has read the answer.                  *)
PeerWrites ==
  /\ theirs # <<>> /\ Len(bodies) < MaxWrites
  /\ \E body \in {EncodeBody(m) : m \in Writes} \cup Strange :
       bodies' = Append(bodies, body) /\ pipe' = pipe \o Framed(body)
  /\ UNCHANGED <<openVars, buffer, need, inBody, got, counted, ended>>

(* TCP delivers some bytes.                                                 *)
Arrive ==
  /\ ended = "no"
  /\ \E n \in Reads :
       /\ n <= Len(pipe)
       /\ buffer' = buffer \o SubSeq(pipe, 1, n) /\ pipe' = SubSeq(pipe, n + 1, Len(pipe))
  /\ UNCHANGED <<openVars, bodies, need, inBody, got, counted, ended>>

(* readexactly has what it waits for.                                       *)
Filled == opened /\ ended = "no" /\ Len(buffer) >= need
Taken == SubSeq(buffer, 1, need)
Rest == SubSeq(buffer, need + 1, Len(buffer))

(* read_message, the length: none is a keep-alive, too much ends it.        *)
ReadLength ==
  /\ Filled /\ ~inBody
  /\ buffer' = Rest /\ counted' = counted + Width
  /\ LET length == FieldValue(Taken) IN
       IF length = 0 THEN got' = Append(got, KeepAlive) /\ UNCHANGED <<need, inBody, ended>>
       ELSE IF length > MaxFrame THEN ended' = "too long" /\ UNCHANGED <<need, inBody, got>>
       ELSE need' = length /\ inBody' = TRUE /\ UNCHANGED <<got, ended>>
  /\ UNCHANGED <<openVars, bodies, pipe>>

(* ... and the body; PeerSession refuses a bitfield that is too short.      *)
ReadBody ==
  /\ Filled /\ inBody
  /\ buffer' = Rest /\ counted' = counted + need
  /\ inBody' = FALSE /\ need' = Width
  /\ LET m == DecodeBody(Taken) IN
       IF m = Invalid \/ (m.kind = "bitfield" /\ ~FromBytes(m.data).ok)
       THEN ended' = "malformed" /\ UNCHANGED got
       ELSE got' = Append(got, m) /\ UNCHANGED ended
  /\ UNCHANGED <<openVars, bodies, pipe>>

(* The peer is gone or silent: what was read of a frame is dropped with it. *)
Ends ==
  /\ ended = "no" /\ ended' = "gone"
  /\ UNCHANGED <<openVars, bodies, pipe, buffer, need, inBody, got, counted>>

CodecNext == WeOpen \/ PeerOpens \/ OpensWith \/ PeerWrites \/ Arrive \/ ReadLength \/ ReadBody \/ Ends
CodecSpec == CodecInit /\ [][CodecNext]_codecVars

-----------------------------------------------------------------------------
(* Properties.                                                              *)

Kinds == Simple \cup {"keep_alive", "have", "bitfield", "request", "piece", "cancel", "port", "extended"}

CodecTypeOK ==
  /\ role \in {"dialled", "accepted"} /\ ours \in BOOLEAN /\ opened \in BOOLEAN /\ inBody \in BOOLEAN
  /\ Len(theirs) \in {0, HandshakeLength}
  /\ ended \in {"no", "refused", "too long", "malformed", "gone"}
  /\ need \in 0 .. MaxFrame /\ counted \in Nat
  /\ \A k \in DOMAIN got : got[k].kind \in Kinds /\ Valid(got[k])

(* The stream is a channel of frames: whatever sizes the bytes come in, and *)
(* with whatever handshake they come, each message read is the frame the    *)
(* peer wrote, whole and in order, and says what only that frame says.      *)
Reader == INSTANCE Channel WITH
  Batches <- FALSE, sent <- bodies, received <- [k \in DOMAIN got |-> EncodeBody(got[k])]
StreamIsChannel == Reader!ChannelSpec

(* What our own code writes our own code reads: no frame of it is refused   *)
(* as malformed or as too long.                                             *)
OwnFramesAreRead ==
  ended \in {"malformed", "too long"} => bodies[Len(got) + 1] \notin {EncodeBody(m) : m \in Writes}

(* The pieces read out of a bitfield are those it was written for, however  *)
(* few of its last byte's bits stand for a piece.                           *)
PiecesAreAsAnnounced ==
  \A k \in DOMAIN got, S \in SUBSET (0 .. PieceCount - 1) :
    got[k].kind = "bitfield" /\ SubSeq(got[k].data, 1, ByteCount(PieceCount)) = BitBytes(S) =>
      FromBytes(got[k].data).has = S
=============================================================================
