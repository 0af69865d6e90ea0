------------------------------- MODULE Bencode -------------------------------
(***************************************************************************)
(* The bencode reader and writer (bencode/decoder.py, encoder.py), byte by  *)
(* byte over a small alphabet, and the two uses that depend on more than    *)
(* the value read: the byte range of a torrent's info dictionary, which is  *)
(* what is hashed, and the header of a metadata message, which is followed  *)
(* by a block of data.  A document is a value as some client wrote it, with *)
(* its keys in any order, and with one byte changed, lost or added.         *)
(***************************************************************************)
EXTENDS Integers, Sequences, FiniteSets, SequencesExt

CONSTANTS
  Letters,    \* bytes that mean nothing to bencode, among "a" and "b"
  Numbers,    \* integers in the values
  InfoKey,    \* the key of the info dictionary
  MaxDepth,   \* DEFAULT_MAX_DEPTH
  MaxLength,  \* DEFAULT_MAX_LENGTH
  Tails       \* what may follow a value in a message

VARIABLES doc,  \* the bytes to be read
          hurt  \* whether one of them was changed

bencodeVars == <<doc, hurt>>

DigitBytes == <<"0", "1", "2", "3", "4", "5", "6", "7", "8", "9">>
Digit == ToSet(DigitBytes)
DigitValue(b) == (CHOOSE k \in DOMAIN DigitBytes : DigitBytes[k] = b) - 1
Alphabet == Letters \cup {"0", "1", "2", "-", ":", "i", "l", "d", "e"}

Integer(n) == [type |-> "int", it |-> n]
Text(s) == [type |-> "bytes", it |-> s]
List(s) == [type |-> "list", it |-> s]
Dict(s) == [type |-> "dict", it |-> s]  \* pairs of key and value, in their order

-----------------------------------------------------------------------------
(* Encoder.                                                                 *)

Numeral[n \in Nat] ==
  IF n < 10 THEN <<DigitBytes[n + 1]>> ELSE Numeral[n \div 10] \o <<DigitBytes[(n % 10) + 1]>>

IntegerBytes(n) ==
  <<"i">> \o (IF n < 0 THEN <<"-">> \o Numeral[0 - n] ELSE Numeral[n]) \o <<"e">>
TextBytes(s) == Numeral[Len(s)] \o <<":">> \o s

ByteOrder == <<"-">> \o DigitBytes \o <<":", "a", "b", "d", "e", "i", "l">>
ByteRank(b) == CHOOSE r \in DOMAIN ByteOrder : ByteOrder[r] = b
Before(k, l) ==
  \/ Len(k) < Len(l) /\ SubSeq(l, 1, Len(k)) = k
  \/ \E i \in 1 .. (IF Len(k) < Len(l) THEN Len(k) ELSE Len(l)) :
       /\ SubSeq(k, 1, i - 1) = SubSeq(l, 1, i - 1)
       /\ ByteRank(k[i]) < ByteRank(l[i])
Sorted(pairs) == SortSeq(pairs, LAMBDA p, q : Before(p[1], q[1]))

RECURSIVE Written(_, _)
Written(v, ordered) ==
  LET Order(pairs) == IF ordered THEN Sorted(pairs) ELSE pairs IN
  CASE v.type = "int" -> IntegerBytes(v.it)
    [] v.type = "bytes" -> TextBytes(v.it)
    [] v.type = "list" ->
         <<"l">> \o FlattenSeq([k \in DOMAIN v.it |-> Written(v.it[k], ordered)]) \o <<"e">>
    [] v.type = "dict" ->
         <<"d">> \o FlattenSeq([k \in DOMAIN v.it |->
                      TextBytes(Order(v.it)[k][1]) \o Written(Order(v.it)[k][2], ordered)]) \o <<"e">>

(* Encoder._encode_value: keys are written in order.                        *)
Encode(v) == Written(v, TRUE)

(* What a client that does not order its keys writes.                       *)
EncodeAsIs(v) == Written(v, FALSE)

-----------------------------------------------------------------------------
(* Decoder.  A reading is the value and the position after it.              *)

Refused == [ok |-> FALSE]
Read(v, pos) == [ok |-> TRUE, value |-> v, pos |-> pos]

Position(d, b, from) ==
  IF \E k \in from .. Len(d) : d[k] = b
  THEN CHOOSE k \in from .. Len(d) : d[k] = b /\ \A j \in from .. k - 1 : d[j] # b
  ELSE 0

AllDigits(s) == s # <<>> /\ ToSet(s) \subseteq Digit
NumeralOf(s) == FoldLeft(LAMBDA n, b : 10 * n + DigitValue(b), 0, s)
LeadingZero(s) == Len(s) > 1 /\ s[1] = "0"

(* _decode_int                                                              *)
DecodeInt(d, pos) ==
  LET end == Position(d, "e", pos + 1)
      raw == SubSeq(d, pos + 1, end - 1)
      minus == raw # <<>> /\ raw[1] = "-"
      digits == IF minus THEN Tail(raw) ELSE raw
  IN IF end = 0 \/ ~AllDigits(digits) \/ LeadingZero(digits) \/ (minus /\ digits = <<"0">>) THEN Refused
     ELSE Read(Integer(IF minus THEN 0 - NumeralOf(digits) ELSE NumeralOf(digits)), end + 1)

(* _decode_bytes                                                            *)
DecodeBytes(d, pos) ==
  LET colon == Position(d, ":", pos)
      digits == SubSeq(d, pos, colon - 1)
      end == colon + NumeralOf(digits)
  IN IF colon = 0 \/ ~AllDigits(digits) \/ LeadingZero(digits) \/ end > Len(d) THEN Refused
     ELSE Read(Text(SubSeq(d, colon + 1, end)), end + 1)

(* A pair of a dictionary, with the range its value was read from.          *)
PairRead(pos, key, value) == <<key.value.it, value.value, <<key.pos, value.pos>>>>

RECURSIVE DecodeValue(_, _, _), DecodeItems(_, _, _, _), DecodePairs(_, _, _, _)

(* _decode_value                                                            *)
DecodeValue(d, pos, depth) ==
  CASE depth > MaxDepth \/ pos > Len(d) -> Refused
    [] depth <= MaxDepth /\ pos <= Len(d) ->
         CASE d[pos] \in Digit -> DecodeBytes(d, pos)
           [] d[pos] = "i" -> DecodeInt(d, pos)
           [] d[pos] = "l" -> DecodeItems(d, pos + 1, depth, <<>>)
           [] d[pos] = "d" -> DecodePairs(d, pos + 1, depth, <<>>)
           [] OTHER -> Refused

(* _decode_list                                                             *)
DecodeItems(d, pos, depth, items) ==
  IF pos > Len(d) THEN Refused
  ELSE IF d[pos] = "e" THEN Read(List(items), pos + 1)
  ELSE LET next == DecodeValue(d, pos, depth + 1) IN
       IF next.ok THEN DecodeItems(d, next.pos, depth, Append(items, next.value)) ELSE Refused

(* _decode_dict: each pair with the range its value was read from.  Keys    *)
(* are strings and differ; their order is not asked for.                    *)
DecodePairs(d, pos, depth, pairs) ==
  IF pos > Len(d) THEN Refused
  ELSE IF d[pos] = "e" THEN Read(Dict(pairs), pos + 1)
  ELSE LET key == DecodeValue(d, pos, depth + 1)
           value == DecodeValue(d, key.pos, depth + 1)
       IN IF /\ key.ok
             /\ key.value.type = "bytes" /\ \A k \in DOMAIN pairs : pairs[k][1] # key.value.it
             /\ value.ok
          THEN DecodePairs(d, value.pos, depth,
                 Append(pairs, PairRead(pos, key, value)))
          ELSE Refused

(* Decoder: a document that is too long is not looked at.                   *)
Fits(d) == Len(d) <= MaxLength

(* Decoder.decode: a value and nothing after it.                            *)
AndNoMore(d, r) == IF r.ok /\ r.pos = Len(d) + 1 THEN r ELSE Refused

DecodePrefix(d) == IF Fits(d) THEN DecodeValue(d, 1, 0) ELSE Refused
Decode(d) == AndNoMore(d, DecodePrefix(d))

(* Decoder.decode_mapping_with_spans: of a dictionary, where each value is. *)
DecodeMappingWithSpans(d) ==
  IF d = <<>> \/ d[1] # "d" \/ ~Fits(d) THEN Refused ELSE AndNoMore(d, DecodePairs(d, 2, 0, <<>>))

-----------------------------------------------------------------------------
(* Info hashes.                                                             *)

(* Different bytes have different digests.                                  *)
Sha1(bytes) == [sha1 |-> bytes]

InfoHashFromBencoded(raw) == Sha1(raw)
ComputeInfoHash(info) == Sha1(Encode(info))
VerifyInfoDict(info, expected) == ComputeInfoHash(info) = expected

(* parse_torrent: the hash of the bytes the info dictionary was read from.  *)
TorrentOf(d, pairs) ==
  LET infos == {p \in Range(pairs) : p[1] = InfoKey /\ p[2].type = "dict"} IN
  IF infos = {} THEN Refused
  ELSE LET info == CHOOSE p \in infos : TRUE
       IN [ok |-> TRUE, info |-> info[2],
           hash |-> InfoHashFromBencoded(SubSeq(d, info[3][1], info[3][2] - 1))]
ParseTorrent(d) ==
  LET r == DecodeMappingWithSpans(d) IN IF r.ok THEN TorrentOf(d, r.value.it) ELSE Refused

(* torrent_from_info: the hash of the dictionary, written in order.         *)
TorrentFromInfo(info) == [ok |-> TRUE, info |-> info, hash |-> ComputeInfoHash(info)]

-----------------------------------------------------------------------------
(* The values, and their documents.                                         *)

Texts == {<<>>} \cup {<<l>> : l \in Letters}
Atoms == {Integer(n) : n \in Numbers} \cup {Text(s) : s \in Texts}
Pairs(V) == {<<p>> : p \in Texts \X V} \cup
            {s \in {<<p, q>> : p \in Texts \X V, q \in Texts \X V} : s[1][1] # s[2][1]}
Flat == Atoms \cup {List(s) : s \in SeqOf(Atoms, 2)} \cup {Dict(s) : s \in Pairs(Atoms) \cup {<<>>}}
Deep == {List(<<v>>) : v \in Flat} \cup {Dict(<<p>>) : p \in Texts \X Flat}

BencodeInit ==
  /\ hurt = FALSE
  /\ doc \in {EncodeAsIs(v) : v \in Flat \cup Deep}

Hurt ==
  /\ ~hurt /\ hurt' = TRUE
  /\ \E k \in 1 .. Len(doc), b \in Alphabet :
       doc' \in {ReplaceAt(doc, k, b), RemoveAt(doc, k), InsertAt(doc, k, b)}

BencodeNext == Hurt
BencodeSpec == BencodeInit /\ [][BencodeNext]_bencodeVars

-----------------------------------------------------------------------------
(* Properties.                                                              *)

(* A value has one spelling: what is read, written again with its keys as   *)
(* they came, is the document.  Two documents with one meaning would have   *)
(* two info hashes.                                                         *)
OneSpelling == LET r == Decode(doc) IN r.ok => EncodeAsIs(r.value) = doc

(* The range kept for a key of the document is its value's and no more:     *)
(* read by itself it is that value, and so with the header of a message,    *)
(* whatever follows it.                                                     *)
RangesAreValues ==
  LET r == Decode(doc) IN
  r.ok =>
    /\ \A t \in Tails : Fits(doc \o t) => DecodePrefix(doc \o t) = r
    /\ r.value.type = "dict" =>
         \A k \in DOMAIN r.value.it :
           LET p == r.value.it[k]
               alone == DecodeValue(SubSeq(doc, p[3][1], p[3][2] - 1), 1, 1)
           IN alone.ok /\ EncodeAsIs(alone.value) = EncodeAsIs(p[2])

(* The hash of a torrent file is its info dictionary's as its maker wrote   *)
(* it, whatever else is in the file.  A dictionary that came without its    *)
(* bytes has that hash, and is taken for it, exactly when its maker wrote   *)
(* the keys in order.                                                       *)
HashIsTheMakers ==
  \A t \in {u \in {ParseTorrent(doc)} : u.ok} :
    /\ t.hash = Sha1(EncodeAsIs(t.info))
    /\ VerifyInfoDict(t.info, t.hash) <=> Encode(t.info) = EncodeAsIs(t.info)
    /\ TorrentFromInfo(t.info).hash = t.hash <=> VerifyInfoDict(t.info, t.hash)

(* What magnet_resolver.py promises, that a resolution is a torrent for     *)
(* this magnet or nothing: metadata whose bytes have the magnet's hash      *)
(* makes a torrent with that hash, which torrent_from_info computes from    *)
(* the value read.                                                          *)
ResolutionIsForThisMagnet ==
  LET r == Decode(doc)
  IN r.ok /\ r.value.type = "dict" => TorrentFromInfo(r.value).hash = InfoHashFromBencoded(doc)
=============================================================================
