------------------------------ MODULE PieceMaps -----------------------------
(***************************************************************************)
(* What is known of the pieces of a torrent. First Bitfield and            *)
(* PieceAvailability (peer/bitfield.py) at the level of their bytes, and   *)
(* the order PieceSelector (download/selector.py) makes of them: a byte is *)
(* the set of the bits that are set, counted from the most significant; the*)
(* last byte may have bits that stand for no piece, a peer may send them   *)
(* set, and may send bytes beyond the end.                                 *)
(*                                                                         *)
(* Then the blocks a download asks for and the requests an upload accepts: *)
(* plan_blocks and block_at (download/block.py), build_pieces (piece.py),  *)
(* the sizes of pieces (torrent/metadata.py), UploadManager._reject_reason *)
(* (upload/manager.py) and what the storage is then asked to read, for one *)
(* torrent and the requests a peer makes of it; and the map of the pieces  *)
(* that is shown (services/torrent_service.py).                            *)
(***************************************************************************)
EXTENDS Integers, Sequences, FiniteSets, SequencesExt, FiniteSetsExt

CONSTANTS
  PieceCount,   \* pieces of the torrent
  BitsPerByte,  \* _BITS_PER_BYTE (8 in the code)
  Neighbours,   \* peers whose bitfields are counted
  MaxBytes,     \* bound: bytes of a bitfield message
  Unsent, \* no bitfield has been received
  MaxTotal,     \* bound: bytes of a torrent
  MaxPiece,     \* bound: bytes of a piece
  BlockSize,    \* DEFAULT_BLOCK_SIZE: what we ask for
  MaxBlockSize, \* MAX_BLOCK_SIZE: what is accepted
  QueueLimit,   \* UploadConfig.max_requests_per_peer
  MaxNumber     \* bound: numbers in a request

VARIABLES
  ours,    \* the bytes of our own bitfield
  field,   \* the bytes of each peer's, Unsent for none
  counts, \* PieceAvailability._counts
  geometry,  \* total_length and piece_length of the torrent
  held,      \* pieces that are verified
  fresh,     \* the pieces build_pieces made: their blocks, and whether verified
  standing,  \* of the peer: interested, unchoked, requests queued
  ask,       \* the request
  verdict,   \* why it is refused, "none" if it is not, "unread" before
  shown      \* the pieces as they were when they were drawn, and the map

bitVars == <<ours, field, counts>>

Pieces == 0 .. PieceCount - 1
Byte == SUBSET (0 .. BitsPerByte - 1)
ByteCount == (PieceCount + BitsPerByte - 1) \div BitsPerByte
Nothing == [k \in 1 .. ByteCount |-> {}]

Has(b, i) == (i % BitsPerByte) \in b[1 + i \div BitsPerByte]
Indices(b) == {i \in Pieces : Has(b, i)}
SetBit(b, i) == [b EXCEPT ![1 + i \div BitsPerByte] = @ \cup {i % BitsPerByte}]
ClearBit(b, i) == [b EXCEPT ![1 + i \div BitsPerByte] = @ \ {i % BitsPerByte}]

(* Bitfield.count: every bit of every byte that is set.                     *)
BitCount(b) == FoldLeft(LAMBDA n, byte : n + Cardinality(byte), 0, b)
Complete(b) == BitCount(b) = PieceCount

(* _mask_spare_bits: the bits of the last byte that belong to no piece.     *)
Masked(b) ==
  IF Len(b) = 0 \/ PieceCount % BitsPerByte = 0 THEN b
  ELSE [b EXCEPT ![Len(b)] = @ \cap (0 .. (PieceCount % BitsPerByte) - 1)]

Full == Masked([k \in 1 .. ByteCount |-> 0 .. BitsPerByte - 1])

(* from_bytes: too short is refused, what is too long is cut.               *)
TooShort(data) == Len(data) < ByteCount
FromBytes(data) == Masked(SubSeq(data, 1, ByteCount))

MissingFrom(b, other) == {i \in Pieces : Has(other, i) /\ ~Has(b, i)}
IsInteresting(b, other) == \E i \in Pieces : Has(other, i) /\ ~Has(b, i)

-----------------------------------------------------------------------------
(* PieceAvailability and PieceSelector.                                     *)

Apply(c, b, delta) == [i \in Pieces |-> IF Has(b, i) THEN c[i] + delta ELSE c[i]]

Sequential(wanted) == SetToSortSeq(wanted, LAMBDA i, j : i < j)

(* rarest: fewest holders first, the lower index among equals.              *)
Rarest(wanted) ==
  SetToSortSeq(wanted, LAMBDA i, j : counts[i] < counts[j] \/ (counts[i] = counts[j] /\ i < j))

(* select: what RANDOM may answer is any order.                             *)
Selections(strategy, wanted) ==
  CASE strategy = "sequential" -> {Sequential(wanted)}
    [] strategy = "random" -> SetToSeqs(wanted)
    [] OTHER -> {Rarest(wanted)}

-----------------------------------------------------------------------------
BitsInit ==
  /\ ours = Nothing
  /\ field = [p \in Neighbours |-> Unsent]
  /\ counts = [i \in Pieces |-> 0]

(* A bitfield message, the first of its connection, is counted.             *)
Told(p, data) ==
  /\ field[p] = Unsent /\ ~TooShort(data)
  /\ field' = [field EXCEPT ![p] = FromBytes(data)]
  /\ counts' = Apply(counts, FromBytes(data), 1)
  /\ UNCHANGED ours

(* A have: the bit is set and the piece counted once.                       *)
Have(p, i) ==
  /\ field[p] # Unsent /\ ~Has(field[p], i)
  /\ field' = [field EXCEPT ![p] = SetBit(@, i)]
  /\ counts' = [counts EXCEPT ![i] = @ + 1]
  /\ UNCHANGED ours

Left(p) ==
  /\ field[p] # Unsent
  /\ field' = [field EXCEPT ![p] = Unsent]
  /\ counts' = Apply(counts, field[p], -1)
  /\ UNCHANGED ours

(* Our own bitfield: pieces verified, or found bad by a check of the files. *)
Verified(i) ==
  /\ ours' = SetBit(ours, i)
  /\ UNCHANGED <<field, counts>>
Failed(i) ==
  /\ ours' = ClearBit(ours, i)
  /\ UNCHANGED <<field, counts>>

BitsNext ==
  \/ \E p \in Neighbours, n \in 0 .. MaxBytes : \E data \in [1 .. n -> Byte] : Told(p, data)
  \/ \E p \in Neighbours, i \in Pieces : Have(p, i)
  \/ \E p \in Neighbours : Left(p)
  \/ \E i \in Pieces : Verified(i) \/ Failed(i)

BitsSpec == BitsInit /\ [][BitsNext]_bitVars

-----------------------------------------------------------------------------
Known == {ours} \cup {field[p] : p \in {q \in Neighbours : field[q] # Unsent}}

BitsTypeOK ==
  /\ \A b \in Known : Len(b) = ByteCount /\ \A k \in DOMAIN b : b[k] \in Byte
  /\ \A i \in Pieces : counts[i] \in 0 .. Cardinality(Neighbours)

(* Whatever spare bits a peer sends, the number of bits is the number of    *)
(* pieces it has, it counts as a seed exactly when it has them all, two     *)
(* peers with the same pieces compare equal, and what we would send of it   *)
(* reads back as the same pieces.                                           *)
CountIsPieces ==
  \A b \in Known :
    /\ BitCount(b) = Cardinality(Indices(b))
    /\ (Complete(b) <=> b = Full) /\ (Complete(b) <=> Indices(b) = Pieces)
    /\ FromBytes(Masked(b)) = b
    /\ \A other \in Known : Indices(b) = Indices(other) => b = other

(* Every strategy offers each wanted piece exactly once; rarest first never *)
(* offers a piece before one that fewer peers hold, counted from the peers' *)
(* bitfields as they are now; and we want something of a peer exactly when  *)
(* it holds a piece we would ask for.                                       *)
RarestComesFirst ==
  LET wanted == Pieces \ Indices(ours)
      Holders(i) == {p \in Neighbours : field[p] # Unsent /\ Has(field[p], i)}
      order == Rarest(wanted)
  IN /\ \A strategy \in {"sequential", "random", "rarest_first"} :
          \A s \in Selections(strategy, wanted) : ToSet(s) = wanted /\ IsInjective(s)
     /\ \A j, k \in DOMAIN order :
          j < k => Cardinality(Holders(order[j])) <= Cardinality(Holders(order[k]))
     /\ \A p \in {q \in Neighbours : field[q] # Unsent} :
          IsInteresting(ours, field[p]) <=> MissingFrom(ours, field[p]) \cap wanted # {}

-----------------------------------------------------------------------------
blockVars == <<geometry, held, fresh, standing, ask, verdict, shown>>

PieceTotal(g) == (g.total + g.piece - 1) \div g.piece
PieceIndices(g) == 0 .. PieceTotal(g) - 1

(* Torrent.piece_size: what is left for the last.                           *)
PieceSize(g, i) == IF i = PieceTotal(g) - 1 THEN g.total - i * g.piece ELSE g.piece
PieceOffset(g, i) == i * g.piece

MinOf(m, n) == IF m < n THEN m ELSE n

(* Faulty variant: every block is a whole one.                              *)
PlanBlocksWhole(i, size) ==
  [k \in 1 .. (size + BlockSize - 1) \div BlockSize |->
     [index |-> i, begin |-> (k - 1) * BlockSize, length |-> BlockSize]]

(* plan_blocks: the last block is what is left.                             *)
PlanBlocks(i, size) ==
  [k \in 1 .. (size + BlockSize - 1) \div BlockSize |->
     [index |-> i, begin |-> (k - 1) * BlockSize,
      length |-> MinOf(BlockSize, size - (k - 1) * BlockSize)]]

(* block_at: the block that begins there, if one does.                      *)
BlockAt(size, offset) ==
  IF offset \in 0 .. size - 1 /\ offset % BlockSize = 0
  THEN {[index |-> 0, begin |-> offset, length |-> MinOf(BlockSize, size - offset)]}
  ELSE {}

BuildPieces(g, verified) ==
  [i \in PieceIndices(g) |->
     [blocks |-> PlanBlocks(i, PieceSize(g, i)), verified |-> i \in verified]]

(* _reject_reason, on where the block lies in its piece.                    *)
Misplaced(g, m) ==
  IF m.begin \notin 0 .. PieceSize(g, m.index) - 1 THEN "bad_offset"
  ELSE IF \/ m.length \notin 1 .. MaxBlockSize
          \/ m.begin + m.length > PieceSize(g, m.index) THEN "bad_length" ELSE "none"

(* ... and on the peer: the first of these that applies.                    *)
Unserved(have, peer, m) ==
  IF m.index \notin have THEN "missing_piece"
  ELSE IF ~peer.keen THEN "not_interested"
  ELSE IF ~peer.unchoked THEN "choked"
  ELSE IF peer.queued >= QueueLimit THEN "queue_full" ELSE "none"

RejectReason(g, have, peer, m) ==
  IF m.index \notin PieceIndices(g) THEN "bad_index"
  ELSE IF Misplaced(g, m) # "none" THEN Misplaced(g, m) ELSE Unserved(have, peer, m)

(* read_block: refused again if it is not inside the piece; the storage     *)
(* then reads that range of the torrent's bytes.                            *)
Readable(g, m) == m.begin >= 0 /\ m.length >= 0 /\ m.begin + m.length <= PieceSize(g, m.index)
ValidRange(g, start, length) == start >= 0 /\ length >= 0 /\ start + length <= g.total

-----------------------------------------------------------------------------
(* The map that is drawn: seven states of a piece, shown as five.           *)

PieceState ==
  {"missing", "requested", "downloading", "downloaded", "verifying", "verified", "failed"}
PieceStateCode(state) == IF state \in {"downloaded", "verifying"} THEN "downloading" ELSE state

(* _fill_of: of a piece in flight, its blocks that have arrived.            *)
FillOf(blocks, arrived, code) ==
  IF code # "downloading" \/ blocks = <<>> THEN [part |-> 0, whole |-> 1]
  ELSE [part |-> MinOf(arrived, Len(blocks)), whole |-> Len(blocks)]

(* PieceMap.piece_size                                                      *)
MapPieceSize(map, i) ==
  LET last == map.total - map.piece * (map.count - 1)
  IN IF i # map.count - 1 THEN map.piece ELSE IF last < 0 THEN 0 ELSE MinOf(map.piece, last)

(* TorrentService.piece_map                                                 *)
PieceMap(g, pieces) ==
  LET codes == [i \in DOMAIN pieces |-> PieceStateCode(pieces[i].state)] IN
  [count |-> PieceTotal(g), piece |-> g.piece, total |-> g.total, states |-> codes,
   filled |-> [i \in DOMAIN pieces |-> FillOf(fresh[i].blocks, pieces[i].arrived, codes[i])],
   counts |-> [name \in PieceState \ {"downloaded", "verifying"} |->
                 Cardinality({i \in DOMAIN pieces : codes[i] = name})]]

(* What a piece in a state may have of its blocks.                          *)
Arrived(state, blocks) ==
  CASE state \in {"missing", "requested", "failed"} -> {0}
    [] state = "downloading" -> 1 .. Len(blocks)
    [] OTHER -> {Len(blocks)}

-----------------------------------------------------------------------------
Geometries == [total : 1 .. MaxTotal, piece : 1 .. MaxPiece]
Requests == [index : 0 .. MaxNumber, begin : 0 .. MaxNumber, length : 0 .. MaxNumber]
Standings == [keen : BOOLEAN, unchoked : BOOLEAN, queued : 0 .. QueueLimit]
Idle == [keen |-> FALSE, unchoked |-> FALSE, queued |-> 0]
Unasked == [index |-> 0, begin |-> 0, length |-> 0]

BlocksInit ==
  /\ geometry \in Geometries
  /\ held \in {{}, PieceIndices(geometry)} \cup {{i} : i \in PieceIndices(geometry)}
  /\ fresh = BuildPieces(geometry, held)
  /\ standing = Idle /\ ask = Unasked /\ verdict = "unread" /\ shown = Unsent

(* A request arrives while the peer stands as it does.                      *)
Ask(s, m) ==
  /\ verdict = "unread" /\ shown = Unsent
  /\ standing' = s /\ ask' = m
  /\ verdict' = RejectReason(geometry, held, s, m)
  /\ UNCHANGED <<geometry, held, fresh, shown>>

(* The map is drawn, while one of the pieces that are not verified is in    *)
(* flight or has failed, and the others are not asked for.                  *)
Draw(i, state) ==
  /\ verdict = "unread" /\ shown = Unsent
  /\ (state = "verified") <=> i \in held
  /\ \E n \in Arrived(state, fresh[i].blocks) :
       LET pieces == [j \in PieceIndices(geometry) |->
                        IF j = i THEN [state |-> state, arrived |-> n]
                        ELSE IF j \in held THEN [state |-> "verified", arrived |-> Len(fresh[j].blocks)]
                        ELSE [state |-> "missing", arrived |-> 0]]
       IN shown' = [pieces |-> pieces, map |-> PieceMap(geometry, pieces)]
  /\ UNCHANGED <<geometry, held, fresh, standing, ask, verdict>>

BlocksNext ==
  \/ \E s \in Standings, m \in Requests : Ask(s, m)
  \/ \E i \in PieceIndices(geometry), state \in PieceState : Draw(i, state)
BlocksSpec == BlocksInit /\ [][BlocksNext]_blockVars

-----------------------------------------------------------------------------
Bytes(b) == b.begin .. b.begin + b.length - 1

(* The blocks of a piece are its bytes, each once and none beyond the end,  *)
(* whatever the size of the last piece; block_at finds exactly those; and a *)
(* piece counts as verified when its storage says so.                       *)
BlocksAreThePiece ==
  \A i \in PieceIndices(geometry) :
    LET size == PieceSize(geometry, i)
        blocks == fresh[i].blocks
    IN /\ size \in 1 .. geometry.piece
       /\ UNION {Bytes(blocks[k]) : k \in DOMAIN blocks} = 0 .. size - 1
       /\ \A k, j \in DOMAIN blocks : k # j => Bytes(blocks[k]) \cap Bytes(blocks[j]) = {}
       /\ \A offset \in 0 .. size :
            BlockAt(size, offset) =
              {[b EXCEPT !.index = 0] : b \in {c \in ToSet(blocks) : c.begin = offset}}
       /\ fresh[i].verified <=> i \in held

(* Two clients running this code agree: a block that one of them plans is   *)
(* one the other serves, if it has the piece and lets the peer ask; and     *)
(* what it accepts can be read, inside the piece and inside the torrent.    *)
PlannedIsServed ==
  /\ \A i \in PieceIndices(geometry) : \A k \in DOMAIN fresh[i].blocks :
       RejectReason(geometry, PieceIndices(geometry),
                    [keen |-> TRUE, unchoked |-> TRUE, queued |-> 0], fresh[i].blocks[k]) = "none"
  /\ verdict = "none" =>
       /\ Readable(geometry, ask)
       /\ ValidRange(geometry, PieceOffset(geometry, ask.index) + ask.begin, ask.length)
       /\ ask.index \in held /\ standing.keen /\ standing.unchoked

(* The map shows the download there is: each piece once, verified exactly   *)
(* when it is held, its size in bytes and no more, a piece as full as the   *)
(* bytes of it that are there and whole only when all are; so what is left  *)
(* is what the held pieces leave of the torrent.                            *)
MapIsTheDownload ==
  shown # Unsent =>
    LET map == shown.map
        sizes == [i \in PieceIndices(geometry) |-> MapPieceSize(map, i)]
        First(i, n) == UNION {Bytes(fresh[i].blocks[k]) : k \in 1 .. n}
    IN /\ MapThenSumSet(LAMBDA name : map.counts[name], DOMAIN map.counts) = map.count
       /\ map.counts["verified"] = Cardinality(held)
       /\ MapThenSumSet(LAMBDA i : sizes[i], PieceIndices(geometry) \ held)
            = geometry.total - Cardinality(UNION {{i * geometry.piece + b : b \in 0 .. sizes[i] - 1} : i \in held})
       /\ \A i \in PieceIndices(geometry) :
            LET fill == map.filled[i]
                arrived == First(i, shown.pieces[i].arrived)
            IN /\ map.states[i] = "verified" <=> i \in held
               /\ map.states[i] = "downloading" =>
                    (fill.part = fill.whole <=> Cardinality(arrived) = sizes[i])
               /\ fill.part > 0 => i \notin held /\ arrived # {}
=============================================================================
