------------------------------- MODULE Layout -------------------------------
(***************************************************************************)
(* The byte stream of a torrent laid out on its files (storage/files.py,    *)
(* torrent/metadata.py, and the stream operations of storage/manager.py):   *)
(* pieces cross files, files may be empty, a file on the disk may be        *)
(* shorter than it should, and a write to a file may take several calls.    *)
(* Byte i of the torrent is written i, so that a misplaced byte shows.      *)
(***************************************************************************)
EXTENDS Integers, Sequences, FiniteSets

CONSTANTS
  Lengths,       \* lengths a file may have
  MaxFiles,      \* bound: files of a torrent
  MaxTotal,      \* bound: bytes of a torrent
  PieceLengths   \* piece lengths

LayoutAssumption ==
  Lengths \subseteq Nat /\ {MaxFiles, MaxTotal} \subseteq Nat /\ PieceLengths \subseteq Nat \ {0}

VARIABLES
  files,    \* Torrent.files: the length of each
  piece,    \* Torrent.piece_length
  disk,     \* each file on the disk: a sequence of bytes
  writing,  \* the writes of each piece that are under way: chunks still to write
  have      \* StorageManager._completed

layoutVars == <<files, piece, disk, writing, have>>

Blank == -1
Least(a, b) == IF a < b THEN a ELSE b
Most(a, b) == IF a > b THEN a ELSE b

-----------------------------------------------------------------------------
(* Geometry.                                                                *)

Files == DOMAIN files

(* Files follow one another in the stream.                                  *)
OffsetsOf(lengths) ==
  LET sum[f \in 0 .. Len(lengths)] == IF f = 0 THEN 0 ELSE sum[f - 1] + lengths[f] IN sum
Offset(f) == OffsetsOf(files)[f - 1]
EndOffset(f) == OffsetsOf(files)[f]
Total == OffsetsOf(files)[Len(files)]

PieceCount == (Total + piece - 1) \div piece
Pieces == 0 .. PieceCount - 1
PieceOffset(p) == p * piece
PieceSize(p) == IF p = PieceCount - 1 THEN Total - p * piece ELSE piece
FilesInPiece(p) ==
  {f \in Files : Offset(f) < PieceOffset(p) + PieceSize(p) /\ EndOffset(f) > PieceOffset(p)}

(* The part of a range that lies in a file, in the file's own coordinates;  *)
(* an empty part where there is none.                                       *)
Clip(f, start, end) ==
  IF files[f] = 0 \/ end <= Offset(f) \/ start >= EndOffset(f)
  THEN [file |-> f, lo |-> 0, hi |-> 0]
  ELSE [file |-> f, lo |-> Most(start, Offset(f)) - Offset(f),
        hi |-> Least(end, EndOffset(f)) - Offset(f)]

Spans(start, length) ==
  SelectSeq([f \in Files |-> Clip(f, start, start + length)], LAMBDA s : s.hi > s.lo)

(* Where the data of each span begins within what is written.               *)
Consumed(spans) == OffsetsOf([k \in DOMAIN spans |-> spans[k].hi - spans[k].lo])

Plan(start, length) ==
  LET spans == Spans(start, length)
  IN [k \in DOMAIN spans |-> [file |-> spans[k].file, lo |-> spans[k].lo, hi |-> spans[k].hi,
                              at |-> start + Consumed(spans)[k - 1]]]

-----------------------------------------------------------------------------
(* The disk.                                                                *)

Padded(s, n) == s \o [k \in 1 .. Most(0, n - Len(s)) |-> Blank]

(* Bytes at an offset of a file; a write past the end leaves a hole.        *)
Stored(s, lo, bytes) ==
  LET new == Padded(s, lo + Len(bytes))
  IN [k \in DOMAIN new |-> IF k - lo \in DOMAIN bytes THEN bytes[k - lo] ELSE new[k]]

(* Faulty variant: what the shorter of two files lacks is not noticed.      *)
GatherPadded(start, length) == [k \in 1 .. length |-> start + k - 1]

(* A read of a file ends where the file ends.                               *)
FileSizes == [f \in Files |-> Len(disk[f])]
ReadAt(f, lo, hi) == SubSeq(disk[f], lo + 1, Least(hi, FileSizes[f]))

(* What is read of a range: of each file what is there, one after the other.*)
Gather(start, length) ==
  LET spans == Spans(start, length)
      part(s) == ReadAt(s.file, s.lo, s.hi)
      join[k \in 0 .. Len(spans)] == IF k = 0 THEN <<>> ELSE join[k - 1] \o part(spans[k])
  IN join[Len(spans)]

Idle == [on |-> FALSE, todo |-> <<>>]

LayoutInit ==
  /\ files \in UNION {[1 .. n -> Lengths] : n \in 1 .. MaxFiles}
  /\ piece \in PieceLengths
  /\ Total \in 1 .. MaxTotal
  /\ disk = [f \in Files |-> <<>>]
  /\ writing = [p \in Pieces |-> Idle] /\ have = {}

(* create_files: each file is made, and made long enough if space is        *)
(* reserved; nothing that is there is lost.                                 *)
CreateFiles ==
  /\ \A p \in Pieces : ~writing[p].on
  /\ disk' = [f \in Files |-> Padded(disk[f], files[f])]
  /\ UNCHANGED <<files, piece, writing, have>>

WritePiece(p) ==
  /\ ~writing[p].on
  /\ writing' = [writing EXCEPT ![p] = [on |-> TRUE, todo |-> Plan(PieceOffset(p), PieceSize(p))]]
  /\ UNCHANGED <<files, piece, disk, have>>

(* One call of the system writes some of a chunk.                           *)
WriteSome(p) ==
  /\ writing[p].todo # <<>>
  /\ LET c == Head(writing[p].todo) IN
     \E n \in 1 .. c.hi - c.lo :
       /\ disk' = [disk EXCEPT ![c.file] = Stored(@, c.lo, [k \in 1 .. n |-> c.at + k - 1])]
       /\ writing' =
            [writing EXCEPT ![p].todo =
               IF n = c.hi - c.lo THEN Tail(@)
               ELSE <<[c EXCEPT !.lo = @ + n, !.at = @ + n]>> \o Tail(@)]
  /\ UNCHANGED <<files, piece, have>>

WriteFails(p) ==
  /\ writing[p].todo # <<>>
  /\ writing' = [writing EXCEPT ![p] = Idle]
  /\ UNCHANGED <<files, piece, disk, have>>

WriteEnd(p) ==
  /\ writing[p].on /\ writing[p].todo = <<>>
  /\ writing' = [writing EXCEPT ![p] = Idle]
  /\ have' = have \cup {p}
  /\ UNCHANGED <<files, piece, disk>>

(* read_piece, and read_block of a part of one: what is there, unless some  *)
(* of it is missing.                                                        *)
ReadRange(start, length) ==
  IF Len(Gather(start, length)) = length THEN [ok |-> TRUE, bytes |-> Gather(start, length)] ELSE [ok |-> FALSE]
ReadPiece(p) == ReadRange(PieceOffset(p), PieceSize(p))
ReadBlock(p, begin, length) ==
  IF begin < 0 \/ length < 0 \/ begin + length > PieceSize(p) THEN [ok |-> FALSE]
  ELSE ReadRange(PieceOffset(p) + begin, length)

(* verify_completed on one piece.                                           *)
VerifyPiece(p) ==
  /\ ~writing[p].on
  /\ LET size == PieceSize(p)
         data == Gather(PieceOffset(p), size)
     IN have' = IF Len(data) = size /\ data = [k \in 1 .. size |-> PieceOffset(p) + k - 1]
                THEN have \cup {p} ELSE have \ {p}
  /\ UNCHANGED <<files, piece, disk, writing>>

(* Somebody else shortens a file, while nothing is written.                 *)
Truncated(f) ==
  /\ \A p \in Pieces : ~writing[p].on
  /\ \E n \in 0 .. Len(disk[f]) : disk' = [disk EXCEPT ![f] = SubSeq(@, 1, n)]
  /\ UNCHANGED <<files, piece, writing, have>>

LayoutNext ==
  \/ CreateFiles
  \/ \E p \in Pieces : WritePiece(p) \/ WriteSome(p) \/ WriteFails(p) \/ WriteEnd(p) \/ VerifyPiece(p)
  \/ \E f \in Files : Truncated(f)

LayoutSpec == LayoutInit /\ [][LayoutNext]_layoutVars

-----------------------------------------------------------------------------
(* What the views show.                                                     *)

FirstShown(f) == Offset(f) \div piece
LastShown(f) == Least(PieceCount - 1, Most(FirstShown(f), (EndOffset(f) - 1) \div piece))
PiecesShown(f) == FirstShown(f) .. LastShown(f)
ShownComplete(f) == PiecesShown(f) \subseteq have

(* PieceMap.piece_size.                                                     *)
ShownSize(p) ==
  IF p # PieceCount - 1 THEN piece
  ELSE Most(0, Least(piece, Total - piece * (PieceCount - 1)))

-----------------------------------------------------------------------------
(* Properties.                                                              *)

LayoutTypeOK ==
  /\ files \in Seq(Lengths) /\ piece \in PieceLengths
  /\ \A f \in Files : FileSizes[f] <= files[f]
  /\ \A p \in Pieces : writing[p].on \in BOOLEAN
  /\ have \subseteq Pieces

(* The files show a file finished exactly when every piece that holds a     *)
(* byte of it is complete, and sizes add up to the torrent wherever they    *)
(* are computed.                                                            *)
ViewsAgree ==
  /\ \A f \in Files : files[f] > 0 =>
       (ShownComplete(f) <=> \A p \in Pieces : f \in FilesInPiece(p) => p \in have)
  /\ \A p \in Pieces : ShownSize(p) = PieceSize(p) /\ PieceSize(p) \in 1 .. piece

(* The byte of the stream at a place, -2 if its file ends before.           *)
ByteAt(i) ==
  LET f == CHOOSE g \in Files : Offset(g) <= i /\ i < EndOffset(g)
      k == i - Offset(f) + 1
  IN IF k \in DOMAIN disk[f] THEN disk[f][k] ELSE -2

(* A piece read is refused or is the whole of its bytes as the stream has   *)
(* them, and so is every block of it: what is short is never filled up.     *)
ReadsAreTheStream ==
  \A p \in Pieces :
    LET Piece(begin) == ByteAt(PieceOffset(p) + begin)
    IN /\ ReadPiece(p).ok <=> \A k \in 0 .. PieceSize(p) - 1 : Piece(k) # -2
       /\ \A begin \in 0 .. PieceSize(p) : \A length \in 1 .. PieceSize(p) :
            LET block == ReadBlock(p, begin, length) IN
            block.ok => /\ begin + length <= PieceSize(p)
                        /\ \A k \in 1 .. length : block.bytes[k] = Piece(begin + k - 1)

(* What torrent_service.py:99 says of FileView.progress, "A zero-length     *)
(* file is complete."                                                       *)
EmptyIsComplete == \A f \in Files : files[f] = 0 => ShownComplete(f)

(* The files implement one stream: every write, of a piece across files or  *)
(* of part of one, lands where the stream has it, and a piece is called     *)
(* complete when the stream's bytes are right.                              *)
Stream == INSTANCE ByteStream
  WITH Layouts <- [total : 1 .. MaxTotal, piece : PieceLengths],
       torrent <- [total |-> Total, piece |-> piece],
       stream <- [i \in 0 .. Total - 1 |-> ByteAt(i)],
       held <- have

LayoutIsStream == Stream!StreamSpec
=============================================================================
