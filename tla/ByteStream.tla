----------------------------- MODULE ByteStream -----------------------------
(***************************************************************************)
(* What StorageManager promises: the files of a torrent are one stream of   *)
(* bytes, written in ranges and checked piece by piece.  Which file a byte  *)
(* is in shows nowhere.  Byte i of the torrent is written i.                *)
(***************************************************************************)
EXTENDS Integers

CONSTANT Layouts   \* the torrents there are: records with total and piece

VARIABLES
  torrent,  \* the torrent stored
  stream,   \* each byte on the disk
  held      \* pieces that are called complete

streamVars == <<torrent, stream, held>>

Absent == -2   \* past the end of what was ever written
Blank == -1    \* never written, but there: reads as zero

Bytes == 0 .. torrent.total - 1
BytesOf(p) == {i \in Bytes : i \div torrent.piece = p}
Numbers == {i \div torrent.piece : i \in Bytes}
Whole(p) == \A i \in BytesOf(p) : stream[i] = i

StreamInit ==
  /\ torrent \in Layouts
  /\ stream = [i \in Bytes |-> Absent] /\ held = {}

(* Bytes lo to hi are written; what was absent may become blank with them.  *)
Put(lo, hi) ==
  /\ \E p \in Numbers : lo .. hi \subseteq BytesOf(p)
  /\ \A i \in Bytes :
       IF i \in lo .. hi THEN stream'[i] = i
       ELSE stream'[i] = stream[i] \/ (stream[i] = Absent /\ stream'[i] = Blank)

Reserve ==
  \A i \in Bytes : stream'[i] = stream[i] \/ (stream[i] = Absent /\ stream'[i] = Blank)

(* A piece is complete if and only if all its bytes are there and right.    *)
Check(p) == held' = IF Whole(p) THEN held \cup {p} ELSE held \ {p}

(* Something else truncates a file.                                         *)
Tamper == \A i \in Bytes : stream'[i] \in {stream[i], Absent}

StreamNext ==
  /\ UNCHANGED torrent /\ stream' \in [Bytes -> Bytes \cup {Absent, Blank}]
  /\ \/ Reserve /\ UNCHANGED held
     \/ Tamper /\ UNCHANGED held
     \/ (\E lo, hi \in Bytes : lo <= hi /\ Put(lo, hi)) /\ UNCHANGED held
     \/ (\E p \in Numbers : Check(p)) /\ UNCHANGED stream

StreamSpec == StreamInit /\ [][StreamNext]_streamVars
=============================================================================
