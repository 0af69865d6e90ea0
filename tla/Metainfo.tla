------------------------------ MODULE Metainfo ------------------------------
(***************************************************************************)
(* A .torrent document read into a Torrent (torrent/parser.py, metadata.py,*)
(* path_safety.py): what is accepted, the geometry of what is accepted, the*)
(* paths its files get, and its trackers. A character of a path is one of  *)
(* those the rules tell apart; a URL is a scheme and a host.  Some of the  *)
(* documents are made, with the payload they are of, by the tools of the   *)
(* program's own tests (tools/make_test_torrent.py, swarm_download.py).    *)
(*                                                                         *)
(* Then a magnet link read and written again (torrent/magnet.py). A link is*)
(* a sequence of characters; "%" and the letter after it are one escaped   *)
(* character, "://" and the name of a field are one character each. The    *)
(* topics of a link are told apart by what can be made of them.            *)
(***************************************************************************)
EXTENDS Integers, Sequences, FiniteSets, SequencesExt, FiniteSetsExt

CONSTANTS
  Documents,  \* info dictionaries and trackers, as read by the decoder
  MaxName,    \* MAX_COMPONENT_LENGTH
  MaxPath,    \* MAX_PATH_LENGTH
  MaxPayload, \* bytes of a payload made for a test
  NoField,    \* a field that is not there
  OddField, \* a field of another type
  Offered  \* what other clients make links of: fields and their values

VARIABLES
  document,  \* the document
  torrent, \* the torrent made of it, or why there is none
  made,   \* what the document was made of for a test, with the files written
  link,   \* the link in hand
  first,  \* what was read of the first link
  magnet, \* what was read of this one
  shared  \* how often it was written again

metainfoVars == <<document, torrent, made>>

NonNegative(x) == x \notin {NoField, OddField} /\ x >= 0

-----------------------------------------------------------------------------
(* Paths.  A name of a document is bytes: a letter in either case, a dot, a *)
(* separator, a colon, a blank, a control character, the two bytes "c3" and *)
(* "a9" of an accented letter, and the byte "e9" that stands for that       *)
(* letter in the older encoding.                                            *)

Utf8(raw) ==
  /\ "e9" \notin Range(raw)
  /\ \A k \in DOMAIN raw : /\ raw[k] = "c3" => k < Len(raw) /\ raw[k + 1] = "a9"
                          /\ raw[k] = "a9" => k > 1 /\ raw[k - 1] = "c3"
Latin1 == [c3 |-> "tilde", a9 |-> "sign", e9 |-> "acute"]

(* decode_component: UTF-8, or else every byte is a character.              *)
DecodeComponent(raw) ==
  LET Text(bytes, chars) ==
        [k \in DOMAIN bytes |-> IF bytes[k] \in DOMAIN chars THEN chars[bytes[k]] ELSE bytes[k]]
  IN IF Utf8(raw) THEN Text(SelectSeq(raw, LAMBDA b : b # "a9"), [c3 |-> "acute"])
     ELSE Text(raw, Latin1)

Utf8Length(name) == Len(name) + Cardinality({k \in DOMAIN name : name[k] \in Range(Latin1)})

Letter == {"a", "A"}
Forbidden == {"/"}
Device == <<"a", "a", "a">>   \* stands for CON, NUL and the others
Lower(name) == [k \in DOMAIN name |-> IF name[k] = "A" THEN "a" ELSE name[k]]
BeforeDot(name) ==
  LET dots == {k \in DOMAIN name : name[k] = "."}
  IN IF dots = {} THEN name ELSE SubSeq(name, 1, Min(dots) - 1)

(* validate_component                                                       *)
ValidName(name) ==
  /\ name \notin {<<>>, <<".">>, <<".", ".">>}
  /\ Range(name) \cap (Forbidden \cup {"ctl"}) = {}
  /\ ~(Len(name) >= 2 /\ name[1] \in Letter /\ name[2] = ":")
  /\ Lower(BeforeDot(name)) # Device
  /\ name[1] # " " /\ name[Len(name)] \notin {" ", "."}
  /\ Utf8Length(name) <= MaxName

SanitizeName(raw) == ValidName(DecodeComponent(raw))

(* sanitize_path_components: each component, and all with what joins them.  *)
DecodePath(path) == [k \in DOMAIN path |-> DecodeComponent(path[k])]
PathLength(path) == FoldLeft(LAMBDA n, name : n + Utf8Length(name), Len(path) - 1, path)
ValidPath(path) ==
  /\ path # <<>> /\ \A k \in DOMAIN path : ValidName(DecodeComponent(path[k]))
  /\ PathLength(DecodePath(path)) <= MaxPath

-----------------------------------------------------------------------------
(* The info dictionary.                                                     *)

Refuse(why) == [ok |-> FALSE, why |-> why]

(* A file of the list is a length and a path.  Two may not be of one path.  *)
ValidFile(f) == NonNegative(f.length) /\ f.path \notin {NoField, OddField} /\ ValidPath(f.path)

Starts(lengths) ==
  [k \in DOMAIN lengths |-> FoldLeft(LAMBDA n, l : n + l, 0, SubSeq(lengths, 1, k - 1))]
FileEntry(path, length, offset) == [path |-> path, length |-> length, offset |-> offset]
Placed(paths, lengths) ==
  [k \in DOMAIN paths |-> FileEntry(paths[k], lengths[k], Starts(lengths)[k])]

(* _parse_files: one file of the torrent's name, or files under it.         *)
ParseFiles(info) ==
  LET name == DecodeComponent(info.name)
      PathOf(k) == DecodePath(info.files[k].path)
  IN IF info.length # NoField /\ info.files # NoField THEN Refuse("both")
     ELSE IF info.length # NoField
     THEN IF NonNegative(info.length)
          THEN [ok |-> TRUE, files |-> Placed(<<<<name>>>>, <<info.length>>)]
          ELSE Refuse("length")
     ELSE IF info.files \in {NoField, OddField, <<>>} THEN Refuse("files")
     ELSE IF \E k \in DOMAIN info.files : ~ValidFile(info.files[k]) THEN Refuse("file")
     ELSE IF \E j, k \in DOMAIN info.files : j < k /\ PathOf(j) = PathOf(k) THEN Refuse("duplicate")
     ELSE [ok |-> TRUE,
           files |-> Placed([k \in DOMAIN info.files |-> <<name>> \o PathOf(k)],
                            [k \in DOMAIN info.files |-> info.files[k].length])]

Total(files) == FoldLeft(LAMBDA n, f : n + f.length, 0, files)

PiecesOf(total, size) == (total + size - 1) \div size

(* _validate_piece_geometry                                                 *)
FitsGeometry(files, info) ==
  Total(files) > 0 /\ PiecesOf(Total(files), info.piece) = Len(info.hashes)

(* _parse_piece_hashes: one hash of each twenty bytes, none left over.      *)
ValidHashes(info) == info.hashes \notin {NoField, OddField, <<>>} /\ ~info.ragged

(* _parse_private_flag: only the number one is private, and another type is *)
(* no torrent.                                                              *)
Private(info) == info.private = 1

Torrent(info, files, trackers) ==
  [ok |-> TRUE, name |-> DecodeComponent(info.name), files |-> files, piece |-> info.piece,
   hashes |-> info.hashes, private |-> Private(info), announce |-> trackers.announce,
   tiers |-> trackers.tiers]

(* _build_torrent and Torrent.__post_init__.                                *)
BuildTorrent(info, trackers) ==
  IF info.name \in {NoField, OddField} \/ ~SanitizeName(info.name) THEN Refuse("name")
  ELSE IF ~NonNegative(info.piece) \/ info.piece = 0 THEN Refuse("piece length")
  ELSE IF ~ValidHashes(info) THEN Refuse("pieces")
  ELSE IF ~ParseFiles(info).ok THEN ParseFiles(info)
  ELSE IF ~FitsGeometry(ParseFiles(info).files, info) THEN Refuse("geometry")
  ELSE IF info.private = OddField THEN Refuse("private")
  ELSE Torrent(info, ParseFiles(info).files, trackers)

-----------------------------------------------------------------------------
(* Trackers.                                                                *)

(* _optional_tracker: a scheme we speak and a host, or no tracker.          *)
Usable(url) == url \notin {NoField, OddField} /\ url.scheme \in {"http", "udp"} /\ url.host # ""
Tracker(url) == IF Usable(url) THEN url ELSE NoField

(* _parse_announce_list: a list of tiers, or a flat list of URLs; a tier    *)
(* none of which can be used is dropped.                                    *)
ParseTiers(value) ==
  IF value \in {NoField, OddField} THEN <<>>
  ELSE SelectSeq([k \in DOMAIN value |-> SelectSeq(value[k], Usable)], LAMBDA t : t # <<>>)

(* Torrent.trackers                                                         *)
Trackers(t) ==
  LET announced == IF t.announce = NoField THEN <<>> ELSE <<t.announce>> IN
  FoldLeft(LAMBDA s, url : IF url \in Range(s) THEN s ELSE Append(s, url), announced, FlattenSeq(t.tiers))

-----------------------------------------------------------------------------
(* What the rest of the program asks a torrent.                             *)

PieceOffset(t, p) == p * t.piece
PieceSize(t, p) == IF p = Len(t.hashes) - 1 THEN Total(t.files) - p * t.piece ELSE t.piece
FilesInPiece(t, p) ==
  {k \in DOMAIN t.files :
     /\ t.files[k].offset < PieceOffset(t, p) + PieceSize(t, p)
     /\ t.files[k].offset + t.files[k].length > PieceOffset(t, p)}

(* resolve_within: where a path leads, and whether that is inside the       *)
(* folder; the components joined are read again by the file system, a name  *)
(* with a separator as several, the dots as themselves.                     *)
NameParts(name) ==
  IF "/" \in Range(name)
  THEN LET k == Min({j \in DOMAIN name : name[j] = "/"})
       IN <<SubSeq(name, 1, k - 1), SubSeq(name, k + 1, Len(name))>>
  ELSE <<name>>
Resolved(path) ==
  FoldLeft(LAMBDA s, name :
             CASE name \in {<<>>, <<".">>} -> s
               [] name = <<".", ".">> -> IF s = <<>> THEN <<<<"out">>>> ELSE Front(s)
               [] OTHER -> Append(s, name),
           <<>>, FlattenSeq([k \in DOMAIN path |-> NameParts(path[k])]))

(* FileLayout: every file inside the folder and none in the place of        *)
(* another, or the download is refused.                                     *)
FileLayoutAccepts(t) ==
  LET target == [k \in DOMAIN t.files |-> Resolved(t.files[k].path)]
  IN /\ target # <<>> /\ Total(t.files) >= 0
     /\ \A k \in DOMAIN target : <<"out">> \notin Range(target[k])
     /\ IsInjective(target)

-----------------------------------------------------------------------------

(* Torrents made for tests, of a payload whose bytes all differ.            *)

Sha1(bytes) == [sha1 |-> bytes]  \* different bytes have different digests

Payload(size) == [k \in 1 .. size |-> k]
ComputePieceHashes(payload, size) ==
  [k \in 1 .. PiecesOf(Len(payload), size) |->
     Sha1(SubSeq(payload, (k - 1) * size + 1, Min({k * size, Len(payload)})))]

(* split_payload: the first parts are a byte longer when it does not divide.*)
SplitPayload(payload, parts) ==
  LET Start(k) == k * (Len(payload) \div parts) + Min({k, Len(payload) % parts})
  IN [k \in 1 .. parts |-> SubSeq(payload, Start(k - 1) + 1, Start(k))]

(* default_paths: every third file is in a folder.                          *)
PartNames == <<<<"a", "A">>, <<"A", "a">>, <<"A", "A">>>>
DefaultPaths(count) ==
  [k \in 1 .. count |-> IF k % 3 = 0 THEN <<<<"A">>, PartNames[k]>> ELSE <<PartNames[k]>>]

BuildInfo(name, payload, size, count, private) ==
  LET chunks == SplitPayload(payload, count) IN
  [name |-> name, piece |-> size, hashes |-> ComputePieceHashes(payload, size), ragged |-> FALSE,
   private |-> IF private THEN 1 ELSE NoField,
   length |-> IF count = 1 THEN Len(payload) ELSE NoField,
   files |-> IF count = 1 THEN NoField
             ELSE [k \in 1 .. count |-> [path |-> DefaultPaths(count)[k], length |-> Len(chunks[k])]]]

(* build_torrent_bytes, announced at one tracker.                           *)
BuildTorrentBytes(name, payload, size, count, private, url) ==
  [info |-> BuildInfo(name, payload, size, count, private), announce |-> url, list |-> NoField]

(* write_test_torrent: the payload, in the files a download would leave.    *)
WriteTestTorrent(name, payload, count) ==
  IF count = 1 THEN <<[path |-> <<name>>, bytes |-> payload]>>
  ELSE [k \in 1 .. count |->
          [path |-> <<name>> \o DefaultPaths(count)[k], bytes |-> SplitPayload(payload, count)[k]]]

(* _read_piece of swarm_download.py: a piece out of the files, unless one   *)
(* is not there or too short.                                               *)
ReadPiece(t, disk, p) ==
  LET start == PieceOffset(t, p)
      Slice(f) ==
        LET from == Max({start, f.offset}) - f.offset
            end == Min({start + PieceSize(t, p), f.offset + f.length}) - f.offset
            here == {d \in Range(disk) : d.path = f.path}
        IN IF end <= from \/ here = {} THEN <<>>
           ELSE LET d == CHOOSE x \in here : TRUE
                IN SubSeq(d.bytes, from + 1, Min({end, Len(d.bytes)}))
  IN FlattenSeq([k \in DOMAIN t.files |-> IF k \in FilesInPiece(t, p) THEN Slice(t.files[k]) ELSE <<>>])

(* _matches                                                                 *)
Matches(t, disk) ==
  \A p \in 0 .. Len(t.hashes) - 1 :
    /\ Len(ReadPiece(t, disk, p)) = PieceSize(t, p)
    /\ Sha1(ReadPiece(t, disk, p)) = t.hashes[p + 1]

(* load_payload of mock_seeder.py: what a seeder serves.                    *)
LoadPayload(bytes, t) ==
  IF Len(bytes) < Total(t.files) THEN Refuse("short") ELSE [ok |-> TRUE, bytes |-> SubSeq(bytes, 1, Total(t.files))]

-----------------------------------------------------------------------------

MetainfoInit ==
  /\ torrent = Refuse("unread")
  /\ \/ document \in Documents /\ made = NoField
     \/ \E name \in {<<"a">>, <<"A", ".", "a">>}, n \in 0 .. MaxPayload, size \in 1 .. 3,
           count \in DOMAIN PartNames, private \in BOOLEAN :
          /\ made = [payload |-> Payload(n), disk |-> WriteTestTorrent(name, Payload(n), count)]
          /\ document = BuildTorrentBytes(name, Payload(n), size, count, private,
                                          [scheme |-> "http", host |-> "x"])

(* parse_torrent_file: of a file that can be read.                          *)
Parse ==
  /\ torrent = Refuse("unread")
  /\ torrent' = BuildTorrent(document.info,
                  [announce |-> Tracker(document.announce), tiers |-> ParseTiers(document.list)])
  /\ UNCHANGED <<document, made>>

(* A file that cannot be read is no torrent.                                *)
ParseUnreadable ==
  /\ torrent = Refuse("unread") /\ torrent' = Refuse("unreadable")
  /\ UNCHANGED <<document, made>>

MetainfoNext == Parse \/ ParseUnreadable
MetainfoSpec == MetainfoInit /\ [][MetainfoNext]_metainfoVars

-----------------------------------------------------------------------------
(* Properties.                                                              *)

(* What is accepted can be stored: each byte is of one piece and of one     *)
(* file, a piece is not empty and not too long, and the files of a piece    *)
(* are those with a byte of it.                                             *)
TorrentIsWhole ==
  torrent.ok =>
    LET t == torrent
        n == Total(t.files)
        BytesOf(p) == PieceOffset(t, p) .. PieceOffset(t, p) + PieceSize(t, p) - 1
        FileBytes(f) == f.offset .. f.offset + f.length - 1
    IN /\ \A p \in 0 .. Len(t.hashes) - 1 : PieceSize(t, p) \in 1 .. t.piece
       /\ \A b \in 0 .. n - 1 :
            /\ Cardinality({p \in 0 .. Len(t.hashes) - 1 : b \in BytesOf(p)}) = 1
            /\ Cardinality({k \in DOMAIN t.files : b \in FileBytes(t.files[k])}) = 1
       /\ \A p \in 0 .. Len(t.hashes) - 1 :
            {k \in FilesInPiece(t, p) : t.files[k].length > 0} =
              {k \in DOMAIN t.files : FileBytes(t.files[k]) \cap BytesOf(p) # {}}

(* Two files of an accepted torrent are two files of the disk, below the    *)
(* torrent's own name, where the file system drops trailing dots too.       *)
OnDisk(path) ==
  LET Bare(name) == IF name # <<>> /\ Last(name) = "." /\ name # <<".", ".">> THEN Front(name) ELSE name
  IN Resolved([k \in DOMAIN path |-> Bare(path[k])])
FilesStayApart ==
  torrent.ok =>
    /\ FileLayoutAccepts(torrent)
    /\ \A k \in DOMAIN torrent.files :
         LET place == OnDisk(torrent.files[k].path) IN
         Len(place) = Len(torrent.files[k].path) /\ place[1] = torrent.name
    /\ \A j, k \in DOMAIN torrent.files :
         j # k => OnDisk(torrent.files[j].path) # OnDisk(torrent.files[k].path)

(* Every tracker that can be used is asked, once.                           *)
EveryTrackerOnce ==
  torrent.ok =>
    LET tiers == IF document.list \in {NoField, OddField} THEN <<>> ELSE FlattenSeq(document.list)
    IN /\ Range(Trackers(torrent)) = {url \in Range(tiers) \cup {document.announce} : Usable(url)}
       /\ IsInjective(Trackers(torrent))

(* A torrent made for a test is of the payload it was made of: it is read,  *)
(* unless there is no payload, the files written are those it names, every  *)
(* piece of them has its hash, and what a seeder serves is the payload.  A  *)
(* byte lost from any file is noticed.                                      *)
MadeTorrentsAreTheirPayload ==
  made # NoField /\ torrent \notin {Refuse("unread"), Refuse("unreadable")} =>
    /\ torrent.ok <=> made.payload # <<>>
    /\ torrent.ok =>
         /\ Matches(torrent, made.disk)
         /\ Range([k \in DOMAIN torrent.files |-> torrent.files[k].path]) = {d.path : d \in Range(made.disk)}
         /\ LoadPayload(made.payload, torrent) = [ok |-> TRUE, bytes |-> made.payload]
         /\ \A k \in DOMAIN made.disk :
              made.disk[k].bytes # <<>> => ~Matches(torrent, [made.disk EXCEPT ![k].bytes = Front(@)])

(* A torrent that is accepted can be laid out on a disk: no file is another *)
(* one's directory.                                                         *)
FilesCanBeMade ==
  torrent.ok =>
    \A j, k \in DOMAIN torrent.files :
      j # k => ~IsPrefix(torrent.files[j].path, torrent.files[k].path)

-----------------------------------------------------------------------------
linkVars == <<link, first, magnet, shared>>

-----------------------------------------------------------------------------
(* Percent encoding.                                                        *)

Codes == [A |-> "&", P |-> "%", B |-> " ", L |-> "+"]
CodeOf(c) == CHOOSE l \in DOMAIN Codes : Codes[l] = c
Escaped(c) == <<"%", CodeOf(c)>>
EncodeWith(value, Unsafe) ==
  FlattenSeq([k \in DOMAIN value |-> IF value[k] \in Unsafe THEN Escaped(value[k]) ELSE <<value[k]>>])

(* _quote leaves what it takes to be readable.                              *)
Quote(value) == EncodeWith(value, {"%", " ", "+"})

(* What a client that escapes everything writes.                            *)
QuoteAll(value) == EncodeWith(value, {"%", " ", "+", "&"})

Unquote(value) ==
  FoldLeft(LAMBDA s, c :
             IF s # <<>> /\ Last(s) = "%" /\ c \in DOMAIN Codes THEN Append(Front(s), Codes[c])
             ELSE Append(s, c),
           <<>>, value)
Plus(value) == [k \in DOMAIN value |-> IF value[k] = "+" THEN " " ELSE value[k]]
RECURSIVE Strip(_)
Strip(s) ==
  IF s # <<>> /\ Head(s) = " " THEN Strip(Tail(s))
  ELSE IF s # <<>> /\ Last(s) = " " THEN Strip(Front(s)) ELSE s

-----------------------------------------------------------------------------
(* Reading.                                                                 *)

RECURSIVE Split(_, _)
Split(s, c) ==
  IF c \notin ToSet(s) THEN <<s>>
  ELSE LET k == CHOOSE j \in DOMAIN s : s[j] = c /\ \A i \in 1 .. j - 1 : s[i] # c
       IN <<SubSeq(s, 1, k - 1)>> \o Split(SubSeq(s, k + 1, Len(s)), c)

(* parse_qsl: pairs, a blank value dropped.                                 *)
Query(l) ==
  LET Pair(part) == [key |-> part[1], value |-> Unquote(Plus(SubSeq(part, 3, Len(part))))]
      Whole(part) == Len(part) > 2 /\ part[2] = "="
  IN [k \in DOMAIN SelectSeq(Split(l, "&"), Whole) |-> Pair(SelectSeq(Split(l, "&"), Whole)[k])]

(* The values of a field, decoded again; of most, blank ones are dropped.   *)
Decoded(l, key) ==
  LET mine == SelectSeq(Query(l), LAMBDA p : p.key = key)
  IN [k \in DOMAIN mine |-> Strip(Unquote(mine[k].value))]
Values(l, key) == SelectSeq(Decoded(l, key), LAMBDA v : v # <<>>)

(* _first_unquoted: the first, even if it is blank.                         *)
FirstUnquoted(l, key) == IF Decoded(l, key) = <<>> THEN <<>> ELSE Decoded(l, key)[1]

Distinct(s) == FoldLeft(LAMBDA t, v : IF v \in ToSet(t) THEN t ELSE Append(t, v), <<>>, s)

NoMagnet(why) == [ok |-> FALSE, why |-> why]
MagnetUri(hash, name, trackers, peers, keywords) ==
  [ok |-> TRUE, hash |-> hash, name |-> name, trackers |-> trackers, peers |-> peers, keywords |-> keywords]

(* _info_hash_from, _decode_btih: a v1 topic is decoded, in hex or base32,  *)
(* and the first that is there decides; a v2 topic alone is not supported.  *)
V1 == {"hex", "base32", "cut"}
FirstTopic(topics) ==
  LET v1 == SelectSeq(topics, LAMBDA t : t.form \in V1)
  IN IF v1 = <<>> THEN NoMagnet(IF \E k \in DOMAIN topics : topics[k].form = "v2" THEN "v2" ELSE "xt")
     ELSE IF v1[1].form = "cut" THEN NoMagnet("cut") ELSE [ok |-> TRUE, hash |-> v1[1].hash]
Topics(l) ==
  LET mine == SelectSeq(Query(l), LAMBDA p : p.key = "xt")
  IN [k \in DOMAIN mine |-> [form |-> mine[k].value[1], hash |-> Last(mine[k].value)]]

(* _urls: anything that has a "://".                                        *)
ReadUrls(values) == Distinct(SelectSeq(values, LAMBDA v : "://" \in ToSet(v)))

(* A port begins after the last colon.                                      *)
ReadAddress(v) ==
  LET k == CHOOSE j \in DOMAIN v : v[j] = ":" /\ \A i \in j + 1 .. Len(v) : v[i] # ":"
  IN [host |-> SubSeq(v, 1, k - 1), port |-> SubSeq(v, k + 1, Len(v))]

(* _peers: a host and a port of digits, isdigit taking more for a digit     *)
(* than int does; 0 is out of range.                                        *)
ReadPeers(values) ==
  LET with == SelectSeq(values, LAMBDA v : ":" \in ToSet(v))
  IN Distinct(SelectSeq([k \in DOMAIN with |-> ReadAddress(with[k])],
                        LAMBDA p : p.host # <<>> /\ p.port = <<"1">>))
ReadFails(values) ==
  \E k \in DOMAIN values :
    ":" \in ToSet(values[k]) /\ ReadAddress(values[k]).host # <<>> /\ ReadAddress(values[k]).port = <<"sup">>

(* parse_magnet.  Web seeds and sources are read as trackers are, the files *)
(* to select as keywords are.                                               *)
ParseLink(l) ==
  LET topic == FirstTopic(Topics(l))
  IN IF ~topic.ok THEN topic
     ELSE IF ReadFails(Values(l, "pe")) THEN NoMagnet("port")
     ELSE MagnetUri(topic.hash, FirstUnquoted(l, "dn"), ReadUrls(Values(l, "tr")),
                    ReadPeers(Values(l, "pe")), Distinct(Values(l, "kt")))

(* magnet_for, and MagnetUri.with_trackers: what the tools make of a hash,  *)
(* and of a link with trackers to add.                                      *)
MagnetFor(hash, trackers, peers) == MagnetUri(hash, <<>>, trackers, peers, <<>>)
WithTrackers(m, urls) ==
  [m EXCEPT !.trackers = FoldLeft(LAMBDA s, u : IF u \in ToSet(s) THEN s ELSE Append(s, u), @, urls)]

-----------------------------------------------------------------------------
(* Writing.                                                                 *)

Part(key, value) == <<key, "=">> \o value
Joined(parts) ==
  FlattenSeq([k \in DOMAIN parts |-> IF k = 1 THEN parts[k] ELSE <<"&">> \o parts[k]])

Parts(m) ==
  (IF m.name = <<>> THEN <<>> ELSE <<Part("dn", Quote(m.name))>>)
  \o [k \in DOMAIN m.trackers |-> Part("tr", Quote(m.trackers[k]))]
  \o [k \in DOMAIN m.peers |-> Part("pe", Quote(m.peers[k].host \o <<":">> \o m.peers[k].port))]
  \o [k \in DOMAIN m.keywords |-> Part("kt", Quote(m.keywords[k]))]

(* Faulty variant: the topic is written last.                               *)
ToUriLast(m) == Joined(Append(Parts(m), Part("xt", <<"hex", m.hash>>)))

(* to_uri: the topic, in hex, and the hints after it.                       *)
ToUri(m) == Joined(<<Part("xt", <<"hex", m.hash>>)>> \o Parts(m))

-----------------------------------------------------------------------------

(* _magnet_from of tools/magnet_check.py: a link with trackers to add, or a *)
(* hash with trackers and peers.                                            *)
More == <<"u", "://", "m">>
MagnetFrom(l) ==
  LET m == ParseLink(l) IN
  {m} \cup (IF m.ok THEN {WithTrackers(m, m.trackers \o <<More, More>>),
                         MagnetFor(m.hash, <<More>>, <<[host |-> <<"a">>, port |-> <<"1">>]>>)} ELSE {})

LinkInit ==
  /\ link \in {Joined([k \in DOMAIN o |-> Part(o[k].key, QuoteAll(o[k].value))]) : o \in Offered}
  /\ first \in MagnetFrom(link) /\ magnet = first /\ shared = 0

(* The link is written again, and read by somebody else.                    *)
Share ==
  /\ magnet.ok /\ shared < 2
  /\ link' = ToUri(magnet) /\ magnet' = ParseLink(link')
  /\ shared' = shared + 1 /\ UNCHANGED first

LinkNext == Share
LinkSpec == LinkInit /\ [][LinkNext]_linkVars

-----------------------------------------------------------------------------
(* Properties.                                                              *)

(* A link that is written again names the same torrent, whatever its hints  *)
(* hold, and is still a link.                                               *)
SameTorrent == first.ok => magnet.ok /\ magnet.hash = first.hash

(* Its hints come back as they were, when no character of them has a        *)
(* meaning in a link.                                                       *)
Readable(v) == ToSet(v) \cap {"&", "%"} = {}
HintsSurvive ==
  LET all == <<first.name>> \o first.trackers \o first.keywords IN
  first.ok /\ (\A k \in DOMAIN all : Readable(all[k])) => magnet = first

(* What test_a_link_round_trips and the keywords' comment expect: a link    *)
(* that is written again says what it said.                                 *)
LinkRoundTrips == first.ok => magnet = first

(* What the module's own comment promises: a hint that does not parse is    *)
(* dropped, and does not fail the link.                                     *)
HintsNeverRefuse == first.ok \/ first.why # "port"

(* ... and, of several topics, the first v1 hash that can be used is taken. *)
UsableTopicIsUsed ==
  (\E k \in DOMAIN Topics(link) : Topics(link)[k].form \in {"hex", "base32"}) => first.ok \/ first.why = "port"
=============================================================================
