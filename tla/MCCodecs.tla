------------------------------ MODULE MCCodecs ------------------------------
(***************************************************************************)
(* Instances for TLC of what the program reads and writes: peer frames,     *)
(* torrent files, links, replies, and the ranges of pieces, blocks and      *)
(* files.                                                                   *)
(***************************************************************************)
EXTENDS Integers, Sequences, FiniteSets, SequencesExt, TLC

CONSTANTS Explored, Writes, Strange, LinkFields, Documents, Foreign, Lists, NoField, OddField, Missing,
  Odd

VARIABLES part, role, wireOurs, theirs, opened, bodies, pipe, buffer, need, inBody, got, counted,
  ended, files, piece, disk, writing, have, bitsOurs, field, counts, doc, hurt, link, first, magnet,
  shared, document, torrent, made, meant, heard, taken, geometry, held, fresh, standing, ask, verdict,
  shown

wireVars == <<role, wireOurs, theirs, opened, bodies, pipe, buffer, need, inBody, got, counted,
  ended>>
Wire == INSTANCE WireCodec WITH
  Bits <- 2, Width <- 2, PieceCount <- 3, MaxBlock <- 5, MaxFrame <- 11, MaxWrites <- 2,
  Reads <- {1, 4}, ours <- wireOurs

layoutVars == <<files, piece, disk, writing, have>>
Layout == INSTANCE Layout WITH
  Lengths <- {0, 1, 2, 3}, MaxFiles <- 2, MaxTotal <- 4, PieceLengths <- {2}

bitsVars == <<bitsOurs, field, counts>>

bencVars == <<doc, hurt>>
Benc == INSTANCE Bencode WITH
  Letters <- {"a", "b"}, Numbers <- {10}, InfoKey <- <<"b">>, MaxDepth <- 2, MaxLength <- 20,
  Tails <- {<<>>, <<"e">>, <<"1", ":">>}

linkVars == <<link, first, magnet, shared>>

infoVars == <<document, torrent, made>>
Info == INSTANCE Metainfo WITH
  Offered <- LinkFields, MaxName <- 4, MaxPath <- 7, MaxPayload <- 5

replyVars == <<meant, heard, taken>>
Reply == INSTANCE Replies WITH
  Base <- 2, MaxPeers <- 2, MaxNodes <- 1, MaxAccepted <- 2, MaxId <- 2, MaxHashes <- 2,
  DefaultInterval <- 9

blocksVars == <<geometry, held, fresh, standing, ask, verdict, shown>>
Maps == INSTANCE PieceMaps WITH
  PieceCount <- 3, BitsPerByte <- 2, Neighbours <- {"n1", "n2"}, MaxBytes <- 3, Unsent <- Missing,
  MaxTotal <- 6, MaxPiece <- 4, BlockSize <- 2, MaxBlockSize <- 3, QueueLimit <- 1, MaxNumber <- 4,
  ours <- bitsOurs

ASSUME /\ Layout!LayoutAssumption

-----------------------------------------------------------------------------
SumInit ==
  /\ part \in Explored
  /\ Wire!CodecInit /\ (part # "wire" => role = "dialled")
  /\ Layout!LayoutInit /\ (part # "layout" => files = <<1>>)
  /\ Maps!BitsInit
  /\ IF part = "benc" THEN Benc!BencodeInit
     ELSE doc = <<>> /\ hurt = FALSE
  /\ IF part = "link" THEN Info!LinkInit
     ELSE link = <<>> /\ first = 0 /\ magnet = 0 /\ shared = 0
  /\ IF part = "info" THEN Info!MetainfoInit
     ELSE document = 0 /\ torrent = 0 /\ made = 0
  /\ Reply!RepliesInit
  /\ IF part = "blocks" THEN Maps!BlocksInit
     ELSE geometry = 0 /\ held = 0 /\ fresh = 0 /\ standing = 0 /\ ask = 0 /\ verdict = 0 /\ shown = 0

(* Every component but the one explored stays as it is.                      *)
Rest ==
  /\ part' = part
  /\ part # "wire" => UNCHANGED wireVars
  /\ part # "layout" => UNCHANGED layoutVars
  /\ part # "bits" => UNCHANGED bitsVars
  /\ part # "benc" => UNCHANGED bencVars
  /\ part # "link" => UNCHANGED linkVars
  /\ part # "info" => UNCHANGED infoVars
  /\ part # "reply" => UNCHANGED replyVars
  /\ part # "blocks" => UNCHANGED blocksVars

SumNext ==
  \/ part = "wire" /\ Wire!CodecNext /\ Rest
  \/ part = "layout" /\ Layout!LayoutNext /\ Rest
  \/ part = "bits" /\ Maps!BitsNext /\ Rest
  \/ part = "benc" /\ Benc!BencodeNext /\ Rest
  \/ part = "link" /\ Info!LinkNext /\ Rest
  \/ part = "info" /\ Info!MetainfoNext /\ Rest
  \/ part = "reply" /\ Reply!RepliesNext /\ Rest
  \/ part = "blocks" /\ Maps!BlocksNext /\ Rest

sumVars == <<part, wireVars, layoutVars, bitsVars, bencVars, linkVars, infoVars, replyVars,
  blocksVars>>
(* A message of each shape, the largest block among them; bitfields of two  *)
(* bits a byte.                                                             *)
Say(kind, args, data) == [kind |-> kind, args |-> args, data |-> data]
Said(block) ==
  {Say("keep_alive", <<>>, <<>>), Say("unchoke", <<>>, <<>>), Say("have", <<2>>, <<>>),
   Say("request", <<1, 5, block>>, <<>>), Say("piece", <<1, 5>>, [k \in 1 .. block |-> k % 4]),
   Say("port", <<3>>, <<>>), Say("extended", <<0>>, <<2, 1>>)} \cup
  {Say("bitfield", <<>>, bytes) : bytes \in {<<0, 0>>, <<1, 0>>, <<2, 2>>, <<3, 2>>}}

MCWrites == Said(5)

(* What another client may get wrong: sizes, ids, values, spare bits.       *)
MCStrange ==
  {<<"choke", 1>>, <<"request", 0, 0, 0, 0, 0, 0>>, <<"piece", 0, 1, 0, 1>>,
   <<"bitfield">>, <<"bitfield", 3, 3, 1>>, <<"extended">>, <<"suggest", 1>>,
   <<"piece", 0, 1, 0, 1, 3, 3, 3, 3, 3, 3, 3>>}


Field(key, value) == [key |-> key, value |-> value]
Topic(form, hash) == Field("xt", <<form, hash>>)
Values2 == SeqOf({"a", "&", "%", " ", "+", "A"}, 2) \ {<<>>}
UrlValues == {<<"u", "://">> \o v : v \in Values2 \cup {<<"&", "xt", "=", "hex", "h2">>, <<"&", "pe", "=", "a", ":", "1">>}}
             \cup {<<"u">>}
PeerValues == {<<"a", ":", "1">>, <<"a", ":", "a", ":", "1">>, <<"a", ":", "0">>, <<":", "1">>, <<"a">>}

TopicLists ==
  {<<Topic("hex", "h1")>>, <<Topic("base32", "h1")>>, <<Topic("v2", "h3"), Topic("hex", "h1")>>,
   <<Topic("v2", "h3")>>, <<Field("xt", <<"other">>)>>, <<>>}
HintLists ==
  SeqOf({Field("dn", v) : v \in Values2}, 1) \cup
  {<<Field("dn", v), Field("dn", <<"a">>)>> : v \in Values2} \cup SeqOf({Field("kt", v) : v \in Values2}, 1) \cup
  {<<Field("tr", u), Field("pe", p)>> : u \in UrlValues, p \in PeerValues} \cup
  {<<Field("tr", u), Field("tr", v)>> : u, v \in UrlValues}

MCOffered == {t \o h : t \in TopicLists, h \in HintLists}

Plain == <<"a">>
InfoOf(fs, len, size, hashes) ==
  [name |-> Plain, files |-> fs, length |-> len, piece |-> size, hashes |-> [k \in 1 .. hashes |-> k],
   ragged |-> FALSE, private |-> NoField]
File(path, length) == [path |-> path, length |-> length]
NoTrackers == [announce |-> NoField, list |-> NoField]
With(info, trackers) == [info |-> info, announce |-> trackers.announce, list |-> trackers.list]

(* One to three files of some sizes, pieces of some sizes, hashes enough or *)
(* not, and both forms or neither.                                          *)
FileLists == UNION {[1 .. n -> {-1, 0, 1, 3}] : n \in 1 .. 3}
Geometries ==
  {InfoOf([k \in DOMAIN l |-> File(<<[j \in 1 .. k |-> "a"] \o <<"a", "A">>>>, l[k])], NoField, p, h) :
     l \in FileLists, p \in {-1, 0, 2, 3}, h \in 0 .. 4} \cup
  {InfoOf(NoField, l, p, h) : l \in {-1, 0, 3, 4}, p \in 0 .. 3, h \in 0 .. 4} \cup
  {InfoOf(<<>>, NoField, 2, 1), InfoOf(<<File(<<Plain>>, 1)>>, 1, 2, 1), InfoOf(NoField, NoField, 2, 1),
   [InfoOf(NoField, 3, 2, 2) EXCEPT !.ragged = TRUE], [InfoOf(NoField, 3, 2, 2) EXCEPT !.private = OddField]}

(* Every short name, in one place of a path, and every pair of short paths. *)
Names ==
  SeqOf({"a", "A", ".", "/", ":", " ", "ctl", "c3", "a9", "e9"}, 2) \cup
  {<<"a", "a", "a">>, <<"a", "a", "a", ".", "A">>, <<"e9", "e9", "a">>, <<"c3", "a9", "c3", "a9">>,
   <<"c3", "a9", "a", "a", "a">>}
Paths == {<<n>> : n \in Names} \cup {<<Plain, n>> : n \in Names} \cup {<<>>}
Pathed ==
  {InfoOf(<<File(p, 1), File(q, 1)>>, NoField, 2, 1) : p \in Paths, q \in {<<Plain>>, <<Plain, Plain>>, <<<<"A">>>>, <<<<"c3", "a9">>>>}}
  \cup {[InfoOf(NoField, 1, 2, 1) EXCEPT !.name = n] : n \in Names}

Urls == {[scheme |-> s, host |-> h] : s \in {"http", "wss"}, h \in {"", "x", "y"}} \cup {OddField}
Tiers == {NoField, OddField} \cup SeqOf(SeqOf(Urls, 1) \cup {<<u, v>> : u, v \in {[scheme |-> "http", host |-> h] : h \in {"x", "y"}}}, 2)

MCDocuments ==
  {With(i, NoTrackers) : i \in Geometries \cup Pathed} \cup
  {With(InfoOf(NoField, 1, 2, 1), [announce |-> u, list |-> l]) : u \in Urls \cup {NoField}, l \in Tiers}

(* Every string of bytes up to some length; up to three addresses.          *)
Bytes(n) == SeqOf({0, 1}, n)
Blobs == Bytes(9)
Hosts == {<<0>>, <<1>>}

Entries == {Odd} \cup {[ip |-> h, port |-> p] : h \in {Missing, <<>>, <<1>>}, p \in {Missing, Odd, 0, 1, 4}}
Peers ==
  {Missing, Odd} \cup {[form |-> "compact", list |-> b] : b \in Blobs}
                 \cup {[form |-> "list", list |-> e] : e \in SeqOf(Entries, 3)}
Announce(peers, peers6) ==
  [failure |-> FALSE, interval |-> 3, least |-> 1, complete |-> Missing, peers |-> peers, peers6 |-> peers6]
Fields ==
  {[failure |-> f, interval |-> i, least |-> l, complete |-> c, peers |-> Missing, peers6 |-> Missing] :
     f \in BOOLEAN, i \in {Missing, Odd, -1, 3}, l \in {Missing, Odd, 0, 1}, c \in {Missing, Odd, 1}}

Http ==
  Fields \cup {Announce(p, s) : p \in Peers, s \in {Missing, Odd, <<0, 0, 0, 0, 1, 0, 0, 1>>}}
         \cup {Announce([form |-> "compact", list |-> <<1, 0, 1>>], s) : s \in Blobs}
Counters == {[torrent |-> t, complete |-> c, downloaded |-> d] : t \in {"t", "u"}, c \in {Missing, Odd, 1}, d \in {Missing, 2}}
Scrapes == {[failure |-> f, files |-> s] : f \in BOOLEAN, s \in {Missing, Odd} \cup {{c, Odd} : c \in Counters} \cup {{c, d} : c, d \in Counters}}

(* Every header, cut anywhere; the answers that are whole, with every list. *)
Cut(s) == {SubSeq(s, 1, n) : n \in 0 .. Len(s)}
Headers(rest) == UNION {Cut(<<a, t>> \o rest) : a \in 0 .. 4, t \in 0 .. 1}
Udps == Headers(<<0, 1, 2>>) \cup {<<1, 1, i, 1, 2>> \o b : i \in {0, 3}, b \in Blobs}
UdpScrapes ==
  {[raw |-> r, asked |-> k] : k \in {<<"t">>, <<"t", "u">>},
     r \in Headers(<<5, 9, 3, 6, 8, 2, 7>>) \cup {<<2, 1, 5, 9, 3, 6, 8, 2, 7, 7, 7>>}}

Bodies ==
  {Missing, Odd} \cup {[id |-> i, nodes |-> n, values |-> v, target |-> Missing, info |-> a,
                         port |-> a, implied |-> a, token |-> Missing] :
     a \in {Missing, Odd, 0}, i \in {Missing, Odd, <<1, 1>>, <<0>>},
     n \in {Missing, Odd, <<>>, <<0>>, <<1, 0, 0, 0, 1, 1, 0, 1>>},
     v \in {Missing, Odd, <<Odd, <<0, 0, 1>>, <<1>>, <<0, 0, 1>>>>}}
Kinds == {"q", "r", "e", Missing}
Packets ==
  {[long |-> l, tid |-> t, kind |-> k, method |-> m, body |-> b, code |-> c] :
     l \in BOOLEAN, t \in {Missing, "empty", "own", "long"}, k \in Kinds, m \in {Missing, "ping"},
     b \in {x \in Bodies : x \in {Missing, Odd} \/ (x.values = Missing /\ x.nodes = Missing /\ x.port = 0)},
     c \in {Missing, 201}} \cup
  {[long |-> FALSE, tid |-> "own", kind |-> k, method |-> "ping", body |-> b, code |-> 201] : k \in Kinds, b \in Bodies}
Handshakes ==
  {Odd} \cup {[names |-> n, port |-> p, size |-> s, reqq |-> s] :
     n \in {Missing, Odd} \cup SUBSET {[name |-> x, id |-> i] : x \in {"", "pex"}, i \in {Odd, 0, 1, 3}},
     p \in {Missing, Odd, 0, 1, 4}, s \in {Missing, Odd, 0, 1}}
Exchange(a, six, d, f) ==
  [added |-> a, added6 |-> six, dropped |-> d, dropped6 |-> Missing, flags |-> f, flags6 |-> Missing]
Sixes == {Missing, Odd, <<1>>} \cup {b \in Bytes(8) : Len(b) \in {4, 8} /\ b[1] = 0 /\ b[Len(b)] = 1}
Exchanges ==
  {Exchange(a, <<0, 1, 0, 1>>, d, Missing) : a \in {Missing, Odd} \cup Blobs, d \in {Missing, Odd, <<1, 0, 1>>}} \cup
  {Exchange(a, s, Missing, f) : a \in {Missing, Odd, <<1, 0, 1>>, <<1, 0, 1, 0, 1, 1>>}, s \in Sixes, f \in {Missing, Odd}}

MCForeign ==
  [kind \in {"http", "scrape", "connect", "udp", "udpscrape", "nodes", "values", "krpc", "pex", "handshake"} |->
     CASE kind = "http" -> Http
       [] kind = "scrape" -> Scrapes
       [] kind = "connect" -> Headers(<<7>>)
       [] kind = "udp" -> Udps
       [] kind = "udpscrape" -> UdpScrapes
       [] kind = "nodes" -> Blobs \cup {b \o b \o b : b \in [1 .. 4 -> {0, 1}]}
       [] kind = "values" -> {Missing, Odd} \cup SeqOf({Odd, <<1, 0>>} \cup [1 .. 3 -> {0, 1}], 3)
       [] kind = "krpc" -> Packets
       [] kind = "pex" -> Exchanges
       [] kind = "handshake" -> Handshakes]

MCLists == SeqOf({[host |-> h, port |-> p] : h \in Hosts \cup {<<0, 1>>}, p \in 1 .. 2}, 2) \ {<<>>}

SumSpec == SumInit /\ [][SumNext]_sumVars

-----------------------------------------------------------------------------
(* The stream of bytes from a peer implements a channel of its frames,       *)
(* however the network cuts it: each whole, once and in order.               *)
StreamIsChannel == Wire!StreamIsChannel

(* Reading and writing piece ranges over the files implements one stream of  *)
(* bytes.                                                                    *)
LayoutIsStream == Layout!LayoutIsStream

(* What this program writes it can read, as what it meant: frames, bitfields *)
(* and queries; what is read from others is taken for what it is, and a      *)
(* count for its own torrent.                                                *)
MessagesMeanOneThing ==
  /\ part = "wire" => Wire!CodecTypeOK /\ Wire!OwnFramesAreRead /\ Wire!PiecesAreAsAnnounced
  /\ part = "reply" => Reply!AcceptedForWhatItIs /\ Reply!FormsAgree
                       /\ Reply!OwnMessagesAreRead /\ Reply!CountsAreTheTorrents

(* A torrent file or link that is accepted names one torrent: a value has    *)
(* one spelling, so one hash; pieces and files cover the same bytes, apart   *)
(* from each other on disk; and a link written again is the same torrent.    *)
TorrentsAreWhole ==
  /\ part = "benc" => Benc!OneSpelling /\ Benc!RangesAreValues /\ Benc!HashIsTheMakers
  /\ part = "info" => Info!TorrentIsWhole /\ Info!FilesStayApart /\ Info!EveryTrackerOnce
                       /\ Info!MadeTorrentsAreTheirPayload
  /\ part = "link" => Info!SameTorrent /\ Info!HintsSurvive

(* Blocks cover their piece, what is planned another client serves, the bits *)
(* of a field are its pieces, the rarest piece comes first, and every view   *)
(* of the layout has the same sizes.                                         *)
BlocksAreThePiece ==
  /\ part = "blocks" => Maps!BlocksAreThePiece /\ Maps!PlannedIsServed /\ Maps!MapIsTheDownload
  /\ part = "bits" => Maps!BitsTypeOK /\ Maps!CountIsPieces /\ Maps!RarestComesFirst
  /\ part = "layout" => Layout!LayoutTypeOK /\ Layout!ViewsAgree /\ Layout!ReadsAreTheStream
=============================================================================
