------------------------------- MODULE Replies --------------------------------
(***************************************************************************)
(* What this program and others tell each other about addresses, and what   *)
(* is made of it: announces and scrapes over HTTP and UDP                   *)
(* (tracker/base.py, http_tracker.py, udp_tracker.py, and the trackers of   *)
(* the program's own tests, tools/mock_tracker.py and mock_udp_tracker.py), *)
(* the messages of the DHT (dht/krpc.py), of peer exchange                  *)
(* (discovery/pex.py) and the extension handshake (peer/extension.py).      *)
(*                                                                         *)
(* A byte is one of Base numbers; an IPv4 address has one byte, an IPv6     *)
(* address two, a port two.  A number of four or eight bytes in a UDP       *)
(* packet is one element of it.  A URL is characters, of which the name of  *)
(* a parameter is one.  A field of a bencoded dictionary is Missing, Odd    *)
(* (of another type) or a value.                                            *)
(***************************************************************************)
EXTENDS Integers, Sequences, FiniteSets, SequencesExt

CONSTANTS
  Foreign,      \* for each kind of message what other programs may send
  Lists,        \* lists of addresses this program may have to send
  Base,         \* values of a byte
  MaxPeers,     \* DEFAULT_MAX_PEERS and MAX_PEERS_RETURNED
  MaxNodes,     \* MAX_NODES_RETURNED
  MaxAccepted,  \* PEX_MAX_ACCEPTED_PER_MESSAGE
  MaxId,        \* MAX_EXTENSION_ID
  MaxHashes,    \* MAX_SCRAPE_HASHES
  DefaultInterval,
  Missing, Odd

VARIABLES
  meant,  \* what this program meant to say, Missing when the message is foreign
  heard,  \* the message that arrived
  taken   \* what was made of it

repliesVars == <<meant, heard, taken>>

Unread == [ok |-> FALSE, why |-> "unread"]
Refused(why) == [ok |-> FALSE, why |-> why]
Took(peers) == [ok |-> TRUE, peers |-> peers]

Top == Base * Base - 1  \* MAX_PORT
Listening(port) == port \in 1 .. Top
FirstOf(n, s) == SubSeq(s, 1, IF Len(s) < n THEN Len(s) ELSE n)
Distinct(s) == FoldLeft(LAMBDA t, x : IF x \in Range(t) THEN t ELSE Append(t, x), <<>>, s)

-----------------------------------------------------------------------------
(* Addresses, packed.  A name, which is not an address, is longer.          *)

V4 == 1
V6 == 2
Address(host, port) == [host |-> host, port |-> port]
Family(host) == IF Len(host) \in {V4, V6} THEN Len(host) ELSE 0

Compact(a) == a.host \o <<a.port \div Base, a.port % Base>>
CompactList(s) == FlattenSeq([k \in DOMAIN s |-> Compact(s[k])])

Number(bytes) == FoldLeft(LAMBDA n, b : Base * n + b, 0, bytes)
Uncompact(record) ==
  Address(SubSeq(record, 1, Len(record) - 2), Number(SubSeq(record, Len(record) - 1, Len(record))))
Records(blob, size) == [k \in 1 .. Len(blob) \div size |-> SubSeq(blob, (k - 1) * size + 1, k * size)]

(* A list that is not a whole number of records is refused; who listens at  *)
(* no port is left out.                                                     *)
ParseCompact(blob, family, cap) ==
  IF Len(blob) % (family + 2) # 0 THEN Refused("length")
  ELSE LET all == [k \in DOMAIN Records(blob, family + 2) |-> Uncompact(Records(blob, family + 2)[k])]
       IN Took(FirstOf(cap, SelectSeq(all, LAMBDA a : a.port # 0)))
ParseCompactPeersIpv4(blob, cap) == ParseCompact(blob, V4, cap)
ParseCompactPeersIpv6(blob, cap) == ParseCompact(blob, V6, cap)

-----------------------------------------------------------------------------
(* Announces over HTTP: the answer.                                         *)

(* _as_int, strict: another type refuses the whole reply.                   *)
IntOr(x, default) == IF x = Missing THEN default ELSE x

Entered(e) == e # Odd /\ Missing \notin {e.ip, e.port} /\ e.ip # <<>> /\ Listening(e.port)

(* parse_dictionary_peers: entries are looked at until the cap is reached.  *)
Dictionary(entries, cap) ==
  FoldLeft(LAMBDA s, e :
             IF ~s.ok \/ Len(s.peers) >= cap \/ e = Odd THEN s
             ELSE IF e.port = Odd THEN Refused("port")
             ELSE IF Entered(e) THEN Took(Append(s.peers, Address(e.ip, e.port)))
             ELSE s,
           Took(<<>>), entries)

(* parse_peers: both families, one cap.                                     *)
HttpPeers(d) ==
  LET four == CASE d.peers = Missing -> Took(<<>>)
                [] d.peers = Odd -> Refused("peers")
                [] OTHER -> IF d.peers.form = "compact" THEN ParseCompactPeersIpv4(d.peers.list, MaxPeers)
                                                        ELSE Dictionary(d.peers.list, MaxPeers)
      six == CASE d.peers6 = Missing -> Took(<<>>)
               [] d.peers6 = Odd -> Refused("peers6")
               [] OTHER -> ParseCompactPeersIpv6(d.peers6, MaxPeers)
  IN IF four.ok /\ six.ok THEN Took(FirstOf(MaxPeers, four.peers \o six.peers)) ELSE Refused("peers")

(* parse_announce_response                                                  *)
HttpAnnounce(d) ==
  IF d.failure \/ Odd \in {d.interval, d.least} \/ ~HttpPeers(d).ok THEN Refused("announce")
  ELSE [ok |-> TRUE, peers |-> HttpPeers(d).peers,
        interval |-> IF IntOr(d.interval, 0) <= 0 THEN DefaultInterval ELSE d.interval,
        least |-> IF IntOr(d.least, 0) <= 0 THEN Missing ELSE d.least,
        complete |-> IF d.complete = Odd THEN Missing ELSE d.complete]

(* parse_scrape_response: entries that are not entries are skipped, a       *)
(* counter that is not a number refuses them all.                           *)
HttpScrape(d) ==
  IF d.failure \/ d.files \in {Missing, Odd} THEN Refused("files")
  ELSE LET entries == {f \in d.files : f # Odd} IN
       IF \E f \in entries : Odd \in {f.complete, f.downloaded} THEN Refused("counter")
       ELSE [ok |-> TRUE,
             counts |-> {[torrent |-> f.torrent, complete |-> IntOr(f.complete, 0), downloaded |-> f.downloaded] :
                           f \in entries}]

(* What the mock tracker answers, in either form.                           *)
AnnounceDocument(list, compact) ==
  [failure |-> FALSE, interval |-> 3, least |-> Missing, complete |-> Len(list), peers6 |-> Missing,
   peers |-> IF compact THEN [form |-> "compact", list |-> CompactList(list)]
             ELSE [form |-> "list", list |-> [k \in DOMAIN list |-> [ip |-> list[k].host, port |-> list[k].port]]]]

-----------------------------------------------------------------------------
(* Announces over HTTP: the question.                                       *)

HashSize == 2  \* INFO_HASH_SIZE

Digits == <<"0", "1", "2", "3", "4", "5", "6", "7", "8", "9">>
Decimal(n) == <<Digits[n + 1]>>
IsDecimal(s) == Len(s) = 1 /\ s[1] \in Range(Digits)
DecimalValue(s) == (CHOOSE k \in DOMAIN Digits : Digits[k] = s[1]) - 1

Codes == [A |-> "&", E |-> "=", P |-> "%", Q |-> "?", S |-> "/"]
Quote(s, safe) ==
  LET CodeOf(c) == CHOOSE l \in DOMAIN Codes : Codes[l] = c IN
  FlattenSeq([k \in DOMAIN s |-> IF s[k] \in Range(Codes) \ safe THEN <<"%", CodeOf(s[k])>> ELSE <<s[k]>>])
QuoteFromBytes(s) == Quote(s, {"/"})
UnquoteToBytes(s) ==
  FoldLeft(LAMBDA t, c : IF t # <<>> /\ Last(t) = "%" /\ c \in DOMAIN Codes
                         THEN Append(Front(t), Codes[c]) ELSE Append(t, c), <<>>, s)

(* AnnounceRequest.to_query                                                 *)
ToQuery(r) ==
  <<<<"info_hash", QuoteFromBytes(r.hash)>>, <<"peer_id", QuoteFromBytes(r.id)>>,
    <<"port", Decimal(r.port)>>, <<"uploaded", Decimal(r.uploaded)>>,
    <<"downloaded", Decimal(r.downloaded)>>, <<"left", Decimal(r.left)>>,
    <<"compact", Decimal(IF r.compact THEN 1 ELSE 0)>>, <<"numwant", Decimal(r.numwant)>>>>
  \o (IF r.event = Missing THEN <<>> ELSE <<<<"event", <<r.event>>>>>>)
  \o (IF r.key = <<>> THEN <<>> ELSE <<<<"key", Quote(r.key, {})>>>>)
  \o (IF r.tracker = <<>> THEN <<>> ELSE <<<<"trackerid", QuoteFromBytes(r.tracker)>>>>)

Joined(params) ==
  FlattenSeq([k \in DOMAIN params |->
    (IF k = 1 THEN <<>> ELSE <<"&">>) \o <<params[k][1], "=">> \o params[k][2]])
Separator(url) == <<IF "?" \in Range(url) THEN "&" ELSE "?">>

(* append_query: a tracker's address may have a query of its own.           *)
AppendQuery(url, params) == url \o Separator(url) \o Joined(params)

(* _scrape_url                                                              *)
ScrapeUrl(url, hashes) ==
  IF "/announce" \notin Range(url) THEN Refused("no scrape")
  ELSE LET base == [k \in DOMAIN url |-> IF url[k] = "/announce" THEN "/scrape" ELSE url[k]]
       IN [ok |-> TRUE,
           url |-> IF hashes = <<>> THEN base
                   ELSE AppendQuery(base, [k \in DOMAIN hashes |-> <<"info_hash", QuoteFromBytes(hashes[k])>>])]

(* MockTracker, _parse_query: pairs, their values as they came.             *)
ParseQuery(url) ==
  LET asks == SelectInSeq(url, LAMBDA c : c = "?")
      text == SubSeq(url, asks + 1, Len(url))
      ends == {0, Len(text) + 1} \cup {k \in DOMAIN text : text[k] = "&"}
      Pair(k) == LET end == CHOOSE e \in ends : e > k /\ \A f \in ends : f > k => f >= e
                 IN SubSeq(text, k + 1, end - 1)
      starts == SelectSeq([k \in 1 .. Len(text) + 1 |-> k - 1], LAMBDA k : k \in ends)
      pairs == SelectSeq([k \in DOMAIN starts |-> Pair(starts[k])], LAMBDA p : p # <<>>)
  IN IF asks = 0 THEN <<>> ELSE [k \in DOMAIN pairs |-> <<pairs[k][1], SubSeq(pairs[k], 3, Len(pairs[k]))>>]

(* The value of a parameter is the last that is given.                      *)
Parameter(query, name) ==
  LET mine == SelectSeq(query, LAMBDA p : p[1] = name) IN IF mine = <<>> THEN Missing ELSE Last(mine)[2]
OptionalInt(query, name, default) ==
  LET v == Parameter(query, name)
  IN IF v = Missing THEN default ELSE IF IsDecimal(v) THEN DecimalValue(v) ELSE default
HasBytes(v) == v # Missing /\ Len(UnquoteToBytes(v)) = HashSize
HasPort(v) == v # Missing /\ IsDecimal(v) /\ Listening(DecimalValue(v))

(* MockTracker.handle_announce: what it takes the request to be.            *)
HandleAnnounce(url) ==
  LET query == ParseQuery(url)
      Count(name, default) == OptionalInt(query, name, default)
      wanted == Count("numwant", 50)
      event == Parameter(query, "event")
  IN IF ~HasBytes(Parameter(query, "info_hash")) \/ ~HasBytes(Parameter(query, "peer_id"))
        \/ ~HasPort(Parameter(query, "port")) THEN Refused("announce")
     ELSE [ok |-> TRUE, hash |-> UnquoteToBytes(Parameter(query, "info_hash")),
           id |-> UnquoteToBytes(Parameter(query, "peer_id")), port |-> Count("port", 0),
           uploaded |-> Count("uploaded", 0), downloaded |-> Count("downloaded", 0), left |-> Count("left", 0),
           event |-> IF event = Missing THEN Missing ELSE event[1], compact |-> Count("compact", 1) # 0,
           numwant |-> IF wanted < MaxPeers THEN wanted ELSE MaxPeers]

(* MockTracker.handle_scrape: what is not a hash is skipped.                *)
HandleScrape(url) ==
  LET mine == SelectSeq(ParseQuery(url), LAMBDA p : p[1] = "info_hash" /\ HasBytes(p[2]))
  IN [ok |-> TRUE, hashes |-> [k \in DOMAIN mine |-> UnquoteToBytes(mine[k][2])]]

-----------------------------------------------------------------------------
(* UDP: the packets of this program, and how the mock tracker reads them.   *)

Magic == 9  \* PROTOCOL_ID
Actions == [connect |-> 0, announce |-> 1, scrape |-> 2, error |-> 3]
EventCode(event) ==
  CASE event = "completed" -> 1 [] event = "started" -> 2 [] event = "stopped" -> 3 [] OTHER -> 0

BuildConnectRequest(tid) == <<Magic, Actions.connect, tid>>
BuildAnnounceRequest(id, tid, r) ==
  <<id, Actions.announce, tid, r.hash, r.id, r.downloaded, r.left, r.uploaded, EventCode(r.event), 0, 1,
    IF r.numwant < -1 THEN -1 ELSE r.numwant, r.port>>
BuildScrapeRequest(id, tid, hashes) ==
  IF hashes = <<>> \/ Len(hashes) > MaxHashes THEN Refused("hashes")
  ELSE [ok |-> TRUE, packet |-> <<id, Actions.scrape, tid>> \o hashes]

(* MockUdpTracker._handle, of a packet with a header.                       *)
HandlePacket(raw) ==
  CASE raw[2] = Actions.connect ->
         IF raw[1] # Magic THEN Refused("ignored") ELSE [ok |-> TRUE, action |-> "connect", tid |-> raw[3]]
    [] raw[2] = Actions.announce ->
         IF Len(raw) # 13 THEN Refused("length")
         ELSE [ok |-> TRUE, action |-> "announce", tid |-> raw[3], hash |-> raw[4], id |-> raw[5],
               downloaded |-> raw[6], left |-> raw[7], uploaded |-> raw[8], code |-> raw[9],
               numwant |-> raw[12], port |-> raw[13]]
    [] raw[2] = Actions.scrape ->
         IF Len(raw) = 3 THEN Refused("length")
         ELSE [ok |-> TRUE, action |-> "scrape", tid |-> raw[3], hashes |-> SubSeq(raw, 4, Len(raw))]
    [] OTHER -> Refused("action")

AnnouncePacket(tid, list) == <<Actions.announce, tid, 3, 0, Len(list)>> \o CompactList(list)

(* _header: long enough for a header, to what was asked, no refusal, and    *)
(* long enough for the answer that was asked for, whose action it has.      *)
HeaderFits(raw, tid, least, action) ==
  /\ Len(raw) >= 2
  /\ raw[2] = tid /\ raw[1] # Actions.error /\ Len(raw) >= least
  /\ raw[1] = action

ParseConnect(raw, tid) ==
  IF HeaderFits(raw, tid, 3, Actions.connect) THEN [ok |-> TRUE, id |-> raw[3]] ELSE Refused("connect")

(* parse_announce_response                                                  *)
ParseUdpPeers(blob, cap) == ParseCompactPeersIpv4(blob, cap)
UdpAnnounce(raw, tid) ==
  LET read == ParseUdpPeers(SubSeq(raw, 6, Len(raw)), MaxPeers) IN
  IF ~HeaderFits(raw, tid, 5, Actions.announce) \/ ~read.ok THEN Refused("announce")
  ELSE [ok |-> TRUE, peers |-> read.peers, interval |-> IF raw[3] <= 0 THEN DefaultInterval ELSE raw[3],
        complete |-> raw[5], incomplete |-> raw[4]]

(* parse_scrape_response: counters are told apart by their order alone.     *)
UdpScrape(raw, tid, hashes) ==
  LET entries == Records(SubSeq(raw, 3, Len(raw)), 3) IN
  IF ~HeaderFits(raw, tid, 2, Actions.scrape) \/ (Len(raw) - 2) % 3 # 0 \/ Len(entries) > Len(hashes)
  THEN Refused("scrape")
  ELSE [ok |-> TRUE,
        counts |-> {[torrent |-> hashes[k], complete |-> entries[k][1], downloaded |-> entries[k][2],
                     incomplete |-> entries[k][3]] : k \in DOMAIN entries}]

-----------------------------------------------------------------------------
(* The DHT.  A node id has one byte.                                        *)

IdSize == 1
NodeInfo(id, host, port) == [id |-> id, host |-> host, port |-> port]

EncodeNodes(nodes) == FlattenSeq([k \in DOMAIN nodes |-> nodes[k].id \o Compact(nodes[k])])
DecodeNodes(blob) ==
  LET size == IdSize + V4 + 2
      Node(record) == LET a == Uncompact(SubSeq(record, IdSize + 1, size))
                      IN NodeInfo(SubSeq(record, 1, IdSize), a.host, a.port)
      all == [k \in DOMAIN Records(blob, size) |-> Node(Records(blob, size)[k])]
  IN IF Len(blob) % size # 0 THEN Refused("length")
     ELSE Took(FirstOf(MaxNodes, SelectSeq(all, LAMBDA n : n.port # 0)))

(* encode_peers and decode_peers: each value is one record; a value that is *)
(* not is skipped, and so is one seen before.                               *)
EncodePeers(peers) == [k \in DOMAIN peers |-> Compact(peers[k])]
DecodePeers(values) ==
  IF values \in {Missing, Odd} THEN Took(<<>>)
  ELSE LET records == SelectSeq(values, LAMBDA v : v # Odd /\ Len(v) = V4 + 2)
           all == [k \in DOMAIN records |-> Uncompact(records[k])]
       IN Took(FirstOf(MaxPeers, Distinct(SelectSeq(all, LAMBDA a : Listening(a.port)))))

(* decode, with _transaction_id, _decode_query, _decode_response and        *)
(* _decode_error: what must be there before the message has a meaning.      *)
DecodePacket(p) ==
  LET Body == CASE p.kind = "q" -> p.method \notin {Missing, Odd} /\ p.body \notin {Missing, Odd}
                                   /\ p.body.id # Missing
                [] p.kind = "r" -> p.body \notin {Missing, Odd} /\ p.body.id # Missing
                [] p.kind = "e" -> p.code \notin {Missing, Odd}
                [] OTHER -> FALSE
  IN IF p.long \/ p.tid \in {Missing, Odd, "empty", "long"} \/ ~Body THEN Refused("packet")
     ELSE [ok |-> TRUE, tid |-> p.tid, kind |-> p.kind]

(* _node_id                                                                 *)
NodeId(body) == body.id # Odd /\ Len(body.id) = IdSize

(* KrpcResponse: the parts a lookup reads.                                  *)
DecodeAnswer(p) ==
  IF ~DecodePacket(p).ok THEN Refused("packet")
  ELSE IF ~NodeId(p.body) THEN Refused("id")
  ELSE IF p.body.nodes \notin {Missing, Odd, <<>>} /\ ~DecodeNodes(p.body.nodes).ok THEN Refused("nodes")
  ELSE [ok |-> TRUE, peers |-> DecodePeers(p.body.values).peers,
        nodes |-> IF p.body.nodes \in {Missing, Odd, <<>>} THEN <<>> ELSE DecodeNodes(p.body.nodes).peers]

(* What this program packs: a query, whose arguments are the method's, an   *)
(* answer or an error, under the transaction of the query.                  *)
Packet(kind) ==
  [long |-> FALSE, tid |-> "own", kind |-> kind, method |-> Missing, body |-> Missing, code |-> Missing]
Arguments ==
  [id |-> <<1>>, target |-> Missing, info |-> Missing, port |-> Missing, implied |-> Missing,
   token |-> Missing, nodes |-> Missing, values |-> Missing]

EncodeQuery(method, arguments) == [Packet("q") EXCEPT !.method = method, !.body = arguments]
EncodePing == EncodeQuery("ping", Arguments)
EncodeFindNode(target) == EncodeQuery("find_node", [Arguments EXCEPT !.target = target])
EncodeGetPeers(info) == EncodeQuery("get_peers", [Arguments EXCEPT !.info = info])
EncodeAnnouncePeer(info, port, implied, token) ==
  EncodeQuery("announce_peer",
    [Arguments EXCEPT !.info = info, !.port = port, !.implied = IF implied THEN 1 ELSE 0, !.token = token])
EncodeResponse(nodes, peers) ==
  [Packet("r") EXCEPT !.body = [Arguments EXCEPT !.nodes = EncodeNodes(nodes), !.values = EncodePeers(peers)]]
EncodeError(code) == [Packet("e") EXCEPT !.code = code]

(* KrpcQuery: an argument of another type counts as absent, but             *)
(* implied_port is asked only whether it is true.                           *)
Asked(p) ==
  LET Plain(x) == IF x = Odd THEN Missing ELSE x IN
  IF ~DecodePacket(p).ok THEN Refused("packet")
  ELSE IF ~NodeId(p.body) THEN Refused("id")
  ELSE [ok |-> TRUE, method |-> p.method, target |-> Plain(p.body.target), info |-> Plain(p.body.info),
        port |-> Plain(p.body.port), implied |-> p.body.implied \notin {Missing, 0},
        token |-> Plain(p.body.token)]

Failed(p) == IF ~DecodePacket(p).ok THEN Refused("packet") ELSE [ok |-> TRUE, code |-> p.code]

-----------------------------------------------------------------------------
(* Peer exchange.  A contact is an address and what was found out about it. *)

Flags(c) == (IF c.seed THEN 2 ELSE 0) + (IF c.reachable THEN 16 ELSE 0)

(* encode_pex: a list for each family that has any, and flags in its order; *)
(* a message of nothing is refused.                                         *)
CanEncodePex(added, dropped) == added # <<>> \/ dropped # <<>>
EncodePex(added, dropped) ==
  LET Of(s, six) == SelectSeq(s, LAMBDA a : (Family(a.host) = V6) = six)
      List(s) == IF s = <<>> THEN Missing ELSE CompactList(s)
      FlagsOf(s) == IF s = <<>> THEN Missing ELSE [k \in DOMAIN s |-> Flags(s[k])]
  IN [added |-> List(Of(added, FALSE)), added6 |-> List(Of(added, TRUE)),
      flags |-> FlagsOf(Of(added, FALSE)), flags6 |-> FlagsOf(Of(added, TRUE)),
      dropped |-> List(Of(dropped, FALSE)), dropped6 |-> List(Of(dropped, TRUE))]

(* _read_records: the size of a record is the family's.                     *)
ReadRecords(list, family) ==
  CASE list = Missing -> Took(<<>>)
    [] list = Odd -> Refused("field")
    [] OTHER ->
         IF Len(list) % (family + 2) # 0 THEN Refused("length")
         ELSE LET all == [k \in DOMAIN Records(list, family + 2) |-> Uncompact(Records(list, family + 2)[k])]
              IN Took(SelectSeq(all, LAMBDA a : Listening(a.port)))
ReadBytes(field) == IF field = Missing THEN <<>> ELSE field

(* decode_pex: past the cap the rest is dropped, and counted.               *)
DecodePex(m) ==
  LET four == ReadRecords(m.added, V4)
      six == ReadRecords(m.added6, V6)
      gone == ReadRecords(m.dropped, V4)
      gone6 == ReadRecords(m.dropped6, V6)
  IN IF ~(four.ok /\ six.ok /\ gone.ok /\ gone6.ok) \/ Odd \in {m.flags, m.flags6} THEN Refused("pex")
     ELSE LET all == four.peers \o six.peers IN
          [ok |-> TRUE, all |-> FirstOf(MaxAccepted, all), dropped |-> gone.peers \o gone6.peers,
           flags |-> ReadBytes(m.flags) \o ReadBytes(m.flags6),
           truncated |-> Len(all) - Len(FirstOf(MaxAccepted, all))]

(* sanitize_incoming: one address of a host, the first.                     *)
Sanitize(addresses) ==
  FoldLeft(LAMBDA s, a : IF a.host \in {b.host : b \in Range(s)} \/ ~Listening(a.port) \/ Family(a.host) = 0
                         THEN s ELSE Append(s, a),
           <<>>, addresses)

-----------------------------------------------------------------------------
(* The extension handshake: the numbers a peer gives to extensions.         *)

(* encode_handshake: a name and a number that can be one, or nothing is     *)
(* sent; what there is to say of the port and the metadata.                 *)
CanEncodeHandshake(ours) == \A n \in ours : n.name # "" /\ n.id \in 1 .. MaxId
EncodeHandshake(ours, port, size) == [names |-> ours, port |-> port, size |-> size, reqq |-> Missing]

(* decode_handshake: what cannot be a number is left out, and a port or a   *)
(* size that cannot be one is none.                                         *)
DecodeHandshake(h) ==
  LET Positive(x) == IF x \notin {Missing, Odd} /\ x > 0 THEN x ELSE Missing IN
  IF h = Odd THEN Refused("handshake")
  ELSE [ok |-> TRUE,
        ids |-> IF h.names \in {Missing, Odd} THEN {}
                ELSE {n \in h.names : n.id # Odd /\ n.id \in 1 .. MaxId /\ n.name # ""},
        port |-> IF h.port \notin {Missing, Odd} /\ Listening(h.port) THEN h.port ELSE Missing,
        size |-> Positive(h.size), reqq |-> Positive(h.reqq)]

-----------------------------------------------------------------------------

RepliesInit == meant = Missing /\ heard = Missing /\ taken = Unread

Hears ==
  /\ \E kind \in DOMAIN Foreign : \E body \in Foreign[kind] : heard' = [kind |-> kind, body |-> body]
  /\ UNCHANGED <<meant, taken>>

Says(what, kind, body) ==
  /\ meant' = what /\ heard' = [kind |-> kind, body |-> body]
  /\ UNCHANGED taken

Node(a) == NodeInfo(<<a.port % Base>>, a.host, a.port)
Contact(a) == [host |-> a.host, port |-> a.port, seed |-> a.port = 1, reachable |-> a.host[1] = 0]

(* What this program packs for another copy of itself, or for its tests.    *)
Sends ==
  \E list \in Lists :
    LET nodes == [k \in DOMAIN list |-> Node(list[k])]
        contacts == [k \in DOMAIN list |-> Contact(list[k])]
    IN \/ CanEncodePex(contacts, list) /\ Says(list, "pex", EncodePex(contacts, list))
       \/ /\ \A a \in Range(list) : Family(a.host) = V4
          /\ \/ Says(nodes, "nodes", EncodeNodes(nodes))
             \/ Says(list, "values", EncodePeers(list))
             \/ Says(nodes, "krpc", EncodeResponse(nodes, list))
             \/ \E compact \in BOOLEAN : Says(list, "http", AnnounceDocument(list, compact))
             \/ Says(list, "udp", AnnouncePacket(1, list))

Offers ==
  \E known \in SUBSET {"", "pex", "metadata"}, port \in {Missing} \cup 0 .. Top + 1, size \in {Missing, 0, 1} :
    \E ids \in [known -> 0 .. MaxId + 1] :
      LET names == {[name |-> n, id |-> ids[n]] : n \in known} IN
      /\ CanEncodeHandshake(names)
      /\ Says([ids |-> names, port |-> port, size |-> size], "handshake", EncodeHandshake(names, port, size))

Asks ==
  \E topic \in {"here", "there"}, port \in 1 .. Top, implied \in BOOLEAN, token \in {"new", "old"} :
    \/ Says([method |-> "ping"], "krpc", EncodePing)
    \/ Says([method |-> "find_node", target |-> topic], "krpc", EncodeFindNode(topic))
    \/ Says([method |-> "get_peers", info |-> topic], "krpc", EncodeGetPeers(topic))
    \/ Says([method |-> "announce_peer", info |-> topic, port |-> port, implied |-> implied, token |-> token],
            "krpc", EncodeAnnouncePeer(topic, port, implied, token))
    \/ Says([code |-> port], "krpc", EncodeError(port))

(* AnnounceRequest: hashes and ids of their size, and a port to listen at.  *)
Characters == {"a", "&", "=", "%", "?", "/"}
Plain ==
  [hash |-> <<"a", "&">>, id |-> <<"%", "=">>, port |-> 1, uploaded |-> 0, downloaded |-> 1, left |-> 2,
   event |-> Missing, compact |-> TRUE, numwant |-> MaxPeers, key |-> <<>>, tracker |-> <<>>]
Requests ==
  {[Plain EXCEPT !.hash = <<x, y>>] : x, y \in Characters} \cup
  {[Plain EXCEPT !.event = e, !.compact = c, !.port = p, !.key = k, !.tracker = t] :
     e \in {Missing, "started", "completed", "stopped"}, c \in BOOLEAN, p \in {1, Top},
     k \in {<<>>, <<"&", "/">>}, t \in {<<>>, <<"=">>}}
Urls == {<<"h", "/announce">>, <<"h", "/announce", "?", "pass", "=", "a">>, <<"h">>}

Announces ==
  \/ Says([action |-> "connect", tid |-> 4], "packet", BuildConnectRequest(4))
  \/ \E r \in Requests :
    \/ \E url \in Urls : Says(r, "query", AppendQuery(url, ToQuery(r)))
    \/ Says([action |-> "announce", tid |-> 4, hash |-> r.hash, id |-> r.id, port |-> r.port,
             uploaded |-> r.uploaded, downloaded |-> r.downloaded, left |-> r.left,
             code |-> EventCode(r.event), numwant |-> r.numwant], "packet", BuildAnnounceRequest(1, 4, r))

(* One hash, two, or more than may be asked for.                            *)
Scrapes ==
  \E n \in 0 .. MaxHashes + 1 : \E hashes \in [1 .. n -> {<<"&", "a">>, <<"=", "%">>, <<"a", "/">>}] :
    \/ \E url \in Urls : /\ ScrapeUrl(url, hashes).ok
                         /\ Says([hashes |-> hashes], "scrape query", ScrapeUrl(url, hashes).url)
    \/ /\ BuildScrapeRequest(1, 4, hashes).ok
       /\ Says([hashes |-> hashes, tid |-> 4, action |-> "scrape"], "packet", BuildScrapeRequest(1, 4, hashes).packet)

Reads(kind, what) ==
  /\ heard # Missing /\ heard.kind = kind /\ taken = Unread
  /\ taken' = what
  /\ UNCHANGED <<meant, heard>>

ReadHttp == Reads("http", HttpAnnounce(heard.body))
ReadScrape == Reads("scrape", HttpScrape(heard.body))
ReadConnect == Reads("connect", ParseConnect(heard.body, 1))
ReadUdp == Reads("udp", UdpAnnounce(heard.body, 1))
ReadUdpScrape == Reads("udpscrape", UdpScrape(heard.body.raw, 1, heard.body.asked))
ReadNodes == Reads("nodes", DecodeNodes(heard.body))
ReadValues == Reads("values", DecodePeers(heard.body))
ReadPacket ==
  Reads("krpc", CASE heard.body.kind = "q" -> Asked(heard.body)
                  [] heard.body.kind = "e" -> Failed(heard.body)
                  [] OTHER -> DecodeAnswer(heard.body))
ReadPex ==
  Reads("pex", IF ~DecodePex(heard.body).ok THEN Refused("pex")
               ELSE [DecodePex(heard.body) EXCEPT !.all = Sanitize(@)])
ReadHandshake == Reads("handshake", DecodeHandshake(heard.body))
ReadQuery == Reads("query", HandleAnnounce(heard.body))
ReadScrapeQuery == Reads("scrape query", HandleScrape(heard.body))
ReadRequest == Reads("packet", HandlePacket(heard.body))

RepliesNext ==
  \/ heard = Missing /\ (Hears \/ Sends \/ Offers \/ Asks \/ Announces \/ Scrapes)
  \/ ReadHttp \/ ReadScrape \/ ReadConnect \/ ReadUdp \/ ReadUdpScrape
  \/ ReadNodes \/ ReadValues \/ ReadPacket \/ ReadPex \/ ReadHandshake
  \/ ReadQuery \/ ReadScrapeQuery \/ ReadRequest

RepliesSpec == RepliesInit /\ [][RepliesNext]_repliesVars

-----------------------------------------------------------------------------
(* Properties.                                                              *)

Peers == IF heard.kind = "pex" THEN taken.all ELSE taken.peers

(* The addresses a message offers that something could be reached at: those *)
(* whose bytes lie in it where a record begins.                             *)
In(list, family) ==
  IF list \in {Missing, Odd} THEN {}
  ELSE LET records == Range(Records(list, family + 2))
       IN {a \in [host : [1 .. family -> 0 .. Base - 1], port : 1 .. Top] : Compact(a) \in records}
Offered ==
  LET body == heard.body IN
  CASE heard.kind = "http" ->
         In(body.peers6, V6) \cup
         (IF body.peers \in {Missing, Odd} THEN {}
          ELSE IF body.peers.form = "compact" THEN In(body.peers.list, V4)
          ELSE {Address(e.ip, e.port) : e \in {x \in Range(body.peers.list) : Entered(x)}})
    [] heard.kind = "udp" -> In(SubSeq(body, 6, Len(body)), V4)
    [] heard.kind = "nodes" ->
         {n \in [id : [1 .. IdSize -> 0 .. Base - 1], host : [1 .. V4 -> 0 .. Base - 1], port : 1 .. Top] :
            EncodeNodes(<<n>>) \in Range(Records(body, IdSize + V4 + 2))}
    [] heard.kind = "values" ->
         UNION {In(v, V4) : v \in IF body \in {Missing, Odd} THEN {} ELSE {w \in Range(body) : w # Odd /\ Len(w) = 3}}
    [] heard.kind = "pex" -> In(body.added, V4) \cup In(body.added6, V6)

Addressed == taken.ok /\ heard.kind \in {"http", "udp", "nodes", "values", "pex"}
Cap == CASE heard.kind = "nodes" -> MaxNodes [] heard.kind = "pex" -> MaxAccepted [] OTHER -> MaxPeers

(* A reply that is accepted is accepted for what it is worth: nothing is    *)
(* taken that could not be dialled or was not offered, and what is left out *)
(* is left out because the cap was reached or, in peer exchange, because    *)
(* its host is there already.                                               *)
AcceptedForWhatItIs ==
  Addressed =>
    LET got == Range(Peers) IN
    /\ got \subseteq Offered
    /\ Len(Peers) <= Cap
    /\ heard.kind = "pex" =>
         /\ Cardinality({a.host : a \in got}) = Len(Peers)
         /\ taken.truncated = 0 => {a.host : a \in Offered} = {a.host : a \in got}
    /\ heard.kind # "pex" => Len(Peers) = Cap \/ got = Offered

(* The forms in which a tracker may list its peers say the same: of the     *)
(* same addresses the same are taken, over HTTP and UDP.                    *)
FormsAgree ==
  heard # Missing /\ heard.kind = "udp" /\ taken.ok =>
    LET blob == SubSeq(heard.body, 6, Len(heard.body))
        all == [k \in DOMAIN Records(blob, V4 + 2) |-> Uncompact(Records(blob, V4 + 2)[k])]
    IN \A compact \in BOOLEAN :
         /\ HttpAnnounce(AnnounceDocument(all, compact)).peers = taken.peers
         /\ compact => AnnounceDocument(all, compact).peers.list = blob

(* What this program packs it can unpack, and it is what it meant: a list   *)
(* in the same order and a contact with its own flags, of peer exchange the *)
(* host's first port and the IPv4 hosts first, up to the cap of the reader; *)
(* an announce or a scrape with its own hashes, whatever their bytes are    *)
(* and whether or not the tracker's address has a query; a query of the DHT *)
(* with the arguments of its method.                                        *)
OwnMessagesAreRead ==
  meant # Missing /\ taken # Unread =>
    /\ taken.ok
    /\ CASE heard.kind = "pex" ->
              LET hosts == {a.host : a \in Range(meant)} IN
              /\ {a.host : a \in Range(taken.all)} = hosts /\ Range(taken.dropped) = Range(meant)
              /\ Len(taken.all) = Len(meant) =>
                   \A k \in DOMAIN taken.all : taken.flags[k] = Flags(Contact(taken.all[k]))
         [] heard.kind \in {"nodes", "values", "http", "udp"} -> Distinct(taken.peers) = FirstOf(Cap, Distinct(meant))
         [] heard.kind = "krpc" /\ heard.body.kind = "r" ->
              /\ taken.nodes = FirstOf(MaxNodes, meant)
              /\ taken.peers = Distinct([k \in DOMAIN meant |-> Address(meant[k].host, meant[k].port)])
         [] heard.kind = "handshake" ->
              /\ taken.ids = meant.ids
              /\ meant.port # Missing /\ Listening(meant.port) => taken.port = meant.port
              /\ meant.size # 0 => taken.size = meant.size
         [] OTHER -> \A f \in DOMAIN meant \cap DOMAIN taken : taken[f] = meant[f]

(* A count is of the torrent it is reported for.                            *)
CountsAreTheTorrents ==
  heard # Missing /\ heard.kind = "udpscrape" /\ taken.ok =>
    LET raw == heard.body.raw IN
    /\ Cardinality({c.torrent : c \in taken.counts}) = (Len(raw) - 2) \div 3
    /\ \A c \in taken.counts :
         \E k \in DOMAIN heard.body.asked :
           /\ heard.body.asked[k] = c.torrent
           /\ SubSeq(raw, 3 * k, 3 * k + 2) = <<c.complete, c.downloaded, c.incomplete>>

(* One bad entry costs itself and not the announce                          *)
(* (tracker/http_tracker.py:149-152).                                       *)
OneBadEntryCostsItself ==
  heard # Missing /\ heard.kind = "http" /\ taken # Unread =>
    LET d == heard.body IN
    ~d.failure /\ Odd \notin {d.interval, d.least, d.peers, d.peers6} /\ d.peers # Missing
      /\ d.peers.form = "list" /\ d.peers6 = Missing => taken.ok
=============================================================================
