--------------------------------- MODULE Dht --------------------------------
(***************************************************************************)
(* One DHT node. First its routing table (discovery/dht/routing.py) and the*)
(* iterative lookups and the announce that use it (discovery/dht/node.py). *)
(* Several lookups run at once. A lookup asks a round of nodes and waits   *)
(* until each has answered or its query has failed; other lookups and incoming queries   *)
(* change the table meanwhile. Node ids are numbers of Bits bits. What a   *)
(* node answers is up to it: any id, any of Mentions as nodes, a token or  *)
(* none, peers or none.                                                    *)
(*                                                                         *)
(* Then its answering side (node.py and krpc.py): the queries it reads, the*)
(* tokens it hands out and takes back, and the peers it remembers for other*)
(* nodes. A token is a hash of a secret, the host that asked and the info  *)
(* hash, so it is modelled by that triple. A host may show any token it or *)
(* anybody else was given. Secrets are numbered in the order they are      *)
(* drawn.                                                                  *)
(***************************************************************************)
EXTENDS Integers, Sequences, FiniteSets, FiniteSetsExt, SequencesExt

CONSTANTS
  Bits,         \* ID_BITS
  OwnId,        \* node_id
  K,            \* capacity of a bucket, and how many results a lookup aims at
  Alpha,        \* queries in a round
  MaxRounds,    \* MAX_ROUNDS
  Lookups,      \* the lookups that may run, one after or beside the other
  Target,       \* the info hash a lookup is for
  Mentions,     \* the node lists a reply may carry
  Answering,    \* the ids that may answer; the others are only ever mentioned
  Generous,     \* the ids that hand out a token
  Visitors,     \* the ids that may ask us
  Renamed,      \* an id that a node asked by another id may answer with
  Hosts,       \* addresses that ask us
  Torrents,    \* info hashes
  TcpPorts,    \* the "port" arguments of the announces that arrive
  UdpPort,     \* the port the datagrams come from
  MaxPort,     \* MAX_PORT
  PeersKept,   \* MAX_PEERS_PER_TORRENT
  PeerTtl,     \* PEER_TTL_SECONDS
  Rotation,    \* TOKEN_ROTATION_SECONDS
  Rotates,     \* whether anything calls rotate_secret
  Tokens,      \* bound: the tokens handed out
  Horizon      \* bound: how long the clock runs

NodeIds == 0 .. 2 ^ Bits - 1

DhtAssumption ==
  /\ Bits \in Nat \ {0} /\ OwnId \in NodeIds
  /\ K \in Nat \ {0} /\ Alpha \in Nat \ {0} /\ MaxRounds \in Nat \ {0}
  /\ IsFiniteSet(Lookups) /\ Target \in [Lookups -> NodeIds]
  /\ Mentions \subseteq SUBSET NodeIds
  /\ Answering \subseteq NodeIds /\ Visitors \subseteq NodeIds /\ Renamed \in NodeIds

DhtServerAssumption ==
  /\ IsFiniteSet(Hosts) /\ IsFiniteSet(Torrents) /\ TcpPorts \subseteq Int
  /\ {UdpPort, MaxPort, PeersKept, PeerTtl, Rotation} \subseteq Nat \ {0}
  /\ UdpPort <= MaxPort /\ {Tokens, Horizon} \subseteq Nat /\ Rotates \in BOOLEAN

VARIABLES
  table,    \* RoutingTable._buckets: [low, high, fails], fails a function on the
            \* contacts: failed queries since one of them was last refreshed
  lookup,   \* each lookup: [at, round, seen, asked, answers]
  tokens,   \* DhtNode._tokens: pairs of a node and an info hash
  misses, \* history: how many queries to an id have failed in a row
  clock,     \* time.monotonic
  secret,    \* _secret, with _previous_secret the one before it
  secretAt,  \* _secret_at
  kept,      \* _peers: each torrent's peers, with the time each expires
  minted,    \* history: the tokens handed out, with the time of the latest
  reply      \* the values of the last answer to a get_peers, none for nodes

dhtVars == <<table, lookup, tokens, misses>>

-----------------------------------------------------------------------------
(* The routing table.                                                       *)

Bit(n, i) == (n \div 2 ^ i) % 2

(* distance: the exclusive or of two ids.                                   *)
Distances ==
  [a, b \in NodeIds |-> SumSet({IF Bit(a, i) # Bit(b, i) THEN 2 ^ i ELSE 0 : i \in 0 .. Bits - 1})]
Distance(a, b) == Distances[a, b]

(* FAILURES_BEFORE_QUESTIONABLE.                                            *)
Strikes == 2

Held(b) == DOMAIN b.fails
Contacts(t) == UNION {Held(t[i]) : i \in DOMAIN t}
Covers(b, id) == b.low <= id /\ id <= b.high
BucketOf(t, id) == CHOOSE i \in DOMAIN t : Covers(t[i], id)
FailsOf(t, id) == t[BucketOf(t, id)].fails[id]
Questionable(b) == {id \in Held(b) : b.fails[id] >= Strikes}

With(b, id, n) == [b EXCEPT !.fails = [x \in Held(b) \cup {id} |-> IF x = id THEN n ELSE @[x]]]
Without(b, id) == [b EXCEPT !.fails = [x \in Held(b) \ {id} |-> @[x]]]

(* The least reliable of the questionable contacts.                         *)
Worst(b) == CHOOSE id \in Questionable(b) : \A x \in Questionable(b) : b.fails[x] <= b.fails[id]

Half(b, lo, hi) ==
  [low |-> lo, high |-> hi,
   fails |-> [x \in {y \in Held(b) : lo <= y /\ y <= hi} |-> b.fails[x]]]

Split(t, i) ==
  LET b == t[i]  mid == (b.low + b.high) \div 2
  IN SubSeq(t, 1, i - 1) \o <<Half(b, b.low, mid), Half(b, mid + 1, b.high)>>
       \o SubSeq(t, i + 1, Len(t))

(* RoutingTable.add where no split helps: a known contact is refreshed, a   *)
(* questionable one makes room, and otherwise the newcomer is dropped.      *)
Placed(t, id) ==
  LET i == BucketOf(t, id)  b == t[i] IN
  IF Cardinality(Held(b)) < K \/ id \in Held(b) THEN [t EXCEPT ![i] = With(b, id, 0)]
  ELSE IF Questionable(b) # {} THEN [t EXCEPT ![i] = With(Without(b, Worst(b)), id, 0)]
  ELSE t

(* RoutingTable.add: the bucket of our own id is split as often as needed.  *)
Crowded(t, id) ==
  LET b == t[BucketOf(t, id)]
  IN /\ Cardinality(Held(b)) >= K /\ id \notin Held(b)
     /\ Questionable(b) = {} /\ Covers(b, OwnId)

Added(t, id) ==
  LET splitting[n \in 0 .. Bits] ==
        IF n = 0 THEN t
        ELSE IF Crowded(splitting[n - 1], id)
        THEN Split(splitting[n - 1], BucketOf(splitting[n - 1], id))
        ELSE splitting[n - 1]
  IN IF id = OwnId THEN t ELSE Placed(splitting[Bits], id)

(* note_success and note_failure.                                           *)
Succeeded(t, id) == Added(t, id)
Blamed(t, id) ==
  IF id \in Contacts(t)
  THEN LET i == BucketOf(t, id)
       IN [t EXCEPT ![i] = With(@, id, Min({@.fails[id] + 1, Strikes + 1}))]
  ELSE t

AddedAll(t, ids) == FoldLeft(Added, t, SetToSortSeq(ids, <))

Nearest(ids, target, n) ==
  {x \in ids : Cardinality({y \in ids : Distance(y, target) < Distance(x, target)}) < n}

(* RoutingTable.closest: questionable contacts only while the healthy are   *)
(* too few.                                                                 *)
Closest(t, target, n) ==
  LET known == Contacts(t) \ {target}
      healthy == {x \in known : FailsOf(t, x) < Strikes}
  IN Nearest(IF Cardinality(healthy) >= n THEN healthy ELSE known, target, n)

-----------------------------------------------------------------------------
(* The lookups.                                                             *)

Unbegun == [at |-> "idle", round |-> 0, seen |-> {}, asked |-> {}, answers |-> << >>]
Awaited == [kind |-> "waiting"]
(* A query fails: nobody answers in time, the node answers with an error, or *)
(* nothing is sent, for our queries are too many or our socket is closed.   *)
Failure(why) == [kind |-> why]
HasFailed(a) == a \in {Failure("silent"), Failure("error"), Failure("unsent")}
Nameless == [kind |-> "nameless"]
Listless(from) == [kind |-> "ok", from |-> from, nodes |-> {}, whole |-> FALSE]
Listing(from, nodes) == [Listless(from) EXCEPT !.whole = TRUE, !.nodes = nodes]

DhtInit ==
  /\ table = <<[low |-> 0, high |-> 2 ^ Bits - 1, fails |-> << >>]>>
  /\ lookup = [l \in Lookups |-> Unbegun]
  /\ tokens = {}
  /\ misses = [id \in NodeIds |-> 0]

(* bootstrap: a node we were given answers, with the nodes near us; lookups *)
(* start when it is over.                                                   *)
Bootstrap(id, nodes) ==
  /\ id \in Answering /\ \A l \in Lookups : lookup[l].at = "idle"
  /\ table' = AddedAll(Succeeded(table, id), nodes \ {OwnId})
  /\ misses' = [misses EXCEPT ![id] = 0]
  /\ UNCHANGED <<lookup, tokens>>

(* Faulty variant: only the nodes of the table are asked.                   *)
NextRoundTable(l, t, r) ==
  Nearest(Closest(t, Target[l], 4 * K) \ (r.asked \cup {OwnId}), Target[l], Alpha)

(* _next_round: the closest nodes not asked yet.                            *)
NextRound(l, t, r) ==
  Nearest((Closest(t, Target[l], 4 * K) \cup r.seen) \ (r.asked \cup {OwnId}), Target[l], Alpha)

(* Another round, or the end when there is nobody left or it was the last.  *)
Proceed(l, t, r) ==
  IF NextRound(l, t, r) # {} /\ r.round < MaxRounds
  THEN [r EXCEPT !.at = "asking", !.answers = [id \in NextRound(l, t, r) |-> Awaited]]
  ELSE [r EXCEPT !.at = "done", !.answers = << >>]

BeginLookup(l) ==
  /\ lookup[l].at = "idle"
  /\ lookup' = [lookup EXCEPT ![l] = Proceed(l, table, Unbegun)]
  /\ UNCHANGED <<table, tokens, misses>>

Asking(l, id) ==
  /\ lookup[l].at = "asking" /\ id \in DOMAIN lookup[l].answers
  /\ lookup[l].answers[id] = Awaited

(* _ask_one returns an answer: from the id we asked, or from the id the     *)
(* node goes by now.  An answer may lack a readable id, or carry a list of  *)
(* nodes that cannot be read: that shows only when it is looked at.         *)
Hears(l, id, from, nodes) ==
  /\ Asking(l, id)
  /\ id \in Answering /\ from \in {id, Renamed}
  /\ \E a \in {Nameless, Listless(from), Listing(from, nodes)} :
       lookup' = [lookup EXCEPT ![l].answers[id] = a]
  /\ UNCHANGED <<table, tokens, misses>>

(* _ask_one raises.                                                         *)
QueryFails(l, id) ==
  /\ Asking(l, id)
  /\ \E why \in {"silent", "unsent"} \cup (IF id \in Answering THEN {"error"} ELSE {}) :
       lookup' = [lookup EXCEPT ![l].answers[id] = Failure(why)]
  /\ UNCHANGED <<table, tokens, misses>>

(* What one answer of a round does to the table.  A node that is mentioned  *)
(* becomes a contact; one that is a contact already is refreshed.  Any      *)
(* failure is held against the node.                                        *)
Fold(t, id, a) ==
  IF HasFailed(a) THEN Blamed(t, id) ELSE IF a = Nameless THEN t
  ELSE AddedAll(Succeeded(t, a.from), a.nodes \ {OwnId})

Breaks(a) == a = Nameless \/ (a.kind = "ok" /\ ~a.whole)

(* The answers that are looked at: all of the round, nearest first, or those *)
(* up to the first that breaks off the lookup.                              *)
LookedAt(l) ==
  LET answers == lookup[l].answers
      round == SetToSortSeq(DOMAIN answers, LAMBDA x, y :
                 Distance(x, Target[l]) < Distance(y, Target[l]))
      bad == {i \in DOMAIN round : Breaks(answers[round[i]])}
  IN IF bad = {} THEN round ELSE SubSeq(round, 1, Min(bad))

(* All of the round have answered or failed.                                *)
EndRound(l) ==
  LET answers == lookup[l].answers
      round == LookedAt(l)
      read == {answers[id] : id \in ToSet(round)}
      said == {a \in read : a.kind = "ok"}
      heard == {a.from : a \in said}
      r == [lookup[l] EXCEPT !.round = @ + 1, !.asked = @ \cup DOMAIN answers,
              !.seen = @ \cup heard \cup UNION {a.nodes \ {OwnId} : a \in said}]
  IN
  /\ lookup[l].at = "asking"
  /\ \A id \in DOMAIN answers : answers[id] # Awaited
  /\ table' = FoldLeft(LAMBDA t, id : Fold(t, id, answers[id]), table, round)
  /\ tokens' = tokens \cup {<<a.from, Target[l]>> : a \in {b \in said : b.from \in Generous}}
  /\ misses' = [id \in NodeIds |->
       IF id \in heard THEN 0
       ELSE IF id \in ToSet(round) /\ HasFailed(answers[id])
       THEN Min({misses[id] + 1, Strikes + 1})
       ELSE misses[id]]
  /\ lookup' = [lookup EXCEPT ![l] =
       IF \E a \in read : Breaks(a) THEN [Unbegun EXCEPT !.at = "broken"]
       ELSE Proceed(l, table', r)]

(* announce_peer: those of the closest nodes that gave us a token are told, *)
(* one after the other; what they answer changes nothing.                   *)
Announce(l) ==
  /\ lookup[l].at = "done"
  /\ LET told == {id \in Nearest(lookup[l].seen, Target[l], K) : <<id, Target[l]>> \in tokens}
     IN lookup' = [lookup EXCEPT ![l] = [Unbegun EXCEPT !.at = "over", !.seen = told]]
  /\ UNCHANGED <<table, tokens, misses>>

(* _handle_query: every query is a hello.  DhtServer has what it answers.   *)
Queried(id) ==
  /\ table' = Succeeded(table, id)
  /\ misses' = [misses EXCEPT ![id] = 0]
  /\ UNCHANGED <<lookup, tokens>>

-----------------------------------------------------------------------------
DhtNext ==
  \/ \E id \in Answering, N \in Mentions : Bootstrap(id, N)
  \/ \E l \in Lookups :
       \/ BeginLookup(l) \/ EndRound(l) \/ Announce(l)
       \/ \E id \in NodeIds : QueryFails(l, id)
       \/ \E id \in Answering, from \in NodeIds, N \in Mentions : Hears(l, id, from, N)
  \/ \E id \in Visitors : Queried(id)

DhtSpec == DhtInit /\ [][DhtNext]_dhtVars

-----------------------------------------------------------------------------
(* Properties.                                                              *)

DhtTypeOK ==
  /\ \A i \in DOMAIN table :
       /\ table[i].low \in NodeIds /\ table[i].high \in NodeIds
       /\ Held(table[i]) \subseteq NodeIds /\ table[i].fails \in [Held(table[i]) -> 0 .. Strikes + 1]
  /\ \A l \in Lookups :
       /\ lookup[l].at \in {"idle", "asking", "done", "broken", "over"}
       /\ lookup[l].round \in 0 .. MaxRounds
       /\ lookup[l].seen \subseteq NodeIds /\ lookup[l].asked \subseteq NodeIds
       /\ DOMAIN lookup[l].answers \subseteq NodeIds
  /\ misses \in [NodeIds -> 0 .. Strikes + 1]

(* The buckets divide the ids among them, none holds more than K contacts,  *)
(* a contact or an id of a range other than its own; and only the bucket of *)
(* our own id has ever been split.                                          *)
BucketsDivideIds ==
  /\ table[1].low = 0 /\ table[Len(table)].high = 2 ^ Bits - 1
  /\ \A i \in 1 .. Len(table) - 1 : table[i + 1].low = table[i].high + 1
  /\ \A i \in DOMAIN table :
       /\ Cardinality(Held(table[i])) <= K
       /\ \A id \in Held(table[i]) : id # OwnId /\ Covers(table[i], id)

(* A contact loses its place only to a newcomer, when its last queries have *)
(* failed one after the other, however many lookups asked it at once and    *)
(* whoever has heard of it since.                                           *)
FailedLeave ==
  \A id \in Contacts(table) :
    id \in Contacts(table') \/ misses[id] >= Strikes \/ misses'[id] >= Strikes

(* What note_failure says of a contact it blames, "it did not answer".  The *)
(* code blames as well for an error, which is an answer, and for a query it *)
(* never sent: it breaks this (README).                                     *)
OnlySilenceIsBlamed ==
  \A id \in Contacts(table) \cap Contacts(table') :
    FailsOf(table', id) > FailsOf(table, id) =>
      \E l \in Lookups : id \in DOMAIN lookup[l].answers /\ lookup[l].answers[id] = Failure("silent")

(* A lookup that ends before the last round has asked each of the K nodes   *)
(* nearest to the target that anybody mentioned to it.                      *)
NearestAreAsked ==
  \A l \in Lookups :
    lookup[l].at = "done" /\ lookup[l].round < MaxRounds =>
      Nearest(lookup[l].seen \ {OwnId}, Target[l], K) \subseteq lookup[l].asked

-----------------------------------------------------------------------------
serverVars == <<clock, secret, secretAt, kept, minted, reply>>

Nobody == <<>>
TokenFor(s, host, torrent) == <<s, host, torrent>>

ServerInit ==
  /\ clock = 0 /\ secret = 1 /\ secretAt = 0
  /\ kept = [t \in Torrents |-> Nobody]
  /\ minted = <<>> /\ reply = {}

-----------------------------------------------------------------------------
Only(f, S) == [x \in S |-> f[x]]

(* _peers_for: what has expired goes first.                                 *)
Live(t) == {e \in DOMAIN kept[t] : kept[t][e] > clock}

(* get_peers: a token, and the peers we hold or else the nodes we know.     *)
GetPeers(host, t) ==
  LET token == TokenFor(secret, host, t) IN
  /\ Cardinality(DOMAIN minted \cup {token}) <= Tokens
  /\ kept' = [kept EXCEPT ![t] = Only(@, Live(t))]
  /\ reply' = Live(t)
  /\ minted' = [x \in DOMAIN minted \cup {token} |-> IF x = token THEN clock ELSE minted[x]]
  /\ UNCHANGED <<clock, secret, secretAt>>

(* _token_is_valid                                                          *)
Honoured(token, host, t) ==
  token \in {TokenFor(s, host, t) : s \in {secret, secret - 1}}

Oldest(f) == CHOOSE e \in DOMAIN f : \A x \in DOMAIN f : f[e] <= f[x]

(* _remember_peer: a newcomer takes the place of the oldest when the torrent *)
(* has its fill.                                                            *)
RoomFor(f, e) ==
  IF e \notin DOMAIN f /\ Cardinality(DOMAIN f) >= PeersKept
  THEN Only(f, DOMAIN f \ {Oldest(f)}) ELSE f

(* The port of a query that names none, or 0, is where it came from.        *)
PortMeant(implied, port) == IF implied \/ port = 0 THEN UdpPort ELSE port

(* announce_peer: refused without a token that is honoured, or with a port  *)
(* that is none.                                                            *)
AnnouncePeer(host, t, token, implied, port) ==
  LET e == <<host, PortMeant(implied, port)>>
      room == RoomFor(kept[t], e) IN
  /\ Honoured(token, host, t) /\ e[2] \in 1 .. MaxPort
  /\ kept' = [kept EXCEPT ![t] =
                [x \in DOMAIN room \cup {e} |-> IF x = e THEN clock + PeerTtl ELSE room[x]]]
  /\ UNCHANGED <<clock, secret, secretAt, minted, reply>>

RotateSecret ==
  /\ Rotates /\ clock - secretAt >= Rotation
  /\ secret' = secret + 1 /\ secretAt' = clock
  /\ UNCHANGED <<clock, kept, minted, reply>>

ServerClock ==
  /\ clock < Horizon /\ clock' = clock + 1
  /\ UNCHANGED <<secret, secretAt, kept, minted, reply>>

ServerNext ==
  \/ \E host \in Hosts, t \in Torrents :
       \/ GetPeers(host, t)
       \/ \E token \in DOMAIN minted, implied \in BOOLEAN, port \in TcpPorts :
            AnnouncePeer(host, t, token, implied, port)
  \/ RotateSecret \/ ServerClock

ServerSpec == ServerInit /\ [][ServerNext]_serverVars

-----------------------------------------------------------------------------
(* Properties.                                                              *)

ServerTypeOK ==
  /\ clock \in 0 .. Horizon /\ secret \in Nat \ {0} /\ secretAt \in 0 .. clock
  /\ \A t \in Torrents :
       /\ DOMAIN kept[t] \subseteq Hosts \X (1 .. MaxPort)
       /\ kept[t] \in [DOMAIN kept[t] -> 0 .. Horizon + PeerTtl]
       /\ Cardinality(DOMAIN kept[t]) <= PeersKept
  /\ DOMAIN minted \subseteq (1 .. secret) \X Hosts \X Torrents

(* Whoever is listed for a torrent has asked about that torrent itself from *)
(* that address: a token given to another host, or for another torrent, puts *)
(* nobody on a list.                                                        *)
ListedHaveAsked ==
  \A t \in Torrents : \A e \in DOMAIN kept[t] :
    \E s \in 1 .. secret : TokenFor(s, e[1], t) \in DOMAIN minted

(* A token works for as long as a rotation takes after it was handed out,   *)
(* wherever in the life of the secret that was.                             *)
TokenKeepsItsWindow ==
  \A token \in DOMAIN minted :
    clock - minted[token] < Rotation => Honoured(token, token[2], token[3])

(* A peer whose announcement has not expired is forgotten only for another  *)
(* that is new, when the torrent has its fill, and none is older than it.   *)
NewcomerForgets ==
  \A t \in Torrents : \A e \in DOMAIN kept[t] :
    kept[t][e] > clock /\ e \notin DOMAIN kept'[t] =>
      /\ Cardinality(DOMAIN kept[t]) >= PeersKept
      /\ DOMAIN kept'[t] \ DOMAIN kept[t] # {}
      /\ \A x \in DOMAIN kept[t] : kept[t][e] <= kept[t][x]
=============================================================================
