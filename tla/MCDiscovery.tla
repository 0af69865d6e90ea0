----------------------------- MODULE MCDiscovery ----------------------------
(***************************************************************************)
(* Instances for TLC of what finds peers and asks them for metadata: the    *)
(* trackers, the DHT, and magnet links.                                     *)
(***************************************************************************)
EXTENDS Integers, Sequences, FiniteSets, SequencesExt, TLC, TLAPS

CONSTANTS
  Explored,                                \* the components explored
  Askers, NoAsker, QueryIds, Retries, Outstanding, \* of Krpc
  Clients, MaxRetries, MaxCalls, Batches,  \* of UdpTracker
  Chunks, Pipeline, Windows, Backlog, SlowPeers, \* of Metadata
  Peers, Limit, BadAnswers,
  Hosts, Torrents, TcpPorts, UdpPort, MaxPort, PeersKept, PeerTtl, Rotation, Rotates, Tokens,
  Horizon,                                 \* of the answering side of Dht
  Announcing, Seeds, Wants, Returned, Ttl, NoOne, MaxAnnounces, MaxClock,
  OnTheWay                                 \* of TrackerServer

VARIABLES part, turns, udpCalls, up, armed, conn, young, seed, udpSent, udpMade, silent, health,
  seen, annCalls, loop, sessions, alive, closing, scheme, mode, swarm, now, srvSent, srvReplies,
  asking, srvLinked, srvMade, result, stopped, table, lookup, tokens, misses, clock, secret,
  secretAt, kept, minted, reply, query, registry, krpcReplies, bound, wrongly, stage, received,
  wrong, requested, lapsed, expired, asked, incoming, half, skewed, quiet, why, phase, task, announces, answer,
  taken, magLinked, candidates, fetch, private

(* Two tiers beside the announce URL; one of their URLs no client speaks.   *)
TwoTiers == <<<<"u1", "wss">>, <<"u2">>>>
TwoTargets == [l \in {1, 2} |-> IF l = 1 THEN 7 ELSE 4]

udpVars == <<turns, udpCalls, up, armed, conn, young, seed, udpSent, udpMade, silent>>
krpcVars == <<query, registry, krpcReplies, bound, wrongly>>

metaVars == <<stage, received, wrong, requested, lapsed, expired, asked, incoming, half, skewed,
  quiet, why>>
magVars == <<phase, task, announces, answer, taken, magLinked, candidates, fetch, private>>

(* The components DiscoveryProofs is about.  No id that Krpc draws is still  *)
(* registered: what a collision would do is not explored.  Nobody cancels    *)
(* the resolution of a magnet link.                                          *)
Own == INSTANCE DiscoveryProofs WITH
  Ids <- QueryIds, Callers <- Clients, Waits <- Windows,
  FreshIds <- TRUE, ClosesAlone <- FALSE, Cancels <- FALSE, calls <- udpCalls, sent <- udpSent,
  made <- udpMade, replies <- krpcReplies, linked <- magLinked,
  Bits <- 3, OwnId <- 1, K <- 1, Alpha <- 2, MaxRounds <- 2, Lookups <- {1, 2},
  Target <- TwoTargets, Mentions <- {{}, {2, 6}}, Answering <- {5, 6}, Generous <- {5},
  Visitors <- {5}, Renamed <- 4,
  Clients <- Announcing, coming <- srvSent, going <- srvReplies, identified <- srvLinked,
  numbered <- srvMade

annVars == <<health, seen, annCalls, loop, sessions, alive, closing>>
Ann == INSTANCE Announcer WITH
  Urls <- {"u0", "u1", "u2", "wss"}, AnnounceUrl <- "u0", AnnounceList <- TwoTiers,
  Speakable <- {"u0", "u1", "u2"}, Mirrors <- {{}, {"u2"}}, SwarmPeers <- {"p"}, Intervals <- {1},
  Multiplier <- 10, MaxGap <- 3, MaxExponent <- 2, calls <- annCalls

srvVars == <<scheme, mode, swarm, now, srvSent, srvReplies, asking, srvLinked, srvMade, result,
  stopped>>

dhtVars == <<table, lookup, tokens, misses>>
nodeVars == <<clock, secret, secretAt, kept, minted, reply>>

ASSUME DiscoveryAssumption ==
  /\ Own!UdpAssumption /\ Own!KrpcAssumption
  /\ Ann!AnnouncerAssumption
  /\ Own!TrackerAssumption
  /\ Own!DhtAssumption /\ Own!DhtServerAssumption
  /\ Own!MetadataAssumption
  /\ Own!MagnetAssumption

-----------------------------------------------------------------------------
SumInit ==
  /\ part \in Explored
  /\ Own!UdpInit
  /\ Ann!AnnouncerInit /\ (part # "ann" => alive = {})
  /\ Own!TrackerInit /\ (part # "srv" => scheme = "http" /\ mode = "ok")
  /\ Own!DhtInit
  /\ Own!ServerInit
  /\ Own!KrpcInit
  /\ Own!MetaInit
  /\ Own!MagnetInit /\ (part # "mag" => magLinked = {})

(* Every component but the one explored stays as it is.                      *)
Rest ==
  /\ part' = part
  /\ part # "udp" => UNCHANGED udpVars
  /\ part # "ann" => UNCHANGED annVars
  /\ part # "srv" => UNCHANGED srvVars
  /\ part # "dht" => UNCHANGED dhtVars
  /\ part # "node" => UNCHANGED nodeVars
  /\ part # "krpc" => UNCHANGED krpcVars
  /\ part # "meta" => UNCHANGED metaVars
  /\ part # "mag" => UNCHANGED magVars

SumNext ==
  \/ part = "udp" /\ Own!UdpNext /\ Rest
  \/ part = "ann" /\ Ann!AnnouncerNext /\ Rest
  \/ part = "srv" /\ Own!TrackerNext /\ Rest
  \/ part = "dht" /\ Own!DhtNext /\ Rest
  \/ part = "node" /\ Own!ServerNext /\ Rest
  \/ part = "krpc" /\ Own!KrpcNext /\ Rest
  \/ part = "meta" /\ Own!MetaNext /\ Rest
  \/ part = "mag" /\ Own!MagnetNext /\ Rest

sumVars == <<part, udpVars, annVars, srvVars, dhtVars, nodeVars, krpcVars, metaVars, magVars>>
SumSpec == SumInit /\ [][SumNext]_sumVars

-----------------------------------------------------------------------------
(* An answer goes to the question it answers: a UDP call ends by a reply to  *)
(* the packet it sent, no id that was met with silence is sent again, and    *)
(* what the DHT's registry holds are the queries that wait, each under its   *)
(* id, whatever was lost, late, doubled, retried or cancelled.               *)
RepliesAreOwn ==
  /\ part = "udp" => Own!UdpTypeOK /\ Own!TurnsAreTaken /\ Own!RepliesAreOwn /\ Own!SilentIdsAreDropped
  /\ part = "krpc" => Own!KrpcTypeOK /\ Own!RegistryIsLive /\ Own!WaitingIsRegistered

(* A lookup that ends by itself has asked the nodes nearest to its target    *)
(* that it heard of, and the buckets it reads them from divide the ids.      *)
NearestAreAsked == part = "dht" => Own!DhtTypeOK /\ Own!BucketsDivideIds /\ Own!NearestAreAsked

(* Resolving a magnet link goes on while it can: within the pipeline a fetch *)
(* always has a chunk to wait for, every source that answered is tried, and  *)
(* nothing is left running when it is over.                                  *)
MetadataIsPursued ==
  /\ part = "meta" => Own!MetaTypeOK /\ Own!MetadataPipeline /\ Own!WaitsForSomething
  /\ part = "mag" => Own!MagnetTypeOK /\ Own!AnswersAreTried /\ Own!NothingLeftRunning

(* What is listed is true.  Both servers list a peer only on its own word:   *)
(* the DHT node one that asked about that torrent from that address, with a  *)
(* token that keeps its window, the tracker every client it answered and     *)
(* none that said it stops.  And only queries that failed one after the      *)
(* other, its own silence or word, or a fuller list take anybody off a list: *)
(* a contact in the routing table, a peer at the tracker, one at the node.   *)
ListsAreTrue ==
  /\ [](/\ part = "node" => Own!ServerTypeOK /\ Own!ListedHaveAsked /\ Own!TokenKeepsItsWindow
        /\ part = "srv" => Own!TrackerTypeOK /\ Own!AnsweredIsRegistered /\ Own!StoppedIsGone)
  /\ [][/\ part = "dht" => Own!FailedLeave
        /\ part = "srv" => Own!SilentForgotten /\ Own!AliveListed
        /\ part = "node" => Own!NewcomerForgets]_sumVars

(* While nothing answers, the announce loop waits at least as long each time *)
(* as it did before.                                                         *)
RetriesSlowDown ==
  /\ [](part = "ann" => Ann!AnnouncerTypeOK)
  /\ [][part = "ann" => Ann!SlowsDown]_sumVars

-----------------------------------------------------------------------------
(* Proofs.  The tracker client, the registry, what resolves magnet links,   *)
(* the node's answers and the tracker start as on their own, and a step of  *)
(* the whole is a step of each, or leaves it.                               *)

LEMMA EachStarts ==
  ASSUME SumInit
  PROVE  Own!UdpInit /\ Own!KrpcInit /\ Own!MetaInit /\ Own!MagnetInit /\ Own!ServerInit
         /\ Own!TrackerInit
BY DEF SumInit

LEMMA EachMoves ==
  ASSUME [SumNext]_sumVars
  PROVE  /\ [Own!UdpNext]_Own!udpVars /\ [Own!KrpcNext]_Own!krpcVars
         /\ [Own!MetaNext]_Own!metaVars /\ [Own!MagnetNext]_Own!magnetVars
         /\ [Own!ServerNext]_Own!serverVars /\ [Own!TrackerNext]_Own!trackerVars
<1>1. /\ Own!UdpNext \/ UNCHANGED udpVars
      /\ Own!KrpcNext \/ UNCHANGED krpcVars
      /\ Own!MetaNext \/ UNCHANGED metaVars
      /\ Own!MagnetNext \/ UNCHANGED magVars
      /\ Own!ServerNext \/ UNCHANGED nodeVars
      /\ Own!TrackerNext \/ UNCHANGED srvVars
  <2>1. CASE UNCHANGED sumVars
    BY <2>1 DEF sumVars
  <2>2. CASE SumNext
    BY <2>2 DEF SumNext, Rest
  <2> QED
    BY <2>1, <2>2
<1>2. UNCHANGED udpVars => UNCHANGED Own!udpVars
  BY DEF udpVars, Own!udpVars
<1>3. UNCHANGED krpcVars => UNCHANGED Own!krpcVars
  BY DEF krpcVars, Own!krpcVars
<1>4. UNCHANGED metaVars => UNCHANGED Own!metaVars
  BY DEF metaVars, Own!metaVars, Own!askVars, Own!linkVars
<1>5. UNCHANGED magVars => UNCHANGED Own!magnetVars
  BY DEF magVars, Own!magnetVars
<1>6. UNCHANGED nodeVars => UNCHANGED Own!serverVars
  BY DEF nodeVars, Own!serverVars
<1>7. UNCHANGED srvVars => UNCHANGED Own!trackerVars
  BY DEF srvVars, Own!trackerVars
<1> QED
  BY <1>1, <1>2, <1>3, <1>4, <1>5, <1>6, <1>7

(* An answer goes to the question it answers, for any number of callers,    *)
(* retries, batches and ids.                                                *)
THEOREM RepliesStayOwn == SumSpec => []RepliesAreOwn
<1> DEFINE Inv == Own!UdpInv /\ Own!KrpcTypeOK /\ Own!RegistryIsLive /\ Own!WaitingIsRegistered
<1>1. SumInit => Inv
  BY DiscoveryAssumption, EachStarts, Own!UdpInvInit, Own!KrpcType, Own!RegistryInit
<1>2. Inv /\ [SumNext]_sumVars => Inv'
  BY DiscoveryAssumption, EachMoves, Own!UdpInvStep, Own!KrpcType, Own!RegistryStep,
     Own!WaitingStep
<1>3. Inv => RepliesAreOwn
  BY Own!UdpMeans DEF RepliesAreOwn
<1> QED
  BY <1>1, <1>2, <1>3, PTL DEF SumSpec

(* Resolving a magnet link goes on while it can, for any number of chunks   *)
(* and peers and any limits.                                                *)
THEOREM MetadataStaysPursued == SumSpec => []MetadataIsPursued
<1> DEFINE Inv == Own!MetaInv /\ Own!MagnetInv
<1>1. SumInit => Inv
  BY DiscoveryAssumption, EachStarts, Own!MetaInvInit, Own!MagnetInvInit
<1>2. Inv /\ [SumNext]_sumVars => Inv'
  BY DiscoveryAssumption, EachMoves, Own!MetaInvStep, Own!MagnetInvStep
<1>3. Inv => MetadataIsPursued
  BY DEF MetadataIsPursued, Own!MetaInv, Own!MagnetInv
<1> QED
  BY <1>1, <1>2, <1>3, PTL DEF SumSpec

(* What the two servers list is true, for any hosts, clients, torrents,      *)
(* ports, limits and times: the DHT node that answers others, and a tracker. *)
THEOREM ServersListsStayTrue == SumSpec /\ part \in {"node", "srv"} => ListsAreTrue
<1> DEFINE Inv == part \in {"node", "srv"} /\ Own!NodeInv /\ Own!TrackerInv
           Always == /\ part = "node" => Own!ServerTypeOK /\ Own!ListedHaveAsked /\ Own!TokenKeepsItsWindow
                     /\ part = "srv" => Own!TrackerTypeOK /\ Own!AnsweredIsRegistered /\ Own!StoppedIsGone
           Moves == /\ part = "dht" => Own!FailedLeave
                    /\ part = "srv" => Own!SilentForgotten /\ Own!AliveListed
                    /\ part = "node" => Own!NewcomerForgets
<1>1. SumInit /\ part \in {"node", "srv"} => Inv
  BY DiscoveryAssumption, EachStarts, Own!NodeInvStart, Own!TrackerInvStart
<1>2. Inv /\ [SumNext]_sumVars => Inv' /\ [Moves]_sumVars
  <2> SUFFICES ASSUME Inv, [SumNext]_sumVars
               PROVE  Inv' /\ Moves
    OBVIOUS
  <2>1. part' = part
    BY DEF SumNext, Rest, sumVars
  <2>2. Own!NodeInv' /\ Own!NewcomerForgets
    <3>1. Own!ServerNext \/ UNCHANGED Own!serverVars
      BY EachMoves
    <3> QED
      BY DiscoveryAssumption, <3>1, Own!NodeInvStep
  <2>3. Own!TrackerInv' /\ (Own!SilentForgotten /\ Own!AliveListed)
    BY DiscoveryAssumption, EachMoves, Own!TrackerInvStep
  <2> QED
    BY <2>1, <2>2, <2>3
<1>3. Inv => Always
  BY DiscoveryAssumption, Own!NodeInvMeans, Own!TrackerInvMeans
<1> HIDE DEF Inv
<1>4. ListsAreTrue <=> []Always /\ [][Moves]_sumVars
  BY DEF ListsAreTrue
<1> HIDE DEF Always, Moves
<1> QED
  BY <1>1, <1>2, <1>3, <1>4, PTL DEF SumSpec
=============================================================================
