------------------------------- MODULE MCPeers ------------------------------
(***************************************************************************)
(* Instances for TLC of what is between this client and its peers.          *)
(***************************************************************************)
EXTENDS Integers, Sequences, FiniteSets, SequencesExt, TLC, TLAPS

CONSTANTS
  Explored,                                                     \* the components explored
  Peers, NoPeer, Pieces, BlockCount, Holds, Corruptors,         \* of Download
  Limit, Threshold, EndgameDelay, BlockTimeout,
  SwarmPeers, BitfieldFirst, MayCorrupt, MayReturn, MaxCount,   \* of SwarmView
  Listeners, Callers, Conns, NoConn, MaxConn, MaxFailures,      \* of PeerPool
  Shared, Slots, MaxRequests, Limited, Fickle, MaxTurns,        \* of Upload
  Rate, Lengths, MaxLength, MaxClock, MaxBlocks,
  Closers, Messages, BeyondLast,                                \* of PeerWire
  Dialler, Listener, Foreign, Torrents, Names, Ids, UsableIds,  \* of Extensions
  NoName, Broken, MaxSends,
  Addresses, Inbound, MaxInitial, MaxLater, Returns,           \* of Pex
  a, b

VARIABLES part, pstate, bstate, breq, corrupt, out, age, soloAsked, ereq, unclaimed, loop, soloTodo,
  soloCur, sendq, soloConn, choked, task, completed, verified, swarmConn, first, second, received,
  amInterested, view, avail, interest, piece, pump, left, dead, swarmCur, sig, wanted, count, cand,
  reg, st, addr, tries, own, maintain, poolPhase, closing, late, attached, keen, choking, tracked,
  queues, allowed, optimistic, turns, due, have, upTold, upPass, upTodo, size, progressed, current,
  delayed, upAsked, clock, tokens, updated, waiting, sent, taken, charged, life, outcome, cancelled, sock,
  sess, bitfield, reason, closedEv, keep, keepHeld, keepCut, closers, reaper, wireTold, reads,
  torrent, ours, theirs, negotiated, extPhase, wire, sends, heard, offered, joined, swarm, broken, hello,
  ledgers, pexTold, pexPass, contacts

TwoBlocks == [i \in Pieces |-> 2]
AllSeeds == [p \in Peers |-> Pieces]

(* Of Pex: x1 speaks ut_pex; x2 called us and does not, but may say that it  *)
(* listens at x3, which we may have dialled as well.                         *)
PexSays ==
  [x \in Addresses |->
    CASE x = "x1" -> [pex : {TRUE}, home : {"none"}]
      [] x = "x2" -> [pex : {FALSE}, home : {"x3"}]
      [] OTHER -> {}]

soloVars == <<pstate, bstate, breq, corrupt, out, age, soloAsked, ereq, unclaimed, loop, soloTodo,
  soloCur, sendq, soloConn, choked, task, completed, verified>>
Solo == INSTANCE DownloadProofs WITH
  EndgameEnabled <- FALSE, DiskMayFail <- FALSE, asked <- soloAsked, todo <- soloTodo,
  cur <- soloCur, conn <- soloConn

swarmVars == <<swarmConn, first, second, received, amInterested, view, avail, interest, piece, pump,
  left, dead, swarmCur, sig, wanted, count>>

poolVars == <<cand, reg, st, addr, tries, own, maintain, poolPhase, closing, late>>

upVars == <<attached, keen, choking, tracked, queues, allowed, optimistic, turns, due, have, upTold,
  upPass, upTodo, size, progressed, current, delayed, upAsked>>

paceVars == <<clock, tokens, updated, waiting, sent, taken, charged>>

wireVars == <<life, outcome, cancelled, sock, sess, bitfield, reason, closedEv, keep, keepHeld,
  keepCut, closers, reaper, wireTold, reads>>

extVars == <<torrent, ours, theirs, negotiated, extPhase, wire, sends, heard, offered>>

pexVars == <<joined, swarm, broken, hello, ledgers, pexTold, pexPass, contacts>>

(* The components PeersProofs is about.                                      *)
Side == INSTANCE PeersProofs WITH
  Peers <- SwarmPeers, NoCand <- NoPeer, Leechers <- Peers, NoLeecher <- NoPeer, Greedy <- FALSE,
  Offered <- Shared, Says <- PexSays,
  conn <- swarmConn, cur <- swarmCur, phase <- poolPhase, told <- upTold, pass <- upPass,
  todo <- upTodo, asked <- upAsked, announced <- wireTold, stage <- extPhase,
  knows <- pexTold, round <- pexPass

ASSUME BetweenPeersAssumption ==
  /\ Solo!PeersAssumption /\ Solo!PiecesAssumption /\ Solo!ConfigAssumption
  /\ Side!SwarmAssumption /\ Side!PoolAssumption
  /\ Side!UploadAssumption /\ Side!PacingAssumption
  /\ Side!WireAssumption /\ Side!ExtensionsAssumption /\ Side!PexAssumption

-----------------------------------------------------------------------------
SumInit ==
  /\ part \in Explored
  /\ Solo!Init /\ (part # "solo" => completed = {})
  /\ Side!SwarmInit
  /\ Side!PoolInit
  /\ Side!UpInit
  /\ Side!PaceInit
  /\ Side!WireInit
  /\ Side!ExtInit
  /\ part # "ext" => \A s \in Side!Ends : ours[s] = {} /\ torrent[s] = CHOOSE t \in Torrents : TRUE
  /\ Side!PexInit

(* Every component but the one explored stays as it is.                      *)
Rest ==
  /\ part' = part
  /\ part # "solo" => UNCHANGED soloVars
  /\ part # "swarm" => UNCHANGED swarmVars
  /\ part # "pool" => UNCHANGED poolVars
  /\ part # "up" => UNCHANGED upVars
  /\ part # "pace" => UNCHANGED paceVars
  /\ part # "wire" => UNCHANGED wireVars
  /\ part # "ext" => UNCHANGED extVars
  /\ part # "pex" => UNCHANGED pexVars

SumNext ==
  \/ part = "solo" /\ Solo!Next /\ Rest
  \/ part = "swarm" /\ Side!SwarmNext /\ Rest
  \/ part = "pool" /\ Side!PoolNext /\ Rest
  \/ part = "up" /\ Side!UpNext /\ Rest
  \/ part = "pace" /\ Side!PaceNext /\ Rest
  \/ part = "wire" /\ Side!WireNext /\ Rest
  \/ part = "ext" /\ Side!ExtNext /\ Rest
  \/ part = "pex" /\ Side!PexNext /\ Rest

sumVars == <<part, soloVars, swarmVars, poolVars, upVars, paceVars, wireVars, extVars, pexVars>>
PeerSymmetry == Permutations(Peers)

SumSpec == SumInit /\ [][SumNext]_sumVars

-----------------------------------------------------------------------------
(* Without the endgame a block has one requester at most, one whose pipeline *)
(* holds it; no pipeline passes its limit; and a piece that is being checked *)
(* has a task that will say what came of it.                                 *)
RequestsAreAlive == part = "solo" => Solo!TypeOK /\ Solo!RequestsAreAlive

(* A scheduling pass leaves no peer idle that could be asked for something.  *)
PlanKeepsPeersBusy == [][part = "solo" => Solo!PlansWell]_sumVars

(* The availability counters never fall below the peers still tracked,       *)
(* whichever way a peer or its bitfield goes.                                *)
AvailabilityCoversTracked == part = "swarm" => Side!SwarmTypeOK /\ Side!AvailabilityCoversTracked

(* Every slot of the pool is held by a live connection or one about to be    *)
(* reaped, every live one holds its slot, and those we dialled fit the cap.  *)
PoolIsAccounted == part = "pool" => Side!PoolTypeOK /\ Side!PoolIsAccounted

(* What the upload loop queues and sends is for tracked peers it allows, in  *)
(* what we have, and within what the rate limit has earned.                  *)
SendsAreAllowed ==
  /\ part = "up" => Side!UpTypeOK /\ Side!QueuedIsTracked /\ Side!QueuedOnce /\ Side!SendsAreAllowed
  /\ part = "pace" => Side!PaceTypeOK /\ Side!PaidFor

(* A connection whose close has returned is over, however many closed it and *)
(* however it ended, and tells its end once.                                 *)
ConnectionsEndOnce == part = "wire" => Side!WireTypeOK /\ Side!ClosedIsOver /\ Side!DisconnectToldOnce

(* The two ends of a connection mean the same torrent and the same messages, *)
(* and agree on the extensions when all is said.                             *)
PeersUnderstandEachOther ==
  part = "ext" => Side!ExtTypeOK /\ Side!SameTorrent /\ Side!NameSurvives /\ Side!AgreedAtRest

(* What is noted as told over peer exchange is what each peer was told, and  *)
(* nobody still there is withdrawn.                                          *)
LedgerIsTold == part = "pex" => Side!PexTypeOK /\ Side!LedgerIsTold /\ Side!WithdrawnIsGone

-----------------------------------------------------------------------------
(* Proofs.  Each component starts as on its own, and a step of the whole is *)
(* a step of each component, or leaves it.                                  *)

LEMMA EachStarts ==
  ASSUME SumInit
  PROVE  /\ Solo!Init /\ Side!SwarmInit /\ Side!PoolInit /\ Side!UpInit /\ Side!PaceInit
         /\ Side!WireInit /\ Side!ExtInit /\ Side!PexInit
BY DEF SumInit

LEMMA EachMoves ==
  ASSUME [SumNext]_sumVars
  PROVE  /\ [Solo!Next]_Solo!vars
         /\ [Side!SwarmNext]_Side!swarmVars /\ [Side!PoolNext]_Side!poolVars
         /\ [Side!UpNext]_Side!uploadVars /\ [Side!PaceNext]_Side!paceVars
         /\ [Side!WireNext]_Side!wireVars /\ [Side!ExtNext]_Side!extVars
         /\ [Side!PexNext]_Side!pexVars
<1>1. /\ Solo!Next \/ UNCHANGED soloVars
      /\ Side!SwarmNext \/ UNCHANGED swarmVars
      /\ Side!PoolNext \/ UNCHANGED poolVars
      /\ Side!UpNext \/ UNCHANGED upVars
      /\ Side!PaceNext \/ UNCHANGED paceVars
      /\ Side!WireNext \/ UNCHANGED wireVars
      /\ Side!ExtNext \/ UNCHANGED extVars
      /\ Side!PexNext \/ UNCHANGED pexVars
  <2>1. CASE UNCHANGED sumVars
    BY <2>1 DEF sumVars
  <2>2. CASE SumNext
    BY <2>2 DEF SumNext, Rest
  <2> QED
    BY <2>1, <2>2
<1>2. UNCHANGED soloVars => UNCHANGED Solo!vars
  BY DEF soloVars, Solo!vars
<1>3. UNCHANGED swarmVars => UNCHANGED Side!swarmVars
  BY DEF swarmVars, Side!swarmVars
<1>4. UNCHANGED poolVars => UNCHANGED Side!poolVars
  BY DEF poolVars, Side!poolVars
<1>5. UNCHANGED upVars => UNCHANGED Side!uploadVars
  BY DEF upVars, Side!uploadVars, Side!peerVars, Side!policyVars, Side!passVars
<1>6. UNCHANGED paceVars => UNCHANGED Side!paceVars
  BY DEF paceVars, Side!paceVars
<1>7. UNCHANGED wireVars => UNCHANGED Side!wireVars
  BY DEF wireVars, Side!wireVars, Side!runVars, Side!endVars, Side!keepVars
<1>8. UNCHANGED extVars => UNCHANGED Side!extVars
  BY DEF extVars, Side!extVars
<1>9. UNCHANGED pexVars => UNCHANGED Side!pexVars
  BY DEF pexVars, Side!pexVars
<1> QED
  BY <1>1, <1>2, <1>3, <1>4, <1>5, <1>6, <1>7, <1>8, <1>9

(* Nothing is asked twice, forgotten or asked of nobody, with whatever      *)
(* peers, pieces, limits and delays a download has.                         *)
THEOREM RequestsStayAlive == SumSpec => []RequestsAreAlive
<1> DEFINE Inv == Solo!IInv /\ Solo!AliveInv
<1>1. SumInit => Inv
  BY BetweenPeersAssumption, EachStarts, Solo!InitType, Solo!InitInv, Solo!InitAlive DEF Solo!IInv
<1>2. Inv /\ [SumNext]_sumVars => Inv'
  BY BetweenPeersAssumption, EachMoves, Solo!NextInv, Solo!AliveStep
<1>3. Inv => RequestsAreAlive
  BY BetweenPeersAssumption, Solo!AliveMeans DEF RequestsAreAlive, Solo!IInv
<1> QED
  BY <1>1, <1>2, <1>3, PTL DEF SumSpec

(* A pass that has looked at a peer leaves it nothing it could be asked for.*)
THEOREM PlansKeepPeersBusy == SumSpec => PlanKeepsPeersBusy
<1> DEFINE Inv == Solo!IInv /\ Solo!AliveInv
<1>1. SumInit => Inv
  BY BetweenPeersAssumption, EachStarts, Solo!InitType, Solo!InitInv, Solo!InitAlive DEF Solo!IInv
<1>2. Inv /\ [SumNext]_sumVars => Inv'
  BY BetweenPeersAssumption, EachMoves, Solo!NextInv, Solo!AliveStep
<1>3. Inv => [part = "solo" => Solo!PlansWell]_sumVars
  BY BetweenPeersAssumption, Solo!PlanIsExhausted
<1> QED
  BY <1>1, <1>2, <1>3, PTL DEF SumSpec, PlanKeepsPeersBusy

(* Rarest-first never reads a count below what is tracked, for any swarm.   *)
THEOREM AvailabilityStaysCovered == SumSpec => []AvailabilityCoversTracked
<1> DEFINE Inv == Side!ViewInv /\ Side!SwarmTypeOK
<1>1. SumInit => Inv
  BY BetweenPeersAssumption, EachStarts, Side!ViewInvInit, Side!SwarmTypeInit
<1>2. Inv /\ [SumNext]_sumVars => Inv'
  BY BetweenPeersAssumption, EachMoves, Side!ViewInvStep, Side!SwarmTypeStep
<1>3. Inv => AvailabilityCoversTracked
  BY BetweenPeersAssumption, Side!ViewMeans DEF AvailabilityCoversTracked
<1> QED
  BY <1>1, <1>2, <1>3, PTL DEF SumSpec

(* No slot of the pool leaks, and what we dial fits the cap, for any pool   *)
(* whose callers are not also dialled.                                      *)
THEOREM PoolStaysAccounted ==
  ASSUME Listeners \cap Callers = {}
  PROVE  SumSpec => []PoolIsAccounted
<1> DEFINE Inv == Side!PoolInv /\ Side!DialledWithinCap
<1>1. SumInit => Inv
  BY BetweenPeersAssumption, EachStarts, Side!PoolInvInit
<1>2. Inv /\ [SumNext]_sumVars => Inv'
  BY BetweenPeersAssumption, EachMoves, Side!PoolInvStep
<1>3. Inv => PoolIsAccounted
  BY Side!PoolMeans DEF PoolIsAccounted, Side!PoolInv
<1> QED
  BY <1>1, <1>2, <1>3, PTL DEF SumSpec

(* What is queued, sent and paid for is right for any peers and limits.     *)
THEOREM SendsStayAllowed == SumSpec => []SendsAreAllowed
<1> DEFINE Inv == Side!UpInv /\ Side!UpTypeOK /\ Side!SendsAreAllowed /\ Side!PaceInv
<1>1. SumInit => Inv
  BY BetweenPeersAssumption, EachStarts, Side!UpInvInit, Side!UpTypeInit, Side!SendsInit,
     Side!PaceInvInit
<1>2. Inv /\ [SumNext]_sumVars => Inv'
  BY BetweenPeersAssumption, EachMoves, Side!UpInvStep, Side!UpTypeStep, Side!SendsStep,
     Side!PaceInvStep
<1>3. Inv => SendsAreAllowed
  BY Side!QueuesMean, Side!PaceMeans DEF SendsAreAllowed, Side!PaceInv
<1> QED
  BY <1>1, <1>2, <1>3, PTL DEF SumSpec

(* Whoever has closed a connection finds it over, and its end is told once, *)
(* with any number of tasks that close it and of messages before the end.   *)
THEOREM ConnectionsStayEnded == SumSpec => []ConnectionsEndOnce
<1>1. SumInit => Side!WireInv
  BY BetweenPeersAssumption, EachStarts, Side!WireInvStart
<1>2. Side!WireInv /\ [SumNext]_sumVars => Side!WireInv'
  BY BetweenPeersAssumption, EachMoves, Side!WireInvStep, Side!WireInvStays
<1>3. Side!WireInv => ConnectionsEndOnce
  BY Side!WireInvMeans DEF ConnectionsEndOnce
<1> QED
  BY <1>1, <1>2, <1>3, PTL DEF SumSpec

(* The two ends of a connection mean the same, with whatever numbers, names *)
(* and torrents, and when one of them runs other code.                      *)
THEOREM PeersStayUnderstood == SumSpec => []PeersUnderstandEachOther
<1>1. SumInit => Side!ExtInv
  BY BetweenPeersAssumption, EachStarts, Side!ExtInvStart
<1>2. Side!ExtInv /\ [SumNext]_sumVars => Side!ExtInv'
  BY BetweenPeersAssumption, EachMoves, Side!ExtInvStep
<1>3. Side!ExtInv => PeersUnderstandEachOther
  BY BetweenPeersAssumption, Side!ExtInvMeans DEF PeersUnderstandEachOther
<1> QED
  BY <1>1, <1>2, <1>3, PTL DEF SumSpec

(* A connected peer has been told what its ledger says, for any swarm, any  *)
(* caps and however often peers come back.                                  *)
THEOREM LedgersStayTold == SumSpec => []LedgerIsTold
<1>1. SumInit => Side!PexInv
  BY BetweenPeersAssumption, EachStarts, Side!PexInvStart
<1>2. Side!PexInv /\ [SumNext]_sumVars => Side!PexInv'
  BY BetweenPeersAssumption, EachMoves, Side!PexInvStep
<1>3. Side!PexInv => LedgerIsTold
  BY BetweenPeersAssumption, Side!PexInvMeans DEF LedgerIsTold, Side!PexInv
<1> QED
  BY <1>1, <1>2, <1>3, PTL DEF SumSpec
=============================================================================
