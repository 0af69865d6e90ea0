------------------------------ MODULE Download ------------------------------
(***************************************************************************)
(* One torrent's download: the pieces and their blocks (piece.py), the      *)
(* request scheduler (scheduler.py), the endgame tracker (endgame.py) and   *)
(* the manager's scheduling loop, peer callbacks and verification tasks     *)
(* (manager.py).                                                            *)
(*                                                                          *)
(* The program is one asyncio loop: code between two awaits is atomic.  A   *)
(* synchronous stretch that loops over requests (Scheduler.expire and       *)
(* Scheduler.plan) is several steps here, one per request, during which no  *)
(* other actor may move (Yielded).  Peer connections, peer read loops, the  *)
(* clock and the verification tasks interleave everywhere else.             *)
(*                                                                          *)
(* Abstractions.  Block contents are "what the metainfo promises" or        *)
(* corrupt.  Time is counted in ticks since a request was stamped, up to    *)
(* the block timeout.  A peer's holdings are a constant of the model: how   *)
(* they are learnt is module SwarmView.  The order the piece selector gives *)
(* to pieces nobody has started is any order, which covers its three        *)
(* strategies.                                                              *)
(***************************************************************************)
EXTENDS Integers, FiniteSets

CONSTANTS
  Peers,            \* peer identities (host:port, see peer_key)
  NoPeer,           \* "no peer is being planned for"
  Pieces,           \* piece indices
  BlockCount,       \* number of blocks of each piece
  Holds,            \* the pieces each peer holds (its bitfield)
  Corruptors,       \* peers that may send bytes that fail the piece hash
  Limit,            \* DownloadConfig.max_outstanding_requests
  EndgameEnabled,   \* DownloadConfig.endgame_enabled
  Threshold,        \* DownloadConfig.endgame_threshold
  EndgameDelay,     \* DownloadConfig.endgame_delay, in ticks
  BlockTimeout,     \* the block timeout of _reclaim_expired, in ticks
  DiskMayFail       \* whether StorageManager may raise AllocationError

ASSUME PeersAssumption ==
  /\ IsFiniteSet(Peers)
  /\ NoPeer \notin Peers
  /\ Corruptors \subseteq Peers

ASSUME PiecesAssumption ==
  /\ IsFiniteSet(Pieces)
  /\ Pieces \subseteq Nat
  /\ BlockCount \in [Pieces -> Nat \ {0}]
  /\ Holds \in [Peers -> SUBSET Pieces]

ASSUME ConfigAssumption ==
  /\ Limit \in Nat \ {0}
  /\ EndgameEnabled \in BOOLEAN
  /\ Threshold \in Nat
  /\ EndgameDelay \in Nat
  /\ BlockTimeout \in Nat \ {0}
  /\ DiskMayFail \in BOOLEAN

(* A block is identified by its piece and its position in the piece.       *)
KeysOf(i) == {i} \X (0 .. BlockCount[i] - 1)
Keys == UNION {KeysOf(i) : i \in Pieces}

PieceStates == {"missing", "requested", "downloading", "downloaded",
                "verifying", "verified"}
BlockStates == {"missing", "requested", "received"}
ConnStates  == {"up", "closing", "down"}
LoopStates  == {"stopped", "idle", "expiring", "interest", "planning",
                "sending", "finished"}
TaskStates  == {"none", "queued", "good", "bad"}

(* Scheduler._unclaimed = None: recount on the next use.                   *)
NoCount == -1

VARIABLES
  pstate,     \* Piece.state
  bstate,     \* Piece._states, by block key
  breq,       \* Piece._requesters, by block key
  corrupt,    \* received blocks whose bytes are wrong (Piece._buffer)
  out,        \* PeerSlot.outstanding: the keys, by peer
  age,        \* PeerSlot.outstanding: ticks since each was stamped
  asked,      \* Scheduler._asked, by peer
  ereq,       \* EndgameTracker._requesters, by block key ({}: no entry)
  unclaimed,  \* Scheduler._unclaimed
  loop,       \* where DownloadManager._loop is
  todo,       \* peers of this pass not planned for yet
  cur,        \* the peer Scheduler.plan is filling
  sendq,      \* assignments of this pass not sent yet
  conn,       \* PeerConnection lifecycle, as the manager can observe it
  choked,     \* PeerSession.peer_choking
  task,       \* the verification task of each piece
  completed,  \* StorageManager._completed
  verified    \* DownloadManager._verified_pieces_set

pieceVars == <<pstate, bstate, breq, corrupt>>
schedVars == <<out, age, asked, ereq, unclaimed>>
loopVars  == <<loop, todo, cur, sendq>>
peerVars  == <<conn, choked>>
diskVars  == <<task, completed, verified>>
vars == <<pstate, bstate, breq, corrupt, out, age, asked, ereq, unclaimed,
          loop, todo, cur, sendq, conn, choked, task, completed, verified>>

-----------------------------------------------------------------------------
(* Views of the state.                                                      *)

InProgress(i) == pstate[i] \in {"requested", "downloading", "downloaded", "verifying"}
Finished(i)   == pstate[i] = "verified"
Complete      == verified = Pieces

Received(i) == {k \in KeysOf(i) : bstate[k] = "received"}

(* Scheduler.wanted: not verified and not being verified.                   *)
Wanted == {i \in Pieces : pstate[i] \notin {"verified", "verifying"}}

(* Blocks nobody has asked for, in pieces that are not finished.            *)
Unasked == {k \in Keys : bstate[k] = "missing" /\ ~Finished(k[1])}

(* Scheduler.unclaimed_blocks: the cached count, recounted when absent.     *)
UnclaimedBlocks == IF unclaimed = NoCount THEN Cardinality(Unasked) ELSE unclaimed

(* Nothing synchronous is running: another task may be scheduled.           *)
Yielded == loop \notin {"expiring", "planning"}

Up(p) == conn[p] = "up"

-----------------------------------------------------------------------------
(* Choosing the next block for a peer.                                      *)

Racing == EndgameEnabled /\ UnclaimedBlocks <= Threshold

(* Piece.requestable_block's test of one block.                             *)
Offerable(p, k) ==
  /\ bstate[k] # "received"
  /\ p \notin breq[k]
  /\ breq[k] = {} \/ Racing

(* Piece.requestable_block: the first block of the piece that qualifies.    *)
Offered(p, i) ==
  {k \in KeysOf(i) :
     /\ pstate[i] \notin {"verified", "verifying", "downloaded"}
     /\ Offerable(p, k)
     /\ \A j \in KeysOf(i) : Offerable(p, j) => k[2] <= j[2]}

(* Scheduler._stale: nobody holds a stamp, or the oldest has had its chance. *)
Stale(k) ==
  \/ \A p \in Peers : k \notin out[p]
  \/ \E p \in Peers : k \in out[p] /\ age[p][k] >= EndgameDelay

(* Faulty variant: a fresh request may be raced.                            *)
FairAlways(k) == TRUE

(* Scheduler._next_block's last test: do not race a fresh request.          *)
Fair(k) == ereq[k] = {} \/ Stale(k)

(* What the piece would give this peer, or nothing: a piece whose first     *)
(* qualifying block is being raced too early is skipped altogether.         *)
Gives(p, i) == {k \in Offered(p, i) : i \in Holds[p] /\ Fair(k)}

(* Scheduler._candidates: started pieces, most received first, then by      *)
(* index; then the wanted pieces nobody has started, in the selector's      *)
(* order.                                                                   *)
Precedes(i, j) ==
  \/ Cardinality(Received(i)) > Cardinality(Received(j))
  \/ Cardinality(Received(i)) = Cardinality(Received(j)) /\ i < j

(* Faulty variant: pieces nobody has started are never offered.             *)
NextBlocksStartedOnly(p) == UNION {Gives(p, i) : i \in {j \in Pieces : InProgress(j)}}

(* Scheduler._next_block: the block of the first candidate that gives one.  *)
NextBlocks(p) ==
  LET started == {i \in Pieces : InProgress(i) /\ Gives(p, i) # {}}
      fresh   == {i \in Wanted : ~InProgress(i) /\ Gives(p, i) # {}}
      first   == IF started # {}
                 THEN {i \in started : \A j \in started \ {i} : Precedes(i, j)}
                 ELSE fresh
  IN UNION {Gives(p, i) : i \in first}

(* Scheduler._usable: connected and not choking us.                         *)
Usable(p) == Up(p) /\ ~choked[p]

(* Faulty variant: off by one in PeerSlot.can_request.                      *)
HasRoomOffByOne(p) == Cardinality(out[p]) <= Limit
HasRoom(p) == Cardinality(out[p]) < Limit

-----------------------------------------------------------------------------
(* DownloadManager.__init__ and build_pieces.  Pieces that storage found    *)
(* complete on disk start VERIFIED, with their blocks MISSING.              *)
Init ==
  /\ completed \in SUBSET Pieces
  /\ verified  = completed
  /\ pstate    = [i \in Pieces |-> IF i \in completed THEN "verified" ELSE "missing"]
  /\ bstate    = [k \in Keys |-> "missing"]
  /\ breq      = [k \in Keys |-> {}]
  /\ corrupt   = {}
  /\ out       = [p \in Peers |-> {}]
  /\ age       = [p \in Peers |-> [k \in Keys |-> 0]]
  /\ asked     = [p \in Peers |-> {}]
  /\ ereq      = [k \in Keys |-> {}]
  /\ unclaimed = NoCount
  /\ loop      = "stopped"
  /\ todo      = {}
  /\ cur       = NoPeer
  /\ sendq     = {}
  /\ conn      = [p \in Peers |-> "down"]
  /\ choked    = [p \in Peers |-> TRUE]
  /\ task      = [i \in Pieces |-> "none"]

-----------------------------------------------------------------------------
(* Giving requests back.                                                    *)

FreedTooLate(p, K) == {k \in K : bstate[k] = "requested" /\ breq[k] = {}}

(* Piece.mark_orphaned on every key of K for peer p, with the count that    *)
(* Scheduler._unclaim keeps.                                                *)
Freed(p, K) == {k \in K : bstate[k] = "requested" /\ breq[k] \ {p} = {}}

Unclaim(p, K) ==
  /\ breq' = [k \in Keys |-> IF k \in K THEN breq[k] \ {p} ELSE breq[k]]
  /\ bstate' = [k \in Keys |-> IF k \in Freed(p, K) THEN "missing" ELSE bstate[k]]
  /\ unclaimed' = IF unclaimed = NoCount THEN NoCount
                  ELSE unclaimed + Cardinality(Freed(p, K))

(* Faulty variant: the endgame tracker is not told.                         *)
NoteOrphanedUntracked(p, k) ==
  /\ out' = [out EXCEPT ![p] = @ \ {k}]
  /\ age' = [age EXCEPT ![p][k] = 0]
  /\ Unclaim(p, {k})
  /\ UNCHANGED <<pstate, corrupt, asked, ereq>>

(* Scheduler.note_orphaned: the piece forgets the request only when the     *)
(* endgame tracker says that nobody is fetching the block any more.         *)
NoteOrphaned(p, k) ==
  /\ out' = [out EXCEPT ![p] = @ \ {k}]
  /\ age' = [age EXCEPT ![p][k] = 0]
  /\ ereq' = [ereq EXCEPT ![k] = @ \ {p}]
  /\ Unclaim(p, IF ereq[k] # {} /\ ereq[k] \subseteq {p} THEN {k} ELSE {})
  /\ UNCHANGED <<pstate, corrupt, asked>>

(* Scheduler.drop_peer: every outstanding request of the peer goes back.    *)
DropPeer(p) ==
  /\ out' = [out EXCEPT ![p] = {}]
  /\ age' = [age EXCEPT ![p] = [k \in Keys |-> 0]]
  /\ ereq' = [k \in Keys |-> IF k \in out[p] THEN ereq[k] \ {p} ELSE ereq[k]]
  /\ Unclaim(p, out[p])
  /\ asked' = [asked EXCEPT ![p] = {}]
  /\ UNCHANGED <<pstate, corrupt>>

-----------------------------------------------------------------------------
(* The scheduling loop.                                                     *)

(* DownloadManager.start.                                                   *)
Start ==
  /\ loop = "stopped"
  /\ loop' = "idle"
  /\ UNCHANGED <<todo, cur, sendq, pieceVars, schedVars, peerVars, diskVars>>

(* DownloadManager.stop: the loop task is cancelled at an await, so what it *)
(* planned and had not sent stays stamped in the pipelines.                 *)
Stop ==
  /\ loop \in {"idle", "interest", "sending", "finished"}
  /\ loop' = "stopped"
  /\ todo' = {}
  /\ sendq' = {}
  /\ UNCHANGED <<cur, pieceVars, schedVars, peerVars, diskVars>>

(* pump: the live peers are listed once, and the expired are given back.    *)
PumpBegin ==
  /\ loop = "idle"
  /\ loop' = "expiring"
  /\ todo' = {p \in Peers : Up(p)}
  /\ UNCHANGED <<cur, sendq, pieceVars, schedVars, peerVars, diskVars>>

(* pump -> _sync_peers: a peer whose socket died is dropped here when its   *)
(* disconnect has not been reported yet.                                    *)
SyncGone(p) ==
  /\ loop = "expiring"
  /\ conn[p] = "closing"
  /\ out[p] # {} \/ asked[p] # {}
  /\ DropPeer(p)
  /\ UNCHANGED <<loopVars, peerVars, diskVars>>

SyncDone == \A p \in Peers : conn[p] = "closing" => out[p] = {} /\ asked[p] = {}

(* Faulty variant: no request ever times out.                               *)
ExpiredNever(p) == {}
Expired(p) == {k \in out[p] : age[p][k] >= BlockTimeout}

(* pump -> _reclaim_expired -> Scheduler.expire, one request.  The order of *)
(* the requests is the dictionary's, which is any order.                    *)
ExpireOne(p, k) ==
  /\ loop = "expiring"
  /\ SyncDone
  /\ k \in Expired(p)
  /\ NoteOrphaned(p, k)
  /\ UNCHANGED <<loopVars, peerVars, diskVars>>

(* pump: the interest messages are awaited before the plan is made.         *)
ExpireDone ==
  /\ loop = "expiring"
  /\ SyncDone
  /\ \A p \in Peers : Expired(p) = {}
  /\ loop' = "interest"
  /\ UNCHANGED <<todo, cur, sendq, pieceVars, schedVars, peerVars, diskVars>>

(* Scheduler.plan starts: history of finished pieces is pruned.             *)
PlanBegin ==
  /\ loop = "interest"
  /\ loop' = "planning"
  /\ asked' = [p \in Peers |-> {k \in asked[p] : ~Finished(k[1])}]
  /\ UNCHANGED <<todo, cur, sendq, out, age, ereq, unclaimed, pieceVars,
                 peerVars, diskVars>>

(* plan: the peers are filled shortest pipeline first.                      *)
PlanPick(p) ==
  /\ loop = "planning" /\ cur = NoPeer
  /\ p \in todo
  /\ \A q \in todo : Cardinality(out[p]) <= Cardinality(out[q])
  /\ cur' = IF Usable(p) THEN p ELSE NoPeer
  /\ todo' = todo \ {p}
  /\ UNCHANGED <<loop, sendq, pieceVars, schedVars, peerVars, diskVars>>

(* Scheduler._claim: only a block nobody had asked for leaves the count.    *)
ClaimCost(k) == IF bstate[k] = "missing" THEN 1 ELSE 0

(* plan: one assignment, with _claim, note_request and _mark_asked.         *)
PlanAssign(p, k) ==
  /\ loop = "planning" /\ cur = p
  /\ HasRoom(p)
  /\ k \in NextBlocks(p)
  /\ k \notin out[p]
  /\ out' = [out EXCEPT ![p] = @ \cup {k}]
  /\ age' = [age EXCEPT ![p][k] = 0]
  /\ ereq' = [ereq EXCEPT ![k] = @ \cup {p}]
  /\ asked' = [asked EXCEPT ![p] = @ \cup {k}]
  /\ breq' = [breq EXCEPT ![k] = @ \cup {p}]
  /\ bstate' = [bstate EXCEPT ![k] = IF @ = "missing" THEN "requested" ELSE @]
  /\ unclaimed' = UnclaimedBlocks - ClaimCost(k)
  /\ pstate' = [pstate EXCEPT ![k[1]] = IF @ = "missing" THEN "requested" ELSE @]
  /\ sendq' = sendq \cup {<<p, k>>}
  /\ UNCHANGED <<corrupt, loop, todo, cur, peerVars, diskVars>>

(* plan: the pipeline is full, nothing is left for this peer, or (the       *)
(* defensive break) the block is already pending for it.                    *)
PlanPeerDone(p) ==
  /\ loop = "planning" /\ cur = p
  /\ HasRoom(p) => NextBlocks(p) = {} \/ NextBlocks(p) \cap out[p] # {}
  /\ cur' = NoPeer
  /\ unclaimed' = IF HasRoom(p) THEN UnclaimedBlocks ELSE unclaimed
  /\ UNCHANGED <<loop, todo, sendq, out, age, asked, ereq, pieceVars,
                 peerVars, diskVars>>

PlanEnd ==
  /\ loop = "planning" /\ cur = NoPeer /\ todo = {}
  /\ loop' = "sending"
  /\ UNCHANGED <<todo, cur, sendq, pieceVars, schedVars, peerVars, diskVars>>

(* pump: one request goes out ...                                           *)
SendOk(p, k) ==
  /\ loop = "sending" /\ <<p, k>> \in sendq
  /\ Up(p)
  /\ sendq' = sendq \ {<<p, k>>}
  /\ UNCHANGED <<loop, todo, cur, pieceVars, schedVars, peerVars, diskVars>>

(* ... or the socket refuses it (PeerError) and it is orphaned.             *)
SendFail(p, k) ==
  /\ loop = "sending" /\ <<p, k>> \in sendq
  /\ sendq' = sendq \ {<<p, k>>}
  /\ NoteOrphaned(p, k)
  /\ UNCHANGED <<loop, todo, cur, peerVars, diskVars>>

(* _loop: after the pass, finish when every piece is verified.              *)
PumpEnd ==
  /\ loop = "sending" /\ sendq = {}
  /\ loop' = IF Complete THEN "finished" ELSE "idle"
  /\ UNCHANGED <<todo, cur, sendq, pieceVars, schedVars, peerVars, diskVars>>

-----------------------------------------------------------------------------
(* A block arrives: DownloadManager.on_block.                               *)

(* Scheduler.note_received.                                                 *)
OutAfterReceipt(p, k) ==
  [q \in Peers |-> IF q = p \/ q \in ereq[k] THEN out[q] \ {k} ELSE out[q]]

NoteReceived(p, k) ==
  /\ out' = OutAfterReceipt(p, k)
  /\ age' = [q \in Peers |-> [age[q] EXCEPT ![k] = IF k \in out'[q] THEN @ ELSE 0]]
  /\ ereq' = [ereq EXCEPT ![k] = {}]
  /\ asked' = [asked EXCEPT ![p] = @ \ {k}]

(* A copy of a block of a piece that is stored or being stored.             *)
BlockTooLate(p, k) ==
  /\ pstate[k[1]] \in {"verified", "verifying"}
  /\ k \in asked[p]
  /\ NoteReceived(p, k)
  /\ UNCHANGED <<pieceVars, unclaimed, task>>

(* add_block accepts, and the piece still misses others.                    *)
BlockAccepted(p, k, good) ==
  /\ pstate[k[1]] \notin {"verified", "verifying"}
  /\ bstate[k] # "received"
  /\ Received(k[1]) # KeysOf(k[1]) \ {k}
  /\ bstate' = [bstate EXCEPT ![k] = "received"]
  /\ breq' = [breq EXCEPT ![k] = {}]
  /\ corrupt' = IF good THEN corrupt \ {k} ELSE corrupt \cup {k}
  /\ pstate' = [pstate EXCEPT ![k[1]] = "downloading"]
  /\ NoteReceived(p, k)
  /\ UNCHANGED <<unclaimed, task>>

(* add_block accepts the last block: cancel_piece, then _verify.            *)
PieceAssembled(p, k, good) ==
  LET i     == k[1]
      owing == OutAfterReceipt(p, k)
      left  == [j \in Keys |-> IF j = k THEN {} ELSE ereq[j]]
      gone(j) == {q \in Peers : j \in owing[q]}
  IN
  /\ pstate[i] \notin {"verified", "verifying"}
  /\ bstate[k] # "received"
  /\ Received(i) = KeysOf(i) \ {k}
  /\ bstate' = [bstate EXCEPT ![k] = "received"]
  /\ corrupt' = IF good THEN corrupt \ {k} ELSE corrupt \cup {k}
  /\ breq' = [j \in Keys |-> IF j = k THEN {}
                             ELSE IF j[1] = i THEN breq[j] \ gone(j) ELSE breq[j]]
  /\ out' = [q \in Peers |-> owing[q] \ KeysOf(i)]
  /\ age' = [q \in Peers |-> [j \in Keys |-> IF j \in out'[q] THEN age[q][j] ELSE 0]]
  /\ ereq' = [j \in Keys |-> IF j[1] = i THEN left[j] \ gone(j) ELSE ereq[j]]
  /\ asked' = [asked EXCEPT ![p] = @ \ {k}]
  /\ pstate' = [pstate EXCEPT ![i] = "verifying"]
  /\ task' = [task EXCEPT ![i] = "queued"]
  /\ UNCHANGED unclaimed

(* Any connected peer may send any block at any time: asked for, late,      *)
(* cancelled, or never requested.  A duplicate and an uninvited copy only   *)
(* move counters.                                                           *)
OnBlock(p, k, good) ==
  /\ Yielded /\ Up(p)
  /\ good \/ p \in Corruptors
  /\ \/ BlockTooLate(p, k)
     \/ BlockAccepted(p, k, good)
     \/ PieceAssembled(p, k, good)
  /\ UNCHANGED <<loopVars, peerVars, completed, verified>>

-----------------------------------------------------------------------------
(* Verification: _verify_piece and StorageManager.write_piece.              *)

(* Faulty variant: only the first block is hashed.                          *)
VerifyStartFirstBlock(i) ==
  /\ Yielded
  /\ task[i] = "queued"
  /\ task' = [task EXCEPT ![i] = IF <<i, 0>> \in corrupt THEN "bad" ELSE "good"]
  /\ UNCHANGED <<completed, verified, pieceVars, schedVars, loopVars, peerVars>>

(* The task starts: the buffer is copied and handed to the hash thread.     *)
VerifyStart(i) ==
  /\ Yielded
  /\ task[i] = "queued"
  /\ task' = [task EXCEPT ![i] =
                IF \E k \in KeysOf(i) : k \in corrupt THEN "bad" ELSE "good"]
  /\ UNCHANGED <<completed, verified, pieceVars, schedVars, loopVars, peerVars>>

(* The hash matched and the bytes are on disk.                              *)
VerifyPass(i) ==
  /\ Yielded
  /\ task[i] = "good"
  /\ task' = [task EXCEPT ![i] = "none"]
  /\ completed' = completed \cup {i}
  /\ verified' = verified \cup {i}
  /\ pstate' = [pstate EXCEPT ![i] = "verified"]
  /\ UNCHANGED <<bstate, breq, corrupt, schedVars, loopVars, peerVars>>

(* Faulty variant: mark_failed without reset.                               *)
VerifyFailNoReset(i) ==
  /\ Yielded
  /\ task[i] = "bad"
  /\ task' = [task EXCEPT ![i] = "none"]
  /\ pstate' = [pstate EXCEPT ![i] = "failed"]
  /\ UNCHANGED <<bstate, breq, corrupt, schedVars, completed, verified, loopVars, peerVars>>

(* PieceHashMismatch: mark_failed, reset, note_piece_reset.                 *)
VerifyFail(i) ==
  /\ Yielded
  /\ task[i] = "bad"
  /\ task' = [task EXCEPT ![i] = "none"]
  /\ pstate' = [pstate EXCEPT ![i] = "missing"]
  /\ bstate' = [k \in Keys |-> IF k[1] = i THEN "missing" ELSE bstate[k]]
  /\ breq' = [k \in Keys |-> IF k[1] = i THEN {} ELSE breq[k]]
  /\ corrupt' = corrupt \ KeysOf(i)
  /\ unclaimed' = NoCount
  /\ asked' = [p \in Peers |-> asked[p] \ KeysOf(i)]
  /\ UNCHANGED <<out, age, ereq, completed, verified, loopVars, peerVars>>

(* Faulty variant: a piece whose write failed is called complete.           *)
VerifyErrorIgnored(i) ==
  /\ DiskMayFail
  /\ Yielded
  /\ task[i] = "good"
  /\ task' = [task EXCEPT ![i] = "none"]
  /\ completed' = completed \cup {i}
  /\ UNCHANGED <<verified, pieceVars, schedVars, loopVars, peerVars>>

(* The write raises AllocationError: only the finally clause runs, and the  *)
(* task ends with the piece as it was.                                      *)
VerifyError(i) ==
  /\ DiskMayFail
  /\ Yielded
  /\ task[i] = "good"
  /\ task' = [task EXCEPT ![i] = "none"]
  /\ UNCHANGED <<completed, verified, pieceVars, schedVars, loopVars, peerVars>>

-----------------------------------------------------------------------------
(* Peers and time.                                                          *)

(* A connection completes its handshake: PeerSession starts choked.         *)
PeerConnect(p) ==
  /\ Yielded
  /\ conn[p] = "down"
  /\ conn' = [conn EXCEPT ![p] = "up"]
  /\ choked' = [choked EXCEPT ![p] = TRUE]
  /\ UNCHANGED <<pieceVars, schedVars, loopVars, diskVars>>

(* PeerSession.apply on choke and unchoke.                                  *)
PeerChoke(p) ==
  /\ Yielded /\ Up(p)
  /\ choked' = [choked EXCEPT ![p] = ~@]
  /\ UNCHANGED <<conn, pieceVars, schedVars, loopVars, diskVars>>

(* The socket dies; nothing has been reported yet.  The connection object   *)
(* listed by a pass under way is dead for the rest of that pass.            *)
PeerLost(p) ==
  /\ Yielded /\ Up(p)
  /\ conn' = [conn EXCEPT ![p] = "closing"]
  /\ todo' = todo \ {p}
  /\ UNCHANGED <<choked, loop, cur, sendq, pieceVars, schedVars, diskVars>>

(* The reaper reports it: DownloadManager.on_disconnect.                    *)
OnDisconnect(p) ==
  /\ Yielded
  /\ conn[p] = "closing"
  /\ conn' = [conn EXCEPT ![p] = "down"]
  /\ DropPeer(p)
  /\ UNCHANGED <<choked, loopVars, diskVars>>

(* Time passes for every outstanding request at once.                       *)
Tick ==
  /\ Yielded
  /\ age' = [p \in Peers |-> [k \in Keys |->
               IF k \in out[p] /\ age[p][k] < BlockTimeout
               THEN age[p][k] + 1 ELSE age[p][k]]]
  /\ UNCHANGED <<out, asked, ereq, unclaimed, pieceVars, loopVars, peerVars, diskVars>>

-----------------------------------------------------------------------------
Loop ==
  \/ Start \/ Stop \/ PumpBegin \/ ExpireDone \/ PlanBegin \/ PlanEnd \/ PumpEnd
  \/ \E p \in Peers : SyncGone(p) \/ PlanPick(p) \/ PlanPeerDone(p)
  \/ \E p \in Peers, k \in Keys :
       ExpireOne(p, k) \/ PlanAssign(p, k) \/ SendOk(p, k) \/ SendFail(p, k)

Verification ==
  \E i \in Pieces : VerifyStart(i) \/ VerifyPass(i) \/ VerifyFail(i) \/ VerifyError(i)

Environment ==
  \/ Tick
  \/ \E p \in Peers : PeerConnect(p) \/ PeerChoke(p) \/ PeerLost(p) \/ OnDisconnect(p)
  \/ \E p \in Peers, k \in Keys, good \in BOOLEAN : OnBlock(p, k, good)

Next == Loop \/ Verification \/ Environment

Spec == Init /\ [][Next]_vars

(* The asyncio loop runs every ready task: the scheduling loop, the         *)
(* verification tasks and the reaper's callback, and the clock goes on.     *)
(* These three are strongly fair because the steps of one synchronous       *)
(* stretch, which is a single step of the program, switch them off.         *)
(* Peers: a send that keeps being tried on a live socket gets through, once *)
(* in a while before the clock ticks, and an unchoking peer that is asked   *)
(* for a block again and again sends it in time.  A single request may be   *)
(* lost: to a choke, to a stop between its stamp and its send, or to the    *)
(* peer.                                                                    *)
PumpStep ==
  \/ PumpBegin \/ ExpireDone \/ PlanBegin \/ PlanEnd \/ PumpEnd
  \/ \E p \in Peers : SyncGone(p) \/ PlanPick(p) \/ PlanPeerDone(p)
  \/ \E p \in Peers, k \in Keys :
       ExpireOne(p, k) \/ PlanAssign(p, k) \/ (~Up(p) /\ SendFail(p, k))

SendAtOnce(p, k) == age[p][k] = 0 /\ SendOk(p, k)

Answer(p, k) ==
  /\ ~choked[p]
  /\ <<p, k>> \notin sendq /\ k \in out[p] /\ age[p][k] < BlockTimeout
  /\ OnBlock(p, k, TRUE)

Fairness ==
  /\ WF_vars(PumpStep)
  /\ SF_vars(Verification)
  /\ SF_vars(Tick)
  /\ \A p \in Peers : SF_vars(OnDisconnect(p))
  /\ \A p \in Peers, k \in Keys :
       SF_vars(SendOk(p, k)) /\ SF_vars(SendAtOnce(p, k)) /\ SF_vars(Answer(p, k))

FairSpec == Spec /\ Fairness

-----------------------------------------------------------------------------
(* Properties.                                                              *)

TypeOK ==
  /\ pstate \in [Pieces -> PieceStates]
  /\ bstate \in [Keys -> BlockStates]
  /\ breq \in [Keys -> SUBSET Peers]
  /\ corrupt \subseteq Keys
  /\ out \in [Peers -> SUBSET Keys]
  /\ age \in [Peers -> [Keys -> 0 .. BlockTimeout]]
  /\ asked \in [Peers -> SUBSET Keys]
  /\ ereq \in [Keys -> SUBSET Peers]
  /\ unclaimed \in Int
  /\ loop \in LoopStates
  /\ todo \subseteq Peers
  /\ cur \in Peers \cup {NoPeer}
  /\ sendq \subseteq Peers \X Keys
  /\ conn \in [Peers -> ConnStates]
  /\ choked \in [Peers -> BOOLEAN]
  /\ task \in [Pieces -> TaskStates]
  /\ completed \subseteq Pieces
  /\ verified \subseteq Pieces

(* The pipelines and the endgame tracker never disagree about who is        *)
(* fetching a block: every path that takes a request out of one takes it    *)
(* out of the other.                                                        *)
PipelinesMatchTracker ==
  \A p \in Peers, k \in Keys : k \in out[p] <=> p \in ereq[k]

(* A request that is out is known to its piece, so the piece will not offer *)
(* the block to that peer again, and the block is not counted as free.      *)
OutstandingIsClaimed ==
  \A k \in Keys : ereq[k] # {} => ereq[k] \subseteq breq[k] /\ bstate[k] = "requested"

(* Nothing is outstanding for a piece that is being stored or is stored:    *)
(* completing a piece withdraws every request for it.  Only a piece whose   *)
(* blocks have all arrived is stored.                                       *)
NothingOutstandingOnceAssembled ==
  \A k \in Keys :
     /\ pstate[k[1]] = "verifying" => bstate[k] = "received"
     /\ pstate[k[1]] \in {"verifying", "verified"} => \A p \in Peers : k \notin out[p]

(* Every outstanding request is remembered in the history, so a copy that   *)
(* comes home late is told apart from data nobody asked for.                *)
OutstandingIsRemembered == \A p \in Peers : out[p] \subseteq asked[p]

(* The pipelines, the endgame's tracker, the claims of the pieces and the   *)
(* history of requests agree on who was asked for what, and nobody is asked *)
(* for a piece that is whole.                                               *)
RequestsAgree ==
  /\ PipelinesMatchTracker /\ OutstandingIsClaimed /\ OutstandingIsRemembered
  /\ NothingOutstandingOnceAssembled

(* The pieces the manager calls verified, the pieces in state VERIFIED and  *)
(* the pieces storage calls complete are the same set.                      *)
VerifiedAgree ==
  /\ verified = completed
  /\ \A i \in Pieces : i \in verified <=> pstate[i] = "verified"

(* Only pieces made of good blocks are on disk, whoever sent what and in    *)
(* whichever order copies of a block arrived.                               *)
DiskIntegrity == \A k \in corrupt : k[1] \notin completed

(* A pipeline never holds more than max_outstanding_requests.               *)
PipelineBound == \A p \in Peers : Cardinality(out[p]) <= Limit

(* The cached count of unclaimed blocks never falls below the real one, so  *)
(* endgame never starts while more than Threshold blocks are up for grabs.  *)
CountNeverLow ==
  unclaimed # NoCount => unclaimed >= Cardinality(Unasked)

(* No peer is asked for more than it was promised to be, and the count that *)
(* decides when the endgame begins errs on the late side only.              *)
RequestsAreCounted == PipelineBound /\ CountNeverLow

(* A block is raced only when at most Threshold blocks are really up for    *)
(* grabs and some earlier request for it has waited EndgameDelay.           *)
RaceOnlyAtTheEnd ==
  [][\A k \in Keys : ereq[k] # {} /\ ~(ereq'[k] \subseteq ereq[k]) =>
       /\ EndgameEnabled
       /\ Cardinality(Unasked) <= Threshold
       /\ \E p \in Peers : k \in out[p] /\ age[p][k] >= EndgameDelay]_vars

(* A block counted as requested is being fetched by someone: a request that *)
(* timed out or whose peer left puts its block back in the pool.            *)
RequestedIsOutstanding ==
  \A k \in Keys : bstate[k] = "requested" => \E p \in Peers : k \in out[p]

(* Without endgame no block is ever asked of two peers at once.             *)
OneRequesterPerBlock ==
  ~EndgameEnabled => \A k \in Keys, p, q \in Peers : k \in out[p] \cap out[q] => p = q

(* A piece in state VERIFYING has a task that will decide its fate: no      *)
(* piece is parked where neither the scheduler nor a task will touch it.    *)
VerifyingHasTask ==
  \A i \in Pieces : pstate[i] = "verifying" <=> task[i] # "none"

(* Without the endgame: the three above.                                    *)
RequestsAreAlive ==
  RequestedIsOutstanding /\ OneRequesterPerBlock /\ VerifyingHasTask

(* The scheduler stops filling a usable peer only when its pipeline is full *)
(* or no unclaimed block of a piece it holds is left.                       *)
PlansWell ==
  \A p \in Peers : PlanPeerDone(p) /\ HasRoom(p) =>
    \A k \in Unasked : k[1] \notin Holds[p]
PlanKeepsPeersBusy == [][PlansWell]_vars

(* If the loop is left running, peers stop coming, going and changing their *)
(* minds, corrupt data stops arriving and one seed stays connected and      *)
(* unchoking, the torrent completes.  (A peer that returns, or unchokes us, *)
(* for ever only to be asked first and leave again does starve it.)         *)
DownloadCompletes ==
  \A p \in Peers :
    /\ Holds[p] = Pieces
    /\ <>[](Usable(p) /\ loop # "stopped")
    /\ <>[][peerVars' = peerVars /\ corrupt' \subseteq corrupt]_vars
    => <>Complete
=============================================================================
