--------------------------- MODULE DownloadProofs ---------------------------
(***************************************************************************)
(* Machine-checked proofs about module Download, for every swarm, torrent   *)
(* geometry and configuration that its assumptions admit.                   *)
(***************************************************************************)
EXTENDS Download, FiniteSetTheorems, TLAPS

-----------------------------------------------------------------------------
(* Block keys.                                                              *)

(* A block key is a pair of a piece and a block number of that piece.       *)
LEMMA KeyShape ==
  /\ \A k \in Keys : k[1] \in Pieces /\ k \in KeysOf(k[1])
  /\ \A i \in Pieces : \A k \in KeysOf(i) : k \in Keys /\ k[1] = i
  BY PiecesAssumption DEF Keys, KeysOf

(* There are finitely many blocks, so counting them yields a number.        *)
LEMMA KeysFinite == IsFiniteSet(Keys)
<1>1. \A i \in Pieces : IsFiniteSet(KeysOf(i))
  <2> SUFFICES ASSUME NEW i \in Pieces PROVE IsFiniteSet(KeysOf(i))
    OBVIOUS
  <2>1. IsFiniteSet({i})
    BY FS_Singleton
  <2>2. 0 \in Int /\ BlockCount[i] - 1 \in Int
    BY PiecesAssumption
  <2>3. IsFiniteSet(0 .. BlockCount[i] - 1)
    BY <2>2, FS_Interval
  <2> QED
    BY <2>1, <2>3, FS_Product DEF KeysOf
<1>2. IsFiniteSet({KeysOf(i) : i \in Pieces})
  <2> DEFINE f == [i \in Pieces |-> KeysOf(i)]
  <2>1. f \in Surjection(Pieces, {KeysOf(i) : i \in Pieces})
    BY DEF Surjection
  <2> QED
    BY <2>1, PiecesAssumption, FS_Surjection
<1> QED
  BY <1>1, <1>2, FS_UNION DEF Keys

(* Every set of blocks has a number of elements.                            *)
LEMMA CountOfKeys == ASSUME NEW S \in SUBSET Keys PROVE Cardinality(S) \in Nat
  BY KeysFinite, FS_Subset, FS_CardinalityType

-----------------------------------------------------------------------------
(* Type correctness.                                                        *)

(* A new DownloadManager starts well typed.                                 *)
LEMMA InitType == Init => TypeOK
  BY PeersAssumption, ConfigAssumption
  DEF Init, TypeOK, PieceStates, BlockStates, ConnStates, LoopStates,
      TaskStates, NoCount

(* The bookkeeping of a request given back keeps its types.                 *)
LEMMA UnclaimType ==
  ASSUME TypeOK, NEW p \in Peers, NEW K \in SUBSET Keys, Unclaim(p, K)
  PROVE  /\ breq' \in [Keys -> SUBSET Peers]
         /\ bstate' \in [Keys -> BlockStates]
         /\ unclaimed' \in Int
<1>1. Cardinality(Freed(p, K)) \in Nat
  BY CountOfKeys DEF Freed
<1> QED
  BY <1>1 DEF TypeOK, Unclaim, BlockStates, NoCount

(* Scheduler.note_orphaned keeps the types.                                 *)
LEMMA NoteOrphanedType ==
  ASSUME TypeOK, NEW p \in Peers, NEW k \in Keys, NoteOrphaned(p, k)
  PROVE  /\ out' \in [Peers -> SUBSET Keys]
         /\ age' \in [Peers -> [Keys -> 0 .. BlockTimeout]]
         /\ ereq' \in [Keys -> SUBSET Peers]
         /\ breq' \in [Keys -> SUBSET Peers]
         /\ bstate' \in [Keys -> BlockStates]
         /\ unclaimed' \in Int
<1> DEFINE K == IF ereq[k] # {} /\ ereq[k] \subseteq {p} THEN {k} ELSE {}
<1>1. K \in SUBSET Keys /\ Unclaim(p, K)
  BY DEF NoteOrphaned
<1> HIDE DEF K
<1>2. /\ breq' \in [Keys -> SUBSET Peers]
      /\ bstate' \in [Keys -> BlockStates]
      /\ unclaimed' \in Int
  BY <1>1, UnclaimType
<1>3. out' \in [Peers -> SUBSET Keys] /\ ereq' \in [Keys -> SUBSET Peers]
  BY DEF TypeOK, NoteOrphaned
<1>4. age' \in [Peers -> [Keys -> 0 .. BlockTimeout]]
  <2>1. 0 \in 0 .. BlockTimeout
    BY ConfigAssumption
  <2> HIDE DEF K
  <2> QED
    BY <2>1 DEF TypeOK, NoteOrphaned
<1> QED
  BY <1>2, <1>3, <1>4

(* Scheduler.drop_peer keeps the types.                                     *)
LEMMA DropPeerType ==
  ASSUME TypeOK, NEW p \in Peers, DropPeer(p)
  PROVE  /\ out' \in [Peers -> SUBSET Keys]
         /\ age' \in [Peers -> [Keys -> 0 .. BlockTimeout]]
         /\ asked' \in [Peers -> SUBSET Keys]
         /\ ereq' \in [Keys -> SUBSET Peers]
         /\ breq' \in [Keys -> SUBSET Peers]
         /\ bstate' \in [Keys -> BlockStates]
         /\ unclaimed' \in Int
<1>1. out[p] \in SUBSET Keys /\ Unclaim(p, out[p])
  BY DEF DropPeer, TypeOK
<1>2. /\ breq' \in [Keys -> SUBSET Peers]
      /\ bstate' \in [Keys -> BlockStates]
      /\ unclaimed' \in Int
  BY <1>1, UnclaimType
<1> QED
  BY <1>2, ConfigAssumption DEF TypeOK, DropPeer

(* Scheduler.note_received keeps the types.                                 *)
LEMMA NoteReceivedType ==
  ASSUME TypeOK, NEW p \in Peers, NEW k \in Keys, NoteReceived(p, k)
  PROVE  /\ out' \in [Peers -> SUBSET Keys]
         /\ age' \in [Peers -> [Keys -> 0 .. BlockTimeout]]
         /\ asked' \in [Peers -> SUBSET Keys]
         /\ ereq' \in [Keys -> SUBSET Peers]
  BY ConfigAssumption DEF TypeOK, NoteReceived, OutAfterReceipt

(* The count consulted by the planner is a number.                          *)
LEMMA UnclaimedBlocksType == TypeOK => UnclaimedBlocks \in Int
<1>1. Cardinality(Unasked) \in Nat
  BY CountOfKeys DEF Unasked
<1> QED
  BY <1>1 DEF TypeOK, UnclaimedBlocks

(* A planned block is a block of a piece of the torrent that can still be   *)
(* asked of this peer.                                                      *)
LEMMA NextBlocksAreRequestable ==
  ASSUME NEW p \in Peers, NEW k \in NextBlocks(p)
  PROVE  /\ k \in Keys
         /\ bstate[k] # "received"
         /\ p \notin breq[k]
         /\ pstate[k[1]] \notin {"verified", "verifying", "downloaded"}
<1>1. PICK i \in Pieces : k \in Gives(p, i)
  BY DEF NextBlocks, Wanted
<1>2. k \in Offered(p, i)
  BY <1>1 DEF Gives
<1>3. k \in KeysOf(i)
  BY <1>2 DEF Offered
<1>4. k \in Keys /\ k[1] = i
  BY <1>3, KeyShape
<1> QED
  BY <1>2, <1>4 DEF Offered, Offerable

(* Assigning a block in Scheduler.plan keeps the types.                     *)
LEMMA PlanAssignType ==
  ASSUME TypeOK, NEW p \in Peers, NEW k \in Keys, PlanAssign(p, k)
  PROVE  TypeOK'
<1>1. unclaimed' \in Int
  BY UnclaimedBlocksType DEF PlanAssign, ClaimCost
<1>2. 0 \in 0 .. BlockTimeout /\ k[1] \in Pieces
  BY ConfigAssumption, KeyShape
<1>3. /\ out' \in [Peers -> SUBSET Keys]
      /\ age' \in [Peers -> [Keys -> 0 .. BlockTimeout]]
      /\ ereq' \in [Keys -> SUBSET Peers]
      /\ asked' \in [Peers -> SUBSET Keys]
  BY <1>2 DEF TypeOK, PlanAssign
<1>4. /\ breq' \in [Keys -> SUBSET Peers]
      /\ bstate' \in [Keys -> BlockStates]
      /\ pstate' \in [Pieces -> PieceStates]
      /\ sendq' \subseteq Peers \X Keys
  BY <1>2 DEF TypeOK, PlanAssign, BlockStates, PieceStates
<1> QED
  BY <1>1, <1>3, <1>4 DEF TypeOK, PlanAssign, peerVars, diskVars

(* A step of the scheduling loop keeps the types.                           *)
LEMMA LoopType == ASSUME TypeOK, Loop PROVE TypeOK'
<1> USE DEF loopVars, pieceVars, schedVars, peerVars, diskVars
<1>1. CASE Start
  BY <1>1 DEF TypeOK, Start, LoopStates
<1>2. CASE Stop
  BY <1>2 DEF TypeOK, Stop, LoopStates
<1>3. CASE PumpBegin
  BY <1>3 DEF TypeOK, PumpBegin, LoopStates
<1>4. CASE ExpireDone
  BY <1>4 DEF TypeOK, ExpireDone, LoopStates
<1>5. CASE PlanBegin
  BY <1>5 DEF TypeOK, PlanBegin, LoopStates
<1>6. CASE PlanEnd
  BY <1>6 DEF TypeOK, PlanEnd, LoopStates
<1>7. CASE PumpEnd
  BY <1>7 DEF TypeOK, PumpEnd, LoopStates
<1>8. ASSUME NEW p \in Peers, SyncGone(p) PROVE TypeOK'
  <2>1. DropPeer(p)
    BY <1>8 DEF SyncGone
  <2> QED
    BY <1>8, <2>1, DropPeerType DEF TypeOK, SyncGone, DropPeer
<1>9. ASSUME NEW p \in Peers, PlanPick(p) PROVE TypeOK'
  BY <1>9 DEF TypeOK, PlanPick
<1>10. ASSUME NEW p \in Peers, PlanPeerDone(p) PROVE TypeOK'
  BY <1>10, UnclaimedBlocksType DEF TypeOK, PlanPeerDone
<1>11. ASSUME NEW p \in Peers, NEW k \in Keys, ExpireOne(p, k) PROVE TypeOK'
  <2>1. NoteOrphaned(p, k)
    BY <1>11 DEF ExpireOne
  <2> QED
    BY <1>11, <2>1, NoteOrphanedType DEF TypeOK, ExpireOne, NoteOrphaned
<1>12. ASSUME NEW p \in Peers, NEW k \in Keys, PlanAssign(p, k) PROVE TypeOK'
  BY <1>12, PlanAssignType
<1>13. ASSUME NEW p \in Peers, NEW k \in Keys, SendOk(p, k) PROVE TypeOK'
  BY <1>13 DEF TypeOK, SendOk
<1>14. ASSUME NEW p \in Peers, NEW k \in Keys, SendFail(p, k) PROVE TypeOK'
  <2>1. NoteOrphaned(p, k)
    BY <1>14 DEF SendFail
  <2> QED
    BY <1>14, <2>1, NoteOrphanedType DEF TypeOK, SendFail, NoteOrphaned
<1> QED
  BY <1>1, <1>2, <1>3, <1>4, <1>5, <1>6, <1>7, <1>8, <1>9, <1>10, <1>11,
     <1>12, <1>13, <1>14 DEF Loop

(* Completing and cancelling a piece keeps the types.                       *)
LEMMA PieceAssembledType ==
  ASSUME TypeOK, NEW p \in Peers, NEW k \in Keys, NEW good \in BOOLEAN,
         PieceAssembled(p, k, good)
  PROVE  /\ pstate' \in [Pieces -> PieceStates]
         /\ bstate' \in [Keys -> BlockStates]
         /\ breq' \in [Keys -> SUBSET Peers]
         /\ corrupt' \subseteq Keys
         /\ out' \in [Peers -> SUBSET Keys]
         /\ age' \in [Peers -> [Keys -> 0 .. BlockTimeout]]
         /\ asked' \in [Peers -> SUBSET Keys]
         /\ ereq' \in [Keys -> SUBSET Peers]
         /\ unclaimed' \in Int
         /\ task' \in [Pieces -> TaskStates]
<1>1. 0 \in 0 .. BlockTimeout /\ k[1] \in Pieces
  BY ConfigAssumption, KeyShape
<1>2. OutAfterReceipt(p, k) \in [Peers -> SUBSET Keys]
  BY DEF TypeOK, OutAfterReceipt
<1>3. out' \in [Peers -> SUBSET Keys]
  BY <1>2 DEF PieceAssembled
<1>4. age' \in [Peers -> [Keys -> 0 .. BlockTimeout]]
  BY <1>1 DEF TypeOK, PieceAssembled
<1>5. ereq' \in [Keys -> SUBSET Peers] /\ breq' \in [Keys -> SUBSET Peers]
  BY DEF TypeOK, PieceAssembled
<1>6. /\ pstate' \in [Pieces -> PieceStates]
      /\ bstate' \in [Keys -> BlockStates]
      /\ corrupt' \subseteq Keys
      /\ asked' \in [Peers -> SUBSET Keys]
      /\ unclaimed' \in Int
      /\ task' \in [Pieces -> TaskStates]
  BY <1>1 DEF TypeOK, PieceAssembled, PieceStates, BlockStates, TaskStates
<1> QED
  BY <1>3, <1>4, <1>5, <1>6

(* DownloadManager.on_block keeps the types.                                *)
LEMMA OnBlockType ==
  ASSUME TypeOK, NEW p \in Peers, NEW k \in Keys, NEW good \in BOOLEAN,
         OnBlock(p, k, good)
  PROVE  TypeOK'
<1>1. k[1] \in Pieces
  BY KeyShape
<1>2. CASE BlockTooLate(p, k)
  <2>1. NoteReceived(p, k)
    BY <1>2 DEF BlockTooLate
  <2> QED
    BY <1>2, <2>1, NoteReceivedType
    DEF TypeOK, OnBlock, BlockTooLate, pieceVars, loopVars, peerVars
<1>3. CASE BlockAccepted(p, k, good)
  <2>1. NoteReceived(p, k)
    BY <1>3 DEF BlockAccepted
  <2>2. /\ pstate' \in [Pieces -> PieceStates]
        /\ bstate' \in [Keys -> BlockStates]
        /\ breq' \in [Keys -> SUBSET Peers]
        /\ corrupt' \subseteq Keys
    BY <1>1, <1>3 DEF TypeOK, BlockAccepted, PieceStates, BlockStates
  <2> QED
    BY <1>3, <2>1, <2>2, NoteReceivedType
    DEF TypeOK, OnBlock, BlockAccepted, loopVars, peerVars
<1>4. CASE PieceAssembled(p, k, good)
  BY <1>4, PieceAssembledType DEF TypeOK, OnBlock, loopVars, peerVars
<1> QED
  BY <1>2, <1>3, <1>4 DEF OnBlock

(* A step of a verification task keeps the types.                           *)
LEMMA VerificationType == ASSUME TypeOK, Verification PROVE TypeOK'
<1> USE DEF loopVars, pieceVars, schedVars, peerVars
<1>1. ASSUME NEW i \in Pieces, VerifyStart(i) PROVE TypeOK'
  BY <1>1 DEF TypeOK, VerifyStart, TaskStates
<1>2. ASSUME NEW i \in Pieces, VerifyPass(i) PROVE TypeOK'
  BY <1>2 DEF TypeOK, VerifyPass, TaskStates, PieceStates
<1>3. ASSUME NEW i \in Pieces, VerifyFail(i) PROVE TypeOK'
  BY <1>3 DEF TypeOK, VerifyFail, TaskStates, PieceStates, BlockStates, NoCount
<1>4. ASSUME NEW i \in Pieces, VerifyError(i) PROVE TypeOK'
  BY <1>4 DEF TypeOK, VerifyError, TaskStates
<1> QED
  BY <1>1, <1>2, <1>3, <1>4 DEF Verification

(* A step of a peer or of the clock keeps the types.                        *)
LEMMA EnvironmentType == ASSUME TypeOK, Environment PROVE TypeOK'
<1> USE DEF loopVars, pieceVars, schedVars, diskVars
<1>1. CASE Tick
  <2>1. age' \in [Peers -> [Keys -> 0 .. BlockTimeout]]
    BY <1>1, ConfigAssumption DEF TypeOK, Tick
  <2> QED
    BY <1>1, <2>1 DEF TypeOK, Tick, peerVars
<1>2. ASSUME NEW p \in Peers, PeerConnect(p) PROVE TypeOK'
  BY <1>2 DEF TypeOK, PeerConnect, ConnStates
<1>3. ASSUME NEW p \in Peers, PeerChoke(p) PROVE TypeOK'
  BY <1>3 DEF TypeOK, PeerChoke
<1>4. ASSUME NEW p \in Peers, PeerLost(p) PROVE TypeOK'
  BY <1>4 DEF TypeOK, PeerLost, ConnStates
<1>5. ASSUME NEW p \in Peers, OnDisconnect(p) PROVE TypeOK'
  <2>1. DropPeer(p)
    BY <1>5 DEF OnDisconnect
  <2> QED
    BY <1>5, <2>1, DropPeerType DEF TypeOK, OnDisconnect, DropPeer, ConnStates
<1>6. ASSUME NEW p \in Peers, NEW k \in Keys, NEW good \in BOOLEAN,
             OnBlock(p, k, good)
      PROVE  TypeOK'
  BY <1>6, OnBlockType
<1> QED
  BY <1>1, <1>2, <1>3, <1>4, <1>5, <1>6 DEF Environment

(* Every step of the download keeps every variable in its type.             *)
LEMMA NextType == TypeOK /\ [Next]_vars => TypeOK'
<1>1. TypeOK /\ UNCHANGED vars => TypeOK'
  BY DEF TypeOK, vars
<1> QED
  BY <1>1, LoopType, VerificationType, EnvironmentType DEF Next

(* The types hold in every reachable state, for every swarm, geometry and   *)
(* configuration: in particular no piece is ever left in FAILED between two *)
(* awaits, and the pipelines hold only blocks of the torrent.               *)
THEOREM TypeCorrect == Spec => []TypeOK
  BY InitType, NextType, PTL DEF Spec

-----------------------------------------------------------------------------
(* The inductive invariant.                                                 *)

(* A verification task belongs to a piece in state VERIFYING, and one whose *)
(* hash matched works on a buffer of good blocks only.  VerifiedAgree and   *)
(* DiskIntegrity are not inductive without it.                              *)
TasksMatchPieces ==
  \A i \in Pieces :
    /\ task[i] # "none" => pstate[i] = "verifying"
    /\ task[i] = "good" => \A k \in KeysOf(i) : k \notin corrupt

RequestInv ==
  /\ PipelinesMatchTracker
  /\ OutstandingIsClaimed
  /\ NothingOutstandingOnceAssembled
  /\ OutstandingIsRemembered

StoreInv ==
  /\ VerifiedAgree
  /\ DiskIntegrity
  /\ TasksMatchPieces

IInv == TypeOK /\ RequestInv /\ StoreInv

(* A new DownloadManager satisfies the invariant, resumed pieces included.  *)
LEMMA InitInv == Init => RequestInv /\ StoreInv
  BY KeyShape DEF Init, RequestInv, StoreInv, PipelinesMatchTracker, OutstandingIsClaimed,
         NothingOutstandingOnceAssembled, OutstandingIsRemembered, VerifiedAgree,
         DiskIntegrity, TasksMatchPieces

(* Most steps touch neither a request nor a piece.                          *)
LEMMA RequestFrame ==
  ASSUME RequestInv, UNCHANGED <<pstate, bstate, breq, out, ereq, asked>>
  PROVE  RequestInv'
  BY DEF RequestInv, PipelinesMatchTracker, OutstandingIsClaimed,
         NothingOutstandingOnceAssembled, OutstandingIsRemembered

(* Steps that leave pieces and disk alone keep StoreInv.                    *)
LEMMA StoreFrame ==
  ASSUME StoreInv, UNCHANGED <<pstate, corrupt, task, completed, verified>>
  PROVE  StoreInv'
  BY DEF StoreInv, VerifiedAgree, DiskIntegrity, TasksMatchPieces

(* A piece's state may go from missing to requested or downloading without  *)
(* the store noticing.                                                      *)
LEMMA StoreFrameRequested ==
  ASSUME IInv, NEW i \in Pieces, NEW st \in {"requested", "downloading"},
         pstate[i] \notin {"verified", "verifying"},
         pstate' = [pstate EXCEPT ![i] = st] \/ pstate' = pstate,
         UNCHANGED <<corrupt, task, completed, verified>>
  PROVE  StoreInv'
  BY DEF IInv, TypeOK, StoreInv, VerifiedAgree, DiskIntegrity, TasksMatchPieces

(* Giving one request back (timeout, failed send).                          *)
LEMMA NoteOrphanedInv ==
  ASSUME IInv, NEW p \in Peers, NEW k \in Keys, NoteOrphaned(p, k)
  PROVE  RequestInv'
<1> DEFINE K == IF ereq[k] # {} /\ ereq[k] \subseteq {p} THEN {k} ELSE {}
<1> USE DEF IInv, RequestInv
<1>1. \A j \in Keys : /\ ereq'[j] = IF j = k THEN ereq[j] \ {p} ELSE ereq[j]
                      /\ breq'[j] = IF j \in K THEN breq[j] \ {p} ELSE breq[j]
                      /\ bstate'[j] = IF j \in Freed(p, K) THEN "missing" ELSE bstate[j]
  BY DEF TypeOK, NoteOrphaned, Unclaim
<1>2. \A q \in Peers : out'[q] = IF q = p THEN out[q] \ {k} ELSE out[q]
  BY DEF TypeOK, NoteOrphaned
<1>3. PipelinesMatchTracker'
  <2> SUFFICES ASSUME NEW q \in Peers, NEW j \in Keys
               PROVE  j \in out'[q] <=> q \in ereq'[j]
    BY DEF PipelinesMatchTracker
  <2>1. j \in out[q] <=> q \in ereq[j]
    BY DEF PipelinesMatchTracker
  <2> QED
    BY <1>1, <1>2, <2>1
<1>4. OutstandingIsClaimed'
  <2> SUFFICES ASSUME NEW j \in Keys, ereq'[j] # {}
               PROVE  ereq'[j] \subseteq breq'[j] /\ bstate'[j] = "requested"
    BY DEF OutstandingIsClaimed
  <2>1. ereq[j] # {} /\ j \notin K
    BY <1>1
  <2> QED
    BY <1>1, <2>1 DEF OutstandingIsClaimed, Freed
<1>5. NothingOutstandingOnceAssembled'
  <2> SUFFICES ASSUME NEW j \in Keys, pstate[j[1]] \in {"verifying", "verified"}
               PROVE  (pstate[j[1]] = "verifying" => bstate'[j] = "received")
                      /\ \A q \in Peers : j \notin out'[q]
    BY DEF NothingOutstandingOnceAssembled, NoteOrphaned
  <2> QED
    BY <1>1, <1>2 DEF NothingOutstandingOnceAssembled, Freed
<1>6. OutstandingIsRemembered'
  BY <1>2 DEF OutstandingIsRemembered, NoteOrphaned
<1> QED
  BY <1>3, <1>4, <1>5, <1>6

(* Giving back everything a departed peer owed.                             *)
LEMMA DropPeerInv ==
  ASSUME IInv, NEW p \in Peers, DropPeer(p)
  PROVE  RequestInv'
<1> USE DEF IInv, RequestInv
<1>1. \A j \in Keys :
        /\ ereq'[j] = IF j \in out[p] THEN ereq[j] \ {p} ELSE ereq[j]
        /\ breq'[j] = IF j \in out[p] THEN breq[j] \ {p} ELSE breq[j]
        /\ bstate'[j] = IF j \in Freed(p, out[p]) THEN "missing" ELSE bstate[j]
  BY DEF TypeOK, DropPeer, Unclaim
<1>2. \A q \in Peers : /\ out'[q] = IF q = p THEN {} ELSE out[q]
                       /\ asked'[q] = IF q = p THEN {} ELSE asked[q]
  BY DEF TypeOK, DropPeer
<1>3. PipelinesMatchTracker'
  <2> SUFFICES ASSUME NEW q \in Peers, NEW j \in Keys
               PROVE  j \in out'[q] <=> q \in ereq'[j]
    BY DEF PipelinesMatchTracker
  <2>1. j \in out[q] <=> q \in ereq[j]
    BY DEF PipelinesMatchTracker
  <2> QED
    BY <1>1, <1>2, <2>1
<1>4. OutstandingIsClaimed'
  <2> SUFFICES ASSUME NEW j \in Keys, ereq'[j] # {}
               PROVE  ereq'[j] \subseteq breq'[j] /\ bstate'[j] = "requested"
    BY DEF OutstandingIsClaimed
  <2>1. ereq[j] # {} /\ ereq[j] \subseteq breq[j] /\ bstate[j] = "requested"
    BY <1>1 DEF OutstandingIsClaimed
  <2>2. ereq'[j] \subseteq breq'[j]
    BY <1>1, <2>1
  <2>3. j \notin Freed(p, out[p])
    BY <1>1, <2>2 DEF Freed
  <2> QED
    BY <1>1, <2>1, <2>2, <2>3
<1>5. NothingOutstandingOnceAssembled'
  <2> SUFFICES ASSUME NEW j \in Keys, pstate[j[1]] \in {"verifying", "verified"}
               PROVE  (pstate[j[1]] = "verifying" => bstate'[j] = "received")
                      /\ \A q \in Peers : j \notin out'[q]
    BY DEF NothingOutstandingOnceAssembled, DropPeer
  <2> QED
    BY <1>1, <1>2 DEF NothingOutstandingOnceAssembled, Freed
<1>6. OutstandingIsRemembered'
  BY <1>2 DEF OutstandingIsRemembered
<1> QED
  BY <1>3, <1>4, <1>5, <1>6

(* Assigning a block to a peer.                                             *)
LEMMA PlanAssignInv ==
  ASSUME IInv, NEW p \in Peers, NEW k \in Keys, PlanAssign(p, k)
  PROVE  RequestInv' /\ StoreInv'
<1> USE DEF IInv, RequestInv
<1>1. /\ k[1] \in Pieces
      /\ bstate[k] # "received"
      /\ pstate[k[1]] \notin {"verified", "verifying"}
  BY NextBlocksAreRequestable, KeyShape DEF PlanAssign
<1>2. \A j \in Keys : /\ ereq'[j] = IF j = k THEN ereq[j] \cup {p} ELSE ereq[j]
                      /\ breq'[j] = IF j = k THEN breq[j] \cup {p} ELSE breq[j]
                      /\ bstate'[j] = IF j = k THEN "requested" ELSE bstate[j]
  BY <1>1 DEF TypeOK, PlanAssign, BlockStates
<1>3. \A q \in Peers :
        /\ out'[q] = IF q = p THEN out[q] \cup {k} ELSE out[q]
        /\ asked'[q] = IF q = p THEN asked[q] \cup {k} ELSE asked[q]
  BY DEF TypeOK, PlanAssign
<1>4. \A i \in Pieces : \/ pstate'[i] = pstate[i]
                        \/ i = k[1] /\ pstate'[i] = "requested"
  BY DEF TypeOK, PlanAssign
<1>5. PipelinesMatchTracker'
  <2> SUFFICES ASSUME NEW q \in Peers, NEW j \in Keys
               PROVE  j \in out'[q] <=> q \in ereq'[j]
    BY DEF PipelinesMatchTracker
  <2>1. j \in out[q] <=> q \in ereq[j]
    BY DEF PipelinesMatchTracker
  <2> QED
    BY <1>2, <1>3, <2>1
<1>6. OutstandingIsClaimed'
  BY <1>2 DEF OutstandingIsClaimed
<1>7. NothingOutstandingOnceAssembled'
  <2> SUFFICES ASSUME NEW j \in Keys, pstate'[j[1]] \in {"verifying", "verified"}
               PROVE  (pstate'[j[1]] = "verifying" => bstate'[j] = "received")
                      /\ \A q \in Peers : j \notin out'[q]
    BY DEF NothingOutstandingOnceAssembled
  <2>1. j[1] \in Pieces
    BY KeyShape
  <2>2. pstate'[j[1]] = pstate[j[1]] /\ j # k
    BY <1>1, <1>4, <2>1
  <2>3. \A q \in Peers : j \notin out[q]
    BY <2>2 DEF NothingOutstandingOnceAssembled
  <2>4. ASSUME NEW q \in Peers PROVE j \notin out'[q]
    <3>1. out'[q] \subseteq out[q] \cup {k} /\ j # k
      BY <1>3, <2>2
    <3> QED
      BY <2>3, <3>1
  <2> QED
    BY <1>2, <2>2, <2>3, <2>4 DEF NothingOutstandingOnceAssembled
<1>8. OutstandingIsRemembered'
  BY <1>3 DEF OutstandingIsRemembered
<1>9. StoreInv'
  <2>1. pstate' = [pstate EXCEPT ![k[1]] = "requested"] \/ pstate' = pstate
    BY <1>1 DEF TypeOK, PlanAssign
  <2>2. UNCHANGED <<corrupt, task, completed, verified>>
    BY DEF PlanAssign, diskVars
  <2> QED
    BY <1>1, <2>1, <2>2, StoreFrameRequested
<1> QED
  BY <1>5, <1>6, <1>7, <1>8, <1>9

(* A step of the scheduling loop keeps the invariant.                       *)
LEMMA LoopInv == ASSUME IInv, Loop PROVE RequestInv' /\ StoreInv'
<1> USE DEF loopVars, pieceVars, schedVars, peerVars, diskVars
<1>1. RequestInv /\ StoreInv
  BY DEF IInv
<1>2. CASE Start \/ Stop \/ PumpBegin \/ ExpireDone \/ PlanEnd \/ PumpEnd
  BY <1>1, <1>2, RequestFrame, StoreFrame
  DEF Start, Stop, PumpBegin, ExpireDone, PlanEnd, PumpEnd
<1>3. CASE PlanBegin
  <2>1. StoreInv'
    BY <1>1, <1>3, StoreFrame DEF PlanBegin
  <2>2. /\ PipelinesMatchTracker'
        /\ OutstandingIsClaimed'
        /\ NothingOutstandingOnceAssembled'
    BY <1>1, <1>3 DEF PlanBegin, RequestInv, PipelinesMatchTracker,
       OutstandingIsClaimed, NothingOutstandingOnceAssembled
  <2>3. OutstandingIsRemembered'
    <3> SUFFICES ASSUME NEW p \in Peers, NEW k \in out[p]
                 PROVE  k \in asked'[p]
      BY <1>3 DEF OutstandingIsRemembered, PlanBegin
    <3>1. k \in Keys /\ k \in asked[p]
      BY <1>1 DEF IInv, TypeOK, RequestInv, OutstandingIsRemembered
    <3>2. ~Finished(k[1])
      BY <1>1, <3>1 DEF RequestInv, NothingOutstandingOnceAssembled, Finished
    <3> QED
      BY <1>3, <3>1, <3>2 DEF PlanBegin
  <2> QED
    BY <2>1, <2>2, <2>3 DEF RequestInv
<1>4. ASSUME NEW p \in Peers, SyncGone(p) PROVE RequestInv' /\ StoreInv'
  BY <1>1, <1>4, DropPeerInv, StoreFrame DEF SyncGone, DropPeer
<1>5. ASSUME NEW p \in Peers, PlanPick(p) \/ PlanPeerDone(p)
      PROVE  RequestInv' /\ StoreInv'
  BY <1>1, <1>5, RequestFrame, StoreFrame DEF PlanPick, PlanPeerDone
<1>6. ASSUME NEW p \in Peers, NEW k \in Keys, ExpireOne(p, k)
      PROVE  RequestInv' /\ StoreInv'
  BY <1>1, <1>6, NoteOrphanedInv, StoreFrame DEF ExpireOne, NoteOrphaned
<1>7. ASSUME NEW p \in Peers, NEW k \in Keys, PlanAssign(p, k)
      PROVE  RequestInv' /\ StoreInv'
  BY <1>7, PlanAssignInv
<1>8. ASSUME NEW p \in Peers, NEW k \in Keys, SendOk(p, k)
      PROVE  RequestInv' /\ StoreInv'
  BY <1>1, <1>8, RequestFrame, StoreFrame DEF SendOk
<1>9. ASSUME NEW p \in Peers, NEW k \in Keys, SendFail(p, k)
      PROVE  RequestInv' /\ StoreInv'
  BY <1>1, <1>9, NoteOrphanedInv, StoreFrame DEF SendFail, NoteOrphaned
<1> QED
  BY <1>2, <1>3, <1>4, <1>5, <1>6, <1>7, <1>8, <1>9 DEF Loop

(* What a received block leaves of the pipelines and of the tracker.        *)
LEMMA OutAfterReceiptFacts ==
  ASSUME IInv, NEW p \in Peers, NEW k \in Keys, NEW q \in Peers
  PROVE  OutAfterReceipt(p, k)[q] = out[q] \ {k}
  BY DEF IInv, TypeOK, RequestInv, PipelinesMatchTracker, OutAfterReceipt

(* A received block leaves pipelines, tracker and history in agreement.     *)
LEMMA NoteReceivedInv ==
  ASSUME IInv, NEW p \in Peers, NEW k \in Keys, NoteReceived(p, k)
  PROVE  PipelinesMatchTracker' /\ OutstandingIsRemembered'
<1> USE DEF IInv, RequestInv
<1>1. \A q \in Peers : out'[q] = out[q] \ {k}
  BY OutAfterReceiptFacts DEF NoteReceived
<1>2. \A j \in Keys : ereq'[j] = IF j = k THEN {} ELSE ereq[j]
  BY DEF TypeOK, NoteReceived
<1>3. \A q \in Peers : asked[q] \ {k} \subseteq asked'[q]
  BY DEF TypeOK, NoteReceived
<1>4. PipelinesMatchTracker'
  <2> SUFFICES ASSUME NEW q \in Peers, NEW j \in Keys
               PROVE  j \in out'[q] <=> q \in ereq'[j]
    BY DEF PipelinesMatchTracker
  <2>1. j \in out[q] <=> q \in ereq[j]
    BY DEF PipelinesMatchTracker
  <2> QED
    BY <1>1, <1>2, <2>1
<1>5. OutstandingIsRemembered'
  BY <1>1, <1>3 DEF OutstandingIsRemembered
<1> QED
  BY <1>4, <1>5

(* A late copy of a stored block keeps the invariant.                       *)
LEMMA BlockTooLateInv ==
  ASSUME IInv, NEW p \in Peers, NEW k \in Keys, BlockTooLate(p, k)
  PROVE  RequestInv'
<1> USE DEF IInv, RequestInv
<1>1. NoteReceived(p, k) /\ UNCHANGED <<pstate, bstate, breq>>
  BY DEF BlockTooLate, pieceVars
<1>2. PipelinesMatchTracker' /\ OutstandingIsRemembered'
  BY <1>1, NoteReceivedInv
<1>3. \A j \in Keys : ereq'[j] \subseteq ereq[j]
  BY <1>1 DEF TypeOK, NoteReceived
<1>4. OutstandingIsClaimed'
  BY <1>1, <1>3 DEF OutstandingIsClaimed
<1>5. \A q \in Peers : out'[q] \subseteq out[q]
  BY <1>1, OutAfterReceiptFacts DEF NoteReceived
<1>6. NothingOutstandingOnceAssembled'
  BY <1>1, <1>5 DEF NothingOutstandingOnceAssembled
<1> QED
  BY <1>2, <1>4, <1>6

(* A block that does not complete its piece keeps the invariant.            *)
LEMMA BlockAcceptedInv ==
  ASSUME IInv, NEW p \in Peers, NEW k \in Keys, NEW good \in BOOLEAN,
         BlockAccepted(p, k, good), UNCHANGED <<completed, verified>>
  PROVE  RequestInv' /\ StoreInv'
<1> USE DEF IInv, RequestInv
<1>1. k[1] \in Pieces /\ pstate[k[1]] \notin {"verified", "verifying"}
  BY KeyShape DEF BlockAccepted
<1>2. NoteReceived(p, k)
  BY DEF BlockAccepted
<1>3. PipelinesMatchTracker' /\ OutstandingIsRemembered'
  BY <1>2, NoteReceivedInv
<1>4. \A j \in Keys : /\ ereq'[j] = IF j = k THEN {} ELSE ereq[j]
                      /\ breq'[j] = IF j = k THEN {} ELSE breq[j]
                      /\ bstate'[j] = IF j = k THEN "received" ELSE bstate[j]
  BY <1>2 DEF TypeOK, NoteReceived, BlockAccepted
<1>5. OutstandingIsClaimed'
  BY <1>4 DEF OutstandingIsClaimed
<1>6. \A q \in Peers : out'[q] \subseteq out[q]
  BY <1>2, OutAfterReceiptFacts DEF NoteReceived
<1>7. pstate' = [pstate EXCEPT ![k[1]] = "downloading"]
  BY DEF BlockAccepted
<1>8. NothingOutstandingOnceAssembled'
  <2> SUFFICES ASSUME NEW j \in Keys, pstate'[j[1]] \in {"verifying", "verified"}
               PROVE  (pstate'[j[1]] = "verifying" => bstate'[j] = "received")
                      /\ \A q \in Peers : j \notin out'[q]
    BY DEF NothingOutstandingOnceAssembled
  <2>1. j[1] \in Pieces
    BY KeyShape
  <2>2. pstate'[j[1]] = pstate[j[1]]
    BY <1>7, <2>1 DEF TypeOK
  <2> QED
    BY <1>4, <1>6, <2>2 DEF NothingOutstandingOnceAssembled
<1>9. StoreInv'
  <2> USE DEF StoreInv
  <2>1. /\ task' = task
        /\ corrupt' \subseteq corrupt \cup {k}
    BY DEF BlockAccepted
  <2>2. VerifiedAgree'
    BY <1>1, <1>7 DEF VerifiedAgree, TypeOK
  <2>3. DiskIntegrity'
    BY <1>1, <2>1 DEF DiskIntegrity, VerifiedAgree
  <2>4. task[k[1]] = "none"
    BY <1>1 DEF TasksMatchPieces
  <2>5. TasksMatchPieces'
    <3> SUFFICES ASSUME NEW i \in Pieces, task[i] # "none"
                 PROVE  /\ pstate'[i] = "verifying"
                        /\ task[i] = "good" => \A j \in KeysOf(i) : j \notin corrupt'
      BY <2>1 DEF TasksMatchPieces
    <3>1. i # k[1]
      BY <2>4
    <3>2. k \notin KeysOf(i)
      BY <3>1, KeyShape
    <3> QED
      BY <1>7, <2>1, <3>1, <3>2 DEF TasksMatchPieces, TypeOK
  <2> QED
    BY <2>2, <2>3, <2>5
<1> QED
  BY <1>3, <1>5, <1>8, <1>9

(* The last block of a piece: every other request for the piece goes.       *)
LEMMA PieceAssembledInv ==
  ASSUME IInv, NEW p \in Peers, NEW k \in Keys, NEW good \in BOOLEAN,
         PieceAssembled(p, k, good), UNCHANGED <<completed, verified>>
  PROVE  RequestInv' /\ StoreInv'
<1> USE DEF IInv, RequestInv
<1> DEFINE i == k[1]
<1>1. i \in Pieces /\ pstate[i] \notin {"verified", "verifying"}
  BY KeyShape DEF PieceAssembled
<1>2. \A q \in Peers : out'[q] = (out[q] \ {k}) \ KeysOf(i)
  BY OutAfterReceiptFacts DEF PieceAssembled
<1>3. ASSUME NEW j \in Keys
      PROVE  ereq'[j] = IF j[1] = i THEN {} ELSE ereq[j]
  <2>1. ereq[j] = {q \in Peers : j \in out[q]}
    BY DEF TypeOK, PipelinesMatchTracker
  <2>2. j # k => {q \in Peers : j \in OutAfterReceipt(p, k)[q]} = ereq[j]
    BY <2>1, OutAfterReceiptFacts
  <2> QED
    BY <2>2 DEF PieceAssembled
<1>4. \A j \in Keys : /\ j[1] # i => breq'[j] = breq[j]
                      /\ bstate'[j] = IF j = k THEN "received" ELSE bstate[j]
  BY DEF TypeOK, PieceAssembled
<1>5. /\ pstate' = [pstate EXCEPT ![i] = "verifying"]
      /\ task' = [task EXCEPT ![i] = "queued"]
      /\ corrupt' \subseteq corrupt \cup {k}
  BY DEF PieceAssembled
<1>6. PipelinesMatchTracker'
  <2> SUFFICES ASSUME NEW q \in Peers, NEW j \in Keys
               PROVE  j \in out'[q] <=> q \in ereq'[j]
    BY DEF PipelinesMatchTracker
  <2>1. j \in out[q] <=> q \in ereq[j]
    BY DEF PipelinesMatchTracker
  <2>2. j \in KeysOf(i) <=> j[1] = i
    BY <1>1, KeyShape
  <2> QED
    BY <1>2, <1>3, <2>1, <2>2
<1>7. OutstandingIsClaimed'
  <2> SUFFICES ASSUME NEW j \in Keys, ereq'[j] # {}
               PROVE  ereq'[j] \subseteq breq'[j] /\ bstate'[j] = "requested"
    BY DEF OutstandingIsClaimed
  <2>1. j[1] # i /\ ereq'[j] = ereq[j]
    BY <1>3
  <2> QED
    BY <1>4, <2>1 DEF OutstandingIsClaimed
<1>8. NothingOutstandingOnceAssembled'
  <2> SUFFICES ASSUME NEW j \in Keys, pstate'[j[1]] \in {"verifying", "verified"}
               PROVE  (pstate'[j[1]] = "verifying" => bstate'[j] = "received")
                      /\ \A q \in Peers : j \notin out'[q]
    BY DEF NothingOutstandingOnceAssembled
  <2>1. j[1] \in Pieces /\ j \in KeysOf(j[1])
    BY KeyShape
  <2>2. CASE j[1] = i
    <3>1. bstate'[j] = "received"
      <4>1. j # k => j \in Received(i)
        BY <2>1, <2>2 DEF PieceAssembled
      <4> QED
        BY <1>4, <4>1 DEF Received
    <3> QED
      BY <1>2, <2>1, <2>2, <3>1
  <2>3. CASE j[1] # i
    <3>1. pstate'[j[1]] = pstate[j[1]]
      BY <1>5, <2>1, <2>3 DEF TypeOK
    <3> QED
      BY <1>2, <1>4, <2>3, <3>1 DEF NothingOutstandingOnceAssembled
  <2> QED
    BY <2>2, <2>3
<1>9. OutstandingIsRemembered'
  <2>1. \A q \in Peers : asked[q] \ {k} \subseteq asked'[q]
    BY DEF TypeOK, PieceAssembled
  <2> QED
    BY <1>2, <2>1 DEF OutstandingIsRemembered
<1>10. StoreInv'
  <2> USE DEF StoreInv
  <2>1. VerifiedAgree'
    BY <1>1, <1>5 DEF VerifiedAgree, TypeOK
  <2>2. DiskIntegrity'
    BY <1>1, <1>5 DEF DiskIntegrity, VerifiedAgree
  <2>3. TasksMatchPieces'
    <3> SUFFICES ASSUME NEW n \in Pieces, task'[n] # "none"
                 PROVE  /\ pstate'[n] = "verifying"
                        /\ task'[n] = "good" => \A j \in KeysOf(n) : j \notin corrupt'
      BY DEF TasksMatchPieces
    <3>1. CASE n = i
      BY <1>1, <1>5, <3>1 DEF TypeOK
    <3>2. CASE n # i
      <4>1. task'[n] = task[n] /\ pstate'[n] = pstate[n] /\ k \notin KeysOf(n)
        BY <1>5, <3>2, KeyShape DEF TypeOK
      <4> QED
        BY <1>5, <4>1 DEF TasksMatchPieces
    <3> QED
      BY <3>1, <3>2
  <2> QED
    BY <2>1, <2>2, <2>3
<1> QED
  BY <1>6, <1>7, <1>8, <1>9, <1>10

(* A block from a peer keeps the invariant.                                 *)
LEMMA OnBlockInv ==
  ASSUME IInv, NEW p \in Peers, NEW k \in Keys, NEW good \in BOOLEAN,
         OnBlock(p, k, good)
  PROVE  RequestInv' /\ StoreInv'
<1>1. StoreInv /\ UNCHANGED <<completed, verified>>
  BY DEF IInv, OnBlock
<1>2. CASE BlockTooLate(p, k)
  BY <1>1, <1>2, BlockTooLateInv, StoreFrame DEF BlockTooLate, pieceVars
<1>3. CASE BlockAccepted(p, k, good)
  BY <1>1, <1>3, BlockAcceptedInv
<1>4. CASE PieceAssembled(p, k, good)
  BY <1>1, <1>4, PieceAssembledInv
<1> QED
  BY <1>2, <1>3, <1>4 DEF OnBlock

(* The end of a verification: the piece is stored, or thrown away.          *)
LEMMA VerifyPassInv ==
  ASSUME IInv, NEW i \in Pieces, VerifyPass(i)
  PROVE  RequestInv' /\ StoreInv'
<1> USE DEF IInv, RequestInv, StoreInv, pieceVars, schedVars
<1>1. pstate[i] = "verifying" /\ \A k \in KeysOf(i) : k \notin corrupt
  BY DEF VerifyPass, TasksMatchPieces
<1>2. /\ pstate' = [pstate EXCEPT ![i] = "verified"]
      /\ task' = [task EXCEPT ![i] = "none"]
      /\ completed' = completed \cup {i}
      /\ verified' = verified \cup {i}
      /\ UNCHANGED <<bstate, breq, corrupt, out, asked, ereq>>
  BY DEF VerifyPass
<1>3. PipelinesMatchTracker' /\ OutstandingIsClaimed' /\ OutstandingIsRemembered'
  BY <1>2 DEF PipelinesMatchTracker, OutstandingIsClaimed, OutstandingIsRemembered
<1>4. NothingOutstandingOnceAssembled'
  BY <1>1, <1>2, KeyShape DEF NothingOutstandingOnceAssembled, TypeOK
<1>5. VerifiedAgree'
  BY <1>2 DEF VerifiedAgree, TypeOK
<1>6. DiskIntegrity'
  BY <1>1, <1>2, KeyShape DEF DiskIntegrity, TypeOK
<1>7. TasksMatchPieces'
  BY <1>2 DEF TasksMatchPieces, TypeOK
<1> QED
  BY <1>3, <1>4, <1>5, <1>6, <1>7

(* A hash mismatch returns the piece to the pool and keeps the invariant.   *)
LEMMA VerifyFailInv ==
  ASSUME IInv, NEW i \in Pieces, VerifyFail(i)
  PROVE  RequestInv' /\ StoreInv'
<1> USE DEF IInv, RequestInv, StoreInv
<1>1. pstate[i] = "verifying"
  BY DEF VerifyFail, TasksMatchPieces
<1>2. /\ pstate' = [pstate EXCEPT ![i] = "missing"]
      /\ task' = [task EXCEPT ![i] = "none"]
      /\ corrupt' \subseteq corrupt
      /\ UNCHANGED <<out, ereq, completed, verified>>
  BY DEF VerifyFail
<1>3. \A k \in Keys : k[1] # i => breq'[k] = breq[k] /\ bstate'[k] = bstate[k]
  BY DEF VerifyFail, TypeOK
<1>4. \A k \in Keys : k[1] = i => ereq[k] = {} /\ \A p \in Peers : k \notin out[p]
  BY <1>1 DEF NothingOutstandingOnceAssembled, PipelinesMatchTracker, TypeOK
<1>5. PipelinesMatchTracker'
  BY <1>2 DEF PipelinesMatchTracker
<1>6. OutstandingIsClaimed'
  BY <1>2, <1>3, <1>4 DEF OutstandingIsClaimed
<1>7. NothingOutstandingOnceAssembled'
  <2> SUFFICES ASSUME NEW j \in Keys, pstate'[j[1]] \in {"verifying", "verified"}
               PROVE  (pstate'[j[1]] = "verifying" => bstate'[j] = "received")
                      /\ \A q \in Peers : j \notin out'[q]
    BY DEF NothingOutstandingOnceAssembled
  <2>1. j[1] \in Pieces
    BY KeyShape
  <2>2. j[1] # i /\ pstate[j[1]] \in {"verifying", "verified"}
    BY <1>2, <2>1 DEF TypeOK
  <2> QED
    BY <1>2, <1>3, <2>2 DEF NothingOutstandingOnceAssembled
<1>8. OutstandingIsRemembered'
  <2> SUFFICES ASSUME NEW p \in Peers, NEW k \in out[p] PROVE k \in asked'[p]
    BY <1>2 DEF OutstandingIsRemembered
  <2>1. k \in Keys /\ k \in asked[p] /\ k[1] # i
    BY <1>4 DEF TypeOK, OutstandingIsRemembered
  <2>2. k \notin KeysOf(i)
    BY <2>1, KeyShape
  <2> QED
    BY <2>1, <2>2 DEF VerifyFail
<1>9. VerifiedAgree' /\ DiskIntegrity' /\ TasksMatchPieces'
  BY <1>1, <1>2 DEF VerifiedAgree, DiskIntegrity, TasksMatchPieces, TypeOK
<1> QED
  BY <1>5, <1>6, <1>7, <1>8, <1>9

(* A step of a verification task keeps the invariant.                       *)
LEMMA VerificationInv == ASSUME IInv, Verification PROVE RequestInv' /\ StoreInv'
<1>1. RequestInv /\ StoreInv
  BY DEF IInv
<1>2. ASSUME NEW i \in Pieces, VerifyStart(i) PROVE RequestInv' /\ StoreInv'
  <2>1. RequestInv'
    BY <1>1, <1>2, RequestFrame DEF VerifyStart, pieceVars, schedVars
  <2>2. VerifiedAgree' /\ DiskIntegrity'
    BY <1>1, <1>2 DEF VerifyStart, pieceVars, StoreInv, VerifiedAgree, DiskIntegrity
  <2>3. TasksMatchPieces'
    BY <1>1, <1>2 DEF VerifyStart, pieceVars, IInv, TypeOK, StoreInv, TasksMatchPieces
  <2> QED
    BY <2>1, <2>2, <2>3 DEF StoreInv
<1>3. ASSUME NEW i \in Pieces, VerifyPass(i) PROVE RequestInv' /\ StoreInv'
  BY <1>3, VerifyPassInv
<1>4. ASSUME NEW i \in Pieces, VerifyFail(i) PROVE RequestInv' /\ StoreInv'
  BY <1>4, VerifyFailInv
<1>5. ASSUME NEW i \in Pieces, VerifyError(i) PROVE RequestInv' /\ StoreInv'
  <2>1. RequestInv'
    BY <1>1, <1>5, RequestFrame DEF VerifyError, pieceVars, schedVars
  <2>2. StoreInv'
    BY <1>1, <1>5 DEF VerifyError, pieceVars, IInv, TypeOK, StoreInv,
       VerifiedAgree, DiskIntegrity, TasksMatchPieces
  <2> QED
    BY <2>1, <2>2
<1> QED
  BY <1>2, <1>3, <1>4, <1>5 DEF Verification

(* A step of a peer or of the clock keeps the invariant.                    *)
LEMMA EnvironmentInv == ASSUME IInv, Environment PROVE RequestInv' /\ StoreInv'
<1> USE DEF loopVars, pieceVars, schedVars, diskVars
<1>1. RequestInv /\ StoreInv
  BY DEF IInv
<1>2. CASE Tick
  BY <1>1, <1>2, RequestFrame, StoreFrame DEF Tick
<1>3. ASSUME NEW p \in Peers, PeerConnect(p) \/ PeerChoke(p) \/ PeerLost(p)
      PROVE  RequestInv' /\ StoreInv'
  BY <1>1, <1>3, RequestFrame, StoreFrame DEF PeerConnect, PeerChoke, PeerLost
<1>4. ASSUME NEW p \in Peers, OnDisconnect(p) PROVE RequestInv' /\ StoreInv'
  BY <1>1, <1>4, DropPeerInv, StoreFrame DEF OnDisconnect, DropPeer
<1>5. ASSUME NEW p \in Peers, NEW k \in Keys, NEW good \in BOOLEAN,
             OnBlock(p, k, good)
      PROVE  RequestInv' /\ StoreInv'
  BY <1>5, OnBlockInv
<1> QED
  BY <1>2, <1>3, <1>4, <1>5 DEF Environment

(* The invariant is inductive.                                              *)
LEMMA NextInv == IInv /\ [Next]_vars => IInv'
<1> SUFFICES ASSUME IInv, [Next]_vars PROVE IInv'
  OBVIOUS
<1>1. TypeOK'
  BY NextType DEF IInv
<1>2. RequestInv' /\ StoreInv'
  <2>1. CASE UNCHANGED vars
    BY <2>1, RequestFrame, StoreFrame DEF IInv, vars
  <2>2. CASE Next
    BY <2>2, LoopInv, VerificationInv, EnvironmentInv DEF Next
  <2> QED
    BY <2>1, <2>2
<1> QED
  BY <1>1, <1>2 DEF IInv

(* The inductive invariant holds in every reachable state.                  *)
LEMMA Inductive == Spec => []IInv
<1>1. Init => IInv
  BY InitType, InitInv DEF IInv
<1> QED
  BY <1>1, NextInv, PTL DEF Spec

-----------------------------------------------------------------------------
(* What is counted: the pipelines, and the blocks nobody has asked for.     *)

(* A set of blocks has no more elements than one that contains it.          *)
LEMMA FewerKeys ==
  ASSUME NEW S \in SUBSET Keys, NEW T \in SUBSET S
  PROVE  /\ Cardinality(S) \in Nat /\ Cardinality(T) \in Nat
         /\ Cardinality(T) <= Cardinality(S)
<1>1. IsFiniteSet(S)
  BY KeysFinite, FS_Subset
<1> QED
  BY <1>1, FS_Subset, CountOfKeys

(* Only Scheduler.plan lengthens a pipeline.                                *)
LEMMA OnlyPlanAsks ==
  ASSUME IInv, [Next]_vars
  PROVE  \/ \A p \in Peers : out'[p] \subseteq out[p]
         \/ \E p \in Peers, k \in Keys : PlanAssign(p, k)
<1> USE DEF IInv, TypeOK
<1>1. CASE UNCHANGED vars
  BY <1>1 DEF vars
<1>2. CASE Loop
  <2> USE DEF schedVars
  <2>1. ASSUME NEW p \in Peers, SyncGone(p)
        PROVE  \A q \in Peers : out'[q] \subseteq out[q]
    BY <2>1 DEF SyncGone, DropPeer
  <2>2. ASSUME NEW p \in Peers, NEW k \in Keys, ExpireOne(p, k) \/ SendFail(p, k)
        PROVE  \A q \in Peers : out'[q] \subseteq out[q]
    BY <2>2 DEF ExpireOne, SendFail, NoteOrphaned
  <2> QED
    BY <1>2, <2>1, <2>2
    DEF Loop, Start, Stop, PumpBegin, ExpireDone, PlanBegin, PlanEnd, PumpEnd,
        PlanPick, PlanPeerDone, SendOk
<1>3. CASE Verification
  BY <1>3 DEF Verification, VerifyStart, VerifyPass, VerifyFail, VerifyError, schedVars
<1>4. CASE Environment
  <2>1. ASSUME NEW p \in Peers, OnDisconnect(p)
        PROVE  \A q \in Peers : out'[q] \subseteq out[q]
    BY <2>1 DEF OnDisconnect, DropPeer
  <2>2. ASSUME NEW p \in Peers, NEW k \in Keys, NEW good \in BOOLEAN, OnBlock(p, k, good)
        PROVE  \A q \in Peers : out'[q] \subseteq out[q]
    <3>1. \A q \in Peers : OutAfterReceipt(p, k)[q] \subseteq out[q]
      BY OutAfterReceiptFacts
    <3>2. \/ out' = OutAfterReceipt(p, k)
          \/ out' = [q \in Peers |-> OutAfterReceipt(p, k)[q] \ KeysOf(k[1])]
      BY <2>2 DEF OnBlock, BlockTooLate, BlockAccepted, PieceAssembled, NoteReceived
    <3> QED
      BY <3>1, <3>2
  <2> QED
    BY <1>4, <2>1, <2>2
    DEF Environment, Tick, PeerConnect, PeerChoke, PeerLost, schedVars
<1> QED
  BY <1>1, <1>2, <1>3, <1>4 DEF Next

(* A pipeline grows by one block, and only below its limit.                 *)
LEMMA PipelineStep ==
  ASSUME IInv, PipelineBound, [Next]_vars PROVE PipelineBound'
<1> SUFFICES ASSUME NEW p \in Peers PROVE Cardinality(out'[p]) <= Limit
  BY DEF PipelineBound
<1>1. out[p] \in SUBSET Keys /\ out'[p] \in SUBSET Keys
  BY NextType DEF IInv, TypeOK
<1>2. Cardinality(out[p]) \in Nat /\ Cardinality(out[p]) <= Limit
  BY <1>1, CountOfKeys DEF PipelineBound
<1>3. CASE out'[p] \subseteq out[p]
  BY <1>1, <1>2, <1>3, FewerKeys, ConfigAssumption
<1>4. ASSUME NEW q \in Peers, NEW k \in Keys, PlanAssign(q, k)
      PROVE  Cardinality(out'[p]) <= Limit
  <2>1. CASE q # p
    <3>1. out'[p] = out[p]
      BY <1>4, <2>1 DEF PlanAssign, IInv, TypeOK
    <3> QED
      BY <1>2, <3>1
  <2>2. CASE q = p
    <3>1. out'[p] = out[p] \cup {k} /\ Cardinality(out[p]) < Limit
      BY <1>4, <2>2 DEF PlanAssign, HasRoom, IInv, TypeOK
    <3>2. IsFiniteSet(out[p])
      BY <1>1, KeysFinite, FS_Subset
    <3>3. Cardinality(out[p] \cup {k}) = IF k \in out[p] THEN Cardinality(out[p])
                                         ELSE Cardinality(out[p]) + 1
      BY <3>2, FS_AddElement
    <3> QED
      BY <1>2, <3>1, <3>3, ConfigAssumption
  <2> QED
    BY <2>1, <2>2
<1> QED
  BY <1>3, <1>4, OnlyPlanAsks

(* The count follows a set of requests that is given back.                  *)
LEMMA UnclaimCounts ==
  ASSUME IInv, CountNeverLow, NEW p \in Peers, NEW K \in SUBSET Keys,
         Unclaim(p, K), UNCHANGED pstate
  PROVE  CountNeverLow'
<1> SUFFICES ASSUME unclaimed # NoCount
             PROVE  unclaimed' >= Cardinality(Unasked')
  BY DEF CountNeverLow, Unclaim
<1> DEFINE F == Freed(p, K)
<1>1. /\ Unasked \in SUBSET Keys /\ F \in SUBSET Keys
      /\ Unasked' \subseteq Unasked \cup F
  BY DEF Unasked, Freed, Unclaim, IInv, TypeOK, Finished
<1>2. /\ Cardinality(Unasked) \in Nat /\ Cardinality(F) \in Nat
      /\ IsFiniteSet(Unasked) /\ IsFiniteSet(F)
  BY <1>1, CountOfKeys, KeysFinite, FS_Subset
<1>3. Cardinality(Unasked \cup F) <= Cardinality(Unasked) + Cardinality(F)
  <2>1. Cardinality(Unasked \cap F) \in Nat
    BY <1>1, CountOfKeys
  <2>2. Cardinality(Unasked \cup F) =
          Cardinality(Unasked) + Cardinality(F) - Cardinality(Unasked \cap F)
    BY <1>2, FS_Union
  <2> QED
    BY <1>2, <2>1, <2>2
<1>4. Cardinality(Unasked') <= Cardinality(Unasked \cup F) /\ Cardinality(Unasked') \in Nat
      /\ Cardinality(Unasked \cup F) \in Nat
  BY <1>1, FewerKeys
<1>5. unclaimed' = unclaimed + Cardinality(F) /\ unclaimed \in Int
      /\ unclaimed >= Cardinality(Unasked)
  BY DEF Unclaim, CountNeverLow, IInv, TypeOK
<1> QED
  BY <1>2, <1>3, <1>4, <1>5

(* The count survives a step that asks for no more blocks than it takes.    *)
LEMMA CountFrame ==
  ASSUME IInv, CountNeverLow, UNCHANGED unclaimed, Unasked' \subseteq Unasked
  PROVE  CountNeverLow'
<1>1. Unasked \in SUBSET Keys
  BY DEF Unasked
<1>2. Cardinality(Unasked') \in Nat /\ Cardinality(Unasked) \in Nat
      /\ Cardinality(Unasked') <= Cardinality(Unasked)
  BY <1>1, FewerKeys
<1> QED
  BY <1>2 DEF CountNeverLow, IInv, TypeOK

(* The count that plan consults is at least the number of free blocks.      *)
LEMMA CountConsulted ==
  ASSUME IInv, CountNeverLow
  PROVE  /\ UnclaimedBlocks \in Int /\ Cardinality(Unasked) \in Nat
         /\ UnclaimedBlocks >= Cardinality(Unasked)
<1>1. Cardinality(Unasked) \in Nat
  BY CountOfKeys DEF Unasked
<1> QED
  BY <1>1, UnclaimedBlocksType DEF CountNeverLow, UnclaimedBlocks, IInv

(* An assignment takes from the count what it takes from the free blocks.   *)
LEMMA PlanAssignCounts ==
  ASSUME IInv, CountNeverLow, NEW p \in Peers, NEW k \in Keys, PlanAssign(p, k)
  PROVE  CountNeverLow'
<1>1. /\ bstate[k] # "received" /\ k[1] \in Pieces
      /\ pstate[k[1]] \notin {"verified", "verifying", "downloaded"}
  BY NextBlocksAreRequestable, KeyShape DEF PlanAssign
<1>2. Unasked' = Unasked \ {k}
  <2>1. \A i \in Pieces : Finished(i)' <=> Finished(i)
    BY DEF PlanAssign, Finished, IInv, TypeOK
  <2>2. \A j \in Keys : j[1] \in Pieces
    BY KeyShape
  <2>3. \A j \in Keys : bstate'[j] = "missing" <=> (bstate[j] = "missing" /\ j # k)
    BY DEF PlanAssign, IInv, TypeOK
  <2> QED
    BY <2>1, <2>2, <2>3 DEF Unasked
<1>3. bstate[k] = "missing" <=> k \in Unasked
  BY <1>1 DEF Unasked, Finished
<1>4. IsFiniteSet(Unasked)
  BY KeysFinite, FS_Subset DEF Unasked
<1>5. Cardinality(Unasked') = Cardinality(Unasked) - ClaimCost(k)
  <2>1. Cardinality(Unasked \ {k}) = IF k \in Unasked THEN Cardinality(Unasked) - 1
                                     ELSE Cardinality(Unasked)
    BY <1>4, FS_RemoveElement
  <2> QED
    BY <1>2, <1>3, <2>1, CountConsulted DEF ClaimCost
<1>6. unclaimed' = UnclaimedBlocks - ClaimCost(k) /\ ClaimCost(k) \in Nat
  BY DEF PlanAssign, ClaimCost
<1> QED
  BY <1>5, <1>6, CountConsulted DEF CountNeverLow

(* A step of the scheduling loop keeps the count on the late side.          *)
LEMMA LoopCounts == ASSUME IInv, CountNeverLow, Loop PROVE CountNeverLow'
<1> USE DEF pieceVars, schedVars
<1>1. CASE Start \/ Stop \/ PumpBegin \/ ExpireDone \/ PlanEnd \/ PumpEnd \/ PlanBegin
  BY <1>1 DEF Start, Stop, PumpBegin, ExpireDone, PlanEnd, PumpEnd, PlanBegin,
              CountNeverLow, Unasked, Finished
<1>2. ASSUME NEW p \in Peers, SyncGone(p) PROVE CountNeverLow'
  <2>1. Unclaim(p, out[p]) /\ UNCHANGED pstate /\ out[p] \in SUBSET Keys
    BY <1>2 DEF SyncGone, DropPeer, IInv, TypeOK
  <2> QED
    BY <2>1, UnclaimCounts
<1>3. ASSUME NEW p \in Peers, PlanPick(p) PROVE CountNeverLow'
  BY <1>3 DEF PlanPick, CountNeverLow, Unasked, Finished
<1>4. ASSUME NEW p \in Peers, PlanPeerDone(p) PROVE CountNeverLow'
  <2>1. Unasked' = Unasked /\ unclaimed' \in {unclaimed, UnclaimedBlocks}
    BY <1>4 DEF PlanPeerDone, Unasked, Finished
  <2> QED
    BY <2>1, CountConsulted DEF CountNeverLow
<1>5. ASSUME NEW p \in Peers, NEW k \in Keys, ExpireOne(p, k) \/ SendFail(p, k)
      PROVE  CountNeverLow'
  <2> DEFINE K == IF ereq[k] # {} /\ ereq[k] \subseteq {p} THEN {k} ELSE {}
  <2>1. Unclaim(p, K) /\ UNCHANGED pstate /\ K \in SUBSET Keys
    BY <1>5 DEF ExpireOne, SendFail, NoteOrphaned
  <2> HIDE DEF K
  <2> QED
    BY <2>1, UnclaimCounts
<1>6. ASSUME NEW p \in Peers, NEW k \in Keys, PlanAssign(p, k) PROVE CountNeverLow'
  BY <1>6, PlanAssignCounts
<1>7. ASSUME NEW p \in Peers, NEW k \in Keys, SendOk(p, k) PROVE CountNeverLow'
  BY <1>7 DEF SendOk, CountNeverLow, Unasked, Finished
<1> QED
  BY <1>1, <1>2, <1>3, <1>4, <1>5, <1>6, <1>7 DEF Loop

(* A verification or a step of the environment keeps it there.              *)
LEMMA OthersCount ==
  ASSUME IInv, CountNeverLow, Verification \/ Environment PROVE CountNeverLow'
<1> USE DEF pieceVars, schedVars, IInv, TypeOK
<1>0. \A k \in Keys : k[1] \in Pieces
  BY KeyShape
<1>1. ASSUME NEW i \in Pieces, VerifyStart(i) \/ VerifyError(i) PROVE CountNeverLow'
  BY <1>1 DEF VerifyStart, VerifyError, CountNeverLow, Unasked, Finished
<1>2. ASSUME NEW i \in Pieces, VerifyPass(i) PROVE CountNeverLow'
  <2>1. UNCHANGED unclaimed /\ Unasked' \subseteq Unasked
    BY <1>0, <1>2 DEF VerifyPass, Unasked, Finished
  <2> QED
    BY <2>1, CountFrame
<1>3. ASSUME NEW i \in Pieces, VerifyFail(i) PROVE CountNeverLow'
  BY <1>3 DEF VerifyFail, CountNeverLow
<1>4. ASSUME NEW p \in Peers, OnDisconnect(p) PROVE CountNeverLow'
  <2>1. Unclaim(p, out[p]) /\ UNCHANGED pstate /\ out[p] \in SUBSET Keys
    BY <1>4 DEF OnDisconnect, DropPeer
  <2> QED
    BY <2>1, UnclaimCounts
<1>5. ASSUME NEW p \in Peers, NEW k \in Keys, NEW good \in BOOLEAN, OnBlock(p, k, good)
      PROVE  CountNeverLow'
  <2>1. UNCHANGED unclaimed
    BY <1>5 DEF OnBlock, BlockTooLate, BlockAccepted, PieceAssembled
  <2>2. ASSUME NEW j \in Keys PROVE bstate'[j] = "missing" => bstate[j] = "missing"
    BY <1>5 DEF OnBlock, BlockTooLate, BlockAccepted, PieceAssembled
  <2>3. ASSUME NEW i \in Pieces PROVE Finished(i) => Finished(i)'
    BY <1>5 DEF OnBlock, BlockTooLate, BlockAccepted, PieceAssembled, Finished
  <2>4. Unasked' \subseteq Unasked
    BY <1>0, <2>2, <2>3 DEF Unasked
  <2> QED
    BY <2>1, <2>4, CountFrame
<1>6. CASE Tick \/ \E p \in Peers : PeerConnect(p) \/ PeerChoke(p) \/ PeerLost(p)
  <2>1. UNCHANGED <<unclaimed, bstate, pstate>>
    BY <1>6 DEF Tick, PeerConnect, PeerChoke, PeerLost
  <2> QED
    BY <2>1 DEF CountNeverLow, Unasked, Finished
<1> QED
  BY <1>1, <1>2, <1>3, <1>4, <1>5, <1>6 DEF Verification, Environment

-----------------------------------------------------------------------------
(* What the invariant says, for every swarm and every interleaving of       *)
(* peers, timeouts, disconnects, stops and verification tasks.              *)

(* RequestsAgree: the four records of a request (PeerSlot.outstanding,       *)
(* EndgameTracker._requesters, Piece._requesters and Scheduler._asked) name  *)
(* the same requests, and cancel_piece leaves none for a piece that is being *)
(* stored or is stored.                                                      *)
THEOREM RequestsAgreeAlways == Spec => []RequestsAgree
<1>1. IInv => RequestsAgree
  BY DEF IInv, RequestInv, RequestsAgree
<1> QED
  BY <1>1, Inductive, PTL

(* The three records of what is verified (manager, pieces, storage) agree.  *)
THEOREM VerifiedAgreeAlways == Spec => []VerifiedAgree
  BY Inductive, PTL DEF IInv, StoreInv

(* No piece on disk holds a block that fails its hash, whichever copies of  *)
(* its blocks arrived, from whom and in which order.                        *)
THEOREM DiskIntegrityAlways == Spec => []DiskIntegrity
  BY Inductive, PTL DEF IInv, StoreInv

(* RequestsAreCounted: no peer is ever asked for more blocks at a time than  *)
(* max_outstanding_requests, and the cached count that decides when the      *)
(* endgame begins is never below the number of blocks still free, through    *)
(* timeouts, disconnects, hash failures and unrequested blocks.              *)
THEOREM RequestsAreCountedAlways == Spec => []RequestsAreCounted
<1>1. Init => RequestsAreCounted
  BY FS_EmptySet, ConfigAssumption
  DEF Init, RequestsAreCounted, PipelineBound, CountNeverLow
<1>2. IInv /\ RequestsAreCounted /\ [Next]_vars => RequestsAreCounted'
  <2> SUFFICES ASSUME IInv, RequestsAreCounted, [Next]_vars PROVE RequestsAreCounted'
    OBVIOUS
  <2>1. PipelineBound'
    BY PipelineStep DEF RequestsAreCounted
  <2>2. CountNeverLow'
    <3>1. CASE UNCHANGED vars
      BY <3>1 DEF vars, RequestsAreCounted, CountNeverLow, Unasked, Finished
    <3> QED
      BY <3>1, LoopCounts, OthersCount DEF Next, RequestsAreCounted
  <2> QED
    BY <2>1, <2>2 DEF RequestsAreCounted
<1> QED
  BY <1>1, <1>2, Inductive, PTL DEF Spec

(* RaceOnlyAtTheEnd: a block that is being fetched is asked of one more peer *)
(* only in the endgame, with at most Threshold blocks really free and a      *)
(* request for it that has waited EndgameDelay.                              *)
THEOREM RacesOnlyAtTheEnd == Spec => RaceOnlyAtTheEnd
<1> DEFINE Late(k) ==
      ereq[k] # {} /\ ~(ereq'[k] \subseteq ereq[k]) =>
        /\ EndgameEnabled
        /\ Cardinality(Unasked) <= Threshold
        /\ \E p \in Peers : k \in out[p] /\ age[p][k] >= EndgameDelay
<1>1. IInv /\ RequestsAreCounted /\ IInv' /\ [Next]_vars => \A k \in Keys : Late(k)
  <2> SUFFICES ASSUME IInv, RequestsAreCounted, IInv', [Next]_vars,
                      NEW k \in Keys, ereq[k] # {}, ~(ereq'[k] \subseteq ereq[k])
               PROVE  /\ EndgameEnabled
                      /\ Cardinality(Unasked) <= Threshold
                      /\ \E p \in Peers : k \in out[p] /\ age[p][k] >= EndgameDelay
    OBVIOUS
  <2>1. \A p \in Peers : (k \in out[p] <=> p \in ereq[k]) /\ (k \in out'[p] <=> p \in ereq'[k])
    BY DEF IInv, RequestInv, PipelinesMatchTracker
  <2>2. ereq[k] \subseteq Peers /\ ereq'[k] \subseteq Peers
    BY DEF IInv, TypeOK
  <2>3. ~ \A p \in Peers : out'[p] \subseteq out[p]
    BY <2>1, <2>2
  <2>4. PICK p \in Peers, j \in Keys : PlanAssign(p, j)
    BY <2>3, OnlyPlanAsks
  <2>5. j = k
    BY <2>4 DEF PlanAssign, IInv, TypeOK
  <2>6. PICK i \in Pieces : k \in Gives(p, i)
    BY <2>4, <2>5 DEF PlanAssign, NextBlocks, Wanted
  <2>7. Offerable(p, k) /\ Fair(k)
    BY <2>6 DEF Gives, Offered
  <2>8. Racing
    <3>1. breq[k] # {}
      BY DEF IInv, RequestInv, OutstandingIsClaimed
    <3> QED
      BY <2>7, <3>1 DEF Offerable
  <2>9. Cardinality(Unasked) <= Threshold
    BY <2>8, CountConsulted, ConfigAssumption DEF Racing, RequestsAreCounted
  <2>10. \E q \in Peers : k \in out[q] /\ age[q][k] >= EndgameDelay
    BY <2>1, <2>2, <2>7 DEF Fair, Stale
  <2> QED
    BY <2>8, <2>9, <2>10 DEF Racing
<1>2. IInv /\ RequestsAreCounted /\ IInv' /\ [Next]_vars => [\A k \in Keys : Late(k)]_vars
  BY <1>1
<1> QED
  BY <1>2, Inductive, RequestsAreCountedAlways, PTL DEF RaceOnlyAtTheEnd, Spec

-----------------------------------------------------------------------------
(* What is alive: every claim has somebody behind it.                       *)

(* A finite set has an element no other one comes before.                   *)
LEMMA LeastElement ==
  ASSUME NEW S, IsFiniteSet(S), S # {}, NEW Before,
         \A x \in S : <<x, x>> \notin Before,
         \A x, y, z \in S : <<x, y>> \in Before /\ <<y, z>> \in Before => <<x, z>> \in Before
  PROVE  \E x \in S : \A y \in S : <<y, x>> \notin Before
<1> DEFINE Below(x) == {y \in S : <<y, x>> \in Before}
           Belows == {Below(x) : x \in S}
           R == StrictSubsetOrdering(S)
<1>1. IsWellFoundedOn(R, FiniteSubsetsOf(S))
  BY FS_StrictSubsetOrderingWellFounded
<1>2. Belows \subseteq FiniteSubsetsOf(S) /\ Belows # {}
  <2>1. \A T \in SUBSET S : T \in FiniteSubsetsOf(S)
    BY FS_Subset DEF FiniteSubsetsOf
  <2>2. \A x \in S : Below(x) \in SUBSET S
    OBVIOUS
  <2> HIDE DEF Below
  <2> QED
    BY <2>1, <2>2
<1>3. PICK B \in Belows : \A C \in Belows : <<C, B>> \notin R
  <2> HIDE DEF R, Belows
  <2> QED
    BY <1>1, <1>2, WFMin
<1>4. PICK x \in S : B = Below(x)
  BY <1>3
<1>5. ASSUME NEW y \in S, <<y, x>> \in Before PROVE FALSE
  <2>1. Below(y) \subseteq Below(x) /\ Below(y) # Below(x)
    BY <1>5
  <2>2. Below(y) \in Belows /\ Below(y) \in SUBSET S /\ B \in SUBSET S
    <3>1. \A z \in S : Below(z) \in SUBSET S
      OBVIOUS
    <3> HIDE DEF Below
    <3> QED
      BY <1>4, <3>1
  <2> HIDE DEF Below, Belows
  <2>3. <<Below(y), B>> \in R
    BY <2>1, <2>2, <1>4 DEF StrictSubsetOrdering
  <2> QED
    BY <2>2, <2>3, <1>3
<1> QED
  BY <1>5

(* No piece rests in a state the scheduler passes over, a free block has no *)
(* claim, a piece being checked has a task while the disk does not fail,    *)
(* and, without the endgame, the claims of a piece are the requests that    *)
(* are out, one for a block.                                                *)
FreeIsFree ==
  /\ \A i \in Pieces : pstate[i] # "downloaded"
  /\ \A k \in Keys : bstate[k] = "missing" => breq[k] = {}

Tended == ~DiskMayFail => \A i \in Pieces : pstate[i] = "verifying" => task[i] # "none"

ClaimedByOne(k) ==
  /\ breq[k] = ereq[k]
  /\ bstate[k] = "requested" => ereq[k] # {}
  /\ \A p, q \in ereq[k] : p = q

Lone == ~EndgameEnabled => \A k \in Keys : ClaimedByOne(k)

AliveInv == FreeIsFree /\ Tended /\ Lone

(* Who is behind a block of a piece that is whole: nobody.                  *)
LEMMA NobodyBehindWhole ==
  ASSUME IInv, NEW k \in Keys,
         pstate[k[1]] \in {"verifying", "verified"} \/ bstate[k] = "received"
  PROVE  ereq[k] = {}
<1>1. \A p \in Peers : k \in out[p] <=> p \in ereq[k]
  BY DEF IInv, RequestInv, PipelinesMatchTracker
<1>2. ereq[k] \subseteq Peers
  BY DEF IInv, TypeOK
<1>3. CASE pstate[k[1]] \in {"verifying", "verified"}
  BY <1>1, <1>2, <1>3 DEF IInv, RequestInv, NothingOutstandingOnceAssembled
<1>4. CASE bstate[k] = "received"
  BY <1>4 DEF IInv, RequestInv, OutstandingIsClaimed
<1> QED
  BY <1>3, <1>4

LEMMA AliveFrame ==
  ASSUME AliveInv, UNCHANGED <<pstate, bstate, breq, ereq, task>>
  PROVE  AliveInv'
BY DEF AliveInv, FreeIsFree, Tended, Lone, ClaimedByOne

LEMMA NoteOrphanedAlive ==
  ASSUME IInv, AliveInv, NEW p \in Peers, NEW k \in Keys, NoteOrphaned(p, k), UNCHANGED task
  PROVE  AliveInv'
<1> DEFINE K == IF ereq[k] # {} /\ ereq[k] \subseteq {p} THEN {k} ELSE {}
<1>1. /\ K \subseteq Keys
      /\ \A j \in Keys : breq'[j] = IF j \in K THEN breq[j] \ {p} ELSE breq[j]
      /\ \A j \in Keys : bstate'[j] = IF j \in Freed(p, K) THEN "missing" ELSE bstate[j]
      /\ \A j \in Keys : ereq'[j] = IF j = k THEN ereq[j] \ {p} ELSE ereq[j]
      /\ UNCHANGED pstate
  BY DEF NoteOrphaned, Unclaim, IInv, TypeOK
<1>2. FreeIsFree'
  BY <1>1 DEF AliveInv, FreeIsFree, Freed
<1>3. Tended'
  BY <1>1 DEF AliveInv, Tended
<1>4. ASSUME ~EndgameEnabled, NEW j \in Keys PROVE ClaimedByOne(j)'
  <2>1. ClaimedByOne(j)
    BY <1>4 DEF AliveInv, Lone
  <2>2. ereq[j] # {} => bstate[j] = "requested"
    BY DEF IInv, RequestInv, OutstandingIsClaimed
  <2>3. CASE j \in K
    <3>1. breq[j] = ereq[j] /\ ereq[j] \subseteq {p} /\ bstate[j] = "requested" /\ j = k
      BY <2>1, <2>2, <2>3 DEF ClaimedByOne
    <3>2. breq'[j] = {} /\ ereq'[j] = {} /\ bstate'[j] = "missing"
      BY <1>1, <2>3, <3>1 DEF Freed
    <3> QED
      BY <3>2 DEF ClaimedByOne
  <2>4. CASE j \notin K
    <3>1. breq'[j] = breq[j] /\ bstate'[j] = bstate[j]
      BY <1>1, <2>4 DEF Freed
    <3>2. ereq'[j] = ereq[j]
      BY <1>1, <2>1, <2>4 DEF ClaimedByOne
    <3> QED
      BY <2>1, <3>1, <3>2 DEF ClaimedByOne
  <2> QED
    BY <2>3, <2>4
<1> QED
  BY <1>2, <1>3, <1>4 DEF AliveInv, Lone

LEMMA DropPeerAlive ==
  ASSUME IInv, AliveInv, NEW p \in Peers, DropPeer(p), UNCHANGED task
  PROVE  AliveInv'
<1>1. /\ \A j \in Keys : breq'[j] = IF j \in out[p] THEN breq[j] \ {p} ELSE breq[j]
      /\ \A j \in Keys : bstate'[j] = IF j \in Freed(p, out[p]) THEN "missing" ELSE bstate[j]
      /\ \A j \in Keys : ereq'[j] = IF j \in out[p] THEN ereq[j] \ {p} ELSE ereq[j]
      /\ UNCHANGED pstate
  BY DEF DropPeer, Unclaim, IInv, TypeOK
<1>2. FreeIsFree'
  BY <1>1 DEF AliveInv, FreeIsFree, Freed
<1>3. Tended'
  BY <1>1 DEF AliveInv, Tended
<1>4. ASSUME ~EndgameEnabled, NEW j \in Keys PROVE ClaimedByOne(j)'
  <2>1. ClaimedByOne(j)
    BY <1>4 DEF AliveInv, Lone
  <2>2. ereq[j] # {} => bstate[j] = "requested"
    BY DEF IInv, RequestInv, OutstandingIsClaimed
  <2>3. j \in out[p] <=> p \in ereq[j]
    BY DEF IInv, RequestInv, PipelinesMatchTracker
  <2> QED
    BY <1>1, <2>1, <2>2, <2>3 DEF ClaimedByOne, Freed
<1> QED
  BY <1>2, <1>3, <1>4 DEF AliveInv, Lone

LEMMA PlanAssignAlive ==
  ASSUME IInv, AliveInv, NEW p \in Peers, NEW k \in Keys, PlanAssign(p, k)
  PROVE  AliveInv'
<1>1. /\ \A j \in Keys : breq'[j] = IF j = k THEN breq[j] \cup {p} ELSE breq[j]
      /\ \A j \in Keys : ereq'[j] = IF j = k THEN ereq[j] \cup {p} ELSE ereq[j]
      /\ \A j \in Keys \ {k} : bstate'[j] = bstate[j]
      /\ UNCHANGED task
  BY DEF PlanAssign, IInv, TypeOK, diskVars
<1>2. bstate'[k] = "requested"
  <2>1. bstate[k] # "received" /\ bstate[k] \in BlockStates
    BY NextBlocksAreRequestable DEF PlanAssign, IInv, TypeOK
  <2> QED
    BY <2>1 DEF PlanAssign, BlockStates, IInv, TypeOK
<1>3. \A i \in Pieces : pstate'[i] = pstate[i] \/ pstate'[i] = "requested"
  BY DEF PlanAssign, IInv, TypeOK
<1>4. FreeIsFree'
  BY <1>1, <1>2, <1>3 DEF AliveInv, FreeIsFree
<1>5. Tended'
  BY <1>1, <1>3 DEF AliveInv, Tended
<1>6. ASSUME ~EndgameEnabled, NEW j \in Keys PROVE ClaimedByOne(j)'
  <2>1. ClaimedByOne(j)
    BY <1>6 DEF AliveInv, Lone
  <2>2. j = k => breq[j] = {}
    <3>1. PICK i \in Pieces : k \in Gives(p, i)
      BY DEF PlanAssign, NextBlocks, Wanted
    <3>2. Offerable(p, k)
      BY <3>1 DEF Gives, Offered
    <3> QED
      BY <1>6, <3>2 DEF Offerable, Racing
  <2> QED
    BY <1>1, <1>2, <2>1, <2>2 DEF ClaimedByOne
<1> QED
  BY <1>4, <1>5, <1>6 DEF AliveInv, Lone

LEMMA OnBlockAlive ==
  ASSUME IInv, AliveInv, NEW p \in Peers, NEW k \in Keys, NEW good \in BOOLEAN,
         OnBlock(p, k, good)
  PROVE  AliveInv'
<1>1. CASE BlockTooLate(p, k)
  <2>1. ereq[k] = {}
    BY <1>1, NobodyBehindWhole DEF BlockTooLate
  <2>2. UNCHANGED ereq
    BY <1>1, <2>1 DEF BlockTooLate, NoteReceived, IInv, TypeOK
  <2> QED
    BY <1>1, <2>2, AliveFrame DEF BlockTooLate, pieceVars
<1>2. CASE BlockAccepted(p, k, good)
  <2>1. /\ \A j \in Keys : breq'[j] = IF j = k THEN {} ELSE breq[j]
        /\ \A j \in Keys : ereq'[j] = IF j = k THEN {} ELSE ereq[j]
        /\ \A j \in Keys : bstate'[j] = IF j = k THEN "received" ELSE bstate[j]
        /\ \A i \in Pieces : pstate'[i] = IF i = k[1] THEN "downloading" ELSE pstate[i]
        /\ UNCHANGED task
    BY <1>2 DEF BlockAccepted, NoteReceived, IInv, TypeOK
  <2>2. FreeIsFree'
    BY <2>1 DEF AliveInv, FreeIsFree
  <2>3. Tended'
    BY <2>1 DEF AliveInv, Tended
  <2>4. Lone'
    BY <2>1 DEF AliveInv, Lone, ClaimedByOne
  <2> QED
    BY <2>2, <2>3, <2>4 DEF AliveInv
<1>3. CASE PieceAssembled(p, k, good)
  <2> DEFINE i == k[1]
             gone(j) == {q \in Peers : j \in OutAfterReceipt(p, k)[q]}
             left == [j \in Keys |-> IF j = k THEN {} ELSE ereq[j]]
  <2>1. /\ bstate' = [bstate EXCEPT ![k] = "received"]
        /\ breq' = [j \in Keys |-> IF j = k THEN {}
                                   ELSE IF j[1] = i THEN breq[j] \ gone(j) ELSE breq[j]]
        /\ ereq' = [j \in Keys |-> IF j[1] = i THEN left[j] \ gone(j) ELSE ereq[j]]
        /\ pstate' = [pstate EXCEPT ![i] = "verifying"]
        /\ task' = [task EXCEPT ![i] = "queued"]
        /\ Received(i) = KeysOf(i) \ {k}
    BY <1>3 DEF PieceAssembled
  <2>2. i \in Pieces /\ k \in KeysOf(i)
    BY KeyShape
  <2>3. \A j \in Keys : j[1] = i /\ j # k => bstate[j] = "received" /\ ereq[j] = {}
    <3>1. \A j \in Keys : j[1] = i /\ j # k => bstate[j] = "received"
      BY <2>1, KeyShape DEF Received
    <3> QED
      BY <3>1, NobodyBehindWhole
  <2>4. FreeIsFree'
    <3>1. \A j \in Keys : bstate'[j] = "missing" => bstate[j] = "missing" /\ j # k
      BY <2>1 DEF IInv, TypeOK
    <3>2. \A j \in Keys : breq'[j] \subseteq breq[j]
      BY <2>1
    <3>3. \A j \in Pieces : pstate'[j] # "downloaded"
      BY <2>1 DEF AliveInv, FreeIsFree, IInv, TypeOK
    <3> QED
      BY <3>1, <3>2, <3>3 DEF AliveInv, FreeIsFree
  <2>5. Tended'
    BY <2>1, <2>2 DEF AliveInv, Tended, IInv, TypeOK
  <2>6. ASSUME ~EndgameEnabled, NEW j \in Keys PROVE ClaimedByOne(j)'
    <3>1. ClaimedByOne(j)
      BY <2>6 DEF AliveInv, Lone
    <3>2. bstate'[j] = IF j = k THEN "received" ELSE bstate[j]
      BY <2>1 DEF IInv, TypeOK
    <3>3. CASE j = k
      <4>1. breq'[j] = {} /\ ereq'[j] = {}
        BY <2>1, <2>2, <3>3
      <4> QED
        BY <3>2, <3>3, <4>1 DEF ClaimedByOne
    <3>4. CASE j # k /\ j[1] = i
      <4>1. breq[j] = {} /\ ereq[j] = {} /\ bstate[j] = "received"
        BY <2>3, <3>1, <3>4 DEF ClaimedByOne
      <4>2. breq'[j] = {} /\ ereq'[j] = {}
        BY <2>1, <3>4, <4>1
      <4> QED
        BY <3>2, <3>4, <4>1, <4>2 DEF ClaimedByOne
    <3>5. CASE j[1] # i
      <4>1. breq'[j] = breq[j] /\ ereq'[j] = ereq[j] /\ j # k
        BY <2>1, <3>5
      <4> QED
        BY <3>1, <3>2, <4>1 DEF ClaimedByOne
    <3> QED
      BY <3>3, <3>4, <3>5
  <2> QED
    BY <2>4, <2>5, <2>6 DEF AliveInv, Lone
<1> QED
  BY <1>1, <1>2, <1>3 DEF OnBlock

LEMMA VerificationAlive == ASSUME IInv, AliveInv, Verification PROVE AliveInv'
<1> USE DEF pieceVars, schedVars
<1>1. ASSUME NEW i \in Pieces, VerifyStart(i) PROVE AliveInv'
  <2>1. /\ UNCHANGED <<pstate, bstate, breq, ereq>>
        /\ \A j \in Pieces : task[j] # "none" => task'[j] # "none"
    BY <1>1 DEF VerifyStart, IInv, TypeOK
  <2> QED
    BY <2>1 DEF AliveInv, FreeIsFree, Tended, Lone, ClaimedByOne
<1>2. ASSUME NEW i \in Pieces, VerifyPass(i) PROVE AliveInv'
  <2>1. /\ UNCHANGED <<bstate, breq, ereq>>
        /\ \A j \in Pieces : /\ pstate'[j] = IF j = i THEN "verified" ELSE pstate[j]
                             /\ task'[j] = IF j = i THEN "none" ELSE task[j]
    BY <1>2 DEF VerifyPass, IInv, TypeOK
  <2> QED
    BY <2>1 DEF AliveInv, FreeIsFree, Tended, Lone, ClaimedByOne
<1>3. ASSUME NEW i \in Pieces, VerifyFail(i) PROVE AliveInv'
  <2>1. /\ UNCHANGED ereq
        /\ \A j \in Pieces : /\ pstate'[j] = IF j = i THEN "missing" ELSE pstate[j]
                             /\ task'[j] = IF j = i THEN "none" ELSE task[j]
        /\ \A j \in Keys : /\ bstate'[j] = IF j[1] = i THEN "missing" ELSE bstate[j]
                           /\ breq'[j] = IF j[1] = i THEN {} ELSE breq[j]
    BY <1>3 DEF VerifyFail, IInv, TypeOK
  <2>2. pstate[i] = "verifying"
    BY <1>3 DEF VerifyFail, IInv, StoreInv, TasksMatchPieces
  <2>3. \A j \in Keys : j[1] = i => ereq[j] = {}
    BY <2>2, NobodyBehindWhole
  <2>4. FreeIsFree' /\ Tended'
    BY <2>1 DEF AliveInv, FreeIsFree, Tended
  <2>5. ASSUME ~EndgameEnabled, NEW j \in Keys PROVE ClaimedByOne(j)'
    <3>1. ClaimedByOne(j)
      BY <2>5 DEF AliveInv, Lone
    <3>2. CASE j[1] = i
      BY <2>1, <2>3, <3>2 DEF ClaimedByOne
    <3>3. CASE j[1] # i
      BY <2>1, <3>1, <3>3 DEF ClaimedByOne
    <3> QED
      BY <3>2, <3>3
  <2> QED
    BY <2>4, <2>5 DEF AliveInv, Lone
<1>4. ASSUME NEW i \in Pieces, VerifyError(i) PROVE AliveInv'
  BY <1>4 DEF VerifyError, AliveInv, FreeIsFree, Tended, Lone, ClaimedByOne
<1> QED
  BY <1>1, <1>2, <1>3, <1>4 DEF Verification

LEMMA AliveStep == ASSUME IInv, AliveInv, [Next]_vars PROVE AliveInv'
<1> USE DEF loopVars, pieceVars, schedVars, peerVars, diskVars
<1>1. CASE UNCHANGED vars
  BY <1>1, AliveFrame DEF vars
<1>2. CASE Loop
  <2>1. ASSUME NEW p \in Peers, SyncGone(p) PROVE AliveInv'
    BY <2>1, DropPeerAlive DEF SyncGone
  <2>2. ASSUME NEW p \in Peers, NEW k \in Keys, ExpireOne(p, k) \/ SendFail(p, k)
        PROVE  AliveInv'
    BY <2>2, NoteOrphanedAlive DEF ExpireOne, SendFail
  <2>3. ASSUME NEW p \in Peers, NEW k \in Keys, PlanAssign(p, k) PROVE AliveInv'
    BY <2>3, PlanAssignAlive
  <2>4. CASE UNCHANGED <<pstate, bstate, breq, ereq, task>>
    BY <2>4, AliveFrame
  <2> QED
    BY <1>2, <2>1, <2>2, <2>3, <2>4
    DEF Loop, Start, Stop, PumpBegin, ExpireDone, PlanBegin, PlanEnd, PumpEnd,
        PlanPick, PlanPeerDone, SendOk
<1>3. CASE Verification
  BY <1>3, VerificationAlive
<1>4. CASE Environment
  <2>1. ASSUME NEW p \in Peers, OnDisconnect(p) PROVE AliveInv'
    BY <2>1, DropPeerAlive DEF OnDisconnect
  <2>2. CASE UNCHANGED <<pstate, bstate, breq, ereq, task>>
    BY <2>2, AliveFrame
  <2> QED
    BY <1>4, <2>1, <2>2, OnBlockAlive
    DEF Environment, Tick, PeerConnect, PeerChoke, PeerLost
<1> QED
  BY <1>1, <1>2, <1>3, <1>4 DEF Next

LEMMA InitAlive == Init => AliveInv
  BY KeyShape DEF Init, AliveInv, FreeIsFree, Tended, Lone, ClaimedByOne

(* What AliveInv says of the requests.                                      *)
LEMMA AliveMeans ==
  ASSUME ~EndgameEnabled, ~DiskMayFail
  PROVE  IInv /\ AliveInv => RequestsAreAlive
<1> SUFFICES ASSUME IInv, AliveInv PROVE RequestsAreAlive
  OBVIOUS
<1>1. \A k \in Keys : ClaimedByOne(k) /\ ereq[k] \subseteq Peers
  BY DEF AliveInv, Lone, IInv, TypeOK
<1>2. \A p \in Peers, k \in Keys : k \in out[p] <=> p \in ereq[k]
  BY DEF IInv, RequestInv, PipelinesMatchTracker
<1>3. RequestedIsOutstanding
  BY <1>1, <1>2 DEF RequestedIsOutstanding, ClaimedByOne
<1>4. OneRequesterPerBlock
  BY <1>1, <1>2 DEF OneRequesterPerBlock, ClaimedByOne
<1>5. VerifyingHasTask
  BY DEF VerifyingHasTask, AliveInv, Tended, IInv, StoreInv, TasksMatchPieces
<1> QED
  BY <1>3, <1>4, <1>5 DEF RequestsAreAlive

(* Without the endgame, a block counted as requested is being fetched, by   *)
(* one peer, and, while the disk takes what is written, a piece being       *)
(* checked has a task that will decide its fate.                            *)
THEOREM RequestsAreAliveAlways ==
  ASSUME ~EndgameEnabled, ~DiskMayFail
  PROVE  Spec => []RequestsAreAlive
<1>1. IInv /\ AliveInv => RequestsAreAlive
  BY AliveMeans
<1> QED
  BY <1>1, InitAlive, AliveStep, Inductive, PTL DEF Spec

(* The first block of a piece of which something may be asked.              *)
LEMMA FirstBlock ==
  ASSUME NEW i \in Pieces, NEW S \in SUBSET KeysOf(i), S # {}
  PROVE  \E m \in S : \A j \in S : m[2] <= j[2]
<1> DEFINE Before == {r \in S \X S : r[1][2] < r[2][2]}
<1>1. \A m \in S : m[2] \in Nat
  BY PiecesAssumption DEF KeysOf
<1>2. IsFiniteSet(S)
  <2>1. S \in SUBSET Keys
    BY KeyShape
  <2> QED
    BY <2>1, KeysFinite, FS_Subset
<1>3. \A x, y \in S : <<x, y>> \in Before <=> x[2] < y[2]
  OBVIOUS
<1> HIDE DEF Before
<1>4. \A x \in S : <<x, x>> \notin Before
  BY <1>1, <1>3
<1>5. \A x, y, z \in S : <<x, y>> \in Before /\ <<y, z>> \in Before => <<x, z>> \in Before
  BY <1>1, <1>3
<1>6. PICK m \in S : \A j \in S : <<j, m>> \notin Before
  BY <1>2, <1>4, <1>5, LeastElement
<1>7. ASSUME NEW j \in S PROVE m[2] <= j[2]
  <2>1. ~(j[2] < m[2])
    BY <1>3, <1>6
  <2>2. m[2] \in Nat /\ j[2] \in Nat
    BY <1>1
  <2> QED
    BY <2>1, <2>2
<1> QED
  BY <1>7

(* The piece the scheduler prefers among those that are started.            *)
LEMMA FirstPiece ==
  ASSUME NEW S \in SUBSET Pieces, S # {}
  PROVE  \E i \in S : \A j \in S \ {i} : Precedes(i, j)
<1> DEFINE Before == {r \in S \X S : Precedes(r[1], r[2])}
           got(i) == Cardinality(Received(i))
<1>1. \A i \in S : i \in Nat /\ got(i) \in Nat
  <2>1. \A i \in S : Received(i) \in SUBSET Keys
    BY KeyShape DEF Received
  <2> QED
    BY <2>1, CountOfKeys, PiecesAssumption
<1>2. IsFiniteSet(S)
  BY PiecesAssumption, FS_Subset
<1>3. \A i, j \in S : <<i, j>> \in Before <=> Precedes(i, j)
  OBVIOUS
<1>4. \A i, j \in S : Precedes(i, j) <=> got(i) > got(j) \/ (got(i) = got(j) /\ i < j)
  BY DEF Precedes
<1> HIDE DEF Before, got
<1>5. \A x \in S : <<x, x>> \notin Before
  BY <1>1, <1>3, <1>4
<1>6. \A x, y, z \in S : <<x, y>> \in Before /\ <<y, z>> \in Before => <<x, z>> \in Before
  BY <1>1, <1>3, <1>4
<1>7. PICK i \in S : \A j \in S : <<j, i>> \notin Before
  BY <1>2, <1>5, <1>6, LeastElement
<1>8. ASSUME NEW j \in S \ {i} PROVE Precedes(i, j)
  <2>1. ~Precedes(j, i)
    BY <1>3, <1>7
  <2>2. i \in Nat /\ j \in Nat /\ got(i) \in Nat /\ got(j) \in Nat /\ i # j
    BY <1>1
  <2>3. got(i) > got(j) \/ (got(i) = got(j) /\ i < j)
    BY <1>4, <2>1, <2>2
  <2> QED
    BY <1>4, <2>3
<1> QED
  BY <1>8

(* A plan that stops with room has nothing left to give.                    *)
LEMMA PlanIsExhausted == ASSUME ~EndgameEnabled PROVE IInv /\ AliveInv => PlansWell
<1> SUFFICES ASSUME IInv, AliveInv, NEW p \in Peers, PlanPeerDone(p), HasRoom(p),
                    NEW k \in Unasked, k[1] \in Holds[p]
             PROVE  FALSE
  BY DEF PlansWell
<1> DEFINE i == k[1]
           free == {j \in KeysOf(i) : Offerable(p, j)}
<1>1. k \in Keys /\ bstate[k] = "missing" /\ ~Finished(i) /\ i \in Pieces /\ k \in KeysOf(i)
  BY KeyShape DEF Unasked
<1>2. pstate[i] \notin {"verified", "verifying", "downloaded"}
  BY <1>1 DEF Finished, AliveInv, FreeIsFree, IInv, RequestInv, NothingOutstandingOnceAssembled
<1>3. k \in free
  BY <1>1 DEF Offerable, AliveInv, FreeIsFree
<1>4. PICK m \in free : \A j \in free : m[2] <= j[2]
  BY <1>1, <1>3, FirstBlock
<1>5. m \in Offered(p, i)
  BY <1>2, <1>4 DEF Offered
<1>6. ereq[m] = {}
  <2>1. m \in Keys /\ breq[m] = {}
    BY <1>1, <1>4, KeyShape DEF Offerable, Racing
  <2> QED
    BY <2>1 DEF IInv, RequestInv, OutstandingIsClaimed
<1>7. Gives(p, i) # {}
  BY <1>5, <1>6 DEF Gives, Fair
<1>8. NextBlocks(p) # {}
  <2> DEFINE started == {j \in Pieces : InProgress(j) /\ Gives(p, j) # {}}
             fresh   == {j \in Wanted : ~InProgress(j) /\ Gives(p, j) # {}}
             first   == IF started # {}
                        THEN {j \in started : \A h \in started \ {j} : Precedes(j, h)}
                        ELSE fresh
  <2>1. NextBlocks(p) = UNION {Gives(p, j) : j \in first}
    BY DEF NextBlocks
  <2>2. first # {} /\ \A j \in first : Gives(p, j) # {}
    <3>1. CASE started # {}
      <4> HIDE DEF started
      <4>1. started \in SUBSET Pieces /\ \A j \in started : Gives(p, j) # {}
        BY DEF started
      <4>2. \E j \in started : \A h \in started \ {j} : Precedes(j, h)
        BY <3>1, <4>1, FirstPiece
      <4> QED
        BY <3>1, <4>1, <4>2
    <3>2. CASE started = {}
      BY <3>2, <1>1, <1>2, <1>7 DEF Wanted
    <3> QED
      BY <3>1, <3>2
  <2> HIDE DEF first
  <2> QED
    BY <2>1, <2>2
<1>9. NextBlocks(p) \cap out[p] = {}
  <2> SUFFICES ASSUME NEW j \in NextBlocks(p), j \in out[p] PROVE FALSE
    OBVIOUS
  <2>1. j \in Keys /\ p \notin breq[j]
    BY NextBlocksAreRequestable
  <2>2. p \in ereq[j]
    BY <2>1 DEF IInv, RequestInv, PipelinesMatchTracker
  <2> QED
    BY <2>1, <2>2 DEF IInv, RequestInv, OutstandingIsClaimed
<1> QED
  BY <1>8, <1>9 DEF PlanPeerDone

(* Scheduler.plan stops filling a peer that has room only when no block is  *)
(* left that nobody was asked for and the peer holds.                       *)
THEOREM PlanKeepsPeersBusyAlways ==
  ASSUME ~EndgameEnabled
  PROVE  Spec => PlanKeepsPeersBusy
<1>1. IInv /\ AliveInv => [PlansWell]_vars
  BY PlanIsExhausted
<1> QED
  BY <1>1, InitAlive, AliveStep, Inductive, PTL DEF Spec, PlanKeepsPeersBusy
=============================================================================
