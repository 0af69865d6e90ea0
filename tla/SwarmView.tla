------------------------------ MODULE SwarmView ------------------------------
(***************************************************************************)
(* What the download manager believes about its swarm: which pieces each    *)
(* peer holds (PeerSession.bitfield in peer/state.py), how many peers hold  *)
(* each piece (PieceAvailability in peer/bitfield.py, which rarest-first    *)
(* reads) and which peers have been told that we are interested             *)
(* (DownloadManager._sync_peers, _update_interests, on_have, on_disconnect  *)
(* in download/manager.py).                                                 *)
(*                                                                          *)
(* A session starts with an empty Bitfield object; a bitfield message       *)
(* replaces that object by another, and haves set bits of the current one.  *)
(* The manager keeps a reference to the object that was current when it     *)
(* first saw the peer.  Everything interleaves with the one await of a      *)
(* pass, the writing of an interest message (Awaiting).  The pieces are seen *)
(* only through the states that decide what is wanted; module Download has  *)
(* the rest of their life.                                                  *)
(***************************************************************************)
EXTENDS Integers, FiniteSets

CONSTANTS
  Peers,          \* peer identities
  NoPeer,         \* "no interest message is being sent"
  Pieces,         \* piece indices
  BitfieldFirst,  \* whether peers send no have before their bitfield
  MayCorrupt,     \* whether a piece may fail its hash
  MayReturn,      \* whether a peer that left may connect again
  MaxCount        \* bound: values of the availability counters

SwarmAssumption ==
  /\ IsFiniteSet(Peers) /\ IsFiniteSet(Pieces)
  /\ NoPeer \notin Peers
  /\ BitfieldFirst \in BOOLEAN /\ MayCorrupt \in BOOLEAN /\ MayReturn \in BOOLEAN
  /\ MaxCount \in Nat \ {0}

VARIABLES
  conn,       \* connection: "down", "up", "closing", or "gone" for good
  first,      \* bits of the session's initial Bitfield object
  second,     \* bits of the object a bitfield message installed
  received,   \* PeerSession._bitfield_received
  amInterested, \* PeerSession.am_interested
  view,       \* the object in DownloadManager._tracked: "none", "first", "second"
  avail,      \* PieceAvailability._counts
  interest,   \* DownloadManager._interest: {} or {the signature}
  piece,      \* each piece: "wanted", "verifying" or "verified"
  pump,       \* where a pass is: "idle", "interest"
  left,       \* live peers this pass has not decided about yet
  dead,       \* the same, for connections that died during the pass
  cur,        \* the peer an interest message is being sent to
  sig,        \* the signature that goes with that message
  wanted,     \* Scheduler.wanted() as read at the start of the pass
  count       \* len(verified_pieces) as read at the start of the pass

sessionVars == <<conn, first, second, received>>
viewVars == <<view, avail>>
pumpVars == <<pump, left, dead, cur, sig, wanted, count>>
swarmVars == <<conn, first, second, received, amInterested, view, avail, interest, piece,
  pump, left, dead, cur, sig, wanted, count>>

-----------------------------------------------------------------------------
Up(p) == conn[p] = "up"

(* PeerSession.bitfield: the current object's bits.                         *)
Bits(p) == IF received[p] THEN second[p] ELSE first[p]

(* The bits of the object the manager tracks.                               *)
TrackedBits(p) ==
  IF view[p] = "none" THEN {} ELSE IF view[p] = "first" THEN first[p] ELSE second[p]

(* Nothing synchronous is running.                                          *)
Awaiting == pump = "idle" \/ cur # NoPeer

Wanted   == {i \in Pieces : piece[i] = "wanted"}
Verified == {i \in Pieces : piece[i] = "verified"}

(* PieceAvailability._apply for several peers at once.                      *)
AvailPlus(B, sign) ==
  [i \in Pieces |-> avail[i] + sign * Cardinality({p \in Peers : i \in B[p]})]

SwarmInit ==
  /\ conn = [p \in Peers |-> "down"]
  /\ first = [p \in Peers |-> {}] /\ second = [p \in Peers |-> {}]
  /\ received = [p \in Peers |-> FALSE]
  /\ amInterested = [p \in Peers |-> FALSE]
  /\ view = [p \in Peers |-> "none"]
  /\ avail = [i \in Pieces |-> 0]
  /\ interest = [p \in Peers |-> {}]
  /\ piece = [i \in Pieces |-> "wanted"]
  /\ pump = "idle" /\ left = {} /\ dead = {} /\ cur = NoPeer /\ sig = <<0, 0>>
  /\ wanted = {} /\ count = 0

-----------------------------------------------------------------------------
(* Peers.                                                                   *)

(* A handshake completes: a new PeerSession.                                *)
Connect(p) ==
  /\ Awaiting
  /\ conn[p] = "down"
  /\ conn' = [conn EXCEPT ![p] = "up"]
  /\ first' = [first EXCEPT ![p] = {}]
  /\ second' = [second EXCEPT ![p] = {}]
  /\ received' = [received EXCEPT ![p] = FALSE]
  /\ amInterested' = [amInterested EXCEPT ![p] = FALSE]
  /\ UNCHANGED <<viewVars, interest, piece, pumpVars>>

(* PeerSession._apply_bitfield: once.                                       *)
RecvBitfield(p, S) ==
  /\ Awaiting
  /\ Up(p) /\ ~received[p]
  /\ received' = [received EXCEPT ![p] = TRUE]
  /\ second' = [second EXCEPT ![p] = S]
  /\ UNCHANGED <<conn, first, amInterested, viewVars, interest, piece, pumpVars>>

(* Faulty variant: on_have counts nothing.                                  *)
RecvHaveUncounted(p, i) ==
  /\ Awaiting
  /\ Up(p) /\ (BitfieldFirst => received[p])
  /\ i \notin Bits(p) /\ avail[i] < MaxCount
  /\ IF received[p]
     THEN second' = [second EXCEPT ![p] = @ \cup {i}] /\ UNCHANGED first
     ELSE first' = [first EXCEPT ![p] = @ \cup {i}] /\ UNCHANGED second
  /\ interest' = [interest EXCEPT ![p] = {}]
  /\ UNCHANGED <<conn, received, amInterested, viewVars, piece, pumpVars>>

(* A have for a piece the peer did not have: the session's bit is set, then *)
(* on_have counts it and reopens the decision.                              *)
RecvHave(p, i) ==
  /\ Awaiting
  /\ Up(p) /\ (BitfieldFirst => received[p])
  /\ i \notin Bits(p) /\ avail[i] < MaxCount
  /\ IF received[p]
     THEN second' = [second EXCEPT ![p] = @ \cup {i}] /\ UNCHANGED first
     ELSE first' = [first EXCEPT ![p] = @ \cup {i}] /\ UNCHANGED second
  /\ avail' = [avail EXCEPT ![i] = @ + 1]
  /\ interest' = [interest EXCEPT ![p] = {}]
  /\ UNCHANGED <<conn, received, amInterested, view, piece, pumpVars>>

(* A socket dies.  The pass under way still has the dead connection in its  *)
(* list; a message being written to it fails with it.                       *)
Lost(p) ==
  /\ Awaiting
  /\ Up(p)
  /\ conn' = [conn EXCEPT ![p] = "closing"]
  /\ left' = left \ {p}
  /\ dead' = dead \cup
       {[peer |-> q, bits |-> Bits(q), amInterested |-> amInterested[q]] : q \in left \cap {p}}
  /\ UNCHANGED <<first, second, received, amInterested, viewVars, interest, piece,
                 pump, cur, sig, wanted, count>>

(* DownloadManager.on_disconnect.                                           *)
ViewOnDisconnect(p) ==
  /\ Awaiting
  /\ conn[p] = "closing"
  /\ conn' = [conn EXCEPT ![p] = IF MayReturn THEN "down" ELSE "gone"]
  /\ avail' = AvailPlus([q \in Peers |-> IF q = p THEN TrackedBits(p) ELSE {}], -1)
  /\ view' = [view EXCEPT ![p] = "none"]
  /\ interest' = [interest EXCEPT ![p] = {}]
  /\ UNCHANGED <<first, second, received, amInterested, piece, pumpVars>>

-----------------------------------------------------------------------------
(* One pass of pump.                                                        *)

(* _sync_peers, then the start of _update_interests.  The departed are      *)
(* removed, the newcomers added with the bits they have at this moment.     *)
PumpBegin ==
  LET gone == {p \in Peers : view[p] # "none" /\ ~Up(p)}
      new  == {p \in Peers : view[p] = "none" /\ Up(p)}
      less == AvailPlus([p \in Peers |-> IF p \in gone THEN TrackedBits(p) ELSE {}], -1)
  IN
  /\ pump = "idle"
  /\ pump' = "interest"
  /\ left' = {p \in Peers : Up(p)}
  /\ wanted' = Wanted
  /\ count' = Cardinality(Verified)
  /\ view' = [p \in Peers |->
       IF p \in gone THEN "none"
       ELSE IF p \in new THEN (IF received[p] THEN "second" ELSE "first")
       ELSE view[p]]
  /\ avail' = [i \in Pieces |-> less[i] + Cardinality({p \in new : i \in Bits(p)})]
  /\ UNCHANGED <<sessionVars, amInterested, interest, piece, dead, cur, sig>>

Signature(bits) == <<Cardinality(bits), count>>

(* Nothing to tell: decided on this evidence already, or told already.      *)
SettledOn(p, bits, toldIt) ==
  interest[p] = {Signature(bits)} \/ (bits \cap wanted # {} <=> toldIt)

(* _update_interests, a peer to whom there is nothing to say.               *)
DecideSame(p) ==
  /\ pump = "interest" /\ cur = NoPeer /\ p \in left
  /\ SettledOn(p, Bits(p), amInterested[p])
  /\ interest' = [interest EXCEPT ![p] = {Signature(Bits(p))}]
  /\ left' = left \ {p}
  /\ UNCHANGED <<sessionVars, amInterested, viewVars, piece, pump, dead, cur, sig, wanted,
                 count>>

(* The same for a connection that died since the pass began: the decision   *)
(* is recorded under the peer's key; a message raises PeerError instead.    *)
DecideDead(d) ==
  /\ pump = "interest" /\ cur = NoPeer /\ d \in dead
  /\ interest' = IF SettledOn(d.peer, d.bits, d.amInterested)
                 THEN [interest EXCEPT ![d.peer] = {Signature(d.bits)}] ELSE interest
  /\ dead' = dead \ {d}
  /\ UNCHANGED <<sessionVars, amInterested, viewVars, piece, pump, left, cur, sig, wanted,
                 count>>

(* A message to a live peer, which is awaited ...                           *)
DecideSend(p) ==
  /\ pump = "interest" /\ cur = NoPeer /\ p \in left
  /\ ~SettledOn(p, Bits(p), amInterested[p])
  /\ cur' = p
  /\ sig' = Signature(Bits(p))
  /\ left' = left \ {p}
  /\ UNCHANGED <<sessionVars, amInterested, viewVars, interest, piece, pump, dead, wanted,
                 count>>

(* ... and recorded when it is out, whatever arrived in the meantime ...    *)
SendDone ==
  /\ cur # NoPeer /\ Up(cur)
  /\ amInterested' = [amInterested EXCEPT ![cur] = ~@]
  /\ interest' = [interest EXCEPT ![cur] = {sig}]
  /\ cur' = NoPeer
  /\ sig' = <<0, 0>>
  /\ UNCHANGED <<sessionVars, viewVars, piece, pump, left, dead, wanted, count>>

(* ... or left for the next pass when the socket refuses it.                *)
SendFail ==
  /\ cur # NoPeer
  /\ cur' = NoPeer
  /\ sig' = <<0, 0>>
  /\ UNCHANGED <<sessionVars, amInterested, viewVars, interest, piece, pump, left, dead,
                 wanted, count>>

PumpEnd ==
  /\ pump = "interest" /\ cur = NoPeer /\ left = {} /\ dead = {}
  /\ pump' = "idle" /\ wanted' = {} /\ count' = 0
  /\ UNCHANGED <<sessionVars, amInterested, viewVars, interest, piece, left, dead, cur, sig>>

-----------------------------------------------------------------------------
(* The pieces: assembled, then stored or thrown away.                       *)
Move(i, from, to) ==
  /\ Awaiting
  /\ piece[i] = from
  /\ piece' = [piece EXCEPT ![i] = to]
  /\ UNCHANGED <<sessionVars, amInterested, viewVars, interest, pumpVars>>

MarkVerifying(i) == Move(i, "wanted", "verifying")
MarkVerified(i)  == Move(i, "verifying", "verified")
Reset(i)         == MayCorrupt /\ Move(i, "verifying", "wanted")

Swarm ==
  \E p \in Peers :
    \/ Connect(p) \/ Lost(p) \/ ViewOnDisconnect(p)
    \/ \E S \in SUBSET Pieces : RecvBitfield(p, S)
    \/ \E i \in Pieces : RecvHave(p, i)

Pump ==
  \/ PumpBegin \/ SendDone \/ SendFail \/ PumpEnd
  \/ \E p \in Peers : DecideSame(p) \/ DecideSend(p)
  \/ \E d \in dead : DecideDead(d)

Verification == \E i \in Pieces : MarkVerifying(i) \/ MarkVerified(i) \/ Reset(i)

SwarmNext == Swarm \/ Pump \/ Verification

SwarmSpec == SwarmInit /\ [][SwarmNext]_swarmVars

(* The loop makes pass after pass, a disconnect is reported, and a message  *)
(* that keeps being tried on a live socket gets through.                    *)
PassGoes ==
  \/ PumpBegin \/ PumpEnd \/ (cur # NoPeer /\ ~Up(cur) /\ SendFail)
  \/ (\E p \in Peers : DecideSame(p) \/ DecideSend(p))
  \/ (\E d \in dead : DecideDead(d))
InterestSent(p) == cur = p /\ SendDone

Fairness ==
  /\ WF_swarmVars(PassGoes)
  /\ \A p \in Peers : SF_swarmVars(InterestSent(p)) /\ SF_swarmVars(ViewOnDisconnect(p))

FairSpec == SwarmSpec /\ Fairness

-----------------------------------------------------------------------------
(* Properties.                                                              *)

Signatures == (0 .. Cardinality(Pieces)) \X (0 .. Cardinality(Pieces))

SwarmTypeOK ==
  /\ conn \in [Peers -> {"down", "up", "closing", "gone"}]
  /\ first \in [Peers -> SUBSET Pieces]
  /\ second \in [Peers -> SUBSET Pieces]
  /\ received \in [Peers -> BOOLEAN]
  /\ amInterested \in [Peers -> BOOLEAN]
  /\ view \in [Peers -> {"none", "first", "second"}]
  /\ avail \in [Pieces -> Nat]
  /\ interest \in [Peers -> {{}} \cup {{g} : g \in Signatures}]
  /\ piece \in [Pieces -> {"wanted", "verifying", "verified"}]
  /\ pump \in {"idle", "interest"}
  /\ left \subseteq Peers
  /\ dead \subseteq [peer : Peers, bits : SUBSET Pieces, amInterested : BOOLEAN]
  /\ cur \in Peers \cup {NoPeer}
  /\ sig \in Signatures
  /\ wanted \subseteq Pieces
  /\ count \in 0 .. Cardinality(Pieces)

(* Every piece of a tracked peer's bitfield object is counted for it, so    *)
(* that removing the object on any path out of the swarm (disconnect or the *)
(* sync of a later pass, never both) cannot take a count below the peers    *)
(* still tracked, and no count below zero.                                  *)
AvailabilityCoversTracked ==
  \A i \in Pieces : avail[i] >= Cardinality({p \in Peers : i \in TrackedBits(p)})

(* Just after _sync_peers, the availability counters are what the           *)
(* documentation says: how many connected peers hold each piece.            *)
AvailabilityIsExact ==
  pump = "interest" /\ cur = NoPeer /\ left = {p \in Peers : Up(p)} =>
    \A i \in Pieces : avail[i] = Cardinality({p \in left : i \in Bits(p)})

(* A peer that stays connected and keeps holding a piece we keep wanting is *)
(* told that we are interested, and left so: until it is, it will not       *)
(* unchoke us.                                                              *)
InterestIsTold ==
  \A p \in Peers, i \in Pieces :
    <>[](Up(p) /\ i \in Bits(p) /\ piece[i] = "wanted") => <>[]amInterested[p]
=============================================================================
