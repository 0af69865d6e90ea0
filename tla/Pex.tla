-------------------------------- MODULE Pex ---------------------------------
(***************************************************************************)
(* Peer exchange: PeerManager.exchange_peers (peer_manager.py) goes over    *)
(* the connections, brings the PexLedger (discovery/pex.py) of each up to   *)
(* date with the swarm as it was when the pass began, and sends what may be *)
(* sent.  Every send is awaited; meanwhile connections end and come, and a  *)
(* peer's extension handshake, its first or a later one, may arrive.        *)
(*                                                                         *)
(* A connection is known by the address in its key: of one we dialled that  *)
(* is where the peer listens, of one that came in it is a source port, and  *)
(* where that peer listens is what its handshake says, if it says so.       *)
(***************************************************************************)
EXTENDS Naturals, Sequences, FiniteSets, SequencesExt

CONSTANTS
  Addresses,   \* addresses of peers: the keys of _connections, and contacts
  Inbound,    \* those that are source ports of peers that called us
  Says,        \* each key: what the peer behind it may say in its handshakes
  MaxInitial,  \* PEX_MAX_INITIAL
  MaxLater,    \* PEX_MAX_PER_MESSAGE
  Returns      \* bound: times a peer may connect

PexAssumption ==
  /\ IsFiniteSet(Addresses) /\ Inbound \subseteq Addresses
  /\ Says \in [Addresses -> SUBSET [pex : BOOLEAN, home : Addresses \cup {"none"}]]
  /\ {MaxInitial, MaxLater, Returns} \subseteq Nat \ {0} /\ MaxLater <= MaxInitial

VARIABLES
  joined,   \* each address: how often it has connected
  swarm,    \* the keys of _connections, in their order
  broken,   \* those whose socket has failed and which will be reaped
  hello,      \* what the last handshake of each connection said
  ledgers,  \* _pex: each address's ledger, or none
  knows,     \* what the peer at the other end of a connection has been told
  round,     \* the pass under way: the snapshot, who is left, the message sent
  contacts  \* the snapshot of the pass

pexVars == <<joined, swarm, broken, hello, ledgers, knows, round, contacts>>

(* of is the connection a ledger was made for, which the code does not keep. *)
NoLedger == [on |-> FALSE, of |-> 0, said |-> {}, adds |-> <<>>, drops |-> <<>>, due |-> TRUE, first |-> TRUE]
NewLedger(nth) == [NoLedger EXCEPT !.on = TRUE, !.of = nth]
NoMessage == [to |-> "none", nth |-> 0, add |-> {}, drop |-> {}]
(* No handshake yet: no ut_pex, and no port to be reached at.                *)
NotMet == [pex |-> FALSE, home |-> "none"]
Resting == [left |-> <<>>, message |-> NoMessage, on |-> FALSE]

PexInit ==
  /\ joined = [a \in Addresses |-> 0] /\ swarm = <<>> /\ broken = {}
  /\ hello = [a \in Addresses |-> [n \in 1 .. Returns |-> NotMet]]
  /\ ledgers = [a \in Addresses |-> NoLedger]
  /\ knows = [a \in Addresses |-> {}]
  /\ round = Resting /\ contacts = <<>>

-----------------------------------------------------------------------------
(* PexLedger.                                                               *)

(* What s has at the positions of I, in its order, each in the place of its rank. *)
Picked(s, I) ==
  [k \in 1 .. Cardinality(I) |-> s[CHOOSE i \in I : Cardinality(I \cap (1 .. i)) = k]]

(* The rest of s: what is not in S.                                         *)
Without(s, S) == Picked(s, {i \in DOMAIN s : s[i] \notin S})

(* Faulty variant: a peer that is back is still withdrawn.                  *)
SyncForgetful(l, snapshot) ==
  [l EXCEPT
    !.adds = @ \o Without(snapshot, l.said \cup ToSet(@)),
    !.drops = @ \o SetToSeq((l.said \ ToSet(snapshot)) \ ToSet(@))]

(* sync: who is there and was not said is to be added, who was said and is  *)
(* not there is to be dropped; who is there again is not dropped.  A peer   *)
(* that is to be added and has left stays to be added.                      *)
Sync(l, snapshot) ==
  LET gone == l.said \ ToSet(snapshot) IN
  [l EXCEPT
    !.adds = Without(@, gone) \o Without(snapshot, l.said \cup ToSet(@)),
    !.drops = LET kept == Without(@, ToSet(snapshot)) IN kept \o SetToSeq(gone \ ToSet(kept))]

First(s, n) == SubSeq(s, 1, IF n < Len(s) THEN n ELSE Len(s))

(* build: the message, within its caps ...                                  *)
Additions(l) == First(l.adds, IF l.first THEN MaxInitial ELSE MaxLater)
Retractions(l) == First(l.drops, MaxLater)
Speaks(l) == l.due /\ (l.adds # <<>> \/ l.drops # <<>>)

(* ... and the ledger after it.                                             *)
Built(l) ==
  LET add == Additions(l)  drop == Retractions(l) IN
  [l EXCEPT !.adds = SubSeq(@, Len(add) + 1, Len(@)),
            !.drops = SubSeq(@, Len(drop) + 1, Len(@)),
            !.said = (@ \ ToSet(drop)) \cup ToSet(add),
            !.due = FALSE, !.first = FALSE]

-----------------------------------------------------------------------------
(* The swarm.                                                               *)

Joins(a) ==
  /\ ~Contains(swarm, a) /\ joined[a] < Returns
  /\ joined' = [joined EXCEPT ![a] = @ + 1]
  /\ swarm' = Append(swarm, a)
  /\ knows' = [knows EXCEPT ![a] = {}]
  /\ UNCHANGED <<broken, hello, ledgers, round, contacts>>

(* _reap: the ledger goes with the connection.                              *)
ReapPex(a) ==
  /\ Contains(swarm, a)
  /\ swarm' = Without(swarm, {a}) /\ broken' = broken \ {a}
  /\ ledgers' = [ledgers EXCEPT ![a] = NoLedger]
  /\ UNCHANGED <<joined, hello, knows, round, contacts>>

(* note_theirs: a handshake arrives, and what an earlier one said is gone.  *)
Introduces(a) ==
  /\ Contains(swarm, a)
  /\ \E says \in Says[a] : hello' = [hello EXCEPT ![a][joined[a]] = says]
  /\ UNCHANGED <<joined, swarm, broken, ledgers, knows, round, contacts>>

(* A minute has passed since the last message.                              *)
MinutePasses(a) ==
  /\ ledgers[a].on /\ ~ledgers[a].due
  /\ ledgers' = [ledgers EXCEPT ![a].due = TRUE]
  /\ UNCHANGED <<joined, swarm, broken, hello, knows, round, contacts>>

-----------------------------------------------------------------------------
(* exchange_peers.                                                          *)

(* _pex_contacts: where a peer can be reached, as far as we know.            *)
ReachedAt(a, nth) == IF a \in Inbound THEN hello[a][nth].home ELSE a

(* Who is there, in the order of the connections: nobody we have no address *)
(* for, and nobody twice (sync takes a contact where it comes first).       *)
PexContacts ==
  LET all == [i \in DOMAIN swarm |-> ReachedAt(swarm[i], joined[swarm[i]])]
  IN Picked(all, {i \in DOMAIN all : all[i] # "none" /\ \A j \in 1 .. i - 1 : all[j] # all[i]})

PexBegin ==
  /\ ~round.on /\ swarm # <<>>
  /\ contacts' = PexContacts
  /\ round' = [on |-> TRUE, message |-> NoMessage,
               left |-> [k \in DOMAIN swarm |-> [to |-> swarm[k], nth |-> joined[swarm[k]]]]]
  /\ UNCHANGED <<joined, swarm, broken, hello, ledgers, knows>>

(* A connection of the list whose peer does not speak ut_pex, for all we    *)
(* know now, is passed over.                                                *)
SkipPeer ==
  /\ round.on /\ round.message = NoMessage /\ round.left # <<>>
  /\ LET c == Head(round.left) IN ~hello[c.to][c.nth].pex
  /\ round' = [round EXCEPT !.left = Tail(@)]
  /\ UNCHANGED <<joined, swarm, broken, hello, ledgers, knows, contacts>>

(* The next connection of the list, which may have ended since: its ledger, *)
(* made if there is none, and a message if one is due.                      *)
TellNextPeer ==
  /\ round.on /\ round.message = NoMessage /\ round.left # <<>>
  /\ LET c == Head(round.left)
         old == IF ledgers[c.to].on THEN ledgers[c.to] ELSE NewLedger(c.nth)
         synced == Sync(old, Without(contacts, {c.to}))
     IN /\ hello[c.to][c.nth].pex
        /\ IF Speaks(synced)
           THEN /\ ledgers' = [ledgers EXCEPT ![c.to] = Built(synced)]
                /\ round' = [round EXCEPT !.left = Tail(@),
                              !.message = [to |-> c.to, nth |-> c.nth,
                                           add |-> ToSet(Additions(synced)),
                                           drop |-> ToSet(Retractions(synced))]]
           ELSE /\ ledgers' = [ledgers EXCEPT ![c.to] = synced]
                /\ round' = [round EXCEPT !.left = Tail(@)]
  /\ UNCHANGED <<joined, swarm, broken, hello, knows, contacts>>

(* The send ends: it arrived, or the socket has failed.  A connection that  *)
(* has ended reaches nobody.                                                *)
PexSent ==
  /\ round.message # NoMessage
  /\ LET m == round.message  here == Contains(swarm, m.to) /\ joined[m.to] = m.nth IN
     \/ /\ here /\ m.to \notin broken
        /\ knows' = [knows EXCEPT ![m.to] = (@ \ m.drop) \cup m.add]
        /\ UNCHANGED broken
     \/ /\ broken' = IF here THEN broken \cup {m.to} ELSE broken
        /\ UNCHANGED knows
  /\ round' = [round EXCEPT !.message = NoMessage]
  /\ UNCHANGED <<joined, swarm, hello, ledgers, contacts>>

PexEnd ==
  /\ round.on /\ round.message = NoMessage /\ round.left = <<>>
  /\ round' = Resting /\ contacts' = <<>>
  /\ UNCHANGED <<joined, swarm, broken, hello, ledgers, knows>>

-----------------------------------------------------------------------------
PexGoes == PexBegin \/ SkipPeer \/ TellNextPeer \/ PexSent \/ PexEnd

PexNext ==
  \/ PexGoes
  \/ \E a \in Addresses : Joins(a) \/ Introduces(a) \/ ReapPex(a) \/ MinutePasses(a)

PexSpec == PexInit /\ [][PexNext]_pexVars

-----------------------------------------------------------------------------
(* Properties.                                                              *)

PexTypeOK ==
  /\ joined \in [Addresses -> 0 .. Returns] /\ broken \subseteq ToSet(swarm) /\ IsInjective(swarm)
  /\ knows \in [Addresses -> SUBSET Addresses] /\ IsInjective(contacts)
  /\ round.on \in BOOLEAN
  /\ \A a \in Addresses :
       /\ ledgers[a].said \subseteq Addresses \ {a}
       /\ IsInjective(ledgers[a].adds) /\ IsInjective(ledgers[a].drops)
       /\ ToSet(ledgers[a].adds) \cup ToSet(ledgers[a].drops) \subseteq Addresses \ {a}

(* The ledger made for a connection says what its peer was told, over the   *)
(* caps, the waits and the reconnections: else the peer never hears of a    *)
(* contact, or is never told that one is gone.                              *)
LedgerIsTold ==
  \A a \in ToSet(swarm) \ broken :
    ledgers[a].of = joined[a] /\ round.message.to # a => ledgers[a].said = knows[a]

(* Nothing is withdrawn that was there when the pass began, and no message  *)
(* both adds and drops a contact or passes its caps.                        *)
WithdrawnIsGone ==
  LET m == round.message IN
  /\ m.drop \cap ToSet(contacts) = {} /\ m.add \cap m.drop = {}
  /\ Cardinality(m.add) <= MaxInitial /\ Cardinality(m.drop) <= MaxLater

(* What pex.py says of the ledger's snapshots, that one "cannot drift", and *)
(* of what is added, contacts we are connected to: what a message adds was  *)
(* there when the pass began.  The code breaks it (README).                 *)
AddedIsConnected == round.message.add \subseteq ToSet(contacts)
(* What exchange_peers says of itself, that nobody is told of itself: the   *)
(* code compares the key of the connection with the contact, and the two    *)
(* differ for a peer that called us.  It breaks this (README).              *)
ToldOfOthers ==
  LET m == round.message IN
  m # NoMessage => ReachedAt(m.to, m.nth) \notin m.add
=============================================================================
