------------------------------ MODULE PeerPool ------------------------------
(***************************************************************************)
(* The peers of one torrent: PeerManager (peer/discovery/peer_manager.py),  *)
(* the PeerListener in front of it (listener.py) and the order in which     *)
(* Engine._stop_tasks (services/engine.py) stops the two.                   *)
(*                                                                          *)
(* A connection object is dialled by fill or attached by adopt; both await  *)
(* a handshake and register the object afterwards under its address.  Its   *)
(* read loop ends, and a task of its own reaps it.  Objects are recycled    *)
(* here once nothing can refer to them; their number bounds how many exist  *)
(* at once.  Time appears as back-offs that expire.  An address that comes  *)
(* from an accepted socket is the caller's source port: whether it can also *)
(* be dialled is a matter of the two sets of addresses.  The messages of    *)
(* exchange_peers, which fill waits for, change nothing here.               *)
(***************************************************************************)
EXTENDS Integers, FiniteSets

CONSTANTS
  Listeners,    \* addresses that may answer when we dial them
  Callers,      \* addresses sockets may come in from
  Conns,        \* bound: connection objects that exist at once
  NoConn,       \* no connection object
  NoCand,       \* no candidate
  MaxConn,      \* PeerManager.max_connections
  MaxFailures   \* NetworkConfig.max_peer_failures

Addrs == Listeners \cup Callers

PoolAssumption ==
  /\ IsFiniteSet(Addrs) /\ Addrs # {} /\ IsFiniteSet(Conns)
  /\ NoConn \notin Conns
  /\ MaxConn \in Nat \ {0} /\ MaxFailures \in Nat \ {0}
  /\ NoCand \notin [failures : 0 .. MaxFailures - 1, waiting : BOOLEAN]

Candidates == [failures : 0 .. MaxFailures - 1, waiting : BOOLEAN]

VARIABLES
  cand,     \* PeerManager._candidates
  reg,      \* PeerManager._connections: the object registered per address
  st,       \* each object: where it is in its life
  addr,     \* PeerConnection.address
  tries,    \* failures of the candidate a dial was started for
  own,      \* whether that candidate object is still the one in cand
  maintain, \* the task of maintain: "none", "idle" or "filling"
  phase,    \* the engine: "off", "on", "closing", "settling"
  closing,  \* objects close_all has listed and not closed yet
  late      \* history: objects registered after close_all had listed its own

connVars == <<st, addr, tries, own>>
engineVars == <<maintain, phase, closing>>
poolVars == <<cand, reg, st, addr, tries, own, maintain, phase, closing, late>>

-----------------------------------------------------------------------------
Free       == {c \in Conns : st[c] = "free"}
Dials      == {c \in Conns : st[c] = "dialling"}
Attaching  == {c \in Conns : st[c] = "attaching"}
Live       == {c \in Conns : st[c] \in {"dialled", "adopted"}}
Registered == {a \in Addrs : reg[a] # NoConn}

(* PeerCandidate.available, for all candidates.                             *)
Available == {a \in Addrs : cand[a] # NoCand /\ ~cand[a].waiting}

FreeSlots == MaxConn - Cardinality(Registered)

(* PeerManager._select: the least failed first, any order among equals.     *)
Selections ==
  {D \in SUBSET Available :
     /\ Cardinality(D) = FreeSlots \/ (Cardinality(D) < FreeSlots /\ D = Available)
     /\ \A d \in D, e \in Available \ D : cand[d].failures <= cand[e].failures}

PoolInit ==
  /\ cand = [a \in Addrs |-> NoCand]
  /\ reg = [a \in Addrs |-> NoConn]
  /\ st = [c \in Conns |-> "free"]
  /\ addr \in [Conns -> {CHOOSE a \in Addrs : TRUE}]
  /\ tries = [c \in Conns |-> 0]
  /\ own = [c \in Conns |-> FALSE]
  /\ maintain = "none" /\ phase = "off" /\ closing = {} /\ late = {}

-----------------------------------------------------------------------------
(* Discovery and back-off.                                                  *)

(* add_peers, from a tracker, a peer or the DHT.                            *)
AddPeers(a) ==
  /\ cand[a] = NoCand /\ reg[a] = NoConn
  /\ cand' = [cand EXCEPT ![a] = [failures |-> 0, waiting |-> FALSE]]
  /\ UNCHANGED <<reg, connVars, engineVars, late>>

(* retry_at passes.                                                         *)
BackoffOver(a) ==
  /\ cand[a] # NoCand /\ cand[a].waiting
  /\ cand' = [cand EXCEPT ![a].waiting = FALSE]
  /\ UNCHANGED <<reg, connVars, engineVars, late>>

-----------------------------------------------------------------------------
(* Dialling: one round of fill.                                             *)

(* The slots are counted once, before the dials are awaited.                *)
FillBegin ==
  /\ maintain = "idle"
  /\ FreeSlots > 0 /\ Available # {}
  /\ \E D \in Selections : \E C \in SUBSET Free : \E f \in [C -> D] :
       /\ \A a \in D : \E c \in C : f[c] = a
       /\ \A c, d \in C : f[c] = f[d] => c = d
       /\ st' = [c \in Conns |-> IF c \in C THEN "dialling" ELSE st[c]]
       /\ addr' = [c \in Conns |-> IF c \in C THEN f[c] ELSE addr[c]]
       /\ tries' = [c \in Conns |-> IF c \in C THEN cand[f[c]].failures ELSE tries[c]]
       /\ own' = [c \in Conns |-> c \in C \/ own[c]]
  /\ maintain' = "filling"
  /\ UNCHANGED <<cand, reg, phase, closing, late>>

(* An object is let go of: nothing refers to it any more.                   *)
Forget(C) ==
  /\ st' = [c \in Conns |-> IF c \in C THEN "free" ELSE st[c]]
  /\ tries' = [c \in Conns |-> IF c \in C THEN 0 ELSE tries[c]]
  /\ own' = [c \in Conns |-> c \notin C /\ own[c]]
  /\ UNCHANGED addr

(* _connect_one: connect raised PeerError.  The failure is recorded in the  *)
(* candidate object the dial began with; when that one is spent, whichever  *)
(* candidate is listed goes.                                                *)
DialFails(c) ==
  LET n == tries[c] + 1 IN
  /\ c \in Dials
  /\ cand' = IF n >= MaxFailures THEN [cand EXCEPT ![addr[c]] = NoCand]
             ELSE IF own[c] THEN [cand EXCEPT ![addr[c]] = [failures |-> n, waiting |-> TRUE]]
             ELSE cand
  /\ Forget({c})
  /\ UNCHANGED <<reg, engineVars, late>>

(* _register overwrites whatever was registered for the address.            *)
Register(c, state) ==
  /\ reg' = [reg EXCEPT ![addr[c]] = c]
  /\ st' = [st EXCEPT ![c] = state]
  /\ late' = IF phase = "on" THEN late ELSE late \cup {c}

(* _connect_one: the handshake is complete.                                 *)
DialOk(c) ==
  /\ c \in Dials /\ addr[c] \in Listeners
  /\ cand' = [cand EXCEPT ![addr[c]] = NoCand]
  /\ Register(c, "dialled")
  /\ tries' = [tries EXCEPT ![c] = 0]
  /\ own' = [own EXCEPT ![c] = FALSE]
  /\ UNCHANGED <<addr, engineVars>>

(* gather has all results; maintain waits for the next round.               *)
FillEnd ==
  /\ maintain = "filling" /\ Dials = {}
  /\ maintain' = "idle"
  /\ UNCHANGED <<cand, reg, connVars, phase, closing, late>>

-----------------------------------------------------------------------------
(* Incoming sockets.                                                        *)

(* A caller's socket is gone before another can come from the same port.    *)
Calling(a) == \E c \in Conns : addr[c] = a /\ st[c] \in {"attaching", "adopted", "ended"}

(* adopt up to its handshake: a socket without a free slot, or from an      *)
(* address already connected, is refused.  The listener is open until       *)
(* PeerManager.stop has returned.                                           *)
Accept(c, a) ==
  /\ phase \in {"on", "closing"}
  /\ st[c] = "free" /\ ~Calling(a)
  /\ FreeSlots > 0 /\ reg[a] = NoConn
  /\ st' = [st EXCEPT ![c] = "attaching"]
  /\ addr' = [addr EXCEPT ![c] = a]
  /\ UNCHANGED <<cand, reg, tries, own, engineVars, late>>

AttachFails(c) ==
  /\ c \in Attaching
  /\ Forget({c})
  /\ UNCHANGED <<cand, reg, engineVars, late>>

(* adopt's end: nothing is checked again, and a candidate for the address   *)
(* stays one.                                                               *)
AttachOk(c) ==
  /\ c \in Attaching
  /\ Register(c, "adopted")
  /\ UNCHANGED <<cand, addr, tries, own, engineVars>>

-----------------------------------------------------------------------------
(* The end of a connection.                                                 *)

(* PeerConnection.run ends: the peer hung up, fell silent or broke the      *)
(* protocol.  The task's callback schedules the reaper.                     *)
Ended(c) ==
  /\ c \in Live
  /\ st' = [st EXCEPT ![c] = "ended"]
  /\ UNCHANGED <<cand, reg, addr, tries, own, engineVars, late>>

(* Faulty variant: the slot is not freed.                                   *)
ReapKeepsSlot(c) ==
  /\ st[c] = "ended"
  /\ cand' = [cand EXCEPT ![addr[c]] = [failures |-> 0, waiting |-> TRUE]]
  /\ st' = [st EXCEPT ![c] = "free"]
  /\ own' = [d \in Conns |-> own[d] /\ addr[d] # addr[c]]
  /\ late' = late \ {c} /\ closing' = closing \ {c}
  /\ UNCHANGED <<reg, addr, tries, maintain, phase>>

(* _reap: whatever is registered for the address is removed, and the        *)
(* address becomes a fresh candidate that waits (a registered connection    *)
(* has always shaken hands).  The connection is closed already, so the      *)
(* aclose in between does not wait.                                         *)
Reap(c) ==
  /\ st[c] = "ended"
  /\ reg' = [reg EXCEPT ![addr[c]] = NoConn]
  /\ cand' = [cand EXCEPT ![addr[c]] = [failures |-> 0, waiting |-> TRUE]]
  /\ st' = [st EXCEPT ![c] = "free"]
  /\ own' = [d \in Conns |-> own[d] /\ addr[d] # addr[c]]
  /\ late' = late \ {c} /\ closing' = closing \ {c}
  /\ UNCHANGED <<addr, tries, maintain, phase>>

-----------------------------------------------------------------------------
(* Engine.start and Engine._stop_tasks, as far as they reach the pool.      *)

(* The listener opens, then PeerManager.start.  Reapers run at the next     *)
(* turn of the loop, long before that.                                      *)
StartPool ==
  /\ phase = "off" /\ \A c \in Conns : st[c] # "ended"
  /\ phase' = "on" /\ maintain' = "idle"
  /\ UNCHANGED <<cand, reg, connVars, closing, late>>

(* PeerManager.stop: maintain is cancelled, and its dials with it; then     *)
(* close_all lists the connections ...                                      *)
StopBegin ==
  /\ phase = "on"
  /\ phase' = "closing" /\ maintain' = "none"
  /\ closing' = {reg[a] : a \in Registered}
  /\ Forget(Dials)
  /\ UNCHANGED <<cand, reg, late>>

(* ... closes them one after the other ...                                  *)
CloseOne(c) ==
  /\ phase = "closing" /\ c \in closing
  /\ closing' = closing \ {c}
  /\ st' = IF c \in Live THEN [st EXCEPT ![c] = "ended"] ELSE st
  /\ UNCHANGED <<cand, reg, addr, tries, own, maintain, phase, late>>

(* ... and forgets all there are by then.  The listener closes.             *)
CloseEnd ==
  /\ phase = "closing" /\ closing = {}
  /\ phase' = "settling"
  /\ reg' = [a \in Addrs |-> NoConn]
  /\ UNCHANGED <<cand, connVars, maintain, closing, late>>

(* PeerListener.stop waits for the handshakes it has begun.                 *)
Settled ==
  /\ phase = "settling" /\ Attaching = {}
  /\ phase' = "off"
  /\ UNCHANGED <<cand, reg, connVars, maintain, closing, late>>

-----------------------------------------------------------------------------
PoolNext ==
  \/ FillBegin \/ FillEnd \/ StartPool \/ StopBegin \/ CloseEnd \/ Settled
  \/ \E a \in Addrs : BackoffOver(a)
  \/ \E a \in Listeners : AddPeers(a)
  \/ \E c \in Conns :
       \/ DialFails(c) \/ DialOk(c) \/ AttachFails(c) \/ AttachOk(c)
       \/ Ended(c) \/ Reap(c) \/ CloseOne(c)
       \/ \E a \in Callers : Accept(c, a)

PoolSpec == PoolInit /\ [][PoolNext]_poolVars

-----------------------------------------------------------------------------
(* Properties.                                                              *)

PoolTypeOK ==
  /\ cand \in [Addrs -> Candidates \cup {NoCand}]
  /\ reg \in [Addrs -> Conns \cup {NoConn}]
  /\ st \in [Conns -> {"free", "dialling", "attaching", "dialled", "adopted", "ended"}]
  /\ addr \in [Conns -> Addrs]
  /\ tries \in [Conns -> 0 .. MaxFailures - 1]
  /\ own \in [Conns -> BOOLEAN]
  /\ maintain \in {"none", "idle", "filling"}
  /\ phase \in {"off", "on", "closing", "settling"}
  /\ closing \subseteq Conns
  /\ late \subseteq Conns

(* A slot is held only by a connection that lives or is about to be reaped, *)
(* under its own address: no path out of a connection's life leaks a slot.  *)
SlotsAreHeld ==
  \A a \in Registered : /\ addr[reg[a]] = a
                        /\ st[reg[a]] \in {"dialled", "adopted", "ended"}

(* Where nobody calls from an address that also answers dials, every live   *)
(* connection holds a slot, so stop will close it and the cap counts it,    *)
(* unless it was adopted while the pool was being closed.                   *)
LiveIsRegistered ==
  \A c \in Live \ late : reg[addr[c]] = c

(* The connections we opened and those we are opening fit the cap, whatever *)
(* comes in meanwhile.                                                      *)
DialledWithinCap ==
  Cardinality(Dials \cup {c \in Live : st[c] = "dialled"}) <= MaxConn

(* The three together: what the pool counts is what there is.               *)
PoolIsAccounted == SlotsAreHeld /\ LiveIsRegistered /\ DialledWithinCap

(* Live connections never exceed max_connections.                           *)
CapHolds == Cardinality(Live) <= MaxConn

(* Once stop has returned, no connection lives.                             *)
StoppedIsEmpty == phase = "off" => Live = {}
=============================================================================
