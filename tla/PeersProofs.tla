------------------------------ MODULE PeersProofs ---------------------------
(***************************************************************************)
(* Machine-checked proofs about what is between this client and its peers: *)
(* the pool of connections (PeerPool), what is believed of the swarm       *)
(* (SwarmView), the upload side (Upload), the end of one connection        *)
(* (PeerWire), what its two ends mean (Extensions) and what peers are told *)
(* of each other (Pex), for any number of addresses, peers, pieces, tasks  *)
(* that close and names, and every limit.                                  *)
(*                                                                         *)
(* The pool is proved for a swarm where nobody calls from an address that  *)
(* also answers dials.  Where somebody does, two objects can be registered *)
(* for one address, and the cap is exceeded.                               *)
(***************************************************************************)
EXTENDS PeerPool, SwarmView, Upload, PeerWire, Extensions, Pex, FiniteSetTheorems, SequenceTheorems,
  WellFoundedInduction, TLAPS

-----------------------------------------------------------------------------
(* The inductive invariant.                                                 *)

(* Objects that stand for an incoming socket or a connection.               *)
Held == {c \in Conns : st[c] \in {"attaching", "adopted", "dialled", "ended"}}

(* Who is dialled answers, who is adopted has called; what was registered   *)
(* while the pool closed had called.                                        *)
Sides ==
  /\ \A c \in Conns : st[c] = "dialled" => addr[c] \in Listeners
  /\ \A c \in Conns : st[c] \in {"attaching", "adopted"} => addr[c] \in Callers
  /\ \A c \in late : st[c] \in {"adopted", "ended"} /\ addr[c] \in Callers

(* An address has one connection, one dial, and no dial beside a connection *)
(* to somebody who answers.                                                 *)
OnePerAddress ==
  /\ \A c, d \in Held : addr[c] = addr[d] => c = d
  /\ \A c, d \in Dials : addr[c] = addr[d] => c = d
  /\ \A c \in Dials, d \in Held : addr[c] \in Listeners => addr[c] # addr[d]

(* Only a round of fill dials, and only a running pool has rounds.          *)
DialsAreFills ==
  /\ phase = "on" <=> maintain # "none"
  /\ maintain # "filling" => Dials = {}

(* A connection is registered until it is reaped or the pool has closed;    *)
(* close_all misses none but the late ones.                                 *)
Accounted ==
  /\ phase \in {"on", "closing"} =>
       \A c \in Held \ (Attaching \cup late) : reg[addr[c]] = c
  /\ phase = "closing" => Live \ late \subseteq closing
  /\ phase \in {"settling", "off"} => Live \subseteq late

(* Nobody to whom there is a connection is a candidate for another one.     *)
CandidatesAreFree ==
  phase = "on" => \A c \in Held : addr[c] \in Listeners => cand[addr[c]] = NoCand

PoolInv ==
  /\ PoolTypeOK /\ SlotsAreHeld /\ Sides /\ OnePerAddress /\ DialsAreFills /\ Accounted
  /\ CandidatesAreFree

-----------------------------------------------------------------------------
(* Type correctness.                                                        *)

(* A new pool is empty.                                                     *)
LEMMA PoolInitType ==
  ASSUME PoolAssumption, PoolInit
  PROVE  PoolTypeOK
<1>1. PICK a0 \in Addrs : TRUE
  BY DEF PoolAssumption
<1>2. (CHOOSE a \in Addrs : TRUE) \in Addrs
  BY <1>1
<1>3. addr \in [Conns -> Addrs]
  BY <1>2 DEF PoolInit
<1>4. 0 \in 0 .. MaxFailures - 1
  BY DEF PoolAssumption
<1>5. tries \in [Conns -> 0 .. MaxFailures - 1] /\ own \in [Conns -> BOOLEAN]
  BY <1>4 DEF PoolInit
<1> QED
  BY <1>3, <1>5 DEF PoolInit, PoolTypeOK

(* An available candidate is a candidate.                                   *)
LEMMA AvailableIsCandidate ==
  ASSUME PoolTypeOK, NEW a \in Available
  PROVE  a \in Addrs /\ cand[a] \in Candidates /\ cand[a].failures \in 0 .. MaxFailures - 1
  BY DEF PoolTypeOK, Available, Candidates

(* What a round of fill does to the objects C, each to dial its address.    *)
Dialling(C, f) ==
  /\ \A c, d \in C : f[c] = f[d] => c = d
  /\ st' = [c \in Conns |-> IF c \in C THEN "dialling" ELSE st[c]]
  /\ addr' = [c \in Conns |-> IF c \in C THEN f[c] ELSE addr[c]]
  /\ tries' = [c \in Conns |-> IF c \in C THEN cand[f[c]].failures ELSE tries[c]]
  /\ own' = [c \in Conns |-> c \in C \/ own[c]]

LEMMA FillDials ==
  ASSUME FillBegin
  PROVE  \E D \in Selections : \E C \in SUBSET Free : \E f \in [C -> D] : Dialling(C, f)
  BY DEF FillBegin, Dialling

(* No step leaves the types.                                                *)
LEMMA PoolTypeStep ==
  ASSUME PoolAssumption, PoolTypeOK, [PoolNext]_poolVars
  PROVE  PoolTypeOK'
<1> USE DEF PoolTypeOK, connVars, engineVars
<1>1. CASE UNCHANGED poolVars
  BY <1>1 DEF poolVars
<1>2. CASE FillBegin
  <2> PICK D \in Selections : \E C \in SUBSET Free : \E f \in [C -> D] : Dialling(C, f)
    BY <1>2, FillDials
  <2> PICK C \in SUBSET Free : \E f \in [C -> D] : Dialling(C, f)
    OBVIOUS
  <2>1. PICK f \in [C -> D] : Dialling(C, f)
    OBVIOUS
  <2> USE DEF Dialling
  <2>2. \A c \in C : f[c] \in Available
    BY DEF Selections
  <2>3. \A c \in C : f[c] \in Addrs /\ cand[f[c]].failures \in 0 .. MaxFailures - 1
    BY <2>2, AvailableIsCandidate
  <2>4. st' \in [Conns -> {"free", "dialling", "attaching", "dialled", "adopted", "ended"}]
    BY <2>1
  <2>5. addr' \in [Conns -> Addrs]
    BY <2>1, <2>3
  <2>6. tries' \in [Conns -> 0 .. MaxFailures - 1]
    BY <2>1, <2>3
  <2>7. own' \in [Conns -> BOOLEAN]
    BY <2>1
  <2> QED
    BY <1>2, <2>4, <2>5, <2>6, <2>7 DEF FillBegin
<1>3. CASE FillEnd \/ StartPool \/ CloseEnd \/ Settled
  BY <1>3 DEF FillEnd, StartPool, CloseEnd, Settled
<1>4. \A C \in SUBSET Conns : Forget(C) =>
        /\ st' \in [Conns -> {"free", "dialling", "attaching", "dialled", "adopted", "ended"}]
        /\ addr' \in [Conns -> Addrs]
        /\ tries' \in [Conns -> 0 .. MaxFailures - 1]
        /\ own' \in [Conns -> BOOLEAN]
  <2>1. 0 \in 0 .. MaxFailures - 1
    BY DEF PoolAssumption
  <2> QED
    BY <2>1 DEF Forget
<1>5. CASE StopBegin
  BY <1>4, <1>5 DEF StopBegin, Dials, Registered
<1>6. ASSUME NEW a \in Addrs, BackoffOver(a)
      PROVE  PoolTypeOK'
  <2>1. [cand[a] EXCEPT !.waiting = FALSE] \in Candidates
    BY <1>6 DEF BackoffOver, Candidates
  <2> QED
    BY <1>6, <2>1 DEF BackoffOver
<1>7. ASSUME NEW a \in Listeners, AddPeers(a)
      PROVE  PoolTypeOK'
  <2>1. [failures |-> 0, waiting |-> FALSE] \in Candidates
    BY DEF PoolAssumption, Candidates
  <2> QED
    BY <1>7, <2>1 DEF AddPeers
<1>8. ASSUME NEW c \in Conns, DialFails(c)
      PROVE  PoolTypeOK'
  <2> DEFINE n == tries[c] + 1
  <2>1. n >= MaxFailures \/ [failures |-> n, waiting |-> TRUE] \in Candidates
    BY DEF PoolAssumption, Candidates
  <2>2. cand' \in [Addrs -> Candidates \cup {NoCand}]
    BY <1>8, <2>1 DEF DialFails
  <2> QED
    BY <1>8, <1>4, <2>2 DEF DialFails
<1>9. ASSUME NEW c \in Conns, DialOk(c)
      PROVE  PoolTypeOK'
  <2>1. 0 \in 0 .. MaxFailures - 1
    BY DEF PoolAssumption
  <2> QED
    BY <1>9, <2>1 DEF DialOk, Register
<1>10. ASSUME NEW c \in Conns, NEW a \in Callers, Accept(c, a)
       PROVE  PoolTypeOK'
  BY <1>10 DEF Accept, Addrs
<1>11. ASSUME NEW c \in Conns, AttachFails(c)
       PROVE  PoolTypeOK'
  BY <1>4, <1>11 DEF AttachFails
<1>12. ASSUME NEW c \in Conns, AttachOk(c) \/ Ended(c) \/ CloseOne(c)
       PROVE  PoolTypeOK'
  BY <1>12 DEF AttachOk, Register, Ended, CloseOne
<1>13. ASSUME NEW c \in Conns, Reap(c)
       PROVE  PoolTypeOK'
  <2>1. [failures |-> 0, waiting |-> TRUE] \in Candidates
    BY DEF PoolAssumption, Candidates
  <2> QED
    BY <1>13, <2>1 DEF Reap
<1> QED
  BY <1>1, <1>2, <1>3, <1>5, <1>6, <1>7, <1>8, <1>9, <1>10, <1>11, <1>12, <1>13 DEF PoolNext

-----------------------------------------------------------------------------
(* Every step keeps each part.                                              *)

(* A slot goes to an object that has just connected, and is given back with *)
(* the object it was held by.                                               *)
LEMMA SlotsAreHeldStep ==
  ASSUME PoolAssumption, PoolTypeOK, SlotsAreHeld, [PoolNext]_poolVars
  PROVE  SlotsAreHeld'
<1> USE DEF SlotsAreHeld, Registered, Held, Dials, Attaching, Live, connVars, engineVars
<1>h. PoolTypeOK /\ SlotsAreHeld
  OBVIOUS
<1>1. CASE UNCHANGED poolVars
  BY <1>1, <1>h DEF poolVars
<1>2. CASE FillBegin
  <2> PICK D \in Selections : \E C \in SUBSET Free : \E f \in [C -> D] : Dialling(C, f)
    BY <1>2, FillDials
  <2> PICK C \in SUBSET Free : \E f \in [C -> D] : Dialling(C, f)
    OBVIOUS
  <2>1. PICK f \in [C -> D] : Dialling(C, f)
    OBVIOUS
  <2> QED
    BY <1>2, <1>h, <2>1 DEF FillBegin, Dialling, Free, PoolTypeOK
<1>3. CASE FillEnd \/ StartPool \/ CloseEnd \/ Settled
  BY <1>3, <1>h DEF FillEnd, StartPool, CloseEnd, Settled, PoolTypeOK
<1>4. CASE StopBegin
  BY <1>4, <1>h DEF StopBegin, Forget, PoolTypeOK
<1>5. ASSUME NEW a \in Addrs, BackoffOver(a) \/ AddPeers(a)
      PROVE  SlotsAreHeld'
  BY <1>5, <1>h DEF BackoffOver, AddPeers
<1>6. ASSUME NEW c \in Conns, DialFails(c) \/ AttachFails(c)
      PROVE  SlotsAreHeld'
  BY <1>6, <1>h DEF DialFails, AttachFails, Forget, PoolTypeOK
<1>7. ASSUME NEW c \in Conns, DialOk(c) \/ AttachOk(c)
      PROVE  SlotsAreHeld'
  BY <1>7, <1>h DEF DialOk, AttachOk, Register, PoolTypeOK
<1>8. ASSUME NEW c \in Conns, Ended(c) \/ CloseOne(c)
      PROVE  SlotsAreHeld'
  BY <1>8, <1>h DEF Ended, CloseOne, PoolTypeOK
<1>9. ASSUME NEW c \in Conns, Reap(c)
      PROVE  SlotsAreHeld'
  BY <1>9, <1>h DEF Reap, PoolTypeOK
<1>10. ASSUME NEW c \in Conns, NEW a \in Callers, Accept(c, a)
       PROVE  SlotsAreHeld'
  BY <1>10, <1>h DEF Accept, PoolTypeOK
<1> QED
  BY <1>1, <1>2, <1>3, <1>4, <1>5, <1>6, <1>7, <1>8, <1>9, <1>10 DEF PoolNext, Addrs

(* Dials that succeed are to those who answer, sockets are from those who   *)
(* call.                                                                    *)
LEMMA SidesStep ==
  ASSUME PoolAssumption, PoolInv, [PoolNext]_poolVars
  PROVE  Sides'
<1> USE DEF Sides, Held, Dials, Attaching, Live, connVars, engineVars
<1>h. PoolTypeOK /\ SlotsAreHeld /\ Sides /\ OnePerAddress /\ DialsAreFills
  BY DEF PoolInv
<1>1. CASE UNCHANGED poolVars
  BY <1>1, <1>h DEF poolVars
<1>2. CASE FillBegin
  <2> PICK D \in Selections : \E C \in SUBSET Free : \E f \in [C -> D] : Dialling(C, f)
    BY <1>2, FillDials
  <2> PICK C \in SUBSET Free : \E f \in [C -> D] : Dialling(C, f)
    OBVIOUS
  <2>1. PICK f \in [C -> D] : Dialling(C, f)
    OBVIOUS
  <2> QED
    BY <1>2, <1>h, <2>1 DEF FillBegin, Dialling, Free, PoolTypeOK
<1>3. CASE FillEnd \/ StartPool \/ CloseEnd \/ Settled
  BY <1>3, <1>h DEF FillEnd, StartPool, CloseEnd, Settled, PoolTypeOK
<1>4. CASE StopBegin
  BY <1>4, <1>h DEF StopBegin, Forget, PoolTypeOK
<1>5. ASSUME NEW a \in Addrs, BackoffOver(a) \/ AddPeers(a)
      PROVE  Sides'
  BY <1>5, <1>h DEF BackoffOver, AddPeers
<1>6. ASSUME NEW c \in Conns, DialFails(c) \/ AttachFails(c)
      PROVE  Sides'
  BY <1>6, <1>h DEF DialFails, AttachFails, Forget, PoolTypeOK
<1>7. ASSUME NEW c \in Conns, DialOk(c) \/ AttachOk(c)
      PROVE  Sides'
  <2>1. DialOk(c) => phase = "on"
    BY <1>h DEF DialOk, DialsAreFills
  <2> QED
    BY <1>7, <1>h, <2>1 DEF DialOk, AttachOk, Register, PoolTypeOK
<1>8. ASSUME NEW c \in Conns, Ended(c) \/ CloseOne(c)
      PROVE  Sides'
  BY <1>8, <1>h DEF Ended, CloseOne, PoolTypeOK
<1>9. ASSUME NEW c \in Conns, Reap(c)
      PROVE  Sides'
  BY <1>9, <1>h DEF Reap, PoolTypeOK
<1>10. ASSUME NEW c \in Conns, NEW a \in Callers, Accept(c, a)
       PROVE  Sides'
  BY <1>10, <1>h DEF Accept, PoolTypeOK
<1> QED
  BY <1>1, <1>2, <1>3, <1>4, <1>5, <1>6, <1>7, <1>8, <1>9, <1>10 DEF PoolNext, Addrs

(* Dials begin with a round of fill and are gone when it is.                *)
LEMMA DialsAreFillsStep ==
  ASSUME PoolAssumption, PoolInv, [PoolNext]_poolVars
  PROVE  DialsAreFills'
<1> USE DEF DialsAreFills, Held, Dials, Attaching, Live, connVars, engineVars
<1>h. PoolTypeOK /\ SlotsAreHeld /\ Sides /\ OnePerAddress /\ DialsAreFills
  BY DEF PoolInv
<1>1. CASE UNCHANGED poolVars
  BY <1>1, <1>h DEF poolVars
<1>2. CASE FillBegin
  <2> PICK D \in Selections : \E C \in SUBSET Free : \E f \in [C -> D] : Dialling(C, f)
    BY <1>2, FillDials
  <2> PICK C \in SUBSET Free : \E f \in [C -> D] : Dialling(C, f)
    OBVIOUS
  <2>1. PICK f \in [C -> D] : Dialling(C, f)
    OBVIOUS
  <2> QED
    BY <1>2, <1>h, <2>1 DEF FillBegin, Dialling, Free, PoolTypeOK
<1>3. CASE FillEnd \/ StartPool \/ CloseEnd \/ Settled
  BY <1>3, <1>h DEF FillEnd, StartPool, CloseEnd, Settled, PoolTypeOK
<1>4. CASE StopBegin
  BY <1>4, <1>h DEF StopBegin, Forget, PoolTypeOK
<1>5. ASSUME NEW a \in Addrs, BackoffOver(a) \/ AddPeers(a)
      PROVE  DialsAreFills'
  BY <1>5, <1>h DEF BackoffOver, AddPeers
<1>6. ASSUME NEW c \in Conns, DialFails(c) \/ AttachFails(c)
      PROVE  DialsAreFills'
  BY <1>6, <1>h DEF DialFails, AttachFails, Forget, PoolTypeOK
<1>7. ASSUME NEW c \in Conns, DialOk(c) \/ AttachOk(c)
      PROVE  DialsAreFills'
  BY <1>7, <1>h DEF DialOk, AttachOk, Register, PoolTypeOK
<1>8. ASSUME NEW c \in Conns, Ended(c) \/ CloseOne(c)
      PROVE  DialsAreFills'
  BY <1>8, <1>h DEF Ended, CloseOne, PoolTypeOK
<1>9. ASSUME NEW c \in Conns, Reap(c)
      PROVE  DialsAreFills'
  BY <1>9, <1>h DEF Reap, PoolTypeOK
<1>10. ASSUME NEW c \in Conns, NEW a \in Callers, Accept(c, a)
       PROVE  DialsAreFills'
  BY <1>10, <1>h DEF Accept, PoolTypeOK
<1> QED
  BY <1>1, <1>2, <1>3, <1>4, <1>5, <1>6, <1>7, <1>8, <1>9, <1>10 DEF PoolNext, Addrs

(* What DialOk and AttachOk register was not registered before, nor is      *)
(* anything else at its address.                                            *)
LEMMA OneConnectionStep ==
  ASSUME PoolAssumption, Listeners \cap Callers = {}, PoolInv, [PoolNext]_poolVars
  PROVE  OnePerAddress'
<1> USE DEF OnePerAddress, Held, Dials, connVars, engineVars
<1>h. PoolTypeOK /\ Sides /\ OnePerAddress /\ DialsAreFills /\ CandidatesAreFree
  BY DEF PoolInv
<1>1. CASE UNCHANGED <<st, addr>>
  BY <1>1, <1>h
<1>2. CASE FillBegin
  <2> PICK D \in Selections : \E C \in SUBSET Free : \E f \in [C -> D] : Dialling(C, f)
    BY <1>2, FillDials
  <2> PICK C \in SUBSET Free : \E f \in [C -> D] : Dialling(C, f)
    OBVIOUS
  <2>1. PICK f \in [C -> D] : Dialling(C, f)
    OBVIOUS
  <2>2. phase = "on" /\ \A c \in Conns : st[c] # "dialling"
    BY <1>2, <1>h DEF FillBegin, DialsAreFills
  <2>3. \A c \in C : f[c] \in Addrs /\ cand[f[c]] # NoCand
    BY DEF Selections, Available
  <2>4. \A c \in C : f[c] \in Listeners => \A d \in Held : addr[d] # f[c]
    BY <1>h, <2>2, <2>3 DEF CandidatesAreFree
  <2>5. /\ \A c \in Conns : c \in Dials' <=> c \in C
        /\ \A c \in Conns : c \in Held' <=> c \in Held
        /\ \A c \in C : addr'[c] = f[c]
        /\ \A c \in Held : addr'[c] = addr[c]
    BY <2>1, <2>2 DEF Dialling, Free
  <2> QED
    BY <1>h, <2>1, <2>4, <2>5 DEF Dialling
<1>3. CASE StopBegin
  BY <1>3, <1>h DEF StopBegin, Forget, PoolTypeOK
<1>4. ASSUME NEW c \in Conns, DialFails(c) \/ AttachFails(c)
      PROVE  OnePerAddress'
  BY <1>4, <1>h DEF DialFails, AttachFails, Forget, PoolTypeOK
<1>5. ASSUME NEW c \in Conns, DialOk(c)
      PROVE  OnePerAddress'
  BY <1>5, <1>h DEF DialOk, Register, PoolTypeOK
<1>6. ASSUME NEW c \in Conns, AttachOk(c)
      PROVE  OnePerAddress'
  BY <1>6, <1>h DEF AttachOk, Register, Attaching, PoolTypeOK
<1>7. ASSUME NEW c \in Conns, Ended(c) \/ CloseOne(c)
      PROVE  OnePerAddress'
  BY <1>7, <1>h DEF Ended, CloseOne, Live, PoolTypeOK
<1>8. ASSUME NEW c \in Conns, Reap(c)
      PROVE  OnePerAddress'
  BY <1>8, <1>h DEF Reap, PoolTypeOK
<1>9. ASSUME NEW c \in Conns, NEW a \in Callers, Accept(c, a)
      PROVE  OnePerAddress'
  <2>1. \A d \in Held : addr[d] # a
    <3>1. \A d \in Conns : st[d] = "dialled" => addr[d] # a
      BY <1>h DEF Sides
    <3> QED
      BY <1>9, <3>1 DEF Accept, Calling
  <2> QED
    BY <1>9, <1>h, <2>1 DEF Accept, PoolTypeOK
<1>10. PoolNext => \/ UNCHANGED <<st, addr>> \/ FillBegin \/ StopBegin
               \/ \E c \in Conns :
                    \/ DialFails(c) \/ DialOk(c) \/ AttachFails(c) \/ AttachOk(c)
                    \/ Ended(c) \/ Reap(c) \/ CloseOne(c)
                    \/ \E a \in Callers : Accept(c, a)
  BY DEF PoolNext, FillEnd, StartPool, CloseEnd, Settled, BackoffOver, AddPeers
<1> QED
  BY <1>1, <1>2, <1>3, <1>4, <1>5, <1>6, <1>7, <1>8, <1>9, <1>10 DEF poolVars

(* A connection loses its slot only when it is reaped or the pool has       *)
(* closed.                                                                  *)
LEMMA AccountedStep ==
  ASSUME PoolAssumption, Listeners \cap Callers = {}, PoolInv, [PoolNext]_poolVars
  PROVE  Accounted'
<1> USE DEF Accounted, Held, Attaching, Live, connVars, engineVars
<1>h. PoolTypeOK /\ SlotsAreHeld /\ Sides /\ OnePerAddress /\ DialsAreFills /\ Accounted
  BY DEF PoolInv
<1>1. CASE UNCHANGED <<reg, st, addr, phase, closing, late>>
  BY <1>1, <1>h
<1>2. CASE FillBegin
  <2> PICK D \in Selections : \E C \in SUBSET Free : \E f \in [C -> D] : Dialling(C, f)
    BY <1>2, FillDials
  <2> PICK C \in SUBSET Free : \E f \in [C -> D] : Dialling(C, f)
    OBVIOUS
  <2>1. PICK f \in [C -> D] : Dialling(C, f)
    OBVIOUS
  <2> QED
    BY <1>2, <1>h, <2>1 DEF FillBegin, Dialling, Free, PoolTypeOK
<1>3. CASE StartPool
  BY <1>3, <1>h DEF StartPool
<1>4. CASE StopBegin
  <2>1. /\ closing' = {reg[a] : a \in Registered} /\ phase' = "closing" /\ phase = "on"
        /\ UNCHANGED <<reg, addr, late>>
        /\ \A c \in Conns : st'[c] = st[c] \/ st'[c] = "free"
    BY <1>4 DEF StopBegin, Forget
  <2>2. \A c \in Live \ late : addr[c] \in Registered /\ reg[addr[c]] = c
    BY <1>h, <2>1 DEF PoolTypeOK, Registered, PoolAssumption
  <2>3. Live \ late \subseteq closing'
    BY <2>1, <2>2
  <2> QED
    BY <1>h, <2>1, <2>3
<1>5. CASE CloseEnd
  BY <1>5, <1>h DEF CloseEnd
<1>6. CASE Settled
  BY <1>6, <1>h DEF Settled
<1>7. ASSUME NEW c \in Conns, DialFails(c) \/ AttachFails(c)
      PROVE  Accounted'
  BY <1>7, <1>h DEF DialFails, AttachFails, Forget, Dials, PoolTypeOK
<1>8. ASSUME NEW c \in Conns, DialOk(c)
      PROVE  Accounted'
  <2>1. phase = "on"
    BY <1>8, <1>h DEF DialOk, DialsAreFills
  <2>2. \A d \in Held : addr[d] # addr[c]
    BY <1>8, <1>h DEF DialOk, OnePerAddress
  <2> QED
    BY <1>8, <1>h, <2>1, <2>2 DEF DialOk, Register, PoolTypeOK
<1>9. ASSUME NEW c \in Conns, AttachOk(c)
      PROVE  Accounted'
  <2>1. \A d \in Held : d # c => addr[d] # addr[c]
    BY <1>9, <1>h DEF AttachOk, OnePerAddress
  <2> QED
    BY <1>9, <1>h, <2>1 DEF AttachOk, Register, PoolTypeOK
<1>10. ASSUME NEW c \in Conns, Ended(c) \/ CloseOne(c)
       PROVE  Accounted'
  BY <1>10, <1>h DEF Ended, CloseOne, PoolTypeOK
<1>11. ASSUME NEW c \in Conns, Reap(c)
       PROVE  Accounted'
  <2>1. \A d \in Held : d # c => addr[d] # addr[c]
    BY <1>11, <1>h DEF Reap, OnePerAddress
  <2> QED
    BY <1>11, <1>h, <2>1 DEF Reap, PoolTypeOK
<1>12. ASSUME NEW c \in Conns, NEW a \in Callers, Accept(c, a)
       PROVE  Accounted'
  BY <1>12, <1>h DEF Accept, PoolTypeOK
<1>13. PoolNext => \/ UNCHANGED <<reg, st, addr, phase, closing, late>>
               \/ FillBegin \/ StartPool \/ StopBegin \/ CloseEnd \/ Settled
               \/ \E c \in Conns :
                    \/ DialFails(c) \/ DialOk(c) \/ AttachFails(c) \/ AttachOk(c)
                    \/ Ended(c) \/ Reap(c) \/ CloseOne(c)
                    \/ \E a \in Callers : Accept(c, a)
  BY DEF PoolNext, FillEnd, BackoffOver, AddPeers
<1> QED
  BY <1>1, <1>2, <1>3, <1>4, <1>5, <1>6, <1>7, <1>8, <1>9, <1>10, <1>11, <1>12, <1>13
  DEF poolVars

(* An address becomes a candidate only when no connection to it is left.    *)
LEMMA CandidatesStep ==
  ASSUME PoolAssumption, Listeners \cap Callers = {}, PoolInv, [PoolNext]_poolVars
  PROVE  CandidatesAreFree'
<1> USE DEF CandidatesAreFree, Held, connVars, engineVars
<1>h. /\ PoolTypeOK /\ SlotsAreHeld /\ Sides /\ OnePerAddress /\ DialsAreFills /\ Accounted
      /\ CandidatesAreFree
  BY DEF PoolInv
<1>1. CASE UNCHANGED <<cand, st, addr, phase>>
  BY <1>1, <1>h
<1>2. CASE FillBegin
  <2> PICK D \in Selections : \E C \in SUBSET Free : \E f \in [C -> D] : Dialling(C, f)
    BY <1>2, FillDials
  <2> PICK C \in SUBSET Free : \E f \in [C -> D] : Dialling(C, f)
    OBVIOUS
  <2>1. PICK f \in [C -> D] : Dialling(C, f)
    OBVIOUS
  <2> QED
    BY <1>2, <1>h, <2>1 DEF FillBegin, Dialling, Free, PoolTypeOK
<1>3. CASE StartPool
  <2>1. \A c \in Held : st[c] # "ended" /\ addr[c] \in Callers
    BY <1>3, <1>h DEF StartPool, Accounted, Live, Sides
  <2> QED
    BY <1>3, <2>1 DEF StartPool
<1>4. CASE StopBegin \/ CloseEnd \/ Settled
  BY <1>4 DEF StopBegin, CloseEnd, Settled
<1>5. ASSUME NEW a \in Addrs, BackoffOver(a)
      PROVE  CandidatesAreFree'
  BY <1>5, <1>h DEF BackoffOver, PoolTypeOK
<1>6. ASSUME NEW a \in Listeners, AddPeers(a)
      PROVE  CandidatesAreFree'
  <2>1. ASSUME phase = "on", NEW c \in Held, addr[c] = a
        PROVE  FALSE
    <3>1. c \notin late /\ c \notin Attaching
      BY <1>h, <2>1 DEF Sides, Attaching
    <3>2. reg[a] = c
      BY <1>h, <2>1, <3>1 DEF Accounted
    <3> QED
      BY <1>6, <3>2 DEF AddPeers, PoolAssumption
  <2> QED
    BY <1>6, <1>h, <2>1 DEF AddPeers, PoolTypeOK, Addrs
<1>7. ASSUME NEW c \in Conns, DialFails(c)
      PROVE  CandidatesAreFree'
  <2>1. addr[c] \in Listeners => \A d \in Held : addr[d] # addr[c]
    BY <1>7, <1>h DEF DialFails, OnePerAddress
  <2> QED
    BY <1>7, <1>h, <2>1 DEF DialFails, Forget, PoolTypeOK
<1>8. ASSUME NEW c \in Conns, DialOk(c)
      PROVE  CandidatesAreFree'
  BY <1>8, <1>h DEF DialOk, Register, PoolTypeOK
<1>9. ASSUME NEW c \in Conns, AttachFails(c)
      PROVE  CandidatesAreFree'
  BY <1>9, <1>h DEF AttachFails, Forget, PoolTypeOK
<1>10. ASSUME NEW c \in Conns, AttachOk(c) \/ Ended(c) \/ CloseOne(c)
       PROVE  CandidatesAreFree'
  BY <1>10, <1>h DEF AttachOk, Register, Attaching, Ended, Live, CloseOne, PoolTypeOK
<1>11. ASSUME NEW c \in Conns, Reap(c)
       PROVE  CandidatesAreFree'
  <2>1. \A d \in Held : d # c => addr[d] # addr[c]
    BY <1>11, <1>h DEF Reap, OnePerAddress
  <2> QED
    BY <1>11, <1>h, <2>1 DEF Reap, PoolTypeOK
<1>12. ASSUME NEW c \in Conns, NEW a \in Callers, Accept(c, a)
       PROVE  CandidatesAreFree'
  BY <1>12, <1>h DEF Accept, PoolTypeOK
<1>13. CASE FillEnd
  BY <1>13, <1>h DEF FillEnd
<1> QED
  BY <1>1, <1>2, <1>3, <1>4, <1>5, <1>6, <1>7, <1>8, <1>9, <1>10, <1>11, <1>12, <1>13
  DEF PoolNext, poolVars

-----------------------------------------------------------------------------
(* The cap on dialled connections.                                          *)

Dialled == {c \in Live : st[c] = "dialled"}

(* Dialled connections each hold a slot of their own.                       *)
LEMMA DialledHoldSlots ==
  ASSUME PoolAssumption, PoolInv, phase = "on"
  PROVE  /\ IsFiniteSet(Dialled)
         /\ Cardinality(Dialled) <= Cardinality(Registered)
<1>1. IsFiniteSet(Registered)
  BY FS_Subset DEF PoolAssumption, Registered
<1> DEFINE at == [c \in Dialled |-> addr[c]]
<1>2. \A c \in Dialled : reg[addr[c]] = c /\ addr[c] \in Registered
  <2> SUFFICES ASSUME NEW c \in Dialled PROVE reg[addr[c]] = c /\ addr[c] \in Registered
    OBVIOUS
  <2>1. c \in Held \ (Attaching \cup late)
    BY DEF Dialled, Live, Held, Attaching, PoolInv, Sides
  <2>2. reg[addr[c]] = c
    BY <2>1 DEF PoolInv, Accounted
  <2> QED
    BY <2>2 DEF PoolInv, PoolTypeOK, Dialled, Live, PoolAssumption, Registered
<1>3. at \in Injection(Dialled, Registered)
  BY <1>2 DEF Injection, IsInjective
<1> QED
  BY <1>1, <1>3, FS_Injection

(* A round of fill dials no more addresses than there are free slots.       *)
LEMMA RoundFitsSlots ==
  ASSUME PoolAssumption, NEW D \in Selections, NEW C \in SUBSET Free, NEW f \in [C -> D],
         Dialling(C, f)
  PROVE  IsFiniteSet(C) /\ Cardinality(C) <= FreeSlots
<1>1. IsFiniteSet(D)
  BY FS_Subset DEF PoolAssumption, Selections, Available
<1>2. f \in Injection(C, D)
  BY DEF Dialling, Injection, IsInjective
<1>3. IsFiniteSet(C) /\ Cardinality(C) <= Cardinality(D)
  BY <1>1, <1>2, FS_Injection
<1>4. Cardinality(D) \in Nat /\ Cardinality(C) \in Nat
  BY <1>1, <1>3, FS_CardinalityType
<1>5. FreeSlots \in Int
  <2>1. Cardinality(Registered) \in Nat
    BY FS_Subset, FS_CardinalityType DEF PoolAssumption, Registered
  <2> QED
    BY <2>1 DEF FreeSlots, PoolAssumption
<1>6. Cardinality(D) <= FreeSlots
  BY <1>4, <1>5 DEF Selections
<1> QED
  BY <1>3, <1>4, <1>5, <1>6

(* What is dialled and what is being dialled grows in a round of fill only. *)
LEMMA CapStep ==
  ASSUME PoolAssumption, PoolInv, DialledWithinCap, [PoolNext]_poolVars
  PROVE  DialledWithinCap'
<1> USE DEF connVars, engineVars
<1>h. PoolTypeOK
  BY DEF PoolInv
<1> DEFINE Taken == Dials \cup Dialled
<1>1. CASE FillBegin
  <2> PICK D \in Selections : \E C \in SUBSET Free : \E f \in [C -> D] : Dialling(C, f)
    BY <1>1, FillDials
  <2> PICK C \in SUBSET Free : \E f \in [C -> D] : Dialling(C, f)
    OBVIOUS
  <2> PICK f \in [C -> D] : Dialling(C, f)
    OBVIOUS
  <2>1. phase = "on" /\ Dials = {}
    BY <1>1 DEF FillBegin, PoolInv, DialsAreFills
  <2>2. Taken' = C \cup Dialled
    BY <2>1, <1>h DEF Dialling, Dials, Dialled, Live, Free, PoolTypeOK
  <2>3. IsFiniteSet(C) /\ Cardinality(C) <= FreeSlots
    BY RoundFitsSlots
  <2>4. IsFiniteSet(Dialled) /\ Cardinality(Dialled) <= Cardinality(Registered)
    BY <2>1, DialledHoldSlots
  <2>5. C \cap Dialled = {}
    BY DEF Free, Dialled
  <2>6. /\ Cardinality(C \cup Dialled)
             = Cardinality(C) + Cardinality(Dialled) - Cardinality(C \cap Dialled)
        /\ Cardinality(C \cap Dialled) = 0
    BY <2>3, <2>4, <2>5, FS_Union, FS_EmptySet
  <2>7. Cardinality(C) \in Nat /\ Cardinality(Dialled) \in Nat /\ MaxConn \in Nat
    BY <2>3, <2>4, FS_CardinalityType DEF PoolAssumption
  <2>8. Cardinality(Registered) \in Nat
    BY FS_Subset, FS_CardinalityType DEF PoolAssumption, Registered
  <2>9. Cardinality(C \cup Dialled) <= MaxConn
    BY <2>3, <2>4, <2>6, <2>7, <2>8 DEF FreeSlots
  <2> QED
    BY <2>2, <2>9 DEF DialledWithinCap, Dialled
<1>2. CASE ~FillBegin
  <2>1. Taken' \subseteq Taken
    <3>1. CASE UNCHANGED st
      BY <3>1 DEF Dials, Dialled, Live
    <3>2. CASE StopBegin
      BY <3>2, <1>h DEF StopBegin, Forget, Dials, Dialled, Live, PoolTypeOK
    <3>3. ASSUME NEW c \in Conns,
                 DialFails(c) \/ AttachFails(c) \/ DialOk(c) \/ AttachOk(c)
          PROVE  Taken' \subseteq Taken
      BY <3>3, <1>h
      DEF DialFails, AttachFails, DialOk, AttachOk, Forget, Register, Dials, Dialled,
          Live, PoolTypeOK
    <3>4. ASSUME NEW c \in Conns,
                 Ended(c) \/ CloseOne(c) \/ Reap(c) \/ \E a \in Callers : Accept(c, a)
          PROVE  Taken' \subseteq Taken
      BY <3>4, <1>h DEF Ended, CloseOne, Reap, Accept, Dials, Dialled, Live, PoolTypeOK
    <3>5. PoolNext => \/ UNCHANGED st \/ StopBegin
                  \/ \E c \in Conns :
                       \/ DialFails(c) \/ AttachFails(c) \/ DialOk(c) \/ AttachOk(c)
                       \/ Ended(c) \/ CloseOne(c) \/ Reap(c)
                       \/ \E a \in Callers : Accept(c, a)
      BY <1>2 DEF PoolNext, FillEnd, StartPool, CloseEnd, Settled, BackoffOver, AddPeers
    <3> QED
      BY <3>1, <3>2, <3>3, <3>4, <3>5 DEF poolVars
  <2>2. IsFiniteSet(Taken)
    BY FS_Subset DEF PoolAssumption, Dials, Dialled, Live
  <2>3. Cardinality(Taken') <= Cardinality(Taken)
    BY <2>1, <2>2, FS_Subset
  <2>4. IsFiniteSet(Taken')
    BY <2>1, <2>2, FS_Subset
  <2>5. Cardinality(Taken') \in Nat /\ Cardinality(Taken) \in Nat /\ MaxConn \in Nat
    BY <2>2, <2>4, FS_CardinalityType DEF PoolAssumption
  <2>6. Cardinality(Taken) <= MaxConn
    BY DEF DialledWithinCap, Dialled
  <2>7. Cardinality(Taken') <= MaxConn
    BY <2>3, <2>5, <2>6
  <2> QED
    BY <2>7 DEF DialledWithinCap, Dialled
<1> QED
  BY <1>1, <1>2

-----------------------------------------------------------------------------
(* The theorems.                                                            *)

LEMMA PoolInvInit ==
  ASSUME PoolAssumption
  PROVE  PoolInit => PoolInv /\ DialledWithinCap
<1> SUFFICES ASSUME PoolInit PROVE PoolInv /\ DialledWithinCap
  OBVIOUS
<1>1. PoolTypeOK
  BY PoolInitType
<1>2. \A c \in Conns : st[c] = "free"
  BY DEF PoolInit
<1>3. /\ SlotsAreHeld /\ Sides /\ OnePerAddress /\ DialsAreFills /\ Accounted
      /\ CandidatesAreFree
  BY <1>2
  DEF PoolInit, SlotsAreHeld, Registered, Sides, OnePerAddress, DialsAreFills, Accounted,
      CandidatesAreFree, Held, Dials, Attaching, Live
<1>4. Dials \cup {c \in Live : st[c] = "dialled"} = {}
  BY <1>2 DEF Dials, Live
<1>5. DialledWithinCap
  <2>1. Cardinality({}) = 0
    BY FS_EmptySet
  <2>2. 0 <= MaxConn
    BY DEF PoolAssumption
  <2> QED
    BY <1>4, <2>1, <2>2 DEF DialledWithinCap
<1> QED
  BY <1>1, <1>3, <1>5 DEF PoolInv

LEMMA PoolInvStep ==
  ASSUME PoolAssumption, Listeners \cap Callers = {}
  PROVE  PoolInv /\ DialledWithinCap /\ [PoolNext]_poolVars => PoolInv' /\ DialledWithinCap'
<1> SUFFICES ASSUME PoolInv, DialledWithinCap, [PoolNext]_poolVars
             PROVE  PoolInv' /\ DialledWithinCap'
  OBVIOUS
<1>1. PoolTypeOK'
  BY PoolTypeStep DEF PoolInv
<1>2. SlotsAreHeld' /\ Sides' /\ DialsAreFills'
  BY SlotsAreHeldStep, SidesStep, DialsAreFillsStep DEF PoolInv
<1>3. OnePerAddress' /\ Accounted' /\ CandidatesAreFree'
  BY OneConnectionStep, AccountedStep, CandidatesStep
<1>4. DialledWithinCap'
  BY CapStep
<1> QED
  BY <1>1, <1>2, <1>3, <1>4 DEF PoolInv

(* Every variable of the pool keeps within its type.                        *)
THEOREM PoolTypeCorrect ==
  ASSUME PoolAssumption
  PROVE  PoolSpec => []PoolTypeOK
<1>1. PoolInit => PoolTypeOK
  BY PoolInitType
<1>2. PoolTypeOK /\ [PoolNext]_poolVars => PoolTypeOK'
  BY PoolTypeStep
<1> QED
  BY <1>1, <1>2, PTL DEF PoolSpec

(* No path out of a connection's life leaks its slot, also where somebody   *)
(* calls from an address that answers dials.                                *)
THEOREM SlotsAreHeldAlways ==
  ASSUME PoolAssumption
  PROVE  PoolSpec => []SlotsAreHeld
<1>1. PoolInit => PoolTypeOK /\ SlotsAreHeld
  BY PoolInitType DEF PoolInit, SlotsAreHeld, Registered
<1>2. PoolTypeOK /\ SlotsAreHeld /\ [PoolNext]_poolVars => PoolTypeOK' /\ SlotsAreHeld'
  BY PoolTypeStep, SlotsAreHeldStep
<1> QED
  BY <1>1, <1>2, PTL DEF PoolSpec

LEMMA PoolMeans ==
  ASSUME PoolInv, DialledWithinCap
  PROVE  PoolIsAccounted
<1>1. \A c \in Live \ late : c \in Held \ (Attaching \cup late)
  BY DEF Live, Held, Attaching
<1>2. phase \in {"on", "closing"} \/ Live \ late = {}
  BY DEF PoolInv, Accounted, PoolTypeOK
<1>3. LiveIsRegistered
  BY <1>1, <1>2 DEF LiveIsRegistered, PoolInv, Accounted
<1> QED
  BY <1>3 DEF PoolInv, PoolIsAccounted

(* What PeerManager counts is what there is: no slot leaks, every live      *)
(* connection holds one unless it was adopted while the pool closed, and    *)
(* the connections it opened fit the cap, whatever comes in, fails, ends or *)
(* is stopped between a count and its use.                                  *)
THEOREM PoolIsAccountedAlways ==
  ASSUME PoolAssumption, Listeners \cap Callers = {}
  PROVE  PoolSpec => []PoolIsAccounted
<1>1. PoolInit => PoolInv /\ DialledWithinCap
  BY PoolInvInit
<1>2. PoolInv /\ DialledWithinCap /\ [PoolNext]_poolVars => PoolInv' /\ DialledWithinCap'
  BY PoolInvStep
<1>3. PoolInv /\ DialledWithinCap => PoolIsAccounted
  BY PoolMeans
<1> QED
  BY <1>1, <1>2, <1>3, PTL DEF PoolSpec

-----------------------------------------------------------------------------
(* What is believed of the swarm.                                           *)

Holders(i) == {p \in Peers : i \in TrackedBits(p)}

(* A peer whose session's second object is tracked has received a bitfield, *)
(* and that of a peer that left is tracked no more: what the manager tracks *)
(* is never replaced under it, only added to by haves, which are counted.   *)
ViewInv ==
  /\ conn \in [Peers -> {"down", "up", "closing", "gone"}]
  /\ first \in [Peers -> SUBSET Pieces] /\ second \in [Peers -> SUBSET Pieces]
  /\ received \in [Peers -> BOOLEAN]
  /\ view \in [Peers -> {"none", "first", "second"}]
  /\ avail \in [Pieces -> Int]
  /\ \A p \in Peers : conn[p] \in {"down", "gone"} => view[p] = "none"
  /\ \A p \in Peers : view[p] = "second" => received[p] = TRUE
  /\ \A i \in Pieces : avail[i] >= Cardinality(Holders(i))

LEMMA CountsPeers ==
  ASSUME SwarmAssumption, NEW S \in SUBSET Peers
  PROVE  IsFiniteSet(S) /\ Cardinality(S) \in Nat
BY FS_Subset, FS_CardinalityType DEF SwarmAssumption

LEMMA HoldersAreCounted ==
  ASSUME SwarmAssumption, NEW i
  PROVE  IsFiniteSet(Holders(i)) /\ Cardinality(Holders(i)) \in Nat
BY CountsPeers DEF Holders

LEMMA MoreIsMore ==
  ASSUME SwarmAssumption, NEW S \in SUBSET Peers, NEW T \in SUBSET S
  PROVE  Cardinality(T) <= Cardinality(S)
BY CountsPeers, FS_Subset

(* What is tracked stays, or shrinks, and the counters stay.                *)
LEMMA CountsStay ==
  ASSUME SwarmAssumption, ViewInv, UNCHANGED avail,
         \A i \in Pieces : Holders(i)' \subseteq Holders(i)
  PROVE  \A i \in Pieces : avail'[i] >= Cardinality(Holders(i)')
<1> TAKE i \in Pieces
<1>1. Cardinality(Holders(i)') <= Cardinality(Holders(i))
  BY MoreIsMore DEF Holders
<1>2. Cardinality(Holders(i)') \in Nat
  BY CountsPeers DEF Holders
<1> QED
  BY <1>1, <1>2, HoldersAreCounted DEF ViewInv

LEMMA ConnectKeeps ==
  ASSUME SwarmAssumption, ViewInv, NEW p \in Peers, Connect(p)
  PROVE  ViewInv'
<1>1. UNCHANGED <<view, avail>> /\ view[p] = "none"
  BY DEF Connect, viewVars, ViewInv
<1>2. \A i \in Pieces : Holders(i)' \subseteq Holders(i)
  BY <1>1 DEF Connect, Holders, TrackedBits, ViewInv
<1>3. \A i \in Pieces : avail'[i] >= Cardinality(Holders(i)')
  BY <1>1, <1>2, CountsStay
<1>4. /\ conn' \in [Peers -> {"down", "up", "closing", "gone"}]
      /\ first' \in [Peers -> SUBSET Pieces] /\ second' \in [Peers -> SUBSET Pieces]
      /\ received' \in [Peers -> BOOLEAN]
  BY DEF Connect, ViewInv
<1>5. \A q \in Peers : conn'[q] \in {"down", "gone"} => view'[q] = "none"
  BY <1>1 DEF Connect, ViewInv
<1>6. \A q \in Peers : view'[q] = "second" => received'[q] = TRUE
  BY <1>1 DEF Connect, ViewInv
<1> QED
  BY <1>1, <1>3, <1>4, <1>5, <1>6 DEF ViewInv

LEMMA RecvBitfieldKeeps ==
  ASSUME SwarmAssumption, ViewInv, NEW p \in Peers, NEW S \in SUBSET Pieces, RecvBitfield(p, S)
  PROVE  ViewInv'
<1>1. UNCHANGED <<conn, first, view, avail>> /\ view[p] # "second"
  BY DEF RecvBitfield, viewVars, ViewInv
<1>2. \A i \in Pieces : Holders(i)' \subseteq Holders(i)
  BY <1>1 DEF RecvBitfield, Holders, TrackedBits, ViewInv
<1>3. \A i \in Pieces : avail'[i] >= Cardinality(Holders(i)')
  BY <1>1, <1>2, CountsStay
<1>4. second' \in [Peers -> SUBSET Pieces] /\ received' \in [Peers -> BOOLEAN]
  BY DEF RecvBitfield, ViewInv
<1>5. \A q \in Peers : view'[q] = "second" => received'[q] = TRUE
  BY <1>1 DEF RecvBitfield, ViewInv
<1> QED
  BY <1>1, <1>3, <1>4, <1>5 DEF ViewInv

(* A have adds one piece to what is tracked for one peer, and one to its    *)
(* counter.                                                                 *)
LEMMA RecvHaveKeeps ==
  ASSUME SwarmAssumption, ViewInv, NEW p \in Peers, NEW i \in Pieces, RecvHave(p, i)
  PROVE  ViewInv'
<1>1. UNCHANGED <<conn, received, view>> /\ avail' = [avail EXCEPT ![i] = @ + 1]
  BY DEF RecvHave
<1>2. first' \in [Peers -> SUBSET Pieces] /\ second' \in [Peers -> SUBSET Pieces]
  BY DEF RecvHave, ViewInv
<1>3. \A j \in Pieces \ {i} : Holders(j)' \subseteq Holders(j)
  BY <1>1 DEF RecvHave, Holders, TrackedBits, ViewInv
<1>4. Holders(i)' \subseteq Holders(i) \cup {p}
  BY <1>1 DEF RecvHave, Holders, TrackedBits, ViewInv
<1>5. ASSUME NEW j \in Pieces PROVE avail'[j] >= Cardinality(Holders(j)')
  <2> DEFINE H == Holders(j)
             G == Holders(j)'
  <2>1. H \subseteq Peers /\ G \subseteq Peers
    BY DEF Holders
  <2>2. IsFiniteSet(H) /\ Cardinality(H) \in Nat /\ Cardinality(G) \in Nat
    BY <2>1, CountsPeers
  <2>3. avail[j] \in Int /\ avail[j] >= Cardinality(H)
    BY DEF ViewInv
  <2>4. avail'[j] = IF j = i THEN avail[j] + 1 ELSE avail[j]
    BY <1>1 DEF ViewInv
  <2>5. j # i => G \subseteq H
    BY <1>3
  <2>6. j = i => G \subseteq H \cup {p}
    BY <1>4
  <2> HIDE DEF H, G
  <2>7. Cardinality(H \cup {p}) = Cardinality(H) \/ Cardinality(H \cup {p}) = Cardinality(H) + 1
    BY <2>2, FS_AddElement
  <2>8. CASE j = i
    <3>1. Cardinality(G) <= Cardinality(H \cup {p})
      BY <2>1, <2>6, <2>8, MoreIsMore
    <3>2. avail'[j] >= Cardinality(G)
      BY <2>2, <2>3, <2>4, <2>7, <2>8, <3>1
    <3> QED
      BY <3>2 DEF G
  <2>9. CASE j # i
    <3>1. Cardinality(G) <= Cardinality(H)
      BY <2>1, <2>5, <2>9, MoreIsMore
    <3>2. avail'[j] >= Cardinality(G)
      BY <2>2, <2>3, <2>4, <2>9, <3>1
    <3> QED
      BY <3>2 DEF G
  <2> QED
    BY <2>8, <2>9
<1>6. avail' \in [Pieces -> Int]
  BY <1>1 DEF ViewInv
<1> QED
  BY <1>1, <1>2, <1>5, <1>6 DEF ViewInv

(* The counters a peer's object adds to are those it is taken from.         *)
LEMMA ViewOnDisconnectKeeps ==
  ASSUME SwarmAssumption, ViewInv, NEW p \in Peers, ViewOnDisconnect(p)
  PROVE  ViewInv'
<1>1. UNCHANGED <<first, second, received>> /\ view' = [view EXCEPT ![p] = "none"]
  BY DEF ViewOnDisconnect
<1>2. \A i \in Pieces : Holders(i)' = Holders(i) \ {p}
  BY <1>1 DEF Holders, TrackedBits, ViewInv
<1>3. ASSUME NEW i \in Pieces
      PROVE  avail'[i] \in Int /\ avail'[i] >= Cardinality(Holders(i)')
  <2> DEFINE H == Holders(i)
             B == [q \in Peers |-> IF q = p THEN TrackedBits(p) ELSE {}]
             D == {q \in Peers : i \in B[q]}
  <2>1. avail'[i] = avail[i] + (-1) * Cardinality(D)
    BY DEF ViewOnDisconnect, AvailPlus
  <2>2. D = IF p \in H THEN {p} ELSE {}
    BY DEF Holders
  <2>3. avail[i] \in Int /\ avail[i] >= Cardinality(H) /\ IsFiniteSet(H) /\ Cardinality(H) \in Nat
    BY HoldersAreCounted DEF ViewInv
  <2>4. Holders(i)' = H \ {p}
    BY <1>2
  <2> HIDE DEF H, D
  <2>5. Cardinality(H \ {p}) = IF p \in H THEN Cardinality(H) - 1 ELSE Cardinality(H)
    BY <2>3, FS_RemoveElement
  <2>6. Cardinality(D) = IF p \in H THEN 1 ELSE 0
    BY <2>2, FS_Singleton, FS_EmptySet
  <2>7. avail'[i] \in Int /\ avail'[i] >= Cardinality(H \ {p})
    BY <2>1, <2>3, <2>5, <2>6
  <2> QED
    BY <2>4, <2>7
<1>4. avail' \in [Pieces -> Int]
  <2>1. avail' = [i \in Pieces |-> avail'[i]]
    BY DEF ViewOnDisconnect, AvailPlus
  <2> QED
    BY <1>3, <2>1
<1>5. /\ conn' \in [Peers -> {"down", "up", "closing", "gone"}]
      /\ view' \in [Peers -> {"none", "first", "second"}]
  BY <1>1 DEF ViewOnDisconnect, ViewInv
<1>6. \A q \in Peers : conn'[q] \in {"down", "gone"} => view'[q] = "none"
  BY <1>1 DEF ViewOnDisconnect, ViewInv
<1>7. \A q \in Peers : view'[q] = "second" => received'[q] = TRUE
  BY <1>1 DEF ViewInv
<1>8. \A i \in Pieces : avail'[i] >= Cardinality(Holders(i)')
  BY <1>3
<1> QED
  BY <1>1, <1>4, <1>5, <1>6, <1>7, <1>8 DEF ViewInv

(* A sync takes the departed peers' objects from the counters and adds the  *)
(* newcomers'.                                                              *)
LEMMA PassBeginKeeps ==
  ASSUME SwarmAssumption, ViewInv, PumpBegin
  PROVE  ViewInv'
<1> DEFINE gone == {p \in Peers : view[p] # "none" /\ ~Up(p)}
           new  == {p \in Peers : view[p] = "none" /\ Up(p)}
           less == AvailPlus([p \in Peers |-> IF p \in gone THEN TrackedBits(p) ELSE {}], -1)
<1>1. UNCHANGED <<conn, first, second, received>>
  BY DEF PumpBegin, sessionVars
<1>2. /\ view' = [p \in Peers |->
            IF p \in gone THEN "none"
            ELSE IF p \in new THEN (IF received[p] THEN "second" ELSE "first")
            ELSE view[p]]
      /\ avail' = [i \in Pieces |-> less[i] + Cardinality({p \in new : i \in Bits(p)})]
  BY DEF PumpBegin
<1>3. ASSUME NEW i \in Pieces
      PROVE  avail'[i] \in Int /\ avail'[i] >= Cardinality(Holders(i)')
  <2> DEFINE H == Holders(i)
             D == {q \in Peers : i \in [p \in Peers |-> IF p \in gone THEN TrackedBits(p) ELSE {}][q]}
             N == {p \in new : i \in Bits(p)}
             G == Holders(i)'
  <2>1. avail'[i] = avail[i] + (-1) * Cardinality(D) + Cardinality(N)
    BY <1>2 DEF AvailPlus
  <2>2. D \subseteq H /\ N \subseteq Peers /\ H \subseteq Peers
    BY DEF Holders
  <2>3. G \subseteq (H \ D) \cup N
    BY <1>1, <1>2 DEF Holders, TrackedBits, Bits, ViewInv
  <2>4. avail[i] \in Int /\ avail[i] >= Cardinality(H)
    BY DEF ViewInv
  <2> HIDE DEF H, D, N, G
  <2>5. /\ IsFiniteSet(H) /\ Cardinality(H) \in Nat
        /\ IsFiniteSet(D) /\ Cardinality(D) \in Nat
        /\ IsFiniteSet(N) /\ Cardinality(N) \in Nat
        /\ IsFiniteSet(H \ D) /\ Cardinality(H \ D) \in Nat
    BY <2>2, CountsPeers
  <2>6. Cardinality(H \ D) = Cardinality(H) - Cardinality(D)
    <3>1. H \cap D = D
      BY <2>2
    <3> QED
      BY <2>5, <3>1, FS_Difference
  <2>7. Cardinality((H \ D) \cup N) <= Cardinality(H \ D) + Cardinality(N)
    <3>1. Cardinality((H \ D) \cup N)
            = Cardinality(H \ D) + Cardinality(N) - Cardinality((H \ D) \cap N)
      BY <2>5, FS_Union
    <3>2. Cardinality((H \ D) \cap N) \in Nat
      BY <2>2, CountsPeers
    <3> QED
      BY <2>5, <3>1, <3>2
  <2>8. Cardinality(G) <= Cardinality((H \ D) \cup N) /\ Cardinality(G) \in Nat
        /\ Cardinality((H \ D) \cup N) \in Nat
    BY <2>2, <2>3, MoreIsMore, CountsPeers
  <2> DEFINE h == Cardinality(H)
             d == Cardinality(D)
             n == Cardinality(N)
  <2>9. avail'[i] = avail[i] - d + n
    BY <2>1, <2>4, <2>5
  <2>10. Cardinality(G) <= h - d + n
    BY <2>5, <2>6, <2>7, <2>8
  <2>11. avail'[i] \in Int /\ avail'[i] >= Cardinality(G)
    <3>1. h \in Nat /\ d \in Nat /\ n \in Nat /\ avail[i] >= h
      BY <2>4, <2>5
    <3> HIDE DEF h, d, n
    <3> QED
      BY <2>4, <2>8, <2>9, <2>10, <3>1
  <2> QED
    BY <2>11 DEF G
<1>4. avail' \in [Pieces -> Int]
  BY <1>2, <1>3
<1>5. view' \in [Peers -> {"none", "first", "second"}]
  BY <1>2 DEF ViewInv
<1>6. \A q \in Peers : conn'[q] \in {"down", "gone"} => view'[q] = "none"
  BY <1>1, <1>2 DEF ViewInv, Up
<1>7. \A q \in Peers : view'[q] = "second" => received'[q] = TRUE
  BY <1>1, <1>2 DEF ViewInv
<1>8. \A i \in Pieces : avail'[i] >= Cardinality(Holders(i)')
  BY <1>3
<1> QED
  BY <1>1, <1>4, <1>5, <1>6, <1>7, <1>8 DEF ViewInv

LEMMA ViewInvStep ==
  ASSUME SwarmAssumption, ViewInv, [SwarmNext]_swarmVars
  PROVE  ViewInv'
<1>1. CASE UNCHANGED <<conn, first, second, received, view, avail>>
  BY <1>1, CountsStay DEF ViewInv, Holders, TrackedBits
<1>2. ASSUME NEW p \in Peers, Lost(p) PROVE ViewInv'
  <2>1. UNCHANGED <<first, second, received, view, avail>>
        /\ conn' = [conn EXCEPT ![p] = "closing"]
    BY <1>2 DEF Lost, viewVars
  <2>2. \A i \in Pieces : avail'[i] >= Cardinality(Holders(i)')
    BY <2>1, CountsStay DEF Holders, TrackedBits
  <2> QED
    BY <2>1, <2>2 DEF ViewInv
<1>3. \/ UNCHANGED <<conn, first, second, received, view, avail>>
      \/ PumpBegin
      \/ \E p \in Peers : \/ Connect(p) \/ Lost(p) \/ ViewOnDisconnect(p)
                          \/ \E S \in SUBSET Pieces : RecvBitfield(p, S)
                          \/ \E i \in Pieces : RecvHave(p, i)
  BY DEF SwarmNext, Swarm, Pump, Verification, MarkVerifying, MarkVerified, Reset, Move, SendDone,
         SendFail, PumpEnd, DecideSame, DecideSend, DecideDead, swarmVars, sessionVars, viewVars
<1> QED
  BY <1>1, <1>2, <1>3, ConnectKeeps, RecvBitfieldKeeps, RecvHaveKeeps, ViewOnDisconnectKeeps,
     PassBeginKeeps

LEMMA ViewInvInit ==
  ASSUME SwarmAssumption, SwarmInit
  PROVE  ViewInv
<1>1. \A i \in Pieces : Holders(i) = {}
  BY DEF SwarmInit, Holders, TrackedBits
<1>2. \A i \in Pieces : avail[i] = 0 /\ Cardinality(Holders(i)) = 0
  BY <1>1, FS_EmptySet DEF SwarmInit
<1>3. avail \in [Pieces -> Int] /\ \A i \in Pieces : avail[i] >= Cardinality(Holders(i))
  BY <1>2 DEF SwarmInit
<1>4. /\ conn \in [Peers -> {"down", "up", "closing", "gone"}]
      /\ first \in [Peers -> SUBSET Pieces] /\ second \in [Peers -> SUBSET Pieces]
      /\ view \in [Peers -> {"none", "first", "second"}]
  BY DEF SwarmInit
<1>5. received \in [Peers -> BOOLEAN]
  BY DEF SwarmInit
<1>6. \A p \in Peers : view[p] = "none"
  BY DEF SwarmInit
<1> QED
  BY <1>3, <1>4, <1>5, <1>6 DEF ViewInv

LEMMA ViewMeans ==
  ASSUME SwarmAssumption, ViewInv
  PROVE  AvailabilityCoversTracked /\ avail \in [Pieces -> Nat]
<1>1. \A i \in Pieces : avail[i] \in Nat
  BY HoldersAreCounted DEF ViewInv
<1> QED
  BY <1>1 DEF ViewInv, Holders, AvailabilityCoversTracked

(* Whatever a peer sends, in whatever order it comes, goes and returns, the *)
(* counters rarest-first reads cover the bitfields the manager tracks, and  *)
(* none falls below zero.                                                   *)
THEOREM AvailabilityCoversTrackedAlways ==
  ASSUME SwarmAssumption
  PROVE  SwarmSpec => [](AvailabilityCoversTracked /\ avail \in [Pieces -> Nat])
<1>1. SwarmInit => ViewInv
  BY ViewInvInit
<1>2. ViewInv /\ [SwarmNext]_swarmVars => ViewInv'
  BY ViewInvStep
<1>3. ViewInv => AvailabilityCoversTracked /\ avail \in [Pieces -> Nat]
  BY ViewMeans
<1> QED
  BY <1>1, <1>2, <1>3, PTL DEF SwarmSpec

(* A set of pieces has no more elements than there are pieces, so what is   *)
(* noted of a decision is a signature.                                      *)
LEMMA CountsPieces ==
  ASSUME SwarmAssumption, NEW S \in SUBSET Pieces
  PROVE  Cardinality(S) \in 0 .. Cardinality(Pieces)
<1>1. Cardinality(S) <= Cardinality(Pieces)
  BY FS_Subset DEF SwarmAssumption
<1>2. Cardinality(S) \in Nat /\ Cardinality(Pieces) \in Nat
  BY FS_Subset, FS_CardinalityType DEF SwarmAssumption
<1> QED
  BY <1>1, <1>2

LEMMA SignaturesFit ==
  ASSUME SwarmAssumption, count \in 0 .. Cardinality(Pieces), NEW S \in SUBSET Pieces
  PROVE  Signature(S) \in Signatures
BY CountsPieces DEF Signature, Signatures

(* Every variable of what is believed of the swarm keeps within its type;   *)
(* that the counters are numbers follows from what they cover.              *)
LEMMA SwarmTypeInit ==
  ASSUME SwarmAssumption, SwarmInit
  PROVE  SwarmTypeOK
<1>1. 0 \in 0 .. Cardinality(Pieces) /\ <<0, 0>> \in Signatures
  BY FS_CardinalityType DEF SwarmAssumption, Signatures
<1>2. received \in [Peers -> BOOLEAN]
  BY DEF SwarmInit
<1>3. amInterested \in [Peers -> BOOLEAN]
  BY DEF SwarmInit
<1> QED
  BY <1>1, <1>2, <1>3 DEF SwarmInit, SwarmTypeOK

LEMMA SwarmTypeStep ==
  ASSUME SwarmAssumption, SwarmTypeOK, ViewInv', [SwarmNext]_swarmVars
  PROVE  SwarmTypeOK'
<1>1. /\ conn' \in [Peers -> {"down", "up", "closing", "gone"}]
      /\ first' \in [Peers -> SUBSET Pieces] /\ second' \in [Peers -> SUBSET Pieces]
      /\ received' \in [Peers -> BOOLEAN]
      /\ view' \in [Peers -> {"none", "first", "second"}]
      /\ avail' \in [Pieces -> Nat]
  <2>1. \A i \in Pieces : Cardinality(Holders(i)') \in Nat
    BY CountsPeers DEF Holders
  <2>2. \A i \in Pieces : avail'[i] \in Nat
    BY <2>1 DEF ViewInv
  <2> QED
    BY <2>2 DEF ViewInv
<1>b. \A p \in Peers : Bits(p) \in SUBSET Pieces /\ amInterested[p] \in BOOLEAN
  BY DEF SwarmTypeOK, Bits
<1>s. \A S \in SUBSET Pieces : Signature(S) \in Signatures
  BY SignaturesFit DEF SwarmTypeOK
<1>z. <<0, 0>> \in Signatures /\ 0 \in 0 .. Cardinality(Pieces)
  BY FS_CardinalityType DEF SwarmAssumption, Signatures
<1>2. amInterested' \in [Peers -> BOOLEAN]
  <2>1. CASE SendDone
    <3>1. amInterested' = [amInterested EXCEPT ![cur] = ~@]
      BY <2>1 DEF SendDone
    <3> QED
      BY <3>1 DEF SwarmTypeOK
  <2>2. ASSUME NEW p \in Peers, Connect(p) PROVE amInterested' \in [Peers -> BOOLEAN]
    <3>1. amInterested' = [amInterested EXCEPT ![p] = FALSE]
      BY <2>2 DEF Connect
    <3> QED
      BY <3>1 DEF SwarmTypeOK
  <2>3. UNCHANGED amInterested \/ SendDone \/ \E p \in Peers : Connect(p)
    BY DEF SwarmNext, Swarm, Pump, Verification, MarkVerifying, MarkVerified, Reset, Move, SendFail,
           PumpBegin, PumpEnd, DecideSame, DecideSend, DecideDead, Lost, ViewOnDisconnect,
           RecvBitfield, RecvHave, swarmVars
  <2> QED
    BY <2>1, <2>2, <2>3 DEF SwarmTypeOK
<1>3. interest' \in [Peers -> {{}} \cup {{g} : g \in Signatures}]
  <2> DEFINE I == {{}} \cup {{g} : g \in Signatures}
             Noted(p, v) == interest' = [interest EXCEPT ![p] = v]
  <2>1. ASSUME NEW p \in Peers, Noted(p, {}) PROVE interest' \in [Peers -> I]
    BY <2>1 DEF SwarmTypeOK
  <2>2. ASSUME NEW p \in Peers, NEW g \in Signatures, Noted(p, {g}) PROVE interest' \in [Peers -> I]
    BY <2>2 DEF SwarmTypeOK
  <2>3. CASE UNCHANGED interest
    BY <2>3 DEF SwarmTypeOK
  <2>4. CASE SendDone
    <3>1. cur \in Peers /\ sig \in Signatures /\ Noted(cur, {sig})
      BY <2>4 DEF SendDone, SwarmTypeOK
    <3> QED
      BY <3>1, <2>2
  <2>5. ASSUME NEW p \in Peers, DecideSame(p) PROVE interest' \in [Peers -> I]
    <3>1. Noted(p, {Signature(Bits(p))}) /\ Signature(Bits(p)) \in Signatures
      BY <1>b, <1>s, <2>5 DEF DecideSame
    <3> QED
      BY <3>1, <2>2
  <2>6. ASSUME NEW d \in dead, DecideDead(d) PROVE interest' \in [Peers -> I]
    <3>1. d.peer \in Peers /\ Signature(d.bits) \in Signatures
      BY <1>s DEF SwarmTypeOK
    <3>2. UNCHANGED interest \/ Noted(d.peer, {Signature(d.bits)})
      BY <2>6 DEF DecideDead
    <3> QED
      BY <3>1, <3>2, <2>2, <2>3
  <2>7. \/ UNCHANGED interest \/ SendDone
        \/ \E p \in Peers : DecideSame(p) \/ Noted(p, {})
        \/ \E d \in dead : DecideDead(d)
    BY DEF SwarmNext, Swarm, Pump, Verification, MarkVerifying, MarkVerified, Reset, Move, SendFail,
           PumpBegin, PumpEnd, DecideSend, Lost, ViewOnDisconnect, Connect,
           RecvBitfield, RecvHave, swarmVars
  <2> QED
    BY <2>1, <2>3, <2>4, <2>5, <2>6, <2>7
<1>4. piece' \in [Pieces -> {"wanted", "verifying", "verified"}]
  <2>1. ASSUME NEW i \in Pieces, MarkVerifying(i) \/ MarkVerified(i) \/ Reset(i)
        PROVE  piece' \in [Pieces -> {"wanted", "verifying", "verified"}]
    BY <2>1 DEF MarkVerifying, MarkVerified, Reset, Move, SwarmTypeOK
  <2>2. UNCHANGED piece \/ Verification
    BY DEF SwarmNext, Swarm, Pump, SendDone, SendFail, PumpBegin, PumpEnd, DecideSame, DecideSend,
           DecideDead, Lost, ViewOnDisconnect, Connect, RecvBitfield, RecvHave, swarmVars
  <2> QED
    BY <2>1, <2>2 DEF Verification, SwarmTypeOK
<1>5. /\ pump' \in {"idle", "interest"} /\ left' \subseteq Peers /\ cur' \in Peers \cup {NoPeer}
      /\ sig' \in Signatures /\ wanted' \subseteq Pieces /\ count' \in 0 .. Cardinality(Pieces)
  <2>1. CASE UNCHANGED pumpVars
    BY <2>1 DEF pumpVars, SwarmTypeOK
  <2>2. CASE PumpBegin
    <3>1. count' \in 0 .. Cardinality(Pieces)
      BY <2>2, CountsPieces DEF PumpBegin, Verified
    <3> QED
      BY <2>2, <3>1 DEF PumpBegin, Wanted, SwarmTypeOK
  <2>3. CASE SendDone \/ SendFail \/ PumpEnd
    BY <2>3, <1>z DEF SendDone, SendFail, PumpEnd, SwarmTypeOK
  <2>4. ASSUME NEW p \in Peers, DecideSame(p) \/ DecideSend(p) \/ Lost(p)
        PROVE  <1>5!:
    BY <2>4, <1>b, <1>s DEF DecideSame, DecideSend, Lost, SwarmTypeOK
  <2>5. ASSUME NEW d \in dead, DecideDead(d) PROVE <1>5!:
    BY <2>5 DEF DecideDead, SwarmTypeOK
  <2>6. \/ UNCHANGED pumpVars \/ PumpBegin \/ SendDone \/ SendFail \/ PumpEnd
        \/ \E p \in Peers : DecideSame(p) \/ DecideSend(p) \/ Lost(p)
        \/ \E d \in dead : DecideDead(d)
    BY DEF SwarmNext, Swarm, Pump, Verification, MarkVerifying, MarkVerified, Reset, Move,
           ViewOnDisconnect, Connect, RecvBitfield, RecvHave, swarmVars, pumpVars
  <2> QED
    BY <2>1, <2>2, <2>3, <2>4, <2>5, <2>6
<1>6. dead' \subseteq [peer : Peers, bits : SUBSET Pieces, amInterested : BOOLEAN]
  <2>1. ASSUME NEW p \in Peers, Lost(p)
        PROVE  dead' \subseteq [peer : Peers, bits : SUBSET Pieces, amInterested : BOOLEAN]
    <3> DEFINE Died(q) == [peer |-> q, bits |-> Bits(q), amInterested |-> amInterested[q]]
    <3>1. Died(p) \in [peer : Peers, bits : SUBSET Pieces, amInterested : BOOLEAN]
      BY <1>b
    <3>2. dead' \subseteq dead \cup {Died(p)}
      BY <2>1 DEF Lost
    <3> HIDE DEF Died
    <3> QED
      BY <3>1, <3>2 DEF SwarmTypeOK
  <2>2. dead' \subseteq dead \/ \E p \in Peers : Lost(p)
    BY DEF SwarmNext, Swarm, Pump, Verification, MarkVerifying, MarkVerified, Reset, Move, SendDone,
           SendFail, PumpBegin, PumpEnd, DecideSame, DecideSend, DecideDead, ViewOnDisconnect,
           Connect, RecvBitfield, RecvHave, swarmVars, pumpVars
  <2> QED
    BY <2>1, <2>2 DEF SwarmTypeOK
<1> QED
  BY <1>1, <1>2, <1>3, <1>4, <1>5, <1>6 DEF SwarmTypeOK

-----------------------------------------------------------------------------
(* The upload queues.                                                       *)

(* What is true of each queue while h is what we have.                      *)
Fine(q, h) ==
  /\ q \in Seq(Offered) /\ Len(q) <= MaxRequests
  /\ \A i \in 1 .. Len(q) : q[i] \in h
  /\ \A i, j \in 1 .. Len(q) : q[i] = q[j] => i = j

UpInv ==
  /\ attached \subseteq Leechers /\ tracked \subseteq Leechers /\ have \subseteq Offered
  /\ queues \in [Leechers -> Seq(Offered)]
  /\ \A p \in Leechers : queues[p] # << >> => p \in tracked
  /\ \A p \in Leechers : Fine(queues[p], have)

LEMMA EmptyIsFine == ASSUME UploadAssumption, NEW h PROVE Fine(<< >>, h)
<1>1. << >> \in Seq(Offered) /\ Len(<< >>) = 0
  BY EmptySeq
<1> QED
  BY <1>1 DEF Fine, UploadAssumption

LEMMA AppendIsFine ==
  ASSUME UploadAssumption, NEW h, NEW q, Fine(q, h), Len(q) < MaxRequests,
         NEW b \in Offered, b \in h, b \notin Listed(q)
  PROVE  Fine(Append(q, b), h)
<1> DEFINE r == Append(q, b)
<1>1. q \in Seq(Offered) /\ Len(q) \in Nat
  BY LenProperties DEF Fine
<1>2. /\ r \in Seq(Offered) /\ Len(r) = Len(q) + 1
      /\ \A i \in 1 .. Len(r) : r[i] = IF i = Len(q) + 1 THEN b ELSE q[i]
  BY <1>1, AppendProperties
<1>3. \A i \in 1 .. Len(q) : q[i] # b
  BY <1>1, LenProperties DEF Listed
<1> HIDE DEF r
<1> QED
  BY <1>1, <1>2, <1>3 DEF Fine, UploadAssumption

LEMMA SuffixIsFine ==
  ASSUME UploadAssumption, NEW h, NEW q, Fine(q, h), NEW m \in 1 .. Len(q) + 1
  PROVE  Fine(SubSeq(q, m, Len(q)), h)
<1> DEFINE r == SubSeq(q, m, Len(q))
<1>1. q \in Seq(Offered) /\ Len(q) \in Nat /\ m \in Int
  BY LenProperties DEF Fine
<1>2. \A i \in m .. Len(q) : q[i] \in Offered
  BY <1>1, ElementOfSeq
<1>3. /\ r \in Seq(Offered) /\ Len(r) = Len(q) - m + 1
      /\ \A i \in 1 .. Len(r) : r[i] = q[m + i - 1]
  BY <1>1, <1>2, SubSeqProperties
<1> HIDE DEF r
<1>4. \A i \in 1 .. Len(r) : m + i - 1 \in 1 .. Len(q)
  BY <1>1, <1>3
<1>5. Len(r) <= MaxRequests
  BY <1>1, <1>3 DEF Fine, UploadAssumption
<1>6. \A i \in 1 .. Len(r) : r[i] \in h
  BY <1>3, <1>4 DEF Fine
<1>7. ASSUME NEW i \in 1 .. Len(r), NEW j \in 1 .. Len(r), r[i] = r[j] PROVE i = j
  <2>1. q[m + i - 1] = q[m + j - 1]
    BY <1>3, <1>7
  <2>2. m + i - 1 = m + j - 1
    BY <1>4, <2>1 DEF Fine
  <2> QED
    BY <1>1, <2>2
<1>8. Fine(r, h)
  BY <1>3, <1>5, <1>6, <1>7 DEF Fine
<1> QED
  BY <1>8 DEF r

LEMMA RemovedIsFine ==
  ASSUME UploadAssumption, NEW h, NEW q, Fine(q, h), NEW k \in 1 .. Len(q)
  PROVE  Fine(RemoveAt(q, k), h)
<1> DEFINE f == SubSeq(q, 1, k - 1)
           g == SubSeq(q, k + 1, Len(q))
           r == f \o g
<1>1. q \in Seq(Offered) /\ Len(q) \in Nat /\ k \in Int
  BY LenProperties DEF Fine
<1>2. \A i \in 1 .. Len(q) : q[i] \in Offered
  BY <1>1, ElementOfSeq
<1>3. /\ f \in Seq(Offered) /\ Len(f) = k - 1
      /\ \A i \in 1 .. k - 1 : f[i] = q[i]
  BY <1>1, <1>2, SubSeqProperties
<1>4. /\ g \in Seq(Offered) /\ Len(g) = Len(q) - k
      /\ \A i \in 1 .. Len(q) - k : g[i] = q[k + i]
  BY <1>1, <1>2, SubSeqProperties
<1> HIDE DEF f, g
<1>5. /\ r \in Seq(Offered) /\ Len(r) = Len(f) + Len(g)
      /\ \A i \in 1 .. Len(f) + Len(g) : r[i] = IF i <= Len(f) THEN f[i] ELSE g[i - Len(f)]
  BY <1>3, <1>4, ConcatProperties
<1> HIDE DEF r
<1>6. Len(r) = Len(q) - 1 /\ \A i \in 1 .. Len(r) : r[i] = IF i < k THEN q[i] ELSE q[i + 1]
  <2>1. Len(r) = Len(q) - 1
    BY <1>1, <1>3, <1>4, <1>5
  <2>2. ASSUME NEW i \in 1 .. Len(r) PROVE r[i] = IF i < k THEN q[i] ELSE q[i + 1]
    <3>1. i \in 1 .. Len(f) + Len(g) /\ Len(f) = k - 1 /\ Len(g) = Len(q) - k
      BY <1>1, <1>3, <1>4, <1>5
    <3>2. CASE i < k
      <4>1. i \in 1 .. k - 1
        BY <1>1, <3>1, <3>2
      <4> QED
        BY <1>3, <1>5, <3>1, <3>2, <4>1
    <3>3. CASE ~(i < k)
      <4>1. i - Len(f) \in 1 .. Len(q) - k /\ k + (i - Len(f)) = i + 1 /\ ~(i <= Len(f))
        BY <1>1, <3>1, <3>3
      <4>2. r[i] = g[i - Len(f)]
        BY <1>5, <3>1, <4>1
      <4> QED
        BY <1>4, <3>3, <4>1, <4>2
    <3> QED
      BY <3>2, <3>3
  <2> QED
    BY <2>1, <2>2
<1>7. \A i \in 1 .. Len(r) : i \in 1 .. Len(q) /\ i + 1 \in 1 .. Len(q)
  BY <1>1, <1>6
<1>8. Len(r) <= MaxRequests /\ \A i \in 1 .. Len(r) : r[i] \in h
  BY <1>1, <1>6, <1>7 DEF Fine, UploadAssumption
<1>9. ASSUME NEW i \in 1 .. Len(r), NEW j \in 1 .. Len(r), r[i] = r[j] PROVE i = j
  <2>1. \A x, y \in 1 .. Len(q) : q[x] = q[y] => x = y
    BY DEF Fine
  <2>2. CASE i < k /\ j < k
    BY <1>6, <1>7, <1>9, <2>1, <2>2
  <2>3. CASE i < k /\ ~(j < k)
    <3>1. q[i] = q[j + 1]
      BY <1>6, <1>9, <2>3
    <3>2. i = j + 1
      BY <1>7, <2>1, <3>1
    <3> QED
      BY <1>1, <2>3, <3>2
  <2>4. CASE ~(i < k) /\ j < k
    <3>1. q[i + 1] = q[j]
      BY <1>6, <1>9, <2>4
    <3>2. i + 1 = j
      BY <1>7, <2>1, <3>1
    <3> QED
      BY <1>1, <2>4, <3>2
  <2>5. CASE ~(i < k) /\ ~(j < k)
    <3>1. q[i + 1] = q[j + 1]
      BY <1>6, <1>9, <2>5
    <3>2. i + 1 = j + 1
      BY <1>7, <2>1, <3>1
    <3> QED
      BY <3>2
  <2> QED
    BY <2>2, <2>3, <2>4, <2>5
<1>10. Fine(r, h)
  BY <1>5, <1>8, <1>9 DEF Fine
<1> QED
  BY <1>10 DEF RemoveAt, r, f, g

(* What an action may do to the queues: they stay as they are, or are       *)
(* emptied for peers that are no longer tracked, or one of them changes.    *)
LEMMA QueuesStay ==
  ASSUME UploadAssumption, UpInv, UNCHANGED queues, tracked \subseteq tracked', have \subseteq have',
         attached' \subseteq Leechers, tracked' \subseteq Leechers, have' \subseteq Offered
  PROVE  UpInv'
<1>1. \A p \in Leechers : Fine(queues'[p], have')
  BY DEF UpInv, Fine
<1> QED
  BY <1>1 DEF UpInv

LEMMA OneQueueChanges ==
  ASSUME UploadAssumption, UpInv, UNCHANGED <<attached, have>>, tracked \subseteq tracked',
         tracked' \subseteq Leechers,
         NEW p \in Leechers, NEW q, Fine(q, have), q # << >> => p \in tracked',
         queues' = [queues EXCEPT ![p] = q]
  PROVE  UpInv'
<1>1. \A x \in Leechers : queues'[x] = IF x = p THEN q ELSE queues[x]
  BY DEF UpInv
<1>2. queues' \in [Leechers -> Seq(Offered)]
  BY DEF UpInv, Fine
<1>3. \A x \in Leechers : Fine(queues'[x], have')
  BY <1>1 DEF UpInv
<1>4. \A x \in Leechers : queues'[x] # << >> => x \in tracked'
  BY <1>1 DEF UpInv
<1> QED
  BY <1>2, <1>3, <1>4 DEF UpInv

LEMMA QueuesEmptied ==
  ASSUME UploadAssumption, UpInv, UNCHANGED <<attached, have>>, NEW P, tracked' \subseteq Leechers,
         tracked \ P \subseteq tracked',
         queues' = [p \in Leechers |-> IF p \in P THEN << >> ELSE queues[p]]
  PROVE  UpInv'
<1>1. << >> \in Seq(Offered)
  BY EmptySeq
<1>2. queues' \in [Leechers -> Seq(Offered)]
  BY <1>1 DEF UpInv
<1>3. \A x \in Leechers : Fine(queues'[x], have')
  BY EmptyIsFine DEF UpInv
<1>4. \A x \in Leechers : queues'[x] # << >> => x \in tracked'
  BY DEF UpInv
<1> QED
  BY <1>2, <1>3, <1>4 DEF UpInv

LEMMA UpInvStep ==
  ASSUME UploadAssumption, UpInv, [UpNext]_uploadVars
  PROVE  UpInv'
<1>t. /\ attached \subseteq Leechers /\ tracked \subseteq Leechers /\ have \subseteq Offered
      /\ queues \in [Leechers -> Seq(Offered)]
      /\ \A p \in Leechers : queues[p] # << >> => p \in tracked
      /\ \A p \in Leechers : Fine(queues[p], have)
  BY DEF UpInv
<1>1. CASE UNCHANGED uploadVars
  BY <1>1, <1>t, QueuesStay DEF uploadVars, peerVars
<1>2. CASE StartUpload \/ StopUpload \/ IntervalOver \/ TellNext \/ TellAborts \/ Told \/ Sent \/ RoundEnd
  BY <1>2, <1>t, QueuesStay
     DEF StartUpload, StopUpload, IntervalOver, TellNext, TellAborts, Told, Sent, RoundEnd, peerVars
<1>3. CASE PassBegin
  BY <1>3, <1>t, QueuesEmptied DEF PassBegin, peerVars
<1>4. CASE ServeBegin
  <2>1. PICK kept \in [Leechers -> 0 .. MaxRequests] :
          /\ \A p \in Leechers : kept[p] <= Len(queues[p])
          /\ queues' = [p \in Leechers |->
                          SubSeq(queues[p], Len(queues[p]) - kept[p] + 1, Len(queues[p]))]
    BY <1>4 DEF ServeBegin
  <2>2. UNCHANGED <<attached, tracked, have>>
    BY <1>4 DEF ServeBegin, peerVars
  <2>3. ASSUME NEW p \in Leechers
        PROVE  Fine(queues'[p], have) /\ (queues'[p] # << >> => queues[p] # << >>)
    <3> DEFINE m == Len(queues[p]) - kept[p] + 1
    <3>1. queues[p] \in Seq(Offered) /\ Len(queues[p]) \in Nat /\ kept[p] \in Nat
      BY <1>t, LenProperties DEF UploadAssumption
    <3>2. m \in 1 .. Len(queues[p]) + 1
      BY <2>1, <3>1
    <3>3. queues'[p] = SubSeq(queues[p], m, Len(queues[p]))
      BY <2>1
    <3> HIDE DEF m
    <3>4. Fine(queues'[p], have)
      BY <1>t, <3>2, <3>3, SuffixIsFine
    <3>5. ASSUME queues[p] = << >> PROVE queues'[p] = << >>
      BY <3>1, <3>2, <3>3, <3>5, SubSeqEmpty, EmptySeq
    <3> QED
      BY <3>4, <3>5
  <2>4. queues' \in [Leechers -> Seq(Offered)]
    BY <2>1, <2>3 DEF Fine
  <2> QED
    BY <1>t, <2>2, <2>3, <2>4 DEF UpInv
<1>5. ASSUME NEW p \in Leechers, Attach(p) \/ Interest(p) \/ Detach(p)
      PROVE  UpInv'
  BY <1>5, <1>t, QueuesStay DEF Attach, Interest, Detach
<1>6. ASSUME NEW p \in Leechers, Reaped(p)
      PROVE  UpInv'
  BY <1>6, <1>t, QueuesEmptied DEF Reaped, OnDisconnect, peerVars
<1>7. ASSUME NEW p \in Leechers, Serve(p)
      PROVE  UpInv'
  <2>1. UNCHANGED <<attached, have, tracked>>
    BY <1>7 DEF Serve, peerVars
  <2>2. CASE UNCHANGED queues
    BY <1>t, <2>1, <2>2, QueuesStay
  <2>3. CASE queues[p] # << >> /\ queues' = [queues EXCEPT ![p] = Tail(@)]
    <3>1. /\ queues[p] \in Seq(Offered) /\ Len(queues[p]) \in Nat \ {0}
          /\ Tail(queues[p]) = SubSeq(queues[p], 2, Len(queues[p]))
      BY <1>t, <2>3, EmptySeq, TailIsSubSeq
    <3>2. 2 \in 1 .. Len(queues[p]) + 1
      BY <3>1
    <3>3. Fine(Tail(queues[p]), have)
      BY <1>t, <3>1, <3>2, SuffixIsFine
    <3> QED
      BY <1>t, <2>1, <2>3, <3>3, OneQueueChanges
  <2> QED
    BY <1>7, <2>2, <2>3 DEF Serve
<1>8. ASSUME NEW p \in Leechers, NEW b \in Offered, OnRequest(p, b)
      PROVE  UpInv'
  <2>1. UNCHANGED <<attached, have>> /\ tracked' = tracked \cup {p}
    BY <1>8 DEF OnRequest, Track, peerVars
  <2>2. CASE UNCHANGED queues
    BY <1>t, <2>1, <2>2, QueuesStay
  <2>3. CASE /\ b \in have /\ Len(queues[p]) < MaxRequests /\ b \notin Listed(queues[p])
             /\ queues' = [queues EXCEPT ![p] = Append(@, b)]
    <3>1. Fine(Append(queues[p], b), have)
      BY <1>t, <2>3, AppendIsFine
    <3> QED
      BY <1>t, <2>1, <2>3, <3>1, OneQueueChanges
  <2> QED
    BY <1>8, <2>2, <2>3 DEF OnRequest
<1>9. ASSUME NEW p \in Leechers, NEW b \in Offered, OnCancel(p, b)
      PROVE  UpInv'
  <2>1. UNCHANGED <<attached, have, tracked>>
    BY <1>9 DEF OnCancel, peerVars
  <2>2. queues[p] \in Seq(Offered) /\ DOMAIN queues[p] = 1 .. Len(queues[p]) /\ Len(queues[p]) \in Nat
    BY <1>t, LenProperties
  <2>3. PICK i \in DOMAIN queues[p] : queues' = [queues EXCEPT ![p] = RemoveAt(@, i)]
    BY <1>9 DEF OnCancel
  <2>4. Fine(RemoveAt(queues[p], i), have)
    BY <1>t, <2>2, <2>3, RemovedIsFine
  <2>5. queues[p] # << >>
    BY <2>2, <2>3, EmptySeq
  <2> QED
    BY <1>t, <2>1, <2>3, <2>4, <2>5, OneQueueChanges
<1>10. ASSUME NEW b \in Offered, NotePieceVerified(b)
       PROVE  UpInv'
  BY <1>10, <1>t, QueuesStay DEF NotePieceVerified
<1>11. ASSUME NEW d \in delayed, DelayedSent(d)
       PROVE  UpInv'
  BY <1>11, <1>t, QueuesStay DEF DelayedSent, peerVars
<1> QED
  BY <1>1, <1>2, <1>3, <1>4, <1>5, <1>6, <1>7, <1>8, <1>9, <1>10, <1>11 DEF UpNext

LEMMA UpInvInit ==
  ASSUME UploadAssumption, UpInit
  PROVE  UpInv
BY EmptySeq, EmptyIsFine DEF UpInit, UpInv

LEMMA QueuesMean ==
  ASSUME UpInv
  PROVE  QueuedIsTracked /\ QueuedOnce
BY LenProperties DEF UpInv, Fine, QueuedIsTracked, QueuedOnce, Listed

(* Every queue UploadManager keeps belongs to a peer it tracks, is within   *)
(* its limit, and holds blocks we have, none of them twice, whatever is     *)
(* asked, taken back, served or dropped while the task awaits.              *)
THEOREM QueuedIsTrackedAlways ==
  ASSUME UploadAssumption
  PROVE  UpSpec => [](QueuedIsTracked /\ QueuedOnce)
<1>1. UpInit => UpInv
  BY UpInvInit
<1>2. UpInv /\ [UpNext]_uploadVars => UpInv'
  BY UpInvStep
<1>3. UpInv => QueuedIsTracked /\ QueuedOnce
  BY QueuesMean
<1> QED
  BY <1>1, <1>2, <1>3, PTL DEF UpSpec

-----------------------------------------------------------------------------
(* Types and sends of the upload side.                                      *)

(* A set of numbers has a least one.                                        *)
LEMMA MinIsLeast ==
  ASSUME NEW S \in SUBSET Nat, S # {}
  PROVE  Min(S) \in S /\ \A n \in S : Min(S) <= n
<1>1. PICK m \in S : \A n \in S : ~(<<n, m>> \in OpToRel(<, Nat))
  BY WFMin, NatLessThanWellFounded
<1>2. \A n \in S : m <= n
  <2> SUFFICES ASSUME NEW n \in S, n < m PROVE FALSE
    OBVIOUS
  <2>1. <<n, m>> \in OpToRel(<, Nat)
    BY Zenon DEF OpToRel
  <2> QED
    BY <1>1, <2>1
<1> QED
  BY <1>2 DEF Min

(* Turns counted from the least are numbers, and no more than they were.    *)
LEMMA FromLeastFits ==
  ASSUME NEW t \in [Leechers -> Nat], \A p \in Leechers : t[p] <= MaxTurns, MaxTurns \in Nat,
         NEW P \in SUBSET Leechers
  PROVE  FromLeast(t, P) \in [Leechers -> 0 .. MaxTurns]
<1> SUFFICES ASSUME NEW p \in Leechers
             PROVE  (IF p \in P THEN t[p] - Min({t[q] : q \in P}) ELSE 0) \in 0 .. MaxTurns
  BY DEF FromLeast
<1> DEFINE S == {t[q] : q \in P}
<1>1. CASE p \in P
  <2>1. S \in SUBSET Nat /\ t[p] \in S /\ S # {}
    BY <1>1
  <2> DEFINE m == Min(S)
  <2>2. m \in Nat /\ m <= t[p]
    BY <2>1, MinIsLeast
  <2>3. t[p] \in Nat /\ t[p] <= MaxTurns
    OBVIOUS
  <2> HIDE DEF m
  <2>4. t[p] - m \in 0 .. MaxTurns
    BY <2>2, <2>3
  <2> QED
    BY <1>1, <2>4 DEF m
<1>2. CASE p \notin P
  BY <1>2
<1> QED
  BY <1>1, <1>2

(* One more turn keeps within the bound.                                    *)
LEMMA TurnFits ==
  ASSUME UploadAssumption, turns \in [Leechers -> 0 .. MaxTurns], NEW p \in Leechers
  PROVE  Turn(p) \in [Leechers -> 0 .. MaxTurns]
<1>1. MaxTurns \in Nat
  BY DEF UploadAssumption
<1>2. CASE turns[p] < MaxTurns
  <2>1. turns[p] + 1 \in 0 .. MaxTurns
    BY <1>1, <1>2
  <2> QED
    BY <1>2, <2>1 DEF Turn
<1>3. CASE ~(turns[p] < MaxTurns)
  <2>1. \A q \in Leechers : (IF q = p \/ turns[q] = 0 THEN turns[q] ELSE turns[q] - 1) \in 0 .. MaxTurns
    BY <1>1
  <2> QED
    BY <1>3, <2>1 DEF Turn
<1> QED
  BY <1>2, <1>3

LEMMA EvaluateTypes ==
  ASSUME UploadAssumption, UpTypeOK, Evaluate(attached)
  PROVE  /\ allowed' \subseteq Leechers /\ optimistic' \in Leechers \cup {NoLeecher}
         /\ turns' \in [Leechers -> 0 .. MaxTurns] /\ due' \in BOOLEAN
<1>1. /\ attached \in SUBSET Leechers /\ keen \subseteq Leechers
      /\ turns \in [Leechers -> 0 .. MaxTurns] /\ optimistic \in Leechers \cup {NoLeecher}
      /\ due \in BOOLEAN
  BY DEF UpTypeOK
<1> DEFINE wanted1 == keen \cap attached
<1>2. PICK R \in SUBSET wanted1 :
        /\ \/ optimistic' = NoLeecher /\ due' = FALSE /\ turns' = FromLeast(turns, attached)
           \/ UNCHANGED <<optimistic, due>> /\ turns' = FromLeast(turns, attached)
           \/ \E p \in Rotate(wanted1 \ R) :
                optimistic' = p /\ due' = FALSE /\ turns' = FromLeast(Turn(p), attached)
        /\ allowed' = R \cup ({optimistic'} \ {NoLeecher})
  BY DEF Evaluate
<1>3. ASSUME NEW t \in [Leechers -> 0 .. MaxTurns]
      PROVE  FromLeast(t, attached) \in [Leechers -> 0 .. MaxTurns]
  <2>1. MaxTurns \in Nat /\ t \in [Leechers -> Nat] /\ \A p \in Leechers : t[p] <= MaxTurns
    BY DEF UploadAssumption
  <2> QED
    BY <1>1, <2>1, FromLeastFits
<1>4. \A p \in Rotate(wanted1 \ R) :
        p \in Leechers /\ FromLeast(Turn(p), attached) \in [Leechers -> 0 .. MaxTurns]
  BY <1>1, <1>3, TurnFits DEF Rotate
<1>5. optimistic' \in Leechers \cup {NoLeecher} /\ due' \in BOOLEAN
      /\ turns' \in [Leechers -> 0 .. MaxTurns]
  BY <1>1, <1>2, <1>3, <1>4
<1>6. allowed' \subseteq Leechers
  BY <1>1, <1>2, <1>5
<1> QED
  BY <1>5, <1>6

(* A set of peers has no more elements than there are peers.                *)
LEMMA CountsLeechers ==
  ASSUME UploadAssumption, NEW S \in SUBSET Leechers
  PROVE  Cardinality(S) \in 0 .. Cardinality(Leechers)
<1>1. Cardinality(S) <= Cardinality(Leechers)
  BY FS_Subset DEF UploadAssumption
<1>2. Cardinality(S) \in Nat /\ Cardinality(Leechers) \in Nat
  BY FS_Subset, FS_CardinalityType DEF UploadAssumption
<1> QED
  BY <1>1, <1>2

LEMMA UpTypeInit ==
  ASSUME UploadAssumption, UpInit
  PROVE  UpTypeOK
<1>1. 0 \in 0 .. Cardinality(Leechers) /\ 0 \in 0 .. MaxTurns
  BY FS_CardinalityType DEF UploadAssumption
<1>2. queues \in [Leechers -> Seq(Offered)]
  BY EmptySeq DEF UpInit
<1>3. due \in BOOLEAN
  BY DEF UpInit
<1>4. progressed \in BOOLEAN
  BY DEF UpInit
<1> QED
  BY <1>1, <1>2, <1>3, <1>4 DEF UpInit, UpTypeOK

(* Every variable of the upload side keeps within its type, with what is    *)
(* known of the queues.                                                     *)
LEMMA UpTypeStep ==
  ASSUME UploadAssumption, UpTypeOK, UpInv', [UpNext]_uploadVars
  PROVE  UpTypeOK'
<1> USE DEF peerVars, policyVars, passVars
<1>1. /\ attached' \subseteq Leechers /\ tracked' \subseteq Leechers /\ have' \subseteq Offered
      /\ queues' \in [Leechers -> Seq(Offered)]
  BY DEF UpInv
<1>t. /\ attached \subseteq Leechers /\ keen \subseteq Leechers
      /\ choking \subseteq Leechers /\ tracked \subseteq Leechers
      /\ queues \in [Leechers -> Seq(Offered)]
      /\ allowed \subseteq Leechers /\ optimistic \in Leechers \cup {NoLeecher}
      /\ turns \in [Leechers -> 0 .. MaxTurns]
      /\ have \subseteq Offered /\ told \in [Leechers -> SUBSET Offered]
      /\ todo \subseteq Leechers /\ size \in 0 .. Cardinality(Leechers)
      /\ delayed \subseteq Leechers \X Offered
      /\ asked \subseteq Leechers \X Offered
  BY DEF UpTypeOK
<1>b. due \in BOOLEAN /\ progressed \in BOOLEAN
  BY DEF UpTypeOK
<1>z. 0 \in 0 .. Cardinality(Leechers) /\ 0 \in 0 .. MaxTurns
  BY FS_CardinalityType DEF UploadAssumption
<1> DEFINE Own == \E p \in Leechers : \/ Attach(p) \/ Interest(p) \/ Detach(p) \/ Reaped(p)
                                      \/ \E b \in Offered : OnRequest(p, b) \/ OnCancel(p, b)
           Rest == \/ UNCHANGED uploadVars \/ \E d \in delayed : DelayedSent(d)
                   \/ \E b \in Offered : NotePieceVerified(b)
           Calm == StartUpload \/ StopUpload \/ IntervalOver \/ TellNext \/ TellAborts
                   \/ Sent \/ RoundEnd
           Loop == Told \/ PassBegin \/ ServeBegin \/ \E p \in Leechers : Serve(p)
<1>n. Own \/ Rest \/ Calm \/ Loop
  BY DEF UpNext
<1>2. keen' \subseteq Leechers /\ choking' \subseteq Leechers /\ told' \in [Leechers -> SUBSET Offered]
      /\ asked' \subseteq Leechers \X Offered
  <2>1. ASSUME NEW p \in Leechers, Attach(p) \/ Interest(p) \/ Detach(p) \/ Reaped(p)
        PROVE  <1>2!:
    BY <2>1, <1>t DEF Attach, Interest, Detach, Reaped
  <2>6. ASSUME NEW p \in Leechers, NEW b \in Offered, OnRequest(p, b) \/ OnCancel(p, b)
        PROVE  <1>2!:
    BY <2>6, <1>t DEF OnRequest, OnCancel
  <2>2. CASE Rest
    BY <2>2, <1>t DEF uploadVars, DelayedSent, NotePieceVerified, BroadcastHave
  <2>3. CASE Calm
    BY <2>3, <1>t DEF StartUpload, StopUpload, IntervalOver, TellNext, TellAborts, Sent, RoundEnd
  <2>4. CASE PassBegin \/ ServeBegin \/ \E p \in Leechers : Serve(p)
    BY <2>4, <1>t DEF PassBegin, ServeBegin, Serve
  <2>5. CASE Told
    BY <2>5, <1>t DEF Told
  <2> QED
    BY <1>n, <2>1, <2>2, <2>3, <2>4, <2>5, <2>6
<1>3. /\ allowed' \subseteq Leechers /\ optimistic' \in Leechers \cup {NoLeecher}
      /\ turns' \in [Leechers -> 0 .. MaxTurns] /\ due' \in BOOLEAN
  <2>1. CASE PassBegin
    BY <2>1, EvaluateTypes DEF PassBegin
  <2>2. ASSUME NEW p \in Leechers, Reaped(p)
        PROVE  <1>3!:
    BY <2>2, <1>t, <1>b, <1>z DEF Reaped, OnDisconnect
  <2>3. CASE UNCHANGED policyVars
    BY <2>3, <1>t, <1>b
  <2>4. CASE IntervalOver
    BY <2>4, <1>t DEF IntervalOver
  <2>5. UNCHANGED policyVars \/ PassBegin \/ IntervalOver \/ \E p \in Leechers : Reaped(p)
    <3>1. Own => UNCHANGED policyVars \/ \E p \in Leechers : Reaped(p)
      BY DEF Attach, Interest, Detach, OnRequest, OnCancel
    <3>2. Rest => UNCHANGED policyVars
      BY DEF uploadVars, DelayedSent, NotePieceVerified
    <3>3. Calm => UNCHANGED policyVars \/ IntervalOver
      BY DEF StartUpload, StopUpload, TellNext, TellAborts, Sent, RoundEnd
    <3>4. Loop => UNCHANGED policyVars \/ PassBegin
      BY DEF ServeBegin, Told, Serve
    <3> QED
      BY <1>n, <3>1, <3>2, <3>3, <3>4
  <2> QED
    BY <2>1, <2>2, <2>3, <2>4, <2>5
<1>4. /\ pass' \in {"off", "idle", "telling", "choke", "serve", "sending"}
      /\ todo' \subseteq Leechers /\ size' \in 0 .. Cardinality(Leechers)
  <2>1. CASE Own
    BY <2>1, <1>t DEF Attach, Interest, Detach, Reaped, OnDisconnect, OnRequest, Track, OnCancel,
        UpTypeOK
  <2>2. CASE Rest
    BY <2>2, <1>t DEF uploadVars, DelayedSent, NotePieceVerified, UpTypeOK
  <2>3. CASE Calm
    BY <2>3, <1>t, <1>z
    DEF StartUpload, StopUpload, IntervalOver, TellNext, TellAborts, Sent, RoundEnd, HasWork, UpTypeOK
  <2>4. CASE Loop
    <3>1. CASE PassBegin
      BY <3>1, <1>t, CountsLeechers DEF PassBegin
    <3>2. CASE Told \/ ServeBegin \/ \E p \in Leechers : Serve(p)
      BY <3>2, <1>t, <1>z DEF Told, ServeBegin, Serve, UpTypeOK
    <3> QED
      BY <2>4, <3>1, <3>2
  <2> QED
    BY <1>n, <2>1, <2>2, <2>3, <2>4
<1>5. progressed' \in BOOLEAN
  <2>1. CASE Own
    BY <2>1, <1>b DEF Attach, Interest, Detach, Reaped, OnRequest, OnCancel
  <2>2. CASE Rest
    BY <2>2, <1>b DEF uploadVars, DelayedSent, NotePieceVerified
  <2>3. CASE Calm
    BY <2>3, <1>b DEF StartUpload, StopUpload, IntervalOver, TellNext, TellAborts, Sent, RoundEnd
  <2>4. CASE Loop
    BY <2>4, <1>b DEF Told, PassBegin, ServeBegin, Serve
  <2> QED
    BY <1>n, <2>1, <2>2, <2>3, <2>4
<1>6. delayed' \subseteq Leechers \X Offered
  <2>1. CASE Own
    BY <2>1, <1>t DEF Attach, Interest, Detach, Reaped, OnRequest, OnCancel
  <2>2. CASE Rest
    BY <2>2, <1>t DEF uploadVars, DelayedSent, NotePieceVerified
  <2>3. CASE Calm
    BY <2>3, <1>t DEF StartUpload, StopUpload, IntervalOver, TellNext, TellAborts, Sent, RoundEnd
  <2>4. CASE Told \/ PassBegin \/ ServeBegin
    BY <2>4, <1>t DEF Told, PassBegin, ServeBegin
  <2>5. ASSUME NEW p \in Leechers, Serve(p) PROVE delayed' \subseteq Leechers \X Offered
    <3>1. CASE UNCHANGED delayed
      BY <1>t, <3>1
    <3>2. CASE queues[p] # << >> /\ delayed' = delayed \cup {<<p, Head(queues[p])>>}
      <4>1. Head(queues[p]) \in Offered
        BY <1>t, <3>2
      <4> QED
        BY <1>t, <3>2, <4>1
    <3> QED
      BY <2>5, <3>1, <3>2 DEF Serve
  <2> QED
    BY <1>n, <2>1, <2>2, <2>3, <2>4, <2>5
<1> QED
  BY <1>1, <1>2, <1>3, <1>4, <1>5, <1>6 DEF UpTypeOK

LEMMA SendsInit == UpInit => SendsAreAllowed
BY DEF UpInit, SendsAreAllowed

LEMMA SendsStep ==
  ASSUME SendsAreAllowed, [UpNext]_uploadVars
  PROVE  SendsAreAllowed'
<1>1. CASE UNCHANGED <<pass, current, allowed>>
  BY <1>1 DEF SendsAreAllowed
<1>2. ASSUME NEW p \in Leechers, Serve(p) PROVE SendsAreAllowed'
  <2>1. \/ pass' # "sending"
        \/ p \in allowed /\ current'[1] = p
    BY <1>2 DEF Serve
  <2>2. UNCHANGED allowed
    BY <1>2 DEF Serve, policyVars
  <2> QED
    BY <2>1, <2>2 DEF SendsAreAllowed
<1>3. CASE pass' # "sending"
  BY <1>3 DEF SendsAreAllowed
<1>4. \/ UNCHANGED <<pass, current, allowed>>
      \/ pass' # "sending"
      \/ \E p \in Leechers : Serve(p)
  <2> DEFINE Calm == UNCHANGED <<pass, current, allowed>> \/ pass' # "sending"
  <2>1. UNCHANGED uploadVars => Calm
    BY DEF uploadVars, passVars, policyVars
  <2>2. StartUpload \/ StopUpload \/ IntervalOver \/ PassBegin \/ TellNext => Calm
    BY DEF StartUpload, StopUpload, IntervalOver, PassBegin, TellNext, passVars
  <2>3. TellAborts \/ Told \/ ServeBegin \/ Sent \/ RoundEnd => Calm
    BY DEF TellAborts, Told, ServeBegin, Sent, RoundEnd, policyVars
  <2>4. ASSUME NEW p \in Leechers PROVE Attach(p) \/ Interest(p) \/ Detach(p) \/ Reaped(p) => Calm
    BY DEF Attach, Interest, Detach, Reaped, policyVars, passVars
  <2>5. ASSUME NEW p \in Leechers, NEW b \in Offered PROVE OnRequest(p, b) \/ OnCancel(p, b) => Calm
    BY DEF OnRequest, OnCancel, policyVars, passVars
  <2>6. ASSUME NEW b \in Offered PROVE NotePieceVerified(b) => Calm
    BY DEF NotePieceVerified, policyVars, passVars
  <2>7. ASSUME NEW d \in delayed PROVE DelayedSent(d) => Calm
    BY DEF DelayedSent, policyVars, passVars
  <2> QED
    BY <2>1, <2>2, <2>3, <2>4, <2>5, <2>6, <2>7 DEF UpNext
<1> QED
  BY <1>1, <1>2, <1>3, <1>4

(* The decision in force when _serve_queues picks a request still allows    *)
(* its peer when the block has been read and goes out.                      *)
THEOREM SendsAreAllowedAlways == UpSpec => []SendsAreAllowed
<1>1. SendsAreAllowed /\ [UpNext]_uploadVars => SendsAreAllowed'
  BY SendsStep
<1> QED
  BY SendsInit, <1>1, PTL DEF UpSpec

-----------------------------------------------------------------------------
(* The rate limit.                                                          *)

(* Every block that was taken: when it goes out, if it has not yet.         *)
Scheduled == waiting \cup sent

Burst == MaxOf(Rate, MaxLength)

(* A debt is paid off by the last of the sends that were put off: no block  *)
(* is due later, and what was charged since a block, with what the bucket   *)
(* holds or owes, is earned between that block's time and the last update.  *)
PaceInv ==
  /\ PaceTypeOK
  /\ \A w \in waiting : w.at >= clock
  /\ ~Unlimited =>
       /\ \A x \in Scheduled :
            /\ x.turn < taken
            /\ x.at <= updated \/ x.at <= updated - tokens
            /\ (charged - x.before) + tokens <= Burst + (updated - x.at)
       /\ \A x, y \in Scheduled : x.turn <= y.turn =>
            /\ x.at <= y.at
            /\ (y.before + y.length) - x.before <= Burst + (y.at - x.at)

LEMMA PaceInvInit ==
  ASSUME PacingAssumption, PaceInit
  PROVE  PaceInv
BY DEF PacingAssumption, PaceInit, PaceInv, PaceTypeOK, Scheduled, Start

LEMMA BurstCovers ==
  ASSUME PacingAssumption
  PROVE  Burst \in Nat /\ Rate <= Burst /\ \A n \in Lengths : n \in Nat /\ n > 0 /\ n <= Burst
BY DEF PacingAssumption, Burst, MaxOf

LEMMA BlockFields ==
  ASSUME \A k \in Lengths : k \in Nat, NEW x \in Blocks
  PROVE  x.turn \in Nat /\ x.at \in Nat /\ x.before \in Nat /\ x.length \in Nat
BY DEF Blocks

LEMMA TakeKeeps ==
  ASSUME PacingAssumption, PaceInv, NEW n \in Lengths, Take(n)
  PROVE  PaceInv'
<1> DEFINE z == Block(clock + Delay(n, clock), n)
<1>a. /\ Rate \in Nat /\ MaxBlocks \in Nat /\ n \in Nat /\ n > 0
      /\ Burst \in Nat /\ Rate <= Burst /\ n <= Burst /\ clock \in Nat /\ updated \in Nat
      /\ updated <= clock /\ tokens \in Int /\ tokens <= Rate /\ taken \in Nat /\ charged \in Nat
      /\ taken < MaxBlocks
  BY BurstCovers DEF PacingAssumption, PaceInv, PaceTypeOK, Take, Start
<1>d. \A k \in Lengths : k \in Nat
  BY BurstCovers
<1>b. /\ taken' = taken + 1 /\ charged' = charged + n /\ clock' = clock
      /\ UNCHANGED waiting \/ waiting' = waiting \cup {z}
      /\ UNCHANGED sent \/ sent' = sent \cup {z}
      /\ Scheduled' = Scheduled \cup {z}
      /\ waiting' = waiting \/ Delay(n, clock) > 0
  <2>1. Delay(n, clock) \in Nat
    BY <1>a DEF Delay, Refilled, MinOf
  <2>2. CASE Delay(n, clock) > 0
    BY <2>2 DEF Take, Scheduled
  <2>3. CASE ~(Delay(n, clock) > 0)
    <3>1. Block(clock, n) = z
      BY <1>a, <2>1, <2>3
    <3> QED
      BY <2>3, <3>1 DEF Take, Scheduled
  <2> QED
    BY <2>2, <2>3 DEF Take
<1>c. /\ z.at = clock + Delay(n, clock) /\ z.length = n /\ z.turn = taken /\ z.before = charged
      /\ z \in Blocks /\ Delay(n, clock) \in Nat
  <2>1. Delay(n, clock) \in Nat
    BY <1>a DEF Delay, Refilled, MinOf
  <2> QED
    BY <1>a, <2>1 DEF Block, Blocks
<1> HIDE DEF z
<1>1. PaceTypeOK'
  <2>1. waiting' \subseteq Blocks /\ sent' \subseteq Blocks
    BY <1>b, <1>c DEF PaceInv, PaceTypeOK
  <2>2. tokens' \in Int /\ tokens' <= Rate /\ updated' \in 0 .. clock
    BY <1>a DEF Take, Balance, Refilled, MinOf
  <2> QED
    BY <1>a, <1>b, <2>1, <2>2 DEF PaceInv, PaceTypeOK
<1>2. \A w \in waiting' : w.at >= clock'
  BY <1>a, <1>b, <1>c DEF PaceInv
<1>3. ASSUME ~Unlimited
      PROVE  /\ \A x \in Scheduled' :
                  /\ x.turn < taken'
                  /\ x.at <= updated' \/ x.at <= updated' - tokens'
                  /\ (charged' - x.before) + tokens' <= Burst + (updated' - x.at)
             /\ \A x, y \in Scheduled' : x.turn <= y.turn =>
                  /\ x.at <= y.at
                  /\ (y.before + y.length) - x.before <= Burst + (y.at - x.at)
  <2> DEFINE R == Refilled(clock)
  <2>1. /\ R \in Int /\ R <= Rate /\ tokens <= R /\ R <= tokens + (clock - updated)
    BY <1>a DEF Refilled, MinOf
  <2>2. /\ tokens' = R - n /\ updated' = clock
        /\ z.at = IF R >= n THEN clock ELSE clock + (n - R)
    BY <1>3, <1>c, <1>a, <2>1 DEF Take, Balance, Delay
  <2> HIDE DEF R
  <2>3. ASSUME NEW x \in Scheduled
        PROVE  /\ x.turn \in Nat /\ x.at \in Nat /\ x.before \in Nat /\ x.length \in Nat
               /\ x.turn < taken
               /\ x.at <= updated \/ x.at <= updated - tokens
               /\ (charged - x.before) + tokens <= Burst + (updated - x.at)
    <3>1. x \in Blocks
      BY DEF PaceInv, PaceTypeOK, Scheduled
    <3>2. x.turn \in Nat /\ x.at \in Nat /\ x.before \in Nat /\ x.length \in Nat
      BY <1>d, <3>1, BlockFields
    <3> QED
      BY <1>3, <3>2 DEF PaceInv
  <2>4. \A x, y \in Scheduled : x.turn <= y.turn =>
          /\ x.at <= y.at
          /\ (y.before + y.length) - x.before <= Burst + (y.at - x.at)
    BY <1>3 DEF PaceInv
  <2>5. ASSUME NEW x \in Scheduled
        PROVE  /\ x.turn < taken'
               /\ x.at <= updated' \/ x.at <= updated' - tokens'
               /\ (charged' - x.before) + tokens' <= Burst + (updated' - x.at)
               /\ x.at <= z.at
               /\ (z.before + z.length) - x.before <= Burst + (z.at - x.at)
    BY <1>a, <1>b, <1>c, <2>1, <2>2, <2>3
  <2>6. /\ z.turn < taken'
        /\ z.at <= updated' \/ z.at <= updated' - tokens'
        /\ (charged' - z.before) + tokens' <= Burst + (updated' - z.at)
        /\ z.at <= z.at
        /\ (z.before + z.length) - z.before <= Burst + (z.at - z.at)
    BY <1>a, <1>b, <1>c, <2>1, <2>2
  <2>7. \A y \in Scheduled : ~(z.turn <= y.turn)
    BY <1>a, <1>c, <2>3
  <2> QED
    BY <1>b, <2>4, <2>5, <2>6, <2>7
<1>4. Burst' = Burst /\ Unlimited' = Unlimited
  BY DEF Burst, Unlimited
<1> QED
  BY <1>1, <1>2, <1>3, <1>4 DEF PaceInv

LEMMA PaceInvStep ==
  ASSUME PacingAssumption, PaceInv, [PaceNext]_paceVars
  PROVE  PaceInv'
<1>1. CASE UNCHANGED paceVars
  BY <1>1 DEF paceVars, PaceInv, PaceTypeOK, Scheduled
<1>2. ASSUME NEW n \in Lengths, Take(n) PROVE PaceInv'
  BY <1>2, TakeKeeps
<1>3. ASSUME NEW w \in waiting, SendLater(w) PROVE PaceInv'
  <2>1. w \in Blocks /\ w.at \in Nat /\ clock \in Nat
    BY DEF PaceInv, PaceTypeOK, Blocks, PacingAssumption, Start
  <2>2. w.at = clock
    BY <1>3, <2>1 DEF SendLater, PaceInv
  <2>3. [w EXCEPT !.at = clock] = w
    BY <2>1, <2>2 DEF Blocks
  <2>4. /\ UNCHANGED <<clock, tokens, updated, taken, charged>>
        /\ waiting' = waiting \ {w} /\ sent' = sent \cup {w}
    BY <1>3, <2>3 DEF SendLater
  <2>5. Scheduled' = Scheduled
    BY <2>4 DEF Scheduled
  <2>6. PaceTypeOK'
    BY <2>1, <2>4 DEF PaceInv, PaceTypeOK
  <2> QED
    BY <2>4, <2>5, <2>6 DEF PaceInv, Burst, Unlimited
<1>4. CASE Elapse
  <2>1. /\ clock' = clock + 1 /\ clock < Start + MaxClock
        /\ UNCHANGED <<tokens, updated, waiting, sent, taken, charged>>
        /\ \A w \in waiting : w.at > clock
    BY <1>4 DEF Elapse
  <2>2. clock' \in Start .. Start + MaxClock /\ updated' \in 0 .. clock'
    BY <2>1 DEF PaceInv, PaceTypeOK, PacingAssumption, Start
  <2>3. PaceTypeOK'
    BY <2>1, <2>2 DEF PaceInv, PaceTypeOK
  <2>4. \A w \in waiting' : w.at >= clock'
    BY <2>1 DEF PaceInv, PaceTypeOK, Blocks, PacingAssumption, Start
  <2> QED
    BY <2>1, <2>3, <2>4 DEF PaceInv, Burst, Unlimited, Scheduled
<1> QED
  BY <1>1, <1>2, <1>3, <1>4 DEF PaceNext

LEMMA PaceMeans ==
  ASSUME PaceInv
  PROVE  PaidFor
BY DEF PaceInv, PaidFor, Scheduled, Burst

(* However blocks of whatever lengths come and are put off, no stretch of   *)
(* sends exceeds what the limit earns in its time by more than the burst of *)
(* one full bucket, and no block overtakes another.                         *)
THEOREM PaidForAlways ==
  ASSUME PacingAssumption
  PROVE  PaceSpec => [](PaceTypeOK /\ PaidFor)
<1>1. PaceInit => PaceInv
  BY PaceInvInit
<1>2. PaceInv /\ [PaceNext]_paceVars => PaceInv'
  BY PaceInvStep
<1>3. PaceInv => PaceTypeOK /\ PaidFor
  BY PaceMeans DEF PaceInv
<1> QED
  BY <1>1, <1>2, <1>3, PTL DEF PaceSpec

-----------------------------------------------------------------------------
(* A connection: whoever closes it finds it over, and its end is told once, *)
(* with any number of callers of aclose and of messages.                    *)

Begun == InDial \cup {"new"}
Over == life = "over"

(* What has been announced, by where the task of the connection is.         *)
AnnouncedSoFar ==
  /\ life \in Begun => announced.connected = 0
  /\ life \in Begun \cup {"scheduled", "reading"} => announced.failed = 0
  /\ ~Over => announced.disconnected = 0
  /\ Known => announced.connected = 1

(* The keep-alive task is there once run has begun, and ends with it.       *)
KeepIsOfRun ==
  /\ life \in Begun \cup {"failed", "dropped", "scheduled"} => keep = "none"
  /\ life \in {"reading", "finishing", "hanging"} => keep # "none"
  /\ life \in {"hanging", "over"} => KeepEnded
  /\ Over /\ keep # "none" => announced.disconnected = 1

(* A task that raised had closed all there was to close.                    *)
RaisedIsClosed ==
  /\ life = "hanging" => sock = "closing"
  /\ outcome = "raised" => life \in {"finishing", "hanging", "over"}
  /\ Over /\ outcome = "raised" => sock = "closing" /\ sess = "closed" /\ closedEv
  /\ reaper # "none" => Over
  /\ (\E c \in Closers : closers[c] # "idle") => Known

WireInv == WireTypeOK /\ AnnouncedSoFar /\ KeepIsOfRun /\ RaisedIsClosed /\ ClosedIsOver

Events == {"connected", "failed", "disconnected"}

Flagged ==
  /\ cancelled \in BOOLEAN /\ closedEv \in BOOLEAN /\ bitfield \in BOOLEAN
  /\ keepHeld \in BOOLEAN /\ keepCut \in BOOLEAN

Placed ==
  /\ life \in InDial \cup {"new", "failed", "dropped", "scheduled", "reading", "finishing",
                          "hanging", "over"}
  /\ outcome \in {"none", "returned", "raised", "cancelled"}
  /\ sock \in {"none", "open", "closing"} /\ sess \in {"connecting", "connected", "closed"}
  /\ reaper \in {"none", "due", "reported", "raised"}

Counted ==
  /\ reason \in {"", "local", "peer", "idle", "broken", "unknown"}
  /\ keep \in {"none", "sleeping", "sending", "ended"}
  /\ closers \in [Closers -> {"idle", "both", "run", "done", "raised"}]
  /\ reads \in 0 .. Messages

LEMMA WireTypesAre == WireTypeOK <=> Flagged /\ Placed /\ Counted /\ announced \in [Events -> 0 .. 1]
BY DEF WireTypeOK, Flagged, Placed, Counted, Events

LEMMA WireInvStart ==
  ASSUME WireAssumption, WireInit
  PROVE  WireInv
<1>1. announced \in [Events -> 0 .. 1]
  <2>1. announced = [connected |-> 0, failed |-> 0, disconnected |-> 0]
    BY DEF WireInit
  <2>2. [connected |-> 0, failed |-> 0, disconnected |-> 0] \in [Events -> 0 .. 1]
    BY DEF Events
  <2> QED
    BY <2>1, <2>2
<1>2. Flagged
  BY DEF WireInit, Flagged
<1>3. Placed
  BY DEF WireInit, Placed, InDial
<1>5. Counted
  <2>1. Messages \in Nat
    BY DEF WireAssumption
  <2>2. closers = [c \in Closers |-> "idle"] /\ reads = 0 /\ reason = "" /\ keep = "none"
    BY DEF WireInit
  <2>3. closers \in [Closers -> {"idle", "both", "run", "done", "raised"}]
    BY <2>2
  <2>6. reads = 0
    BY <2>2
  <2>4. reads \in 0 .. Messages
    BY <2>1, <2>6
  <2> QED
    BY <2>2, <2>3, <2>4 DEF Counted
<1>4. WireTypeOK
  BY <1>1, <1>2, <1>3, <1>5, WireTypesAre
<1> QED
  BY <1>4 DEF WireInit, WireInv, AnnouncedSoFar, KeepIsOfRun, RaisedIsClosed, ClosedIsOver,
    Begun, InDial, Over, Known, KeepEnded

LEMMA AnnounceTold ==
  ASSUME announced \in [Events -> 0 .. 1], NEW event \in Events, announced[event] = 0, Announce(event)
  PROVE  /\ announced' \in [Events -> 0 .. 1] /\ announced'[event] = 1
         /\ \A other \in Events \ {event} : announced'[other] = announced[other]
BY DEF Announce

LEMMA WireInvStep ==
  ASSUME WireAssumption, WireInv, WireNext
  PROVE  WireInv'
<1> USE DEF runVars, keepVars, endVars
<1>1. /\ Flagged /\ Placed /\ Counted /\ announced \in [Events -> 0 .. 1]
      /\ AnnouncedSoFar /\ KeepIsOfRun /\ RaisedIsClosed /\ ClosedIsOver
  BY WireTypesAre DEF WireInv
<1>r. reads \in 0 .. Messages /\ Messages \in Nat
  BY <1>1 DEF WireAssumption, Counted
<1>0. Placed /\ Counted /\ Messages \in Nat /\ RaisedIsClosed
  BY <1>1 DEF WireAssumption
<1>2. /\ "connected" \in Events /\ "failed" \in Events /\ "disconnected" \in Events
      /\ "connected" # "failed" /\ "connected" # "disconnected" /\ "failed" # "disconnected"
  BY DEF Events
<1>3. ASSUME Flagged', Placed', Counted', (announced \in [Events -> 0 .. 1])',
             AnnouncedSoFar', KeepIsOfRun', RaisedIsClosed', ClosedIsOver'
      PROVE  WireInv'
  BY <1>3 DEF WireInv, WireTypeOK, Flagged, Placed, Counted, Events
<1>4. CASE DialBegins
  <2>1. Flagged'
    BY <1>1, <1>4 DEF DialBegins, Flagged
  <2>3. Placed' /\ announced' = announced
    BY <1>0, <1>4 DEF DialBegins, Placed, InDial
  <2>7. Counted'
    BY <1>0, <1>4 DEF DialBegins, Counted
  <2>2. AnnouncedSoFar' /\ KeepIsOfRun' /\ RaisedIsClosed' /\ ClosedIsOver'
    BY <1>1, <1>4 DEF DialBegins, AnnouncedSoFar, KeepIsOfRun, RaisedIsClosed, ClosedIsOver,
        Placed, Counted, Flagged,
      Begun, InDial, Over, Known, KeepEnded
  <2> QED
    BY <1>1, <1>3, <2>1, <2>2, <2>3, <2>7
<1>5. CASE Opened
  <2>1. Flagged'
    BY <1>1, <1>5 DEF Opened, Flagged
  <2>3. Placed' /\ announced' = announced
    BY <1>0, <1>5 DEF Opened, Placed, InDial
  <2>7. Counted'
    BY <1>0, <1>5 DEF Opened, Counted
  <2>2. AnnouncedSoFar' /\ KeepIsOfRun' /\ RaisedIsClosed' /\ ClosedIsOver'
    BY <1>1, <1>5 DEF Opened, AnnouncedSoFar, KeepIsOfRun, RaisedIsClosed, ClosedIsOver, Placed,
        Counted, Flagged,
      Begun, InDial, Over, Known, KeepEnded
  <2> QED
    BY <1>1, <1>3, <2>1, <2>2, <2>3, <2>7
<1>6. CASE DialFailed
  <2>1. announced["failed"] = 0
    BY <1>1, <1>6 DEF DialFailed, AnnouncedSoFar, Begun, InDial
  <2>2. \/ Announce("failed") /\ announced' \in [Events -> 0 .. 1] /\ announced'["failed"] = 1
             /\ \A other \in Events \ {"failed"} : announced'[other] = announced[other]
        \/ announced' = announced /\ life' = "offering"
    BY <1>1, <1>2, <1>6, <2>1, AnnounceTold DEF DialFailed
  <2>3. Flagged'
    BY <1>1, <1>6 DEF DialFailed, Flagged
  <2>6. Placed'
    BY <1>0, <1>6 DEF DialFailed, Placed, InDial
  <2>7. Counted'
    BY <1>0, <1>6 DEF DialFailed, Counted
  <2>4. AnnouncedSoFar'
    BY <1>1, <1>2, <1>6, <2>2 DEF DialFailed, AnnouncedSoFar, Placed, Counted, Flagged, Begun,
        InDial, Over, Known
  <2>5. KeepIsOfRun' /\ RaisedIsClosed' /\ ClosedIsOver'
    BY <1>1, <1>6, <2>2 DEF DialFailed, AnnouncedSoFar, KeepIsOfRun, RaisedIsClosed, ClosedIsOver,
        Placed, Counted, Flagged,
      Begun, InDial, Over, Known, KeepEnded
  <2> QED
    BY <1>1, <1>3, <2>2, <2>3, <2>4, <2>5, <2>6, <2>7
<1>7. CASE DialCancelled
  <2>1. Flagged'
    BY <1>1, <1>7 DEF DialCancelled, Flagged
  <2>3. Placed' /\ announced' = announced
    BY <1>0, <1>7 DEF DialCancelled, Placed, InDial
  <2>7. Counted'
    BY <1>0, <1>7 DEF DialCancelled, Counted
  <2>2. AnnouncedSoFar' /\ KeepIsOfRun' /\ RaisedIsClosed' /\ ClosedIsOver'
    BY <1>1, <1>7 DEF DialCancelled, AnnouncedSoFar, KeepIsOfRun, RaisedIsClosed, ClosedIsOver,
        Placed, Counted, Flagged,
      Begun, InDial, Over, Known, KeepEnded
  <2> QED
    BY <1>1, <1>3, <2>1, <2>2, <2>3, <2>7
<1>8. CASE Greeted
  <2>1. announced["connected"] = 0
    BY <1>1, <1>8 DEF Greeted, AnnouncedSoFar, Begun, InDial
  <2>2. \/ Announce("connected") /\ announced' \in [Events -> 0 .. 1] /\ announced'["connected"] = 1
             /\ \A other \in Events \ {"connected"} : announced'[other] = announced[other]
        \/ announced' = announced /\ life' = "offering"
    BY <1>1, <1>2, <1>8, <2>1, AnnounceTold DEF Greeted
  <2>3. Flagged'
    BY <1>1, <1>8 DEF Greeted, Flagged
  <2>6. Placed'
    BY <1>0, <1>8 DEF Greeted, Placed, InDial
  <2>7. Counted'
    BY <1>0, <1>8 DEF Greeted, Counted
  <2>4. AnnouncedSoFar'
    BY <1>1, <1>2, <1>8, <2>2 DEF Greeted, AnnouncedSoFar, Placed, Counted, Flagged, Begun,
        InDial, Over, Known
  <2>5. KeepIsOfRun' /\ RaisedIsClosed' /\ ClosedIsOver'
    BY <1>1, <1>8, <2>2 DEF Greeted, AnnouncedSoFar, KeepIsOfRun, RaisedIsClosed, ClosedIsOver,
        Placed, Counted, Flagged,
      Begun, InDial, Over, Known, KeepEnded
  <2> QED
    BY <1>1, <1>3, <2>2, <2>3, <2>4, <2>5, <2>6, <2>7
<1>9. CASE OfferSent
  <2>1. announced["connected"] = 0
    BY <1>1, <1>9 DEF OfferSent, AnnouncedSoFar, Begun, InDial
  <2>2. \/ Announce("connected") /\ announced' \in [Events -> 0 .. 1] /\ announced'["connected"] = 1
             /\ \A other \in Events \ {"connected"} : announced'[other] = announced[other]
        \/ announced' = announced /\ life' = "offering"
    BY <1>1, <1>2, <1>9, <2>1, AnnounceTold DEF OfferSent
  <2>3. Flagged'
    BY <1>1, <1>9 DEF OfferSent, Flagged
  <2>6. Placed'
    BY <1>0, <1>9 DEF OfferSent, Placed, InDial
  <2>7. Counted'
    BY <1>0, <1>9 DEF OfferSent, Counted
  <2>4. AnnouncedSoFar'
    BY <1>1, <1>2, <1>9, <2>2 DEF OfferSent, AnnouncedSoFar, Placed, Counted, Flagged, Begun,
        InDial, Over, Known
  <2>5. KeepIsOfRun' /\ RaisedIsClosed' /\ ClosedIsOver'
    BY <1>1, <1>9, <2>2 DEF OfferSent, AnnouncedSoFar, KeepIsOfRun, RaisedIsClosed, ClosedIsOver,
        Placed, Counted, Flagged,
      Begun, InDial, Over, Known, KeepEnded
  <2> QED
    BY <1>1, <1>3, <2>2, <2>3, <2>4, <2>5, <2>6, <2>7
<1>10. CASE RunBegins
  <2>1. Flagged'
    BY <1>1, <1>10 DEF RunBegins, Flagged
  <2>3. Placed' /\ announced' = announced
    BY <1>0, <1>10 DEF RunBegins, Placed, InDial
  <2>7. Counted'
    BY <1>0, <1>10 DEF RunBegins, Counted
  <2>2. AnnouncedSoFar' /\ KeepIsOfRun' /\ RaisedIsClosed' /\ ClosedIsOver'
    BY <1>1, <1>10 DEF RunBegins, AnnouncedSoFar, KeepIsOfRun, RaisedIsClosed, ClosedIsOver,
        Placed, Counted, Flagged,
      Begun, InDial, Over, Known, KeepEnded
  <2> QED
    BY <1>1, <1>3, <2>1, <2>2, <2>3, <2>7
<1>11. CASE RunNeverBegins
  <2>1. Flagged'
    BY <1>1, <1>11 DEF RunNeverBegins, Flagged
  <2>3. Placed' /\ announced' = announced
    BY <1>0, <1>11 DEF RunNeverBegins, Placed, InDial
  <2>7. Counted'
    BY <1>0, <1>11 DEF RunNeverBegins, Counted
  <2>2. AnnouncedSoFar' /\ KeepIsOfRun' /\ RaisedIsClosed' /\ ClosedIsOver'
    BY <1>1, <1>11 DEF RunNeverBegins, AnnouncedSoFar, KeepIsOfRun, RaisedIsClosed, ClosedIsOver,
        Placed, Counted, Flagged,
      Begun, InDial, Over, Known, KeepEnded
  <2> QED
    BY <1>1, <1>3, <2>1, <2>2, <2>3, <2>7
<1>12. CASE Handled
  <2>1. Flagged'
    BY <1>1, <1>12 DEF Handled, Reads, Reading, Flagged
  <2>3. Placed' /\ announced' = announced
    BY <1>0, <1>12 DEF Handled, Reads, Reading, Placed, InDial
  <2>7. Counted'
    <3>1. reads' \in 0 .. Messages
      <4>1. reads' = reads + 1 /\ reads < Messages
        BY <1>12 DEF Handled, Reads, Reading
      <4> QED
        BY <1>r, <4>1
    <3>2. reason' = reason /\ keep' = keep /\ closers' = closers
      BY <1>12 DEF Handled, Reads, Reading
    <3> QED
      BY <1>0, <3>1, <3>2 DEF Counted
  <2>2. AnnouncedSoFar' /\ KeepIsOfRun' /\ RaisedIsClosed' /\ ClosedIsOver'
    BY <1>1, <1>12 DEF Handled, Reads, Reading, AnnouncedSoFar, KeepIsOfRun, RaisedIsClosed,
        ClosedIsOver, Placed, Counted, Flagged,
      Begun, InDial, Over, Known, KeepEnded
  <2> QED
    BY <1>1, <1>3, <2>1, <2>2, <2>3, <2>7
<1>13. CASE Refused
  <2>1. announced["failed"] = 0
    BY <1>1, <1>13 DEF Refused, Reads, Reading, EndsWith, AnnouncedSoFar, Begun, InDial
  <2>2. \/ Announce("failed") /\ announced' \in [Events -> 0 .. 1] /\ announced'["failed"] = 1
             /\ \A other \in Events \ {"failed"} : announced'[other] = announced[other]
        \/ announced' = announced /\ life' = "offering"
    BY <1>1, <1>2, <1>13, <2>1, AnnounceTold DEF Refused, Reads, Reading, EndsWith
  <2>3. Flagged'
    BY <1>1, <1>13 DEF Refused, Reads, Reading, EndsWith, Flagged
  <2>6. Placed'
    BY <1>0, <1>13 DEF Refused, Reads, Reading, EndsWith, Placed, InDial
  <2>7. Counted'
    <3>1. reads' \in 0 .. Messages
      <4>1. reads' = reads + 1 /\ reads < Messages
        BY <1>13 DEF Refused, Reads, Reading, EndsWith
      <4> QED
        BY <1>r, <4>1
    <3>2. reason' = "broken" /\ keep' = keep /\ closers' = closers
      BY <1>13 DEF Refused, Reads, Reading, EndsWith
    <3> QED
      BY <1>0, <3>1, <3>2 DEF Counted
  <2>4. AnnouncedSoFar'
    BY <1>1, <1>2, <1>13, <2>2 DEF Refused, Reads, Reading, EndsWith, AnnouncedSoFar, Placed,
        Counted, Flagged, Begun, InDial, Over, Known
  <2>5. KeepIsOfRun' /\ RaisedIsClosed' /\ ClosedIsOver'
    BY <1>1, <1>13, <2>2 DEF Refused, Reads, Reading, EndsWith, AnnouncedSoFar, KeepIsOfRun,
        RaisedIsClosed, ClosedIsOver, Placed, Counted, Flagged,
      Begun, InDial, Over, Known, KeepEnded
  <2> QED
    BY <1>1, <1>3, <2>2, <2>3, <2>4, <2>5, <2>6, <2>7
<1>14. CASE HaveBeyond
  <2>1. Flagged'
    BY <1>1, <1>14 DEF HaveBeyond, Reads, Reading, EndsWith, Flagged
  <2>3. Placed' /\ announced' = announced
    BY <1>0, <1>14 DEF HaveBeyond, Reads, Reading, EndsWith, Placed, InDial
  <2>7. Counted'
    <3>1. reads' \in 0 .. Messages
      <4>1. reads' = reads + 1 /\ reads < Messages
        BY <1>14 DEF HaveBeyond, Reads, Reading, EndsWith
      <4> QED
        BY <1>r, <4>1
    <3>2. reason' = reason /\ keep' = keep /\ closers' = closers
      BY <1>14 DEF HaveBeyond, Reads, Reading, EndsWith
    <3> QED
      BY <1>0, <3>1, <3>2 DEF Counted
  <2>2. AnnouncedSoFar' /\ KeepIsOfRun' /\ RaisedIsClosed' /\ ClosedIsOver'
    BY <1>1, <1>14 DEF HaveBeyond, Reads, Reading, EndsWith, AnnouncedSoFar, KeepIsOfRun,
        RaisedIsClosed, ClosedIsOver, Placed, Counted, Flagged,
      Begun, InDial, Over, Known, KeepEnded
  <2> QED
    BY <1>1, <1>3, <2>1, <2>2, <2>3, <2>7
<1>15. CASE Hangup
  <2>1. Flagged'
    BY <1>1, <1>15 DEF Hangup, Reading, EndsWith, Flagged
  <2>3. Placed' /\ announced' = announced
    BY <1>0, <1>15 DEF Hangup, Reading, EndsWith, Placed, InDial
  <2>7. Counted'
    BY <1>0, <1>15 DEF Hangup, Reading, EndsWith, Counted
  <2>2. AnnouncedSoFar' /\ KeepIsOfRun' /\ RaisedIsClosed' /\ ClosedIsOver'
    BY <1>1, <1>15 DEF Hangup, Reading, EndsWith, AnnouncedSoFar, KeepIsOfRun, RaisedIsClosed,
        ClosedIsOver, Placed, Counted, Flagged,
      Begun, InDial, Over, Known, KeepEnded
  <2> QED
    BY <1>1, <1>3, <2>1, <2>2, <2>3, <2>7
<1>16. CASE RunCancelled
  <2>1. Flagged'
    BY <1>1, <1>16 DEF RunCancelled, EndsWith, Flagged
  <2>3. Placed' /\ announced' = announced
    BY <1>0, <1>16 DEF RunCancelled, EndsWith, Placed, InDial
  <2>7. Counted'
    BY <1>0, <1>16 DEF RunCancelled, EndsWith, Counted
  <2>2. AnnouncedSoFar' /\ KeepIsOfRun' /\ RaisedIsClosed' /\ ClosedIsOver'
    BY <1>1, <1>16 DEF RunCancelled, EndsWith, AnnouncedSoFar, KeepIsOfRun, RaisedIsClosed,
        ClosedIsOver, Placed, Counted, Flagged,
      Begun, InDial, Over, Known, KeepEnded
  <2> QED
    BY <1>1, <1>3, <2>1, <2>2, <2>3, <2>7
<1>17. CASE FinishTasks
  <2>1. Flagged'
    BY <1>1, <1>17 DEF FinishTasks, KeepEnded, Flagged
  <2>3. Placed' /\ announced' = announced
    BY <1>0, <1>17 DEF FinishTasks, KeepEnded, Placed, InDial
  <2>7. Counted'
    BY <1>0, <1>17 DEF FinishTasks, KeepEnded, Counted
  <2>2. AnnouncedSoFar' /\ KeepIsOfRun' /\ RaisedIsClosed' /\ ClosedIsOver'
    BY <1>1, <1>17 DEF FinishTasks, KeepEnded, AnnouncedSoFar, KeepIsOfRun, RaisedIsClosed,
        ClosedIsOver, Placed, Counted, Flagged,
      Begun, InDial, Over, Known, KeepEnded
  <2> QED
    BY <1>1, <1>3, <2>1, <2>2, <2>3, <2>7
<1>18. CASE FinishSocket
  <2>1. announced["disconnected"] = 0
    BY <1>1, <1>18 DEF FinishSocket, AnnouncedSoFar, Over
  <2>2. \/ Announce("disconnected") /\ announced' \in [Events -> 0 .. 1] /\ announced'["disconnected"] = 1
             /\ \A other \in Events \ {"disconnected"} : announced'[other] = announced[other]
        \/ announced' = announced /\ life' = "offering"
    BY <1>1, <1>2, <1>18, <2>1, AnnounceTold DEF FinishSocket
  <2>3. Flagged'
    BY <1>1, <1>18 DEF FinishSocket, Flagged
  <2>6. Placed'
    BY <1>0, <1>18 DEF FinishSocket, Placed, InDial
  <2>7. Counted'
    BY <1>0, <1>18 DEF FinishSocket, Counted
  <2>4. AnnouncedSoFar'
    BY <1>1, <1>2, <1>18, <2>2 DEF FinishSocket, AnnouncedSoFar, Placed, Counted, Flagged, Begun,
        InDial, Over, Known
  <2>5. KeepIsOfRun' /\ RaisedIsClosed' /\ ClosedIsOver'
    BY <1>1, <1>18, <2>2 DEF FinishSocket, AnnouncedSoFar, KeepIsOfRun, RaisedIsClosed,
        ClosedIsOver, Placed, Counted, Flagged,
      Begun, InDial, Over, Known, KeepEnded
  <2> QED
    BY <1>1, <1>3, <2>2, <2>3, <2>4, <2>5, <2>6, <2>7
<1>19. CASE KeepSends
  <2>1. Flagged'
    BY <1>1, <1>19 DEF KeepSends, Flagged
  <2>3. Placed' /\ announced' = announced
    BY <1>0, <1>19 DEF KeepSends, Placed, InDial
  <2>7. Counted'
    BY <1>0, <1>19 DEF KeepSends, Counted
  <2>2. AnnouncedSoFar' /\ KeepIsOfRun' /\ RaisedIsClosed' /\ ClosedIsOver'
    BY <1>1, <1>19 DEF KeepSends, AnnouncedSoFar, KeepIsOfRun, RaisedIsClosed, ClosedIsOver,
        Placed, Counted, Flagged,
      Begun, InDial, Over, Known, KeepEnded
  <2> QED
    BY <1>1, <1>3, <2>1, <2>2, <2>3, <2>7
<1>20. CASE KeepSent
  <2>1. Flagged'
    BY <1>1, <1>20 DEF KeepSent, Flagged
  <2>3. Placed' /\ announced' = announced
    BY <1>0, <1>20 DEF KeepSent, Placed, InDial
  <2>7. Counted'
    BY <1>0, <1>20 DEF KeepSent, Counted
  <2>2. AnnouncedSoFar' /\ KeepIsOfRun' /\ RaisedIsClosed' /\ ClosedIsOver'
    BY <1>1, <1>20 DEF KeepSent, AnnouncedSoFar, KeepIsOfRun, RaisedIsClosed, ClosedIsOver,
        Placed, Counted, Flagged,
      Begun, InDial, Over, Known, KeepEnded
  <2> QED
    BY <1>1, <1>3, <2>1, <2>2, <2>3, <2>7
<1>21. CASE KeepCancelled
  <2>1. Flagged'
    BY <1>1, <1>21 DEF KeepCancelled, Flagged
  <2>3. Placed' /\ announced' = announced
    BY <1>0, <1>21 DEF KeepCancelled, Placed, InDial
  <2>7. Counted'
    BY <1>0, <1>21 DEF KeepCancelled, Counted
  <2>2. AnnouncedSoFar' /\ KeepIsOfRun' /\ RaisedIsClosed' /\ ClosedIsOver'
    BY <1>1, <1>21 DEF KeepCancelled, AnnouncedSoFar, KeepIsOfRun, RaisedIsClosed, ClosedIsOver,
        Placed, Counted, Flagged,
      Begun, InDial, Over, Known, KeepEnded
  <2> QED
    BY <1>1, <1>3, <2>1, <2>2, <2>3, <2>7
<1>22. CASE ReapEnds
  <2>1. Flagged'
    BY <1>1, <1>22 DEF ReapEnds, Flagged
  <2>3. Placed' /\ announced' = announced
    BY <1>0, <1>22 DEF ReapEnds, Placed, InDial
  <2>7. Counted'
    BY <1>0, <1>22 DEF ReapEnds, Counted
  <2>2. AnnouncedSoFar' /\ KeepIsOfRun' /\ RaisedIsClosed' /\ ClosedIsOver'
    BY <1>1, <1>22 DEF ReapEnds, AnnouncedSoFar, KeepIsOfRun, RaisedIsClosed, ClosedIsOver,
        Placed, Counted, Flagged,
      Begun, InDial, Over, Known, KeepEnded
  <2> QED
    BY <1>1, <1>3, <2>1, <2>2, <2>3, <2>7
<1>23. ASSUME NEW c \in Closers, CloseCall(c)
      PROVE  WireInv'
  <2>1. Flagged'
    BY <1>1, <1>23 DEF CloseCall, Flagged
  <2>3. Placed' /\ announced' = announced
    BY <1>0, <1>23 DEF CloseCall, Placed, InDial
  <2>7. Counted'
    BY <1>0, <1>23 DEF CloseCall, Counted
  <2>2. AnnouncedSoFar' /\ KeepIsOfRun' /\ RaisedIsClosed' /\ ClosedIsOver'
    BY <1>1, <1>23 DEF CloseCall, AnnouncedSoFar, KeepIsOfRun, RaisedIsClosed, ClosedIsOver,
        Placed, Counted, Flagged,
      Begun, InDial, Over, Known, KeepEnded
  <2> QED
    BY <1>1, <1>3, <2>1, <2>2, <2>3, <2>7
<1>24. ASSUME NEW c \in Closers, CloseEnds(c)
      PROVE  WireInv'
  <2>1. Flagged'
    BY <1>1, <1>24 DEF CloseEnds, Flagged
  <2>3. Placed' /\ announced' = announced
    BY <1>0, <1>24 DEF CloseEnds, Placed, InDial
  <2>7. Counted'
    BY <1>0, <1>24 DEF CloseEnds, Counted
  <2>2. AnnouncedSoFar' /\ KeepIsOfRun' /\ RaisedIsClosed' /\ ClosedIsOver'
    BY <1>1, <1>24 DEF CloseEnds, AnnouncedSoFar, KeepIsOfRun, RaisedIsClosed, ClosedIsOver,
        Placed, Counted, Flagged,
      Begun, InDial, Over, Known, KeepEnded
  <2> QED
    BY <1>1, <1>3, <2>1, <2>2, <2>3, <2>7
<1> QED
  BY <1>4, <1>5, <1>6, <1>7, <1>8, <1>9, <1>10, <1>11, <1>12, <1>13, <1>14, <1>15, <1>16, <1>17,
    <1>18, <1>19, <1>20, <1>21, <1>22, <1>23, <1>24 DEF WireNext, RunGoes, KeepGoes

LEMMA WireInvStays ==
  ASSUME WireInv, UNCHANGED wireVars
  PROVE  WireInv'
<1>1. UNCHANGED <<life, outcome, cancelled, sock, sess, bitfield, reason, closedEv, keep, keepHeld,
                  keepCut, closers, reaper, announced, reads>>
  BY DEF wireVars, runVars, endVars, keepVars
<1>2. Flagged' /\ Placed' /\ Counted' /\ (announced \in [Events -> 0 .. 1])'
  <2>1. Flagged /\ Placed /\ Counted /\ announced \in [Events -> 0 .. 1]
    BY WireTypesAre DEF WireInv
  <2>2. Flagged'
    BY <1>1, <2>1 DEF Flagged
  <2>3. Placed'
    BY <1>1, <2>1 DEF Placed, InDial
  <2>4. Counted'
    BY <1>1, <2>1 DEF Counted
  <2>5. (announced \in [Events -> 0 .. 1])'
    BY <1>1, <2>1
  <2> QED
    BY <2>2, <2>3, <2>4, <2>5
<1>3. WireTypeOK'
  BY <1>2 DEF WireTypeOK, Flagged, Placed, Counted, Events
<1>4. AnnouncedSoFar'
  BY <1>1 DEF WireInv, AnnouncedSoFar, Begun, InDial, Over, Known
<1>5. KeepIsOfRun' /\ RaisedIsClosed' /\ ClosedIsOver'
  BY <1>1 DEF WireInv, KeepIsOfRun, RaisedIsClosed, ClosedIsOver, Begun, InDial, Over, Known,
    KeepEnded
<1> QED
  BY <1>3, <1>4, <1>5 DEF WireInv

LEMMA WireInvMeans ==
  ASSUME WireInv
  PROVE  WireTypeOK /\ ClosedIsOver /\ DisconnectToldOnce
<1>1. /\ announced \in [Events -> 0 .. 1] /\ AnnouncedSoFar /\ KeepIsOfRun
  BY WireTypesAre DEF WireInv
<1>2. announced.disconnected \in 0 .. 1 /\ announced.connected \in 0 .. 1
  BY <1>1 DEF Events
<1>3. announced.disconnected = 0 \/ (life = "over" /\ announced.connected = 1)
  <2>1. life = "over" => Known
    BY DEF Known
  <2> QED
    BY <1>1, <2>1 DEF AnnouncedSoFar, Over
<1>4. life = "over" /\ keep # "none" => announced.disconnected = 1
  BY <1>1 DEF KeepIsOfRun, Over
<1> QED
  BY <1>2, <1>3, <1>4 DEF WireInv, DisconnectToldOnce

(* However many tasks close a connection, and however it ends, whoever has  *)
(* closed it finds it over, and a connection that was announced and has run *)
(* announces its end once.                                                  *)
THEOREM ConnectionsEndAlways ==
  ASSUME WireAssumption
  PROVE  WireSpec => [](WireTypeOK /\ ClosedIsOver /\ DisconnectToldOnce)
<1>1. WireInit => WireInv
  BY WireInvStart
<1>2. WireInv /\ [WireNext]_wireVars => WireInv'
  BY WireInvStep, WireInvStays
<1>3. WireInv => WireTypeOK /\ ClosedIsOver /\ DisconnectToldOnce
  BY WireInvMeans
<1> QED
  BY <1>1, <1>2, <1>3, PTL DEF WireSpec

-----------------------------------------------------------------------------
(* What two clients mean on a connection, one of which may run other code.  *)

Bodies == Offers \cup Names \cup {NoName, Broken}
Greetings == [kind : {"greeting"}, torrent : Torrents, extends : BOOLEAN]
Extendeds == [kind : {"extended"}, id : Ids \cup {0}, body : Bodies]
Mail == Greetings \cup Extendeds

IsOffer(m) == m.kind = "extended" /\ m.id = 0 /\ m.body # Broken

(* A message on its way to t: a greeting is for the sender's torrent, an    *)
(* offer of this program is what it offers, and a number it uses is one it  *)
(* was given.                                                               *)
Fits(served, numbers, t, m) ==
  /\ m.kind = "greeting" => m.torrent = served[Other(t)]
  /\ m.kind = "extended" /\ m.id = 0 =>
       m.body \in Offers \cup {Broken} /\ (Other(t) # Foreign => m.body = numbers[Other(t)])
  /\ m.kind = "extended" /\ m.id # 0 /\ t # Foreign => m.body = NoName \/ <<m.body, m.id>> \in numbers[t]

(* The last offer on its way is the one that counts, and with none on its   *)
(* way it has been noted.                                                   *)
Latest(q, offer, noted) ==
  /\ \A i \in 1 .. Len(q) :
       IsOffer(q[i]) /\ (\A j \in i + 1 .. Len(q) : ~IsOffer(q[j])) => q[i].body = offer
  /\ (\A i \in 1 .. Len(q) : ~IsOffer(q[i])) => noted
Noted(t) ==
  offered[Other(t)] # {} => theirs[t] = Usable(offered[Other(t)]) /\ negotiated[t]

Carried(served, numbers, t, q, offer, noted, lost) ==
  /\ q \in Seq(Mail)
  /\ \A i \in 1 .. Len(q) : Fits(served, numbers, t, q[i])
  /\ lost \/ Latest(q, offer, noted)

MailIsSound ==
  \A t \in Ends :
    Carried(torrent, ours, t, wire[t], offered[Other(t)], Noted(t), stage[t] = "failed")

TablesAre ==
  /\ torrent \in [Ends -> Torrents] /\ ours \in [Ends -> Offers] /\ theirs \in [Ends -> Offers]
  /\ negotiated \in [Ends -> BOOLEAN] /\ offered \in [Ends -> Offers]
  /\ stage \in [Ends -> {"new", "greeting", "open", "failed"}] /\ sends \in [Ends -> 0 .. MaxSends]
  /\ wire \in [Ends -> Seq(Mail)]

NumbersAreGiven ==
  \A s \in Ends :
    /\ \A x \in theirs[s] : x[2] \in UsableIds
    /\ s # Foreign =>
         /\ Distinct(ours[s]) /\ \A x \in ours[s] : x[2] \in UsableIds
         /\ theirs[Other(s)] \subseteq ours[s]

ExtInv == TablesAre /\ NumbersAreGiven /\ MailIsSound /\ SameTorrent /\ NameSurvives

LEMMA TwoEnds ==
  ASSUME ExtensionsAssumption
  PROVE  /\ Dialler \in Ends /\ Listener \in Ends
         /\ \A s \in Ends : Other(s) \in Ends /\ Other(s) # s /\ Other(Other(s)) = s
         /\ \A s, t \in Ends : t # s => t = Other(s)
BY DEF ExtensionsAssumption, Ends, Other

LEMMA AppendOne ==
  ASSUME NEW q \in Seq(Mail), NEW m \in Mail
  PROVE  /\ Append(q, m) \in Seq(Mail) /\ Len(Append(q, m)) = Len(q) + 1 /\ Len(q) \in Nat
         /\ \A i \in 1 .. Len(q) : Append(q, m)[i] = q[i]
         /\ Append(q, m)[Len(q) + 1] = m
         /\ q \o << m >> = Append(q, m) /\ q \o << >> = q
OBVIOUS

LEMMA TailOne ==
  ASSUME NEW q \in Seq(Mail), q # << >>
  PROVE  /\ Tail(q) \in Seq(Mail) /\ Len(Tail(q)) = Len(q) - 1 /\ Len(q) \in Nat \ {0}
         /\ \A i \in 1 .. Len(q) - 1 : Tail(q)[i] = q[i + 1]
         /\ Head(q) = q[1] /\ Head(q) \in Mail
OBVIOUS

LEMMA LatestAppends ==
  ASSUME NEW q \in Seq(Mail), NEW m \in Mail, NEW offer, NEW noted, NEW known
  PROVE  /\ ~IsOffer(m) /\ Latest(q, offer, noted) => Latest(Append(q, m), offer, noted)
         /\ IsOffer(m) => Latest(Append(q, m), m.body, known)
<1> DEFINE p == Append(q, m)  n == Len(q)
<1>1. /\ Len(p) = n + 1 /\ n \in Nat /\ \A i \in 1 .. n : p[i] = q[i]
      /\ p[n + 1] = m
  BY AppendOne
<1> HIDE DEF p, n
<1>2. ASSUME ~IsOffer(m), Latest(q, offer, noted)
      PROVE  Latest(p, offer, noted)
  <2>1. ASSUME NEW i \in 1 .. n + 1, IsOffer(p[i]), \A j \in i + 1 .. n + 1 : ~IsOffer(p[j])
        PROVE  p[i].body = offer
    <3>1. i # n + 1
      BY <1>1, <1>2, <2>1
    <3>2. i \in 1 .. n /\ p[i] = q[i] /\ \A j \in i + 1 .. n : ~IsOffer(q[j])
      BY <1>1, <2>1, <3>1
    <3> QED
      BY <1>2, <2>1, <3>2 DEF Latest, n
  <2>2. ASSUME \A i \in 1 .. n + 1 : ~IsOffer(p[i])
        PROVE  noted
    <3>1. \A i \in 1 .. n : ~IsOffer(q[i])
      BY <1>1, <2>2
    <3> QED
      BY <1>2, <3>1 DEF Latest, n
  <2> QED
    BY <1>1, <2>1, <2>2 DEF Latest
<1>3. ASSUME IsOffer(m)
      PROVE  Latest(p, m.body, known)
  <2>1. ASSUME NEW i \in 1 .. n + 1, IsOffer(p[i]), \A j \in i + 1 .. n + 1 : ~IsOffer(p[j])
        PROVE  p[i].body = m.body
    BY <1>1, <1>3, <2>1
  <2>2. ~ \A i \in 1 .. n + 1 : ~IsOffer(p[i])
    BY <1>1, <1>3
  <2> QED
    BY <1>1, <2>1, <2>2 DEF Latest
<1> QED
  BY <1>2, <1>3 DEF p

LEMMA LatestTails ==
  ASSUME NEW q \in Seq(Mail), q # << >>, NEW offer, NEW noted, Latest(q, offer, noted)
  PROVE  /\ ~IsOffer(Head(q)) => Latest(Tail(q), offer, noted)
         /\ IsOffer(Head(q)) => Latest(Tail(q), offer, Head(q).body = offer)
<1> DEFINE p == Tail(q)  n == Len(q)
<1>1. /\ Len(p) = n - 1 /\ n \in Nat \ {0} /\ \A i \in 1 .. n - 1 : p[i] = q[i + 1]
      /\ Head(q) = q[1]
  BY TailOne
<1>2. /\ \A i \in 1 .. n : IsOffer(q[i]) /\ (\A j \in i + 1 .. n : ~IsOffer(q[j])) => q[i].body = offer
      /\ (\A i \in 1 .. n : ~IsOffer(q[i])) => noted
  BY DEF Latest
<1> HIDE DEF p, n
<1>3. ASSUME NEW i \in 1 .. n - 1, IsOffer(p[i]), \A j \in i + 1 .. n - 1 : ~IsOffer(p[j])
      PROVE  p[i].body = offer
  <2>1. p[i] = q[i + 1] /\ i + 1 \in 1 .. n
    BY <1>1
  <2>2. ASSUME NEW j \in i + 2 .. n
        PROVE  ~IsOffer(q[j])
    <3>1. j - 1 \in i + 1 .. n - 1 /\ j - 1 \in 1 .. n - 1 /\ (j - 1) + 1 = j
      BY <1>1
    <3>2. p[j - 1] = q[j]
      BY <1>1, <3>1
    <3> QED
      BY <1>3, <3>1, <3>2
  <2>3. (i + 1) + 1 = i + 2
    BY <1>1
  <2> QED
    BY <1>2, <1>3, <2>1, <2>2, <2>3
<1>4. ASSUME \A i \in 1 .. n - 1 : ~IsOffer(p[i])
      PROVE  \A i \in 2 .. n : ~IsOffer(q[i])
  <2> SUFFICES ASSUME NEW i \in 2 .. n
               PROVE  ~IsOffer(q[i])
    OBVIOUS
  <2>1. i - 1 \in 1 .. n - 1 /\ (i - 1) + 1 = i
    BY <1>1
  <2>2. p[i - 1] = q[i]
    BY <1>1, <2>1
  <2> QED
    BY <1>4, <2>1, <2>2
<1>5. ASSUME ~IsOffer(Head(q))
      PROVE  Latest(p, offer, noted)
  <2>1. (\A i \in 1 .. n - 1 : ~IsOffer(p[i])) => noted
    BY <1>1, <1>2, <1>4, <1>5
  <2> QED
    BY <1>1, <1>3, <2>1 DEF Latest
<1>6. ASSUME IsOffer(Head(q))
      PROVE  Latest(p, offer, Head(q).body = offer)
  <2>1. ASSUME \A i \in 1 .. n - 1 : ~IsOffer(p[i])
        PROVE  q[1].body = offer
    <3>1. 1 \in 1 .. n /\ \A j \in 1 + 1 .. n : ~IsOffer(q[j])
      BY <1>1, <1>4, <2>1
    <3> QED
      BY <1>1, <1>2, <1>6, <3>1
  <2> QED
    BY <1>1, <1>3, <2>1 DEF Latest
<1> QED
  BY <1>5, <1>6 DEF p

(* What fits goes on fitting while this program's offers stay what they are.*)
LEMMA FitsStays ==
  ASSUME ExtensionsAssumption, NEW served, NEW numbers, NEW owned,
         \A s \in Ends : s # Foreign => owned[s] = numbers[s],
         NEW t \in Ends, NEW m, Fits(served, numbers, t, m)
  PROVE  Fits(served, owned, t, m)
<1>1. t # Foreign => owned[t] = numbers[t]
  OBVIOUS
<1>2. Other(t) # Foreign => owned[Other(t)] = numbers[Other(t)]
  BY TwoEnds
<1> QED
  BY <1>1, <1>2 DEF Fits

LEMMA CarriedStays ==
  ASSUME ExtensionsAssumption, NEW served, NEW numbers, NEW owned,
         \A s \in Ends : s # Foreign => owned[s] = numbers[s],
         NEW t \in Ends, NEW q, NEW offer, NEW noted, NEW lost,
         Carried(served, numbers, t, q, offer, noted, lost)
  PROVE  Carried(served, owned, t, q, offer, noted, lost)
<1>1. \A m : Fits(served, numbers, t, m) => Fits(served, owned, t, m)
  BY FitsStays
<1> QED
  BY <1>1 DEF Carried

LEMMA CarriedAppends ==
  ASSUME NEW served, NEW numbers, NEW t \in Ends, NEW q, NEW offer, NEW noted, NEW known, NEW lost,
         NEW m \in Mail, Fits(served, numbers, t, m),
         Carried(served, numbers, t, q, offer, noted, lost)
  PROVE  /\ ~IsOffer(m) => Carried(served, numbers, t, Append(q, m), offer, noted, lost)
         /\ IsOffer(m) => Carried(served, numbers, t, Append(q, m), m.body, known, lost)
<1> DEFINE p == Append(q, m)
<1>1. q \in Seq(Mail) /\ \A i \in 1 .. Len(q) : Fits(served, numbers, t, q[i])
  BY DEF Carried
<1>2. /\ p \in Seq(Mail) /\ Len(p) = Len(q) + 1 /\ Len(q) \in Nat
      /\ \A i \in 1 .. Len(q) : p[i] = q[i]
      /\ p[Len(q) + 1] = m
  BY <1>1, AppendOne
<1>3. /\ ~IsOffer(m) /\ Latest(q, offer, noted) => Latest(p, offer, noted)
      /\ IsOffer(m) => Latest(p, m.body, known)
  BY <1>1, LatestAppends
<1> HIDE DEF p
<1>4. ASSUME NEW i \in 1 .. Len(q) + 1
      PROVE  Fits(served, numbers, t, p[i])
  <2>1. CASE i \in 1 .. Len(q)
    BY <1>1, <1>2, <2>1
  <2>2. CASE i = Len(q) + 1
    BY <1>2, <2>2
  <2> QED
    BY <1>2, <2>1, <2>2
<1>5. /\ ~IsOffer(m) => Carried(served, numbers, t, p, offer, noted, lost)
      /\ IsOffer(m) => Carried(served, numbers, t, p, m.body, known, lost)
  BY <1>2, <1>3, <1>4 DEF Carried
<1> QED
  BY <1>5 DEF p

LEMMA CarriedTails ==
  ASSUME NEW served, NEW numbers, NEW t \in Ends, NEW q, NEW offer, NEW noted, NEW lost, q # << >>,
         Carried(served, numbers, t, q, offer, noted, lost)
  PROVE  /\ Head(q) \in Mail /\ Fits(served, numbers, t, Head(q))
         /\ ~IsOffer(Head(q)) => Carried(served, numbers, t, Tail(q), offer, noted, lost)
         /\ IsOffer(Head(q)) => Carried(served, numbers, t, Tail(q), offer, Head(q).body = offer, lost)
<1> DEFINE p == Tail(q)
<1>1. q \in Seq(Mail) /\ \A i \in 1 .. Len(q) : Fits(served, numbers, t, q[i])
  BY DEF Carried
<1>2. /\ p \in Seq(Mail) /\ Len(p) = Len(q) - 1 /\ Len(q) \in Nat \ {0}
      /\ \A i \in 1 .. Len(q) - 1 : p[i] = q[i + 1]
      /\ Head(q) = q[1] /\ Head(q) \in Mail
  BY <1>1, TailOne
<1>3. /\ ~IsOffer(Head(q)) /\ Latest(q, offer, noted) => Latest(p, offer, noted)
      /\ IsOffer(Head(q)) /\ Latest(q, offer, noted) => Latest(p, offer, Head(q).body = offer)
  BY <1>1, LatestTails
<1> HIDE DEF p
<1>4. ASSUME NEW i \in 1 .. Len(q) - 1
      PROVE  Fits(served, numbers, t, p[i])
  BY <1>1, <1>2
<1>5. Fits(served, numbers, t, Head(q))
  BY <1>1, <1>2
<1>6. /\ ~IsOffer(Head(q)) => Carried(served, numbers, t, p, offer, noted, lost)
      /\ IsOffer(Head(q)) => Carried(served, numbers, t, p, offer, Head(q).body = offer, lost)
  BY <1>2, <1>3, <1>4 DEF Carried
<1> QED
  BY <1>2, <1>5, <1>6 DEF p

(* A message is put on the wire to t.                                       *)
LEMMA PutKeepsMail ==
  ASSUME ExtensionsAssumption, TablesAre, MailIsSound, NEW t \in Ends, NEW m \in Mail,
         Fits(torrent, ours', t, m), torrent' = torrent,
         \A s \in Ends : s # Foreign => ours'[s] = ours[s],
         wire' = [wire EXCEPT ![t] = Append(@, m)],
         UNCHANGED <<theirs, negotiated>>,
         \A u \in Ends : (stage'[u] = "failed") <=> (stage[u] = "failed"),
         \/ ~IsOffer(m) /\ offered' = offered
         \/ IsOffer(m) /\ offered' = [offered EXCEPT ![Other(t)] = m.body]
  PROVE  MailIsSound'
<1>1. ASSUME NEW u \in Ends
      PROVE  /\ Carried(torrent, ours', u, wire[u], offered[Other(u)], Noted(u), stage[u] = "failed")
             /\ (stage'[u] = "failed") = (stage[u] = "failed")
  BY CarriedStays DEF MailIsSound
<1>2. /\ wire'[t] = Append(wire[t], m) /\ \A u \in Ends \ {t} : wire'[u] = wire[u]
  BY DEF TablesAre
<1>3. /\ Other(t) \in Ends /\ t # Other(t) /\ \A u \in Ends : u # t => Other(u) = t
  BY TwoEnds
<1>4. ASSUME NEW u \in Ends, offered'[Other(u)] = offered[Other(u)]
      PROVE  Noted(u)' = Noted(u)
  BY <1>4 DEF Noted, Other, Usable
<1>5. ASSUME NEW u \in Ends, u # t
      PROVE  Carried(torrent', ours', u, wire'[u], offered'[Other(u)], Noted(u)', stage'[u] = "failed")
  <2>1. wire'[u] = wire[u] /\ offered'[Other(u)] = offered[Other(u)]
    BY <1>2, <1>3, <1>5 DEF TablesAre
  <2> QED
    BY <1>1, <1>4, <2>1
<1>6. Carried(torrent', ours', t, wire'[t], offered'[Other(t)], Noted(t)', stage'[t] = "failed")
  <2>1. CASE ~IsOffer(m) /\ offered' = offered
    <3>1. Carried(torrent, ours', t, Append(wire[t], m), offered[Other(t)], Noted(t), stage[t] = "failed")
      BY <1>1, <2>1, CarriedAppends
    <3>2. Noted(t)' = Noted(t) /\ (stage'[t] = "failed") = (stage[t] = "failed")
      BY <1>1, <1>4, <2>1
    <3> QED
      BY <1>2, <2>1, <3>1, <3>2
  <2>2. CASE IsOffer(m) /\ offered' = [offered EXCEPT ![Other(t)] = m.body]
    <3>1. offered'[Other(t)] = m.body /\ (stage'[t] = "failed") = (stage[t] = "failed")
      BY <1>1, <1>3, <2>2 DEF TablesAre
    <3>2. Carried(torrent, ours', t, Append(wire[t], m), m.body, Noted(t)', stage[t] = "failed")
      BY <1>1, <2>2, CarriedAppends
    <3> QED
      BY <1>2, <3>1, <3>2
  <2> QED
    BY <2>1, <2>2
<1>7. \A u \in Ends : Carried(torrent', ours', u, wire'[u], offered'[Other(u)], Noted(u)', stage'[u] = "failed")
  BY <1>5, <1>6
<1> QED
  BY <1>7 DEF MailIsSound, Other

LEMMA GreetingFits ==
  ASSUME ExtensionsAssumption, TablesAre, NEW s \in Ends
  PROVE  /\ Greeting(s) \in Mail /\ ~IsOffer(Greeting(s))
         /\ Fits(torrent, ours, Other(s), Greeting(s))
<1> DEFINE says == ours[s] # {}
<1>1. says \in BOOLEAN
  OBVIOUS
<1>2. Greeting(s) = [kind |-> "greeting", torrent |-> torrent[s], extends |-> says]
  BY DEF Greeting
<1> HIDE DEF says
<1>3. torrent[s] \in Torrents
  BY DEF TablesAre
<1>4. Greeting(s) \in Greetings
  <2>1. \A b \in BOOLEAN, h \in Torrents :
          [kind |-> "greeting", torrent |-> h, extends |-> b] \in Greetings
    BY DEF Greetings
  <2> QED
    BY <1>1, <1>2, <1>3, <2>1
<1>5. Greeting(s).kind = "greeting" /\ Greeting(s).torrent = torrent[s]
  BY <1>2
<1>6. Other(Other(s)) = s
  BY TwoEnds
<1> QED
  BY <1>4, <1>5, <1>6 DEF Mail, IsOffer, Fits

LEMMA ExtendedFits ==
  ASSUME NEW id \in Ids \cup {0}, NEW body \in Bodies
  PROVE  /\ Extended(id, body) \in Mail
         /\ Extended(id, body).kind = "extended" /\ Extended(id, body).id = id
         /\ Extended(id, body).body = body
BY DEF Extended, Mail, Extendeds

LEMMA OffersAre ==
  ASSUME ExtensionsAssumption, NEW T \in Offers
  PROVE  T # Broken /\ T \in Bodies /\ Usable(T) \in Offers /\ Usable(T) \subseteq T
BY DEF ExtensionsAssumption, Offers, Bodies, Usable, Functional

(* What every Put leaves as it is.                                          *)
LEMMA PutKeeps ==
  ASSUME ExtensionsAssumption, ExtInv, NEW s \in Ends, NEW m, Put(s, m), MailIsSound',
         ours' \in [Ends -> Offers], offered' \in [Ends -> Offers],
         \A t \in Ends : t # Foreign => ours'[t] = ours[t]
  PROVE  ExtInv'
<1>1. /\ UNCHANGED <<theirs, negotiated, torrent, stage, heard>>
      /\ sends[s] < MaxSends /\ sends' = [sends EXCEPT ![s] = @ + 1]
      /\ wire' = [wire EXCEPT ![Other(s)] = Append(@, m)]
  BY DEF Put
<1>2. sends' \in [Ends -> 0 .. MaxSends]
  <2>1. sends \in [Ends -> 0 .. MaxSends] /\ MaxSends \in Nat
    BY DEF ExtInv, TablesAre, ExtensionsAssumption
  <2> QED
    BY <1>1, <2>1
<1>3. wire' \in [Ends -> Seq(Mail)]
  BY <1>1 DEF MailIsSound, Carried, ExtInv, TablesAre
<1>4. TablesAre'
  BY <1>1, <1>2, <1>3 DEF ExtInv, TablesAre
<1>5. NumbersAreGiven'
  BY <1>1 DEF ExtInv, NumbersAreGiven
<1>6. SameTorrent' /\ NameSurvives'
  BY <1>1 DEF ExtInv, SameTorrent, NameSurvives
<1> QED
  BY <1>4, <1>5, <1>6 DEF ExtInv

(* A message with a number the other side gave it.                          *)
LEMMA NumberedKeeps ==
  ASSUME ExtensionsAssumption, ExtInv, NEW s \in Ends, NEW name \in Names, NEW id \in NumberFor(s, name),
         Put(s, Extended(id, name)), UNCHANGED <<ours, offered>>
  PROVE  ExtInv'
<1> DEFINE m == Extended(id, name)
<1>1. <<name, id>> \in theirs[s]
  <2>1. PICK x \in theirs[s] : x[1] = name /\ x[2] = id
    BY DEF NumberFor
  <2>2. x \in Names \X Ids
    BY DEF ExtInv, TablesAre, Offers
  <2> QED
    BY <2>1, <2>2
<1>2. id \in Ids /\ id # 0
  BY <1>1 DEF ExtInv, NumbersAreGiven, ExtensionsAssumption
<1>3. /\ m \in Mail /\ m.kind = "extended" /\ m.id = id /\ m.body = name
  BY <1>2, ExtendedFits DEF Bodies
<1>4. /\ Other(s) \in Ends /\ Other(Other(s)) = s
  BY TwoEnds
<1>5. Other(s) # Foreign => <<name, id>> \in ours[Other(s)]
  BY <1>1, <1>4 DEF ExtInv, NumbersAreGiven
<1> HIDE DEF m
<1>6. Fits(torrent, ours, Other(s), m) /\ ~IsOffer(m)
  BY <1>2, <1>3, <1>5 DEF Fits, IsOffer
<1>7. /\ UNCHANGED <<theirs, negotiated, torrent, stage, ours, offered>>
      /\ wire' = [wire EXCEPT ![Other(s)] = Append(@, m)]
  BY DEF Put, m
<1>8. MailIsSound'
  BY <1>3, <1>4, <1>6, <1>7, PutKeepsMail DEF ExtInv
<1> QED
  BY <1>7, <1>8, PutKeeps DEF ExtInv, TablesAre

LEMMA ElsewhereKeeps ==
  ASSUME ExtensionsAssumption, ExtInv, Elsewhere
  PROVE  ExtInv'
<1>1. Foreign \in Ends /\ Other(Foreign) \in Ends /\ Other(Other(Foreign)) = Foreign
  BY TwoEnds DEF Elsewhere
<1>2. TablesAre /\ MailIsSound
  BY DEF ExtInv
<1>3. ASSUME NEW T \in Offers, Reoffers(T)
      PROVE  ExtInv'
  <2> DEFINE m == Extended(0, T)
  <2>1. m \in Mail /\ m.kind = "extended" /\ m.id = 0 /\ m.body = T /\ T # Broken
    BY ExtendedFits, OffersAre
  <2>2. /\ UNCHANGED <<theirs, negotiated, torrent, stage>>
        /\ wire' = [wire EXCEPT ![Other(Foreign)] = Append(@, m)]
        /\ ours' = [ours EXCEPT ![Foreign] = T] /\ offered' = [offered EXCEPT ![Foreign] = T]
    BY <1>3 DEF Reoffers, Put
  <2>3. Put(Foreign, m)
    BY <1>3 DEF Reoffers
  <2> HIDE DEF m
  <2>4. Fits(torrent, ours', Other(Foreign), m) /\ IsOffer(m)
    BY <1>1, <2>1 DEF Fits, IsOffer
  <2>5. /\ \A t \in Ends : t # Foreign => ours'[t] = ours[t]
        /\ ours' \in [Ends -> Offers] /\ offered' \in [Ends -> Offers]
    BY <1>2, <2>2 DEF TablesAre
  <2>6. offered' = [offered EXCEPT ![Other(Other(Foreign))] = m.body]
    BY <1>1, <2>1, <2>2
  <2>7. MailIsSound'
    BY <1>1, <1>2, <2>1, <2>2, <2>4, <2>5, <2>6, PutKeepsMail
  <2> QED
    BY <1>1, <2>3, <2>5, <2>7, PutKeeps
<1>4. ASSUME NEW id \in Ids \cup {0}, NEW body \in {NoName, Broken}, body = NoName \/ id = 0,
             id = 0 => body = Broken,
             Put(Foreign, Extended(id, body)), UNCHANGED <<ours, offered>>
      PROVE  ExtInv'
  <2> DEFINE m == Extended(id, body)
  <2>1. m \in Mail /\ m.kind = "extended" /\ m.id = id /\ m.body = body
    BY ExtendedFits DEF Bodies
  <2>2. /\ UNCHANGED <<theirs, negotiated, torrent, stage>>
        /\ wire' = [wire EXCEPT ![Other(Foreign)] = Append(@, m)]
    BY <1>4 DEF Put
  <2>3. Put(Foreign, m)
    BY <1>4
  <2> HIDE DEF m
  <2>4. Fits(torrent, ours, Other(Foreign), m) /\ ~IsOffer(m)
    BY <1>1, <1>4, <2>1 DEF Fits, IsOffer
  <2>5. MailIsSound'
    BY <1>1, <1>2, <1>4, <2>1, <2>2, <2>4, PutKeepsMail
  <2> QED
    BY <1>1, <1>2, <1>4, <2>3, <2>5, PutKeeps DEF TablesAre
<1>5. CASE Garbles
  BY <1>4, <1>5 DEF Garbles
<1>6. ASSUME NEW id \in Ids, Guesses(id)
      PROVE  ExtInv'
  BY <1>4, <1>6 DEF Guesses
<1>7. ASSUME NEW name \in Names, ForeignSends(name)
      PROVE  ExtInv'
  BY <1>1, <1>7, NumberedKeeps DEF ForeignSends
<1> QED
  BY <1>3, <1>5, <1>6, <1>7 DEF Elsewhere

LEMMA DialKeeps ==
  ASSUME ExtensionsAssumption, ExtInv, Dial
  PROVE  ExtInv'
<1>1. /\ Dialler \in Ends /\ Listener \in Ends /\ Other(Dialler) = Listener /\ Other(Listener) = Dialler
  BY TwoEnds DEF Ends, Other
<1>2. /\ UNCHANGED <<torrent, ours, theirs, negotiated, sends, heard, offered>>
      /\ wire' = [wire EXCEPT ![Listener] = Append(@, Greeting(Dialler))]
      /\ stage' = [stage EXCEPT ![Dialler] = "greeting"] /\ stage[Dialler] = "new"
  BY DEF Dial, tables
<1>3. /\ Greeting(Dialler) \in Mail /\ ~IsOffer(Greeting(Dialler))
      /\ Fits(torrent, ours, Listener, Greeting(Dialler))
  BY <1>1, GreetingFits DEF ExtInv
<1>4. /\ \A u \in Ends : (stage'[u] = "failed") <=> (stage[u] = "failed")
      /\ \A u \in Ends : stage'[u] = "open" => stage[u] = "open"
      /\ stage' \in [Ends -> {"new", "greeting", "open", "failed"}]
  BY <1>1, <1>2 DEF ExtInv, TablesAre
<1>5. MailIsSound'
  BY <1>1, <1>2, <1>3, <1>4, PutKeepsMail DEF ExtInv
<1>6. TablesAre'
  BY <1>1, <1>2, <1>4, <1>5 DEF ExtInv, TablesAre, MailIsSound, Carried
<1> QED
  BY <1>2, <1>4, <1>5, <1>6 DEF ExtInv, NumbersAreGiven, SameTorrent, NameSurvives

(* The side that refused has closed the socket.                             *)
LEMMA DroppedKeeps ==
  ASSUME ExtensionsAssumption, ExtInv, NEW s \in Ends, Dropped(s)
  PROVE  ExtInv'
<1>1. /\ stage' = [stage EXCEPT ![s] = "failed"]
      /\ UNCHANGED <<torrent, ours, theirs, negotiated, wire, sends, heard, offered>>
  BY DEF Dropped, tables
<1>2. /\ \A u \in Ends : stage[u] = "failed" => stage'[u] = "failed"
      /\ \A u \in Ends : stage'[u] = "open" => stage[u] = "open"
      /\ stage' \in [Ends -> {"new", "greeting", "open", "failed"}]
  BY <1>1 DEF ExtInv, TablesAre
<1>3. MailIsSound'
  BY <1>1, <1>2 DEF ExtInv, MailIsSound, Carried, Noted, Other, Usable
<1> QED
  BY <1>1, <1>2, <1>3 DEF ExtInv, TablesAre, NumbersAreGiven, SameTorrent, NameSurvives

(* A number is read by the side that chose it, which chose each once.       *)
LEMMA NamesAreOwn ==
  ASSUME NEW s \in Ends, Distinct(ours[s]), NEW name, NEW id, <<name, id>> \in ours[s]
  PROVE  NameFor(s, id) = name
<1>1. \A x \in ours[s] : x[2] = id => x = <<name, id>>
  BY DEF Distinct
<1> DEFINE y == CHOOSE x \in ours[s] : x[2] = id
<1>2. y \in ours[s] /\ y[2] = id
  OBVIOUS
<1> HIDE DEF y
<1>3. y = <<name, id>>
  BY <1>1, <1>2
<1>4. y[1] = name
  BY <1>3
<1>5. \E x \in ours[s] : x[2] = id
  BY <1>2
<1> QED
  BY <1>4, <1>5 DEF NameFor, y

LEMMA ExtendedKeeps ==
  ASSUME ExtensionsAssumption, ExtInv, NEW s \in Ends, HandleExtended(s)
  PROVE  ExtInv'
<1> DEFINE q == wire[s]  m == Head(wire[s])  o == Other(s)
<1>1. /\ q # << >> /\ m.kind = "extended" /\ stage[s] = "open"
      /\ wire' = [wire EXCEPT ![s] = Tail(q)]
      /\ UNCHANGED <<torrent, ours, stage, sends, offered>>
  BY DEF HandleExtended
<1>2. /\ o \in Ends /\ o # s /\ Other(o) = s /\ \A u \in Ends : u # s => u = o
  BY TwoEnds
<1>3. TablesAre /\ NumbersAreGiven /\ MailIsSound /\ SameTorrent /\ NameSurvives
  BY DEF ExtInv
<1>4. /\ m \in Mail /\ Fits(torrent, ours, s, m)
      /\ ~IsOffer(m) => Carried(torrent, ours, s, Tail(q), offered[o], Noted(s), stage[s] = "failed")
      /\ IsOffer(m) => Carried(torrent, ours, s, Tail(q), offered[o], m.body = offered[o], stage[s] = "failed")
  BY <1>1, <1>3, CarriedTails DEF MailIsSound
<1>5. /\ wire'[s] = Tail(q) /\ wire'[o] = wire[o]
  BY <1>1, <1>2, <1>3 DEF TablesAre
<1> HIDE DEF q, m, o
<1>6. CASE m.id = 0 /\ m.body # Broken
  <2>1. /\ theirs' = [theirs EXCEPT ![s] = Usable(m.body)] /\ heard' = heard
        /\ negotiated' = [negotiated EXCEPT ![s] = TRUE]
    BY <1>6 DEF HandleExtended, NoteTheirs, m
  <2>2. /\ m.body \in Offers /\ (o # Foreign => m.body = ours[o])
    BY <1>1, <1>4, <1>6 DEF Fits, o
  <2>3. Usable(m.body) \in Offers /\ Usable(m.body) \subseteq m.body
    BY <2>2, OffersAre
  <2>4. /\ theirs'[s] = Usable(m.body) /\ negotiated'[s] = TRUE
        /\ theirs'[o] = theirs[o] /\ negotiated'[o] = negotiated[o]
        /\ theirs' \in [Ends -> Offers] /\ negotiated' \in [Ends -> BOOLEAN]
    BY <1>2, <1>3, <2>1, <2>3 DEF TablesAre
  <2>5. (m.body = offered[o]) => Noted(s)'
    BY <1>1, <2>4 DEF Noted, o, Other, Usable
  <2>6. Carried(torrent, ours, s, Tail(q), offered[o], Noted(s)', stage[s] = "failed")
    BY <1>1, <1>4, <1>6, <2>5 DEF IsOffer, Carried, Latest
  <2>7. Noted(o)' = Noted(o)
    BY <1>1, <2>4 DEF Noted, Other, Usable
  <2>8. MailIsSound'
    <3>1. Carried(torrent', ours', s, wire'[s], offered'[Other(s)], Noted(s)', stage'[s] = "failed")
      BY <1>1, <1>5, <2>6 DEF o
    <3>2. Carried(torrent, ours, o, wire[o], offered[Other(o)], Noted(o), stage[o] = "failed")
      BY <1>2, <1>3 DEF MailIsSound
    <3>3. Carried(torrent', ours', o, wire'[o], offered'[Other(o)], Noted(o)', stage'[o] = "failed")
      BY <1>1, <1>5, <2>7, <3>2
    <3>4. \A u \in Ends : Carried(torrent', ours', u, wire'[u], offered'[Other(u)], Noted(u)', stage'[u] = "failed")
      BY <1>2, <3>1, <3>3
    <3> QED
      BY <3>4 DEF MailIsSound, Other
  <2>9. TablesAre'
    BY <1>1, <1>3, <2>4, <2>8 DEF TablesAre, MailIsSound, Carried
  <2>10. NumbersAreGiven'
    <3>1. \A x \in theirs'[s] : x[2] \in UsableIds
      BY <2>4 DEF Usable
    <3>2. o # Foreign => theirs'[s] \subseteq ours[o]
      BY <2>2, <2>3, <2>4
    <3>3. ASSUME NEW u \in Ends
          PROVE  \A x \in theirs'[u] : x[2] \in UsableIds
      BY <1>2, <1>3, <2>4, <3>1 DEF NumbersAreGiven
    <3>4. ASSUME NEW u \in Ends, u # Foreign
          PROVE  theirs'[Other(u)] \subseteq ours[u]
      <4>1. CASE u = o
        BY <1>2, <3>2, <3>4, <4>1
      <4>2. CASE u = s
        BY <1>2, <1>3, <2>4, <3>4, <4>2 DEF NumbersAreGiven, o
      <4> QED
        BY <1>2, <4>1, <4>2
    <3> QED
      BY <1>1, <1>3, <3>3, <3>4 DEF NumbersAreGiven, Distinct, Other
  <2> QED
    BY <1>1, <1>3, <2>1, <2>8, <2>9, <2>10 DEF ExtInv, SameTorrent, NameSurvives
<1>7. CASE ~ (m.id = 0 /\ m.body # Broken)
  <2>1. UNCHANGED <<theirs, negotiated>>
    BY <1>7 DEF HandleExtended, m
  <2>2. \A u \in Ends : Noted(u)' = Noted(u)
    BY <1>1, <2>1 DEF Noted, Other, Usable
  <2>3. MailIsSound'
    <3>1. Carried(torrent', ours', s, wire'[s], offered'[Other(s)], Noted(s)', stage'[s] = "failed")
      BY <1>1, <1>4, <1>5, <1>7, <2>2 DEF o, IsOffer
    <3>2. Carried(torrent, ours, o, wire[o], offered[Other(o)], Noted(o), stage[o] = "failed")
      BY <1>2, <1>3 DEF MailIsSound
    <3>3. Carried(torrent', ours', o, wire'[o], offered'[Other(o)], Noted(o)', stage'[o] = "failed")
      BY <1>1, <1>2, <1>5, <2>2, <3>2
    <3>4. \A u \in Ends : Carried(torrent', ours', u, wire'[u], offered'[Other(u)], Noted(u)', stage'[u] = "failed")
      BY <1>2, <3>1, <3>3
    <3> QED
      BY <3>4 DEF MailIsSound, Other
  <2>4. TablesAre'
    BY <1>1, <1>3, <2>1, <2>3 DEF TablesAre, MailIsSound, Carried
  <2>5. NumbersAreGiven'
    BY <1>1, <1>3, <2>1 DEF NumbersAreGiven, Distinct, Other
  <2>6. NameSurvives'
    <3>1. \/ heard' = heard
          \/ /\ m.id # 0 /\ s # Foreign /\ NameFor(s, m.id) # NoName
             /\ heard' = heard \cup {[by |-> s, meant |-> m.body, given |-> NameFor(s, m.id)]}
      BY <1>7 DEF HandleExtended, m
    <3>2. CASE heard' = heard
      BY <1>3, <3>2 DEF NameSurvives
    <3>3. CASE /\ m.id # 0 /\ s # Foreign
               /\ heard' = heard \cup {[by |-> s, meant |-> m.body, given |-> NameFor(s, m.id)]}
      <4>1. m.body = NoName \/ <<m.body, m.id>> \in ours[s]
        BY <1>1, <1>4, <3>3 DEF Fits
      <4>2. m.body \in {NameFor(s, m.id), NoName}
        BY <1>3, <3>3, <4>1, NamesAreOwn DEF NumbersAreGiven
      <4> QED
        BY <1>3, <3>3, <4>2 DEF NameSurvives
    <3> QED
      BY <3>1, <3>2, <3>3
  <2> QED
    BY <1>1, <1>3, <2>3, <2>4, <2>5, <2>6 DEF ExtInv, SameTorrent
<1> QED
  BY <1>6, <1>7

(* The greeting is read: refused, or answered with what this side offers.   *)
LEMMA GreetsKeeps ==
  ASSUME ExtensionsAssumption, ExtInv, NEW s \in Ends, NEW reply \in {<< >>, << Greeting(s) >>}, Greets(s, reply),
         stage[s] # "failed"
  PROVE  ExtInv'
<1> DEFINE q == wire[s]  m == Head(wire[s])  o == Other(s)
<1>1. /\ q # << >> /\ m.kind = "greeting"
      /\ UNCHANGED <<torrent, ours, theirs, negotiated, sends, heard>>
  BY DEF Greets, tables
<1>2. /\ o \in Ends /\ o # s /\ Other(o) = s /\ \A u \in Ends : u # s => u = o
  BY TwoEnds
<1>3. TablesAre /\ NumbersAreGiven /\ MailIsSound /\ SameTorrent /\ NameSurvives
  BY DEF ExtInv
<1>4. /\ m \in Mail /\ Fits(torrent, ours, s, m) /\ ~IsOffer(m)
      /\ Carried(torrent, ours, s, Tail(q), offered[o], Noted(s), stage[s] = "failed")
  BY <1>1, <1>3, CarriedTails DEF MailIsSound, IsOffer
<1>5. Carried(torrent, ours, o, wire[o], offered[s], Noted(o), stage[o] = "failed")
  BY <1>2, <1>3 DEF MailIsSound
<1>8. m = Head(q) /\ o = Other(s) /\ q = wire[s]
  OBVIOUS
<1> HIDE DEF q, m, o
<1>6. CASE Refuses(s, m)
  <2>1. /\ stage' = [stage EXCEPT ![s] = "failed"] /\ wire' = [wire EXCEPT ![s] = << >>]
        /\ offered' = offered
    BY <1>6, <1>8 DEF Greets
  <2>2. /\ stage'[s] = "failed" /\ stage'[o] = stage[o] /\ wire'[s] = << >> /\ wire'[o] = wire[o]
        /\ stage' \in [Ends -> {"new", "greeting", "open", "failed"}]
    BY <1>2, <1>3, <2>1 DEF TablesAre
  <2>3. \A u \in Ends : Noted(u)' = Noted(u)
    BY <1>1, <2>1 DEF Noted, Other, Usable
  <2>4. Carried(torrent', ours', s, wire'[s], offered'[o], Noted(s)', stage'[s] = "failed")
    <3>1. << >> \in Seq(Mail) /\ Len(<< >>) = 0
      OBVIOUS
    <3> QED
      BY <2>2, <3>1 DEF Carried
  <2>5. Carried(torrent', ours', o, wire'[o], offered'[s], Noted(o)', stage'[o] = "failed")
    BY <1>1, <1>2, <1>5, <2>1, <2>2, <2>3
  <2>6. MailIsSound'
    <3>1. \A u \in Ends : Carried(torrent', ours', u, wire'[u], offered'[Other(u)], Noted(u)', stage'[u] = "failed")
      BY <1>2, <1>8, <2>4, <2>5
    <3> QED
      BY <3>1 DEF MailIsSound, Other
  <2>7. TablesAre'
    BY <1>1, <1>3, <2>1, <2>2, <2>6 DEF TablesAre, MailIsSound, Carried
  <2>8. SameTorrent'
    BY <1>1, <1>2, <1>3, <2>2 DEF SameTorrent
  <2> QED
    BY <1>1, <1>3, <2>1, <2>6, <2>7, <2>8 DEF ExtInv, NumbersAreGiven, NameSurvives, Distinct, Other
<1>7. CASE ~Refuses(s, m)
  <2> DEFINE opening == Opening(s, m)  x == Extended(0, ours[s])
             r == wire[o] \o reply
  <2>1. /\ stage' = [stage EXCEPT ![s] = "open"]
        /\ wire' = [wire EXCEPT ![s] = Tail(q), ![o] = (wire[o] \o reply) \o opening]
        /\ offered' = IF opening # << >> THEN [offered EXCEPT ![s] = ours[s]] ELSE offered
    BY <1>1, <1>3, <1>7, <1>8 DEF Greets, TablesAre
  <2>2. /\ stage'[s] = "open" /\ stage'[o] = stage[o]
        /\ wire'[s] = Tail(q) /\ wire'[o] = r \o opening
        /\ stage' \in [Ends -> {"new", "greeting", "open", "failed"}]
    BY <1>2, <1>3, <2>1 DEF TablesAre
  <2>3. torrent[o] = torrent[s]
    BY <1>1, <1>4, <1>7, <1>8 DEF Refuses, Fits
  <2>4. Carried(torrent, ours, o, r, offered[s], Noted(o), stage[o] = "failed") /\ r \in Seq(Mail)
    <3>1. wire[o] \in Seq(Mail)
      BY <1>5 DEF Carried
    <3>2. CASE reply = << >>
      <4>1. r = wire[o]
        BY <3>1, <3>2
      <4> QED
        BY <1>5, <3>1, <4>1
    <3>3. CASE reply = << Greeting(s) >>
      <4> DEFINE g == Greeting(s)
      <4>1. g \in Mail /\ ~IsOffer(g) /\ Fits(torrent, ours, o, g)
        BY <1>3, <1>8, GreetingFits
      <4>2. reply = << g >>
        BY <3>3
      <4> HIDE DEF g
      <4>3. Append(wire[o], g) \in Seq(Mail) /\ wire[o] \o << g >> = Append(wire[o], g)
        BY <3>1, <4>1, AppendOne
      <4>4. r = Append(wire[o], g)
        BY <4>2, <4>3
      <4>5. Carried(torrent, ours, o, Append(wire[o], g), offered[s], Noted(o), stage[o] = "failed")
        BY <1>2, <1>5, <4>1, CarriedAppends
      <4> HIDE DEF r
      <4> QED
        BY <4>3, <4>4, <4>5
    <3> QED
      BY <3>2, <3>3
  <2> HIDE DEF r
  <2>5. opening = << >> \/ opening = << x >>
    BY DEF Opening
  <2> HIDE DEF opening
  <2>6. Carried(torrent', ours', o, wire'[o], offered'[s], Noted(o)', stage'[o] = "failed")
    <3>1. CASE opening = << >>
      <4>1. wire'[o] = r /\ offered' = offered
        BY <2>1, <2>2, <2>4, <3>1
      <4>2. Noted(o)' = Noted(o)
        BY <1>1, <4>1 DEF Noted, Other, Usable
      <4> QED
        BY <1>1, <2>2, <2>4, <4>1, <4>2
    <3>2. CASE opening = << x >>
      <4>0. ours[s] \in Offers /\ ours[s] # Broken /\ ours[s] \in Bodies /\ 0 \in Ids \cup {0}
        <5>1. ours[s] \in Offers
          BY <1>3 DEF TablesAre
        <5> QED
          BY <5>1, OffersAre
      <4>1. x \in Mail /\ x.kind = "extended" /\ x.id = 0 /\ x.body = ours[s]
        BY <4>0, ExtendedFits
      <4> HIDE DEF x
      <4>2. IsOffer(x) /\ Fits(torrent, ours, o, x)
        BY <1>2, <4>0, <4>1 DEF IsOffer, Fits
      <4>3. wire'[o] = Append(r, x)
        BY <2>2, <2>4, <3>2, <4>1, AppendOne
      <4>4. offered'[s] = ours[s]
        <5>1. << x >> # << >>
          OBVIOUS
        <5> QED
          BY <1>3, <2>1, <3>2, <5>1 DEF TablesAre
      <4>5. Carried(torrent, ours, o, Append(r, x), x.body, Noted(o)', stage[o] = "failed")
        BY <1>2, <2>4, <4>1, <4>2, CarriedAppends
      <4> QED
        BY <1>1, <2>2, <4>1, <4>3, <4>4, <4>5
    <3> QED
      BY <2>5, <3>1, <3>2
  <2>7. Carried(torrent', ours', s, wire'[s], offered'[o], Noted(s)', stage'[s] = "failed")
    <3>1. offered'[o] = offered[o]
      BY <1>2, <1>3, <2>1 DEF TablesAre
    <3>2. Noted(s)' = Noted(s)
      BY <1>1, <1>8, <3>1 DEF Noted, Other, Usable
    <3> QED
      BY <1>1, <1>4, <2>2, <3>1, <3>2 DEF Carried
  <2>8. MailIsSound'
    <3>1. \A u \in Ends : Carried(torrent', ours', u, wire'[u], offered'[Other(u)], Noted(u)', stage'[u] = "failed")
      BY <1>2, <1>8, <2>6, <2>7
    <3> QED
      BY <3>1 DEF MailIsSound, Other
  <2>9. TablesAre'
    <3>1. offered' \in [Ends -> Offers]
      BY <1>3, <2>1 DEF TablesAre
    <3> QED
      BY <1>1, <1>3, <2>1, <2>2, <2>8, <3>1 DEF TablesAre, MailIsSound, Carried
  <2>10. SameTorrent'
    BY <1>1, <1>2, <1>3, <2>2, <2>3 DEF SameTorrent, Ends
  <2> QED
    BY <1>1, <1>3, <2>8, <2>9, <2>10 DEF ExtInv, NumbersAreGiven, NameSurvives, Distinct, Other
<1> QED
  BY <1>6, <1>7

LEMMA ExtInvStart ==
  ASSUME ExtensionsAssumption, ExtInit
  PROVE  ExtInv
<1>1. /\ {} \in Offers /\ << >> \in Seq(Mail) /\ Len(<< >>) = 0 /\ MaxSends \in Nat
      /\ OurOffers \subseteq Offers
  BY DEF Offers, Functional, OurOffers, ExtensionsAssumption
<1>2. TablesAre
  BY <1>1 DEF ExtInit, TablesAre
<1>3. NumbersAreGiven
  BY TwoEnds DEF ExtInit, NumbersAreGiven, OurOffers
<1>4. MailIsSound
  BY <1>1, TwoEnds DEF ExtInit, MailIsSound, Carried, Latest, Noted
<1>5. SameTorrent /\ NameSurvives
  BY DEF ExtInit, SameTorrent, NameSurvives
<1> QED
  BY <1>2, <1>3, <1>4, <1>5 DEF ExtInv

LEMMA ExtInvStep ==
  ASSUME ExtensionsAssumption, ExtInv, ExtNext \/ UNCHANGED extVars
  PROVE  ExtInv'
<1>1. CASE Dial
  BY <1>1, DialKeeps
<1>2. CASE AcceptHandshake
  BY <1>2, GreetsKeeps, TwoEnds DEF AcceptHandshake
<1>3. CASE Answered
  BY <1>3, GreetsKeeps, TwoEnds DEF Answered
<1>4. CASE Elsewhere
  BY <1>4, ElsewhereKeeps
<1>5. ASSUME NEW s \in Ends, Dropped(s) \/ HandleExtended(s)
      PROVE  ExtInv'
  BY <1>5, DroppedKeeps, ExtendedKeeps
<1>6. ASSUME NEW s \in Ends, NEW name \in Names, SendExtension(s, name)
      PROVE  ExtInv'
  BY <1>6, NumberedKeeps DEF SendExtension
<1>7. CASE UNCHANGED extVars
  <2>1. UNCHANGED <<torrent, ours, theirs, negotiated, stage, wire, sends, heard, offered>>
    BY <1>7 DEF extVars
  <2>2. \A u \in Ends : Noted(u)' = Noted(u)
    BY <2>1 DEF Noted, Other, Usable
  <2>3. MailIsSound'
    BY <2>1, <2>2 DEF ExtInv, MailIsSound, Other
  <2> QED
    BY <2>1, <2>3 DEF ExtInv, TablesAre, NumbersAreGiven, Other, Distinct, SameTorrent, NameSurvives
<1> QED
  BY <1>1, <1>2, <1>3, <1>4, <1>5, <1>6, <1>7 DEF ExtNext

LEMMA ExtInvMeans ==
  ASSUME ExtensionsAssumption, ExtInv
  PROVE  ExtTypeOK /\ SameTorrent /\ NameSurvives /\ AgreedAtRest
<1>1. ExtTypeOK
  BY DEF ExtInv, TablesAre, ExtTypeOK
<1>2. AgreedAtRest
  <2> SUFFICES ASSUME NEW s \in Ends, stage[s] = "open", wire[s] = << >>, offered[Other(s)] # {}
               PROVE  theirs[s] = Usable(offered[Other(s)]) /\ negotiated[s]
    BY DEF AgreedAtRest
  <2>1. Latest(<< >>, offered[Other(s)], Noted(s))
    BY DEF ExtInv, MailIsSound, Carried
  <2>2. Len(<< >>) = 0
    OBVIOUS
  <2>3. Noted(s)
    BY <2>1, <2>2 DEF Latest
  <2> QED
    BY <2>3 DEF Noted
<1> QED
  BY <1>1, <1>2 DEF ExtInv

(* Whatever numbers two clients choose, and whatever one that runs other    *)
(* code says, what this program hands on is what was meant, for the torrent *)
(* both mean, and at rest it knows what the other offers.                   *)
THEOREM PeersUnderstandAlways ==
  ASSUME ExtensionsAssumption
  PROVE  ExtSpec => [](ExtTypeOK /\ SameTorrent /\ NameSurvives /\ AgreedAtRest)
<1>1. ExtInit => ExtInv
  BY ExtInvStart
<1>2. ExtInv /\ [ExtNext]_extVars => ExtInv'
  BY ExtInvStep
<1>3. ExtInv => ExtTypeOK /\ SameTorrent /\ NameSurvives /\ AgreedAtRest
  BY ExtInvMeans
<1> QED
  BY <1>1, <1>2, <1>3, PTL DEF ExtSpec

-----------------------------------------------------------------------------
(* Peer exchange: sequences without their order.                            *)

(* What has a rank in a finite set of numbers, and every rank has something. *)
LEMMA RanksAre ==
  ASSUME NEW R, R \subseteq Nat \ {0}, IsFiniteSet(R)
  PROVE  /\ Cardinality(R) \in Nat
         /\ \A i \in R : Cardinality(R \cap (1 .. i)) \in 1 .. Cardinality(R)
         /\ \A i, j \in R : Cardinality(R \cap (1 .. i)) = Cardinality(R \cap (1 .. j)) => i = j
         /\ \A k \in 1 .. Cardinality(R) : \E i \in R : Cardinality(R \cap (1 .. i)) = k
<1> DEFINE n == Cardinality(R)
           rank == [i \in R |-> Cardinality(R \cap (1 .. i))]
<1>1. n \in Nat
  BY FS_CardinalityType
<1>2. ASSUME NEW i \in R PROVE rank[i] \in 1 .. n
  <2> DEFINE S == R \cap (1 .. i)
  <2>1. IsFiniteSet(S) /\ Cardinality(S) <= n /\ Cardinality(S) \in Nat
    BY FS_Subset, FS_CardinalityType
  <2>2. i \in S
    OBVIOUS
  <2>3. Cardinality(S) # 0
    BY <2>1, <2>2, FS_EmptySet
  <2> QED
    BY <1>1, <2>1, <2>3
<1>3. ASSUME NEW i \in R, NEW j \in R, i < j PROVE rank[i] # rank[j]
  <2> DEFINE S == R \cap (1 .. i)
             T == R \cap (1 .. j)
  <2>1. IsFiniteSet(T)
    BY FS_Subset
  <2>2. S \subseteq T /\ j \in T /\ j \notin S
    BY <1>3
  <2>3. Cardinality(S) # Cardinality(T)
    BY <2>1, <2>2, FS_Subset
  <2> QED
    BY <2>3
<1>4. \A i, j \in R : rank[i] = rank[j] => i = j
  <2> SUFFICES ASSUME NEW i \in R, NEW j \in R, rank[i] = rank[j] PROVE i = j
    OBVIOUS
  <2>1. i \in Nat /\ j \in Nat
    OBVIOUS
  <2>2. ~(i < j) /\ ~(j < i)
    BY <1>3
  <2> QED
    BY <2>1, <2>2
<1>5. rank \in [R -> 1 .. n]
  BY <1>2
<1> HIDE DEF rank
<1>6. rank \in Injection(R, 1 .. n)
  BY <1>4, <1>5 DEF Injection, IsInjective
<1>7. IsFiniteSet(1 .. n) /\ Cardinality(1 .. n) = n
  BY <1>1, FS_Interval
<1>8. rank \in Surjection(R, 1 .. n)
  BY <1>6, <1>7, FS_Injection
<1>9. \A k \in 1 .. n : \E i \in R : rank[i] = k
  BY <1>8 DEF Surjection
<1> QED
  BY <1>1, <1>2, <1>4, <1>9 DEF rank

(* What is picked from a sequence: the elements at the positions, in order.  *)
LEMMA PickedIs ==
  ASSUME NEW A, NEW m \in Nat, NEW s, DOMAIN s = 1 .. m, NEW I \in SUBSET (1 .. m),
         \A i \in I : s[i] \in A
  PROVE  /\ Picked(s, I) \in Seq(A) /\ ToSet(Picked(s, I)) = {s[i] : i \in I}
         /\ (\A i, j \in I : s[i] = s[j] => i = j) => IsInjective(Picked(s, I))
<1> DEFINE n == Cardinality(I)
           nth(k) == CHOOSE i \in I : Cardinality(I \cap (1 .. i)) = k
           w == [k \in 1 .. n |-> s[nth(k)]]
<1>1. Picked(s, I) = w
  BY DEF Picked
<1>2. I \subseteq Nat \ {0} /\ IsFiniteSet(I)
  <2>1. IsFiniteSet(1 .. m)
    BY FS_Interval
  <2>2. IsFiniteSet(I)
    BY <2>1, FS_Subset
  <2>3. \A i \in 1 .. m : i \in Nat \ {0}
    OBVIOUS
  <2> QED
    BY <2>2, <2>3
<1>3. /\ n \in Nat
      /\ \A i \in I : Cardinality(I \cap (1 .. i)) \in 1 .. n
      /\ \A i, j \in I : Cardinality(I \cap (1 .. i)) = Cardinality(I \cap (1 .. j)) => i = j
      /\ \A k \in 1 .. n : \E i \in I : Cardinality(I \cap (1 .. i)) = k
  BY <1>2, RanksAre
<1>4. ASSUME NEW k \in 1 .. n
      PROVE  nth(k) \in I /\ Cardinality(I \cap (1 .. nth(k))) = k
  BY <1>3
<1> HIDE DEF nth
<1>5. \A k \in 1 .. n : s[nth(k)] \in A
  BY <1>4
<1>6. w \in Seq(A)
  BY <1>3, <1>5
<1>7. ToSet(w) = {s[i] : i \in I}
  <2>1. ASSUME NEW x \in ToSet(w) PROVE x \in {s[i] : i \in I}
    BY <1>4, <2>1 DEF ToSet
  <2>2. ASSUME NEW i \in I PROVE s[i] \in ToSet(w)
    <3> DEFINE k == Cardinality(I \cap (1 .. i))
    <3>1. k \in 1 .. n
      BY <1>3
    <3>2. nth(k) = i
      BY <1>3, <1>4, <3>1
    <3> QED
      BY <3>1, <3>2 DEF ToSet
  <2> QED
    BY <2>1, <2>2
<1>8. ASSUME \A i, j \in I : s[i] = s[j] => i = j PROVE IsInjective(w)
  <2> SUFFICES ASSUME NEW k \in 1 .. n, NEW l \in 1 .. n, s[nth(k)] = s[nth(l)] PROVE k = l
    BY DEF IsInjective
  <2>1. nth(k) = nth(l)
    BY <1>4, <1>8
  <2> QED
    BY <1>4, <2>1
<1> HIDE DEF w
<1> QED
  BY <1>1, <1>6, <1>7, <1>8

LEMMA WithoutIs ==
  ASSUME NEW A, NEW s \in Seq(A), NEW S
  PROVE  /\ Without(s, S) \in Seq(A) /\ ToSet(Without(s, S)) = ToSet(s) \ S
         /\ IsInjective(s) => IsInjective(Without(s, S))
<1> DEFINE rest == {i \in DOMAIN s : s[i] \notin S}
<1>1. /\ Len(s) \in Nat /\ DOMAIN s = 1 .. Len(s) /\ rest \in SUBSET (1 .. Len(s))
      /\ \A i \in rest : s[i] \in A
  OBVIOUS
<1>2. {s[i] : i \in rest} = ToSet(s) \ S
  BY DEF ToSet
<1>3. IsInjective(s) => \A i, j \in rest : s[i] = s[j] => i = j
  BY DEF IsInjective
<1> HIDE DEF rest
<1>4. /\ Picked(s, rest) \in Seq(A) /\ ToSet(Picked(s, rest)) = {s[i] : i \in rest}
      /\ (\A i, j \in rest : s[i] = s[j] => i = j) => IsInjective(Picked(s, rest))
  BY <1>1, PickedIs
<1>5. Without(s, S) = Picked(s, rest)
  BY DEF Without, rest
<1> QED
  BY <1>2, <1>3, <1>4, <1>5

LEMMA SetToSeqIs ==
  ASSUME NEW S, IsFiniteSet(S)
  PROVE  SetToSeq(S) \in Seq(S) /\ ToSet(SetToSeq(S)) = S /\ IsInjective(SetToSeq(S))
<1> DEFINE n == Cardinality(S)
           q == SetToSeq(S)
<1>1. n \in Nat /\ ExistsBijection(1 .. n, S)
  BY FS_CardinalityType
<1>2. \E f \in [1 .. n -> S] : IsInjective(f)
  BY <1>1 DEF ExistsBijection, Bijection, Injection
<1>3. q \in [1 .. n -> S] /\ IsInjective(q)
  BY <1>2 DEF SetToSeq
<1> HIDE DEF q
<1>4. q \in Injection(1 .. n, S)
  BY <1>3 DEF Injection
<1>5. Cardinality(1 .. n) = n
  BY <1>1, FS_Interval
<1>6. q \in Surjection(1 .. n, S)
  BY <1>4, <1>5, FS_Injection
<1>7. ToSet(q) = S
  BY <1>3, <1>6 DEF ToSet, Surjection
<1>8. q \in Seq(S)
  BY <1>1, <1>3
<1> QED
  BY <1>3, <1>7, <1>8 DEF q

LEMMA JoinedAre ==
  ASSUME NEW A, NEW s \in Seq(A), NEW t \in Seq(A)
  PROVE  /\ s \o t \in Seq(A) /\ ToSet(s \o t) = ToSet(s) \cup ToSet(t)
         /\ IsInjective(s) /\ IsInjective(t) /\ ToSet(s) \cap ToSet(t) = {} => IsInjective(s \o t)
<1> DEFINE u == s \o t
<1>1. /\ u \in Seq(A) /\ Len(u) = Len(s) + Len(t) /\ Len(s) \in Nat /\ Len(t) \in Nat
      /\ DOMAIN u = 1 .. Len(s) + Len(t) /\ DOMAIN s = 1 .. Len(s) /\ DOMAIN t = 1 .. Len(t)
      /\ \A i \in 1 .. Len(s) : u[i] = s[i]
      /\ \A i \in 1 .. Len(t) : u[Len(s) + i] = t[i]
  BY ConcatProperties
<1> HIDE DEF u
<1>2. \A i \in DOMAIN u :
        (i \in DOMAIN s /\ u[i] = s[i]) \/ (i - Len(s) \in DOMAIN t /\ u[i] = t[i - Len(s)])
  <2> SUFFICES ASSUME NEW i \in DOMAIN u, ~(i <= Len(s))
               PROVE  i - Len(s) \in DOMAIN t /\ u[i] = t[i - Len(s)]
    BY <1>1
  <2>1. i - Len(s) \in 1 .. Len(t) /\ Len(s) + (i - Len(s)) = i
    BY <1>1
  <2> QED
    BY <1>1, <2>1
<1>3. ToSet(u) = ToSet(s) \cup ToSet(t)
  <2>1. ToSet(u) \subseteq ToSet(s) \cup ToSet(t)
    BY <1>2 DEF ToSet
  <2>2. ToSet(s) \subseteq ToSet(u)
    BY <1>1 DEF ToSet
  <2>3. ASSUME NEW i \in DOMAIN t PROVE t[i] \in ToSet(u)
    <3>1. Len(s) + i \in DOMAIN u /\ u[Len(s) + i] = t[i]
      BY <1>1
    <3> QED
      BY <3>1 DEF ToSet
  <2> QED
    BY <2>1, <2>2, <2>3 DEF ToSet
<1>4. ASSUME IsInjective(s), IsInjective(t), ToSet(s) \cap ToSet(t) = {} PROVE IsInjective(u)
  <2> SUFFICES ASSUME NEW i \in DOMAIN u, NEW j \in DOMAIN u, u[i] = u[j] PROVE i = j
    BY DEF IsInjective
  <2>1. i \in Int /\ j \in Int
    BY <1>1
  <2>2. CASE i \in DOMAIN s /\ u[i] = s[i] /\ j \in DOMAIN s /\ u[j] = s[j]
    BY <1>4, <2>2 DEF IsInjective
  <2>3. CASE /\ i - Len(s) \in DOMAIN t /\ u[i] = t[i - Len(s)]
             /\ j - Len(s) \in DOMAIN t /\ u[j] = t[j - Len(s)]
    <3>1. i - Len(s) = j - Len(s)
      BY <1>4, <2>3 DEF IsInjective
    <3> QED
      BY <1>1, <2>1, <3>1
  <2>4. ~(u[i] \in ToSet(s) /\ u[j] \in ToSet(t)) /\ ~(u[j] \in ToSet(s) /\ u[i] \in ToSet(t))
    BY <1>4
  <2> QED
    BY <1>2, <2>2, <2>3, <2>4 DEF ToSet
<1> QED
  BY <1>1, <1>3, <1>4 DEF u

(* A sequence cut in two: the first m of s, and the rest.                   *)
CutAt(s, m, f, r) ==
  /\ Len(f) = m /\ \A i \in 1 .. m : f[i] = s[i]
  /\ Len(r) = Len(s) - m /\ \A i \in 1 .. Len(s) - m : r[i] = s[m + i]

LEMMA CutAre ==
  ASSUME NEW A, NEW s \in Seq(A), IsInjective(s), NEW m \in 0 .. Len(s),
         NEW f \in Seq(A), NEW r \in Seq(A), CutAt(s, m, f, r)
  PROVE  /\ IsInjective(r) /\ ToSet(f) \cup ToSet(r) = ToSet(s) /\ ToSet(f) \cap ToSet(r) = {}
         /\ Cardinality(ToSet(f)) <= m
<1>1. m \in Nat /\ m <= Len(s) /\ Len(s) \in Nat /\ DOMAIN s = 1 .. Len(s)
  OBVIOUS
<1>3. DOMAIN f = 1 .. m /\ \A i \in 1 .. m : f[i] = s[i]
  BY DEF CutAt
<1>4. DOMAIN r = 1 .. Len(s) - m /\ \A i \in 1 .. Len(s) - m : r[i] = s[m + i]
  BY DEF CutAt
<1>5. IsInjective(r)
  <2> SUFFICES ASSUME NEW i \in DOMAIN r, NEW j \in DOMAIN r, r[i] = r[j] PROVE i = j
    BY DEF IsInjective
  <2>1. m + i \in DOMAIN s /\ m + j \in DOMAIN s /\ s[m + i] = s[m + j]
    BY <1>1, <1>4
  <2>2. m + i = m + j
    BY <2>1 DEF IsInjective
  <2> QED
    BY <1>1, <1>4, <2>2
<1>6. ToSet(f) \cup ToSet(r) = ToSet(s)
  <2>1. ToSet(f) \subseteq ToSet(s)
    BY <1>1, <1>3 DEF ToSet
  <2>2. ToSet(r) \subseteq ToSet(s)
    <3> SUFFICES ASSUME NEW i \in DOMAIN r PROVE r[i] \in ToSet(s)
      BY DEF ToSet
    <3>1. m + i \in DOMAIN s /\ r[i] = s[m + i]
      BY <1>1, <1>4
    <3> QED
      BY <3>1 DEF ToSet
  <2>3. ASSUME NEW i \in DOMAIN s PROVE s[i] \in ToSet(f) \cup ToSet(r)
    <3>1. CASE i <= m
      BY <1>1, <1>3, <3>1 DEF ToSet
    <3>2. CASE ~(i <= m)
      <4>1. i - m \in DOMAIN r /\ r[i - m] = s[i]
        BY <1>1, <1>4, <3>2
      <4> QED
        BY <4>1 DEF ToSet
    <3> QED
      BY <3>1, <3>2
  <2> QED
    BY <2>1, <2>2, <2>3 DEF ToSet
<1>7. ToSet(f) \cap ToSet(r) = {}
  <2> SUFFICES ASSUME NEW i \in DOMAIN f, NEW j \in DOMAIN r, f[i] = r[j] PROVE FALSE
    BY DEF ToSet
  <2>1. i \in DOMAIN s /\ m + j \in DOMAIN s /\ s[i] = s[m + j] /\ i < m + j
    BY <1>1, <1>3, <1>4
  <2>2. i = m + j
    BY <2>1 DEF IsInjective
  <2> QED
    BY <1>1, <1>3, <1>4, <2>1, <2>2
<1>8. Cardinality(ToSet(f)) <= m
  <2>1. f \in Surjection(1 .. m, ToSet(f))
    BY <1>3 DEF Surjection, ToSet
  <2>2. IsFiniteSet(1 .. m) /\ Cardinality(1 .. m) = m
    BY <1>1, FS_Interval
  <2>3. IsFiniteSet(ToSet(f)) /\ Cardinality(ToSet(f)) <= m
    BY <2>1, <2>2, FS_Surjection
  <2> QED
    BY <2>3
<1> QED
  BY <1>5, <1>6, <1>7, <1>8

LEMMA CutIs ==
  ASSUME NEW A, NEW s \in Seq(A), NEW m \in 0 .. Len(s)
  PROVE  /\ SubSeq(s, 1, m) \in Seq(A) /\ Len(SubSeq(s, 1, m)) = m
         /\ \A i \in 1 .. m : SubSeq(s, 1, m)[i] = s[i]
         /\ SubSeq(s, m + 1, Len(s)) \in Seq(A) /\ Len(SubSeq(s, m + 1, Len(s))) = Len(s) - m
         /\ \A i \in 1 .. Len(s) - m : SubSeq(s, m + 1, Len(s))[i] = s[m + i]
<1>1. /\ Len(s) \in Nat /\ m \in Nat /\ m <= Len(s) /\ \A i \in 1 .. Len(s) : s[i] \in A
  OBVIOUS
<1>2. /\ SubSeq(s, 1, m) \in Seq(A) /\ Len(SubSeq(s, 1, m)) = IF 1 <= m THEN m - 1 + 1 ELSE 0
      /\ \A i \in 1 .. m - 1 + 1 : SubSeq(s, 1, m)[i] = s[1 + i - 1]
  <2>1. 1 \in Int /\ m \in Int /\ \A i \in 1 .. m : s[i] \in A
    BY <1>1
  <2> QED
    BY <2>1, SubSeqProperties
<1>3. /\ SubSeq(s, m + 1, Len(s)) \in Seq(A)
      /\ Len(SubSeq(s, m + 1, Len(s))) = IF m + 1 <= Len(s) THEN Len(s) - (m + 1) + 1 ELSE 0
      /\ \A i \in 1 .. Len(s) - (m + 1) + 1 : SubSeq(s, m + 1, Len(s))[i] = s[(m + 1) + i - 1]
  <2>1. m + 1 \in Int /\ Len(s) \in Int /\ \A i \in m + 1 .. Len(s) : s[i] \in A
    BY <1>1
  <2> QED
    BY <2>1, SubSeqProperties
<1>4. /\ (IF 1 <= m THEN m - 1 + 1 ELSE 0) = m /\ m - 1 + 1 = m
      /\ (IF m + 1 <= Len(s) THEN Len(s) - (m + 1) + 1 ELSE 0) = Len(s) - m
      /\ Len(s) - (m + 1) + 1 = Len(s) - m
      /\ \A i \in Int : (m + 1) + i - 1 = m + i /\ 1 + i - 1 = i
  BY <1>1
<1>5. ASSUME NEW i \in 1 .. m PROVE SubSeq(s, 1, m)[i] = s[i]
  <2>1. i \in Int /\ i \in 1 .. m - 1 + 1 /\ 1 + i - 1 = i
    BY <1>1
  <2> QED
    BY <1>2, <2>1
<1>6. ASSUME NEW i \in 1 .. Len(s) - m PROVE SubSeq(s, m + 1, Len(s))[i] = s[m + i]
  <2>1. i \in Int /\ i \in 1 .. Len(s) - (m + 1) + 1 /\ (m + 1) + i - 1 = m + i
    BY <1>1
  <2> QED
    BY <1>3, <2>1
<1> QED
  BY <1>2, <1>3, <1>4, <1>5, <1>6

(* The first of a sequence, and what comes after them.                      *)
LEMMA FirstAre ==
  ASSUME NEW A, NEW s \in Seq(A), IsInjective(s), NEW n \in Nat, NEW f, f = First(s, n)
  PROVE  /\ f \in Seq(A) /\ SubSeq(s, Len(f) + 1, Len(s)) \in Seq(A)
         /\ IsInjective(SubSeq(s, Len(f) + 1, Len(s)))
         /\ ToSet(f) \cup ToSet(SubSeq(s, Len(f) + 1, Len(s))) = ToSet(s)
         /\ ToSet(f) \cap ToSet(SubSeq(s, Len(f) + 1, Len(s))) = {}
         /\ Cardinality(ToSet(f)) <= n
<1>1. \E m \in 0 .. Len(s) : m <= n /\ f = SubSeq(s, 1, m)
  BY DEF First
<1>2. PICK m \in 0 .. Len(s) : m <= n /\ f = SubSeq(s, 1, m)
  BY <1>1
<1>3. /\ f \in Seq(A) /\ Len(f) = m /\ \A i \in 1 .. m : f[i] = s[i]
  BY <1>2, CutIs
<1>4. \E r : r = SubSeq(s, m + 1, Len(s))
  OBVIOUS
<1>5. PICK r : r = SubSeq(s, m + 1, Len(s))
  BY <1>4
<1>6. /\ r \in Seq(A) /\ Len(r) = Len(s) - m /\ \A i \in 1 .. Len(s) - m : r[i] = s[m + i]
  BY <1>5, CutIs
<1>7. /\ IsInjective(r) /\ ToSet(f) \cup ToSet(r) = ToSet(s) /\ ToSet(f) \cap ToSet(r) = {}
      /\ Cardinality(ToSet(f)) <= m
  <2>1. CutAt(s, m, f, r)
    BY <1>3, <1>6 DEF CutAt
  <2>2. f \in Seq(A) /\ r \in Seq(A)
    BY <1>3, <1>6
  <2> QED
    BY <2>1, <2>2, CutAre
<1>8. r = SubSeq(s, Len(f) + 1, Len(s))
  BY <1>3, <1>5
<1>9. Cardinality(ToSet(f)) \in Nat
  <2>1. f \in Surjection(1 .. m, ToSet(f))
    <3>1. f \in [1 .. m -> ToSet(f)]
      BY <1>3 DEF ToSet
    <3> QED
      BY <1>3, <3>1 DEF Surjection, ToSet
  <2>2. IsFiniteSet(1 .. m)
    BY FS_Interval
  <2> QED
    BY <2>1, <2>2, FS_Surjection, FS_CardinalityType
<1>10. Cardinality(ToSet(f)) <= n
  BY <1>2, <1>7, <1>9
<1> QED
  BY <1>3, <1>7, <1>8, <1>10, <1>6

-----------------------------------------------------------------------------
(* What is noted as told is what was told.                                  *)

LedgersOf(A) == [on : BOOLEAN, of : Nat, said : SUBSET A, adds : Seq(A), drops : Seq(A),
                 due : BOOLEAN, first : BOOLEAN]
MessagesTo(A) == [to : A \cup {"none"}, nth : Nat, add : SUBSET A, drop : SUBSET A]
PassesOver(A) == [left : Seq([to : A, nth : Nat]), message : MessagesTo(A), on : BOOLEAN]

HellosOf(A) == [pex : BOOLEAN, home : A \cup {"none"}]

PexShape ==
  /\ joined \in [Addresses -> 0 .. Returns] /\ knows \in [Addresses -> SUBSET Addresses]
  /\ swarm \in Seq(Addresses) /\ IsInjective(swarm) /\ broken \subseteq ToSet(swarm)
  /\ contacts \in Seq(Addresses) /\ IsInjective(contacts)
  /\ ledgers \in [Addresses -> LedgersOf(Addresses)] /\ round \in PassesOver(Addresses)
  /\ hello \in [Addresses -> [1 .. Returns -> HellosOf(Addresses)]]

(* A ledger: nobody is to be added who was said, none dropped who was not.  *)
InOrder(l, a) ==
  /\ l.said \subseteq Addresses \ {a} /\ ToSet(l.adds) \subseteq Addresses \ {a}
  /\ IsInjective(l.adds) /\ IsInjective(l.drops)
  /\ ToSet(l.adds) \cap l.said = {} /\ ToSet(l.drops) \subseteq l.said

LedgersInOrder == \A a \in Addresses : InOrder(ledgers[a], a)

(* Connections are counted from one, and a ledger is of one there was.      *)
CountedFromOne ==
  /\ \A a \in ToSet(swarm) : joined[a] >= 1
  /\ \A a \in Addresses : /\ ledgers[a].of <= joined[a]
                          /\ ~ledgers[a].on => ledgers[a].of = 0 /\ ledgers[a].said = {}

(* Whoever a pass has still to tell, it has once, and no ledger of a later  *)
(* connection is there yet.                                                 *)
LeftAreOnce ==
  /\ \A k \in DOMAIN round.left :
       LET c == round.left[k] IN
       c.nth >= 1 /\ c.nth <= joined[c.to] /\ ledgers[c.to].of <= c.nth
  /\ \A k, l \in DOMAIN round.left : round.left[k].to = round.left[l].to => k = l

(* The message under way is of a ledger that is there if its connection is. *)
MessageIsOf ==
  LET m == round.message IN
  m # NoMessage =>
    /\ round.on /\ m.to \in Addresses /\ m.nth <= joined[m.to] /\ ledgers[m.to].of <= m.nth
    /\ m.to \in ToSet(swarm) /\ joined[m.to] = m.nth => ledgers[m.to].on

(* What the peer knows once the message under way has arrived.              *)
KnowsThen(a) ==
  LET m == round.message IN
  IF m # NoMessage /\ m.to = a THEN (knows[a] \ m.drop) \cup m.add ELSE knows[a]

SaidIsKnown ==
  /\ \A a \in ToSet(swarm) : ~ledgers[a].on => knows[a] = {}
  /\ \A a \in ToSet(swarm) \ broken :
       ledgers[a].of = joined[a] => ledgers[a].said = KnowsThen(a)

PexInv ==
  /\ PexShape /\ LedgersInOrder /\ CountedFromOne /\ LeftAreOnce /\ MessageIsOf /\ SaidIsKnown
  /\ WithdrawnIsGone

LEMMA LedgerParts ==
  ASSUME NEW A, NEW l \in LedgersOf(A)
  PROVE  /\ l.on \in BOOLEAN /\ l.of \in Nat /\ l.said \in SUBSET A
         /\ l.adds \in Seq(A) /\ l.drops \in Seq(A) /\ l.due \in BOOLEAN /\ l.first \in BOOLEAN
BY DEF LedgersOf

(* A ledger brought up to date, whatever the swarm was.                     *)
LEMMA SyncIs ==
  ASSUME PexAssumption, NEW l \in LedgersOf(Addresses), NEW a \in Addresses, InOrder(l, a),
         NEW snap \in Seq(Addresses), IsInjective(snap), a \notin ToSet(snap)
  PROVE  LET s == Sync(l, snap)
         IN /\ s \in LedgersOf(Addresses) /\ InOrder(s, a) /\ ToSet(s.drops) \cap ToSet(snap) = {}
            /\ s.said = l.said /\ s.of = l.of /\ s.on = l.on /\ s.first = l.first
<1> DEFINE gone == l.said \ ToSet(snap)
           stay == Without(l.adds, gone)
           new == Without(snap, l.said \cup ToSet(l.adds))
           kept == Without(l.drops, ToSet(snap))
           more == SetToSeq(gone \ ToSet(kept))
           s == Sync(l, snap)
<1>1. /\ l.said \in SUBSET Addresses /\ l.adds \in Seq(Addresses) /\ l.drops \in Seq(Addresses)
      /\ l.on \in BOOLEAN /\ l.of \in Nat /\ l.due \in BOOLEAN /\ l.first \in BOOLEAN
  BY LedgerParts
<1>2. /\ l.said \subseteq Addresses \ {a} /\ ToSet(l.adds) \subseteq Addresses \ {a}
      /\ IsInjective(l.adds) /\ IsInjective(l.drops)
      /\ ToSet(l.adds) \cap l.said = {} /\ ToSet(l.drops) \subseteq l.said
  BY DEF InOrder
<1>3. s = [l EXCEPT !.adds = stay \o new, !.drops = kept \o more]
  BY DEF Sync
<1>4. s \in [on : BOOLEAN, of : Nat, said : SUBSET Addresses, adds : {stay \o new}, drops : {kept \o more},
             due : BOOLEAN, first : BOOLEAN]
      /\ s.said = l.said /\ s.of = l.of /\ s.on = l.on /\ s.first = l.first
      /\ s.adds = stay \o new /\ s.drops = kept \o more
  BY <1>1, <1>3 DEF LedgersOf
<1> HIDE DEF s
<1>5. /\ stay \in Seq(Addresses) /\ ToSet(stay) = ToSet(l.adds) \ gone /\ IsInjective(stay)
  BY <1>1, <1>2, WithoutIs
<1>6. /\ new \in Seq(Addresses) /\ ToSet(new) = ToSet(snap) \ (l.said \cup ToSet(l.adds)) /\ IsInjective(new)
  BY WithoutIs
<1>7. /\ kept \in Seq(Addresses) /\ ToSet(kept) = ToSet(l.drops) \ ToSet(snap) /\ IsInjective(kept)
  BY <1>1, <1>2, WithoutIs
<1>8. /\ more \in Seq(gone \ ToSet(kept)) /\ ToSet(more) = gone \ ToSet(kept) /\ IsInjective(more)
  <2>1. gone \ ToSet(kept) \subseteq Addresses /\ IsFiniteSet(Addresses)
    BY <1>1 DEF PexAssumption
  <2>2. IsFiniteSet(gone \ ToSet(kept))
    BY <2>1, FS_Subset
  <2> QED
    BY <2>2, SetToSeqIs
<1>9. more \in Seq(Addresses)
  <2>1. gone \ ToSet(kept) \subseteq Addresses
    BY <1>1
  <2> QED
    BY <1>8, <2>1
<1>10. gone = l.said \ ToSet(snap)
  OBVIOUS
<1> HIDE DEF stay, new, kept, more, gone
<1>11. /\ stay \o new \in Seq(Addresses) /\ ToSet(stay \o new) = ToSet(stay) \cup ToSet(new)
       /\ IsInjective(stay \o new)
  <2>1. ToSet(stay) \cap ToSet(new) = {}
    BY <1>5, <1>6
  <2> QED
    BY <1>5, <1>6, <2>1, JoinedAre
<1>12. /\ kept \o more \in Seq(Addresses) /\ ToSet(kept \o more) = ToSet(kept) \cup ToSet(more)
       /\ IsInjective(kept \o more)
  <2>1. ToSet(kept) \cap ToSet(more) = {}
    BY <1>7, <1>8
  <2> QED
    BY <1>7, <1>8, <1>9, <2>1, JoinedAre
<1>13. s \in LedgersOf(Addresses)
  BY <1>4, <1>11, <1>12 DEF LedgersOf
<1>14. ToSet(s.drops) \cap ToSet(snap) = {} /\ ToSet(s.drops) \subseteq s.said
  BY <1>2, <1>4, <1>7, <1>8, <1>10, <1>12
<1>15. ToSet(s.adds) \cap s.said = {} /\ ToSet(s.adds) \subseteq Addresses \ {a}
  <2>1. ToSet(snap) \subseteq Addresses
    BY DEF ToSet
  <2> QED
    BY <1>2, <1>4, <1>5, <1>6, <1>11, <2>1
<1>16. InOrder(s, a)
  BY <1>2, <1>4, <1>11, <1>12, <1>14, <1>15 DEF InOrder
<1> QED
  BY <1>4, <1>13, <1>14, <1>16 DEF s

(* A message built from a ledger: within its caps, and noted as said.       *)
LEMMA BuiltIs ==
  ASSUME PexAssumption, NEW l \in LedgersOf(Addresses), NEW a \in Addresses, InOrder(l, a)
  PROVE  LET built == Built(l)  add == ToSet(Additions(l))  drop == ToSet(Retractions(l))
         IN /\ built \in LedgersOf(Addresses) /\ InOrder(built, a) /\ built.of = l.of /\ built.on = l.on
            /\ built.said = (l.said \ drop) \cup add
            /\ add \subseteq ToSet(l.adds) /\ drop \subseteq ToSet(l.drops) /\ add \cap drop = {}
            /\ Cardinality(add) <= MaxInitial /\ Cardinality(drop) <= MaxLater
<1> DEFINE n == IF l.first THEN MaxInitial ELSE MaxLater
           f == Additions(l)
           r == SubSeq(l.adds, Len(f) + 1, Len(l.adds))
           g == Retractions(l)
           t == SubSeq(l.drops, Len(g) + 1, Len(l.drops))
           said == (l.said \ ToSet(g)) \cup ToSet(f)
           built == Built(l)
<1>1. /\ l.said \in SUBSET Addresses /\ l.adds \in Seq(Addresses) /\ l.drops \in Seq(Addresses)
      /\ l.on \in BOOLEAN /\ l.of \in Nat /\ l.due \in BOOLEAN /\ l.first \in BOOLEAN
  BY LedgerParts
<1>2. /\ l.said \subseteq Addresses \ {a} /\ ToSet(l.adds) \subseteq Addresses \ {a}
      /\ IsInjective(l.adds) /\ IsInjective(l.drops)
      /\ ToSet(l.adds) \cap l.said = {} /\ ToSet(l.drops) \subseteq l.said
  BY DEF InOrder
<1>3. n \in Nat /\ n <= MaxInitial /\ MaxLater \in Nat /\ MaxInitial \in Nat
  BY DEF PexAssumption
<1>4. f = First(l.adds, n) /\ g = First(l.drops, MaxLater)
  BY DEF Additions, Retractions
<1>5. built = [l EXCEPT !.adds = r, !.drops = t, !.said = said, !.due = FALSE, !.first = FALSE]
  BY DEF Built
<1>6. built \in [on : BOOLEAN, of : Nat, said : {said}, adds : {r}, drops : {t}, due : BOOLEAN, first : BOOLEAN]
      /\ built.said = said /\ built.of = l.of /\ built.on = l.on /\ built.adds = r /\ built.drops = t
  BY <1>1, <1>5 DEF LedgersOf
<1> HIDE DEF f, g, n, built
<1>7. /\ f \in Seq(Addresses) /\ r \in Seq(Addresses) /\ IsInjective(r)
      /\ ToSet(f) \cup ToSet(r) = ToSet(l.adds) /\ ToSet(f) \cap ToSet(r) = {}
      /\ Cardinality(ToSet(f)) <= n
  BY <1>1, <1>2, <1>3, <1>4, FirstAre
<1>8. /\ g \in Seq(Addresses) /\ t \in Seq(Addresses) /\ IsInjective(t)
      /\ ToSet(g) \cup ToSet(t) = ToSet(l.drops) /\ ToSet(g) \cap ToSet(t) = {}
      /\ Cardinality(ToSet(g)) <= MaxLater
  BY <1>1, <1>2, <1>3, <1>4, FirstAre
<1> HIDE DEF r, t
<1>9. ToSet(f) \subseteq Addresses /\ ToSet(g) \subseteq Addresses
  BY <1>2, <1>7, <1>8
<1>10. said \subseteq Addresses \ {a} /\ said \in SUBSET Addresses
  BY <1>2, <1>7, <1>8
<1>11. ToSet(r) \cap said = {} /\ ToSet(t) \subseteq said /\ ToSet(r) \subseteq Addresses \ {a}
  BY <1>2, <1>7, <1>8
<1> HIDE DEF said
<1>12. built \in LedgersOf(Addresses)
  BY <1>6, <1>7, <1>8, <1>10 DEF LedgersOf
<1>13. InOrder(built, a)
  BY <1>6, <1>7, <1>8, <1>10, <1>11 DEF InOrder
<1>14. Cardinality(ToSet(f)) <= MaxInitial
  <2>1. IsFiniteSet(ToSet(f)) /\ Cardinality(ToSet(f)) \in Nat
    BY <1>9, FS_Subset, FS_CardinalityType DEF PexAssumption
  <2> QED
    BY <1>3, <1>7, <2>1
<1>15. ToSet(f) \subseteq ToSet(l.adds) /\ ToSet(g) \subseteq ToSet(l.drops) /\ ToSet(f) \cap ToSet(g) = {}
  BY <1>2, <1>7, <1>8
<1> QED
  BY <1>6, <1>8, <1>12, <1>13, <1>14, <1>15 DEF f, g, built, said

LEMMA NothingIs ==
  ASSUME NEW A
  PROVE  << >> \in Seq(A) /\ ToSet(<< >>) = {} /\ IsInjective(<< >>)
BY DEF ToSet, IsInjective

LEMMA AppendedIs ==
  ASSUME NEW A, NEW s \in Seq(A), NEW a \in A, IsInjective(s), a \notin ToSet(s)
  PROVE  /\ Append(s, a) \in Seq(A) /\ ToSet(Append(s, a)) = ToSet(s) \cup {a}
         /\ IsInjective(Append(s, a))
<1>1. /\ Append(s, a) \in Seq(A) /\ Len(s) \in Nat /\ DOMAIN s = 1 .. Len(s)
      /\ DOMAIN Append(s, a) = 1 .. Len(s) + 1 /\ Append(s, a)[Len(s) + 1] = a
      /\ \A i \in 1 .. Len(s) : Append(s, a)[i] = s[i]
  OBVIOUS
<1> DEFINE t == Append(s, a)
<1> HIDE DEF t
<1>2. ToSet(t) = ToSet(s) \cup {a}
  <2>1. ToSet(t) \subseteq ToSet(s) \cup {a}
    <3> SUFFICES ASSUME NEW i \in DOMAIN t PROVE t[i] \in ToSet(s) \cup {a}
      BY DEF ToSet
    <3>1. i \in 1 .. Len(s) \/ i = Len(s) + 1
      BY <1>1 DEF t
    <3> QED
      BY <1>1, <3>1 DEF ToSet, t
  <2>2. \A i \in DOMAIN s : i \in DOMAIN t /\ t[i] = s[i]
    BY <1>1 DEF t
  <2>3. Len(s) + 1 \in DOMAIN t /\ t[Len(s) + 1] = a
    BY <1>1 DEF t
  <2>4. ToSet(s) \subseteq ToSet(t) /\ a \in ToSet(t)
    BY <2>2, <2>3 DEF ToSet
  <2> QED
    BY <2>1, <2>4
<1>3. IsInjective(t)
  <2> SUFFICES ASSUME NEW i \in DOMAIN t, NEW j \in DOMAIN t, t[i] = t[j] PROVE i = j
    BY DEF IsInjective
  <2>1. (i \in 1 .. Len(s) \/ i = Len(s) + 1) /\ (j \in 1 .. Len(s) \/ j = Len(s) + 1)
    BY <1>1 DEF t
  <2>2. CASE i \in 1 .. Len(s) /\ j \in 1 .. Len(s)
    BY <1>1, <2>2 DEF IsInjective, t
  <2>3. \A k \in 1 .. Len(s) : t[k] # a
    BY <1>1 DEF ToSet, t
  <2> QED
    BY <1>1, <2>1, <2>2, <2>3 DEF t
<1> QED
  BY <1>1, <1>2, <1>3 DEF t

LEMMA ContainsIs ==
  ASSUME NEW A, NEW s \in Seq(A), NEW a
  PROVE  Contains(s, a) <=> a \in ToSet(s)
BY DEF Contains, ToSet

LEMMA NoLedgerIs ==
  ASSUME NEW a \in Addresses
  PROVE  /\ NoLedger \in LedgersOf(Addresses) /\ InOrder(NoLedger, a)
         /\ NoLedger.of = 0 /\ NoLedger.on = FALSE /\ NoLedger.said = {}
BY NothingIs DEF NoLedger, LedgersOf, InOrder

LEMMA NoMessageIs ==
  /\ NoMessage \in MessagesTo(Addresses) /\ NoMessage.add = {} /\ NoMessage.drop = {} /\ NoMessage.nth = 0
BY DEF NoMessage, MessagesTo

LEMMA ElementsAre ==
  ASSUME NEW A, NEW s \in Seq(A)
  PROVE  ToSet(s) \subseteq A
BY DEF ToSet

LEMMA ElementIs ==
  ASSUME NEW A, NEW s \in Seq(A), NEW k \in DOMAIN s
  PROVE  s[k] \in A
OBVIOUS

(* The parts of a pass.                                                     *)
LEMMA LeftOf ==
  ASSUME NEW A, NEW r \in PassesOver(A)
  PROVE  /\ r.left \in Seq([to : A, nth : Nat])
         /\ \A k \in DOMAIN r.left : r.left[k].to \in A /\ r.left[k].nth \in Nat
<1>1. r.left \in Seq([to : A, nth : Nat])
  BY DEF PassesOver
<1>2. \A k \in DOMAIN r.left : r.left[k] \in [to : A, nth : Nat]
  BY <1>1, ElementIs
<1> QED
  BY <1>1, <1>2

LEMMA MessageOf ==
  ASSUME NEW A, NEW r \in PassesOver(A)
  PROVE  /\ r.message \in MessagesTo(A) /\ r.message.nth \in Nat /\ r.on \in BOOLEAN
         /\ r.message.to \in A \cup {"none"} /\ r.message.add \in SUBSET A /\ r.message.drop \in SUBSET A
<1>1. r.message \in MessagesTo(A) /\ r.on \in BOOLEAN
  BY DEF PassesOver
<1> QED
  BY <1>1 DEF MessagesTo

LEMMA PexInvStart ==
  ASSUME PexAssumption, PexInit
  PROVE  PexInv
<1>1. /\ joined = [a \in Addresses |-> 0] /\ swarm = <<>> /\ broken = {}
      /\ ledgers = [a \in Addresses |-> NoLedger] /\ knows = [a \in Addresses |-> {}]
      /\ round = [left |-> <<>>, message |-> NoMessage, on |-> FALSE] /\ contacts = <<>>
      /\ hello = [a \in Addresses |-> [n \in 1 .. Returns |-> NotMet]]
  BY DEF PexInit, Resting
<1>2. ToSet(swarm) = {} /\ ToSet(contacts) = {} /\ DOMAIN round.left = {} /\ round.message = NoMessage
  BY <1>1, NothingIs
<1>3. PexShape
  <2>1. swarm \in Seq(Addresses) /\ IsInjective(swarm) /\ contacts \in Seq(Addresses) /\ IsInjective(contacts)
    BY <1>1, NothingIs
  <2>2. round \in PassesOver(Addresses)
    BY <1>1, NothingIs, NoMessageIs DEF PassesOver
  <2>3. ledgers \in [Addresses -> LedgersOf(Addresses)]
    BY <1>1, NoLedgerIs
  <2>4. joined \in [Addresses -> 0 .. Returns] /\ knows \in [Addresses -> SUBSET Addresses]
    BY <1>1 DEF PexAssumption
  <2>5. NotMet \in HellosOf(Addresses)
    BY DEF NotMet, HellosOf
  <2>6. hello \in [Addresses -> [1 .. Returns -> HellosOf(Addresses)]]
    BY <1>1, <2>5
  <2> QED
    BY <1>1, <2>1, <2>2, <2>3, <2>4, <2>6 DEF PexShape
<1>4. LedgersInOrder /\ CountedFromOne
  <2>1. \A a \in Addresses : ledgers[a] = NoLedger /\ joined[a] = 0
    BY <1>1
  <2>2. LedgersInOrder
    <3>1. \A a \in Addresses : InOrder(NoLedger, a)
      BY NoLedgerIs
    <3> QED
      BY <2>1, <3>1 DEF LedgersInOrder
  <2>3. \A a \in Addresses : ledgers[a].of = 0 /\ ledgers[a].said = {} /\ joined[a] = 0
    BY <2>1, NoLedgerIs
  <2>4. CountedFromOne
    BY <1>2, <2>3 DEF CountedFromOne
  <2> QED
    BY <2>2, <2>4
<1>5. LeftAreOnce /\ MessageIsOf /\ SaidIsKnown
  BY <1>2 DEF LeftAreOnce, MessageIsOf, SaidIsKnown
<1>6. WithdrawnIsGone
  BY <1>2, NoMessageIs, FS_EmptySet DEF WithdrawnIsGone, PexAssumption
<1> QED
  BY <1>3, <1>4, <1>5, <1>6 DEF PexInv

LEMMA JoinsKeeps ==
  ASSUME PexAssumption, PexInv, NEW a \in Addresses, Joins(a)
  PROVE  PexInv'
<1>1. /\ PexShape /\ LedgersInOrder /\ CountedFromOne /\ LeftAreOnce /\ MessageIsOf /\ SaidIsKnown
      /\ WithdrawnIsGone
  BY DEF PexInv
<1>2. /\ joined' = [joined EXCEPT ![a] = @ + 1] /\ joined[a] < Returns /\ ~Contains(swarm, a)
      /\ swarm' = Append(swarm, a) /\ knows' = [knows EXCEPT ![a] = {}]
      /\ UNCHANGED <<broken, hello, ledgers, round, contacts>>
  BY DEF Joins
<1>3. /\ joined \in [Addresses -> 0 .. Returns] /\ swarm \in Seq(Addresses) /\ IsInjective(swarm)
      /\ knows \in [Addresses -> SUBSET Addresses] /\ Returns \in Nat /\ broken \subseteq ToSet(swarm)
      /\ ledgers \in [Addresses -> LedgersOf(Addresses)]
  BY <1>1 DEF PexShape, PexAssumption
<1>4. a \notin ToSet(swarm)
  BY <1>2, <1>3, ContainsIs
<1>5. swarm' \in Seq(Addresses) /\ IsInjective(swarm') /\ ToSet(swarm') = ToSet(swarm) \cup {a}
  BY <1>2, <1>3, <1>4, AppendedIs
<1>6. /\ joined'[a] = joined[a] + 1 /\ joined[a] \in Nat
      /\ \A x \in Addresses : x # a => joined'[x] = joined[x] /\ knows'[x] = knows[x]
      /\ \A x \in Addresses : joined[x] <= joined'[x] /\ joined[x] \in Nat /\ joined'[x] \in Nat
      /\ knows'[a] = {}
  BY <1>2, <1>3
<1>7. \A x \in Addresses : ledgers[x].of \in Nat /\ ledgers[x].of <= joined[x]
  BY <1>1, <1>3, LedgerParts DEF CountedFromOne
<1>8. \A k \in DOMAIN round.left : round.left[k].to \in Addresses /\ round.left[k].nth \in Nat
  BY <1>1, LeftOf DEF PexShape
<1>0. ToSet(swarm) \subseteq Addresses
  BY <1>3, ElementsAre
<1>9. PexShape'
  <2>1. joined' \in [Addresses -> 0 .. Returns] /\ knows' \in [Addresses -> SUBSET Addresses]
    BY <1>2, <1>3
  <2> QED
    BY <1>1, <1>2, <1>3, <1>5, <2>1 DEF PexShape
<1>10. LedgersInOrder' /\ WithdrawnIsGone'
  BY <1>1, <1>2 DEF LedgersInOrder, WithdrawnIsGone
<1>11. CountedFromOne'
  <2>1. \A x \in ToSet(swarm') : joined'[x] >= 1
    <3> SUFFICES ASSUME NEW x \in ToSet(swarm') PROVE joined'[x] >= 1
      OBVIOUS
    <3>1. CASE x = a
      BY <1>6, <3>1
    <3>2. CASE x # a
      <4>1. x \in ToSet(swarm) /\ x \in Addresses
        BY <1>0, <1>5, <3>2
      <4> QED
        BY <1>1, <1>6, <3>2, <4>1 DEF CountedFromOne
    <3> QED
      BY <3>1, <3>2
  <2>2. \A x \in Addresses : ledgers[x].of <= joined'[x]
    BY <1>6, <1>7
  <2> QED
    BY <1>1, <1>2, <2>1, <2>2 DEF CountedFromOne
<1>12. LeftAreOnce'
  <2>1. \A k \in DOMAIN round.left : round.left[k].nth <= joined'[round.left[k].to]
    BY <1>1, <1>6, <1>8 DEF LeftAreOnce
  <2> QED
    BY <1>1, <1>2, <2>1 DEF LeftAreOnce
<1>13. MessageIsOf'
  <2> DEFINE m == round.message
  <2> SUFFICES ASSUME m # NoMessage
               PROVE  /\ m.nth <= joined'[m.to]
                      /\ m.to \in ToSet(swarm') /\ joined'[m.to] = m.nth => ledgers[m.to].on
    BY <1>1, <1>2 DEF MessageIsOf
  <2>1. /\ m.to \in Addresses /\ m.nth <= joined[m.to] /\ m.nth \in Nat
        /\ m.to \in ToSet(swarm) /\ joined[m.to] = m.nth => ledgers[m.to].on
    BY <1>1 DEF MessageIsOf, PexShape, PassesOver, MessagesTo
  <2> HIDE DEF m
  <2>2. CASE m.to = a
    BY <1>6, <2>1, <2>2
  <2>3. CASE m.to # a
    BY <1>5, <1>6, <2>1, <2>3
  <2> QED
    BY <2>2, <2>3
<1>14. SaidIsKnown'
  <2>1. ASSUME NEW x \in ToSet(swarm'), ~ledgers[x].on PROVE knows'[x] = {}
    <3>1. x \in Addresses /\ (x # a => x \in ToSet(swarm))
      BY <1>0, <1>5
    <3> QED
      BY <1>1, <1>6, <2>1, <3>1 DEF SaidIsKnown
  <2>2. ASSUME NEW x \in ToSet(swarm') \ broken, ledgers[x].of = joined'[x]
        PROVE  ledgers[x].said = KnowsThen(x)'
    <3>0. x \in Addresses /\ (x # a => x \in ToSet(swarm))
      BY <1>0, <1>5
    <3>1. x # a
      BY <1>6, <1>7, <2>2
    <3>2. x \in Addresses /\ x \in ToSet(swarm) /\ joined'[x] = joined[x] /\ knows'[x] = knows[x]
      BY <1>6, <3>0, <3>1
    <3> QED
      BY <1>1, <1>2, <2>2, <3>2 DEF SaidIsKnown, KnowsThen
  <2> QED
    BY <1>2, <2>1, <2>2 DEF SaidIsKnown
<1> QED
  BY <1>9, <1>10, <1>11, <1>12, <1>13, <1>14 DEF PexInv

LEMMA ReapKeeps ==
  ASSUME PexAssumption, PexInv, NEW a \in Addresses, ReapPex(a)
  PROVE  PexInv'
<1>1. /\ PexShape /\ LedgersInOrder /\ CountedFromOne /\ LeftAreOnce /\ MessageIsOf /\ SaidIsKnown
      /\ WithdrawnIsGone
  BY DEF PexInv
<1>2. /\ swarm' = Without(swarm, {a}) /\ broken' = broken \ {a}
      /\ ledgers' = [ledgers EXCEPT ![a] = NoLedger]
      /\ UNCHANGED <<joined, hello, knows, round, contacts>>
  BY DEF ReapPex
<1>3. /\ swarm \in Seq(Addresses) /\ IsInjective(swarm) /\ broken \subseteq ToSet(swarm)
      /\ ledgers \in [Addresses -> LedgersOf(Addresses)]
  BY <1>1 DEF PexShape
<1>4. swarm' \in Seq(Addresses) /\ IsInjective(swarm') /\ ToSet(swarm') = ToSet(swarm) \ {a}
  BY <1>2, <1>3, WithoutIs
<1>5. /\ ledgers'[a] = NoLedger /\ \A x \in Addresses : x # a => ledgers'[x] = ledgers[x]
      /\ ledgers' \in [Addresses -> LedgersOf(Addresses)]
  BY <1>2, <1>3, NoLedgerIs
<1>6. NoLedger.of = 0 /\ NoLedger.on = FALSE /\ NoLedger.said = {} /\ InOrder(NoLedger, a)
  BY NoLedgerIs
<1>7. /\ \A k \in DOMAIN round.left : round.left[k].to \in Addresses /\ round.left[k].nth \in Nat
      /\ \A x \in Addresses : joined[x] \in Nat
      /\ round.message.nth \in Nat
  <2>1. \A x \in Addresses : joined[x] \in 0 .. Returns
    BY <1>1 DEF PexShape
  <2>2. round.message.nth \in Nat
    BY <1>1, MessageOf DEF PexShape
  <2>3. \A k \in DOMAIN round.left : round.left[k].to \in Addresses /\ round.left[k].nth \in Nat
    BY <1>1, LeftOf DEF PexShape
  <2> QED
    BY <2>1, <2>2, <2>3
<1>8. ToSet(swarm) \subseteq Addresses
  BY <1>3, ElementsAre
<1>9. PexShape'
  BY <1>1, <1>2, <1>3, <1>4, <1>5 DEF PexShape
<1>10. LedgersInOrder'
  BY <1>1, <1>5, <1>6 DEF LedgersInOrder, InOrder
<1>11. WithdrawnIsGone'
  BY <1>1, <1>2 DEF WithdrawnIsGone
<1>12. CountedFromOne'
  <2>1. \A x \in ToSet(swarm') : joined[x] >= 1
    BY <1>1, <1>4 DEF CountedFromOne
  <2>2. ASSUME NEW x \in Addresses
        PROVE  ledgers'[x].of <= joined[x] /\ (~ledgers'[x].on => ledgers'[x].of = 0 /\ ledgers'[x].said = {})
    <3>1. CASE x = a
      BY <1>5, <1>6, <1>7, <3>1
    <3>2. CASE x # a
      BY <1>1, <1>5, <3>2 DEF CountedFromOne
    <3> QED
      BY <3>1, <3>2
  <2> QED
    BY <1>2, <2>1, <2>2 DEF CountedFromOne
<1>13. LeftAreOnce'
  <2>1. \A k \in DOMAIN round.left : ledgers'[round.left[k].to].of <= round.left[k].nth
    BY <1>1, <1>5, <1>6, <1>7 DEF LeftAreOnce
  <2> QED
    BY <1>1, <1>2, <2>1 DEF LeftAreOnce
<1>14. MessageIsOf'
  <2> SUFFICES ASSUME round.message # NoMessage
               PROVE  /\ ledgers'[round.message.to].of <= round.message.nth
                      /\ round.message.to \in ToSet(swarm') /\ joined[round.message.to] = round.message.nth
                           => ledgers'[round.message.to].on
    BY <1>1, <1>2 DEF MessageIsOf
  <2>1. CASE round.message.to = a
    BY <1>4, <1>5, <1>6, <1>7, <2>1
  <2>2. CASE round.message.to # a
    BY <1>1, <1>4, <1>5, <2>2 DEF MessageIsOf
  <2> QED
    BY <2>1, <2>2
<1>15. SaidIsKnown'
  <2>1. \A x \in ToSet(swarm') : x # a /\ x \in ToSet(swarm) /\ x \in Addresses /\ ledgers'[x] = ledgers[x]
    BY <1>4, <1>5, <1>8
  <2>2. \A x \in ToSet(swarm') \ broken' : x \in ToSet(swarm) \ broken
    BY <1>2, <2>1
  <2>3. \A x : KnowsThen(x)' = KnowsThen(x)
    BY <1>2 DEF KnowsThen
  <2> QED
    BY <1>1, <1>2, <2>1, <2>2, <2>3 DEF SaidIsKnown
<1> QED
  BY <1>9, <1>10, <1>11, <1>12, <1>13, <1>14, <1>15 DEF PexInv

LEMMA IntroducesKeeps ==
  ASSUME PexAssumption, PexInv, NEW a \in Addresses, Introduces(a)
  PROVE  PexInv'
<1>1. /\ PexShape /\ LedgersInOrder /\ CountedFromOne /\ LeftAreOnce /\ MessageIsOf /\ SaidIsKnown
      /\ WithdrawnIsGone
  BY DEF PexInv
<1>2. PICK says \in Says[a] : hello' = [hello EXCEPT ![a][joined[a]] = says]
  BY DEF Introduces
<1>3. UNCHANGED <<joined, swarm, broken, ledgers, knows, round, contacts>>
  BY DEF Introduces
<1>4. says \in HellosOf(Addresses)
  BY DEF PexAssumption, HellosOf
<1>5. hello' \in [Addresses -> [1 .. Returns -> HellosOf(Addresses)]]
  <2>1. hello[a] \in [1 .. Returns -> HellosOf(Addresses)]
    BY <1>1 DEF PexShape
  <2>2. [hello[a] EXCEPT ![joined[a]] = says] \in [1 .. Returns -> HellosOf(Addresses)]
    BY <1>4, <2>1
  <2> QED
    BY <1>1, <1>2, <2>2 DEF PexShape
<1>6. PexShape' /\ LedgersInOrder' /\ CountedFromOne' /\ LeftAreOnce' /\ MessageIsOf' /\ WithdrawnIsGone'
  BY <1>1, <1>3, <1>5 DEF PexShape, LedgersInOrder, CountedFromOne, LeftAreOnce, MessageIsOf, WithdrawnIsGone
<1>7. SaidIsKnown'
  <2>1. \A x : KnowsThen(x)' = KnowsThen(x)
    BY <1>3 DEF KnowsThen
  <2> QED
    BY <1>1, <1>3, <2>1 DEF SaidIsKnown
<1> QED
  BY <1>6, <1>7 DEF PexInv

LEMMA MinuteKeeps ==
  ASSUME PexAssumption, PexInv, NEW a \in Addresses, MinutePasses(a)
  PROVE  PexInv'
<1>1. /\ PexShape /\ LedgersInOrder /\ CountedFromOne /\ LeftAreOnce /\ MessageIsOf /\ SaidIsKnown
      /\ WithdrawnIsGone
  BY DEF PexInv
<1>2. /\ ledgers' = [ledgers EXCEPT ![a].due = TRUE]
      /\ UNCHANGED <<joined, swarm, broken, hello, knows, round, contacts>>
  BY DEF MinutePasses
<1>3. ledgers \in [Addresses -> LedgersOf(Addresses)]
  BY <1>1 DEF PexShape
<1>4. ledgers' = [ledgers EXCEPT ![a] = [ledgers[a] EXCEPT !.due = TRUE]]
  BY <1>2
<1> DEFINE l == ledgers[a]
           d == [l EXCEPT !.due = TRUE]
<1>5. /\ d \in LedgersOf(Addresses) /\ d.of = l.of /\ d.said = l.said /\ d.on = l.on
      /\ d.adds = l.adds /\ d.drops = l.drops
  <2>1. l \in LedgersOf(Addresses)
    BY <1>3
  <2> HIDE DEF l
  <2> QED
    BY <2>1 DEF LedgersOf
<1> HIDE DEF d
<1>6. ledgers' \in [Addresses -> LedgersOf(Addresses)]
  BY <1>3, <1>4, <1>5 DEF d
<1>7. \A x \in Addresses :
        /\ ledgers'[x].of = ledgers[x].of /\ ledgers'[x].said = ledgers[x].said
        /\ ledgers'[x].on = ledgers[x].on
        /\ ledgers'[x].adds = ledgers[x].adds /\ ledgers'[x].drops = ledgers[x].drops
  <2>1. ledgers'[a] = d /\ \A x \in Addresses : x # a => ledgers'[x] = ledgers[x]
    BY <1>3, <1>4 DEF d
  <2> QED
    BY <1>5, <2>1
<1>8. PexShape' /\ WithdrawnIsGone'
  BY <1>1, <1>2, <1>6 DEF PexShape, WithdrawnIsGone
<1>9. LedgersInOrder'
  BY <1>1, <1>7 DEF LedgersInOrder, InOrder
<1>10. CountedFromOne'
  BY <1>1, <1>2, <1>7 DEF CountedFromOne
<1>11. LeftAreOnce'
  <2>1. \A k \in DOMAIN round.left : round.left[k].to \in Addresses
    BY <1>1, LeftOf DEF PexShape
  <2> QED
    BY <1>1, <1>2, <1>7, <2>1 DEF LeftAreOnce
<1>12. MessageIsOf'
  BY <1>1, <1>2, <1>7 DEF MessageIsOf
<1>13. SaidIsKnown'
  <2>1. ToSet(swarm) \subseteq Addresses
    BY <1>1, ElementsAre DEF PexShape
  <2>2. \A x : KnowsThen(x)' = KnowsThen(x)
    BY <1>2 DEF KnowsThen
  <2> QED
    BY <1>1, <1>2, <1>7, <2>1, <2>2 DEF SaidIsKnown
<1> QED
  BY <1>8, <1>9, <1>10, <1>11, <1>12, <1>13 DEF PexInv

LEMMA BeginKeeps ==
  ASSUME PexAssumption, PexInv, PexBegin
  PROVE  PexInv'
<1>1. /\ PexShape /\ LedgersInOrder /\ CountedFromOne /\ LeftAreOnce /\ MessageIsOf /\ SaidIsKnown
      /\ WithdrawnIsGone
  BY DEF PexInv
<1> DEFINE calls == [k \in DOMAIN swarm |-> [to |-> swarm[k], nth |-> joined[swarm[k]]]]
           all == [i \in DOMAIN swarm |-> ReachedAt(swarm[i], joined[swarm[i]])]
           I == {i \in DOMAIN all : all[i] # "none" /\ \A j \in 1 .. i - 1 : all[j] # all[i]}
<1>2. /\ ~round.on /\ contacts' = Picked(all, I)
      /\ round' = [on |-> TRUE, message |-> NoMessage, left |-> calls]
      /\ UNCHANGED <<joined, swarm, broken, hello, ledgers, knows>>
  BY DEF PexBegin, PexContacts
<1>3. /\ swarm \in Seq(Addresses) /\ IsInjective(swarm) /\ joined \in [Addresses -> 0 .. Returns]
      /\ Returns \in Nat /\ hello \in [Addresses -> [1 .. Returns -> HellosOf(Addresses)]]
  BY <1>1 DEF PexShape, PexAssumption
<1>4. Len(swarm) \in Nat /\ DOMAIN swarm = 1 .. Len(swarm)
  BY <1>3
<1>5. \A k \in DOMAIN swarm : /\ swarm[k] \in Addresses /\ swarm[k] \in ToSet(swarm)
                              /\ joined[swarm[k]] \in 1 .. Returns
  <2> SUFFICES ASSUME NEW k \in DOMAIN swarm
               PROVE  /\ swarm[k] \in Addresses /\ swarm[k] \in ToSet(swarm)
                      /\ joined[swarm[k]] \in 1 .. Returns
    OBVIOUS
  <2>1. swarm[k] \in Addresses /\ swarm[k] \in ToSet(swarm)
    BY <1>3, ElementIs DEF ToSet
  <2>2. joined[swarm[k]] >= 1 /\ joined[swarm[k]] \in 0 .. Returns
    BY <1>1, <1>3, <2>1 DEF CountedFromOne
  <2> QED
    BY <1>3, <2>1, <2>2
<1>6. calls \in Seq([to : Addresses, nth : Nat]) /\ DOMAIN calls = DOMAIN swarm
  <2>1. \A k \in DOMAIN swarm : [to |-> swarm[k], nth |-> joined[swarm[k]]] \in [to : Addresses, nth : Nat]
    BY <1>3, <1>5
  <2> QED
    BY <1>4, <2>1
<1>7. \A k \in DOMAIN swarm : calls[k].to = swarm[k] /\ calls[k].nth = joined[swarm[k]]
  OBVIOUS
<1> HIDE DEF calls
<1>8. round'.message = NoMessage /\ round'.left = calls /\ round'.on = TRUE /\ round.message = NoMessage
  BY <1>1, <1>2 DEF MessageIsOf
<1>15. contacts' \in Seq(Addresses) /\ IsInjective(contacts')
  <2>1. ASSUME NEW i \in DOMAIN swarm PROVE all[i] \in Addresses \cup {"none"}
    <3>1. hello[swarm[i]][joined[swarm[i]]] \in HellosOf(Addresses)
      BY <1>3, <1>5
    <3>2. hello[swarm[i]][joined[swarm[i]]].home \in Addresses \cup {"none"}
      BY <3>1 DEF HellosOf
    <3> QED
      BY <1>5, <3>2 DEF ReachedAt
  <2>2. DOMAIN all = 1 .. Len(swarm) /\ I \in SUBSET (1 .. Len(swarm))
    BY <1>4
  <2>3. \A i \in I : all[i] \in Addresses
    BY <2>1
  <2>4. \A i, j \in I : all[i] = all[j] => i = j
    <3> SUFFICES ASSUME NEW i \in I, NEW j \in I, all[i] = all[j] PROVE i = j
      OBVIOUS
    <3> HIDE DEF all
    <3>1. i \in Nat /\ j \in Nat /\ i >= 1 /\ j >= 1
      BY <1>4, <2>2
    <3>2. ~(i < j)
      BY <3>1
    <3>3. ~(j < i)
      BY <3>1
    <3> QED
      BY <3>1, <3>2, <3>3
  <2> HIDE DEF all, I
  <2>5. Picked(all, I) \in Seq(Addresses) /\ IsInjective(Picked(all, I))
    BY <1>4, <2>2, <2>3, <2>4, PickedIs
  <2> QED
    BY <1>2, <2>5
<1>9. PexShape'
  <2>1. round' \in PassesOver(Addresses)
    BY <1>2, <1>6, NoMessageIs DEF PassesOver
  <2> QED
    BY <1>1, <1>2, <1>3, <1>15, <2>1 DEF PexShape
<1>10. LedgersInOrder' /\ CountedFromOne'
  BY <1>1, <1>2 DEF LedgersInOrder, CountedFromOne
<1>11. LeftAreOnce'
  <2>1. ASSUME NEW k \in DOMAIN calls
        PROVE  calls[k].nth >= 1 /\ calls[k].nth <= joined[calls[k].to] /\ ledgers[calls[k].to].of <= calls[k].nth
    BY <1>1, <1>3, <1>5, <1>6, <1>7 DEF CountedFromOne
  <2>2. ASSUME NEW k \in DOMAIN calls, NEW l \in DOMAIN calls, calls[k].to = calls[l].to PROVE k = l
    BY <1>3, <1>6, <1>7, <2>2 DEF IsInjective
  <2> QED
    BY <1>2, <1>8, <2>1, <2>2 DEF LeftAreOnce
<1>12. MessageIsOf'
  BY <1>8 DEF MessageIsOf
<1>13. SaidIsKnown'
  <2>1. \A x : KnowsThen(x)' = KnowsThen(x)
    BY <1>2, <1>8 DEF KnowsThen
  <2> QED
    BY <1>1, <1>2, <2>1 DEF SaidIsKnown
<1>14. WithdrawnIsGone'
  BY <1>8, NoMessageIs, FS_EmptySet DEF WithdrawnIsGone, PexAssumption
<1> QED
  BY <1>9, <1>10, <1>11, <1>12, <1>13, <1>14 DEF PexInv

LEMMA NewLedgerIs ==
  ASSUME NEW a \in Addresses, NEW n \in Nat
  PROVE  /\ NewLedger(n) \in LedgersOf(Addresses) /\ InOrder(NewLedger(n), a)
         /\ NewLedger(n).of = n /\ NewLedger(n).on = TRUE /\ NewLedger(n).said = {}
<1> DEFINE l == NoLedger
<1>1. l \in LedgersOf(Addresses) /\ InOrder(l, a) /\ l.said = {}
  BY NoLedgerIs
<1>2. NewLedger(n) = [l EXCEPT !.on = TRUE, !.of = n]
  BY DEF NewLedger
<1> HIDE DEF l
<1>3. /\ NewLedger(n) \in LedgersOf(Addresses) /\ NewLedger(n).of = n /\ NewLedger(n).on = TRUE
      /\ NewLedger(n).said = l.said /\ NewLedger(n).adds = l.adds /\ NewLedger(n).drops = l.drops
  BY <1>1, <1>2 DEF LedgersOf
<1>4. InOrder(NewLedger(n), a)
  BY <1>1, <1>3 DEF InOrder
<1> QED
  BY <1>1, <1>3, <1>4

(* The head of what is left, and the rest.                                  *)
LEMMA HeadAndTail ==
  ASSUME NEW A, NEW s \in Seq(A), s # << >>
  PROVE  /\ 1 \in DOMAIN s /\ Head(s) = s[1] /\ Tail(s) \in Seq(A)
         /\ \A k \in DOMAIN Tail(s) : k + 1 \in DOMAIN s /\ k + 1 # 1 /\ Tail(s)[k] = s[k + 1]
         /\ \A k \in DOMAIN Tail(s) : k \in Nat
<1>1. /\ Len(s) \in Nat /\ DOMAIN s = 1 .. Len(s) /\ Len(s) # 0
      /\ Tail(s) \in Seq(A) /\ DOMAIN Tail(s) = 1 .. Len(s) - 1
      /\ \A k \in 1 .. Len(s) - 1 : Tail(s)[k] = s[k + 1]
  OBVIOUS
<1>2. Head(s) = s[1]
  OBVIOUS
<1> QED
  BY <1>1, <1>2

LEMMA SkipKeeps ==
  ASSUME PexAssumption, PexInv, SkipPeer
  PROVE  PexInv'
<1>1. /\ PexShape /\ LedgersInOrder /\ CountedFromOne /\ LeftAreOnce /\ MessageIsOf /\ SaidIsKnown
      /\ WithdrawnIsGone
  BY DEF PexInv
<1> DEFINE rest == Tail(round.left)
<1>2. /\ round.on /\ round.left # <<>> /\ round' = [round EXCEPT !.left = rest]
      /\ UNCHANGED <<joined, swarm, broken, hello, ledgers, knows, contacts>>
  BY DEF SkipPeer
<1>3. round \in PassesOver(Addresses) /\ round.left \in Seq([to : Addresses, nth : Nat])
  BY <1>1, LeftOf DEF PexShape
<1>4. /\ rest \in Seq([to : Addresses, nth : Nat])
      /\ \A k \in DOMAIN rest : k + 1 \in DOMAIN round.left /\ rest[k] = round.left[k + 1] /\ k \in Nat
  BY <1>2, <1>3, HeadAndTail
<1> HIDE DEF rest
<1>5. /\ round' \in PassesOver(Addresses) /\ round'.left = rest /\ round'.message = round.message
      /\ round'.on = round.on
  BY <1>2, <1>3, <1>4 DEF PassesOver
<1>6. PexShape' /\ LedgersInOrder' /\ CountedFromOne'
  BY <1>1, <1>2, <1>5 DEF PexShape, LedgersInOrder, CountedFromOne
<1>7. MessageIsOf' /\ WithdrawnIsGone'
  BY <1>1, <1>2, <1>5 DEF MessageIsOf, WithdrawnIsGone
<1>8. SaidIsKnown'
  <2>1. \A x : KnowsThen(x)' = KnowsThen(x)
    BY <1>2, <1>5 DEF KnowsThen
  <2> QED
    BY <1>1, <1>2, <2>1 DEF SaidIsKnown
<1>9. LeftAreOnce'
  <2>1. ASSUME NEW k \in DOMAIN rest, NEW l \in DOMAIN rest, rest[k].to = rest[l].to PROVE k = l
    <3>1. k + 1 = l + 1
      BY <1>1, <1>4, <2>1 DEF LeftAreOnce
    <3> QED
      BY <1>4, <3>1
  <2>2. ASSUME NEW k \in DOMAIN rest
        PROVE  rest[k].nth >= 1 /\ rest[k].nth <= joined[rest[k].to] /\ ledgers[rest[k].to].of <= rest[k].nth
    BY <1>1, <1>4 DEF LeftAreOnce
  <2> QED
    BY <1>2, <1>5, <2>1, <2>2 DEF LeftAreOnce
<1> QED
  BY <1>6, <1>7, <1>8, <1>9 DEF PexInv

LEMMA TellKeeps ==
  ASSUME PexAssumption, PexInv, TellNextPeer
  PROVE  PexInv'
<1>1. /\ PexShape /\ LedgersInOrder /\ CountedFromOne /\ LeftAreOnce /\ MessageIsOf /\ SaidIsKnown
      /\ WithdrawnIsGone
  BY DEF PexInv
<1> DEFINE c == Head(round.left)
           whom == c.to
           rest == Tail(round.left)
           old == IF ledgers[whom].on THEN ledgers[whom] ELSE NewLedger(c.nth)
           others == Without(contacts, {whom})
           synced == Sync(old, others)
           new == IF Speaks(synced) THEN Built(synced) ELSE synced
           add == ToSet(Additions(synced))
           drop == ToSet(Retractions(synced))
           say == IF Speaks(synced) THEN [to |-> whom, nth |-> c.nth, add |-> add, drop |-> drop]
                  ELSE NoMessage
<1>2. /\ round.on /\ round.message = NoMessage /\ round.left # <<>>
      /\ ledgers' = [ledgers EXCEPT ![whom] = new]
      /\ round' = [round EXCEPT !.left = rest, !.message = say]
      /\ UNCHANGED <<joined, swarm, broken, hello, knows, contacts>>
  <2>1. /\ round.on /\ round.message = NoMessage /\ round.left # <<>>
        /\ UNCHANGED <<joined, swarm, broken, hello, knows, contacts>>
    BY DEF TellNextPeer
  <2>2. CASE Speaks(synced)
    BY <2>2 DEF TellNextPeer
  <2>3. CASE ~Speaks(synced)
    <3>1. ledgers' = [ledgers EXCEPT ![whom] = synced] /\ round' = [round EXCEPT !.left = rest]
      BY <2>3 DEF TellNextPeer
    <3>2. round \in PassesOver(Addresses)
      BY <1>1 DEF PexShape
    <3>3. [round EXCEPT !.left = rest] = [round EXCEPT !.left = rest, !.message = NoMessage]
      <4> HIDE DEF rest
      <4> QED
        BY <2>1, <3>2 DEF PassesOver
    <3> QED
      BY <2>1, <2>3, <3>1, <3>3
  <2> QED
    BY <2>1, <2>2, <2>3
<1>3. /\ ledgers \in [Addresses -> LedgersOf(Addresses)] /\ round \in PassesOver(Addresses)
      /\ contacts \in Seq(Addresses) /\ IsInjective(contacts) /\ Returns \in Nat
      /\ joined \in [Addresses -> 0 .. Returns] /\ knows \in [Addresses -> SUBSET Addresses]
      /\ ToSet(swarm) \subseteq Addresses
  BY <1>1, ElementsAre DEF PexShape, PexAssumption
<1>4. /\ round.left \in Seq([to : Addresses, nth : Nat])
      /\ \A k \in DOMAIN round.left : round.left[k].to \in Addresses /\ round.left[k].nth \in Nat
  BY <1>3, LeftOf
<1>5. /\ 1 \in DOMAIN round.left /\ c = round.left[1] /\ rest \in Seq([to : Addresses, nth : Nat])
      /\ \A k \in DOMAIN rest : k + 1 \in DOMAIN round.left /\ k + 1 # 1 /\ rest[k] = round.left[k + 1]
      /\ \A k \in DOMAIN rest : k \in Nat
  BY <1>2, <1>4, HeadAndTail
<1> HIDE DEF c, rest
<1>6. whom \in Addresses /\ c.nth \in Nat /\ c.nth >= 1 /\ c.nth <= joined[whom] /\ ledgers[whom].of <= c.nth
  BY <1>1, <1>4, <1>5 DEF LeftAreOnce
<1> HIDE DEF whom
<1>7. ASSUME NEW k \in DOMAIN rest
      PROVE  /\ rest[k].to \in Addresses /\ rest[k].to # whom
             /\ rest[k].nth >= 1 /\ rest[k].nth <= joined[rest[k].to]
             /\ ledgers[rest[k].to].of <= rest[k].nth
             /\ \A l \in DOMAIN rest : rest[k].to = rest[l].to => k = l
  <2>1. k + 1 \in DOMAIN round.left /\ k + 1 # 1 /\ rest[k] = round.left[k + 1]
    BY <1>5
  <2>2. /\ rest[k].to \in Addresses /\ rest[k].nth >= 1 /\ rest[k].nth <= joined[rest[k].to]
        /\ ledgers[rest[k].to].of <= rest[k].nth
    BY <1>1, <1>4, <2>1 DEF LeftAreOnce
  <2>3. rest[k].to # whom
    BY <1>1, <1>5, <2>1 DEF LeftAreOnce, whom
  <2>4. ASSUME NEW l \in DOMAIN rest, rest[k].to = rest[l].to PROVE k = l
    <3>1. l + 1 \in DOMAIN round.left /\ rest[l] = round.left[l + 1] /\ l \in Nat /\ k \in Nat
      BY <1>5
    <3>2. k + 1 = l + 1
      BY <1>1, <2>1, <2>4, <3>1 DEF LeftAreOnce
    <3> QED
      BY <3>1, <3>2
  <2> QED
    BY <2>2, <2>3, <2>4
<1>8. NewLedger(c.nth) \in LedgersOf(Addresses) /\ InOrder(NewLedger(c.nth), whom)
      /\ NewLedger(c.nth).of = c.nth /\ NewLedger(c.nth).on = TRUE /\ NewLedger(c.nth).said = {}
  BY <1>6, NewLedgerIs
<1>9. ledgers[whom] \in LedgersOf(Addresses) /\ InOrder(ledgers[whom], whom) /\ ledgers[whom].of \in Nat
      /\ ledgers[whom].on \in BOOLEAN
  <2>1. ledgers[whom] \in LedgersOf(Addresses) /\ InOrder(ledgers[whom], whom)
    BY <1>1, <1>3, <1>6 DEF LedgersInOrder
  <2> QED
    BY <2>1, LedgerParts
<1>10. /\ old \in LedgersOf(Addresses) /\ InOrder(old, whom) /\ old.on = TRUE /\ old.of <= c.nth
  <2>1. CASE ledgers[whom].on
    BY <1>6, <1>9, <2>1
  <2>2. CASE ~ledgers[whom].on
    BY <1>6, <1>8, <2>2
  <2> QED
    BY <2>1, <2>2
<1>11. whom \in ToSet(swarm) \ broken /\ old.of = joined[whom] => old.said = knows[whom]
  <2>1. CASE ledgers[whom].on
    BY <1>1, <1>2, <2>1 DEF SaidIsKnown, KnowsThen
  <2>2. CASE ~ledgers[whom].on
    BY <1>1, <1>8, <2>2 DEF SaidIsKnown
  <2> QED
    BY <2>1, <2>2
<1> HIDE DEF old
<1>12. others \in Seq(Addresses) /\ IsInjective(others) /\ ToSet(others) = ToSet(contacts) \ {whom}
  BY <1>3, WithoutIs
<1> HIDE DEF others
<1>13. /\ synced \in LedgersOf(Addresses) /\ InOrder(synced, whom) /\ ToSet(synced.drops) \cap ToSet(others) = {}
       /\ synced.said = old.said /\ synced.of = old.of /\ synced.on = old.on
  <2>1. whom \notin ToSet(others)
    BY <1>12
  <2> QED
    BY <1>6, <1>10, <1>12, <2>1, SyncIs
<1> HIDE DEF synced
<1>14. /\ Built(synced) \in LedgersOf(Addresses) /\ InOrder(Built(synced), whom)
       /\ Built(synced).of = synced.of /\ Built(synced).on = synced.on
       /\ Built(synced).said = (synced.said \ drop) \cup add
       /\ add \subseteq ToSet(synced.adds) /\ drop \subseteq ToSet(synced.drops) /\ add \cap drop = {}
       /\ Cardinality(add) <= MaxInitial /\ Cardinality(drop) <= MaxLater
  BY <1>6, <1>13, BuiltIs
<1> HIDE DEF add, drop
<1>15. /\ new \in LedgersOf(Addresses) /\ InOrder(new, whom) /\ new.of = old.of /\ new.on = TRUE
       /\ new.said = IF Speaks(synced) THEN (old.said \ drop) \cup add ELSE old.said
  <2>1. CASE Speaks(synced)
    BY <1>10, <1>13, <1>14, <2>1
  <2>2. CASE ~Speaks(synced)
    BY <1>10, <1>13, <2>2
  <2> QED
    BY <2>1, <2>2
<1> HIDE DEF new
<1>16. add \subseteq Addresses /\ drop \subseteq Addresses /\ drop \cap ToSet(contacts) = {}
  <2>1. /\ ToSet(synced.adds) \subseteq Addresses /\ ToSet(synced.drops) \subseteq synced.said
        /\ synced.said \subseteq Addresses \ {whom}
    BY <1>13 DEF InOrder
  <2> QED
    BY <1>12, <1>13, <1>14, <2>1
<1>17. say \in MessagesTo(Addresses)
  BY <1>6, <1>16, NoMessageIs DEF MessagesTo
<1>18. round' \in PassesOver(Addresses) /\ round'.left = rest /\ round'.message = say /\ round'.on = round.on
  <2> HIDE DEF say
  <2> QED
    BY <1>2, <1>3, <1>5, <1>17 DEF PassesOver
<1>19. /\ ledgers' \in [Addresses -> LedgersOf(Addresses)] /\ ledgers'[whom] = new
       /\ \A x \in Addresses : x # whom => ledgers'[x] = ledgers[x]
  BY <1>2, <1>3, <1>6, <1>15
<1>20. PexShape'
  BY <1>1, <1>2, <1>18, <1>19 DEF PexShape
<1>21. LedgersInOrder'
  BY <1>1, <1>15, <1>19 DEF LedgersInOrder
<1>22. CountedFromOne'
  <2>1. new.of \in Nat /\ joined[whom] \in Nat /\ new.of <= joined[whom]
    <3>1. new.of \in Nat /\ joined[whom] \in Nat
      BY <1>3, <1>6, <1>15, LedgerParts
    <3> QED
      BY <1>6, <1>10, <1>15, <3>1
  <2>2. ASSUME NEW x \in Addresses
        PROVE  ledgers'[x].of <= joined[x] /\ (~ledgers'[x].on => ledgers'[x].of = 0 /\ ledgers'[x].said = {})
    <3>1. CASE x = whom
      BY <1>15, <1>19, <2>1, <3>1
    <3>2. CASE x # whom
      BY <1>1, <1>19, <3>2 DEF CountedFromOne
    <3> QED
      BY <3>1, <3>2
  <2> QED
    BY <1>1, <1>2, <2>2 DEF CountedFromOne
<1>23. LeftAreOnce'
  <2>1. \A k \in DOMAIN rest : ledgers'[rest[k].to].of <= rest[k].nth
    BY <1>7, <1>19
  <2> QED
    BY <1>2, <1>7, <1>18, <2>1 DEF LeftAreOnce
<1>24. MessageIsOf'
  <2>1. ASSUME say # NoMessage
        PROVE  /\ round.on /\ say.to \in Addresses /\ say.nth <= joined[say.to]
               /\ ledgers'[say.to].of <= say.nth /\ ledgers'[say.to].on = TRUE
    <3>1. say.to = whom /\ say.nth = c.nth
      BY <2>1
    <3> HIDE DEF say
    <3> QED
      BY <1>2, <1>6, <1>10, <1>15, <1>19, <3>1
  <2> HIDE DEF say
  <2> QED
    BY <1>2, <1>18, <2>1 DEF MessageIsOf
<1>25. SaidIsKnown'
  <2>1. ASSUME NEW x \in ToSet(swarm), ~ledgers'[x].on PROVE knows[x] = {}
    BY <1>1, <1>3, <1>15, <1>19, <2>1 DEF SaidIsKnown
  <2>2. ASSUME NEW x \in ToSet(swarm) \ broken, ledgers'[x].of = joined[x]
        PROVE  ledgers'[x].said = IF say # NoMessage /\ say.to = x
                                  THEN (knows[x] \ say.drop) \cup say.add ELSE knows[x]
    <3>1. CASE x = whom /\ Speaks(synced)
      <4>1. say.to = whom /\ say.add = add /\ say.drop = drop /\ say.nth = c.nth
        BY <3>1
      <4>2. say # NoMessage
        <5> HIDE DEF say
        <5> QED
          BY <1>6, <4>1, NoMessageIs
      <4> HIDE DEF say
      <4> QED
        BY <1>11, <1>15, <1>19, <2>2, <3>1, <4>1, <4>2
    <3>2. CASE x = whom /\ ~Speaks(synced)
      BY <1>11, <1>15, <1>19, <2>2, <3>2
    <3>3. CASE x # whom
      <4>1. ledgers'[x] = ledgers[x] /\ ledgers[x].said = knows[x]
        BY <1>1, <1>2, <1>3, <1>19, <2>2, <3>3 DEF SaidIsKnown, KnowsThen
      <4>2. ~(say # NoMessage /\ say.to = x)
        BY <3>3
      <4> HIDE DEF say
      <4> QED
        BY <4>1, <4>2
    <3> QED
      BY <3>1, <3>2, <3>3
  <2> HIDE DEF say
  <2>3. \A x : KnowsThen(x)' = IF say # NoMessage /\ say.to = x THEN (knows[x] \ say.drop) \cup say.add
                              ELSE knows[x]
    BY <1>2, <1>18 DEF KnowsThen
  <2>4. \A x \in ToSet(swarm) \ broken : ledgers'[x].of = joined[x] => ledgers'[x].said = KnowsThen(x)'
    BY <2>2, <2>3
  <2> QED
    BY <1>2, <2>1, <2>4 DEF SaidIsKnown
<1>26. WithdrawnIsGone'
  <2>1. /\ say.drop \cap ToSet(contacts) = {} /\ say.add \cap say.drop = {}
        /\ Cardinality(say.add) <= MaxInitial /\ Cardinality(say.drop) <= MaxLater
    <3>1. CASE Speaks(synced)
      <4>1. say.add = add /\ say.drop = drop
        BY <3>1
      <4> HIDE DEF say
      <4> QED
        BY <1>14, <1>16, <4>1
    <3>2. CASE ~Speaks(synced)
      <4>1. say = NoMessage
        BY <3>2
      <4>2. MaxInitial >= 0 /\ MaxLater >= 0
        BY DEF PexAssumption
      <4> HIDE DEF say
      <4> QED
        BY <4>1, <4>2, NoMessageIs, FS_EmptySet
    <3> QED
      BY <3>1, <3>2
  <2> HIDE DEF say
  <2> QED
    BY <1>2, <1>18, <2>1 DEF WithdrawnIsGone
<1> QED
  BY <1>20, <1>21, <1>22, <1>23, <1>24, <1>25, <1>26 DEF PexInv

LEMMA SentKeeps ==
  ASSUME PexAssumption, PexInv, PexSent
  PROVE  PexInv'
<1>1. /\ PexShape /\ LedgersInOrder /\ CountedFromOne /\ LeftAreOnce /\ MessageIsOf /\ SaidIsKnown
      /\ WithdrawnIsGone
  BY DEF PexInv
<1> DEFINE m == round.message
           here == Contains(swarm, m.to) /\ joined[m.to] = m.nth
<1>2. /\ m # NoMessage /\ round' = [round EXCEPT !.message = NoMessage]
      /\ UNCHANGED <<joined, swarm, hello, ledgers, contacts>>
      /\ \/ /\ here /\ m.to \notin broken
            /\ knows' = [knows EXCEPT ![m.to] = (@ \ m.drop) \cup m.add]
            /\ UNCHANGED broken
         \/ /\ broken' = (IF here THEN broken \cup {m.to} ELSE broken)
            /\ UNCHANGED knows
  BY DEF PexSent
<1>3. /\ round \in PassesOver(Addresses) /\ swarm \in Seq(Addresses) /\ broken \subseteq ToSet(swarm)
      /\ ledgers \in [Addresses -> LedgersOf(Addresses)]
      /\ joined \in [Addresses -> 0 .. Returns] /\ knows \in [Addresses -> SUBSET Addresses]
      /\ ToSet(swarm) \subseteq Addresses /\ Returns \in Nat
  BY <1>1, ElementsAre DEF PexShape, PexAssumption
<1>4. m.nth \in Nat /\ m.add \subseteq Addresses /\ m.drop \subseteq Addresses
  BY <1>3, MessageOf
<1>5. round' \in PassesOver(Addresses) /\ round'.left = round.left /\ round'.message = NoMessage
  BY <1>2, <1>3, NoMessageIs DEF PassesOver
<1>6. here <=> m.to \in ToSet(swarm) /\ joined[m.to] = m.nth
  BY <1>3, ContainsIs
<1> HIDE DEF here
<1>7. /\ m.to \in Addresses /\ m.nth <= joined[m.to] /\ ledgers[m.to].of <= m.nth
      /\ (here => ledgers[m.to].on)
  BY <1>1, <1>2, <1>6 DEF MessageIsOf
<1>8. \A x \in Addresses : ledgers[x].of \in Nat /\ joined[x] \in Nat
  BY <1>3, LedgerParts
<1>9. \A x \in Addresses : KnowsThen(x) = IF m.to = x THEN (knows[x] \ m.drop) \cup m.add ELSE knows[x]
  BY <1>2 DEF KnowsThen
<1>10. \A x \in Addresses : KnowsThen(x)' = knows'[x]
  BY <1>5 DEF KnowsThen
<1>11. LedgersInOrder' /\ CountedFromOne'
  BY <1>1, <1>2 DEF LedgersInOrder, CountedFromOne
<1>12. LeftAreOnce'
  BY <1>1, <1>2, <1>5 DEF LeftAreOnce
<1>13. MessageIsOf'
  BY <1>5 DEF MessageIsOf
<1>14. WithdrawnIsGone'
  BY <1>5, NoMessageIs, FS_EmptySet DEF WithdrawnIsGone, PexAssumption
<1>15. ASSUME here, m.to \notin broken, knows' = [knows EXCEPT ![m.to] = (@ \ m.drop) \cup m.add],
              UNCHANGED broken
       PROVE  PexShape' /\ SaidIsKnown'
  <2> HIDE DEF m
  <2>1. /\ knows' \in [Addresses -> SUBSET Addresses]
        /\ \A x \in Addresses : knows'[x] = KnowsThen(x)
        /\ \A x \in Addresses : x # m.to => knows'[x] = knows[x]
    BY <1>3, <1>4, <1>7, <1>9, <1>15
  <2>2. PexShape'
    BY <1>1, <1>2, <1>5, <1>15, <2>1 DEF PexShape
  <2>3. \A x \in ToSet(swarm) : ~ledgers[x].on => knows'[x] = {}
    BY <1>1, <1>3, <1>7, <1>15, <2>1 DEF SaidIsKnown
  <2>4. \A x \in ToSet(swarm) \ broken : ledgers[x].of = joined[x] => ledgers[x].said = KnowsThen(x)'
    BY <1>1, <1>3, <1>10, <2>1 DEF SaidIsKnown
  <2>5. SaidIsKnown'
    BY <1>2, <1>15, <2>3, <2>4 DEF SaidIsKnown
  <2> QED
    BY <2>2, <2>5
<1>16. ASSUME broken' = (IF here THEN broken \cup {m.to} ELSE broken), UNCHANGED knows
       PROVE  PexShape' /\ SaidIsKnown'
  <2> HIDE DEF m
  <2>1. broken' \subseteq ToSet(swarm) /\ broken \subseteq broken'
    BY <1>3, <1>6, <1>16
  <2>2. PexShape'
    BY <1>1, <1>2, <1>5, <1>16, <2>1 DEF PexShape
  <2>3. ASSUME NEW x \in ToSet(swarm) \ broken', ledgers[x].of = joined[x]
        PROVE  ledgers[x].said = KnowsThen(x)'
    <3>1. x \in Addresses /\ x \in ToSet(swarm) \ broken /\ ledgers[x].said = KnowsThen(x)
      BY <1>1, <1>3, <2>1, <2>3 DEF SaidIsKnown
    <3>2. x # m.to
      <4> SUFFICES ASSUME x = m.to PROVE FALSE
        OBVIOUS
      <4>1. joined[x] = m.nth
        BY <1>4, <1>7, <1>8, <2>3
      <4>2. here
        BY <1>6, <3>1, <4>1
      <4> QED
        BY <1>16, <2>3, <4>2
    <3> QED
      BY <1>9, <1>10, <1>16, <3>1, <3>2
  <2>4. SaidIsKnown'
    BY <1>1, <1>2, <1>16, <2>3 DEF SaidIsKnown
  <2> QED
    BY <2>2, <2>4
<1>17. PexShape' /\ SaidIsKnown'
  BY <1>2, <1>15, <1>16
<1> QED
  BY <1>11, <1>12, <1>13, <1>14, <1>17 DEF PexInv

LEMMA EndKeeps ==
  ASSUME PexAssumption, PexInv, PexEnd
  PROVE  PexInv'
<1>1. /\ PexShape /\ LedgersInOrder /\ CountedFromOne /\ LeftAreOnce /\ MessageIsOf /\ SaidIsKnown
      /\ WithdrawnIsGone
  BY DEF PexInv
<1>2. /\ round.message = NoMessage /\ contacts' = <<>>
      /\ round' = [left |-> <<>>, message |-> NoMessage, on |-> FALSE]
      /\ UNCHANGED <<joined, swarm, broken, hello, ledgers, knows>>
  BY DEF PexEnd, Resting
<1>3. round'.message = NoMessage /\ DOMAIN round'.left = {}
  BY <1>2
<1>4. PexShape'
  <2>1. round' \in PassesOver(Addresses)
    BY <1>2, NothingIs, NoMessageIs DEF PassesOver
  <2>2. contacts' \in Seq(Addresses) /\ IsInjective(contacts')
    BY <1>2, NothingIs
  <2> QED
    BY <1>1, <1>2, <2>1, <2>2 DEF PexShape
<1>5. LedgersInOrder' /\ CountedFromOne'
  BY <1>1, <1>2 DEF LedgersInOrder, CountedFromOne
<1>6. LeftAreOnce' /\ MessageIsOf'
  BY <1>3 DEF LeftAreOnce, MessageIsOf
<1>7. SaidIsKnown'
  <2>1. \A x : KnowsThen(x)' = KnowsThen(x)
    BY <1>2, <1>3 DEF KnowsThen
  <2> QED
    BY <1>1, <1>2, <2>1 DEF SaidIsKnown
<1>8. WithdrawnIsGone'
  BY <1>3, NoMessageIs, FS_EmptySet DEF WithdrawnIsGone, PexAssumption
<1> QED
  BY <1>4, <1>5, <1>6, <1>7, <1>8 DEF PexInv

LEMMA PexInvStep ==
  ASSUME PexAssumption, PexInv, [PexNext]_pexVars
  PROVE  PexInv'
<1>1. CASE UNCHANGED pexVars
  <2>1. UNCHANGED <<joined, swarm, broken, hello, ledgers, knows, round, contacts>>
    BY <1>1 DEF pexVars
  <2>2. \A x : KnowsThen(x)' = KnowsThen(x)
    BY <2>1 DEF KnowsThen
  <2> QED
    BY <2>1, <2>2 DEF PexInv, PexShape, LedgersInOrder, CountedFromOne, LeftAreOnce, MessageIsOf,
                      SaidIsKnown, WithdrawnIsGone
<1>2. CASE PexNext
  BY <1>2, JoinsKeeps, IntroducesKeeps, ReapKeeps, MinuteKeeps, BeginKeeps, SkipKeeps, TellKeeps,
     SentKeeps, EndKeeps
  DEF PexNext, PexGoes
<1> QED
  BY <1>1, <1>2

LEMMA PexInvMeans ==
  ASSUME PexAssumption, PexInv
  PROVE  PexTypeOK /\ LedgerIsTold
<1>1. PexShape /\ LedgersInOrder /\ SaidIsKnown
  BY DEF PexInv
<1>2. PexTypeOK
  <2>1. round.on \in BOOLEAN
    BY <1>1, MessageOf DEF PexShape
  <2>2. \A whom \in Addresses :
          /\ ledgers[whom].said \subseteq Addresses \ {whom}
          /\ IsInjective(ledgers[whom].adds) /\ IsInjective(ledgers[whom].drops)
          /\ ToSet(ledgers[whom].adds) \cup ToSet(ledgers[whom].drops) \subseteq Addresses \ {whom}
    <3> SUFFICES ASSUME NEW whom \in Addresses
                 PROVE  /\ ledgers[whom].said \subseteq Addresses \ {whom}
                        /\ IsInjective(ledgers[whom].adds) /\ IsInjective(ledgers[whom].drops)
                        /\ ToSet(ledgers[whom].adds) \cup ToSet(ledgers[whom].drops) \subseteq Addresses \ {whom}
      OBVIOUS
    <3>1. InOrder(ledgers[whom], whom)
      BY <1>1 DEF LedgersInOrder
    <3> QED
      BY <3>1 DEF InOrder
  <2> QED
    BY <1>1, <2>1, <2>2 DEF PexTypeOK, PexShape
<1>3. LedgerIsTold
  BY <1>1 DEF SaidIsKnown, KnowsThen, LedgerIsTold
<1> QED
  BY <1>2, <1>3

(* The ledger made for whom connection says what its peer was told, whatever   *)
(* the caps, the waits, the sends that fail and the reconnections; nothing  *)
(* is withdrawn that was there when the pass began.                         *)
THEOREM LedgerIsToldAlways ==
  ASSUME PexAssumption
  PROVE  PexSpec => [](PexTypeOK /\ LedgerIsTold /\ WithdrawnIsGone)
<1>1. PexInit => PexInv
  BY PexInvStart
<1>2. PexInv /\ [PexNext]_pexVars => PexInv'
  BY PexInvStep
<1>3. PexInv => PexTypeOK /\ LedgerIsTold /\ WithdrawnIsGone
  BY PexInvMeans DEF PexInv
<1> QED
  BY <1>1, <1>2, <1>3, PTL DEF PexSpec
=============================================================================
