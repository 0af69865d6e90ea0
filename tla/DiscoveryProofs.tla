--------------------------- MODULE DiscoveryProofs --------------------------
(***************************************************************************)
(* Machine-checked proofs about what finds peers: that an answer goes to   *)
(* the question it answers, in the DHT's query registry (Krpc) and in the  *)
(* UDP tracker client (UdpTracker), for any number of callers; that a      *)
(* magnet link is pursued (Metadata), for any chunks, peers and limits;    *)
(* that the DHT node lists only who asked (the answering side of Dht); and *)
(* that a tracker's list is true to its announces (TrackerServer).         *)
(***************************************************************************)
EXTENDS Krpc, UdpTracker, Metadata, Dht, TrackerServer, FiniteSetTheorems,
  SequenceTheorems, WellFoundedInduction, TLAPS

-----------------------------------------------------------------------------
(* The DHT's query registry.                                                *)

LEMMA KrpcType ==
  ASSUME KrpcAssumption
  PROVE  /\ KrpcInit => KrpcTypeOK
         /\ KrpcTypeOK /\ [KrpcNext]_krpcVars => KrpcTypeOK'
<1>1. ASSUME KrpcInit PROVE KrpcTypeOK
  <2>1. Ready.id \in Ids /\ Ready = [at |-> "ready", id |-> Ready.id, tries |-> 0]
    BY DEF KrpcAssumption, Ready
  <2>2. 0 \in 0 .. Retries
    BY DEF KrpcAssumption
  <2> HIDE DEF Ready
  <2> QED
    BY <1>1, <2>1, <2>2 DEF KrpcInit, KrpcTypeOK
<1>2. ASSUME KrpcTypeOK, [KrpcNext]_krpcVars PROVE KrpcTypeOK'
  <2> USE <1>2 DEF KrpcTypeOK, KrpcAssumption
  <2>1. CASE UNCHANGED krpcVars
    BY <2>1 DEF krpcVars
  <2>2. CASE Close
    BY <2>2 DEF Close
  <2>3. CASE ConnectionLost
    BY <2>3 DEF ConnectionLost
  <2>4. ASSUME NEW a \in Askers, Attempt(a) PROVE KrpcTypeOK'
    BY <2>4 DEF Attempt
  <2>5. ASSUME NEW a \in Askers, TimesOut(a) PROVE KrpcTypeOK'
    <3>1. query[a] \in [at : {"ready", "waiting", "paused", "answered", "failed"},
                        id : Ids, tries : 0 .. Retries]
      OBVIOUS
    <3>2. query[a].tries \in 0 .. Retries
          /\ (query[a].tries < Retries => query[a].tries + 1 \in 0 .. Retries)
      BY <3>1
    <3>3. query' \in [Askers -> [at : {"ready", "waiting", "paused", "answered", "failed"},
                                id : Ids, tries : 0 .. Retries]]
      <4>1. CASE query[a].tries < Retries
        BY <2>5, <3>1, <3>2, <4>1 DEF TimesOut
      <4>2. CASE ~(query[a].tries < Retries)
        BY <2>5, <3>1, <4>2 DEF TimesOut
      <4> QED
        BY <4>1, <4>2
    <3> QED
      BY <2>5, <3>1, <3>3 DEF TimesOut, Drop
  <2>6. ASSUME NEW a \in Askers, Replies(a) PROVE KrpcTypeOK'
    BY <2>6 DEF Replies, Waiting
  <2>7. ASSUME NEW a \in Askers, Again(a) PROVE KrpcTypeOK'
    BY <2>7 DEF Again, Ready
  <2>8. ASSUME NEW r \in replies, Lost(r) PROVE KrpcTypeOK'
    BY <2>8 DEF Lost
  <2>9. ASSUME NEW r \in replies, Received(r) PROVE KrpcTypeOK'
    BY <2>9 DEF Received, Drop
  <2> QED
    BY <2>1, <2>2, <2>3, <2>4, <2>5, <2>6, <2>7, <2>8, <2>9 DEF KrpcNext
<1> QED
  BY <1>1, <1>2

LEMMA RegisteredIsFinite ==
  ASSUME KrpcAssumption
  PROVE  IsFiniteSet(Registered) /\ Cardinality(Registered) \in Nat
<1>1. IsFiniteSet(Ids) /\ Registered \subseteq Ids
  BY DEF KrpcAssumption, Registered
<1>2. IsFiniteSet(Registered)
  BY <1>1, FS_Subset
<1> QED
  BY <1>2, FS_CardinalityType

(* An entry a step adds is one the bound leaves room for.                   *)
LEMMA RegistryIsBounded ==
  ASSUME KrpcAssumption, KrpcTypeOK, Cardinality(Registered) <= Outstanding,
         [KrpcNext]_krpcVars
  PROVE  (Cardinality(Registered) <= Outstanding)'
<1>1. ASSUME Registered' \subseteq Registered
      PROVE  Cardinality(Registered') <= Outstanding
  <2>1. Cardinality(Registered') <= Cardinality(Registered) /\ Cardinality(Registered') \in Nat
    BY <1>1, RegisteredIsFinite, FS_Subset, FS_CardinalityType
  <2> QED
    BY <2>1, RegisteredIsFinite DEF KrpcAssumption
<1>2. ASSUME NEW a \in Askers, Attempt(a)
      PROVE  Cardinality(Registered') <= Outstanding
  <2>1. CASE UNCHANGED registry
    BY <1>1, <2>1 DEF Registered
  <2>2. ASSUME Cardinality(Registered) < Outstanding, NEW i \in Ids,
               registry' = [registry EXCEPT ![i] = a]
        PROVE  Cardinality(Registered') <= Outstanding
    <3>1. Registered' = Registered \cup {i}
      <4>1. registry'[i] = a /\ \A j \in Ids \ {i} : registry'[j] = registry[j]
        BY <2>2 DEF KrpcTypeOK
      <4>2. a # NoAsker
        BY DEF KrpcAssumption
      <4> QED
        BY <4>1, <4>2 DEF Registered
    <3>2. Cardinality(Registered') <= Cardinality(Registered) + 1 /\ Cardinality(Registered') \in Nat
      <4> DEFINE S == Registered
      <4>1. IsFiniteSet(S) /\ Cardinality(S) \in Nat
        BY RegisteredIsFinite
      <4> HIDE DEF S
      <4>2. Cardinality(S \cup {i}) = Cardinality(S) \/ Cardinality(S \cup {i}) = Cardinality(S) + 1
        BY <4>1, FS_AddElement
      <4>3. Cardinality(S \cup {i}) <= Cardinality(S) + 1 /\ Cardinality(S \cup {i}) \in Nat
        BY <4>1, <4>2
      <4> QED
        BY <3>1, <4>3 DEF S
    <3> QED
      BY <2>2, <3>2, RegisteredIsFinite DEF KrpcAssumption
  <2> QED
    BY <1>2, <2>1, <2>2 DEF Attempt
<1>3. ASSUME NEW i \in Ids, Drop(i) PROVE Registered' \subseteq Registered
  BY <1>3 DEF Drop, Registered, KrpcTypeOK
<1>4. CASE ConnectionLost
  BY <1>1, <1>4 DEF ConnectionLost, Registered
<1>5. CASE UNCHANGED registry
  BY <1>1, <1>5 DEF Registered
<1>6. ASSUME NEW a \in Askers, TimesOut(a)
      PROVE  Cardinality(Registered') <= Outstanding
  BY <1>1, <1>3, <1>6 DEF TimesOut, KrpcTypeOK
<1>7. ASSUME NEW r \in replies, Received(r)
      PROVE  Cardinality(Registered') <= Outstanding
  BY <1>1, <1>3, <1>7 DEF Received, KrpcTypeOK
<1> QED
  BY <1>2, <1>4, <1>5, <1>6, <1>7 DEF KrpcNext, krpcVars, Close, Replies, Again, Lost

(* Whatever removes or overwrites an entry, the others lead to callers who  *)
(* still wait under their id.                                               *)
LEMMA EntriesAreLive ==
  ASSUME KrpcAssumption, KrpcTypeOK, [KrpcNext]_krpcVars,
         \A i \in Registered : Waiting(registry[i]) /\ query[registry[i]].id = i
  PROVE  (\A i \in Registered : Waiting(registry[i]) /\ query[registry[i]].id = i)'
<1> USE DEF Registered, Waiting, KrpcTypeOK, KrpcAssumption
<1>1. ASSUME NEW a \in Askers, Attempt(a)
      PROVE  (\A i \in Registered : Waiting(registry[i]) /\ query[registry[i]].id = i)'
  BY <1>1 DEF Attempt
<1>2. ASSUME NEW a \in Askers, TimesOut(a)
      PROVE  (\A i \in Registered : Waiting(registry[i]) /\ query[registry[i]].id = i)'
  BY <1>2 DEF TimesOut, Drop
<1>3. ASSUME NEW a \in Askers, Again(a)
      PROVE  (\A i \in Registered : Waiting(registry[i]) /\ query[registry[i]].id = i)'
  BY <1>3 DEF Again
<1>4. ASSUME NEW r \in replies, Received(r)
      PROVE  (\A i \in Registered : Waiting(registry[i]) /\ query[registry[i]].id = i)'
  BY <1>4 DEF Received, Drop
<1>5. CASE ConnectionLost
  BY <1>5 DEF ConnectionLost
<1>6. CASE UNCHANGED <<query, registry>>
  BY <1>6
<1> QED
  BY <1>1, <1>2, <1>3, <1>4, <1>5, <1>6 DEF KrpcNext, krpcVars, Close, Replies, Lost

LEMMA RegistryInit ==
  ASSUME KrpcAssumption, KrpcInit
  PROVE  RegistryIsLive /\ WaitingIsRegistered
<1>1. Registered = {}
  BY DEF KrpcInit, Registered
<1>2. Cardinality(Registered) = 0
  BY <1>1, FS_EmptySet
<1>3. RegistryIsLive
  BY <1>1, <1>2 DEF RegistryIsLive, KrpcAssumption
<1>4. WaitingIsRegistered
  BY DEF KrpcInit, WaitingIsRegistered, Waiting, Ready
<1> QED
  BY <1>3, <1>4

LEMMA RegistryStep ==
  ASSUME KrpcAssumption, KrpcTypeOK, RegistryIsLive, [KrpcNext]_krpcVars
  PROVE  RegistryIsLive'
BY RegistryIsBounded, EntriesAreLive DEF RegistryIsLive

(* A fresh id overwrites nobody's entry.                                    *)
LEMMA WaitingStep ==
  ASSUME KrpcAssumption, FreshIds, KrpcTypeOK, WaitingIsRegistered, [KrpcNext]_krpcVars
  PROVE  WaitingIsRegistered'
<1> USE DEF WaitingIsRegistered, Registered, Waiting, KrpcTypeOK, KrpcAssumption
<1>1. ASSUME NEW a \in Askers, Attempt(a) PROVE WaitingIsRegistered'
  BY <1>1 DEF Attempt
<1>2. ASSUME NEW a \in Askers, TimesOut(a) PROVE WaitingIsRegistered'
  BY <1>2 DEF TimesOut, Drop
<1>3. ASSUME NEW a \in Askers, Again(a) PROVE WaitingIsRegistered'
  BY <1>3 DEF Again, Ready
<1>4. ASSUME NEW r \in replies, Received(r) PROVE WaitingIsRegistered'
  BY <1>4 DEF Received, Drop
<1>5. CASE ConnectionLost \/ Close
  BY <1>5 DEF ConnectionLost, Close
<1>6. CASE UNCHANGED <<query, registry, bound>>
  BY <1>6
<1> QED
  BY <1>1, <1>2, <1>3, <1>4, <1>5, <1>6 DEF KrpcNext, krpcVars, Replies, Lost

(* The transport's registry never passes MAX_OUTSTANDING and holds only     *)
(* queries that wait under their id, whatever is lost, late or repeated.    *)
THEOREM RegistryIsLiveAlways ==
  ASSUME KrpcAssumption
  PROVE  KrpcSpec => [](KrpcTypeOK /\ RegistryIsLive)
<1>1. KrpcInit => KrpcTypeOK /\ RegistryIsLive
  BY KrpcType, RegistryInit
<1>2. KrpcTypeOK /\ RegistryIsLive /\ [KrpcNext]_krpcVars => KrpcTypeOK' /\ RegistryIsLive'
  BY KrpcType, RegistryStep
<1> QED
  BY <1>1, <1>2, PTL DEF KrpcSpec

(* If an id that is registered were never drawn again, the reply to every   *)
(* query would find it: what collisions of two-byte ids take away.          *)
THEOREM WaitingIsRegisteredAlways ==
  ASSUME KrpcAssumption, FreshIds
  PROVE  KrpcSpec => []WaitingIsRegistered
<1>1. KrpcInit => KrpcTypeOK /\ WaitingIsRegistered
  BY KrpcType, RegistryInit
<1>2. KrpcTypeOK /\ WaitingIsRegistered /\ [KrpcNext]_krpcVars
        => KrpcTypeOK' /\ WaitingIsRegistered'
  BY KrpcType, WaitingStep
<1> QED
  BY <1>1, <1>2, PTL DEF KrpcSpec

-----------------------------------------------------------------------------
(* The UDP tracker client.                                                  *)

(* Who waits for a packet is the first in the queue and has no answer yet;  *)
(* a call that asks nobody has none either.                                 *)
ArmedForHead ==
  armed # NoReply =>
    /\ turns # << >>
    /\ LET call == calls[Head(turns)] IN
         call.stage \in {"connecting", "asking"} /\ call.reply = "none" /\ call.mine = armed.tid

Fit(call) ==
  /\ call \in CallStates /\ call.own
  /\ call.stage \in {"connecting", "asking"} \/ call.reply = "none"
  /\ call.stage = "idle" \/ call.action # "none"

UdpInv ==
  /\ UdpTypeOK /\ TurnsAreTaken /\ ArmedForHead /\ ~silent
  /\ \A c \in Callers : Fit(calls[c])

LEMMA IdleFits ==
  ASSUME UdpAssumption
  PROVE  Fit(Idle) /\ Idle.stage = "idle"
BY DEF UdpAssumption, Fit, Idle, CallStates

(* The queue of the lock loses its first.                                   *)
LEMMA Leaves ==
  ASSUME UdpAssumption, UdpInv, NEW c \in Callers, Holds(c),
         turns' = Tail(turns), calls' = [calls EXCEPT ![c] = Idle]
  PROVE  turns' \in Seq(Callers) /\ TurnsAreTaken'
<1> DEFINE q == turns
           r == Tail(turns)
<1>1. q \in Seq(Callers) /\ q # << >> /\ Head(q) = c
  BY DEF UdpInv, UdpTypeOK, Holds
<1>2. q[1] = c /\ Len(q) \in Nat \ {0} /\ \A i \in 1 .. Len(q) : q[i] \in Callers
  BY <1>1, EmptySeq, ElementOfSeq
<1>3. r \in Seq(Callers) /\ Len(r) = Len(q) - 1 /\ \A i \in 1 .. Len(r) : r[i] = q[i + 1]
  BY <1>1, HeadTailProperties
<1>4. /\ \A i, j \in 1 .. Len(q) : q[i] = q[j] => i = j
      /\ \A d \in Callers : calls[d].stage # "idle" <=> \E i \in 1 .. Len(q) : q[i] = d
  BY DEF UdpInv, TurnsAreTaken
<1>5. turns' = r /\ \A d \in Callers : calls'[d] = IF d = c THEN Idle ELSE calls[d]
  BY DEF UdpInv, UdpTypeOK
<1> HIDE DEF q, r
<1>6. ASSUME NEW i \in 1 .. Len(r), NEW j \in 1 .. Len(r), r[i] = r[j] PROVE i = j
  <2>1. i + 1 \in 1 .. Len(q) /\ j + 1 \in 1 .. Len(q) /\ (i + 1 = j + 1 => i = j)
    BY <1>2, <1>3
  <2>2. q[i + 1] = q[j + 1]
    BY <1>3, <1>6
  <2> QED
    BY <1>4, <2>1, <2>2
<1>7. \A i \in 1 .. Len(r) : r[i] # c
  BY <1>2, <1>3, <1>4
<1>8. ASSUME NEW d \in Callers, d # c
      PROVE  (\E i \in 1 .. Len(q) : q[i] = d) <=> (\E i \in 1 .. Len(r) : r[i] = d)
  <2>1. ASSUME NEW i \in 1 .. Len(q), q[i] = d PROVE \E j \in 1 .. Len(r) : r[j] = d
    <3>1. i # 1 /\ i - 1 \in 1 .. Len(r) /\ (i - 1) + 1 = i
      BY <1>2, <1>3, <1>8, <2>1
    <3> QED
      BY <1>3, <2>1, <3>1
  <2>2. ASSUME NEW i \in 1 .. Len(r), r[i] = d PROVE \E j \in 1 .. Len(q) : q[j] = d
    <3>1. i + 1 \in 1 .. Len(q)
      BY <1>2, <1>3
    <3> QED
      BY <1>3, <2>2, <3>1
  <2> QED
    BY <2>1, <2>2
<1>9. \A d \in Callers : calls'[d].stage # "idle" <=> \E i \in 1 .. Len(r) : r[i] = d
  BY <1>4, <1>5, <1>7, <1>8, IdleFits
<1> QED
  BY <1>3, <1>5, <1>6, <1>9 DEF TurnsAreTaken

(* A caller who has no call joins it.                                       *)
LEMMA Joins ==
  ASSUME UdpAssumption, NEW q \in Seq(Callers), NEW c \in Callers,
         \A i, j \in 1 .. Len(q) : q[i] = q[j] => i = j,
         \A i \in 1 .. Len(q) : q[i] # c
  PROVE  /\ Append(q, c) \in Seq(Callers)
         /\ \A i, j \in 1 .. Len(Append(q, c)) : Append(q, c)[i] = Append(q, c)[j] => i = j
         /\ \A d \in Callers : (\E i \in 1 .. Len(Append(q, c)) : Append(q, c)[i] = d) <=>
                               (d = c \/ \E i \in 1 .. Len(q) : q[i] = d)
<1> DEFINE r == Append(q, c)
<1>1. /\ Len(q) \in Nat /\ r \in Seq(Callers) /\ Len(r) = Len(q) + 1
      /\ \A i \in 1 .. Len(q) : r[i] = q[i]
      /\ r[Len(q) + 1] = c
  BY LenProperties, AppendProperties
<1> HIDE DEF r
<1>2. \A i, j \in 1 .. Len(r) : r[i] = r[j] => i = j
  BY <1>1
<1>3. ASSUME NEW d \in Callers
      PROVE  (\E i \in 1 .. Len(r) : r[i] = d) <=> (d = c \/ \E i \in 1 .. Len(q) : q[i] = d)
  <2>1. Len(q) + 1 \in 1 .. Len(r) /\ \A i \in 1 .. Len(q) : i \in 1 .. Len(r)
    BY <1>1
  <2>2. \A i \in 1 .. Len(r) : i \in 1 .. Len(q) \/ i = Len(q) + 1
    BY <1>1
  <2> QED
    BY <1>1, <2>1, <2>2
<1> QED
  BY <1>1, <1>2, <1>3 DEF r

(* A caller leaves it from wherever it stands.                              *)
LEMMA Removed ==
  ASSUME UdpAssumption, NEW q \in Seq(Callers), NEW k \in 1 .. Len(q),
         \A i, j \in 1 .. Len(q) : q[i] = q[j] => i = j
  PROVE  /\ RemoveAt(q, k) \in Seq(Callers)
         /\ Len(RemoveAt(q, k)) = Len(q) - 1
         /\ \A i \in 1 .. Len(q) - 1 : RemoveAt(q, k)[i] = IF i < k THEN q[i] ELSE q[i + 1]
<1> DEFINE f == SubSeq(q, 1, k - 1)
           g == SubSeq(q, k + 1, Len(q))
           r == f \o g
<1>1. Len(q) \in Nat /\ k \in Int
  BY LenProperties
<1>2. \A i \in 1 .. Len(q) : q[i] \in Callers
  BY ElementOfSeq
<1>3. /\ f \in Seq(Callers) /\ Len(f) = k - 1
      /\ \A i \in 1 .. k - 1 : f[i] = q[i]
  BY <1>1, <1>2, SubSeqProperties
<1>4. /\ g \in Seq(Callers) /\ Len(g) = Len(q) - k
      /\ \A i \in 1 .. Len(q) - k : g[i] = q[k + i]
  BY <1>1, <1>2, SubSeqProperties
<1> HIDE DEF f, g
<1>s. f \in Seq(Callers) /\ g \in Seq(Callers)
  BY <1>3, <1>4
<1>5. /\ r \in Seq(Callers) /\ Len(r) = Len(f) + Len(g)
      /\ \A i \in 1 .. Len(f) + Len(g) : r[i] = IF i <= Len(f) THEN f[i] ELSE g[i - Len(f)]
  BY <1>s, ConcatProperties
<1> HIDE DEF r
<1>6. Len(r) = Len(q) - 1
  BY <1>1, <1>3, <1>4, <1>5
<1>7. ASSUME NEW i \in 1 .. Len(q) - 1 PROVE r[i] = IF i < k THEN q[i] ELSE q[i + 1]
  <2>1. i \in 1 .. Len(f) + Len(g) /\ Len(f) = k - 1 /\ Len(g) = Len(q) - k
    BY <1>1, <1>3, <1>4, <1>5
  <2>2. CASE i < k
    <3>1. i \in 1 .. k - 1
      BY <1>1, <2>1, <2>2
    <3>2. i <= Len(f)
      BY <1>1, <2>1, <2>2
    <3> QED
      BY <1>3, <1>5, <2>1, <2>2, <3>1, <3>2
  <2>3. CASE ~(i < k)
    <3>1. i - Len(f) \in 1 .. Len(q) - k /\ k + (i - Len(f)) = i + 1 /\ ~(i <= Len(f))
      BY <1>1, <2>1, <2>3
    <3>2. r[i] = g[i - Len(f)]
      BY <1>5, <2>1, <3>1
    <3> QED
      BY <1>4, <2>3, <3>1, <3>2
  <2> QED
    BY <2>2, <2>3
<1>8. RemoveAt(q, k) = r
  BY DEF r, f, g, RemoveAt
<1> QED
  BY <1>5, <1>6, <1>7, <1>8

LEMMA Cancelled ==
  ASSUME UdpAssumption, UdpInv, NEW c \in Callers, NEW k \in 1 .. Len(turns), turns[k] = c,
         turns' = RemoveAt(turns, k), calls' = [calls EXCEPT ![c] = Idle]
  PROVE  /\ turns' \in Seq(Callers) /\ TurnsAreTaken'
         /\ ~Holds(c) => turns' # << >> /\ Head(turns') = Head(turns)
<1> DEFINE q == turns
           r == RemoveAt(turns, k)
<1>1. /\ q \in Seq(Callers) /\ Len(q) \in Nat /\ k \in 1 .. Len(q)
      /\ \A i, j \in 1 .. Len(q) : q[i] = q[j] => i = j
      /\ \A d \in Callers : calls[d].stage # "idle" <=> \E i \in 1 .. Len(q) : q[i] = d
  BY LenProperties DEF UdpInv, UdpTypeOK, TurnsAreTaken
<1>2. /\ r \in Seq(Callers) /\ Len(r) = Len(q) - 1
      /\ \A i \in 1 .. Len(q) - 1 : r[i] = IF i < k THEN q[i] ELSE q[i + 1]
  BY <1>1, Removed
<1>3. turns' = r /\ \A d \in Callers : calls'[d] = IF d = c THEN Idle ELSE calls[d]
  BY DEF UdpInv, UdpTypeOK
<1>4. q # << >> /\ Head(q) = q[1] /\ (Holds(c) <=> q[1] = c) /\ q[k] = c
  BY <1>1, EmptySeq DEF Holds
<1> HIDE DEF q, r
<1>5. \A i \in 1 .. Len(r) : i \in 1 .. Len(q) /\ i + 1 \in 1 .. Len(q)
  BY <1>1, <1>2
<1>6. ASSUME NEW i \in 1 .. Len(r), NEW j \in 1 .. Len(r), r[i] = r[j] PROVE i = j
  <2> DEFINE m == IF i < k THEN i ELSE i + 1
             n == IF j < k THEN j ELSE j + 1
  <2>1. m \in 1 .. Len(q) /\ n \in 1 .. Len(q) /\ (m = n => i = j)
    BY <1>1, <1>5
  <2>2. r[i] = q[m] /\ r[j] = q[n]
    BY <1>2
  <2> HIDE DEF m, n
  <2> QED
    BY <1>1, <1>6, <2>1, <2>2
<1>7. \A i \in 1 .. Len(r) : r[i] # c
  BY <1>1, <1>2, <1>4, <1>5
<1>8. ASSUME NEW d \in Callers, d # c
      PROVE  (\E i \in 1 .. Len(q) : q[i] = d) <=> (\E i \in 1 .. Len(r) : r[i] = d)
  <2>1. ASSUME NEW i \in 1 .. Len(q), q[i] = d PROVE \E j \in 1 .. Len(r) : r[j] = d
    <3>1. CASE i < k
      <4>1. i \in 1 .. Len(r)
        BY <1>1, <1>2, <3>1
      <4> QED
        BY <1>2, <2>1, <3>1, <4>1
    <3>2. CASE ~(i < k)
      <4>1. i # k
        BY <1>4, <1>8, <2>1
      <4>2. i - 1 \in 1 .. Len(q) - 1 /\ ~(i - 1 < k) /\ (i - 1) + 1 = i
        BY <1>1, <3>2, <4>1
      <4> QED
        BY <1>2, <2>1, <4>2
    <3> QED
      BY <3>1, <3>2
  <2>2. ASSUME NEW i \in 1 .. Len(r), r[i] = d PROVE \E j \in 1 .. Len(q) : q[j] = d
    BY <1>2, <1>5, <2>2
  <2> QED
    BY <2>1, <2>2
<1>9. ASSUME NEW d \in Callers
      PROVE  calls'[d].stage # "idle" <=> \E i \in 1 .. Len(r) : r[i] = d
  <2>1. CASE d = c
    <3>1. calls'[d].stage = "idle"
      BY <1>3, <2>1, IdleFits
    <3> QED
      BY <1>7, <2>1, <3>1
  <2>2. CASE d # c
    BY <1>1, <1>3, <1>8, <2>2
  <2> QED
    BY <2>1, <2>2
<1>10. ASSUME ~Holds(c) PROVE r # << >> /\ Head(r) = Head(q)
  <2>1. k # 1 /\ Len(r) >= 1 /\ 1 \in 1 .. Len(q) - 1 /\ 1 < k
    BY <1>1, <1>2, <1>4, <1>10
  <2>2. r # << >> /\ Head(r) = r[1]
    BY <1>2, <2>1, EmptySeq
  <2>3. r[1] = q[1]
    BY <1>2, <2>1
  <2> QED
    BY <1>4, <2>2, <2>3
<1>11. turns = q
  BY DEF q
<1> QED
  BY <1>2, <1>3, <1>6, <1>9, <1>10, <1>11 DEF TurnsAreTaken

(* What sending does to the call that sends.                                *)
Asks(c, new) ==
  /\ Fit(new) /\ new.stage \in {"connecting", "asking"} /\ new.reply = "none"
  /\ new.mine = seed + 1
  /\ calls' = [calls EXCEPT ![c] = new]
  /\ seed' = seed + 1
  /\ armed' \in Packets /\ armed'.tid = seed + 1
  /\ sent' = sent \cup {armed'}

Connects(c, new) ==
  /\ Fit(new) /\ new.stage = "opening"
  /\ calls' = [calls EXCEPT ![c] = new]
  /\ UNCHANGED <<seed, armed, sent>>

LEMMA RoundTripAsks ==
  ASSUME UdpTypeOK, NEW c \in Callers, NEW call, Fit(call), call.reply = "none",
         call.stage # "idle", NEW action \in {"connect", "announce", "scrape"}, NEW id \in Nat,
         RoundTrip(c, action, id, call)
  PROVE  \E new : Asks(c, new)
<1> DEFINE new == [call EXCEPT !.stage = IF action = "connect" THEN "connecting" ELSE "asking",
                               !.mine = seed', !.id = id]
<1>1. seed' = seed + 1 /\ seed \in Nat /\ seed' \in Nat /\ calls' = [calls EXCEPT ![c] = new]
  BY DEF RoundTrip, UdpTypeOK
<1>2. armed' = [action |-> action, tid |-> seed'] /\ sent' = sent \cup {armed'}
  BY DEF RoundTrip
<1>3. call \in CallStates /\ call.own /\ call.action # "none"
  BY DEF Fit
<1>4. /\ new \in CallStates /\ new.stage \in {"connecting", "asking"} /\ new.reply = "none"
      /\ new.mine = seed' /\ new.own = call.own /\ new.action = call.action
  <2>1. (IF action = "connect" THEN "connecting" ELSE "asking") \in {"connecting", "asking"}
    OBVIOUS
  <2> QED
    BY <1>1, <1>3, <2>1 DEF CallStates
<1> HIDE DEF new
<1>5. armed' \in Packets /\ armed'.tid = seed'
  BY <1>1, <1>2 DEF Packets
<1>6. Asks(c, new)
  BY <1>1, <1>2, <1>3, <1>4, <1>5 DEF Asks, Fit
<1> QED
  BY <1>6

LEMMA ConverseAsks ==
  ASSUME UdpTypeOK, NEW c \in Callers, NEW call, Fit(call), call.reply = "none",
         call.stage # "idle", Converse(c, call)
  PROVE  \E new : Asks(c, new)
<1>1. call.action \in {"announce", "scrape"} /\ conn \in Nat /\ 0 \in Nat
  BY DEF Fit, CallStates, UdpTypeOK
<1>2. RoundTrip(c, call.action, conn, call) \/ RoundTrip(c, "connect", 0, call)
  BY DEF Converse
<1> QED
  BY <1>1, <1>2, RoundTripAsks

LEMMA TryMeans ==
  ASSUME UdpTypeOK, NEW c \in Callers, NEW call, Fit(call), call.reply = "none",
         call.stage # "idle", TryOnce(c, call)
  PROVE  \E new : Asks(c, new) \/ Connects(c, new)
<1>1. CASE up
  <2> DEFINE again == [call EXCEPT !.reused = conn # 0]
  <2>1. Fit(again) /\ again.reply = "none" /\ again.stage # "idle"
    <3>1. (conn # 0) \in BOOLEAN
      OBVIOUS
    <3>2. again \in CallStates /\ again.own = call.own /\ again.action = call.action
          /\ again.reply = call.reply /\ again.stage = call.stage
      BY <3>1 DEF Fit, CallStates
    <3> QED
      BY <3>2 DEF Fit
  <2>2. Converse(c, again)
    BY <1>1 DEF TryOnce
  <2> HIDE DEF again
  <2> QED
    BY <2>1, <2>2, ConverseAsks
<1>2. CASE ~up
  <2> DEFINE new == [call EXCEPT !.stage = "opening"]
  <2>1. new \in CallStates /\ new.own = call.own /\ new.action = call.action
        /\ new.reply = call.reply /\ new.stage = "opening"
    BY DEF Fit, CallStates
  <2>2. calls' = [calls EXCEPT ![c] = new] /\ UNCHANGED <<seed, armed, sent>>
    BY <1>2 DEF TryOnce
  <2> HIDE DEF new
  <2>3. Connects(c, new)
    BY <2>1, <2>2 DEF Fit, Connects
  <2> QED
    BY <2>3
<1> QED
  BY <1>1, <1>2

(* A call that goes on keeps its place.                                     *)
LEMMA GoesOnInPlace ==
  ASSUME UdpInv, NEW c \in Callers, calls[c].stage # "idle", NEW new, Fit(new), new.stage # "idle",
         calls' = [calls EXCEPT ![c] = new], turns' = turns
  PROVE  turns' \in Seq(Callers) /\ TurnsAreTaken'
<1>1. \A d \in Callers : calls'[d] = IF d = c THEN new ELSE calls[d]
  BY DEF UdpInv, UdpTypeOK
<1> QED
  BY <1>1 DEF UdpInv, UdpTypeOK, TurnsAreTaken

LEMMA CallsFit ==
  ASSUME UdpInv, NEW c \in Callers, NEW new, Fit(new), calls' = [calls EXCEPT ![c] = new]
  PROVE  /\ calls' \in [Callers -> CallStates] /\ \A d \in Callers : Fit(calls'[d])
         /\ \A d \in Callers : calls'[d] = IF d = c THEN new ELSE calls[d]
<1>1. calls \in [Callers -> CallStates] /\ new \in CallStates /\ \A d \in Callers : Fit(calls[d])
  BY DEF UdpInv, UdpTypeOK, Fit
<1> QED
  BY <1>1

(* An attempt leaves the client in order when its caller holds the lock and *)
(* no packet is awaited.                                                    *)
LEMMA TryStep ==
  ASSUME UdpAssumption, UdpInv, NEW c \in Callers, turns' # << >>, Head(turns') = c,
         turns' \in Seq(Callers), TurnsAreTaken', armed = NoReply, ~silent',
         NEW new, Asks(c, new) \/ Connects(c, new),
         up' \in BOOLEAN, conn' \in Nat, young' \in BOOLEAN, made' \in 0 .. MaxCalls
  PROVE  UdpInv'
<1>1. Fit(new) /\ calls' = [calls EXCEPT ![c] = new]
  BY DEF Asks, Connects
<1>2. /\ calls' \in [Callers -> CallStates] /\ \A d \in Callers : Fit(calls'[d])
      /\ calls'[c] = new
  BY <1>1, CallsFit
<1>3. seed \in Nat /\ sent \subseteq Packets /\ armed.tid <= seed
  BY DEF UdpInv, UdpTypeOK
<1>4. CASE Asks(c, new)
  <2>1. seed' = seed + 1 /\ armed' \in Packets /\ armed'.tid = seed + 1 /\ sent' \subseteq Packets
        /\ new.stage \in {"connecting", "asking"} /\ new.reply = "none" /\ new.mine = seed + 1
    BY <1>3, <1>4 DEF Asks
  <2>2. armed'.tid <= seed' /\ seed' \in Nat
    BY <1>3, <2>1
  <2>3. ArmedForHead'
    BY <1>2, <2>1 DEF ArmedForHead
  <2> QED
    BY <1>2, <2>1, <2>2, <2>3 DEF UdpInv, UdpTypeOK
<1>5. CASE Connects(c, new)
  <2>1. seed' = seed /\ armed' = NoReply /\ sent' = sent
    BY <1>5 DEF Connects
  <2>2. ArmedForHead'
    BY <2>1 DEF ArmedForHead
  <2> QED
    BY <1>2, <1>3, <2>1, <2>2 DEF UdpInv, UdpTypeOK
<1> QED
  BY <1>4, <1>5

(* Who goes on without sending leaves no packet awaited.                    *)
LEMMA QuietStep ==
  ASSUME UdpAssumption, UdpInv, NEW c \in Callers, NEW new, Fit(new),
         calls' = [calls EXCEPT ![c] = new], turns' \in Seq(Callers), TurnsAreTaken',
         armed' = NoReply, ~silent', seed' = seed, sent' \subseteq Packets,
         up' \in BOOLEAN, conn' \in Nat, young' \in BOOLEAN, made' = made
  PROVE  UdpInv'
<1>1. calls' \in [Callers -> CallStates] /\ \A d \in Callers : Fit(calls'[d])
  BY CallsFit
<1>2. NoReply.tid <= seed /\ seed \in Nat /\ made \in 0 .. MaxCalls
  BY DEF UdpInv, UdpTypeOK, NoReply
<1>3. ArmedForHead'
  BY DEF ArmedForHead
<1> QED
  BY <1>1, <1>2, <1>3 DEF UdpInv, UdpTypeOK

LEMMA HolderIsFirst ==
  ASSUME UdpInv, NEW c \in Callers, NEW stage0, At(c, stage0)
  PROVE  /\ turns # << >> /\ Head(turns) = c /\ Holds(c) /\ calls[c].stage = stage0 /\ Fit(calls[c])
         /\ turns \in Seq(Callers) /\ TurnsAreTaken /\ calls[c] \in CallStates
         /\ stage0 \notin {"connecting", "asking"} => armed = NoReply /\ calls[c].reply = "none"
         /\ calls[c].reply # "none" => armed = NoReply
BY DEF UdpInv, UdpTypeOK, At, Holds, ArmedForHead, Fit

LEMMA EndStep ==
  ASSUME UdpAssumption, UdpInv, NEW c \in Callers, NEW stage0, At(c, stage0),
         calls' = [calls EXCEPT ![c] = Idle], turns' = Tail(turns),
         armed' = NoReply, ~silent', seed' = seed, sent' = sent,
         up' \in BOOLEAN, conn' \in Nat, young' \in BOOLEAN, made' = made
  PROVE  UdpInv'
<1>1. turns' \in Seq(Callers) /\ TurnsAreTaken'
  BY HolderIsFirst, Leaves
<1>2. Fit(Idle) /\ sent' \subseteq Packets
  BY IdleFits DEF UdpInv, UdpTypeOK
<1> HIDE DEF UdpInv
<1> QED
  BY <1>1, <1>2, QuietStep

LEMMA FailsStep ==
  ASSUME UdpAssumption, UdpInv, NEW c \in Callers, NEW stage0, At(c, stage0), stage0 # "idle",
         Fails(c), armed' = NoReply, ~silent', seed' = seed, sent' = sent, up' = up, made' = made
  PROVE  UdpInv'
<1>1. conn' = 0 /\ conn' \in Nat /\ young' \in BOOLEAN /\ up' \in BOOLEAN
  BY DEF Fails, UdpInv, UdpTypeOK
<1>2. CASE calls[c].attempt < MaxRetries
  <2> DEFINE new == [calls[c] EXCEPT !.stage = "backing", !.attempt = calls[c].attempt + 1,
                                     !.reply = "none"]
  <2>a. calls' = [calls EXCEPT ![c] = new]
    <3>1. calls \in [Callers -> CallStates]
      BY DEF UdpInv, UdpTypeOK
    <3> QED
      BY <1>2, <3>1 DEF Fails, CallStates
  <2>1. calls' = [calls EXCEPT ![c] = new] /\ turns' = turns
    <3>2. turns' = turns
      BY <1>2 DEF Fails
    <3> QED
      BY <2>a, <3>2
  <2>2. Fit(calls[c]) /\ calls[c] \in CallStates /\ calls[c].stage # "idle"
    BY HolderIsFirst
  <2>3. calls[c].attempt + 1 \in 0 .. MaxRetries
    BY <1>2, <2>2 DEF UdpAssumption, CallStates
  <2>4. new \in CallStates /\ new.own = calls[c].own /\ new.action = calls[c].action
        /\ new.stage = "backing" /\ new.reply = "none"
    BY <2>2, <2>3 DEF CallStates
  <2> HIDE DEF new
  <2>5. Fit(new) /\ new.stage # "idle"
    BY <2>2, <2>4 DEF Fit
  <2>6. turns' \in Seq(Callers) /\ TurnsAreTaken'
    BY <2>1, <2>2, <2>5, GoesOnInPlace
  <2>7. sent' \subseteq Packets
    BY DEF UdpInv, UdpTypeOK
  <2> QED
    BY <1>1, <2>1, <2>5, <2>6, <2>7, QuietStep
<1>3. CASE ~(calls[c].attempt < MaxRetries)
  <2>1. calls' = [calls EXCEPT ![c] = Idle] /\ turns' = Tail(turns)
    BY <1>3 DEF Fails
  <2> QED
    BY <1>1, <2>1, EndStep
<1> QED
  BY <1>2, <1>3

LEMMA CallStep ==
  ASSUME UdpAssumption, UdpInv, NEW c \in Callers, NEW action \in {"announce", "scrape"},
         Call(c, action)
  PROVE  UdpInv'
<1> DEFINE call == [Idle EXCEPT !.action = action, !.stage = "queued",
                                !.batches = IF action = "scrape" THEN Batches ELSE 1]
<1>1. call.stage = "queued" /\ call.reply = "none" /\ Fit(call)
  <2> DEFINE n == IF action = "scrape" THEN Batches ELSE 1
  <2>1. n \in 0 .. Batches
    BY DEF UdpAssumption
  <2>2. Idle \in CallStates /\ Idle.own /\ Idle.reply = "none"
    BY DEF UdpAssumption, Idle, CallStates
  <2> HIDE DEF n
  <2>3. call \in CallStates /\ call.own = Idle.own /\ call.reply = Idle.reply
        /\ call.stage = "queued" /\ call.action = action
    BY <2>1, <2>2 DEF CallStates, n
  <2> QED
    BY <2>2, <2>3 DEF Fit
<1>2. turns' = Append(turns, c) /\ UNCHANGED <<up, conn, young, silent>> /\ made' = made + 1
      /\ made < MaxCalls /\ calls[c].stage = "idle"
  BY IdleFits DEF Call
<1>t. /\ turns \in Seq(Callers) /\ up \in BOOLEAN /\ conn \in Nat /\ young \in BOOLEAN
      /\ made \in 0 .. MaxCalls /\ TurnsAreTaken /\ ~silent /\ ArmedForHead /\ UdpTypeOK
  BY DEF UdpInv, UdpTypeOK
<1>m. made' \in 0 .. MaxCalls
  BY <1>2, <1>t DEF UdpAssumption
<1>3. /\ \A i, j \in 1 .. Len(turns) : turns[i] = turns[j] => i = j
      /\ \A i \in 1 .. Len(turns) : turns[i] # c
  BY <1>2, <1>t DEF TurnsAreTaken
<1>4. /\ Append(turns, c) \in Seq(Callers)
      /\ \A i, j \in 1 .. Len(Append(turns, c)) : Append(turns, c)[i] = Append(turns, c)[j] => i = j
      /\ \A d \in Callers : (\E i \in 1 .. Len(Append(turns, c)) : Append(turns, c)[i] = d) <=>
                            (d = c \/ \E i \in 1 .. Len(turns) : turns[i] = d)
  BY <1>3, <1>t, Joins
<1> HIDE DEF call
<1>5. ASSUME NEW new, Fit(new), new.stage # "idle", calls' = [calls EXCEPT ![c] = new]
      PROVE  turns' \in Seq(Callers) /\ TurnsAreTaken'
  <2>1. \A d \in Callers : calls'[d] = IF d = c THEN new ELSE calls[d]
    BY <1>5, CallsFit
  <2>2. \A d \in Callers : calls'[d].stage # "idle" <=> \E i \in 1 .. Len(turns') : turns'[i] = d
    BY <1>2, <1>4, <1>5, <1>t, <2>1 DEF TurnsAreTaken
  <2> QED
    BY <1>2, <1>4, <2>2 DEF TurnsAreTaken
<1>6. CASE turns = << >>
  <2>1. TryOnce(c, call)
    BY <1>6 DEF Call, call
  <2>2. PICK new : Asks(c, new) \/ Connects(c, new)
    BY <1>1, <1>t, <2>1, TryMeans
  <2>3. Fit(new) /\ new.stage # "idle" /\ calls' = [calls EXCEPT ![c] = new]
    BY <2>2 DEF Asks, Connects
  <2>4. turns' \in Seq(Callers) /\ TurnsAreTaken'
    BY <1>5, <2>3
  <2>5. turns' = << c >> /\ turns' # << >> /\ Head(turns') = c
    BY <1>2, <1>6
  <2>6. armed = NoReply
    BY <1>6, <1>t DEF ArmedForHead
  <2> QED
    BY <1>2, <1>m, <1>t, <2>2, <2>4, <2>5, <2>6, TryStep
<1>7. CASE turns # << >>
  <2>1. calls' = [calls EXCEPT ![c] = call] /\ UNCHANGED <<seed, armed, sent>>
    BY <1>7 DEF Call, call
  <2>2. turns' \in Seq(Callers) /\ TurnsAreTaken'
    BY <1>1, <1>5, <2>1
  <2>3. /\ calls' \in [Callers -> CallStates] /\ \A d \in Callers : Fit(calls'[d])
        /\ \A d \in Callers : calls'[d] = IF d = c THEN call ELSE calls[d]
    BY <1>1, <2>1, CallsFit
  <2>4. Head(turns) \in Callers /\ turns' # << >> /\ Head(turns') = Head(turns)
    <3>1. Head(turns) = turns[1] /\ Len(turns) \in Nat \ {0} /\ 1 \in 1 .. Len(turns)
      BY <1>7, <1>t, EmptySeq
    <3>2. Len(turns') = Len(turns) + 1 /\ turns'[1] = turns[1] /\ turns[1] \in Callers
      BY <1>2, <1>t, <3>1, AppendProperties, ElementOfSeq
    <3>3. turns' # << >> /\ Head(turns') = turns'[1]
      BY <2>2, <3>1, <3>2, EmptySeq
    <3> QED
      BY <3>1, <3>2, <3>3
  <2>5. ArmedForHead'
    <3>1. SUFFICES ASSUME armed # NoReply
                   PROVE  /\ turns' # << >>
                          /\ calls'[Head(turns')].stage \in {"connecting", "asking"}
                          /\ calls'[Head(turns')].reply = "none"
                          /\ calls'[Head(turns')].mine = armed.tid
      BY <2>1 DEF ArmedForHead
    <3>2. calls[Head(turns)].stage \in {"connecting", "asking"}
          /\ calls[Head(turns)].reply = "none" /\ calls[Head(turns)].mine = armed.tid
      BY <1>t, <3>1 DEF ArmedForHead
    <3>3. Head(turns) # c
      BY <1>2, <3>2
    <3> QED
      BY <2>3, <2>4, <3>2, <3>3
  <2> QED
    BY <1>2, <1>m, <1>t, <2>1, <2>2, <2>3, <2>5 DEF UdpInv, UdpTypeOK
<1> QED
  BY <1>6, <1>7

LEMMA ResumeStep ==
  ASSUME UdpAssumption, UdpInv, NEW c \in Callers, NEW stage0, At(c, stage0), stage0 # "idle",
         armed = NoReply, NEW new, Asks(c, new) \/ Connects(c, new), turns' = turns, ~silent',
         up' \in BOOLEAN, conn' \in Nat, young' \in BOOLEAN, made' = made
  PROVE  UdpInv'
<1>1. Fit(new) /\ new.stage # "idle" /\ calls' = [calls EXCEPT ![c] = new]
  BY DEF Asks, Connects
<1>2. turns' # << >> /\ Head(turns') = c /\ calls[c].stage # "idle"
  BY HolderIsFirst
<1>3. turns' \in Seq(Callers) /\ TurnsAreTaken'
  BY <1>1, <1>2, GoesOnInPlace
<1>4. made' \in 0 .. MaxCalls
  BY DEF UdpInv, UdpTypeOK
<1> QED
  BY <1>2, <1>3, <1>4, TryStep

LEMMA TakesLock ==
  ASSUME UdpAssumption, UdpInv, NEW c \in Callers, LockTaken(c) \/ BackedOff(c)
  PROVE  UdpInv'
<1>1. PICK stage0 \in {"queued", "backing"} : At(c, stage0) /\ TryOnce(c, calls[c])
  BY DEF LockTaken, BackedOff
<1>2. UNCHANGED <<turns, up, conn, young, made, silent>>
  BY DEF LockTaken, BackedOff
<1>3. Fit(calls[c]) /\ calls[c].stage # "idle" /\ calls[c].reply = "none" /\ armed = NoReply
  BY <1>1, HolderIsFirst
<1>4. /\ UdpTypeOK /\ up' \in BOOLEAN /\ conn' \in Nat /\ young' \in BOOLEAN /\ ~silent'
  BY <1>2 DEF UdpInv, UdpTypeOK
<1>5. PICK new : Asks(c, new) \/ Connects(c, new)
  BY <1>1, <1>3, <1>4, TryMeans
<1> QED
  BY <1>1, <1>2, <1>3, <1>4, <1>5, ResumeStep

LEMMA OpenedStep ==
  ASSUME UdpAssumption, UdpInv, NEW c \in Callers, SocketOpened(c) \/ GoesOn(c)
  PROVE  UdpInv'
<1>1. CASE SocketOpened(c)
  <2> DEFINE new == [calls[c] EXCEPT !.stage = "opened"]
  <2>1. At(c, "opening") /\ calls' = [calls EXCEPT ![c] = new] /\ sent' = {} /\ up' = TRUE
        /\ UNCHANGED <<turns, armed, conn, young, seed, made, silent>>
    BY <1>1 DEF SocketOpened
  <2>2. /\ Fit(calls[c]) /\ calls[c] \in CallStates /\ calls[c].stage # "idle"
        /\ calls[c].reply = "none" /\ armed = NoReply
    BY <2>1, HolderIsFirst
  <2>3. new \in CallStates /\ new.own = calls[c].own /\ new.action = calls[c].action
        /\ new.stage = "opened" /\ new.reply = calls[c].reply
    BY <2>2 DEF CallStates
  <2> HIDE DEF new
  <2>4. Fit(new) /\ new.stage # "idle"
    BY <2>2, <2>3 DEF Fit
  <2>5. turns' \in Seq(Callers) /\ TurnsAreTaken'
    BY <2>1, <2>2, <2>4, GoesOnInPlace
  <2>6. up' \in BOOLEAN /\ conn' \in Nat /\ young' \in BOOLEAN /\ ~silent' /\ sent' \subseteq Packets
    BY <2>1 DEF UdpInv, UdpTypeOK
  <2> QED
    BY <2>1, <2>2, <2>4, <2>5, <2>6, QuietStep
<1>2. CASE GoesOn(c)
  <2>1. At(c, "opened") /\ UNCHANGED <<up, conn, young, made, silent>>
    BY <1>2 DEF GoesOn
  <2>2. /\ Fit(calls[c]) /\ calls[c] \in CallStates /\ calls[c].stage = "opened"
        /\ calls[c].reply = "none" /\ armed = NoReply
    BY <2>1, HolderIsFirst
  <2>3. UdpTypeOK /\ up' \in BOOLEAN /\ conn' \in Nat /\ young' \in BOOLEAN /\ ~silent'
    BY <2>1 DEF UdpInv, UdpTypeOK
  <2>4. CASE up
    <3> DEFINE call == [calls[c] EXCEPT !.reused = conn # 0]
    <3>1. Converse(c, call) /\ turns' = turns
      BY <1>2, <2>4 DEF GoesOn
    <3>2. (conn # 0) \in BOOLEAN
      OBVIOUS
    <3>3. call \in CallStates /\ call.own = calls[c].own /\ call.action = calls[c].action
          /\ call.stage = calls[c].stage /\ call.reply = calls[c].reply
      BY <2>2, <3>2 DEF CallStates
    <3> HIDE DEF call
    <3>4. Fit(call) /\ call.stage # "idle" /\ call.reply = "none"
      BY <2>2, <3>3 DEF Fit
    <3>5. PICK new : Asks(c, new)
      BY <2>3, <3>1, <3>4, ConverseAsks
    <3> QED
      BY <2>1, <2>2, <2>3, <3>1, <3>5, ResumeStep
  <2>5. CASE ~up
    <3>1. calls' = [calls EXCEPT ![c] = Idle] /\ turns' = Tail(turns)
          /\ UNCHANGED <<seed, armed, sent>>
      BY <1>2, <2>5 DEF GoesOn
    <3> QED
      BY <2>1, <2>2, <2>3, <3>1, EndStep
  <2> QED
    BY <2>4, <2>5
<1> QED
  BY <1>1, <1>2

LEMMA FailedAttempts ==
  ASSUME UdpAssumption, UdpInv, NEW c \in Callers,
         OpenFails(c) \/ TimedOut(c) \/ Broken(c) \/ StaleRefused(c)
  PROVE  UdpInv'
<1> USE DEF UdpInv
<1>1. CASE OpenFails(c)
  <2>1. At(c, "opening") /\ Fails(c) /\ UNCHANGED <<up, armed, seed, sent, made, silent>>
    BY <1>1 DEF OpenFails
  <2>2. armed = NoReply
    BY <2>1, HolderIsFirst
  <2> QED
    BY <2>1, <2>2, FailsStep
<1>2. CASE TimedOut(c)
  <2>1. PICK stage0 \in {"connecting", "asking"} : At(c, stage0)
    BY <1>2 DEF TimedOut
  <2>2. Fails(c) /\ armed' = NoReply /\ UNCHANGED <<up, seed, sent, made>>
    BY <1>2 DEF TimedOut
  <2>3. ~silent'
    BY <1>2 DEF TimedOut, Fails
  <2> QED
    BY <2>1, <2>2, <2>3, FailsStep
<1>3. CASE Broken(c)
  <2>1. PICK stage0 \in {"connecting", "asking"} : At(c, stage0)
    BY <1>3 DEF Broken
  <2>2. Fails(c) /\ UNCHANGED <<up, armed, seed, sent, made, silent>> /\ calls[c].reply # "none"
    BY <1>3 DEF Broken
  <2>3. armed = NoReply
    BY <2>1, <2>2, HolderIsFirst
  <2> QED
    BY <2>1, <2>2, <2>3, FailsStep
<1>4. CASE StaleRefused(c)
  <2>1. At(c, "asking") /\ Fails(c) /\ UNCHANGED <<up, armed, seed, sent, made, silent>>
        /\ calls[c].reply # "none"
    BY <1>4 DEF StaleRefused, Stale
  <2>2. armed = NoReply
    BY <2>1, HolderIsFirst
  <2> QED
    BY <2>1, <2>2, FailsStep
<1> QED
  BY <1>1, <1>2, <1>3, <1>4

(* The reply that is taken answers the packet that the call sent.           *)
LEMMA ReceivedStep ==
  ASSUME UdpAssumption, UdpInv, NEW c \in Callers, NEW p \in sent, NEW kind \in {"good", "bad"},
         NEW action \in {p.action, "error"}, DatagramReceived(c, p, action, kind)
  PROVE  UdpInv'
<1> DEFINE outcome == IF action = "error" THEN "error" ELSE kind
           own == p.tid = calls[c].mine
           new == [calls[c] EXCEPT !.reply = outcome, !.own = own]
<1>1. PICK stage0 \in {"connecting", "asking"} : At(c, stage0)
  BY DEF DatagramReceived
<1>2. /\ armed # NoReply /\ p.tid = armed.tid /\ armed' = NoReply
      /\ UNCHANGED <<turns, up, conn, young, seed, sent, made, silent>>
  BY DEF DatagramReceived, Matches
<1>3. /\ turns \in Seq(Callers) /\ TurnsAreTaken /\ Head(turns) = c /\ Fit(calls[c])
      /\ calls[c] \in CallStates /\ calls[c].stage = stage0
  BY <1>1, HolderIsFirst
<1>4. own = TRUE
  BY <1>2, <1>3 DEF UdpInv, ArmedForHead
<1>5. calls' = [calls EXCEPT ![c] = new]
  <2>1. calls \in [Callers -> CallStates]
    BY DEF UdpInv, UdpTypeOK
  <2> QED
    BY <2>1 DEF DatagramReceived, CallStates
<1>6. outcome \in {"good", "bad", "error"}
  OBVIOUS
<1> HIDE DEF own
<1>7. new \in CallStates /\ new.own = TRUE /\ new.action = calls[c].action
      /\ new.stage = calls[c].stage
  BY <1>3, <1>4, <1>6 DEF CallStates
<1> HIDE DEF new
<1>8. Fit(new) /\ new.stage # "idle"
  BY <1>3, <1>7 DEF Fit
<1>9. turns' \in Seq(Callers) /\ TurnsAreTaken'
  BY <1>2, <1>3, <1>5, <1>8, GoesOnInPlace
<1>10. up' \in BOOLEAN /\ conn' \in Nat /\ young' \in BOOLEAN /\ ~silent' /\ sent' \subseteq Packets
  BY <1>2 DEF UdpInv, UdpTypeOK
<1> QED
  BY <1>2, <1>5, <1>8, <1>9, <1>10, QuietStep

LEMMA ConnectStep ==
  ASSUME UdpAssumption, UdpInv, NEW c \in Callers, Connected(c) \/ ConnectRefused(c)
  PROVE  UdpInv'
<1>1. At(c, "connecting") /\ calls[c].reply # "none" /\ UNCHANGED <<up, made>>
  BY DEF Connected, ConnectRefused
<1>2. /\ Fit(calls[c]) /\ calls[c] \in CallStates /\ calls[c].stage = "connecting"
      /\ armed = NoReply /\ UdpTypeOK /\ up' \in BOOLEAN /\ ~silent
  BY <1>1, HolderIsFirst DEF UdpInv, UdpTypeOK
<1>3. CASE Connected(c)
  <2>1. conn' = calls[c].mine /\ young' = TRUE /\ silent' = FALSE
    BY <1>3 DEF Connected
  <2>2. conn' \in Nat /\ young' \in BOOLEAN /\ ~silent'
    BY <1>2, <2>1 DEF CallStates
  <2>3. CASE up
    <3> DEFINE call == [calls[c] EXCEPT !.reply = "none"]
    <3>1. RoundTrip(c, calls[c].action, calls[c].mine, call) /\ turns' = turns
      BY <1>3, <2>3 DEF Connected
    <3>2. call \in CallStates /\ call.own = calls[c].own /\ call.action = calls[c].action
          /\ call.stage = calls[c].stage /\ call.reply = "none"
      BY <1>2 DEF CallStates
    <3> HIDE DEF call
    <3>3. Fit(call) /\ call.stage # "idle"
      BY <1>2, <3>2 DEF Fit
    <3>4. calls[c].action \in {"connect", "announce", "scrape"} /\ calls[c].mine \in Nat
      BY <1>2 DEF Fit, CallStates
    <3>5. PICK new : Asks(c, new)
      BY <1>2, <3>1, <3>2, <3>3, <3>4, RoundTripAsks
    <3> QED
      BY <1>1, <1>2, <2>2, <3>1, <3>5, ResumeStep
  <2>4. CASE ~up
    <3>1. calls' = [calls EXCEPT ![c] = Idle] /\ turns' = Tail(turns)
          /\ UNCHANGED <<seed, armed, sent>>
      BY <1>3, <2>4 DEF Connected
    <3> QED
      BY <1>1, <1>2, <2>2, <3>1, EndStep
  <2> QED
    BY <2>3, <2>4
<1>4. CASE ConnectRefused(c)
  <2>1. calls' = [calls EXCEPT ![c] = Idle] /\ turns' = Tail(turns)
        /\ UNCHANGED <<up, armed, conn, young, seed, sent, made, silent>>
    BY <1>4 DEF ConnectRefused
  <2>2. conn' \in Nat /\ young' \in BOOLEAN
    BY <2>1 DEF UdpInv, UdpTypeOK
  <2> QED
    BY <1>1, <1>2, <2>1, <2>2, EndStep
<1> QED
  BY <1>3, <1>4

LEMMA AnsweredStep ==
  ASSUME UdpAssumption, UdpInv, NEW c \in Callers, Answered(c)
  PROVE  UdpInv'
<1> DEFINE more == calls[c].reply = "good" /\ calls[c].batches > 1
           call == [Idle EXCEPT !.action = calls[c].action, !.stage = "queued",
                                !.batches = calls[c].batches - 1]
<1>1. /\ At(c, "asking") /\ calls[c].reply # "none"
      /\ UNCHANGED <<up, armed, conn, young, seed, sent, made, silent>>
  BY DEF Answered
<1>2. /\ Fit(calls[c]) /\ calls[c] \in CallStates /\ calls[c].stage = "asking" /\ Holds(c)
      /\ armed = NoReply /\ turns # << >> /\ turns \in Seq(Callers) /\ TurnsAreTaken
  BY <1>1, HolderIsFirst
<1>3. up' \in BOOLEAN /\ conn' \in Nat /\ young' \in BOOLEAN /\ ~silent' /\ sent' \subseteq Packets
  BY <1>1 DEF UdpInv, UdpTypeOK
<1>4. CASE ~more
  <2>1. Tail(turns) \in Seq(Callers)
    BY <1>2, HeadTailProperties
  <2>2. turns' = Tail(turns) \o << >>
    BY <1>4 DEF Answered
  <2>3. turns' = Tail(turns)
    BY <2>1, <2>2, ConcatEmptySeq
  <2>4. calls' = [calls EXCEPT ![c] = Idle]
    BY <1>4 DEF Answered
  <2> QED
    BY <1>1, <1>2, <1>3, <2>3, <2>4, EndStep
<1>5. CASE more
  <2>1. turns' = Tail(turns) \o << c >> /\ calls' = [calls EXCEPT ![c] = call]
    BY <1>5 DEF Answered
  <2>2. call.stage = "queued" /\ Fit(call)
    <3> DEFINE n == calls[c].batches - 1
    <3>1. n \in 0 .. Batches /\ calls[c].action \in {"announce", "scrape"}
      BY <1>2, <1>5 DEF UdpAssumption, CallStates, Fit
    <3>2. Idle \in CallStates /\ Idle.own /\ Idle.reply = "none"
      BY DEF UdpAssumption, Idle, CallStates
    <3> HIDE DEF n
    <3>3. call \in CallStates /\ call.own = Idle.own /\ call.reply = Idle.reply
          /\ call.stage = "queued" /\ call.action = calls[c].action
      BY <3>1, <3>2 DEF CallStates, n
    <3> QED
      BY <3>1, <3>2, <3>3 DEF Fit
  <2> HIDE DEF call
  <2> DEFINE q == Tail(turns)
  <2>3. q \in Seq(Callers) /\ Len(q) = Len(turns) - 1 /\ Len(turns) \in Nat \ {0}
        /\ \A i \in 1 .. Len(q) : q[i] = turns[i + 1]
    BY <1>2, HeadTailProperties, EmptySeq
  <2>4. /\ \A i, j \in 1 .. Len(turns) : turns[i] = turns[j] => i = j
        /\ \A d \in Callers : calls[d].stage # "idle" <=> \E i \in 1 .. Len(turns) : turns[i] = d
        /\ turns[1] = c
    BY <1>2 DEF TurnsAreTaken, Holds
  <2> HIDE DEF q
  <2>5. \A i \in 1 .. Len(q) : i + 1 \in 1 .. Len(turns) /\ i + 1 # 1
    BY <2>3
  <2>6. /\ \A i, j \in 1 .. Len(q) : q[i] = q[j] => i = j
        /\ \A i \in 1 .. Len(q) : q[i] # c
    BY <2>3, <2>4, <2>5
  <2>7. /\ Append(q, c) \in Seq(Callers)
        /\ \A i, j \in 1 .. Len(Append(q, c)) : Append(q, c)[i] = Append(q, c)[j] => i = j
        /\ \A d \in Callers : (\E i \in 1 .. Len(Append(q, c)) : Append(q, c)[i] = d) <=>
                              (d = c \/ \E i \in 1 .. Len(q) : q[i] = d)
    BY <2>3, <2>6, Joins
  <2>8. turns' = Append(q, c)
    BY <2>1, <2>3, AppendIsConcat DEF q
  <2>9. \A d \in Callers : calls'[d] = IF d = c THEN call ELSE calls[d]
    BY <2>1, <2>2, CallsFit
  <2>10. ASSUME NEW d \in Callers, d # c
         PROVE  (\E i \in 1 .. Len(turns) : turns[i] = d) <=> (\E i \in 1 .. Len(q) : q[i] = d)
    <3>1. ASSUME NEW i \in 1 .. Len(turns), turns[i] = d PROVE \E j \in 1 .. Len(q) : q[j] = d
      <4>1. i # 1 /\ i - 1 \in 1 .. Len(q) /\ (i - 1) + 1 = i
        BY <2>3, <2>4, <2>10, <3>1
      <4> QED
        BY <2>3, <3>1, <4>1
    <3>2. ASSUME NEW i \in 1 .. Len(q), q[i] = d PROVE \E j \in 1 .. Len(turns) : turns[j] = d
      BY <2>3, <2>5, <3>2
    <3> QED
      BY <3>1, <3>2
  <2>11. \A d \in Callers : calls'[d].stage # "idle" <=> \E i \in 1 .. Len(turns') : turns'[i] = d
    BY <2>2, <2>4, <2>7, <2>8, <2>9, <2>10
  <2>12. turns' \in Seq(Callers) /\ TurnsAreTaken'
    BY <2>7, <2>8, <2>11 DEF TurnsAreTaken
  <2> QED
    BY <1>1, <1>2, <1>3, <2>1, <2>2, <2>12, QuietStep
<1> QED
  BY <1>4, <1>5

(* The socket goes, or the tracker is closed, while a call waits.           *)
LEMMA ClosedStep ==
  ASSUME UdpAssumption, UdpInv, SocketLost \/ CloseEndpoint
  PROVE  UdpInv'
<1>1. /\ up' = FALSE /\ armed' = NoReply /\ calls' = Failed
      /\ UNCHANGED <<turns, seed, sent, made, silent>>
  BY DEF SocketLost, CloseEndpoint
<1>2. conn' \in Nat /\ young' \in BOOLEAN /\ up' \in BOOLEAN
  <2>1. conn \in Nat /\ 0 \in Nat /\ (conn' = conn \/ conn' = 0)
    BY DEF SocketLost, CloseEndpoint, UdpInv, UdpTypeOK
  <2>2. young \in BOOLEAN
    BY DEF UdpInv, UdpTypeOK
  <2>3. young' = young \/ young' = FALSE
    BY Zenon DEF SocketLost, CloseEndpoint
  <2>4. young' \in BOOLEAN
    BY <2>2, <2>3, Zenon
  <2> QED
    BY <1>1, <2>1, <2>4
<1>t. /\ turns \in Seq(Callers) /\ TurnsAreTaken /\ calls \in [Callers -> CallStates] /\ ~silent
      /\ ArmedForHead /\ seed \in Nat /\ made \in 0 .. MaxCalls /\ sent \subseteq Packets
      /\ \A d \in Callers : Fit(calls[d])
  BY DEF UdpInv, UdpTypeOK
<1>3. CASE armed = NoReply
  <2>1. calls' = calls
    BY <1>1, <1>3 DEF Failed
  <2> QED
    BY <1>1, <1>2, <1>t, <2>1 DEF UdpInv, UdpTypeOK, TurnsAreTaken, ArmedForHead, NoReply
<1>4. CASE armed # NoReply
  <2> DEFINE c == Head(turns)
             new == [calls[c] EXCEPT !.reply = "closed"]
  <2>1. c \in Callers /\ calls[c].stage \in {"connecting", "asking"} /\ Fit(calls[c])
        /\ calls[c] \in CallStates
    BY <1>4, <1>t, HeadTailProperties DEF ArmedForHead
  <2>2. calls' = [calls EXCEPT ![c] = new]
    BY <1>1, <1>4, <1>t DEF Failed, CallStates
  <2>3. new \in CallStates /\ new.own = calls[c].own /\ new.action = calls[c].action
        /\ new.stage = calls[c].stage
    BY <2>1 DEF CallStates
  <2> HIDE DEF new, c
  <2>4. Fit(new) /\ new.stage # "idle"
    BY <2>1, <2>3 DEF Fit
  <2>5. turns' \in Seq(Callers) /\ TurnsAreTaken'
    BY <1>1, <2>1, <2>2, <2>4, GoesOnInPlace
  <2> QED
    BY <1>1, <1>2, <1>t, <2>1, <2>2, <2>4, <2>5, QuietStep
<1> QED
  BY <1>3, <1>4

LEMMA CancelStep ==
  ASSUME UdpAssumption, UdpInv, NEW c \in Callers, Cancel(c)
  PROVE  UdpInv'
<1>1. PICK k \in DOMAIN turns : turns[k] = c /\ turns' = RemoveAt(turns, k)
  BY DEF Cancel
<1>2. /\ calls' = [calls EXCEPT ![c] = Idle] /\ armed' = IF Holds(c) THEN NoReply ELSE armed
      /\ UNCHANGED <<up, conn, young, seed, sent, made, silent>>
  BY DEF Cancel
<1>t. /\ turns \in Seq(Callers) /\ up \in BOOLEAN /\ conn \in Nat /\ young \in BOOLEAN
      /\ ~silent /\ sent \subseteq Packets /\ seed \in Nat /\ made \in 0 .. MaxCalls
      /\ ArmedForHead /\ armed \in Packets \cup {NoReply} /\ armed.tid <= seed
  BY DEF UdpInv, UdpTypeOK
<1>3. k \in 1 .. Len(turns)
  BY <1>1, <1>t, LenProperties
<1>4. /\ turns' \in Seq(Callers) /\ TurnsAreTaken'
      /\ ~Holds(c) => turns' # << >> /\ Head(turns') = Head(turns)
  BY <1>1, <1>2, <1>3, Cancelled
<1>5. CASE Holds(c)
  BY <1>2, <1>4, <1>5, <1>t, IdleFits, QuietStep
<1>6. CASE ~Holds(c)
  <2>1. /\ calls' \in [Callers -> CallStates] /\ \A d \in Callers : Fit(calls'[d])
        /\ \A d \in Callers : calls'[d] = IF d = c THEN Idle ELSE calls[d]
    BY <1>2, IdleFits, CallsFit
  <2>2. turns # << >> /\ Head(turns) # c /\ Head(turns) \in Callers
    <3>1. turns # << >>
      BY <1>3, <1>t, EmptySeq
    <3> QED
      BY <1>6, <1>t, <3>1, HeadTailProperties DEF Holds
  <2>3. ArmedForHead'
    BY <1>2, <1>4, <1>6, <1>t, <2>1, <2>2 DEF ArmedForHead
  <2> QED
    BY <1>2, <1>4, <1>6, <1>t, <2>1, <2>3 DEF UdpInv, UdpTypeOK
<1> QED
  BY <1>5, <1>6

LEMMA UdpInvInit ==
  ASSUME UdpAssumption, UdpInit
  PROVE  UdpInv
<1>1. /\ turns = << >> /\ up = FALSE /\ armed = NoReply /\ conn = 0 /\ young = FALSE
      /\ seed = 0 /\ sent = {} /\ made = 0 /\ silent = FALSE
      /\ \A c \in Callers : calls[c] = Idle
      /\ calls = [c \in Callers |-> Idle]
  BY DEF UdpInit
<1>2. Fit(Idle) /\ Idle \in CallStates /\ Idle.stage = "idle"
  BY IdleFits DEF Fit
<1>3. turns \in Seq(Callers) /\ Len(turns) = 0
  BY <1>1, EmptySeq
<1>4. TurnsAreTaken /\ ArmedForHead
  BY <1>1, <1>2, <1>3 DEF TurnsAreTaken, ArmedForHead
<1>5. NoReply.tid <= 0 /\ 0 \in 0 .. MaxCalls
  BY DEF UdpAssumption, NoReply
<1> HIDE DEF Idle
<1>6. UdpTypeOK
  BY <1>1, <1>2, <1>3, <1>5 DEF UdpTypeOK
<1> QED
  BY <1>1, <1>2, <1>4, <1>6 DEF UdpInv

LEMMA UdpInvStep ==
  ASSUME UdpAssumption, UdpInv, [UdpNext]_udpVars
  PROVE  UdpInv'
<1>1. CASE UNCHANGED udpVars
  BY <1>1 DEF udpVars, UdpInv, UdpTypeOK, TurnsAreTaken, ArmedForHead
<1>2. CASE Ages
  BY <1>2 DEF Ages, UdpInv, UdpTypeOK, TurnsAreTaken, ArmedForHead
<1>3. CASE SocketLost \/ CloseEndpoint
  BY <1>3, ClosedStep
<1>4. ASSUME NEW c \in Callers, NEW action \in {"announce", "scrape"}, Call(c, action)
      PROVE  UdpInv'
  BY <1>4, CallStep
<1>5. ASSUME NEW c \in Callers, Goes(c) PROVE UdpInv'
  BY <1>5, TakesLock, OpenedStep, FailedAttempts, ConnectStep, AnsweredStep DEF Goes
<1>6. ASSUME NEW c \in Callers, Cancel(c) PROVE UdpInv'
  BY <1>6, CancelStep
<1>7. ASSUME NEW c \in Callers, NEW p \in sent, NEW kind \in {"good", "bad"},
             NEW action \in {p.action, "error"}, DatagramReceived(c, p, action, kind)
      PROVE  UdpInv'
  BY <1>7, ReceivedStep
<1> QED
  BY <1>1, <1>2, <1>3, <1>4, <1>5, <1>6, <1>7 DEF UdpNext

LEMMA UdpMeans ==
  ASSUME UdpInv
  PROVE  UdpTypeOK /\ TurnsAreTaken /\ RepliesAreOwn /\ SilentIdsAreDropped
BY DEF UdpInv, Fit, RepliesAreOwn, SilentIdsAreDropped

(* A UDP tracker call goes by the reply to the packet it sent, an id met    *)
(* with silence is never sent again, and the queue of the lock is exactly   *)
(* the calls that run, whatever is late, doubled, lost, closed or cancelled.*)
THEOREM RepliesAreOwnAlways ==
  ASSUME UdpAssumption
  PROVE  UdpSpec => [](UdpTypeOK /\ TurnsAreTaken /\ RepliesAreOwn /\ SilentIdsAreDropped)
<1>1. UdpInit => UdpInv
  BY UdpInvInit
<1>2. UdpInv /\ [UdpNext]_udpVars => UdpInv'
  BY UdpInvStep
<1>3. UdpInv => UdpTypeOK /\ TurnsAreTaken /\ RepliesAreOwn /\ SilentIdsAreDropped
  BY UdpMeans
<1> QED
  BY <1>1, <1>2, <1>3, PTL DEF UdpSpec

-----------------------------------------------------------------------------
(* What is asked for of the metadata: the least chunks not had.             *)

LEMMA LeastPiece ==
  ASSUME NEW S \in SUBSET Nat, S # {}
  PROVE  \E m \in S : \A n \in S : m <= n
<1>1. PICK m \in S : \A n \in S : ~(<<n, m>> \in OpToRel(<, Nat))
  BY WFMin, NatLessThanWellFounded
<1>2. ASSUME NEW n \in S, n < m PROVE FALSE
  <2>1. <<n, m>> \in OpToRel(<, Nat)
    BY <1>2, Zenon DEF OpToRel
  <2> QED
    BY <1>1, <2>1
<1> QED
  BY <1>2

LEMMA PiecesAreNumbers ==
  ASSUME MetadataAssumption
  PROVE  Pieces \subseteq Nat /\ Pieces = 0 .. Chunks - 1 /\ Chunks - 1 \in Int
BY DEF Pieces, MetadataAssumption

LEMMA LargestPiece ==
  ASSUME MetadataAssumption, NEW S \in SUBSET Pieces, S # {}
  PROVE  \E m \in S : \A n \in S : n <= m
<1> DEFINE D == {d \in Nat : Chunks - d \in S}
<1>1. D \in SUBSET Nat /\ D # {}
  <2>1. PICK x \in S : TRUE
    OBVIOUS
  <2>2. Chunks - x \in Nat /\ Chunks - (Chunks - x) = x
    BY DEF Pieces, MetadataAssumption
  <2>3. Chunks - x \in D
    BY <2>2
  <2> QED
    BY <2>3
<1> HIDE DEF D
<1>2. PICK d \in D : \A e \in D : d <= e
  BY <1>1, LeastPiece
<1>3. d \in Nat /\ Chunks - d \in S
  BY <1>2 DEF D
<1>4. ASSUME NEW n \in S PROVE n <= Chunks - d
  <2>1. n \in Nat /\ Chunks - n \in Nat /\ Chunks - (Chunks - n) = n
    BY DEF Pieces, MetadataAssumption
  <2>2. Chunks - n \in D
    BY <2>1 DEF D
  <2> QED
    BY <1>2, <1>3, <2>1, <2>2 DEF MetadataAssumption
<1> QED
  BY <1>3, <1>4

LEMMA PiecesAreFinite ==
  ASSUME MetadataAssumption, NEW S \in SUBSET Pieces
  PROVE  IsFiniteSet(S) /\ Cardinality(S) \in Nat
<1>1. IsFiniteSet(Pieces)
  BY PiecesAreNumbers, FS_Interval
<1> QED
  BY <1>1, FS_Subset, FS_CardinalityType

(* First takes something when there is something to take, and no more than  *)
(* it may.                                                                  *)
LEMMA FirstTakesSome ==
  ASSUME MetadataAssumption, NEW S \in SUBSET Pieces, S # {}, NEW n \in Nat \ {0}
  PROVE  First(S, n) # {}
<1>1. PICK m \in S : \A j \in S : m <= j
  BY LeastPiece, PiecesAreNumbers
<1>2. {j \in S : j < m} = {}
  BY <1>1, PiecesAreNumbers
<1>3. Cardinality({j \in S : j < m}) = 0
  BY <1>2, FS_EmptySet
<1> QED
  BY <1>3 DEF First

LEMMA FirstIsWithin ==
  ASSUME MetadataAssumption, NEW S \in SUBSET Pieces, NEW n \in Nat
  PROVE  First(S, n) \subseteq S /\ Cardinality(First(S, n)) <= n
<1>1. First(S, n) \subseteq S
  BY DEF First
<1>2. CASE First(S, n) = {}
  BY <1>2, FS_EmptySet
<1>3. CASE First(S, n) # {}
  <2>1. PICK m \in First(S, n) : \A j \in First(S, n) : j <= m
    BY <1>1, <1>3, LargestPiece
  <2> DEFINE B == {j \in S : j < m}
  <2>2. Cardinality(B) < n /\ m \in S
    BY <2>1 DEF First
  <2>3. IsFiniteSet(B) /\ Cardinality(B) \in Nat
    BY PiecesAreFinite
  <2>4. First(S, n) \subseteq B \cup {m}
    BY <1>1, <2>1, PiecesAreNumbers
  <2>5. m \notin B
    BY <2>2, PiecesAreNumbers
  <2> HIDE DEF B
  <2>6. Cardinality(B \cup {m}) = Cardinality(B) + 1 /\ IsFiniteSet(B \cup {m})
    BY <2>3, <2>5, FS_AddElement
  <2>7. Cardinality(First(S, n)) <= Cardinality(B \cup {m})
    BY <2>4, <2>6, FS_Subset
  <2>8. Cardinality(First(S, n)) \in Nat
    BY <1>1, PiecesAreFinite
  <2> HIDE DEF First
  <2> QED
    BY <1>1, <2>2, <2>3, <2>6, <2>7, <2>8
<1> QED
  BY <1>1, <1>2, <1>3

(* What First leaves out comes after what it takes.                         *)
LEMMA FirstIsFirst ==
  ASSUME MetadataAssumption, NEW S \in SUBSET Pieces, NEW n \in Nat,
         NEW i \in First(S, n), NEW j \in S \ First(S, n)
  PROVE  i < j
<1>1. i \in Nat /\ j \in Nat /\ i \in S /\ j \in S /\ i # j
  BY PiecesAreNumbers DEF First
<1>2. SUFFICES ASSUME j < i PROVE FALSE
  BY <1>1
<1> DEFINE BI == {k \in S : k < i}
           BJ == {k \in S : k < j}
<1>3. ASSUME NEW k \in BJ PROVE k \in BI
  <2>1. k \in S /\ k \in Nat /\ k < j
    BY PiecesAreNumbers
  <2>2. k < i
    BY <1>1, <1>2, <2>1
  <2> QED
    BY <2>1, <2>2
<1>4. IsFiniteSet(BI) /\ Cardinality(BI) \in Nat /\ Cardinality(BJ) \in Nat
  BY PiecesAreFinite
<1>5. Cardinality(BI) < n
  BY DEF First
<1>6. ~(Cardinality(BJ) < n)
  BY DEF First
<1> HIDE DEF BI, BJ
<1>7. Cardinality(BJ) <= Cardinality(BI)
  BY <1>3, <1>4, FS_Subset
<1> QED
  BY <1>4, <1>5, <1>6, <1>7

(* A set of chunks has a sorted list.                                       *)
LEMMA PiecesAreSorted ==
  ASSUME MetadataAssumption, NEW S \in SUBSET Pieces
  PROVE  SortedPieces(S) \in Seq(Pieces)
<1> DEFINE Sorted(s, T) == /\ s \in [1 .. Cardinality(T) -> T]
                           /\ \A i, j \in DOMAIN s : i < j => s[i] < s[j]
           Unsorted == {n \in Nat : \E T \in SUBSET Pieces :
                          Cardinality(T) = n /\ \A s \in [1 .. Cardinality(T) -> T] : ~Sorted(s, T)}
<1>1. Unsorted = {}
  <2> SUFFICES ASSUME Unsorted # {} PROVE FALSE
    OBVIOUS
  <2>1. PICK n \in Unsorted : \A m \in Unsorted : n <= m
    BY LeastPiece
  <2>2. PICK T \in SUBSET Pieces : Cardinality(T) = n /\ \A s \in [1 .. n -> T] : ~Sorted(s, T)
    BY <2>1
  <2>3. n \in Nat
    BY <2>1
  <2>4. CASE T = {}
    <3>1. n = 0
      BY <2>2, <2>4, FS_EmptySet
    <3>2. [i \in 1 .. 0 |-> 0] \in [1 .. n -> T]
      BY <3>1
    <3>3. Sorted([i \in 1 .. 0 |-> 0], T)
      BY <2>2, <3>1, <3>2
    <3> QED
      BY <2>2, <3>2, <3>3
  <2>5. CASE T # {}
    <3>1. PICK m \in T : \A j \in T : j <= m
      BY <2>5, LargestPiece
    <3> DEFINE R == T \ {m}
    <3>2. IsFiniteSet(T) /\ R \in SUBSET Pieces
      BY PiecesAreFinite
    <3>3. Cardinality(R) = n - 1 /\ Cardinality(R) \in Nat
      BY <2>2, <2>3, <3>1, <3>2, FS_RemoveElement, PiecesAreFinite
    <3> HIDE DEF Sorted, R
    <3>4. \E s \in [1 .. Cardinality(R) -> R] : Sorted(s, R)
      <4> SUFFICES ASSUME \A s \in [1 .. Cardinality(R) -> R] : ~Sorted(s, R) PROVE FALSE
        OBVIOUS
      <4>1. n - 1 \in Unsorted
        BY <3>2, <3>3
      <4> QED
        BY <2>1, <2>3, <4>1
    <3>5. PICK s \in [1 .. n - 1 -> R] : Sorted(s, R)
      BY <3>3, <3>4
    <3> DEFINE t == [i \in 1 .. n |-> IF i = n THEN m ELSE s[i]]
    <3>6. \A i \in 1 .. n : i # n => i \in 1 .. n - 1 /\ s[i] \in R
      BY <2>3, <3>5
    <3>7. t \in [1 .. n -> T]
      BY <3>1, <3>6 DEF R
    <3>8. ASSUME NEW i \in 1 .. n, NEW j \in 1 .. n, i < j PROVE t[i] < t[j]
      <4>1. i # n /\ i \in 1 .. n - 1 /\ s[i] \in R
        BY <2>3, <3>6, <3>8
      <4>2. CASE j = n
        BY <2>3, <3>1, <4>1, <4>2, PiecesAreNumbers DEF R
      <4>3. CASE j # n
        <5>1. j \in 1 .. n - 1
          BY <3>6, <4>3
        <5>2. s[i] < s[j]
          BY <3>5, <3>8, <4>1, <5>1 DEF Sorted
        <5> QED
          BY <4>1, <4>3, <5>2
      <4> QED
        BY <4>2, <4>3
    <3>9. Sorted(t, T)
      BY <2>2, <3>7, <3>8 DEF Sorted
    <3> QED
      BY <2>2, <3>7, <3>9
  <2> QED
    BY <2>4, <2>5
<1>2. Cardinality(S) \in Nat
  BY PiecesAreFinite
<1>3. \E s \in [1 .. Cardinality(S) -> S] : Sorted(s, S)
  BY <1>1, <1>2
<1>4. SortedPieces(S) \in [1 .. Cardinality(S) -> S]
  BY <1>3 DEF SortedPieces
<1> QED
  BY <1>2, <1>4, PiecesAreNumbers

(* Chunks are asked for in their order, so a stale window only repeats what *)
(* is in flight.                                                            *)
AskedInOrder == \A i \in requested, j \in Missing \ requested : i < j

LEMMA RepeatsAreInFlight ==
  ASSUME MetadataAssumption, MetaTypeOK, AskedInOrder, Missing # {},
         ToSend = First(Missing, Pipeline),
         First(Missing \ requested, Pipeline - Cardinality(InFlight)) = {}
           \/ Cardinality(InFlight) >= Pipeline
  PROVE  First(Missing, Pipeline) \subseteq InFlight
<1>1. Missing \in SUBSET Pieces /\ InFlight \in SUBSET Pieces /\ InFlight \subseteq Missing
  BY DEF Missing, InFlight, MetaTypeOK
<1>2. Cardinality(InFlight) \in Nat /\ Pipeline \in Nat \ {0}
  BY <1>1, PiecesAreFinite DEF MetadataAssumption
<1>3. CASE Cardinality(InFlight) >= Pipeline
  <2> SUFFICES ASSUME NEW i \in First(Missing, Pipeline), i \notin InFlight PROVE FALSE
    OBVIOUS
  <2> DEFINE B == {j \in Missing : j < i}
  <2>1. i \in Missing \ requested /\ Cardinality(B) < Pipeline
    BY DEF First, InFlight, Missing
  <2>2. InFlight \subseteq B
    BY <1>1, <2>1 DEF AskedInOrder, InFlight
  <2>3. B \in SUBSET Pieces
    BY <1>1
  <2>4. IsFiniteSet(B) /\ Cardinality(B) \in Nat
    BY <2>3, PiecesAreFinite
  <2> HIDE DEF B
  <2>5. Cardinality(InFlight) <= Cardinality(B)
    BY <2>2, <2>4, FS_Subset
  <2> QED
    BY <1>2, <1>3, <2>1, <2>4, <2>5
<1>4. CASE ~(Cardinality(InFlight) >= Pipeline)
  <2>1. Pipeline - Cardinality(InFlight) \in Nat \ {0}
    BY <1>2, <1>4
  <2>2. Missing \ requested = {}
    BY <1>1, <1>4, <2>1, FirstTakesSome
  <2>3. First(Missing, Pipeline) \subseteq Missing
    BY DEF First
  <2> QED
    BY <2>2, <2>3 DEF InFlight, Missing
<1> QED
  BY <1>3, <1>4

(* What a window asks for keeps the fetch within the pipeline and in order, *)
(* and leaves it something to wait for.                                     *)
LEMMA WindowAsks ==
  ASSUME MetadataAssumption, MetaTypeOK, AskedInOrder, MetadataPipeline, Missing # {}
  PROVE  /\ ToSend \in SUBSET Pieces
         /\ Cardinality(InFlight \cup ToSend) <= Pipeline
         /\ InFlight \cup ToSend # {} /\ ToSend \subseteq Missing
         /\ \A i \in requested \cup ToSend, j \in Missing \ (requested \cup ToSend) : i < j
<1> DEFINE room == Pipeline - Cardinality(InFlight)
           n == IF room > 0 THEN room ELSE 0
           fresh == First(Missing \ requested, n)
<1>1. Missing \in SUBSET Pieces /\ InFlight \in SUBSET Pieces /\ InFlight \subseteq Missing
      /\ Missing \ requested \in SUBSET Pieces
  BY DEF Missing, InFlight, MetaTypeOK
<1>2. Cardinality(InFlight) \in Nat /\ IsFiniteSet(InFlight) /\ Pipeline \in Nat \ {0}
  BY <1>1, PiecesAreFinite DEF MetadataAssumption
<1>3. n \in Nat /\ room \in Int /\ (n = 0 <=> Cardinality(InFlight) >= Pipeline) /\ (n # 0 => n = room)
      /\ Cardinality(InFlight) + n <= Pipeline
  BY <1>2 DEF MetadataPipeline
<1>4. ToSend = IF fresh = {} /\ lapsed THEN First(Missing, Pipeline) ELSE fresh
  BY DEF ToSend
<1>5. fresh \subseteq Missing \ requested /\ Cardinality(fresh) <= n
      /\ IsFiniteSet(fresh) /\ Cardinality(fresh) \in Nat
  BY <1>1, <1>3, FirstIsWithin, PiecesAreFinite
<1>6. ASSUME fresh = {} PROVE InFlight # {}
  <2>1. CASE n = 0
    BY <1>2, <1>3, <2>1, FS_EmptySet
  <2>2. CASE n # 0
    <3>1. Missing \ requested = {}
      BY <1>1, <1>3, <1>6, <2>2, FirstTakesSome
    <3> QED
      BY <3>1 DEF InFlight, Missing
  <2> QED
    BY <2>1, <2>2
<1>7. CASE fresh = {} /\ lapsed
  <2>1. ToSend = First(Missing, Pipeline)
    BY <1>4, <1>7
  <2>2. First(Missing \ requested, Pipeline - Cardinality(InFlight)) = {} \/ Cardinality(InFlight) >= Pipeline
    BY <1>3, <1>7
  <2>3. ToSend \subseteq InFlight
    BY <2>1, <2>2, RepeatsAreInFlight
  <2>4. InFlight \cup ToSend = InFlight /\ requested \cup ToSend = requested
    BY <2>3 DEF InFlight
  <2>5. InFlight # {}
    BY <1>6, <1>7
  <2> QED
    BY <1>1, <2>3, <2>4, <2>5 DEF MetadataPipeline, AskedInOrder
<1>8. CASE ~(fresh = {} /\ lapsed)
  <2>1. ToSend = fresh
    BY <1>4, <1>8
  <2>2. InFlight \cap fresh = {}
    BY <1>5 DEF InFlight
  <2>3. Cardinality(InFlight \cup fresh) <= Pipeline
    <3> HIDE DEF fresh, n, room
    <3>1. Cardinality(InFlight \cup fresh) = Cardinality(InFlight) + Cardinality(fresh) - Cardinality(InFlight \cap fresh)
      BY <1>2, <1>5, FS_Union
    <3>2. Cardinality(InFlight \cap fresh) = 0
      BY <2>2, FS_EmptySet
    <3> QED
      BY <1>2, <1>3, <1>5, <3>1, <3>2
  <2>4. ASSUME NEW i \in requested \cup fresh, NEW j \in Missing \ (requested \cup fresh) PROVE i < j
    <3>1. CASE i \in requested
      BY <3>1 DEF AskedInOrder
    <3>2. CASE i \in fresh
      <4>1. j \in (Missing \ requested) \ fresh
        OBVIOUS
      <4> QED
        BY <1>1, <1>3, <3>2, <4>1, FirstIsFirst
    <3> QED
      BY <3>1, <3>2
  <2>5. InFlight \cup fresh # {}
    BY <1>6
  <2> HIDE DEF fresh
  <2> QED
    BY <1>1, <1>5, <2>1, <2>3, <2>4, <2>5
<1> QED
  BY <1>7, <1>8

MetaInv == MetaTypeOK /\ MetadataPipeline /\ WaitsForSomething /\ AskedInOrder

LEMMA MetaInvInit ==
  ASSUME MetadataAssumption, MetaInit
  PROVE  MetaInv
<1>1. MetaTypeOK
  <2>1. asked \in Seq(Pieces) /\ incoming \in Seq(Frames)
    BY DEF MetaInit
  <2>2. quiet \in 0 .. Waits
    BY DEF MetaInit, MetadataAssumption
  <2> QED
    BY <2>1, <2>2 DEF MetaInit, MetaTypeOK, Opening
<1>2. InFlight = {} /\ stage # "reading"
  BY DEF MetaInit, InFlight
<1>3. Cardinality(InFlight) = 0
  BY <1>2, FS_EmptySet
<1>4. MetadataPipeline /\ WaitsForSomething
  BY <1>2, <1>3 DEF MetadataPipeline, WaitsForSomething, MetadataAssumption
<1>5. AskedInOrder
  BY DEF MetaInit, AskedInOrder
<1> QED
  BY <1>1, <1>4, <1>5 DEF MetaInv

(* A step that asks for nothing new and may take a chunk.                   *)
LEMMA TakingStep ==
  ASSUME MetadataAssumption, MetaInv, MetaTypeOK', requested' = requested,
         received \subseteq received',
         stage' = "reading" => stage = "reading" /\ received' = received
  PROVE  MetaInv'
<1>1. InFlight' \subseteq InFlight /\ Missing' \subseteq Missing
  BY DEF InFlight, Missing
<1>2. InFlight \in SUBSET Pieces
  BY DEF InFlight, MetaInv, MetaTypeOK
<1>3. Cardinality(InFlight') <= Cardinality(InFlight) /\ Cardinality(InFlight') \in Nat /\ Cardinality(InFlight) \in Nat
  BY <1>1, <1>2, PiecesAreFinite, FS_Subset
<1>4. MetadataPipeline'
  BY <1>3 DEF MetadataPipeline, MetaInv, MetadataAssumption
<1>5. WaitsForSomething'
  BY DEF MetaInv, WaitsForSomething, InFlight
<1>6. AskedInOrder'
  BY <1>1 DEF MetaInv, AskedInOrder
<1> QED
  BY <1>4, <1>5, <1>6 DEF MetaInv

LEMMA WindowStep ==
  ASSUME MetadataAssumption, MetaInv, Window
  PROVE  MetaInv'
<1>1. MetaTypeOK /\ AskedInOrder /\ MetadataPipeline /\ Missing # {}
  BY DEF Window, MetaInv
<1>2. /\ ToSend \in SUBSET Pieces
      /\ Cardinality(InFlight \cup ToSend) <= Pipeline
      /\ InFlight \cup ToSend # {} /\ ToSend \subseteq Missing
      /\ \A i \in requested \cup ToSend, j \in Missing \ (requested \cup ToSend) : i < j
  BY <1>1, WindowAsks
<1>3. asked' \in Seq(Pieces)
  <2>1. SortedPieces(ToSend) \in Seq(Pieces) /\ asked \in Seq(Pieces)
    BY <1>1, <1>2, PiecesAreSorted DEF MetaTypeOK
  <2>2. asked' = asked \o SortedPieces(ToSend)
    BY DEF Window
  <2> HIDE DEF ToSend, SortedPieces
  <2> QED
    BY <2>1, <2>2
<1>4. /\ requested' = requested \cup ToSend /\ received' = received
      /\ stage' = "reading" /\ lapsed' = (lapsed /\ ToSend = {})
      /\ UNCHANGED <<wrong, expired, incoming, half, skewed, quiet, why>>
  BY DEF Window
<1> HIDE DEF ToSend
<1>5. Missing' = Missing /\ InFlight' = InFlight \cup ToSend
  BY <1>2, <1>4 DEF Missing, InFlight
<1>6. lapsed' \in BOOLEAN
  BY <1>4
<1>7. MetaTypeOK'
  BY <1>1, <1>2, <1>3, <1>4, <1>6 DEF MetaTypeOK
<1>8. MetadataPipeline' /\ WaitsForSomething' /\ AskedInOrder'
  BY <1>2, <1>4, <1>5 DEF MetadataPipeline, WaitsForSomething, AskedInOrder
<1> QED
  BY <1>7, <1>8 DEF MetaInv

(* Reading a body: the frame leaves, and a chunk that fits is kept.         *)
LEMMA ReadBodyStep ==
  ASSUME MetadataAssumption, MetaInv, ReadBody
  PROVE  MetaInv'
<1>1. MetaTypeOK /\ stage = "reading" /\ half # NoFrame /\ half \in Frames
  BY DEF MetaInv, ReadBody, MetaTypeOK
<1>2. /\ incoming' \in Seq(Frames) /\ half' = NoFrame
      /\ UNCHANGED <<requested, lapsed, expired, asked, skewed, quiet>>
  <2>1. incoming' = Tail(incoming) /\ incoming \in Seq(Frames)
    BY <1>1 DEF ReadBody, MetaTypeOK
  <2>2. incoming = <<>> \/ Tail(incoming) \in Seq(Frames)
    BY <2>1, HeadTailProperties
  <2>3. Tail(<<>>) = <<>>
    OBVIOUS
  <2> QED
    BY <2>1, <2>2, <2>3 DEF ReadBody
<1>3. half.piece \in Pieces /\ half.kind \in Kinds
  BY <1>1 DEF Frames
<1>4. CASE half.kind = "request"
  <2>1. UNCHANGED <<stage, received, wrong, why>>
    BY <1>4 DEF ReadBody, Take
  <2>2. MetaTypeOK'
    BY <1>1, <1>2, <2>1 DEF MetaTypeOK
  <2> QED
    BY <1>1, <1>2, <2>1, <2>2, TakingStep
<1>5. CASE half.kind = "reject"
  <2>1. stage' = "failed" /\ why' = "rejected" /\ UNCHANGED <<received, wrong>>
    BY <1>5 DEF ReadBody, Take, Fail
  <2>2. MetaTypeOK'
    BY <1>1, <1>2, <2>1 DEF MetaTypeOK, Ended
  <2> QED
    BY <1>2, <2>1, <2>2, TakingStep
<1>6. CASE half.kind \notin {"request", "reject"}
  <2>1. /\ received' = received \cup {half.piece} /\ stage' = "window" /\ why' = why
        /\ wrong' = IF half.kind = "wrong" THEN wrong \cup {half.piece} ELSE wrong \ {half.piece}
    BY <1>6 DEF ReadBody, Take
  <2>2. wrong' \subseteq received' /\ received' \subseteq Pieces
    BY <1>1, <1>3, <2>1 DEF MetaTypeOK
  <2>3. MetaTypeOK'
    BY <1>1, <1>2, <2>1, <2>2 DEF MetaTypeOK
  <2> QED
    BY <1>2, <2>1, <2>3, TakingStep
<1> QED
  BY <1>4, <1>5, <1>6

LEMMA MetaInvStep ==
  ASSUME MetadataAssumption, MetaInv, [MetaNext]_metaVars
  PROVE  MetaInv'
<1>1. MetaTypeOK
  BY DEF MetaInv
<1>2. CASE Window
  BY <1>2, WindowStep
<1>3. CASE ReadBody
  BY <1>3, ReadBodyStep
<1>4. ASSUME UNCHANGED <<askVars>>, ~(stage' = "reading" /\ stage # "reading"), MetaTypeOK'
      PROVE  MetaInv'
  BY <1>4, TakingStep DEF askVars
<1>5. CASE UNCHANGED metaVars
  <2>1. UNCHANGED <<askVars, stage>> /\ MetaTypeOK'
    BY <1>1, <1>5 DEF metaVars, askVars, linkVars, MetaTypeOK
  <2> QED
    BY <1>4, <2>1
<1>6. ASSUME NEW cause \in {"unable", "deadline", "hash", "skewed", "gone"}, Fail(cause),
             UNCHANGED <<askVars, expired, linkVars, quiet>>
      PROVE  MetaInv'
  <2>1. MetaTypeOK'
    BY <1>1, <1>6 DEF Fail, MetaTypeOK, askVars, linkVars, Ended
  <2> QED
    BY <1>4, <1>6, <2>1 DEF Fail
<1>7. ASSUME NEW to \in {"handshake", "extension", "window", "fetched"}, stage' = to, why' = why,
             UNCHANGED <<askVars, expired, linkVars, quiet>>
      PROVE  MetaInv'
  <2>1. MetaTypeOK'
    BY <1>1, <1>7 DEF MetaTypeOK, askVars, linkVars, Ended, Opening
  <2> QED
    BY <1>4, <1>7, <2>1
<1>8. CASE Opens
  <2>1. CASE Fail("unable")
    BY <1>6, <1>8, <2>1 DEF Opens
  <2>2. CASE ~Fail("unable")
    <3>1. stage' = CASE stage = "dial" -> "handshake" [] stage = "handshake" -> "extension" [] OTHER -> "window"
      BY <1>8, <2>2 DEF Opens
    <3>2. stage' \in {"handshake", "extension", "window", "fetched"} /\ why' = why
          /\ UNCHANGED <<askVars, expired, linkVars, quiet>>
      BY <1>8, <2>2, <3>1 DEF Opens
    <3> QED
      BY <1>7, <3>2
  <2> QED
    BY <2>1, <2>2
<1>9. CASE Expires
  BY <1>6, <1>9 DEF Expires
<1>10. CASE Assembled
  BY <1>6, <1>7, <1>10 DEF Assembled
<1>11. CASE ReadInside \/ HangsUp
  BY <1>6, <1>11 DEF ReadInside, HangsUp
<1>12. CASE ReadHeader
  <2>1. half' \in Frames
    <3>1. incoming \in Seq(Frames) /\ incoming # <<>> /\ half' = Head(incoming)
      BY <1>1, <1>12 DEF ReadHeader, MetaTypeOK
    <3> QED
      BY <3>1, HeadTailProperties
  <2>2. MetaTypeOK'
    BY <1>1, <1>12, <2>1 DEF ReadHeader, MetaTypeOK, askVars
  <2> QED
    BY <1>4, <1>12, <2>2 DEF ReadHeader
<1>13. CASE Lapses
  <2>1. /\ stage' = "window" /\ half' = NoFrame /\ lapsed' = TRUE
        /\ UNCHANGED <<received, wrong, requested, expired, asked, incoming, why>>
        /\ quiet' = IF expired THEN quiet ELSE quiet + 1
        /\ (quiet < Waits \/ expired)
    BY <1>13 DEF Lapses
  <2>2. skewed' \in BOOLEAN
    BY <1>1, <1>13 DEF Lapses, MetaTypeOK
  <2>3. quiet' \in 0 .. Waits
    BY <1>1, <2>1 DEF MetaTypeOK, MetadataAssumption
  <2>4. MetaTypeOK'
    BY <1>1, <2>1, <2>2, <2>3 DEF MetaTypeOK
  <2> QED
    BY <2>1, <2>4, TakingStep
<1>14. CASE DeadlinePasses
  <2>1. MetaTypeOK'
    BY <1>1, <1>14 DEF DeadlinePasses, MetaTypeOK, askVars, linkVars
  <2> QED
    BY <1>4, <1>14, <2>1 DEF DeadlinePasses
<1>15. CASE PeerDrops \/ PeerSends
  <2>1. asked # <<>> /\ asked' = Tail(asked)
        /\ UNCHANGED <<stage, askVars, expired, half, skewed, quiet, why>>
    BY <1>15 DEF PeerDrops, PeerSends
  <2>2. asked' \in Seq(Pieces)
    BY <1>1, <2>1, HeadTailProperties DEF MetaTypeOK
  <2>3. incoming' \in Seq(Frames)
    <3>1. incoming \in Seq(Frames)
      BY <1>1 DEF MetaTypeOK
    <3> QED
      BY <1>15, <3>1 DEF PeerDrops, PeerSends
  <2>4. MetaTypeOK'
    BY <1>1, <2>1, <2>2, <2>3 DEF MetaTypeOK, askVars
  <2> QED
    BY <1>4, <2>1, <2>4
<1> QED
  BY <1>2, <1>3, <1>5, <1>8, <1>9, <1>10, <1>11, <1>12, <1>13, <1>14, <1>15 DEF MetaNext, FetchGoes

(* A fetch of metadata always has a chunk on its way to wait for, and never *)
(* more than the pipeline allows, however stale its windows and whatever    *)
(* the peer sends, for any number of chunks and any pipeline.               *)
THEOREM FetchKeepsItsPipeline ==
  ASSUME MetadataAssumption
  PROVE  MetaSpec => [](MetaTypeOK /\ MetadataPipeline /\ WaitsForSomething)
<1>1. MetaInit => MetaInv
  BY MetaInvInit
<1>2. MetaInv /\ [MetaNext]_metaVars => MetaInv'
  BY MetaInvStep
<1>3. MetaInv => MetaTypeOK /\ MetadataPipeline /\ WaitsForSomething
  BY DEF MetaInv
<1> QED
  BY <1>1, <1>2, <1>3, PTL DEF MetaSpec

-----------------------------------------------------------------------------
(* The sources of a magnet link and the race of the fetches.                *)

(* Which tasks run in which phase: a source is waited for before the next,  *)
(* its answer counts if it came in time, and peers are raced only after.    *)
PhasesInOrder ==
  /\ task["tracker"] \notin {"raised", "cut"}
  /\ announces = "asked" => task["tracker"] = "running"
  /\ phase = "new" => \A s \in Asked : task[s] = "none"
  /\ phase \in {"new", "tracker"} => taken = {}
  /\ phase = "tracker" => task["tracker"] \in {"running", "done"} /\ task["dht"] # "cut"
  /\ phase = "dht" => task["dht"] \in {"running", "done", "raised"} /\ "dht" \notin taken
  /\ phase \notin {"new", "tracker"} =>
       task["tracker"] # "running" /\ ("tracker" \in taken <=> task["tracker"] = "done")
  /\ phase \notin {"new", "tracker", "dht"} => task["dht"] # "running"
  /\ phase \in {"found", "racing"} =>
       task["dht"] # "raised" /\ ("dht" \in taken <=> task["dht"] = "done")
  /\ phase \in {"new", "found"} \cup Asked => \A p \in Peers : fetch[p] = "none"
  /\ phase = "racing" => \A p \in Peers \ candidates : fetch[p] = "none"

MagnetInv == MagnetTypeOK /\ AnswersAreTried /\ NothingLeftRunning /\ PhasesInOrder

LEMMA MagnetInvInit ==
  ASSUME MagnetAssumption, MagnetInit
  PROVE  MagnetInv
<1>1. MagnetTypeOK
  BY DEF MagnetInit, MagnetTypeOK, Asked, Over
<1>2. AnswersAreTried /\ NothingLeftRunning /\ PhasesInOrder
  BY DEF MagnetInit, AnswersAreTried, NothingLeftRunning, PhasesInOrder, Asked, Over
<1> QED
  BY <1>1, <1>2 DEF MagnetInv

LEMMA RaceStep ==
  ASSUME MagnetAssumption, MagnetInv, Race
  PROVE  MagnetInv'
<1>1. phase = "found" /\ UNCHANGED <<task, announces, answer, taken, linked, private>> /\ MagnetTypeOK /\ PhasesInOrder
  BY DEF Race, MagnetInv
<1>2. Known \subseteq Peers
  BY <1>1 DEF Known, Told, MagnetTypeOK, Asked
<1>3. Running = {}
  BY <1>1 DEF PhasesInOrder, Running, Asked
<1>4. CASE Known = {}
  <2>1. phase' = "failed" /\ UNCHANGED <<candidates, fetch>>
    BY <1>4 DEF Race
  <2>2. MagnetTypeOK'
    BY <1>1, <2>1 DEF MagnetTypeOK, Over
  <2>3. Racing' = {} /\ Running' = {} /\ announces' # "asked"
    BY <1>1, <1>3, <2>1 DEF PhasesInOrder, Racing, Running
  <2>4. AnswersAreTried' /\ NothingLeftRunning'
    BY <2>1, <2>3 DEF AnswersAreTried, NothingLeftRunning
  <2>5. PhasesInOrder'
    BY <1>1, <2>1 DEF PhasesInOrder, Asked
  <2> QED
    BY <2>2, <2>4, <2>5 DEF MagnetInv
<1>5. CASE Known # {}
  <2>1. PICK C \in SUBSET Known :
          /\ Cardinality(C) = Limit \/ (C = Known /\ Cardinality(Known) < Limit)
          /\ candidates' = C
          /\ fetch' = [p \in Peers |-> IF p \in C THEN "running" ELSE "none"]
          /\ phase' = "racing"
    BY <1>5 DEF Race
  <2>2. MagnetTypeOK'
    BY <1>1, <1>2, <2>1 DEF MagnetTypeOK
  <2>3. Known = linked \cup UNION {answer[s] : s \in {t \in Asked : task[t] = "done"}}
    BY <1>1 DEF Known, Told, PhasesInOrder, Asked
  <2>4. AnswersAreTried'
    <3>1. SUFFICES ASSUME Cardinality(C) < Limit PROVE C = Known
      BY <1>1, <2>1, <2>3 DEF AnswersAreTried
    <3>2. CASE Cardinality(C) = Limit
      <4>1. Limit \in Nat
        BY DEF MagnetAssumption
      <4> QED
        BY <3>1, <3>2, <4>1
    <3> QED
      BY <2>1, <3>2
  <2>5. NothingLeftRunning'
    BY <2>1 DEF NothingLeftRunning, Over
  <2>6. PhasesInOrder'
    BY <1>1, <2>1 DEF PhasesInOrder, Asked
  <2> QED
    BY <2>2, <2>4, <2>5, <2>6 DEF MagnetInv
<1> QED
  BY <1>4, <1>5

(* A fetch ends, or the race does.                                          *)
LEMMA FetchesStep ==
  ASSUME MagnetInv, Won \/ RaceLost \/ \E p \in Peers : Fetched(p)
  PROVE  MagnetInv'
<1>1. MagnetTypeOK /\ PhasesInOrder /\ AnswersAreTried /\ NothingLeftRunning
  BY DEF MagnetInv
<1>2. CASE Won
  <2>1. /\ phase = "racing" /\ phase' = "resolved" /\ private' \in BOOLEAN
        /\ fetch' = [p \in Peers |-> IF fetch[p] = "running" THEN "cut" ELSE fetch[p]]
        /\ UNCHANGED <<task, announces, answer, taken, linked>>
    BY <1>2 DEF Won
  <2>2. candidates' \subseteq candidates
    BY <1>2 DEF Won
  <2>3. MagnetTypeOK'
    BY <1>1, <2>1, <2>2 DEF MagnetTypeOK, Over
  <2>4. Racing' = {} /\ Running' = {} /\ announces' # "asked"
    BY <1>1, <2>1 DEF Racing, Running, PhasesInOrder, Asked
  <2>5. AnswersAreTried' /\ NothingLeftRunning' /\ PhasesInOrder'
    BY <1>1, <2>1, <2>4 DEF AnswersAreTried, NothingLeftRunning, PhasesInOrder, Asked
  <2> QED
    BY <2>3, <2>5 DEF MagnetInv
<1>3. CASE RaceLost
  <2>1. /\ phase = "racing" /\ phase' = "failed" /\ \A p \in candidates : fetch[p] = "bad"
        /\ UNCHANGED <<task, announces, answer, taken, linked, candidates, fetch, private>>
    BY <1>3 DEF RaceLost, peerVars
  <2>2. MagnetTypeOK'
    BY <1>1, <2>1 DEF MagnetTypeOK, Over
  <2>3. \A p \in Peers : fetch'[p] # "running"
    BY <1>1, <2>1 DEF PhasesInOrder
  <2>4. Racing' = {} /\ Running' = {} /\ announces' # "asked"
    BY <1>1, <2>1, <2>3 DEF Racing, Running, PhasesInOrder, Asked
  <2>5. AnswersAreTried' /\ NothingLeftRunning' /\ PhasesInOrder'
    BY <1>1, <2>1, <2>4 DEF AnswersAreTried, NothingLeftRunning, PhasesInOrder, Asked
  <2> QED
    BY <2>2, <2>5 DEF MagnetInv
<1>4. ASSUME NEW p \in Peers, Fetched(p) PROVE MagnetInv'
  <2>1. PICK how \in {"good", "bad"} : fetch' = [fetch EXCEPT ![p] = how]
    BY <1>4 DEF Fetched
  <2>2. fetch[p] = "running" /\ UNCHANGED <<phase, task, announces, answer, taken, linked, candidates, private>>
    BY <1>4 DEF Fetched, peerVars
  <2>3. MagnetTypeOK'
    BY <1>1, <2>1, <2>2 DEF MagnetTypeOK
  <2>4. AnswersAreTried'
    BY <1>1, <2>2 DEF AnswersAreTried
  <2>5. phase \notin Over
    BY <1>1, <2>2 DEF NothingLeftRunning, Racing
  <2>6. NothingLeftRunning'
    BY <2>2, <2>5 DEF NothingLeftRunning
  <2>7. PhasesInOrder'
    BY <1>1, <2>1, <2>2 DEF PhasesInOrder, MagnetTypeOK
  <2> QED
    BY <2>3, <2>4, <2>6, <2>7 DEF MagnetInv
<1> QED
  BY <1>2, <1>3, <1>4

(* A source is asked, answers, fails, is given up or is heard.              *)
LEMMA SourcesStep ==
  ASSUME MagnetInv, Resolve \/ Raises \/ LookupTimesOut \/ \E s \in Asked : Answers(s) \/ Heard(s)
  PROVE  MagnetInv'
<1>1. MagnetTypeOK /\ PhasesInOrder /\ AnswersAreTried /\ NothingLeftRunning
  BY DEF MagnetInv
<1>2. CASE Resolve
  <2>1. PICK on \in SUBSET Asked :
          /\ task' = [s \in Asked |-> IF s \in on THEN "running" ELSE "none"]
          /\ announces' = IF "tracker" \in on THEN "asked" ELSE "none"
          /\ phase' = IF "tracker" \in on THEN "tracker" ELSE IF "dht" \in on THEN "dht" ELSE "found"
    BY <1>2 DEF Resolve
  <2>2. phase = "new" /\ UNCHANGED <<answer, taken, linked, candidates, fetch, private>>
    BY <1>2 DEF Resolve, peerVars
  <2>3. phase' \in {"tracker", "dht", "found"}
    BY <2>1
  <2>4. MagnetTypeOK'
    BY <1>1, <2>1, <2>2, <2>3 DEF MagnetTypeOK, Asked
  <2>5. AnswersAreTried' /\ NothingLeftRunning'
    BY <2>3 DEF AnswersAreTried, NothingLeftRunning, Over
  <2>6. PhasesInOrder'
    BY <1>1, <2>1, <2>2, <2>3 DEF PhasesInOrder, Asked
  <2> QED
    BY <2>4, <2>5, <2>6 DEF MagnetInv
<1>3. ASSUME NEW s \in Asked, NEW end \in {"done", "raised", "cut"}, task[s] = "running",
             task' = [task EXCEPT ![s] = end], end # "done" => s = "dht",
             announces' \in {"none", "asked", "cancelled", "over"},
             announces' = "asked" => announces = "asked" /\ s # "tracker",
             phase' = phase \/ (phase = s /\ phase' = After(s) /\ end = "cut"),
             end = "cut" => phase' # phase,
             answer' \in [Asked -> SUBSET Peers],
             UNCHANGED <<taken, linked, candidates, fetch, private>>
      PROVE  MagnetInv'
  <2>1. phase \in {"tracker", "dht"}
    BY <1>1, <1>3 DEF PhasesInOrder, MagnetTypeOK, Asked, NothingLeftRunning, Running
  <2>2. s = phase \/ (phase = "tracker" /\ s = "dht")
    BY <1>1, <1>3, <2>1 DEF PhasesInOrder, Asked
  <2>3. task \in [Asked -> {"none", "running", "done", "raised", "cut"}]
    BY <1>1 DEF MagnetTypeOK
  <2>4. \A t \in Asked : task'[t] = IF t = s THEN end ELSE task[t]
    BY <1>3, <2>3
  <2>5. phase' \in {"tracker", "dht", "found"}
    BY <1>3, <2>1 DEF After
  <2>6. MagnetTypeOK'
    BY <1>1, <1>3, <2>3, <2>5 DEF MagnetTypeOK, Asked
  <2>7. AnswersAreTried' /\ NothingLeftRunning'
    BY <2>5 DEF AnswersAreTried, NothingLeftRunning, Over
  <2>8. PhasesInOrder'
    <3>1. CASE phase' = phase
      BY <1>1, <1>3, <2>1, <2>2, <2>4, <3>1 DEF PhasesInOrder, Asked
    <3>2. CASE phase' # phase
      <4>1. phase = s /\ phase' = After(s) /\ end = "cut"
        BY <1>3, <3>2
      <4>2. CASE s = "tracker"
        BY <1>1, <1>3, <2>3, <2>4, <4>1, <4>2 DEF PhasesInOrder, Asked, After
      <4>3. CASE s = "dht"
        BY <1>1, <1>3, <2>4, <4>1, <4>3 DEF PhasesInOrder, Asked, After
      <4> QED
        BY <4>2, <4>3 DEF Asked
    <3> QED
      BY <3>1, <3>2
  <2> QED
    BY <2>6, <2>7, <2>8 DEF MagnetInv
<1>4. ASSUME NEW s \in Asked, Answers(s) PROVE MagnetInv'
  <2>1. PICK found \in SUBSET Peers : answer' = [answer EXCEPT ![s] = found]
    BY <1>4 DEF Answers
  <2>2. /\ answer' \in [Asked -> SUBSET Peers]
        /\ announces \in {"none", "asked", "cancelled", "over"}
    BY <1>1, <2>1 DEF MagnetTypeOK
  <2>3. /\ announces' \in {"none", "asked", "cancelled", "over"}
        /\ announces' = "asked" => announces = "asked" /\ s # "tracker"
    BY <1>4, <2>2 DEF Answers
  <2> QED
    BY <1>3, <1>4, <2>2, <2>3 DEF Answers
<1>5. CASE Raises
  <2>1. /\ "dht" \in Asked /\ answer' \in [Asked -> SUBSET Peers]
        /\ announces \in {"none", "asked", "cancelled", "over"}
    BY <1>1, <1>5 DEF Raises, peerVars, Asked, MagnetTypeOK
  <2> QED
    BY <1>3, <1>5, <2>1 DEF Raises, peerVars
<1>6. CASE LookupTimesOut
  <2>1. /\ answer' \in [Asked -> SUBSET Peers] /\ "dht" \in Asked /\ After("dht") = "found"
        /\ announces \in {"none", "asked", "cancelled", "over"}
    BY <1>1, <1>6 DEF LookupTimesOut, peerVars, MagnetTypeOK, After, Asked
  <2> QED
    BY <1>3, <1>6, <2>1 DEF LookupTimesOut, peerVars
<1>7. ASSUME NEW s \in Asked, Heard(s) PROVE MagnetInv'
  <2>1. phase = s /\ UNCHANGED <<task, announces, answer, linked, candidates, fetch, private>>
    BY <1>7 DEF Heard
  <2>2. CASE task[s] = "done" /\ taken' = taken \cup {s} /\ phase' = After(s)
    <3>1. phase' \in {"dht", "found"}
      BY <2>2 DEF After
    <3>2. MagnetTypeOK'
      BY <1>1, <2>1, <2>2, <3>1 DEF MagnetTypeOK, Asked
    <3>3. AnswersAreTried' /\ NothingLeftRunning'
      BY <3>1 DEF AnswersAreTried, NothingLeftRunning, Over
    <3>4. CASE s = "tracker"
      <4>1. PhasesInOrder'
        BY <1>1, <2>1, <2>2, <3>4 DEF PhasesInOrder, Asked, After, MagnetTypeOK
      <4> QED
        BY <3>2, <3>3, <4>1 DEF MagnetInv
    <3>5. CASE s = "dht"
      <4>1. PhasesInOrder'
        BY <1>1, <2>1, <2>2, <3>5 DEF PhasesInOrder, Asked, After
      <4> QED
        BY <3>2, <3>3, <4>1 DEF MagnetInv
    <3> QED
      BY <3>4, <3>5 DEF Asked
  <2>3. CASE task[s] = "raised" /\ phase' = "failed" /\ taken' = taken
    <3>1. s = "dht"
      BY <1>1, <2>3 DEF PhasesInOrder, Asked
    <3>2. MagnetTypeOK'
      BY <1>1, <2>1, <2>3 DEF MagnetTypeOK, Over
    <3>3. Running' = {} /\ Racing' = {} /\ announces' # "asked"
      BY <1>1, <2>1, <2>3, <3>1 DEF Running, Racing, PhasesInOrder, Asked
    <3>4. AnswersAreTried' /\ NothingLeftRunning'
      BY <2>3, <3>3 DEF AnswersAreTried, NothingLeftRunning
    <3>5. PhasesInOrder'
      BY <1>1, <2>1, <2>3, <3>1 DEF PhasesInOrder, Asked
    <3> QED
      BY <3>2, <3>4, <3>5 DEF MagnetInv
  <2> QED
    BY <1>7, <2>2, <2>3 DEF Heard
<1> QED
  BY <1>2, <1>4, <1>5, <1>6, <1>7

LEMMA MagnetInvStep ==
  ASSUME MagnetAssumption, ~Cancels, MagnetInv, [MagnetNext]_magnetVars
  PROVE  MagnetInv'
<1>1. CASE UNCHANGED magnetVars
  BY <1>1 DEF magnetVars, MagnetInv, MagnetTypeOK, AnswersAreTried, NothingLeftRunning, Running,
              Racing, PhasesInOrder
<1>2. CASE AnnouncesEnd
  <2>1. announces' = "over" /\ UNCHANGED <<phase, task, answer, taken, linked, candidates, fetch, private>>
    BY <1>2 DEF AnnouncesEnd, peerVars
  <2> QED
    BY <2>1 DEF MagnetInv, MagnetTypeOK, AnswersAreTried, NothingLeftRunning, Running, Racing,
                PhasesInOrder
<1>3. CASE MagnetNext /\ ~AnnouncesEnd
  BY <1>3, RaceStep, FetchesStep, SourcesStep DEF MagnetNext, ResolveGoes, ResolveCancelled
<1> QED
  BY <1>1, <1>2, <1>3

(* What every source answered in its time is tried for the metadata, and a  *)
(* resolution that is over leaves no task running, for any peers and any    *)
(* limit, whichever source is late or fails; as long as nobody cancels it.  *)
THEOREM ResolvingKeepsWhatAnswers ==
  ASSUME MagnetAssumption, ~Cancels
  PROVE  MagnetSpec => [](MagnetTypeOK /\ AnswersAreTried /\ NothingLeftRunning)
<1>1. MagnetInit => MagnetInv
  BY MagnetInvInit
<1>2. MagnetInv /\ [MagnetNext]_magnetVars => MagnetInv'
  BY MagnetInvStep
<1>3. MagnetInv => MagnetTypeOK /\ AnswersAreTried /\ NothingLeftRunning
  BY DEF MagnetInv
<1> QED
  BY <1>1, <1>2, <1>3, PTL DEF MagnetSpec

-----------------------------------------------------------------------------
(* The DHT node's answers to others: who is on a list has asked about that  *)
(* torrent from there, a token keeps its window, and a list that is full    *)
(* loses its oldest to a newcomer only.                                     *)

Listings(hosts) ==
  UNION {[S -> 0 .. Horizon + PeerTtl] : S \in SUBSET (hosts \X (1 .. MaxPort))}
Minting(hosts) == UNION {[S -> Nat] : S \in SUBSET (Nat \X hosts \X Torrents)}

(* A token is of the secret in force, or of the one before and no younger   *)
(* than the last rotation, or it has had its window.                        *)
TokensAge ==
  \A x \in DOMAIN minted :
    /\ minted[x] <= clock /\ x[1] \in 1 .. secret
    /\ \/ x[1] = secret
       \/ x[1] = secret - 1 /\ minted[x] <= secretAt
       \/ minted[x] + Rotation <= secretAt

NodeTypes ==
  /\ clock \in 0 .. Horizon /\ secret \in Nat \ {0} /\ secretAt \in 0 .. clock
  /\ kept \in [Torrents -> Listings(Hosts)] /\ \A t \in Torrents : Cardinality(DOMAIN kept[t]) <= PeersKept
  /\ minted \in Minting(Hosts)

NodeInv == NodeTypes /\ TokensAge /\ ListedHaveAsked

LEMMA ListingsAre ==
  ASSUME DhtServerAssumption, NEW f \in Listings(Hosts)
  PROVE  /\ IsFiniteSet(DOMAIN f) /\ Cardinality(DOMAIN f) \in Nat
         /\ DOMAIN f \subseteq Hosts \X (1 .. MaxPort)
         /\ f \in [DOMAIN f -> 0 .. Horizon + PeerTtl]
<1>1. PICK S \in SUBSET (Hosts \X (1 .. MaxPort)) : f \in [S -> 0 .. Horizon + PeerTtl]
  BY DEF Listings
<1>2. IsFiniteSet(Hosts) /\ IsFiniteSet(1 .. MaxPort)
  BY FS_Interval DEF DhtServerAssumption
<1>3. IsFiniteSet(Hosts \X (1 .. MaxPort))
  BY <1>2, FS_Product
<1>4. IsFiniteSet(S) /\ DOMAIN f = S
  BY <1>1, <1>3, FS_Subset
<1> QED
  BY <1>1, <1>4, FS_CardinalityType

LEMMA NobodyIsListed == << >> \in Listings(Hosts) /\ << >> \in Minting(Hosts) /\ DOMAIN << >> = {}
<1>1. << >> = [x \in {} |-> 0] /\ DOMAIN << >> = {}
  OBVIOUS
<1>2. [x \in {} |-> 0] \in [{} -> Nat] /\ [x \in {} |-> 0] \in [{} -> 0 .. Horizon + PeerTtl]
  OBVIOUS
<1> QED
  BY <1>1, <1>2 DEF Listings, Minting

(* Whoever is on a full list, one of them is the oldest.                    *)
LEMMA OldestIs ==
  ASSUME DhtServerAssumption, NEW f \in Listings(Hosts), DOMAIN f # {}
  PROVE  Oldest(f) \in DOMAIN f /\ \A x \in DOMAIN f : f[Oldest(f)] <= f[x]
<1>1. f \in [DOMAIN f -> 0 .. Horizon + PeerTtl]
  BY ListingsAre
<1> DEFINE ages == {f[x] : x \in DOMAIN f}
<1>2. ages # {} /\ ages \subseteq Nat
  BY <1>1
<1>3. PICK m \in ages : \A n \in ages : ~(<<n, m>> \in OpToRel(<, Nat))
  BY <1>2, WFMin, NatLessThanWellFounded
<1>4. \A n \in ages : m <= n
  <2> SUFFICES ASSUME NEW n \in ages, n < m PROVE FALSE
    BY <1>2
  <2>1. <<n, m>> \in OpToRel(<, Nat)
    BY <1>2, Zenon DEF OpToRel
  <2> QED
    BY <1>3, <2>1
<1>5. \E e \in DOMAIN f : \A x \in DOMAIN f : f[e] <= f[x]
  BY <1>4
<1> QED
  BY <1>5 DEF Oldest

(* Room for a newcomer: nobody leaves but the oldest of a full list.        *)
LEMMA RoomIs ==
  ASSUME DhtServerAssumption, NEW f \in Listings(Hosts), Cardinality(DOMAIN f) <= PeersKept,
         NEW e \in Hosts \X (1 .. MaxPort), NEW until \in 0 .. Horizon + PeerTtl,
         NEW g, g = [x \in DOMAIN RoomFor(f, e) \cup {e} |-> IF x = e THEN until ELSE RoomFor(f, e)[x]]
  PROVE  /\ g \in Listings(Hosts) /\ Cardinality(DOMAIN g) <= PeersKept
         /\ DOMAIN g \subseteq DOMAIN f \cup {e} /\ e \in DOMAIN g
         /\ \A x \in DOMAIN f \ DOMAIN g :
              /\ Cardinality(DOMAIN f) >= PeersKept /\ e \notin DOMAIN f
              /\ \A y \in DOMAIN f : f[x] <= f[y]
<1> DEFINE room == RoomFor(f, e)
<1>1. /\ IsFiniteSet(DOMAIN f) /\ Cardinality(DOMAIN f) \in Nat
      /\ DOMAIN f \subseteq Hosts \X (1 .. MaxPort) /\ f \in [DOMAIN f -> 0 .. Horizon + PeerTtl]
  BY ListingsAre
<1>2. PeersKept \in Nat \ {0}
  BY DEF DhtServerAssumption
<1>3. CASE e \notin DOMAIN f /\ Cardinality(DOMAIN f) >= PeersKept
  <2> DEFINE o == Oldest(f)
  <2>1. DOMAIN f # {}
    BY <1>2, <1>3, FS_EmptySet
  <2>2. o \in DOMAIN f /\ \A x \in DOMAIN f : f[o] <= f[x]
    BY <2>1, OldestIs
  <2> HIDE DEF o
  <2>3. room = [x \in DOMAIN f \ {o} |-> f[x]]
    BY <1>3 DEF RoomFor, Only, o
  <2>4. /\ g = [x \in (DOMAIN f \ {o}) \cup {e} |-> IF x = e THEN until ELSE f[x]]
        /\ DOMAIN g = (DOMAIN f \ {o}) \cup {e}
    BY <1>3, <2>3
  <2>5. g \in [(DOMAIN f \ {o}) \cup {e} -> 0 .. Horizon + PeerTtl]
    BY <1>1, <2>4
  <2>6. (DOMAIN f \ {o}) \cup {e} \subseteq Hosts \X (1 .. MaxPort)
    BY <1>1
  <2>7. g \in Listings(Hosts)
    BY <2>5, <2>6 DEF Listings
  <2>8. IsFiniteSet(DOMAIN f \ {o}) /\ Cardinality(DOMAIN f \ {o}) = Cardinality(DOMAIN f) - 1
    BY <1>1, <2>2, FS_RemoveElement
  <2>9. Cardinality(DOMAIN g) = Cardinality(DOMAIN f)
    <3>1. e \notin DOMAIN f \ {o}
      BY <1>3
    <3>2. Cardinality((DOMAIN f \ {o}) \cup {e}) = Cardinality(DOMAIN f \ {o}) + 1
      BY <2>8, <3>1, FS_AddElement
    <3> QED
      BY <1>1, <2>4, <2>8, <3>2
  <2> QED
    BY <1>3, <2>2, <2>4, <2>7, <2>9
<1>4. CASE ~(e \notin DOMAIN f /\ Cardinality(DOMAIN f) >= PeersKept)
  <2>1. room = f
    BY <1>4 DEF RoomFor
  <2>2. /\ g = [x \in DOMAIN f \cup {e} |-> IF x = e THEN until ELSE f[x]]
        /\ DOMAIN g = DOMAIN f \cup {e}
    BY <2>1
  <2>3. g \in [DOMAIN f \cup {e} -> 0 .. Horizon + PeerTtl] /\ DOMAIN f \cup {e} \subseteq Hosts \X (1 .. MaxPort)
    BY <1>1, <2>2
  <2>4. g \in Listings(Hosts)
    BY <2>3 DEF Listings
  <2>5. Cardinality(DOMAIN g) <= PeersKept
    <3>1. CASE e \in DOMAIN f
      <4>1. DOMAIN f \cup {e} = DOMAIN f
        BY <3>1
      <4> QED
        BY <2>2, <4>1
    <3>2. CASE e \notin DOMAIN f
      <4>1. Cardinality(DOMAIN f \cup {e}) = Cardinality(DOMAIN f) + 1
        BY <1>1, <3>2, FS_AddElement
      <4> QED
        BY <1>1, <1>2, <1>4, <2>2, <3>2, <4>1
    <3> QED
      BY <3>1, <3>2
  <2> QED
    BY <2>2, <2>4, <2>5
<1> QED
  BY <1>3, <1>4

LEMMA NodeInvStart ==
  ASSUME DhtServerAssumption, ServerInit
  PROVE  NodeInv
<1>1. Cardinality({}) = 0 /\ PeersKept \in Nat \ {0} /\ Horizon \in Nat
  BY FS_EmptySet DEF DhtServerAssumption
<1>2. NodeTypes
  BY <1>1, NobodyIsListed DEF ServerInit, NodeTypes, Nobody
<1>3. TokensAge /\ ListedHaveAsked
  BY NobodyIsListed DEF ServerInit, TokensAge, ListedHaveAsked, Nobody
<1> QED
  BY <1>2, <1>3 DEF NodeInv

(* A query for peers: what has expired goes, and a token is handed out.     *)
LEMMA GetPeersKeeps ==
  ASSUME DhtServerAssumption, NodeInv, NEW host \in Hosts, NEW tor \in Torrents, GetPeers(host, tor)
  PROVE  NodeInv' /\ NewcomerForgets
<1> DEFINE token == TokenFor(secret, host, tor)
           f == Only(kept[tor], Live(tor))
<1>1. /\ NodeTypes /\ TokensAge /\ ListedHaveAsked
      /\ kept' = [kept EXCEPT ![tor] = f]
      /\ minted' = [x \in DOMAIN minted \cup {token} |-> IF x = token THEN clock ELSE minted[x]]
      /\ UNCHANGED <<clock, secret, secretAt>>
  BY DEF NodeInv, GetPeers
<1>2. kept[tor] \in Listings(Hosts) /\ clock \in Nat /\ secret \in Nat \ {0} /\ secretAt \in 0 .. clock
  BY <1>1 DEF NodeTypes, DhtServerAssumption
<1>3. /\ IsFiniteSet(DOMAIN kept[tor]) /\ Cardinality(DOMAIN kept[tor]) \in Nat
      /\ DOMAIN kept[tor] \subseteq Hosts \X (1 .. MaxPort)
      /\ kept[tor] \in [DOMAIN kept[tor] -> 0 .. Horizon + PeerTtl]
  BY <1>2, ListingsAre
<1>4. Live(tor) \subseteq DOMAIN kept[tor]
  BY DEF Live
<1>5. f \in [Live(tor) -> 0 .. Horizon + PeerTtl] /\ DOMAIN f = Live(tor)
  BY <1>3, <1>4 DEF Only
<1>6. f \in Listings(Hosts) /\ Cardinality(DOMAIN f) <= PeersKept
  <2>1. f \in Listings(Hosts)
    BY <1>3, <1>4, <1>5 DEF Listings
  <2>2. /\ Cardinality(Live(tor)) <= Cardinality(DOMAIN kept[tor]) /\ Cardinality(Live(tor)) \in Nat
        /\ Cardinality(DOMAIN kept[tor]) <= PeersKept /\ PeersKept \in Nat
    BY <1>1, <1>3, <1>4, FS_Subset, FS_CardinalityType DEF NodeTypes, DhtServerAssumption
  <2> QED
    BY <1>3, <1>5, <2>1, <2>2
<1>7. \A x \in DOMAIN kept[tor] \ DOMAIN f : ~(kept[tor][x] > clock)
  BY <1>5 DEF Live
<1> HIDE DEF f
<1>8. /\ kept'[tor] = f /\ \A t \in Torrents : t # tor => kept'[t] = kept[t]
      /\ kept' \in [Torrents -> Listings(Hosts)]
  BY <1>1, <1>6 DEF NodeTypes
<1>9. token \in Nat \X Hosts \X Torrents /\ token[1] = secret
  BY <1>2 DEF TokenFor
<1>10. PICK T \in SUBSET (Nat \X Hosts \X Torrents) : minted \in [T -> Nat]
  BY <1>1 DEF NodeTypes, Minting
<1> HIDE DEF token
<1>11. /\ minted' \in [T \cup {token} -> Nat] /\ DOMAIN minted = T /\ DOMAIN minted' = T \cup {token}
       /\ minted'[token] = clock /\ \A x \in T : x # token => minted'[x] = minted[x]
  BY <1>1, <1>2, <1>10
<1>12. NodeTypes'
  <2>1. minted' \in Minting(Hosts)
    BY <1>9, <1>10, <1>11 DEF Minting
  <2>2. \A t \in Torrents : Cardinality(DOMAIN kept'[t]) <= PeersKept
    BY <1>1, <1>6, <1>8 DEF NodeTypes
  <2> QED
    BY <1>1, <1>8, <2>1, <2>2 DEF NodeTypes
<1>13. TokensAge'
  BY <1>1, <1>2, <1>9, <1>11 DEF TokensAge
<1>14. ListedHaveAsked'
  <2>1. \A t \in Torrents : DOMAIN kept'[t] \subseteq DOMAIN kept[t]
    BY <1>4, <1>5, <1>8
  <2> QED
    BY <1>1, <1>11, <2>1 DEF ListedHaveAsked
<1>15. NewcomerForgets
  BY <1>7, <1>8 DEF NewcomerForgets
<1> QED
  BY <1>12, <1>13, <1>14, <1>15 DEF NodeInv

(* An announce: it is listed if its token is honoured.                      *)
LEMMA AnnounceKeeps ==
  ASSUME DhtServerAssumption, NodeInv, NEW host \in Hosts, NEW tor \in Torrents,
         NEW token \in DOMAIN minted, NEW implied \in BOOLEAN, NEW port \in TcpPorts,
         AnnouncePeer(host, tor, token, implied, port)
  PROVE  NodeInv' /\ NewcomerForgets
<1> DEFINE e == <<host, PortMeant(implied, port)>>
           until == clock + PeerTtl
           g == [x \in DOMAIN RoomFor(kept[tor], e) \cup {e} |->
                   IF x = e THEN until ELSE RoomFor(kept[tor], e)[x]]
<1>1. /\ NodeTypes /\ TokensAge /\ ListedHaveAsked
      /\ Honoured(token, host, tor) /\ e[2] \in 1 .. MaxPort
      /\ kept' = [kept EXCEPT ![tor] = g]
      /\ UNCHANGED <<clock, secret, secretAt, minted, reply>>
  BY DEF NodeInv, AnnouncePeer
<1>2. /\ kept[tor] \in Listings(Hosts) /\ Cardinality(DOMAIN kept[tor]) <= PeersKept
      /\ e \in Hosts \X (1 .. MaxPort) /\ until \in 0 .. Horizon + PeerTtl
  BY <1>1 DEF NodeTypes, DhtServerAssumption
<1>3. e[1] = host
  OBVIOUS
<1> HIDE DEF e, until
<1>4. /\ g \in Listings(Hosts) /\ Cardinality(DOMAIN g) <= PeersKept
      /\ DOMAIN g \subseteq DOMAIN kept[tor] \cup {e} /\ e \in DOMAIN g
      /\ \A x \in DOMAIN kept[tor] \ DOMAIN g :
           /\ Cardinality(DOMAIN kept[tor]) >= PeersKept /\ e \notin DOMAIN kept[tor]
           /\ \A y \in DOMAIN kept[tor] : kept[tor][x] <= kept[tor][y]
  BY <1>2, RoomIs
<1> HIDE DEF g
<1>5. /\ kept'[tor] = g /\ \A t \in Torrents : t # tor => kept'[t] = kept[t]
      /\ kept' \in [Torrents -> Listings(Hosts)]
  BY <1>1, <1>4 DEF NodeTypes
<1>6. NodeTypes' /\ TokensAge'
  BY <1>1, <1>4, <1>5 DEF NodeTypes, TokensAge
<1>7. ListedHaveAsked'
  <2>1. \E s \in 1 .. secret : TokenFor(s, host, tor) \in DOMAIN minted
    <3>1. token[1] \in 1 .. secret
      BY <1>1 DEF TokensAge
    <3>2. PICK s \in {secret, secret - 1} : token = TokenFor(s, host, tor)
      BY <1>1 DEF Honoured
    <3>3. token[1] = s
      BY <3>2 DEF TokenFor
    <3> QED
      BY <3>1, <3>2, <3>3
  <2>2. \A x \in DOMAIN kept'[tor] : \E s \in 1 .. secret : TokenFor(s, x[1], tor) \in DOMAIN minted
    BY <1>1, <1>3, <1>4, <1>5, <2>1 DEF ListedHaveAsked
  <2>3. \A t \in Torrents : \A x \in DOMAIN kept'[t] :
          \E s \in 1 .. secret : TokenFor(s, x[1], t) \in DOMAIN minted
    BY <1>1, <1>5, <2>2 DEF ListedHaveAsked
  <2> QED
    BY <1>1, <2>3 DEF ListedHaveAsked
<1>8. NewcomerForgets
  BY <1>4, <1>5 DEF NewcomerForgets
<1> QED
  BY <1>6, <1>7, <1>8 DEF NodeInv

LEMMA NodeInvStep ==
  ASSUME DhtServerAssumption, NodeInv, ServerNext \/ UNCHANGED serverVars
  PROVE  NodeInv' /\ NewcomerForgets
<1>1. NodeTypes /\ TokensAge /\ ListedHaveAsked
  BY DEF NodeInv
<1>2. clock \in Nat /\ secret \in Nat \ {0} /\ secretAt \in 0 .. clock /\ Rotation \in Nat \ {0}
  BY <1>1 DEF NodeTypes, DhtServerAssumption
<1>3. \A x \in DOMAIN minted : minted[x] \in Nat
  BY <1>1 DEF NodeTypes, Minting
<1>4. CASE \E host \in Hosts, tor \in Torrents :
             \/ GetPeers(host, tor)
             \/ \E token \in DOMAIN minted, implied \in BOOLEAN, port \in TcpPorts :
                  AnnouncePeer(host, tor, token, implied, port)
  BY <1>4, GetPeersKeeps, AnnounceKeeps
<1>5. CASE RotateSecret
  <2>1. /\ clock - secretAt >= Rotation /\ secret' = secret + 1 /\ secretAt' = clock
        /\ UNCHANGED <<clock, kept, minted, reply>>
    BY <1>5 DEF RotateSecret
  <2>2. NodeTypes'
    BY <1>1, <1>2, <2>1 DEF NodeTypes
  <2>3. TokensAge'
    <3> SUFFICES ASSUME NEW x \in DOMAIN minted
                 PROVE  /\ minted[x] <= clock /\ x[1] \in 1 .. secret + 1
                        /\ \/ x[1] = secret + 1
                           \/ x[1] = (secret + 1) - 1 /\ minted[x] <= clock
                           \/ minted[x] + Rotation <= clock
      BY <2>1 DEF TokensAge
    <3>1. /\ minted[x] <= clock /\ x[1] \in 1 .. secret
          /\ \/ x[1] = secret
             \/ x[1] = secret - 1 /\ minted[x] <= secretAt
             \/ minted[x] + Rotation <= secretAt
      BY <1>1 DEF TokensAge
    <3> QED
      BY <1>2, <1>3, <2>1, <3>1
  <2>4. ListedHaveAsked' /\ NewcomerForgets
    BY <1>1, <1>2, <2>1 DEF ListedHaveAsked, NewcomerForgets
  <2> QED
    BY <2>2, <2>3, <2>4 DEF NodeInv
<1>6. CASE ServerClock
  <2>1. clock < Horizon /\ clock' = clock + 1 /\ UNCHANGED <<secret, secretAt, kept, minted, reply>>
    BY <1>6 DEF ServerClock
  <2>2. NodeTypes'
    BY <1>1, <1>2, <2>1 DEF NodeTypes, DhtServerAssumption
  <2>3. TokensAge'
    BY <1>1, <1>2, <1>3, <2>1 DEF TokensAge
  <2>4. ListedHaveAsked' /\ NewcomerForgets
    BY <1>1, <2>1 DEF ListedHaveAsked, NewcomerForgets
  <2> QED
    BY <2>2, <2>3, <2>4 DEF NodeInv
<1>7. CASE UNCHANGED serverVars
  <2>1. UNCHANGED <<clock, secret, secretAt, kept, minted>>
    BY <1>7 DEF serverVars
  <2> QED
    BY <1>1, <2>1 DEF NodeInv, NodeTypes, TokensAge, ListedHaveAsked, NewcomerForgets
<1> QED
  BY <1>4, <1>5, <1>6, <1>7 DEF ServerNext

LEMMA NodeInvMeans ==
  ASSUME DhtServerAssumption, NodeInv
  PROVE  ServerTypeOK /\ ListedHaveAsked /\ TokenKeepsItsWindow
<1>1. NodeTypes /\ TokensAge /\ ListedHaveAsked
  BY DEF NodeInv
<1>2. PICK T \in SUBSET (Nat \X Hosts \X Torrents) : minted \in [T -> Nat]
  BY <1>1 DEF NodeTypes, Minting
<1>3. ServerTypeOK
  <2>1. \A t \in Torrents : /\ DOMAIN kept[t] \subseteq Hosts \X (1 .. MaxPort)
                            /\ kept[t] \in [DOMAIN kept[t] -> 0 .. Horizon + PeerTtl]
                            /\ Cardinality(DOMAIN kept[t]) <= PeersKept
    BY <1>1, ListingsAre DEF NodeTypes
  <2>2. DOMAIN minted \subseteq (1 .. secret) \X Hosts \X Torrents
    BY <1>1, <1>2 DEF TokensAge
  <2> QED
    BY <1>1, <2>1, <2>2 DEF NodeTypes, ServerTypeOK
<1>4. TokenKeepsItsWindow
  <2> SUFFICES ASSUME NEW x \in DOMAIN minted, clock - minted[x] < Rotation
               PROVE  Honoured(x, x[2], x[3])
    BY DEF TokenKeepsItsWindow
  <2>1. /\ minted[x] \in Nat /\ x \in Nat \X Hosts \X Torrents /\ clock \in Nat /\ secretAt \in 0 .. clock
        /\ Rotation \in Nat
    BY <1>1, <1>2 DEF NodeTypes, DhtServerAssumption
  <2>2. x[1] \in {secret, secret - 1}
    BY <1>1, <2>1 DEF TokensAge
  <2>3. x = <<x[1], x[2], x[3]>>
    BY <2>1
  <2> QED
    BY <2>2, <2>3 DEF Honoured, TokenFor
<1> QED
  BY <1>1, <1>3, <1>4 DEF NodeInv

(* The DHT node's answers, for any hosts, torrents, ports, limits and times:*)
(* who is listed has asked about that torrent from there, and a token works *)
(* for as long as a rotation takes (DhtNode._handle_query, _token_is_valid).*)
THEOREM ListedHaveAskedAlways ==
  ASSUME DhtServerAssumption
  PROVE  ServerSpec => [](ServerTypeOK /\ ListedHaveAsked /\ TokenKeepsItsWindow)
<1>1. ServerInit => NodeInv
  BY NodeInvStart
<1>2. NodeInv /\ [ServerNext]_serverVars => NodeInv'
  BY NodeInvStep
<1>3. NodeInv => ServerTypeOK /\ ListedHaveAsked /\ TokenKeepsItsWindow
  BY NodeInvMeans
<1> QED
  BY <1>1, <1>2, <1>3, PTL DEF ServerSpec

(* A peer whose announce has not expired is forgotten only for a newcomer   *)
(* to a full list, and the oldest of it first (_remember_peer).             *)
THEOREM NewcomersForgetOldest ==
  ASSUME DhtServerAssumption
  PROVE  ServerSpec => [][NewcomerForgets]_serverVars
<1>1. ServerInit => NodeInv
  BY NodeInvStart
<1>2. NodeInv /\ [ServerNext]_serverVars => NodeInv' /\ [NewcomerForgets]_serverVars
  BY NodeInvStep
<1> QED
  BY <1>1, <1>2, PTL DEF ServerSpec

-----------------------------------------------------------------------------
(* What a tracker says of its swarm.                                        *)

Calling == {"connect", "announce", "scrape"}
EntriesOf(A) == [peer : A, left : {0, 1}, seen : Nat]
CallsOf(A) == [from : A, call : Nat, kind : Calling, event : Events, left : {0, 1}, want : Nat]
AnswersOf(A, B) ==
  [to : A, call : Nat, kind : {"id", "bad", "swarm"}, seeders : Nat, leechers : Nat,
   peers : SUBSET B, at : Nat]
WaitsOf(A) ==
  [at : Calling \cup {"idle"}, kind : {"announce", "scrape", "none"}, event : Events, left : {0, 1},
   want : Nat, since : Nat]

Distinct(w) == \A i, j \in DOMAIN w : w[i].peer = w[j].peer => i = j

TrackerShape ==
  /\ scheme \in {"http", "udp"} /\ now \in Nat
  /\ swarm \in Seq(EntriesOf(Clients \cup Seeds)) /\ Distinct(swarm)
  /\ coming \subseteq CallsOf(Clients) /\ going \subseteq AnswersOf(Clients, Clients \cup Seeds)
  /\ asking \in [Clients -> WaitsOf(Clients)] /\ numbered \in [Clients -> Nat]
  /\ identified \subseteq Clients /\ (scheme = "http" => identified = {})
  /\ result.peers \subseteq (Clients \cup Seeds) \ {result.to}
  /\ stopped \subseteq Clients /\ (scheme = "udp" => stopped = {} /\ mode \in UdpModes)

(* Who asked at a time is on the list since, or was silent, or stopped.     *)
Counted(p, since) ==
  now <= since + Ttl /\ p \notin stopped => \E e \in Range(swarm) : e.peer = p /\ e.seen >= since

(* Whoever waits asked for what it waits for, in the packet of the latest   *)
(* number, and an answer to that one comes from a list that has it.         *)
PacketsInOrder ==
  /\ \A c \in Clients : /\ asking[c].since <= now
                        /\ asking[c].at \in {"idle", "connect", asking[c].kind}
                        /\ asking[c].at # "idle" => asking[c].kind # "none"
  /\ \A r \in coming :
       /\ r.call <= numbered[r.from]
       /\ r.call = numbered[r.from] /\ asking[r.from].at # "idle" => r.kind = asking[r.from].at
       /\ scheme = "http" => r.kind # "connect"
  /\ \A a \in going :
       /\ a.call <= numbered[a.to] /\ a.to \notin a.peers /\ (scheme = "http" => a.kind # "id")
       /\ a.call = numbered[a.to] /\ a.kind = "swarm" /\ asking[a.to].at # "idle" =>
            /\ asking[a.to].at = asking[a.to].kind
            /\ asking[a.to].kind = "announce" => Counted(a.to, asking[a.to].since)

ResultCounted ==
  result.kind = "announce" =>
    result.to \in Clients /\ result.since \in Nat /\ result.since <= now /\ Counted(result.to, result.since)

TrackerInv ==
  TrackerShape /\ PacketsInOrder /\ ResultCounted /\ StoppedIsGone

(* What has a rank in a finite set of numbers, and every rank has something. *)
LEMMA RanksAre ==
  ASSUME NEW R, R \subseteq Nat \ {0}, IsFiniteSet(R)
  PROVE  /\ Cardinality(R) \in Nat
         /\ \A i \in R : Cardinality(R \cap (1 .. i)) \in 1 .. Cardinality(R)
         /\ \A i, j \in R : Cardinality(R \cap (1 .. i)) = Cardinality(R \cap (1 .. j)) => i = j
         /\ \A k \in 1 .. Cardinality(R) : \E i \in R : Cardinality(R \cap (1 .. i)) = k
<1> DEFINE n == Cardinality(R)
           rank == [i \in R |-> Cardinality(R \cap (1 .. i))]
<1>1. n \in Nat
  BY FS_CardinalityType
<1>2. ASSUME NEW i \in R PROVE rank[i] \in 1 .. n
  <2> DEFINE S == R \cap (1 .. i)
  <2>1. IsFiniteSet(S) /\ Cardinality(S) <= n /\ Cardinality(S) \in Nat
    BY FS_Subset, FS_CardinalityType
  <2>2. i \in S
    OBVIOUS
  <2>3. Cardinality(S) # 0
    BY <2>1, <2>2, FS_EmptySet
  <2> QED
    BY <1>1, <2>1, <2>3
<1>3. ASSUME NEW i \in R, NEW j \in R, i < j PROVE rank[i] # rank[j]
  <2> DEFINE S == R \cap (1 .. i)
             T == R \cap (1 .. j)
  <2>1. IsFiniteSet(T)
    BY FS_Subset
  <2>2. S \subseteq T /\ j \in T /\ j \notin S
    BY <1>3
  <2>3. Cardinality(S) # Cardinality(T)
    BY <2>1, <2>2, FS_Subset
  <2> QED
    BY <2>3
<1>4. \A i, j \in R : rank[i] = rank[j] => i = j
  <2> SUFFICES ASSUME NEW i \in R, NEW j \in R, rank[i] = rank[j] PROVE i = j
    OBVIOUS
  <2>1. i \in Nat /\ j \in Nat
    OBVIOUS
  <2>2. ~(i < j) /\ ~(j < i)
    BY <1>3
  <2> QED
    BY <2>1, <2>2
<1>5. rank \in [R -> 1 .. n]
  BY <1>2
<1> HIDE DEF rank
<1>6. rank \in Injection(R, 1 .. n)
  BY <1>4, <1>5 DEF Injection, IsInjective
<1>7. IsFiniteSet(1 .. n) /\ Cardinality(1 .. n) = n
  BY <1>1, FS_Interval
<1>8. rank \in Surjection(R, 1 .. n)
  BY <1>6, <1>7, FS_Injection
<1>9. \A k \in 1 .. n : \E i \in R : rank[i] = k
  BY <1>8 DEF Surjection
<1> QED
  BY <1>1, <1>2, <1>4, <1>9 DEF rank

LEMMA SetToSeqIs ==
  ASSUME NEW S, IsFiniteSet(S)
  PROVE  SetToSeq(S) \in Seq(S) /\ ToSet(SetToSeq(S)) = S /\ IsInjective(SetToSeq(S))
<1> DEFINE n == Cardinality(S)
           q == SetToSeq(S)
<1>1. n \in Nat /\ ExistsBijection(1 .. n, S)
  BY FS_CardinalityType
<1>2. \E f \in [1 .. n -> S] : IsInjective(f)
  BY <1>1 DEF ExistsBijection, Bijection, Injection
<1>3. q \in [1 .. n -> S] /\ IsInjective(q)
  BY <1>2 DEF SetToSeq
<1> HIDE DEF q
<1>4. q \in Injection(1 .. n, S)
  BY <1>3 DEF Injection
<1>5. Cardinality(1 .. n) = n
  BY <1>1, FS_Interval
<1>6. q \in Surjection(1 .. n, S)
  BY <1>4, <1>5, FS_Injection
<1>7. ToSet(q) = S
  BY <1>3, <1>6 DEF ToSet, Surjection
<1>8. q \in Seq(S)
  BY <1>1, <1>3
<1> QED
  BY <1>3, <1>7, <1>8 DEF q

LEMMA PlacesAre ==
  ASSUME NEW A, NEW w \in Seq(A)
  PROVE  IsFiniteSet(DOMAIN w) /\ Cardinality(DOMAIN w) = Len(w)
<1>1. Len(w) \in Nat /\ DOMAIN w = 1 .. Len(w)
  OBVIOUS
<1> QED
  BY <1>1, FS_Interval

LEMMA ThinnedIs ==
  ASSUME NEW A, NEW w \in Seq(A), NEW I, I \subseteq DOMAIN w
  PROVE  /\ Thinned(w, I) \in Seq(A) /\ Len(Thinned(w, I)) <= Len(w)
         /\ Range(Thinned(w, I)) = {w[i] : i \in I}
         /\ Distinct(w) => Distinct(Thinned(w, I))
<1> DEFINE n == Cardinality(I)
           nth(k) == CHOOSE i \in I : Cardinality(I \cap (1 .. i)) = k
           t == [k \in 1 .. n |-> w[nth(k)]]
<1>1. Thinned(w, I) = t
  BY DEF Thinned
<1>2. /\ I \subseteq Nat \ {0} /\ IsFiniteSet(I) /\ IsFiniteSet(DOMAIN w) /\ Cardinality(DOMAIN w) = Len(w)
      /\ Len(w) \in Nat
  <2>1. DOMAIN w = 1 .. Len(w) /\ Len(w) \in Nat
    OBVIOUS
  <2>2. IsFiniteSet(DOMAIN w) /\ Cardinality(DOMAIN w) = Len(w)
    BY PlacesAre
  <2> QED
    BY <2>1, <2>2, FS_Subset
<1>3. /\ n \in Nat
      /\ \A i \in I : Cardinality(I \cap (1 .. i)) \in 1 .. n
      /\ \A i, j \in I : Cardinality(I \cap (1 .. i)) = Cardinality(I \cap (1 .. j)) => i = j
      /\ \A k \in 1 .. n : \E i \in I : Cardinality(I \cap (1 .. i)) = k
  BY <1>2, RanksAre
<1>4. n <= Len(w)
  BY <1>2, FS_Subset
<1>5. ASSUME NEW k \in 1 .. n
      PROVE  nth(k) \in I /\ nth(k) \in DOMAIN w /\ Cardinality(I \cap (1 .. nth(k))) = k
  <2>1. nth(k) \in I /\ Cardinality(I \cap (1 .. nth(k))) = k
    BY <1>3
  <2> QED
    BY <2>1
<1> HIDE DEF nth, n
<1>6. ASSUME NEW k \in 1 .. n PROVE w[nth(k)] \in A
  <2> DEFINE i == nth(k)
  <2>1. i \in DOMAIN w
    BY <1>5
  <2> HIDE DEF i
  <2>2. w[i] \in A
    BY <2>1
  <2> QED
    BY <2>2 DEF i
<1>7. t \in Seq(A) /\ Len(t) = n /\ DOMAIN t = 1 .. n
  BY <1>3, <1>6
<1>8. Range(t) = {w[i] : i \in I}
  <2>1. ASSUME NEW x \in Range(t) PROVE x \in {w[i] : i \in I}
    BY <1>5, <1>7, <2>1 DEF Range
  <2>2. ASSUME NEW i \in I PROVE w[i] \in Range(t)
    <3> DEFINE k == Cardinality(I \cap (1 .. i))
    <3>1. k \in 1 .. n
      BY <1>3
    <3>2. nth(k) = i
      BY <1>3, <1>5, <3>1
    <3> QED
      BY <1>7, <3>1, <3>2 DEF Range
  <2> QED
    BY <2>1, <2>2
<1>9. ASSUME Distinct(w) PROVE Distinct(t)
  <2> SUFFICES ASSUME NEW k \in 1 .. n, NEW l \in 1 .. n, w[nth(k)].peer = w[nth(l)].peer PROVE k = l
    BY <1>7 DEF Distinct
  <2>1. nth(k) = nth(l)
    BY <1>5, <1>9 DEF Distinct
  <2> QED
    BY <1>5, <2>1
<1> HIDE DEF t
<1> QED
  BY <1>1, <1>4, <1>7, <1>8, <1>9

(* The swarm as a register: one entry of a peer, and only the entries count.*)

LEMMA PrunedIs ==
  ASSUME NEW A, NEW w \in Seq(EntriesOf(A)), Distinct(w)
  PROVE  /\ Pruned(w) \in Seq(EntriesOf(A)) /\ Distinct(Pruned(w))
         /\ Range(Pruned(w)) = {e \in Range(w) : e.seen >= now - Ttl}
<1> DEFINE I == {i \in DOMAIN w : w[i].seen >= now - Ttl}
<1>1. I \subseteq DOMAIN w /\ Pruned(w) = Thinned(w, I)
  BY DEF Pruned
<1>2. {w[i] : i \in I} = {e \in Range(w) : e.seen >= now - Ttl}
  BY DEF Range
<1> HIDE DEF I
<1> QED
  BY <1>1, <1>2, ThinnedIs

LEMMA BarringIs ==
  ASSUME NEW A, NEW w \in Seq(EntriesOf(A)), Distinct(w), NEW p
  PROVE  /\ Barring(w, p) \in Seq(EntriesOf(A)) /\ Distinct(Barring(w, p))
         /\ Len(Barring(w, p)) <= Len(w)
         /\ Range(Barring(w, p)) = {e \in Range(w) : e.peer # p}
<1> DEFINE I == {i \in DOMAIN w : w[i].peer # p}
<1>1. I \subseteq DOMAIN w /\ Barring(w, p) = Thinned(w, I)
  BY DEF Barring
<1>2. {w[i] : i \in I} = {e \in Range(w) : e.peer # p}
  BY DEF Range
<1> HIDE DEF I
<1> QED
  BY <1>1, <1>2, ThinnedIs

LEMMA PutIs ==
  ASSUME NEW A, NEW w \in Seq(EntriesOf(A)), Distinct(w), NEW e \in EntriesOf(A)
  PROVE  /\ Put(w, e) \in Seq(EntriesOf(A)) /\ Distinct(Put(w, e))
         /\ Range(Put(w, e)) = {x \in Range(w) : x.peer # e.peer} \cup {e}
<1>1. Len(w) \in Nat /\ DOMAIN w = 1 .. Len(w) /\ \A i \in DOMAIN w : w[i] \in EntriesOf(A)
  OBVIOUS
<1>2. CASE e.peer \in Enrolled(w)
  <2> DEFINE u == [i \in DOMAIN w |-> IF w[i].peer = e.peer THEN e ELSE w[i]]
  <2>1. Put(w, e) = u
    BY <1>2 DEF Put
  <2>2. PICK k \in DOMAIN w : w[k].peer = e.peer
    BY <1>2 DEF Enrolled
  <2>3. u \in Seq(EntriesOf(A)) /\ DOMAIN u = DOMAIN w
    BY <1>1
  <2>4. \A i \in DOMAIN w : u[i].peer = w[i].peer /\ (w[i].peer # e.peer => u[i] = w[i]) /\ (w[i].peer = e.peer => u[i] = e)
    OBVIOUS
  <2> HIDE DEF u
  <2>5. Distinct(u)
    BY <2>3, <2>4 DEF Distinct
  <2>6. Range(u) = {x \in Range(w) : x.peer # e.peer} \cup {e}
    <3>1. ASSUME NEW i \in DOMAIN w PROVE u[i] \in {x \in Range(w) : x.peer # e.peer} \cup {e}
      BY <2>4 DEF Range
    <3>2. ASSUME NEW i \in DOMAIN w, w[i].peer # e.peer PROVE w[i] \in Range(u)
      BY <2>3, <2>4, <3>2 DEF Range
    <3>3. e \in Range(u)
      BY <2>2, <2>3, <2>4 DEF Range
    <3> QED
      BY <2>3, <3>1, <3>2, <3>3 DEF Range
  <2> QED
    BY <2>1, <2>3, <2>5, <2>6
<1>3. CASE e.peer \notin Enrolled(w)
  <2> DEFINE u == Append(w, e)
  <2>1. Put(w, e) = u
    BY <1>3 DEF Put
  <2>2. /\ u \in Seq(EntriesOf(A)) /\ DOMAIN u = 1 .. Len(w) + 1 /\ u[Len(w) + 1] = e
        /\ \A i \in DOMAIN w : u[i] = w[i]
    BY <1>1
  <2> HIDE DEF u
  <2>3. \A i \in DOMAIN w : w[i].peer # e.peer
    BY <1>3 DEF Enrolled
  <2>4. \A i \in DOMAIN u : (i \in DOMAIN w /\ u[i] = w[i]) \/ (i = Len(w) + 1 /\ u[i] = e)
    BY <1>1, <2>2
  <2>5. Distinct(u)
    BY <2>3, <2>4 DEF Distinct
  <2>6. Range(u) = {x \in Range(w) : x.peer # e.peer} \cup {e}
    <3>1. \A i \in DOMAIN w : i \in DOMAIN u /\ u[i] = w[i]
      BY <1>1, <2>2
    <3>2. Len(w) + 1 \in DOMAIN u
      BY <1>1, <2>2
    <3>3. Range(w) \subseteq Range(u) /\ e \in Range(u)
      BY <2>2, <3>1, <3>2 DEF Range
    <3>4. Range(u) \subseteq Range(w) \cup {e}
      BY <2>4 DEF Range
    <3>5. \A x \in Range(w) : x.peer # e.peer
      BY <2>3 DEF Range
    <3> QED
      BY <3>3, <3>4, <3>5
  <2> QED
    BY <2>1, <2>2, <2>5, <2>6
<1> QED
  BY <1>2, <1>3

LEMMA EntryIs ==
  ASSUME NEW w, Distinct(w), NEW e \in Range(w)
  PROVE  EntryOf(w, e.peer) = e
<1>1. \A x, y \in Range(w) : x.peer = y.peer => x = y
  BY DEF Distinct, Range
<1> QED
  BY <1>1 DEF EntryOf

LEMMA EnrolledAre ==
  ASSUME NEW w
  PROVE  Enrolled(w) = {e.peer : e \in Range(w)}
BY DEF Enrolled, Range

(* Who is handed out, and the counts.                                       *)
LEMMA OthersAre ==
  ASSUME NEW A, NEW w \in Seq(EntriesOf(A)), Distinct(w), NEW p, NEW most \in Nat
  PROVE  /\ Others(w, p, most) \subseteq {e.peer : e \in {x \in Range(w) : x.peer # p}}
         /\ IsFiniteSet(Others(w, p, most)) /\ Cardinality(Others(w, p, most)) <= Len(w)
<1> DEFINE rest == Barring(w, p)
           m == IF Len(rest) < most THEN Len(rest) ELSE most
           S == {rest[i].peer : i \in 1 .. m}
<1>1. Others(w, p, most) = S
  BY DEF Others
<1>2. /\ rest \in Seq(EntriesOf(A)) /\ Len(rest) <= Len(w) /\ Len(w) \in Nat
      /\ Range(rest) = {e \in Range(w) : e.peer # p}
  BY BarringIs
<1> HIDE DEF rest
<1>3. m \in Nat /\ m <= Len(w) /\ 1 .. m \subseteq DOMAIN rest
  BY <1>2
<1> HIDE DEF m
<1>4. S \subseteq {e.peer : e \in {x \in Range(w) : x.peer # p}}
  BY <1>2, <1>3 DEF Range
<1>5. IsFiniteSet(1 .. m) /\ Cardinality(1 .. m) = m
  BY <1>3, FS_Interval
<1>6. [i \in 1 .. m |-> rest[i].peer] \in Surjection(1 .. m, S)
  BY DEF Surjection
<1>7. IsFiniteSet(S) /\ Cardinality(S) <= m /\ Cardinality(S) \in Nat
  BY <1>5, <1>6, FS_Surjection, FS_CardinalityType
<1>8. Cardinality(S) <= Len(w)
  BY <1>2, <1>3, <1>7
<1> HIDE DEF S
<1> QED
  BY <1>1, <1>4, <1>7, <1>8

LEMMA CountsAre ==
  ASSUME NEW A, NEW w \in Seq(A)
  PROVE  Seeders(w) \in Nat /\ Leechers(w) \in Nat /\ Seeders(w) + Leechers(w) = Len(w)
<1> DEFINE I == {i \in DOMAIN w : w[i].left = 0}
<1>1. Len(w) \in Nat /\ DOMAIN w = 1 .. Len(w)
  OBVIOUS
<1>2. IsFiniteSet(DOMAIN w) /\ Cardinality(DOMAIN w) = Len(w)
  BY PlacesAre
<1>3. I \subseteq DOMAIN w
  OBVIOUS
<1>4. Seeders(w) = Cardinality(I)
  BY DEF Seeders
<1> HIDE DEF I
<1>5. Cardinality(I) \in Nat /\ Cardinality(I) <= Len(w)
  BY <1>2, <1>3, FS_Subset, FS_CardinalityType
<1> QED
  BY <1>1, <1>4, <1>5 DEF Leechers

(* What a request that is served does to the list, and what is answered.    *)
Entry(r) == [peer |-> r.from, left |-> r.left, seen |-> now]
Fresh == {e \in Range(swarm) : e.seen >= now - Ttl}

ListMoves(r) ==
  /\ swarm' \in Seq(EntriesOf(Clients \cup Seeds)) /\ Distinct(swarm') /\ stopped' \subseteq Clients
  /\ \A e \in Range(swarm) :
       e \in Range(swarm') \/ e.seen < now - Ttl
         \/ (e.peer = r.from /\ (r.from \in stopped' \/ Entry(r) \in Range(swarm')))
  /\ \A e \in Range(swarm') : e \in Range(swarm) \/ (e = Entry(r) /\ r.from \notin stopped')
  /\ \A p \in stopped : p \in stopped' \/ (p = r.from /\ Entry(r) \in Range(swarm'))
  /\ \A p \in stopped' : p \in stopped \/ (p = r.from /\ \A e \in Range(swarm') : e.peer # r.from)
  /\ scheme = "udp" => stopped' = {}

ToldOf(r, a) ==
  /\ a \in AnswersOf(Clients, Clients \cup Seeds) /\ a.to = r.from /\ a.call = r.call
  /\ a.to \notin a.peers /\ Cardinality(a.peers) <= a.seeders + a.leechers
  /\ \A p \in a.peers : \E e \in Range(swarm') : e.peer = p /\ e.seen >= now - Ttl
  /\ scheme = "http" => a.kind # "id"
  /\ a.kind = "swarm" => r.kind # "connect"
  /\ a.kind = "swarm" /\ r.kind = "announce" => r.from \in stopped' \/ Entry(r) \in Range(swarm')

LEMMA EntriesAre ==
  ASSUME NEW A, NEW w \in Seq(A)
  PROVE  Range(w) \subseteq A
BY DEF Range

LEMMA RequestIs ==
  ASSUME TrackerShape, NEW r \in coming
  PROVE  /\ r.from \in Clients /\ r.call \in Nat /\ r.kind \in Calling /\ r.left \in {0, 1} /\ r.want \in Nat
         /\ Entry(r) \in EntriesOf(Clients \cup Seeds) /\ Entry(r).peer = r.from /\ Entry(r).seen = now
<1>1. r \in CallsOf(Clients) /\ now \in Nat
  BY DEF TrackerShape
<1>2. r.from \in Clients /\ r.call \in Nat /\ r.kind \in Calling /\ r.left \in {0, 1} /\ r.want \in Nat
  BY <1>1 DEF CallsOf
<1> QED
  BY <1>1, <1>2 DEF Entry, EntriesOf

LEMMA FreshAre ==
  ASSUME TrackerAssumption, TrackerShape
  PROVE  /\ Pruned(swarm) \in Seq(EntriesOf(Clients \cup Seeds)) /\ Distinct(Pruned(swarm))
         /\ Range(Pruned(swarm)) = Fresh
<1>1. swarm \in Seq(EntriesOf(Clients \cup Seeds)) /\ Distinct(swarm)
  BY DEF TrackerShape
<1> QED
  BY <1>1, PrunedIs DEF Fresh

LEMMA HttpAnnouncedIs ==
  ASSUME TrackerAssumption, TrackerShape, NEW r \in coming, NEW w, w = HttpAnnounced(r)
  PROVE  /\ w \in Seq(EntriesOf(Clients \cup Seeds)) /\ Distinct(w)
         /\ r.event = "stopped" => Range(w) = {e \in Fresh : e.peer # r.from}
         /\ r.event # "stopped" => Range(w) = {e \in Fresh : e.peer # r.from} \cup {Entry(r)}
<1>1. /\ Pruned(swarm) \in Seq(EntriesOf(Clients \cup Seeds)) /\ Distinct(Pruned(swarm))
      /\ Range(Pruned(swarm)) = Fresh
  BY FreshAre
<1>2. Entry(r) \in EntriesOf(Clients \cup Seeds) /\ Entry(r).peer = r.from
  BY RequestIs
<1>3. CASE r.event = "stopped"
  <2>1. w = Barring(Pruned(swarm), r.from)
    BY <1>3 DEF HttpAnnounced
  <2> QED
    BY <1>1, <1>3, <2>1, BarringIs
<1>4. CASE r.event # "stopped"
  <2>1. w = Put(Pruned(swarm), Entry(r))
    BY <1>4 DEF HttpAnnounced, Entry
  <2> QED
    BY <1>1, <1>2, <1>4, <2>1, PutIs
<1> QED
  BY <1>3, <1>4

LEMMA UdpAnnouncedIs ==
  ASSUME TrackerAssumption, TrackerShape, NEW r \in coming, NEW w, w = UdpAnnounced(r)
  PROVE  /\ w \in Seq(EntriesOf(Clients \cup Seeds)) /\ Distinct(w)
         /\ Range(w) = {e \in Fresh : e.peer # r.from} \cup {Entry(r)}
<1>1. swarm \in Seq(EntriesOf(Clients \cup Seeds)) /\ Distinct(swarm) /\ now \in Nat /\ Ttl \in Nat
  BY DEF TrackerShape, TrackerAssumption
<1>2. Entry(r) \in EntriesOf(Clients \cup Seeds) /\ Entry(r).peer = r.from /\ Entry(r).seen = now
  BY RequestIs
<1>3. /\ Put(swarm, Entry(r)) \in Seq(EntriesOf(Clients \cup Seeds)) /\ Distinct(Put(swarm, Entry(r)))
      /\ Range(Put(swarm, Entry(r))) = {x \in Range(swarm) : x.peer # Entry(r).peer} \cup {Entry(r)}
  BY <1>1, <1>2, PutIs
<1>4. w = Pruned(Put(swarm, Entry(r)))
  BY DEF UdpAnnounced, Entry
<1>5. /\ w \in Seq(EntriesOf(Clients \cup Seeds)) /\ Distinct(w)
      /\ Range(w) = {e \in Range(Put(swarm, Entry(r))) : e.seen >= now - Ttl}
  BY <1>3, <1>4, PrunedIs
<1>6. Entry(r).seen >= now - Ttl
  BY <1>1, <1>2
<1>7. Range(w) = {e \in Fresh : e.peer # r.from} \cup {Entry(r)}
  BY <1>2, <1>3, <1>5, <1>6 DEF Fresh
<1> QED
  BY <1>5, <1>7

(* An answer with the peers of a list, everybody on it heard of in time.    *)
LEMMA AnswerIs ==
  ASSUME TrackerAssumption, TrackerShape, NEW r \in coming, NEW w \in Seq(EntriesOf(Clients \cup Seeds)),
         Distinct(w), NEW most \in Nat
  PROVE  LET a == Answer(r, w, most)
         IN /\ a \in AnswersOf(Clients, Clients \cup Seeds) /\ a.to = r.from /\ a.call = r.call
            /\ a.kind = "swarm" /\ a.to \notin a.peers /\ Cardinality(a.peers) <= a.seeders + a.leechers
            /\ a.peers \subseteq {e.peer : e \in Range(w)}
<1> DEFINE a == Answer(r, w, most)
           P == Others(w, r.from, most)
<1>1. /\ P \subseteq {e.peer : e \in {x \in Range(w) : x.peer # r.from}}
      /\ IsFiniteSet(P) /\ Cardinality(P) <= Len(w)
  BY OthersAre
<1>2. Seeders(w) \in Nat /\ Leechers(w) \in Nat /\ Seeders(w) + Leechers(w) = Len(w)
  BY CountsAre
<1>3. \A e \in Range(w) : e.peer \in Clients \cup Seeds
  BY EntriesAre DEF EntriesOf
<1>4. r.from \in Clients /\ r.call \in Nat /\ now \in Nat
  BY RequestIs DEF TrackerShape
<1>5. a = [to |-> r.from, call |-> r.call, kind |-> "swarm", seeders |-> Seeders(w),
           leechers |-> Leechers(w), peers |-> P, at |-> now]
  BY DEF Answer
<1> HIDE DEF P, a
<1>6. P \subseteq Clients \cup Seeds /\ r.from \notin P /\ P \subseteq {e.peer : e \in Range(w)}
  BY <1>1, <1>3
<1>7. a \in AnswersOf(Clients, Clients \cup Seeds)
  BY <1>2, <1>4, <1>5, <1>6 DEF AnswersOf
<1>8. Cardinality(P) <= Seeders(w) + Leechers(w)
  BY <1>1, <1>2
<1> QED
  BY <1>5, <1>6, <1>7, <1>8 DEF a

LEMMA BareIs ==
  ASSUME TrackerAssumption, TrackerShape, NEW r \in coming, NEW w \in Seq(EntriesOf(Clients \cup Seeds)),
         Distinct(w), NEW most \in Nat
  PROVE  LET a == [Answer(r, w, most) EXCEPT !.peers = {}]
         IN /\ a \in AnswersOf(Clients, Clients \cup Seeds) /\ a.to = r.from /\ a.call = r.call
            /\ a.kind = "swarm" /\ a.peers = {} /\ Cardinality(a.peers) <= a.seeders + a.leechers
<1> DEFINE b == Answer(r, w, most)
           a == [b EXCEPT !.peers = {}]
<1>1. b \in AnswersOf(Clients, Clients \cup Seeds) /\ b.to = r.from /\ b.call = r.call /\ b.kind = "swarm"
  BY AnswerIs
<1> HIDE DEF b
<1>2. /\ a \in AnswersOf(Clients, Clients \cup Seeds) /\ a.to = b.to /\ a.call = b.call /\ a.kind = b.kind
      /\ a.peers = {} /\ a.seeders \in Nat /\ a.leechers \in Nat
  BY <1>1 DEF AnswersOf
<1>3. Cardinality(a.peers) <= a.seeders + a.leechers
  BY <1>2, FS_EmptySet
<1> QED
  BY <1>1, <1>2, <1>3 DEF b

LEMMA SpoiltIs ==
  ASSUME TrackerShape, NEW r \in coming
  PROVE  /\ Spoilt(r) \in AnswersOf(Clients, Clients \cup Seeds) /\ Spoilt(r).to = r.from
         /\ Spoilt(r).call = r.call /\ Spoilt(r).kind = "bad" /\ Spoilt(r).peers = {}
         /\ Cardinality(Spoilt(r).peers) <= Spoilt(r).seeders + Spoilt(r).leechers
<1>1. r.from \in Clients /\ r.call \in Nat /\ now \in Nat
  BY RequestIs DEF TrackerShape
<1> QED
  BY <1>1, FS_EmptySet DEF Spoilt, AnswersOf

LEMMA HttpMoves ==
  ASSUME TrackerAssumption, TrackerShape, PacketsInOrder, StoppedIsGone, NEW r \in coming,
         scheme = "http", ServeHttp(r)
  PROVE  ListMoves(r) /\ \A a \in going' \ going : ToldOf(r, a)
<1>1. /\ swarm \in Seq(EntriesOf(Clients \cup Seeds)) /\ Distinct(swarm) /\ stopped \subseteq Clients
      /\ now \in Nat /\ Ttl \in Nat /\ Returned \in Nat
  BY DEF TrackerShape, TrackerAssumption
<1>2. /\ r.from \in Clients /\ r.call \in Nat /\ r.want \in Nat /\ r.kind # "connect" /\ r.kind \in Calling
      /\ Entry(r).peer = r.from /\ Entry(r).seen = now
  BY RequestIs DEF PacketsInOrder
<1>3. \A e \in Range(swarm) : e \in EntriesOf(Clients \cup Seeds) /\ e.seen \in Nat
  BY <1>1, EntriesAre DEF EntriesOf
<1>4. \A p \in stopped : \A e \in Range(swarm) : e.peer # p
  BY EnrolledAre DEF StoppedIsGone
<1>5. CASE mode # "ok"
  <2>1. going' = going \cup {Spoilt(r)} /\ UNCHANGED <<swarm, stopped>>
    BY <1>5 DEF ServeHttp
  <2>2. ListMoves(r)
    BY <1>1, <1>4, <2>1 DEF ListMoves
  <2>3. ToldOf(r, Spoilt(r))
    BY SpoiltIs DEF ToldOf
  <2> QED
    BY <2>1, <2>2, <2>3
<1>6. CASE mode = "ok" /\ r.kind = "announce"
  <2>1. /\ swarm' = HttpAnnounced(r)
        /\ stopped' = (IF r.event = "stopped" THEN stopped \cup {r.from} ELSE stopped \ {r.from})
        /\ going' = going \cup {Answer(r, swarm', Least(r.want, Returned))}
    BY <1>6 DEF ServeHttp
  <2>2. /\ swarm' \in Seq(EntriesOf(Clients \cup Seeds)) /\ Distinct(swarm')
        /\ r.event = "stopped" => Range(swarm') = {e \in Fresh : e.peer # r.from}
        /\ r.event # "stopped" => Range(swarm') = {e \in Fresh : e.peer # r.from} \cup {Entry(r)}
    BY <2>1, HttpAnnouncedIs
  <2>3. r.from \in stopped' \/ (r.from \notin stopped' /\ Entry(r) \in Range(swarm'))
    BY <2>1, <2>2
  <2>4. \A e \in Range(swarm') : (e \in Fresh /\ e.peer # r.from) \/ (e = Entry(r) /\ r.event # "stopped")
    BY <2>2
  <2>5. \A e \in Fresh : e.peer # r.from => e \in Range(swarm')
    BY <2>2
  <2>6. Fresh \subseteq Range(swarm) /\ \A e \in Range(swarm) : e \in Fresh \/ e.seen < now - Ttl
    BY <1>1, <1>3 DEF Fresh
  <2>7. /\ \A e \in Range(swarm) :
             e \in Range(swarm') \/ e.seen < now - Ttl
               \/ (e.peer = r.from /\ (r.from \in stopped' \/ Entry(r) \in Range(swarm')))
        /\ \A e \in Range(swarm') : e \in Range(swarm) \/ (e = Entry(r) /\ r.from \notin stopped')
    BY <2>1, <2>3, <2>4, <2>5, <2>6
  <2>8. /\ \A p \in stopped : p \in stopped' \/ (p = r.from /\ Entry(r) \in Range(swarm'))
        /\ \A p \in stopped' : p \in stopped \/ (p = r.from /\ \A e \in Range(swarm') : e.peer # r.from)
        /\ stopped' \subseteq Clients
    BY <1>1, <1>2, <2>1, <2>2
  <2>9. ListMoves(r)
    BY <2>2, <2>7, <2>8 DEF ListMoves
  <2>10. PICK most \in Nat : most = Least(r.want, Returned)
    BY <1>1, <1>2 DEF Least
  <2> DEFINE a == Answer(r, swarm', most)
  <2>12. /\ a \in AnswersOf(Clients, Clients \cup Seeds) /\ a.to = r.from /\ a.call = r.call
         /\ a.kind = "swarm" /\ a.to \notin a.peers /\ Cardinality(a.peers) <= a.seeders + a.leechers
         /\ a.peers \subseteq {e.peer : e \in Range(swarm')}
    BY <2>2, AnswerIs
  <2> HIDE DEF a
  <2>13. \A e \in Range(swarm') : e.seen >= now - Ttl
    BY <1>1, <1>2, <2>4 DEF Fresh
  <2>14. ToldOf(r, a)
    BY <1>2, <2>3, <2>12, <2>13 DEF ToldOf
  <2>15. \A x \in going' \ going : x = a
    BY <2>1, <2>10 DEF a
  <2> QED
    BY <2>9, <2>14, <2>15
<1>7. CASE mode = "ok" /\ r.kind # "announce"
  <2>1. /\ swarm' = Pruned(swarm) /\ UNCHANGED stopped
        /\ going' = going \cup {[Answer(r, swarm', 0) EXCEPT !.peers = {}]}
    BY <1>7 DEF ServeHttp
  <2>2. swarm' \in Seq(EntriesOf(Clients \cup Seeds)) /\ Distinct(swarm') /\ Range(swarm') = Fresh
    BY <2>1, FreshAre
  <2>3. Fresh \subseteq Range(swarm) /\ \A e \in Range(swarm) : e \in Fresh \/ e.seen < now - Ttl
    BY <1>1, <1>3 DEF Fresh
  <2>4. ListMoves(r)
    BY <1>1, <2>1, <2>2, <2>3 DEF ListMoves
  <2> DEFINE a == [Answer(r, swarm', 0) EXCEPT !.peers = {}]
  <2>6. /\ a \in AnswersOf(Clients, Clients \cup Seeds) /\ a.to = r.from /\ a.call = r.call
        /\ a.kind = "swarm" /\ a.peers = {} /\ Cardinality(a.peers) <= a.seeders + a.leechers
    BY <2>2, BareIs
  <2> HIDE DEF a
  <2>7. ToldOf(r, a)
    BY <1>2, <1>7, <2>6 DEF ToldOf
  <2> QED
    BY <2>1, <2>4, <2>7 DEF a
<1> QED
  BY <1>5, <1>6, <1>7

LEMMA UdpMoves ==
  ASSUME TrackerAssumption, TrackerShape, PacketsInOrder, StoppedIsGone, NEW r \in coming,
         scheme = "udp", ServeUdp(r)
  PROVE  ListMoves(r) /\ \A a \in going' \ going : ToldOf(r, a)
<1>1. /\ swarm \in Seq(EntriesOf(Clients \cup Seeds)) /\ Distinct(swarm) /\ stopped = {} /\ mode \in UdpModes
      /\ now \in Nat /\ Ttl \in Nat /\ Returned \in Nat
  BY DEF TrackerShape, TrackerAssumption
<1>2. /\ r.from \in Clients /\ r.call \in Nat /\ r.kind \in Calling
      /\ Entry(r).peer = r.from /\ Entry(r).seen = now
  BY RequestIs
<1>3. \A e \in Range(swarm) : e \in EntriesOf(Clients \cup Seeds) /\ e.seen \in Nat
  BY <1>1, EntriesAre DEF EntriesOf
<1>4. /\ swarm' = (IF r.kind = "announce" /\ mode \in {"ok", "truncated"} THEN UdpAnnounced(r) ELSE swarm)
      /\ going' = (IF Unheard(r) THEN going ELSE going \cup {UdpAnswer(r, swarm')})
      /\ stopped' = {}
  BY <1>1 DEF ServeUdp
<1>5. /\ swarm' \in Seq(EntriesOf(Clients \cup Seeds)) /\ Distinct(swarm')
      /\ \A e \in Range(swarm) : e \in Range(swarm') \/ e.seen < now - Ttl
                                   \/ (e.peer = r.from /\ Entry(r) \in Range(swarm'))
      /\ \A e \in Range(swarm') : e \in Range(swarm) \/ e = Entry(r)
      /\ r.kind = "announce" /\ mode \in {"ok", "truncated"} =>
           Entry(r) \in Range(swarm') /\ \A e \in Range(swarm') : e.seen >= now - Ttl
  <2>1. CASE r.kind = "announce" /\ mode \in {"ok", "truncated"}
    <3>1. /\ swarm' \in Seq(EntriesOf(Clients \cup Seeds)) /\ Distinct(swarm')
          /\ Range(swarm') = {e \in Fresh : e.peer # r.from} \cup {Entry(r)}
      BY <1>4, <2>1, UdpAnnouncedIs
    <3>2. Fresh \subseteq Range(swarm) /\ \A e \in Range(swarm) : e \in Fresh \/ e.seen < now - Ttl
      BY <1>1, <1>3 DEF Fresh
    <3>3. \A e \in Range(swarm') : e.seen >= now - Ttl
      BY <1>1, <1>2, <3>1 DEF Fresh
    <3> QED
      BY <3>1, <3>2, <3>3
  <2>2. CASE ~(r.kind = "announce" /\ mode \in {"ok", "truncated"})
    BY <1>1, <1>4, <2>2
  <2> QED
    BY <2>1, <2>2
<1>6. ListMoves(r)
  BY <1>1, <1>4, <1>5 DEF ListMoves
<1>7. ASSUME ~Unheard(r), NEW a, a = UdpAnswer(r, swarm')
      PROVE  ToldOf(r, a)
  <2>1. CASE r.kind = "connect"
    <3>1. a = [Spoilt(r) EXCEPT !.kind = "id"]
      BY <1>7, <2>1 DEF UdpAnswer
    <3>2. PICK b : b = Spoilt(r)
      OBVIOUS
    <3>3. /\ b \in AnswersOf(Clients, Clients \cup Seeds) /\ b.to = r.from /\ b.call = r.call /\ b.peers = {}
          /\ Cardinality(b.peers) <= b.seeders + b.leechers
      BY <3>2, SpoiltIs
    <3>4. /\ a \in AnswersOf(Clients, Clients \cup Seeds) /\ a.to = b.to /\ a.call = b.call /\ a.peers = b.peers
          /\ a.kind = "id" /\ a.seeders = b.seeders /\ a.leechers = b.leechers
      BY <3>1, <3>2, <3>3 DEF AnswersOf
    <3> QED
      BY <1>1, <3>3, <3>4 DEF ToldOf
  <2>2. CASE r.kind = "scrape"
    <3>1. a = [Answer(r, swarm', 0) EXCEPT !.peers = {}]
      BY <1>7, <2>2 DEF UdpAnswer
    <3> DEFINE b == [Answer(r, swarm', 0) EXCEPT !.peers = {}]
    <3>2. /\ b \in AnswersOf(Clients, Clients \cup Seeds) /\ b.to = r.from /\ b.call = r.call
          /\ b.kind = "swarm" /\ b.peers = {} /\ Cardinality(b.peers) <= b.seeders + b.leechers
      BY <1>5, BareIs
    <3> HIDE DEF b
    <3>3. ToldOf(r, b)
      BY <2>2, <3>2 DEF ToldOf
    <3> QED
      BY <3>1, <3>3 DEF b
  <2>3. CASE r.kind = "announce" /\ mode \in {"stale", "truncated"}
    <3>1. a = Spoilt(r)
      BY <1>7, <2>3 DEF UdpAnswer
    <3> QED
      BY <3>1, SpoiltIs DEF ToldOf
  <2>4. CASE r.kind = "announce" /\ mode = "ok"
    <3>1. a = Answer(r, swarm', Returned)
      BY <1>7, <2>4 DEF UdpAnswer
    <3> DEFINE b == Answer(r, swarm', Returned)
    <3>2. /\ b \in AnswersOf(Clients, Clients \cup Seeds) /\ b.to = r.from /\ b.call = r.call
          /\ b.kind = "swarm" /\ b.to \notin b.peers /\ Cardinality(b.peers) <= b.seeders + b.leechers
          /\ b.peers \subseteq {e.peer : e \in Range(swarm')}
      BY <1>1, <1>5, AnswerIs
    <3> HIDE DEF b
    <3>3. ToldOf(r, b)
      BY <1>5, <2>4, <3>2 DEF ToldOf
    <3> QED
      BY <3>1, <3>3 DEF b
  <2> QED
    BY <1>1, <1>2, <1>7, <2>1, <2>2, <2>3, <2>4 DEF Calling, UdpModes, Unheard
<1>8. \A a \in going' \ going : ToldOf(r, a)
  BY <1>4, <1>7
<1> QED
  BY <1>6, <1>8

LEMMA CountedStays ==
  ASSUME TrackerAssumption, TrackerShape, NEW r \in coming, ListMoves(r), now' = now,
         NEW p, NEW since \in Nat, since <= now, Counted(p, since)
  PROVE  Counted(p, since)'
<1> SUFFICES ASSUME now <= since + Ttl, p \notin stopped'
             PROVE  \E e \in Range(swarm') : e.peer = p /\ e.seen >= since
  BY DEF Counted
<1>1. now \in Nat /\ Ttl \in Nat /\ swarm \in Seq(EntriesOf(Clients \cup Seeds))
  BY DEF TrackerShape, TrackerAssumption
<1>2. Entry(r).peer = r.from /\ Entry(r).seen = now
  BY RequestIs
<1>3. /\ \A e \in Range(swarm) :
           e \in Range(swarm') \/ e.seen < now - Ttl
             \/ (e.peer = r.from /\ (r.from \in stopped' \/ Entry(r) \in Range(swarm')))
      /\ \A q \in stopped : q \in stopped' \/ (q = r.from /\ Entry(r) \in Range(swarm'))
  BY DEF ListMoves
<1>4. CASE p = r.from /\ Entry(r) \in Range(swarm')
  BY <1>1, <1>2, <1>4
<1>5. CASE ~(p = r.from /\ Entry(r) \in Range(swarm'))
  <2>1. p \notin stopped
    BY <1>3, <1>5
  <2>2. PICK e \in Range(swarm) : e.peer = p /\ e.seen >= since
    BY <2>1 DEF Counted
  <2>3. e.seen \in Nat
    BY <1>1, EntriesAre DEF EntriesOf
  <2>4. ~(e.seen < now - Ttl)
    BY <1>1, <2>2, <2>3
  <2>5. e \in Range(swarm')
    BY <1>3, <1>5, <2>2, <2>4
  <2> QED
    BY <2>2, <2>5
<1> QED
  BY <1>4, <1>5

LEMMA WaitIs ==
  ASSUME TrackerShape, NEW c \in Clients
  PROVE  /\ asking[c] \in WaitsOf(Clients) /\ asking[c].since \in Nat /\ asking[c].kind \in {"announce", "scrape", "none"}
         /\ asking[c].at \in Calling \cup {"idle"} /\ asking[c].event \in Events
         /\ asking[c].left \in {0, 1} /\ asking[c].want \in Nat
<1>1. asking[c] \in WaitsOf(Clients)
  BY DEF TrackerShape
<1> QED
  BY <1>1 DEF WaitsOf

LEMMA AnswerParts ==
  ASSUME TrackerShape, NEW a \in going
  PROVE  /\ a.to \in Clients /\ a.call \in Nat /\ a.kind \in {"id", "bad", "swarm"}
         /\ a.peers \subseteq Clients \cup Seeds
<1>1. a \in AnswersOf(Clients, Clients \cup Seeds)
  BY DEF TrackerShape
<1> QED
  BY <1>1 DEF AnswersOf

LEMMA ServeKeeps ==
  ASSUME TrackerAssumption, TrackerInv, NEW r \in coming, Serve(r)
  PROVE  TrackerInv' /\ SilentForgotten /\ AliveListed
<1>1. TrackerShape /\ PacketsInOrder /\ ResultCounted /\ StoppedIsGone
  BY DEF TrackerInv
<1>2. /\ coming' \subseteq coming /\ UNCHANGED <<scheme, mode, now, asking, numbered, identified, result>>
      /\ (scheme = "http" /\ ServeHttp(r)) \/ (scheme = "udp" /\ ServeUdp(r))
  BY DEF Serve, asideVars
<1>3. ListMoves(r) /\ \A a \in going' \ going : ToldOf(r, a)
  BY <1>1, <1>2, HttpMoves, UdpMoves
<1>4. /\ now \in Nat /\ Ttl \in Nat /\ swarm \in Seq(EntriesOf(Clients \cup Seeds)) /\ Distinct(swarm)
      /\ swarm' \in Seq(EntriesOf(Clients \cup Seeds)) /\ Distinct(swarm')
  BY <1>1, <1>3 DEF TrackerShape, TrackerAssumption, ListMoves
<1>5. Entry(r).peer = r.from /\ Entry(r).seen = now /\ r.from \in Clients
  BY <1>1, RequestIs
<1>6. \A a \in going' : a \in going \/ ToldOf(r, a)
  BY <1>3
<1>7. TrackerShape'
  <2>1. going' \subseteq AnswersOf(Clients, Clients \cup Seeds)
    BY <1>1, <1>6 DEF TrackerShape, ToldOf
  <2>2. stopped' \subseteq Clients /\ (scheme = "udp" => stopped' = {})
    BY <1>3 DEF ListMoves
  <2> QED
    BY <1>1, <1>2, <1>4, <2>1, <2>2 DEF TrackerShape
<1>8. ASSUME NEW a \in going'
      PROVE  /\ a.call <= numbered[a.to] /\ a.to \notin a.peers /\ (scheme = "http" => a.kind # "id")
             /\ a.call = numbered[a.to] /\ a.kind = "swarm" /\ asking[a.to].at # "idle" =>
                  /\ asking[a.to].at = asking[a.to].kind
                  /\ asking[a.to].kind = "announce" => Counted(a.to, asking[a.to].since)'
  <2>1. CASE a \in going
    <3>1. a.to \in Clients
      BY <1>1, <2>1, AnswerParts
    <3>2. asking[a.to].since \in Nat /\ asking[a.to].since <= now
      BY <1>1, <3>1, WaitIs DEF PacketsInOrder
    <3>3. Counted(a.to, asking[a.to].since) => Counted(a.to, asking[a.to].since)'
      BY <1>1, <1>2, <1>3, <3>2, CountedStays
    <3> QED
      BY <1>1, <2>1, <3>3 DEF PacketsInOrder
  <2>2. CASE ToldOf(r, a)
    <3>1. a.to = r.from /\ a.call = r.call /\ a.to \notin a.peers /\ (scheme = "http" => a.kind # "id")
      BY <2>2 DEF ToldOf
    <3>2. /\ r.call <= numbered[r.from]
          /\ r.call = numbered[r.from] /\ asking[r.from].at # "idle" => r.kind = asking[r.from].at
      BY <1>1 DEF PacketsInOrder
    <3>3. ASSUME a.call = numbered[a.to], a.kind = "swarm", asking[a.to].at # "idle"
          PROVE  /\ asking[a.to].at = asking[a.to].kind
                 /\ asking[a.to].kind = "announce" => Counted(a.to, asking[a.to].since)'
      <4>1. r.kind = asking[a.to].at /\ r.kind # "connect"
        BY <2>2, <3>1, <3>2, <3>3 DEF ToldOf
      <4>2. asking[a.to].at = asking[a.to].kind
        BY <1>1, <1>5, <3>1, <3>3, <4>1 DEF PacketsInOrder
      <4>3. ASSUME asking[a.to].kind = "announce" PROVE Counted(a.to, asking[a.to].since)'
        <5>1. r.from \in stopped' \/ Entry(r) \in Range(swarm')
          BY <2>2, <3>3, <4>1, <4>2, <4>3 DEF ToldOf
        <5>2. asking[r.from].since \in Nat /\ asking[r.from].since <= now
          BY <1>1, <1>5, WaitIs DEF PacketsInOrder
        <5> QED
          BY <1>2, <1>4, <1>5, <3>1, <5>1, <5>2 DEF Counted
      <4> QED
        BY <4>2, <4>3
    <3> QED
      BY <3>1, <3>2, <3>3
  <2> QED
    BY <1>6, <2>1, <2>2
<1>9. PacketsInOrder'
  BY <1>1, <1>2, <1>8 DEF PacketsInOrder
<1>10. ResultCounted'
  <2> SUFFICES ASSUME result.kind = "announce"
               PROVE  /\ result.to \in Clients /\ result.since \in Nat /\ result.since <= now
                      /\ Counted(result.to, result.since)'
    BY <1>2 DEF ResultCounted
  <2>1. /\ result.to \in Clients /\ result.since \in Nat /\ result.since <= now
        /\ Counted(result.to, result.since)
    BY <1>1 DEF ResultCounted
  <2>2. Counted(result.to, result.since)'
    BY <1>1, <1>2, <1>3, <2>1, CountedStays
  <2> QED
    BY <2>1, <2>2
<1>11. StoppedIsGone'
  <2>1. \A p \in stopped : \A e \in Range(swarm) : e.peer # p
    BY <1>1, EnrolledAre DEF StoppedIsGone
  <2>2. \A p \in stopped' : \A e \in Range(swarm') : e.peer # p
    BY <1>3, <1>5, <2>1 DEF ListMoves
  <2>3. Enrolled(swarm') = {e.peer : e \in Range(swarm')}
    BY EnrolledAre
  <2> QED
    BY <2>2, <2>3 DEF StoppedIsGone
<1>12. SilentForgotten
  <2> SUFFICES ASSUME NEW i \in DOMAIN swarm, swarm[i].peer \notin Enrolled(swarm')
               PROVE  swarm[i].seen < now - Ttl \/ swarm[i].peer \in stopped'
    BY DEF SilentForgotten
  <2>1. PICK e \in Range(swarm) : e = swarm[i]
    BY DEF Range
  <2>2. \A x \in Range(swarm') : x.peer # e.peer
    BY <2>1, EnrolledAre
  <2> QED
    BY <1>3, <1>5, <2>1, <2>2 DEF ListMoves
<1>13. AliveListed
  <2> SUFFICES ASSUME NEW a \in going' \ going, NEW p \in a.peers
               PROVE  /\ p # a.to /\ EntryOf(swarm', p).seen >= now - Ttl
                      /\ Cardinality(a.peers) <= a.seeders + a.leechers
    BY DEF AliveListed
  <2>1. ToldOf(r, a)
    BY <1>3
  <2>2. PICK e \in Range(swarm') : e.peer = p /\ e.seen >= now - Ttl
    BY <2>1 DEF ToldOf
  <2>3. EntryOf(swarm', p) = e
    BY <1>4, <2>2, EntryIs
  <2> QED
    BY <2>1, <2>2, <2>3 DEF ToldOf
<1> QED
  BY <1>7, <1>9, <1>10, <1>11, <1>12, <1>13 DEF TrackerInv

(* A step that leaves the list alone forgets nobody and answers nobody.     *)
LEMMA NobodyForgotten ==
  ASSUME UNCHANGED swarm, going' \subseteq going
  PROVE  SilentForgotten /\ AliveListed
<1>1. \A i \in DOMAIN swarm : swarm[i].peer \in Enrolled(swarm')
  BY DEF Enrolled
<1> QED
  BY <1>1 DEF SilentForgotten, AliveListed

LEMMA LoseKeeps ==
  ASSUME TrackerAssumption, TrackerInv, NEW r \in coming, Lose(r)
  PROVE  TrackerInv' /\ SilentForgotten /\ AliveListed
<1>1. /\ coming' \subseteq coming
      /\ UNCHANGED <<scheme, mode, swarm, now, going, asking, identified, numbered, result, stopped>>
  BY DEF Lose, asideVars
<1>2. TrackerShape' /\ StoppedIsGone'
  BY <1>1 DEF TrackerInv, TrackerShape, StoppedIsGone
<1>3. \A p, t : Counted(p, t) => Counted(p, t)'
  BY <1>1 DEF Counted
<1>4. PacketsInOrder' /\ ResultCounted'
  BY <1>1, <1>3 DEF TrackerInv, PacketsInOrder, ResultCounted
<1> QED
  BY <1>1, <1>2, <1>4, NobodyForgotten DEF TrackerInv

LEMMA PassKeeps ==
  ASSUME TrackerAssumption, TrackerInv, Pass
  PROVE  TrackerInv' /\ SilentForgotten /\ AliveListed
<1>1. /\ now' = now + 1
      /\ UNCHANGED <<scheme, mode, swarm, coming, going, asking, identified, numbered, result, stopped>>
  BY DEF Pass, asideVars
<1>2. now \in Nat /\ Ttl \in Nat /\ TrackerShape /\ PacketsInOrder /\ ResultCounted /\ StoppedIsGone
  BY DEF TrackerInv, TrackerShape, TrackerAssumption
<1>3. TrackerShape' /\ StoppedIsGone'
  <2>1. now' \in Nat
    BY <1>1, <1>2
  <2>2. TrackerShape'
    BY <1>1, <1>2, <2>1 DEF TrackerShape
  <2> QED
    BY <1>1, <1>2, <2>2 DEF StoppedIsGone
<1>4. \A p : \A t \in Nat : Counted(p, t) => Counted(p, t)'
  BY <1>1, <1>2 DEF Counted
<1>5. \A c \in Clients : asking[c].since \in Nat /\ asking[c].since <= now'
  BY <1>1, <1>2, WaitIs DEF PacketsInOrder
<1>6. \A a \in going : a.to \in Clients
  BY <1>2, AnswerParts
<1>7. PacketsInOrder'
  BY <1>1, <1>2, <1>4, <1>5, <1>6 DEF PacketsInOrder
<1>8. ResultCounted'
  BY <1>1, <1>2, <1>4 DEF ResultCounted
<1> QED
  BY <1>1, <1>3, <1>7, <1>8, NobodyForgotten DEF TrackerInv

(* What a client sends, and what it waits for then.                         *)
Sends(c, q, first) ==
  /\ coming' = coming \cup {[from |-> c, call |-> numbered[c] + 1, kind |-> first, event |-> q.event,
                             left |-> q.left, want |-> q.want]}
  /\ numbered' = [numbered EXCEPT ![c] = @ + 1]
  /\ asking' = [asking EXCEPT ![c] = [q EXCEPT !.at = first]]
  /\ going' \subseteq going /\ identified' \subseteq identified \cup {c}
  /\ (scheme = "http" => identified' \subseteq identified)
  /\ UNCHANGED <<scheme, mode, swarm, now, result, stopped>>

LEMMA AskDoes ==
  ASSUME TrackerAssumption, TrackerInv, NEW c \in Clients,
         NEW q \in WaitsOf(Clients), q.kind \in {"announce", "scrape"}, q.since <= now,
         NEW first \in Calling, first \in {"connect", q.kind}, scheme = "http" => first # "connect",
         Sends(c, q, first)
  PROVE  TrackerInv' /\ SilentForgotten /\ AliveListed
<1>1. TrackerShape /\ PacketsInOrder /\ ResultCounted /\ StoppedIsGone
  BY DEF TrackerInv
<1>2. /\ numbered \in [Clients -> Nat] /\ asking \in [Clients -> WaitsOf(Clients)]
      /\ coming \subseteq CallsOf(Clients) /\ numbered[c] \in Nat /\ now \in Nat
  BY <1>1 DEF TrackerShape
<1>0. PICK m : m = [from |-> c, call |-> numbered[c] + 1, kind |-> first, event |-> q.event,
                    left |-> q.left, want |-> q.want]
  OBVIOUS
<1>m. /\ coming' = coming \cup {m} /\ numbered' = [numbered EXCEPT ![c] = @ + 1]
      /\ asking' = [asking EXCEPT ![c] = [q EXCEPT !.at = first]]
      /\ going' \subseteq going /\ identified' \subseteq identified \cup {c}
      /\ (scheme = "http" => identified' \subseteq identified)
      /\ UNCHANGED <<scheme, mode, swarm, now, result, stopped>>
  BY <1>0 DEF Sends
<1>3. PICK w : w = [q EXCEPT !.at = first]
  OBVIOUS
<1>4. w \in WaitsOf(Clients) /\ w.at = first /\ w.kind = q.kind /\ w.since = q.since
  BY <1>3 DEF WaitsOf
<1>5. /\ asking' \in [Clients -> WaitsOf(Clients)] /\ asking'[c] = w
      /\ \A x \in Clients : x # c => asking'[x] = asking[x]
  BY <1>m, <1>2, <1>3, <1>4
<1>6. /\ numbered' \in [Clients -> Nat] /\ numbered'[c] = numbered[c] + 1
      /\ \A x \in Clients : x # c => numbered'[x] = numbered[x]
  BY <1>m, <1>2
<1>7. m \in CallsOf(Clients) /\ m.from = c /\ m.call = numbered'[c] /\ m.kind = first
  <2>1. q.event \in Events /\ q.left \in {0, 1} /\ q.want \in Nat
    BY DEF WaitsOf
  <2>2. numbered[c] + 1 \in Nat /\ numbered[c] + 1 = numbered'[c]
    BY <1>2, <1>6
  <2> QED
    BY <1>0, <2>1, <2>2 DEF CallsOf
<1>8. TrackerShape'
  <2>1. coming' \subseteq CallsOf(Clients)
    BY <1>m, <1>2, <1>7
  <2>2. identified' \subseteq Clients /\ (scheme = "http" => identified' = {})
    BY <1>m, <1>1 DEF TrackerShape
  <2> QED
    BY <1>m, <1>1, <1>5, <1>6, <2>1, <2>2 DEF TrackerShape
<1>9. \A p, t : Counted(p, t) => Counted(p, t)'
  BY <1>m DEF Counted
<1>10. PacketsInOrder'
  <2>1. ASSUME NEW x \in Clients
        PROVE  /\ asking'[x].since <= now
               /\ asking'[x].at \in {"idle", "connect", asking'[x].kind}
               /\ asking'[x].at # "idle" => asking'[x].kind # "none"
    <3>1. CASE x = c
      BY <1>4, <1>5, <3>1
    <3>2. CASE x # c
      BY <1>1, <1>5, <3>2 DEF PacketsInOrder
    <3> QED
      BY <3>1, <3>2
  <2>0. \A r \in coming' : r = m \/ r \in coming
    BY <1>m
  <2>2. ASSUME NEW r \in coming'
        PROVE  /\ r.call <= numbered'[r.from]
               /\ r.call = numbered'[r.from] /\ asking'[r.from].at # "idle" => r.kind = asking'[r.from].at
               /\ scheme = "http" => r.kind # "connect"
    <3>1. CASE r = m
      BY <1>4, <1>5, <1>6, <1>7, <3>1
    <3>2. CASE r \in coming
      <4>1. r.from \in Clients /\ r.call \in Nat /\ r.call <= numbered[r.from]
        BY <1>1, <3>2, RequestIs DEF PacketsInOrder
      <4>2. CASE r.from = c
        BY <1>1, <1>2, <1>6, <3>2, <4>1, <4>2 DEF PacketsInOrder
      <4>3. CASE r.from # c
        BY <1>1, <1>5, <1>6, <3>2, <4>1, <4>3 DEF PacketsInOrder
      <4> QED
        BY <4>2, <4>3
    <3> QED
      BY <2>0, <3>1, <3>2
  <2>3. ASSUME NEW a \in going'
        PROVE  /\ a.call <= numbered'[a.to] /\ a.to \notin a.peers /\ (scheme = "http" => a.kind # "id")
               /\ a.call = numbered'[a.to] /\ a.kind = "swarm" /\ asking'[a.to].at # "idle" =>
                    /\ asking'[a.to].at = asking'[a.to].kind
                    /\ asking'[a.to].kind = "announce" => Counted(a.to, asking'[a.to].since)
    <3>1. /\ a \in going /\ a.to \in Clients /\ a.call \in Nat /\ a.call <= numbered[a.to]
          /\ a.to \notin a.peers /\ (scheme = "http" => a.kind # "id")
      BY <1>m, <1>1, AnswerParts DEF PacketsInOrder
    <3>2. CASE a.to = c
      BY <1>2, <1>6, <3>1, <3>2
    <3>3. CASE a.to # c
      BY <1>1, <1>5, <1>6, <3>1, <3>3 DEF PacketsInOrder
    <3> QED
      BY <3>2, <3>3
  <2>4. \A p, t : Counted(p, t)' <=> Counted(p, t)
    BY <1>m DEF Counted
  <2> QED
    BY <1>m, <2>1, <2>2, <2>3, <2>4 DEF PacketsInOrder
<1>11. ResultCounted' /\ StoppedIsGone'
  BY <1>m, <1>1, <1>9 DEF ResultCounted, StoppedIsGone
<1> QED
  BY <1>m, <1>8, <1>10, <1>11, NobodyForgotten DEF TrackerInv

LEMMA NoCallIs ==
  /\ NoCall \in WaitsOf(Clients) /\ NoCall.at = "idle" /\ NoCall.since = 0 /\ NoCall.kind = "none"
BY DEF NoCall, WaitsOf, Events

(* A client that stops waiting disturbs nothing else.                       *)
LEMMA QuietKeeps ==
  ASSUME TrackerShape, PacketsInOrder, NEW c \in Clients, asking' = [asking EXCEPT ![c] = NoCall],
         going' \subseteq going, UNCHANGED <<scheme, swarm, now, coming, numbered, stopped>>
  PROVE  PacketsInOrder'
<1>1. /\ asking \in [Clients -> WaitsOf(Clients)] /\ now \in Nat
      /\ asking'[c] = NoCall /\ \A x \in Clients : x # c => asking'[x] = asking[x]
  BY DEF TrackerShape
<1>2. \A p, t : Counted(p, t)' <=> Counted(p, t)
  BY DEF Counted
<1>3. ASSUME NEW x \in Clients
      PROVE  /\ asking'[x].since <= now
             /\ asking'[x].at \in {"idle", "connect", asking'[x].kind}
             /\ asking'[x].at # "idle" => asking'[x].kind # "none" /\ asking'[x] = asking[x]
  BY <1>1, NoCallIs DEF PacketsInOrder
<1>4. ASSUME NEW r \in coming
      PROVE  /\ r.call <= numbered[r.from]
             /\ r.call = numbered[r.from] /\ asking'[r.from].at # "idle" => r.kind = asking'[r.from].at
             /\ scheme = "http" => r.kind # "connect"
  <2>1. r.from \in Clients
    BY RequestIs
  <2> QED
    BY <1>3, <2>1 DEF PacketsInOrder
<1>5. ASSUME NEW a \in going'
      PROVE  /\ a.call <= numbered[a.to] /\ a.to \notin a.peers /\ (scheme = "http" => a.kind # "id")
             /\ a.call = numbered[a.to] /\ a.kind = "swarm" /\ asking'[a.to].at # "idle" =>
                  /\ asking'[a.to].at = asking'[a.to].kind
                  /\ asking'[a.to].kind = "announce" => Counted(a.to, asking'[a.to].since)
  <2>1. a \in going /\ a.to \in Clients
    BY AnswerParts
  <2> QED
    BY <1>3, <2>1 DEF PacketsInOrder
<1> QED
  BY <1>2, <1>3, <1>4, <1>5 DEF PacketsInOrder

LEMMA BeginsKeeps ==
  ASSUME TrackerAssumption, TrackerInv, NEW c \in Clients, NEW kind \in {"announce", "scrape"},
         NEW event \in Events, NEW left \in {0, 1}, NEW want \in Nat, Begins(c, kind, event, left, want)
  PROVE  TrackerInv' /\ SilentForgotten /\ AliveListed
<1> DEFINE q == [NoCall EXCEPT !.kind = kind, !.event = event, !.left = left, !.want = want, !.since = now]
           first == IF scheme = "udp" /\ c \notin identified THEN "connect" ELSE kind
           f == IF scheme = "udp" /\ c \notin identified THEN [q EXCEPT !.kind = "connect"] ELSE q
<1>1. now \in Nat
  BY DEF TrackerInv, TrackerShape
<1>2. q \in WaitsOf(Clients) /\ q.kind = kind /\ q.since = now /\ q.at = "idle"
  BY <1>1, NoCallIs DEF WaitsOf
<1>3. /\ asking[c].at = "idle" /\ Ask(c, q)
      /\ UNCHANGED <<scheme, mode, swarm, now, going, identified, result, stopped>>
  BY DEF Begins, asideVars
<1> HIDE DEF q
<1>4. f.kind = first /\ f.event = q.event /\ f.left = q.left /\ f.want = q.want
  BY <1>2 DEF WaitsOf
<1>5. /\ numbered' = [numbered EXCEPT ![c] = @ + 1] /\ coming' = coming \cup {Request(c, f)}
      /\ asking' = [asking EXCEPT ![c] = [q EXCEPT !.at = f.kind]]
  BY <1>3 DEF Ask
<1>6. first \in Calling /\ first \in {"connect", q.kind} /\ (scheme = "http" => first # "connect")
  BY <1>2 DEF Calling
<1> HIDE DEF f, first
<1>7. Sends(c, q, first)
  BY <1>3, <1>4, <1>5 DEF Request, Sends
<1>8. q.kind \in {"announce", "scrape"} /\ q.since <= now
  BY <1>1, <1>2
<1> QED
  BY <1>2, <1>6, <1>7, <1>8, AskDoes

LEMMA ReceivesKeeps ==
  ASSUME TrackerAssumption, TrackerInv, NEW c \in Clients, NEW a \in going, Receives(c, a)
  PROVE  TrackerInv' /\ SilentForgotten /\ AliveListed
<1>1. TrackerShape /\ PacketsInOrder /\ ResultCounted /\ StoppedIsGone
  BY DEF TrackerInv
<1>2. /\ a.to = c /\ a.call = numbered[c] /\ asking[c].at # "idle" /\ going' = going \ {a}
      /\ UNCHANGED <<scheme, mode, swarm, now, stopped>>
  BY DEF Receives, asideVars
<1>3. a.kind \in {"id", "bad", "swarm"}
  BY <1>1, AnswerParts
<1>4. /\ asking[c] \in WaitsOf(Clients) /\ asking[c].since \in Nat /\ asking[c].since <= now
      /\ asking[c].kind \in {"announce", "scrape"}
      /\ asking \in [Clients -> WaitsOf(Clients)] /\ now \in Nat /\ identified \subseteq Clients
      /\ asking[c].at \in {"connect", asking[c].kind}
  BY <1>1, <1>2, WaitIs DEF PacketsInOrder, TrackerShape
<1>5. \A p, t : Counted(p, t)' <=> Counted(p, t)
  BY <1>2 DEF Counted
<1>6. CASE a.kind = "swarm"
  <2>1. /\ result' = [to |-> c, kind |-> asking[c].kind, seeders |-> a.seeders, leechers |-> a.leechers,
                      peers |-> a.peers, at |-> a.at, since |-> asking[c].since]
        /\ asking' = [asking EXCEPT ![c] = NoCall]
        /\ UNCHANGED <<identified, numbered, coming>>
    BY <1>6 DEF Receives
  <2>2. asking[c].kind = "announce" => Counted(c, asking[c].since)
    BY <1>1, <1>2, <1>6 DEF PacketsInOrder
  <2>3. /\ result'.to = c /\ result'.kind = asking[c].kind /\ result'.since = asking[c].since
        /\ result'.peers = a.peers
    BY <2>1
  <2>4. ResultCounted'
    BY <1>2, <1>4, <1>5, <2>2, <2>3 DEF ResultCounted
  <2>5. result'.peers \subseteq (Clients \cup Seeds) \ {result'.to}
    BY <1>1, <1>2, <2>3, AnswerParts DEF PacketsInOrder
  <2>6. asking' \in [Clients -> WaitsOf(Clients)] /\ asking'[c] = NoCall /\ \A x \in Clients : x # c => asking'[x] = asking[x]
    BY <1>4, <2>1, NoCallIs
  <2>7. TrackerShape'
    BY <1>1, <1>2, <2>1, <2>5, <2>6 DEF TrackerShape
  <2>8. PacketsInOrder'
    BY <1>1, <1>2, <1>4, <2>1, QuietKeeps
  <2> QED
    BY <1>1, <1>2, <2>4, <2>7, <2>8, NobodyForgotten DEF TrackerInv, StoppedIsGone
<1>7. CASE a.kind = "bad"
  <2>1. /\ identified' = identified \ {c} /\ asking' = [asking EXCEPT ![c] = NoCall]
        /\ UNCHANGED <<numbered, coming, result>>
    BY <1>7 DEF Receives
  <2>2. asking' \in [Clients -> WaitsOf(Clients)] /\ asking'[c] = NoCall /\ \A x \in Clients : x # c => asking'[x] = asking[x]
    BY <1>4, <2>1, NoCallIs
  <2>3. TrackerShape'
    BY <1>1, <1>2, <2>1, <2>2 DEF TrackerShape
  <2>4. PacketsInOrder'
    BY <1>1, <1>2, <1>4, <2>1, QuietKeeps
  <2>5. ResultCounted' /\ StoppedIsGone'
    BY <1>1, <1>2, <1>5, <2>1 DEF ResultCounted, StoppedIsGone
  <2> QED
    BY <1>2, <2>3, <2>4, <2>5, NobodyForgotten DEF TrackerInv
<1>8. CASE a.kind = "id"
  <2>1. /\ identified' = identified \cup {c} /\ numbered' = [numbered EXCEPT ![c] = @ + 1]
        /\ coming' = coming \cup {Request(c, asking[c])}
        /\ asking' = [asking EXCEPT ![c].at = asking[c].kind] /\ UNCHANGED result
    BY <1>8 DEF Receives
  <2>2. PICK q : q = asking[c]
    OBVIOUS
  <2>3. asking' = [asking EXCEPT ![c] = [q EXCEPT !.at = q.kind]]
    BY <1>4, <2>1, <2>2
  <2>4. [from |-> c, call |-> numbered[c] + 1, kind |-> q.kind, event |-> q.event,
         left |-> q.left, want |-> q.want] = Request(c, q)
    BY <1>2, <2>2 DEF Request
  <2>5. Sends(c, q, q.kind)
    <3>1. coming' = coming \cup {Request(c, q)}
      BY <2>1, <2>2
    <3>2. UNCHANGED <<scheme, mode, swarm, now, result, stopped>> /\ going' \subseteq going
      BY <1>2, <2>1
    <3>3. identified' \subseteq identified \cup {c} /\ (scheme = "http" => identified' \subseteq identified)
      BY <1>1, <1>8, <2>1 DEF PacketsInOrder
    <3> QED
      BY <2>1, <2>3, <2>4, <3>1, <3>2, <3>3 DEF Sends
  <2>6. scheme # "http"
    BY <1>1, <1>8 DEF PacketsInOrder
  <2>7. q.kind \in Calling /\ q.kind # "connect" /\ q.kind \in {"announce", "scrape"}
    BY <1>4, <2>2 DEF Calling
  <2> QED
    BY <1>4, <2>2, <2>5, <2>6, <2>7, AskDoes
<1> QED
  BY <1>3, <1>6, <1>7, <1>8

LEMMA GiveUpKeeps ==
  ASSUME TrackerAssumption, TrackerInv, NEW c \in Clients, GiveUp(c)
  PROVE  TrackerInv' /\ SilentForgotten /\ AliveListed
<1>1. /\ asking' = [asking EXCEPT ![c] = NoCall] /\ identified' = identified \ {c}
      /\ UNCHANGED <<scheme, mode, swarm, now, coming, going, numbered, result, stopped>>
  BY DEF GiveUp, asideVars
<1>2. TrackerShape /\ PacketsInOrder /\ ResultCounted /\ StoppedIsGone
  BY DEF TrackerInv
<1>3. asking' \in [Clients -> WaitsOf(Clients)]
  BY <1>1, <1>2, NoCallIs DEF TrackerShape
<1>4. TrackerShape'
  BY <1>1, <1>2, <1>3 DEF TrackerShape
<1>5. PacketsInOrder'
  BY <1>1, <1>2, QuietKeeps
<1>6. \A p, t : Counted(p, t)' <=> Counted(p, t)
  BY <1>1 DEF Counted
<1>7. ResultCounted' /\ StoppedIsGone'
  BY <1>1, <1>2, <1>6 DEF ResultCounted, StoppedIsGone
<1> QED
  BY <1>1, <1>4, <1>5, <1>7, NobodyForgotten DEF TrackerInv

LEMMA TrackerInvStart ==
  ASSUME TrackerAssumption, TrackerInit
  PROVE  TrackerInv
<1> DEFINE n == Cardinality(Seeds)
           s == SetToSeq(Seeds)
<1>1. n \in Nat /\ IsFiniteSet(Seeds)
  BY FS_CardinalityType DEF TrackerAssumption
<1>2. s \in Seq(Seeds) /\ ToSet(s) = Seeds /\ IsInjective(s)
  BY <1>1, SetToSeqIs
<1>3. Len(s) = n /\ DOMAIN s = 1 .. n
  <2>1. s \in [1 .. Len(s) -> Seeds] /\ Len(s) \in Nat
    BY <1>2
  <2>2. s \in Bijection(1 .. Len(s), Seeds)
    BY <1>2, <2>1 DEF Bijection, Injection, Surjection, IsInjective, ToSet
  <2>3. Cardinality(1 .. Len(s)) = Len(s)
    BY <1>2, PlacesAre
  <2>4. Cardinality(Seeds) = Cardinality(1 .. Len(s))
    BY <1>1, <2>1, <2>2, FS_Bijection, FS_Interval DEF ExistsBijection
  <2> QED
    BY <2>1, <2>3, <2>4
<1>4. swarm = [i \in 1 .. n |-> [peer |-> s[i], left |-> 0, seen |-> 0]]
  BY DEF TrackerInit
<1> HIDE DEF n, s
<1>5. \A i \in 1 .. n : s[i] \in Seeds
  BY <1>2, <1>3
<1>6. swarm \in [1 .. n -> EntriesOf(Clients \cup Seeds)]
  BY <1>4, <1>5 DEF EntriesOf
<1>7. swarm \in Seq(EntriesOf(Clients \cup Seeds)) /\ DOMAIN swarm = 1 .. n
  BY <1>1, <1>6, SeqDef
<1>8. Distinct(swarm)
  BY <1>2, <1>3, <1>4 DEF Distinct, IsInjective
<1>9. /\ now = 0 /\ coming = {} /\ going = {} /\ asking = [c \in Clients |-> NoCall]
      /\ identified = {} /\ numbered = [c \in Clients |-> 0] /\ result = NoResult /\ stopped = {}
      /\ scheme \in {"http", "udp"} /\ (scheme = "udp" => mode \in UdpModes)
  BY DEF TrackerInit
<1>10. NoResult.peers = {} /\ NoResult.kind = "none"
  BY DEF NoResult
<1>11. asking \in [Clients -> WaitsOf(Clients)] /\ numbered \in [Clients -> Nat]
  BY <1>9, NoCallIs
<1>12. TrackerShape
  BY <1>7, <1>8, <1>9, <1>10, <1>11 DEF TrackerShape
<1>13. PacketsInOrder
  <2>1. \A c \in Clients : asking[c] = NoCall
    BY <1>9
  <2> QED
    BY <1>9, <2>1, NoCallIs DEF PacketsInOrder
<1> QED
  BY <1>9, <1>10, <1>12, <1>13 DEF TrackerInv, ResultCounted, StoppedIsGone

LEMMA TrackerInvStep ==
  ASSUME TrackerAssumption, TrackerInv, [TrackerNext]_trackerVars
  PROVE  TrackerInv' /\ (SilentForgotten /\ AliveListed)
<1>1. CASE UNCHANGED trackerVars
  <2>1. UNCHANGED <<scheme, mode, swarm, now, coming, going, asking, identified, numbered, result, stopped>>
    BY <1>1 DEF trackerVars
  <2>2. \A p, t : Counted(p, t)' <=> Counted(p, t)
    BY <2>1 DEF Counted
  <2>3. TrackerShape' /\ StoppedIsGone'
    BY <2>1 DEF TrackerInv, TrackerShape, StoppedIsGone
  <2>4. PacketsInOrder' /\ ResultCounted'
    BY <2>1, <2>2 DEF TrackerInv, PacketsInOrder, ResultCounted
  <2> QED
    BY <2>1, <2>3, <2>4, NobodyForgotten DEF TrackerInv
<1>2. ASSUME NEW r \in coming, Serve(r) \/ Lose(r)
      PROVE  TrackerInv' /\ (SilentForgotten /\ AliveListed)
  BY <1>2, ServeKeeps, LoseKeeps
<1>3. ASSUME NEW c \in Clients, NEW event \in Events, NEW left \in {0, 1}, NEW want \in Wants,
             Begins(c, "announce", event, left, want)
      PROVE  TrackerInv' /\ (SilentForgotten /\ AliveListed)
  <2>1. want \in Nat
    BY DEF TrackerAssumption
  <2> QED
    BY <1>3, <2>1, BeginsKeeps
<1>4. ASSUME NEW c \in Clients, Begins(c, "scrape", "none", 0, 0)
      PROVE  TrackerInv' /\ (SilentForgotten /\ AliveListed)
  <2>1. "none" \in Events
    BY DEF Events
  <2> QED
    BY <1>4, <2>1, BeginsKeeps
<1>5. ASSUME NEW c \in Clients, GiveUp(c) \/ \E a \in going : Receives(c, a)
      PROVE  TrackerInv' /\ (SilentForgotten /\ AliveListed)
  BY <1>5, GiveUpKeeps, ReceivesKeeps
<1>6. CASE Pass
  BY <1>6, PassKeeps
<1> QED
  BY <1>1, <1>2, <1>3, <1>4, <1>5, <1>6 DEF TrackerNext

LEMMA TrackerInvMeans ==
  ASSUME TrackerInv
  PROVE  TrackerTypeOK /\ AnsweredIsRegistered /\ StoppedIsGone
<1>1. TrackerShape /\ PacketsInOrder /\ ResultCounted /\ StoppedIsGone
  BY DEF TrackerInv
<1>2. TrackerTypeOK
  <2>1. \A i \in DOMAIN swarm : swarm[i].peer \in Clients \cup Seeds /\ swarm[i].left \in {0, 1}
    <3>1. swarm \in Seq(EntriesOf(Clients \cup Seeds))
      BY <1>1 DEF TrackerShape
    <3>2. \A i \in DOMAIN swarm : swarm[i] \in EntriesOf(Clients \cup Seeds)
      BY <3>1
    <3> QED
      BY <3>2 DEF EntriesOf
  <2>2. \A i, j \in DOMAIN swarm : swarm[i].peer = swarm[j].peer => i = j
    BY <1>1 DEF TrackerShape, Distinct
  <2>3. \A r \in coming : r.from \in Clients /\ r.kind \in {"connect", "announce", "scrape"}
    BY <1>1, RequestIs DEF Calling
  <2> QED
    BY <1>1, <2>1, <2>2, <2>3 DEF TrackerTypeOK, TrackerShape
<1>3. AnsweredIsRegistered
  <2> SUFFICES ASSUME result.kind = "announce", now <= result.since + Ttl, result.to \notin stopped
               PROVE  result.to \in Enrolled(swarm) /\ EntryOf(swarm, result.to).seen >= result.since
    BY DEF AnsweredIsRegistered
  <2>1. PICK e \in Range(swarm) : e.peer = result.to /\ e.seen >= result.since
    BY <1>1 DEF ResultCounted, Counted
  <2>2. EntryOf(swarm, e.peer) = e /\ e.peer \in Enrolled(swarm)
    BY <1>1, EntryIs, EnrolledAre DEF TrackerShape
  <2> QED
    BY <2>1, <2>2
<1> QED
  BY <1>1, <1>2, <1>3

(* What both trackers promise: who was given the swarm is counted in it,    *)
(* until it says it stops or is silent too long, nobody else is taken off   *)
(* the list, and an answer names peers heard of in time, never the one that *)
(* asks: for any number of clients and seeds, and whatever a datagram meets *)
(* on the way (handle_announce, _handle_announce, _prune).                  *)
THEOREM TrackerListsAreTrue ==
  ASSUME TrackerAssumption
  PROVE  TrackerSpec => /\ [](TrackerTypeOK /\ AnsweredIsRegistered /\ StoppedIsGone)
                        /\ [][SilentForgotten /\ AliveListed]_trackerVars
<1>1. TrackerInit => TrackerInv
  BY TrackerInvStart
<1>2. TrackerInv /\ [TrackerNext]_trackerVars => TrackerInv' /\ (SilentForgotten /\ AliveListed)
  BY TrackerInvStep
<1>3. TrackerInv => TrackerTypeOK /\ AnsweredIsRegistered /\ StoppedIsGone
  BY TrackerInvMeans
<1> QED
  BY <1>1, <1>2, <1>3, PTL DEF TrackerSpec
=============================================================================
