---------------------------- MODULE TrackerServer ---------------------------
(***************************************************************************)
(* A tracker's swarm and the clients that announce to it: the two trackers  *)
(* of tools/ (mock_tracker.py over HTTP, mock_udp_tracker.py over UDP) with *)
(* the requests of HttpTracker and UdpTracker.  A request may be answered   *)
(* after its client gave up on it; a datagram may also be lost or arrive    *)
(* twice.  One torrent.                                                     *)
(***************************************************************************)
EXTENDS Integers, Sequences, FiniteSets, SequencesExt

CONSTANTS
  Clients,   \* addresses that announce
  Seeds,     \* addresses registered with add_peer before anybody announces
  Wants,     \* the numwant values of the announces
  Returned,  \* MAX_PEERS_RETURNED
  Ttl,       \* the age at which a silent peer is forgotten
  NoOne,
  MaxAnnounces,  \* bound: announces and scrapes of one client
  MaxClock,  \* bound: how long the clock runs
  OnTheWay   \* bound: requests on their way

TrackerAssumption ==
  /\ IsFiniteSet(Clients) /\ IsFiniteSet(Seeds) /\ NoOne \notin Clients \cup Seeds
  /\ Wants \subseteq Nat /\ {Returned, Ttl, MaxAnnounces, MaxClock, OnTheWay} \subseteq Nat

VARIABLES
  scheme,   \* "http" or "udp"
  mode,     \* what the tracker does instead of answering, or "ok"
  swarm,    \* the peers registered, the oldest first: [peer, left, seen]
  now,
  coming,     \* requests on their way: [from, call, kind, event, left, want]
  going,  \* answers on their way: [to, call, kind, seeders, leechers, peers]
  asking,   \* each client: [at, call, kind, event, left, want, since]
  identified,   \* the clients that hold a connection id
  numbered,     \* calls of each client
  result,   \* the last answer a client took: [to, seeders, leechers, peers, kind, at, since]
  stopped   \* history: those whose "stopped" an HTTP tracker processed last

trackerVars == <<scheme, mode, swarm, now, coming, going, asking, identified, numbered, result, stopped>>
asideVars == <<scheme, mode>>

HttpModes == {"ok", "refuses", "status", "oversized", "ragged", "garbage"}
UdpModes == {"ok", "silent", "garbage", "stale", "truncated", "mute"}
Events == {"started", "stopped", "none"}
NoCall == [at |-> "idle", kind |-> "none", event |-> "none", left |-> 0, want |-> 0, since |-> 0]
NoResult == [to |-> NoOne, kind |-> "none", seeders |-> 0, leechers |-> 0, peers |-> {}, at |-> 0, since |-> 0]

Enrolled(w) == {w[i].peer : i \in DOMAIN w}
EntryOf(w, p) == CHOOSE e \in Range(w) : e.peer = p

TrackerInit ==
  /\ \/ scheme = "http" /\ mode \in HttpModes
     \/ scheme = "udp" /\ mode \in UdpModes
  /\ swarm = [i \in 1 .. Cardinality(Seeds) |-> [peer |-> SetToSeq(Seeds)[i], left |-> 0, seen |-> 0]]
  /\ now = 0 /\ coming = {} /\ going = {}
  /\ asking = [c \in Clients |-> NoCall]
  /\ identified = {} /\ numbered = [c \in Clients |-> 0]
  /\ result = NoResult /\ stopped = {}

-----------------------------------------------------------------------------
(* The tracker.                                                            *)

(* What w has at the places I, in its order: each at the rank of its place. *)
Thinned(w, I) ==
  [k \in 1 .. Cardinality(I) |-> w[CHOOSE i \in I : Cardinality(I \cap (1 .. i)) = k]]
Barring(w, p) == Thinned(w, {i \in DOMAIN w : w[i].peer # p})

(* Faulty variant: a peer is forgotten at the age it should still be kept. *)
PrunedEarly(w) == Thinned(w, {i \in DOMAIN w : w[i].seen > now - Ttl})

Pruned(w) == Thinned(w, {i \in DOMAIN w : w[i].seen >= now - Ttl})

\* A dictionary: an address that is there keeps its place.
Put(w, e) ==
  IF e.peer \in Enrolled(w)
  THEN [i \in DOMAIN w |-> IF w[i].peer = e.peer THEN e ELSE w[i]]
  ELSE Append(w, e)

Seeders(w) == Cardinality({i \in DOMAIN w : w[i].left = 0})
Leechers(w) == Len(w) - Seeders(w)

\* Everybody but the one that asks, the oldest first, as many as it may have.
Others(w, p, most) ==
  LET rest == Barring(w, p)
  IN {rest[i].peer : i \in 1 .. IF Len(rest) < most THEN Len(rest) ELSE most}

\* handle_announce prunes, then registers the peer or takes it off.
HttpAnnounced(r) ==
  IF r.event = "stopped"
  THEN Barring(Pruned(swarm), r.from)
  ELSE Put(Pruned(swarm), [peer |-> r.from, left |-> r.left, seen |-> now])

\* _handle_announce registers whatever the event is, then prunes.
UdpAnnounced(r) == Pruned(Put(swarm, [peer |-> r.from, left |-> r.left, seen |-> now]))

Answer(r, w, most) ==
  [to |-> r.from, call |-> r.call, kind |-> "swarm", seeders |-> Seeders(w),
   leechers |-> Leechers(w), peers |-> Others(w, r.from, most), at |-> now]
Spoilt(r) == [to |-> r.from, call |-> r.call, kind |-> "bad", seeders |-> 0, leechers |-> 0,
              peers |-> {}, at |-> now]
Least(a, b) == IF a < b THEN a ELSE b

\* The routes that exercise failures answer without touching the swarm.
ServeHttp(r) ==
  IF mode # "ok"
  THEN going' = going \cup {Spoilt(r)} /\ UNCHANGED <<swarm, stopped>>
  ELSE IF r.kind = "announce"
  THEN /\ swarm' = HttpAnnounced(r)
       /\ stopped' = IF r.event = "stopped" THEN stopped \cup {r.from} ELSE stopped \ {r.from}
       /\ going' = going \cup {Answer(r, swarm', Least(r.want, Returned))}
  ELSE /\ swarm' = Pruned(swarm)
       /\ going' = going \cup {[Answer(r, swarm', 0) EXCEPT !.peers = {}]}
       /\ UNCHANGED stopped

\* The garbage goes out as a packet no client waits for.  A connect is answered
\* in every other mode but "silent"; "mute" and "stale" are about announces, and
\* "truncated" has registered the peer by then.
Unheard(r) == mode \in {"silent", "garbage"} \/ (mode = "mute" /\ r.kind = "announce")
UdpAnswer(r, w) ==
  IF r.kind = "connect" THEN [Spoilt(r) EXCEPT !.kind = "id"]
  ELSE IF r.kind = "scrape" THEN [Answer(r, w, 0) EXCEPT !.peers = {}]
  ELSE IF mode \in {"stale", "truncated"} THEN Spoilt(r)
  ELSE Answer(r, w, Returned)

ServeUdp(r) ==
  /\ swarm' = IF r.kind = "announce" /\ mode \in {"ok", "truncated"} THEN UdpAnnounced(r) ELSE swarm
  /\ going' = IF Unheard(r) THEN going ELSE going \cup {UdpAnswer(r, swarm')}
  /\ UNCHANGED stopped

\* A request arrives; a datagram may arrive again.
Serve(r) ==
  /\ \/ scheme = "http" /\ ServeHttp(r) /\ coming' = coming \ {r}
     \/ scheme = "udp" /\ ServeUdp(r) /\ coming' \in {coming, coming \ {r}}
  /\ UNCHANGED <<asideVars, now, asking, identified, numbered, result>>

Lose(r) ==
  /\ scheme = "udp" /\ coming' = coming \ {r}
  /\ UNCHANGED <<asideVars, swarm, now, going, asking, identified, numbered, result, stopped>>

-----------------------------------------------------------------------------
(* The clients.                                                            *)

Request(c, call) == [from |-> c, call |-> numbered[c] + 1, kind |-> call.kind, event |-> call.event,
                     left |-> call.left, want |-> call.want]

\* Every call starts with what it asks for, or over UDP with a connect when
\* there is no id; each packet has a number of its own.
Ask(c, call) ==
  /\ Cardinality(coming) < OnTheWay
  /\ numbered' = [numbered EXCEPT ![c] = @ + 1]
  /\ LET first == IF scheme = "udp" /\ c \notin identified
                  THEN [call EXCEPT !.kind = "connect"] ELSE call
     IN /\ coming' = coming \cup {Request(c, first)}
        /\ asking' = [asking EXCEPT ![c] = [call EXCEPT !.at = first.kind]]

Begins(c, kind, event, left, want) ==
  /\ asking[c].at = "idle" /\ numbered[c] < MaxAnnounces
  /\ Ask(c, [NoCall EXCEPT !.kind = kind, !.event = event, !.left = left, !.want = want, !.since = now])
  /\ UNCHANGED <<asideVars, swarm, now, going, identified, result, stopped>>

\* An answer to the packet a client waits for.  Over UDP every answer that is
\* no good makes it forget its connection id.
Receives(c, a) ==
  /\ a \in going /\ a.to = c /\ a.call = numbered[c] /\ asking[c].at # "idle"
  /\ going' = going \ {a}
  /\ CASE a.kind = "id" ->
            /\ Cardinality(coming) < OnTheWay
            /\ identified' = identified \cup {c}
            /\ numbered' = [numbered EXCEPT ![c] = @ + 1]
            /\ coming' = coming \cup {Request(c, asking[c])}
            /\ asking' = [asking EXCEPT ![c].at = asking[c].kind]
            /\ UNCHANGED result
       [] a.kind = "bad" ->
            /\ identified' = identified \ {c}
            /\ asking' = [asking EXCEPT ![c] = NoCall]
            /\ UNCHANGED <<numbered, coming, result>>
       [] a.kind = "swarm" ->
            /\ result' = [to |-> c, kind |-> asking[c].kind, seeders |-> a.seeders,
                          leechers |-> a.leechers, peers |-> a.peers, at |-> a.at, since |-> asking[c].since]
            /\ asking' = [asking EXCEPT ![c] = NoCall]
            /\ UNCHANGED <<identified, numbered, coming>>
  /\ UNCHANGED <<asideVars, swarm, now, stopped>>

GiveUp(c) ==
  /\ asking[c].at # "idle"
  /\ asking' = [asking EXCEPT ![c] = NoCall]
  /\ identified' = identified \ {c}
  /\ UNCHANGED <<asideVars, swarm, now, coming, going, numbered, result, stopped>>

Pass ==
  /\ now < MaxClock /\ now' = now + 1
  /\ UNCHANGED <<asideVars, swarm, coming, going, asking, identified, numbered, result, stopped>>

TrackerNext ==
  \/ \E r \in coming : Serve(r) \/ Lose(r)
  \/ \E c \in Clients :
       \/ \E event \in Events, left \in {0, 1}, want \in Wants : Begins(c, "announce", event, left, want)
       \/ Begins(c, "scrape", "none", 0, 0)
       \/ GiveUp(c)
       \/ \E a \in going : Receives(c, a)
  \/ Pass

TrackerSpec == TrackerInit /\ [][TrackerNext]_trackerVars

-----------------------------------------------------------------------------
TrackerTypeOK ==
  /\ \A i \in DOMAIN swarm : swarm[i].peer \in Clients \cup Seeds /\ swarm[i].left \in {0, 1}
  /\ \A i, j \in DOMAIN swarm : swarm[i].peer = swarm[j].peer => i = j
  /\ \A r \in coming : r.from \in Clients /\ r.kind \in {"connect", "announce", "scrape"}
  /\ identified \subseteq Clients /\ (scheme = "http" => identified = {})
  /\ result.peers \subseteq (Clients \cup Seeds) \ {result.to}

\* A client that was given the swarm is registered in it since it asked, unless
\* it was heard to stop or has been silent too long: an answer never comes
\* from an announce that was not counted (both trackers' announce handlers).
AnsweredIsRegistered ==
  result.kind = "announce" /\ now <= result.since + Ttl /\ result.to \notin stopped =>
    result.to \in Enrolled(swarm) /\ EntryOf(swarm, result.to).seen >= result.since

\* Only its own "stopped" or its own silence takes a peer off the list, whatever
\* is lost, late or repeated on the way.
SilentForgotten ==
  \A i \in DOMAIN swarm :
    swarm[i].peer \notin Enrolled(swarm') =>
      swarm[i].seen < now - Ttl \/ swarm[i].peer \in stopped'

\* A peer that told an HTTP tracker it stops is handed to nobody until it
\* announces again.
StoppedIsGone == stopped \cap Enrolled(swarm) = {}

\* The peers an answer hands out have been heard of within the time a peer is
\* kept, the one that asks is never among them, and the counts are at least
\* theirs.
AliveListed ==
  \A a \in going' \ going : \A p \in a.peers :
    /\ p # a.to /\ EntryOf(swarm', p).seen >= now - Ttl
    /\ Cardinality(a.peers) <= a.seeders + a.leechers
=============================================================================
