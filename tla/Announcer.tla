------------------------------ MODULE Announcer ------------------------------
(***************************************************************************)
(* TrackerManager (tracker/manager.py): the trackers of a torrent, asked   *)
(* tier by tier until one answers, the health kept of each, the announce   *)
(* loop the engine starts and stops, and Engine.announce beside it.  The    *)
(* sessions are those of HttpTracker; the datagrams of a UdpTracker are in  *)
(* UdpTracker.tla.  Times are in units of min_announce_interval.            *)
(***************************************************************************)
EXTENDS Naturals, Sequences, FiniteSets, SequencesExt

CONSTANTS
  Urls,          \* announce URLs
  AnnounceUrl,   \* torrent.announce
  AnnounceList,  \* torrent.announce_list, a sequence of tiers
  Speakable,     \* the URLs whose scheme build_tracker knows
  Mirrors,       \* the sets of trackers that may answer every call
  SwarmPeers,    \* peers a tracker may name
  Intervals,     \* intervals a tracker may ask for
  Multiplier,    \* announce_interval_multiplier, in tenths
  MaxGap,        \* max_announce_interval
  MaxExponent    \* the most failures backoff_delay counts, 6

AnnouncerAssumption ==
  /\ AnnounceUrl \in Urls /\ AnnounceList \in Seq(Seq(Urls))
  /\ Speakable \subseteq Urls /\ Mirrors \subseteq SUBSET Speakable
  /\ Intervals \subseteq Nat \ {0} /\ {Multiplier, MaxGap, MaxExponent} \subseteq Nat

VARIABLES
  health,    \* each tracker's TrackerStatus
  seen,      \* _seen_peers
  calls,     \* where each caller of announce is in the list of trackers
  loop,      \* the announce task, its delay and how its last round ended
  sessions,  \* trackers with an open HTTP session of their own
  alive,     \* the trackers that answer every call, which never changes
  closing    \* aclose: not called, or the trackers it has yet to close

announcerVars == <<health, seen, calls, loop, sessions, alive, closing>>

-----------------------------------------------------------------------------
(* build_tracker_tiers: the announce URL comes first unless a tier has it,  *)
(* what no client speaks is skipped, and so is a tier with nothing left.    *)
Tiers ==
  LET listed == UNION {ToSet(AnnounceList[k]) : k \in DOMAIN AnnounceList}
      all == IF AnnounceUrl \in listed THEN AnnounceList
             ELSE <<<<AnnounceUrl>>>> \o AnnounceList
  IN SelectSeq([k \in DOMAIN all |-> SelectSeq(all[k], LAMBDA u : u \in Speakable)],
               LAMBDA tier : tier # <<>>)

(* all_trackers                                                             *)
AllTrackers == FlattenSeq(Tiers)

Smaller(a, b) == IF a < b THEN a ELSE b
Larger(a, b) == IF a > b THEN a ELSE b

(* next_delay                                                               *)
NextDelay(r) ==
  Smaller(Larger((Larger(r.interval, r.least) * Multiplier) \div 10, 1), MaxGap)

(* Faulty variant: the exponent wraps where it should stay.                 *)
BackoffWraps(failures) == Smaller(2 ^ (failures % MaxExponent), MaxGap)

(* backoff_delay; failures are kept up to the most it counts.               *)
Backoff(failures) == Smaller(2 ^ failures, MaxGap)

Responses ==
  [interval : Intervals, least : {0} \cup Intervals, warning : BOOLEAN, peers : SUBSET SwarmPeers]

Idle == 0
Callers == {"loop", "user"}
LoopOff == [at |-> "off", delay |-> 0, last |-> "none", since |-> FALSE]

AnnouncerInit ==
  /\ health = [u \in ToSet(AllTrackers) |-> [state |-> "unknown", failures |-> 0, peers |-> 0]]
  /\ seen = {} /\ sessions = {} /\ closing = [on |-> FALSE, left |-> <<>>]
  /\ calls = [c \in Callers |-> Idle]
  /\ loop = LoopOff /\ alive \in Mirrors

-----------------------------------------------------------------------------
(* announce.                                                                *)

(* The session of a tracker is made when it is first called.                *)
Asks(c, k) ==
  /\ calls' = [calls EXCEPT ![c] = k]
  /\ sessions' = sessions \cup {AllTrackers[k]}

(* No tracker at all is an error at once.                                   *)
Waits(how, delay) ==
  loop' = [loop EXCEPT !.at = "waiting", !.last = how, !.delay = delay,
                       !.since = (how = "failed")]

RoundBegin ==
  /\ loop.at = "starting"
  /\ IF AllTrackers = <<>>
     THEN Waits("failed", 1) /\ UNCHANGED <<calls, sessions>>
     ELSE Asks("loop", 1) /\ loop' = [loop EXCEPT !.at = "calling"]
  /\ UNCHANGED <<health, seen, closing, alive>>

UserAnnounces ==
  /\ calls["user"] = Idle /\ AllTrackers # <<>>
  /\ Asks("user", 1)
  /\ UNCHANGED <<health, seen, loop, closing, alive>>

(* record_failure                                                           *)
Noted(u) ==
  health' = [health EXCEPT ![u].state = "failed", ![u].failures = Smaller(@ + 1, MaxExponent)]

(* A timeout, a refused connection, a status other than 200, a response too *)
(* long or one that cannot be read: the next tracker is asked, and after    *)
(* the last the round has failed.  The wait is that of the first tracker.   *)
AnswerFails(c) ==
  LET k == calls[c]  u == AllTrackers[k] IN
  /\ k # Idle /\ u \notin alive
  /\ Noted(u)
  /\ IF k < Len(AllTrackers)
     THEN Asks(c, k + 1) /\ UNCHANGED loop
     ELSE /\ calls' = [calls EXCEPT ![c] = Idle]
          /\ IF c = "loop" THEN Waits("failed", Backoff(health'[AllTrackers[1]].failures))
                           ELSE UNCHANGED loop
          /\ UNCHANGED sessions
  /\ UNCHANGED <<seen, closing, alive>>

(* record_success                                                           *)
Succeeded(u, r) ==
  health' = [health EXCEPT ![u] = [state |-> IF r.warning THEN "warning" ELSE "ok",
                                   failures |-> 0, peers |-> Cardinality(r.peers)]]

(* A tracker answers, and the round is over.                                *)
Answers(c) ==
  /\ calls[c] # Idle
  /\ \E r \in Responses :
       /\ Succeeded(AllTrackers[calls[c]], r)
       /\ seen' = seen \cup r.peers
       /\ IF c = "loop" THEN Waits("answered", NextDelay(r))
                        ELSE loop' = [loop EXCEPT !.since = FALSE]
  /\ calls' = [calls EXCEPT ![c] = Idle]
  /\ UNCHANGED <<sessions, closing, alive>>

-----------------------------------------------------------------------------
(* run_periodic, and the engine that starts and stops it.                   *)

WaitEnds ==
  /\ loop.at = "waiting"
  /\ loop' = [loop EXCEPT !.at = "starting"]
  /\ UNCHANGED <<health, seen, calls, sessions, closing, alive>>

StartPeriodic ==
  /\ loop.at = "off" /\ ~closing.on
  /\ loop' = [LoopOff EXCEPT !.at = "starting"]
  /\ UNCHANGED <<health, seen, calls, sessions, closing, alive>>

(* The task is cancelled wherever it is; a call in it is given up.          *)
StopPeriodic ==
  /\ loop.at # "off"
  /\ loop' = LoopOff
  /\ calls' = [calls EXCEPT !["loop"] = Idle]
  /\ UNCHANGED <<health, seen, sessions, closing, alive>>

AnnouncerClose ==
  /\ ~closing.on /\ loop.at = "off"
  /\ closing' = [on |-> TRUE, left |-> AllTrackers]
  /\ UNCHANGED <<health, seen, calls, loop, sessions, alive>>

TrackerClosed ==
  /\ closing.left # <<>>
  /\ sessions' = sessions \ {Head(closing.left)}
  /\ closing' = [closing EXCEPT !.left = Tail(@)]
  /\ UNCHANGED <<health, seen, calls, loop, alive>>

-----------------------------------------------------------------------------
LoopStep == RoundBegin \/ AnswerFails("loop") \/ Answers("loop") \/ WaitEnds
UserStep == UserAnnounces \/ AnswerFails("user") \/ Answers("user")

AnnouncerNext ==
  LoopStep \/ UserStep \/ StartPeriodic \/ StopPeriodic \/ AnnouncerClose \/ TrackerClosed

(* A call to a tracker ends by its timeout at the latest, and the wait by   *)
(* its delay; the user owes nothing.                                        *)
AnnouncerFairness == WF_announcerVars(LoopStep)

AnnouncerSpec == AnnouncerInit /\ [][AnnouncerNext]_announcerVars /\ AnnouncerFairness

-----------------------------------------------------------------------------
(* Properties.                                                              *)

AnnouncerTypeOK ==
  /\ \A u \in ToSet(AllTrackers) :
       health[u] \in [state : {"unknown", "ok", "warning", "failed"}, failures : 0 .. MaxExponent,
                      peers : 0 .. Cardinality(SwarmPeers)]
  /\ seen \subseteq SwarmPeers /\ sessions \subseteq ToSet(AllTrackers)
  /\ calls \in [Callers -> 0 .. Len(AllTrackers)]
  /\ loop \in [at : {"off", "starting", "calling", "waiting"}, delay : 0 .. MaxGap,
               last : {"none", "failed", "answered"}, since : BOOLEAN]
  /\ calls["loop"] # Idle <=> loop.at = "calling"

(* While nothing answers, each wait is at least as long as the one before,  *)
(* whoever else announces meanwhile and whichever trackers fail.            *)
SlowsDown ==
  loop.at = "calling" /\ loop'.at = "waiting" /\ loop.since /\ loop'.last = "failed"
    => loop'.delay >= loop.delay
RetriesSlowDown == [][SlowsDown]_announcerVars

(* A tracker that answers is reached however many before it do not: the loop *)
(* has its answer again and again, or is stopped.                           *)
WorkingTrackerIsReached ==
  [](alive = {}) \/ []<>(loop.at = "off" \/ (loop.at = "waiting" /\ loop.last = "answered"))

(* What base.py says of aclose, that it releases the transport: after it no *)
(* tracker has a session.  A call under way may open one behind it.         *)
ClosedHasNoSession ==
  closing.on /\ closing.left = <<>> /\ calls = [c \in Callers |-> Idle] => sessions = {}
=============================================================================
