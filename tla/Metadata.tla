------------------------------ MODULE Metadata ------------------------------
(***************************************************************************)
(* fetch_metadata (peer/metadata_exchange.py): the info dictionary of a     *)
(* magnet link, fetched in chunks from one peer over a PeerStream           *)
(* (peer/protocol.py).  A frame is read in two steps, its header and its    *)
(* body; the deadline of the window may pass between them.  What a chunk    *)
(* holds is right or wrong, which only the hash of the whole tells.         *)
(***************************************************************************)
EXTENDS Integers, Sequences, FiniteSets

CONSTANTS
  Chunks,    \* chunks of the metadata
  Pipeline,  \* REQUEST_PIPELINE
  Waits,   \* bound: windows in which nothing comes
  Backlog,   \* bound: frames on their way at once
  SlowPeers  \* whether a window may end between a header and its body

MetadataAssumption ==
  /\ Chunks \in Nat \ {0} /\ Pipeline \in Nat \ {0} /\ Waits \in Nat
  /\ Backlog \in Nat \ {0} /\ SlowPeers \in BOOLEAN

Pieces == 0 .. Chunks - 1
Kinds == {"data", "wrong", "reject", "request"}
NoFrame == [kind |-> "none", piece |-> 0]
Frames == [kind : Kinds, piece : Pieces]

VARIABLES
  stage,     \* where fetch_metadata waits
  received,  \* chunks in received
  wrong,     \* those of them that are not the torrent's
  requested, \* chunks in requested
  lapsed,    \* METADATA_RETRY_SECONDS have passed since window_sent_at
  expired,   \* the deadline of the whole exchange has passed
  asked,     \* requests the peer has not dealt with
  incoming,  \* frames on their way to us
  half,      \* the frame whose header has been read
  skewed,    \* the stream is read from inside a frame
  quiet,     \* windows in which nothing came
  why        \* why the fetch failed

askVars == <<received, wrong, requested, lapsed>>
linkVars == <<asked, incoming, half, skewed>>
metaVars == <<stage, askVars, expired, linkVars, quiet, why>>

Missing == Pieces \ received
InFlight == requested \ received
Opening == {"dial", "handshake", "extension"}
Ended == {"fetched", "failed"}

(* The n smallest members of S, as a slice of a sorted list.                *)
First(S, n) == {i \in S : Cardinality({j \in S : j < i}) < n}
SortedPieces(S) ==
  CHOOSE s \in [1 .. Cardinality(S) -> S] : \A i, j \in DOMAIN s : i < j => s[i] < s[j]

MetaInit ==
  /\ stage = "dial"
  /\ received = {} /\ wrong = {} /\ requested = {} /\ lapsed = FALSE /\ expired = FALSE
  /\ asked = <<>> /\ incoming = <<>> /\ half = NoFrame /\ skewed = FALSE
  /\ quiet = 0 /\ why = "none"

Fail(cause) == stage' = "failed" /\ why' = cause

-----------------------------------------------------------------------------
(* Up to the first request.                                                 *)

(* The socket, the handshake with the extension bit, the extension          *)
(* handshake with a size and an id for ut_metadata.  Each may fail, be      *)
(* refused or be late; the size may be past what is allowed.                *)
Opens ==
  /\ stage \in Opening
  /\ \/ /\ stage' = CASE stage = "dial" -> "handshake"
                      [] stage = "handshake" -> "extension"
                      [] OTHER -> "window"
        /\ UNCHANGED why
     \/ Fail("unable")
  /\ UNCHANGED <<askVars, expired, linkVars, quiet>>

-----------------------------------------------------------------------------
(* _download.                                                               *)

(* What the next window asks for: new chunks while there is room, or, when  *)
(* there is nothing new to ask and the last window is old, the first again. *)
ToSend ==
  LET room == Pipeline - Cardinality(InFlight)
      fresh == First(Missing \ requested, IF room > 0 THEN room ELSE 0)
  IN IF fresh = {} /\ lapsed THEN First(Missing, Pipeline) ELSE fresh

Window ==
  /\ stage = "window" /\ Missing # {} /\ ~expired
  /\ asked' = asked \o SortedPieces(ToSend)
  /\ requested' = requested \cup ToSend
  /\ lapsed' = (lapsed /\ ToSend = {})
  /\ stage' = "reading"
  /\ UNCHANGED <<received, wrong, expired, incoming, half, skewed, quiet, why>>

(* Faulty variant: the deadline spares what is on its way.                  *)
ExpiresEmpty ==
  /\ stage = "window" /\ Missing # {} /\ expired
  /\ IF InFlight = {} THEN Fail("deadline") ELSE stage' = "reading" /\ UNCHANGED why
  /\ UNCHANGED <<askVars, expired, linkVars, quiet>>

(* The deadline is looked at between windows.                               *)
Expires ==
  /\ stage = "window" /\ Missing # {} /\ expired
  /\ Fail("deadline")
  /\ UNCHANGED <<askVars, expired, linkVars, quiet>>

(* The whole is hashed.                                                     *)
Assembled ==
  /\ stage = "window" /\ Missing = {}
  /\ IF wrong = {} THEN stage' = "fetched" /\ UNCHANGED why ELSE Fail("hash")
  /\ UNCHANGED <<askVars, expired, linkVars, quiet>>

(* What a message leads to: another peer's request is rejected and the read *)
(* goes on; a chunk that fits is kept, in place of an earlier one.  One of  *)
(* another size or number ends the fetch as a rejection does.               *)
Take(frame) ==
  CASE frame.kind = "request" -> UNCHANGED <<stage, received, wrong, why>>
    [] frame.kind = "reject" -> Fail("rejected") /\ UNCHANGED <<received, wrong>>
    [] OTHER ->
         /\ received' = received \cup {frame.piece}
         /\ wrong' = IF frame.kind = "wrong" THEN wrong \cup {frame.piece} ELSE wrong \ {frame.piece}
         /\ stage' = "window" /\ UNCHANGED why

(* The length is read ...                                                   *)
ReadHeader ==
  /\ stage = "reading" /\ half = NoFrame /\ incoming # <<>> /\ ~skewed
  /\ half' = Head(incoming)
  /\ UNCHANGED <<stage, askVars, expired, asked, incoming, skewed, quiet, why>>

(* ... and then the body.                                                   *)
ReadBody ==
  /\ stage = "reading" /\ half # NoFrame
  /\ Take(half)
  /\ incoming' = Tail(incoming) /\ half' = NoFrame
  /\ UNCHANGED <<requested, lapsed, expired, asked, skewed, quiet>>

(* Nothing complete came in the window.  A header that was read is lost.    *)
Lapses ==
  /\ stage = "reading" /\ (quiet < Waits \/ expired)
  /\ IF half = NoFrame THEN UNCHANGED skewed ELSE SlowPeers /\ skewed' = TRUE
  /\ half' = NoFrame
  /\ stage' = "window" /\ lapsed' = TRUE
  /\ quiet' = IF expired THEN quiet ELSE quiet + 1
  /\ UNCHANGED <<received, wrong, requested, expired, asked, incoming, why>>

(* Bytes of a body are taken for a length or for a message.                 *)
ReadInside ==
  /\ stage = "reading" /\ skewed
  /\ Fail("skewed")
  /\ UNCHANGED <<askVars, expired, linkVars, quiet>>

HangsUp ==
  /\ stage = "reading"
  /\ Fail("gone")
  /\ UNCHANGED <<askVars, expired, linkVars, quiet>>

DeadlinePasses ==
  /\ stage \in {"window", "reading"} /\ ~expired
  /\ expired' = TRUE
  /\ UNCHANGED <<stage, askVars, linkVars, quiet, why>>

-----------------------------------------------------------------------------
(* The peer: MetadataServer.answer, or anything else, asked for or not.     *)

PeerDrops ==
  /\ asked # <<>> /\ stage \notin Ended
  /\ asked' = Tail(asked)
  /\ UNCHANGED <<stage, askVars, expired, incoming, half, skewed, quiet, why>>

PeerSends ==
  /\ asked # <<>> /\ stage \notin Ended /\ Len(incoming) < Backlog
  /\ \E f \in Frames : incoming' = Append(incoming, f)
  /\ asked' = Tail(asked)
  /\ UNCHANGED <<stage, askVars, expired, half, skewed, quiet, why>>

-----------------------------------------------------------------------------
FetchGoes == Opens \/ Window \/ Expires \/ Assembled \/ ReadHeader \/ ReadBody \/ ReadInside

MetaNext == FetchGoes \/ Lapses \/ HangsUp \/ DeadlinePasses \/ PeerDrops \/ PeerSends

MetaSpec == MetaInit /\ [][MetaNext]_metaVars

(* The task runs when it can, and time passes: the deadline comes, and the  *)
(* window that it ends.                                                     *)
MetaFairness ==
  /\ WF_metaVars(FetchGoes) /\ WF_metaVars(DeadlinePasses)
  /\ WF_metaVars(Lapses /\ expired)

MetaFairSpec == MetaSpec /\ MetaFairness

-----------------------------------------------------------------------------
(* Properties.                                                              *)

MetaTypeOK ==
  /\ stage \in Opening \cup {"window", "reading"} \cup Ended
  /\ received \subseteq Pieces /\ wrong \subseteq received /\ requested \subseteq Pieces
  /\ {lapsed, expired, skewed} \subseteq BOOLEAN
  /\ asked \in Seq(Pieces) /\ incoming \in Seq(Frames) /\ half \in Frames \cup {NoFrame}
  /\ quiet \in 0 .. Waits
  /\ why \in {"none", "unable", "deadline", "hash", "rejected", "skewed", "gone"}

(* Never more chunks asked for and missing than the pipeline allows, the    *)
(* repeats of a stale window included.                                      *)
MetadataPipeline == Cardinality(InFlight) <= Pipeline

(* The fetch never waits for a chunk without having asked for one.          *)
WaitsForSomething == stage = "reading" => InFlight # {}

(* What metadata_exchange.py:99-102 says of a window in which a chunk does  *)
(* not arrive: "a missing chunk costs five seconds rather than the whole    *)
(* fetch."                                                                  *)
SlownessCostsAWindow == why # "skewed"

(* Every fetch ends, whatever the peer does or leaves undone.               *)
FetchEnds == <>(stage \in Ended)
-----------------------------------------------------------------------------
(***************************************************************************)
(* MagnetResolver.resolve (discovery/magnet_resolver.py): peers from the    *)
(* link, from its trackers and from the DHT, asked at once and waited for   *)
(* one after the other; then fetch_metadata_from_any                        *)
(* (peer/metadata_exchange.py), a race whose losers are cancelled.  What a  *)
(* single fetch does is above; here it succeeds or fails.                   *)
(***************************************************************************)
CONSTANTS
  Peers,      \* addresses a source may know
  Limit,      \* MAX_PEERS, and the attempts of the race: one limit here
  Cancels,    \* whether the caller may cancel the resolution
  BadAnswers  \* whether a DHT node may answer with a body that does not decode

MagnetAssumption ==
  IsFiniteSet(Peers) /\ Limit \in Nat \ {0} /\ {Cancels, BadAnswers} \subseteq BOOLEAN

Asked == {"tracker", "dht"}

VARIABLES
  phase,      \* where resolve waits
  task,       \* the task of each source that is asked
  announces,  \* to the trackers: "none", "asked", "cancelled" or "over"
  answer,     \* what each source's task has returned
  taken,      \* sources whose answer is among the results
  linked,     \* peers of the link itself
  candidates, \* what _dedupe keeps
  fetch,      \* the task of each peer in the race
  private     \* the metadata turned out to be a private torrent's

magnetVars == <<phase, task, announces, answer, taken, linked, candidates, fetch, private>>
peerVars == <<answer, taken, linked, candidates>>

Over == {"resolved", "failed", "cancelled"}
Running == {s \in Asked : task[s] = "running"}
Racing == {p \in Peers : fetch[p] = "running"}

MagnetInit ==
  /\ phase = "new"
  /\ task = [s \in Asked |-> "none"] /\ announces = "none" /\ answer = [s \in Asked |-> {}] /\ taken = {}
  /\ linked \in SUBSET Peers
  /\ candidates = {} /\ fetch = [p \in Peers |-> "none"] /\ private = FALSE

-----------------------------------------------------------------------------
(* _find_peers.                                                             *)

(* A link may carry no tracker, and the DHT may be off.                     *)
Resolve ==
  /\ phase = "new"
  /\ \E on \in SUBSET Asked :
       /\ task' = [s \in Asked |-> IF s \in on THEN "running" ELSE "none"]
       /\ announces' = IF "tracker" \in on THEN "asked" ELSE "none"
       /\ phase' = IF "tracker" \in on THEN "tracker" ELSE IF "dht" \in on THEN "dht" ELSE "found"
  /\ UNCHANGED <<peerVars, fetch, private>>

(* A source's own task ends: it has peers, perhaps none, or it has failed   *)
(* in a way that counts as having none.  That of the trackers does so when  *)
(* each was announced to, or when its time is over; then it cancels the     *)
(* announces left and does not wait for them.                               *)
Answers(s) ==
  /\ task[s] = "running"
  /\ task' = [task EXCEPT ![s] = "done"]
  /\ announces' = IF s = "tracker" /\ announces = "asked" THEN "cancelled" ELSE announces
  /\ \E found \in SUBSET Peers : answer' = [answer EXCEPT ![s] = found]
  /\ UNCHANGED <<phase, taken, linked, candidates, fetch, private>>

AnnouncesEnd ==
  /\ announces \in {"asked", "cancelled"} /\ announces' = "over"
  /\ UNCHANGED <<phase, task, peerVars, fetch, private>>

(* A lookup reads the body of every answer, and the error of one that does  *)
(* not decode is a DhtError, which neither _from_dht nor _find_peers        *)
(* expects.                                                                 *)
Raises ==
  /\ BadAnswers /\ task["dht"] = "running"
  /\ task' = [task EXCEPT !["dht"] = "raised"]
  /\ UNCHANGED <<phase, announces, peerVars, fetch, private>>

After(s) == IF s = "tracker" /\ task["dht"] # "none" THEN "dht" ELSE "found"

(* wait_for on the lookup gives up, and its task is cancelled and awaited.  *)
(* The task of the trackers gives up two seconds before its wait does.      *)
LookupTimesOut ==
  /\ phase = "dht" /\ task["dht"] = "running"
  /\ task' = [task EXCEPT !["dht"] = "cut"]
  /\ phase' = "found"
  /\ UNCHANGED <<announces, peerVars, fetch, private>>

(* The wait is over: the answer is kept, or the error escapes.              *)
Heard(s) ==
  /\ phase = s
  /\ \/ /\ task[s] = "done"
        /\ taken' = taken \cup {s} /\ phase' = After(s)
     \/ /\ task[s] = "raised"
        /\ phase' = "failed" /\ UNCHANGED taken
  /\ UNCHANGED <<task, announces, answer, linked, candidates, fetch, private>>

-----------------------------------------------------------------------------
(* The race.                                                                *)

Told(s) == IF s \in taken THEN answer[s] ELSE {}
Known == linked \cup Told("tracker") \cup Told("dht")

(* _dedupe keeps the first Limit in the order of the sources.               *)
Race ==
  /\ phase = "found"
  /\ IF Known = {}
     THEN phase' = "failed" /\ UNCHANGED <<candidates, fetch>>
     ELSE \E C \in SUBSET Known :
            /\ Cardinality(C) = Limit \/ (C = Known /\ Cardinality(Known) < Limit)
            /\ \A front \in {linked, linked \cup Told("tracker")} : C \subseteq front \/ front \subseteq C
            /\ candidates' = C
            /\ fetch' = [p \in Peers |-> IF p \in C THEN "running" ELSE "none"]
            /\ phase' = "racing"
  /\ UNCHANGED <<task, announces, answer, taken, linked, private>>

Fetched(p) ==
  /\ fetch[p] = "running"
  /\ \E how \in {"good", "bad"} : fetch' = [fetch EXCEPT ![p] = how]
  /\ UNCHANGED <<phase, task, announces, peerVars, private>>

(* Faulty variant: the losers go on.                                        *)
WonAlone ==
  /\ phase = "racing" /\ \E p \in Peers : fetch[p] = "good"
  /\ phase' = "resolved"
  /\ private' \in BOOLEAN
  /\ candidates' = IF private' THEN candidates \cap (linked \cup Told("tracker")) ELSE candidates
  /\ UNCHANGED <<task, announces, answer, taken, linked, fetch>>

(* The first that succeeds wins, and the others are cancelled.  What only   *)
(* the DHT knew is dropped when the torrent is private (the first source a  *)
(* peer was seen in counts).                                                *)
Won ==
  /\ phase = "racing" /\ \E p \in Peers : fetch[p] = "good"
  /\ phase' = "resolved"
  /\ fetch' = [p \in Peers |-> IF fetch[p] = "running" THEN "cut" ELSE fetch[p]]
  /\ private' \in BOOLEAN
  /\ candidates' = IF private'
                   THEN candidates \cap (linked \cup Told("tracker"))
                   ELSE candidates
  /\ UNCHANGED <<task, announces, answer, taken, linked>>

RaceLost ==
  /\ phase = "racing" /\ \A p \in candidates : fetch[p] = "bad"
  /\ phase' = "failed"
  /\ UNCHANGED <<task, announces, peerVars, fetch, private>>

(* The caller is cancelled: the wait on a source is shielded, and waiting   *)
(* for the race does not hand the cancel on either.                         *)
ResolveCancelled ==
  /\ Cancels /\ phase \notin Over \cup {"new"}
  /\ phase' = "cancelled"
  /\ UNCHANGED <<task, announces, peerVars, fetch, private>>

-----------------------------------------------------------------------------
ResolveGoes == Race \/ Won \/ RaceLost \/ \E s \in Asked : Heard(s)

MagnetNext ==
  \/ Resolve \/ ResolveGoes \/ AnnouncesEnd \/ Raises \/ LookupTimesOut \/ ResolveCancelled
  \/ \E s \in Asked : Answers(s)
  \/ \E p \in Peers : Fetched(p)

MagnetSpec == MagnetInit /\ [][MagnetNext]_magnetVars

(* Timeouts come, that of the trackers' own task among them, and every      *)
(* fetch has a deadline of its own.                                         *)
MagnetFairness ==
  /\ WF_magnetVars(ResolveGoes)
  /\ WF_magnetVars(Answers("tracker")) /\ WF_magnetVars(LookupTimesOut)
  /\ \A p \in Peers : WF_magnetVars(Fetched(p))

MagnetFairSpec == MagnetSpec /\ MagnetFairness

-----------------------------------------------------------------------------
(* Properties.                                                              *)

MagnetTypeOK ==
  /\ phase \in Asked \cup {"new", "found", "racing"} \cup Over
  /\ task \in [Asked -> {"none", "running", "done", "raised", "cut"}]
  /\ announces \in {"none", "asked", "cancelled", "over"}
  /\ answer \in [Asked -> SUBSET Peers] /\ taken \subseteq Asked
  /\ linked \subseteq Peers /\ candidates \subseteq Peers
  /\ fetch \in [Peers -> {"none", "running", "good", "bad", "cut"}]
  /\ private \in BOOLEAN

(* What every source that answered in its time knows is tried for the       *)
(* metadata, however the other source did, up to the limit.                 *)
AnswersAreTried ==
  phase = "racing" /\ Cardinality(candidates) < Limit =>
    candidates = linked \cup UNION {answer[s] : s \in {t \in Asked : task[t] = "done"}}

(* A resolution that is over leaves no task behind, of a source, of a fetch *)
(* or of an announce: but announces it has cancelled may have yet to end.   *)
NothingLeftRunning == phase \in Over => Running = {} /\ Racing = {} /\ announces # "asked"

(* What magnet_resolver.py:238 says of the sources, "Ask every source at    *)
(* once, and keep whatever answers": no source's error ends it all while    *)
(* another has peers.                                                       *)
WhateverAnswersIsKept ==
  phase = "failed" => candidates # {} \/ Known = {}

(* No resolution hangs: it resolves, fails or is cancelled.                 *)
ResolveEnds == phase # "new" ~> phase \in Over
=============================================================================
