------------------------------ MODULE PeerWire ------------------------------
(***************************************************************************)
(* One conversation with a peer, PeerConnection (peer/connection.py) over a *)
(* PeerStream (peer/protocol.py), from the dial or the accepted socket to   *)
(* the reaper of the pool (discovery/peer_manager.py): the read loop, the   *)
(* keep-alive task, and any number of callers of aclose.  A message is what *)
(* becomes of it: handled, a ProtocolError, or the IndexError that the look *)
(* at the bitfield in _handle raises for a have beyond the last piece.      *)
(***************************************************************************)
EXTENDS Naturals, FiniteSets

CONSTANTS
  Closers,    \* callers of PeerConnection.aclose besides the reaper
  Messages,   \* bound: messages read on one connection
  BeyondLast  \* whether a have may name a piece the torrent does not have

WireAssumption == IsFiniteSet(Closers) /\ Messages \in Nat /\ BeyondLast \in BOOLEAN

VARIABLES
  life,       \* the dial, then the task of run
  outcome,    \* how that task ended
  cancelled,  \* somebody has cancelled the task of run
  sock,       \* the stream: "none", "open" or "closing"
  sess,       \* PeerSession.state
  bitfield,   \* PeerSession._bitfield_received
  reason,     \* PeerConnection.disconnect_reason; "" is None
  closedEv,   \* PeerConnection._closed
  keep,       \* the keep-alive task
  keepHeld,   \* PeerConnection._keepalive_task is not None
  keepCut,    \* the keep-alive task has been cancelled
  closers,    \* each caller of aclose
  reaper,     \* PeerManager._reap for this connection
  announced,  \* events emitted: [connected, failed, disconnected]
  reads       \* messages read

runVars == <<life, outcome, cancelled>>
keepVars == <<keep, keepHeld, keepCut>>
endVars == <<sock, sess, reason, closedEv>>
wireVars == <<runVars, endVars, bitfield, keepVars, closers, reaper, announced, reads>>

InDial == {"opening", "greeting", "offering"}
Announce(event) == announced' = [announced EXCEPT ![event] = @ + 1]

WireInit ==
  /\ life = "new" /\ outcome = "none" /\ cancelled = FALSE
  /\ sock = "none" /\ sess = "connecting" /\ reason = "" /\ closedEv = FALSE
  /\ bitfield = FALSE /\ reads = 0
  /\ keep = "none" /\ keepHeld = FALSE /\ keepCut = FALSE
  /\ closers = [c \in Closers |-> "idle"] /\ reaper = "none"
  /\ announced = [connected |-> 0, failed |-> 0, disconnected |-> 0]

-----------------------------------------------------------------------------
(* Before the read loop.                                                    *)

(* connect opens a socket; attach is handed one.                            *)
DialBegins ==
  /\ life = "new"
  /\ \/ life' = "opening" /\ UNCHANGED sock
     \/ life' = "greeting" /\ sock' = "open"
  /\ UNCHANGED <<outcome, cancelled, sess, reason, closedEv, bitfield, keepVars, closers, reaper,
                 announced, reads>>

Opened ==
  /\ life = "opening"
  /\ life' = "greeting" /\ sock' = "open"
  /\ UNCHANGED <<outcome, cancelled, sess, reason, closedEv, bitfield, keepVars, closers, reaper,
                 announced, reads>>

(* The dial failed, or the handshake was refused or did not come in time.   *)
DialFailed ==
  /\ life \in {"opening", "greeting"}
  /\ life' = "failed"
  /\ sock' = IF sock = "open" THEN "closing" ELSE sock
  /\ Announce("failed")
  /\ UNCHANGED <<outcome, cancelled, sess, reason, closedEv, bitfield, keepVars, closers, reaper,
                 reads>>

(* The pool stops and cancels the dial: no handler closes the socket, which *)
(* goes with the object.                                                    *)
DialCancelled ==
  /\ life \in InDial
  /\ life' = "dropped"
  /\ UNCHANGED <<outcome, cancelled, endVars, bitfield, keepVars, closers, reaper, announced, reads>>

(* The handshake is done; with the extension bit set, ours is written, and  *)
(* the outcome of that write does not matter.                               *)
Greeted ==
  /\ life = "greeting"
  /\ sess' = "connected"
  /\ \/ life' = "offering" /\ UNCHANGED announced
     \/ life' = "scheduled" /\ Announce("connected")
  /\ UNCHANGED <<outcome, cancelled, sock, reason, closedEv, bitfield, keepVars, closers, reaper,
                 reads>>

(* connect returns, and the pool registers the object and starts its task.  *)
OfferSent ==
  /\ life = "offering"
  /\ life' = "scheduled" /\ Announce("connected")
  /\ UNCHANGED <<outcome, cancelled, endVars, bitfield, keepVars, closers, reaper, reads>>

-----------------------------------------------------------------------------
(* The task of run.                                                         *)

RunBegins ==
  /\ life = "scheduled" /\ ~cancelled
  /\ life' = "reading"
  /\ keep' = "sleeping" /\ keepHeld' = TRUE
  /\ UNCHANGED <<outcome, cancelled, endVars, bitfield, keepCut, closers, reaper, announced, reads>>

(* A task cancelled before its first step never runs: there is no _finish.  *)
RunNeverBegins ==
  /\ life = "scheduled" /\ cancelled
  /\ life' = "over" /\ outcome' = "cancelled" /\ reaper' = "due"
  /\ UNCHANGED <<cancelled, endVars, bitfield, keepVars, closers, announced, reads>>

Reading == life = "reading" /\ ~cancelled
Reads == Reading /\ reads < Messages /\ reads' = reads + 1

(* A message that changes nothing here, or the first bitfield.              *)
Handled ==
  /\ Reads
  /\ bitfield' \in {bitfield, TRUE}
  /\ UNCHANGED <<runVars, endVars, keepVars, closers, reaper, announced>>

(* The loop ends by itself, and its _finish takes the keep-alive task.      *)
EndsWith(how) ==
  /\ life' = "finishing" /\ outcome' = how
  /\ keepHeld' = FALSE /\ keepCut' = (keepCut \/ keepHeld)
  /\ UNCHANGED <<sock, sess, closedEv, bitfield, keep, closers, reaper>>

(* A frame or message that breaks the protocol, a second bitfield among     *)
(* them; only what PeerSession.apply refuses is published twice over.       *)
Refused ==
  /\ Reads
  /\ reason' = "broken" /\ Announce("failed")
  /\ EndsWith("returned")
  /\ UNCHANGED cancelled

(* _handle asks the bitfield about the piece before apply has validated it. *)
HaveBeyond ==
  /\ BeyondLast /\ Reads
  /\ EndsWith("raised")
  /\ UNCHANGED <<cancelled, reason, announced>>

(* The peer hung up, our end is closing, or nothing came for too long.      *)
Hangup ==
  /\ Reading
  /\ \/ reason' = "idle"
     \/ reason' = IF reason = "" THEN "peer" ELSE reason
  /\ EndsWith("returned")
  /\ UNCHANGED <<cancelled, announced, reads>>

(* A cancel arrives at the await of the loop ...                            *)
RunCancelled ==
  /\ life = "reading" /\ cancelled
  /\ reason' = IF reason = "" THEN "local" ELSE reason
  /\ cancelled' = FALSE
  /\ EndsWith("cancelled")
  /\ UNCHANGED <<announced, reads>>

(* ... or at one of _finish, which swallows it: cancelling a task that      *)
(* waits for another one cancels that one.                                  *)
KeepEnded == keep \in {"none", "ended"}

FinishTasks ==
  /\ life = "finishing" /\ KeepEnded
  /\ life' = "hanging" /\ cancelled' = FALSE
  /\ sock' = "closing"
  /\ UNCHANGED <<outcome, sess, reason, closedEv, bitfield, keepVars, closers, reaper, announced, reads>>

FinishSocket ==
  /\ life = "hanging"
  /\ life' = "over" /\ cancelled' = FALSE
  /\ sess' = "closed" /\ closedEv' = TRUE
  /\ Announce("disconnected")
  /\ reaper' = "due"
  /\ UNCHANGED <<outcome, sock, reason, bitfield, keepVars, closers, reads>>

-----------------------------------------------------------------------------
(* The keep-alive task.                                                     *)

KeepSends ==
  /\ keep = "sleeping" /\ ~keepCut
  /\ keep' = IF sess = "closed" THEN "ended" ELSE "sending"
  /\ UNCHANGED <<runVars, endVars, bitfield, keepHeld, keepCut, closers, reaper, announced, reads>>

(* Sent, or the write failed: then the read loop reports it.                *)
KeepSent ==
  /\ keep = "sending" /\ ~keepCut
  /\ keep' \in IF sock = "closing" THEN {"ended"} ELSE {"sleeping", "ended"}
  /\ UNCHANGED <<runVars, endVars, bitfield, keepHeld, keepCut, closers, reaper, announced, reads>>

KeepCancelled ==
  /\ keepCut /\ keep \in {"sleeping", "sending"}
  /\ keep' = "ended"
  /\ UNCHANGED <<runVars, endVars, bitfield, keepHeld, keepCut, closers, reaper, announced, reads>>

-----------------------------------------------------------------------------
(* aclose.  Its callers reach the object once the pool has registered it.   *)

Known == life \in {"scheduled", "reading", "finishing", "hanging", "over"}

CloseCall(c) ==
  /\ Known /\ closers[c] = "idle"
  /\ reason' = IF reason = "" THEN "local" ELSE reason
  /\ cancelled' = (life # "over")
  /\ keepHeld' = FALSE /\ keepCut' = (keepCut \/ keepHeld)
  /\ closers' = [closers EXCEPT ![c] = IF keepHeld THEN "both" ELSE "run"]
  /\ UNCHANGED <<life, outcome, sock, sess, closedEv, bitfield, keep, reaper, announced, reads>>

(* Faulty variant: aclose does not wait for the tasks it cancels.           *)
CloseEndsAtOnce(c) ==
  /\ closers[c] \in {"both", "run"}
  /\ closers' = [closers EXCEPT ![c] = "done"]
  /\ sock' = "closing" /\ sess' = "closed" /\ closedEv' = TRUE
  /\ UNCHANGED <<reason, runVars, bitfield, keepVars, reaper, announced, reads>>

(* Both tasks have ended; what run raised is raised again.                  *)
CloseEnds(c) ==
  /\ closers[c] \in {"both", "run"} /\ life = "over" /\ (closers[c] = "both" => KeepEnded)
  /\ IF outcome = "raised"
     THEN /\ closers' = [closers EXCEPT ![c] = "raised"]
          /\ UNCHANGED endVars
     ELSE /\ closers' = [closers EXCEPT ![c] = "done"]
          /\ sock' = "closing" /\ sess' = "closed" /\ closedEv' = TRUE
          /\ UNCHANGED reason
  /\ UNCHANGED <<runVars, bitfield, keepVars, reaper, announced, reads>>

(* _reap: the slot is free; then aclose, then the engines hear of it.       *)
ReapEnds ==
  /\ reaper = "due"
  /\ IF outcome = "raised"
     THEN reaper' = "raised" /\ UNCHANGED endVars
     ELSE /\ reaper' = "reported"
          /\ sock' = "closing" /\ sess' = "closed" /\ closedEv' = TRUE
          /\ reason' = IF reason = "" THEN "unknown" ELSE reason
  /\ UNCHANGED <<runVars, bitfield, keepVars, closers, announced, reads>>

-----------------------------------------------------------------------------
RunGoes == RunBegins \/ RunNeverBegins \/ RunCancelled \/ FinishTasks \/ FinishSocket
KeepGoes == KeepSends \/ KeepSent \/ KeepCancelled

WireNext ==
  \/ DialBegins \/ Opened \/ DialFailed \/ DialCancelled \/ Greeted \/ OfferSent
  \/ RunGoes \/ Handled \/ Refused \/ HaveBeyond \/ Hangup
  \/ KeepGoes \/ ReapEnds
  \/ \E c \in Closers : CloseCall(c) \/ CloseEnds(c)

WireSpec == WireInit /\ [][WireNext]_wireVars

(* The loop runs what is ready: tasks that were cancelled or whose wait is  *)
(* over.  Nothing is assumed of the peer.                                   *)
WireFairness ==
  /\ WF_wireVars(RunGoes) /\ WF_wireVars(KeepCancelled) /\ WF_wireVars(ReapEnds)
  /\ \A c \in Closers : WF_wireVars(CloseEnds(c))

WireFairSpec == WireSpec /\ WireFairness

-----------------------------------------------------------------------------
(* Properties.                                                              *)

WireTypeOK ==
  /\ life \in InDial \cup {"new", "failed", "dropped", "scheduled", "reading", "finishing",
                             "hanging", "over"}
  /\ outcome \in {"none", "returned", "raised", "cancelled"}
  /\ sock \in {"none", "open", "closing"} /\ sess \in {"connecting", "connected", "closed"}
  /\ reason \in {"", "local", "peer", "idle", "broken", "unknown"}
  /\ cancelled \in BOOLEAN /\ closedEv \in BOOLEAN /\ bitfield \in BOOLEAN
  /\ keepHeld \in BOOLEAN /\ keepCut \in BOOLEAN
  /\ keep \in {"none", "sleeping", "sending", "ended"}
  /\ closers \in [Closers -> {"idle", "both", "run", "done", "raised"}]
  /\ reaper \in {"none", "due", "reported", "raised"}
  /\ announced \in [{"connected", "failed", "disconnected"} -> 0 .. 1]
  /\ reads \in 0 .. Messages

(* Whoever returns from aclose leaves nothing of the connection behind, no  *)
(* matter who else was closing it and how its read loop ended.              *)
ClosedIsOver ==
  (\E c \in Closers : closers[c] \in {"done", "raised"}) \/ reaper \in {"reported", "raised"} =>
    sock = "closing" /\ sess = "closed" /\ closedEv /\ life = "over" /\ KeepEnded

(* A read loop that has run announces its end once, after the connection    *)
(* was announced, and an announced end is the end.                          *)
DisconnectToldOnce ==
  /\ announced.disconnected <= announced.connected
  /\ announced.disconnected = 1 => life = "over"
  /\ life = "over" /\ keep # "none" => announced.disconnected = 1

(* What peer_manager.py:149 says of on_disconnect, "Called with             *)
(* (connection, reason) when a connection ends": no reaper gives up.        *)
EndIsReported == reaper # "raised"

(* Every aclose returns: no task waits for one that waits for it.           *)
CloseReturns == \A c \in Closers : closers[c] = "run" \/ closers[c] = "both" ~> closers[c] \in {"done", "raised"}

(* Every connection that was registered and cancelled, or whose peer left,  *)
(* is reaped.                                                               *)
EndsAreReaped == life = "finishing" ~> reaper \in {"reported", "raised"}
=============================================================================
