----------------------------- MODULE UdpTracker -----------------------------
(***************************************************************************)
(* One UDP tracker client (tracker/udp_tracker.py): a connect buys a        *)
(* connection id, which is then spent on announces and scrapes.  Replies    *)
(* come late, twice, for an earlier question, or never; every question is   *)
(* retried; the calls take turns under a lock.  The network and the tracker *)
(* are any reply to any packet that was sent from the socket that is open.  *)
(***************************************************************************)
EXTENDS Integers, Sequences, FiniteSets, SequencesExt

CONSTANTS
  Callers,     \* tasks that announce or scrape
  MaxRetries,  \* DEFAULT_MAX_RETRIES
  MaxCalls,    \* bound on the calls made
  Batches,     \* batches of hashes a scrape needs
  ClosesAlone  \* whether aclose and a call never overlap

UdpAssumption ==
  /\ IsFiniteSet(Callers) /\ MaxRetries \in Nat /\ MaxCalls \in Nat
  /\ Batches \in Nat \ {0}

VARIABLES
  turns,  \* the callers that hold (first) or await the lock
  calls,  \* caller -> what its call is doing
  up,     \* whether there is an endpoint whose transport is open
  armed,  \* the reply the endpoint waits for, or NoReply
  conn,   \* the connection id: 0 is None, else the number of its connect
  young,  \* whether the id is within its lifetime
  seed,   \* _transaction_seed, which is 32 bits wide and wraps in no run of the client
  sent,   \* the packets that went out on the open socket
  made,   \* history: calls made
  silent  \* history: whether conn went out with a packet that nobody answered

udpVars == <<turns, calls, up, armed, conn, young, seed, sent, made, silent>>

NoReply == [action |-> "none", tid |-> 0]
Idle == [stage |-> "idle", action |-> "none", batches |-> 0, attempt |-> 0, reused |-> FALSE,
         mine |-> 0, id |-> 0, reply |-> "none", own |-> TRUE]

Holds(c) == turns # <<>> /\ Head(turns) = c
At(c, stage) == Holds(c) /\ calls[c].stage = stage

UdpInit ==
  /\ turns = <<>> /\ calls = [c \in Callers |-> Idle]
  /\ up = FALSE /\ armed = NoReply
  /\ conn = 0 /\ young = FALSE /\ seed = 0
  /\ sent = {} /\ made = 0 /\ silent = FALSE

-----------------------------------------------------------------------------
(* One attempt: a socket, an id, the packet.                                *)

(* _round_trip up to its wait: arm the endpoint, send.                      *)
RoundTrip(c, action, id, call) ==
  /\ seed' = seed + 1
  /\ armed' = [action |-> action, tid |-> seed']
  /\ sent' = sent \cup {armed'}
  /\ calls' = [calls EXCEPT ![c] =
       [call EXCEPT !.stage = IF action = "connect" THEN "connecting" ELSE "asking",
                    !.mine = seed', !.id = id]]

(* The id is good while it is young; otherwise a connect comes first.       *)
Converse(c, call) ==
  IF conn # 0 /\ young
  THEN RoundTrip(c, call.action, conn, call)
  ELSE RoundTrip(c, "connect", 0, call)

(* Whether the id was there is read before it is known to be young enough.  *)
TryOnce(c, call) ==
  IF up
  THEN Converse(c, [call EXCEPT !.reused = conn # 0])
  ELSE /\ calls' = [calls EXCEPT ![c] = [call EXCEPT !.stage = "opening"]]
       /\ UNCHANGED <<seed, armed, sent>>

(* announce and each batch of scrape are one exchange under the lock.       *)
Call(c, action) ==
  /\ calls[c] = Idle /\ made < MaxCalls
  /\ made' = made + 1
  /\ turns' = Append(turns, c)
  /\ LET call == [Idle EXCEPT !.action = action, !.stage = "queued",
                              !.batches = IF action = "scrape" THEN Batches ELSE 1] IN
     IF turns = <<>> THEN TryOnce(c, call)
     ELSE calls' = [calls EXCEPT ![c] = call] /\ UNCHANGED <<seed, armed, sent>>
  /\ UNCHANGED <<up, conn, young, silent>>

LockTaken(c) ==
  /\ At(c, "queued")
  /\ TryOnce(c, calls[c])
  /\ UNCHANGED <<turns, up, conn, young, made, silent>>

SocketOpened(c) ==
  /\ At(c, "opening")
  /\ calls' = [calls EXCEPT ![c].stage = "opened"]
  /\ up' = TRUE /\ sent' = {}
  /\ UNCHANGED <<turns, armed, conn, young, seed, made, silent>>

(* The socket may be closed again before the coroutine goes on: then        *)
(* _round_trip's assertion fails the call.                                  *)
GoesOn(c) ==
  /\ At(c, "opened")
  /\ IF up
     THEN /\ Converse(c, [calls[c] EXCEPT !.reused = conn # 0])
          /\ UNCHANGED turns
     ELSE /\ calls' = [calls EXCEPT ![c] = Idle] /\ turns' = Tail(turns)
          /\ UNCHANGED <<seed, armed, sent>>
  /\ UNCHANGED <<up, conn, young, made, silent>>

-----------------------------------------------------------------------------
(* Faulty variant: the retry keeps the id.                                  *)
FailsSame(c) ==
  /\ UNCHANGED <<conn, young>>
  /\ IF calls[c].attempt < MaxRetries
     THEN /\ calls' = [calls EXCEPT ![c].stage = "backing", ![c].attempt = @ + 1,
                                 ![c].reply = "none"]
          /\ UNCHANGED turns
     ELSE calls' = [calls EXCEPT ![c] = Idle] /\ turns' = Tail(turns)

(* An attempt that failed: the id is forgotten, and there is a retry after  *)
(* a delay or the call raises.                                              *)

Fails(c) ==
  /\ conn' = 0 /\ young' = FALSE
  /\ IF calls[c].attempt < MaxRetries
     THEN /\ calls' = [calls EXCEPT ![c].stage = "backing", ![c].attempt = @ + 1,
                                 ![c].reply = "none"]
          /\ UNCHANGED turns
     ELSE calls' = [calls EXCEPT ![c] = Idle] /\ turns' = Tail(turns)

OpenFails(c) ==
  /\ At(c, "opening")
  /\ Fails(c)
  /\ UNCHANGED <<up, armed, seed, sent, made, silent>>

TimedOut(c) ==
  /\ At(c, "connecting") \/ At(c, "asking")
  /\ armed # NoReply
  /\ armed' = NoReply
  /\ Fails(c)
  /\ silent' = (conn' # 0 /\ calls[c].id = conn')
  /\ UNCHANGED <<up, seed, sent, made>>

(* The future was failed by close or connection_lost.                       *)
Broken(c) ==
  /\ At(c, "connecting") \/ At(c, "asking")
  /\ calls[c].reply = "closed"
  /\ Fails(c)
  /\ UNCHANGED <<up, armed, seed, sent, made, silent>>

BackedOff(c) ==
  /\ At(c, "backing")
  /\ TryOnce(c, calls[c])
  /\ UNCHANGED <<turns, up, conn, young, made, silent>>

-----------------------------------------------------------------------------
(* datagram_received: only the armed transaction, and only its action or an *)
(* error; a packet too short for a header is nothing.                       *)

Matches(p, action) ==
  /\ armed # NoReply /\ p.tid = armed.tid /\ action \in {armed.action, "error"}

DatagramReceived(c, p, action, kind) ==
  /\ At(c, "connecting") \/ At(c, "asking")
  /\ up /\ action \in {p.action, "error"}
  /\ Matches(p, action)
  /\ armed' = NoReply
  /\ calls' = [calls EXCEPT ![c].reply = IF action = "error" THEN "error" ELSE kind,
                            ![c].own = p.tid = calls[c].mine]
  /\ UNCHANGED <<turns, up, conn, young, seed, sent, made, silent>>

(* parse_connect_response, then the question itself.                        *)
Connected(c) ==
  /\ At(c, "connecting") /\ calls[c].reply = "good"
  /\ conn' = calls[c].mine /\ young' = TRUE /\ silent' = FALSE
  /\ IF up
     THEN /\ RoundTrip(c, calls[c].action, calls[c].mine, [calls[c] EXCEPT !.reply = "none"])
          /\ UNCHANGED turns
     ELSE /\ calls' = [calls EXCEPT ![c] = Idle] /\ turns' = Tail(turns)
          /\ UNCHANGED <<seed, armed, sent>>
  /\ UNCHANGED <<up, made>>

(* A connect refused or malformed raises at once.                           *)
ConnectRefused(c) ==
  /\ At(c, "connecting") /\ calls[c].reply \in {"error", "bad"}
  /\ calls' = [calls EXCEPT ![c] = Idle] /\ turns' = Tail(turns)
  /\ UNCHANGED <<up, armed, conn, young, seed, sent, made, silent>>

(* The first refusal of an id that was there before is taken for a stale    *)
(* id, and not as the answer.                                               *)
Stale(c) ==
  calls[c].reply = "error" /\ calls[c].reused /\ calls[c].attempt = 0

StaleRefused(c) ==
  /\ At(c, "asking") /\ Stale(c)
  /\ Fails(c)
  /\ UNCHANGED <<up, armed, seed, sent, made, silent>>

(* Any other reply ends the exchange; a scrape with batches left joins the  *)
(* queue of the lock again.                                                 *)
Answered(c) ==
  /\ At(c, "asking") /\ calls[c].reply \in {"good", "bad", "error"} /\ ~Stale(c)
  /\ LET more == calls[c].reply = "good" /\ calls[c].batches > 1
         call == [Idle EXCEPT !.action = calls[c].action, !.stage = "queued",
                              !.batches = calls[c].batches - 1] IN
     /\ turns' = Tail(turns) \o (IF more THEN <<c>> ELSE <<>>)
     /\ calls' = [calls EXCEPT ![c] = IF more THEN call ELSE Idle]
  /\ UNCHANGED <<up, armed, conn, young, seed, sent, made, silent>>

-----------------------------------------------------------------------------
(* What else happens to the client.                                         *)

(* The id outlives CONNECTION_ID_LIFETIME.                                  *)
Ages ==
  /\ young /\ young' = FALSE
  /\ UNCHANGED <<turns, calls, up, armed, conn, seed, sent, made, silent>>

(* The waiting future is failed.                                            *)
Failed == IF armed = NoReply THEN calls ELSE [calls EXCEPT ![Head(turns)].reply = "closed"]

(* connection_lost.                                                         *)
SocketLost ==
  /\ up
  /\ up' = FALSE /\ armed' = NoReply /\ calls' = Failed
  /\ UNCHANGED <<turns, conn, young, seed, sent, made, silent>>

(* aclose.                                                                  *)
CloseEndpoint ==
  /\ (ClosesAlone => turns = <<>>)
  /\ up' = FALSE /\ armed' = NoReply /\ calls' = Failed
  /\ conn' = 0 /\ young' = FALSE
  /\ UNCHANGED <<turns, seed, sent, made, silent>>

(* The task of a call is cancelled wherever it waits.                       *)
Cancel(c) ==
  /\ calls[c] # Idle
  /\ calls' = [calls EXCEPT ![c] = Idle]
  /\ \E i \in DOMAIN turns : turns[i] = c /\ turns' = RemoveAt(turns, i)
  /\ armed' = IF Holds(c) THEN NoReply ELSE armed
  /\ UNCHANGED <<up, conn, young, seed, sent, made, silent>>

-----------------------------------------------------------------------------
Goes(c) ==
  \/ LockTaken(c) \/ SocketOpened(c) \/ OpenFails(c) \/ GoesOn(c) \/ TimedOut(c) \/ Broken(c)
  \/ BackedOff(c) \/ Connected(c) \/ ConnectRefused(c) \/ StaleRefused(c) \/ Answered(c)

UdpNext ==
  \/ Ages \/ SocketLost \/ CloseEndpoint
  \/ \E c \in Callers :
       \/ \E action \in {"announce", "scrape"} : Call(c, action)
       \/ Goes(c) \/ Cancel(c)
       \/ \E p \in sent, kind \in {"good", "bad"} :
            \E action \in {p.action, "error"} : DatagramReceived(c, p, action, kind)

UdpSpec == UdpInit /\ [][UdpNext]_udpVars

(* The event loop runs what is ready and every timer goes off.              *)
UdpFairness == \A c \in Callers : WF_udpVars(Goes(c))
UdpFairSpec == UdpSpec /\ UdpFairness

-----------------------------------------------------------------------------
(* Properties.                                                              *)

CallStates ==
  [stage : {"idle", "queued", "opening", "opened", "connecting", "asking", "backing"},
   action : {"none", "announce", "scrape"}, batches : 0 .. Batches, attempt : 0 .. MaxRetries,
   reused : BOOLEAN, mine : Nat, id : Nat, reply : {"none", "good", "bad", "error", "closed"},
   own : BOOLEAN]

Packets == [action : {"connect", "announce", "scrape"}, tid : Nat]

UdpTypeOK ==
  /\ turns \in Seq(Callers)
  /\ calls \in [Callers -> CallStates]
  /\ up \in BOOLEAN
  /\ armed \in Packets \cup {NoReply} /\ armed.tid <= seed
  /\ conn \in Nat
  /\ young \in BOOLEAN
  /\ seed \in Nat /\ made \in 0 .. MaxCalls
  /\ sent \subseteq Packets

(* Who stands in the queue of the lock is who has a call, each once, so no  *)
(* call that ends or is cancelled leaves the lock held, or held twice.      *)
TurnsAreTaken ==
  /\ \A i, j \in 1 .. Len(turns) : turns[i] = turns[j] => i = j
  /\ \A c \in Callers : calls[c].stage # "idle" <=> \E i \in 1 .. Len(turns) : turns[i] = c

(* The reply a call goes by answers the packet the call sent, whatever      *)
(* arrives late, twice, or for the call before ("Replies that do not match  *)
(* are dropped", udp_tracker.py:13).                                        *)
RepliesAreOwn == \A c \in Callers : calls[c].own

(* An id that a packet carried into silence is never sent again, by this    *)
(* call or by the next.                                                     *)
SilentIdsAreDropped == ~silent

(* Every announce and scrape ends, however the network behaves: the lock is *)
(* not left held and no retry is the last of infinitely many.               *)
EveryCallEnds == \A c \in Callers : calls[c] # Idle ~> calls[c] = Idle

=============================================================================
