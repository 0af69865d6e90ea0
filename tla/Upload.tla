------------------------------- MODULE Upload -------------------------------
(***************************************************************************)
(* The upload side of one torrent: UploadManager (upload/manager.py) with  *)
(* ChokePolicy (choke.py) and TokenBucket (rate.py).                       *)
(*                                                                         *)
(* One background task decides who is choked, tells the peers one by one,  *)
(* and serves the queues; every message to a peer and every block read from*)
(* disk is awaited, and requests, cancels and disconnects arrive meanwhile.*)
(* A block stands for a piece. The regular slots go to any of the          *)
(* interested peers (the ranking is by bytes), the optimistic slot to one  *)
(* that has had it least. Requests are stamped with time; a stale one may  *)
(* be dropped at the start of any pass. To the task, the bucket says only  *)
(* whether a block goes out at once or after a delay.                      *)
(*                                                                         *)
(* The bucket itself, and the sends that are put off because of it         *)
(* (_serve_queues, _schedule_send), are a machine of their own: a byte     *)
(* costs one unit of time, so a second is Rate units; the bucket is built  *)
(* with no capacity of its own and holds what a second earns.              *)
(***************************************************************************)
EXTENDS Integers, Sequences, FiniteSets, SequencesExt

CONSTANTS
  Leechers,     \* keys of the peers that may connect and ask
  Offered,      \* pieces that may come to be verified
  NoLeecher,    \* no peer
  Slots,        \* UploadConfig.slots
  MaxRequests,  \* UploadConfig.max_requests_per_peer
  Limited,      \* whether max_upload_speed is set
  Fickle,       \* whether peers lose interest, cancel, leave, or fail to be told
  MaxTurns,     \* bound: turns in the optimistic slot a peer may be ahead
  Greedy, \* whether a peer may ask for a block it asked for before
  Rate,     \* max_upload_speed, 0 for no limit
  Lengths,  \* lengths of blocks
  MaxLength, \* constants.MAX_BLOCK_SIZE, which _reject_reason holds requests to
  MaxClock, \* bound: units of time
  MaxBlocks \* bound: blocks taken

UploadAssumption ==
  /\ IsFiniteSet(Leechers) /\ IsFiniteSet(Offered)
  /\ NoLeecher \notin Leechers
  /\ Slots \in Nat /\ MaxRequests \in Nat \ {0} /\ MaxTurns \in Nat \ {0}

PacingAssumption ==
  /\ Rate \in Nat /\ MaxClock \in Nat /\ MaxBlocks \in Nat
  /\ MaxLength \in Nat \ {0} /\ Lengths \subseteq 1 .. MaxLength

VARIABLES
  attached,   \* PeerManager.connections that are connected
  keen,       \* PeerSession.peer_interested
  choking,    \* PeerSession.am_choking: what the peer was last told
  tracked,    \* UploadManager._tracked
  queues,     \* UploadManager._queues
  allowed,    \* ChokeDecision.allowed: who may be served
  optimistic, \* ChokePolicy._optimistic
  turns,      \* ChokePolicy._rounds
  due,        \* optimistic_interval has passed
  have,       \* UploadManager._have
  told,       \* pieces whose Have message was sent or is being sent, per peer
  pass,       \* the task: "off", "idle", "choke", "telling", "serve", "sending"
  todo,       \* keys this loop has still to visit
  size,       \* entries of the dictionary being iterated when it began
  progressed, \* _serve_queues: whether this round served anyone
  current,    \* the peer and block being sent, << >> for none
  delayed,    \* sends the bucket put off
  asked, \* history: what has been asked for, unless Greedy
  clock,    \* time.monotonic()
  tokens,   \* TokenBucket.tokens: less than nothing is a debt
  updated,  \* TokenBucket.updated_at
  waiting,  \* sends put off, and when they are due
  sent,     \* history: what went out, and when
  taken,    \* history: how many blocks were taken
  charged   \* history: how many bytes they had

peerVars == <<attached, keen, told>>
policyVars == <<allowed, optimistic, turns, due>>
passVars == <<pass, todo, size, progressed, current>>
uploadVars == <<peerVars, choking, tracked, queues, policyVars, have, passVars, delayed, asked>>

Listed(s) == {s[i] : i \in DOMAIN s}

(* The loop is between two awaits of the code: nothing else runs there.     *)
Yielded == pass \in {"off", "idle", "choke", "sending"}

UpInit ==
  /\ attached = {} /\ keen = {} /\ choking = Leechers
  /\ tracked = {} /\ queues = [p \in Leechers |-> << >>]
  /\ allowed = {} /\ optimistic = NoLeecher
  /\ turns = [p \in Leechers |-> 0] /\ due = FALSE
  /\ have = {} /\ told = [p \in Leechers |-> {}]
  /\ pass = "off" /\ todo = {} /\ size = 0 /\ progressed = FALSE /\ current = << >>
  /\ delayed = {} /\ asked = {}

-----------------------------------------------------------------------------
(* The peers.                                                               *)

Attach(p) ==
  /\ Yielded
  /\ p \notin attached
  /\ attached' = attached \cup {p}
  /\ choking' = choking \cup {p}
  /\ told' = [told EXCEPT ![p] = {}]
  /\ UNCHANGED <<keen, tracked, queues, policyVars, have, passVars, delayed, asked>>

Interest(p) ==
  /\ Yielded
  /\ p \in attached
  /\ \/ p \notin keen /\ keen' = keen \cup {p}
     \/ Fickle /\ p \in keen /\ keen' = keen \ {p}
  /\ UNCHANGED <<attached, told, choking, tracked, queues, policyVars, have, passVars,
                 delayed, asked>>

Detach(p) ==
  /\ Yielded
  /\ Fickle /\ p \in attached
  /\ attached' = attached \ {p} /\ keen' = keen \ {p}
  /\ UNCHANGED <<told, choking, tracked, queues, policyVars, have, passVars, delayed, asked>>

(* _track: a key that is new to the dictionary is met by a running loop.    *)
Track(P) ==
  /\ tracked' = tracked \cup P
  /\ todo' = IF pass = "choke" THEN todo \cup (P \ tracked) ELSE todo

(* Faulty variant: the queue of a peer that left is kept.                   *)
OnDisconnectKeeps(P) ==
  /\ tracked' = tracked \ P
  /\ todo' = todo
  /\ UNCHANGED queues
  /\ optimistic' = IF optimistic \in P THEN NoLeecher ELSE optimistic
  /\ turns' = [p \in Leechers |-> IF p \in P THEN 0 ELSE turns[p]]

(* on_disconnect, for the peers in P.  The decision in force keeps them.    *)
OnDisconnect(P) ==
  /\ tracked' = tracked \ P
  /\ todo' = IF pass = "choke" THEN todo \ P ELSE todo
  /\ queues' = [p \in Leechers |-> IF p \in P THEN << >> ELSE queues[p]]
  /\ optimistic' = IF optimistic \in P THEN NoLeecher ELSE optimistic
  /\ turns' = [p \in Leechers |-> IF p \in P THEN 0 ELSE turns[p]]

(* The pool's reaper reports the end of a connection.                       *)
Reaped(p) ==
  /\ Yielded
  /\ p \notin attached /\ p \in tracked
  /\ OnDisconnect({p})
  /\ UNCHANGED <<peerVars, choking, allowed, due, have, pass, size, progressed, current,
                 delayed, asked>>

-----------------------------------------------------------------------------
(* Requests.                                                                *)

(* on_request: the peer is tracked even when the request is refused.        *)
OnRequest(p, b) ==
  /\ Yielded
  /\ p \in attached /\ (Greedy \/ <<p, b>> \notin asked)
  /\ Track({p})
  /\ queues' = IF /\ b \in have /\ p \in keen /\ p \in allowed
                  /\ Len(queues[p]) < MaxRequests
                  /\ b \notin Listed(queues[p])
               THEN [queues EXCEPT ![p] = Append(@, b)] ELSE queues
  /\ asked' = IF Greedy THEN asked ELSE asked \cup {<<p, b>>}
  /\ UNCHANGED <<peerVars, choking, policyVars, have, pass, size, progressed, current, delayed>>

(* on_cancel: only what is still queued can be taken back.  It is queued    *)
(* once, on_request sees to that (QueuedOnce).                              *)
OnCancel(p, b) ==
  /\ Yielded
  /\ Fickle /\ p \in attached
  /\ \E i \in DOMAIN queues[p] :
       /\ queues[p][i] = b
       /\ queues' = [queues EXCEPT ![p] = RemoveAt(@, i)]
  /\ UNCHANGED <<peerVars, choking, tracked, policyVars, have, passVars, delayed, asked>>

(* _broadcast_have: to the peers tracked now.                               *)
BroadcastHave(b) == told' = [p \in Leechers |-> told[p] \cup (IF p \in tracked THEN {b} ELSE {})]

(* note_piece_verified                                                      *)
NotePieceVerified(b) ==
  /\ Yielded
  /\ b \notin have
  /\ have' = have \cup {b}
  /\ BroadcastHave(b)
  /\ UNCHANGED <<attached, keen, choking, tracked, queues, policyVars, passVars, delayed, asked>>

-----------------------------------------------------------------------------
(* The policy.                                                              *)

(* Faulty variant: whoever holds the optimistic slot keeps it.              *)
RotateNever(C) == IF optimistic \in C THEN {optimistic} ELSE C

(* ChokePolicy._rotate: those of the candidates who have had fewest turns.  *)
Rotate(C) == {p \in C : \A q \in C : turns[p] <= turns[q]}

(* Turns matter only by comparison: they are counted from the least, and    *)
(* MaxTurns is how far ahead of the others a peer is known to be.           *)
Turn(p) ==
  IF turns[p] < MaxTurns THEN [turns EXCEPT ![p] = @ + 1]
  ELSE [q \in Leechers |-> IF q = p \/ turns[q] = 0 THEN turns[q] ELSE turns[q] - 1]

FromLeast(t, P) ==
  [p \in Leechers |-> IF p \in P THEN t[p] - Min({t[q] : q \in P}) ELSE 0]

(* ChokePolicy.evaluate over the accounting of P.                           *)
Evaluate(P) ==
  LET wanted == keen \cap P IN
  \E R \in SUBSET wanted :
    /\ Cardinality(R) = Slots \/ (Cardinality(R) < Slots /\ R = wanted)
    /\ IF Slots = 0 \/ wanted = R
       THEN /\ optimistic' = NoLeecher /\ due' = FALSE
            /\ turns' = FromLeast(turns, P)
       ELSE IF optimistic \in wanted \ R /\ ~due
       THEN /\ UNCHANGED <<optimistic, due>>
            /\ turns' = FromLeast(turns, P)
       ELSE \E p \in Rotate(wanted \ R) :
              /\ optimistic' = p /\ due' = FALSE
              /\ turns' = FromLeast(Turn(p), P)
    /\ allowed' = R \cup ({optimistic'} \ {NoLeecher})

(* The optimistic interval is over.                                         *)
IntervalOver ==
  /\ Yielded
  /\ optimistic # NoLeecher /\ ~due
  /\ due' = TRUE
  /\ UNCHANGED <<peerVars, choking, tracked, queues, allowed, optimistic, turns, have, passVars,
                 delayed, asked>>

-----------------------------------------------------------------------------
(* One pass: pump.                                                          *)

StartUpload ==
  /\ pass = "off"
  /\ pass' = "idle"
  /\ UNCHANGED <<peerVars, choking, tracked, queues, policyVars, have, todo, size, progressed,
                 current, delayed, asked>>

(* stop cancels the pass wherever it waits; the delayed sends are awaited.  *)
StopUpload ==
  /\ Yielded
  /\ Fickle /\ pass # "off"
  /\ pass' = "off" /\ todo' = {} /\ size' = 0 /\ progressed' = FALSE /\ current' = << >>
  /\ UNCHANGED <<peerVars, choking, tracked, queues, policyVars, have, delayed, asked>>

(* _sync_peers, the policy, and the start of the loop that tells the peers. *)
PassBegin ==
  /\ pass = "idle"
  /\ LET gone == tracked \ attached IN
     /\ tracked' = attached
     /\ queues' = [p \in Leechers |-> IF p \in gone THEN << >> ELSE queues[p]]
     /\ Evaluate(attached)
     /\ todo' = attached /\ size' = Cardinality(attached)
  /\ pass' = "telling"
  /\ UNCHANGED <<peerVars, choking, have, progressed, current, delayed, asked>>

Mismatched(p) == (p \in choking) = (p \in allowed)

(* _apply_choke up to its next message: a dictionary that changed its size  *)
(* during an await raises, and _loop gives this pass up.                    *)
TellNext ==
  /\ pass = "telling" /\ Cardinality(tracked) = size
  /\ \E p \in todo :
       /\ Mismatched(p)
       /\ todo' = todo \ {p}
       /\ pass' = "choke" /\ current' = <<p>>
  /\ UNCHANGED <<peerVars, choking, tracked, queues, policyVars, have, size, progressed,
                 delayed, asked>>

TellAborts ==
  /\ pass = "telling" /\ Cardinality(tracked) # size
  /\ pass' = "idle" /\ todo' = {} /\ size' = 0
  /\ UNCHANGED <<peerVars, choking, tracked, queues, policyVars, have, progressed, current,
                 delayed, asked>>

(* set_choking returns; a peer that is gone or does not take the message is *)
(* passed over, and the next pass tries again.                              *)
Told ==
  /\ pass = "choke"
  /\ LET p == current[1] IN
     \/ /\ p \in attached
        /\ choking' = IF p \in allowed THEN choking \ {p} ELSE choking \cup {p}
     \/ /\ Fickle \/ p \notin attached
        /\ UNCHANGED choking
  /\ pass' = "telling" /\ current' = << >>
  /\ UNCHANGED <<peerVars, tracked, queues, policyVars, have, todo, size, progressed, delayed,
                 asked>>

HasWork == {p \in Leechers : queues[p] # << >>}

(* All told: stale requests go, and the first round begins.                 *)
ServeBegin ==
  /\ pass = "telling" /\ Cardinality(tracked) = size
  /\ \A p \in todo : ~Mismatched(p)
  /\ \E keep \in [Leechers -> 0 .. MaxRequests] :
       /\ \A p \in Leechers : keep[p] <= Len(queues[p]) /\ (~Fickle => keep[p] = Len(queues[p]))
       /\ queues' = [p \in Leechers |->
                       SubSeq(queues[p], Len(queues[p]) - keep[p] + 1, Len(queues[p]))]
       /\ todo' = {p \in Leechers : keep[p] > 0}
  /\ pass' = "serve" /\ size' = 0 /\ progressed' = FALSE
  /\ UNCHANGED <<peerVars, choking, tracked, policyVars, have, current, delayed, asked>>

(* One key of a round.  A peer that is choked keeps its queue; one whose    *)
(* queue was emptied or removed while another was served raises, and the    *)
(* pass is given up.                                                        *)
Serve(p) ==
  /\ pass = "serve" /\ p \in todo
  /\ \/ /\ p \notin allowed
        /\ todo' = todo \ {p}
        /\ UNCHANGED <<queues, pass, progressed, current, delayed>>
     \/ /\ p \in allowed \/ p \notin tracked
        /\ queues[p] = << >>
        /\ pass' = "idle" /\ todo' = {}
        /\ UNCHANGED <<queues, progressed, current, delayed>>
     \/ /\ p \in allowed /\ queues[p] # << >>
        /\ queues' = [queues EXCEPT ![p] = Tail(@)]
        /\ todo' = todo \ {p}
        /\ \/ /\ pass' = "sending" /\ current' = <<p, Head(queues[p])>>
              /\ UNCHANGED <<progressed, delayed>>
           \/ /\ Limited
              /\ delayed' = delayed \cup {<<p, Head(queues[p])>>}
              /\ progressed' = TRUE
              /\ UNCHANGED <<pass, current>>
  /\ UNCHANGED <<peerVars, choking, tracked, policyVars, have, size, asked>>

(* _send_one returns: the block was read and sent, or was not.              *)
Sent ==
  /\ pass = "sending"
  /\ \/ current[1] \in attached /\ progressed' = TRUE
     \/ (Fickle \/ current[1] \notin attached) /\ UNCHANGED progressed
  /\ pass' = "serve" /\ current' = << >>
  /\ UNCHANGED <<peerVars, choking, tracked, queues, policyVars, have, todo, size, delayed, asked>>

(* The end of a round: another one if it served anyone, else the pass ends  *)
(* and the task waits until it is woken or half a second is over.           *)
RoundEnd ==
  /\ pass = "serve" /\ todo = {}
  /\ IF progressed /\ HasWork # {}
     THEN todo' = HasWork /\ UNCHANGED pass
     ELSE pass' = "idle" /\ UNCHANGED todo
  /\ progressed' = FALSE
  /\ UNCHANGED <<peerVars, choking, tracked, queues, policyVars, have, size, current, delayed,
                 asked>>

(* _send_later: the delay is over; nothing is looked at again.              *)
DelayedSent(d) ==
  /\ Yielded
  /\ d \in delayed
  /\ delayed' = delayed \ {d}
  /\ UNCHANGED <<peerVars, choking, tracked, queues, policyVars, have, passVars, asked>>

-----------------------------------------------------------------------------
UpNext ==
  \/ StartUpload \/ StopUpload \/ IntervalOver
  \/ PassBegin \/ TellNext \/ TellAborts \/ Told \/ ServeBegin \/ Sent \/ RoundEnd
  \/ \E p \in Leechers :
       \/ Attach(p) \/ Interest(p) \/ Detach(p) \/ Reaped(p) \/ Serve(p)
       \/ \E b \in Offered : OnRequest(p, b) \/ OnCancel(p, b)
  \/ \E b \in Offered : NotePieceVerified(b)
  \/ \E d \in delayed : DelayedSent(d)

UpSpec == UpInit /\ [][UpNext]_uploadVars

(* The event loop runs the task, and intervals end.                         *)
UpFairness ==
  /\ WF_uploadVars(StartUpload)
  /\ WF_uploadVars(PassBegin \/ TellNext \/ TellAborts \/ Told \/ ServeBegin)
  /\ WF_uploadVars((\E p \in Leechers : Serve(p)) \/ Sent \/ RoundEnd)
  /\ SF_uploadVars(IntervalOver)

UpFairSpec == UpSpec /\ UpFairness

-----------------------------------------------------------------------------
(* Properties.                                                              *)

UpTypeOK ==
  /\ attached \subseteq Leechers /\ keen \subseteq Leechers
  /\ choking \subseteq Leechers /\ tracked \subseteq Leechers
  /\ queues \in [Leechers -> Seq(Offered)]
  /\ allowed \subseteq Leechers /\ optimistic \in Leechers \cup {NoLeecher}
  /\ turns \in [Leechers -> 0 .. MaxTurns] /\ due \in BOOLEAN
  /\ have \subseteq Offered /\ told \in [Leechers -> SUBSET Offered]
  /\ pass \in {"off", "idle", "telling", "choke", "serve", "sending"}
  /\ todo \subseteq Leechers /\ size \in 0 .. Cardinality(Leechers)
  /\ progressed \in BOOLEAN
  /\ delayed \subseteq Leechers \X Offered
  /\ asked \subseteq Leechers \X Offered

(* Every queued request belongs to a tracked peer, as the serve loop takes  *)
(* for granted, and to a piece we hold; a queue never exceeds its limit.    *)
QueuedIsTracked ==
  \A p \in Leechers : queues[p] # << >> =>
    /\ p \in tracked
    /\ Len(queues[p]) <= MaxRequests
    /\ Listed(queues[p]) \subseteq have

(* No block is queued twice for a peer, however often it asks.              *)
QueuedOnce ==
  \A p \in Leechers : \A i, j \in DOMAIN queues[p] : queues[p][i] = queues[p][j] => i = j

(* A block the loop itself sends goes to a peer the decision in force       *)
(* allows: nothing that happens while it is read and sent changes that.     *)
SendsAreAllowed ==
  pass = "sending" => current[1] \in allowed

(* "A peer we have choked gets nothing, ever" (upload/manager.py:426): not   *)
(* so of a block that the pacer delayed, which goes out whatever was decided *)
(* meanwhile.                                                               *)
ChokedGetsNothing ==
  [][\A d \in delayed : DelayedSent(d) => d[1] \in allowed]_uploadVars

(* Nobody who stays connected and interested is choked for ever: the        *)
(* optimistic slot comes round.                                             *)
EveryoneGetsATurn ==
  \A p \in Leechers :
    []<>(p \notin attached \/ p \notin keen \/ p \notin choking)

-----------------------------------------------------------------------------
paceVars == <<clock, tokens, updated, waiting, sent, taken, charged>>

Start == Rate
Unlimited == Rate <= 0

MinOf(m, n) == IF m < n THEN m ELSE n
MaxOf(m, n) == IF m > n THEN m ELSE n

(* refill: what the time since the last update has earned, up to a second's *)
(* worth.                                                                   *)
Refilled(now) ==
  IF now <= updated THEN tokens ELSE MinOf(Rate, tokens + (now - updated))

(* take: the block is charged at once; the balance that is missing is the   *)
(* delay.                                                                   *)
Balance(length, now) == Refilled(now) - length
Delay(length, now) ==
  IF Unlimited \/ Refilled(now) >= length THEN 0 ELSE length - Refilled(now)

-----------------------------------------------------------------------------
(* The bucket is built at time 0, long before the first block.              *)
PaceInit ==
  /\ clock = Start /\ tokens = 0 /\ updated = 0
  /\ waiting = {} /\ sent = {} /\ taken = 0 /\ charged = 0

(* A block that is taken: when it goes out, its place among those taken, how *)
(* many bytes were charged before it.                                        *)
Block(at, length) == [at |-> at, length |-> length, turn |-> taken, before |-> charged]

(* One block of a queue: sent at once, or put off.                          *)
Take(length) ==
  /\ taken < MaxBlocks
  /\ taken' = taken + 1 /\ charged' = charged + length
  /\ IF Unlimited THEN UNCHANGED <<tokens, updated>>
     ELSE tokens' = Balance(length, clock) /\ updated' = clock
  /\ IF Delay(length, clock) > 0
     THEN /\ waiting' = waiting \cup {Block(clock + Delay(length, clock), length)}
          /\ UNCHANGED sent
     ELSE /\ sent' = sent \cup {Block(clock, length)}
          /\ UNCHANGED waiting
  /\ UNCHANGED clock

SendLater(w) ==
  /\ w.at <= clock
  /\ waiting' = waiting \ {w}
  /\ sent' = sent \cup {[w EXCEPT !.at = clock]}
  /\ UNCHANGED <<clock, tokens, updated, taken, charged>>

Elapse ==
  /\ clock < Start + MaxClock /\ \A w \in waiting : w.at > clock
  /\ clock' = clock + 1
  /\ UNCHANGED <<tokens, updated, waiting, sent, taken, charged>>

PaceNext ==
  \/ \E length \in Lengths : Take(length)
  \/ \E w \in waiting : SendLater(w)
  \/ Elapse

PaceSpec == PaceInit /\ [][PaceNext]_paceVars

-----------------------------------------------------------------------------
Blocks == [at : Nat, length : Lengths, turn : 0 .. MaxBlocks - 1, before : Nat]

PaceTypeOK ==
  /\ clock \in Start .. Start + MaxClock /\ updated \in 0 .. clock
  /\ tokens \in Int /\ tokens <= Rate
  /\ taken \in 0 .. MaxBlocks /\ charged \in Nat
  /\ waiting \subseteq Blocks /\ sent \subseteq Blocks

(* Blocks go out in the order they were taken; and from the sending of any  *)
(* of them to that of any later one no more goes out, both included, than   *)
(* the limit earns in that time, plus the burst of a full bucket: a second's*)
(* worth, or one block.                                                     *)
PaidFor ==
  ~Unlimited =>
    \A x, y \in sent : x.turn <= y.turn =>
      /\ x.at <= y.at
      /\ (y.before + y.length) - x.before <= MaxOf(Rate, MaxLength) + (y.at - x.at)
=============================================================================
