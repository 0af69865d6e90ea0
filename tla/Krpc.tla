-------------------------------- MODULE Krpc --------------------------------
(***************************************************************************)
(* KrpcTransport (discovery/dht/protocol.py): queries over one UDP socket,  *)
(* each a future registered under a random two-byte id until a reply with   *)
(* that id comes or a deadline passes.  Datagrams are lost, late, repeated  *)
(* and reordered; nothing stops an id from being drawn twice.               *)
(***************************************************************************)
EXTENDS Naturals, FiniteSets

CONSTANTS
  Askers,       \* callers of KrpcTransport.query
  Ids,          \* transaction ids
  Retries,      \* further attempts of a query
  Outstanding,  \* MAX_OUTSTANDING
  FreshIds,     \* whether an id that is still registered is never drawn again
  NoAsker

KrpcAssumption ==
  /\ IsFiniteSet(Askers) /\ IsFiniteSet(Ids) /\ Ids # {} /\ NoAsker \notin Askers
  /\ Retries \in Nat /\ Outstanding \in Nat \ {0} /\ FreshIds \in BOOLEAN

VARIABLES
  query,     \* each caller: [at, id, tries]
  registry,  \* _KrpcEndpoint._outstanding: whose future each id leads to
  replies,   \* datagrams on their way to us: [id, to], to whose question
  bound,     \* the socket: "open", "closing" or "gone"
  wrongly    \* history: callers answered by a reply to another's question

krpcVars == <<query, registry, replies, bound, wrongly>>

Ready == [at |-> "ready", id |-> CHOOSE i \in Ids : TRUE, tries |-> 0]
Waiting(a) == query[a].at = "waiting"
Registered == {i \in Ids : registry[i] # NoAsker}

KrpcInit ==
  /\ query = [a \in Askers |-> Ready]
  /\ registry = [i \in Ids |-> NoAsker]
  /\ replies = {} /\ bound = "open" /\ wrongly = {}

-----------------------------------------------------------------------------
(* KrpcTransport.query.                                                     *)

(* An attempt: with the registry full it fails; otherwise a fresh future    *)
(* takes the id, whoever has it, and the packet goes out.  A retry does not *)
(* look whether the socket is still there.                                  *)
Attempt(a) ==
  /\ query[a].at \in {"ready", "paused"} /\ (query[a].at = "ready" => bound = "open")
  /\ \/ /\ Cardinality(Registered) >= Outstanding
        /\ query' = [query EXCEPT ![a].at = "failed"]
        /\ UNCHANGED registry
     \/ /\ Cardinality(Registered) < Outstanding
        /\ \E i \in Ids :
             /\ FreshIds => i \notin Registered
             /\ registry' = [registry EXCEPT ![i] = a]
             /\ query' = [query EXCEPT ![a] = [at |-> "waiting", id |-> i, tries |-> @.tries]]
  /\ UNCHANGED <<replies, bound, wrongly>>

(* The future's callback takes its id out, whoever holds the id by then.    *)
Drop(i) == registry' = [registry EXCEPT ![i] = NoAsker]

(* wait_for gives up; another attempt follows a pause, if there is one.     *)
TimesOut(a) ==
  /\ Waiting(a)
  /\ Drop(query[a].id)
  /\ query' = [query EXCEPT ![a].at = IF query[a].tries < Retries THEN "paused" ELSE "failed",
                            ![a].tries = IF query[a].tries < Retries THEN @ + 1 ELSE @]
  /\ UNCHANGED <<replies, bound, wrongly>>

(* The node asked replies; the datagram may come any number of times.       *)
Replies(a) ==
  /\ Waiting(a) /\ bound = "open"
  /\ replies' = replies \cup {[id |-> query[a].id, to |-> a]}
  /\ UNCHANGED <<query, registry, bound, wrongly>>

Lost(r) ==
  /\ r \in replies
  /\ replies' = replies \ {r}
  /\ UNCHANGED <<query, registry, bound, wrongly>>

(* datagram_received: the id alone decides whose reply it is, a response or *)
(* an error.                                                                *)
Received(r) ==
  /\ r \in replies /\ bound = "open"
  /\ LET a == registry[r.id] IN
     /\ a # NoAsker
     /\ \E end \in {"answered", "failed"} : query' = [query EXCEPT ![a].at = end]
     /\ wrongly' = IF r.to = a THEN wrongly ELSE wrongly \cup {a}
  /\ Drop(r.id)
  /\ UNCHANGED <<replies, bound>>

(* The caller is done with its answer and may ask again.                    *)
Again(a) ==
  /\ query[a].at \in {"answered", "failed"}
  /\ query' = [query EXCEPT ![a] = Ready]
  /\ wrongly' = wrongly \ {a}
  /\ UNCHANGED <<registry, replies, bound>>

(* aclose; the transport calls connection_lost a turn later, which fails    *)
(* every future that is still registered.                                   *)
Close ==
  /\ bound = "open"
  /\ bound' = "closing"
  /\ UNCHANGED <<query, registry, replies, wrongly>>

ConnectionLost ==
  /\ bound = "closing"
  /\ bound' = "gone"
  /\ query' = [a \in Askers |-> IF a \in {registry[i] : i \in Registered}
                                THEN [query[a] EXCEPT !.at = "failed"] ELSE query[a]]
  /\ registry' = [i \in Ids |-> NoAsker]
  /\ UNCHANGED <<replies, wrongly>>

-----------------------------------------------------------------------------
AskerGoes(a) == TimesOut(a) \/ (query[a].at = "paused" /\ Attempt(a))

KrpcNext ==
  \/ Close \/ ConnectionLost
  \/ \E a \in Askers : Attempt(a) \/ TimesOut(a) \/ Replies(a) \/ Again(a)
  \/ \E r \in replies : Lost(r) \/ Received(r)

KrpcSpec == KrpcInit /\ [][KrpcNext]_krpcVars

(* Deadlines pass and pauses end.                                           *)
KrpcFairness == \A a \in Askers : WF_krpcVars(AskerGoes(a))

KrpcFairSpec == KrpcSpec /\ KrpcFairness

-----------------------------------------------------------------------------
(* Properties.                                                              *)

KrpcTypeOK ==
  /\ query \in [Askers -> [at : {"ready", "waiting", "paused", "answered", "failed"},
                           id : Ids, tries : 0 .. Retries]]
  /\ registry \in [Ids -> Askers \cup {NoAsker}]
  /\ replies \subseteq [id : Ids, to : Askers]
  /\ bound \in {"open", "closing", "gone"} /\ wrongly \subseteq Askers

(* The registry stays within its bound and holds nothing but queries that   *)
(* wait under their id: none is left behind by a timeout, a retry, an       *)
(* answer, a duplicate of one, or the loss of the socket.                   *)
RegistryIsLive ==
  /\ Cardinality(Registered) <= Outstanding
  /\ \A i \in Registered : Waiting(registry[i]) /\ query[registry[i]].id = i

(* As long as no registered id is drawn again, a waiting query is           *)
(* registered, so its reply will find it.                                   *)
WaitingIsRegistered ==
  \A a \in Askers : Waiting(a) /\ bound # "gone" => registry[query[a].id] = a

(* What protocol.py:68 says of the endpoint, "match replies to queries".    *)
RepliesMatch == wrongly = {}

(* Every query ends, answered or not, with the socket or without.           *)
EveryQueryEnds == \A a \in Askers : Waiting(a) ~> ~Waiting(a) /\ query[a].at # "paused"
=============================================================================
