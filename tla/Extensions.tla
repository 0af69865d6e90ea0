----------------------------- MODULE Extensions -----------------------------
(***************************************************************************)
(* How two clients agree on a connection: the 68-byte handshake             *)
(* (peer/handshake.py, PeerStream.perform_handshake and accept_handshake)   *)
(* and the extensions of BEP 10 (peer/extension.py, PeerConnection's        *)
(* _negotiate_extensions, _handle_extended and send_extension).             *)
(*                                                                          *)
(* Both sides may run this code.  Foreign is one that does not, or none:    *)
(* such a client may also send its extension handshake again with other     *)
(* numbers, send one nobody can read, or use a number it was never given.   *)
(* A number is chosen by the side that will read it.                        *)
(***************************************************************************)
EXTENDS Integers, Sequences, FiniteSets, SequencesExt

CONSTANTS
  Dialler, Listener,  \* the two sides
  Foreign,            \* the side that runs other code; neither, for none
  Torrents,           \* info hashes
  Names,              \* names of extensions
  Ids,                \* the numbers an extension handshake may hold
  UsableIds,          \* ... of those, 1 .. MAX_EXTENSION_ID
  NoName,             \* a message under no name
  Broken,             \* a body that decode_handshake refuses
  MaxSends            \* bound: messages a side sends once the connection is open

ExtensionsAssumption ==
  /\ Dialler # Listener /\ UsableIds \subseteq Ids \ {0}
  /\ NoName \notin Names /\ (\A T \in SUBSET (Names \X Ids) : T # Broken) /\ MaxSends \in Nat

Ends == {Dialler, Listener}
Other(s) == IF s = Dialler THEN Listener ELSE Dialler

VARIABLES
  torrent,     \* SwarmContext.info_hash
  ours,        \* ExtensionState.ours, as pairs of a name and its number
  theirs,      \* ExtensionState.theirs
  negotiated,  \* ExtensionState._negotiated
  stage,       \* "new", "greeting", "open", "failed"
  wire,        \* what is on its way to each side
  sends,       \* messages a side has sent since it opened
  heard,       \* history: messages handed on, as meant and as understood
  offered       \* history: the last readable offer each side has sent

extVars == <<torrent, ours, theirs, negotiated, stage, wire, sends, heard, offered>>
tables == <<torrent, ours, theirs, negotiated>>

(* A dictionary of names: each at most once.                                *)
Functional(T) == \A x, y \in T : x[1] = y[1] => x = y
Offers == {T \in SUBSET (Names \X Ids) : Functional(T)}
Distinct(T) == \A x, y \in T : x[2] = y[2] => x = y
OurOffers == {T \in Offers : Distinct(T) /\ \A x \in T : x[2] \in UsableIds}

(* decode_handshake: 0 is "not offered", and a byte is all there is.        *)
Usable(T) == {x \in T : x[2] \in UsableIds}

Greeting(s) == [kind |-> "greeting", torrent |-> torrent[s], extends |-> ours[s] # {}]
Extended(id, body) == [kind |-> "extended", id |-> id, body |-> body]

ExtInit ==
  /\ torrent \in [Ends -> Torrents]
  /\ ours \in [Ends -> OurOffers]
  /\ theirs = [s \in Ends |-> {}] /\ negotiated = [s \in Ends |-> FALSE]
  /\ stage = [s \in Ends |-> "new"]
  /\ wire = [s \in Ends |-> << >>]
  /\ sends = [s \in Ends |-> 0]
  /\ heard = {}
  /\ offered = [s \in Ends |-> {}]

-----------------------------------------------------------------------------
(* The handshake.                                                           *)

(* perform_handshake: ours goes first.                                      *)
Dial ==
  /\ stage[Dialler] = "new"
  /\ stage' = [stage EXCEPT ![Dialler] = "greeting"]
  /\ wire' = [wire EXCEPT ![Listener] = Append(@, Greeting(Dialler))]
  /\ UNCHANGED <<tables, sends, heard, offered>>

(* _negotiate_extensions: only if both sides said they extend.              *)
Opening(s, greeting) ==
  IF greeting.extends /\ ours[s] # {} THEN << Extended(0, ours[s]) >> ELSE << >>

(* Handshake.decode: another torrent than ours closes the connection.       *)
Refuses(s, greeting) == greeting.torrent # torrent[s]

(* The answer is read, and what the other side may extend is noted.         *)
Greets(s, reply) ==
  LET greeting == Head(wire[s])
  IN /\ wire[s] # << >> /\ greeting.kind = "greeting"
     /\ IF Refuses(s, greeting)
        THEN /\ stage' = [stage EXCEPT ![s] = "failed"]
             /\ wire' = [wire EXCEPT ![s] = << >>]
             /\ UNCHANGED offered
        ELSE /\ stage' = [stage EXCEPT ![s] = "open"]
             /\ wire' = [wire EXCEPT ![s] = Tail(@),
                                     ![Other(s)] = @ \o reply \o Opening(s, greeting)]
             /\ offered' = IF Opening(s, greeting) # << >>
                          THEN [offered EXCEPT ![s] = ours[s]] ELSE offered
     /\ UNCHANGED <<tables, sends, heard>>

(* accept_handshake: theirs is read and checked before ours is sent.        *)
AcceptHandshake == stage[Listener] = "new" /\ Greets(Listener, << Greeting(Listener) >>)
Answered == stage[Dialler] = "greeting" /\ Greets(Dialler, << >>)

(* The socket is closed by the side that refused.                           *)
Dropped(s) ==
  /\ stage[s] \in {"greeting", "open"} /\ stage[Other(s)] = "failed" /\ wire[s] = << >>
  /\ stage' = [stage EXCEPT ![s] = "failed"]
  /\ UNCHANGED <<tables, wire, sends, heard, offered>>

-----------------------------------------------------------------------------
(* Extension messages.                                                      *)

(* Faulty variant: the number we gave the extension is put on the message.  *)
NumberOurs(s, name) == {x[2] : x \in {y \in ours[s] : y[1] = name}}

(* can_send and their_id.                                                   *)
NumberFor(s, name) ==
  IF negotiated[s] THEN {x[2] : x \in {y \in theirs[s] : y[1] = name}} ELSE {}

Put(s, message) ==
  /\ stage[s] = "open" /\ sends[s] < MaxSends
  /\ sends' = [sends EXCEPT ![s] = @ + 1]
  /\ wire' = [wire EXCEPT ![Other(s)] = Append(@, message)]
  /\ UNCHANGED <<theirs, negotiated, torrent, stage, heard>>

SendExtension(s, name) ==
  /\ s # Foreign
  /\ \E id \in NumberFor(s, name) : Put(s, Extended(id, name))
  /\ UNCHANGED <<ours, offered>>

(* note_theirs: the newest handshake replaces what was known.               *)
NoteTheirs(s, T) == [theirs EXCEPT ![s] = Usable(T)]

(* _name_for: which of our extensions a number is.                          *)
NameFor(s, id) ==
  IF \E x \in ours[s] : x[2] = id THEN (CHOOSE x \in ours[s] : x[2] = id)[1] ELSE NoName

(* _handle_extended: 0 is a handshake, an unreadable one costs nothing; a   *)
(* number that is not ours is dropped; the rest is handed on by name.       *)
HandleExtended(s) ==
  LET message == Head(wire[s])
      given == NameFor(s, message.id)
  IN /\ stage[s] = "open" /\ wire[s] # << >> /\ message.kind = "extended"
     /\ wire' = [wire EXCEPT ![s] = Tail(@)]
     /\ IF message.id = 0
        THEN /\ heard' = heard
             /\ IF message.body = Broken THEN UNCHANGED <<theirs, negotiated>>
                ELSE /\ theirs' = NoteTheirs(s, message.body)
                     /\ negotiated' = [negotiated EXCEPT ![s] = TRUE]
        ELSE /\ heard' = IF s # Foreign /\ given # NoName
                         THEN heard \cup {[by |-> s, meant |-> message.body, given |-> given]}
                         ELSE heard
             /\ UNCHANGED <<theirs, negotiated>>
     /\ UNCHANGED <<torrent, ours, stage, sends, offered>>

(* What another client may also do.                                         *)
Reoffers(T) ==
  /\ Put(Foreign, Extended(0, T))
  /\ ours' = [ours EXCEPT ![Foreign] = T] /\ offered' = [offered EXCEPT ![Foreign] = T]
Garbles ==
  /\ Put(Foreign, Extended(0, Broken)) /\ UNCHANGED <<ours, offered>>
Guesses(id) ==
  /\ id # 0 /\ id \notin {x[2] : x \in theirs[Foreign]}
  /\ Put(Foreign, Extended(id, NoName)) /\ UNCHANGED <<ours, offered>>
ForeignSends(name) ==
  /\ \E id \in NumberFor(Foreign, name) : Put(Foreign, Extended(id, name))
  /\ UNCHANGED <<ours, offered>>
Elsewhere ==
  /\ Foreign \in Ends
  /\ \/ \E T \in Offers : Reoffers(T)
     \/ Garbles
     \/ \E id \in Ids : Guesses(id)
     \/ \E name \in Names : ForeignSends(name)

ExtNext ==
  \/ Dial \/ AcceptHandshake \/ Answered \/ Elsewhere
  \/ \E s \in Ends : Dropped(s) \/ HandleExtended(s)
  \/ \E s \in Ends, name \in Names : SendExtension(s, name)

ExtSpec == ExtInit /\ [][ExtNext]_extVars

-----------------------------------------------------------------------------
ExtTypeOK ==
  /\ \A s \in Ends : ours[s] \in Offers /\ theirs[s] \in Offers
  /\ stage \in [Ends -> {"new", "greeting", "open", "failed"}]
  /\ sends \in [Ends -> 0 .. MaxSends]

(* Nobody exchanges anything for one torrent with a peer that serves        *)
(* another: a side is only open to one that has the same info hash.         *)
SameTorrent == \A s \in Ends : stage[s] = "open" => torrent[Dialler] = torrent[Listener]

(* A message is handed on under the name its sender meant, whatever numbers *)
(* each side chose and however often it changed them.  (A client that       *)
(* guesses a number before it has read ours means nothing by it.)           *)
NameSurvives == \A h \in heard : h.meant \in {h.given, NoName}

(* Once both are open and nothing is on its way, each side knows exactly    *)
(* the extensions the other last offered, when both said they extend.       *)
AgreedAtRest ==
  \A s \in Ends \ {Foreign} :
    /\ \A r \in Ends : stage[r] = "open" /\ wire[r] = << >>
    /\ ours[s] # {} /\ offered[Other(s)] # {}
    => theirs[s] = Usable(offered[Other(s)]) /\ negotiated[s]
=============================================================================
