----------------------------- MODULE MainWindow -----------------------------
(***************************************************************************)
(* The main window (ui/main_window.py) and the page it shows                *)
(* (ui/web/index.html): first what the page makes of the snapshots, its     *)
(* library and its detail page; then its dialogs, the tray and the way out; *)
(* then its logs and its notices.  What a snapshot holds, and the dialog    *)
(* that adds a torrent, are in WebUi.                                       *)
(*                                                                          *)
(* The page is a process of its own: snapshots and events reach it by a     *)
(* queue, in order, and it handles one thing at a time.  How rows are       *)
(* sorted, folded and drawn is left out, and so is the dashboard, which is  *)
(* drawn anew with every snapshot.                                          *)
(***************************************************************************)
EXTENDS Integers, Sequences, FiniteSets, FiniteSetsExt, SequencesExt

CONSTANTS
  Torrents,   \* info hashes
  NoTorrent,  \* null, or a number that is none
  States,     \* what a torrent of the session may do (TorrentState)
  Gone        \* of a torrent the session does not have

WindowAssumption ==
  /\ IsFiniteSet(Torrents) /\ NoTorrent \notin Torrents
  /\ Gone \notin States

VARIABLES
  session,  \* what each torrent does, or Gone
  known,    \* state.torrents: those of the last snapshot handled
  view,     \* state.view: "lib", "detail", "dash" or any "other"
  needle,   \* the torrents that state.filter matches
  rows,     \* rowRefs: of each torrent with a row, [pill, says], else NoRow
  chosen,   \* state.selected
  detail    \* whose particulars the detail page holds; nobody's, it is hidden

windowVars == <<session, known, view, needle, rows, chosen, detail>>
shownVars == <<view, needle, chosen, detail>>

Views == {"lib", "detail", "dash", "other"}
NoRow == [pill |-> "none", says |-> Gone]
Snapshots == [Torrents -> States \cup {Gone}]
Empty == [t \in Torrents |-> Gone]
Present(snapshot) == {t \in Torrents : snapshot[t] # Gone}

(* A pill has three looks; all that neither loads nor seeds looks paused.   *)
Pill(state) == CASE state = "downloading" -> "down" [] state = "seeding" -> "seed" [] OTHER -> "pause"

WindowInit ==
  /\ session \in Snapshots /\ known = Empty
  /\ view = "dash" /\ needle = Torrents /\ chosen = NoTorrent /\ detail = NoTorrent
  /\ rows = [t \in Torrents |-> NoRow]

-----------------------------------------------------------------------------
SessionMoves(t) ==
  /\ \E s \in States \cup {Gone} : session' = [session EXCEPT ![t] = s]
  /\ UNCHANGED <<known, shownVars, rows>>

(* structLib: all rows are made anew.                                       *)
RowOf(state) == [pill |-> Pill(state), says |-> state]

StructLib(listed, matches) ==
  rows' = [t \in Torrents |-> IF t \in Present(listed) \cap matches THEN RowOf(listed[t]) ELSE NoRow]

(* updateLib: the rows there are; the word on a pill, and the sign on the   *)
(* button beside it, change only when its look does.                        *)
UpdateLib(listed) ==
  rows' = [t \in Torrents |->
             IF rows[t] # NoRow /\ t \in Present(listed) /\ rows[t].pill # Pill(listed[t])
             THEN RowOf(listed[t]) ELSE rows[t]]

(* updateState, of the snapshot of a tick; one that was on its way is one   *)
(* of a session that moves only after it.  Rows are made anew when torrents *)
(* came or went while the library is on screen; the particulars of a        *)
(* torrent that went stay.                                                  *)
UpdateState ==
  /\ known' = session
  /\ CASE view = "lib" /\ Present(known') # Present(known) -> StructLib(known', needle)
       [] view = "lib" /\ Present(known') = Present(known) -> UpdateLib(known')
       [] OTHER -> UNCHANGED rows
  /\ UNCHANGED <<session, shownVars>>

(* renderDetailStruct                                                       *)
Particulars(t) == IF t \in Present(known) THEN t ELSE NoTorrent

SetView(v) ==
  /\ view' = v
  /\ IF v = "lib" THEN StructLib(known, needle) ELSE UNCHANGED rows
  /\ detail' = IF v = "detail" THEN Particulars(chosen) ELSE detail
  /\ UNCHANGED <<session, known, needle, chosen>>

(* The trackers' tab redraws the particulars, of a torrent that is there.   *)
TrackersTab ==
  /\ view = "detail" /\ chosen \in Present(known) /\ detail' = chosen
  /\ UNCHANGED <<session, known, view, needle, rows, chosen>>

Filter(matches) ==
  /\ view = "lib" /\ needle' = matches /\ StructLib(known, matches)
  /\ UNCHANGED <<session, known, view, chosen, detail>>

(* selectTorrent, then setView("detail").  The dashboard turns the hash it  *)
(* is given into a number, which is none.                                   *)
Select(t) ==
  /\ \/ view = "lib" /\ rows[t] # NoRow /\ chosen' = t
     \/ view = "dash" /\ t \in Present(known) /\ chosen' = NoTorrent
  /\ view' = "detail" /\ detail' = Particulars(chosen') /\ StructLib(known, needle)
  /\ UNCHANGED <<session, known, needle>>

WindowNext ==
  \/ \E t \in Torrents : SessionMoves(t) \/ Select(t)
  \/ UpdateState \/ TrackersTab
  \/ \E v \in Views : SetView(v)
  \/ \E S \in SUBSET Torrents : Filter(S)

WindowSpec == WindowInit /\ [][WindowNext]_windowVars /\ WF_windowVars(UpdateState)

-----------------------------------------------------------------------------
WindowTypeOK ==
  /\ session \in Snapshots /\ known \in Snapshots
  /\ view \in Views /\ needle \subseteq Torrents
  /\ {chosen, detail} \subseteq Torrents \cup {NoTorrent}
  /\ rows \in [Torrents -> [pill : {"down", "seed", "pause", "none"}, says : States \cup {Gone}]]

(* The library has a row of each torrent of the last snapshot that the      *)
(* filter matches, and of no other, with the look of what it does, however  *)
(* often the page was left, filtered and entered again (updateState).       *)
LibraryIsShown ==
  view = "lib" =>
    \A t \in Torrents :
      /\ rows[t] # NoRow <=> t \in Present(known) \cap needle
      /\ rows[t] # NoRow => rows[t].pill = Pill(known[t]) /\ rows[t].pill = Pill(rows[t].says)

(* The particulars on the detail page are of the torrent selected, or       *)
(* hidden: the buttons beside them are about the torrent selected.          *)
DetailIsOfChosen == view = "detail" => detail \in {chosen, NoTorrent}

(* A torrent that stays as it is, is shown so in the end by a library that  *)
(* stays on screen; one that is gone loses its row.                         *)
SettledIsShown ==
  \A t \in Torrents, s \in States \cup {Gone} :
    <>[](view = "lib" /\ t \in needle /\ session[t] = s)
      => <>[](IF s = Gone THEN rows[t] = NoRow ELSE rows[t].pill = Pill(s))

(* The word on a pill is what the torrent does; it is not, for a torrent    *)
(* that goes from "starting" to "paused", as both look alike (updateLib).   *)
RowSaysState == view = "lib" => \A t \in Torrents : rows[t] # NoRow => rows[t].says = known[t]

-----------------------------------------------------------------------------
(* The dialogs, the tray and the way out.                                   *)
VARIABLES
  removing,   \* whether the dialog that removes is open
  pendingRm,  \* whom it is about
  named,      \* whose name it shows
  deleting,   \* rmFiles.checked
  labelled,   \* whether its button says that files are deleted too
  removals,   \* bridge.remove_torrent was called: [of, data]
  agreed,     \* history: what the dialog showed when its button was pressed
  leaving,    \* whether the dialog of the exit is open
  shell,      \* the window: "shown", "hidden" or "closed"
  tray,       \* whether the icon in the tray is there
  chip        \* whether the page has made room for its chip

removeVars == <<removing, pendingRm, named, deleting, labelled, removals, agreed>>
shellVars == <<leaving, shell, tray, chip>>
dialogVars == <<removeVars, shellVars>>

DialogInit ==
  /\ removing = FALSE /\ pendingRm = NoTorrent /\ named = NoTorrent
  /\ deleting = FALSE /\ labelled = FALSE /\ removals = {} /\ agreed = {}
  /\ leaving = FALSE /\ shell = "shown" /\ tray = FALSE /\ chip = FALSE

(* A dialog covers the page.                                                *)
OpenRm(t) ==
  /\ shell = "shown" /\ ~removing /\ ~leaving /\ ~chip
  /\ removing' = TRUE /\ pendingRm' = t /\ named' = t /\ deleting' = FALSE /\ labelled' = FALSE
  /\ UNCHANGED <<removals, agreed, shellVars>>

TickFiles ==
  /\ removing /\ ~leaving /\ shell = "shown"
  /\ deleting' = ~deleting /\ labelled' = deleting'
  /\ UNCHANGED <<removing, pendingRm, named, removals, agreed, shellVars>>

(* Cancel, or a click beside the dialog: whom it was about stays.           *)
RmCancel ==
  /\ removing /\ ~leaving /\ shell = "shown" /\ removing' = FALSE
  /\ UNCHANGED <<pendingRm, named, deleting, labelled, removals, agreed, shellVars>>

RmOk ==
  /\ removing /\ ~leaving /\ shell = "shown" /\ removing' = FALSE
  /\ removals' = IF pendingRm = NoTorrent THEN removals ELSE removals \cup {[of |-> pendingRm, data |-> deleting]}
  /\ agreed' = agreed \cup {[of |-> named, data |-> labelled]}
  /\ pendingRm' = NoTorrent
  /\ UNCHANGED <<named, deleting, labelled, shellVars>>

Escape ==
  /\ shell = "shown" /\ removing' = FALSE /\ leaving' = FALSE
  /\ UNCHANGED <<pendingRm, named, deleting, labelled, removals, agreed, shell, tray, chip>>

(* closeEvent, of a window that is not forced: the page is told to ask.     *)
CloseEvent ==
  /\ shell = "shown" /\ leaving' = TRUE
  /\ UNCHANGED <<removeVars, shell, tray, chip>>

ExitNo ==
  /\ leaving /\ shell = "shown" /\ leaving' = FALSE
  /\ UNCHANGED <<removeVars, shell, tray, chip>>

(* exitTray and minimize_tray                                               *)
ExitTray ==
  /\ leaving /\ shell = "shown" /\ leaving' = FALSE
  /\ shell' = "hidden" /\ tray' = TRUE /\ chip' = TRUE
  /\ UNCHANGED removeVars

(* A click on the icon, or Restore: the page stays behind its chip.         *)
Restore ==
  /\ tray /\ shell # "closed" /\ shell' = "shown"
  /\ UNCHANGED <<removeVars, leaving, tray, chip>>

ChipClicked ==
  /\ chip /\ shell = "shown" /\ chip' = FALSE
  /\ UNCHANGED <<removeVars, leaving, shell, tray>>

(* exitClose and exit_app, or Quit in the tray: force_close.                *)
ForceClose ==
  /\ shell # "closed" /\ (tray \/ (leaving /\ shell = "shown"))
  /\ shell' = "closed" /\ leaving' = FALSE
  /\ UNCHANGED <<removeVars, tray, chip>>

DialogNext ==
  \/ \E t \in Torrents : OpenRm(t)
  \/ TickFiles \/ RmCancel \/ RmOk \/ Escape
  \/ CloseEvent \/ ExitNo \/ ExitTray \/ Restore \/ ChipClicked \/ ForceClose

(* A removal is of the torrent the dialog named, and deletes its files only *)
(* if the button said so, whatever was ticked, cancelled and opened before. *)
RemovesWhatWasShown == removals \subseteq agreed

(* A client whose window is hidden can be called back or told to quit.      *)
HiddenHasTray == shell = "hidden" => tray

-----------------------------------------------------------------------------
(* The logs and the notices.  An event is told apart by whom it is of and   *)
(* whether a notice is due of it.                                           *)
CONSTANTS
  EventsSeen,  \* the events there may be: [of, due]
  Filters,     \* for each choice of severity and search, the events it shows
  Kept,        \* how many state.events holds
  KeptRows,    \* how many rows a log is cut to
  MaxVisible,  \* how many notices are on screen
  MaxTold,     \* bound: events
  MaxNotices   \* bound: notices

VARIABLES
  events,   \* state.events, oldest first
  filter,   \* the events the log shows
  feed,     \* logFeed: the rows of the log
  about,    \* state.selected
  own,      \* dlogFeed: the rows of the log on the detail page
  told,     \* history: every event
  cards,    \* the notices on screen: [n, out]
  notices,  \* history: how many there were
  retired   \* history: notices whose time was over, or that were closed

linesVars == <<events, filter, feed, about, own, told, cards, notices, retired>>
noticeVars == <<cards, notices, retired>>

LinesInit ==
  /\ events = <<>> /\ told = <<>> /\ feed = <<>> /\ own = <<>>
  /\ filter \in Filters /\ about = NoTorrent
  /\ cards = <<>> /\ notices = 0 /\ retired = {}

Newest(s, n) == SubSeq(s, IF Len(s) > n THEN Len(s) - n + 1 ELSE 1, Len(s))

(* toast: room is made at the end of the oldest, fading or not.             *)
Toast == cards' = Newest(Append(cards, [n |-> notices + 1, out |-> FALSE]), MaxVisible) /\ notices' = notices + 1

(* pushEvent and appendLog: what the log does not show is not added to the  *)
(* log of the detail page either, nor is an event of a torrent that the     *)
(* page does not know.  Notices can be turned off.                          *)
PushEvent(e) ==
  /\ Len(told) < MaxTold /\ told' = Append(told, e)
  /\ events' = Newest(Append(events, e), Kept)
  /\ IF e \in filter
     THEN /\ feed' = Newest(Append(feed, e), KeptRows)
          /\ \/ own' = own
             \/ e.of # NoTorrent /\ e.of = about /\ own' = Newest(Append(own, e), KeptRows)
     ELSE UNCHANGED <<feed, own>>
  /\ \/ e.due /\ notices < MaxNotices /\ Toast
     \/ UNCHANGED <<cards, notices>>
  /\ UNCHANGED <<filter, about, retired>>

(* renderLogFull: the log is entered, filtered or searched.                 *)
RenderLogFull(shown) ==
  /\ filter' = shown
  /\ feed' = SelectSeq(events, LAMBDA e : e \in shown)
  /\ own' = SelectSeq(events, LAMBDA e : e.of = about)
  /\ UNCHANGED <<events, about, told, noticeVars>>

(* selectTorrent leaves the log of the detail page as it is.                *)
Chosen(t) ==
  /\ about' = t
  /\ UNCHANGED <<events, filter, feed, own, told, noticeVars>>

(* kill, by its own timer or by a click; then the card fades and goes.      *)
TimeUp(i) ==
  /\ ~cards[i].out
  /\ cards' = [cards EXCEPT ![i].out = TRUE] /\ retired' = retired \cup {cards[i].n}
  /\ UNCHANGED <<events, filter, feed, about, own, told, notices>>

Faded(i) ==
  /\ cards[i].out /\ cards' = RemoveAt(cards, i)
  /\ UNCHANGED <<events, filter, feed, about, own, told, notices, retired>>

LinesNext ==
  \/ \E e \in EventsSeen : PushEvent(e)
  \/ \E shown \in Filters : RenderLogFull(shown)
  \/ \E t \in Torrents : Chosen(t)
  \/ \E i \in DOMAIN cards : TimeUp(i) \/ Faded(i)

(* The log holds the newest events its filter shows, in order and without a *)
(* gap, and no fewer than are kept of them, however often it was filtered   *)
(* while events came (pushEvent, appendLog, renderLogFull).                 *)
LogIsNewest ==
  LET shown(s) == SelectSeq(s, LAMBDA e : e \in filter)
  IN /\ feed = Newest(shown(told), Len(feed))
     /\ Len(feed) >= Min({KeptRows, Len(shown(events))})

(* A notice leaves the screen when its time is over or when it is not among *)
(* the newest any more, and not otherwise (toast).                          *)
NoticesAreNewest ==
  /\ Len(cards) <= MaxVisible
  /\ \A i, j \in DOMAIN cards : i < j => cards[i].n < cards[j].n
  /\ \A n \in 1 .. notices :
       n > notices - MaxVisible /\ n \notin retired => \E i \in DOMAIN cards : cards[i].n = n

(* The log on the detail page is of the torrent selected; it is not, until  *)
(* the log is next entered, when another torrent is selected.               *)
OwnLogIsOwn == \A i \in DOMAIN own : own[i].of = about
=============================================================================
