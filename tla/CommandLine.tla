---------------------------- MODULE CommandLine -----------------------------
(***************************************************************************)
(* The commands of cli/main.py, and the download under Ctrl-C.  asyncio.run *)
(* turns the first Ctrl-C into a cancellation of the command's coroutine,   *)
(* wherever it waits; the second stops the loop and cancels what is left of *)
(* it; after that nothing is waited for any more.                           *)
(***************************************************************************)
EXTENDS Naturals

CONSTANTS
  Silent,  \* --quiet or --json: no progress line
  NoSeed,  \* --no-seed
  MaxCtrlC \* bound: interrupts

VARIABLES
  command,   \* "info", "announce" or "download"
  where,     \* where it is: "parsing" the torrent; "announcing"; in a
             \* download "adding", "waiting", "unwinding" (for the task of
             \* the progress line), "seeding", "closing"; or "ended"
  finished,  \* what wait_until_complete returned; what was asked was done
  unwritten, \* whether there is progress the resume file does not have
  leaving,   \* whether an interrupt is on its way out of the coroutine
  said,      \* whether "interrupted - progress saved" was printed
  code,      \* the exit code, 255 before there is one
  ctrlC,     \* interrupts so far
  caught     \* history: an interrupt arrived while the session closed, or
             \* was the third

cliVars == <<command, where, finished, unwritten, leaving, said, code, ctrlC, caught>>

CliInit ==
  /\ command \in {"info", "announce", "download"}
  /\ where = "parsing" /\ finished = FALSE /\ unwritten = FALSE /\ leaving = FALSE
  /\ said = FALSE /\ code = 255 /\ ctrlC = 0 /\ caught = FALSE

Interrupted == 130

(* The torrent is read; one that cannot be ends the command.                *)
Parsed(readable) ==
  /\ where = "parsing"
  /\ where' = IF ~readable \/ command = "info" THEN "ended"
           ELSE IF command = "announce" THEN "announcing" ELSE "adding"
  /\ finished' = (readable /\ command = "info")
  /\ code' = IF ~readable THEN 1 ELSE IF command = "info" THEN 0 ELSE code
  /\ UNCHANGED <<command, unwritten, leaving, said, ctrlC, caught>>

(* Some tracker answers, or none does; the manager is closed either way.    *)
AnnounceEnds(answered) ==
  /\ where = "announcing" /\ where' = "ended"
  /\ finished' = answered /\ code' = IF answered THEN 0 ELSE 1
  /\ UNCHANGED <<command, unwritten, leaving, said, ctrlC, caught>>

(* A tracker nobody speaks to, or a session that refuses the torrent: the   *)
(* exception leaves through the session's close.                            *)
AddFails ==
  /\ where = "adding" /\ where' = "closing"
  /\ UNCHANGED <<command, finished, unwritten, leaving, said, code, ctrlC, caught>>

Added == where = "adding" /\ where' = "waiting"
         /\ UNCHANGED <<command, finished, unwritten, leaving, said, code, ctrlC, caught>>

Piece == /\ where \in {"waiting", "unwinding"} /\ ~finished /\ ~unwritten
         /\ unwritten' = TRUE
         /\ UNCHANGED <<command, where, finished, leaving, said, code, ctrlC, caught>>

(* What follows the wait: seeding, or the end of the session.               *)
Next2(well) == IF well /\ ~NoSeed THEN "seeding" ELSE "closing"

(* The download is complete, and saved, or its time is up.                  *)
WaitEnds(well) ==
  /\ where = "waiting"
  /\ finished' = well /\ unwritten' = (unwritten /\ ~well)
  /\ where' = IF Silent THEN Next2(well) ELSE "unwinding"
  /\ UNCHANGED <<command, leaving, said, code, ctrlC, caught>>

(* The task of the progress line has ended.                                 *)
Unwound ==
  /\ where = "unwinding"
  /\ where' = IF leaving THEN "closing" ELSE Next2(finished)
  /\ said' = (said \/ (leaving /\ ~Silent))
  /\ UNCHANGED <<command, finished, unwritten, leaving, code, ctrlC, caught>>

SeedingEnds == where = "seeding" /\ where' = "closing"
               /\ UNCHANGED <<command, finished, unwritten, leaving, said, code, ctrlC, caught>>

ExitCode == IF leaving THEN Interrupted ELSE IF finished THEN 0 ELSE 1

(* Session.aclose has saved everything. After a second Ctrl-C the code is   *)
(* that of the interrupt.                                                   *)
Closed ==
  /\ where = "closing" /\ where' = "ended"
  /\ unwritten' = FALSE
  /\ code' = IF ctrlC > 1 THEN Interrupted ELSE ExitCode
  /\ UNCHANGED <<command, finished, leaving, said, ctrlC, caught>>

(* The cancellation arrives while the torrent is added, downloaded or       *)
(* seeded: the session is closed on the way out.                            *)
CancelWork ==
  /\ where \in {"adding", "waiting", "seeding"}
  /\ where' = IF where = "waiting" /\ ~Silent THEN "unwinding" ELSE "closing"
  /\ leaving' = TRUE
  /\ said' = (where = "seeding" \/ (where = "waiting" /\ Silent)) /\ ~Silent
  /\ UNCHANGED <<unwritten, code, caught>>

(* While it waits for the progress line's task, whose own cancellation is   *)
(* suppressed, a cancellation of the command is suppressed with it.         *)
CancelUnwinding ==
  /\ where = "unwinding"
  /\ UNCHANGED <<where, leaving, said, unwritten, code, caught>>

(* Session.aclose is cut short.                                             *)
CancelClose ==
  /\ where = "closing" /\ where' = "ended"
  /\ code' = Interrupted /\ caught' = TRUE
  /\ UNCHANGED <<unwritten, leaving, said>>

CtrlC ==
  /\ where # "ended" /\ ctrlC < MaxCtrlC
  /\ ctrlC' = ctrlC + 1
  /\ IF where \in {"parsing", "announcing"}
     THEN where' = "ended" /\ code' = Interrupted /\ UNCHANGED <<unwritten, leaving, said, caught>>
     ELSE IF ctrlC < 2 THEN CancelWork \/ CancelUnwinding \/ CancelClose
     ELSE /\ where' = "ended" /\ code' = Interrupted /\ caught' = TRUE
          /\ UNCHANGED <<unwritten, leaving, said>>
  /\ UNCHANGED <<command, finished>>

CliNext ==
  \/ Added \/ AddFails \/ Piece \/ Unwound \/ SeedingEnds \/ Closed \/ CtrlC
  \/ \E well \in BOOLEAN : Parsed(well) \/ AnnounceEnds(well) \/ WaitEnds(well)

CliSpec == CliInit /\ [][CliNext]_cliVars

-----------------------------------------------------------------------------
(* Progress is on disk when the command has ended, wherever one or two      *)
(* interrupts found it, the close of the session apart.                     *)
EndedIsSaved == where = "ended" /\ ~caught => ~unwritten

(* A script that sees 0 has what it asked for: the torrent could be read, a *)
(* tracker has answered, the download is complete.                          *)
ZeroIsComplete == code = 0 => finished

(* "interrupted - progress saved, resume with the same command".            *)
SaidIsSaved == where = "ended" /\ said => ~unwritten
=============================================================================
