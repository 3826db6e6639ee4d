-------------------------- MODULE HyperdeckUpload ---------------------------
(***************************************************************************)
(* upload_clip: one file sent to a deck over FTP, and what is left on the  *)
(* deck when the transfer is cancelled or fails.  FTP answers commands in  *)
(* order on one control connection, so a STOR that is stopped has its      *)
(* reply read before the partial file is deleted.                          *)
(***************************************************************************)
EXTENDS Naturals, FiniteSets

CONSTANTS Chunks,       \* chunks of the file
          Volumes       \* directory names of the FTP root, in order of preference

ASSUME UploadSizes == Chunks \in Nat \ {0} /\ Volumes \subseteq Nat

VARIABLES up,     \* upload_clip: its place, the directory, chunks sent, the outcome
          ftp     \* the deck's FTP server

uVars == <<up, ftp>>

NoDir == 99
Ends  == {"ok", "cancelled", "failed"}

Fail(why) == up' = [up EXCEPT !.at = "failed", !.why = why]
Goto(at)  == up' = [up EXCEPT !.at = at]

\* The deck answers, refuses (error_perm), or the control connection is dead.
Alive == ~ftp.dead
Dies  == /\ Alive /\ ftp.mayDie /\ up.at \notin Ends
         /\ ftp' = [ftp EXCEPT !.dead = TRUE]
         /\ UNCHANGED up

-----------------------------------------------------------------------------

\* The file to send is there, or FileNotFoundError before anything is sent.
Begin ==
    /\ up.at = "idle"
    /\ \E there \in BOOLEAN, slot \in Volumes \cup {NoDir}, roots \in SUBSET Volumes,
          mayDie \in BOOLEAN, old \in {"none", "old"}, patient \in BOOLEAN :
          /\ up' = [up EXCEPT !.at = IF there THEN "login" ELSE "failed",
                              !.slot = slot, !.cancellable = patient]
          /\ ftp' = [ftp EXCEPT !.roots = roots, !.mayDie = mayDie, !.file = old]

\* The credentials given, then the canonical anonymous ones.
Login ==
    /\ up.at = "login"
    /\ \/ Alive /\ Goto("dir")
       \/ Alive /\ ~up.retried /\ up' = [up EXCEPT !.retried = TRUE]
       \/ (up.retried \/ ~Alive) /\ Fail("login")
    /\ UNCHANGED ftp

\* _resolve_slot_dir and CWD: the slot asked for, else the preferred volume.
ChangeDir ==
    /\ up.at = "dir"
    /\ LET dir == IF up.slot # NoDir THEN up.slot
                  ELSE IF ftp.roots = {} THEN NoDir
                  ELSE CHOOSE d \in ftp.roots : \A e \in ftp.roots : d <= e
       IN IF Alive /\ dir \in ftp.roots THEN up' = [up EXCEPT !.at = "stor", !.dir = dir]
          ELSE Fail("no volume")
    /\ UNCHANGED ftp

\* STOR: the deck opens the file, over one of that name, or refuses it.
Store ==
    /\ up.at = "stor"
    /\ \/ Alive /\ Goto("data") /\ ftp' = [ftp EXCEPT !.file = "partial", !.busy = TRUE]
       \/ Fail("refused") /\ UNCHANGED ftp

\* A chunk, and then should_cancel, at most once a second.
SendChunk ==
    /\ up.at = "data" /\ up.sent < Chunks
    /\ IF Alive
       THEN \E stop \in {FALSE, up.cancellable} :
               up' = [up EXCEPT !.sent = @ + 1, !.at = IF stop THEN "stopped" ELSE @]
       ELSE Fail("broken")
    /\ UNCHANGED ftp

\* The end of the file: the deck has it all when it says so.
Finish ==
    /\ up.at = "data" /\ up.sent = Chunks
    /\ \/ Alive /\ Goto("ok") /\ ftp' = [ftp EXCEPT !.file = "whole", !.busy = FALSE]
       \/ Fail("broken") /\ UNCHANGED ftp

\* The deck is done with the transfer that was stopped: it keeps what it got (all
\* of it, for what it knows) or drops it.
DeckEnds ==
    /\ ftp.busy /\ up.at \in Ends \cup {"stopped", "deleting", "listing"}
    /\ \E left \in {"partial", "none"} : ftp' = [ftp EXCEPT !.file = left, !.busy = FALSE]
    /\ UNCHANGED up

\* _discard_partial reads the reply to the stopped STOR, a refusal or not; past
\* its time the connection is of no more use.
ReadStopped ==
    /\ up.at = "stopped"
    /\ \/ Alive /\ ~ftp.busy /\ Goto("deleting") /\ UNCHANGED ftp
       \/ (ftp.busy \/ ~Alive) /\ Goto("deleting") /\ ftp' = [ftp EXCEPT !.dead = TRUE]

\* DELE; 550 is no reason not to look.
Delete ==
    /\ up.at = "deleting"
    /\ \/ Alive /\ Goto("listing") /\ ftp' = [ftp EXCEPT !.file = "none"]
       \/ Alive /\ Goto("listing") /\ UNCHANGED ftp                    \* refused
       \/ ~Alive /\ up' = [up EXCEPT !.at = "cancelled", !.removed = FALSE]
          /\ UNCHANGED ftp

\* Mutant: the DELE's answer is believed.
Believed == /\ up.at = "listing"
            /\ up' = [up EXCEPT !.at = "cancelled", !.removed = TRUE]
            /\ UNCHANGED ftp

\* NLST is what counts; a deck may refuse it for an empty directory.
List ==
    /\ up.at = "listing"
    /\ \E answered \in BOOLEAN :
          up' = [up EXCEPT !.at = "cancelled",
                           !.removed = Alive /\ answered /\ ftp.file = "none"]
    /\ UNCHANGED ftp

-----------------------------------------------------------------------------

UploadInit ==
    /\ up = [at |-> "idle", slot |-> NoDir, dir |-> NoDir, retried |-> FALSE, sent |-> 0,
             cancellable |-> FALSE, removed |-> FALSE, why |-> ""]
    /\ ftp = [roots |-> {}, file |-> "none", busy |-> FALSE, dead |-> FALSE,
              mayDie |-> FALSE]

UploadNext ==
    \/ Begin \/ Login \/ ChangeDir \/ Store \/ SendChunk \/ Finish
    \/ ReadStopped \/ Delete \/ List \/ Dies \/ DeckEnds

UploadSpec == UploadInit /\ [][UploadNext]_uVars

-----------------------------------------------------------------------------
(* Properties. *)

\* UploadCancelled.partial_removed may be believed: whatever the deck answered to
\* the stopped transfer and to the DELE, and however late, the deck has no file of
\* that name left, then or later; and an upload that returns has left all of it.
EndIsTrue ==
    /\ up.at = "cancelled" /\ up.removed => ftp.file = "none"
    /\ up.at = "ok" => ftp.file = "whole"
=============================================================================
