----------------------------- MODULE Ultimatte ------------------------------
(***************************************************************************)
(* ultimattewire's archive of a unit into a zip and the restore of the zip *)
(* to one.  Every resource is a connection of its own: a read is a length  *)
(* and a body, a write is acknowledged with AckLen zero bytes, and each    *)
(* may end early.  The order of the resources is that of the pushes:       *)
(* presets sorted by name, GPISettings, and SavedSettings last, which the  *)
(* unit runs at once.                                                      *)
(***************************************************************************)
EXTENDS Naturals, Sequences

CONSTANTS Presets,     \* names of preset slots, by their order
          AckLen       \* ACK_LEN

ASSUME UltimatteSizes == /\ Presets \subseteq 1 .. 99 /\ Presets # {}
                         /\ AckLen \in Nat \ {0}

VARIABLES job,      \* the archive or restore: its place, FILE LIST, warnings
          zip,      \* the archive: resource -> value
          box       \* the unit: what it holds, and the SavedSettings it runs

bVars == <<job, zip, box>>

Gpi       == 100
Saved     == 101
Resources == Presets \cup {Gpi, Saved}
Torn       == "cut"                    \* half of a resource

Holding(v) == [r \in Resources |-> v]
FirstOf(rs)  == CHOOSE r \in rs : \A q \in rs : r <= q

-----------------------------------------------------------------------------
(* The archive. *)

\* read_preamble, to the end of the prelude or until the unit has been quiet for a
\* while: the FILE LIST of what came, or an error if nothing did.
ReadFileList ==
    /\ job.at = "idle"
    /\ \/ job' = [job EXCEPT !.at = "archive", !.todo = Resources]
       \/ \E n \in Presets :
             job' = [job EXCEPT !.at = "archive", !.short = TRUE,
                                !.todo = {p \in Presets : p < n} \cup {Gpi, Saved}]
       \/ job' = [job EXCEPT !.at = "failed"]
    /\ UNCHANGED <<zip, box>>

\* Mutant: whatever came before the connection ended is the resource.
ReadsShort(r) == {box.has[r], Torn}

\* binary_request: the body at its full length, or IOError (a connection refused
\* twice, an end before the length or inside the body).
Reads(r) == {box.has[r], "IOError"}

\* Each resource in turn; one that cannot be read is left out, with a warning.
ReadResource ==
    /\ job.at = "archive" /\ job.todo # {}
    /\ \E v \in Reads(FirstOf(job.todo)) :
          LET r == FirstOf(job.todo) IN
          IF v = "IOError"
          THEN /\ job' = [job EXCEPT !.todo = @ \ {r}, !.warnings = @ \cup {r}]
               /\ UNCHANGED zip
          ELSE /\ job' = [job EXCEPT !.todo = @ \ {r}]
               /\ zip' = [q \in DOMAIN zip \cup {r} |-> IF q = r THEN v ELSE zip[q]]
    /\ UNCHANGED box

Archived ==
    /\ job.at = "archive" /\ job.todo = {}
    /\ job' = [job EXCEPT !.at = "archived"]
    /\ UNCHANGED <<zip, box>>

-----------------------------------------------------------------------------
(* The restore. *)

\* To a unit that holds other things by now.
StartRestore ==
    /\ job.at = "archived"
    /\ job' = [job EXCEPT !.at = "restore", !.todo = DOMAIN zip]
    /\ box' = [has |-> Holding("new"), live |-> "new"]
    /\ UNCHANGED zip

\* The bytes the unit sends before it closes, and whether it has taken the write:
\* zeros if it has, something else at their end if it has not, any number of them
\* or none.
Zeros(n) == [i \in 1 .. n |-> 0]

Acks(taken) ==
    IF taken THEN {Zeros(n) : n \in 0 .. AckLen}
    ELSE {Zeros(n) : n \in 0 .. AckLen - 1} \cup {Append(Zeros(AckLen - 1), 1)}

\* Mutant: a connection closed without a byte is a success.
AckOkEmpty(ack) == \A i \in DOMAIN ack : ack[i] = 0

\* upload_one: at least one byte, and all of them zeros.
AckOk(ack) == ack # <<>> /\ \A i \in DOMAIN ack : ack[i] = 0

WrittenTo(r) ==
    [has |-> [box.has EXCEPT ![r] = zip[r]],
     live |-> IF r = Saved THEN zip[r] ELSE box.live]

\* Mutant: the first member by the zip's own order, where the settings come first.
SettingsFirst(rs) == CHOOSE r \in rs : \A q \in rs : r >= q

\* The next member of the zip to be pushed.
NextPush(rs) == FirstOf(rs)

\* One member: acknowledged and the next, or the restore stops there.
Push ==
    /\ job.at = "restore" /\ job.todo # {}
    /\ LET r == NextPush(job.todo) IN
       \/ \E taken \in BOOLEAN : \E ack \in Acks(taken) :
             /\ box' = IF taken THEN WrittenTo(r) ELSE box
             /\ job' = IF AckOk(ack)
                       THEN [job EXCEPT !.todo = @ \ {r}, !.cut = @ \/ (~taken /\ ack # <<>>)]
                       ELSE [job EXCEPT !.at = "stopped"]
       \/ job' = [job EXCEPT !.at = "stopped"] /\ UNCHANGED box       \* no connection
    /\ UNCHANGED zip

Restored ==
    /\ job.at = "restore" /\ job.todo = {}
    /\ job' = [job EXCEPT !.at = "restored"]
    /\ UNCHANGED <<zip, box>>

-----------------------------------------------------------------------------

UltimatteInit ==
    /\ job = [at |-> "idle", todo |-> {}, warnings |-> {}, short |-> FALSE, cut |-> FALSE]
    /\ zip = [r \in {} |-> ""]
    /\ box = [has |-> Holding("old"), live |-> "old"]

UltimatteNext ==
    \/ ReadFileList \/ ReadResource \/ Archived
    \/ StartRestore \/ Push \/ Restored

UltimatteSpec == UltimatteInit /\ [][UltimatteNext]_bVars

-----------------------------------------------------------------------------
(* Properties. *)

\* A restore that says it is done has given the unit every member of the zip, as
\* the archived unit held it and never half of it, but for a refusal whose answer
\* was cut short after its first zeros, which nothing tells from a short ACK; what
\* the zip lacks the archive has warned of, if the unit listed it in time.
RestoredIsArchived ==
    /\ \A r \in DOMAIN zip : zip[r] = "old"
    /\ job.at = "archived" /\ ~job.short => Resources = DOMAIN zip \cup job.warnings
    /\ job.at = "restored" /\ ~job.cut => \A r \in DOMAIN zip : box.has[r] = zip[r]

\* The unit runs other settings only once everything else in the zip is on it: a
\* restore that stops on the way leaves the live state alone.
LiveComesLast ==
    job.at \in {"restore", "stopped", "restored"} /\ box.live = "old" /\ ~job.cut
        => \A r \in DOMAIN zip : box.has[r] = zip[r]

\* archive_unit_to_bytes says that it pulls "a full archive", its soft failures in
\* "warnings".
FullOrWarned == job.at = "archived" => Resources = DOMAIN zip \cup job.warnings
=============================================================================
