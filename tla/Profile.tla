------------------------------ MODULE Profile -------------------------------
(***************************************************************************)
(* Profile.apply: a saved profile is restored to a live switcher, section  *)
(* by section in a fixed order, command by command.  A setter only queues  *)
(* its command; the connection's worker sends it later, to whatever        *)
(* session there is then, while the connection may go through a new        *)
(* handshake or die: a command queued without an exception may be lost     *)
(* without a word.  The macros alone are uploaded while apply() waits.     *)
(* Every M/E section counts the switcher's M/Es anew, from the mixer state *)
(* of the moment it starts.                                                *)
(*                                                                         *)
(* A value is what matters of it: the switcher's own ("before"), the       *)
(* profile's ("saved"), or what a fly keyframe put there on the way.  Some *)
(* controls stand for the many that are set the same way: "dve" and "fly"  *)
(* for the two halves of a keyer's live geometry, "style" for a transition *)
(* style with all its parameters.  Of the ApplyResult, the errors and the  *)
(* sections left are kept; result.applied is not.                          *)
(***************************************************************************)
EXTENDS Integers, Sequences, FiniteSets, SequencesExt

CONSTANTS SavedMEs,      \* how many M/Es the profile has
          LiveMEs,       \* how many the switcher has
          Options,       \* the ApplyOptions to try, each with its bound on
                         \* troubles: lost connections and failing commands
          MaxOutbox      \* how far apply() runs ahead of the worker

ASSUME ProfileBounds == SavedMEs \in Nat /\ LiveMEs \in Nat \ {0}

MEs == 0 .. SavedMEs - 1

VARIABLES
    opts,     \* the options of this apply(); bad: the attributes of the
              \* profile with a number no int() takes ("1e999")
    run,      \* apply(): the next section, the one at work and its commands
              \* left, result.errors, the sections left although asked for,
              \* the M/Es passed over; raised: it ended in an exception
    outbox,   \* the commands sent and not yet at the switcher: _cmd_queue and
              \* what the worker has of it in flight
    lost,     \* ghost: what of them never reached the switcher
    switcher, \* what was changed of the switcher: control -> value
    conn      \* at: the connection's session (Carries below); troubles: how
              \* often it failed, or a command did

pVars == <<opts, run, outbox, lost, switcher, conn>>

MeOpt(me) == IF me < Len(opts.mes) THEN opts.mes[me + 1]
             ELSE [flags |-> {}, usk |-> {}]
KeyerNos == {0, 1}

Ctl(where, what) == <<where, what>>
Me(me)           == <<"me", me>>
Key(me, k)       == <<"key", me, k>>
All              == <<"all">>

-----------------------------------------------------------------------------
(* The commands of a section, in the order the code sends them.            *)
Cmd(c, val) == [c |-> c, val |-> val]
AsSaved(where, names) == [i \in 1 .. Len(names) |-> Cmd(Ctl(where, names[i]), "saved")]
If(cond, cmds) == IF cond THEN cmds ELSE <<>>

Inputs          == AsSaved(All, <<"label1", "label2">>)
SettingsFlags   == AsSaved(All, <<"ftb_enabled">>)
ColorGenerators == AsSaved(All, <<"hue", "saturation", "luma">>)
Auxiliaries     == AsSaved(All, <<"aux">>)
DownstreamKeys  == AsSaved(All, <<"dsk_sources", "dsk_mask", "dsk_gain",
                                "dsk_on_air", "dsk_tie">>)
MediaPlayers    == AsSaved(All, <<"player">>)
HyperDecks      == AsSaved(All, <<"hyperdeck">>)
\* Master, its bands and dynamics, then every strip with its own.
Fairlight       == AsSaved(All, <<"master", "master_band", "master_dynamics",
                                "strip", "strip_eq", "strip_dynamics">>)

\* Style and all five styles' parameters; the next transition in one packet.
Transition(me) ==
    If("style" \in MeOpt(me).flags, AsSaved(Me(me), <<"style", "parameters">>))
    \o If("next" \in MeOpt(me).flags, AsSaved(Me(me), <<"next">>))

\* One fly keyframe: the live geometry goes through it and is snapshot.
FlyKeyframe(me, k, which) ==
    << Cmd(Ctl(Key(me, k), "fly"), which), Cmd(Ctl(Key(me, k), "dve"), which),
       Cmd(Ctl(Key(me, k), "snapshot"), which) >>

\* Mutant of UskBlock: the keyframes after the live geometry, where they stand
\* in the profile.
UskKeyframesLast(me, k) ==
    AsSaved(Key(me, k), <<"type", "sources", "on_air", "mask", "luma", "pattern",
                        "dve", "chroma", "cursor", "colour", "fly", "rate">>)
    \o If(opts.keyframes, FlyKeyframe(me, k, "A") \o FlyKeyframe(me, k, "B"))

\* A keyer: type first; keyframes before the live geometry; the sampled colour
\* after the cursor it is sampled at.
UskBlock(me, k) ==
    AsSaved(Key(me, k), <<"type", "sources", "on_air", "mask", "luma", "pattern">>)
    \o If(opts.keyframes, FlyKeyframe(me, k, "A") \o FlyKeyframe(me, k, "B"))
    \o AsSaved(Key(me, k), <<"dve", "chroma", "cursor", "colour", "fly", "rate">>)
UpstreamKeyers(me) ==
    FlattenSeq([i \in 1 .. 2 |->
        If(i - 1 \in MeOpt(me).usk, UskBlock(me, i - 1))])

FadeToBlack(me) == If("ftb" \in MeOpt(me).flags, AsSaved(Me(me), <<"ftb_rate">>))
\* Preview first, so that a pair lands as intended.
ProgramPreview(me) ==
    If("preview" \in MeOpt(me).flags, AsSaved(Me(me), <<"preview">>))
    \o If("program" \in MeOpt(me).flags, AsSaved(Me(me), <<"program">>))

\* Without options no M/E can be left out of an M/E section.
AnyMe(flag) == \E i \in DOMAIN opts.mes : flag \in opts.mes[i].flags

\* Mutant of Sections: the buses with the other M/E sections.
BusesEarly == << "video_mode", "inputs", "settings_flags", "color_generators",
    "aux", "program_preview", "transition", "upstream_keyers",
    "downstream_keys", "fade_to_black", "media_players", "audio", "macros",
    "hyperdecks" >>
Sections == << "video_mode", "inputs", "settings_flags", "color_generators",
    "aux", "transition", "upstream_keyers", "downstream_keys", "fade_to_black",
    "media_players", "audio", "macros", "hyperdecks", "program_preview" >>
MeSections == {"transition", "upstream_keyers", "fade_to_black",
               "program_preview"}

\* The M/E sections are asked for by M/E, the others by name (options.py).
ASSUME OptionsByName ==
    \A o \in Options :
        /\ o.mes \in Seq([flags : SUBSET {"program", "preview", "next", "style", "ftb"},
                          usk : SUBSET KeyerNos])
        /\ o.on \subseteq Range(Sections) \ MeSections
        /\ o.keyframes \in BOOLEAN

\* Is the section asked for (options.py, and the gates of apply()).
GatedOn(s) ==
    CASE s = "transition"      -> AnyMe("next") \/ AnyMe("style")
      [] s = "upstream_keyers" -> \E i \in DOMAIN opts.mes : opts.mes[i].usk # {}
      [] s = "fade_to_black"   -> AnyMe("ftb")
      [] s = "program_preview" -> AnyMe("program") \/ AnyMe("preview")
      [] OTHER                 -> s \in opts.on

OfMe(s, me) ==
    CASE s = "transition"      -> Transition(me)
      [] s = "upstream_keyers" -> UpstreamKeyers(me)
      [] s = "fade_to_black"   -> FadeToBlack(me)
      [] s = "program_preview" -> ProgramPreview(me)
OfAll(s) ==
    CASE s = "video_mode"       -> AsSaved(All, <<"video_mode">>)
      [] s = "inputs"           -> Inputs
      [] s = "settings_flags"   -> SettingsFlags
      [] s = "color_generators" -> ColorGenerators
      [] s = "aux"              -> Auxiliaries
      [] s = "downstream_keys"  -> DownstreamKeys
      [] s = "media_players"    -> MediaPlayers
      [] s = "audio"            -> Fairlight
      [] s = "macros"           -> AsSaved(All, <<"macro1", "macro2">>)
      [] s = "hyperdecks"       -> HyperDecks

\* conn.at: "known" while the dump of the session has told the M/Es and the
\* switcher answers; "silent" when it no longer does and the transport has not
\* yet given the session up; "gap" from then, with the state emptied, to the
\* next session; "dump" at its start; "dead" when the worker ended.
Carries   == conn.at \in {"known", "dump"}            \* what is sent arrives
Connected == conn.at \in {"known", "silent", "dump"}  \* protocol.connected

\* me_count(conn.mixerstate): an empty mixer state has one M/E.
MeCount == IF conn.at \in {"known", "silent"} THEN LiveMEs ELSE 1
\* _iter_me_blocks: the profile's M/Es that are live, in order; the others that
\* the switcher has are passed over.
MeBlocks == [i \in 1 .. IF SavedMEs < MeCount THEN SavedMEs ELSE MeCount |-> i - 1]
NewlyPassed(s) == IF s \in MeSections
                  THEN {<<s, me>> : me \in {m \in MEs : m >= MeCount /\ m < LiveMEs}}
                  ELSE {}
CommandsOf(s) ==
    IF s \in MeSections
    THEN FlattenSeq([i \in DOMAIN MeBlocks |-> OfMe(s, MeBlocks[i])])
    ELSE OfAll(s)

-----------------------------------------------------------------------------
\* What the switcher has in a control, and the switcher when one is set.
Held(c)      == IF c \in DOMAIN switcher THEN switcher[c] ELSE "before"
With(f, c, v) == [d \in DOMAIN f \cup {c} |-> IF d = c THEN v ELSE f[d]]

Working == run.at # "none"
Ended   == run.raised \/ (run.next > Len(Sections) /\ ~Working)

\* The next section that is asked for, with its commands.
StartSection ==
    /\ ~Working /\ ~Ended
    /\ LET s == Sections[run.next]
       IN  /\ GatedOn(s)
           /\ s = "macros" => Connected
           /\ run' = [run EXCEPT !.next = @ + 1, !.at = s, !.cmds = CommandsOf(s),
                                 !.passed = @ \cup NewlyPassed(s)]
    /\ UNCHANGED <<opts, outbox, lost, switcher, conn>>

\* The section is gated off; or it leaves its controls and says so: the macros
\* without a connected protocol, the video mode when it is the switcher's
\* already, or no mode the code knows.
LeaveSection ==
    /\ ~Working /\ ~Ended
    /\ LET s == Sections[run.next]
       IN  /\ ~GatedOn(s) \/ (s = "macros" /\ ~Connected) \/ s = "video_mode"
           /\ run' = [run EXCEPT !.next = @ + 1,
                                 !.skipped = IF GatedOn(s) THEN @ \cup {s} ELSE @]
    /\ UNCHANGED <<opts, outbox, lost, switcher, conn>>

\* What the switcher makes of one command: a snapshot keeps the live geometry
\* as a keyframe; a moved cursor is sampled anew.
Effect(cmd) ==
    LET key  == cmd.c[1]
        what == cmd.c[2]
        kf   == Ctl(key, IF cmd.val = "A" THEN "kfA" ELSE "kfB")
        dve  == Held(Ctl(key, "dve"))
    IN  CASE what = "snapshot" ->
               With(switcher, kf, IF Held(Ctl(key, "fly")) = dve THEN dve ELSE "torn")
          [] what = "cursor" ->
               With(With(switcher, cmd.c, cmd.val), Ctl(key, "colour"), "sampled")
          [] OTHER -> With(switcher, cmd.c, cmd.val)

\* The next command whose attributes convert.
HasNext == /\ Working /\ ~run.raised /\ run.cmds # <<>>
           /\ Head(run.cmds).c \notin opts.bad

\* conn.send() raises only without a worker.  Otherwise the command is queued,
\* in a gap as well.
SendNext ==
    /\ HasNext /\ run.at # "macros" /\ conn.at # "dead" /\ Len(outbox) < MaxOutbox
    /\ outbox' = Append(outbox, Head(run.cmds))
    /\ run' = [run EXCEPT !.cmds = Tail(@)]
    /\ UNCHANGED <<opts, lost, switcher, conn>>

\* upload_macro_bytecode waits for the switcher's answer.
UploadMacro ==
    /\ HasNext /\ run.at = "macros" /\ Carries
    /\ switcher' = Effect(Head(run.cmds))
    /\ run' = [run EXCEPT !.cmds = Tail(@)]
    /\ UNCHANGED <<opts, outbox, lost, conn>>

\* _safe, and the macros' own except: what the setter raises (no worker, a value
\* that does not fit, an upload that failed) is noted and the section goes on.
\* A macro may be in its slot although its upload timed out.
Raises ==
    /\ HasNext
    /\ \/ /\ conn.at = "dead" \/ (run.at = "macros" /\ ~Carries)
          /\ UNCHANGED conn
       \/ /\ conn.troubles < opts.troubles
          /\ conn' = [conn EXCEPT !.troubles = @ + 1]
    /\ run' = [run EXCEPT !.cmds = Tail(@), !.errors = @ \cup {Head(run.cmds).c}]
    /\ \/ UNCHANGED switcher
       \/ run.at = "macros" /\ Connected /\ switcher' = Effect(Head(run.cmds))
    /\ UNCHANGED <<opts, outbox, lost>>

\* The attribute is converted before _safe is entered: int() raises what
\* nothing catches, and apply() ends there.
Aborts ==
    /\ Working /\ ~run.raised /\ run.cmds # <<>> /\ Head(run.cmds).c \in opts.bad
    /\ run' = [run EXCEPT !.raised = TRUE]
    /\ UNCHANGED <<opts, outbox, lost, switcher, conn>>

\* The section's last command is out.  After a new video mode the code sleeps
\* three seconds; the resync may be over by then or not.
EndSection ==
    /\ Working /\ ~run.raised /\ run.cmds = <<>>
    /\ run' = [run EXCEPT !.at = "none"]
    /\ UNCHANGED <<opts, outbox, lost, switcher, conn>>

\* The worker sends the first of the queue and the switcher has it.
Arrives ==
    /\ outbox # <<>> /\ Carries
    /\ outbox' = Tail(outbox) /\ switcher' = Effect(Head(outbox))
    /\ UNCHANGED <<opts, run, lost, conn>>

\* It goes to a session being replaced, or stays in the queue of a dead worker;
\* or it cannot be rendered or sent, which is logged and no more.
Loses ==
    /\ outbox # <<>>
    /\ \/ ~Carries /\ UNCHANGED conn
       \/ /\ conn.troubles < opts.troubles
          /\ conn' = [conn EXCEPT !.troubles = @ + 1]
    /\ outbox' = Tail(outbox) /\ lost' = lost \cup {Head(outbox).c}
    /\ UNCHANGED <<opts, run, switcher>>

-----------------------------------------------------------------------------
(* External: the switcher falls silent (a resync, a lost network), or its  *)
(* session is given up at once, or the worker dies.                        *)
LinkFails ==
    /\ conn.troubles < opts.troubles
    /\ Ended => outbox # <<>>
    /\ \E to \in {"silent", "gap", "dead"} :
          /\ to = "silent" => conn.at = "known"
          /\ to = "gap"    => Carries
          /\ conn.at # "dead"
          /\ conn' = [at |-> to, troubles |-> conn.troubles + 1]
    /\ UNCHANGED <<opts, run, outbox, lost, switcher>>

\* The transport gives the session up, has a new one, and its dump comes in.
LinkGoesOn ==
    LET then == [silent |-> "gap", gap |-> "dump", dump |-> "known"]
    IN  /\ conn.at \in DOMAIN then
        /\ conn' = [conn EXCEPT !.at = then[@]]
        /\ UNCHANGED <<opts, run, outbox, lost, switcher>>

Everything ==
    {Ctl(All, n) : n \in {"video_mode", "label1", "label2", "ftb_enabled",
        "hue", "saturation", "luma", "aux", "dsk_sources", "dsk_mask",
        "dsk_gain", "dsk_on_air", "dsk_tie", "player", "hyperdeck", "master",
        "master_band", "master_dynamics", "strip", "strip_eq",
        "strip_dynamics", "macro1", "macro2"}}
    \cup {Ctl(Me(m), n) : m \in MEs, n \in {"style", "parameters", "next",
        "ftb_rate", "preview", "program"}}
    \cup {Ctl(Key(m, k), n) : m \in MEs, k \in KeyerNos, n \in {"type", "sources",
        "on_air", "mask", "luma", "pattern", "dve", "chroma", "cursor",
        "colour", "fly", "rate", "kfA", "kfB"}}

ProfileInit ==
    /\ opts \in Options
    /\ run = [next |-> 1, at |-> "none", cmds |-> <<>>, errors |-> {},
              skipped |-> {}, passed |-> {}, raised |-> FALSE]
    /\ outbox = <<>> /\ lost = {}
    /\ switcher = <<>>
    /\ conn = [at |-> "known", troubles |-> 0]

ProfileNext ==
    \/ StartSection \/ LeaveSection \/ SendNext \/ UploadMacro \/ Raises
    \/ Aborts \/ EndSection
    \/ Arrives \/ Loses
    \/ LinkFails \/ LinkGoesOn

ProfileSpec == ProfileInit /\ [][ProfileNext]_pVars

-----------------------------------------------------------------------------
(* Properties.                                                             *)

\* What the options ask of a control of this profile.
Selected(c) ==
    IF c[1] = All THEN \E s \in opts.on : \E i \in DOMAIN OfAll(s) : OfAll(s)[i].c = c
    ELSE IF c[1][1] = "me"
    THEN (CASE c[2] \in {"style", "parameters"} -> "style"
            [] c[2] = "ftb_rate" -> "ftb"
            [] OTHER -> c[2]) \in MeOpt(c[1][2]).flags
    ELSE c[1][3] \in MeOpt(c[1][2]).usk
Keyframe(c)  == c[2] \in {"kfA", "kfB"}
SectionOf(c) ==
    CASE c[1][1] = "key" -> "upstream_keyers"
      [] c[2] = "ftb_rate" -> "fade_to_black"
      [] c[2] \in {"preview", "program"} -> "program_preview"
      [] OTHER -> "transition"
PassedOver(c) == c[1] # All /\ <<SectionOf(c), c[1][2]>> \in run.passed
\* A command for it, or for another control of its keyer, was noted as failed
\* or was lost; its section left it.
Excused(c) ==
    \/ \E e \in run.errors \cup lost : e = c \/ (c[1][1] = "key" /\ e[1] = c[1])
    \/ "macros" \in run.skipped /\ c[2] \in {"macro1", "macro2"}
    \/ "video_mode" \in run.skipped /\ c[2] = "video_mode"
Wanted(c) ==
    IF ~Keyframe(c) THEN "saved"
    ELSE IF ~opts.keyframes THEN "before"
    ELSE IF c[2] = "kfA" THEN "A" ELSE "B"

Due(c)     == Selected(c) /\ ~PassedOver(c) /\ (c[1] # All => c[1][2] < LiveMEs)
Expected(c) == IF Due(c) THEN Wanted(c) ELSE "before"
InPlace(c) == Held(c) = Expected(c) \/ Excused(c)

\* After apply(), when all it sent is out, the switcher is as the profile has it,
\* in what was selected, and as it was in all the rest, but for what was noted
\* as failed and what was lost on the way: a keyer's live geometry is the
\* profile's although its keyframes went through it, the keyframes are the
\* profile's, the sampled colour survived the cursor; no M/E that the options
\* or the switcher do not have was touched, and a lost command spoils its own
\* control or its own keyer and nothing else.
LandsAsSaved ==
    Ended /\ ~run.raised /\ outbox = <<>> => \A c \in Everything : InPlace(c)

\* The buses are cut last: program or preview of an M/E change only when all
\* else that the profile restores is in place, failed or lost; nothing that
\* apply() queued is still to come.
Bus(c) == c[2] \in {"preview", "program"}
CutsLast ==
    [][switcher' # switcher
       /\ (\E c \in Everything : Bus(c) /\ Held(c)' # Held(c))
       => \A c \in Everything : Bus(c) \/ InPlace(c)]_pVars

\* What an operator would read from an ApplyResult without errors: every command
\* reached the switcher.  One that was queued in a gap did not.
NothingLostInSilence == Ended /\ run.errors = {} => lost = {}

\* "Best-effort: failures in one section don't abort others" (apply's
\* docstring): every section is applied, skipped or gated off.  An attribute
\* like "1e999" ends apply() instead.
NoSectionAborts == Ended => ~run.raised

\* "The M/E blocks the switcher has are applied": without an error reported no
\* M/E that is there was passed over.  A section that starts while the mixer
\* state is empty counts one M/E, and says nothing of the others.
NoneIsPassedOver == Ended /\ run.errors = {} => run.passed = {}
=============================================================================
