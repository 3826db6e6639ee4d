------------------------------ MODULE Controls ------------------------------
(***************************************************************************)
(* A control from the caller to the switcher and back, and from one        *)
(* switcher through a profile to another.  The caller gives a display      *)
(* value; the setter scales it and the command packs it; the switcher      *)
(* merges what the mask names and reports the whole field; the client      *)
(* decodes it and the reader shows it.  Profile.from_atem writes what the  *)
(* readers show, Profile.apply gives it to the setters again.              *)
(*                                                                         *)
(* A behaviour is about one group of controls.  The switcher is external:  *)
(* it reads a command at the places the command's class documents.         *)
(***************************************************************************)
EXTENDS RoutingControls

CONSTANTS GroupNames,    \* the groups a run is about
          MaxAsks        \* values the callers ask for

AllGroups == KeyerGroups @@ DskGroups @@ TransitionGroups @@ FairlightGroups
             @@ LegacyGroups @@ RoutingGroups

ASSUME ControlBounds == /\ GroupNames \subseteq DOMAIN AllGroups
                        /\ MaxAsks \in Nat \ {0}

VARIABLES
    group,     \* the group of this behaviour
    panel,     \* live: the switcher's wire values of either keyer,
               \* shown: what the readers show of keyer 0, wish: what was asked
    wires,     \* commands on their way, reports on their way
    profile    \* file: the profile's attributes, or none; twin: the wire
               \* values of the switcher it was applied to, or none

cVars == <<group, panel, wires, profile>>

Keyers   == {0, 1}
Unwanted == -(10 ^ 9)
NoFile   == <<>>

G        == AllGroups[group]
Setters  == G.setters
Readers  == G.readers
Asked    == DOMAIN Setters
CommandOf(c) == CHOOSE cmd \in G.cmds : c \in DOMAIN cmd.fields
FieldOf(c)   == CommandOf(c).fields[c]

\* KACC's sampled colour goes through the reals and is cut, not rounded
\* (safe_int(Y * 8544 + 625)): it may be shown one step low.
Cut == IF group = "picker" THEN {"Y", "Cb", "Cr"} ELSE {}

(* The values asked for: both ends of what the setter lets through, one    *)
(* with every decimal in use, a negative one, and one past the end.        *)
WireSamples(c) ==
    {w \in {Setters[c].lo, Setters[c].hi, 1, 123, 700, 837, -837}
        \ {Far, -Far} :
        w >= Setters[c].lo /\ w <= Setters[c].hi /\ Fits(FieldOf(c), w)}
AskSamples(c) ==
    LET s == Setters[c]
        real == {Nearest(w * Tick, s.by) + s.off : w \in WireSamples(c)}
    IN  IF ~s.clamps THEN real
        ELSE real \cup {Nearest((s.hi + 7) * Tick, s.by) + s.off}

-----------------------------------------------------------------------------
(* The client.                                                             *)

\* set_*(): one field of one command; a value the field cannot hold raises
\* before anything is sent.
Ask(c, d) ==
    /\ Len(wires.asks) + wires.taken < MaxAsks
    /\ Fits(FieldOf(c), Wire(Setters[c], d))
    /\ wires' = [wires EXCEPT !.asks = Append(@,
                  [of |-> c,
                   bytes |-> GetCommand(CommandOf(c), 0,
                                        [x \in {c} |-> Wire(Setters[c], d)])])]
    /\ panel' = [panel EXCEPT !.wish[c] = d]
    /\ UNCHANGED <<group, profile>>

\* What the readers make of a report.
ReadOut(live, low) ==
    [c \in Asked |-> ShownBy(Readers[c], live[c]) - IF c \in low THEN 1 ELSE 0]

\* save_field_data: the report's bytes are decoded at the field's places.
Hear ==
    /\ wires.reports # <<>>
    /\ \E low \in SUBSET Cut :
         panel' = [panel EXCEPT !.shown = ReadOut(Head(wires.reports), low)]
    /\ wires' = [wires EXCEPT !.reports = Tail(@)]
    /\ UNCHANGED <<group, profile>>

\* from_atem: the attributes are what the readers show, in the file's units.
Attribute(table, c, shown) == (shown - table[c].off) * table[c].by
Value(table, c, attr)      == attr \div table[c].by + table[c].off
SavedNow(shown) == [c \in DOMAIN G.saved |-> Attribute(G.saved, c, shown[c])]

Save ==
    /\ profile.file = NoFile
    /\ profile' = [profile EXCEPT !.file = SavedNow(panel.shown)]
    /\ UNCHANGED <<group, panel, wires>>

-----------------------------------------------------------------------------
(* External: the switcher.  It reads every field of a command at its place *)
(* and keeps those the mask names (all of them, when there is no mask).    *)
MaskBit(cmd, bytes, c) ==
    \/ cmd.mask = 0
    \/ \E i \in DOMAIN cmd.bits :
         /\ cmd.bits[i] = c
         /\ (Unpacked(MaskField(cmd), bytes) \div 2 ^ (i - 1)) % 2 = 1

Merged(live, cmd, bytes) ==
    [c \in DOMAIN live |->
        IF c \in DOMAIN cmd.fields /\ MaskBit(cmd, bytes, c)
        THEN Unpacked(cmd.fields[c], bytes) ELSE live[c]]
\* The keyer the command's address names; it ignores one it does not have.  A
\* command without an address is for the only one there is.
Addressed(cmd, bytes) == {Unpacked(cmd.addr[i], bytes) : i \in DOMAIN cmd.addr}
Taken(live, cmd, bytes) ==
    [k \in Keyers |-> IF Addressed(cmd, bytes) = {k} \/ (cmd.addr = <<>> /\ k = 0)
                      THEN Merged(live[k], cmd, bytes) ELSE live[k]]

\* A status field of the group, as the client decodes it.
Reported(live) ==
    LET r == CHOOSE x \in G.recvs : TRUE
    IN  Decoded(r[2], StatusOf(r[1], r[2], live))

SwitcherTakes ==
    /\ wires.asks # <<>>
    /\ LET p == Head(wires.asks)
           live == Taken(panel.live, CommandOf(p.of), p.bytes)
       IN  /\ panel' = [panel EXCEPT !.live = live]
           /\ wires' = [wires EXCEPT !.asks = Tail(@), !.taken = @ + 1,
                                 !.reports = Append(@, Reported(live[0]))]
    /\ UNCHANGED <<group, profile>>

-----------------------------------------------------------------------------
(* apply(): each attribute goes to its setter again, the bundled ones in   *)
(* one packet, on a switcher that had other values.                        *)
PacketsOf == G.bundles \cup {{c} : c \in DOMAIN G.restored \ UNION G.bundles}

Restore(live, file) ==
    FoldSet(
        LAMBDA cs, l :
            LET cmd == CommandOf(CHOOSE c \in cs : TRUE)
                vals == [c \in cs |-> Wire(Setters[c],
                                           Value(G.restored, c, file[c]))]
            IN  Taken(l, cmd, GetCommand(cmd, 0, vals)),
        [k \in Keyers |-> live], PacketsOf)[0]

Start(c, last) ==
    LET ws == WireSamples(c)
    IN  IF last THEN CHOOSE w \in ws : \A v \in ws : v <= w
        ELSE CHOOSE w \in ws : \A v \in ws : v >= w
Fields == UNION {DOMAIN cmd.fields : cmd \in G.cmds}
Live(last) == [c \in Fields |-> IF c \in Asked THEN Start(c, last) ELSE 0]

ApplyProfile ==
    /\ profile.file # NoFile /\ profile.twin = NoFile
    /\ profile' = [profile EXCEPT !.twin = Restore(Live(TRUE), profile.file)]
    /\ UNCHANGED <<group, panel, wires>>

ControlsInit ==
    /\ group \in GroupNames
    /\ panel = [live |-> [k \in Keyers |-> Live(FALSE)],
                shown |-> ReadOut(Live(FALSE), {}),
                wish |-> [c \in Asked |-> Unwanted]]
    /\ wires = [asks |-> <<>>, reports |-> <<>>, taken |-> 0]
    /\ profile = [file |-> NoFile, twin |-> NoFile]

ControlsNext ==
    \/ \E c \in Asked : \E d \in AskSamples(c) : Ask(c, d)
    \/ SwitcherTakes
    \/ Hear
    \/ Save
    \/ ApplyProfile

ControlsSpec == ControlsInit /\ [][ControlsNext]_cVars

-----------------------------------------------------------------------------
(* Properties.                                                             *)

\* Once what was asked for has been taken and reported, every control shows
\* the value it was asked to have (the nearest the setter lets through), and
\* a control nobody touched, of this keyer or the other, has not moved.
\* Setter, mask, places, widths, field class and reader are five tables that
\* must multiply to one (the scale contract of KeyPropertiesDveField).
AskedRange(c, d) ==
    LET end(w) == Nearest(w * Tick, Setters[c].by) + Setters[c].off
    IN  Clamp(end(Setters[c].lo), end(Setters[c].hi), d)
NearTo(c, a, b) ==
    LET gap == IF a > b THEN a - b ELSE b - a
    IN  2 * gap <= Tick \div Setters[c].by + Readers[c].q
ShownAsAsked ==
    wires.asks = <<>> /\ wires.reports = <<>> =>
        /\ \A c \in Asked :
             IF panel.wish[c] = Unwanted
             THEN panel.live[0][c] = Start(c, FALSE)
             ELSE NearTo(c, panel.shown[c], AskedRange(c, panel.wish[c]))
        /\ panel.live[1] = Live(FALSE)

\* The profile saved from one switcher and applied to another makes the other
\* one save the same profile: nothing is lost or moved on the way.  The
\* sampled colour is left out: it may lose a step at every save (see Cut).
TwinSavesTheSame ==
    profile.twin # NoFile =>
        \A c \in DOMAIN G.saved \ Cut :
            SavedNow(ReadOut(Reported(profile.twin), {}))[c] = profile.file[c]
=============================================================================
