------------------------------ MODULE MCParts -------------------------------
(* The parts that are checked at one size and share no state, each in        *)
(* behaviours of its own: the others stay as they began.                     *)
EXTENDS AtemReceive, Videohub, Hyperdeck, HyperdeckUpload, NetworkSetup,
        Ultimatte, Controls, Profile

\* The receive path is run past its park window, with numbers that fit the space.
ASSUME ReceiveNumbersFit == NumbersFit

\* What apply() is asked for: a default restore; the second keyers of two M/Es
\* with their keyframes, and an M/E the switcher does not have; the second M/E
\* alone, with the connection failing twice; a profile with a number out of range;
\* and the sound and the macros behind a new video mode.
Every == {"video_mode", "inputs", "settings_flags", "color_generators", "aux",
          "downstream_keys", "media_players", "audio", "macros", "hyperdecks"}
Full    == [flags |-> {"program", "preview", "next", "style", "ftb"}, usk |-> {0, 1}]
Nobody  == [flags |-> {}, usk |-> {}]
Default == [flags |-> {"next", "style", "ftb"}, usk |-> {0, 1}]
OneKey  == [Full EXCEPT !.usk = {1}]
AirKey  == [flags |-> {"program", "next"}, usk |-> {1}]
Opt(mes, on, keyframes, bad, troubles) ==
    [mes |-> mes, on |-> on, keyframes |-> keyframes, bad |-> bad,
     troubles |-> troubles]

Least == Opt(<<Nobody, Nobody>>, {"video_mode", "audio", "macros"}, FALSE, {}, 2)
MCOptions ==
    { Opt(<<Default, Nobody>>, Every \ {"downstream_keys", "audio", "media_players"},
          FALSE, {}, 1),
      Opt(<<OneKey, OneKey, Full>>, {"downstream_keys", "media_players"}, TRUE, {}, 1),
      Opt(<<Nobody, AirKey>>, {}, FALSE, {}, 2),
      Opt(<<Full>>, {"inputs"}, FALSE, {<<<<"me", 0>>, "ftb_rate">>}, 1),
      Least }

VARIABLE part

Parts == {"receive", "hub", "deck", "upload", "setup", "ultimatte", "controls",
          "profile"}

PartsInit ==
    /\ part \in Parts
    /\ Init /\ HubInit /\ DeckInit /\ UploadInit /\ SetupInit /\ UltimatteInit
    /\ ControlsInit /\ ProfileInit
    /\ part = "hub" \/ pending = [key |-> CHOOSE k \in Keys : TRUE, change |-> 0]
    /\ part = "controls" \/ group = "onair"
    /\ part = "profile" \/ opts = Least

PartsNext ==
    /\ UNCHANGED part
    /\ \/ part = "receive" /\ Next
             /\ UNCHANGED <<hubVars, dVars, uVars, nVars, bVars, cVars, pVars>>
       \/ part = "hub" /\ HubNext
             /\ UNCHANGED <<vars, dVars, uVars, nVars, bVars, cVars, pVars>>
       \/ part = "deck" /\ DeckNext
             /\ UNCHANGED <<vars, hubVars, uVars, nVars, bVars, cVars, pVars>>
       \/ part = "upload" /\ UploadNext
             /\ UNCHANGED <<vars, hubVars, dVars, nVars, bVars, cVars, pVars>>
       \/ part = "setup" /\ SetupNext
             /\ UNCHANGED <<vars, hubVars, dVars, uVars, bVars, cVars, pVars>>
       \/ part = "ultimatte" /\ UltimatteNext
             /\ UNCHANGED <<vars, hubVars, dVars, uVars, nVars, cVars, pVars>>
       \/ part = "controls" /\ ControlsNext
             /\ UNCHANGED <<vars, hubVars, dVars, uVars, nVars, bVars, pVars>>
       \/ part = "profile" /\ ProfileNext
             /\ UNCHANGED <<vars, hubVars, dVars, uVars, nVars, bVars, cVars>>

PartsSpec == PartsInit /\ [][PartsNext]_<<part, vars, hubVars, dVars, uVars,
                                          nVars, bVars, cVars, pVars>>
=============================================================================
