------------------------- MODULE TransitionControls -------------------------
(***************************************************************************)
(* The controls of a downstream keyer and of an M/E's transition, in the   *)
(* form of KeyerControls: commands, status fields, setters, readers, what  *)
(* a profile keeps.                                                        *)
(***************************************************************************)
EXTENDS KeyerControls

Edges == {"top", "bottom", "left", "right"}

(* messages/downstream_keyer.py, the commands.                             *)
CDsL == Command(4, 0, <<u8(0)>>, [on_air |-> boolean(1)], <<>>)
CDsR == Command(4, 0, <<u8(0)>>, [rate |-> u8(1)], <<>>)
CDsT == Command(4, 0, <<u8(0)>>, [tie |-> boolean(1)], <<>>)
CDsF == Command(4, 0, <<u8(0)>>, [fill |-> u16(2)], <<>>)
CDsC == Command(4, 0, <<u8(0)>>, [key |-> u16(2)], <<>>)
CDsG == Command(12, 1, <<u8(1)>>,
    [premultiplied |-> boolean(2), clip |-> u16(4), gain |-> u16(6),
     invert |-> boolean(8)], <<"premultiplied", "clip", "gain", "invert">>)
CDsM == Command(12, 1, <<u8(1)>>,
    [enabled |-> boolean(2), top |-> i16(4), bottom |-> i16(6),
     left |-> i16(8), right |-> i16(10)],
    <<"enabled", "top", "bottom", "left", "right">>)

(* messages/downstream_keyer.py, the status fields.                        *)
DskB == <<8, [fill |-> u16(2), key |-> u16(4)]>>
DskP == <<20, [tie |-> boolean(1), rate |-> u8(2), premultiplied |-> boolean(3),
    clip |-> u16(4), gain |-> u16(6), invert |-> boolean(8),
    enabled |-> boolean(9), top |-> i16(10), bottom |-> i16(12),
    left |-> i16(14), right |-> i16(16)]>>
DskS == <<8, [on_air |-> boolean(1)]>>

\* messages/downstream_keyer.py, the setters and dsk_state.
DskSetters ==
    [c \in {"tie", "premultiplied", "invert", "enabled"} |-> Flag]
    @@ [rate |-> Times(1), clip |-> percent_to_tenths, gain |-> percent_to_tenths]
    @@ [c \in Edges |-> Times(1000)]
dsk_state ==
    [c \in {"clip", "gain"} |-> Over(10, 1000)]
    @@ [c \in Edges |-> Over(1000, 10)]
    @@ [c \in DOMAIN DskSetters |-> AsIs]

-----------------------------------------------------------------------------
(* messages/transition.py, the commands.                                   *)
CTTp == Command(4, 1, <<u8(1)>>, [style |-> u8(2), next_transition |-> u8(3)],
                <<"style", "next_transition">>)
CTMx == Command(4, 0, <<u8(0)>>, [rate |-> u8(1)], <<>>)
CTDp == Command(8, 1, <<u8(1)>>, [rate |-> u8(2), source |-> u16(4)],
                <<"rate", "source">>)
CTWp == Command(20, 2, <<u8(2)>>,
    [rate |-> u8(3), pattern |-> u8(4), width |-> u16(6), source |-> u16(8),
     symmetry |-> u16(10), softness |-> u16(12), positionx |-> u16(14),
     positiony |-> u16(16), reverse |-> boolean(18), flipflop |-> boolean(19)],
    <<"rate", "pattern", "width", "source", "symmetry", "softness",
      "positionx", "positiony", "reverse", "flipflop">>)
CTSt == Command(20, 2, <<u8(2)>>,
    [mediaplayer |-> u8(3), key_premultiplied |-> boolean(4),
     key_clip |-> u16(6), key_gain |-> u16(8), key_invert |-> boolean(10),
     preroll |-> u16(12), duration |-> u16(14), triggerpoint |-> u16(16),
     rate |-> u16(18)],
    <<"mediaplayer", "key_premultiplied", "key_clip", "key_gain",
      "key_invert", "preroll", "duration", "triggerpoint", "rate">>)
CTDv == Command(20, 2, <<u8(2)>>,
    [logo_rate |-> u8(3), rate |-> u8(4), style |-> u8(5),
     fill_source |-> u16(6), key_source |-> u16(8), key_enable |-> boolean(10),
     key_premultiplied |-> boolean(11), key_clip |-> u16(12),
     key_gain |-> u16(14), key_invert |-> boolean(16), reverse |-> boolean(17),
     flipflop |-> boolean(18)],
    <<"logo_rate", "rate", "style", "fill_source", "key_source", "key_enable",
      "key_premultiplied", "key_clip", "key_gain", "key_invert", "reverse",
      "flipflop">>)

(* messages/transition.py, the status fields.                              *)
TrSS == <<8, [style |-> u8(1), next_transition |-> u8(2)]>>
TMxP == <<4, [rate |-> u8(1)]>>
TDpP == <<4, [rate |-> u8(1), source |-> u16(2)]>>
TWpP == <<20, [rate |-> u8(1), pattern |-> u8(2), width |-> u16(4),
    source |-> u16(6), symmetry |-> u16(8), softness |-> u16(10),
    positionx |-> u16(12), positiony |-> u16(14), reverse |-> boolean(16),
    flipflop |-> boolean(17)]>>
TStP == <<20, [mediaplayer |-> u8(1), key_premultiplied |-> boolean(2),
    key_clip |-> u16(4), key_gain |-> u16(6), key_invert |-> boolean(8),
    preroll |-> u16(10), duration |-> u16(12), triggerpoint |-> u16(14),
    rate |-> u16(16)]>>
TDvP == <<20, [logo_rate |-> u8(1), rate |-> u8(2), style |-> u8(3),
    fill_source |-> u16(4), key_source |-> u16(6), key_enable |-> boolean(8),
    key_premultiplied |-> boolean(9), key_clip |-> u16(10),
    key_gain |-> u16(12), key_invert |-> boolean(14), reverse |-> boolean(15),
    flipflop |-> boolean(16)]>>

(* messages/transition.py, the setters.  The switcher takes no empty next  *)
(* transition, and the setter sends none.                                  *)
SettingsSetters == [style |-> Choice(0, 4), next_transition |-> Choice(1, 31)]
DipSetters == [rate |-> Times(1), source |-> Choice(0, 65535)]
WipeSetters ==
    [rate |-> Times(1), pattern |-> Choice(0, 17), source |-> Choice(0, 65535),
     reverse |-> Flag, flipflop |-> Flag]
    @@ [c \in {"positionx", "positiony"} |-> unit_to_thousandths]
    @@ [c \in {"width", "symmetry", "softness"} |-> percent_to_thousandths]
DveTransitionSetters ==
    [rate |-> Times(1), style |-> Choice(16, 31)]
    @@ [c \in {"fill_source", "key_source"} |-> Choice(0, 65535)]
    @@ [c \in {"key_clip", "key_gain"} |-> percent_to_tenths]
    @@ [c \in {"key_enable", "key_premultiplied", "key_invert", "reverse",
               "flipflop"} |-> Flag]
StingerSetters ==
    [mediaplayer |-> Choice(1, 4)]
    @@ [c \in {"rate", "duration", "triggerpoint", "preroll"} |-> Times(1)]
    @@ [c \in {"key_clip", "key_gain"} |-> Times(10)]
    @@ [c \in {"key_premultiplied", "key_invert"} |-> Flag]

(* messages/transition.py, the readers.                                    *)
SettingsReaders == [c \in DOMAIN SettingsSetters |-> AsIs]
DipReaders      == [c \in DOMAIN DipSetters |-> AsIs]
WipeReaders ==
    [c \in {"positionx", "positiony"} |-> unit_from_thousandths]
    @@ [c \in {"width", "symmetry", "softness"} |-> percent_from_thousandths]
    @@ [c \in DOMAIN WipeSetters |-> AsIs]
DveTransitionReaders ==
    [c \in {"key_clip", "key_gain"} |-> value_from_tenths]
    @@ [c \in DOMAIN DveTransitionSetters |-> AsIs]
StingerReaders ==
    [c \in {"key_clip", "key_gain"} |-> value_from_tenths]
    @@ [c \in DOMAIN StingerSetters |-> AsIs]

-----------------------------------------------------------------------------
Plain(cmds, recvs, setters, readers, bundles) ==
    Group(cmds, recvs, setters, readers, Same(setters), Same(setters), bundles)

\* profile/apply.py _apply_downstream_keys, profile/save.py
\* _build_downstream_keys: all of a downstream keyer, the gain in one packet.
DskGroups ==
    [ dsk_air  |-> Plain({CDsL}, {DskS}, [on_air |-> Flag], [on_air |-> AsIs], {}),
      dsk_base |-> Plain({CDsF, CDsC}, {DskB},
                         [c \in {"fill", "key"} |-> Choice(0, 65535)],
                         [c \in {"fill", "key"} |-> AsIs], {}),
      dsk      |-> Plain({CDsR, CDsT, CDsG, CDsM}, {DskP}, DskSetters, dsk_state,
                         {{"clip", "gain", "premultiplied", "invert"}}) ]

\* profile/apply.py _apply_transition_block and profile/save.py
\* _build_mix_effect_block: all of it, every style whichever is in use.
TransitionGroups ==
    [ settings |-> Plain({CTTp}, {TrSS}, SettingsSetters, SettingsReaders, {}),
      mix      |-> Plain({CTMx}, {TMxP}, [rate |-> Times(1)], [rate |-> AsIs], {}),
      dip      |-> Plain({CTDp}, {TDpP}, DipSetters, DipReaders, {}),
      wipe     |-> Plain({CTWp}, {TWpP}, WipeSetters, WipeReaders, {}),
      dve_tr   |-> Plain({CTDv}, {TDvP}, DveTransitionSetters,
                         DveTransitionReaders, {}),
      stinger  |-> Plain({CTSt}, {TStP}, StingerSetters, StingerReaders, {}) ]
=============================================================================
