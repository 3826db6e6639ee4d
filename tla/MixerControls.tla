--------------------------- MODULE MixerControls ----------------------------
(***************************************************************************)
(* The audio mixers' controls, in the form of KeyerControls: Fairlight's   *)
(* master bus and strips with their equalizers and dynamics, and the mixer *)
(* of the switchers before it.  A strip's split and channel bytes go with  *)
(* its source and are no address of their own here.  The master's commands *)
(* name nothing: there is one master.                                      *)
(***************************************************************************)
EXTENDS TransitionControls

\* A mask whose low n bits name no field.
Bits(n, fields) == [i \in 1 .. n |-> ""] \o fields

-----------------------------------------------------------------------------
(* messages/fairlight.py, the commands.  Gains and thresholds are signed   *)
(* and four bytes wide on the way out, two on the way back.                *)
CFMP == Command(20, 1, <<>>,
    [eq_enable |-> boolean(1), eq_gain |-> i32(4), dynamics_gain |-> u16(10),
     volume |-> i32(12), afv |-> boolean(16)],
    <<"eq_enable", "eq_gain", "dynamics_gain", "volume", "afv">>)
CFSP == Command(48, 2, <<u16(2)>>,
    [delay |-> u8(16), gain |-> i32(20), eq_enable |-> boolean(26),
     eq_gain |-> i32(28), dynamics_gain |-> i32(32), balance |-> i16(36),
     volume |-> i32(40), state |-> u8(44)],
    <<"delay", "gain", "", "eq_enable", "eq_gain", "dynamics_gain", "balance",
      "volume", "state">>)
CICP == Command(40, 2, <<u16(2)>>,
    [enabled |-> boolean(16), threshold |-> i32(20), ratio |-> u16(24),
     attack |-> i32(28), hold |-> i32(32), release |-> i32(36)],
    Bits(8, <<"enabled", "threshold", "ratio", "attack", "hold", "release">>))
CILP == Command(36, 2, <<u16(2)>>,
    [enabled |-> boolean(16), threshold |-> i32(20), attack |-> i32(24),
     hold |-> i32(28), release |-> i32(32)],
    Bits(8, <<"enabled", "threshold", "attack", "hold", "release">>))
CIXP == Command(40, 2, <<u16(2)>>,
    [enabled |-> boolean(16), mode |-> boolean(17), threshold |-> i32(20),
     range |-> u16(24), ratio |-> u16(26), attack |-> i32(28), hold |-> i32(32),
     release |-> i32(36)],
    Bits(8, <<"enabled", "mode", "threshold", "range", "ratio", "attack",
              "hold", "release">>))
CMCP == Command(24, 1, <<>>,
    [enabled |-> boolean(1), threshold |-> i32(4), ratio |-> u16(8),
     attack |-> i32(12), hold |-> i32(16), release |-> i32(20)],
    <<"enabled", "threshold", "ratio", "attack", "hold", "release">>)
CMLP == Command(20, 1, <<>>,
    [enabled |-> boolean(1), threshold |-> i32(4), attack |-> i32(8),
     hold |-> i32(12), release |-> i32(16)],
    <<"enabled", "threshold", "attack", "hold", "release">>)
BandBits == <<"enabled", "filter", "range", "frequency", "gain", "q">>
CEBP == Command(32, 1, <<u16(2), u8(16)>>,
    [enabled |-> boolean(17), filter |-> u8(18), range |-> u8(19),
     frequency |-> Unsigned(20, 4), gain |-> i32(24), q |-> i16(28)], BandBits)
CMBP == Command(20, 1, <<u8(1)>>,
    [enabled |-> boolean(2), filter |-> u8(3), range |-> u8(4),
     frequency |-> u16(10), gain |-> i32(12), q |-> u16(16)], BandBits)

(* messages/fairlight.py and, for the equalizers, messages/audio_legacy.py, *)
(* the status fields.                                                      *)
FAMP == <<20, [eq_enable |-> boolean(1), eq_gain |-> i16(6),
    dynamics_gain |-> u16(10), volume |-> i32(12), afv |-> boolean(16)]>>
FASP == <<52, [delay |-> u8(18), gain |-> i16(22), eq_enable |-> boolean(29),
    eq_gain |-> i16(34), dynamics_gain |-> u16(38), balance |-> i16(40),
    volume |-> i16(46), state |-> u8(49)]>>
AICP == <<40, [enabled |-> boolean(16), threshold |-> i32(20), ratio |-> u16(24),
    attack |-> i32(28), hold |-> i32(32), release |-> i32(36)]>>
AILP == <<36, [enabled |-> boolean(16), threshold |-> i32(20), attack |-> i32(24),
    hold |-> i32(28), release |-> i32(32)]>>
AIXP == <<40, [enabled |-> boolean(16), mode |-> u8(17), threshold |-> i32(20),
    range |-> u16(24), ratio |-> u16(26), attack |-> i32(28), hold |-> i32(32),
    release |-> i32(36)]>>
MOCP == <<24, [enabled |-> u8(0), threshold |-> i16(6), ratio |-> u16(8),
    attack |-> i32(12), hold |-> i32(16), release |-> i32(20)]>>
AMLP == <<20, [enabled |-> u8(0), threshold |-> i16(6), attack |-> i32(8),
    hold |-> i32(12), release |-> i32(16)]>>
AEBP == <<36, [enabled |-> boolean(17), filter |-> u8(19), range |-> u8(21),
    frequency |-> u16(26), gain |-> i32(28), q |-> u16(32)]>>
AMBP == <<20, [enabled |-> boolean(1), filter |-> u8(3), range |-> u8(5),
    frequency |-> u16(10), gain |-> i32(12), q |-> u16(16)]>>

(* messages/fairlight.py, the setters.  The ends of the bit fields stand   *)
(* for the names a profile keeps of them.                                  *)
db_to_wire(lo, hi) == Clamped(100, lo, hi)
MasterSetters ==
    [eq_enable |-> Flag, afv |-> Flag, eq_gain |-> db_to_wire(-2000, 2000),
     dynamics_gain |-> db_to_wire(0, 2000), volume |-> db_to_wire(-10000, 1000)]
StripSetters ==
    [delay |-> Times(1), gain |-> db_to_wire(-10000, 600), eq_enable |-> Flag,
     eq_gain |-> db_to_wire(-2000, 2000), dynamics_gain |-> db_to_wire(0, 2000),
     balance |-> Clamped(100, -10000, 10000),
     volume |-> db_to_wire(-10000, 1000), state |-> Choice(1, 4)]
BandSetters ==
    [enabled |-> Flag, filter |-> Choice(1, 32), range |-> Choice(1, 8),
     frequency |-> Clamped(1, 30, 21700), gain |-> db_to_wire(-2000, 2000),
     q |-> Clamped(100, 30, 1030)]
LimiterSetters ==
    [enabled |-> Flag]
    @@ [c \in {"threshold", "attack", "hold", "release"} |-> Times(100)]
CompressorSetters == LimiterSetters @@ [ratio |-> Times(100)]
ExpanderSetters == CompressorSetters @@ [mode |-> Flag, range |-> Times(100)]

(* messages/fairlight.py and state.py, the readers.  A fader at its lowest *)
(* is shown as silent, and asked for as silent by a profile: the two are   *)
(* one value here.                                                         *)
wire_db_to_float == Over(100, 100)
InDb(controls) == [c \in controls |-> wire_db_to_float]
fairlight_master ==
    InDb({"eq_gain", "dynamics_gain", "volume"})
    @@ [c \in {"eq_enable", "afv"} |-> AsIs]
fairlight_strip ==
    InDb({"gain", "eq_gain", "dynamics_gain", "volume", "balance"})
    @@ [c \in {"delay", "eq_enable", "state"} |-> AsIs]
eq_band == InDb({"gain", "q"})
           @@ [c \in {"enabled", "filter", "range", "frequency"} |-> AsIs]
dynamics_block(setters) ==
    InDb(DOMAIN setters \ {"enabled", "mode"}) @@ [c \in {"enabled", "mode"} |-> AsIs]

\* profile/apply.py _apply_fairlight and profile/save.py _build_fairlight.
\* The strip is an analog input's, whose delay a profile keeps.
Whole(cmd, recv, setters, readers) ==
    Plain({cmd}, {recv}, setters, readers, {DOMAIN setters})
FairlightGroups ==
    [ master     |-> Plain({CFMP}, {FAMP}, MasterSetters, fairlight_master, {}),
      strip      |-> Plain({CFSP}, {FASP}, StripSetters, fairlight_strip,
                           {{"delay", "gain", "balance", "volume", "state"},
                            {"eq_enable", "eq_gain"}, {"dynamics_gain"}}),
      band       |-> Whole(CEBP, AEBP, BandSetters, eq_band),
      compressor |-> Whole(CICP, AICP, CompressorSetters,
                           dynamics_block(CompressorSetters)),
      limiter    |-> Whole(CILP, AILP, LimiterSetters,
                           dynamics_block(LimiterSetters)),
      expander   |-> Whole(CIXP, AIXP, ExpanderSetters,
                           dynamics_block(ExpanderSetters)),
      master_band       |-> Whole(CMBP, AMBP, BandSetters, eq_band),
      master_compressor |-> Whole(CMCP, MOCP, CompressorSetters,
                                  dynamics_block(CompressorSetters)),
      master_limiter    |-> Whole(CMLP, AMLP, LimiterSetters,
                                  dynamics_block(LimiterSetters)) ]

-----------------------------------------------------------------------------
(* messages/audio_legacy.py: volumes are wire values, a profile keeps none *)
(* of it.                                                                  *)
CAMI == Command(12, 1, <<u16(2)>>,
    [mix_option |-> u8(4), volume |-> u16(6), balance |-> i16(8)],
    <<"mix_option", "volume", "balance">>)
CAMM == Command(8, 1, <<>>, [volume |-> u16(2), afv |-> boolean(6)],
                <<"volume", "", "afv">>)
CAMm == Command(12, 1, <<>>,
    [enabled |-> boolean(1), volume |-> u16(2), mute |-> boolean(4),
     solo |-> boolean(5), solo_source |-> u16(6), dim |-> boolean(8),
     dim_volume |-> u16(10)],
    <<"enabled", "volume", "mute", "solo", "solo_source", "dim", "dim_volume">>)
AMIP == <<16, [mix_option |-> u8(8), volume |-> u16(10), balance |-> i16(12)]>>
AMMO == <<8, [volume |-> u16(0), afv |-> boolean(4)]>>
AMmO == <<12, [enabled |-> boolean(0), volume |-> u16(2), mute |-> boolean(4),
    solo |-> boolean(5), solo_source |-> u16(6), dim |-> boolean(8),
    dim_volume |-> u16(10)]>>

set_audio_input == [mix_option |-> Choice(0, 2), volume |-> Choice(0, 65381),
                    balance |-> Choice(-10000, 10000)]
set_audio_master == [volume |-> Choice(0, 65381), afv |-> Flag]
set_audio_monitor ==
    [c \in {"enabled", "mute", "solo", "dim"} |-> Flag]
    @@ [c \in {"volume", "solo_source", "dim_volume"} |-> Choice(0, 65381)]

\* Controls a profile does not keep, shown as they are on the wire.
Unsaved(cmds, recv, setters) ==
    Group(cmds, {recv}, setters, [c \in DOMAIN setters |-> AsIs],
          Kept({}), Kept({}), {})
LegacyGroups ==
    [ audio_input   |-> Unsaved({CAMI}, AMIP, set_audio_input),
      audio_master  |-> Unsaved({CAMM}, AMMO, set_audio_master),
      audio_monitor |-> Unsaved({CAMm}, AMmO, set_audio_monitor) ]
=============================================================================
