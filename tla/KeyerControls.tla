--------------------------- MODULE KeyerControls ----------------------------
(***************************************************************************)
(* The controls of an upstream keyer: the commands that set them, the      *)
(* fields that report them, the scale each setter and each reader applies, *)
(* and what a profile keeps of them.  The four tables of a group are       *)
(* written at four places of the code; nothing but their agreement makes a *)
(* control show what was asked of it.  A control has the name its command  *)
(* gives it.                                                               *)
(***************************************************************************)
EXTENDS Layouts, TLC

(* messages/upstream_keyer.py, the commands.                               *)
CKOn == Command(4, 0, <<u8(0), u8(1)>>, [enabled |-> boolean(2)], <<>>)
CKeF == Command(4, 0, <<u8(0), u8(1)>>, [fill_source |-> u16(2)], <<>>)
CKeC == Command(4, 0, <<u8(0), u8(1)>>, [key_source |-> u16(2)], <<>>)
CKTp == Command(8, 1, <<u8(1), u8(2)>>,
    [type |-> u8(3), fly_enabled |-> boolean(4)], <<"type", "fly_enabled">>)
CKDV == Command(64, 4, <<u8(4), u8(5)>>,
    [size_x |-> i32(8), size_y |-> i32(12), pos_x |-> i32(16),
     pos_y |-> i32(20), rotation |-> i32(24), border_enabled |-> boolean(28),
     shadow_enabled |-> boolean(29), border_bevel_enabled |-> u8(30),
     outer_width |-> u16(32), inner_width |-> u16(34),
     outer_softness |-> u8(36), inner_softness |-> u8(37),
     bevel_softness |-> u8(38), bevel_position |-> u8(39),
     border_opacity |-> u8(40), border_hue |-> u16(42),
     border_saturation |-> u16(44), border_luma |-> u16(46),
     angle |-> u16(48), altitude |-> u8(50), mask_enabled |-> boolean(51),
     mask_top |-> i16(52), mask_bottom |-> i16(54), mask_left |-> i16(56),
     mask_right |-> i16(58), rate |-> u8(60)],
    <<"size_x", "size_y", "pos_x", "pos_y", "rotation", "border_enabled",
      "shadow_enabled", "border_bevel_enabled", "outer_width", "inner_width",
      "outer_softness", "inner_softness", "bevel_softness", "bevel_position",
      "border_opacity", "border_hue", "border_saturation", "border_luma",
      "angle", "altitude", "mask_enabled", "mask_top", "mask_bottom",
      "mask_left", "mask_right", "rate">>)
CKMs == Command(12, 1, <<u8(1), u8(2)>>,
    [enabled |-> boolean(3), top |-> i16(4), bottom |-> i16(6),
     left |-> i16(8), right |-> i16(10)],
    <<"enabled", "top", "bottom", "left", "right">>)
CKPt == Command(16, 1, <<u8(1), u8(2)>>,
    [pattern |-> u8(3), size |-> u16(4), symmetry |-> u16(6),
     softness |-> u16(8), position_x |-> u16(10), position_y |-> u16(12),
     invert_pattern |-> boolean(14)],
    <<"pattern", "size", "symmetry", "softness", "position_x", "position_y",
      "invert_pattern">>)
CACC == Command(20, 1, <<u8(1), u8(2)>>,
    [cursor |-> boolean(3), preview |-> boolean(4), x |-> i16(6), y |-> i16(8),
     size |-> u16(10), Y |-> u16(12), Cb |-> i16(14), Cr |-> i16(16)],
    <<"cursor", "preview", "x", "y", "size", "Y", "Cb", "Cr">>)
CACK == Command(28, 2, <<u8(2), u8(3)>>,
    [foreground |-> u16(4), background |-> u16(6), key_edge |-> u16(8),
     spill |-> u16(10), flare |-> u16(12), brightness |-> i16(14),
     contrast |-> i16(16), saturation |-> u16(18), red |-> i16(20),
     green |-> i16(22), blue |-> i16(24)],
    <<"foreground", "background", "key_edge", "spill", "flare", "brightness",
      "contrast", "saturation", "red", "green", "blue">>)
CKLm == Command(12, 1, <<u8(1), u8(2)>>,
    [premultiplied |-> boolean(3), clip |-> u16(4), gain |-> u16(6),
     invert_key |-> boolean(8)],
    <<"premultiplied", "clip", "gain", "invert_key">>)

(* messages/upstream_keyer.py, the status fields: size and fields.         *)
KeOn == <<4, [enabled |-> boolean(2)]>>
KeBP == <<20, [type |-> u8(2), fly_enabled |-> boolean(5),
               fill_source |-> u16(6), key_source |-> u16(8),
               enabled |-> boolean(10), top |-> i16(12), bottom |-> i16(14),
               left |-> i16(16), right |-> i16(18)]>>
KeDV == <<60, [size_x |-> i32(4), size_y |-> i32(8), pos_x |-> i32(12),
    pos_y |-> i32(16), rotation |-> i32(20), border_enabled |-> boolean(24),
    shadow_enabled |-> boolean(25), border_bevel_enabled |-> boolean(26),
    outer_width |-> u16(28), inner_width |-> u16(30),
    outer_softness |-> u8(32), inner_softness |-> u8(33),
    bevel_softness |-> u8(34), bevel_position |-> u8(35),
    border_opacity |-> u8(36), border_hue |-> u16(38),
    border_saturation |-> u16(40), border_luma |-> u16(42),
    angle |-> u16(44), altitude |-> u8(46), mask_enabled |-> boolean(47),
    mask_top |-> i16(48), mask_bottom |-> i16(50), mask_left |-> i16(52),
    mask_right |-> i16(54), rate |-> u8(56)]>>
KePt == <<16, [pattern |-> u8(2), size |-> u16(4), symmetry |-> u16(6),
               softness |-> u16(8), position_x |-> u16(10),
               position_y |-> u16(12), invert_pattern |-> boolean(14)]>>
KeLm == <<12, [premultiplied |-> boolean(2), clip |-> u16(4), gain |-> u16(6),
               invert_key |-> boolean(8)]>>
KACk == <<24, [foreground |-> u16(2), background |-> u16(4),
    key_edge |-> u16(6), spill |-> u16(8), flare |-> u16(10),
    brightness |-> i16(12), contrast |-> i16(14), saturation |-> u16(16),
    red |-> i16(18), green |-> i16(20), blue |-> i16(22)]>>
KACC == <<16, [cursor |-> boolean(2), preview |-> boolean(3), x |-> i16(4),
               y |-> i16(6), size |-> u16(8), Y |-> u16(10), Cb |-> u16(12),
               Cr |-> u16(14)]>>

-----------------------------------------------------------------------------
(* messages/upstream_keyer.py, the setters.                                *)
BaseSetters == [type |-> Choice(0, 3), fly_enabled |-> Flag,
                fill_source |-> Choice(0, 65535),
                key_source |-> Choice(0, 65535)]
MaskSetters == [enabled |-> Flag]
               @@ [c \in {"top", "bottom", "left", "right"} |-> Times(1000)]
\* Mutant of LumaSetters: the scale of the chroma fields.
LumaInThousandths ==
    [clip |-> percent_to_thousandths, gain |-> percent_to_thousandths]
    @@ [c \in {"premultiplied", "invert_key"} |-> Flag]

LumaSetters == [clip |-> percent_to_tenths, gain |-> percent_to_tenths]
               @@ [c \in {"premultiplied", "invert_key"} |-> Flag]
ChromaSetters == [c \in DOMAIN CACK.fields |-> value_to_thousandths]
PickerSetters ==
    [c \in {"cursor", "preview"} |-> Flag]
    @@ [x |-> [Times(32000) EXCEPT !.off = Tick \div 2],
        y |-> [Times(18000) EXCEPT !.off = Tick \div 2],
        size |-> Clamped(10000, 620, 9925)]
    @@ [c \in {"Y", "Cb", "Cr"} |-> Within(10000, 0, 10000)]
DveSetters ==
    [c \in {"border_enabled", "shadow_enabled", "mask_enabled"} |-> Flag]
    @@ [c \in {"pos_x", "pos_y"} |-> Times(1000)]
    @@ [c \in {"size_x", "size_y"} |-> size_thousandths]
    @@ [c \in {"mask_top", "mask_bottom", "mask_left", "mask_right"} |->
            Times(1000)]
    @@ [c \in {"rotation", "angle", "border_hue", "border_saturation",
               "border_luma"} |-> Times(10)]
    @@ [c \in {"outer_width", "inner_width"} |-> Times(100)]
    @@ [c \in {"outer_softness", "inner_softness", "bevel_softness",
               "bevel_position", "border_opacity", "altitude", "rate"} |->
            Times(1)]
PatternSetters ==
    [pattern |-> Choice(0, 17), invert_pattern |-> Flag]
    @@ [c \in {"size", "symmetry", "softness"} |-> percent_to_thousandths]
    @@ [c \in {"position_x", "position_y"} |-> unit_to_thousandths]

(* messages/upstream_keyer.py, the readers.  Where the field class already *)
(* divides (hue by 10, saturation and luma by 1000, which the reader turns *)
(* into percent) the two steps are one divisor.                            *)
usk_base == [c \in DOMAIN BaseSetters |-> AsIs]
usk_mask == [enabled |-> AsIs]
            @@ [c \in {"top", "bottom", "left", "right"} |-> Over(1000, 10)]
usk_luma == [clip |-> value_from_tenths, gain |-> value_from_tenths]
            @@ [c \in {"premultiplied", "invert_key"} |-> AsIs]
usk_chroma == [c \in DOMAIN KACk[2] |-> value_from_thousandths]
usk_picker ==
    [c \in {"cursor", "preview"} |-> AsIs]
    @@ [x |-> [Over(32000, 1) EXCEPT !.off = Tick \div 2],
        y |-> [Over(18000, 1) EXCEPT !.off = Tick \div 2],
        size |-> Over(10000, 1)]
    @@ [c \in {"Y", "Cb", "Cr"} |-> Over(10000, 1)]
usk_dve ==
    [c \in {"pos_x", "pos_y", "size_x", "size_y", "mask_top", "mask_bottom",
            "mask_left", "mask_right"} |-> Over(1000, 10)]
    @@ [c \in {"rotation", "border_hue", "border_saturation", "border_luma"} |->
            Over(10, 100)]
    @@ [angle |-> Over(10, 1000)]
    @@ [c \in {"outer_width", "inner_width"} |-> percent_from_thousandths]
    @@ [c \in DOMAIN DveSetters |-> AsIs]
usk_pattern ==
    [pattern |-> AsIs, invert_pattern |-> AsIs]
    @@ [c \in {"size", "symmetry", "softness"} |-> percent_from_thousandths]
    @@ [c \in {"position_x", "position_y"} |-> unit_from_thousandths]

-----------------------------------------------------------------------------
(* profile/save.py _build_key and profile/apply.py _apply_usk_block: the   *)
(* controls that are written and the factor of their attribute, those that *)
(* are read back and what their attribute is divided by.                   *)
Kept(controls) == [c \in controls |-> [off |-> 0, by |-> 1]]
Percents == {"foreground", "background", "key_edge", "spill", "flare",
             "saturation"}
KeyWritten ==
    [c \in Percents |-> [off |-> 0, by |-> 100]]
    @@ [x |-> [off |-> Tick \div 2, by |-> 32],
        y |-> [off |-> Tick \div 2, by |-> 18],
        size |-> [off |-> 0, by |-> 100]]
\* Mutant of KeyRead: the attribute is taken as it stands in the file.
KeyReadRaw == [KeyWritten EXCEPT !["saturation"].by = 1]

KeyRead ==
    [c \in Percents |-> [off |-> 0, by |-> 100]]
    @@ [size |-> [off |-> 0, by |-> 100],
        x |-> [off |-> Tick \div 2, by |-> 32],
        y |-> [off |-> Tick \div 2, by |-> 18]]

\* A group of controls: what is sent, reported, set, read, saved, restored,
\* and the sets of fields that restore in one packet.
Group(cmds, recvs, setters, readers, saved, restored, bundles) ==
    [cmds |-> cmds, recvs |-> recvs, setters |-> setters, readers |-> readers,
     saved |-> saved, restored |-> restored, bundles |-> bundles]
Same(setters) == Kept(DOMAIN setters)

KeyerGroups ==
    [ onair   |-> Group({CKOn}, {KeOn}, [enabled |-> Flag], [enabled |-> AsIs],
                        Kept({"enabled"}), Kept({"enabled"}), {}),
      base    |-> Group({CKTp, CKeF, CKeC, CKMs}, {KeBP},
                        BaseSetters @@ MaskSetters, usk_base @@ usk_mask,
                        Same(BaseSetters @@ MaskSetters),
                        Same(BaseSetters @@ MaskSetters), {}),
      luma    |-> Group({CKLm}, {KeLm}, LumaSetters, usk_luma,
                        Same(LumaSetters), Same(LumaSetters),
                        {DOMAIN LumaSetters}),
      chroma  |-> Group({CACK}, {KACk}, ChromaSetters, usk_chroma,
                        [c \in Percents |-> KeyWritten[c]] @@ Same(ChromaSetters),
                        [c \in Percents |-> KeyRead[c]] @@ Same(ChromaSetters), {}),
      picker  |-> Group({CACC}, {KACC}, PickerSetters, usk_picker,
                        [c \in {"x", "y", "size"} |-> KeyWritten[c]]
                            @@ Kept({"Y", "Cb", "Cr"}),
                        [c \in {"x", "y", "size"} |-> KeyRead[c]]
                            @@ Kept({"Y", "Cb", "Cr"}), {{"Y", "Cb", "Cr"}}),
      pattern |-> Group({CKPt}, {KePt}, PatternSetters, usk_pattern,
                        Same(PatternSetters), Same(PatternSetters), {}),
      dve     |-> Group({CKDV}, {KeDV}, DveSetters, usk_dve,
                        Same(DveSetters), Same(DveSetters), {}) ]
=============================================================================
