-------------------------- MODULE RoutingControls ---------------------------
(***************************************************************************)
(* The buses, the outputs, the color generators, fade to black, the        *)
(* HyperDeck bindings, the SuperSource and the multiviewer, in the form of *)
(* KeyerControls.                                                          *)
(***************************************************************************)
EXTENDS MixerControls

Sources == Choice(0, 65535)

(* messages/switching.py.  An aux's mask is always 1.                      *)
CPgI == Command(4, 0, <<u8(0)>>, [source |-> u16(2)], <<>>)
CPvI == Command(4, 0, <<u8(0)>>, [source |-> u16(2)], <<>>)
CAuS == Command(4, 1, <<u8(1)>>, [source |-> u16(2)], <<"source">>)
PrgI == <<4, [source |-> u16(2)]>>
PrvI == <<8, [source |-> u16(2)]>>
AuxS == <<4, [source |-> u16(2)]>>
Routed(cmd, recv) ==
    Plain({cmd}, {recv}, [source |-> Sources], [source |-> AsIs], {})

(* messages/color_generator.py.                                            *)
CClV == Command(8, 1, <<u8(1)>>,
    [hue |-> u16(2), saturation |-> u16(4), luma |-> u16(6)],
    <<"hue", "saturation", "luma">>)
ColV == <<8, [hue |-> u16(2), saturation |-> u16(4), luma |-> u16(6)]>>
set_color_generator ==
    [hue |-> Times(10), saturation |-> percent_to_tenths,
     luma |-> percent_to_tenths]
color_generator == [hue |-> Over(10, 1000), saturation |-> Over(10, 100),
                    luma |-> Over(10, 100)]

(* messages/fade_to_black.py.  The mask is always 1.                       *)
FtbC == Command(4, 1, <<u8(1)>>, [frames |-> u8(2)], <<"frames">>)
FtbP == <<4, [frames |-> u8(1)]>>

(* messages/hyperdeck.py: an address is as wide as Far here.               *)
CXMS == Command(16, 1, <<u16(2)>>,
    [network_address |-> Unsigned(4, 4), input |-> u16(8)],
    <<"network_address", "input">>)
RXMS == <<10, [network_address |-> Unsigned(4, 4), input |-> u16(8)]>>
set_hyperdeck_settings == [network_address |-> Choice(0, Far - 1),
                           input |-> Sources]
hyperdeck_settings == [c \in DOMAIN set_hyperdeck_settings |-> AsIs]

(* messages/supersource.py and messages/multiviewer.py: wire values, no    *)
(* part of a profile.                                                      *)
CSBP == Command(24, 2, <<u8(2), u8(3)>>,
    [enabled |-> boolean(4), source |-> u16(6), x |-> i16(8), y |-> i16(10),
     size |-> u16(12), masked |-> boolean(14), top |-> u16(16),
     bottom |-> u16(18), left |-> u16(20), right |-> u16(22)],
    <<"enabled", "source", "x", "y", "size", "masked", "top", "bottom", "left",
      "right">>)
SSBP == <<24, [enabled |-> boolean(2), source |-> u16(4), x |-> i16(6),
    y |-> i16(8), size |-> u16(10), masked |-> boolean(12), top |-> u16(14),
    bottom |-> u16(16), left |-> u16(18), right |-> u16(20)]>>
set_supersource_box ==
    [enabled |-> Flag, masked |-> Flag, source |-> Sources,
     x |-> Choice(-4800, 4800), y |-> Choice(-3400, 3400), size |-> Choice(70, 1000)]
    @@ [c \in {"top", "bottom"} |-> Choice(0, 18000)]
    @@ [c \in {"left", "right"} |-> Choice(0, 32000)]
CSSc == Command(16, 1, <<u8(1)>>,
    [fill_source |-> u16(2), key_source |-> u16(4), layer |-> u8(6),
     premultiplied |-> boolean(7), clip |-> u16(8), gain |-> u16(10),
     invert |-> boolean(12)],
    <<"fill_source", "key_source", "layer", "premultiplied", "clip", "gain",
      "invert">>)
SSrc == <<16, [fill_source |-> u16(2), key_source |-> u16(4), layer |-> u8(6),
    premultiplied |-> boolean(7), clip |-> u16(8), gain |-> u16(10),
    invert |-> boolean(12)]>>
set_supersource_properties ==
    [fill_source |-> Sources, key_source |-> Sources, layer |-> Flag,
     premultiplied |-> Flag, invert |-> Flag]
    @@ [c \in {"clip", "gain"} |-> Choice(0, 1000)]
CMvI == Command(4, 0, <<u8(0), u8(1)>>, [source |-> u16(2)], <<>>)
MvIn == <<8, [source |-> u16(2)]>>
CMvP == Command(4, 1, <<u8(1)>>, [layout |-> u8(2), swap |-> boolean(3)],
                <<"layout", "swap">>)
MvPr == <<4, [layout |-> u8(1), swap |-> boolean(2)]>>

RoutingGroups ==
    [ program   |-> Routed(CPgI, PrgI),
      preview   |-> Routed(CPvI, PrvI),
      aux       |-> Routed(CAuS, AuxS),
      color     |-> Plain({CClV}, {ColV}, set_color_generator, color_generator, {}),
      ftb       |-> Plain({FtbC}, {FtbP}, [frames |-> Times(1)],
                          [frames |-> AsIs], {}),
      hyperdeck |-> Whole(CXMS, RXMS, set_hyperdeck_settings, hyperdeck_settings),
      box       |-> Unsaved({CSBP}, SSBP, set_supersource_box),
      art       |-> Unsaved({CSSc}, SSrc, set_supersource_properties),
      window    |-> Unsaved({CMvI}, MvIn, [source |-> Sources]),
      multiview |-> Unsaved({CMvP}, MvPr, [layout |-> Choice(0, 15), swap |-> Flag]) ]
=============================================================================
