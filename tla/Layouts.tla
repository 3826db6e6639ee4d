------------------------------ MODULE Layouts -------------------------------
(***************************************************************************)
(* The declarative message layer of atemwire (messages/_dsl.py) and the    *)
(* scale primitives of state.py, as operators.  A field has a place in the *)
(* payload, a width and a sign; a Send carries a mask whose bits name the  *)
(* fields that were given, written after the fields; a Recv reads every    *)
(* field at its place.  Display values are integers in ten-thousandths     *)
(* ("ticks"), the finest step any reader shows.                            *)
(***************************************************************************)
EXTENDS Integers, Sequences, SequencesExt

Tick == 10000

\* n / d to the nearest integer (a tie goes up; round() takes the even one,
\* and no value of the runs is a tie).
Nearest(n, d) == (2 * n + d) \div (2 * d)
Clamp(lo, hi, n) == IF n < lo THEN lo ELSE IF n > hi THEN hi ELSE n

(* Field types.  The range of an i32 is cut to Far, as far as the values   *)
(* of the runs go.                                                         *)
Far == 100000
Unsigned(at, n) == [at |-> at, size |-> n, lo |-> 0,
                    hi |-> IF n = 4 THEN 2 ^ 30 ELSE 256 ^ n - 1]
u8(at)      == Unsigned(at, 1)
u16(at)     == Unsigned(at, 2)
i16(at)     == [at |-> at, size |-> 2, lo |-> -32768, hi |-> 32767]
i32(at)     == [at |-> at, size |-> 4, lo |-> -Far, hi |-> Far]
boolean(at) == [at |-> at, size |-> 1, lo |-> 0, hi |-> 1]

\* struct.error otherwise, before anything is sent.
Fits(f, w) == w \in f.lo .. f.hi

\* Big-endian bytes; the first byte of a signed field carries the sign.
Packed(f, w) == [i \in 0 .. f.size - 1 |-> (w \div 256 ^ (f.size - 1 - i)) % 256]
Unpacked(f, bytes) ==
    LET top == bytes[f.at]
        first == IF f.lo < 0 /\ top > 127 THEN top - 256 ELSE top
    IN  FoldLeft(LAMBDA n, i : 256 * n + bytes[f.at + i], first,
                 [i \in 1 .. f.size - 1 |-> i])

\* buf with the value of one field written into it.
Written(buf, f, w) ==
    [b \in DOMAIN buf |-> IF b - f.at \in 0 .. f.size - 1
                          THEN Packed(f, w)[b - f.at] ELSE buf[b]]

(* A command: its address fields (M/E or keyer index), its payload fields, *)
(* its size and, when it has one, the width of its mask and the order of   *)
(* the mask's bits.                                                        *)
Command(size, mask, addr, fields, bits) ==
    [size |-> size, mask |-> mask, addr |-> addr, fields |-> fields,
     bits |-> bits]

MaskField(cmd) == Unsigned(0, cmd.mask)
MaskOf(cmd, given) ==
    FoldLeft(LAMBDA m, i : IF cmd.bits[i] \in given THEN m + 2 ^ (i - 1) ELSE m,
             0, [i \in 1 .. Len(cmd.bits) |-> i])

\* get_command(): the given fields at their places, the mask over the front.
GetCommand(cmd, place, vals) ==
    LET zero  == [b \in 0 .. cmd.size - 1 |-> 0]
        there == FoldLeft(LAMBDA buf, f : Written(buf, f, place), zero, cmd.addr)
        given == FoldSet(LAMBDA c, buf : Written(buf, cmd.fields[c], vals[c]),
                         there, DOMAIN vals)
    IN  IF cmd.mask = 0 THEN given
        ELSE Written(given, MaskField(cmd), MaskOf(cmd, DOMAIN vals))

\* The payload of a status field that holds all of vals.
StatusOf(size, fields, vals) ==
    FoldSet(LAMBDA c, buf : Written(buf, fields[c], vals[c]),
            [b \in 0 .. size - 1 |-> 0], DOMAIN fields)
Decoded(fields, bytes) == [c \in DOMAIN fields |-> Unpacked(fields[c], bytes)]

-----------------------------------------------------------------------------
(* Setters: a display value becomes (d - off) * by, rounded; a Clamped one *)
(* stays within lo .. hi, a Within one is sent as it is and lo .. hi is    *)
(* what its callers have.  Readers: wire / div + off, at a number of       *)
(* decimals whose step is q ticks.                                         *)
Clamped(by, lo, hi) == [by |-> by, off |-> 0, lo |-> lo, hi |-> hi, clamps |-> TRUE]
Within(by, lo, hi)  == [Clamped(by, lo, hi) EXCEPT !.clamps = FALSE]
percent_to_thousandths == Clamped(100, 0, 10000)
percent_to_tenths      == Clamped(10, 0, 1000)
unit_to_thousandths    == Clamped(10000, 0, 10000)
size_thousandths       == Clamped(1000, 0, 2000)
Times(by)              == Within(by, -Far, Far)
value_to_thousandths   == Times(1000)
Choice(lo, hi)         == Within(1, lo, hi)
Flag                   == Choice(0, 1)

Wire(s, d) ==
    LET w == Nearest((d - s.off) * s.by, Tick)
    IN  IF s.clamps THEN Clamp(s.lo, s.hi, w) ELSE w

Over(div, q) == [div |-> div, off |-> 0, q |-> q]
percent_from_thousandths == Over(100, 100)
unit_from_thousandths    == Over(10000, 1)
value_from_thousandths   == Over(1000, 10)
value_from_tenths        == Over(10, 100)
AsIs                     == Over(1, Tick)

ShownBy(r, w) == r.q * Nearest(w * Tick, r.div * r.q) + r.off
=============================================================================
