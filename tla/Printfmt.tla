------------------------------ MODULE Printfmt ------------------------------
(***************************************************************************)
(* vprintfmt of libs/printfmt.c, directive by directive, with the two      *)
(* places its characters go to: the console, and the buffer of vsnprintf.  *)
(* %e calls it again, so that its calls form a stack of frames.            *)
(*                                                                         *)
(* A character is a string; where what it spells does not matter, one      *)
(* character stands for a whole piece of literal text.  The NUL that ends  *)
(* a string is its end.                                                    *)
(***************************************************************************)
EXTENDS Integers, Sequences, SequencesExt

CONSTANTS
  IntBits,          \* the width of int and unsigned int
  LongBits,         \* of long, long long and pointers
  NullPointer,
  Unprintable       \* the characters outside ' '..'~'

VARIABLES
  frames,           \* the calls of vprintfmt that have not returned
  sink,             \* putch and putdat: where to, and the counter
  console           \* what the console has shown since the last call

printVars == <<frames, sink, console>>

DigitChars == <<"0", "1", "2", "3", "4", "5", "6", "7",
                "8", "9", "a", "b", "c", "d", "e", "f">>
Decimal == {DigitChars[d] : d \in 1..10}
DigitValue(c) == (CHOOSE d \in 1..16 : DigitChars[d] = c) - 1

NUL == "NUL"

error_string ==
  << <<"unspecified error">>, <<"bad process">>, <<"invalid parameter">>,
     <<"out of memory">>, <<"out of processes">>, <<"segmentation fault">> >>
MAXERROR == Len(error_string)
E_INVAL == 3

ASSUME PrintfmtAssumption ==
  /\ IntBits \in Nat /\ LongBits \in Nat /\ 1 < IntBits /\ IntBits <= LongBits
  /\ \A e \in 1..MAXERROR : error_string[e] # NullPointer

-----------------------------------------------------------------------------
(* Where the characters go.                                                *)

Cputch == [fn |-> "cputch", cnt |-> 0]
Sprintbuf(size) == [fn |-> "sprintputch", size |-> size, buf |-> <<>>, cnt |-> 0]

\* Faulty variant: the place of the terminating NUL is given away.
sprintputch_full(b, c) ==
  [b EXCEPT !.cnt = @ + 1, !.buf = IF Len(@) < b.size THEN Append(@, c) ELSE @]

sprintputch(b, c) ==
  [b EXCEPT !.cnt = @ + 1, !.buf = IF Len(@) < b.size - 1 THEN Append(@, c) ELSE @]

\* The buffer with chars put into it, one by one.
Buffered(b, chars) ==
  LET after[k \in 0..Len(chars)] == IF k = 0 THEN b ELSE sprintputch(after[k - 1], chars[k])
  IN  after[Len(chars)]

Put(chars) ==
  IF sink.fn = "cputch"
  THEN /\ console' = console \o chars
       /\ sink' = [sink EXCEPT !.cnt = @ + Len(chars)]
  ELSE /\ sink' = Buffered(sink, chars)
       /\ UNCHANGED console

-----------------------------------------------------------------------------
(* One call of vprintfmt.                                                  *)

Frame(fmt, ap) ==
  [fmt |-> fmt, pos |-> 1, ap |-> ap, escape |-> FALSE, padc |-> " ",
   width |-> -1, precision |-> -1, lflag |-> 0, altflag |-> FALSE]

top == Head(frames)
CharAt(f, p) == IF p > Len(f.fmt) THEN NUL ELSE f.fmt[p]
ch == CharAt(top, top.pos)
va_arg == Head(top.ap)

Goto(f) == frames' = <<f>> \o Tail(frames)
Skipping(f) == [f EXCEPT !.pos = @ + 1]

Literal ==
  /\ ~top.escape /\ ch \notin {"%", NUL}
  /\ Put(<<ch>>)
  /\ Goto(Skipping(top))

Finish ==
  /\ ~top.escape /\ ch = NUL
  /\ frames' = Tail(frames)
  /\ UNCHANGED <<sink, console>>

BeginEscape ==
  /\ ~top.escape /\ ch = "%"
  /\ Goto([Skipping(top) EXCEPT !.escape = TRUE, !.padc = " ", !.width = -1,
                                !.precision = -1, !.lflag = 0, !.altflag = FALSE])
  /\ UNCHANGED <<sink, console>>

\* goto reswitch: the directive goes on behind what was read.
Reswitch(f) ==
  /\ top.escape
  /\ Goto(f)
  /\ UNCHANGED <<sink, console>>

PadFlag == ch \in {"-", "0"} /\ Reswitch([Skipping(top) EXCEPT !.padc = ch])

\* Faulty variant: a width that is there is replaced.
process_precision_always(f, value) == [f EXCEPT !.width = value, !.precision = -1]

process_precision(f, value) ==
  IF f.width < 0 THEN [f EXCEPT !.width = value, !.precision = -1]
                 ELSE [f EXCEPT !.precision = value]

Number(digits) ==
  LET value[k \in 0..Len(digits)] ==
        IF k = 0 THEN 0 ELSE value[k - 1] * 10 + DigitValue(digits[k])
  IN  value[Len(digits)]

NumberField ==
  /\ ch \in Decimal \ {"0"}
  /\ LET behind == CHOOSE p \in top.pos .. (Len(top.fmt) + 1) :
                      /\ CharAt(top, p) \notin Decimal
                      /\ \A q \in top.pos .. (p - 1) : top.fmt[q] \in Decimal
         value == Number(SubSeq(top.fmt, top.pos, behind - 1))
     IN  Reswitch(process_precision([top EXCEPT !.pos = behind], value))

StarField ==
  /\ ch = "*"
  /\ Reswitch(process_precision([Skipping(top) EXCEPT !.ap = Tail(@)], va_arg))

PointFlag == ch = "." /\ Reswitch([Skipping(top) EXCEPT !.width = IF @ < 0 THEN 0 ELSE @])
AltFlag == ch = "#" /\ Reswitch([Skipping(top) EXCEPT !.altflag = TRUE])
LongFlag == ch = "l" /\ Reswitch([Skipping(top) EXCEPT !.lflag = @ + 1])

-----------------------------------------------------------------------------
(* The conversions.                                                        *)

\* The directive is dealt with, its argument taken.
Converted == [Skipping(top) EXCEPT !.escape = FALSE, !.ap = Tail(@)]

Convert(c, chars) ==
  /\ top.escape /\ ch = c
  /\ Put(chars)
  /\ Goto(Converted)

Powers(base) ==
  LET power[k \in 0..LongBits] == IF k = 0 THEN 1 ELSE base * power[k - 1] IN power

Bits(lflag) == IF lflag > 0 THEN LongBits ELSE IntBits
getuint(v, lflag) == v % Powers(2)[Bits(lflag)]
getint(v, lflag) ==
  LET u == getuint(v, lflag)
  IN  IF u < Powers(2)[Bits(lflag) - 1] THEN u ELSE u - Powers(2)[Bits(lflag)]

Pad(c, n) == IF n > 0 THEN [k \in 1..n |-> c] ELSE <<>>

\* The calls nest, each with one digit less and one place less to fill, down to
\* the one that has a single digit: it pads, and each prints its last digit when
\* those inside it are done.
printnum(num, base, width, padc) ==
  LET nested[k \in 0..LongBits] == IF k = 0 THEN num ELSE nested[k - 1] \div base
      depth == CHOOSE k \in 0..LongBits :
                 nested[k] < base /\ \A q \in 0..(k - 1) : nested[q] >= base
  IN  Pad(padc, (width - depth) - 1)
        \o [i \in 1..(depth + 1) |-> DigitChars[(nested[(depth + 1) - i] % base) + 1]]

Printed(num, base) == printnum(num, base, top.width, top.padc)

CharConversion == Convert("c", <<va_arg>>)

ErrorConversion ==
  /\ top.escape /\ ch = "e"
  /\ LET err == IF va_arg < 0 THEN -va_arg ELSE va_arg
         call == IF err > MAXERROR \/ err = 0
                 THEN Frame(<<"error ", "%", "d">>, <<err>>)
                 ELSE Frame(<<"%", "s">>, <<error_string[err]>>)
     IN  frames' = <<call, Converted>> \o Tail(frames)
  /\ UNCHANGED <<sink, console>>

\* strnlen: how much of p a precision shows; a negative one shows it all.
Shown(p, precision) == IF precision < 0 \/ Len(p) < precision THEN Len(p) ELSE precision

StringConversion ==
  Convert("s",
    LET p == IF va_arg = NullPointer THEN <<"(", "n", "u", "l", "l", ")">> ELSE va_arg
        left == IF top.width > 0 /\ top.padc # "-" THEN top.width - Shown(p, top.precision)
                                                   ELSE 0
        n == IF top.precision >= 0 /\ top.precision < Len(p) THEN top.precision ELSE Len(p)
        shown == [i \in 1..n |-> IF top.altflag /\ p[i] \in Unprintable THEN "?" ELSE p[i]]
        right == IF top.padc = "-" THEN top.width - n ELSE 0
    IN  Pad(top.padc, left) \o shown \o Pad(" ", right))

DecimalConversion ==
  LET num == getint(va_arg, top.lflag)
  IN  Convert("d", IF num < 0 THEN <<"-">> \o Printed(-num, 10) ELSE Printed(num, 10))

UnsignedConversion == Convert("u", Printed(getuint(va_arg, top.lflag), 10))
OctalConversion == Convert("o", Printed(getuint(va_arg, top.lflag), 8))
HexConversion == Convert("x", Printed(getuint(va_arg, top.lflag), 16))
PointerConversion == Convert("p", <<"0", "x">> \o Printed(va_arg, 16))

PercentConversion ==
  /\ top.escape /\ ch = "%"
  /\ Put(<<"%">>)
  /\ Goto([Skipping(top) EXCEPT !.escape = FALSE])

\* What is none of these is printed from its '%' on; so is a directive that the
\* end of the format cuts short.
UnknownConversion ==
  /\ top.escape
  /\ ch \notin Decimal \cup {"-", "*", ".", "#", "l", "c", "e", "s", "d", "u", "o", "p",
                             "x", "%"}
  /\ Put(<<"%">>)
  /\ Goto([top EXCEPT !.escape = FALSE,
                      !.pos = 1 + CHOOSE p \in 1..(top.pos - 1) :
                                    /\ top.fmt[p] = "%"
                                    /\ \A q \in (p + 1)..(top.pos - 1) : top.fmt[q] # "%"])

vprintfmt ==
  /\ frames # <<>>
  /\ \/ Literal \/ Finish \/ BeginEscape
     \/ PadFlag \/ NumberField \/ StarField \/ PointFlag \/ AltFlag \/ LongFlag
     \/ CharConversion \/ ErrorConversion \/ StringConversion \/ DecimalConversion
     \/ UnsignedConversion \/ OctalConversion \/ HexConversion \/ PointerConversion
     \/ PercentConversion \/ UnknownConversion

-----------------------------------------------------------------------------
(* What the directives print, stated over whole messages: a message is a   *)
(* sequence of literal characters and directives with their arguments.     *)

Directive(flags, width, prec, l, conv, stars, arg) ==
  [flags |-> flags, width |-> width, prec |-> prec, l |-> l, conv |-> conv,
   stars |-> stars, arg |-> arg]
Text(c) == Directive(<<>>, <<>>, <<>>, 0, "text", <<>>, c)

TakesArgument(d) == d.conv \in {"c", "e", "s", "d", "u", "o", "p", "x"}

FormatOfDirective(d) ==
  IF d.conv = "text" THEN <<d.arg>>
  ELSE <<"%">> \o d.flags \o d.width \o d.prec \o Pad("l", d.l)
         \o (IF d.conv = NUL THEN <<>> ELSE <<d.conv>>)
FormatOf(message) == FlattenSeq([i \in 1..Len(message) |-> FormatOfDirective(message[i])])
ArgsOf(message) ==
  FlattenSeq([i \in 1..Len(message) |->
    message[i].stars \o (IF TakesArgument(message[i]) THEN <<message[i].arg>> ELSE <<>>)])

\* What a caller may write.  A literal is no '%' and takes no argument; the error
\* code of %e is not the most negative int, which has no positive counterpart;
\* and only the end of the format cuts a directive short.
IsSequence(s) == s \in Seq(Range(s))
IsNumber(s) == s \in Seq(Decimal) /\ s # <<>> /\ s[1] # "0"
IsCount(n) == n = <<"*">> \/ IsNumber(n)
StarCount(d) ==
  (IF d.width = <<"*">> THEN 1 ELSE 0) + (IF d.prec = <<".", "*">> THEN 1 ELSE 0)
ArgumentFits(d) ==
  CASE d.conv = "text" -> d.arg \notin {"%", NUL} /\ d.stars = <<>>
    [] d.conv = "e" -> d.arg \in (1 - Powers(2)[IntBits - 1]) .. (Powers(2)[IntBits - 1] - 1)
    [] d.conv = "s" -> d.arg = NullPointer \/ IsSequence(d.arg)
    [] d.conv \in {"d", "u", "o", "x"} -> d.arg \in Int
    [] d.conv = "p" -> d.arg \in 0..(Powers(2)[LongBits] - 1)
    [] OTHER -> TRUE
IsDirective(d) ==
  /\ d.flags \in Seq({"-", "0", "#"})
  /\ d.width = <<>> \/ IsCount(d.width)
  /\ \/ d.prec \in {<<>>, <<".">>, <<".", "*">>}
     \/ d.prec \in Seq({"."} \cup Decimal) /\ Head(d.prec) = "." /\ IsNumber(Tail(d.prec))
  /\ d.l \in Nat
  /\ d.stars \in Seq(Int) /\ Len(d.stars) = StarCount(d)
  /\ d.conv \notin Decimal \cup {"-", "*", ".", "#", "l"}
  /\ ArgumentFits(d)
IsMessage(message) ==
  /\ Len(message) \in Nat
  /\ \A k \in 1..Len(message) : /\ IsDirective(message[k])
                                /\ message[k].conv = NUL => k = Len(message)

\* The width and the precision asked for; -1 for none.
FieldWidth(d) ==
  IF d.width = <<"*">> THEN d.stars[1]
  ELSE IF d.width # <<>> THEN Number(d.width) ELSE -1
Precision(d) ==
  IF d.prec \in {<<>>, <<".">>} THEN -1
  ELSE IF d.prec = <<".", "*">> THEN Last(d.stars) ELSE Number(Tail(d.prec))

\* The shortest numeral of v >= 0, digit by digit.
Numeral(v, base) ==
  LET n == CHOOSE k \in 1..LongBits :
             v < Powers(base)[k] /\ (k = 1 \/ v >= Powers(base)[k - 1])
  IN  [i \in 1..n |-> DigitChars[((v \div Powers(base)[n - i]) % base) + 1]]

\* The last of the flags that say what to pad with.
PadChar(d) ==
  LET said == {k \in DOMAIN d.flags : d.flags[k] # "#"}
  IN  IF said = {} THEN " " ELSE d.flags[Max(said)]

\* A field as the comments of the flags describe it: '-' pads on the right
\* (printfmt.c:139), '0' with zeros instead of spaces (printfmt.c:144).
Field(d, chars) ==
  LET missing == FieldWidth(d) - Len(chars)
  IN  IF PadChar(d) = "-" THEN chars \o Pad(" ", missing)
                          ELSE Pad(PadChar(d), missing) \o chars

\* Against that comment numbers are never padded on the right: with '-' they
\* have that character on the left.  A sign or "0x" stands outside the field.
PaddedNumber(d, numeral) ==
  IF PadChar(d) = "-" THEN Pad("-", FieldWidth(d) - Len(numeral)) \o numeral
                      ELSE Field(d, numeral)

\* v as an integer of so many bits.
Unsigned(v, bits) ==
  CHOOSE w \in 0..(Powers(2)[bits] - 1) : (v - w) % Powers(2)[bits] = 0
Signed(v, bits) ==
  CHOOSE w \in -Powers(2)[bits - 1] .. (Powers(2)[bits - 1] - 1) :
    (v - w) % Powers(2)[bits] = 0

\* Strings have fields too, though "space or zero padding and a field width are
\* supported for the numeric formats only" (printfmt.c:8).
StringField(d) ==
  LET all == IF d.arg = NullPointer THEN <<"(", "n", "u", "l", "l", ")">> ELSE d.arg
      cut == IF Precision(d) < 0 THEN all ELSE SubSeq(all, 1, Min({Precision(d), Len(all)}))
      seen == [i \in DOMAIN cut |-> IF cut[i] \in Unprintable /\ Contains(d.flags, "#")
                                    THEN "?" ELSE cut[i]]
  IN  Field(d, seen)

ErrorText(err) ==
  IF err \in 1..MAXERROR THEN error_string[err] ELSE <<"error ">> \o Numeral(err, 10)

\* What a directive prints, read off the directive as a whole: what the comments
\* say of the flags and the conversions, but for the two departures above.
Rendered(d) ==
  LET signed == Signed(d.arg, Bits(d.l))
      unsigned == Unsigned(d.arg, Bits(d.l))
  IN  CASE d.conv \in {"text", "c"} -> <<d.arg>>
        [] d.conv = "%" -> <<"%">>
        [] d.conv = "s" -> StringField(d)
        [] d.conv = "e" -> ErrorText(IF d.arg < 0 THEN -d.arg ELSE d.arg)
        [] d.conv = "d" /\ signed < 0 -> <<"-">> \o PaddedNumber(d, Numeral(-signed, 10))
        [] d.conv = "d" /\ signed >= 0 -> PaddedNumber(d, Numeral(signed, 10))
        [] d.conv = "u" -> PaddedNumber(d, Numeral(unsigned, 10))
        [] d.conv = "o" -> PaddedNumber(d, Numeral(unsigned, 8))
        [] d.conv = "x" -> PaddedNumber(d, Numeral(unsigned, 16))
        [] d.conv = "p" -> <<"0", "x">> \o PaddedNumber(d, Numeral(d.arg, 16))
        [] OTHER -> FormatOfDirective(d)

RenderedText(message) == FlattenSeq([i \in 1..Len(message) |-> Rendered(message[i])])
=============================================================================
