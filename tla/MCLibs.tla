------------------------------- MODULE MCLibs -------------------------------
(***************************************************************************)
(* Texts for strtol, messages with every directive between two literals,   *)
(* and what the console is given, for the run of Libs.                     *)
(***************************************************************************)
EXTENDS Libs

CONSTANT TextLength       \* of the texts of strtol, at most

Terminated(q) == [k \in 0..Len(q) |-> IF k = Len(q) THEN 0 ELSE q[k + 1]]
MCTexts ==
  {Terminated(q) : q \in UNION {[1..k -> {32, 43, 45, 48, 57, 97, 120, 88, 90}] :
                                k \in 0..TextLength}}

-----------------------------------------------------------------------------
(* Directives.  The values are those of 4-bit ints and 7-bit longs.        *)

Widths == {<<>>, <<"3">>, <<"1", "0">>, <<"*">>}
Precisions == {<<>>, <<".">>, <<".", "2">>, <<".", "*">>}
Stars(width, prec) ==
  IF width = <<"*">> /\ prec = <<".", "*">> THEN {<<4, 1>>, <<-2, 1>>}
  ELSE IF width = <<"*">> THEN {<<4>>, <<-2>>}
  ELSE IF prec = <<".", "*">> THEN {<<1>>, <<-1>>}
  ELSE {<<>>}

Arguments(conv, l) ==
  CASE conv = "c" -> {"x"}
    [] conv = "e" -> {-4, 4, 0, 7}
    [] conv = "s" -> {NullPointer, <<>>, <<"a", "BEL", "b">>}
    [] conv = "d" -> IF l = 0 THEN {0, 7, -8, 23} ELSE {-63, 10}
    [] conv \in {"u", "o", "x"} -> IF l = 0 THEN {0, 10, -1, 23} ELSE {-1, 63}
    [] conv = "p" -> {0, 92}
    [] OTHER -> {"none"}

Conversions == {"c", "e", "s", "d", "u", "o", "x", "p", "%", "k", NUL}

Directives ==
  UNION {{Directive(flags, width, prec, l, conv, stars, arg) :
            stars \in Stars(width, prec), arg \in Arguments(conv, l)} :
         flags \in {<<>>, <<"-">>, <<"0">>, <<"-", "#">>, <<"#", "0", "-">>},
         width \in Widths, prec \in Precisions, l \in 0..2, conv \in Conversions}

\* A directive that the format cuts short is the last.
MCMessages ==
  {<<Text("<"), d>> \o (IF d.conv = NUL THEN <<>> ELSE <<Text(">")>>) : d \in Directives}
  \cup {<<d, d>> : d \in {e \in Directives : e.width = <<>> /\ e.prec = <<>> /\ e.conv # NUL}}

MCPanicMessages ==
  {<<Text("panic")>>,
   <<Text("at "), Directive(<<>>, <<>>, <<>>, 0, "p", <<>>, 92), Text("LF")>>}

MCKernelSymbols ==
  [name \in {"entry", "etext", "edata", "end"} |->
     CASE name = "entry" -> 64 [] name = "etext" -> 80
       [] name = "edata" -> 96 [] OTHER -> 120]

MCPrompts == {NullPointer, <<>>, <<"K", ">">>}
=============================================================================
