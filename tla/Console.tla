------------------------------ MODULE Console ------------------------------
(***************************************************************************)
(* The callers of vprintfmt and the rest of the console: cprintf, cputs,   *)
(* cputchar and getchar of kern/libs/stdio.c, snprintf of libs/printfmt.c, *)
(* readline of libs/readline.c, __panic and __warn of kern/debug/panic.c   *)
(* and print_kerninfo of kern/init/init.c.  One call runs at a time; when  *)
(* it is over its outcome is there to see until the caller goes on.        *)
(***************************************************************************)
EXTENDS Printfmt

CONSTANTS
  Messages,         \* what callers print: sequences of literals and directives
  Sizes,            \* how large the buffers of snprintf are
  PanicMessages,    \* the messages of __panic and __warn
  KernelSymbols,    \* entry, etext, edata, end
  BUFSIZE,
  Keys,             \* the characters the firmware hands on
  MaxTyped,         \* how many of them make a line at most
  Prompts

ASSUME ConsoleAssumption ==
  /\ BUFSIZE \in Nat \ {0}
  /\ {"BS", "LF"} \subseteq Keys
  /\ Sizes \subseteq Nat

\* The characters the firmware hands on are none of them NUL, which it returns
\* when there is none, and prompts move no cursor back.
ASSUME LineAssumption ==
  /\ NUL \notin Keys
  /\ \A prompt \in Prompts \ {NullPointer} : IsSequence(prompt) /\ ~Contains(prompt, "BS")

ASSUME MessagesAssumption ==
  /\ \A message \in Messages \cup PanicMessages : IsMessage(message)
  /\ \A name \in {"entry", "etext", "edata", "end"} : KernelSymbols[name] \in Int

VARIABLES
  request,          \* the call made
  pc,               \* where it is: "idle", "print", "edit", "dead" or "done"
  todo,             \* the messages it has yet to print
  result,           \* what it returned
  buf, i,           \* the line buffer and where readline writes it next
  typed,            \* ghost: the characters readline was given
  is_panic

callVars == <<request, pc, todo, result>>
lineVars == <<buf, i, typed>>
consoleVars == <<printVars, callVars, lineVars, is_panic>>

Controls == {"BS", "LF", "CR", "ESC"}

ConsoleInit ==
  /\ frames = <<>> /\ sink = Cputch /\ console = <<>>
  /\ request = [fn |-> "none"] /\ pc = "idle" /\ todo = <<>> /\ result = 0
  /\ buf = <<>> /\ i = 0 /\ typed = <<>>
  /\ is_panic = FALSE

-----------------------------------------------------------------------------
(* The calls that print.                                                   *)

String(p) == Directive(<<>>, <<>>, <<>>, 0, "s", <<>>, p)
Long016x(v) == Directive(<<"0">>, <<"1", "6">>, <<>>, 1, "x", <<>>, v)
Decimal32(v) == Directive(<<>>, <<>>, <<>>, 0, "d", <<>>, v)
Newline == <<Text("LF")>>

\* The heading of __panic and __warn.
Heading(what) == <<Text(what), String(<<"file.c">>), Text(":"), Decimal32(7), Text(":LF    ")>>

PanicText(what, message) == <<Heading(what), message, Newline>>

KernelInfo ==
  LET Symbol(name) == <<Text(name), Long016x(KernelSymbols[name]), Text(" (virtual)LF")>>
  IN  << <<Text("Special kernel symbols:LF")>>,
         Symbol("entry"), Symbol("etext"), Symbol("edata"), Symbol("end"),
         <<Text("Kernel executable memory footprint: "),
           Decimal32((KernelSymbols["end"] - KernelSymbols["entry"] + 1023) \div 1024),
           Text("KBLF")>> >>

Start(c, messages) ==
  /\ request' = c
  /\ todo' = messages
  /\ pc' = "print"
  /\ UNCHANGED <<printVars, result, lineVars>>

CallCprintf(message) ==
  /\ Start([fn |-> "cprintf", message |-> message], <<message>>)
  /\ UNCHANGED is_panic

CallPrintKerninfo ==
  /\ Start([fn |-> "print_kerninfo"], KernelInfo)
  /\ UNCHANGED is_panic

__warn(message) ==
  /\ Start([fn |-> "__warn", message |-> message],
           PanicText("kernel warning at ", message))
  /\ UNCHANGED is_panic

\* A panic while one is being printed prints nothing.  No code that prints the
\* first one panics and no interrupt is handled, so that none comes here.
__panic(message) ==
  /\ IF is_panic
     THEN pc' = "dead" /\ UNCHANGED <<printVars, request, todo, result, lineVars>>
     ELSE Start([fn |-> "__panic", message |-> message],
                PanicText("kernel panic at ", message))
  /\ is_panic' = TRUE

\* A buffer of size 0 is refused, as a null one is.
snprintf(message, size) ==
  /\ IF size = 0
     THEN /\ request' = [fn |-> "snprintf", message |-> message, size |-> size]
          /\ pc' = "done"
          /\ result' = -E_INVAL
          /\ UNCHANGED <<printVars, todo, lineVars>>
     ELSE Start([fn |-> "snprintf", message |-> message, size |-> size], <<message>>)
  /\ UNCHANGED is_panic

\* No directive is looked for in what cputs prints.
cputs(str) ==
  /\ request' = [fn |-> "cputs", str |-> str]
  /\ console' = str \o <<"LF">>
  /\ result' = Len(str) + 1
  /\ pc' = "done"
  /\ UNCHANGED <<frames, sink, todo, lineVars, is_panic>>

\* vcprintf, or vsnprintf, begins.
BeginPrint ==
  /\ pc = "print" /\ frames = <<>> /\ todo # <<>>
  /\ frames' = <<Frame(FormatOf(Head(todo)), ArgsOf(Head(todo)))>>
  /\ sink' = IF request.fn = "snprintf" THEN Sprintbuf(request.size) ELSE Cputch
  /\ todo' = Tail(todo)
  /\ UNCHANGED <<console, request, pc, result, lineVars, is_panic>>

Printing ==
  /\ pc = "print"
  /\ vprintfmt
  /\ UNCHANGED <<callVars, lineVars, is_panic>>

\* vsnprintf ends its buffer with NUL.
EndPrint ==
  /\ pc = "print" /\ frames = <<>> /\ todo = <<>>
  /\ pc' = CASE request.fn = "__panic" -> "dead"
             [] request.fn = "readline" -> "edit"
             [] OTHER -> "done"
  /\ result' = sink.cnt
  /\ sink' = IF sink.fn = "sprintputch" THEN [sink EXCEPT !.buf = Append(@, NUL)] ELSE sink
  /\ UNCHANGED <<frames, console, request, todo, lineVars, is_panic>>

\* panic_dead: the machine stands still.
PanicDead == pc = "dead" /\ UNCHANGED consoleVars

-----------------------------------------------------------------------------
(* readline, and getchar below it, which waits while there is no character *)
(* (the firmware's 0).                                                     *)

\* left is what earlier lines left in buf.
readline(prompt, left) ==
  /\ request' = [fn |-> "readline", prompt |-> prompt]
  /\ todo' = IF prompt = NullPointer THEN <<>> ELSE << <<String(prompt)>> >>
  /\ pc' = IF prompt = NullPointer THEN "edit" ELSE "print"
  /\ buf' = left
  /\ i' = 0
  /\ UNCHANGED <<printVars, result, typed, is_panic>>

\* Faulty variant: the last byte is used for a character.
HasRoomForAll == i < BUFSIZE

HasRoom == i < BUFSIZE - 1

\* cputchar(c) is cons_putc(c).
Echo(c) == console' = Append(console, c)

\* Faulty variant: what does not fit is shown all the same.
KeepOrEcho(c) ==
  IF HasRoom
  THEN Echo(c) /\ buf' = [buf EXCEPT ![i] = c] /\ i' = i + 1
  ELSE Echo(c) /\ UNCHANGED <<buf, i>>

Keep(c) ==
  IF HasRoom
  THEN Echo(c) /\ buf' = [buf EXCEPT ![i] = c] /\ i' = i + 1
  ELSE UNCHANGED <<console, buf, i>>

Erase ==
  IF i > 0 THEN Echo("BS") /\ i' = i - 1 /\ UNCHANGED buf
           ELSE UNCHANGED <<console, buf, i>>

Character(c) ==
  /\ \/ c \notin Controls /\ Keep(c)
     \/ c = "BS" /\ Erase
     \/ c \in Controls \ {"BS", "LF", "CR"} /\ UNCHANGED <<console, buf, i>>
  /\ UNCHANGED <<pc, result>>

EndOfLine(c) ==
  /\ c \in {"LF", "CR"}
  /\ Echo(c)
  /\ buf' = [buf EXCEPT ![i] = NUL]
  /\ pc' = "done"
  /\ result' = "buf"
  /\ UNCHANGED i

EndOfInput ==
  /\ pc' = "done"
  /\ result' = NullPointer
  /\ UNCHANGED <<console, buf, i, typed>>

getchar ==
  /\ pc = "edit"
  /\ \/ EndOfInput
     \/ \E c \in Keys :
          /\ Len(typed) < MaxTyped \/ c \in {"LF", "CR"}
          /\ typed' = Append(typed, c)
          /\ Character(c) \/ EndOfLine(c)
  /\ UNCHANGED <<frames, sink, request, todo, is_panic>>

-----------------------------------------------------------------------------
\* The caller has seen the outcome, and may call again.
ConsoleForget ==
  /\ pc = "done"
  /\ sink' = Cputch /\ console' = <<>>
  /\ request' = [fn |-> "none"] /\ pc' = "idle" /\ result' = 0
  /\ buf' = <<>> /\ i' = 0 /\ typed' = <<>>
  /\ UNCHANGED <<frames, todo, is_panic>>

LineBuffers == [0..(BUFSIZE - 1) -> {NUL} \cup (Keys \ Controls)]

ConsoleCall ==
  /\ pc = "idle"
  /\ \/ \E m \in Messages : CallCprintf(m) \/ \E size \in Sizes : snprintf(m, size)
     \/ \E m \in PanicMessages : __warn(m) \/ __panic(m)
     \/ CallPrintKerninfo
     \/ \E m \in Messages : cputs(FormatOf(m))
     \/ \E prompt \in Prompts, left \in LineBuffers : readline(prompt, left)

ConsoleNext ==
  \/ ConsoleCall \/ BeginPrint \/ Printing \/ EndPrint
  \/ PanicDead
  \/ getchar
  \/ ConsoleForget

-----------------------------------------------------------------------------
\* The messages that the call under way is to print.
MessagesOf(c) ==
  CASE c.fn = "cprintf" -> <<c.message>>
    [] c.fn = "print_kerninfo" -> KernelInfo
    [] c.fn = "__warn" -> <<Heading("kernel warning at "), c.message, Newline>>
    [] c.fn = "__panic" -> <<Heading("kernel panic at "), c.message, Newline>>

AllText(messages) == FlattenSeq([k \in 1..Len(messages) |-> RenderedText(messages[k])])

\* What a finished call has put on the console is every message it was given,
\* directive by directive what Rendered says of each as a whole, whatever its
\* flags, width and precision and in whatever order vprintfmt reads them;
\* unknown directives literally; the error of a negative code like that of the
\* positive one (printfmt.c:11-14).  Rendered is what the comments of printfmt.c
\* say but for two departures of the code: with the flag '-' numbers are padded
\* on the left (printfmt.c:139 says on the right), and strings have fields too
\* (printfmt.c:8 says numbers only).  A panic has shown all of its message
\* before the machine stands still, and the count returned is that of the
\* characters (stdio.c:20).
TextRendered ==
  /\ pc \in {"done", "dead"} /\ request.fn \in {"cprintf", "print_kerninfo", "__warn", "__panic"}
       => console = AllText(MessagesOf(request))
  /\ pc = "done" /\ request.fn = "cprintf" => result = Len(console)
  /\ pc = "dead" => is_panic
  /\ pc = "done" /\ request.fn = "cputs"
       => console = request.str \o <<"LF">> /\ result = Len(console)

\* vsnprintf never writes past its buffer, leaves there what fits of the text
\* and a NUL behind it, and returns how long the whole text would have been
\* (printfmt.c:322), or -E_INVAL when there is no room even for the NUL.
BufferBounded ==
  request.fn = "snprintf" =>
    /\ console = <<>>
    /\ sink.fn = "sprintputch" => Len(sink.buf) <= request.size
    /\ pc = "done" =>
         LET text == RenderedText(request.message)
             fits == Min({Len(text), request.size - 1})
         IN  IF request.size = 0 THEN result = -E_INVAL
             ELSE /\ sink.buf = SubSeq(text, 1, fits) \o <<NUL>>
                  /\ result = Len(text)

\* The line that the characters typed make: those that fit, less the erased.
Edited(line, c) ==
  IF c = "BS" THEN (IF line = <<>> THEN line ELSE Front(line))
  ELSE IF c \in Controls \/ Len(line) = BUFSIZE - 1 THEN line
  ELSE Append(line, c)
LineTyped ==
  LET line[k \in 0..Len(typed)] == IF k = 0 THEN <<>> ELSE Edited(line[k - 1], typed[k])
  IN  line[Len(typed)]

TextIn(b) == LET n == CHOOSE k \in DOMAIN b : b[k] = NUL /\ \A j \in 0..(k - 1) : b[j] # NUL
             IN  [k \in 1..n |-> b[k - 1]]

\* readline returns the line as it was edited: the characters typed before the
\* end of the line, erased ones gone, those that did not fit discarded
\* (readline.c:17), with a terminator inside the buffer whatever was in the
\* buffer before; and it returns only at the end of a line or of the input.
LineAsEdited ==
  request.fn = "readline" =>
    /\ DOMAIN buf = 0..(BUFSIZE - 1)
    /\ pc = "done" /\ result # NullPointer =>
         /\ \E k \in DOMAIN buf : buf[k] = NUL
         /\ TextIn(buf) = LineTyped
         /\ Last(typed) \in {"LF", "CR"}

\* What a terminal shows left of its cursor.
LeftOfCursor(shown) ==
  LET left[k \in 0..Len(shown)] ==
        IF k = 0 THEN <<>>
        ELSE IF shown[k] = "BS" THEN Front(left[k - 1]) ELSE Append(left[k - 1], shown[k])
  IN  left[Len(shown)]

\* While a line is edited the screen and the buffer agree: left of the cursor
\* are the prompt and the characters of the line so far.  What is not kept is
\* not shown, and the prompt cannot be erased.
ScreenShowsLine ==
  pc = "edit" =>
    LET prompt == IF request.prompt = NullPointer THEN <<>> ELSE request.prompt
    IN  LeftOfCursor(console) = prompt \o [k \in 1..i |-> buf[k - 1]]
=============================================================================
