------------------------------ MODULE Strings ------------------------------
(***************************************************************************)
(* The string and memory functions of libs/string.c, each iteration of     *)
(* their loops a step.  Memory is an array of character codes.  A caller   *)
(* prepares it and makes one call; what the function leaves in memory and  *)
(* returns is there to see until the caller goes on.                       *)
(***************************************************************************)
EXTENDS Integers, FiniteSetsExt

CONSTANTS
  MemSize,         \* how many bytes callers have
  Bytes,           \* what they put there
  Texts,           \* the memories that callers of strtol prepare
  Bases            \* the bases they ask for

ASSUME StringsAssumption ==
  /\ MemSize \in Nat \ {0}
  /\ 0 \in Bytes /\ Bytes \subseteq 0..255
  /\ Bases \subseteq {0} \cup 2..36

\* Texts end.
ASSUME TextsAssumption ==
  \A m \in Texts : \E n \in DOMAIN m :
    /\ n \in Nat /\ DOMAIN m = 0..n
    /\ \A k \in 0..n : m[k] \in 0..255
    /\ m[n] = 0

VARIABLES
  call,            \* the call made: function, arguments, memory at that time
  at,              \* where it is: "idle", "loop", "back", "digits" or "done"
  mem,             \* memory now
  r,               \* its parameters and locals
  ret              \* what it returned

stringVars == <<call, at, mem, r, ret>>

NULL == -1

Addresses == 0..(MemSize - 1)
Memories == [Addresses -> Bytes]

\* Character codes.
Blanks == {32, 9}
Plus == 43
Minus == 45
Zero == 48
UpperX == 88
LowerX == 120

-----------------------------------------------------------------------------
(* What callers ask for: every byte the function may touch is there, the   *)
(* strings end, and only memmove gets areas that overlap.                  *)

Length(m, a) == Min({k \in 0..(MemSize - a) : k = MemSize - a \/ m[a + k] = 0})
Ends(m, a) == a + Length(m, a) < MemSize
Apart(a, b, k) == a + k <= b \/ b + k <= a
Fits(a, k) == a + k <= MemSize

Legal(c) ==
  CASE c.fn \in {"strlen", "strchr", "strfind"} -> c.n = 0 /\ c.d \in Bytes /\ Ends(c.mem, c.s)
    [] c.fn = "strnlen" -> c.d = 0 /\ (Fits(c.s, c.n) \/ Ends(c.mem, c.s))
    [] c.fn = "strcmp" -> c.n = 0 /\ Ends(c.mem, c.d) /\ Ends(c.mem, c.s)
    [] c.fn = "strncmp" -> Ends(c.mem, c.d) /\ Ends(c.mem, c.s)
    [] c.fn = "strcpy" -> LET k == Length(c.mem, c.s) + 1
                          IN  c.n = 0 /\ Fits(c.s, k) /\ Fits(c.d, k) /\ Apart(c.d, c.s, k)
    [] c.fn = "strncpy" -> Ends(c.mem, c.s) /\ Fits(c.d, c.n) /\ Apart(c.d, c.s, c.n)
    [] c.fn = "memset" -> c.s \in Bytes /\ Fits(c.d, c.n)
    [] c.fn = "memcpy" -> Fits(c.d, c.n) /\ Fits(c.s, c.n) /\ Apart(c.d, c.s, c.n)
    [] c.fn \in {"memmove", "memcmp"} -> Fits(c.d, c.n) /\ Fits(c.s, c.n)

Functions ==
  {"strlen", "strnlen", "strcpy", "strncpy", "strcmp", "strncmp", "strchr",
   "strfind", "memset", "memmove", "memcpy", "memcmp"}

Calls ==
  {c \in [fn : Functions, mem : Memories, d : Addresses, s : Addresses, n : 0..MemSize] :
     Legal(c)}

StringsInit ==
  /\ call = [fn |-> "none"]
  /\ at = "idle"
  /\ mem = <<>>
  /\ r = <<>>
  /\ ret = 0

\* Faulty variant: the last byte of src counts as outside it.
CopiesDownShort(dst, src, n) == src < dst /\ src + n > dst + 1

\* dst lies inside src: memmove copies the last byte first.
CopiesDown(dst, src, n) == src < dst /\ src + n > dst

Registers(dst, src, n) == [d |-> dst, s |-> src, n |-> n, val |-> 0, neg |-> FALSE]

Enter(c, where, regs) ==
  /\ call' = c
  /\ mem' = c.mem
  /\ at' = where
  /\ r' = regs
  /\ UNCHANGED ret

EnterMemmove(c) ==
  IF CopiesDown(c.d, c.s, c.n)
  THEN Enter(c, "back", Registers(c.d + c.n, c.s + c.n, c.n))
  ELSE Enter(c, "loop", Registers(c.d, c.s, c.n))

Call(c) ==
  IF c.fn = "memmove" THEN EnterMemmove(c) ELSE Enter(c, "loop", Registers(c.d, c.s, c.n))

\* n is the base.
CallStrtol(m, base) ==
  Enter([fn |-> "strtol", mem |-> m, d |-> 0, s |-> 0, n |-> base],
        "loop", Registers(0, 0, base))

-----------------------------------------------------------------------------
In(f) == at = "loop" /\ call.fn = f

\* The loop goes round again.
Again(m, regs) ==
  /\ mem' = m
  /\ r' = regs
  /\ UNCHANGED <<call, at, ret>>

Return(value) ==
  /\ at' = "done"
  /\ ret' = value
  /\ UNCHANGED <<call, mem, r>>

Copied == [mem EXCEPT ![r.d] = mem[r.s]]
BothOn == [r EXCEPT !.d = @ + 1, !.s = @ + 1]
BothOnOfN == [BothOn EXCEPT !.n = @ - 1]

strlen ==
  /\ In("strlen")
  /\ IF mem[r.s] # 0 THEN Again(mem, [r EXCEPT !.s = @ + 1, !.val = @ + 1])
                     ELSE Return(r.val)

strnlen ==
  /\ In("strnlen")
  /\ IF r.val < r.n /\ mem[r.s] # 0
     THEN Again(mem, [r EXCEPT !.s = @ + 1, !.val = @ + 1])
     ELSE Return(r.val)

strcpy ==
  /\ In("strcpy")
  /\ IF mem[r.s] # 0
     THEN Again(Copied, BothOn)
     ELSE /\ mem' = Copied
          /\ at' = "done"
          /\ ret' = call.d
          /\ UNCHANGED <<call, r>>

\* At the end of src its NUL is copied again and again.
strncpy ==
  /\ In("strncpy")
  /\ IF r.n > 0
     THEN Again(Copied, [r EXCEPT !.d = @ + 1, !.n = @ - 1,
                                  !.s = IF mem[r.s] # 0 THEN @ + 1 ELSE @])
     ELSE Return(call.d)

\* s1 of the comparisons is d.
strcmp ==
  /\ In("strcmp")
  /\ IF mem[r.d] # 0 /\ mem[r.d] = mem[r.s]
     THEN Again(mem, BothOn)
     ELSE Return(mem[r.d] - mem[r.s])

strncmp ==
  /\ In("strncmp")
  /\ IF r.n > 0 /\ mem[r.d] # 0 /\ mem[r.d] = mem[r.s]
     THEN Again(mem, BothOnOfN)
     ELSE Return(IF r.n = 0 THEN 0 ELSE mem[r.d] - mem[r.s])

memcmp ==
  /\ In("memcmp")
  /\ IF r.n > 0 /\ mem[r.d] = mem[r.s]
     THEN Again(mem, BothOnOfN)
     ELSE Return(IF r.n = 0 THEN 0 ELSE mem[r.d] - mem[r.s])

\* The character looked for is d.
Find(otherwise) ==
  IF mem[r.s] # 0 /\ mem[r.s] # call.d
  THEN Again(mem, [r EXCEPT !.s = @ + 1])
  ELSE Return(IF mem[r.s] = 0 THEN otherwise ELSE r.s)

strchr == In("strchr") /\ Find(NULL)
strfind == In("strfind") /\ Find(r.s)

\* The byte to set is s.
memset ==
  /\ In("memset")
  /\ IF r.n > 0
     THEN Again([mem EXCEPT ![r.d] = call.s], [r EXCEPT !.d = @ + 1, !.n = @ - 1])
     ELSE Return(call.d)

CopyUp == IF r.n > 0 THEN Again(Copied, BothOnOfN) ELSE Return(call.d)

memcpy == In("memcpy") /\ CopyUp

memmove ==
  \/ In("memmove") /\ CopyUp
  \/ /\ at = "back"
     /\ IF r.n > 0
        THEN Again([mem EXCEPT ![r.d - 1] = mem[r.s - 1]],
                   [r EXCEPT !.d = @ - 1, !.s = @ - 1, !.n = @ - 1])
        ELSE Return(call.d)

-----------------------------------------------------------------------------
(* strtol: the text is at s, n is base.  Values are small here, and do not *)
(* overflow.                                                               *)

\* The value of a digit in any base; 36 for what is none.
Digit(c) ==
  IF c \in 48..57 THEN c - 48
  ELSE IF c \in 97..122 THEN c - 97 + 10
  ELSE IF c \in 65..90 THEN c - 65 + 10
  ELSE 36

SkipBlank ==
  /\ In("strtol")
  /\ mem[r.s] \in Blanks
  /\ Again(mem, [r EXCEPT !.s = @ + 1])

\* Faulty variant: the prefix is taken whatever the base.
HasHexPrefixOfAnyBase(m, a, base) == m[a] = Zero /\ m[a + 1] = LowerX

HasHexPrefix(m, a, base) == base \in {0, 16} /\ m[a] = Zero /\ m[a + 1] = LowerX

\* The sign and the prefix, which says the base if the caller did not.
SignAndPrefix ==
  /\ In("strtol")
  /\ mem[r.s] \notin Blanks
  /\ LET from == IF mem[r.s] \in {Plus, Minus} THEN r.s + 1 ELSE r.s
         hex == HasHexPrefix(mem, from, r.n)
         octal == ~hex /\ r.n = 0 /\ mem[from] = Zero
     IN  r' = [r EXCEPT !.neg = (mem[r.s] = Minus),
                        !.s = from + (IF hex THEN 2 ELSE IF octal THEN 1 ELSE 0),
                        !.n = IF hex THEN 16 ELSE IF octal THEN 8
                              ELSE IF @ = 0 THEN 10 ELSE @]
  /\ at' = "digits"
  /\ UNCHANGED <<call, mem, ret>>

IsDigit(c, base) == Digit(c) < base

\* What is returned is the value and endptr.
Digits ==
  /\ at = "digits"
  /\ IF IsDigit(mem[r.s], r.n)
     THEN Again(mem, [r EXCEPT !.s = @ + 1, !.val = @ * r.n + Digit(mem[r.s])])
     ELSE Return([value |-> IF r.neg THEN -r.val ELSE r.val, endptr |-> r.s])

strtol == SkipBlank \/ SignAndPrefix \/ Digits

StringsStep ==
  \/ strlen \/ strnlen \/ strcpy \/ strncpy \/ strcmp \/ strncmp \/ strchr
  \/ strfind \/ memset \/ memmove \/ memcpy \/ memcmp \/ strtol

\* The caller has looked at the outcome, and may call again.
StringsForget ==
  /\ at = "done"
  /\ at' = "idle"
  /\ call' = [fn |-> "none"]
  /\ mem' = <<>>
  /\ r' = <<>>
  /\ ret' = 0

StringsCall ==
  /\ at = "idle"
  /\ \/ \E c \in Calls : Call(c)
     \/ \E m \in Texts, base \in Bases : CallStrtol(m, base)

StringsNext == StringsCall \/ StringsStep \/ StringsForget

StringsSpec == StringsInit /\ [][StringsNext]_stringVars

-----------------------------------------------------------------------------
\* The bytes that call c is to write from dst on, and their number: the n bytes
\* at src as they were before, a string with its NUL, or filled up to n.
SourceByte(c, k) == c.mem[c.s + k]
ByteToWrite(c, k) ==
  CASE c.fn = "memset" -> c.s
    [] c.fn = "strncpy" /\ k >= Length(c.mem, c.s) -> 0
    [] OTHER -> SourceByte(c, k)
BytesToWrite(c) == IF c.fn = "strcpy" THEN Length(c.mem, c.s) + 1 ELSE c.n

\* Its memory with those of them written that have an index in which.
Written(c, which) ==
  [a \in Addresses |-> IF a - c.d \in which THEN ByteToWrite(c, a - c.d) ELSE c.mem[a]]

Writers == {"memmove", "memcpy", "memset", "strcpy", "strncpy"}

\* The functions that write memory leave in it what their comments say, also
\* when memmove's areas overlap ("@src and @dst are allowed to overlap",
\* string.c:285), and touch nothing else; the others leave memory alone.
MemoryAsDocumented ==
  at = "done" =>
    IF call.fn \in Writers THEN mem = Written(call, 0..(BytesToWrite(call) - 1)) /\ ret = call.d
                           ELSE mem = call.mem

\* The sign of value is that of the first difference between the k characters
\* of m at a and at b; 0 says that there is none.
Compares(value, m, a, b, k) ==
  LET Differ(j) == m[a + j] # m[b + j]
      first == {j \in 0..(k - 1) : Differ(j) /\ \A q \in 0..(j - 1) : ~Differ(q)}
  IN  IF first = {} THEN value = 0
      ELSE \A j \in first : (value > 0) = (m[a + j] > m[b + j]) /\ value # 0

Occurrences(m, a, c) == {b \in a .. (a + Length(m, a) - 1) : m[b] = c}

\* The number in the text that strtol is called with, read by the parts that its
\* comment lists (string.c:181-199): white space, which is spaces and tabs here,
\* sign, prefix, digits of the radix.
Behind(m, a, chars) == Min({b \in DOMAIN m : b >= a /\ m[b] \notin chars})
SignAt(c) == Behind(c.mem, 0, Blanks)
PrefixAt(c) == IF c.mem[SignAt(c)] \in {Plus, Minus} THEN SignAt(c) + 1 ELSE SignAt(c)

\* "0x" when no base is given, "0x" or "0X" when it is 16.
HexPrefixes(base) ==
  {<<Zero, x>> : x \in CASE base = 0 -> {LowerX} [] base = 16 -> {LowerX, UpperX}
                        [] OTHER -> {}}
HasPrefix(c, prefix) ==
  c.mem[PrefixAt(c)] = prefix[1] /\ c.mem[PrefixAt(c) + 1] = prefix[2]
IsHex(c) == \E prefix \in HexPrefixes(c.n) : HasPrefix(c, prefix)
Base(c) == IF IsHex(c) THEN 16 ELSE IF c.n # 0 THEN c.n
           ELSE IF c.mem[PrefixAt(c)] = Zero THEN 8 ELSE 10
DigitsAt(c) == IF IsHex(c) THEN PrefixAt(c) + 2 ELSE PrefixAt(c)

\* The digits in order, '0' up to 'z', or up to 'Z'.
SmallDigits == [v \in 0..35 |-> IF v < 10 THEN 48 + v ELSE 97 + (v - 10)]
LargeDigits == [v \in 0..35 |-> IF v < 10 THEN 48 + v ELSE 65 + (v - 10)]
DigitsOf(v) == {SmallDigits[v], LargeDigits[v]}
RadixDigits(base) == UNION {DigitsOf(v) : v \in 0..(base - 1)}
Worth(x) == CHOOSE v \in 0..35 : x \in DigitsOf(v)

DigitsEnd(c) == Behind(c.mem, DigitsAt(c), RadixDigits(Base(c)))
DigitCount(c) == DigitsEnd(c) - DigitsAt(c)

\* What the digits are worth: the last one counts units, the one before it as
\* many as the base says, and so on.
Place(c) ==
  LET place[k \in 0..DigitCount(c)] == IF k = 0 THEN 1 ELSE Base(c) * place[k - 1]
  IN  place
LastDigits(c) ==
  LET sum[k \in 0..DigitCount(c)] ==
        IF k = 0 THEN 0
        ELSE Worth(c.mem[DigitsEnd(c) - k]) * Place(c)[k - 1] + sum[k - 1]
  IN  sum

NumberRead(c) ==
  LET value == LastDigits(c)[DigitCount(c)]
  IN  [value |-> IF c.mem[SignAt(c)] = Minus THEN -value ELSE value,
       endptr |-> DigitsEnd(c)]

\* The comment grants base 16 the prefix "0X" (string.c:199) and the code does
\* not take it (string.c:222): it reads the 0 and stops at the X.
HasRefusedPrefix(c) == c.n = 16 /\ HasPrefix(c, <<Zero, UpperX>>)
ZeroRead(c) == [value |-> 0, endptr |-> PrefixAt(c) + 1]

\* What the functions return is what their comments promise, however the
\* strings end: lengths, the order of strings and memory, the first place of a
\* character, the longest number with the text behind it; but for the prefix
\* that strtol refuses against its comment.
ResultAsDocumented ==
  at = "done" =>
    LET m == call.mem
        lengthD == Length(m, call.d)
        lengthS == Length(m, call.s)
        found == Occurrences(m, call.s, call.d)
        Ordered(k) == Compares(ret, m, call.d, call.s, k)
    IN  CASE call.fn = "strlen" -> ret = lengthS
          [] call.fn = "strnlen" -> ret = Min({lengthS, call.n})
          [] call.fn = "strcmp" -> Ordered(Min({lengthD, lengthS}) + 1)
          [] call.fn = "strncmp" -> Ordered(Min({call.n, lengthD + 1, lengthS + 1}))
          [] call.fn = "memcmp" -> Ordered(call.n)
          [] call.fn = "strchr" -> ret = IF found = {} THEN NULL ELSE Min(found)
          [] call.fn = "strfind" -> ret = Min(found \cup {call.s + lengthS})
          [] call.fn = "strtol" ->
               ret = IF HasRefusedPrefix(call) THEN ZeroRead(call) ELSE NumberRead(call)
          [] OTHER -> TRUE
=============================================================================
