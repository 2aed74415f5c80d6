---------------------------- MODULE StringsProofs ----------------------------
(***************************************************************************)
(* Proofs about the string functions, for memory of any size, any bytes in *)
(* it and every text that ends: what a call leaves in memory and returns   *)
(* is what its comment says.                                               *)
(***************************************************************************)
EXTENDS Strings, Numbers

-----------------------------------------------------------------------------
(* Where strings end.                                                      *)

LEMMA LengthIs ==
  ASSUME NEW m, NEW a \in Addresses
  PROVE  /\ Length(m, a) \in 0..(MemSize - a)
         /\ Length(m, a) = MemSize - a \/ m[a + Length(m, a)] = 0
         /\ \A k \in 0..(Length(m, a) - 1) : m[a + k] # 0
<1> DEFINE T == {k \in 0..(MemSize - a) : k = MemSize - a \/ m[a + k] = 0}
<1>1. MemSize \in Nat /\ a \in Nat /\ MemSize - a \in Nat
  BY StringsAssumption DEF Addresses
<1>2. T \in SUBSET Nat /\ MemSize - a \in T
  BY <1>1
<1>3. Length(m, a) = Min(T)
  BY DEF Length
<1> HIDE DEF T
<1>4. Min(T) \in T /\ Min(T) \in Nat /\ \A k \in T : Min(T) <= k
  BY <1>2, MinIsLeast
<1> USE DEF T
<1>5. Min(T) \in 0..(MemSize - a) /\ (Min(T) = MemSize - a \/ m[a + Min(T)] = 0)
  BY <1>4
<1>6. ASSUME NEW k \in 0..(Min(T) - 1) PROVE m[a + k] # 0
  <2>1. k < Min(T) /\ k \in 0..(MemSize - a) /\ k \in Nat
    BY <1>1, <1>5
  <2>2. k \notin T
    <3> HIDE DEF T
    <3> QED
      BY <1>4, <2>1
  <2> QED
    BY <2>1, <2>2
<1> QED
  BY <1>3, <1>5, <1>6

\* The first byte that is 0 ends the string.
LEMMA LengthUnique ==
  ASSUME NEW m, NEW a \in Addresses, NEW k \in 0..(MemSize - a),
         k = MemSize - a \/ m[a + k] = 0,
         \A j \in 0..(k - 1) : m[a + j] # 0
  PROVE  Length(m, a) = k
<1>1. MemSize \in Nat /\ a \in Nat /\ k \in Nat
  BY StringsAssumption DEF Addresses
<1> DEFINE l == Length(m, a)
<1>2. /\ l \in 0..(MemSize - a)
      /\ l = MemSize - a \/ m[a + l] = 0
      /\ \A j \in 0..(l - 1) : m[a + j] # 0
  BY LengthIs
<1> HIDE DEF l
<1>3. ~(l < k)
  BY <1>1, <1>2
<1>4. ~(k < l)
  BY <1>1, <1>2
<1>5. l = k
  BY <1>1, <1>2, <1>3, <1>4
<1> QED
  BY <1>5 DEF l

-----------------------------------------------------------------------------
(* What holds at every turn of the loops.                                  *)

Readers == {"strlen", "strnlen", "strcmp", "strncmp", "memcmp", "strchr", "strfind"}
Locals == [d : Int, s : Int, n : Int, val : Int, neg : BOOLEAN]
Registered == r \in Locals

\* A call under way is a legal one.
Called ==
  /\ at \in {"idle", "loop", "back", "digits", "done"}
  /\ at \in {"loop", "back"} => Registered
  /\ at = "loop" => call \in Calls \/ call.fn = "strtol"
  /\ at = "back" => call \in Calls /\ call.fn = "memmove"

\* How far the loops that go up have come.
Progress == r.d - call.d

\* The writers have written so many of their bytes and no others.
WriteLoop ==
  at = "loop" /\ call.fn \in Writers =>
    /\ Progress \in 0..BytesToWrite(call)
    /\ mem = Written(call, 0..(Progress - 1))
    /\ call.fn = "strcpy" => Progress < BytesToWrite(call)
    /\ call.fn # "strcpy" => r.n = call.n - Progress
    /\ call.fn \in {"strcpy", "memcpy", "memmove"} => r.s = call.s + Progress
    /\ call.fn = "strncpy" =>
         r.s = call.s + (IF Progress < Length(call.mem, call.s) THEN Progress
                         ELSE Length(call.mem, call.s))
    /\ call.fn = "memmove" => ~CopiesDown(call.d, call.s, call.n)

\* memmove from the end has written the bytes from r.n on.
BackLoop ==
  at = "back" =>
    /\ CopiesDown(call.d, call.s, call.n)
    /\ r.n \in 0..call.n
    /\ r.d = call.d + r.n
    /\ r.s = call.s + r.n
    /\ mem = Written(call, r.n..(call.n - 1))

ReadLoop == at = "loop" /\ call.fn \in Readers => mem = call.mem

\* strlen and strnlen have passed characters that are not NUL.
CountLoop ==
  at = "loop" /\ call.fn \in {"strlen", "strnlen"} =>
    /\ r.val \in 0..Length(call.mem, call.s)
    /\ r.s = call.s + r.val
    /\ call.fn = "strnlen" => r.n = call.n /\ r.val <= call.n

\* The first k characters at d and at s are the same.
Passed(k) ==
  /\ k \in Nat
  /\ \A j \in 0..(k - 1) : call.mem[call.d + j] = call.mem[call.s + j]

\* The comparisons have passed what is equal, and no end of a string.
CompareLoop ==
  at = "loop" /\ call.fn \in {"strcmp", "strncmp", "memcmp"} =>
    /\ Passed(Progress)
    /\ r.s = call.s + Progress
    /\ call.fn # "strcmp" => r.n = call.n - Progress /\ Progress <= call.n
    /\ call.fn # "memcmp" => /\ Progress <= Length(call.mem, call.d)
                             /\ Progress <= Length(call.mem, call.s)

\* The searches have passed what they do not look for.
FindLoop ==
  at = "loop" /\ call.fn \in {"strchr", "strfind"} =>
    /\ r.s - call.s \in 0..Length(call.mem, call.s)
    /\ \A a \in call.s..(r.s - 1) : call.mem[a] # call.d

-----------------------------------------------------------------------------
(* Calls.                                                                  *)

LEMMA CallTyped ==
  ASSUME NEW c \in Calls
  PROVE  /\ c.fn \in Functions /\ c.mem \in Memories
         /\ c.d \in Addresses /\ c.s \in Addresses /\ c.n \in 0..MemSize
         /\ c.d \in Nat /\ c.s \in Nat /\ c.n \in Nat
         /\ Length(c.mem, c.s) \in Nat /\ Length(c.mem, c.d) \in Nat
         /\ Legal(c)
<1>1. /\ c.fn \in Functions /\ c.mem \in Memories
      /\ c.d \in Addresses /\ c.s \in Addresses /\ c.n \in 0..MemSize
      /\ Legal(c)
  BY DEF Calls
<1>2. c.d \in Nat /\ c.s \in Nat /\ c.n \in Nat
  BY <1>1, StringsAssumption DEF Addresses
<1>3. /\ Length(c.mem, c.s) \in 0..(MemSize - c.s)
      /\ Length(c.mem, c.d) \in 0..(MemSize - c.d)
  BY <1>1, LengthIs
<1>4. Length(c.mem, c.s) \in Nat /\ Length(c.mem, c.d) \in Nat
  BY <1>2, <1>3, StringsAssumption
<1> QED
  BY <1>1, <1>2, <1>4

\* What a writer writes is within memory.
LEMMA WriterFits ==
  ASSUME NEW c \in Calls, c.fn \in Writers
  PROVE  BytesToWrite(c) \in Nat /\ c.d + BytesToWrite(c) <= MemSize
<1>1. /\ c.d \in Nat /\ c.n \in Nat /\ Length(c.mem, c.s) \in Nat
      /\ Legal(c)
  BY CallTyped
<1>2. CASE c.fn = "strcpy"
  BY <1>1, <1>2 DEF Legal, Fits, BytesToWrite
<1>3. CASE c.fn = "strncpy"
  BY <1>1, <1>3 DEF Legal, Fits, BytesToWrite
<1>4. CASE c.fn = "memset"
  BY <1>1, <1>4 DEF Legal, Fits, BytesToWrite
<1>5. CASE c.fn \in {"memcpy", "memmove"}
  BY <1>1, <1>5 DEF Legal, Fits, BytesToWrite
<1> QED
  BY <1>2, <1>3, <1>4, <1>5 DEF Writers

LEMMA WrittenNone ==
  ASSUME NEW c \in Calls
  PROVE  Written(c, {}) = c.mem
<1>1. c.mem \in [Addresses -> Bytes]
  BY CallTyped DEF Memories
<1> QED
  BY <1>1 DEF Written

LEMMA WrittenOneMore ==
  ASSUME NEW c \in Calls, NEW k \in Nat, c.d + k \in Addresses, NEW which \in SUBSET Int
  PROVE  [Written(c, which) EXCEPT ![c.d + k] = ByteToWrite(c, k)]
           = Written(c, which \cup {k})
<1>1. c.d \in Nat
  BY CallTyped
<1>2. Addresses \subseteq Int
  BY DEF Addresses
<1>3. ASSUME NEW a \in Addresses
      PROVE  [Written(c, which) EXCEPT ![c.d + k] = ByteToWrite(c, k)][a]
               = Written(c, which \cup {k})[a]
  <2>1. CASE a = c.d + k
    <3>1. a - c.d = k
      BY <1>1, <2>1
    <3> QED
      BY <2>1, <3>1 DEF Written
  <2>2. CASE a # c.d + k
    <3>1. a - c.d # k
      BY <1>1, <1>2, <2>2
    <3> QED
      BY <2>2, <3>1 DEF Written
  <2> QED
    BY <2>1, <2>2
<1> QED
  BY <1>3 DEF Written

\* What is not written is as it was.
LEMMA NotWritten ==
  ASSUME NEW c, NEW which, NEW a \in Addresses, a - c.d \notin which
  PROVE  Written(c, which)[a] = c.mem[a]
BY DEF Written

-----------------------------------------------------------------------------
(* The writers.                                                            *)

\* A writer on its way up copies a byte that it has not written itself.
LEMMA ByteUp ==
  ASSUME Called, WriteLoop, at = "loop", call.fn \in Writers, Progress < BytesToWrite(call)
  PROVE  /\ call \in Calls /\ Progress \in Nat /\ BytesToWrite(call) \in Nat
         /\ r.d = call.d + Progress
         /\ [mem EXCEPT ![r.d] = ByteToWrite(call, Progress)]
              = Written(call, 0..Progress)
         /\ call.fn # "memset" => mem[r.s] = ByteToWrite(call, Progress)
<1> DEFINE k == Progress
           L == Length(call.mem, call.s)
<1>1. call \in Calls /\ Registered
  BY DEF Called, Writers
<1>2. /\ call.mem \in Memories
      /\ call.d \in Nat /\ call.s \in Nat /\ call.n \in Nat /\ L \in Nat
      /\ call.s \in Addresses
      /\ Legal(call)
  BY <1>1, CallTyped
<1>3. BytesToWrite(call) \in Nat /\ call.d + BytesToWrite(call) <= MemSize
  BY <1>1, WriterFits
<1>4. k \in Nat /\ k < BytesToWrite(call) /\ r.d = call.d + k
  BY <1>1, <1>2, <1>3 DEF WriteLoop, Progress, Registered, Locals
<1>5. call.d + k \in Addresses
  BY <1>2, <1>3, <1>4, StringsAssumption DEF Addresses
<1>6. [mem EXCEPT ![r.d] = ByteToWrite(call, k)] = Written(call, 0..k)
  <2>1. mem = Written(call, 0..(k - 1))
    BY DEF WriteLoop
  <2>2. 0..(k - 1) \in SUBSET Int /\ (0..(k - 1)) \cup {k} = 0..k
    BY <1>4
  <2> HIDE DEF k
  <2> QED
    BY <1>1, <1>4, <1>5, <2>1, <2>2, WrittenOneMore
<1>7. k = Progress /\ L = Length(call.mem, call.s)
  OBVIOUS
<1> HIDE DEF k, L
<1>8. ASSUME call.fn # "memset" PROVE mem[r.s] = ByteToWrite(call, k)
  <2>1. mem = Written(call, 0..(k - 1))
    BY <1>7 DEF WriteLoop
  <2>2. CASE call.fn = "strcpy"
    <3>1. r.s = call.s + k /\ k <= L
      BY <1>2, <1>4, <1>7, <2>2 DEF WriteLoop, BytesToWrite
    <3>2. r.s \in Addresses /\ r.s - call.d \notin 0..(k - 1)
      <4>1. /\ call.s + (L + 1) <= MemSize
            /\ call.d + (L + 1) <= call.s \/ call.s + (L + 1) <= call.d
        BY <1>2, <1>7, <2>2 DEF Legal, Fits, Apart
      <4> QED
        BY <1>2, <1>4, <3>1, <4>1, StringsAssumption DEF Addresses
    <3>3. mem[r.s] = call.mem[call.s + k]
      BY <2>1, <3>1, <3>2, NotWritten
    <3> QED
      BY <2>2, <3>3 DEF ByteToWrite, SourceByte
  <2>3. CASE call.fn = "strncpy"
    <3>1. r.s = call.s + (IF k < L THEN k ELSE L) /\ k < call.n
      BY <1>2, <1>4, <1>7, <2>3 DEF WriteLoop, BytesToWrite
    <3>2. /\ call.s + L < MemSize
          /\ call.d + call.n <= call.s \/ call.s + call.n <= call.d
      BY <1>2, <1>7, <2>3 DEF Legal, Ends, Apart
    <3>3. r.s \in Addresses /\ r.s - call.d \notin 0..(k - 1)
      BY <1>2, <1>4, <3>1, <3>2, StringsAssumption DEF Addresses
    <3>4. mem[r.s] = call.mem[r.s]
      BY <2>1, <3>3, NotWritten
    <3>5. CASE k < L
      BY <1>2, <1>4, <1>7, <2>3, <3>1, <3>4, <3>5 DEF ByteToWrite, SourceByte
    <3>6. CASE k >= L
      <4>1. call.mem[call.s + L] = 0
        <5>1. L = MemSize - call.s \/ call.mem[call.s + L] = 0
          BY <1>2, <1>7, LengthIs
        <5> QED
          BY <1>2, <3>2, <5>1, StringsAssumption
      <4> QED
        BY <1>2, <1>4, <1>7, <2>3, <3>1, <3>4, <3>6, <4>1 DEF ByteToWrite
    <3> QED
      BY <1>2, <1>4, <3>5, <3>6
  <2>4. CASE call.fn \in {"memcpy", "memmove"}
    <3>1. r.s = call.s + k /\ k < call.n
      BY <1>2, <1>4, <1>7, <2>4 DEF WriteLoop, BytesToWrite
    <3>2. call.s + call.n <= MemSize
      BY <1>2, <2>4 DEF Legal, Fits
    <3>3. r.s - call.d \notin 0..(k - 1)
      <4>1. CASE call.fn = "memcpy"
        <5>1. call.d + call.n <= call.s \/ call.s + call.n <= call.d
          BY <1>2, <4>1 DEF Legal, Apart
        <5> QED
          BY <1>2, <1>4, <3>1, <5>1
      <4>2. CASE call.fn = "memmove"
        <5>1. ~(call.s < call.d /\ call.s + call.n > call.d)
          BY <4>2 DEF WriteLoop, CopiesDown, Writers
        <5> QED
          BY <1>2, <1>4, <3>1, <5>1
      <4> QED
        BY <2>4, <4>1, <4>2
    <3>4. r.s \in Addresses
      BY <1>2, <1>4, <3>1, <3>2, StringsAssumption DEF Addresses
    <3>5. mem[r.s] = call.mem[call.s + k]
      BY <2>1, <3>1, <3>3, <3>4, NotWritten
    <3> QED
      BY <2>4, <3>5 DEF ByteToWrite, SourceByte
  <2> QED
    BY <2>2, <2>3, <2>4, <1>8 DEF Writers
<1> QED
  BY <1>1, <1>3, <1>4, <1>6, <1>7, <1>8

LEMMA StrcpyStep ==
  ASSUME Called, WriteLoop, strcpy
  PROVE  Called' /\ WriteLoop' /\ MemoryAsDocumented'
<1>1. at = "loop" /\ call.fn = "strcpy" /\ call.fn \in Writers /\ call' = call
  BY DEF strcpy, In, Again, Writers
<1>2. Progress < BytesToWrite(call)
  BY <1>1 DEF WriteLoop
<1>3. /\ call \in Calls /\ Progress \in Nat /\ BytesToWrite(call) \in Nat
      /\ r.d = call.d + Progress
      /\ Copied = Written(call, 0..Progress)
      /\ mem[r.s] = ByteToWrite(call, Progress)
  BY <1>1, <1>2, ByteUp DEF Copied
<1>4. /\ call.d \in Nat /\ call.s \in Nat /\ Length(call.mem, call.s) \in Nat
      /\ call.s \in Addresses /\ Legal(call)
  BY <1>3, CallTyped
<1>5. /\ BytesToWrite(call) = Length(call.mem, call.s) + 1
      /\ r.s = call.s + Progress
      /\ mem[r.s] = call.mem[call.s + Progress]
  BY <1>1, <1>3 DEF WriteLoop, BytesToWrite, ByteToWrite, SourceByte
<1>6. CASE mem[r.s] # 0
  <2>1. /\ mem' = Written(call, 0..Progress)
        /\ at' = at /\ r' = BothOn
    BY <1>3, <1>6 DEF strcpy, Again
  <2>2. Progress < Length(call.mem, call.s)
    <3>1. call.mem[call.s + Length(call.mem, call.s)] = 0
      <4>1. call.s + (Length(call.mem, call.s) + 1) <= MemSize
        BY <1>1, <1>4 DEF Legal, Fits
      <4>2. \/ Length(call.mem, call.s) = MemSize - call.s
            \/ call.mem[call.s + Length(call.mem, call.s)] = 0
        BY <1>4, LengthIs
      <4> QED
        BY <1>4, <4>1, <4>2, StringsAssumption
    <3>2. Progress # Length(call.mem, call.s)
      BY <1>5, <1>6, <3>1
    <3> QED
      BY <1>2, <1>3, <1>4, <1>5, <3>2
  <2>3. Registered /\ Registered' /\ Progress' = Progress + 1 /\ r'.s = call.s + Progress'
    <3>1. Registered
      BY <1>1 DEF Called
    <3>2. r.d \in Int /\ r.s \in Int /\ r.d + 1 \in Int /\ r.s + 1 \in Int
      BY <3>1 DEF Registered, Locals
    <3>3. Registered' /\ r'.d = r.d + 1 /\ r'.s = r.s + 1
      <4>1. PICK x \in Int, y \in Int : x = r.d + 1 /\ y = r.s + 1
        BY <3>2
      <4>2. r' = [r EXCEPT !.d = x, !.s = y]
        BY <2>1, <4>1 DEF BothOn
      <4>3. r' \in Locals /\ r'.d = x /\ r'.s = y
        BY <3>1, <4>2 DEF Registered, Locals
      <4> QED
        BY <4>1, <4>3 DEF Registered
    <3>4. Progress' = Progress + 1
      BY <1>1, <1>3, <1>4, <3>2, <3>3 DEF Progress
    <3>5. r'.s = call.s + Progress'
      <4>1. r'.s = r.s + 1 /\ r.s = call.s + Progress
        BY <1>5, <3>3
      <4>2. call.s \in Nat /\ Progress \in Nat
        BY <1>3, <1>4
      <4> QED
        BY <3>4, <4>1, <4>2
    <3> QED
      BY <3>1, <3>3, <3>4, <3>5
  <2>4. Called'
    BY <1>1, <2>1, <2>3 DEF Called
  <2>5. WriteLoop'
    BY <1>1, <1>3, <1>4, <1>5, <2>1, <2>2, <2>3 DEF WriteLoop
  <2> QED
    BY <1>1, <2>1, <2>4, <2>5 DEF MemoryAsDocumented
<1>7. CASE mem[r.s] = 0
  <2>1. mem' = Written(call, 0..Progress) /\ at' = "done" /\ ret' = call.d
    BY <1>3, <1>7 DEF strcpy
  <2>2. Progress = Length(call.mem, call.s)
    <3>1. ~(Progress < Length(call.mem, call.s))
      <4>1. \A k \in 0..(Length(call.mem, call.s) - 1) : call.mem[call.s + k] # 0
        BY <1>4, LengthIs
      <4>2. SUFFICES ASSUME Progress < Length(call.mem, call.s) PROVE FALSE
        OBVIOUS
      <4>3. Progress \in 0..(Length(call.mem, call.s) - 1)
        BY <1>3, <1>4, <4>2
      <4> QED
        BY <1>5, <1>7, <4>1, <4>3
    <3> QED
      BY <1>2, <1>3, <1>4, <1>5, <3>1
  <2>3. Progress = BytesToWrite(call) - 1
    BY <1>3, <1>5, <2>2
  <2> QED
    BY <1>1, <2>1, <2>3 DEF MemoryAsDocumented, Called, WriteLoop
<1> QED
  BY <1>6, <1>7

\* The step that ends a writer counted by n.
LEMMA WriterReturns ==
  ASSUME Called, WriteLoop, at = "loop", call.fn \in Writers \ {"strcpy"}, ~(r.n > 0),
         Return(call.d)
  PROVE  Called' /\ WriteLoop' /\ MemoryAsDocumented'
<1>1. call \in Calls /\ Registered /\ call.fn \in Writers
  BY DEF Called, Writers
<1>2. BytesToWrite(call) = call.n /\ call.n \in Nat
  BY <1>1, CallTyped DEF BytesToWrite
<1>3. Progress = call.n
  BY <1>1, <1>2 DEF WriteLoop, Registered
<1>4. mem' = mem /\ call' = call /\ at' = "done" /\ ret' = call.d
  BY DEF Return
<1>5. mem = Written(call, 0..(BytesToWrite(call) - 1))
  BY <1>1, <1>2, <1>3 DEF WriteLoop
<1> QED
  BY <1>1, <1>4, <1>5 DEF Called, WriteLoop, MemoryAsDocumented

\* And the one that goes round its loop again.
LEMMA WriterGoesOn ==
  ASSUME Called, WriteLoop, at = "loop", call.fn \in Writers \ {"strcpy"}, r.n > 0,
         mem' = [mem EXCEPT ![r.d] = ByteToWrite(call, Progress)],
         UNCHANGED <<call, at>>,
         Registered', r'.d = r.d + 1, r'.n = r.n - 1,
         call.fn \in {"memcpy", "memmove"} => r'.s = r.s + 1,
         call.fn = "strncpy" =>
           r'.s = call.s + (IF Progress + 1 < Length(call.mem, call.s) THEN Progress + 1
                            ELSE Length(call.mem, call.s))
  PROVE  Called' /\ WriteLoop' /\ MemoryAsDocumented'
<1>1. call \in Calls /\ Registered /\ call.fn \in Writers
  BY DEF Called, Writers
<1>2. /\ BytesToWrite(call) = call.n /\ call.n \in Nat /\ call.d \in Nat /\ call.s \in Nat
      /\ Length(call.mem, call.s) \in Nat
  BY <1>1, CallTyped DEF BytesToWrite
<1>3. Progress \in Nat /\ r.n = call.n - Progress
  BY <1>1, <1>2 DEF WriteLoop
<1>4. Progress < BytesToWrite(call)
  BY <1>1, <1>2, <1>3 DEF Registered
<1>5. /\ r.d = call.d + Progress
      /\ [mem EXCEPT ![r.d] = ByteToWrite(call, Progress)] = Written(call, 0..Progress)
  BY <1>1, <1>4, ByteUp
<1>6. mem' = Written(call, 0..Progress) /\ call' = call /\ at' = at
  BY <1>5
<1>7. Progress' = Progress + 1
  BY <1>2, <1>3, <1>5, <1>6 DEF Progress
<1>8. Called'
  BY <1>1, <1>6 DEF Called
<1>9. WriteLoop'
  <2>1. mem' = Written(call, 0..(Progress' - 1))
    <3>1. Progress' - 1 = Progress
      BY <1>3, <1>7
    <3> QED
      BY <1>6, <3>1
  <2>2. Progress' \in 0..BytesToWrite(call)
    BY <1>2, <1>3, <1>4, <1>7
  <2>3. r'.n = call.n - Progress'
    BY <1>2, <1>3, <1>7
  <2>4. ASSUME call.fn \in {"memcpy", "memmove"} PROVE r'.s = call.s + Progress'
    <3>1. r.s = call.s + Progress
      BY <1>1, <2>4 DEF WriteLoop
    <3>2. r'.s = r.s + 1
      BY <2>4
    <3> QED
      BY <1>2, <1>3, <1>7, <3>1, <3>2
  <2>5. call.fn = "memmove" => ~CopiesDown(call.d, call.s, call.n)
    BY <1>1 DEF WriteLoop
  <2>6. call.fn = "strncpy" =>
          r'.s = call.s + (IF Progress' < Length(call.mem, call.s) THEN Progress'
                            ELSE Length(call.mem, call.s))
    BY <1>7
  <2> QED
    BY <1>1, <1>6, <2>1, <2>2, <2>3, <2>4, <2>5, <2>6 DEF WriteLoop
<1> QED
  BY <1>6, <1>8, <1>9 DEF MemoryAsDocumented

LEMMA StrncpyStep ==
  ASSUME Called, WriteLoop, strncpy
  PROVE  Called' /\ WriteLoop' /\ MemoryAsDocumented'
<1>1. at = "loop" /\ call.fn = "strncpy" /\ call.fn \in Writers \ {"strcpy"}
  BY DEF strncpy, In, Writers
<1>2. call \in Calls /\ r \in Locals
  BY <1>1 DEF Called, Registered
<1>3. CASE ~(r.n > 0)
  BY <1>1, <1>3, WriterReturns DEF strncpy
<1>4. CASE r.n > 0
  <2> DEFINE L == Length(call.mem, call.s)
  <2>1. /\ L \in Nat /\ call.n \in Nat /\ call.s \in Nat /\ call.s \in Addresses
        /\ r.d \in Int /\ r.n \in Int /\ r.s \in Int
    BY <1>2, CallTyped DEF Locals
  <2>2. Progress < BytesToWrite(call) /\ Progress \in Nat
    BY <1>1, <1>4, <2>1 DEF WriteLoop, BytesToWrite
  <2>3. Copied = [mem EXCEPT ![r.d] = ByteToWrite(call, Progress)]
        /\ mem[r.s] = ByteToWrite(call, Progress)
    BY <1>1, <2>2, ByteUp DEF Copied
  <2>4. r.s = call.s + (IF Progress < L THEN Progress ELSE L)
    BY <1>1 DEF WriteLoop
  <2>5. mem[r.s] # 0 <=> Progress < L
    <3>1. CASE Progress < L
      <4>1. mem[r.s] = call.mem[call.s + Progress]
        BY <1>1, <2>1, <2>2, <2>3, <3>1 DEF ByteToWrite, SourceByte
      <4>2. \A k \in 0..(L - 1) : call.mem[call.s + k] # 0
        BY <2>1, LengthIs
      <4>3. Progress \in 0..(L - 1)
        BY <2>1, <2>2, <3>1
      <4> QED
        BY <3>1, <4>1, <4>2, <4>3
    <3>2. CASE ~(Progress < L)
      BY <1>1, <2>1, <2>2, <2>3, <3>2 DEF ByteToWrite
    <3> QED
      BY <3>1, <3>2
  <2> HIDE DEF L
  <2>6. PICK x \in Int, y \in Int, z \in Int :
          x = r.d + 1 /\ y = (IF mem[r.s] # 0 THEN r.s + 1 ELSE r.s) /\ z = r.n - 1
    BY <2>1
  <2>7. mem' = Copied /\ UNCHANGED <<call, at>> /\ r' = [r EXCEPT !.d = x, !.n = z, !.s = y]
    BY <1>4, <2>6 DEF strncpy, Again
  <2>8. r' \in Locals /\ r'.d = x /\ r'.n = z /\ r'.s = y
    BY <1>2, <2>7 DEF Locals
  <2>9. y = call.s + (IF Progress + 1 < L THEN Progress + 1 ELSE L)
    BY <2>1, <2>2, <2>4, <2>5, <2>6
  <2> QED
    BY <1>1, <1>4, <2>3, <2>6, <2>7, <2>8, <2>9, WriterGoesOn DEF Registered, L
<1> QED
  BY <1>3, <1>4

LEMMA MemsetStep ==
  ASSUME Called, WriteLoop, memset
  PROVE  Called' /\ WriteLoop' /\ MemoryAsDocumented'
<1>1. at = "loop" /\ call.fn = "memset" /\ call.fn \in Writers \ {"strcpy"}
  BY DEF memset, In, Writers
<1>2. r \in Locals
  BY <1>1 DEF Called, Registered
<1>3. CASE ~(r.n > 0)
  BY <1>1, <1>3, WriterReturns DEF memset
<1>4. CASE r.n > 0
  <2>1. PICK x \in Int, z \in Int : x = r.d + 1 /\ z = r.n - 1
    BY <1>2 DEF Locals
  <2>2. mem' = [mem EXCEPT ![r.d] = call.s] /\ UNCHANGED <<call, at>>
        /\ r' = [r EXCEPT !.d = x, !.n = z]
    BY <1>4, <2>1 DEF memset, Again
  <2>3. r' \in Locals /\ r'.d = x /\ r'.n = z
    BY <1>2, <2>2 DEF Locals
  <2>4. ByteToWrite(call, Progress) = call.s
    BY <1>1 DEF ByteToWrite
  <2> QED
    BY <1>1, <1>4, <2>1, <2>2, <2>3, <2>4, WriterGoesOn DEF Registered
<1> QED
  BY <1>3, <1>4

LEMMA CopyUpStep ==
  ASSUME Called, WriteLoop, at = "loop", call.fn \in {"memcpy", "memmove"}, CopyUp
  PROVE  Called' /\ WriteLoop' /\ MemoryAsDocumented'
<1>1. call.fn \in Writers \ {"strcpy"}
  BY DEF Writers
<1>2. call \in Calls /\ r \in Locals
  BY <1>1 DEF Called, Registered, Writers
<1>3. CASE ~(r.n > 0)
  BY <1>1, <1>3, WriterReturns DEF CopyUp
<1>4. CASE r.n > 0
  <2>1. call.n \in Nat /\ r.d \in Int /\ r.n \in Int /\ r.s \in Int
    BY <1>2, CallTyped DEF Locals
  <2>2. Progress < BytesToWrite(call)
    BY <1>1, <1>4, <2>1 DEF WriteLoop, BytesToWrite
  <2>3. Copied = [mem EXCEPT ![r.d] = ByteToWrite(call, Progress)]
    BY <1>1, <2>2, ByteUp DEF Copied
  <2>4. PICK x \in Int, y \in Int, z \in Int : x = r.d + 1 /\ y = r.s + 1 /\ z = r.n - 1
    BY <2>1
  <2>5. mem' = Copied /\ UNCHANGED <<call, at>> /\ r' = BothOnOfN
    BY <1>4 DEF CopyUp, Again
  <2>6. BothOn \in Locals /\ BothOn.d = x /\ BothOn.s = y /\ BothOn.n = r.n
    <3>1. BothOn = [r EXCEPT !.d = x, !.s = y]
      BY <2>4 DEF BothOn
    <3> QED
      BY <1>2, <3>1 DEF Locals
  <2>7. r' \in Locals /\ r'.d = x /\ r'.s = y /\ r'.n = z
    <3>1. r' = [BothOn EXCEPT !.n = z]
      BY <2>4, <2>5, <2>6 DEF BothOnOfN
    <3> QED
      BY <2>6, <3>1 DEF Locals
  <2> QED
    BY <1>1, <1>4, <2>3, <2>4, <2>5, <2>7, WriterGoesOn DEF Registered
<1> QED
  BY <1>3, <1>4

\* The byte at index k of src is outside what a copy from the end has written.
LEMMA BackNumbers ==
  ASSUME NEW d \in Nat, NEW s \in Nat, NEW n \in Nat, NEW k \in Nat, k < n, s < d
  PROVE  /\ (s + k) - d \notin (k + 1)..(n - 1)
         /\ (k + 1)..(n - 1) \in SUBSET Int
         /\ ((k + 1)..(n - 1)) \cup {k} = k..(n - 1)
OBVIOUS

\* memmove from the end reads what it has not yet overwritten.
LEMMA BackStep ==
  ASSUME Called, BackLoop, at = "back", memmove
  PROVE  Called' /\ BackLoop' /\ MemoryAsDocumented'
<1>1. /\ call \in Calls /\ call.fn = "memmove" /\ call.fn \in Writers /\ r \in Locals
      /\ BytesToWrite(call) = call.n
  BY DEF Called, Registered, Writers, BytesToWrite
<1>2. /\ call.d \in Nat /\ call.s \in Nat /\ call.n \in Nat /\ Legal(call)
  BY <1>1, CallTyped
<1>3. /\ r.n \in 0..call.n /\ r.d = call.d + r.n /\ r.s = call.s + r.n
      /\ call.s < call.d
      /\ mem = Written(call, r.n..(call.n - 1))
  BY DEF BackLoop, CopiesDown
<1>4. call.d + call.n <= MemSize /\ call.s + call.n <= MemSize
  BY <1>1, <1>2 DEF Legal, Fits
<1>5. CASE ~(r.n > 0)
  <2>1. r.n = 0
    BY <1>2, <1>3, <1>5
  <2>2. at' = "done" /\ call' = call /\ mem' = mem /\ ret' = call.d
    BY <1>5 DEF memmove, In, Return
  <2> QED
    BY <1>1, <1>3, <2>1, <2>2 DEF Called, BackLoop, MemoryAsDocumented
<1>6. CASE r.n > 0
  <2>1. PICK k \in Int : k = r.n - 1 /\ k \in Nat /\ k < call.n
    BY <1>2, <1>3, <1>6
  <2>2. /\ r.d - 1 = call.d + k /\ r.s - 1 = call.s + k /\ k < call.n
        /\ call.d + k \in Addresses /\ call.s + k \in Addresses
        /\ (call.s + k) - call.d \notin r.n..(call.n - 1)
        /\ r.n..(call.n - 1) \in SUBSET Int
        /\ (r.n..(call.n - 1)) \cup {k} = k..(call.n - 1)
    <3>1. r.n = k + 1
      BY <1>2, <1>3, <2>1
    <3>2. r.d - 1 = call.d + k /\ r.s - 1 = call.s + k
      BY <1>2, <1>3, <2>1, <3>1
    <3>3. call.d + k \in Addresses /\ call.s + k \in Addresses
      BY <1>2, <1>4, <2>1, StringsAssumption DEF Addresses
    <3>4. /\ (call.s + k) - call.d \notin (k + 1)..(call.n - 1)
          /\ (k + 1)..(call.n - 1) \in SUBSET Int
          /\ ((k + 1)..(call.n - 1)) \cup {k} = k..(call.n - 1)
      <4>1. call.s < call.d
        BY <1>3
      <4> QED
        BY <1>2, <2>1, <4>1, BackNumbers
    <3> QED
      BY <2>1, <3>1, <3>2, <3>3, <3>4
  <2> DEFINE a == call.s + k
             W == r.n..(call.n - 1)
  <2>3. mem[r.s - 1] = ByteToWrite(call, k)
    <3>1. a \in Addresses /\ a - call.d \notin W /\ mem = Written(call, W)
      <4>1. mem = Written(call, W)
        BY <1>3, Zenon
      <4>2. a \in Addresses /\ a - call.d \notin W
        BY <2>2
      <4> QED
        BY <4>1, <4>2
    <3> HIDE DEF a, W
    <3>2. mem[a] = call.mem[a]
      BY <3>1, NotWritten
    <3> USE DEF a, W
    <3> QED
      BY <1>1, <2>2, <3>2 DEF ByteToWrite, SourceByte
  <2>4. /\ mem' = [mem EXCEPT ![r.d - 1] = mem[r.s - 1]]
        /\ call' = call /\ at' = at
        /\ r' = [r EXCEPT !.d = @ - 1, !.s = @ - 1, !.n = @ - 1]
    BY <1>6 DEF memmove, In, Again
  <2>5. PICK x \in Int, y \in Int : x = r.d - 1 /\ y = r.s - 1
    BY <1>1 DEF Locals
  <2>6. r' \in Locals /\ r'.d = call.d + k /\ r'.s = call.s + k /\ r'.n = k
    <3>1. r' = [r EXCEPT !.d = x, !.s = y, !.n = k]
      BY <2>1, <2>4, <2>5
    <3>2. r' \in Locals /\ r'.d = x /\ r'.s = y /\ r'.n = k
      BY <1>1, <3>1 DEF Locals
    <3> QED
      BY <2>2, <2>5, <3>2
  <2>7. mem' = Written(call, k..(call.n - 1))
    <3>1. /\ mem' = [Written(call, W) EXCEPT ![call.d + k] = ByteToWrite(call, k)]
          /\ W \in SUBSET Int /\ W \cup {k} = k..(call.n - 1)
      BY <1>3, <2>2, <2>3, <2>4
    <3> HIDE DEF W
    <3>2. mem' = Written(call, W \cup {k})
      BY <1>1, <2>1, <2>2, <3>1, WrittenOneMore
    <3> QED
      BY <3>1, <3>2
  <2>8. Called'
    BY <1>1, <2>4, <2>6 DEF Called, Registered
  <2>9. k \in 0..call.n
    BY <1>2, <2>1, <2>2
  <2>10. BackLoop'
    BY <2>4, <2>6, <2>7, <2>9 DEF BackLoop
  <2> QED
    BY <2>4, <2>8, <2>10 DEF MemoryAsDocumented
<1> QED
  BY <1>5, <1>6

-----------------------------------------------------------------------------
(* The functions that count characters.                                    *)

\* What a loop that writes nothing leaves alone.
LEMMA ReaderStep ==
  ASSUME Called, ReadLoop, at = "loop", call.fn \in Readers,
         \/ UNCHANGED <<mem, call, at>> /\ Registered'
         \/ UNCHANGED <<mem, call>> /\ at' = "done"
  PROVE  Called' /\ ReadLoop' /\ MemoryAsDocumented'
<1>1. mem = call.mem /\ call \in Calls /\ call.fn \notin Writers /\ call' = call /\ mem' = mem
  BY DEF ReadLoop, Called, Readers, Writers
<1> QED
  BY <1>1 DEF Called, ReadLoop, MemoryAsDocumented

LEMMA CountStep ==
  ASSUME Called, ReadLoop, CountLoop, strlen \/ strnlen
  PROVE  /\ Called' /\ ReadLoop' /\ MemoryAsDocumented'
         /\ CountLoop' /\ ResultAsDocumented'
<1> DEFINE L == Length(call.mem, call.s)
<1>1. at = "loop" /\ call.fn \in {"strlen", "strnlen"} /\ call.fn \in Readers
  BY DEF strlen, strnlen, In, Readers
<1>2. call \in Calls /\ r \in Locals /\ mem = call.mem
  BY <1>1 DEF Called, Registered, ReadLoop, Readers
<1>3. /\ L \in Nat /\ call.s \in Nat /\ call.n \in Nat /\ call.s \in Addresses /\ Legal(call)
      /\ r.val \in Int /\ r.s \in Int /\ r.n \in Int
  BY <1>2, CallTyped DEF Locals
<1>4. /\ r.val \in Nat /\ r.val <= L /\ r.s = call.s + r.val
      /\ call.fn = "strnlen" => r.n = call.n /\ r.val <= call.n
  BY <1>1, <1>3 DEF CountLoop
<1>5. (r.val = L /\ (call.fn = "strnlen" => r.val < r.n)) => mem[r.s] = 0
  <2>1. L = MemSize - call.s \/ call.mem[call.s + L] = 0
    BY <1>3, LengthIs
  <2>2. \/ call.s + L < MemSize
        \/ call.fn = "strnlen" /\ call.s + call.n <= MemSize
    BY <1>1, <1>3 DEF Legal, Ends, Fits
  <2> QED
    BY <1>1, <1>2, <1>3, <1>4, <2>1, <2>2, StringsAssumption
<1>6. r.val < L => mem[r.s] # 0
  <2>1. \A k \in 0..(L - 1) : call.mem[call.s + k] # 0
    BY <1>3, LengthIs
  <2> QED
    BY <1>2, <1>3, <1>4, <2>1
<1> HIDE DEF L
<1>7. CASE Again(mem, [r EXCEPT !.s = @ + 1, !.val = @ + 1])
  <2>1. PICK x \in Int, y \in Int : x = r.s + 1 /\ y = r.val + 1
    BY <1>3
  <2>2. UNCHANGED <<mem, call, at>> /\ r' = [r EXCEPT !.s = x, !.val = y]
    BY <1>7, <2>1 DEF Again
  <2>3. r' \in Locals /\ r'.s = x /\ r'.val = y /\ r'.n = r.n
    BY <1>2, <2>2 DEF Locals
  <2>4. /\ mem[r.s] # 0
        /\ call.fn = "strnlen" => r.val < r.n
    <3>1. at' = at
      BY <2>2
    <3> QED
      BY <1>1, <3>1 DEF strlen, strnlen, In, Return
  <2>5. r.val < L
    BY <1>3, <1>4, <1>5, <2>4
  <2>6. CountLoop'
    <3>1. /\ r'.val \in 0..L /\ r'.s = call.s + r'.val
          /\ call.fn = "strnlen" => r'.n = call.n /\ r'.val <= call.n
      BY <1>3, <1>4, <2>1, <2>3, <2>4, <2>5
    <3> QED
      BY <2>2, <3>1 DEF CountLoop, L
  <2> QED
    BY <1>1, <2>2, <2>3, <2>6, ReaderStep DEF Registered, ResultAsDocumented
<1>8. CASE Return(r.val)
  <2>1. UNCHANGED <<mem, call>> /\ at' = "done" /\ ret' = r.val
    BY <1>8 DEF Return
  <2>2. /\ call.fn = "strlen" => mem[r.s] = 0
        /\ call.fn = "strnlen" => mem[r.s] = 0 \/ ~(r.val < r.n)
    <3>1. at' # at
      BY <1>1, <2>1
    <3> QED
      BY <3>1 DEF strlen, strnlen, In, Again
  <2>3. CASE call.fn = "strlen"
    <3>1. ret' = L
      BY <1>3, <1>4, <1>6, <2>1, <2>2, <2>3
    <3>2. ResultAsDocumented'
      BY <2>1, <2>3, <3>1 DEF ResultAsDocumented, L
    <3> QED
      BY <1>1, <2>1, <3>2, ReaderStep DEF CountLoop
  <2>4. CASE call.fn = "strnlen"
    <3>1. ret' = Min({L, call.n})
      <4>1. ret' \in {L, call.n} /\ ret' <= L /\ ret' <= call.n
        <5>1. r.val \in Nat /\ r.val <= L /\ r.val <= call.n
          BY <1>4, <2>4
        <5>2. r.val = L \/ r.val = call.n
          BY <1>3, <1>4, <1>6, <2>2, <2>4, <5>1
        <5> QED
          BY <2>1, <5>1, <5>2
      <4> QED
        BY <1>3, <4>1, MinUnique
    <3>2. ResultAsDocumented'
      BY <2>1, <2>4, <3>1 DEF ResultAsDocumented, L
    <3> QED
      BY <1>1, <2>1, <3>2, ReaderStep DEF CountLoop
  <2> QED
    BY <1>1, <2>3, <2>4
<1> QED
  BY <1>7, <1>8 DEF strlen, strnlen

-----------------------------------------------------------------------------
(* The comparisons.                                                        *)

LEMMA ComparesEqual ==
  ASSUME NEW m, NEW a, NEW b, NEW k \in Int, \A j \in 0..(k - 1) : m[a + j] = m[b + j]
  PROVE  Compares(0, m, a, b, k)
BY DEF Compares

LEMMA ComparesDiffer ==
  ASSUME NEW m, NEW a, NEW b, NEW k \in Int, NEW q \in 0..(k - 1),
         \A j \in 0..(q - 1) : m[a + j] = m[b + j],
         m[a + q] # m[b + q], m[a + q] \in Int, m[b + q] \in Int
  PROVE  Compares(m[a + q] - m[b + q], m, a, b, k)
<1> DEFINE Differ(j) == m[a + j] # m[b + j]
           first == {j \in 0..(k - 1) : Differ(j) /\ \A i \in 0..(j - 1) : ~Differ(i)}
<1>1. first = {q}
  <2>1. q \in first
    OBVIOUS
  <2>2. ASSUME NEW j \in first PROVE j = q
    <3>1. ~(j < q)
      BY <2>2
    <3>2. ~(q < j)
      BY <2>2
    <3> QED
      BY <2>2, <3>1, <3>2
  <2> HIDE DEF first
  <2> QED
    BY <2>1, <2>2
<1>2. (m[a + q] - m[b + q] > 0) = (m[a + q] > m[b + q]) /\ m[a + q] - m[b + q] # 0
  OBVIOUS
<1> QED
  BY <1>1, <1>2 DEF Compares

\* It stops where the characters differ, or where there are no more to compare.
LEMMA ComparisonStops ==
  ASSUME NEW k, Passed(k), NEW bound \in Int, NEW x \in Int, NEW y \in Int, NEW value,
         k < bound => x = call.mem[call.d + k] /\ y = call.mem[call.s + k],
         \/ value = 0 /\ bound <= k
         \/ value = x - y /\ k + 1 = bound
         \/ value = x - y /\ k < bound /\ x # y
  PROVE  Compares(value, call.mem, call.d, call.s, bound)
<1>1. k \in Nat /\ \A j \in 0..(k - 1) : call.mem[call.d + j] = call.mem[call.s + j]
  BY DEF Passed
<1>2. CASE k < bound /\ x # y
  <2>1. value = x - y /\ k \in 0..(bound - 1)
    BY <1>1, <1>2
  <2> QED
    BY <1>1, <1>2, <2>1, ComparesDiffer
<1>3. CASE ~(k < bound /\ x # y)
  <2>1. value = 0
    BY <1>1, <1>3
  <2>2. ASSUME NEW j \in 0..(bound - 1) PROVE call.mem[call.d + j] = call.mem[call.s + j]
    <3>1. j \in 0..(k - 1) \/ (j = k /\ k < bound)
      BY <1>1, <1>3
    <3> QED
      BY <1>1, <1>3, <3>1
  <2> QED
    BY <2>1, <2>2, ComparesEqual
<1> QED
  BY <1>2, <1>3

LEMMA MinOfTwo ==
  ASSUME NEW x \in Int, NEW y \in Int
  PROVE  Min({x, y}) = IF x <= y THEN x ELSE y
<1> DEFINE z == IF x <= y THEN x ELSE y
<1>1. z \in {x, y} /\ \A w \in {x, y} : z <= w
  OBVIOUS
<1> HIDE DEF z
<1>2. Min({x, y}) = z
  BY <1>1, MinUnique
<1> QED
  BY <1>2 DEF z

LEMMA MinOfThree ==
  ASSUME NEW x \in Int, NEW y \in Int, NEW z \in Int
  PROVE  /\ Min({x, y, z}) \in {x, y, z}
         /\ Min({x, y, z}) <= x /\ Min({x, y, z}) <= y /\ Min({x, y, z}) <= z
<1>1. \E w \in {x, y, z} : w <= x /\ w <= y /\ w <= z
  OBVIOUS
<1>2. PICK w \in {x, y, z} : w <= x /\ w <= y /\ w <= z
  BY <1>1
<1>3. \A v \in {x, y, z} : w <= v
  BY <1>2
<1>4. Min({x, y, z}) = w
  BY <1>3, MinUnique
<1> QED
  BY <1>2, <1>4

\* The characters a comparison looks at are in memory, and say where the strings
\* end.
LEMMA Compared ==
  ASSUME Called, ReadLoop, CompareLoop, at = "loop",
         call.fn \in {"strcmp", "strncmp", "memcmp"}, call.fn = "memcmp" => r.n > 0
  PROVE  /\ mem[r.d] = call.mem[call.d + Progress] /\ mem[r.d] \in Int
         /\ mem[r.s] = call.mem[call.s + Progress] /\ mem[r.s] \in Int
         /\ call.fn # "memcmp" =>
              /\ mem[r.d] = 0 <=> Progress = Length(call.mem, call.d)
              /\ mem[r.s] = 0 <=> Progress = Length(call.mem, call.s)
<1> DEFINE k == Progress
           lD == Length(call.mem, call.d)
           lS == Length(call.mem, call.s)
<1>1. call \in Calls /\ r \in Locals /\ mem = call.mem
  BY DEF Called, Registered, ReadLoop, Readers
<1>2. /\ call.d \in Nat /\ call.s \in Nat /\ call.n \in Nat /\ lD \in Nat /\ lS \in Nat
      /\ call.d \in Addresses /\ call.s \in Addresses
      /\ call.mem \in [Addresses -> Bytes] /\ Legal(call)
      /\ r.d \in Int /\ r.s \in Int /\ r.n \in Int
  BY <1>1, CallTyped DEF Locals, Memories
<1>3. k \in Nat /\ r.s = call.s + k /\ r.d = call.d + k
  BY <1>2 DEF CompareLoop, Passed, Progress
<1>4. call.fn # "memcmp" =>
        k <= lD /\ k <= lS /\ call.d + lD < MemSize /\ call.s + lS < MemSize
  BY <1>2 DEF CompareLoop, Legal, Ends
<1>5. call.fn = "memcmp" =>
        k < call.n /\ call.d + call.n <= MemSize /\ call.s + call.n <= MemSize
  BY <1>2, <1>3 DEF CompareLoop, Legal, Fits
<1> HIDE DEF k, lD, lS
<1>6. call.d + k \in Addresses /\ call.s + k \in Addresses
  <2>1. call.d + k < MemSize /\ call.s + k < MemSize
    <3>1. CASE call.fn = "memcmp"
      BY <1>2, <1>3, <1>5, <3>1, StringsAssumption
    <3>2. CASE call.fn # "memcmp"
      BY <1>2, <1>3, <1>4, <3>2, StringsAssumption
    <3> QED
      BY <3>1, <3>2
  <2> QED
    BY <1>2, <1>3, <2>1, StringsAssumption DEF Addresses
<1>7. Bytes \subseteq Int
  BY StringsAssumption
<1>8. /\ mem[r.d] = call.mem[call.d + k] /\ mem[r.d] \in Int
      /\ mem[r.s] = call.mem[call.s + k] /\ mem[r.s] \in Int
  BY <1>1, <1>2, <1>3, <1>6, <1>7
<1>9. ASSUME call.fn # "memcmp"
      PROVE  (mem[r.d] = 0 <=> k = lD) /\ (mem[r.s] = 0 <=> k = lS)
  <2>1. /\ lD = MemSize - call.d \/ call.mem[call.d + lD] = 0
        /\ \A j \in 0..(lD - 1) : call.mem[call.d + j] # 0
    BY <1>2, LengthIs DEF lD
  <2>2. /\ lS = MemSize - call.s \/ call.mem[call.s + lS] = 0
        /\ \A j \in 0..(lS - 1) : call.mem[call.s + j] # 0
    BY <1>2, LengthIs DEF lS
  <2>3. call.mem[call.d + lD] = 0 /\ call.mem[call.s + lS] = 0
    BY <1>2, <1>4, <1>9, <2>1, <2>2, StringsAssumption
  <2>4. (k = lD \/ k \in 0..(lD - 1)) /\ (k = lS \/ k \in 0..(lS - 1))
    BY <1>2, <1>3, <1>4, <1>9
  <2>5. (mem[r.d] = 0 <=> k = lD)
    BY <1>2, <1>3, <1>8, <2>1, <2>3, <2>4
  <2>6. (mem[r.s] = 0 <=> k = lS)
    BY <1>2, <1>3, <1>8, <2>2, <2>3, <2>4
  <2> QED
    BY <2>5, <2>6
<1> QED
  BY <1>8, <1>9 DEF k, lD, lS

\* The step that goes on behind equal characters.
LEMMA CompareGoesOn ==
  ASSUME Called, ReadLoop, CompareLoop, at = "loop",
         call.fn \in {"strcmp", "strncmp", "memcmp"}, call.fn # "strcmp" => r.n > 0,
         call.fn # "memcmp" => mem[r.d] # 0,
         mem[r.d] = mem[r.s],
         UNCHANGED <<mem, call, at>>,
         r' \in Locals, r'.d = r.d + 1, r'.s = r.s + 1,
         call.fn # "strcmp" => r'.n = r.n - 1
  PROVE  Called' /\ ReadLoop' /\ CompareLoop' /\ MemoryAsDocumented' /\ ResultAsDocumented'
<1>1. /\ mem[r.d] = call.mem[call.d + Progress]
      /\ mem[r.s] = call.mem[call.s + Progress]
      /\ call.fn # "memcmp" =>
           /\ mem[r.d] = 0 <=> Progress = Length(call.mem, call.d)
           /\ mem[r.s] = 0 <=> Progress = Length(call.mem, call.s)
  BY Compared
<1>2. call \in Calls /\ r \in Locals /\ call.fn \in Readers
  BY DEF Called, Registered, Readers
<1>3. /\ call.d \in Nat /\ call.s \in Nat /\ call.n \in Nat
      /\ Length(call.mem, call.d) \in Nat /\ Length(call.mem, call.s) \in Nat
      /\ r.d \in Int /\ r.s \in Int /\ r.n \in Int
  BY <1>2, CallTyped DEF Locals
<1>4. /\ Progress \in Nat /\ r.s = call.s + Progress
      /\ \A j \in 0..(Progress - 1) : call.mem[call.d + j] = call.mem[call.s + j]
      /\ call.fn # "strcmp" => r.n = call.n - Progress /\ Progress <= call.n
      /\ call.fn # "memcmp" => /\ Progress <= Length(call.mem, call.d)
                               /\ Progress <= Length(call.mem, call.s)
  BY DEF CompareLoop, Passed
<1>5. Progress' = Progress + 1
  BY <1>3 DEF Progress
<1>6. Passed(Progress)'
  <2>1. ASSUME NEW j \in 0..(Progress' - 1) PROVE call.mem[call.d + j] = call.mem[call.s + j]
    <3>1. j = Progress \/ j \in 0..(Progress - 1)
      BY <1>4, <1>5
    <3> QED
      BY <1>1, <1>4, <3>1
  <2> QED
    BY <1>4, <1>5, <2>1 DEF Passed
<1>7. r'.s = call.s + Progress'
  BY <1>3, <1>4, <1>5
<1>8. ASSUME call.fn # "strcmp" PROVE r'.n = call.n - Progress' /\ Progress' <= call.n
  BY <1>3, <1>4, <1>5, <1>8
<1>9. ASSUME call.fn # "memcmp"
      PROVE  Progress' <= Length(call.mem, call.d) /\ Progress' <= Length(call.mem, call.s)
  BY <1>1, <1>3, <1>4, <1>5, <1>9
<1>10. CompareLoop'
  BY <1>6, <1>7, <1>8, <1>9 DEF CompareLoop
<1> QED
  BY <1>2, <1>10, ReaderStep DEF Registered, ResultAsDocumented

LEMMA CompareStep ==
  ASSUME Called, ReadLoop, CompareLoop, strcmp \/ strncmp \/ memcmp
  PROVE  Called' /\ ReadLoop' /\ CompareLoop' /\ MemoryAsDocumented' /\ ResultAsDocumented'
<1> DEFINE k == Progress
           lD == Length(call.mem, call.d)
           lS == Length(call.mem, call.s)
           K == IF call.fn = "strcmp" THEN Min({lD, lS}) + 1
                ELSE IF call.fn = "strncmp" THEN Min({call.n, lD + 1, lS + 1})
                ELSE call.n
<1>1. at = "loop" /\ call.fn \in {"strcmp", "strncmp", "memcmp"} /\ call.fn \in Readers
  BY DEF strcmp, strncmp, memcmp, In, Readers
<1>2. call \in Calls /\ r \in Locals /\ mem = call.mem
  BY <1>1 DEF Called, Registered, ReadLoop
<1>3. /\ call.d \in Nat /\ call.s \in Nat /\ call.n \in Nat /\ lD \in Nat /\ lS \in Nat
      /\ r.d \in Int /\ r.s \in Int /\ r.n \in Int
  BY <1>2, CallTyped DEF Locals
<1>4. /\ k \in Nat /\ Passed(k)
      /\ call.fn # "strcmp" => r.n = call.n - k /\ k <= call.n
      /\ call.fn # "memcmp" => k <= lD /\ k <= lS
  BY <1>1 DEF CompareLoop, Passed
<1>5. call.fn \in {"memcmp", "strncmp"} /\ ~(r.n > 0) => k = call.n
  BY <1>3, <1>4
<1>6. (call.fn = "memcmp" => r.n > 0) =>
        /\ mem[r.d] = call.mem[call.d + k] /\ mem[r.d] \in Int
        /\ mem[r.s] = call.mem[call.s + k] /\ mem[r.s] \in Int
        /\ call.fn # "memcmp" => (mem[r.d] = 0 <=> k = lD) /\ (mem[r.s] = 0 <=> k = lS)
  BY <1>1, Compared
<1> HIDE DEF k, lD, lS
<1>7. /\ K \in Int
      /\ call.fn = "strcmp" => K <= lD + 1 /\ K <= lS + 1 /\ (K = lD + 1 \/ K = lS + 1)
      /\ call.fn = "strncmp" => /\ K <= call.n /\ K <= lD + 1 /\ K <= lS + 1
                                /\ K = call.n \/ K = lD + 1 \/ K = lS + 1
      /\ call.fn = "memcmp" => K = call.n
  <2>1. CASE call.fn = "strcmp"
    BY <1>3, <2>1, MinOfTwo
  <2>2. CASE call.fn = "strncmp"
    <3>1. lD + 1 \in Int /\ lS + 1 \in Int /\ call.n \in Int
      BY <1>3
    <3> QED
      BY <2>2, <3>1, MinOfThree
  <2>3. CASE call.fn = "memcmp"
    BY <1>3, <2>3
  <2> QED
    BY <1>1, <2>1, <2>2, <2>3
<1> HIDE DEF K
<1>8. CASE r.n > 0 \/ call.fn = "strcmp"
  <2>1. CASE mem[r.d] = mem[r.s] /\ (call.fn # "memcmp" => mem[r.d] # 0)
    <3>1. PICK x \in Int, y \in Int, z \in Int : x = r.d + 1 /\ y = r.s + 1 /\ z = r.n - 1
      BY <1>3
    <3>2. BothOn \in Locals /\ BothOn.d = x /\ BothOn.s = y /\ BothOn.n = r.n
      <4>1. BothOn = [r EXCEPT !.d = x, !.s = y]
        BY <3>1 DEF BothOn
      <4> QED
        BY <1>2, <4>1 DEF Locals
    <3>3. BothOnOfN \in Locals /\ BothOnOfN.d = x /\ BothOnOfN.s = y /\ BothOnOfN.n = z
      <4>1. BothOnOfN = [BothOn EXCEPT !.n = z]
        BY <3>1, <3>2 DEF BothOnOfN
      <4> QED
        BY <3>2, <4>1 DEF Locals
    <3>4. /\ UNCHANGED <<mem, call, at>>
          /\ r' = IF call.fn = "strcmp" THEN BothOn ELSE BothOnOfN
      BY <1>1, <1>8, <2>1 DEF strcmp, strncmp, memcmp, In, Again
    <3>5. r' \in Locals /\ r'.d = r.d + 1 /\ r'.s = r.s + 1
          /\ (call.fn # "strcmp" => r'.n = r.n - 1)
      BY <3>1, <3>2, <3>3, <3>4
    <3> QED
      BY <1>1, <1>8, <2>1, <3>4, <3>5, CompareGoesOn
  <2>2. CASE ~(mem[r.d] = mem[r.s] /\ (call.fn # "memcmp" => mem[r.d] # 0))
    <3>1. /\ UNCHANGED <<mem, call>> /\ at' = "done" /\ ret' = mem[r.d] - mem[r.s]
      <4>1. CASE call.fn = "strcmp"
        BY <2>2, <4>1 DEF strcmp, strncmp, memcmp, In, Return
      <4>2. CASE call.fn = "strncmp"
        BY <1>3, <1>8, <2>2, <4>2 DEF strcmp, strncmp, memcmp, In, Return
      <4>3. CASE call.fn = "memcmp"
        BY <1>3, <1>8, <2>2, <4>3 DEF strcmp, strncmp, memcmp, In, Return
      <4> QED
        BY <1>1, <4>1, <4>2, <4>3
    <3>2. PICK x \in Int, y \in Int :
            x = mem[r.d] /\ y = mem[r.s] /\ x = call.mem[call.d + k] /\ y = call.mem[call.s + k]
      BY <1>1, <1>6, <1>8
    <3>3. k < K /\ (x # y \/ k + 1 = K)
      <4>1. CASE call.fn = "memcmp"
        BY <1>3, <1>4, <1>7, <1>8, <2>2, <3>2, <4>1
      <4>2. CASE call.fn # "memcmp"
        <5>1. (x = 0 <=> k = lD) /\ (y = 0 <=> k = lS) /\ (x # y \/ x = 0)
          BY <1>6, <2>2, <3>2, <4>2
        <5>2. CASE call.fn = "strcmp"
          BY <1>3, <1>4, <1>7, <5>1, <5>2
        <5>3. CASE call.fn = "strncmp"
          BY <1>3, <1>4, <1>7, <1>8, <5>1, <5>3
        <5> QED
          BY <1>1, <4>2, <5>2, <5>3
      <4> QED
        BY <4>1, <4>2
    <3>4. Compares(ret', call.mem, call.d, call.s, K)
      BY <1>4, <1>7, <3>1, <3>2, <3>3, ComparisonStops
    <3>5. ResultAsDocumented'
      BY <1>1, <1>2, <3>1, <3>4 DEF ResultAsDocumented, K, lD, lS
    <3> QED
      BY <1>1, <3>1, <3>5, ReaderStep DEF CompareLoop
  <2> QED
    BY <2>1, <2>2
<1>9. CASE ~(r.n > 0) /\ call.fn # "strcmp"
  <2>1. r.n = 0 /\ k = call.n
    BY <1>1, <1>3, <1>4, <1>5, <1>9
  <2>2. UNCHANGED <<mem, call>> /\ at' = "done" /\ ret' = 0
    BY <1>9, <2>1 DEF strcmp, strncmp, memcmp, In, Return
  <2>3. K <= k
    BY <1>1, <1>7, <1>9, <2>1
  <2>4. Compares(ret', call.mem, call.d, call.s, K)
    <3>1. K \in Int /\ ~(k < K)
      BY <1>4, <1>7, <2>3
    <3> QED
      BY <1>4, <2>2, <2>3, <3>1, 0 \in Int, ComparisonStops
  <2>5. ResultAsDocumented'
    BY <1>1, <1>2, <1>9, <2>2, <2>4 DEF ResultAsDocumented, K, lD, lS
  <2> QED
    BY <1>1, <2>2, <2>5, ReaderStep DEF CompareLoop
<1> QED
  BY <1>8, <1>9

-----------------------------------------------------------------------------
(* The searches.                                                           *)

LEMMA FindStep ==
  ASSUME Called, ReadLoop, FindLoop, strchr \/ strfind
  PROVE  Called' /\ ReadLoop' /\ FindLoop' /\ MemoryAsDocumented' /\ ResultAsDocumented'
<1> DEFINE L == Length(call.mem, call.s)
           found == Occurrences(call.mem, call.s, call.d)
<1>1. at = "loop" /\ call.fn \in {"strchr", "strfind"} /\ call.fn \in Readers
  BY DEF strchr, strfind, In, Readers
<1>2. call \in Calls /\ r \in Locals /\ mem = call.mem
  BY <1>1 DEF Called, Registered, ReadLoop
<1>3. /\ L \in Nat /\ call.s \in Nat /\ call.s \in Addresses /\ Legal(call) /\ r.s \in Int
  BY <1>2, CallTyped DEF Locals
<1>4. /\ call.s <= r.s /\ r.s <= call.s + L
      /\ \A a \in call.s..(r.s - 1) : mem[a] # call.d
  BY <1>1, <1>2, <1>3 DEF FindLoop
<1>5. mem[r.s] = 0 <=> r.s = call.s + L
  <2>1. call.s + L < MemSize
    BY <1>1, <1>3 DEF Legal, Ends
  <2>2. /\ L = MemSize - call.s \/ call.mem[call.s + L] = 0
        /\ \A j \in 0..(L - 1) : call.mem[call.s + j] # 0
    BY <1>3, LengthIs
  <2>3. mem[call.s + L] = 0
    BY <1>2, <1>3, <2>1, <2>2, StringsAssumption
  <2>4. r.s = call.s + L \/ (r.s - call.s \in 0..(L - 1) /\ r.s = call.s + (r.s - call.s))
    BY <1>3, <1>4
  <2> QED
    BY <1>2, <2>2, <2>3, <2>4
<1>6. found = {b \in call.s..((call.s + L) - 1) : mem[b] = call.d}
  <2>1. call.s + L - 1 = (call.s + L) - 1
    BY <1>3
  <2> QED
    BY <1>2, <2>1 DEF Occurrences
<1> HIDE DEF L, found
<1>7. CASE mem[r.s] # 0 /\ mem[r.s] # call.d
  <2>1. PICK y \in Int : y = r.s + 1
    BY <1>3
  <2>2. UNCHANGED <<mem, call, at>> /\ r' = [r EXCEPT !.s = y]
    BY <1>7, <2>1 DEF strchr, strfind, Find, Again
  <2>3. r' \in Locals /\ r'.s = y
    BY <1>2, <2>2 DEF Locals
  <2>4. y - call.s \in 0..L
    BY <1>3, <1>4, <1>5, <1>7, <2>1
  <2>5. ASSUME NEW a \in call.s..(y - 1) PROVE mem[a] # call.d
    <3>1. a = r.s \/ a \in call.s..(r.s - 1)
      BY <1>3, <2>1
    <3> QED
      BY <1>4, <1>7, <3>1
  <2>6. FindLoop'
    BY <1>2, <2>2, <2>3, <2>4, <2>5 DEF FindLoop, L
  <2> QED
    BY <1>1, <2>2, <2>3, <2>6, ReaderStep DEF Registered, ResultAsDocumented
<1>8. CASE ~(mem[r.s] # 0 /\ mem[r.s] # call.d)
  <2>1. /\ UNCHANGED <<mem, call>> /\ at' = "done"
        /\ ret' = IF mem[r.s] = 0 THEN (IF call.fn = "strchr" THEN NULL ELSE r.s) ELSE r.s
    BY <1>1, <1>8 DEF strchr, strfind, Find, Return, In
  <2>2. CASE mem[r.s] = 0
    <3>1. found = {}
      <4>1. (call.s + L) - 1 = r.s - 1
        BY <1>5, <2>2
      <4> QED
        BY <1>4, <1>6, <4>1
    <3>2. Min(found \cup {call.s + L}) = call.s + L
      <4>1. PICK e \in Int : e = call.s + L
        BY <1>3
      <4>2. Min({e, e}) = e
        BY MinOfTwo
      <4>3. found \cup {call.s + L} = {e, e}
        BY <3>1, <4>1
      <4> QED
        BY <4>1, <4>2, <4>3
    <3>3. ResultAsDocumented'
      BY <1>1, <1>2, <1>5, <2>1, <2>2, <3>1, <3>2 DEF ResultAsDocumented, L, found
    <3> QED
      BY <1>1, <2>1, <3>3, ReaderStep DEF FindLoop
  <2>3. CASE mem[r.s] # 0
    <3>1. mem[r.s] = call.d /\ r.s < call.s + L
      BY <1>3, <1>4, <1>5, <1>8, <2>3
    <3>2. /\ r.s \in found /\ found \in SUBSET Int
          /\ \A b \in found : r.s <= b
      <4>1. r.s \in call.s..((call.s + L) - 1)
        BY <1>3, <1>4, <3>1 DEF Follows
      <4>2. ASSUME NEW b \in found PROVE r.s <= b
        <5>1. b \in Int /\ call.s <= b /\ mem[b] = call.d
          BY <1>3, <1>6, <4>2
        <5>2. b \notin call.s..(r.s - 1)
          BY <1>4, <5>1
        <5> QED
          BY <1>3, <5>1, <5>2
      <4> QED
        BY <1>3, <1>6, <3>1, <4>1, <4>2
    <3>3. Min(found) = r.s
      BY <3>2, MinUnique
    <3>4. Min(found \cup {call.s + L}) = r.s
      <4>1. PICK e \in Int : e = call.s + L
        BY <1>3
      <4>2. r.s <= e
        BY <1>3, <3>1, <4>1
      <4>3. /\ r.s \in found \cup {e}
            /\ \A b \in found \cup {e} : r.s <= b
            /\ found \cup {e} \in SUBSET Int
        BY <3>2, <4>2
      <4>4. Min(found \cup {e}) = r.s
        BY <4>3, MinUnique
      <4> QED
        BY <4>1, <4>4
    <3>5. found # {}
      BY <3>2
    <3>6. ResultAsDocumented'
      BY <1>1, <1>2, <2>1, <2>3, <3>3, <3>4, <3>5 DEF ResultAsDocumented, L, found
    <3> QED
      BY <1>1, <2>1, <3>6, ReaderStep DEF FindLoop
  <2> QED
    BY <2>2, <2>3
<1> QED
  BY <1>7, <1>8

-----------------------------------------------------------------------------
(* strtol.                                                                 *)

StrtolCalled ==
  call.fn = "strtol" /\ call.mem \in Texts /\ call.n \in Bases /\ mem = call.mem /\ Registered

\* It is among the blanks in front of the number.
BlankLoop ==
  at = "loop" /\ call.fn = "strtol" =>
    /\ StrtolCalled
    /\ r.n = call.n /\ r.val = 0
    /\ r.s \in 0..SignAt(call)

\* It is among the digits: what it has read, at its place, and the digits that
\* are left make up the number.
DigitsLoop ==
  at = "digits" =>
    LET left == DigitsEnd(call) - r.s
    IN  /\ StrtolCalled
        /\ r.n = Base(call)
        /\ r.neg = (call.mem[SignAt(call)] = Minus)
        /\ r.val \in Nat
        /\ ~HasRefusedPrefix(call) =>
             /\ left \in 0..DigitCount(call)
             /\ r.val * Place(call)[left] + LastDigits(call)[left]
                  = LastDigits(call)[DigitCount(call)]
        /\ HasRefusedPrefix(call) =>
             r.val = 0 /\ r.s \in {PrefixAt(call), PrefixAt(call) + 1}

\* A text of n characters and its NUL.
Ended(m, n) ==
  n \in Nat /\ DOMAIN m = 0..n /\ (\A k \in 0..n : m[k] \in 0..255) /\ m[n] = 0

\* Looking for a character that is none of chars ends, at the NUL if not before.
LEMMA BehindIs ==
  ASSUME NEW m, NEW n, Ended(m, n), NEW a \in 0..n, NEW chars, 0 \notin chars
  PROVE  /\ Behind(m, a, chars) \in a..n
         /\ m[Behind(m, a, chars)] \notin chars
         /\ \A b \in a..(Behind(m, a, chars) - 1) : m[b] \in chars
<1> DEFINE T == {b \in DOMAIN m : b >= a /\ m[b] \notin chars}
<1>1. n \in Nat /\ DOMAIN m = 0..n /\ m[n] = 0
  BY DEF Ended
<1>2. T \in SUBSET Nat /\ n \in T
  BY <1>1
<1>3. Behind(m, a, chars) = Min(T)
  BY DEF Behind
<1> HIDE DEF T
<1>4. Min(T) \in T /\ Min(T) \in Nat /\ \A b \in T : Min(T) <= b
  BY <1>2, MinIsLeast
<1>5. Min(T) \in a..n /\ m[Min(T)] \notin chars
  BY <1>1, <1>4 DEF T
<1>6. ASSUME NEW b \in a..(Min(T) - 1) PROVE m[b] \in chars
  <2>1. b < Min(T) /\ b \in 0..n /\ b >= a
    BY <1>1, <1>5
  <2>2. b \notin T
    BY <1>4, <1>1, <2>1
  <2> QED
    BY <1>1, <2>1, <2>2 DEF T
<1> QED
  BY <1>3, <1>5, <1>6

LEMMA DigitTyped ==
  ASSUME NEW x \in 0..255
  PROVE  Digit(x) \in 0..36
BY DEF Digit

\* The digits that the code takes are those of the radix, worth what it says.
LEMMA RadixDigitsAre ==
  ASSUME NEW base \in 2..36, NEW x \in 0..255
  PROVE  /\ x \in RadixDigits(base) <=> IsDigit(x, base)
         /\ IsDigit(x, base) => Worth(x) = Digit(x)
<1>1. ASSUME NEW v \in 0..35 PROVE x \in DigitsOf(v) <=> Digit(x) = v
  BY DEF DigitsOf, SmallDigits, LargeDigits, Digit
<1>2. PICK w \in 0..36 : w = Digit(x)
  BY DigitTyped
<1>3. ASSUME IsDigit(x, base) PROVE x \in RadixDigits(base) /\ Worth(x) = w
  <2>1. w \in 0..(base - 1) /\ w \in 0..35
    BY <1>2, <1>3 DEF IsDigit
  <2>2. x \in DigitsOf(w) /\ \A v \in 0..35 : x \in DigitsOf(v) => v = w
    BY <1>1, <1>2, <2>1
  <2> QED
    BY <2>1, <2>2 DEF RadixDigits, Worth
<1>4. ASSUME x \in RadixDigits(base) PROVE IsDigit(x, base)
  <2>1. PICK v \in 0..(base - 1) : x \in DigitsOf(v)
    BY <1>4 DEF RadixDigits
  <2>2. v \in 0..35 /\ v < base
    OBVIOUS
  <2> QED
    BY <1>1, <2>1, <2>2 DEF IsDigit
<1> QED
  BY <1>2, <1>3, <1>4

\* The parts of a text are in it, one behind the other.
LEMMA PartsOfText ==
  ASSUME NEW c, c.mem \in Texts, c.n \in Bases
  PROVE  /\ SignAt(c) \in Nat /\ PrefixAt(c) \in Nat
         /\ DigitsAt(c) \in Nat /\ DigitsEnd(c) \in Nat /\ DigitsAt(c) <= DigitsEnd(c)
         /\ Base(c) \in 2..36
         /\ c.mem[SignAt(c)] \notin Blanks
         /\ \A b \in 0..(SignAt(c) - 1) : c.mem[b] \in Blanks
         /\ ~IsDigit(c.mem[DigitsEnd(c)], Base(c))
         /\ \A b \in DigitsAt(c)..(DigitsEnd(c) - 1) :
              /\ IsDigit(c.mem[b], Base(c)) /\ c.mem[b] \in 0..255
              /\ Worth(c.mem[b]) = Digit(c.mem[b])
<1>1. PICK n : Ended(c.mem, n)
  BY TextsAssumption DEF Ended
<1>2. n \in Nat /\ c.mem[n] = 0 /\ \A k \in 0..n : c.mem[k] \in 0..255
  BY <1>1 DEF Ended
<1>3. /\ SignAt(c) \in 0..n /\ c.mem[SignAt(c)] \notin Blanks
      /\ \A b \in 0..(SignAt(c) - 1) : c.mem[b] \in Blanks
  <2>1. 0 \in 0..n /\ 0 \notin Blanks
    BY <1>2 DEF Blanks
  <2> QED
    BY <1>1, <2>1, BehindIs DEF SignAt
<1>4. PrefixAt(c) \in 0..n
  BY <1>2, <1>3 DEF PrefixAt, Plus, Minus
<1>5. DigitsAt(c) \in 0..n
  <2>1. CASE IsHex(c)
    <3>1. c.mem[PrefixAt(c)] = 48 /\ c.mem[PrefixAt(c) + 1] \in {120, 88}
      BY <2>1 DEF IsHex, HexPrefixes, HasPrefix, Zero, LowerX, UpperX
    <3>2. PrefixAt(c) # n
      BY <1>2, <3>1
    <3>3. PrefixAt(c) + 1 # n
      BY <1>2, <3>1
    <3>4. DigitsAt(c) = PrefixAt(c) + 2
      BY <2>1 DEF DigitsAt
    <3> QED
      BY <1>2, <1>4, <3>2, <3>3, <3>4
  <2>2. CASE ~IsHex(c)
    BY <1>4, <2>2 DEF DigitsAt
  <2> QED
    BY <2>1, <2>2
<1>6. Base(c) \in 2..36
  <2>1. c.n = 0 \/ c.n \in 2..36
    BY StringsAssumption
  <2> QED
    BY <2>1 DEF Base
<1>7. /\ DigitsEnd(c) \in DigitsAt(c)..n
      /\ c.mem[DigitsEnd(c)] \notin RadixDigits(Base(c))
      /\ \A b \in DigitsAt(c)..(DigitsEnd(c) - 1) : c.mem[b] \in RadixDigits(Base(c))
  <2>1. 0 \notin RadixDigits(Base(c))
    <3>1. ~IsDigit(0, Base(c))
      BY <1>6 DEF IsDigit, Digit
    <3>2. 0 \in 0..255
      OBVIOUS
    <3> QED
      BY <1>6, <3>1, <3>2, RadixDigitsAre
  <2> QED
    BY <1>1, <1>5, <2>1, BehindIs DEF DigitsEnd
<1>8. SignAt(c) \in Nat /\ PrefixAt(c) \in Nat /\ DigitsAt(c) \in Nat
  BY <1>2, <1>3, <1>4, <1>5
<1>9. DigitsEnd(c) \in Nat /\ DigitsAt(c) <= DigitsEnd(c) /\ DigitsEnd(c) \in 0..n
  BY <1>2, <1>7, <1>8
<1>10. ~IsDigit(c.mem[DigitsEnd(c)], Base(c))
  <2>1. c.mem[DigitsEnd(c)] \in 0..255
    BY <1>2, <1>9
  <2> QED
    BY <1>6, <1>7, <2>1, RadixDigitsAre
<1>11. ASSUME NEW b \in DigitsAt(c)..(DigitsEnd(c) - 1)
       PROVE  /\ IsDigit(c.mem[b], Base(c)) /\ c.mem[b] \in 0..255
              /\ Worth(c.mem[b]) = Digit(c.mem[b])
  <2>1. c.mem[b] \in 0..255
    <3>1. b \in 0..n
      BY <1>2, <1>8, <1>9
    <3> QED
      BY <1>2, <3>1
  <2> QED
    BY <1>6, <1>7, <2>1, RadixDigitsAre
<1> QED
  BY <1>3, <1>6, <1>8, <1>9, <1>10, <1>11

-----------------------------------------------------------------------------
(* The digits of a number.                                                 *)

LEMMA PlaceIs ==
  ASSUME NEW c, c.mem \in Texts, c.n \in Bases
  PROVE  /\ Place(c) \in [0..DigitCount(c) -> Nat]
         /\ Place(c)[0] = 1
         /\ \A k \in 1..DigitCount(c) : Place(c)[k] = Base(c) * Place(c)[k - 1]
<1> DEFINE n == DigitCount(c)
           base == Base(c)
           IsIt(f) == f = [k \in 0..n |-> IF k = 0 THEN 1 ELSE base * f[k - 1]]
           step == [k \in 1..n |-> [v \in Nat |-> base * v]]
<1>1. n \in Nat /\ base \in Nat
  BY PartsOfText DEF DigitCount
<1> HIDE DEF base
<1>2. step \in [1..n -> [Nat -> Nat]]
  <2>1. \A v \in Nat : base * v \in Nat
    BY <1>1
  <2> QED
    BY <2>1
<1>3. PICK f : Follows(f, step, 1, n, Nat)
  <2> HIDE DEF n, step
  <2> QED
    BY <1>1, <1>2, RecursionFollows
<1>4. ASSUME NEW k \in 1..n PROVE f[k - 1] \in Nat /\ step[k][f[k - 1]] = base * f[k - 1]
  <2>1. k - 1 \in 0..n
    BY <1>1
  <2>2. f[k - 1] \in Nat
    BY <1>3, <2>1 DEF Follows
  <2> HIDE DEF n
  <2> QED
    BY <2>2
<1>5. IsIt(f)
  <2>1. ASSUME NEW k \in 0..n PROVE f[k] = IF k = 0 THEN 1 ELSE base * f[k - 1]
    <3>1. k = 0 \/ k \in 1..n
      BY <1>1
    <3> HIDE DEF n, step
    <3> QED
      BY <1>3, <1>4, <3>1 DEF Follows
  <2> QED
    BY <1>3, <2>1 DEF Follows
<1>6. Place(c) = CHOOSE g : IsIt(g)
  BY DEF Place, base
<1>7. IsIt(Place(c))
  BY <1>5, <1>6
<1>8. \A k \in 0..n : Place(c)[k] = IF k = 0 THEN 1 ELSE base * Place(c)[k - 1]
  <2> HIDE DEF n
  <2> QED
    BY <1>7
<1>9. Place(c)[0] = 1 /\ \A k \in 1..n : Place(c)[k] = base * Place(c)[k - 1]
  <2>1. 0 \in 0..n /\ \A k \in 1..n : k \in 0..n /\ k # 0
    BY <1>1
  <2> HIDE DEF n
  <2> QED
    BY <1>8, <2>1
<1>10. \A k \in 0..n : Place(c)[k] \in Nat
  <2> HIDE DEF n
  <2>1. ASSUME NEW k \in 1..n, Place(c)[k - 1] \in Nat PROVE Place(c)[k] \in Nat
    BY <1>1, <1>9, <2>1
  <2>2. Place(c)[0] \in Nat
    BY <1>9
  <2> QED
    BY <1>1, <2>1, <2>2, RecursionTyped
<1>11. Place(c) \in [0..n -> Nat]
  <2> HIDE DEF n
  <2> QED
    BY <1>7, <1>10
<1> QED
  BY <1>9, <1>11 DEF base

\* The digits at the end of a number, one more at a time.
LEMMA LastDigitsAre ==
  ASSUME NEW c, c.mem \in Texts, c.n \in Bases
  PROVE  /\ \A k \in 0..DigitCount(c) : LastDigits(c)[k] \in Nat
         /\ LastDigits(c)[0] = 0
         /\ \A k \in 1..DigitCount(c) :
              LastDigits(c)[k] = Worth(c.mem[DigitsEnd(c) - k]) * Place(c)[k - 1]
                                   + LastDigits(c)[k - 1]
<1> DEFINE n == DigitCount(c)
           worth == [k \in 1..n |-> Worth(c.mem[DigitsEnd(c) - k]) * Place(c)[k - 1]]
           IsIt(f) == f = [k \in 0..n |->
                             IF k = 0 THEN 0
                             ELSE Worth(c.mem[DigitsEnd(c) - k]) * Place(c)[k - 1] + f[k - 1]]
           step == [k \in 1..n |-> [v \in Nat |-> worth[k] + v]]
<1>1. n \in Nat
  BY PartsOfText DEF DigitCount
<1>2. \A k \in 1..n : worth[k] \in Nat
  <2>1. ASSUME NEW k \in 1..n
        PROVE  Worth(c.mem[DigitsEnd(c) - k]) \in Nat /\ Place(c)[k - 1] \in Nat
    <3>1. DigitsEnd(c) - k \in DigitsAt(c)..(DigitsEnd(c) - 1)
      <4>1. DigitsEnd(c) \in Nat /\ DigitsAt(c) \in Nat
        BY PartsOfText
      <4> QED
        BY <4>1 DEF DigitCount
    <3>2. c.mem[DigitsEnd(c) - k] \in 0..255
      BY <3>1, PartsOfText
    <3>3. k - 1 \in 0..n
      BY <1>1
    <3>4. Place(c) \in [0..n -> Nat]
      BY PlaceIs
    <3>5. Worth(c.mem[DigitsEnd(c) - k]) \in Nat
      <4>1. PICK x \in 0..255 : x = c.mem[DigitsEnd(c) - k] /\ Worth(x) = Digit(x)
        BY <3>1, <3>2, PartsOfText
      <4>2. Digit(x) \in 0..36
        BY DigitTyped
      <4> QED
        BY <4>1, <4>2
    <3> HIDE DEF n
    <3> QED
      BY <3>3, <3>4, <3>5
  <2> HIDE DEF n
  <2>2. ASSUME NEW p \in Nat, NEW q \in Nat PROVE p * q \in Nat
    OBVIOUS
  <2> QED
    BY <2>1, <2>2
<1> HIDE DEF n, worth
<1>3. step \in [1..n -> [Nat -> Nat]]
  BY <1>2
<1>4. PICK f : Follows(f, step, 0, n, Nat)
  <2> HIDE DEF step
  <2> QED
    BY <1>1, <1>3, RecursionFollows
<1>5. ASSUME NEW k \in 1..n PROVE f[k - 1] \in Nat /\ step[k][f[k - 1]] = worth[k] + f[k - 1]
  <2>1. k - 1 \in 0..n
    BY <1>1
  <2>2. f[k - 1] \in Nat
    BY <1>4, <2>1 DEF Follows
  <2> QED
    BY <2>2
<1>6. IsIt(f)
  <2>1. ASSUME NEW k \in 0..n
        PROVE  f[k] = IF k = 0 THEN 0
                      ELSE Worth(c.mem[DigitsEnd(c) - k]) * Place(c)[k - 1] + f[k - 1]
    <3>1. k = 0 \/ k \in 1..n
      BY <1>1
    <3>2. k \in 1..n => worth[k] = Worth(c.mem[DigitsEnd(c) - k]) * Place(c)[k - 1]
      BY DEF worth
    <3> HIDE DEF step
    <3> QED
      BY <1>4, <1>5, <3>1, <3>2 DEF Follows
  <2> QED
    BY <1>4, <2>1 DEF Follows
<1>7. LastDigits(c) = CHOOSE g : IsIt(g)
  BY DEF LastDigits, n
<1>8. IsIt(LastDigits(c))
  BY <1>6, <1>7
<1>9. /\ LastDigits(c)[0] = 0
      /\ \A k \in 1..n :
           LastDigits(c)[k] = Worth(c.mem[DigitsEnd(c) - k]) * Place(c)[k - 1]
                                + LastDigits(c)[k - 1]
  <2>1. 0 \in 0..n /\ \A k \in 1..n : k \in 0..n /\ k # 0
    BY <1>1
  <2> QED
    BY <1>8, <2>1
<1>10. \A k \in 0..n : LastDigits(c)[k] \in Nat
  <2>1. \A k \in 1..n : LastDigits(c)[k] = worth[k] + LastDigits(c)[k - 1]
    BY <1>9 DEF worth
  <2>2. ASSUME NEW k \in 1..n, LastDigits(c)[k - 1] \in Nat PROVE LastDigits(c)[k] \in Nat
    BY <1>2, <2>1, <2>2
  <2>3. LastDigits(c)[0] \in Nat
    BY <1>9
  <2> QED
    BY <1>1, <2>2, <2>3, RecursionTyped
<1> QED
  BY <1>9, <1>10 DEF n

\* One digit more, at its place.
LEMMA OneDigit ==
  ASSUME NEW v \in Nat, NEW base \in Nat, NEW p \in Nat, NEW d \in Nat, NEW q \in Nat
  PROVE  (v * base + d) * p + q = v * (base * p) + (d * p + q)
<1>1. (v * base + d) * p = v * (base * p) + d * p
  OBVIOUS
<1> QED
  BY <1>1

LEMMA SkipBlankStep ==
  ASSUME Called, BlankLoop, SkipBlank
  PROVE  Called' /\ BlankLoop'
<1>1. at = "loop" /\ call.fn = "strtol" /\ StrtolCalled
  BY DEF SkipBlank, In, BlankLoop
<1>2. SignAt(call) \in Nat /\ call.mem[SignAt(call)] \notin Blanks
  BY <1>1, PartsOfText DEF StrtolCalled
<1>3. r \in Locals /\ r.s \in Nat /\ r.s <= SignAt(call) /\ r.s # SignAt(call)
  BY <1>1, <1>2 DEF StrtolCalled, BlankLoop, SkipBlank, Registered
<1>4. PICK x \in Nat : x = r.s + 1 /\ x <= SignAt(call)
  BY <1>2, <1>3
<1>5. UNCHANGED <<call, at, mem>> /\ r' = [r EXCEPT !.s = x]
  BY <1>4 DEF SkipBlank, Again
<1>6. r' \in Locals /\ r'.s = x /\ r'.n = r.n /\ r'.val = r.val
  BY <1>3, <1>5 DEF Locals
<1>7. x \in 0..SignAt(call)
  BY <1>2, <1>4
<1> QED
  BY <1>1, <1>5, <1>6, <1>7 DEF Called, BlankLoop, StrtolCalled, Registered

\* The first digit of an octal number is the 0 of its prefix.
LEMMA FirstDigit ==
  ASSUME NEW c, c.mem \in Texts, c.n \in Bases,
         ~IsHex(c), c.n = 0, c.mem[PrefixAt(c)] = Zero
  PROVE  /\ DigitCount(c) \in Nat \ {0}
         /\ DigitsEnd(c) - (PrefixAt(c) + 1) = DigitCount(c) - 1
         /\ LastDigits(c)[DigitCount(c)] = LastDigits(c)[DigitCount(c) - 1]
<1>1. DigitsAt(c) = PrefixAt(c) /\ Base(c) = 8
  BY DEF DigitsAt, Base
<1>2. /\ DigitsEnd(c) \in Nat /\ PrefixAt(c) \in Nat /\ PrefixAt(c) <= DigitsEnd(c)
      /\ ~IsDigit(c.mem[DigitsEnd(c)], 8)
      /\ \A b \in DigitsAt(c)..(DigitsEnd(c) - 1) : Worth(c.mem[b]) = Digit(c.mem[b])
  BY <1>1, PartsOfText
<1>3. Digit(48) = 0
  BY DEF Digit
<1>4. DigitsEnd(c) # PrefixAt(c)
  BY <1>2, <1>3 DEF IsDigit, Zero
<1>5. /\ DigitCount(c) \in Nat \ {0} /\ DigitsEnd(c) - DigitCount(c) = PrefixAt(c)
      /\ DigitsEnd(c) - (PrefixAt(c) + 1) = DigitCount(c) - 1
  BY <1>1, <1>2, <1>4 DEF DigitCount
<1> DEFINE n == DigitCount(c)
<1>6. /\ LastDigits(c)[n] = Worth(c.mem[DigitsEnd(c) - n]) * Place(c)[n - 1]
                              + LastDigits(c)[n - 1]
      /\ LastDigits(c)[n - 1] \in Nat
  BY <1>5, LastDigitsAre
<1>7. Place(c)[n - 1] \in Nat
  BY <1>5, PlaceIs
<1>8. Worth(c.mem[DigitsEnd(c) - n]) = 0
  <2>1. PrefixAt(c) \in DigitsAt(c)..(DigitsEnd(c) - 1)
    BY <1>1, <1>2, <1>4
  <2> QED
    BY <1>2, <1>3, <1>5, <2>1 DEF Zero
<1>9. LastDigits(c)[n] = 0 * Place(c)[n - 1] + LastDigits(c)[n - 1]
  BY <1>6, <1>8
<1> HIDE DEF n
<1>10. LastDigits(c)[n] = LastDigits(c)[n - 1]
  BY <1>6, <1>7, <1>9
<1> QED
  BY <1>5, <1>10 DEF n

\* Where the comment and the code take the same prefixes.
LEMMA HexPrefixTaken ==
  ASSUME NEW c, c.n \in Bases, ~HasRefusedPrefix(c)
  PROVE  IsHex(c) <=> HasHexPrefix(c.mem, PrefixAt(c), c.n)
<1>1. ASSUME IsHex(c) PROVE HasHexPrefix(c.mem, PrefixAt(c), c.n)
  <2>1. PICK prefix \in HexPrefixes(c.n) : HasPrefix(c, prefix)
    BY <1>1 DEF IsHex
  <2>2. CASE c.n = 0
    <3>1. prefix = <<Zero, LowerX>>
      BY <2>1, <2>2 DEF HexPrefixes
    <3> QED
      BY <2>1, <2>2, <3>1 DEF HasPrefix, HasHexPrefix
  <2>3. CASE c.n = 16
    <3>1. prefix = <<Zero, LowerX>> \/ prefix = <<Zero, UpperX>>
      BY <2>1, <2>3 DEF HexPrefixes
    <3>2. prefix = <<Zero, LowerX>>
      BY <2>1, <2>3, <3>1 DEF HasRefusedPrefix
    <3> QED
      BY <2>1, <2>3, <3>2 DEF HasPrefix, HasHexPrefix
  <2>4. CASE c.n # 0 /\ c.n # 16
    BY <2>1, <2>4 DEF HexPrefixes
  <2> QED
    BY <2>2, <2>3, <2>4
<1>2. ASSUME HasHexPrefix(c.mem, PrefixAt(c), c.n) PROVE IsHex(c)
  <2>1. c.n \in {0, 16} /\ HasPrefix(c, <<Zero, LowerX>>)
    BY <1>2 DEF HasHexPrefix, HasPrefix
  <2>2. <<Zero, LowerX>> \in HexPrefixes(c.n)
    BY <2>1 DEF HexPrefixes
  <2> QED
    BY <2>1, <2>2 DEF IsHex
<1> QED
  BY <1>1, <1>2

\* The number begins, with its first digit or behind its prefix.
LEMMA NumberBegins ==
  ASSUME Called, BlankLoop, SignAndPrefix, ~HasRefusedPrefix(call)
  PROVE  Called' /\ DigitsLoop'
<1>1. at = "loop" /\ call.fn = "strtol" /\ StrtolCalled /\ r.n = call.n /\ r.val = 0
  BY DEF SignAndPrefix, In, BlankLoop
<1>2. /\ SignAt(call) \in Nat /\ PrefixAt(call) \in Nat /\ DigitsAt(call) \in Nat
      /\ DigitsEnd(call) \in Nat /\ DigitsAt(call) <= DigitsEnd(call)
      /\ \A b \in 0..(SignAt(call) - 1) : call.mem[b] \in Blanks
  BY <1>1, PartsOfText DEF StrtolCalled
<1>3. r.s = SignAt(call) /\ mem = call.mem /\ r \in Locals
  BY <1>1, <1>2 DEF StrtolCalled, BlankLoop, SignAndPrefix, Registered
<1> DEFINE hex == IsHex(call)
           octal == ~hex /\ call.n = 0 /\ call.mem[PrefixAt(call)] = Zero
<1>4. /\ r' = [r EXCEPT !.neg = (call.mem[SignAt(call)] = Minus),
                        !.s = PrefixAt(call) + (IF hex THEN 2 ELSE IF octal THEN 1 ELSE 0),
                        !.n = IF hex THEN 16 ELSE IF octal THEN 8
                              ELSE IF @ = 0 THEN 10 ELSE @]
      /\ at' = "digits" /\ UNCHANGED <<call, mem>>
  <2>1. hex <=> HasHexPrefix(call.mem, PrefixAt(call), call.n)
    BY <1>1, HexPrefixTaken DEF StrtolCalled
  <2>2. PrefixAt(call) = IF mem[r.s] \in {Plus, Minus} THEN r.s + 1 ELSE r.s
    BY <1>3 DEF PrefixAt
  <2> HIDE DEF hex
  <2> QED
    BY <1>1, <1>3, <2>1, <2>2 DEF SignAndPrefix
<1>5. PICK x \in Nat : x = PrefixAt(call) + (IF hex THEN 2 ELSE IF octal THEN 1 ELSE 0)
  <2> HIDE DEF hex, octal
  <2> QED
    BY <1>2
<1>6. (IF hex THEN 16 ELSE IF octal THEN 8 ELSE IF r.n = 0 THEN 10 ELSE r.n) = Base(call)
  BY <1>1 DEF Base
<1>7. Base(call) \in Int
  BY <1>1, PartsOfText DEF StrtolCalled
<1>8. PICK neg \in BOOLEAN : neg = (call.mem[SignAt(call)] = Minus)
  OBVIOUS
<1>9. r' = [r EXCEPT !.neg = neg, !.s = x, !.n = Base(call)]
  BY <1>4, <1>5, <1>6, <1>8
<1>10. /\ r' \in Locals /\ r'.s = x /\ r'.n = Base(call) /\ r'.val = 0
       /\ r'.neg = (call.mem[SignAt(call)] = Minus)
  <2>1. r' \in Locals
    <3>1. x \in Int /\ Base(call) \in Int /\ neg \in BOOLEAN
      BY <1>5, <1>7, <1>8
    <3> HIDE DEF hex, octal
    <3> QED
      BY <1>3, <1>9, <3>1 DEF Locals
  <2>2. r'.s = x /\ r'.n = Base(call) /\ r'.val = r.val
    BY <1>3, <1>7, <1>9 DEF Locals
  <2>3. r'.neg = neg
    BY <1>3, <1>9 DEF Locals
  <2> QED
    BY <1>1, <1>8, <2>1, <2>2, <2>3
<1> DEFINE left == DigitsEnd(call) - x
<1>11. left \in 0..DigitCount(call) /\ LastDigits(call)[left] = LastDigits(call)[DigitCount(call)]
  <2>1. CASE octal
    <3>1. /\ DigitCount(call) \in Nat \ {0}
          /\ DigitsEnd(call) - (PrefixAt(call) + 1) = DigitCount(call) - 1
          /\ LastDigits(call)[DigitCount(call)] = LastDigits(call)[DigitCount(call) - 1]
      BY <1>1, <2>1, FirstDigit DEF StrtolCalled
    <3>2. x = PrefixAt(call) + 1
      BY <1>5, <2>1
    <3> QED
      BY <3>1, <3>2
  <2>2. CASE ~octal
    <3>1. x = DigitsAt(call)
      <4> HIDE DEF octal
      <4> QED
        BY <1>2, <1>5, <2>2 DEF DigitsAt
    <3>2. left = DigitCount(call) /\ DigitCount(call) \in Nat
      BY <1>2, <3>1 DEF DigitCount
    <3> QED
      BY <3>2
  <2> QED
    BY <2>1, <2>2
<1>12. 0 * Place(call)[left] + LastDigits(call)[left] = LastDigits(call)[DigitCount(call)]
  <2>1. Place(call)[left] \in Nat /\ LastDigits(call)[left] \in Nat
    <3> HIDE DEF left
    <3> QED
      BY <1>1, <1>11, PlaceIs, LastDigitsAre DEF StrtolCalled
  <2> HIDE DEF left
  <2> QED
    BY <1>11, <2>1
<1>13. DigitsLoop'
  <2>1. ~HasRefusedPrefix(call')
    BY <1>4
  <2> QED
    BY <1>1, <1>4, <1>10, <1>11, <1>12, <2>1 DEF DigitsLoop, StrtolCalled, Registered
<1> QED
  BY <1>4, <1>13 DEF Called

\* Before a prefix that is refused: its 0 is to be read as a digit.
LEMMA RefusedBegins ==
  ASSUME Called, BlankLoop, SignAndPrefix, HasRefusedPrefix(call)
  PROVE  Called' /\ DigitsLoop'
<1>1. at = "loop" /\ call.fn = "strtol" /\ StrtolCalled /\ r.n = call.n /\ r.val = 0
  BY DEF SignAndPrefix, In, BlankLoop
<1>2. /\ SignAt(call) \in Nat /\ PrefixAt(call) \in Nat
      /\ \A b \in 0..(SignAt(call) - 1) : call.mem[b] \in Blanks
  BY <1>1, PartsOfText DEF StrtolCalled
<1>3. r.s = SignAt(call) /\ mem = call.mem /\ r \in Locals
  BY <1>1, <1>2 DEF StrtolCalled, BlankLoop, SignAndPrefix, Registered
<1>4. /\ call.n = 16
      /\ call.mem[PrefixAt(call)] = 48 /\ call.mem[PrefixAt(call) + 1] = 88
  BY DEF HasRefusedPrefix, HasPrefix, Zero, UpperX
<1>5. Base(call) = 16
  BY <1>4 DEF Base
<1>6. ~HasHexPrefix(call.mem, PrefixAt(call), 16)
  BY <1>4 DEF HasHexPrefix, LowerX
<1>7. PrefixAt(call) = IF mem[r.s] \in {Plus, Minus} THEN r.s + 1 ELSE r.s
  BY <1>3 DEF PrefixAt
<1>8. PICK neg \in BOOLEAN : neg = (call.mem[SignAt(call)] = Minus)
  OBVIOUS
<1>9. PICK x \in Nat : x = PrefixAt(call)
  BY <1>2
<1>10. /\ r' = [r EXCEPT !.neg = neg, !.s = x, !.n = 16]
       /\ at' = "digits" /\ UNCHANGED <<call, mem>>
  <2> DEFINE hex == HasHexPrefix(mem, PrefixAt(call), r.n)
             octal == ~hex /\ r.n = 0 /\ mem[PrefixAt(call)] = Zero
  <2>1. /\ r' = [r EXCEPT !.neg = (mem[r.s] = Minus),
                         !.s = PrefixAt(call) + (IF hex THEN 2 ELSE IF octal THEN 1 ELSE 0),
                         !.n = IF hex THEN 16 ELSE IF octal THEN 8
                               ELSE IF @ = 0 THEN 10 ELSE @]
        /\ at' = "digits" /\ UNCHANGED <<call, mem>>
    BY <1>7 DEF SignAndPrefix
  <2>2. ~hex /\ ~octal
    BY <1>1, <1>3, <1>4, <1>6
  <2> HIDE DEF hex, octal
  <2>3. PrefixAt(call) + (IF hex THEN 2 ELSE IF octal THEN 1 ELSE 0) = x
    BY <1>9, <2>2
  <2>4. (IF hex THEN 16 ELSE IF octal THEN 8 ELSE IF r.n = 0 THEN 10 ELSE r.n) = 16
    BY <1>1, <1>4, <2>2
  <2>5. (mem[r.s] = Minus) = neg
    BY <1>3, <1>8
  <2> QED
    BY <2>1, <2>3, <2>4, <2>5
<1>11. r' \in Locals /\ r'.s = x /\ r'.n = 16 /\ r'.val = 0 /\ r'.neg = neg
  <2>1. PICK y \in Int : y = 16
    OBVIOUS
  <2>2. x \in Int /\ r' = [r EXCEPT !.neg = neg, !.s = x, !.n = y]
    BY <1>10, <2>1
  <2>3. r' \in Locals
    BY <1>3, <2>2 DEF Locals
  <2>4. r'.s = x /\ r'.n = y /\ r'.val = r.val
    BY <1>3, <2>2 DEF Locals
  <2>5. r'.neg = neg
    BY <1>3, <2>2 DEF Locals
  <2> QED
    BY <1>1, <2>1, <2>3, <2>4, <2>5
<1>12. DigitsLoop'
  BY <1>1, <1>5, <1>8, <1>9, <1>10, <1>11 DEF DigitsLoop, StrtolCalled, Registered
<1> QED
  BY <1>10, <1>12 DEF Called

LEMMA SignAndPrefixStep ==
  ASSUME Called, BlankLoop, SignAndPrefix
  PROVE  Called' /\ DigitsLoop'
BY NumberBegins, RefusedBegins

\* The 0 of a prefix that is refused, and the X that ends it.
LEMMA RefusedStep ==
  ASSUME Called, DigitsLoop, Digits, HasRefusedPrefix(call)
  PROVE  Called' /\ DigitsLoop' /\ MemoryAsDocumented' /\ ResultAsDocumented'
<1>1. /\ at = "digits" /\ StrtolCalled /\ r.n = Base(call) /\ r.val = 0
      /\ r.neg = (call.mem[SignAt(call)] = Minus)
      /\ r.s \in {PrefixAt(call), PrefixAt(call) + 1}
  BY DEF Digits, DigitsLoop
<1>2. PrefixAt(call) \in Nat
  BY <1>1, PartsOfText DEF StrtolCalled
<1>3. r \in Locals /\ mem = call.mem
  BY <1>1 DEF StrtolCalled, Registered
<1>4. /\ call.n = 16
      /\ call.mem[PrefixAt(call)] = 48 /\ call.mem[PrefixAt(call) + 1] = 88
  BY DEF HasRefusedPrefix, HasPrefix, Zero, UpperX
<1>5. r.n = 16
  BY <1>1, <1>4 DEF Base
<1>6. Digit(48) = 0 /\ IsDigit(48, 16) /\ ~IsDigit(88, 16)
  BY DEF Digit, IsDigit
<1>7. CASE r.s = PrefixAt(call)
  <2>1. PICK x \in Int : x = PrefixAt(call) + 1
    BY <1>2
  <2>2. mem[r.s] = 48
    BY <1>3, <1>4, <1>7
  <2>3. r.val * r.n + Digit(mem[r.s]) = 0
    <3>1. 0 * 16 + 0 = 0
      OBVIOUS
    <3> QED
      BY <1>1, <1>5, <1>6, <2>2, <3>1
  <2>v. PICK v \in Int : v = 0
    OBVIOUS
  <2>4. UNCHANGED <<call, at, mem, ret>> /\ r' = [r EXCEPT !.s = x, !.val = v]
    <3>1. IsDigit(mem[r.s], r.n)
      BY <1>5, <1>6, <2>2
    <3>2. UNCHANGED <<call, at, mem, ret>> /\ r' = [r EXCEPT !.s = r.s + 1,
                                                            !.val = r.val * r.n + Digit(mem[r.s])]
      BY <3>1 DEF Digits, Again
    <3> QED
      BY <1>7, <2>1, <2>3, <2>v, <3>2
  <2>5. r' \in Locals /\ r'.s = x /\ r'.val = 0 /\ r'.n = r.n /\ r'.neg = r.neg
    <3>1. r' \in Locals
      BY <1>3, <2>4 DEF Locals
    <3>2. r'.s = x /\ r'.val = v /\ r'.n = r.n
      BY <1>3, <2>4 DEF Locals
    <3>3. r'.neg = r.neg
      BY <1>3, <2>4 DEF Locals
    <3> QED
      BY <2>v, <3>1, <3>2, <3>3
  <2>6. DigitsLoop'
    BY <1>1, <2>1, <2>4, <2>5 DEF DigitsLoop, StrtolCalled, Registered
  <2> QED
    BY <1>1, <2>4, <2>6 DEF Called, MemoryAsDocumented, ResultAsDocumented
<1>8. CASE r.s = PrefixAt(call) + 1
  <2>1. ~IsDigit(mem[r.s], r.n)
    BY <1>3, <1>4, <1>5, <1>6, <1>8
  <2>2. /\ at' = "done" /\ UNCHANGED <<call, mem>>
        /\ ret' = [value |-> IF r.neg THEN -r.val ELSE r.val, endptr |-> r.s]
    BY <2>1 DEF Digits, Return
  <2>3. ret' = ZeroRead(call)
    <3>1. (IF r.neg THEN -r.val ELSE r.val) = 0
      <4>1. PICK z \in Int : z = r.val
        BY <1>1
      <4>2. z <= 0 /\ z >= 0
        BY <1>1, <4>1
      <4>3. -z = z
        BY <4>2
      <4> QED
        BY <1>1, <4>1, <4>3
    <3> QED
      BY <1>8, <2>2, <3>1 DEF ZeroRead
  <2>4. call.fn = "strtol" /\ "strtol" \notin Writers
    BY <1>1 DEF StrtolCalled, Writers
  <2>5. ResultAsDocumented'
    BY <2>2, <2>3, <2>4 DEF ResultAsDocumented
  <2> QED
    BY <1>3, <2>2, <2>4, <2>5 DEF Called, DigitsLoop, MemoryAsDocumented
<1> QED
  BY <1>1, <1>7, <1>8

LEMMA NumberStep ==
  ASSUME Called, DigitsLoop, Digits, ~HasRefusedPrefix(call)
  PROVE  Called' /\ DigitsLoop' /\ MemoryAsDocumented' /\ ResultAsDocumented'
<1> DEFINE left == DigitsEnd(call) - r.s
           digit == Digit(call.mem[r.s])
<1>1. /\ at = "digits" /\ StrtolCalled /\ r.n = Base(call)
      /\ r.neg = (call.mem[SignAt(call)] = Minus)
      /\ left \in 0..DigitCount(call) /\ r.val \in Nat
      /\ r.val * Place(call)[left] + LastDigits(call)[left] = LastDigits(call)[DigitCount(call)]
  BY DEF Digits, DigitsLoop
<1>2. /\ DigitsAt(call) \in Nat /\ DigitsEnd(call) \in Nat /\ DigitsAt(call) <= DigitsEnd(call)
      /\ Base(call) \in 2..36
      /\ ~IsDigit(call.mem[DigitsEnd(call)], Base(call))
      /\ \A b \in DigitsAt(call)..(DigitsEnd(call) - 1) :
           /\ IsDigit(call.mem[b], Base(call)) /\ call.mem[b] \in 0..255
           /\ Worth(call.mem[b]) = Digit(call.mem[b])
  BY <1>1, PartsOfText DEF StrtolCalled
<1>3. r \in Locals /\ r.s \in Int /\ DigitCount(call) \in Nat /\ mem = call.mem
  BY <1>1, <1>2 DEF StrtolCalled, Registered, Locals, DigitCount
<1>4. r.s >= DigitsAt(call) /\ r.s <= DigitsEnd(call) /\ left \in Nat
  BY <1>1, <1>2, <1>3 DEF DigitCount
<1>5. CASE IsDigit(mem[r.s], r.n)
  <2>1. left # 0
    BY <1>1, <1>2, <1>3, <1>5
  <2>2. PICK next \in Nat : next = left - 1 /\ next \in 0..DigitCount(call) /\ left \in 1..DigitCount(call)
    BY <1>1, <1>3, <1>4, <2>1
  <2>3. r.s \in DigitsAt(call)..(DigitsEnd(call) - 1) /\ r.s = DigitsEnd(call) - left
    BY <1>2, <1>3, <1>4, <2>1
  <2>4. digit \in Nat
    <3>1. PICK char \in 0..255 : char = call.mem[r.s]
      BY <1>2, <2>3
    <3>2. Digit(char) \in 0..36
      BY DigitTyped
    <3> QED
      BY <3>1, <3>2
  <2>5. /\ Place(call)[next] \in Nat
        /\ Place(call)[left] = Base(call) * Place(call)[next]
        /\ LastDigits(call)[next] \in Nat
        /\ LastDigits(call)[left] = digit * Place(call)[next] + LastDigits(call)[next]
    <3>1. call.mem \in Texts /\ call.n \in Bases
      BY <1>1 DEF StrtolCalled
    <3>2. /\ Place(call) \in [0..DigitCount(call) -> Nat]
          /\ Place(call)[left] = Base(call) * Place(call)[left - 1]
      <4> HIDE DEF left
      <4> QED
        BY <2>2, <3>1, PlaceIs
    <3>3. LastDigits(call)[left] = Worth(call.mem[DigitsEnd(call) - left]) * Place(call)[left - 1]
                                     + LastDigits(call)[left - 1]
      <4> HIDE DEF left
      <4> QED
        BY <2>2, <3>1, LastDigitsAre
    <3>4. LastDigits(call)[next] \in Nat
      BY <2>2, <3>1, LastDigitsAre
    <3> QED
      <4> HIDE DEF left
      <4> QED
        BY <1>2, <2>2, <2>3, <3>2, <3>3, <3>4
  <2>6. PICK x \in Int, v \in Nat : x = r.s + 1 /\ v = r.val * Base(call) + digit
    <3>1. Base(call) \in Nat
      BY <1>2
    <3>2. PICK base \in Nat : base = Base(call)
      BY <3>1
    <3> HIDE DEF digit
    <3>3. r.val * base + digit \in Nat
      BY <1>1, <2>4
    <3> QED
      BY <1>3, <3>2, <3>3
  <2>7. v * Place(call)[next] + LastDigits(call)[next] = LastDigits(call)[DigitCount(call)]
    <3> HIDE DEF digit, left
    <3>1. Base(call) \in Nat
      BY <1>2
    <3>2. (r.val * Base(call) + digit) * Place(call)[next] + LastDigits(call)[next]
            = r.val * (Base(call) * Place(call)[next])
                + (digit * Place(call)[next] + LastDigits(call)[next])
      BY <1>1, <2>4, <2>5, <3>1, OneDigit
    <3> QED
      BY <1>1, <2>5, <2>6, <3>2
  <2>8. UNCHANGED <<call, at, mem, ret>> /\ r' = [r EXCEPT !.s = x, !.val = v]
    BY <1>1, <1>3, <1>5, <2>6 DEF Digits, Again
  <2>9. r' \in Locals /\ r'.s = x /\ r'.val = v /\ r'.n = r.n /\ r'.neg = r.neg
    <3>1. r' \in Locals
      <4>1. x \in Int /\ v \in Int
        BY <2>6
      <4> QED
        BY <1>3, <2>8, <4>1 DEF Locals
    <3>2. r'.s = x /\ r'.val = v /\ r'.n = r.n
      BY <1>3, <2>8 DEF Locals
    <3>3. r'.neg = r.neg
      BY <1>3, <2>8 DEF Locals
    <3> QED
      BY <3>1, <3>2, <3>3
  <2>10. DigitsEnd(call) - x = next
    BY <1>2, <1>3, <2>2, <2>6
  <2>11. DigitsLoop'
    BY <1>1, <2>2, <2>7, <2>8, <2>9, <2>10 DEF DigitsLoop, StrtolCalled, Registered
  <2> QED
    BY <1>1, <2>8, <2>11 DEF Called, MemoryAsDocumented, ResultAsDocumented
<1>6. CASE ~IsDigit(mem[r.s], r.n)
  <2>1. r.s = DigitsEnd(call)
    <3>1. r.s \notin DigitsAt(call)..(DigitsEnd(call) - 1)
      BY <1>1, <1>2, <1>3, <1>6
    <3> QED
      BY <1>2, <1>3, <1>4, <3>1
  <2>2. r.val = LastDigits(call)[DigitCount(call)]
    <3>1. left = 0
      BY <1>2, <2>1
    <3>2. r.val * 1 + 0 = LastDigits(call)[DigitCount(call)]
      <4>1. Place(call)[0] = 1 /\ LastDigits(call)[0] = 0
        BY <1>1, PlaceIs, LastDigitsAre DEF StrtolCalled
      <4> QED
        BY <1>1, <3>1, <4>1
    <3> QED
      BY <1>1, <3>2
  <2>3. /\ at' = "done" /\ UNCHANGED <<call, mem>>
        /\ ret' = [value |-> IF r.neg THEN -r.val ELSE r.val, endptr |-> r.s]
    BY <1>6 DEF Digits, Return
  <2>4. ret' = NumberRead(call)
    BY <1>1, <2>1, <2>2, <2>3 DEF NumberRead
  <2>5. call.fn = "strtol" /\ "strtol" \notin Writers
    BY <1>1 DEF StrtolCalled, Writers
  <2>6. ResultAsDocumented'
    BY <2>3, <2>4, <2>5 DEF ResultAsDocumented
  <2> QED
    BY <1>3, <2>3, <2>5, <2>6 DEF Called, DigitsLoop, MemoryAsDocumented
<1> QED
  BY <1>5, <1>6

LEMMA DigitsStep ==
  ASSUME Called, DigitsLoop, Digits
  PROVE  Called' /\ DigitsLoop' /\ MemoryAsDocumented' /\ ResultAsDocumented'
BY NumberStep, RefusedStep

-----------------------------------------------------------------------------
(* All calls.                                                              *)

StringsInv ==
  /\ Called
  /\ WriteLoop
  /\ BackLoop
  /\ ReadLoop
  /\ CountLoop
  /\ CompareLoop
  /\ FindLoop
  /\ BlankLoop
  /\ DigitsLoop
  /\ MemoryAsDocumented
  /\ ResultAsDocumented

LEMMA InitInv == StringsInit => StringsInv
BY DEF StringsInit, StringsInv, Called, WriteLoop, BackLoop, ReadLoop, CountLoop,
       CompareLoop, FindLoop, BlankLoop, DigitsLoop, MemoryAsDocumented, ResultAsDocumented

\* A call starts with all its work in front of it.
LEMMA CallInv ==
  ASSUME NEW c \in Calls, Call(c)
  PROVE  StringsInv'
<1>1. /\ c.fn \in Functions /\ c.mem \in Memories
      /\ c.d \in Nat /\ c.s \in Nat /\ c.n \in Nat
      /\ Length(c.mem, c.s) \in Nat /\ Length(c.mem, c.d) \in Nat
  BY CallTyped
<1>2. c.fn # "strtol" /\ call' = c /\ mem' = c.mem
  BY <1>1 DEF Functions, Call, EnterMemmove, Enter
<1>3. Written(c, {}) = c.mem
  BY WrittenNone
<1>4. CASE c.fn = "memmove" /\ CopiesDown(c.d, c.s, c.n)
  <2>1. at' = "back" /\ r' = Registers(c.d + c.n, c.s + c.n, c.n)
    BY <1>4 DEF Call, EnterMemmove, Enter
  <2>2. PICK x \in Int, y \in Int : x = c.d + c.n /\ y = c.s + c.n
    BY <1>1
  <2>3. r' \in Locals /\ r'.d = x /\ r'.s = y /\ r'.n = c.n
    BY <1>1, <2>1, <2>2 DEF Registers, Locals
  <2>4. c.n..(c.n - 1) = {}
    BY <1>1
  <2>5. mem' = Written(c, c.n..(c.n - 1))
    BY <1>2, <1>3, <2>4
  <2>6. BackLoop'
    BY <1>1, <1>2, <1>4, <2>1, <2>2, <2>3, <2>5 DEF BackLoop
  <2> QED
    BY <1>2, <1>4, <2>1, <2>3, <2>6
    DEF StringsInv, Called, Registered, WriteLoop, ReadLoop, CountLoop, CompareLoop, FindLoop,
        BlankLoop, DigitsLoop, MemoryAsDocumented, ResultAsDocumented
<1>5. CASE ~(c.fn = "memmove" /\ CopiesDown(c.d, c.s, c.n))
  <2>1. at' = "loop" /\ r' = Registers(c.d, c.s, c.n)
    BY <1>5 DEF Call, EnterMemmove, Enter
  <2>2. r' \in Locals /\ r'.d = c.d /\ r'.s = c.s /\ r'.n = c.n /\ r'.val = 0
    BY <1>1, <2>1 DEF Registers, Locals
  <2>3. Called' /\ ReadLoop'
    BY <1>2, <2>1, <2>2 DEF Called, Registered, ReadLoop
  <2>4. Progress' = 0
    BY <1>1, <1>2, <2>2 DEF Progress
  <2>5. WriteLoop'
    <3>1. SUFFICES ASSUME c.fn \in Writers PROVE WriteLoop'
      BY <1>2 DEF WriteLoop
    <3>2. /\ BytesToWrite(c) \in Nat
          /\ c.fn = "strcpy" => 0 < BytesToWrite(c)
      BY <1>1 DEF BytesToWrite
    <3>3. 0..(0 - 1) = {} /\ 0 \in 0..BytesToWrite(c)
      BY <3>2
    <3>4. mem' = Written(c, 0..(0 - 1))
      BY <1>2, <1>3, <3>3
    <3>5. c.s = c.s + (IF 0 < Length(c.mem, c.s) THEN 0 ELSE Length(c.mem, c.s))
      BY <1>1
    <3>6. c.n = c.n - 0 /\ c.s = c.s + 0
      BY <1>1
    <3> QED
      BY <1>2, <1>5, <2>1, <2>2, <2>4, <3>2, <3>3, <3>4, <3>5, <3>6 DEF WriteLoop
  <2>6. CountLoop'
    BY <1>1, <1>2, <2>1, <2>2 DEF CountLoop
  <2>7. CompareLoop'
    <3>1. Passed(0)'
      BY DEF Passed
    <3> QED
      BY <1>1, <1>2, <2>1, <2>2, <2>4, <3>1 DEF CompareLoop, Passed
  <2>8. FindLoop'
    <3>1. c.s - c.s = 0 /\ c.s..(c.s - 1) = {}
      BY <1>1
    <3> QED
      BY <1>1, <1>2, <2>1, <2>2, <3>1 DEF FindLoop
  <2> QED
    BY <1>2, <2>1, <2>3, <2>5, <2>6, <2>7, <2>8
    DEF StringsInv, BackLoop, BlankLoop, DigitsLoop, MemoryAsDocumented, ResultAsDocumented
<1> QED
  BY <1>4, <1>5

LEMMA CallStrtolInv ==
  ASSUME NEW m \in Texts, NEW base \in Bases, CallStrtol(m, base)
  PROVE  StringsInv'
<1>1. /\ at' = "loop" /\ call'.fn = "strtol" /\ call'.mem = m /\ call'.n = base /\ mem' = m
      /\ r' = Registers(0, 0, base)
  BY DEF CallStrtol, Enter
<1>2. base \in Int
  BY StringsAssumption
<1>3. r' \in Locals /\ r'.s = 0 /\ r'.n = base /\ r'.val = 0
  BY <1>1, <1>2 DEF Registers, Locals
<1>4. SignAt(call') \in Nat
  BY <1>1, PartsOfText
<1>5. 0 \in 0..SignAt(call')
  BY <1>4
<1>6. BlankLoop'
  BY <1>1, <1>3, <1>5 DEF BlankLoop, StrtolCalled, Registered
<1> QED
  BY <1>1, <1>3, <1>6
  DEF StringsInv, Called, Registered, WriteLoop, BackLoop, ReadLoop, CountLoop, CompareLoop,
      FindLoop, DigitsLoop, MemoryAsDocumented, ResultAsDocumented, Writers, Readers

\* The functions have their loops each to itself.
LEMMA StepInv ==
  ASSUME StringsInv, StringsStep
  PROVE  StringsInv'
<1> USE DEF StringsInv
<1>1. CASE strlen \/ strnlen
  <2>1. /\ at = "loop" /\ at' \in {"loop", "done"} /\ call' = call
        /\ call.fn \in {"strlen", "strnlen"}
    BY <1>1 DEF strlen, strnlen, In, Again, Return
  <2>2. /\ Called' /\ ReadLoop' /\ MemoryAsDocumented' /\ CountLoop' /\ ResultAsDocumented'
    BY <1>1, CountStep
  <2> QED
    BY <2>1, <2>2
    DEF WriteLoop, BackLoop, CompareLoop, FindLoop, BlankLoop, DigitsLoop, Writers
<1>2. CASE strcmp \/ strncmp \/ memcmp
  <2>1. /\ at = "loop" /\ at' \in {"loop", "done"} /\ call' = call
        /\ call.fn \in {"strcmp", "strncmp", "memcmp"}
    BY <1>2 DEF strcmp, strncmp, memcmp, In, Again, Return
  <2>2. Called' /\ ReadLoop' /\ CompareLoop' /\ MemoryAsDocumented' /\ ResultAsDocumented'
    BY <1>2, CompareStep
  <2> QED
    BY <2>1, <2>2
    DEF WriteLoop, BackLoop, CountLoop, FindLoop, BlankLoop, DigitsLoop, Writers
<1>3. CASE strchr \/ strfind
  <2>1. /\ at = "loop" /\ at' \in {"loop", "done"} /\ call' = call
        /\ call.fn \in {"strchr", "strfind"}
    BY <1>3 DEF strchr, strfind, Find, In, Again, Return
  <2>2. Called' /\ ReadLoop' /\ FindLoop' /\ MemoryAsDocumented' /\ ResultAsDocumented'
    BY <1>3, FindStep
  <2> QED
    BY <2>1, <2>2
    DEF WriteLoop, BackLoop, CountLoop, CompareLoop, BlankLoop, DigitsLoop, Writers
<1>4. CASE strcpy \/ strncpy \/ memset \/ memcpy \/ (In("memmove") /\ CopyUp)
  <2>1. /\ at = "loop" /\ at' \in {"loop", "done"} /\ call' = call /\ call.fn \in Writers
    BY <1>4 DEF strcpy, strncpy, memset, memcpy, CopyUp, In, Again, Return, Writers
  <2>2. Called' /\ WriteLoop' /\ MemoryAsDocumented'
    BY <1>4, StrcpyStep, StrncpyStep, MemsetStep, CopyUpStep DEF memcpy, In
  <2>3. ReadLoop' /\ CountLoop' /\ CompareLoop' /\ FindLoop' /\ BlankLoop'
    BY <2>1 DEF ReadLoop, CountLoop, CompareLoop, FindLoop, BlankLoop, Writers, Readers
  <2>4. BackLoop' /\ DigitsLoop'
    BY <2>1 DEF BackLoop, DigitsLoop
  <2>5. ResultAsDocumented'
    BY <2>1 DEF ResultAsDocumented, Writers
  <2> QED
    BY <2>2, <2>3, <2>4, <2>5
<1>5. CASE at = "back" /\ memmove
  <2>1. at' \in {"back", "done"} /\ call' = call /\ call.fn = "memmove"
    BY <1>5 DEF memmove, CopyUp, In, Again, Return, Called
  <2>2. Called' /\ BackLoop' /\ MemoryAsDocumented'
    BY <1>5, BackStep
  <2>3. WriteLoop' /\ ReadLoop' /\ CountLoop' /\ CompareLoop' /\ FindLoop' /\ BlankLoop'
        /\ DigitsLoop'
    BY <2>1 DEF WriteLoop, ReadLoop, CountLoop, CompareLoop, FindLoop, BlankLoop, DigitsLoop
  <2>4. ResultAsDocumented'
    BY <2>1 DEF ResultAsDocumented
  <2> QED
    BY <2>2, <2>3, <2>4
<1>6. CASE SkipBlank
  <2>1. at' = "loop" /\ call' = call /\ call.fn = "strtol"
    BY <1>6 DEF SkipBlank, In, Again
  <2>2. Called' /\ BlankLoop'
    BY <1>6, SkipBlankStep
  <2> QED
    BY <2>1, <2>2
    DEF WriteLoop, BackLoop, ReadLoop, CountLoop, CompareLoop, FindLoop, DigitsLoop,
        MemoryAsDocumented, ResultAsDocumented, Writers, Readers
<1>7. CASE SignAndPrefix
  <2>1. at' = "digits"
    BY <1>7 DEF SignAndPrefix
  <2>2. Called' /\ DigitsLoop'
    BY <1>7, SignAndPrefixStep
  <2> QED
    BY <2>1, <2>2
    DEF WriteLoop, BackLoop, ReadLoop, CountLoop, CompareLoop, FindLoop, BlankLoop,
        MemoryAsDocumented, ResultAsDocumented
<1>8. CASE Digits
  <2>1. at' \in {"digits", "done"}
    BY <1>8 DEF Digits, Again, Return
  <2>2. Called' /\ DigitsLoop' /\ MemoryAsDocumented' /\ ResultAsDocumented'
    BY <1>8, DigitsStep
  <2> QED
    BY <2>1, <2>2
    DEF WriteLoop, BackLoop, ReadLoop, CountLoop, CompareLoop, FindLoop, BlankLoop
<1>9. memmove => (In("memmove") /\ CopyUp) \/ (at = "back" /\ memmove)
  BY DEF memmove
<1> HIDE DEF StringsInv
<1> QED
  BY <1>1, <1>2, <1>3, <1>4, <1>5, <1>6, <1>7, <1>8, <1>9 DEF StringsStep, strtol

LEMMA NextInv ==
  ASSUME StringsInv, [StringsNext]_stringVars
  PROVE  StringsInv'
<1>1. CASE StringsCall
  BY <1>1, CallInv, CallStrtolInv DEF StringsCall
<1>2. CASE StringsStep
  BY <1>2, StepInv
<1>3. CASE StringsForget
  <2>1. at' = "idle"
    BY <1>3 DEF StringsForget
  <2> QED
    BY <2>1
    DEF StringsInv, Called, WriteLoop, BackLoop, ReadLoop, CountLoop, CompareLoop, FindLoop,
        BlankLoop, DigitsLoop, MemoryAsDocumented, ResultAsDocumented
<1>4. CASE UNCHANGED stringVars
  BY <1>4
  DEF StringsInv, stringVars, Called, Registered, Progress, Passed, StrtolCalled, WriteLoop,
      BackLoop, ReadLoop, CountLoop, CompareLoop, FindLoop, BlankLoop, DigitsLoop,
      MemoryAsDocumented, ResultAsDocumented
<1> QED
  BY <1>1, <1>2, <1>3, <1>4 DEF StringsNext

THEOREM StringsInvHolds == StringsSpec => []StringsInv
<1>1. StringsInv /\ [StringsNext]_stringVars => StringsInv'
  BY NextInv
<1> QED
  BY <1>1, InitInv, PTL DEF StringsSpec

\* memmove, memcpy, memset, strcpy and strncpy of string.c leave in memory what
\* their comments promise and nothing else, wherever the areas lie that memmove
\* gets; the other functions leave memory alone.
THEOREM StringsMemoryAsDocumented == StringsSpec => []MemoryAsDocumented
<1>1. StringsInv => MemoryAsDocumented
  BY DEF StringsInv
<1> QED
  BY <1>1, StringsInvHolds, PTL

\* The functions of string.c return what their comments promise: the lengths, the
\* order, the place of a character, and the number that strtol reads from every
\* text in every base, but for "0X" in base 16, which its comment grants
\* (string.c:199) and where it stops at the X.
THEOREM StringsResultAsDocumented == StringsSpec => []ResultAsDocumented
<1>1. StringsInv => ResultAsDocumented
  BY DEF StringsInv
<1> QED
  BY <1>1, StringsInvHolds, PTL
=============================================================================
