--------------------------- MODULE StrbufferProofs --------------------------
(***************************************************************************)
(* Proofs about Strbuffer, for every SIZE_MAX, every first capacity and    *)
(* every set of texts.                                                     *)
(***************************************************************************)
EXTENDS Strbuffer, WellFoundedInduction, TLAPS

\* What a call that waits for room has asked for: more than there is and less
\* than SIZE_MAX, just the bytes it will write, and of its own block no more
\* than the text with its terminator.
Asked(b) ==
  /\ b.want \in 0 .. (SizeMax - 1)
  /\ b.op = "set" => b.want = Len(b.text)
  /\ b.op = "add" => b.want = len + Len(b.text)
  /\ b.op = "own" => b.at <= len /\ len < b.want /\ b.want - len <= len + 1 - b.at

Waiting ==
  pc \in {"grow", "realloc"} => Asked(call) /\ cap <= call.want /\ newCap \in 1 .. SizeMax

\* How far the loops have come: what they write they have read before, and a
\* pending space has a byte of its own to go to.
Loops ==
  /\ ~InLoop => r = 0 /\ w = 0 /\ ~flag
  /\ pc = "squash" => w <= r /\ (flag => w < r)
  /\ pc = "unescape" => w <= r

IInv == TypeOK /\ RoomForTerminator /\ Waiting /\ Loops

USE DEF MaxOf

\* Writing a terminator after n bytes of a block makes a block of bytes.
LEMMA TerminatedBlock ==
  ASSUME NEW c \in Nat, NEW n \in Nat, n < MaxOf(c, 1), NEW m,
         \A i \in 0 .. (n - 1) : m[i] \in Contents
  PROVE  /\ Terminated(m, n, c) \in [0 .. (MaxOf(c, 1) - 1) -> Contents]
         /\ Terminated(m, n, c)[n] = Nul
  BY DEF Terminated, Contents

\* A call with room leaves a terminated text in its block.
LEMMA WriteTerminates ==
  ASSUME IInv, NEW b \in Calls, Asked(b), NEW c \in 0 .. SizeMax,
         NEW m \in [0 .. (MaxOf(c, 1) - 1) -> Contents],
         len < MaxOf(c, 1), b.op # "reserve" => b.want < c,
         Write(m, b, c)
  PROVE  /\ mem' \in [0 .. (MaxOf(c, 1) - 1) -> Contents]
         /\ len' \in 0 .. SizeMax /\ len' < MaxOf(c, 1) /\ mem'[len'] = Nul
         /\ ok' \in BOOLEAN
<1>. DEFINE at == IF b.op = "set" THEN 0 ELSE len
            to == IF b.op = "reserve" THEN len ELSE b.want
            new == IF b.op = "reserve" THEN m ELSE Written(m, b, at, to - at)
<1>1. /\ mem' = Terminated(new, to, c) /\ len' = to /\ ok' = TRUE
  BY DEF Write
<1>2. /\ len \in Nat /\ b.text \in Seq(Bytes) /\ b.at \in Nat /\ b.want \in Nat
      /\ SizeMax \in Nat /\ Len(b.text) \in Nat
      /\ b.op \in {"reserve", "set", "add", "own"}
  BY StrbufferAssumption DEF IInv, TypeOK, Calls
<1>3. to \in 0 .. SizeMax /\ to < MaxOf(c, 1)
  BY <1>2 DEF Asked, IInv, TypeOK
<1>4. \A i \in 0 .. (to - 1) : new[i] \in Contents
  <2>1. CASE b.op = "reserve"
    BY <2>1, <1>3, <1>2
  <2>2. CASE b.op = "set"
    <3>1. \A j \in 1 .. Len(b.text) : b.text[j] \in Bytes
      BY <1>2
    <3>2. to = Len(b.text) /\ at = 0 /\ new = Written(m, b, 0, to)
      BY <2>2, <1>2 DEF Asked
    <3>. QED
      BY <3>1, <3>2, <2>2, <1>2, <1>3 DEF Written, Contents
  <2>3. CASE b.op = "add"
    <3>1. \A j \in 1 .. Len(b.text) : b.text[j] \in Bytes
      BY <1>2
    <3>2. to = len + Len(b.text) /\ at = len /\ new = Written(m, b, len, to - len)
      BY <2>3, <1>2 DEF Asked
    <3>. QED
      BY <3>1, <3>2, <2>3, <1>2, <1>3, SMTT(30) DEF Written, Contents
  <2>4. CASE b.op = "own"
    <3>1. /\ at = len /\ to = b.want /\ new = Written(m, b, len, to - len)
          /\ b.at <= len /\ len < to /\ to - len <= len + 1 - b.at
      BY <2>4, <1>2 DEF Asked
    <3>. QED
      BY <3>1, <2>4, <1>2, <1>3, SMTT(30) DEF Written
  <2>. QED
    BY <2>1, <2>2, <2>3, <2>4, <1>2
<1>. HIDE DEF new, to, at
<1>. QED
  BY <1>1, <1>3, <1>4, TerminatedBlock, <1>2

\* Asking for room: refused, written at once, or left waiting.
LEMMA RequestKeeps ==
  ASSUME IInv, NEW b \in Calls, NEW base \in {0, len}, NEW extra \in Nat, Request(b, base, extra),
         base + extra < SizeMax => Asked([b EXCEPT !.want = base + extra])
  PROVE  IInv'
<1>. DEFINE c == [b EXCEPT !.want = Plus(base, extra)]
<1>1. len \in 0 .. SizeMax /\ cap \in 0 .. SizeMax /\ SizeMax \in Nat /\ len < MaxOf(cap, 1)
      /\ FirstCap \in 1 .. SizeMax
  BY StrbufferAssumption DEF IInv, TypeOK, RoomForTerminator
<1>2. CASE /\ NoRoom /\ UNCHANGED <<pc, call, newCap>>
  BY <1>2 DEF IInv, TypeOK, RoomForTerminator, Waiting, Asked, Loops, InLoop, NoRoom, loops
<1>3. ASSUME extra <= SizeMax - base, Plus(base, extra) # SizeMax
      PROVE  /\ Plus(base, extra) = base + extra /\ base + extra < SizeMax
             /\ c = [b EXCEPT !.want = base + extra] /\ c \in Calls /\ Asked(c)
             /\ c.want = base + extra
  <2>1. Plus(base, extra) = base + extra /\ base + extra < SizeMax /\ base + extra \in Nat
    BY <1>1, <1>3 DEF Plus
  <2>2. c = [b EXCEPT !.want = base + extra]
    BY <2>1
  <2>3. c \in Calls /\ c.want = base + extra
    BY <2>1, <2>2 DEF Calls
  <2>. QED
    BY <2>1, <2>2, <2>3
<1>4. CASE /\ extra <= SizeMax - base /\ Plus(base, extra) # SizeMax
           /\ Plus(base, extra) + 1 <= cap
           /\ Write(mem, c, cap)
           /\ UNCHANGED <<kind, cap, failed, pc, call, newCap, loops>>
  <2>1. /\ mem' \in [0 .. (MaxOf(cap, 1) - 1) -> Contents]
        /\ len' \in 0 .. SizeMax /\ len' < MaxOf(cap, 1) /\ mem'[len'] = Nul
        /\ ok' \in BOOLEAN
    <3>1. mem \in [0 .. (MaxOf(cap, 1) - 1) -> Contents]
      BY DEF IInv, TypeOK
    <3>2. c \in Calls /\ Asked(c) /\ c.want < cap
      BY <1>4, <1>3, <1>1
    <3>. HIDE DEF c
    <3>. QED
      BY <3>1, <3>2, <1>4, <1>1, WriteTerminates
  <2>2. pc = "idle"
    BY DEF Request
  <2>. QED
    BY <2>1, <2>2, <1>4, <1>1 DEF IInv, TypeOK, RoomForTerminator, Waiting, Loops, InLoop, loops
<1>5. CASE /\ extra <= SizeMax - base /\ Plus(base, extra) # SizeMax
           /\ Plus(base, extra) + 1 > cap
           /\ pc' = "grow" /\ call' = c
           /\ newCap' = IF cap = 0 THEN FirstCap ELSE cap
           /\ UNCHANGED <<kind, mem, len, cap, failed, ok, loops>>
  <2>1. pc = "idle"
    BY DEF Request
  <2>2. Asked(c)' /\ cap' <= c.want /\ newCap' \in 1 .. SizeMax /\ c \in Calls
    BY <1>5, <1>3, <1>1 DEF Asked
  <2>3. Waiting'
    BY <2>2, <1>5 DEF Waiting, Asked
  <2>4. TypeOK'
    BY <2>2, <1>5 DEF IInv, TypeOK, loops
  <2>5. RoomForTerminator' /\ Loops'
    BY <2>1, <1>5 DEF IInv, RoomForTerminator, Loops, InLoop, loops
  <2>. QED
    BY <2>3, <2>4, <2>5 DEF IInv
<1>. QED
  BY <1>2, <1>4, <1>5 DEF Request

\* Cutting, resetting and moving the text down leave a terminated text.
LEMMA ShrinksTerminates ==
  ASSUME IInv, NEW m, NEW n \in 0 .. len, \A i \in 0 .. (n - 1) : m[i] \in Contents, Shrinks(m, n)
  PROVE  /\ mem' \in [0 .. (MaxOf(cap', 1) - 1) -> Contents] /\ cap' = cap
         /\ len' \in 0 .. SizeMax /\ len' = n /\ len' < MaxOf(cap', 1) /\ mem'[len'] = Nul
         /\ ok' \in BOOLEAN /\ failed' = failed /\ kind' = kind
<1>1. cap \in Nat /\ n \in Nat /\ n < MaxOf(cap, 1) /\ n \in 0 .. SizeMax
  BY StrbufferAssumption DEF IInv, TypeOK, RoomForTerminator
<1>. QED
  BY <1>1, TerminatedBlock DEF Shrinks

\* A call that shortens the text to its first n bytes keeps the invariant.
LEMMA BecomesKeeps ==
  ASSUME IInv, NEW m, NEW n \in 0 .. len, \A i \in 0 .. (n - 1) : m[i] \in Contents, Becomes(m, n)
  PROVE  IInv'
<1>1. Shrinks(m, n) /\ pc = "idle" /\ UNCHANGED <<pc, call, newCap, loops>>
  BY DEF Becomes
<1>2. /\ mem' \in [0 .. (MaxOf(cap', 1) - 1) -> Contents] /\ cap' = cap
      /\ len' \in 0 .. SizeMax /\ len' = n /\ len' < MaxOf(cap', 1) /\ mem'[len'] = Nul
      /\ ok' \in BOOLEAN /\ failed' = failed /\ kind' = kind
  BY <1>1, ShrinksTerminates
<1>. QED
  BY <1>1, <1>2 DEF IInv, TypeOK, RoomForTerminator, Waiting, Loops, InLoop, loops

\* The end of a loop.
LEMMA LoopEnds ==
  ASSUME IInv, InLoop, NEW n \in 0 .. len, Shrinks(mem, n), EndLoop
  PROVE  IInv'
<1>1. \A i \in 0 .. (n - 1) : mem[i] \in Contents
  BY DEF IInv, TypeOK, RoomForTerminator
<1>2. /\ mem' \in [0 .. (MaxOf(cap', 1) - 1) -> Contents] /\ cap' = cap
      /\ len' \in 0 .. SizeMax /\ len' = n /\ len' < MaxOf(cap', 1) /\ mem'[len'] = Nul
      /\ ok' \in BOOLEAN /\ failed' = failed /\ kind' = kind
  BY <1>1, ShrinksTerminates
<1>. QED
  BY <1>2 DEF IInv, TypeOK, RoomForTerminator, Waiting, Loops, InLoop, EndLoop

\* A turn that keeps a byte.
LEMMA KeepsKeeps ==
  ASSUME IInv, pc \in {"squash", "unescape"}, r < len, NEW at \in 0 .. r,
         NEW m \in [0 .. (MaxOf(cap, 1) - 1) -> Contents], m[len] = Nul, Keeps(m, at)
  PROVE  IInv'
<1>1. /\ len \in Nat /\ cap \in Nat /\ r \in 0 .. len /\ len < MaxOf(cap, 1)
      /\ mem' = [m EXCEPT ![at] = m[r]] /\ w' = at + 1 /\ r' = r + 1 /\ flag' = FALSE
      /\ UNCHANGED <<kind, len, cap, failed, ok, pc, call, newCap, held>>
  BY DEF IInv, TypeOK, RoomForTerminator, Keeps, Turn
<1>2. m[r] \in Contents /\ at \in 0 .. (MaxOf(cap, 1) - 1) /\ at # len
  BY <1>1
<1>3. mem' \in [0 .. (MaxOf(cap, 1) - 1) -> Contents] /\ mem'[len] = Nul
  BY <1>1, <1>2
<1>4. w' \in 0 .. len /\ r' \in 0 .. len /\ w' <= r'
  <2>1. at \in Nat /\ at <= r /\ r + 1 <= len /\ r \in Nat
    BY <1>1
  <2>. QED
    BY <1>1, <2>1
<1>5. TypeOK'
  BY <1>1, <1>3, <1>4 DEF IInv, TypeOK
<1>6. RoomForTerminator'
  BY <1>1, <1>3 DEF IInv, RoomForTerminator
<1>7. Waiting' /\ Loops'
  BY <1>1, <1>4 DEF Waiting, Loops, InLoop
<1>. QED
  BY <1>5, <1>6, <1>7 DEF IInv

\* Every step keeps the invariant.
LEMMA StepKeeps == IInv /\ [Next]_vars => IInv'
<1>. SUFFICES ASSUME IInv, [Next]_vars PROVE IInv'
  OBVIOUS
<1>. USE StrbufferAssumption
<1>1. /\ len \in Nat /\ cap \in Nat /\ SizeMax \in Nat /\ len < MaxOf(cap, 1) /\ len <= SizeMax
      /\ \A i \in 0 .. (MaxOf(cap, 1) - 1) : mem[i] \in Contents
  BY DEF IInv, TypeOK, RoomForTerminator
<1>2. ASSUME Reserve PROVE IInv'
  <2>1. PICK n \in 0 .. SizeMax : Request(New("reserve", <<>>, 0), 0, n)
    BY <1>2 DEF Reserve
  <2>2. New("reserve", <<>>, 0) \in Calls
    BY DEF New, Calls
  <2>3. 0 + n < SizeMax => Asked([New("reserve", <<>>, 0) EXCEPT !.want = 0 + n])
    BY DEF New, Asked
  <2>. QED
    BY <2>1, <2>2, <2>3, RequestKeeps
<1>3. ASSUME NEW t \in Texts, Set(t) PROVE IInv'
  <2>1. CASE t = <<>>
    BY <2>1, <1>1, <1>3, BecomesKeeps DEF Set
  <2>2. CASE t # <<>>
    <3>1. t \in Seq(Bytes) /\ Len(t) \in Nat /\ New("set", t, 0) \in Calls
      BY DEF New, Calls
    <3>2. 0 + Len(t) < SizeMax => Asked([New("set", t, 0) EXCEPT !.want = 0 + Len(t)])
      BY <3>1 DEF New, Asked
    <3>. QED
      BY <2>2, <1>3, <3>1, <3>2, RequestKeeps DEF Set
  <2>. QED
    BY <2>1, <2>2
<1>4. ASSUME NEW t \in Texts, Add(t) PROVE IInv'
  <2>1. CASE t = <<>> /\ IsBuffer
    BY <2>1, <1>1, <1>4, BecomesKeeps DEF Add
  <2>2. CASE ~(t = <<>> /\ IsBuffer)
    <3>1. t \in Seq(Bytes) /\ Len(t) \in Nat /\ New("add", t, 0) \in Calls
      BY DEF New, Calls
    <3>2. len + Len(t) < SizeMax => Asked([New("add", t, 0) EXCEPT !.want = len + Len(t)])
      BY <3>1, <1>1 DEF New, Asked
    <3>. QED
      BY <2>2, <1>4, <3>1, <3>2, RequestKeeps DEF Add
  <2>. QED
    BY <2>1, <2>2
<1>5. ASSUME NEW at \in 0 .. len, NEW n \in OwnLengths(at), AddOwn(at, n) PROVE IInv'
  <2>1. n \in Nat \ {0}
    BY <1>1 DEF OwnLengths
  <2>2. CASE n > len + 1 - at
    BY <2>2, <1>5 DEF AddOwn, IInv, TypeOK, RoomForTerminator, Waiting, Asked, Loops, InLoop, loops
  <2>3. CASE ~(n > len + 1 - at)
    <3>1. New("own", <<>>, at) \in Calls /\ Request(New("own", <<>>, at), len, n)
      BY <2>3, <1>1, <1>5 DEF New, Calls, AddOwn
    <3>2. len + n < SizeMax => Asked([New("own", <<>>, at) EXCEPT !.want = len + n])
      BY <2>1, <2>3, <1>1 DEF New, Asked
    <3>. QED
      BY <2>1, <3>1, <3>2, RequestKeeps
  <2>. QED
    BY <2>2, <2>3
<1>6. ASSUME AddInvalid PROVE IInv'
  BY <1>6 DEF AddInvalid, NoRoom, IInv, TypeOK, RoomForTerminator, Waiting, Loops, InLoop, loops
<1>7. ASSUME NEW n \in 0 .. (len + 1), Truncate(n) PROVE IInv'
  <2>1. (IF n < len THEN n ELSE len) \in 0 .. len
    BY <1>1
  <2>. QED
    BY <2>1, <1>1, <1>7, BecomesKeeps DEF Truncate
<1>8. ASSUME NEW n \in 0 .. (len + 1), Consume(n) PROVE IInv'
  <2>1. CASE n >= len
    BY <2>1, <1>1, <1>8, BecomesKeeps DEF Consume
  <2>2. CASE n < len
    <3>1. len - n \in 0 .. len /\ \A i \in 0 .. (len - n - 1) : Moved(n)[i] \in Contents
      BY <2>2, <1>1 DEF Moved
    <3>. QED
      BY <2>2, <3>1, <1>1, <1>8, BecomesKeeps DEF Consume
  <2>. QED
    BY <2>1, <2>2, <1>1
<1>9. ASSUME NEW name \in {"trim", "trim_right", "squash", "unescape"}, Loop(name) PROVE IInv'
  <2>1. Text \in Seq(Contents)
    BY <1>1 DEF Text
  <2>2. /\ pc = "idle" /\ pc' = name /\ r' = 0 /\ w' \in {0, len} /\ held' = Text
        /\ pc' \in {"squash", "unescape"} => w' = 0
        /\ UNCHANGED <<kind, mem, len, cap, failed, ok, call, newCap>>
    BY <1>9 DEF Loop
  <2>3. flag' \in BOOLEAN /\ ~flag'
    BY <1>9 DEF Loop
  <2>4. TypeOK'
    <3>1. r' \in 0 .. len' /\ w' \in 0 .. len'
      BY <2>2, <1>1
    <3>. QED
      BY <2>1, <2>2, <2>3, <3>1 DEF IInv, TypeOK
  <2>5. RoomForTerminator' /\ Waiting' /\ Loops'
    BY <2>2, <2>3 DEF IInv, RoomForTerminator, Waiting, Loops, InLoop
  <2>. QED
    BY <2>4, <2>5 DEF IInv
<1>10. ASSUME TrimStep PROVE IInv'
  <2>1. CASE r < len /\ r' = r + 1 /\ Turn /\ UNCHANGED <<mem, w, flag>>
    BY <2>1, <1>1, <1>10 DEF TrimStep, Turn, IInv, TypeOK, RoomForTerminator, Waiting, Loops, InLoop
  <2>2. CASE Shrinks(Moved(r), len - r) /\ flag' = TRUE /\ r' = 0 /\ w' = len - r
             /\ UNCHANGED <<pc, call, newCap, held>>
    <3>1. r \in 0 .. len /\ pc = "trim"
      BY <1>10 DEF IInv, TypeOK, TrimStep
    <3>2. len - r \in 0 .. len /\ \A i \in 0 .. (len - r - 1) : Moved(r)[i] \in Contents
      BY <3>1, <1>1 DEF Moved
    <3>3. /\ mem' \in [0 .. (MaxOf(cap', 1) - 1) -> Contents] /\ cap' = cap
          /\ len' \in 0 .. SizeMax /\ len' = len - r /\ len' < MaxOf(cap', 1) /\ mem'[len'] = Nul
          /\ ok' \in BOOLEAN /\ failed' = failed /\ kind' = kind
      BY <2>2, <3>2, ShrinksTerminates
    <3>. QED
      BY <2>2, <3>1, <3>2, <3>3 DEF IInv, TypeOK, RoomForTerminator, Waiting, Loops, InLoop
  <2>. QED
    BY <2>1, <2>2, <1>10 DEF TrimStep
<1>11. ASSUME TrimRightStep PROVE IInv'
  <2>1. CASE w > 0 /\ w' = w - 1 /\ Turn /\ UNCHANGED <<mem, r, flag>>
    BY <2>1, <1>1, <1>11 DEF TrimRightStep, Turn, IInv, TypeOK, RoomForTerminator, Waiting, Loops, InLoop
  <2>2. CASE Shrinks(mem, w) /\ EndLoop
    <3>1. InLoop /\ w \in 0 .. len
      BY <1>11 DEF TrimRightStep, InLoop, IInv, TypeOK
    <3>. QED
      BY <2>2, <3>1, LoopEnds
  <2>. QED
    BY <2>1, <2>2, <1>11 DEF TrimRightStep
<1>12. ASSUME SquashStep PROVE IInv'
  <2>0. pc = "squash" /\ r \in 0 .. len /\ w \in 0 .. len /\ w <= r /\ (flag => w < r) /\ InLoop
    BY <1>12 DEF SquashStep, IInv, TypeOK, Loops, InLoop
  <2>1. CASE r < len /\ flag' = (w # 0) /\ r' = r + 1 /\ Turn /\ UNCHANGED <<mem, w>>
    BY <2>0, <2>1, <1>1 DEF Turn, IInv, TypeOK, RoomForTerminator, Waiting, Loops, InLoop
  <2>2. CASE r < len /\ flag /\ Keeps([mem EXCEPT ![w] = Blank], w + 1)
    <3>1. [mem EXCEPT ![w] = Blank] \in [0 .. (MaxOf(cap, 1) - 1) -> Contents]
          /\ [mem EXCEPT ![w] = Blank][len] = Nul
      BY <2>0, <2>2, <1>1 DEF IInv, TypeOK, RoomForTerminator, Contents
    <3>2. w + 1 \in 0 .. r
      BY <2>0, <2>2
    <3>. QED
      BY <3>1, <3>2, <2>0, <2>2, KeepsKeeps
  <2>3. CASE r < len /\ Keeps(mem, w)
    <3>1. w \in 0 .. r /\ mem \in [0 .. (MaxOf(cap, 1) - 1) -> Contents] /\ mem[len] = Nul
      BY <2>0 DEF IInv, TypeOK, RoomForTerminator
    <3>. QED
      BY <3>1, <2>0, <2>3, KeepsKeeps
  <2>4. CASE Shrinks(mem, w) /\ EndLoop
    BY <2>0, <2>4, LoopEnds
  <2>. QED
    BY <2>1, <2>2, <2>3, <2>4, <1>12 DEF SquashStep
<1>13. ASSUME UnescapeStep PROVE IInv'
  <2>0. pc = "unescape" /\ r \in 0 .. len /\ w \in 0 .. len /\ w <= r /\ InLoop
    BY <1>13 DEF UnescapeStep, IInv, TypeOK, Loops, InLoop
  <2>1. CASE r < len /\ flag' = TRUE /\ r' = r + 1 /\ Turn /\ UNCHANGED <<mem, w>>
    BY <2>0, <2>1, <1>1 DEF Turn, IInv, TypeOK, RoomForTerminator, Waiting, Loops, InLoop
  <2>2. CASE r < len /\ Keeps(mem, w)
    <3>1. w \in 0 .. r /\ mem \in [0 .. (MaxOf(cap, 1) - 1) -> Contents] /\ mem[len] = Nul
      BY <2>0 DEF IInv, TypeOK, RoomForTerminator
    <3>. QED
      BY <3>1, <2>0, <2>2, KeepsKeeps
  <2>3. CASE Shrinks(mem, w) /\ EndLoop
    BY <2>0, <2>3, LoopEnds
  <2>. QED
    BY <2>1, <2>2, <2>3, <1>13 DEF UnescapeStep
<1>14. ASSUME Steal PROVE IInv'
  <2>1. Empty \in [0 .. 0 -> Contents] /\ Empty[0] = Nul
    BY DEF Empty, Contents
  <2>2. /\ mem' = Empty /\ len' = 0 /\ cap' = 0 /\ pc = "idle"
        /\ UNCHANGED <<kind, pc, call, newCap, r, w, flag, held>>
    BY <1>14 DEF Steal, loops
  <2>3. ok' \in BOOLEAN /\ failed' \in BOOLEAN
    BY <1>14 DEF Steal
  <2>4. r = 0 /\ w = 0 /\ ~flag
    BY <2>2 DEF IInv, Loops, InLoop
  <2>5. TypeOK'
    BY <2>1, <2>2, <2>3, <2>4 DEF IInv, TypeOK
  <2>6. RoomForTerminator' /\ Waiting' /\ Loops'
    BY <2>1, <2>2, <2>4 DEF RoomForTerminator, Waiting, Loops, InLoop
  <2>. QED
    BY <2>5, <2>6 DEF IInv
<1>15. ASSUME Grow PROVE IInv'
  <2>1. /\ pc = "grow" /\ Asked(call) /\ call.want \in 0 .. (SizeMax - 1) /\ cap <= call.want
        /\ newCap \in 1 .. SizeMax
    BY <1>15 DEF Grow, IInv, Waiting, Asked
  <2>. DEFINE grown == Plus(newCap, newCap \div 2)
  <2>2. newCap \div 2 \in Nat /\ newCap \div 2 <= newCap
    BY <2>1
  <2>3. grown \in 0 .. SizeMax
    BY <2>1, <2>2 DEF Plus
  <2>. HIDE DEF grown
  <2>4. /\ newCap' \in 1 .. SizeMax /\ pc' \in {"grow", "realloc"}
        /\ pc' = "realloc" => call.want < newCap'
        /\ UNCHANGED <<kind, mem, len, cap, failed, ok, call, loops>>
    BY <2>1, <2>3, <1>15 DEF Grow, grown
  <2>. QED
    BY <2>1, <2>4, <1>1 DEF IInv, TypeOK, RoomForTerminator, Waiting, Asked, Loops, InLoop, loops
<1>16. ASSUME Realloc PROVE IInv'
  <2>. DEFINE moved == [i \in 0 .. (newCap - 1) |-> IF i < cap THEN mem[i] ELSE Junk]
              m == [moved EXCEPT ![len] = Nul]
  <2>1. /\ pc = "realloc" /\ call \in Calls /\ Asked(call) /\ newCap \in 0 .. SizeMax
        /\ call.want < newCap /\ cap < newCap /\ len < newCap /\ newCap > 0
    BY <1>1, <1>16 DEF Realloc, IInv, TypeOK, RoomForTerminator, Waiting, Asked
  <2>2. m \in [0 .. (MaxOf(newCap, 1) - 1) -> Contents]
    BY <2>1, <1>1 DEF Contents
  <2>3. Write(m, call, newCap) /\ cap' = newCap /\ Idle /\ UNCHANGED <<kind, failed, loops>>
    BY <1>16 DEF Realloc
  <2>. HIDE DEF m
  <2>4. /\ mem' \in [0 .. (MaxOf(newCap, 1) - 1) -> Contents]
        /\ len' \in 0 .. SizeMax /\ len' < MaxOf(newCap, 1) /\ mem'[len'] = Nul
        /\ ok' \in BOOLEAN
    BY <2>1, <2>2, <2>3, WriteTerminates
  <2>5. NoCall \in Calls
    BY DEF NoCall, Calls
  <2>. QED
    BY <2>1, <2>3, <2>4, <2>5 DEF Idle, IInv, TypeOK, RoomForTerminator, Waiting, Loops, InLoop, loops
<1>17. ASSUME ReallocFails PROVE IInv'
  <2>1. NoCall \in Calls
    BY DEF NoCall, Calls
  <2>2. /\ pc = "realloc" /\ pc' = "idle" /\ call' = NoCall /\ newCap' = 0
        /\ UNCHANGED <<kind, mem, len, cap, r, w, flag, held>>
    BY <1>17 DEF ReallocFails, NoRoom, Idle, loops
  <2>3. failed' \in BOOLEAN /\ ok' \in BOOLEAN
    BY <1>17 DEF ReallocFails, NoRoom
  <2>4. TypeOK'
    BY <2>1, <2>2, <2>3 DEF IInv, TypeOK
  <2>5. RoomForTerminator' /\ Waiting' /\ Loops'
    BY <2>2 DEF IInv, RoomForTerminator, Waiting, Loops, InLoop
  <2>. QED
    BY <2>4, <2>5 DEF IInv
<1>18. ASSUME UNCHANGED vars PROVE IInv'
  BY <1>18 DEF vars, loops, IInv, TypeOK, RoomForTerminator, Waiting, Asked, Loops, InLoop
<1>. QED
  BY <1>2, <1>3, <1>4, <1>5, <1>6, <1>7, <1>8, <1>9, <1>10, <1>11, <1>12, <1>13, <1>14, <1>15,
     <1>16, <1>17, <1>18 DEF Next

\* A buffer not yet made has the invariant.
LEMMA StartsRight == Init => IInv
<1>1. Empty \in [0 .. 0 -> Contents] /\ Empty[0] = Nul
  BY DEF Empty, Contents
<1>2. NoCall \in Calls
  BY DEF NoCall, Calls
<1>. SUFFICES ASSUME Init PROVE IInv
  OBVIOUS
<1>3. /\ kind \in {"strbuffer", "string"} /\ mem = Empty /\ len = 0 /\ cap \in {0, 1}
      /\ failed = FALSE /\ ok = TRUE /\ pc = "idle" /\ call = NoCall /\ newCap = 0
      /\ r = 0 /\ w = 0 /\ flag = FALSE /\ held = <<>>
  BY DEF Init
<1>4. TypeOK
  BY <1>1, <1>2, <1>3, StrbufferAssumption DEF TypeOK
<1>5. RoomForTerminator /\ Waiting /\ Loops
  BY <1>1, <1>3 DEF RoomForTerminator, Waiting, Loops, InLoop
<1>. QED
  BY <1>4, <1>5 DEF IInv

\* Every state has the invariant.
LEMMA Inductive == Spec => []IInv
  BY StartsRight, StepKeeps, PTL DEF Spec

\* The buffer and the call it is busy with always have their types: a block of
\* `cap` bytes, and loops that stay within the text.
THEOREM TypeCorrect == Spec => []TypeOK
<1>1. IInv => TypeOK
  BY DEF IInv
<1>. QED
  BY <1>1, Inductive, PTL

\* For every SIZE_MAX and every first capacity, however the calls fall and
\* wherever memory fails, the text and its terminator fit the block, and the
\* memory asked for is enough for what will be written (strbuffer_reserve,
\* strbuffer_make_room, hn_str_append).
THEOREM AlwaysRoom == Spec => []RoomForTerminator
<1>1. IInv => RoomForTerminator
  BY DEF IInv
<1>. QED
  BY <1>1, Inductive, PTL

-----------------------------------------------------------------------------
(* Induction and recursion over a range of numbers *)

\* A set with 0 and with the successor of each of its elements has all.
LEMMA Induction ==
  ASSUME NEW N \in Nat, NEW S, 0 \in S, \A k \in 1 .. N : k - 1 \in S => k \in S
  PROVE  0 .. N \subseteq S
<1> DEFINE T == (0 .. N) \ S
           R == { ss \in Nat \X Nat : ss[1] < ss[2] }
<1>. SUFFICES ASSUME T # {} PROVE FALSE
  OBVIOUS
<1>1. IsWellFoundedOn(R, Nat)
  BY NatLessThanWellFounded DEF OpToRel
<1>2. T \subseteq Nat
  OBVIOUS
<1>3. PICK x \in T : \A y \in T : ~(<<y, x>> \in R)
  <2> HIDE DEF T, R
  <2>. QED
    BY <1>1, <1>2, WFMin
<1>4. x \in 1 .. N /\ x - 1 \in 0 .. N
  OBVIOUS
<1>5. x - 1 \notin T
  <2>1. x \in Nat /\ x - 1 \in Nat /\ x - 1 < x
    BY <1>4
  <2>. QED
    BY <1>3, <2>1
<1>. QED
  BY <1>3, <1>4, <1>5

IsStep(step, N, V) == step \in [V \X (1 .. N) -> V]
IsRun(f, N, V, base, step) ==
  f \in [0 .. N -> V] /\ f[0] = base /\ \A k \in 1 .. N : f[k] = step[<<f[k - 1], k>>]

\* What is defined by recursion exists.
LEMMA Recursion ==
  ASSUME NEW N \in Nat, NEW V, NEW base \in V, NEW step, IsStep(step, N, V)
  PROVE  \E f : IsRun(f, N, V, base, step)
<1> DEFINE Upto(n, f) == /\ f \in [0 .. n -> V]
                         /\ f[0] = base /\ \A k \in 1 .. n : f[k] = step[<<f[k - 1], k>>]
           S == { n \in 0 .. N : \E f \in [0 .. n -> V] : Upto(n, f) }
<1>0. \A k \in 1 .. N, v \in V : step[<<v, k>>] \in V
  BY DEF IsStep
<1>1. 0 \in S
  <2> DEFINE f == [k \in 0 .. 0 |-> base]
  <2>1. f \in [0 .. 0 -> V] /\ Upto(0, f)
    OBVIOUS
  <2> HIDE DEF f, Upto
  <2>. QED
    BY <2>1
<1>2. ASSUME NEW n \in 1 .. N, n - 1 \in S
      PROVE  n \in S
  <2>1. PICK f \in [0 .. (n - 1) -> V] : Upto(n - 1, f)
    BY <1>2
  <2> DEFINE g == [k \in 0 .. n |-> IF k = n THEN step[<<f[n - 1], n>>] ELSE f[k]]
  <2>2. f[n - 1] \in V /\ step[<<f[n - 1], n>>] \in V
    BY <1>0, <2>1
  <2>3. g \in [0 .. n -> V]
    BY <2>1, <2>2
  <2>4. g[0] = base
    BY <2>1
  <2>5. ASSUME NEW k \in 1 .. n
        PROVE  g[k] = step[<<g[k - 1], k>>]
    <3>1. CASE k = n
      <4>1. n \in 0 .. n /\ n - 1 \in 0 .. n /\ n - 1 # n
        OBVIOUS
      <4>2. g[n] = step[<<f[n - 1], n>>] /\ g[n - 1] = f[n - 1]
        BY <4>1
      <4>. QED
        BY <3>1, <4>2
    <3>2. CASE k # n
      <4>1. k \in 1 .. (n - 1)
        BY <3>2
      <4>2. f[k] = step[<<f[k - 1], k>>]
        BY <2>1, <4>1
      <4>3. g[k] = f[k] /\ g[k - 1] = f[k - 1]
        BY <4>1
      <4>. QED
        BY <4>2, <4>3
    <3>. QED
      BY <3>1, <3>2
  <2>6. Upto(n, g)
    BY <2>3, <2>4, <2>5
  <2> HIDE DEF g, Upto
  <2>. QED
    BY <2>3, <2>6
<1>3. 0 .. N \subseteq S
  <2> HIDE DEF S
  <2>. QED
    BY <1>1, <1>2, Induction
<1>4. N \in S
  <2> HIDE DEF S
  <2>. QED
    BY <1>3
<1>. QED
  BY <1>4 DEF IsRun

-----------------------------------------------------------------------------
(* The text of a block *)

TextOf(m, n) == [i \in 1 .. n |-> m[i - 1]]

\* It is a sequence, known by its bytes.
LEMMA TextIsSequence ==
  ASSUME NEW S, NEW n \in Nat, NEW m, \A i \in 0 .. (n - 1) : m[i] \in S
  PROVE  /\ TextOf(m, n) \in Seq(S) /\ Len(TextOf(m, n)) = n
         /\ \A i \in 1 .. n : TextOf(m, n)[i] = m[i - 1]
<1>1. \A i \in 1 .. n : m[i - 1] \in S
  OBVIOUS
<1>. QED
  BY <1>1 DEF TextOf

LEMMA SameText ==
  ASSUME NEW S, NEW t \in Seq(S), NEW m, \A i \in 1 .. Len(t) : t[i] = m[i - 1]
  PROVE  TextOf(m, Len(t)) = t
<1>1. t = [i \in 1 .. Len(t) |-> t[i]]
  OBVIOUS
<1>. QED
  BY <1>1 DEF TextOf

\* A terminator after it does not change it.
LEMMA TerminatedText ==
  ASSUME NEW c \in Nat, NEW n \in Nat, n < MaxOf(c, 1), NEW m
  PROVE  TextOf(Terminated(m, n, c), n) = TextOf(m, n)
<1>1. \A i \in 1 .. n : Terminated(m, n, c)[i - 1] = m[i - 1]
  BY DEF Terminated
<1>. QED
  BY <1>1 DEF TextOf

\* The bytes of two sequences one after the other, and of a piece of one.
LEMMA Joined ==
  ASSUME NEW S, NEW s \in Seq(S), NEW t \in Seq(S)
  PROVE  /\ s \o t \in Seq(S) /\ Len(s \o t) = Len(s) + Len(t)
         /\ \A i \in 1 .. (Len(s) + Len(t)) : (s \o t)[i] = IF i <= Len(s) THEN s[i] ELSE t[i - Len(s)]
  OBVIOUS

LEMMA PieceOf ==
  ASSUME NEW S, NEW s \in Seq(S), NEW a \in Nat, NEW n \in Nat, a + n <= Len(s)
  PROVE  /\ SubSeq(s, a + 1, a + n) \in Seq(S) /\ Len(SubSeq(s, a + 1, a + n)) = n
         /\ \A i \in 1 .. n : SubSeq(s, a + 1, a + n)[i] = s[a + i]
<1>1. \A i \in 1 .. n : a + i \in 1 .. Len(s)
  OBVIOUS
<1>2. Len(SubSeq(s, a + 1, a + n)) = n
  OBVIOUS
<1>3. \A i \in 1 .. n : SubSeq(s, a + 1, a + n)[i] = s[a + i]
  OBVIOUS
<1>. QED
  BY <1>1, <1>2, <1>3

\* What is known besides of a call that waits for room.
Pending ==
  /\ kind = "string" => ~failed
  /\ pc \in {"grow", "realloc"} => ~failed /\ (call.op \in {"set", "add"} => call.text \in Texts)

\* What the text buffer sees of a state.
LEMMA TextOfBuffer ==
  ASSUME IInv
  PROVE  /\ Text = TextOf(mem, len) /\ Text \in Seq(Contents) /\ Len(Text) = len /\ len \in Nat
         /\ \A i \in 1 .. len : Text[i] = mem[i - 1]
<1>1. len \in Nat /\ \A i \in 0 .. (len - 1) : mem[i] \in Contents
  BY StrbufferAssumption DEF IInv, TypeOK, RoomForTerminator
<1>2. Text = TextOf(mem, len)
  BY DEF Text, TextOf
<1>. QED
  BY <1>1, <1>2, TextIsSequence

\* A call with room makes of the text what it was asked to.
LEMMA WritesText ==
  ASSUME IInv, NEW b \in Calls, Asked(b), NEW c \in 0 .. SizeMax, NEW m,
         \A i \in 0 .. (len - 1) : m[i] = mem[i], m[len] = Nul, DOMAIN m = 0 .. (MaxOf(c, 1) - 1),
         len < MaxOf(c, 1), b.op # "reserve" => b.want < c,
         Write(m, b, c)
  PROVE  Text' = CASE b.op = "reserve" -> Text
                   [] b.op = "set" -> b.text
                   [] b.op = "add" -> Text \o b.text
                   [] b.op = "own" -> Text \o SubSeq(Text \o <<Nul>>, b.at + 1, b.at + (b.want - len))
<1>. DEFINE at == IF b.op = "set" THEN 0 ELSE len
            to == IF b.op = "reserve" THEN len ELSE b.want
            new == IF b.op = "reserve" THEN m ELSE Written(m, b, at, to - at)
<1>1. mem' = Terminated(new, to, c) /\ len' = to
  BY DEF Write
<1>2. /\ len \in Nat /\ b.text \in Seq(Bytes) /\ b.at \in Nat /\ b.want \in Nat /\ c \in Nat
      /\ Len(b.text) \in Nat /\ b.op \in {"reserve", "set", "add", "own"}
  BY StrbufferAssumption DEF IInv, TypeOK, Calls
<1>3. to \in Nat /\ to < MaxOf(c, 1)
  BY <1>2
<1>4. Text' = TextOf(mem', len')
  BY DEF Text, TextOf
<1>5. Text' = TextOf(new, to)
  <2>. HIDE DEF new, to
  <2>. QED
    BY <1>1, <1>2, <1>3, <1>4, TerminatedText
<1>6. /\ Text = TextOf(mem, len) /\ Text \in Seq(Contents) /\ Len(Text) = len
      /\ \A i \in 1 .. len : Text[i] = mem[i - 1]
  BY TextOfBuffer
<1>7. Bytes \subseteq Contents /\ Nul \in Contents
  BY DEF Contents
<1>12. \A i \in 1 .. to : Written(m, b, at, to - at)[i - 1] =
         IF i <= at THEN m[i - 1]
         ELSE IF b.op = "own" THEN m[b.at + (i - 1) - at] ELSE b.text[i - at]
  <2>1. at \in Nat /\ to - at \in Int /\ at + (to - at) = to
    BY <1>2, <1>3
  <2>. HIDE DEF at, to
  <2>. SUFFICES ASSUME NEW i \in 1 .. to
                PROVE  Written(m, b, at, to - at)[i - 1] =
                         IF i <= at THEN m[i - 1]
                         ELSE IF b.op = "own" THEN m[b.at + (i - 1) - at] ELSE b.text[i - at]
    OBVIOUS
  <2>2. i - 1 \in DOMAIN m /\ ~(i - 1 >= at + (to - at)) /\ (i - 1 < at <=> i <= at)
        /\ i - 1 - at + 1 = i - at
    BY <1>2, <1>3, <2>1
  <2>. QED
    BY <2>2 DEF Written
<1>8. CASE b.op = "reserve"
  <2>1. TextOf(m, len) = Text
    BY <1>2, <1>6 DEF TextOf
  <2>. QED
    BY <1>5, <1>8, <2>1
<1>9. CASE b.op = "set"
  <2>1. to = Len(b.text) /\ new = Written(m, b, 0, to)
    BY <1>2, <1>9 DEF Asked
  <2>2. \A i \in 1 .. Len(b.text) : new[i - 1] = b.text[i]
    <3>1. new = Written(m, b, at, to - at) /\ at = 0 /\ b.op # "own"
      BY <1>9
    <3>. HIDE DEF new, at, to
    <3>2. \A i \in 1 .. to : ~(i <= at) /\ i - at = i
      BY <2>1, <3>1
    <3>. QED
      BY <1>12, <2>1, <3>1, <3>2
  <2>. HIDE DEF new, to
  <2>3. TextOf(new, to) = b.text
    BY <1>2, <2>1, <2>2, SameText
  <2>. QED
    BY <1>5, <1>9, <2>3
<1>10. CASE b.op = "add"
  <2>. DEFINE t == Text \o b.text
  <2>1. to = len + Len(b.text) /\ new = Written(m, b, len, to - len)
    BY <1>2, <1>10 DEF Asked
  <2>2. b.text \in Seq(Contents)
    BY <1>2, <1>7
  <2>3. /\ t \in Seq(Contents) /\ Len(t) = to
        /\ \A i \in 1 .. to : t[i] = IF i <= len THEN Text[i] ELSE b.text[i - len]
    <3>. HIDE DEF new, to
    <3>. QED
      <4>1. /\ t \in Seq(Contents) /\ Len(t) = Len(Text) + Len(b.text)
            /\ \A i \in 1 .. (Len(Text) + Len(b.text)) :
                 t[i] = IF i <= Len(Text) THEN Text[i] ELSE b.text[i - Len(Text)]
        BY <1>6, <2>2, Joined
      <4>. HIDE DEF t
      <4>. QED
        BY <1>6, <2>1, <4>1
  <2>4. \A i \in 1 .. to : new[i - 1] = IF i <= len THEN mem[i - 1] ELSE b.text[i - len]
    <3>1. new = Written(m, b, at, to - at) /\ at = len /\ b.op # "own"
      BY <1>10
    <3>. HIDE DEF new, at, to
    <3>2. \A i \in 1 .. to : i <= len => i - 1 \in 0 .. (len - 1)
      BY <1>2, <1>3
    <3>. QED
      BY <1>12, <3>1, <3>2
  <2>. HIDE DEF new, to, t
  <2>5. \A i \in 1 .. Len(t) : t[i] = new[i - 1]
    <3>1. \A i \in 1 .. to : i <= len => i \in 1 .. len
      BY <1>2, <1>3
    <3>. QED
      BY <1>6, <2>3, <2>4, <3>1
  <2>6. TextOf(new, to) = t
    BY <2>3, <2>5, SameText
  <2>. QED
    BY <1>5, <1>10, <2>6 DEF t
<1>11. CASE b.op = "own"
  <2>. DEFINE n == b.want - len
              whole == Text \o <<Nul>>
              piece == SubSeq(whole, b.at + 1, b.at + n)
              t == Text \o piece
  <2>1. to = len + n /\ new = Written(m, b, len, n) /\ n \in 1 .. (len + 1 - b.at) /\ b.at <= len
    BY <1>2, <1>11 DEF Asked
  <2>2. /\ whole \in Seq(Contents) /\ Len(whole) = len + 1
        /\ \A i \in 1 .. (len + 1) : whole[i] = m[i - 1]
    <3>1. <<Nul>> \in Seq(Contents) /\ Len(<<Nul>>) = 1 /\ <<Nul>>[1] = Nul
      BY <1>7
    <3>2. /\ whole \in Seq(Contents) /\ Len(whole) = len + 1
          /\ \A i \in 1 .. (len + 1) : whole[i] = IF i <= len THEN Text[i] ELSE <<Nul>>[i - len]
      BY <1>6, <3>1, Joined
    <3>. HIDE DEF whole
    <3>3. \A i \in 1 .. (len + 1) : IF i <= len THEN i \in 1 .. len /\ i - 1 \in 0 .. (len - 1)
                                   ELSE i - len = 1 /\ i - 1 = len
      BY <1>2
    <3>. QED
      BY <1>6, <3>1, <3>2, <3>3
  <2>. HIDE DEF n, whole
  <2>3. piece \in Seq(Contents) /\ Len(piece) = n /\ \A i \in 1 .. n : piece[i] = whole[b.at + i]
    <3>. DEFINE first == b.at
    <3>1. whole \in Seq(Contents) /\ first \in Nat /\ n \in Nat /\ first + n <= Len(whole)
      BY <1>2, <2>1, <2>2
    <3>. HIDE DEF first
    <3>2. /\ SubSeq(whole, first + 1, first + n) \in Seq(Contents)
          /\ Len(SubSeq(whole, first + 1, first + n)) = n
          /\ \A i \in 1 .. n : SubSeq(whole, first + 1, first + n)[i] = whole[first + i]
      BY <3>1, PieceOf
    <3>. QED
      BY <3>2 DEF first
  <2>. HIDE DEF piece
  <2>4. /\ t \in Seq(Contents) /\ Len(t) = to
        /\ \A i \in 1 .. to : t[i] = IF i <= len THEN Text[i] ELSE piece[i - len]
    <3>. HIDE DEF new, to
    <3>1. /\ t \in Seq(Contents) /\ Len(t) = Len(Text) + Len(piece)
          /\ \A i \in 1 .. (Len(Text) + Len(piece)) :
               t[i] = IF i <= Len(Text) THEN Text[i] ELSE piece[i - Len(Text)]
      <4>1. Text \in Seq(Contents) /\ piece \in Seq(Contents)
        BY <1>6, <2>3
      <4>. QED
        BY <4>1, Joined
    <3>. HIDE DEF t
    <3>. QED
      BY <1>6, <2>1, <2>3, <3>1
  <2>5. \A i \in 1 .. to : new[i - 1] = IF i <= len THEN m[i - 1] ELSE m[b.at + (i - 1) - len]
    <3>1. new = Written(m, b, at, to - at) /\ at = len
      BY <1>11
    <3>. HIDE DEF new, at, to
    <3>. QED
      BY <1>11, <1>12, <3>1
  <2>. HIDE DEF new, to, t
  <2>6. ASSUME NEW i \in 1 .. to
        PROVE  t[i] = new[i - 1]
    <3>1. CASE i <= len
      <4>1. i \in 1 .. len /\ i - 1 \in 0 .. (len - 1)
        BY <1>2, <3>1
      <4>. QED
        BY <1>6, <2>4, <2>5, <3>1, <4>1
    <3>2. CASE ~(i <= len)
      <4>1. i - len \in 1 .. n /\ b.at + (i - len) \in 1 .. (len + 1) /\ b.at + (i - len) - 1 = b.at + (i - 1) - len
        BY <1>2, <2>1, <3>2
      <4>2. piece[i - len] = whole[b.at + (i - len)]
        BY <2>3, <4>1
      <4>3. whole[b.at + (i - len)] = m[b.at + (i - 1) - len]
        <5>. DEFINE j == b.at + (i - len)
        <5>1. j \in 1 .. (len + 1) /\ j - 1 = b.at + (i - 1) - len
          BY <1>2, <1>3, <2>1, <4>1
        <5>. HIDE DEF j
        <5>2. whole[j] = m[j - 1]
          BY <2>2, <5>1
        <5>. QED
          BY <5>1, <5>2 DEF j
      <4>. QED
        BY <2>4, <2>5, <3>2, <4>2, <4>3
    <3>. QED
      BY <3>1, <3>2
  <2>7. TextOf(new, to) = t
    BY <2>4, <2>6, SameText
  <2>8. Text' = Text \o SubSeq(Text \o <<Nul>>, b.at + 1, b.at + (b.want - len))
    BY <1>5, <2>7 DEF t, piece, whole, n
  <2>. QED
    BY <1>11, <2>8
<1>. QED
  BY <1>2, <1>8, <1>9, <1>10, <1>11

-----------------------------------------------------------------------------
(* What the transformations make of a text *)

\* The least and the greatest of the bytes that are no spaces.
LEMMA FirstAndLast ==
  ASSUME NEW S \in SUBSET Nat, NEW a \in S
  PROVE  /\ (\A j \in S : a <= j) => AsText!First(S) = a
         /\ (\A j \in S : a >= j) => AsText!Last(S) = a
<1>1. ASSUME \A j \in S : a <= j
      PROVE  AsText!First(S) = a
  <2>. DEFINE f == CHOOSE i \in S : \A j \in S : i <= j
  <2>1. f \in S /\ \A j \in S : f <= j
    BY <1>1
  <2>2. f <= a /\ a <= f /\ f \in Nat /\ a \in Nat
    BY <1>1, <2>1
  <2>. HIDE DEF f
  <2>3. f = a
    BY <2>2
  <2>. QED
    BY <2>3 DEF AsText!First, f
<1>2. ASSUME \A j \in S : a >= j
      PROVE  AsText!Last(S) = a
  <2>. DEFINE f == CHOOSE i \in S : \A j \in S : i >= j
  <2>1. f \in S /\ \A j \in S : f >= j
    BY <1>2
  <2>2. f >= a /\ a >= f /\ f \in Nat /\ a \in Nat
    BY <1>2, <2>1
  <2>. HIDE DEF f
  <2>3. f = a
    BY <2>2
  <2>. QED
    BY <2>3 DEF AsText!Last, f
<1>. QED
  BY <1>1, <1>2

\* A text of spaces is trimmed to nothing, another to what is between its
\* first and its last byte that is no space.
LEMMA NothingTrimmed ==
  ASSUME NEW t, \A i \in 1 .. Len(t) : t[i] \in Spaces
  PROVE  AsText!Trimmed(t) = <<>> /\ AsText!TrimmedRight(t) = <<>>
<1>1. AsText!Solid(t) = {}
  BY DEF AsText!Solid
<1>. QED
  BY <1>1 DEF AsText!Trimmed, AsText!TrimmedRight

LEMMA SomethingTrimmed ==
  ASSUME NEW t, NEW a \in 1 .. Len(t), NEW b \in 1 .. Len(t), Len(t) \in Nat,
         t[a] \notin Spaces, t[b] \notin Spaces,
         \A i \in 1 .. (a - 1) : t[i] \in Spaces, \A i \in (b + 1) .. Len(t) : t[i] \in Spaces
  PROVE  AsText!Trimmed(t) = SubSeq(t, a, b) /\ AsText!TrimmedRight(t) = SubSeq(t, 1, b)
<1>. DEFINE S == AsText!Solid(t)
<1>1. S = { i \in 1 .. Len(t) : t[i] \notin Spaces }
  BY DEF AsText!Solid
<1>2. S \in SUBSET Nat /\ a \in S /\ b \in S
  BY <1>1
<1>3. ASSUME NEW j \in S
      PROVE  a <= j /\ b >= j
  <2>1. j \in 1 .. Len(t) /\ j \notin 1 .. (a - 1) /\ j \notin (b + 1) .. Len(t)
    BY <1>1
  <2>. QED
    BY <2>1
<1>. HIDE DEF S
<1>4. AsText!First(S) = a /\ AsText!Last(S) = b
  BY <1>2, <1>3, FirstAndLast
<1>5. S # {}
  BY <1>2
<1>. QED
  BY <1>4, <1>5 DEF AsText!Trimmed, AsText!TrimmedRight, S

\* A text put together of the pieces p from the back: f[i] is what comes of
\* the bytes from i on.
IsRest(f, p, n) ==
  /\ f \in [1 .. (n + 1) -> Seq(Contents)]
  /\ f[n + 1] = <<>>
  /\ \A i \in 1 .. n : f[i] = p[i] \o f[i + 1]

LEMMA RestExists ==
  ASSUME NEW n \in Nat, NEW p, \A i \in 1 .. n : p[i] \in Seq(Contents)
  PROVE  \E f : IsRest(f, p, n)
<1>. DEFINE V == Seq(Contents)
            step == [x \in V \X (1 .. n) |-> p[n + 1 - x[2]] \o x[1]]
<1>1. \A k \in 1 .. n : n + 1 - k \in 1 .. n
  OBVIOUS
<1>2. \A v \in V, k \in 1 .. n : p[n + 1 - k] \o v \in V
  <2>. SUFFICES ASSUME NEW v \in V, NEW k \in 1 .. n PROVE p[n + 1 - k] \o v \in V
    OBVIOUS
  <2>1. p[n + 1 - k] \in V
    BY <1>1
  <2>. QED
    BY <2>1
<1>3. \A v \in V, k \in 1 .. n : step[<<v, k>>] = p[n + 1 - k] \o v
  OBVIOUS
<1>4. <<>> \in V
  OBVIOUS
<1>. HIDE DEF V
<1>5. IsStep(step, n, V)
  BY <1>2 DEF IsStep
<1>. HIDE DEF step
<1>6. PICK g : IsRun(g, n, V, <<>>, step)
  BY <1>4, <1>5, Recursion
<1>7. g \in [0 .. n -> V] /\ g[0] = <<>> /\ \A k \in 1 .. n : g[k] = p[n + 1 - k] \o g[k - 1]
  <2>1. g \in [0 .. n -> V] /\ g[0] = <<>> /\ \A k \in 1 .. n : g[k] = step[<<g[k - 1], k>>]
    BY <1>6 DEF IsRun
  <2>2. ASSUME NEW k \in 1 .. n
        PROVE  g[k] = p[n + 1 - k] \o g[k - 1]
    <3>1. k - 1 \in 0 .. n
      OBVIOUS
    <3>2. g[k - 1] \in V
      BY <2>1, <3>1
    <3>. QED
      BY <1>3, <2>1, <3>2
  <2>. QED
    BY <2>1, <2>2
<1>. DEFINE f == [i \in 1 .. (n + 1) |-> g[n + 1 - i]]
<1>8. \A i \in 1 .. (n + 1) : n + 1 - i \in 0 .. n
  OBVIOUS
<1>9. f \in [1 .. (n + 1) -> V] /\ f[n + 1] = <<>>
  <2>1. n + 1 \in 1 .. (n + 1) /\ n + 1 - (n + 1) = 0
    OBVIOUS
  <2>2. \A i \in 1 .. (n + 1) : g[n + 1 - i] \in V
    BY <1>7, <1>8
  <2>. QED
    BY <1>7, <2>1, <2>2
<1>10. ASSUME NEW i \in 1 .. n
       PROVE  f[i] = p[i] \o f[i + 1]
  <2>1. /\ i \in 1 .. (n + 1) /\ i + 1 \in 1 .. (n + 1) /\ n + 1 - i \in 1 .. n
        /\ n + 1 - (n + 1 - i) = i /\ (n + 1 - i) - 1 = n + 1 - (i + 1)
    OBVIOUS
  <2>2. f[i] = g[n + 1 - i] /\ f[i + 1] = g[n + 1 - (i + 1)]
    BY <2>1
  <2>. HIDE DEF f
  <2>. QED
    BY <1>7, <2>1, <2>2
<1>11. IsRest(f, p, n)
  <2>. HIDE DEF f
  <2>. QED
    BY <1>9, <1>10 DEF IsRest, V
<1>. QED
  BY <1>11

\* There is one way only.
IsLike(g, p, n) == g[n + 1] = <<>> /\ \A i \in 1 .. n : g[i] = p[i] \o g[i + 1]

LEMMA RestUnique ==
  ASSUME NEW n \in Nat, NEW p, NEW f, IsRest(f, p, n), NEW g,
         IsLike(g, p, n)
  PROVE  g[1] = f[1]
<1>. DEFINE S == { k \in 0 .. n : g[n + 1 - k] = f[n + 1 - k] }
<1>1. 0 \in S
  BY DEF IsRest, IsLike
<1>2. ASSUME NEW k \in 1 .. n, k - 1 \in S
      PROVE  k \in S
  <2>1. n + 1 - k \in 1 .. n /\ (n + 1 - k) + 1 = n + 1 - (k - 1) /\ k \in 0 .. n
    OBVIOUS
  <2>2. g[n + 1 - (k - 1)] = f[n + 1 - (k - 1)]
    BY <1>2
  <2>3. /\ g[n + 1 - k] = p[n + 1 - k] \o g[n + 1 - (k - 1)]
        /\ f[n + 1 - k] = p[n + 1 - k] \o f[n + 1 - (k - 1)]
    BY <2>1 DEF IsRest, IsLike
  <2>. QED
    BY <2>1, <2>2, <2>3
<1>3. 0 .. n \subseteq S
  <2>. HIDE DEF S
  <2>. QED
    BY <1>1, <1>2, Induction
<1>4. n \in S /\ n + 1 - n = 1
  BY <1>3
<1>. QED
  BY <1>4

\* The pieces of a text whose spaces are squashed: a space stays when it is
\* the last before a word that is not the first.
SquashPiece(t, i) ==
  IF t[i] \notin Spaces THEN <<t[i]>>
  ELSE IF i < Len(t) /\ t[i + 1] \notin Spaces /\ \E j \in 1 .. (i - 1) : t[j] \notin Spaces
  THEN <<Blank>> ELSE <<>>
SquashPieces(t) == [i \in 1 .. Len(t) |-> SquashPiece(t, i)]

LEMMA SquashedIsRest ==
  ASSUME NEW t \in Seq(Contents)
  PROVE  \E f : IsRest(f, SquashPieces(t), Len(t)) /\ AsText!Squashed(t) = f[1]
<1>. DEFINE n == Len(t)
            solid == AsText!Solid(t)
            stays(i) == \/ i \in solid
                        \/ i + 1 \in solid /\ \E j \in solid : j < i
            piece(i) == IF i \in solid THEN <<t[i]>> ELSE IF stays(i) THEN <<Blank>> ELSE <<>>
            from == CHOOSE g : g = [i \in 1 .. (n + 1) |-> IF i > n THEN <<>> ELSE piece(i) \o g[i + 1]]
<1>1. n \in Nat /\ \A i \in 1 .. n : t[i] \in Contents
  OBVIOUS
<1>2. \A i : i \in solid <=> i \in 1 .. n /\ t[i] \notin Spaces
  BY DEF AsText!Solid
<1>3. AsText!Squashed(t) = from[1]
  BY DEF AsText!Squashed
<1>. HIDE DEF n, solid
<1>4. ASSUME NEW i \in 1 .. n
      PROVE  piece(i) = SquashPiece(t, i) /\ SquashPiece(t, i) \in Seq(Contents)
  <2>1. i \in solid <=> t[i] \notin Spaces
    BY <1>2
  <2>2. i + 1 \in solid <=> i < n /\ t[i + 1] \notin Spaces
    BY <1>1, <1>2
  <2>3. (\E j \in solid : j < i) <=> \E j \in 1 .. (i - 1) : t[j] \notin Spaces
    <3>1. ASSUME NEW j \in solid, j < i
          PROVE  j \in 1 .. (i - 1) /\ t[j] \notin Spaces
      BY <1>1, <1>2, <3>1
    <3>2. ASSUME NEW j \in 1 .. (i - 1), t[j] \notin Spaces
          PROVE  j \in solid /\ j < i
      BY <1>1, <1>2, <3>2
    <3>. QED
      BY <3>1, <3>2
  <2>4. piece(i) = SquashPiece(t, i)
    BY <2>1, <2>2, <2>3 DEF SquashPiece, n
  <2>5. t[i] \in Contents /\ Blank \in Contents
    BY <1>1, StrbufferAssumption DEF Contents
  <2>. QED
    BY <2>4, <2>5 DEF SquashPiece
<1>. HIDE DEF piece
<1>5. \A i \in 1 .. n : SquashPieces(t)[i] = piece(i) /\ SquashPieces(t)[i] \in Seq(Contents)
  BY <1>4 DEF SquashPieces, n
<1>6. PICK f : IsRest(f, SquashPieces(t), n)
  BY <1>1, <1>5, RestExists
<1>. DEFINE body(g) == [i \in 1 .. (n + 1) |-> IF i > n THEN <<>> ELSE piece(i) \o g[i + 1]]
<1>7. f = body(f)
  <2>1. \A i \in 1 .. (n + 1) : f[i] = IF i > n THEN <<>> ELSE piece(i) \o f[i + 1]
    <3>. SUFFICES ASSUME NEW i \in 1 .. (n + 1)
                  PROVE  f[i] = IF i > n THEN <<>> ELSE piece(i) \o f[i + 1]
      OBVIOUS
    <3>1. CASE i > n
      <4>1. i = n + 1
        BY <1>1, <3>1
      <4>. QED
        BY <1>6, <3>1, <4>1 DEF IsRest
    <3>2. CASE ~(i > n)
      <4>1. i \in 1 .. n
        BY <1>1, <3>2
      <4>. QED
        BY <1>5, <1>6, <3>2, <4>1 DEF IsRest
    <3>. QED
      BY <3>1, <3>2
  <2>2. f = [i \in 1 .. (n + 1) |-> f[i]]
    BY <1>6 DEF IsRest
  <2>. QED
    BY <2>1, <2>2
<1>8. from = body(from)
  BY <1>7
<1>. HIDE DEF from
<1>9. from[n + 1] = <<>> /\ \A i \in 1 .. n : from[i] = SquashPieces(t)[i] \o from[i + 1]
  <2>1. n + 1 \in 1 .. (n + 1) /\ n + 1 > n
    BY <1>1
  <2>2. \A i \in 1 .. n : i \in 1 .. (n + 1) /\ ~(i > n)
    BY <1>1
  <2>3. \A i \in 1 .. (n + 1) : from[i] = IF i > n THEN <<>> ELSE piece(i) \o from[i + 1]
    BY <1>8
  <2>. HIDE DEF body
  <2>. QED
    BY <1>5, <2>1, <2>2, <2>3
<1>10. from[1] = f[1]
  <2>1. IsLike(from, SquashPieces(t), n)
    BY <1>9 DEF IsLike
  <2>. QED
    BY <1>1, <1>6, <2>1, RestUnique
<1>. QED
  BY <1>3, <1>6, <1>10 DEF n

\* Which bytes are escapes before punctuation that are not escaped themselves.
IsEscapes(e, t) ==
  /\ ~e[0]
  /\ \A i \in 1 .. Len(t) :
       e[i] <=> i < Len(t) /\ t[i] = Escape /\ t[i + 1] \in Puncts /\ ~e[i - 1]
UnescapePieces(e, t) == [i \in 1 .. Len(t) |-> IF e[i] THEN <<>> ELSE <<t[i]>>]

LEMMA UnescapedIsRest ==
  ASSUME NEW t \in Seq(Contents)
  PROVE  \E e, f : /\ IsEscapes(e, t) /\ IsRest(f, UnescapePieces(e, t), Len(t))
                   /\ AsText!Unescaped(t) = f[1]
<1>. DEFINE n == Len(t)
            is(i) == i \in 1 .. (n - 1) /\ t[i] = Escape /\ t[i + 1] \in Puncts
            escapes == CHOOSE g : g = [i \in 0 .. n |->
                         i \in 1 .. (n - 1) /\ t[i] = Escape /\ t[i + 1] \in Puncts /\ ~g[i - 1]]
            from == CHOOSE g : g = [i \in 1 .. (n + 1) |->
                      IF i > n THEN <<>> ELSE (IF escapes[i] THEN <<>> ELSE <<t[i]>>) \o g[i + 1]]
<1>1. n \in Nat /\ \A i \in 1 .. n : t[i] \in Contents
  OBVIOUS
<1>2. AsText!Unescaped(t) = from[1]
  BY DEF AsText!Unescaped
<1>. HIDE DEF n
<1>3. \E g : g = [i \in 0 .. n |->
               i \in 1 .. (n - 1) /\ t[i] = Escape /\ t[i + 1] \in Puncts /\ ~g[i - 1]]
  <2>. DEFINE next(v, k) == IF is(k) /\ v = FALSE THEN TRUE ELSE FALSE
              step == [x \in BOOLEAN \X (1 .. n) |-> next(x[1], x[2])]
  <2>1. \A v \in BOOLEAN, k \in 1 .. n : next(v, k) \in BOOLEAN
    OBVIOUS
  <2>2. \A v \in BOOLEAN, k \in 1 .. n : step[<<v, k>>] = next(v, k)
    OBVIOUS
  <2>. HIDE DEF next
  <2>3. IsStep(step, n, BOOLEAN)
    BY <2>1 DEF IsStep
  <2>. HIDE DEF step
  <2>4. PICK g : IsRun(g, n, BOOLEAN, FALSE, step)
    BY <1>1, <2>3, Recursion
  <2>5. g \in [0 .. n -> BOOLEAN] /\ g[0] = FALSE
    BY <2>4 DEF IsRun
  <2>6. ASSUME NEW i \in 0 .. n
        PROVE  g[i] = (i \in 1 .. (n - 1) /\ t[i] = Escape /\ t[i + 1] \in Puncts /\ ~g[i - 1])
    <3>1. CASE i = 0
      BY <2>5, <3>1
    <3>2. CASE i # 0
      <4>1. i \in 1 .. n /\ i - 1 \in 0 .. n
        BY <1>1, <3>2
      <4>2. g[i - 1] \in BOOLEAN /\ g[i] \in BOOLEAN
        BY <2>5, <4>1
      <4>3. g[i] = next(g[i - 1], i)
        BY <2>2, <2>4, <4>1, <4>2 DEF IsRun
      <4>4. g[i] = IF is(i) /\ g[i - 1] = FALSE THEN TRUE ELSE FALSE
        BY <4>3 DEF next
      <4>. QED
        BY <4>2, <4>4
    <3>. QED
      BY <3>1, <3>2
  <2>7. g = [i \in 0 .. n |-> g[i]]
    BY <2>5
  <2>. QED
    BY <2>6, <2>7
<1>4. escapes = [i \in 0 .. n |->
        i \in 1 .. (n - 1) /\ t[i] = Escape /\ t[i + 1] \in Puncts /\ ~escapes[i - 1]]
  BY <1>3
<1>. HIDE DEF escapes
<1>5. IsEscapes(escapes, t)
  <2>1. ~escapes[0]
    <3>1. 0 \in 0 .. n /\ 0 \notin 1 .. (n - 1)
      BY <1>1
    <3>. QED
      BY <1>4, <3>1
  <2>2. ASSUME NEW i \in 1 .. n
        PROVE  escapes[i] <=> i < n /\ t[i] = Escape /\ t[i + 1] \in Puncts /\ ~escapes[i - 1]
    <3>1. i \in 0 .. n /\ (i \in 1 .. (n - 1) <=> i < n)
      BY <1>1
    <3>. QED
      BY <1>4, <3>1
  <2>. QED
    BY <2>1, <2>2 DEF IsEscapes, n
<1>. DEFINE piece(i) == IF escapes[i] THEN <<>> ELSE <<t[i]>>
<1>6. \A i \in 1 .. n : piece(i) \in Seq(Contents)
  BY <1>1
<1>. HIDE DEF piece
<1>7. \A i \in 1 .. n : UnescapePieces(escapes, t)[i] = piece(i) /\ UnescapePieces(escapes, t)[i] \in Seq(Contents)
  BY <1>6 DEF UnescapePieces, n, piece
<1>8. PICK f : IsRest(f, UnescapePieces(escapes, t), n)
  BY <1>1, <1>7, RestExists
<1>. DEFINE body(g) == [i \in 1 .. (n + 1) |-> IF i > n THEN <<>> ELSE piece(i) \o g[i + 1]]
<1>9. f = body(f)
  <2>1. \A i \in 1 .. (n + 1) : f[i] = IF i > n THEN <<>> ELSE piece(i) \o f[i + 1]
    <3>. SUFFICES ASSUME NEW i \in 1 .. (n + 1)
                  PROVE  f[i] = IF i > n THEN <<>> ELSE piece(i) \o f[i + 1]
      OBVIOUS
    <3>1. CASE i > n
      <4>1. i = n + 1
        BY <1>1, <3>1
      <4>. QED
        BY <1>8, <3>1, <4>1 DEF IsRest
    <3>2. CASE ~(i > n)
      <4>1. i \in 1 .. n
        BY <1>1, <3>2
      <4>. QED
        BY <1>7, <1>8, <3>2, <4>1 DEF IsRest
    <3>. QED
      BY <3>1, <3>2
  <2>2. f = [i \in 1 .. (n + 1) |-> f[i]]
    BY <1>8 DEF IsRest
  <2>. QED
    BY <2>1, <2>2
<1>10. from = body(from)
  BY <1>9 DEF piece
<1>. HIDE DEF from
<1>11. from[n + 1] = <<>> /\ \A i \in 1 .. n : from[i] = UnescapePieces(escapes, t)[i] \o from[i + 1]
  <2>1. n + 1 \in 1 .. (n + 1) /\ n + 1 > n
    BY <1>1
  <2>2. \A i \in 1 .. n : i \in 1 .. (n + 1) /\ ~(i > n)
    BY <1>1
  <2>3. \A i \in 1 .. (n + 1) : from[i] = IF i > n THEN <<>> ELSE piece(i) \o from[i + 1]
    BY <1>10
  <2>. HIDE DEF body
  <2>. QED
    BY <1>7, <2>1, <2>2, <2>3
<1>12. from[1] = f[1]
  <2>1. IsLike(from, UnescapePieces(escapes, t), n)
    BY <1>11 DEF IsLike
  <2>. QED
    BY <1>1, <1>8, <2>1, RestUnique
<1>. QED
  BY <1>2, <1>5, <1>8, <1>12 DEF n

-----------------------------------------------------------------------------
(* How far a loop over the text has come *)

LEMMA JoinedTwice ==
  ASSUME NEW S, NEW a \in Seq(S), NEW b \in Seq(S), NEW c \in Seq(S)
  PROVE  (a \o b) \o c = a \o (b \o c)
OBVIOUS

LEMMA Followed ==
  ASSUME NEW a \in Seq(Contents), NEW c \in Contents, NEW z \in Seq(Contents)
  PROVE  (a \o <<c>>) \o z = a \o (<<c>> \o z) /\ a \o <<c>> \in Seq(Contents)
<1>. DEFINE b == <<c>>
<1>1. b \in Seq(Contents)
  OBVIOUS
<1>. HIDE DEF b
<1>2. (a \o b) \o z = a \o (b \o z) /\ a \o b \in Seq(Contents)
  BY <1>1, JoinedTwice, Joined
<1>. QED
  BY <1>2 DEF b

LEMMA NothingJoined ==
  ASSUME NEW S, NEW a \in Seq(S)
  PROVE  <<>> \o a = a /\ a \o <<>> = a
OBVIOUS

\* A block holds a piece of a text.
LEMMA TextOfPiece ==
  ASSUME NEW S, NEW s \in Seq(S), NEW a \in Nat, NEW n \in Nat, a + n <= Len(s),
         NEW m, \A i \in 1 .. n : m[i - 1] = s[a + i]
  PROVE  TextOf(m, n) = SubSeq(s, a + 1, a + n)
<1>. DEFINE t == SubSeq(s, a + 1, a + n)
<1>1. t \in Seq(S) /\ Len(t) = n /\ \A i \in 1 .. n : t[i] = s[a + i]
  BY PieceOf
<1>. HIDE DEF t
<1>2. \A i \in 1 .. Len(t) : t[i] = m[i - 1]
  BY <1>1
<1>3. TextOf(m, Len(t)) = t
  BY <1>1, <1>2, SameText
<1>. QED
  BY <1>1, <1>3 DEF t

\* A block in which one more byte counts.
LEMMA OneMoreByte ==
  ASSUME NEW n \in Nat, NEW k, k = n + 1, NEW m, NEW m2,
         \A i \in 0 .. (n - 1) : m[i] \in Contents /\ m2[i] = m[i], m2[n] \in Contents
  PROVE  TextOf(m2, k) = TextOf(m, n) \o <<m2[n]>>
<1>. DEFINE s == TextOf(m, n)
            t == TextOf(m, n) \o <<m2[n]>>
            c == m2[n]
<1>1. s \in Seq(Contents) /\ Len(s) = n /\ \A i \in 1 .. n : s[i] = m[i - 1]
  BY TextIsSequence
<1>. HIDE DEF s, c
<1>2. <<c>> \in Seq(Contents) /\ Len(<<c>>) = 1 /\ <<c>>[1] = c
  BY DEF c
<1>3. /\ s \o <<c>> \in Seq(Contents) /\ Len(s \o <<c>>) = Len(s) + Len(<<c>>)
      /\ \A i \in 1 .. (Len(s) + Len(<<c>>)) :
           (s \o <<c>>)[i] = IF i <= Len(s) THEN s[i] ELSE <<c>>[i - Len(s)]
  BY <1>1, <1>2, Joined
<1>4. t = s \o <<c>>
  BY DEF s, c
<1>. HIDE DEF t
<1>5. t \in Seq(Contents) /\ Len(t) = n + 1 /\ \A i \in 1 .. (n + 1) : t[i] = IF i <= n THEN s[i] ELSE <<c>>[i - n]
  BY <1>1, <1>2, <1>3, <1>4
<1>6. ASSUME NEW i \in 1 .. Len(t)
      PROVE  t[i] = m2[i - 1]
  <2>1. i \in 1 .. (n + 1)
    BY <1>5
  <2>2. CASE i <= n
    <3>1. i \in 1 .. n /\ i - 1 \in 0 .. (n - 1)
      BY <2>1, <2>2
    <3>. QED
      BY <1>1, <1>5, <2>1, <2>2, <3>1
  <2>3. CASE ~(i <= n)
    <3>1. i - n = 1 /\ i - 1 = n
      BY <2>1, <2>3
    <3>. QED
      BY <1>2, <1>5, <2>1, <2>3, <3>1 DEF c
  <2>. QED
    BY <2>2, <2>3
<1>7. TextOf(m2, Len(t)) = t
  BY <1>5, <1>6, SameText
<1>. QED
  BY <1>5, <1>7 DEF t

\* strbuffer_trim_right, after strbuffer_trim has cut k bytes at the front:
\* the rest of the text is there, and only spaces come after w.
LeftFrom(k) ==
  /\ len = Len(held) - k
  /\ \A i \in 1 .. len : mem[i - 1] = held[k + i]
  /\ \A i \in (w + 1) .. len : mem[i - 1] \in Spaces
Led(k) ==
  /\ \A i \in 1 .. k : held[i] \in Spaces
  /\ k < Len(held) => held[k + 1] \notin Spaces
Trims ==
  /\ pc = "trim" /\ ~flag => held = Text /\ \A i \in 1 .. r : held[i] \in Spaces
  /\ pc = "trim" /\ flag => \E k \in 0 .. Len(held) : LeftFrom(k) /\ Led(k)
  /\ pc = "trim_right" => LeftFrom(0)

\* strbuffer_squash_spaces and strbuffer_unescape: the bytes from r on are
\* still the text's, and what is written is followed by what they will give.
Unread == len = Len(held) /\ \A i \in (r + 1) .. len : mem[i - 1] = held[i]
SpaceSeen ==
  /\ w # 0 <=> \E j \in 1 .. r : held[j] \notin Spaces
  /\ flag => r > 0 /\ w # 0 /\ held[r] \in Spaces
Squashing(f) ==
  /\ IsRest(f, SquashPieces(held), len)
  /\ AsText!Squashed(held) = f[1]
  /\ f[1] = TextOf(mem, w) \o f[IF flag THEN r ELSE r + 1]
Squashes == pc = "squash" => Unread /\ SpaceSeen /\ \E f : Squashing(f)

Unescaping(e, f) ==
  /\ IsEscapes(e, held) /\ IsRest(f, UnescapePieces(e, held), len)
  /\ AsText!Unescaped(held) = f[1]
  /\ f[1] = TextOf(mem, w) \o f[r + 1]
  /\ flag <=> e[r]
Unescapes == pc = "unescape" => Unread /\ \E e, f : Unescaping(e, f)

Runs == Trims /\ Squashes /\ Unescapes
RInv == IInv /\ Pending /\ Runs

\* A loop begins with the whole text.
LEMMA LoopBegins ==
  ASSUME IInv, NEW name \in {"trim", "trim_right", "squash", "unescape"}, Loop(name)
  PROVE  Runs'
<1>1. /\ pc' = name /\ r' = 0 /\ w' = (IF name = "trim_right" THEN len ELSE 0) /\ ~flag'
      /\ held' = Text /\ mem' = mem /\ len' = len
  BY DEF Loop
<1>2. /\ Text = TextOf(mem, len) /\ Text \in Seq(Contents) /\ Len(Text) = len /\ len \in Nat
      /\ \A i \in 1 .. len : Text[i] = mem[i - 1]
  BY TextOfBuffer
<1>3. Text' = Text
  BY <1>1 DEF Text
<1>4. TextOf(mem, 0) = <<>>
  BY DEF TextOf
<1>5. Trims'
  <2>1. ASSUME name = "trim"
        PROVE  Trims'
    BY <1>1, <1>3, <2>1 DEF Trims
  <2>2. ASSUME name = "trim_right"
        PROVE  Trims'
    <3>1. /\ len' = Len(held') - 0
          /\ \A i \in 1 .. len' : mem'[i - 1] = held'[0 + i]
          /\ \A i \in (w' + 1) .. len' : mem'[i - 1] \in Spaces
      BY <1>1, <1>2, <2>2
    <3>. QED
      BY <1>1, <2>2, <3>1 DEF Trims, LeftFrom
  <2>. QED
    BY <1>1, <2>1, <2>2 DEF Trims
<1>6. Unread'
  BY <1>1, <1>2 DEF Unread
<1>7. Squashes'
  <2>1. PICK f : IsRest(f, SquashPieces(Text), len) /\ AsText!Squashed(Text) = f[1]
    BY <1>2, SquashedIsRest
  <2>2. f[1] \in Seq(Contents)
    BY <1>2, <2>1 DEF IsRest
  <2>3. f[1] = <<>> \o f[0 + 1]
    BY <2>2, NothingJoined
  <2>4. ASSUME name = "squash"
        PROVE  SpaceSeen' /\ Squashing(f)'
    <3>1. w' = 0 /\ r' = 0 /\ ~flag' /\ mem' = mem /\ len' = len /\ held' = Text
      BY <1>1, <2>4
    <3>2. SpaceSeen'
      BY <3>1 DEF SpaceSeen
    <3>3. Squashing(f)'
      BY <1>4, <2>1, <2>3, <3>1 DEF Squashing
    <3>. QED
      BY <3>2, <3>3
  <2>. QED
    BY <1>1, <1>6, <2>4 DEF Squashes
<1>8. Unescapes'
  <2>1. PICK e, f : /\ IsEscapes(e, Text) /\ IsRest(f, UnescapePieces(e, Text), len)
                    /\ AsText!Unescaped(Text) = f[1]
    BY <1>2, UnescapedIsRest
  <2>2. f[1] \in Seq(Contents)
    BY <1>2, <2>1 DEF IsRest
  <2>3. f[1] = <<>> \o f[0 + 1]
    BY <2>2, NothingJoined
  <2>4. ~e[0]
    BY <2>1 DEF IsEscapes
  <2>5. ASSUME name = "unescape"
        PROVE  Unescaping(e, f)'
    BY <1>1, <1>4, <2>1, <2>3, <2>4, <2>5 DEF Unescaping
  <2>. QED
    BY <1>1, <1>6, <2>5 DEF Unescapes
<1>. QED
  BY <1>5, <1>7, <1>8 DEF Runs

\* A call that shortens the text, and the end of a loop.
LEMMA ShrinksText ==
  ASSUME IInv, NEW m, NEW n \in 0 .. len, Shrinks(m, n)
  PROVE  Text' = TextOf(m, n)
<1>1. mem' = Terminated(m, n, cap) /\ len' = n /\ cap \in Nat /\ n \in Nat /\ n < MaxOf(cap, 1)
  BY StrbufferAssumption DEF IInv, TypeOK, RoomForTerminator, Shrinks
<1>2. Text' = TextOf(mem', len')
  BY DEF Text, TextOf
<1>. QED
  BY <1>1, <1>2, TerminatedText

\* One turn of strbuffer_trim: another space, or the front is cut off.
LEMMA TrimTurn ==
  ASSUME RInv, TrimStep
  PROVE  Runs'
<1>1. /\ pc = "trim" /\ ~flag /\ pc' = "trim" /\ held' = held
      /\ r \in 0 .. len /\ len \in Nat /\ held = Text /\ \A i \in 1 .. r : held[i] \in Spaces
  BY DEF TrimStep, Turn, RInv, IInv, TypeOK, RoomForTerminator, Runs, Trims
<1>2. /\ Text \in Seq(Contents) /\ Len(Text) = len /\ \A i \in 1 .. len : Text[i] = mem[i - 1]
  BY TextOfBuffer DEF RInv
<1>3. CASE r < len /\ mem[r] \in Spaces /\ r' = r + 1 /\ Turn /\ UNCHANGED <<mem, w, flag>>
  <2>1. Text' = Text
    BY <1>3 DEF Text, Turn
  <2>2. r + 1 \in 1 .. len /\ held[r + 1] \in Spaces
    <3>1. r + 1 \in 1 .. len /\ (r + 1) - 1 = r
      BY <1>1, <1>3
    <3>2. Text[r + 1] = mem[r]
      BY <1>2, <3>1
    <3>. QED
      BY <1>1, <1>3, <3>1, <3>2
  <2>3. \A i \in 1 .. r' : held'[i] \in Spaces
    <3>1. \A i \in 1 .. (r + 1) : i \in 1 .. r \/ i = r + 1
      BY <1>1
    <3>. QED
      BY <1>1, <1>3, <2>2, <3>1
  <2>. QED
    BY <1>1, <1>3, <2>1, <2>3 DEF Runs, Trims, Squashes, Unescapes
<1>4. CASE /\ ~(r < len /\ mem[r] \in Spaces)
           /\ Shrinks(Moved(r), len - r)
           /\ flag' = TRUE /\ r' = 0 /\ w' = len - r
  <2>1. len - r \in Nat /\ len - r \in 0 .. len /\ len' = len - r /\ mem' = Terminated(Moved(r), len - r, cap)
        /\ len < MaxOf(cap, 1) /\ cap \in Nat
    BY <1>1, <1>4 DEF Shrinks, RInv, IInv, TypeOK, RoomForTerminator
  <2>2. ASSUME NEW i \in 1 .. (len - r)
        PROVE  mem'[i - 1] = held[r + i]
    <3>1. i - 1 \in 0 .. (MaxOf(cap, 1) - 1) /\ i - 1 < len - r /\ i - 1 \in 0 .. (len - r)
      BY <1>1, <2>1
    <3>2. mem'[i - 1] = Moved(r)[i - 1]
      BY <2>1, <3>1 DEF Terminated
    <3>3. Moved(r)[i - 1] = mem[i - 1 + r]
      BY <3>1 DEF Moved
    <3>4. r + i \in 1 .. len /\ (r + i) - 1 = i - 1 + r
      BY <1>1, <3>1
    <3>5. Text[r + i] = mem[(r + i) - 1]
      BY <1>2, <3>4
    <3>. QED
      BY <1>1, <3>2, <3>3, <3>4, <3>5
  <2>. PICK k \in 0 .. len : k = r
    BY <1>1
  <2>3. LeftFrom(k)'
    <3>1. /\ len' = Len(held') - k
          /\ \A i \in 1 .. len' : mem'[i - 1] = held'[k + i]
          /\ \A i \in (w' + 1) .. len' : mem'[i - 1] \in Spaces
      BY <1>1, <1>2, <1>4, <2>1, <2>2
    <3>. QED
      BY <3>1 DEF LeftFrom
  <2>4. Led(k)'
    <3>1. k < Len(held) => held[k + 1] \notin Spaces
      <4>. SUFFICES ASSUME k < Len(held) PROVE held[k + 1] \notin Spaces
        OBVIOUS
      <4>1. k + 1 \in 1 .. len /\ (k + 1) - 1 = r
        BY <1>1, <1>2
      <4>2. Text[k + 1] = mem[r]
        BY <1>2, <4>1
      <4>. QED
        BY <1>1, <1>2, <1>4, <4>2
    <3>. QED
      BY <1>1, <3>1 DEF Led
  <2>5. k \in 0 .. Len(held')
    BY <1>1, <1>2
  <2>. QED
    BY <1>1, <1>4, <2>3, <2>4, <2>5 DEF Runs, Trims, Squashes, Unescapes
<1>. QED
  BY <1>3, <1>4 DEF TrimStep

\* One turn of strbuffer_trim_right: another space at the end.
LEMMA TrimRightTurn ==
  ASSUME RInv, pc = "trim_right" \/ (pc = "trim" /\ flag),
         w > 0 /\ mem[w - 1] \in Spaces /\ w' = w - 1 /\ Turn /\ UNCHANGED <<mem, r, flag>>
  PROVE  Runs'
<1>1. w \in 1 .. len /\ len \in Nat /\ pc' = pc /\ held' = held /\ len' = len /\ mem' = mem /\ flag' = flag
  BY DEF Turn, RInv, IInv, TypeOK, RoomForTerminator
<1>2. ASSUME NEW k \in Nat, LeftFrom(k)
      PROVE  LeftFrom(k)'
  <2>1. ASSUME NEW i \in (w - 1 + 1) .. len
        PROVE  mem[i - 1] \in Spaces
    <3>1. i = w \/ i \in (w + 1) .. len
      BY <1>1
    <3>. QED
      BY <1>2, <3>1 DEF LeftFrom
  <2>. QED
    BY <1>1, <1>2, <2>1 DEF LeftFrom
<1>3. \A k : Led(k) => Led(k)'
  BY <1>1 DEF Led
<1>4. CASE pc = "trim_right"
  <2>1. LeftFrom(0)'
    BY <1>2, <1>4 DEF RInv, Runs, Trims
  <2>. QED
    BY <1>1, <1>4, <2>1 DEF Runs, Trims, Squashes, Unescapes
<1>5. CASE pc = "trim" /\ flag
  <2>1. PICK k \in 0 .. Len(held) : LeftFrom(k) /\ Led(k)
    BY <1>5 DEF RInv, Runs, Trims
  <2>2. LeftFrom(k)' /\ Led(k)' /\ k \in 0 .. Len(held')
    BY <1>1, <1>2, <1>3, <2>1
  <2>. QED
    BY <1>1, <1>5, <2>2 DEF Runs, Trims, Squashes, Unescapes
<1>. QED
  BY <1>4, <1>5

\* A turn that keeps a byte writes the next byte of the text after those that
\* it has written, and what it has not read is still there.
LEMMA KeepsBytes ==
  ASSUME IInv, Unread, r < len, NEW at \in 0 .. r, NEW m \in [0 .. (MaxOf(cap, 1) - 1) -> Contents],
         \A i \in r .. (len - 1) : m[i] = mem[i], Keeps(m, at)
  PROVE  /\ Unread' /\ mem[r] = held[r + 1] /\ held[r + 1] \in Contents
         /\ TextOf(mem', at + 1) = TextOf(m, at) \o <<held[r + 1]>>
<1>1. /\ len \in Nat /\ cap \in Nat /\ r \in 0 .. (len - 1) /\ len < MaxOf(cap, 1) /\ at \in Nat /\ at <= r
      /\ mem' = [m EXCEPT ![at] = m[r]] /\ r' = r + 1 /\ len' = len /\ held' = held
      /\ len = Len(held) /\ \A i \in (r + 1) .. len : mem[i - 1] = held[i]
  BY StrbufferAssumption DEF IInv, TypeOK, RoomForTerminator, Keeps, Turn, Unread
<1>2. mem[r] = held[r + 1] /\ m[r] = mem[r] /\ m[r] \in Contents
  <2>1. r + 1 \in (r + 1) .. len /\ (r + 1) - 1 = r /\ r \in r .. (len - 1) /\ r \in 0 .. (MaxOf(cap, 1) - 1)
    BY <1>1
  <2>. QED
    BY <1>1, <2>1
<1>3. /\ at \in 0 .. (MaxOf(cap, 1) - 1) /\ mem'[at] = m[r]
      /\ \A i \in 0 .. (MaxOf(cap, 1) - 1) : i # at => mem'[i] = m[i]
  BY <1>1
<1>4. ASSUME NEW i \in (r + 2) .. len
      PROVE  mem'[i - 1] = held[i]
  <2>1. /\ i - 1 \in 0 .. (MaxOf(cap, 1) - 1) /\ i - 1 # at /\ i - 1 \in r .. (len - 1) /\ i \in (r + 1) .. len
    BY <1>1
  <2>. QED
    BY <1>1, <1>3, <2>1
<1>5. Unread'
  <2>1. (r + 1) + 1 = r + 2
    BY <1>1
  <2>2. \A i \in (r' + 1) .. len' : mem'[i - 1] = held'[i]
    BY <1>1, <1>4, <2>1
  <2>. QED
    BY <1>1, <2>2 DEF Unread
<1>6. TextOf(mem', at + 1) = TextOf(m, at) \o <<mem'[at]>>
  <2>. DEFINE m2 == mem'
  <2>1. \A i \in 0 .. (at - 1) : i \in 0 .. (MaxOf(cap, 1) - 1) /\ i # at
    BY <1>1
  <2>2. \A i \in 0 .. (at - 1) : m[i] \in Contents /\ m2[i] = m[i]
    BY <1>3, <2>1
  <2>3. m2[at] \in Contents /\ at \in Nat
    BY <1>1, <1>2, <1>3
  <2>. HIDE DEF m2
  <2>4. TextOf(m2, at + 1) = TextOf(m, at) \o <<m2[at]>>
    BY <2>2, <2>3, OneMoreByte
  <2>. QED
    BY <2>4 DEF m2
<1>. QED
  BY <1>2, <1>3, <1>5, <1>6

\* One turn of strbuffer_squash_spaces over a space.
LEMMA SquashSpace ==
  ASSUME RInv, pc = "squash", r < len, mem[r] \in Spaces,
         flag' = (w # 0), r' = r + 1, Turn, UNCHANGED <<mem, w>>
  PROVE  Runs'
<1>1. /\ len \in Nat /\ r \in 0 .. (len - 1) /\ w \in Nat /\ flag \in BOOLEAN
      /\ pc' = pc /\ len' = len /\ held' = held /\ mem' = mem /\ w' = w /\ held \in Seq(Contents)
  BY StrbufferAssumption DEF RInv, IInv, TypeOK, Turn
<1>2. Unread /\ SpaceSeen
  BY DEF RInv, Runs, Squashes
<1>3. PICK f : Squashing(f)
  BY DEF RInv, Runs, Squashes
<1>4. len = Len(held) /\ held[r + 1] \in Spaces
  <2>1. r + 1 \in (r + 1) .. len /\ (r + 1) - 1 = r
    BY <1>1
  <2>. QED
    BY <1>2, <2>1 DEF Unread
<1>5. /\ \A i \in 1 .. (len + 1) : f[i] \in Seq(Contents)
      /\ \A i \in 1 .. len : f[i] = SquashPiece(held, i) \o f[i + 1]
  BY <1>3, <1>4 DEF Squashing, IsRest, SquashPieces
<1>6. f[1] = TextOf(mem, w) \o f[IF w # 0 THEN r + 1 ELSE r + 2]
  <2>1. CASE flag
    <3>1. r > 0 /\ w # 0 /\ held[r] \in Spaces
      BY <1>2, <2>1 DEF SpaceSeen
    <3>2. SquashPiece(held, r) = <<>>
      BY <1>4, <3>1 DEF SquashPiece
    <3>3. f[r] = <<>> \o f[r + 1] /\ f[r + 1] \in Seq(Contents)
      <4>1. r \in 1 .. len /\ r + 1 \in 1 .. (len + 1)
        BY <1>1, <3>1
      <4>. QED
        BY <1>5, <3>2, <4>1
    <3>4. f[r] = f[r + 1]
      BY <3>3, NothingJoined
    <3>. QED
      BY <1>3, <2>1, <3>1, <3>4 DEF Squashing
  <2>2. CASE ~flag /\ w # 0
    BY <1>3, <2>2 DEF Squashing
  <2>3. CASE ~flag /\ w = 0
    <3>1. (r + 1) - 1 = r /\ r + 1 \in 1 .. len /\ r + 2 \in 1 .. (len + 1) /\ (r + 1) + 1 = r + 2
      BY <1>1
    <3>2. SquashPiece(held, r + 1) = <<>>
      BY <1>2, <1>4, <2>3, <3>1 DEF SquashPiece, SpaceSeen
    <3>3. f[r + 1] = <<>> \o f[r + 2] /\ f[r + 2] \in Seq(Contents)
      BY <1>5, <3>1, <3>2
    <3>4. f[r + 1] = f[r + 2]
      BY <3>3, NothingJoined
    <3>. QED
      BY <1>3, <2>3, <3>4 DEF Squashing
  <2>. QED
    BY <2>1, <2>2, <2>3
<1>7. Squashing(f)'
  <2>1. (IF flag' THEN r' ELSE r' + 1) = (IF w # 0 THEN r + 1 ELSE r + 2)
    <3>1. flag' <=> w # 0
      OBVIOUS
    <3>2. r' = r + 1 /\ r' + 1 = r + 2
      BY <1>1
    <3>. QED
      BY <3>1, <3>2
  <2>. QED
    BY <1>1, <1>3, <1>6, <2>1 DEF Squashing
<1>8. Unread'
  <2>1. \A i \in (r + 1 + 1) .. len : i \in (r + 1) .. len
    BY <1>1
  <2>. QED
    BY <1>1, <1>2, <2>1 DEF Unread
<1>9. SpaceSeen'
  <2>1. \A j \in 1 .. (r + 1) : j \in 1 .. r \/ j = r + 1
    BY <1>1
  <2>2. \A j \in 1 .. r : j \in 1 .. (r + 1)
    BY <1>1
  <2>3. (\E j \in 1 .. (r + 1) : held[j] \notin Spaces) <=> \E j \in 1 .. r : held[j] \notin Spaces
    BY <1>4, <2>1, <2>2
  <2>4. w' # 0 <=> \E j \in 1 .. r' : held'[j] \notin Spaces
    BY <1>1, <1>2, <2>3 DEF SpaceSeen
  <2>5. flag' => r' > 0 /\ w' # 0 /\ held'[r'] \in Spaces
    <3>1. r + 1 > 0
      BY <1>1
    <3>2. flag' <=> w # 0
      OBVIOUS
    <3>. QED
      BY <1>1, <1>4, <3>1, <3>2
  <2>. QED
    BY <2>4, <2>5 DEF SpaceSeen
<1>10. pc' = "squash"
  BY <1>1
<1>. QED
  BY <1>7, <1>8, <1>9, <1>10 DEF Runs, Trims, Squashes, Unescapes

\* One turn over another byte: a space that is pending goes before it.
LEMMA SquashByte ==
  ASSUME RInv, pc = "squash", r < len, mem[r] \notin Spaces,
         IF flag THEN Keeps([mem EXCEPT ![w] = Blank], w + 1) ELSE Keeps(mem, w)
  PROVE  Runs'
<1>. DEFINE c == held[r + 1]
<1>1. /\ len \in Nat /\ r \in 0 .. (len - 1) /\ w \in Nat /\ flag \in BOOLEAN /\ w <= r /\ (flag => w < r)
      /\ cap \in Nat /\ len < MaxOf(cap, 1) /\ mem \in [0 .. (MaxOf(cap, 1) - 1) -> Contents]
      /\ held \in Seq(Contents)
  BY StrbufferAssumption DEF RInv, IInv, TypeOK, RoomForTerminator, Loops
<1>2. /\ pc' = pc /\ len' = len /\ held' = held /\ r' = r + 1 /\ flag' = FALSE
      /\ w' = IF flag THEN w + 2 ELSE w + 1
  BY <1>1 DEF Keeps, Turn
<1>3. Unread /\ SpaceSeen /\ IInv
  BY DEF RInv, Runs, Squashes
<1>4. PICK f : Squashing(f)
  BY DEF RInv, Runs, Squashes
<1>5. len = Len(held)
  BY <1>3 DEF Unread
<1>6. /\ \A i \in 1 .. (len + 1) : f[i] \in Seq(Contents)
      /\ \A i \in 1 .. len : f[i] = SquashPiece(held, i) \o f[i + 1]
  BY <1>4, <1>5 DEF Squashing, IsRest, SquashPieces
<1>7. c = mem[r]
  <2>1. r + 1 \in (r + 1) .. len /\ (r + 1) - 1 = r
    BY <1>1
  <2>. QED
    BY <1>3, <2>1 DEF Unread
<1>8. f[r + 1] = <<c>> \o f[r + 2] /\ f[r + 1] \in Seq(Contents) /\ f[r + 2] \in Seq(Contents)
  <2>1. r + 1 \in 1 .. len /\ r + 1 \in 1 .. (len + 1) /\ r + 2 \in 1 .. (len + 1) /\ (r + 1) + 1 = r + 2
    BY <1>1
  <2>2. SquashPiece(held, r + 1) = <<c>>
    BY <1>7 DEF SquashPiece
  <2>. QED
    BY <1>6, <2>1, <2>2
<1>9. TextOf(mem, w) \in Seq(Contents)
  <2>1. \A i \in 0 .. (w - 1) : mem[i] \in Contents
    BY <1>1
  <2>. QED
    BY <1>1, <2>1, TextIsSequence
<1>. HIDE DEF c
<1>10. ASSUME ~flag
       PROVE  Unread' /\ TextOf(mem', w') \o f[r + 2] = f[1]
  <2>1. /\ Unread' /\ held[r + 1] \in Contents /\ TextOf(mem', w + 1) = TextOf(mem, w) \o <<c>>
    <3>1. w \in 0 .. r /\ Keeps(mem, w) /\ \A i \in r .. (len - 1) : mem[i] = mem[i]
      BY <1>1, <1>10
    <3>. QED
      BY <1>1, <1>3, <3>1, KeepsBytes DEF c
  <2>2. <<c>> \in Seq(Contents)
    BY <2>1 DEF c
  <2>3. (TextOf(mem, w) \o <<c>>) \o f[r + 2] = TextOf(mem, w) \o (<<c>> \o f[r + 2])
    BY <1>8, <1>9, <2>1, Followed DEF c
  <2>4. f[1] = TextOf(mem, w) \o f[r + 1]
    BY <1>4, <1>10 DEF Squashing
  <2>. QED
    BY <1>2, <1>8, <1>10, <2>1, <2>3, <2>4
<1>11. ASSUME flag
       PROVE  Unread' /\ TextOf(mem', w') \o f[r + 2] = f[1]
  <2>. DEFINE m == [mem EXCEPT ![w] = Blank]
  <2>1. Blank \in Contents /\ w < r /\ w + 1 \in 0 .. r /\ w \in 0 .. (MaxOf(cap, 1) - 1)
    BY <1>1, <1>11, StrbufferAssumption DEF Contents
  <2>2. m \in [0 .. (MaxOf(cap, 1) - 1) -> Contents] /\ m[w] = Blank
    BY <1>1, <2>1
  <2>3. \A i \in r .. (len - 1) : m[i] = mem[i]
    <3>1. \A i \in r .. (len - 1) : i # w /\ i \in 0 .. (MaxOf(cap, 1) - 1)
      BY <1>1, <2>1
    <3>. QED
      BY <1>1, <3>1
  <2>4. \A i \in 0 .. (w - 1) : mem[i] \in Contents /\ m[i] = mem[i]
    <3>1. \A i \in 0 .. (w - 1) : i # w /\ i \in 0 .. (MaxOf(cap, 1) - 1)
      BY <1>1, <2>1
    <3>. QED
      BY <1>1, <3>1
  <2>5. Keeps(m, w + 1)
    BY <1>11
  <2>. HIDE DEF m
  <2>6. TextOf(m, w + 1) = TextOf(mem, w) \o <<Blank>>
    BY <1>1, <2>1, <2>2, <2>4, OneMoreByte
  <2>7. /\ Unread' /\ held[r + 1] \in Contents /\ TextOf(mem', w + 1 + 1) = TextOf(m, w + 1) \o <<c>>
    BY <1>1, <1>3, <2>1, <2>2, <2>3, <2>5, KeepsBytes DEF c
  <2>8. <<c>> \in Seq(Contents) /\ <<Blank>> \in Seq(Contents)
    BY <2>1, <2>7 DEF c
  <2>9. f[r] = <<Blank>> \o f[r + 1]
    <3>1. r > 0 /\ held[r] \in Spaces /\ w # 0
      BY <1>3, <1>11 DEF SpaceSeen
    <3>2. r \in 1 .. len /\ r < Len(held)
      BY <1>1, <1>5, <3>1
    <3>3. \E j \in 1 .. (r - 1) : held[j] \notin Spaces
      <4>1. PICK j \in 1 .. r : held[j] \notin Spaces
        BY <1>3, <3>1 DEF SpaceSeen
      <4>2. j # r /\ j \in 1 .. (r - 1)
        BY <1>1, <3>1, <4>1
      <4>. QED
        BY <4>1, <4>2
    <3>4. SquashPiece(held, r) = <<Blank>>
      BY <1>7, <3>1, <3>2, <3>3 DEF SquashPiece, c
    <3>. QED
      BY <1>6, <3>2, <3>4
  <2>10. f[1] = TextOf(mem, w) \o f[r]
    BY <1>4, <1>11 DEF Squashing
  <2>11. TextOf(m, w + 1) \in Seq(Contents)
    BY <1>8, <1>9, <2>1, <2>6, Followed
  <2>12. (TextOf(m, w + 1) \o <<c>>) \o f[r + 2] = TextOf(m, w + 1) \o (<<c>> \o f[r + 2])
    <3>. DEFINE s == TextOf(m, w + 1)
    <3>1. s \in Seq(Contents) /\ c \in Contents
      BY <2>7, <2>11 DEF c
    <3>. HIDE DEF s
    <3>2. (s \o <<c>>) \o f[r + 2] = s \o (<<c>> \o f[r + 2])
      BY <1>8, <3>1, Followed
    <3>. QED
      BY <3>2 DEF s
  <2>13. (TextOf(mem, w) \o <<Blank>>) \o f[r + 1] = TextOf(mem, w) \o (<<Blank>> \o f[r + 1])
    BY <1>8, <1>9, <2>1, Followed
  <2>14. w' = w + 1 + 1
    BY <1>1, <1>2, <1>11
  <2>. QED
    BY <1>8, <2>6, <2>7, <2>9, <2>10, <2>12, <2>13, <2>14
<1>12. Squashing(f)'
  <2>1. (IF flag' THEN r' ELSE r' + 1) = r + 2
    BY <1>1, <1>2
  <2>2. f[1] = TextOf(mem', w') \o f[r + 2]
    BY <1>1, <1>10, <1>11
  <2>. QED
    BY <1>2, <1>4, <2>1, <2>2 DEF Squashing
<1>13. SpaceSeen'
  <2>1. r + 1 \in 1 .. (r + 1) /\ held[r + 1] \notin Spaces
    BY <1>1, <1>7 DEF c
  <2>2. w' # 0
    BY <1>1, <1>2
  <2>. QED
    BY <1>2, <2>1, <2>2 DEF SpaceSeen
<1>14. Unread' /\ pc' = "squash"
  BY <1>1, <1>2, <1>10, <1>11
<1>. QED
  BY <1>12, <1>13, <1>14 DEF Runs, Trims, Squashes, Unescapes

\* One turn of strbuffer_unescape: an escape is stepped over, or a byte kept.
LEMMA UnescapeTurn ==
  ASSUME RInv, pc = "unescape", r < len,
         \/ ~flag /\ Escapes /\ flag' = TRUE /\ r' = r + 1 /\ Turn /\ UNCHANGED <<mem, w>>
         \/ (flag \/ ~Escapes) /\ Keeps(mem, w)
  PROVE  Runs'
<1>. DEFINE c == held[r + 1]
<1>1. /\ len \in Nat /\ r \in 0 .. (len - 1) /\ w \in Nat /\ flag \in BOOLEAN /\ w <= r
      /\ cap \in Nat /\ len < MaxOf(cap, 1) /\ mem \in [0 .. (MaxOf(cap, 1) - 1) -> Contents]
      /\ held \in Seq(Contents)
  BY StrbufferAssumption DEF RInv, IInv, TypeOK, RoomForTerminator, Loops
<1>2. pc' = pc /\ len' = len /\ held' = held /\ r' = r + 1
  BY DEF Keeps, Turn
<1>3. Unread /\ IInv
  BY DEF RInv, Runs, Unescapes
<1>4. PICK e, f : Unescaping(e, f)
  BY DEF RInv, Runs, Unescapes
<1>5. len = Len(held) /\ \A i \in (r + 1) .. len : mem[i - 1] = held[i]
  BY <1>3 DEF Unread
<1>6. /\ r + 1 \in 1 .. len /\ r + 1 \in 1 .. (len + 1) /\ r + 2 \in 1 .. (len + 1)
      /\ (r + 1) + 1 = r + 2 /\ (r + 1) - 1 = r
  BY <1>1
<1>7. f[r + 1] \in Seq(Contents) /\ f[r + 2] \in Seq(Contents)
  BY <1>4, <1>6 DEF Unescaping, IsRest
<1>8. f[r + 1] = (IF e[r + 1] THEN <<>> ELSE <<c>>) \o f[r + 2]
  <2>1. \A i \in 1 .. len : f[i] = UnescapePieces(e, held)[i] \o f[i + 1]
    BY <1>4 DEF Unescaping, IsRest
  <2>2. UnescapePieces(e, held)[r + 1] = IF e[r + 1] THEN <<>> ELSE <<c>>
    BY <1>5, <1>6 DEF UnescapePieces
  <2>. QED
    BY <1>6, <2>1, <2>2
<1>9. Escapes <=> r + 1 < Len(held) /\ held[r + 1] = Escape /\ held[r + 2] \in Puncts
  <2>1. mem[r] = held[r + 1]
    <3>1. r + 1 \in (r + 1) .. len
      BY <1>1
    <3>. QED
      BY <1>5, <1>6, <3>1
  <2>2. r + 1 < len => mem[r + 1] = held[r + 2]
    <3>1. r + 1 < len => r + 2 \in (r + 1) .. len /\ (r + 2) - 1 = r + 1
      BY <1>1
    <3>. QED
      BY <1>5, <3>1
  <2>. QED
    BY <1>5, <2>1, <2>2 DEF Escapes
<1>10. e[r + 1] <=> Escapes /\ ~flag
  <2>1. flag <=> e[r]
    BY <1>4 DEF Unescaping
  <2>2. e[r + 1] <=> r + 1 < Len(held) /\ held[r + 1] = Escape /\ held[(r + 1) + 1] \in Puncts /\ ~e[(r + 1) - 1]
    BY <1>4, <1>5, <1>6 DEF Unescaping, IsEscapes
  <2>. QED
    BY <1>6, <1>9, <2>1, <2>2
<1>11. f[1] = TextOf(mem, w) \o f[r + 1]
  BY <1>4 DEF Unescaping
<1>. HIDE DEF c
<1>12. CASE ~flag /\ Escapes /\ flag' = TRUE /\ r' = r + 1 /\ Turn /\ UNCHANGED <<mem, w>>
  <2>1. f[r + 1] = <<>> \o f[r + 2]
    BY <1>8, <1>10, <1>12
  <2>2. f[r + 1] = f[r + 2]
    BY <1>7, <2>1, NothingJoined
  <2>3. e[r + 1] /\ flag'
    BY <1>10, <1>12
  <2>4. Unescaping(e, f)'
    <3>1. f[1] = TextOf(mem', w') \o f[r' + 1]
      BY <1>2, <1>6, <1>11, <1>12, <2>2
    <3>2. flag' <=> e[r']
      BY <1>2, <2>3
    <3>. QED
      BY <1>2, <1>4, <3>1, <3>2 DEF Unescaping
  <2>5. Unread'
    <3>1. \A i \in (r + 1 + 1) .. len : i \in (r + 1) .. len
      BY <1>1
    <3>. QED
      BY <1>2, <1>5, <1>12, <3>1 DEF Unread
  <2>. QED
    BY <1>2, <2>4, <2>5 DEF Runs, Trims, Squashes, Unescapes
<1>13. CASE (flag \/ ~Escapes) /\ Keeps(mem, w)
  <2>1. /\ Unread' /\ held[r + 1] \in Contents /\ TextOf(mem', w + 1) = TextOf(mem, w) \o <<c>>
    <3>1. w \in 0 .. r /\ Keeps(mem, w) /\ \A i \in r .. (len - 1) : mem[i] = mem[i]
      BY <1>1, <1>13
    <3>. QED
      BY <1>1, <1>3, <3>1, KeepsBytes DEF c
  <2>2. c \in Contents
    BY <2>1 DEF c
  <2>3. TextOf(mem, w) \in Seq(Contents)
    <3>1. \A i \in 0 .. (w - 1) : mem[i] \in Contents
      BY <1>1
    <3>. QED
      BY <1>1, <3>1, TextIsSequence
  <2>4. (TextOf(mem, w) \o <<c>>) \o f[r + 2] = TextOf(mem, w) \o (<<c>> \o f[r + 2])
    BY <1>7, <2>2, <2>3, Followed
  <2>5. w' = w + 1 /\ ~flag'
    BY <1>13 DEF Keeps
  <2>6. ~e[r + 1]
    BY <1>10, <1>13
  <2>7. Unescaping(e, f)'
    <3>1. f[r + 1] = <<c>> \o f[r + 2]
      BY <1>8, <2>6
    <3>2. f[1] = TextOf(mem', w') \o f[r' + 1]
      BY <1>2, <1>6, <1>11, <2>1, <2>4, <2>5, <3>1
    <3>3. flag' <=> e[r']
      BY <1>2, <2>5, <2>6
    <3>. QED
      BY <1>2, <1>4, <3>2, <3>3 DEF Unescaping
  <2>. QED
    BY <1>2, <2>1, <2>7 DEF Runs, Trims, Squashes, Unescapes
<1>. QED
  BY <1>12, <1>13

\* What a loop leaves is its transformation of the text.
LEMMA TrimEnds ==
  ASSUME RInv, pc = "trim_right" \/ (pc = "trim" /\ flag), ~(w > 0 /\ mem[w - 1] \in Spaces)
  PROVE  TextOf(mem, w) = IF pc = "trim" THEN AsText!Trimmed(held) ELSE AsText!TrimmedRight(held)
<1>1. /\ len \in Nat /\ w \in 0 .. len /\ held \in Seq(Contents) /\ Len(held) \in Nat
  BY StrbufferAssumption DEF RInv, IInv, TypeOK
<1>2. PICK k \in 0 .. Len(held) : LeftFrom(k) /\ (pc = "trim" => Led(k)) /\ (pc = "trim_right" => k = 0)
  <2>1. CASE pc = "trim_right"
    <3>1. LeftFrom(0) /\ 0 \in 0 .. Len(held)
      BY <1>1, <2>1 DEF RInv, Runs, Trims
    <3>. QED
      BY <2>1, <3>1
  <2>2. CASE pc = "trim" /\ flag
    BY <2>2 DEF RInv, Runs, Trims
  <2>. QED
    BY <2>1, <2>2
<1>3. /\ k \in Nat /\ len = Len(held) - k
      /\ \A i \in 1 .. len : mem[i - 1] = held[k + i]
      /\ \A i \in (w + 1) .. len : mem[i - 1] \in Spaces
  BY <1>1, <1>2 DEF LeftFrom
<1>4. ASSUME NEW i \in (k + w + 1) .. Len(held)
      PROVE  held[i] \in Spaces
  <2>. DEFINE j == i - k
  <2>1. j \in 1 .. len /\ j \in (w + 1) .. len /\ k + j = i
    BY <1>1, <1>3
  <2>. HIDE DEF j
  <2>2. mem[j - 1] = held[k + j] /\ mem[j - 1] \in Spaces
    BY <1>3, <2>1
  <2>. QED
    BY <2>1, <2>2
<1>5. CASE w = 0
  <2>1. \A i \in 1 .. Len(held) : i \in 1 .. k \/ i \in (k + w + 1) .. Len(held)
    BY <1>1, <1>3, <1>5
  <2>2. \A i \in 1 .. k : held[i] \in Spaces
    <3>1. CASE pc = "trim"
      BY <1>2, <3>1 DEF Led
    <3>2. CASE pc = "trim_right"
      BY <1>2, <3>2
    <3>. QED
      BY <3>1, <3>2
  <2>3. \A i \in 1 .. Len(held) : held[i] \in Spaces
    BY <1>4, <2>1, <2>2
  <2>4. TextOf(mem, w) = <<>>
    BY <1>5 DEF TextOf
  <2>. QED
    BY <2>3, <2>4, NothingTrimmed
<1>6. CASE w # 0
  <2>. DEFINE b == k + w
  <2>1. /\ b \in 1 .. Len(held) /\ b <= Len(held) /\ w \in Nat /\ w \in 1 .. len
        /\ k < Len(held) /\ k + 1 \in 1 .. Len(held) /\ (k + 1) - 1 = k
    BY <1>1, <1>3, <1>6
  <2>2. held[b] \notin Spaces
    BY <1>1, <1>3, <1>6, <2>1
  <2>3. TextOf(mem, w) = SubSeq(held, k + 1, b)
    <3>1. \A i \in 1 .. w : mem[i - 1] = held[k + i]
      <4>1. \A i \in 1 .. w : i \in 1 .. len
        BY <1>1
      <4>. QED
        BY <1>3, <4>1
    <3>. QED
      <4>1. w \in Nat /\ k \in Nat /\ k + w <= Len(held)
        BY <1>3, <2>1
      <4>2. TextOf(mem, w) = SubSeq(held, k + 1, k + w)
        BY <1>1, <3>1, <4>1, TextOfPiece
      <4>. QED
        BY <4>2
  <2>. DEFINE a == k + 1
  <2>4. \A i \in (b + 1) .. Len(held) : held[i] \in Spaces
    BY <1>4
  <2>. HIDE DEF b
  <2>5. CASE pc = "trim"
    <3>1. Led(k)
      BY <1>2, <2>5
    <3>2. a \in 1 .. Len(held) /\ held[a] \notin Spaces
      BY <2>1, <3>1 DEF Led
    <3>3. \A i \in 1 .. (a - 1) : held[i] \in Spaces
      BY <2>1, <3>1 DEF Led
    <3>. HIDE DEF a
    <3>4. AsText!Trimmed(held) = SubSeq(held, a, b)
      BY <1>1, <2>1, <2>2, <2>4, <3>2, <3>3, SomethingTrimmed
    <3>. QED
      BY <2>3, <2>5, <3>4 DEF a
  <2>6. CASE pc = "trim_right"
    <3>1. k = 0 /\ k + 1 = 1
      BY <1>2, <2>6
    <3>2. AsText!TrimmedRight(held) = SubSeq(held, 1, b)
      <4>1. AsText!Solid(held) # {} /\ AsText!Last(AsText!Solid(held)) = b
        <5>1. /\ AsText!Solid(held) \in SUBSET Nat /\ b \in AsText!Solid(held)
              /\ \A j \in AsText!Solid(held) : j \in 1 .. Len(held) /\ j \notin (b + 1) .. Len(held)
          BY <1>1, <2>1, <2>2, <2>4 DEF AsText!Solid
        <5>2. \A j \in AsText!Solid(held) : b >= j
          <6>1. \A j \in 1 .. Len(held) : j \notin (b + 1) .. Len(held) => b >= j
            BY <1>1, <2>1
          <6>. QED
            BY <5>1, <6>1
        <5>. QED
          BY <5>1, <5>2, FirstAndLast
      <4>. QED
        BY <4>1 DEF AsText!TrimmedRight
    <3>. QED
      BY <2>3, <2>6, <3>1, <3>2
  <2>. QED
    BY <2>5, <2>6
<1>. QED
  BY <1>1, <1>5, <1>6

LEMMA SquashEnds ==
  ASSUME RInv, pc = "squash", r = len
  PROVE  TextOf(mem, w) = AsText!Squashed(held)
<1>1. /\ len \in Nat /\ r = len /\ w \in Nat /\ flag \in BOOLEAN /\ held \in Seq(Contents) /\ w <= len
      /\ \A i \in 0 .. (w - 1) : mem[i] \in Contents
  BY StrbufferAssumption DEF RInv, IInv, TypeOK, RoomForTerminator
<1>2. len = Len(held) /\ SpaceSeen
  BY DEF RInv, Runs, Squashes, Unread
<1>3. PICK f : Squashing(f)
  BY DEF RInv, Runs, Squashes
<1>4. f[len + 1] = <<>> /\ \A i \in 1 .. len : f[i] = SquashPiece(held, i) \o f[i + 1]
  BY <1>2, <1>3 DEF Squashing, IsRest, SquashPieces
<1>5. f[IF flag THEN r ELSE r + 1] = <<>>
  <2>1. CASE ~flag
    BY <1>1, <1>4, <2>1
  <2>2. CASE flag
    <3>1. len \in 1 .. len /\ held[len] \in Spaces
      BY <1>1, <1>2, <2>2 DEF SpaceSeen
    <3>2. SquashPiece(held, len) = <<>>
      BY <1>1, <1>2, <3>1 DEF SquashPiece
    <3>3. f[len] = <<>> \o <<>>
      BY <1>4, <3>1, <3>2
    <3>4. <<>> \o <<>> = <<>>
      OBVIOUS
    <3>. QED
      BY <1>1, <2>2, <3>3, <3>4
  <2>. QED
    BY <2>1, <2>2
<1>6. TextOf(mem, w) \in Seq(Contents)
  BY <1>1, TextIsSequence
<1>7. TextOf(mem, w) \o <<>> = TextOf(mem, w)
  BY <1>6, NothingJoined
<1>. QED
  BY <1>3, <1>5, <1>7 DEF Squashing

LEMMA UnescapeEnds ==
  ASSUME RInv, pc = "unescape", r = len
  PROVE  TextOf(mem, w) = AsText!Unescaped(held)
<1>1. w \in Nat /\ \A i \in 0 .. (w - 1) : mem[i] \in Contents
  BY StrbufferAssumption DEF RInv, IInv, TypeOK, RoomForTerminator
<1>2. PICK e, f : Unescaping(e, f)
  BY DEF RInv, Runs, Unescapes
<1>3. f[r + 1] = <<>>
  BY <1>2 DEF Unescaping, IsRest
<1>4. TextOf(mem, w) \in Seq(Contents)
  BY <1>1, TextIsSequence
<1>5. TextOf(mem, w) \o <<>> = TextOf(mem, w)
  BY <1>4, NothingJoined
<1>. QED
  BY <1>2, <1>3, <1>5 DEF Unescaping

-----------------------------------------------------------------------------
(* The buffer is the text its calls have made *)

\* What a call with room makes of the text.
Made(b) ==
  CASE b.op = "reserve" -> Text
    [] b.op = "set" -> b.text
    [] b.op = "add" -> Text \o b.text
    [] b.op = "own" -> Text \o SubSeq(Text \o <<Nul>>, b.at + 1, b.at + (b.want - len))

\* How a call that needs room may go: it is refused and remembered, or not
\* remembered by a growing string, it is done, or it waits.
MayGo(b) ==
  \/ AsText!NoRoom \/ AsText!Refused
  \/ ~failed /\ b \in Calls /\ Asked(b) /\ AsText!Becomes(Made(b))
  \/ UNCHANGED AsText!vars /\ pc' = "grow" /\ call' = b /\ ~failed /\ ~failed'

LEMMA NoRoomIs ==
  ASSUME IInv, Pending, NoRoom, pc' = pc \/ (~InLoop /\ ~InLoop')
  PROVE  (AsText!NoRoom \/ AsText!Refused) /\ (kind = "strbuffer" => AsText!NoRoom)
<1>1. /\ failed' = (kind = "strbuffer") /\ ok' = FALSE /\ mem' = mem /\ len' = len /\ kind' = kind
      /\ held' = held
  BY DEF NoRoom, loops
<1>2. Text' = Text
  BY <1>1 DEF Text
<1>3. kind = "strbuffer" => failed' = TRUE
  BY <1>1
<1>4. kind # "strbuffer" => failed' = failed
  <2>1. kind # "strbuffer" => ~failed /\ ~failed' /\ failed \in BOOLEAN /\ failed' \in BOOLEAN
    BY <1>1 DEF IInv, TypeOK, Pending
  <2>. QED
    BY <2>1
<1>5. /\ (IF InLoop THEN held ELSE Text)' = (IF InLoop THEN held ELSE Text)
      /\ (IF InLoop THEN pc ELSE "idle")' = (IF InLoop THEN pc ELSE "idle")
  BY <1>1, <1>2 DEF InLoop
<1>. QED
  BY <1>1, <1>3, <1>4, <1>5 DEF AsText!NoRoom, AsText!Refused

\* A step between calls that leaves the text t.
LEMMA BecomesIs ==
  ASSUME ~InLoop', NEW t, Text' = t, ok' = TRUE, failed' = failed
  PROVE  AsText!Becomes(t)
BY DEF AsText!Becomes

LEMMA RequestGoes ==
  ASSUME IInv, Pending, NEW b \in Calls, NEW base \in {0, len}, NEW extra \in Nat,
         Request(b, base, extra),
         base + extra < SizeMax => Asked([b EXCEPT !.want = base + extra])
  PROVE  /\ MayGo([b EXCEPT !.want = base + extra]) /\ pc = "idle" /\ ~InLoop'
         /\ kind' = kind /\ (kind = "string" => ~failed')
         /\ pc' \in {"idle", "grow"} /\ (pc' = "grow" => ~failed' /\ call'.text = b.text /\ call'.op = b.op)
<1>. DEFINE c == [b EXCEPT !.want = base + extra]
<1>1. /\ len \in Nat /\ cap \in 0 .. SizeMax /\ SizeMax \in Nat /\ len < MaxOf(cap, 1) /\ pc = "idle" /\ ~InLoop
      /\ mem \in [0 .. (MaxOf(cap, 1) - 1) -> Contents] /\ mem[len] = Nul /\ failed \in BOOLEAN
  BY StrbufferAssumption DEF IInv, TypeOK, RoomForTerminator, Request, InLoop
<1>2. CASE NoRoom /\ UNCHANGED <<pc, call, newCap>>
  <2>1. ~InLoop' /\ pc' = "idle" /\ kind' = kind /\ (kind = "string" => ~failed')
    BY <1>1, <1>2 DEF InLoop, NoRoom
  <2>2. AsText!NoRoom \/ AsText!Refused
    <3>1. pc' = pc /\ NoRoom
      BY <1>2
    <3>. QED
      BY <3>1, NoRoomIs
  <2>. QED
    BY <1>1, <2>1, <2>2 DEF MayGo
<1>3. ASSUME extra <= SizeMax - base, Plus(base, extra) # SizeMax
      PROVE  /\ Plus(base, extra) = base + extra /\ base + extra < SizeMax
             /\ c \in Calls /\ Asked(c) /\ c.want = base + extra /\ c.text = b.text /\ c.op = b.op
             /\ c = [b EXCEPT !.want = Plus(base, extra)]
  <2>1. Plus(base, extra) = base + extra /\ base + extra < SizeMax /\ base + extra \in Nat
    BY <1>1, <1>3 DEF Plus
  <2>2. c \in Calls /\ c.want = base + extra /\ c.text = b.text /\ c.op = b.op
    BY <2>1 DEF Calls
  <2>. QED
    BY <2>1, <2>2
<1>4. CASE /\ ~failed /\ extra <= SizeMax - base /\ Plus(base, extra) # SizeMax
           /\ Plus(base, extra) + 1 <= cap
           /\ Write(mem, [b EXCEPT !.want = Plus(base, extra)], cap)
           /\ UNCHANGED <<kind, cap, failed, pc, call, newCap, loops>>
  <2>1. Write(mem, c, cap) /\ c.want < cap /\ c \in Calls /\ Asked(c)
    BY <1>1, <1>3, <1>4
  <2>. HIDE DEF c
  <2>2. Text' = Made(c)
    BY <1>1, <2>1, WritesText DEF Made
  <2>3. ok' = TRUE /\ pc' = "idle" /\ ~InLoop' /\ failed' = failed /\ kind' = kind
    BY <1>1, <1>4, <2>1 DEF Write, InLoop
  <2>4. AsText!Becomes(Made(c))
    BY <2>2, <2>3, BecomesIs
  <2>5. MayGo(c) /\ pc' # "grow"
    BY <1>4, <2>1, <2>3, <2>4 DEF MayGo
  <2>6. kind = "string" => ~failed'
    BY <1>4
  <2>. QED
    BY <1>1, <2>3, <2>5, <2>6 DEF c
<1>5. CASE /\ ~failed /\ extra <= SizeMax - base /\ Plus(base, extra) # SizeMax
           /\ Plus(base, extra) + 1 > cap
           /\ pc' = "grow" /\ call' = [b EXCEPT !.want = Plus(base, extra)]
           /\ newCap' = IF cap = 0 THEN FirstCap ELSE cap
           /\ UNCHANGED <<kind, mem, len, cap, failed, ok, loops>>
  <2>1. call' = c /\ c.text = b.text /\ c.op = b.op
    BY <1>3, <1>5
  <2>2. ~InLoop' /\ Text' = Text /\ ~failed'
    BY <1>5 DEF InLoop, Text
  <2>3. UNCHANGED AsText!vars
    BY <1>1, <1>5, <2>2 DEF AsText!vars
  <2>. QED
    BY <1>1, <1>5, <2>1, <2>2, <2>3 DEF MayGo
<1>. QED
  BY <1>2, <1>4, <1>5 DEF Request

\* What the text buffer may do between two transformations.
LEMMA BetweenLoops ==
  ASSUME ~InLoop,
         \/ AsText!NoRoom \/ AsText!Refused \/ AsText!Release \/ AsText!Begins
         \/ \E t \in Texts : AsText!Set(t) \/ AsText!Add(t)
         \/ \E i, n \in 1 .. (Len(Text) + 1) : i + n <= Len(Text) + 2 /\ AsText!AddOwn(i, n)
         \/ \E n \in 0 .. Len(Text) : AsText!Becomes(SubSeq(Text, 1, n)) \/ AsText!Becomes(SubSeq(Text, n + 1, Len(Text)))
  PROVE  AsText!Next
<1>. DEFINE text == IF InLoop THEN held ELSE Text
<1>1. text = Text /\ (IF InLoop THEN pc ELSE "idle") = "idle"
  OBVIOUS
<1>2. \A n : AsText!Prefix(n) = SubSeq(Text, 1, n) /\ AsText!Rest(n) = SubSeq(Text, n + 1, Len(Text))
  BY <1>1 DEF AsText!Prefix, AsText!Rest
<1>. QED
  BY <1>1, <1>2 DEF AsText!Next

\* A call that shortens the text to the n bytes from a on.
LEMMA Shortens ==
  ASSUME IInv, NEW m, NEW a \in 0 .. len, NEW n \in 0 .. (len - a), a = 0 \/ a + n = len,
         \A i \in 0 .. (n - 1) : m[i] = mem[a + i], Becomes(m, n)
  PROVE  AsText!Next /\ ~InLoop'
<1>1. /\ Text = TextOf(mem, len) /\ Text \in Seq(Contents) /\ Len(Text) = len /\ len \in Nat
      /\ \A i \in 1 .. len : Text[i] = mem[i - 1]
  BY TextOfBuffer
<1>2. a \in Nat /\ n \in Nat /\ a + n <= Len(Text) /\ n \in 0 .. len /\ a \in 0 .. Len(Text)
  BY <1>1
<1>3. ASSUME NEW i \in 1 .. n
      PROVE  m[i - 1] = Text[a + i]
  <2>1. i - 1 \in 0 .. (n - 1) /\ a + i \in 1 .. len /\ (a + i) - 1 = a + (i - 1)
    BY <1>1, <1>2
  <2>. QED
    BY <1>1, <2>1
<1>4. Text' = TextOf(m, n)
  BY <1>2, ShrinksText DEF Becomes
<1>5. TextOf(m, n) = SubSeq(Text, a + 1, a + n)
  <2>1. Text \in Seq(Contents) /\ a \in Nat /\ n \in Nat /\ a + n <= Len(Text)
    BY <1>1, <1>2
  <2>. QED
    BY <1>3, <2>1, TextOfPiece
<1>6. pc' = "idle" /\ ~InLoop /\ ~InLoop' /\ ok' = TRUE /\ failed' = failed
  BY DEF Becomes, Shrinks, InLoop
<1>7. AsText!Becomes(SubSeq(Text, a + 1, a + n))
  BY <1>4, <1>5, <1>6, BecomesIs
<1>8. CASE a = 0
  <2>1. SubSeq(Text, a + 1, a + n) = SubSeq(Text, 1, n)
    BY <1>2, <1>8
  <2>2. n \in 0 .. Len(Text) /\ AsText!Becomes(SubSeq(Text, 1, n))
    BY <1>1, <1>2, <1>7, <2>1
  <2>. QED
    BY <1>6, <2>2, BetweenLoops
<1>9. CASE a + n = len
  <2>1. a \in 0 .. Len(Text) /\ AsText!Becomes(SubSeq(Text, a + 1, Len(Text)))
    BY <1>1, <1>2, <1>7, <1>9
  <2>. QED
    BY <1>6, <2>1, BetweenLoops
<1>. QED
  BY <1>8, <1>9

\* What each call makes of the text is what the text buffer allows.
LEMMA MadeIsAllowed ==
  ASSUME IInv, Pending, ~InLoop, NEW b \in Calls, Asked(b), ~failed,
         b.op \in {"set", "add"} => b.text \in Texts, AsText!Becomes(Made(b))
  PROVE  AsText!Next
<1>1. /\ Text \in Seq(Contents) /\ Len(Text) = len /\ len \in Nat
  BY TextOfBuffer
<1>2. b.op \in {"reserve", "set", "add", "own"} /\ b.at \in Nat /\ b.want \in Nat
  BY DEF Calls
<1>. DEFINE text == IF InLoop THEN held ELSE Text
<1>3. text = Text
  OBVIOUS
<1>4. CASE b.op = "reserve"
  <2>1. Made(b) = SubSeq(Text, 1, Len(Text))
    <3>1. Text = SubSeq(Text, 1, Len(Text))
      BY <1>1
    <3>. QED
      BY <1>4, <3>1 DEF Made
  <2>2. Len(Text) \in 0 .. Len(Text) /\ AsText!Becomes(SubSeq(Text, 1, Len(Text)))
    BY <1>1, <2>1
  <2>. QED
    BY <2>2, BetweenLoops
<1>5. CASE b.op = "set"
  <2>1. Made(b) = b.text
    BY <1>5 DEF Made
  <2>2. b.text \in Texts /\ AsText!Set(b.text)
    BY <1>5, <2>1 DEF AsText!Set
  <2>. QED
    BY <2>2, BetweenLoops
<1>6. CASE b.op = "add"
  <2>1. Made(b) = Text \o b.text
    BY <1>6 DEF Made
  <2>2. b.text \in Texts /\ AsText!Add(b.text)
    BY <1>3, <1>6, <2>1 DEF AsText!Add
  <2>. QED
    BY <2>2, BetweenLoops
<1>7. CASE b.op = "own"
  <2>. DEFINE n == b.want - len
              i == b.at + 1
  <2>1. Made(b) = Text \o SubSeq(Text \o <<Nul>>, b.at + 1, b.at + n)
    BY <1>7 DEF Made
  <2>2. b.at + n = i + n - 1 /\ n \in 1 .. (len + 1) /\ i \in 1 .. (len + 1) /\ i + n <= len + 2
    <3>. DEFINE at == b.at
                want == b.want
    <3>1. at <= len /\ len < want /\ want - len <= len + 1 - at /\ at \in Nat /\ want \in Nat
      BY <1>2, <1>7 DEF Asked
    <3>. HIDE DEF at, want
    <3>2. LET m == want - len
              j == at + 1
          IN  at + m = j + m - 1 /\ m \in 1 .. (len + 1) /\ j \in 1 .. (len + 1) /\ j + m <= len + 2
      BY <1>1, <3>1
    <3>. QED
      BY <3>2 DEF at, want
  <2>. HIDE DEF n
  <2>3. AsText!AddOwn(i, n)
    BY <1>3, <2>1, <2>2 DEF AsText!AddOwn
  <2>. HIDE DEF i
  <2>4. i \in 1 .. (Len(Text) + 1) /\ n \in 1 .. (Len(Text) + 1) /\ i + n <= Len(Text) + 2
    BY <1>1, <2>2
  <2>. QED
    BY <2>3, <2>4, BetweenLoops
<1>. QED
  BY <1>2, <1>4, <1>5, <1>6, <1>7

\* Outside the loops there is nothing to know about them.
LEMMA NoLoopRuns == ~InLoop' => Runs'
  BY DEF InLoop, Runs, Trims, Squashes, Unescapes

LEMMA RequestSees ==
  ASSUME RInv, NEW b \in Calls, NEW base \in {0, len}, NEW extra \in Nat,
         Request(b, base, extra), b.op \in {"set", "add"} => b.text \in Texts,
         base + extra < SizeMax => Asked([b EXCEPT !.want = base + extra])
  PROVE  Pending' /\ Runs' /\ [AsText!Next]_(AsText!vars)
<1>. DEFINE c == [b EXCEPT !.want = base + extra]
<1>1. IInv /\ Pending
  BY DEF RInv
<1>2. /\ MayGo(c) /\ pc = "idle" /\ ~InLoop'
      /\ kind' = kind /\ (kind = "string" => ~failed')
      /\ pc' \in {"idle", "grow"} /\ (pc' = "grow" => ~failed' /\ call'.text = b.text /\ call'.op = b.op)
  BY <1>1, RequestGoes
<1>3. ~InLoop
  BY <1>2 DEF InLoop
<1>4. c.text = b.text /\ c.op = b.op
  BY DEF Calls
<1>5. Pending'
  BY <1>2 DEF Pending
<1>6. Runs'
  BY <1>2, NoLoopRuns
<1>7. CASE AsText!NoRoom \/ AsText!Refused
  <2>1. AsText!Next
    BY <1>3, <1>7, BetweenLoops
  <2>. QED
    BY <1>5, <1>6, <2>1
<1>8. CASE ~failed /\ c \in Calls /\ Asked(c) /\ AsText!Becomes(Made(c))
  <2>1. c.op \in {"set", "add"} => c.text \in Texts
    BY <1>4
  <2>. HIDE DEF c
  <2>2. AsText!Next
    BY <1>1, <1>3, <1>8, <2>1, MadeIsAllowed
  <2>. QED
    BY <1>5, <1>6, <2>2
<1>9. CASE UNCHANGED AsText!vars
  BY <1>5, <1>6, <1>9
<1>. HIDE DEF c
<1>. QED
  BY <1>2, <1>7, <1>8, <1>9 DEF MayGo

\* A call that shortens the text keeps what is known besides.
LEMMA ShortensSees ==
  ASSUME RInv, NEW m, NEW a \in 0 .. len, NEW n \in 0 .. (len - a), a = 0 \/ a + n = len,
         \A i \in 0 .. (n - 1) : m[i] = mem[a + i], Becomes(m, n)
  PROVE  Pending' /\ Runs' /\ [AsText!Next]_(AsText!vars)
<1>1. AsText!Next /\ ~InLoop'
  BY Shortens DEF RInv
<1>2. Pending'
  BY DEF RInv, Pending, Becomes, Shrinks
<1>. QED
  BY <1>1, <1>2, NoLoopRuns

\* A turn of a loop is no step of the text buffer's.
LEMMA TurnSees ==
  ASSUME RInv, InLoop, Turn
  PROVE  Pending' /\ [AsText!Next]_(AsText!vars)
<1>1. /\ pc' = pc /\ held' = held /\ failed' = failed /\ ok' = ok /\ kind' = kind /\ InLoop'
      /\ ~(pc \in {"grow", "realloc"})
  BY DEF Turn, InLoop
<1>2. UNCHANGED AsText!vars
  BY <1>1 DEF AsText!vars
<1>3. Pending'
  BY <1>1 DEF RInv, Pending
<1>. QED
  BY <1>2, <1>3

\* The end of a loop ends the transformation.
LEMMA EndSees ==
  ASSUME RInv, InLoop, NEW t, t = AsText!Transformed(pc), TextOf(mem, w) = t, Shrinks(mem, w), EndLoop
  PROVE  Pending' /\ Runs' /\ [AsText!Next]_(AsText!vars)
<1>1. IInv /\ w \in 0 .. len
  BY DEF RInv, IInv, TypeOK
<1>2. Text' = t
  BY <1>1, ShrinksText
<1>3. /\ ~InLoop' /\ ok' = TRUE /\ failed' = failed /\ kind' = kind /\ pc' = "idle"
  BY DEF Shrinks, EndLoop, InLoop
<1>4. AsText!Becomes(t)
  BY <1>2, <1>3, BecomesIs
<1>5. (IF InLoop THEN pc ELSE "idle") = pc /\ pc # "idle"
  BY DEF InLoop
<1>6. AsText!Ends
  BY <1>4, <1>5 DEF AsText!Ends
<1>7. AsText!Next
  BY <1>5, <1>6 DEF AsText!Next
<1>8. Pending'
  BY <1>3 DEF RInv, Pending
<1>. QED
  BY <1>3, <1>7, <1>8, NoLoopRuns

LEMMA TransformedIs ==
  ASSUME InLoop
  PROVE  AsText!Transformed(pc) =
           CASE pc = "trim" -> AsText!Trimmed(held)
             [] pc = "trim_right" -> AsText!TrimmedRight(held)
             [] pc = "squash" -> AsText!Squashed(held)
             [] pc = "unescape" -> AsText!Unescaped(held)
BY DEF AsText!Transformed

\* What a call needs that waits for room.
LEMMA WaitingSees ==
  ASSUME RInv, pc \in {"grow", "realloc"}, UNCHANGED <<kind, mem, len, cap, failed, ok, call, loops>>,
         pc' \in {"grow", "realloc"}
  PROVE  Pending' /\ Runs' /\ [AsText!Next]_(AsText!vars)
<1>1. ~InLoop /\ ~InLoop' /\ Text' = Text
  BY DEF InLoop, Text
<1>2. UNCHANGED AsText!vars
  BY <1>1 DEF AsText!vars
<1>3. Pending'
  BY DEF RInv, Pending
<1>. QED
  BY <1>1, <1>2, <1>3, NoLoopRuns

\* Every step is one of the text buffer's, or none to it.
LEMMA StepSees ==
  ASSUME RInv, [Next]_vars
  PROVE  Pending' /\ Runs' /\ [AsText!Next]_(AsText!vars)
<1>. DEFINE Goal == Pending' /\ Runs' /\ [AsText!Next]_(AsText!vars)
<1>. USE StrbufferAssumption
<1>1. /\ IInv /\ len \in Nat /\ cap \in Nat /\ SizeMax \in Nat /\ len < MaxOf(cap, 1) /\ len <= SizeMax
      /\ r \in 0 .. len /\ w \in 0 .. len
  BY DEF RInv, IInv, TypeOK, RoomForTerminator
<1>2. ASSUME Reserve PROVE Goal
  <2>1. PICK n \in 0 .. SizeMax : Request(New("reserve", <<>>, 0), 0, n)
    BY <1>2 DEF Reserve
  <2>. DEFINE b == New("reserve", <<>>, 0)
  <2>2. b \in Calls /\ b.op = "reserve"
    BY DEF New, Calls
  <2>3. 0 + n < SizeMax => Asked([b EXCEPT !.want = 0 + n])
    BY DEF New, Asked
  <2>. HIDE DEF b
  <2>4. Request(b, 0, n)
    BY <2>1 DEF b
  <2>. QED
    BY <2>2, <2>3, <2>4, RequestSees
<1>3. ASSUME NEW t \in Texts, Set(t) PROVE Goal
  <2>1. CASE t = <<>>
    <3>1. Becomes(mem, 0) /\ 0 \in 0 .. len /\ 0 \in 0 .. (len - 0) /\ 0 = 0
      BY <1>1, <1>3, <2>1 DEF Set
    <3>2. \A i \in 0 .. (0 - 1) : mem[i] = mem[0 + i]
      OBVIOUS
    <3>. QED
      BY <3>1, <3>2, ShortensSees
  <2>2. CASE t # <<>>
    <3>. DEFINE b == New("set", t, 0)
    <3>1. t \in Seq(Bytes) /\ Len(t) \in Nat /\ b \in Calls /\ b.text = t
      BY DEF New, Calls
    <3>2. 0 + Len(t) < SizeMax => Asked([b EXCEPT !.want = 0 + Len(t)])
      BY <3>1 DEF New, Asked
    <3>3. Request(b, 0, Len(t))
      BY <2>2, <1>3 DEF Set
    <3>. HIDE DEF b
    <3>. QED
      BY <3>1, <3>2, <3>3, RequestSees
  <2>. QED
    BY <2>1, <2>2
<1>4. ASSUME NEW t \in Texts, Add(t) PROVE Goal
  <2>1. CASE t = <<>> /\ IsBuffer
    <3>1. Becomes(mem, len) /\ 0 \in 0 .. len /\ len \in 0 .. (len - 0)
      BY <1>1, <1>4, <2>1 DEF Add
    <3>2. \A i \in 0 .. (len - 1) : mem[i] = mem[0 + i]
      OBVIOUS
    <3>. QED
      BY <3>1, <3>2, ShortensSees
  <2>2. CASE ~(t = <<>> /\ IsBuffer)
    <3>. DEFINE b == New("add", t, 0)
    <3>1. t \in Seq(Bytes) /\ Len(t) \in Nat /\ b \in Calls /\ b.text = t
      BY DEF New, Calls
    <3>2. len + Len(t) < SizeMax => Asked([b EXCEPT !.want = len + Len(t)])
      BY <3>1, <1>1 DEF New, Asked
    <3>3. Request(b, len, Len(t))
      BY <2>2, <1>4 DEF Add
    <3>. HIDE DEF b
    <3>. QED
      BY <3>1, <3>2, <3>3, RequestSees
  <2>. QED
    BY <2>1, <2>2
<1>5. ASSUME NEW at \in 0 .. len, NEW n \in OwnLengths(at), AddOwn(at, n) PROVE Goal
  <2>1. n \in Nat \ {0}
    BY <1>1 DEF OwnLengths
  <2>2. CASE n > len + 1 - at
    <3>1. /\ pc = "idle" /\ pc' = "idle" /\ ok' = FALSE
          /\ UNCHANGED <<kind, mem, len, cap, failed, call, newCap, loops>>
      BY <1>5, <2>2 DEF AddOwn
    <3>2. ~InLoop /\ ~InLoop' /\ Text' = Text /\ Pending'
      BY <3>1 DEF InLoop, Text, RInv, Pending
    <3>3. AsText!Refused
      BY <3>1, <3>2 DEF AsText!Refused
    <3>4. AsText!Next
      BY <3>2, <3>3, BetweenLoops
    <3>. QED
      BY <3>2, <3>4, NoLoopRuns
  <2>3. CASE ~(n > len + 1 - at)
    <3>. DEFINE b == New("own", <<>>, at)
    <3>1. b \in Calls /\ b.op = "own" /\ Request(b, len, n)
      BY <2>3, <1>1, <1>5 DEF New, Calls, AddOwn
    <3>2. len + n < SizeMax => Asked([b EXCEPT !.want = len + n])
      BY <2>1, <2>3, <1>1 DEF New, Asked
    <3>. HIDE DEF b
    <3>. QED
      BY <2>1, <3>1, <3>2, RequestSees
  <2>. QED
    BY <2>2, <2>3
<1>6. ASSUME AddInvalid PROVE Goal
  <2>1. NoRoom /\ pc = "idle" /\ pc' = "idle" /\ kind = "strbuffer"
    BY <1>6 DEF AddInvalid, IsBuffer
  <2>2. ~InLoop /\ ~InLoop' /\ pc' = pc
    BY <2>1 DEF InLoop
  <2>3. AsText!NoRoom \/ AsText!Refused
    BY <1>1, <2>1, <2>2, NoRoomIs DEF RInv
  <2>4. AsText!Next
    BY <2>2, <2>3, BetweenLoops
  <2>5. Pending'
    BY <2>1 DEF NoRoom, Pending
  <2>. QED
    BY <2>2, <2>4, <2>5, NoLoopRuns
<1>7. ASSUME NEW n \in 0 .. (len + 1), Truncate(n) PROVE Goal
  <2>. DEFINE k == IF n < len THEN n ELSE len
  <2>1. k \in 0 .. (len - 0) /\ 0 \in 0 .. len /\ Becomes(mem, k)
    BY <1>1, <1>7 DEF Truncate
  <2>. HIDE DEF k
  <2>2. \A i \in 0 .. (k - 1) : mem[i] = mem[0 + i]
    OBVIOUS
  <2>. QED
    BY <2>1, <2>2, ShortensSees
<1>8. ASSUME NEW n \in 0 .. (len + 1), Consume(n) PROVE Goal
  <2>1. CASE n >= len
    <3>1. Becomes(mem, 0) /\ 0 \in 0 .. len /\ 0 \in 0 .. (len - 0) /\ 0 = 0
      BY <1>1, <1>8, <2>1 DEF Consume
    <3>2. \A i \in 0 .. (0 - 1) : mem[i] = mem[0 + i]
      OBVIOUS
    <3>. QED
      BY <3>1, <3>2, ShortensSees
  <2>2. CASE n < len
    <3>1. n \in 0 .. len /\ len - n \in 0 .. (len - n) /\ n + (len - n) = len /\ Becomes(Moved(n), len - n)
      BY <2>2, <1>1, <1>8 DEF Consume
    <3>2. \A i \in 0 .. (len - n - 1) : Moved(n)[i] = mem[n + i]
      BY <2>2, <1>1 DEF Moved
    <3>. DEFINE m == Moved(n)
                k == len - n
    <3>3. k \in 0 .. (len - n) /\ n + k = len /\ Becomes(m, k) /\ \A i \in 0 .. (k - 1) : m[i] = mem[n + i]
      BY <3>1, <3>2
    <3>. HIDE DEF m, k
    <3>. QED
      BY <3>1, <3>3, ShortensSees
  <2>. QED
    BY <2>1, <2>2, <1>1
<1>9. ASSUME NEW name \in {"trim", "trim_right", "squash", "unescape"}, Loop(name) PROVE Goal
  <2>1. Runs'
    BY <1>1, <1>9, LoopBegins
  <2>2. /\ pc = "idle" /\ pc' = name /\ held' = Text /\ ok' = ok /\ failed' = failed /\ kind' = kind
    BY <1>9 DEF Loop
  <2>3. ~InLoop /\ InLoop'
    BY <2>2 DEF InLoop
  <2>4. AsText!Begins
    BY <2>2, <2>3 DEF AsText!Begins
  <2>5. AsText!Next
    BY <2>3, <2>4, BetweenLoops
  <2>6. Pending'
    BY <2>2 DEF RInv, Pending
  <2>. QED
    BY <2>1, <2>5, <2>6
<1>10. ASSUME TrimStep PROVE Goal
  <2>1. Runs'
    BY <1>10, TrimTurn
  <2>2. InLoop /\ pc = "trim"
    BY <1>10 DEF TrimStep, InLoop
  <2>3. CASE Turn
    BY <2>1, <2>2, <2>3, TurnSees
  <2>4. CASE Shrinks(Moved(r), len - r) /\ UNCHANGED <<pc, call, newCap, held>>
    <3>1. pc' = pc /\ held' = held /\ ok' = TRUE /\ failed' = failed /\ kind' = kind /\ InLoop'
      BY <2>2, <2>4 DEF Shrinks, InLoop
    <3>2. AsText!Goes
      BY <2>2, <3>1 DEF AsText!Goes
    <3>3. AsText!Next
      BY <2>2, <3>2 DEF AsText!Next
    <3>4. Pending'
      BY <2>2, <3>1 DEF RInv, Pending
    <3>. QED
      BY <2>1, <3>3, <3>4
  <2>. QED
    BY <2>3, <2>4, <1>10 DEF TrimStep
<1>11. ASSUME TrimRightStep PROVE Goal
  <2>1. (pc = "trim_right" \/ (pc = "trim" /\ flag)) /\ InLoop
    BY <1>11 DEF TrimRightStep, InLoop
  <2>2. CASE w > 0 /\ mem[w - 1] \in Spaces /\ w' = w - 1 /\ Turn /\ UNCHANGED <<mem, r, flag>>
    <3>1. Runs'
      BY <2>1, <2>2, TrimRightTurn
    <3>2. Turn
      BY <2>2
    <3>. QED
      BY <2>1, <3>1, <3>2, TurnSees
  <2>3. CASE ~(w > 0 /\ mem[w - 1] \in Spaces) /\ Shrinks(mem, w) /\ EndLoop
    <3>1. TextOf(mem, w) = IF pc = "trim" THEN AsText!Trimmed(held) ELSE AsText!TrimmedRight(held)
      BY <2>1, <2>3, TrimEnds
    <3>2. AsText!Transformed(pc) = IF pc = "trim" THEN AsText!Trimmed(held) ELSE AsText!TrimmedRight(held)
      BY <2>1, TransformedIs
    <3>3. TextOf(mem, w) = AsText!Transformed(pc) /\ Shrinks(mem, w) /\ EndLoop
      BY <2>3, <3>1, <3>2
    <3>. QED
      BY <2>1, <3>3, EndSees
  <2>. QED
    BY <2>2, <2>3, <1>11 DEF TrimRightStep
<1>12. ASSUME SquashStep PROVE Goal
  <2>1. pc = "squash" /\ InLoop
    BY <1>12 DEF SquashStep, InLoop
  <2>2. CASE r < len /\ mem[r] \in Spaces /\ flag' = (w # 0) /\ r' = r + 1 /\ Turn /\ UNCHANGED <<mem, w>>
    <3>1. Runs'
      BY <2>1, <2>2, SquashSpace
    <3>2. Turn
      BY <2>2
    <3>. QED
      BY <2>1, <3>1, <3>2, TurnSees
  <2>3. CASE /\ r < len /\ mem[r] \notin Spaces
             /\ IF flag THEN Keeps([mem EXCEPT ![w] = Blank], w + 1) ELSE Keeps(mem, w)
    <3>1. Runs'
      BY <2>1, <2>3, SquashByte
    <3>2. Turn
      BY <2>3 DEF Keeps
    <3>. QED
      BY <2>1, <3>1, <3>2, TurnSees
  <2>4. CASE r = len /\ Shrinks(mem, w) /\ EndLoop
    <3>1. TextOf(mem, w) = AsText!Squashed(held)
      BY <2>1, <2>4, SquashEnds
    <3>2. AsText!Transformed(pc) = AsText!Squashed(held)
      BY <2>1, TransformedIs
    <3>3. TextOf(mem, w) = AsText!Transformed(pc) /\ Shrinks(mem, w) /\ EndLoop
      BY <2>4, <3>1, <3>2
    <3>. QED
      BY <2>1, <3>3, EndSees
  <2>. QED
    BY <2>2, <2>3, <2>4, <1>12 DEF SquashStep
<1>13. ASSUME UnescapeStep PROVE Goal
  <2>1. pc = "unescape" /\ InLoop
    BY <1>13 DEF UnescapeStep, InLoop
  <2>2. CASE /\ r < len
             /\ \/ ~flag /\ Escapes /\ flag' = TRUE /\ r' = r + 1 /\ Turn /\ UNCHANGED <<mem, w>>
                \/ (flag \/ ~Escapes) /\ Keeps(mem, w)
    <3>1. Runs'
      BY <2>1, <2>2, UnescapeTurn
    <3>2. Turn
      BY <2>2 DEF Keeps
    <3>. QED
      BY <2>1, <3>1, <3>2, TurnSees
  <2>3. CASE r = len /\ Shrinks(mem, w) /\ EndLoop
    <3>1. TextOf(mem, w) = AsText!Unescaped(held)
      BY <2>1, <2>3, UnescapeEnds
    <3>2. AsText!Transformed(pc) = AsText!Unescaped(held)
      BY <2>1, TransformedIs
    <3>3. TextOf(mem, w) = AsText!Transformed(pc) /\ Shrinks(mem, w) /\ EndLoop
      BY <2>3, <3>1, <3>2
    <3>. QED
      BY <2>1, <3>3, EndSees
  <2>. QED
    BY <2>2, <2>3, <1>13 DEF UnescapeStep
<1>14. ASSUME Steal PROVE Goal
  <2>1. /\ kind = "strbuffer" /\ pc = "idle" /\ pc' = "idle" /\ len' = 0 /\ failed' = FALSE
        /\ ok' \in BOOLEAN /\ kind' = kind
    BY <1>14 DEF Steal, IsBuffer
  <2>2. ~InLoop /\ ~InLoop' /\ Pending'
    BY <2>1 DEF InLoop, Pending
  <2>3. Text' = <<>>
    BY <2>1 DEF Text
  <2>4. AsText!Release
    BY <2>1, <2>2, <2>3 DEF AsText!Release
  <2>5. AsText!Next
    BY <2>2, <2>4, BetweenLoops
  <2>. QED
    BY <2>2, <2>5, NoLoopRuns
<1>15. ASSUME Grow PROVE Goal
  <2>1. /\ pc = "grow" /\ pc' \in {"grow", "realloc"}
        /\ UNCHANGED <<kind, mem, len, cap, failed, ok, call, loops>>
    BY <1>15 DEF Grow
  <2>. QED
    BY <2>1, WaitingSees
<1>16. ASSUME Realloc PROVE Goal
  <2>. DEFINE moved == [i \in 0 .. (newCap - 1) |-> IF i < cap THEN mem[i] ELSE Junk]
              m == [moved EXCEPT ![len] = Nul]
  <2>1. /\ pc = "realloc" /\ call \in Calls /\ Asked(call) /\ newCap \in 0 .. SizeMax
        /\ call.want < newCap /\ cap < newCap /\ len < newCap /\ newCap > 0
    BY <1>1, <1>16 DEF Realloc, IInv, TypeOK, RoomForTerminator, Waiting, Asked
  <2>2. /\ DOMAIN m = 0 .. (MaxOf(newCap, 1) - 1) /\ m[len] = Nul
        /\ \A i \in 0 .. (len - 1) : m[i] = mem[i]
    BY <2>1, <1>1
  <2>3. Write(m, call, newCap) /\ pc' = "idle" /\ UNCHANGED <<kind, failed>>
    BY <1>16 DEF Realloc, Idle
  <2>4. len < MaxOf(newCap, 1) /\ (call.op # "reserve" => call.want < newCap)
    BY <2>1, <1>1
  <2>. HIDE DEF m
  <2>5. Text' = Made(call)
    BY <1>1, <2>1, <2>2, <2>3, <2>4, WritesText DEF Made
  <2>6. ~InLoop /\ ~InLoop' /\ ok' = TRUE /\ failed' = failed /\ ~failed
        /\ (call.op \in {"set", "add"} => call.text \in Texts) /\ Pending
    BY <2>1, <2>3 DEF InLoop, Write, RInv, Pending
  <2>7. AsText!Becomes(Made(call))
    BY <2>5, <2>6, BecomesIs
  <2>8. AsText!Next
    BY <1>1, <2>1, <2>6, <2>7, MadeIsAllowed
  <2>9. Pending'
    BY <2>3, <2>6 DEF Pending
  <2>. QED
    BY <2>6, <2>8, <2>9, NoLoopRuns
<1>17. ASSUME ReallocFails PROVE Goal
  <2>1. NoRoom /\ pc = "realloc" /\ pc' = "idle"
    BY <1>17 DEF ReallocFails, Idle
  <2>2. ~InLoop /\ ~InLoop'
    BY <2>1 DEF InLoop
  <2>3. AsText!NoRoom \/ AsText!Refused
    BY <1>1, <2>1, <2>2, NoRoomIs DEF RInv
  <2>4. AsText!Next
    BY <2>2, <2>3, BetweenLoops
  <2>5. Pending'
    BY <2>1 DEF NoRoom, Pending
  <2>. QED
    BY <2>2, <2>4, <2>5, NoLoopRuns
<1>18. ASSUME UNCHANGED vars PROVE Goal
  <2>1. /\ pc' = pc /\ held' = held /\ mem' = mem /\ len' = len /\ failed' = failed /\ ok' = ok
        /\ kind' = kind /\ call' = call /\ r' = r /\ w' = w /\ flag' = flag
    BY <1>18 DEF vars, loops
  <2>2. InLoop' = InLoop /\ Text' = Text
    BY <2>1 DEF InLoop, Text
  <2>3. UNCHANGED AsText!vars
    BY <2>1, <2>2 DEF AsText!vars
  <2>4. Pending'
    BY <2>1 DEF RInv, Pending
  <2>5. Runs'
    BY <2>1, <2>2 DEF RInv, Runs, Trims, Squashes, Unescapes, LeftFrom, Led, Unread, SpaceSeen,
       Squashing, Unescaping
  <2>. QED
    BY <2>3, <2>4, <2>5
<1>. HIDE DEF Goal
<1>19. Goal
  BY <1>2, <1>3, <1>4, <1>5, <1>6, <1>7, <1>8, <1>9, <1>10, <1>11, <1>12, <1>13, <1>14, <1>15,
     <1>16, <1>17, <1>18 DEF Next
<1>. QED
  BY <1>19 DEF Goal

\* For every SIZE_MAX, every first capacity and all texts, the buffer is the
\* text its calls have made: what strbuffer_trim, strbuffer_squash_spaces and
\* strbuffer_unescape leave behind by moving bytes inside the block is the
\* transformed text, a piece of the buffer added while its block moves is the
\* piece that was meant, a call that fails leaves the text alone, and a buffer
\* that has failed stays so until it is released.
THEOREM HoldsItsText == Spec => HoldsText
<1>1. Init => RInv /\ AsText!Init
  <2>. SUFFICES ASSUME Init PROVE RInv /\ AsText!Init
    OBVIOUS
  <2>1. pc = "idle" /\ len = 0 /\ failed = FALSE /\ ok = TRUE
    BY DEF Init
  <2>2. ~InLoop /\ Text = <<>>
    BY <2>1 DEF InLoop, Text
  <2>3. Pending /\ Runs
    BY <2>1, <2>2 DEF Pending, Runs, Trims, Squashes, Unescapes, InLoop
  <2>4. AsText!Init
    BY <2>1, <2>2 DEF AsText!Init
  <2>. QED
    BY <2>3, <2>4, StartsRight DEF RInv
<1>2. RInv /\ [Next]_vars => RInv'
  BY StepKeeps, StepSees DEF RInv
<1>3. RInv /\ [Next]_vars => [AsText!Next]_(AsText!vars)
  BY StepSees
<1>. QED
  BY <1>1, <1>2, <1>3, PTL DEF Spec, HoldsText, AsText!Spec

=============================================================================
