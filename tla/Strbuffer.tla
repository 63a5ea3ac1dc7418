------------------------------ MODULE Strbuffer -----------------------------
(***************************************************************************)
(* A growing text buffer over C memory: strbuffer.c, and the growing       *)
(* string of hn_str_append in the same file, which keeps no failure.       *)
(*                                                                         *)
(* The buffer owns a block of `cap` bytes, or none and points to a static  *)
(* empty string.  Sizes are unsigned words up to SizeMax and wrap.  A call *)
(* that needs room grows the capacity by half, one turn of the loop a      *)
(* step, reallocates, which may fail, and writes.  The text to add may be  *)
(* a piece of the buffer itself, whose old block the reallocation frees.   *)
(* The loops that trim, squash and unescape move bytes inside the block,   *)
(* one turn a step.                                                        *)
(* Bytes after the terminator are forgotten: nothing may read them.        *)
(***************************************************************************)
EXTENDS Integers, Sequences

CONSTANTS
  Bytes,     \* the bytes a text is made of
  Nul,       \* the terminator, '\0'
  Junk,      \* a byte that was never written, or was freed
  Spaces,    \* hn_is_space
  Blank,     \* ' ', one of them
  Escape,    \* the backslash
  Puncts,    \* ispunct, the backslash included
  Texts,     \* the texts callers set and add
  SizeMax,   \* SIZE_MAX
  FirstCap   \* 64, the capacity a buffer starts with

ASSUME StrbufferAssumption ==
  /\ SizeMax \in Nat /\ FirstCap \in 1 .. (SizeMax - 1)
  /\ Texts \subseteq Seq(Bytes)
  /\ Junk \notin Bytes \cup {Nul}
  /\ Spaces \subseteq Bytes /\ Blank \in Spaces

VARIABLES
  kind,      \* "strbuffer", or "string" for hn_str_append
  mem,       \* the block, by offset; what data points to
  len, cap,  \* the fields of struct strbuffer
  failed,
  ok,        \* what the last call answered
  pc,        \* "idle", or the loop or step a call is at
  call,      \* the call that needs room
  newCap,    \* new_cap
  r, w,      \* how far a loop over the text has read and written
  flag,      \* its `pending`, or the step over an escape
  held       \* the text before the loop began

loops == <<r, w, flag, held>>
vars == <<kind, mem, len, cap, failed, ok, pc, call, newCap, r, w, flag, held>>

Contents == Bytes \cup {Nul, Junk}
MaxOf(a, b) == IF a > b THEN a ELSE b
Plus(a, b) == IF a + b > SizeMax THEN a + b - SizeMax - 1 ELSE a + b

Empty == [i \in {0} |-> Nul]       \* hn_empty_buf
Text == [i \in 1 .. len |-> mem[i - 1]]

Calls == [op : {"reserve", "set", "add", "own"}, text : Seq(Bytes), at : Nat, want : Nat]
NoCall == [op |-> "reserve", text |-> <<>>, at |-> 0, want |-> 0]

\* The first n bytes of m and the terminator, in a block of size c.
Terminated(m, n, c) ==
  [i \in 0 .. (MaxOf(c, 1) - 1) |-> IF i < n THEN m[i] ELSE IF i = n THEN Nul ELSE Junk]

-----------------------------------------------------------------------------
(* Making room *)

\* The memmove of a call c of the block m, once there is room for n bytes
\* more than `at`: the new text, or the piece of the block at c.at.
Written(m, c, at, n) ==
  [i \in DOMAIN m |-> IF i < at \/ i >= at + n THEN m[i]
                      ELSE IF c.op = "own" THEN m[c.at + i - at] ELSE c.text[i - at + 1]]

\* Mutant of Write: the piece is read where it was before the reallocation.
WriteStale(m, b, c) ==
  LET at == IF b.op = "set" THEN 0 ELSE len
      to == IF b.op = "reserve" THEN len ELSE b.want
      new == IF b.op = "reserve" THEN m ELSE Written(m, b, at, to - at)
      stale == IF b.op = "own" /\ c # cap
               THEN [i \in DOMAIN new |-> IF i < at THEN new[i] ELSE Junk] ELSE new
  IN  /\ mem' = Terminated(stale, to, c)
      /\ len' = to
      /\ ok' = TRUE

\* What a call leaves when there is room in the block m of size c: strbuffer_set
\* begins at the first byte, adding at the terminator, reserving changes nothing.
\* The piece of an "own" call is looked up in m again.
Write(m, b, c) ==
  LET at == IF b.op = "set" THEN 0 ELSE len
      to == IF b.op = "reserve" THEN len ELSE b.want
      new == IF b.op = "reserve" THEN m ELSE Written(m, b, at, to - at)
  IN  /\ mem' = Terminated(new, to, c)
      /\ len' = to
      /\ ok' = TRUE

\* A call that cannot have its room: a strbuffer remembers it.
NoRoom ==
  /\ failed' = (kind = "strbuffer")
  /\ ok' = FALSE
  /\ UNCHANGED <<kind, mem, len, cap, loops>>

Idle == pc' = "idle" /\ call' = NoCall /\ newCap' = 0

\* strbuffer_make_room and strbuffer_reserve up to its loop, for a capacity
\* of base + extra; hn_str_append up to its loop.
Request(b, base, extra) ==
  LET want == Plus(base, extra)
      c    == [b EXCEPT !.want = want]
  IN  /\ pc = "idle"
      /\ \/ /\ failed \/ extra > SizeMax - base \/ want = SizeMax
            /\ NoRoom
            /\ UNCHANGED <<pc, call, newCap>>
         \/ /\ ~failed /\ extra <= SizeMax - base /\ want # SizeMax
            /\ want + 1 <= cap
            /\ Write(mem, c, cap)
            /\ UNCHANGED <<kind, cap, failed, pc, call, newCap, loops>>
         \/ /\ ~failed /\ extra <= SizeMax - base /\ want # SizeMax
            /\ want + 1 > cap
            /\ pc' = "grow" /\ call' = c
            /\ newCap' = IF cap = 0 THEN FirstCap ELSE cap
            /\ UNCHANGED <<kind, mem, len, cap, failed, ok, loops>>

\* Mutant of Grow: the sum is not looked at for wrapping.
GrowWrapping ==
  LET grown == Plus(newCap, newCap \div 2)
  IN  /\ pc = "grow"
      /\ IF newCap > call.want \/ grown = newCap
         THEN pc' = "realloc" /\ UNCHANGED newCap
         ELSE newCap' = grown /\ UNCHANGED pc
      /\ UNCHANGED <<kind, mem, len, cap, failed, ok, call, loops>>

\* One turn of the growth loop.  hn_str_append does not stop short of SizeMax.
Grow ==
  LET grown == Plus(newCap, newCap \div 2)
  IN  /\ pc = "grow"
      /\ IF newCap > call.want
         THEN pc' = "realloc" /\ UNCHANGED newCap
         ELSE IF grown <= newCap \/ (kind = "strbuffer" /\ grown > SizeMax - 1)
         THEN pc' = "realloc" /\ newCap' = call.want + 1
         ELSE newCap' = grown /\ UNCHANGED pc
      /\ UNCHANGED <<kind, mem, len, cap, failed, ok, call, loops>>

\* realloc, and the rest of the call.
Realloc ==
  LET moved == [i \in 0 .. (newCap - 1) |-> IF i < cap THEN mem[i] ELSE Junk]
  IN  /\ pc = "realloc"
      /\ cap' = newCap
      /\ Write([moved EXCEPT ![len] = Nul], call, newCap)
      /\ Idle
      /\ UNCHANGED <<kind, failed, loops>>
ReallocFails == pc = "realloc" /\ NoRoom /\ Idle

-----------------------------------------------------------------------------
(* The calls *)

\* What a string that hn_str_append is given may be: none, or one with its
\* terminator and no room to spare, as hn_str_append_str passes it.
Init ==
  /\ \/ kind = "strbuffer" /\ mem = Empty /\ len = 0 /\ cap = 0
     \/ /\ kind = "string"
        /\ \/ mem = Empty /\ len = 0 /\ cap = 0
           \/ mem = Empty /\ len = 0 /\ cap = 1
  /\ failed = FALSE
  /\ ok = TRUE
  /\ pc = "idle"
  /\ call = NoCall
  /\ newCap = 0
  /\ r = 0 /\ w = 0 /\ flag = FALSE /\ held = <<>>

New(op, t, at) == [op |-> op, text |-> t, at |-> at, want |-> 0]
IsBuffer == kind = "strbuffer"
Shrinks(m, n) ==
  /\ mem' = Terminated(m, n, cap)
  /\ len' = n
  /\ ok' = TRUE
  /\ UNCHANGED <<kind, cap, failed>>
Becomes(m, n) ==
  /\ pc = "idle"
  /\ Shrinks(m, n)
  /\ UNCHANGED <<pc, call, newCap, loops>>

\* strbuffer_reserve; strbuffer_init with a capacity is a release and this.
Reserve == \E n \in 0 .. SizeMax : IsBuffer /\ Request(New("reserve", <<>>, 0), 0, n)

\* strbuffer_set: the empty text resets, whether or not the buffer has failed.
Set(t) == IsBuffer /\ IF t = <<>> THEN Becomes(mem, 0) ELSE Request(New("set", t, 0), 0, Len(t))

\* strbuffer_add of a caller's text (strbuffer_add_byte, strbuffer_add_utf8) and
\* hn_str_append.  Adding nothing asks for no room, but of hn_str_append, which
\* needs it for the terminator.
Add(t) ==
  IF t = <<>> /\ IsBuffer THEN Becomes(mem, len)
  ELSE Request(New("add", t, 0), len, Len(t))

\* One byte, all there is with the terminator, and one more than that.
OwnLengths(at) == {1, len + 1 - at, len + 2 - at}

\* The same of n bytes at an offset of the buffer's own block.  More than is
\* there is refused without a trace.
AddOwn(at, n) ==
  IF kind = "string" /\ cap = 0 THEN FALSE
  ELSE IF n > len + 1 - at
  THEN /\ pc = "idle" /\ ok' = FALSE
       /\ UNCHANGED <<kind, mem, len, cap, failed, pc, call, newCap, loops>>
  ELSE Request(New("own", <<>>, at), len, n)

\* strbuffer_add_utf8 of what is no code point, and a null pointer.
AddInvalid == IsBuffer /\ pc = "idle" /\ NoRoom /\ UNCHANGED <<pc, call, newCap>>

\* strbuffer_reset is strbuffer_truncate to nothing.
Truncate(n) == IsBuffer /\ Becomes(mem, IF n < len THEN n ELSE len)

\* strbuffer_consume
Moved(n) == [i \in 0 .. (len - n) |-> mem[i + n]]
Consume(n) == IsBuffer /\ n > 0 /\ (IF n >= len THEN Becomes(mem, 0) ELSE Becomes(Moved(n), len - n))

-----------------------------------------------------------------------------
(* The loops over the text *)

Loop(name) ==
  /\ IsBuffer /\ pc = "idle"
  /\ pc' = name
  /\ r' = 0 /\ w' = (IF name = "trim_right" THEN len ELSE 0) /\ flag' = FALSE
  /\ held' = Text
  /\ UNCHANGED <<kind, mem, len, cap, failed, ok, call, newCap>>
Turn == UNCHANGED <<kind, len, cap, failed, ok, pc, call, newCap, held>>
EndLoop == pc' = "idle" /\ r' = 0 /\ w' = 0 /\ flag' = FALSE /\ held' = <<>> /\ UNCHANGED <<call, newCap>>

\* strbuffer_trim looks for the first byte that is no space, consumes what
\* comes before it and goes on as strbuffer_trim_right.
TrimStep ==
  /\ pc = "trim" /\ ~flag
  /\ \/ r < len /\ mem[r] \in Spaces /\ r' = r + 1 /\ Turn /\ UNCHANGED <<mem, w, flag>>
     \/ /\ ~(r < len /\ mem[r] \in Spaces)
        /\ Shrinks(Moved(r), len - r)
        /\ flag' = TRUE /\ r' = 0 /\ w' = len - r
        /\ UNCHANGED <<pc, call, newCap, held>>
TrimRightStep ==
  /\ pc = "trim_right" \/ (pc = "trim" /\ flag)
  /\ \/ w > 0 /\ mem[w - 1] \in Spaces /\ w' = w - 1 /\ Turn /\ UNCHANGED <<mem, r, flag>>
     \/ ~(w > 0 /\ mem[w - 1] \in Spaces) /\ Shrinks(mem, w) /\ EndLoop

\* One turn of strbuffer_squash_spaces or strbuffer_unescape that keeps a
\* byte: it is moved down to w.
Keeps(m, at) ==
  /\ mem' = [m EXCEPT ![at] = m[r]]
  /\ w' = at + 1 /\ r' = r + 1 /\ flag' = FALSE
  /\ Turn

SquashStep ==
  /\ pc = "squash"
  /\ \/ r < len /\ mem[r] \in Spaces /\ flag' = (w # 0) /\ r' = r + 1 /\ Turn /\ UNCHANGED <<mem, w>>
     \/ /\ r < len /\ mem[r] \notin Spaces
        /\ IF flag THEN Keeps([mem EXCEPT ![w] = Blank], w + 1) ELSE Keeps(mem, w)
     \/ r = len /\ Shrinks(mem, w) /\ EndLoop

\* An escape before punctuation is stepped over, and what follows is kept.
Escapes == r + 1 < len /\ mem[r] = Escape /\ mem[r + 1] \in Puncts
UnescapeStep ==
  /\ pc = "unescape"
  /\ \/ r < len /\ ~flag /\ Escapes /\ flag' = TRUE /\ r' = r + 1 /\ Turn /\ UNCHANGED <<mem, w>>
     \/ r < len /\ (flag \/ ~Escapes) /\ Keeps(mem, w)
     \/ r = len /\ Shrinks(mem, w) /\ EndLoop

-----------------------------------------------------------------------------
\* strbuffer_release, and strbuffer_steal, which also releases: it answers no
\* when the buffer has failed or no empty string can be allocated.
Steal ==
  /\ IsBuffer /\ pc = "idle"
  /\ mem' = Empty /\ len' = 0 /\ cap' = 0 /\ failed' = FALSE
  /\ ok' \in IF failed THEN {FALSE} ELSE IF cap = 0 THEN BOOLEAN ELSE {TRUE}
  /\ UNCHANGED <<kind, pc, call, newCap, loops>>

Next ==
  \/ Reserve
  \/ \E t \in Texts : Set(t) \/ Add(t)
  \/ \E at \in 0 .. len : \E n \in OwnLengths(at) : AddOwn(at, n)
  \/ AddInvalid
  \/ \E n \in 0 .. (len + 1) : Truncate(n) \/ Consume(n)
  \/ \E name \in {"trim", "trim_right", "squash", "unescape"} : Loop(name)
  \/ TrimStep \/ TrimRightStep \/ SquashStep \/ UnescapeStep
  \/ Steal
  \/ Grow \/ Realloc \/ ReallocFails

Spec == Init /\ [][Next]_vars

-----------------------------------------------------------------------------
(* Properties *)

TypeOK ==
  /\ kind \in {"strbuffer", "string"}
  /\ cap \in 0 .. SizeMax /\ len \in 0 .. SizeMax
  /\ mem \in [0 .. (MaxOf(cap, 1) - 1) -> Contents]
  /\ failed \in BOOLEAN /\ ok \in BOOLEAN
  /\ pc \in {"idle", "grow", "realloc", "trim", "trim_right", "squash", "unescape"}
  /\ call \in Calls
  /\ newCap \in 0 .. SizeMax
  /\ r \in 0 .. len /\ w \in 0 .. len /\ flag \in BOOLEAN
  /\ held \in Seq(Contents)

\* Every write stays in the block: the text and its terminator always fit
\* the capacity the buffer has, and when the memory for a call is asked for,
\* the capacity to be is enough for what the call will write, wherever the
\* growth by half ended and however near SIZE_MAX it came.
RoomForTerminator ==
  /\ len < MaxOf(cap, 1)
  /\ mem[len] = Nul
  /\ pc = "realloc" => call.want < newCap /\ cap < newCap

\* The buffer holds the text its calls have made: a piece of itself that is
\* added while the block moves, an addition that fails half way, a loop that
\* overwrites what it has read and a failure remembered included.
InLoop == pc \in {"trim", "trim_right", "squash", "unescape"}
AsText == INSTANCE TextBuffer WITH text <- IF InLoop THEN held ELSE Text,
                                   doing <- IF InLoop THEN pc ELSE "idle"
HoldsText == AsText!Spec

=============================================================================
