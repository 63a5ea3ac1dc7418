----------------------------- MODULE TextBuffer -----------------------------
(***************************************************************************)
(* What a text buffer promises its callers: the text is what the calls     *)
(* that answered yes have made of it, a call that answers no has left it   *)
(* alone, and a buffer that has run out of memory or of numbers stays that *)
(* way until it is released.  Strbuffer implements it.                     *)
(***************************************************************************)
EXTENDS Integers, Sequences

CONSTANTS Bytes, Nul, Spaces, Blank, Escape, Puncts, Texts

VARIABLES
  text,
  failed,    \* the buffer has run out of memory or of numbers
  ok,        \* what the last call answered
  doing      \* the transformation of the text that is under way, or "idle"

vars == <<text, failed, ok, doing>>

Init == text = <<>> /\ failed = FALSE /\ ok = TRUE /\ doing = "idle"

Becomes(t) == text' = t /\ ok' = TRUE /\ doing' = "idle" /\ UNCHANGED failed

\* Only a buffer that has not failed takes bytes; the empty text needs no room.
Set(t) == (failed => t = <<>>) /\ Becomes(t)
Add(t) == ~failed /\ Becomes(text \o t)

\* A piece of the buffer itself may be added, its terminator included.
AddOwn(i, n) == ~failed /\ Becomes(text \o SubSeq(text \o <<Nul>>, i, i + n - 1))

NoRoom == failed' = TRUE /\ ok' = FALSE /\ UNCHANGED <<text, doing>>
Refused == ok' = FALSE /\ UNCHANGED <<text, failed, doing>>
Release == text' = <<>> /\ failed' = FALSE /\ ok' \in BOOLEAN /\ UNCHANGED doing

Prefix(n) == SubSeq(text, 1, n)
Rest(n) == SubSeq(text, n + 1, Len(text))

Solid(t) == { i \in 1 .. Len(t) : t[i] \notin Spaces }
First(S) == CHOOSE i \in S : \A j \in S : i <= j
Last(S) == CHOOSE i \in S : \A j \in S : i >= j

TrimmedRight(t) == IF Solid(t) = {} THEN <<>> ELSE SubSeq(t, 1, Last(Solid(t)))
Trimmed(t) == IF Solid(t) = {} THEN <<>> ELSE SubSeq(t, First(Solid(t)), Last(Solid(t)))

\* The words of the text with one space between them: a space stays when it
\* is the last one before a word that is not the first.
Squashed(t) ==
  LET stays(i) == \/ i \in Solid(t)
                  \/ i + 1 \in Solid(t) /\ \E j \in Solid(t) : j < i
      from[i \in 1 .. (Len(t) + 1)] ==
        IF i > Len(t) THEN <<>>
        ELSE (IF i \in Solid(t) THEN <<t[i]>> ELSE IF stays(i) THEN <<Blank>> ELSE <<>>) \o from[i + 1]
  IN  from[1]

\* An escape goes when it stands before punctuation and is not escaped itself.
Unescaped(t) ==
  LET escapes[i \in 0 .. Len(t)] ==
        i \in 1 .. (Len(t) - 1) /\ t[i] = Escape /\ t[i + 1] \in Puncts /\ ~escapes[i - 1]
      from[i \in 1 .. (Len(t) + 1)] ==
        IF i > Len(t) THEN <<>> ELSE (IF escapes[i] THEN <<>> ELSE <<t[i]>>) \o from[i + 1]
  IN  from[1]

Transformed(name) ==
  CASE name = "trim" -> Trimmed(text)
    [] name = "trim_right" -> TrimmedRight(text)
    [] name = "squash" -> Squashed(text)
    [] name = "unescape" -> Unescaped(text)

Begins == doing' \in {"trim", "trim_right", "squash", "unescape"} /\ UNCHANGED <<text, failed, ok>>
Goes == ok' = TRUE /\ UNCHANGED <<text, failed, doing>>
Ends == Becomes(Transformed(doing))

Next ==
  \/ /\ doing = "idle"
     /\ \/ \E t \in Texts : Set(t) \/ Add(t)
        \/ \E i, n \in 1 .. (Len(text) + 1) : i + n <= Len(text) + 2 /\ AddOwn(i, n)
        \/ \E n \in 0 .. Len(text) : Becomes(Prefix(n)) \/ Becomes(Rest(n))
        \/ NoRoom \/ Refused \/ Release
        \/ Begins
  \/ doing # "idle" /\ (Goes \/ Ends)

Spec == Init /\ [][Next]_vars

=============================================================================
