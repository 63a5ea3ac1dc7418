--------------------------- MODULE SegmentLattice ---------------------------
(***************************************************************************)
(* The segment positions of one eojeol (segment_position.c), the reversed  *)
(* suffix trie over them (simti.c) and the operation that extends both     *)
(* (morpheme_chart_alt_segment).                                           *)
(*                                                                         *)
(* A position holds one jamo and a link to the position that follows it;   *)
(* position 0 is the start of the word, and link 0 is the end of a text.   *)
(* The chart walks those links with `for (to = from; to != 0; ...)` loops, *)
(* so a cycle would be an infinite loop, and a wrong link a wrong text.    *)
(*                                                                         *)
(* The trie maps a reversed suffix to the position where that suffix       *)
(* starts.  It is modelled by the function simti from the suffixes it has  *)
(* a node for (not reversed) to the node's info, 0 standing for "none", as *)
(* in the code.  Both live for one eojeol, so InitWord happens once.       *)
(***************************************************************************)
EXTENDS Integers, Sequences, FiniteSets

CONSTANTS
  Keys,         \* the jamo a position can hold
  StartKey,     \* HANNANUM_POSITION_START_KEY, the key of position 0
  Words,        \* the words an analysis may start from
  Segments,     \* the changed suffixes the phoneme rules may ask for
  MaxSegment    \* HANNANUM_MAX_SEGMENT, the size of positions[]

ASSUME LatticeAssumption ==
  /\ MaxSegment \in Nat \ {0}
  /\ StartKey \notin Keys
  /\ Words \subseteq Seq(Keys)
  /\ Segments \subseteq Seq(Keys)

VARIABLES
  positionEnd,  \* position_end: how many of the positions are in use
  key,          \* positions[p].key
  next,         \* positions[p].next_position
  simti,        \* the trie: suffix |-> info
  started       \* "fresh", "ready" or "failed": what init_word has returned

vars == <<positionEnd, key, next, simti, started>>

Slots == 0 .. (MaxSegment - 1)

\* The last n elements of w, and the suffixes of w a trie path goes through.
Suffix(w, n) == SubSeq(w, Len(w) - n + 1, Len(w))
Suffixes(w) == { Suffix(w, n) : n \in 1 .. Len(w) }

AtMost(a, b) == IF a <= b THEN a ELSE b

-----------------------------------------------------------------------------
(* The trie *)

\* simti_search: the path stops at the first missing child, and its length
\* is the length of the longest suffix of w the trie has a node for.
SearchLength(w) ==
  Cardinality({ n \in 1 .. Len(w) :
                  \A m \in 1 .. n : Suffix(w, m) \in DOMAIN simti })

\* simti_fetch: the info of the node, 0 when there is no such node.
Fetch(w) == IF w \in DOMAIN simti THEN simti[w] ELSE 0

\* Mutant of InsertSuffixes: the infos are given from the shortest suffix on.
InsertSuffixesReversed(w, count, base) ==
  [ s \in DOMAIN simti \cup (IF count = 0 THEN {} ELSE Suffixes(w)) |->
      IF Fetch(s) # 0 THEN Fetch(s)
      ELSE IF s \in Suffixes(w) /\ Len(s) > Len(w) - count
           THEN base + Len(s) - (Len(w) - count) - 1
           ELSE 0 ]

\* simti_insert of the suffixes of w that begin at one of its first `count`
\* elements, the i-th with info base + i - 1.  Every insertion also creates
\* the nodes of the shorter suffixes, with info 0, and an info that is set
\* is never replaced.
InsertSuffixes(w, count, base) ==
  [ s \in DOMAIN simti \cup (IF count = 0 THEN {} ELSE Suffixes(w)) |->
      IF Fetch(s) # 0 THEN Fetch(s)
      ELSE IF s \in Suffixes(w) /\ Len(s) > Len(w) - count
           THEN base + (Len(w) - Len(s))
           ELSE 0 ]

-----------------------------------------------------------------------------
(* The positions *)

\* segment_position_add `count` times for the first elements of w, each
\* linked to the following one and the last to `tail` (segment_position_set_link).
AddedKeys(w, count, keys) ==
  [ p \in Slots |-> IF p \in positionEnd .. (positionEnd + count - 1)
                    THEN w[p - positionEnd + 1] ELSE keys[p] ]

\* Mutant of AddedLinks: the first link is set one position too early.
AddedLinksFromPrevious(count, tail, links) ==
  [ p \in Slots |-> IF p \in (positionEnd - 1) .. (positionEnd + count - 2) THEN p + 1
                    ELSE IF p = positionEnd + count - 1 /\ count > 0 THEN tail
                    ELSE links[p] ]
AddedLinks(count, tail, links) ==
  [ p \in Slots |-> IF p \in positionEnd .. (positionEnd + count - 2) THEN p + 1
                    ELSE IF p = positionEnd + count - 1 /\ count > 0 THEN tail
                    ELSE links[p] ]

Init ==
  /\ positionEnd = 0
  /\ key = [p \in Slots |-> StartKey]
  /\ next = [p \in Slots |-> 0]
  /\ simti = [s \in {} |-> 0]
  /\ started = "fresh"

\* segment_position_init_from_triple_with_simti: the start position, then one
\* position per jamo, and every suffix of the word in the trie.  It gives up
\* when a word does not fit, with what it has added so far left in place.
InitWord(w) ==
  LET count == AtMost(Len(w), MaxSegment - 1)
  IN  /\ started = "fresh"
      /\ started' = IF count = Len(w) THEN "ready" ELSE "failed"
      /\ positionEnd' = count + 1
      /\ key' = [ p \in Slots |-> IF p \in 1 .. count THEN w[p] ELSE StartKey ]
      /\ next' = [ p \in Slots |-> IF p < count THEN p + 1 ELSE 0 ]
      /\ simti' = InsertSuffixes(w, count, 1)

\* morpheme_chart_alt_segment: positions for the part of the segment the trie
\* does not know yet, linked to the known rest.  When the positions run out
\* half way it returns 0, with the positions and the trie entries it has
\* already made left in place and the last of them still linked to 0.
AltSegment(w) ==
  LET match == SearchLength(w)
      to    == IF match = 0 THEN 0 ELSE Fetch(Suffix(w, match))
      count == AtMost(Len(w) - match, MaxSegment - positionEnd)
  IN  /\ started = "ready"
      /\ w # <<>>
      /\ positionEnd' = positionEnd + count
      /\ key' = AddedKeys(w, count, key)
      /\ next' = AddedLinks(count, IF count = Len(w) - match THEN to ELSE 0, next)
      /\ simti' = InsertSuffixes(w, count, positionEnd)
      /\ UNCHANGED started

Next ==
  \/ \E w \in Words : InitWord(w)
  \/ \E w \in Segments : AltSegment(w)

Spec == Init /\ [][Next]_vars

-----------------------------------------------------------------------------
\* chart_remaining_from_position: the text of the positions from p on.
Remaining(p) ==
  LET walk[fuel \in 0 .. MaxSegment] ==
        IF fuel = 0 THEN [q \in Slots |-> <<>>]
        ELSE [q \in Slots |-> IF q = 0 THEN <<>> ELSE <<key[q]>> \o walk[fuel - 1][next[q]]]
  IN  walk[MaxSegment][p]

IsPrefixOf(s, w) == Len(s) <= Len(w) /\ s = SubSeq(w, 1, Len(s))

(* Properties *)

\* The arrays keep their shape, links and infos name positions in use.
TypeOK ==
  /\ positionEnd \in 0 .. MaxSegment
  /\ key \in [Slots -> Keys \cup {StartKey}]
  /\ next \in [Slots -> Slots]
  /\ DOMAIN simti \subseteq Seq(Keys) \ {<<>>}
  /\ simti \in [DOMAIN simti -> Slots]
  /\ \A p \in Slots : next[p] = 0 \/ next[p] < positionEnd
  /\ \A s \in DOMAIN simti : simti[s] = 0 \/ simti[s] < positionEnd
  /\ started \in {"fresh", "ready", "failed"}
  /\ (started = "fresh") <=> (positionEnd = 0)

\* No set of positions is closed under the links, so every walk of the form
\* `for (to = from; to != 0; to = next)` in morpheme_chart.c ends, whatever
\* segments the rules ask for and also after the positions have run out.
LinksEnd ==
  \A S \in SUBSET (1 .. (positionEnd - 1)) :
    S # {} => \E p \in S : next[p] \notin S

\* The trie tells the truth.  While a position is still free, each suffix it
\* knows has a position, which holds its first jamo and is linked to the
\* position of the rest, so alt_segment returns a position whose text is the
\* segment that was asked for.  Also when the positions have run out half way
\* through a segment, the text from a position the trie names is never
\* another text: at worst it stops short of the suffix it was made for.
TrieTellsTruth ==
  /\ positionEnd < MaxSegment =>
       \A s \in DOMAIN simti :
         /\ simti[s] # 0
         /\ key[simti[s]] = s[1]
         /\ IF Len(s) = 1 THEN next[simti[s]] = 0
            ELSE /\ Tail(s) \in DOMAIN simti
                 /\ next[simti[s]] = simti[Tail(s)]
  /\ \A s \in DOMAIN simti :
       simti[s] # 0 => IsPrefixOf(Remaining(simti[s]), s)

\* What has been handed out stays: no later segment changes the jamo or the
\* link of a position in use, or the position of a suffix, although chart
\* nodes made earlier remember positions by their number.
HandedOutStays ==
  [][ /\ \A p \in 0 .. (positionEnd - 1) : key'[p] = key[p] /\ next'[p] = next[p]
      /\ \A s \in DOMAIN simti :
           s \in DOMAIN simti' /\ (simti[s] # 0 => simti'[s] = simti[s]) ]_vars

=============================================================================
