--------------------------- MODULE MorphemeChart ----------------------------
(***************************************************************************)
(* The chart analysis of one eojeol: morpheme_chart.c with its driver      *)
(* chart_candidates_for in chart_morph_analyzer.c.                         *)
(*                                                                         *)
(* A chart node is one reading of the text between two segment positions:  *)
(* a tag, the position after it (0 at the end of the text), and the tag    *)
(* type it asks of what follows.  The analysis visits a node, fills the    *)
(* position after it (dictionary scan, then phoneme rules), descends into  *)
(* the nodes found there and connects the visited node to those that       *)
(* succeeded.  The recursion is an explicit stack of frames here, so that  *)
(* every state in which one visit reads what another is still computing    *)
(* can be looked at.                                                       *)
(*                                                                         *)
(* What a scan finds at a position and what the rules derive there is data *)
(* the properties do not look into: `lexicon` and `rules` are chosen in    *)
(* Init and fixed.  The rules look at the end of the visiting node's text, *)
(* so what they derive depends on the visiting node (here, on its tag),    *)
(* and only the first node that visits a position gets to ask.  The links  *)
(* between positions come from SegmentLattice.                             *)
(***************************************************************************)
EXTENDS Integers, Sequences, FiniteSets, SequencesExt

CONSTANTS
  Positions,    \* segment positions, 0 .. something
  Chain,        \* segment_position_next
  Tags,         \* morpheme tags, the two below included
  IwgTag,       \* "iwg", the tag of the start node
  UnkTag,       \* "unk", the tag of an unknown morpheme
  TagTypes,     \* [tag type -> set of tags], check_tag_type; no set that
                \* set_tag_types_kaist makes has "unk"
  All,          \* HANNANUM_TAG_TYPE_ALL, the type that accepts every tag
  Connects,     \* the pairs of tags chart_connection_check accepts
  Lexicons,     \* choices of lexicon
  RuleSets,     \* choices of rules
  Parens,       \* choices of dictionary words in parentheses before the word
  MaxChart,     \* HANNANUM_MAX_MORPHEME_CHART
  MaxConn,      \* HANNANUM_MAX_MORPHEME_CONNECTION
  MaxMorph,     \* HANNANUM_MAX_MORPHEME_COUNT
  MaxDepth,     \* HANNANUM_MAX_ANALYZE_DEPTH
  MaxCandidates,\* HANNANUM_MAX_EOJEOL_CANDIDATES
  MaxPass       \* the passes of chart_candidates_for (8 in the code)

Types == {All} \cup DOMAIN TagTypes
Readings == [tag : Tags, next : Positions, type : Types]

ASSUME ChartAssumption ==
  /\ {0, 1} \subseteq Positions /\ Positions \subseteq Nat /\ IsFiniteSet(Positions)
  /\ Chain \in [Positions -> Positions]
  /\ {IwgTag, UnkTag} \subseteq Tags
  /\ All \notin DOMAIN TagTypes
  /\ \A t \in DOMAIN TagTypes : TagTypes[t] \subseteq Tags \ {UnkTag}
  /\ Connects \subseteq Tags \X Tags
  /\ Lexicons \subseteq [Positions -> Seq(Readings)]
  /\ RuleSets \subseteq [Positions -> [Tags -> Seq(Readings)]]
  /\ Parens \subseteq Seq(Readings)
  /\ {MaxChart, MaxConn, MaxMorph, MaxDepth, MaxCandidates, MaxPass} \subseteq Nat \ {0}

VARIABLES
  lexicon,      \* what a dictionary scan finds at each position
  rules,        \* what the phoneme rules derive there, by visiting tag
  nodes,        \* chart->nodes[0 .. chart_end - 1]
  posState,     \* positions[p].state
  morphs,       \* positions[p].morpheme[]
  stack,        \* the frames of morpheme_chart_analyze_with_callbacks
  phase,        \* where chart_candidates_for is
  pass,         \* passes started in the present loop
  resultCount,  \* result_count
  fellBack,     \* the unknown-morpheme fallback has been taken
  candidates    \* the paths collect_results has enumerated

vars == <<lexicon, rules, nodes, posState, morphs, stack, phase, pass,
          resultCount, fellBack, candidates>>

Ids == DOMAIN nodes
ChartEnd == Cardinality(Ids)

NewNode(r) == [tag |-> r.tag, next |-> r.next, type |-> r.type,
               state |-> "INCOMPLETE", conn |-> <<>>]
ReadingOf(n) == [tag |-> n.tag, next |-> n.next, type |-> n.type]

\* check_tag_type
TagTypeOK(type, tag) == tag \in (IF type = All THEN Tags ELSE TagTypes[type])

-----------------------------------------------------------------------------
(* Filling a position *)

\* Mutant of AddReading: nothing stops at MaxMorph.
AddReadingUncapped(c, r) ==
  LET known == \E i \in 1 .. Len(c[2]) : ReadingOf(c[1][c[2][i]]) = r
      id    == Cardinality(DOMAIN c[1])
  IN  IF known \/ id >= MaxChart THEN c
      ELSE << [i \in 0 .. id |-> IF i = id THEN NewNode(r) ELSE c[1][i]], Append(c[2], id) >>

\* The reading r is added to a chart c = <<nodes, morpheme list>> of a
\* position: morpheme_chart_check, the two caps, morpheme_chart_add.
AddReading(c, r) ==
  LET known == \E i \in 1 .. Len(c[2]) : ReadingOf(c[1][c[2][i]]) = r
      id    == Cardinality(DOMAIN c[1])
  IN  IF known \/ Len(c[2]) >= MaxMorph \/ id >= MaxChart THEN c
      ELSE << [i \in 0 .. id |-> IF i = id THEN NewNode(r) ELSE c[1][i]],
              Append(c[2], id) >>

\* The readings are added to position p one after the other.
Fill(p, readings) ==
  LET filled[k \in 0 .. Len(readings)] ==
        IF k = 0 THEN <<nodes, morphs[p]>>
        ELSE LET c == filled[k - 1] IN AddReading(c, readings[k])
  IN  filled[Len(readings)]

-----------------------------------------------------------------------------
(* The stack *)

Frame(n, type) == [node |-> n, type |-> type, at |-> "enter", i |-> 1, x |-> 0]
Top == stack[Len(stack)]
At(place) == stack # <<>> /\ Top.at = place
Here == nodes[Top.node].next        \* the position the visit is about
SetTop(f) == [stack EXCEPT ![Len(stack)] = f]

\* The loop of process_r_state goes on to the next morpheme, having added up
\* y connections.
Counted(f, y) == [f EXCEPT !.at = "loop", !.i = @ + 1, !.x = @ + y]

\* The visit on top of the stack returns y = Len(ns[node].conn).  Its
\* caller, the loop of process_r_state, adds it up and settles the node.
Return(ns) ==
  LET n     == Top.node
      y     == Len(ns[n].conn)
      below == Len(stack) - 1
  IN  /\ stack' = IF below = 0 THEN <<>>
                  ELSE [SubSeq(stack, 1, below) EXCEPT ![below] = Counted(@, y)]
      /\ nodes' = IF below = 0 THEN ns
                  ELSE [ns EXCEPT ![n].state = IF y # 0 THEN "SUCCESS" ELSE "FAIL"]
      /\ IF below = 0
         THEN IF y = resultCount \/ pass = MaxPass
              THEN phase' = IF y = 0 /\ ~fellBack THEN "unknown" ELSE "collect"
              ELSE phase' = "pass"
         ELSE UNCHANGED phase
      /\ resultCount' = IF below = 0 THEN y ELSE resultCount
      /\ UNCHANGED <<lexicon, rules, morphs, pass, fellBack, candidates>>

\* morpheme_chart_add_connection
AddConnection(conn, j) == IF Len(conn) < MaxConn THEN Append(conn, j) ELSE conn

\* Mutants of Connected: the state of the other node, and the connection
\* rules, are not looked at.
ConnectedToAnyState(n, p) ==
  LET takes(j) == <<nodes[n].tag, nodes[j].tag>> \in Connects
      conn[k \in 0 .. Len(morphs[p])] ==
        IF k = 0 THEN nodes[n].conn
        ELSE LET c == conn[k - 1]
             IN  IF takes(morphs[p][k]) THEN AddConnection(c, morphs[p][k]) ELSE c
  IN  [nodes EXCEPT ![n].conn = conn[Len(morphs[p])]]
ConnectedToAnyTag(n, p) ==
  LET takes(j) == nodes[j].state = "SUCCESS"
      conn[k \in 0 .. Len(morphs[p])] ==
        IF k = 0 THEN nodes[n].conn
        ELSE LET c == conn[k - 1]
             IN  IF takes(morphs[p][k]) THEN AddConnection(c, morphs[p][k]) ELSE c
  IN  [nodes EXCEPT ![n].conn = conn[Len(morphs[p])]]

\* morpheme_chart_connect_m_state for the visited node n.
Connected(n, p) ==
  LET takes(j) == nodes[j].state = "SUCCESS" /\ <<nodes[n].tag, nodes[j].tag>> \in Connects
      conn[k \in 0 .. Len(morphs[p])] ==
        IF k = 0 THEN nodes[n].conn
        ELSE LET c == conn[k - 1]
             IN  IF takes(morphs[p][k]) THEN AddConnection(c, morphs[p][k]) ELSE c
  IN  [nodes EXCEPT ![n].conn = conn[Len(morphs[p])]]

-----------------------------------------------------------------------------
(* morpheme_chart_init_word: position 0 holds the start node, and the chart *)
(* is about to look for a dictionary word in parentheses.                   *)
Init ==
  /\ lexicon \in Lexicons
  /\ rules \in RuleSets
  /\ nodes = [i \in {0} |-> [tag |-> IwgTag, next |-> 1, type |-> All,
                             state |-> "SUCCESS", conn |-> <<>>]]
  /\ posState = [p \in Positions |-> IF p = 0 THEN "M" ELSE "N"]
  /\ morphs = [p \in Positions |-> IF p = 0 THEN <<0>> ELSE <<>>]
  /\ stack = <<>>
  /\ phase = "prefix"
  /\ pass = 0
  /\ resultCount = 0
  /\ fellBack = FALSE
  /\ candidates = <<>>

\* chart_add_parenthesized_prefix: finding one keeps the dictionaries from
\* being scanned at position 1.
ParenthesizedPrefix(prefix) ==
  LET filled == Fill(1, prefix)
  IN  /\ phase = "prefix"
      /\ nodes' = filled[1]
      /\ morphs' = [morphs EXCEPT ![1] = filled[2]]
      /\ posState' = [posState EXCEPT ![1] = IF filled[2] # morphs[1] THEN "D" ELSE @]
      /\ phase' = "pass"
      /\ UNCHANGED <<lexicon, rules, stack, pass, resultCount, fellBack, candidates>>

\* One turn of the pass loop calls the analysis of the start node.
StartPass ==
  /\ phase = "pass"
  /\ stack = <<>>
  /\ stack' = <<Frame(0, All)>>
  /\ pass' = pass + 1
  /\ phase' = "visit"
  /\ UNCHANGED <<lexicon, rules, nodes, posState, morphs, resultCount, fellBack, candidates>>

\* morpheme_chart_scan_dictionaries
ScanDictionaries ==
  LET filled == Fill(Here, lexicon[Here])
  IN  /\ At("enter")
      /\ posState[Here] = "N"
      /\ nodes' = filled[1]
      /\ morphs' = [morphs EXCEPT ![Here] = filled[2]]
      /\ posState' = [posState EXCEPT ![Here] = "D"]
      /\ UNCHANGED <<lexicon, rules, stack, phase, pass, resultCount, fellBack, candidates>>

\* Mutant of ExpandRules: a position the rules add nothing to stays in D.
ExpandRulesOnlyIfAdded ==
  LET filled == Fill(Here, rules[Here][nodes[Top.node].tag])
  IN  /\ At("enter")
      /\ posState[Here] = "D"
      /\ nodes' = filled[1]
      /\ morphs' = [morphs EXCEPT ![Here] = filled[2]]
      /\ posState' = [posState EXCEPT ![Here] = IF filled[2] = morphs[Here] THEN "D" ELSE "R"]
      /\ UNCHANGED <<lexicon, rules, stack, phase, pass, resultCount, fellBack, candidates>>

\* morpheme_chart_expand_d_state: the rules see the node that visits now.
ExpandRules ==
  LET filled == Fill(Here, rules[Here][nodes[Top.node].tag])
  IN  /\ At("enter")
      /\ posState[Here] = "D"
      /\ nodes' = filled[1]
      /\ morphs' = [morphs EXCEPT ![Here] = filled[2]]
      /\ posState' = [posState EXCEPT ![Here] = "R"]
      /\ UNCHANGED <<lexicon, rules, stack, phase, pass, resultCount, fellBack, candidates>>

\* morpheme_chart_process_r_state begins.
EnterR ==
  /\ At("enter")
  /\ posState[Here] = "R"
  /\ stack' = SetTop([Top EXCEPT !.at = "loop"])
  /\ UNCHANGED <<lexicon, rules, nodes, posState, morphs, phase, pass, resultCount,
                 fellBack, candidates>>

\* A position that is already analysed for every tag is only connected to,
\* and one where nothing fits is not even that.
EnterM == At("enter") /\ posState[Here] = "M" /\ Return(Connected(Top.node, Here))
               /\ UNCHANGED posState
EnterF == At("enter") /\ posState[Here] = "F" /\ Return(nodes) /\ UNCHANGED posState

InLoop == At("loop") /\ Top.i <= Len(morphs[Here])
Current == morphs[Here][Top.i]

\* Mutant of PassOver: a node that has been visited is not counted.
PassOverUncounted ==
  /\ InLoop
  /\ \/ ~TagTypeOK(Top.type, nodes[Current].tag)
     \/ nodes[Current].state # "INCOMPLETE"
  /\ stack' = SetTop([Top EXCEPT !.i = @ + 1])
  /\ UNCHANGED <<lexicon, rules, nodes, posState, morphs, phase, pass, resultCount,
                 fellBack, candidates>>

\* A node of another tag type is passed over, and one that has been visited,
\* or is being visited further down the stack, only counts.
PassOver ==
  /\ InLoop
  /\ \/ ~TagTypeOK(Top.type, nodes[Current].tag)
     \/ nodes[Current].state # "INCOMPLETE"
  /\ stack' = SetTop([Top EXCEPT !.i = @ + 1,
                        !.x = @ + IF TagTypeOK(Top.type, nodes[Current].tag)
                                  THEN Len(nodes[Current].conn) ELSE 0])
  /\ UNCHANGED <<lexicon, rules, nodes, posState, morphs, phase, pass, resultCount,
                 fellBack, candidates>>

\* Mutant of Unvisited: a node that has been visited is visited again.
RevisitsAny == InLoop /\ TagTypeOK(Top.type, nodes[Current].tag)

Unvisited == InLoop /\ TagTypeOK(Top.type, nodes[Current].tag)
                    /\ nodes[Current].state = "INCOMPLETE"

\* Mutants of Descend: the node is marked SUCCESS, or not marked.
DescendMarkingSuccess ==
  /\ Unvisited
  /\ Len(stack) <= MaxDepth
  /\ nodes' = [nodes EXCEPT ![Current].state = "SUCCESS"]
  /\ stack' = Append(SetTop([Top EXCEPT !.at = "await"]),
                     Frame(Current, nodes[Current].type))
  /\ UNCHANGED <<lexicon, rules, posState, morphs, phase, pass, resultCount,
                 fellBack, candidates>>
DescendUnmarked ==
  /\ Unvisited
  /\ Len(stack) <= MaxDepth
  /\ stack' = Append(SetTop([Top EXCEPT !.at = "await"]),
                     Frame(Current, nodes[Current].type))
  /\ UNCHANGED <<lexicon, rules, nodes, posState, morphs, phase, pass, resultCount,
                 fellBack, candidates>>

\* An unvisited node is marked FAIL before the visit descends into it.
Descend ==
  /\ Unvisited
  /\ Len(stack) <= MaxDepth
  /\ nodes' = [nodes EXCEPT ![Current].state = "FAIL"]
  /\ stack' = Append(SetTop([Top EXCEPT !.at = "await"]),
                     Frame(Current, nodes[Current].type))
  /\ UNCHANGED <<lexicon, rules, posState, morphs, phase, pass, resultCount,
                 fellBack, candidates>>

\* morpheme_chart_recurse_adapter refuses to go deeper than MaxDepth.
RefuseDepth ==
  /\ Unvisited
  /\ Len(stack) > MaxDepth
  /\ nodes' = [nodes EXCEPT ![Current].state = "FAIL"]
  /\ stack' = SetTop([Top EXCEPT !.i = @ + 1])
  /\ UNCHANGED <<lexicon, rules, posState, morphs, phase, pass, resultCount,
                 fellBack, candidates>>

\* The loop is over.  A visit for every tag type settles the position; any
\* visit then connects its node, unless the position has come to nothing.
EndLoop ==
  LET settled == IF Top.type # All THEN posState[Here]
                 ELSE IF Top.x = 0 THEN "F" ELSE "M"
  IN  /\ At("loop")
      /\ Top.i > Len(morphs[Here])
      /\ posState' = [posState EXCEPT ![Here] = settled]
      /\ Return(IF settled = "F" THEN nodes ELSE Connected(Top.node, Here))

-----------------------------------------------------------------------------
(* After the passes *)

\* morpheme_chart_analyze_unknown: without morpheme_chart_check, and a node
\* the position has no room for stays in the chart.
AddUnknown(c, p) ==
  LET id == Cardinality(DOMAIN c[1])
      r  == [tag |-> UnkTag, next |-> Chain[p], type |-> All]
  IN  IF id >= MaxChart THEN c
      ELSE << [i \in 0 .. id |-> IF i = id THEN NewNode(r) ELSE c[1][i]],
              IF Len(c[2]) < MaxMorph THEN Append(c[2], id) ELSE c[2] >>

\* The chart and the position after k turns of its loop, which goes along the
\* links from position 1 on until they end.
Unknowns ==
  LET turn[k \in 0 .. Cardinality(Positions)] ==
        IF k = 0 THEN [chart |-> <<nodes, morphs[1]>>, p |-> 1]
        ELSE LET t == turn[k - 1]
             IN  IF t.p = 0 THEN t ELSE [chart |-> AddUnknown(t.chart, t.p), p |-> Chain[t.p]]
  IN  turn[Cardinality(Positions)].chart

AnalyzeUnknown ==
  LET filled == Unknowns
      added  == filled[2] # morphs[1]
  IN  /\ phase = "unknown"
      /\ nodes' = [filled[1] EXCEPT ![0].conn = <<>>]
      /\ morphs' = [morphs EXCEPT ![1] = filled[2]]
      /\ posState' = IF added THEN [posState EXCEPT ![1] = "R"] ELSE posState
      /\ phase' = IF added THEN "pass" ELSE "collect"
      /\ fellBack' = TRUE
      /\ pass' = 0
      /\ UNCHANGED <<lexicon, rules, stack, resultCount, candidates>>

\* morpheme_chart_collect_results_rec, as a function of the candidates found
\* so far: the loop over the connections of the last node of a path, by how
\* many are left.  A connection to the start node ends the path, which is one
\* more; deeper is what comes of a longer path.  It stops when there are
\* enough.
Collected(path, deeper) ==
  LET conn     == nodes[path[Len(path)]].conn
      to(left) == conn[Len(conn) - left + 1]
      loop[left \in 0 .. Len(conn)] ==
        [found \in Seq(Seq(Nat)) |->
           IF left = 0 \/ Len(found) >= MaxCandidates THEN found
           ELSE loop[left - 1][IF to(left) = 0 THEN Append(found, path)
                               ELSE deeper[Append(path, to(left))][found]]]
  IN  loop[Len(conn)]

\* morpheme_chart_collect_results: the paths from the start node to the
\* start node, depth first.  A path longer than the chart is given up
\* (ConnectionsAcyclic: there is none).
Paths ==
  LET search[room \in 0 .. ChartEnd] ==
        [path \in Seq(Ids) \ {<<>>} |->
           IF room = 0 THEN [found \in Seq(Seq(Nat)) |-> found]
           ELSE Collected(path, search[room - 1])]
  IN  search[ChartEnd][<<0>>][<<>>]

CollectResults ==
  /\ phase = "collect"
  /\ candidates' = Paths
  /\ phase' = "done"
  /\ UNCHANGED <<lexicon, rules, nodes, posState, morphs, stack, pass, resultCount, fellBack>>

Next ==
  \/ \E prefix \in Parens : ParenthesizedPrefix(prefix)
  \/ StartPass
  \/ ScanDictionaries \/ ExpandRules \/ EnterR \/ EnterM \/ EnterF
  \/ PassOver \/ Descend \/ RefuseDepth \/ EndLoop
  \/ AnalyzeUnknown
  \/ CollectResults

\* One call of a C function: nothing else runs, and it does not stop half way.
Spec == Init /\ [][Next]_vars /\ WF_vars(Next)

-----------------------------------------------------------------------------
(* Properties *)

OnStack == { stack[k].node : k \in 1 .. Len(stack) }

\* The chart, the positions and the stack keep their shape and their caps.
States == {"INCOMPLETE", "SUCCESS", "FAIL"}
Nodes == [tag : Tags, next : Positions, type : Types, state : States, conn : Seq(Nat)]
Frames == [node : Nat, type : Types, at : {"enter", "loop", "await"}, i : Nat \ {0}, x : Nat]
TypeOK ==
  /\ lexicon \in Lexicons /\ rules \in RuleSets
  /\ ChartEnd \in 1 .. MaxChart
  /\ nodes \in [0 .. (ChartEnd - 1) -> Nodes]
  /\ \A i \in Ids : nodes[i].conn \in Seq(Ids) /\ Len(nodes[i].conn) <= MaxConn
  /\ posState \in [Positions -> {"N", "D", "R", "M", "F"}]
  /\ morphs \in [Positions -> Seq(Ids)]
  /\ \A p \in Positions : Len(morphs[p]) <= MaxMorph
  /\ stack \in Seq(Frames) /\ \A k \in 1 .. Len(stack) : stack[k].node \in Ids
  /\ phase \in {"prefix", "pass", "visit", "unknown", "collect", "done"}
  /\ pass \in 0 .. MaxPass /\ resultCount \in Nat /\ fellBack \in BOOLEAN

\* A connection leads to a node that has succeeded, which has a connection of
\* its own: a provisional or failed node is never part of a reading.
ConnectedSucceeded ==
  \A i \in Ids : \A j \in ToSet(nodes[i].conn) :
    nodes[j].state = "SUCCESS" /\ (j # 0 => nodes[j].conn # <<>>)

\* "A path visits each chart node at most once while the connection graph is
\* acyclic" (collect_results_rec): taking away, again and again, the nodes
\* that are not connected to any of the rest leaves only the start node, even
\* where the rules lead back to the same position.
ConnectionsAcyclic ==
  LET left[k \in 0 .. ChartEnd] ==
        IF k = 0 THEN Ids \ {0}
        ELSE LET rest == left[k - 1]
             IN  { i \in rest : ToSet(nodes[i].conn) \cap rest # {} }
  IN  left[ChartEnd] = {}

\* "Chart analysis recursion is bounded by the DAG built from INCOMPLETE ->
\* FAIL marking" (morpheme_chart.h): no node is visited inside its own
\* visit, so the recursion is never deeper than the chart is long and
\* MaxDepth, which is larger, is never what stops it.
RecursionWithinChart ==
  /\ Len(stack) = Cardinality(OnStack)
  /\ Len(stack) <= ChartEnd

\* A step may never change a node that has succeeded, or give up on one that
\* has failed and has returned: connections made to it elsewhere and counts
\* taken of it would be stale.  Only the start node, which every pass visits
\* again, goes on growing.
SettledStays ==
  [][\A i \in Ids \ {0} :
       nodes[i].state # "INCOMPLETE" /\ i \notin OnStack => nodes'[i] = nodes[i]]_vars

\* One morpheme can follow another: it starts where the other ends, and the
\* connection rules accept the pair.
MayFollow(i, j) ==
  j \in ToSet(morphs[nodes[i].next]) /\ <<nodes[i].tag, nodes[j].tag>> \in Connects

IsReading(path) ==
  /\ path[1] = 0
  /\ \A k \in 1 .. (Len(path) - 1) : MayFollow(path[k], path[k + 1])
  /\ nodes[path[Len(path)]].next = 0
  /\ MayFollow(path[Len(path)], 0)

\* Each candidate reads the word from its first position to its end, through
\* pairs the connection rules accept, and uses no chart node twice.
CandidatesAreReadings ==
  \A k \in 1 .. Len(candidates) :
    LET c == candidates[k]
    IN  IsReading(c) /\ \A a, b \in 1 .. Len(c) : c[a] = c[b] => a = b

\* The driver decides on the unknown-morpheme fallback by the number of
\* connections of the start node: that number is not zero exactly when there
\* is a candidate, so a word with a reading never falls back and a word
\* without candidates always has.
CountMeansCandidates ==
  phase = "done" =>
    /\ (resultCount = 0) <=> (candidates = <<>>)
    /\ resultCount = 0 => fellBack

\* Which node the visit of i may descend into.
Descends(i, j) ==
  j \in ToSet(morphs[nodes[i].next]) /\ TagTypeOK(nodes[i].type, nodes[j].tag)

\* Taking away the nodes that lead nowhere, MaxDepth times, leaves nothing:
\* no visit comes back to a node that is being visited, and none is refused.
DescentsEnd ==
  LET left[k \in 0 .. MaxDepth] ==
        IF k = 0 THEN Ids \ {0}
        ELSE LET rest == left[k - 1]
             IN  { i \in rest : \E j \in rest : Descends(i, j) }
  IN  left[MaxDepth] = {}

\* What the passes repeat of the start node's connections and of the
\* candidates may run into the caps: it comes after what it repeats.
CapsNotReached ==
  /\ \A i \in Ids : Cardinality(ToSet(nodes[i].conn)) < MaxConn
  /\ Cardinality(ToSet(candidates)) < MaxCandidates

\* All readings whose morphemes have the tag types asked of them.
TypedReadings ==
  LET from[fuel \in 0 .. ChartEnd] ==
        [n \in Ids |->
           (IF nodes[n].next = 0 /\ MayFollow(n, 0) THEN { <<n>> } ELSE {})
           \cup (IF fuel = 0 THEN {}
                 ELSE UNION { { <<n>> \o rest : rest \in from[fuel - 1][j] } :
                                j \in { j \in Ids \ {0} : Descends(n, j) /\ MayFollow(n, j) } })]
  IN  from[ChartEnd][0]

\* Where no visit can come back to a node that is still being visited
\* ("without such a cycle the provisional state is never read",
\* process_r_state) and the connections and candidates have room, no reading
\* that the chart holds is lost, in whatever order the positions are reached
\* and whoever reaches them first, even if what the later passes repeat is
\* cut off.
NoReadingLost ==
  phase = "done" /\ DescentsEnd /\ CapsNotReached =>
    TypedReadings \subseteq ToSet(candidates)

\* The analysis of a word always comes to an end.
AnalysisEnds == <>(phase = "done")

=============================================================================
