# HanNLP in TLA+

HanNLP is an R package for Korean text: a C port of the HanNanum morphological
analyser (`src/modules/hannanum/lib/hannanum`), the glue that calls it from R
(`src/hannanum_r.c`, `src/hangul_r.c`) and R functions that keep the user's
dictionary (`R/dictionary.R`). This directory models the parts of it that keep
state, checks them with TLC on small instances and proves some of what is checked
with TLAPS. Paths below are relative to the repository; the C library's files are
named without their directory.

## The system

`hannanum_create` reads the tag set, the connections, the dictionaries and the
probabilities of a data directory into a handle (`workflow.c` and the loaders), and
`hannanum_destroy` frees it. A call of `SimplePos22()`, `extractNoun()` and so on goes
through

    R/analyzer.R -> R/backend-hannanum.R -> hannanum_r.c (an external pointer owns
    the call) -> hannanum_analyze (workflow.c):
      informal_sentence_filter -> split_eojeols -> for each eojeol candidates_for
      (analysed dictionary, else the chart over the tries, the phoneme rules and the
      connections, then unknown_processor; each candidate post-processed) ->
      select_best_by_sentence (hmm_pos_tagger.c) -> simplified tags or nouns

Everything is called synchronously and on one thread. What makes it hard is not
concurrency but recursion over shared, half-finished state (the chart), tables with
fixed sizes, an interrupt callback polled in the middle, failure half way with a
dozen blocks of memory to give back, and files that several R functions overwrite.

| Component | State | Operations | What makes it correct |
|---|---|---|---|
| segment positions, trie (`segment_position.c`, `simti.c`, `alt_segment`) | `positions[1024]` with a jamo and a link each; a trie from reversed suffixes to positions | start from a word; add a changed suffix, sharing the part already known | links never form a cycle; the text from a position is the suffix it was made for; what was handed out stays |
| chart (`morpheme_chart.c`) | nodes with tag, next position, asked tag type, state, connections; a state N/D/R/M/F and a list of nodes per position | visit a node: scan, expand, recurse, connect; unknown fallback; enumerate paths | every candidate reads the whole word through allowed pairs; no reading is lost; it ends |
| driver (`chart_morph_analyzer.c`) | pass counter, result count | up to eight passes, fallback, eight more | the count it decides by means what it is taken to mean |
| tagger (`hmm_pos_tagger.c`) | columns of nodes with best score and predecessor, a table of phrases | cut sentences, forward pass per column, walk back | the choice has the highest score there is |
| workflow (`workflow.c`) | blocks of memory, the error message | `hannanum_analyze`, `hannanum_result_destroy` | nothing leaks or is freed twice; a failed call that was given a text says why; an interrupt aborts |
| Hangul automaton (`hangul_r.c`) | a syllable in progress, the word's syllables, its raw text | feed a jamo or key, end a word, end the input | no letter lost; words that were taken apart come back |
| user dictionary (`R/dictionary.R`) | the directory, `dic_user.txt`, its backup | backup, restore, merge, build, switch | an error found before the write leaves the dictionary alone; a backup is there before the dictionary is overwritten |
| R call (`hannanum_r.c`) | external pointer, handle, result, interrupt flag | one `.Call`, its finalizer, R's exit | freed once, by the call or its finalizer; a consumed interrupt becomes an error |
| filter and segmentor (`informal_sentence_filter.c`, `sentence_segmentor.c`) | position in the text, tokens | break up runs; cut eojeols and sentence ends | no character is lost, no token is empty |
| handle and loaders (`workflow.c`, `tag_set.c`, `connection.c`, `trie.c`, `chart_morph_analyzer.c`) | tags, groups, tag types, connections, dictionary, two tries, three probability tables | create: read eight files line by line; look up; destroy | a handle serves what the files say, or less after a failure but nothing else; all of it is freed |
| candidates (`unknown_processor.c`, `post_processor.c`, `comm.c`) | a list of candidates | analyses of the dictionary, else expand unknowns, else guess; post-process each | a word with analyses gets these; each unknown is named a common and, in a copy, a proper noun |
| phoneme rules (`exp.c`) and word reading (`morpheme_chart.c`, `number_dic.c`) | the text that remains, the tag type asked for, the changes derived | derive changes; take a word, a number, an unknown, a change | rules do not build up text; a stem asked for exists |
| texts (`code.c`, placeholders in `morpheme_chart.c`) | | to jamo and back; take English and Chinese out, put them back | a reading spells the word |
| buffer (`strbuffer.c`) | block, length, capacity, failed | reserve, set, add, shorten, trim, squash, unescape, steal | it is the text it stands for, terminated within its block, at the limit too |

`PROJECT.json` lists the hazards at their lines. The ones the properties are for:
a provisional state read inside its own computation, positions visited first by
different nodes, tables at their limits, ties, interrupts whose reason is asked
after the fact, failures half way, and sessions that die while they write.

## The modules

**SegmentLattice** (`segment_position.c`, `simti.c`, `morpheme_chart_alt_segment`).
`key`/`next` are `positions[]`, `positionEnd` is `position_end`, and `simti` is the
trie, as the function from the suffixes it has a node for to the node's `info` (the
code stores them reversed; a path from the root is a suffix here). `InitWord` is
`segment_position_init_from_triple_with_simti`, `AltSegment` is `alt_segment`; both
include the case that the positions run out half way, with what the code leaves
behind. `Remaining` is `chart_remaining_from_position`.

**SegmentLatticeProofs** proves about it (see "Proofs").

**MorphemeChart** (`morpheme_chart.c`, `chart_candidates_for`). The recursion of
`analyze_with_callbacks` / `process_r_state` / `recurse_adapter` is an explicit
`stack` of frames (node, asked tag type, loop index, running count), so that TLC sees
every state in which one visit meets what another has left. One action per step of
the code: `ScanDictionaries`, `ExpandRules`, `EnterR/M/F`, `PassOver`, `Descend`
(marks FAIL and recurses), `RefuseDepth`, `EndLoop` (settles and connects, `Return`
gives the count to the caller), then `StartPass` again, `AnalyzeUnknown` and
`CollectResults`. Which readings a scan finds (`lexicon`) and which the rules derive
(`rules`, depending on the tag of the visiting node, as the code's rules depend on
its text) are chosen in `Init`; the links between positions are the constant `Chain`,
whose properties SegmentLattice establishes: acyclic and never changed.
**MorphemeChartProofs** proves about it.

**BestTagging / HmmTagger** (`hmm_pos_tagger.c`). `BestTagging` says what the tagger
promises: per sentence a choice that no other beats, or failure. `HmmTagger` is the
code: cutting, columns, phrase ids, the forward pass that looks at one candidate per
phrase, ties, `pin_last`, walking back, the interrupt and the limit on phrases.
`KeepsPromise == Promise!Spec` is the refinement, with `outcome` and `choice` as the
mapping. Scores are integers: comparisons and ties are the code's, rounding is not.
`TaggerAssumption` says what a candidate is (a phrase, a score, its tags) and that a table
has a score for every pair of phrases. **HmmTaggerProofs** proves about it.

**Analyze** (`workflow.c`). One step per block of `hannanum_analyze`. Memory is the
state of each pointer, `null`, `live` or `dangling`; every allocation may fail, every
module may fail, the callback is polled where the code polls it (also by the tagger,
of which only its contract is kept) and is absent, latching like R's, or momentary.
`CallWithoutText` is the way out of `workflow.c:110`, which sets no error; `given` tells such
a call from the others.
**AnalyzeProofs** proves about it.

**WordTrie / Lexicon** (`trie.c`; `workflow.c`, `tag_set.c`, `connection.c`, the loaders
of `chart_morph_analyzer.c`, `unknown_processor.c`, `post_processor.c`). `WordTrie` is the
trie as a heap of numbered nodes with `child` and `sibling`, so that a lost or twice
visited node shows. `Lexicon` is the life of a handle: `pc` is the loader that runs,
`line` and `item` how far it has read, `at` and `depth` the loop of
`trie_store_codepoints`. One action per kind of line or item (`AddTag`, `AddGroup`,
`AddConnection`, `AddAnalysis`, `StoreKey`, `ListEntry`, ...), each with its failing
alternative; then `Ask` is `candidates_for`, and `FreeNode` one turn of
`trie_node_free_children`. `ExpandUnknown` goes through the readings it was given while its
copies are added behind them. Comments and blank lines of the files are left out, hash
tables are functions. What the chart finds for a word is a constant (`ChartResults`).
`Scan` is what a scan of the two tries finds, the data MorphemeChart calls `lexicon`.

**HangulCode / PhonemeRules / WordReading** (`code.c`, `exp.c`, `morpheme_chart.c`,
`number_dic.c`). `HangulCode` is the two conversions between a text and its jamo and the
placeholders for English and Chinese, as functions on code points. `PhonemeRules` has one
operator per rule list of `exp.c`, each a sequence of changes (front, back, the tag types
they ask for, irregular class); `Prule` puts them in the order of `exp_prule_generate` and
drops what its array has no room for. `WordReading` walks a word: the state is one visit
of the chart (the rest of the text, the tag type asked for, the changes), its actions are
what may be read there: a word of the dictionaries, a number, an unknown, the front of
a change. It ignores when a position is done with, which is MorphemeChart's matter.

**TextBuffer / Strbuffer** (`strbuffer.c`). `TextBuffer` says what a buffer is: a text,
and a flag once it has failed. `Strbuffer` is the block of memory: `mem` by byte, with
`Junk` in what realloc has not set, sizes that wrap at `SizeMax`, the growth loop turn by
turn, pieces of the buffer itself as arguments, and the four loops over the text byte
by byte. `hn_str_append`, which grows in the same way but stops elsewhere and does not
remember a failure, is the other `kind`. `HoldsText == AsText!Spec` is the refinement.

**Custody / RCall** (`hannanum_r.c`). `Custody` says who has the analyzer of each call:
the running call, after an R error the collector, and then nobody. `RCall` is
`hannlp_hannanum_analyze`: `block` is `hannanum_call_t` of every call in the session,
`holder` its external pointer, `interrupted` the flag on the stack. Every call to R may
jump out of the function (`End("R error")`); `Finalize` and `Quit` run finalizers;
`pending_interrupt` is the callback. Of the library it keeps what Analyze shows: polls, a
non-zero answer ends the analysis, and a failed tagger asks once more. `KeepsCustody ==
C!Spec` is the refinement. The flag makes the callback what Analyze calls latching,
so that its `InterruptAborts` applies to calls from R.

**SentenceSegmentor** (`informal_sentence_filter.c`, `sentence_segmentor.c`). Characters
are the ten kinds the two files tell apart (a Korean character counts three bytes where
bytes are counted). The rules of `split_eojeols` give the lengths of a word's pieces, in
the order in which the code tries them; `Push` is one `str_vec_push_owned`. Bytes above
0x7f are no letters, as in the C and UTF-8 locales.

**HangulAutomata / HangulTables** (`hangul_r.c`). `comp` is cho/jung/jong, `raw` and
`syllables` the two buffers. `Jaeum` and `Moeum` are the two halves of
`automata_feed_jamo`, `NewWord`/`WordText` are `automata_flush`. Code points are the
real ones; `HangulTables` holds the tables of the code, HangulAutomata takes them as
constants and states what it needs of them (`TablesAssumption`). `Jamos`, `Keystrokes` and
`WideKeystrokes` are what `convertHangulStringToJamos` and
`convertHangulStringToKeyStrokes` with `isFullwidth` FALSE and TRUE (its default) make of a
text, without separators. **HangulAutomataProofs** proves about it.

**UserDictionary** (`R/dictionary.R`). An exported function is the sequence of file
operations it performs; each step may stop it and `Crash` may come between any two. A
file is written in two steps, between which it holds only some of its rows; the second may
be a failure, of `write.table` (`CloseWrite`) as of a copy, which leaves it so.
**UserDictionaryProofs** proves about it.

## What the runs check

| Run | Instance | Shows |
|---|---|---|
| `segment_lattice` | 2 jamo, words up to 2 (and two too long), segments up to 4, 6 positions | `LinksEnd`: every walk ends. `TrieTellsTruth`: while there is room the trie names the right positions, and at the limit a text may stop short but is never another. `HandedOutStays`: chart nodes made earlier keep their text. |
| `morpheme_chart` | 6 positions, 5 tags, 288 lexicons x 6 rule sets x 2 prefixes, eight passes; at most 10 nodes, 10 connections, 4 morphemes of a position, depth 4, 10 candidates, each reached | `ConnectedSucceeded`, `ConnectionsAcyclic` (the assumption quoted in `collect_results_rec`), `RecursionWithinChart` (the bound quoted in `morpheme_chart.h`), `CandidatesAreReadings`, `CountMeansCandidates`, `NoReadingLost` (where no visit can come back to its own position and connections and candidates have room), `SettledStays`, `AnalysisEnds`; `TypeOK`: the arrays stay in their bounds. |
| `hmm_tagger` | up to 3 eojeols of up to 3 candidates, 3 phrases, 4 transition tables | the refinement of BestTagging, and `GroupingLosesNothing`: the grouped search gives the score and the predecessor of the plain one, ties included |
| `analyze` | 2 eojeols, 2 calls on a handle, 4 modes, 3 callbacks | `FreedExactlyOnce`: nothing freed twice, nothing left. `FailureSetsError`: with a text, NULL comes with this call's message. `InterruptAborts` |
| `analyze_interrupt` | the same | fails: see "Finding" |
| `r_call` | 3 calls, 2 polls each | `NothingFreedTwice`, `OwnerKnows`: each analyzer is freed once, by its call or, only after an R error, by its finalizer, and none outlives the session. `InterruptRaised`: an interrupt that R has acted on inside the library becomes that error and nothing else does. `KeepsCustody`: the refinement. |
| `sentence_segmentor` | all texts of up to 3 of 10 characters; runs of up to 17, numbers, lists and addresses of up to 8 | `TextConserved`: no character is lost, doubled or moved and words stay apart and no token is empty. `NoLongRun`: what the filter leaves is at most five in a row |
| `strbuffer` | 3 bytes (a letter, a space, the escape), 5 texts, sizes of 3 bits, first capacity 2 | `RoomForTerminator`: at whatever size growing stops, the terminator is inside the block. `HoldsText`: the refinement; squashing and unescaping in place give what they should though they write where they will read. |
| `lexicon` | 3 directories (whole; without tag set and user dictionary; with too many tags), 2 failures anywhere, tags up to 3, words up to 2, lists up to 4 | `ServesWhatItRead`: without failures the tries, tag types, connections and probabilities are what a reader of the files would say. `OnlyDeclaredConnections`: whatever fails, no others. `AnalysesComeFirst`: a word with analyses gets these. `UnknownsNamed`: each reading leaves with its unknowns as common nouns, and each unknown gives one copy where it is a proper noun, though the list grows while it is gone through. `TriesFreedOnce`, `LifeEnds`: every node is freed once and both functions end. |
| `word_reading` | 208 words of up to seven characters that together use every branch of the rules; 64 changes, 2 placeholders | `StaysNear`: no text is more than 6 jamo longer than the rest of the word it stands for. `IrregularStems`: a front that is asked for as an irregular stem ends as one. `SpellsWord`: readings without rules spell the word. |
| `hangul_automata` | every input of up to 5 from 5 keys, a full stop and 2 fullwidth keys, or from 7 jamo, forced or not | `KeysConserved`, `FailsOnlyOnCompound`; `RoundTrip`: words come back from their halfwidth keys and from their letters, fullwidth keys are passed on |
| `user_dictionary` | 4 rows, any 3 calls, a crash anywhere | `AllOrNothing`: an error other than a failed write leaves the dictionary alone, a write that stops half way leaves nothing but rows it was to write, and a return means all of them are written. `OldOrBackup`, `RestoreBringsBack`: what a crash or a switch leaves can be found again |

Why the bounds are enough. SegmentLattice: six positions run out at every point of a
segment of four, and two jamo make suffixes that are shared, partly shared and new.
MorphemeChart: three positions and two derived ones give a stem with a changed ending,
a zero-width node, and a cycle through two positions, each met first from different
nodes; the caps are small enough that each is reached by some word and large enough that
others, with cycles too, do not meet them; one list of rules derives three
changes at once. Strbuffer: three bits of size are eight sizes, so that a buffer that begins with
two bytes grows by half twice and then meets the limit from below, at it and beyond it.
Lexicon: words share beginnings and come unsorted, one is too long for a trie,
one is in both dictionaries, one has analyses in three places and one of them is an unknown,
a reading of the chart has two unknowns, groups share a name and
take each other away; two failures hit two loaders, or one and what it leaves behind.
WordReading: for all words of up to three of fifteen syllables `StaysNear` holds with the
same bound (a run of minutes, not kept); two placeholders stand for the code's 128, so
that a third run of English has no room. HmmTagger: three columns give a sentence end at the start, in
the middle and at the end, and a predecessor of a predecessor. Analyze: two eojeols
distinguish "before", "at" and "after" the one that fails, and a second call shows the
state the first has left. HangulAutomata: five characters hold a full syllable with a
compound final and the vowel that splits it. RCall: while the third call runs, the two
before may both have left an analyzer. SentenceSegmentor: each rule looks at no more than
three kinds of characters at once, and a run of seventeen is broken three times; for all
4174 texts of the run the tokens are those of the compiled C functions. UserDictionary: three calls are a setup, a
crash or switch, and the call that meets what it left.

`CHECK_DEADLOCK FALSE` is said in every configuration but that of the buffer because
each of these programs really stops: a call returns, the input ends, the calls are
counted. The buffer can always be asked for something.

**Fairness.** `AnalysisEnds` needs `WF_vars(Next)` in MorphemeChart, and `LifeEnds`
`WF_vars(LoadOrFree)` in Lexicon. The analysis of a word, `hannanum_create` and
`hannanum_destroy` are each one C function on one thread that nothing suspends; if a step
is possible it is taken. `Ask` and `Close` are outside the fairness: nobody has to
call them. All other specifications are without fairness.

## Finding

`hannanum.h:33-34` says of the callback that "a non-zero return aborts
hannanum_analyze(), which then returns NULL with the error "analysis interrupted"".
When the tagger is what was interrupted, `workflow.c:205` polls the callback once more
to find out why tagging failed. A callback that answers non-zero once and zero after
that gets NULL with "failed to select best candidate". `InterruptedSaysSo` states the
sentence of the header and TLC finds the behaviour; `InterruptAborts` is what does hold:
the call is always aborted, and for a latching callback (such as the one in
`hannanum_r.c`) the message is right.

## Proofs

`SegmentLatticeProofs.tla`, for every alphabet, set of words and segments and number of
positions that satisfies `LatticeAssumption` (there is at least one position, the start
key is not a jamo, words and segments are sequences of jamo):

- `TypeCorrect`: `Spec => []TypeOK`. TypeOK is inductive: it says not only that links
  and trie entries are numbers of slots but that they name positions in use, which is
  what the next `AltSegment` needs when it links to one. Lemmas give the type of
  `SearchLength`, `Suffix` and `InsertSuffixes`.
- `WalksEnd`: `Spec => []LinksEnd`. LinksEnd is not inductive as it stands (that no set
  of positions is closed says nothing about a new chain that leads to an old position),
  so the invariant proved is `Ranked`: some rank decreases along every link. Numbers are
  no such rank: the links of a word go up and a changed suffix ends by going back down
  to the known rest. `AltSegmentRanked` gives the new positions ranks above all others;
  `RankedEnds` concludes with a position of least rank (`LeastRank`, from the
  well-foundedness of `<`).
- `PositionsStay`: `Spec => HandedOutStays`, an action property. An insertion writes only
  to positions from `positionEnd` on (`AddedBeyond`) and gives a position only to
  suffixes that had none (`InsertKeeps`); TypeOK supplies that what is in the trie is in use.
- `TrieHolds`: `Spec => []TrieTellsTruth`. The property speaks of the whole text from a
  position, the code of one position at a time. The invariant `Truthful` is local: the position
  that the trie has for a suffix holds its first jamo and links to the position of the rest, or
  to none. That the text is then the suffix is an induction on the fuel of `Remaining`; that an
  insertion keeps it needs the order in which `alt_segment` makes positions and what it
  leaves when they run out.

`MorphemeChartProofs.tla`, for every lexicon, set of rules, chain and limits that satisfy the
assumptions of the module, one step for each action of the recursion:

- `TypeCorrect` (`Spec => []TypeOK`) and `RecursionBounded` (`Spec => []RecursionWithinChart`).
  The invariant says of the stack (`Stacked`) that its frames are visits of different nodes,
  the first the start node, the others marked FAIL while they are visited. So it can be no
  higher than there are nodes, although nothing in the recursion counts them.
- `OnlySucceeded`: `Spec => []ConnectedSucceeded`. `Settled` is the strengthening: exactly the
  nodes that succeeded have connections, and only to such nodes.
- `Acyclicity`: `Spec => []ConnectionsAcyclic`. In terms of paths this is hard to carry over a
  step; the invariant is `Acyclic`: no set of nodes without the start node keeps its
  connections to itself. A visit that ends connects its node to nodes that have succeeded
  before, and nothing is connected to it yet because it was marked FAIL (`Settled`).
- `NothingSettledChanges`: `Spec => SettledStays`, the action property.
- `CandidatesRead` and `CountIsCandidates`: `Spec => []CandidatesAreReadings` and
  `Spec => []CountMeansCandidates`. The invariant `CInv` adds that connections are between
  morphemes that may follow each other (`Following`), that the start node stands at position 0
  alone (`StartApart`) and what the driver's count is the count of (`Counting`). That a step
  keeps the first two has one reason for all actions, `Evolves`: nodes keep tag and position,
  a position's list only gets new nodes, and a node is only connected to what it finds at
  the position after it. What `collect_results_rec` computes is `PathsAreCandidates`, by
  induction over the room left and, inside, over the connections left (`CollectedGoes`): a
  path of connections comes to no node twice (`WalkOnce`, from `Acyclic`), so the search
  never runs out of room, and since every connected node has connections of its own, the
  search below a connection never comes back with nothing.
- `ReadingsKept`: `Spec => []NoReadingLost`, what the recursion does not miss. It assumes of the
  tag types what `set_tag_types_kaist` makes of them: none but the one for every tag has `unk`.
  1. What a step does is one of eight things (`StepsAre`: `Filling` a fresh position,
     `FallingBack`, `Moving` on in a loop, `Descending`, `Refusing`, `Returning`, `Starting`,
     `Resting`). The invariant `FInv` adds to `CInv` that each frame awaits the visit above it
     (`Framed`), that lists and connections repeat nothing (`Onces`) and that whatever is visited
     was reached from the start (`Rooted`).
  2. If no descent comes back, it never did (`EndsBefore`), and the order of the visits is the one
     the comment in `process_r_state` counts on (`Orderly`): the nodes of a settled position are done,
     done nodes descend to done nodes, and so are those a loop has come past. `NotOnStack` is the
     sentence of that comment: a loop never meets a node that is being visited. `NoneRefused` says
     that no visit is too deep, `OneRoot` that no other visited node does what the start node does, so
     nobody else settles the first position.
  3. With room for connections, a node that is done is connected to all it takes
     (`ConnectedToAll`), and the start node was so when its position was settled
     (`RootConnected`); what later passes repeat comes after that.
  4. With room for candidates the search returns every path of connections (`PathsComplete`, by
     induction over the room left), and every reading with the right tag types is such a path
     (`TypedAreCandidates`, by induction over its length, from its end).

`HmmTaggerProofs.tla`, for every sentence and every table that satisfies `TaggerAssumption`:

- `OnePerPhraseIsEnough`: `Spec => []GroupingLosesNothing`. The invariant `IInv` says of each
  column that it is made of its eojeol's candidates grouped by phrase (`Built`), and of each
  column the forward pass is done with that every node has the score and the predecessor that
  looking at all nodes before it would give (`Linked`, `Looked`), ties included.
- `TaggerKeepsPromise`: `Spec => KeepsPromise`, the refinement of BestTagging: what is selected
  in a sentence is a choice that no other beats. `PInv` adds where sentences begin and end
  (`Bounded`) and that the sentences behind have a best choice (`Settled`). The optimality
  itself is `WalkIsBest`: a sum of scores never exceeds that of the node it ends in
  (`NoFurther`, by induction over the columns), and the walk back reaches its node's score.
  `StepPromised` has one step per action of the tagger: a step or a stutter of the promise.

`AnalyzeProofs.tla`, for texts of any length (`MaxTokens`), every output mode and callback
and any number of calls on a handle:

- `MemoryCorrect`: `Spec => []FreedExactlyOnce`. The inductive invariant `IInv` adds
  `Stages`: for each block of `hannanum_analyze`, which of its pointers may be live and
  which may dangle there (`Holds`), and that a result is there as a whole or not at all.
  The property alone speaks of the end of a call and says nothing on the way.
- `ReasonGiven` and `InterruptEnds`: `Spec => []FailureSetsError` (of calls that were given a
  text) and `Spec => []InterruptAborts`. Both follow from `Told`, which adds what is known while the
  call runs: a non-zero answer leaves it only the way out (or, if the tagger got it, the
  question why tagging failed), and a call that cleans up without a result has its message.

`RCallProofs.tla`, for every number of calls and polls: `TypeCorrect`
(`Spec => []TypeOK`), `FreedOnce` (`Spec => []NothingFreedTwice`) and `NothingUnowned`
(`Spec => []OwnerKnows`). None is inductive alone: a finalizer could free what a call
still has if nothing were known of calls that have not begun and of the steps before
`R_RegisterCFinalizerEx`. The inductive invariant `IInv` adds `Ledger`, which says for
each step what the call's block, holder and pointers are. One lemma per group of actions.
`Left`, proved on top of it, says that what is left to the collector was left by an R error.
Two more stand on these:

- `InterruptCarried`: `Spec => []InterruptRaised`, strengthened to `Latched`: the flag on
  the stack is set exactly when R has acted on an interrupt, and from then on the call is
  on its way out.
- `CustodyKept`: `Spec => KeepsCustody`, the refinement of Custody. `Decided` says that the
  calls with an outcome are those that are over; `AllStay` and `OneMoves` reduce a step of
  RCall to a stutter or to the move of one call; `NextKeeps` has one step per action.

`StrbufferProofs.tla`, for every set of bytes and texts and every range of sizes that
satisfies the assumptions of the modules: `TypeCorrect` (`Spec => []TypeOK`) and `AlwaysRoom`
(`Spec => []RoomForTerminator`). The inductive invariant `IInv` adds what each loop has
read and written so far: that a loop never writes beyond what it has read is what keeps
it in the block, and that the growth loop's `newCap` stays a size is what makes it
leave with room. `TerminatedBlock`, `WriteTerminates` and `RequestKeeps` are the lemmas about the
operators, `StepKeeps` has one step per action.
`HoldsItsText` (`Spec => HoldsText`) is the refinement of TextBuffer, whose transformations are
defined by what they should give, not by how a loop moves bytes. The invariant adds `Runs`, what
each loop has made of the text so far: a trim has cut only spaces (`Trims`), and what squashing or
unescaping has written, followed by what the bytes not yet read will give, is the transformed
text (`Squashing`, `Unescaping`); that those bytes are still there (`Unread`) is where
writing behind the reading matters. `SquashedIsRest` and `UnescapedIsRest` unfold
the transformations from the back, `WritesText` is the text after a call that had its room,
`StepSees` has one step per action.

`HangulAutomataProofs.tla`, for every table that satisfies `TablesAssumption` (TLC
evaluates it on the tables of the code) and inputs of any length: `OnlyCompoundFails`
(`Spec => []FailsOnlyOnCompound`). The invariant says that without a compound consonant in
the input the component is `Building`: each letter is in the table for its place, and there
is a final consonant only after the two before it, so that `compose_syllable` succeeds. What it needs
of the tables are the assumption's three parts: the ranges of the letters (`LetterTables`),
that one or two keys type a jamo and give it back (`KeyTables`), and that the parts of a
compound consonant may stand alone where the automaton puts them (`PartTables`).
`NothingTypedIsLost` (`Spec => []KeysConserved`): the keys of the output are those of the input.
The invariant `KeysPlaced` says where they are on the way: the keys of the component are those of
the end of `raw`, the keys of the syllables those of the rest, and the output and `raw`
together have those of the input (`RawKept`, `WordKept`). It rests on the division of a syllable's
code by 588 and 28, which gives back the letters that made it, and on compounds
having the keys of their parts.
`WordsComeBack` (`Spec => []RoundTrip`): a word comes back from its keys and from its letters. The
invariant `WordsKept` is about an input that can be continued to what a word is spelled with: the
syllables done and the component are then `OnTheWay` in that word, either `Within` a syllable,
at one of its letters or half way through one of two keys, or with the consonant that begins the
next syllable `Borrowed` for the end of the present one. `WithinGoesOn`, `NextBegins` and
`BorrowedReturns` say what one more character makes of each; `WordGoesOn` and `WordIsOver` are
their sum for a word. Of the tables this needs that each letter is in a table once,
that two keys which type a jamo are the pair that merges to it, and that only simple consonants
begin a syllable. For fullwidth keys the invariant is `PassedOn`: of characters that are neither
keys nor jamo no component is made and the output is the input; `WideWord` says that the
fullwidth keys of a word are such characters.

`UserDictionaryProofs.tla`, for every set of rows, any number of calls and a crash anywhere:
`StopsOrWrites` (`Spec => []AllOrNothing`), `DictionaryKept` (`Spec => []OldOrBackup`) and
`BackupComesBack` (`Spec => RestoreBringsBack`). A call is a list of file operations, so what
matters is what is still to do (a failed write is the end of one): `Shape` says in which order the operations of each function
come (the write is last, only functions that append read, those that save never
restore), and four parts say what holds between them: until it is opened for writing the
dictionary is what the call found (`Untouched`), what is to be written is what was given with
what was read, and what is written so far is part of it (`Collected`), the directory is made before anything is written (`Made`), and
a call that takes a backup has one of what it found before it writes (`Backed`).

Induction. The library's induction theorems cannot be instantiated here, so where a proof needs
induction over a range of numbers (the length of a walk, the columns of a sentence, the letters
of a text) it takes a counterexample with the least number, by the well-foundedness of
`<` on the numbers: the lemmas `Induction` and `Recursion`, the latter for the value of a
function defined by recursion.

Only model-checked so far: all of Lexicon, WordReading and SentenceSegmentor.
Liveness (`AnalysisEnds`, `LifeEnds`) is out of the prover's reach.

## What is not modelled

- Code without callers: the heuristic candidates of `chart_morph_analyzer.c`
  (`append_special_candidates`, `append_conjugation_candidates`,
  `append_segmented_candidates` and their helpers), `connection_not.c`, the path that
  `trie_search_codepoints` keeps in `search_nodes`.
- Simplifying tags and extracting nouns: each rewrites one finished candidate. That they
  may fail is in Analyze.
- Failed allocations inside a phoneme rule or a conversion, which lose one change or one
  reading; UTF-8 decoding; comparing, searching and copying buffers.
- Rounding of the tagger's doubles; the tagging of an eojeol with a phrase.
- Two R sessions that write one dictionary directory at the same time.
- The few bytes of `hannanum_call_t` itself: when R fails to make the external pointer or
  to register the finalizer they are lost (the model has it; analyzer and result are not
  made before). Time limits of R are interrupts here, as `R_ToplevelExec` reports both.
- A node of the suffix trie that cannot be allocated (`simti.c:80-83`), which leaves a suffix
  without its position.
- What `Connects` and the readings of MorphemeChart leave of a morpheme is its tag, its place and
  the tag type it asks for. The code also compares texts and phonemes
  (`morpheme_chart.c:222`) and, of a noun after a noun, the lengths of the two
  (`chart_morph_analyzer.c:1416-1433`).
- A cut inside a placeholder: `HAN_ENG` and `HAN_CHI` are one character here and seven in the
  code. With `connections.txt` as it is no complete reading has such a cut.
- The command line, accessors and formatting: input and output.

What the models show and nothing in the repository speaks of:

- `irrb` is the first irregular class of the tag set and has number 0, which
  `check_phoneme_type` takes to ask for no class: the rules for such stems accept any stem.
- `StaysNear` rests on the dictionary. Were the copula also a prefinal ending, or were
  there another one, the rules of `exp_rule_i_generate` could be applied to their own
  answers again and again; MCWordReading has the tags `dic_system.txt` gives.
- A word may derive more changes than `changes[64]` holds; the later ones are dropped.
- A call of `hannanum_analyze` without a text returns NULL and sets no error: `hannanum_error`
  is then still what an earlier call has left, or empty.
- A `write.table` that stops half way leaves `dic_user.txt` with some of its rows, as a crash
  does; the error tells the user, and only a backup has what was there (`OldOrBackup`).
- A second switch overwrites the backup of the first, and then restoring does not bring back the
  user's own dictionary.
- Of a reading with two unknowns one copy still has the second, tagged `unk`, and leaves with
  it: copies are added behind the candidates the loop of `unknown_processor.c:10` goes
  through. So do the unknowns in an analysis of the analysed dictionary, which is given out
  as it is (`unknown_processor.c:41-48`).
- `convertHangulStringToKeyStrokes` makes fullwidth keys unless it is told not to, and
  `HangulAutomata` takes only ASCII for keys: the default does not come back.
- From the 129th run of English or Chinese on a placeholder stays in the morphemes.
- A caret before a lone consonant that cannot be a final one is lost on the way back.
- `number_dic.c` looks at the last byte of a code point, so that characters whose code
  ends like that of a digit count as digits.

## Plan

Done: all modules above, and the proofs of SegmentLattice, MorphemeChart,
HmmTagger with its refinement, Analyze, RCall with its refinement,
UserDictionary, HangulAutomata, and Strbuffer with its refinement.
