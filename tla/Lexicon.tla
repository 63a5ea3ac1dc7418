------------------------------- MODULE Lexicon ------------------------------
(***************************************************************************)
(* The life of a handle and the tables it keeps: hannanum_create, which    *)
(* loads the tag set, the connections, the dictionaries and the            *)
(* probabilities, the candidates it then gives for a word, and             *)
(* hannanum_destroy.                                                       *)
(*                                                                         *)
(* A file is a sequence of the lines that mean something; a data directory *)
(* has some of the files.  Loading goes line by line and, in the           *)
(* dictionaries, item by item; every allocation may fail.  No loader's     *)
(* result but that of load_tag_set is looked at, so that what was read     *)
(* until a failure stays.  The hash tables are functions and the lists of  *)
(* tag numbers are sets.                                                   *)
(***************************************************************************)
EXTENDS WordTrie

CONSTANTS
  Directories,  \* the data directories: some of the files, with their lines
  TypeRules,    \* set_tag_types_kaist: the groups and tags of each tag type
  MaxTags,      \* HANNANUM_MAX_TAGS
  MaxMorph,     \* HANNANUM_MAX_MORPHEME_COUNT
  MaxFailures,  \* bound: how many allocations fail in a life of the handle
  Probes,       \* the words whose candidates are asked for
  ChartResults, \* the lists of readings the chart may give for a word
  Contracted,   \* drop_initial_eu_from_morpheme, where it gives a text
  Open,         \* the morphemes hangul_final_is_vowel_or_l says yes of
  Positive,     \* those whose vowel asks for the vowel a, but for the verb ha
  Eo,           \* those that start with eo or eoss
  A,            \* the morpheme a
  Endings       \* the tags that begin with e

VARIABLES
  dir,          \* data_dir, with its files
  pc,           \* what hannanum_create or hannanum_destroy is at
  line, item,   \* how far the file being loaded has been read
  failures,
  tagNames, groups, irregulars,
  tagTypes,     \* the pairs of a tag type and a tag number in it
  connections,  \* the pairs of tag numbers that connections allows
  dict, probs, tries,
  at, depth,    \* node and i of trie_store_codepoints; at Nil when it is done
  cur,          \* cur of trie_node_free_children
  freed,        \* the nodes of each trie that were freed
  again,        \* whether a freed one was visited
  answer        \* what candidates_for gave last, and the chart's readings it is made of

tagTables == <<tagNames, groups, irregulars, tagTypes>>
tables == <<tagTables, connections, dict, probs, tries>>
freeing == <<cur, freed, again>>
reading == <<pc, line, item, at, depth>>
vars == <<dir, reading, failures, tables, freeing, answer>>

Tries == {"system", "user"}
ProbTables == {"pwt", "ptt_pos", "ptt_wp"}
Blocks == Tries \cup ProbTables \cup {"data_dir", "dict"}

Fails == failures < MaxFailures /\ failures' = failures + 1

\* The first index at which s has x, counted from 0, or -1.
FirstIndex(s, x) ==
  IF \E i \in 1 .. Len(s) : s[i] = x
  THEN (CHOOSE i \in 1 .. Len(s) : s[i] = x /\ \A j \in 1 .. (i - 1) : s[j] # x) - 1
  ELSE -1

TagId(name) == FirstIndex(tagNames, name)
IrregularId(name) == FirstIndex(irregulars, name)
GroupAt(name) == FirstIndex([i \in 1 .. Len(groups) |-> groups[i].name], name) + 1

\* What append_tag_or_group adds: -1, the number of no tag, is left out.
TagsOf(name) ==
  IF GroupAt(name) # 0 THEN groups[GroupAt(name)].ids ELSE {TagId(name)} \ {-1}

-----------------------------------------------------------------------------
(* hannanum_create *)

Init ==
  /\ dir \in Directories
  /\ pc = "create" /\ line = 0 /\ item = 0 /\ failures = 0
  /\ tagNames = <<>> /\ groups = <<>> /\ irregulars = <<>>
  /\ tagTypes = {} /\ connections = {}
  /\ dict = << >>
  /\ probs = [t \in ProbTables |-> << >>]
  /\ tries = [t \in Tries |-> EmptyTrie]
  /\ at = Root /\ depth = 0
  /\ cur = Nil /\ freed = [t \in Tries |-> {}] /\ again = FALSE
  /\ answer = [word |-> <<>>, list |-> <<>>, failed |-> FALSE, found |-> <<>>]

FromRoot == at' = Root /\ depth' = 0
To(stage) == pc' = stage /\ line' = 0 /\ item' = 0 /\ FromRoot
NextItem == item' = item + 1 /\ FromRoot /\ UNCHANGED <<pc, line>>
NextLine == line' = line + 1 /\ item' = 0 /\ FromRoot /\ UNCHANGED pc

\* The seven blocks of the handle: without one of them it is destroyed.
Create ==
  /\ pc = "create"
  /\ \E missing \in SUBSET Blocks :
       /\ failures + Cardinality(missing) <= MaxFailures
       /\ failures' = failures + Cardinality(missing)
       /\ To(IF missing = {} THEN "tags" ELSE "free")
  /\ UNCHANGED <<dir, tables, freeing, answer>>

\* What is loaded after a file that was read to its end.
AfterFile(stage) ==
  CASE stage = "tags"        -> IF tagNames = <<>> THEN "analyzed" ELSE "connections"
    [] stage = "connections" -> "analyzed"
    [] stage = "analyzed"    -> "system"
    [] stage = "system"      -> "user"
    [] stage = "user"        -> "pwt"
    [] stage = "pwt"         -> "ptt_pos"
    [] stage = "ptt_pos"     -> "ptt_wp"
    [] stage = "ptt_wp"      -> "serving"

\* Mutants of AfterFailure: the connections are read without a whole tag set;
\* a dictionary that cannot be opened is tried again.
AfterFailureIgnored(stage) == AfterFile(stage)
AfterFailureAgain(stage) == IF stage = "tags" THEN "analyzed" ELSE IF stage \in Tries THEN stage ELSE AfterFile(stage)

\* load_connections is called only if load_tag_set has succeeded.
AfterFailure(stage) == IF stage = "tags" THEN "analyzed" ELSE AfterFile(stage)

Files == {"tags", "connections", "analyzed"} \cup Tries \cup ProbTables

\* A loader up to its loop: the path, the file, and the buffer or the matrix.
OpenFile ==
  /\ pc \in Files /\ line = 0
  /\ \/ pc \in DOMAIN dir /\ NextLine /\ UNCHANGED failures
     \/ pc \notin DOMAIN dir /\ To(AfterFailure(pc)) /\ UNCHANGED failures
     \/ Fails /\ To(AfterFailure(pc))
  /\ UNCHANGED <<dir, tables, freeing, answer>>

\* What tag_type_add_group or tag_type_add adds to a tag type.
RuleIds(r) ==
  IF ~r.group THEN {TagId(r.name)} \ {-1}
  ELSE IF GroupAt(r.name) = 0 THEN {} ELSE groups[GroupAt(r.name)].ids

\* The end of load_tag_set: set_tag_types_kaist, whose failures are ignored.
CloseTagSet ==
  /\ pc = "tags" /\ pc \in DOMAIN dir /\ line > Len(dir[pc])
  /\ LET all == UNION {{r.type} \X RuleIds(r) : r \in TypeRules}
     IN  \/ tagTypes' = all /\ UNCHANGED failures
         \/ /\ Fails
            /\ \E r \in TypeRules : \E lost \in SUBSET RuleIds(r) :
                 tagTypes' = all \ ({r.type} \X lost)
  /\ To(AfterFile(pc))
  /\ UNCHANGED <<dir, tagNames, groups, irregulars, connections, dict, probs, tries, freeing, answer>>

CloseFile ==
  /\ pc \in Files \ {"tags"} /\ pc \in DOMAIN dir /\ line > Len(dir[pc])
  /\ To(AfterFile(pc))
  /\ UNCHANGED <<dir, failures, tables, freeing, answer>>

AtLine(stage) == pc = stage /\ line \in 1 .. (IF stage \in DOMAIN dir THEN Len(dir[stage]) ELSE 0)
Line == dir[pc][line]

-----------------------------------------------------------------------------
(* load_tag_set *)

AddTag ==
  /\ AtLine("tags") /\ Line.kind = "TAG"
  /\ \/ /\ Len(tagNames) < MaxTags
        /\ tagNames' = Append(tagNames, Line.name)
        /\ NextLine /\ UNCHANGED failures
     \/ /\ Len(tagNames) >= MaxTags
        /\ To(AfterFailure(pc)) /\ UNCHANGED <<tagNames, failures>>
     \/ Len(tagNames) < MaxTags /\ Fails /\ To(AfterFailure(pc)) /\ UNCHANGED tagNames
  /\ UNCHANGED <<dir, groups, irregulars, tagTypes, connections, dict, probs, tries, freeing, answer>>

AddGroup ==
  /\ AtLine("tags") /\ Line.kind = "TSET"
  /\ \/ /\ groups' = Append(groups, [name |-> Line.name,
                                     ids  |-> UNION {TagsOf(n) : n \in Range(Line.of)}])
        /\ NextLine /\ UNCHANGED failures
     \/ Fails /\ To(AfterFailure(pc)) /\ UNCHANGED groups
  /\ UNCHANGED <<dir, tagNames, irregulars, tagTypes, connections, dict, probs, tries, freeing, answer>>

AddIrregular ==
  /\ AtLine("tags") /\ Line.kind = "IRR"
  /\ \/ irregulars' = Append(irregulars, Line.name) /\ NextLine /\ UNCHANGED failures
     \/ Fails /\ To(AfterFailure(pc)) /\ UNCHANGED irregulars
  /\ UNCHANGED <<dir, tagNames, groups, tagTypes, connections, dict, probs, tries, freeing, answer>>

-----------------------------------------------------------------------------
(* load_connections *)

\* parse_connection_side: what a term takes away, it takes from all that the
\* terms up to it have added.
Side(terms) ==
  LET ids[i \in 0 .. Len(terms)] ==
        IF i = 0 THEN {}
        ELSE (ids[i - 1] \cup TagsOf(terms[i].base)) \ UNION {TagsOf(n) : n \in Range(terms[i].minus)}
  IN  ids[Len(terms)]

AddConnection ==
  /\ AtLine("connections")
  /\ \/ connections' = connections \cup (Side(Line.left) \X Side(Line.right))
        /\ NextLine /\ UNCHANGED failures
     \/ Fails /\ To(AfterFailure(pc)) /\ UNCHANGED connections
  /\ UNCHANGED <<dir, tagTables, dict, probs, tries, freeing, answer>>

\* connection_allows
ConnectionAllows(left, right) == <<TagId(left), TagId(right)>> \in connections

-----------------------------------------------------------------------------
(* Candidates: postprocess_eojeol and candidate_list_add *)

\* postprocess_eojeol of the morpheme at i after the morpheme prev;
\* dropping says whether one that can be contracted is.
Adjusted(e, prev, dropping) ==
  IF e.tag \notin Endings THEN e
  ELSE IF e.text \in Eo /\ prev \in Positive THEN [e EXCEPT !.text = A]
  ELSE IF dropping /\ e.text \in DOMAIN Contracted /\ prev \in Open
  THEN [e EXCEPT !.text = Contracted[e.text]] ELSE e

\* Mutant of PostProcess: a morpheme looks at what the one before it was.
PostProcessStale(eojeol, kept) ==
  [i \in 1 .. Len(eojeol) |->
     Adjusted(eojeol[i], IF i = 1 THEN <<>> ELSE eojeol[i - 1].text, i # kept)]

\* postprocess_eojeol.  Each morpheme sees what became of the one before it;
\* kept is the one that is not contracted for want of memory, or 0.
PostProcess(eojeol, kept) ==
  LET done[i \in 0 .. Len(eojeol)] ==
        IF i = 0 THEN [text |-> <<>>, tag |-> ""]
        ELSE LET prev == done[i - 1] IN Adjusted(eojeol[i], prev.text, i # kept)
  IN  [i \in 1 .. Len(eojeol) |-> done[i]]

\* candidate_list_add, and what may become of it when an allocation fails: a
\* contraction is left out, or the candidate is not added.
Added(list, eojeol) == Append(list, PostProcess(eojeol, 0))
AddedFailing(list, eojeol) ==
  {list} \cup {Append(list, PostProcess(eojeol, i)) : i \in DOMAIN eojeol}

-----------------------------------------------------------------------------
(* The dictionaries *)

Known(key) == key \in DOMAIN dict

\* dict_get_or_create: without an entry the line is skipped.
FindEntry(stage) ==
  /\ AtLine(stage) /\ item = 0
  /\ \/ Known(Line.key) /\ NextItem /\ UNCHANGED <<dict, failures>>
     \/ /\ ~Known(Line.key)
        /\ dict' = dict @@ (Line.key :> [list |-> <<>>, analyzed |-> 0])
        /\ NextItem /\ UNCHANGED failures
     \/ ~Known(Line.key) /\ Fails /\ NextLine /\ UNCHANGED dict
  /\ UNCHANGED <<dir, tagTables, connections, probs, tries, freeing, answer>>

\* An analysis of load_analyzed_dic; <<>> is one that parse_analysis refuses.
AddAnalysis ==
  /\ AtLine("analyzed") /\ item \in 1 .. Len(Line.alts)
  /\ LET alt == Line.alts[item]
         List(l) == dict' = [dict EXCEPT ![Line.key] = [list |-> l, analyzed |-> Len(l)]]
     IN  \/ alt = <<>> /\ UNCHANGED <<dict, failures>>
         \/ alt # <<>> /\ List(Added(dict[Line.key].list, alt)) /\ UNCHANGED failures
         \/ /\ alt # <<>> /\ Fails
            /\ \E l \in AddedFailing(dict[Line.key].list, alt) :
                 IF l = dict[Line.key].list THEN UNCHANGED dict ELSE List(l)
  /\ NextItem
  /\ UNCHANGED <<dir, tagTables, connections, probs, tries, freeing, answer>>

\* The entry of a trie for a tag, with its irregular class or 0.
EntryOf(e) ==
  [tag |-> TagId(e.tag), phoneme |-> IF IrregularId(e.irr) < 0 THEN 0 ELSE IrregularId(e.irr)]

\* A tag of load_surface_dic goes to the trie and then, as a candidate, to the
\* dictionary, and either may fail.  An item whose tag is empty is skipped.
AtEntry(t) == AtLine(t) /\ item \in 1 .. Len(Line.entries)
Entry == Line.entries[item]
Stored == Len(Line.key) \in 1 .. MaxTrieWord

SkipEntry(t) ==
  /\ AtEntry(t) /\ Entry.tag = ""
  /\ NextItem
  /\ UNCHANGED <<dir, failures, tables, freeing, answer>>

\* A turn of trie_store_codepoints: trie_node_insert_child.
StoreKey(t) ==
  /\ AtEntry(t) /\ Entry.tag # "" /\ Stored /\ at # Nil /\ depth < Len(Line.key)
  /\ LET k == Line.key[depth + 1]
     IN  IF LookNode(tries[t], at, k) # Nil
         THEN at' = LookNode(tries[t], at, k) /\ UNCHANGED <<tries, failures>>
         ELSE \/ /\ at' = Cardinality(Nodes(tries[t]))
                 /\ tries' = [tries EXCEPT ![t] = NewChild(@, at, k)]
                 /\ UNCHANGED failures
              \/ Fails /\ at' = Nil /\ UNCHANGED tries
  /\ depth' = depth + 1
  /\ UNCHANGED <<dir, pc, line, item, tagTables, connections, dict, probs, freeing, answer>>

\* Its end: the entry goes to the tail of the list of the node.
StoreEntry(t) ==
  /\ AtEntry(t) /\ Entry.tag # "" /\ Stored /\ at # Nil /\ depth = Len(Line.key)
  /\ \/ tries' = [tries EXCEPT ![t].info[at] = Append(@, EntryOf(Entry))] /\ UNCHANGED failures
     \/ Fails /\ UNCHANGED tries
  /\ at' = Nil
  /\ UNCHANGED <<dir, pc, line, item, depth, tagTables, connections, dict, probs, freeing, answer>>

ListEntry(t) ==
  /\ AtEntry(t) /\ Entry.tag # "" /\ (Stored => at = Nil)
  /\ \/ /\ dict' = [dict EXCEPT ![Line.key].list = Added(@, <<[text |-> Line.key, tag |-> Entry.tag]>>)]
        /\ UNCHANGED failures
     \/ Fails /\ UNCHANGED dict
  /\ NextItem
  /\ UNCHANGED <<dir, tagTables, connections, probs, tries, freeing, answer>>

EndLine ==
  /\ \/ AtLine("analyzed") /\ item > Len(Line.alts)
     \/ \E t \in Tries : AtLine(t) /\ item > Len(Line.entries)
  /\ NextLine
  /\ UNCHANGED <<dir, failures, tables, freeing, answer>>

\* prob_put of a line of load_probability: the last value of a key stays.
AddProbability(t) ==
  /\ AtLine(t)
  /\ \/ probs' = [probs EXCEPT ![t] = (Line.key :> Line.value) @@ @] /\ UNCHANGED failures
     \/ Line.key \notin DOMAIN probs[t] /\ Fails /\ UNCHANGED probs
  /\ NextLine
  /\ UNCHANGED <<dir, tagTables, connections, dict, tries, freeing, answer>>

-----------------------------------------------------------------------------
(* candidates_for *)

Places(list) ==
  FlattenSeq([i \in 1 .. Len(list) |-> [j \in 1 .. Len(list[i]) |-> <<i, j>>]])
TagAt(list, p) == list[p[1]][p[2]].tag
Unknowns(list) == {p \in Range(Places(list)) : TagAt(list, p) = "unk"}

\* Mutant of RenameAt: only the copy gets its tag, so that the unknown stays.
RenameAtInCopy(list, p, lost) ==
  IF TagAt(list, p) # "unk" \/ p = lost THEN list
  ELSE Added(list, [list[p[1]] EXCEPT ![p[2]].tag = "nqq"])

\* unknown_processor_expand_list at morpheme p[2] of candidate p[1]: an unknown
\* one becomes a common noun, and a proper noun in a copy at the end of the
\* list, unless the copy is lost.
RenameAt(list, p, lost) ==
  IF TagAt(list, p) # "unk" THEN list
  ELSE LET named == [list EXCEPT ![p[1]][p[2]].tag = "ncn"]
       IN  IF p = lost THEN named
           ELSE Added(named, [list[p[1]] EXCEPT ![p[2]].tag = "nqq"])

ExpandUnknown(list, lost) ==
  LET places == Places(list)
      after[n \in 0 .. Len(places)] ==
        IF n = 0 THEN list ELSE LET before == after[n - 1] IN RenameAt(before, places[n], lost)
  IN  after[Len(places)]

Guess(word) == << <<[text |-> word, tag |-> "ncn"]>>, <<[text |-> word, tag |-> "nqq"]>> >>

\* The candidates of a word, whether an allocation has failed on the way and
\* which of the chart's readings they are: an analysis of the dictionary may be
\* lost, and is given as it is, with its unknowns; the copy of an unknown may
\* be lost, or the whole list when its tag cannot be renamed; so may a guess.
Candidates(word, found) ==
  IF Known(word) /\ dict[word].analyzed > 0
  THEN LET kept == SubSeq(dict[word].list, 1, dict[word].analyzed)
           Copy(l) == [i \in 1 .. Len(l) |-> PostProcess(l[i], 0)]
       IN  {<<Copy(kept), FALSE, <<>> >>}
           \cup {<<Copy(RemoveAt(kept, i)), TRUE, <<>> >> : i \in DOMAIN kept}
  ELSE LET expanded == {<<ExpandUnknown(found, <<0, 0>>), FALSE, found>>}
                       \cup {<<ExpandUnknown(found, p), TRUE, found>> : p \in Unknowns(found)}
                       \cup IF Unknowns(found) = {} THEN {} ELSE {<< <<>>, TRUE, <<>> >>}
       IN  UNION {IF x[1] # <<>> THEN {x}
                  ELSE {<<Guess(word), x[2], <<>> >>}
                       \cup {<<RemoveAt(Guess(word), i), TRUE, <<>> >> : i \in 1 .. 2} : x \in expanded}

Ask ==
  /\ pc = "serving"
  /\ \E word \in Probes, found \in ChartResults :
       \E c \in Candidates(word, found) :
         /\ c[2] => failures < MaxFailures
         /\ answer' = [word |-> word, list |-> c[1], failed |-> c[2], found |-> c[3]]
  /\ UNCHANGED <<dir, reading, failures, tables, freeing>>

-----------------------------------------------------------------------------
(* hannanum_destroy *)

Close ==
  /\ pc = "serving"
  /\ To("free")
  /\ answer' = [word |-> <<>>, list |-> <<>>, failed |-> FALSE, found |-> <<>>]
  /\ UNCHANGED <<dir, failures, tables, freeing>>

\* trie_node_free_children begins: the root lets go of its children.
Uproot(t) ==
  /\ tries' = [tries EXCEPT ![t].child[Root] = Nil]
  /\ cur' = tries[t].child[Root]

FreeTables ==
  /\ pc = "free"
  /\ dict' = << >> /\ probs' = [t \in ProbTables |-> << >>] /\ connections' = {}
  /\ tagNames' = <<>> /\ groups' = <<>> /\ irregulars' = <<>> /\ tagTypes' = {}
  /\ Uproot("system") /\ To("free system")
  /\ UNCHANGED <<dir, failures, freed, again, answer>>

\* One turn of the loop.
FreeNode(t) ==
  /\ pc = "free " \o t /\ cur # Nil
  /\ again' = (again \/ cur \in freed[t])
  /\ tries' = [tries EXCEPT ![t] = Splice(@, cur)]
  /\ freed' = [freed EXCEPT ![t] = @ \cup {cur}]
  /\ cur' = Splice(tries[t], cur).sibling[cur]
  /\ UNCHANGED <<dir, reading, failures, tagTables, connections, dict, probs, answer>>

\* The next trie, and after the last one the handle itself.
TrieFreed ==
  /\ cur = Nil
  /\ \/ pc = "free system" /\ Uproot("user") /\ To("free user")
     \/ pc = "free user" /\ To("gone") /\ UNCHANGED <<tries, cur>>
  /\ UNCHANGED <<dir, failures, tagTables, connections, dict, probs, freed, again, answer>>

-----------------------------------------------------------------------------
LoadOrFree ==
  \/ Create \/ OpenFile \/ CloseTagSet \/ CloseFile
  \/ AddTag \/ AddGroup \/ AddIrregular \/ AddConnection
  \/ \E stage \in Tries \cup {"analyzed"} : FindEntry(stage)
  \/ AddAnalysis \/ EndLine
  \/ \E t \in Tries : SkipEntry(t) \/ StoreKey(t) \/ StoreEntry(t) \/ ListEntry(t) \/ FreeNode(t)
  \/ \E t \in ProbTables : AddProbability(t)
  \/ FreeTables \/ TrieFreed

Next == LoadOrFree \/ Ask \/ Close

\* hannanum_create and hannanum_destroy run to their ends once called; nobody
\* has to ask for a word or to close the handle.
Spec == Init /\ [][Next]_vars /\ WF_vars(LoadOrFree)

-----------------------------------------------------------------------------
(* What a scan of the dictionaries finds *)

\* morpheme_chart_add_trie_match and morpheme_chart_check: a reading that is
\* there is not added again, and a full list takes no more.
AddReading(found, r) ==
  IF r \in Range(found) \/ Len(found) >= MaxMorph THEN found ELSE Append(found, r)

\* morpheme_chart_scan_system_user_tries over the text, the longest word first.
Scan(text) ==
  LET Matches(n) == LET w == SubSeq(text, 1, n)
                    IN  [i \in 1 .. Len(Entries(tries["system"], w)) |->
                           [entry |-> Entries(tries["system"], w)[i], length |-> n]]
                        \o [i \in 1 .. Len(Entries(tries["user"], w)) |->
                           [entry |-> Entries(tries["user"], w)[i], length |-> n]]
      met == FlattenSeq(Reverse([n \in 1 .. Len(text) |-> Matches(n)]))
      found[i \in 0 .. Len(met)] ==
        IF i = 0 THEN <<>> ELSE LET before == found[i - 1] IN AddReading(before, met[i])
  IN  found[Len(met)]

-----------------------------------------------------------------------------
(* What the files of a directory mean, for the properties *)

LinesOf(d, file) == IF file \in DOMAIN d THEN d[file] ELSE <<>>

\* The lines of the tag set up to the one that is refused, if there is one.
TagSet ==
  [d \in Directories |->
     LET lines == LinesOf(d, "tags")
         Above(i) == Cardinality({j \in 1 .. (i - 1) : lines[j].kind = "TAG"})
         taken == {i \in 1 .. Len(lines) : \A j \in 1 .. i : Above(j) < MaxTags \/ lines[j].kind # "TAG"}
     IN  SubSeq(lines, 1, Cardinality(taken))]

Named(d, kind) == LET s == SelectSeq(TagSet[d], LAMBDA l : l.kind = kind)
                  IN  [i \in 1 .. Len(s) |-> s[i].name]
TagNumber(d, name) == FirstIndex(Named(d, "TAG"), name)
Class(d, name) == LET i == FirstIndex(Named(d, "IRR"), name) IN IF i < 0 THEN 0 ELSE i

\* The tags a name stands for above line n: those of the first group of that
\* name, or the tag.
Above(d, kind, name, n) ==
  {j \in 1 .. (n - 1) : TagSet[d][j].kind = kind /\ TagSet[d][j].name = name}
TagAbove(d, name, n) == IF Above(d, "TAG", name, n) = {} THEN {} ELSE {TagNumber(d, name)}
Members ==
  [d \in Directories |->
     LET members[j \in 1 .. Len(TagSet[d])] ==
           IF TagSet[d][j].kind # "TSET" THEN {}
           ELSE UNION {IF Above(d, "TSET", x, j) = {} THEN TagAbove(d, x, j)
                       ELSE members[Min(Above(d, "TSET", x, j))] : x \in Range(TagSet[d][j].of)}
     IN  members]
Means(d, name) ==
  LET n == Len(TagSet[d]) + 1
  IN  IF Above(d, "TSET", name, n) = {} THEN TagAbove(d, name, n)
      ELSE Members[d][Min(Above(d, "TSET", name, n))]

DeclaredTypes ==
  [d \in Directories |->
     {<<r.type, id>> : <<r, id>> \in {x \in TypeRules \X (0 .. MaxTags) :
        LET lines == Above(d, "TSET", x[1].name, Len(TagSet[d]) + 1)
        IN  IF x[1].group THEN lines # {} /\ x[2] \in Members[d][Min(lines)]
            ELSE x[2] = TagNumber(d, x[1].name)}}]

\* A tag is on a side if a term names it and neither that term nor a later one
\* takes it away.
DeclaredSide(d, terms) ==
  {id \in 0 .. MaxTags : \E p \in 1 .. Len(terms) :
     /\ id \in Means(d, terms[p].base)
     /\ \A q \in p .. Len(terms) : \A x \in Range(terms[q].minus) : id \notin Means(d, x)}
DeclaredConnections ==
  [d \in Directories |->
     IF TagSet[d] # LinesOf(d, "tags") \/ Named(d, "TAG") = <<>> THEN {}
     ELSE UNION {DeclaredSide(d, l.left) \X DeclaredSide(d, l.right) : l \in Range(LinesOf(d, "connections"))}]

\* The entries that the lines of a dictionary give a word, in their order.
DeclaredEntries(d, t, word) ==
  LET given == FlattenSeq([i \in 1 .. Len(LinesOf(d, t)) |->
                 IF LinesOf(d, t)[i].key = word THEN LinesOf(d, t)[i].entries ELSE <<>>])
      tagged == SelectSeq(given, LAMBDA e : e.tag # "")
  IN  IF Len(word) > MaxTrieWord THEN <<>>
      ELSE [i \in 1 .. Len(tagged) |-> [tag |-> TagNumber(d, tagged[i].tag), phoneme |-> Class(d, tagged[i].irr)]]

\* The order of the places where readings are met.
Earlier(a, b) == \/ a[1] < b[1]
                 \/ a[1] = b[1] /\ a[2] < b[2]
                 \/ a[1] = b[1] /\ a[2] = b[2] /\ a[3] < b[3]

\* All the readings of the words that a text begins with, and where each is
\* met: longer words first, then system before user, then as in the file.
DeclaredReadings ==
  [d \in Directories |-> [text \in Probes |->
     UNION {LET entries == DeclaredEntries(d, t, SubSeq(text, 1, n))
            IN  {[reading |-> [entry |-> entries[i], length |-> n],
                  at |-> <<Len(text) - n, IF t = "system" THEN 0 ELSE 1, i>>] : i \in DOMAIN entries} :
              <<n, t>> \in (1 .. Len(text)) \X Tries}]]

\* The well-formed analyses the dictionary gives a word.
DeclaredAnalyses(word) ==
  LET lines == LinesOf(dir, "analyzed")
  IN  SelectSeq(FlattenSeq([i \in 1 .. Len(lines) |-> IF lines[i].key = word THEN lines[i].alts ELSE <<>>]),
                LAMBDA alt : alt # <<>>)

-----------------------------------------------------------------------------
(* Properties *)

\* When a handle serves and nothing has failed, a scan of the two tries finds
\* the entries that the two files give the words its text begins with, each
\* once, the longest word first, the system's before the user's and in the
\* order of the file, with the numbers of their tags, and the tables hold the
\* tag types, connections and last probabilities written down.
ScanFinds(text) ==
  LET found == Scan(text)
      all == DeclaredReadings[dir][text]
      First(r) == CHOOSE x \in all : x.reading = r /\
                    \A y \in all : y.reading = r => x.at = y.at \/ Earlier(x.at, y.at)
  IN  /\ \A i \in 1 .. Len(found) : \E x \in all : x.reading = found[i]
      /\ \A i, j \in 1 .. Len(found) :
           i < j => Earlier(First(found[i]).at, First(found[j]).at)
      /\ Len(found) = Min({MaxMorph, Cardinality({x.reading : x \in all})})

LastValue(t, key) ==
  LET lines == LinesOf(dir, t) IN lines[Max({i \in 1 .. Len(lines) : lines[i].key = key})].value

ServesWhatItRead ==
  pc = "serving" /\ failures = 0 =>
    /\ \A text \in Probes : ScanFinds(text)
    /\ tagTypes = IF TagSet[dir] = LinesOf(dir, "tags") THEN DeclaredTypes[dir] ELSE {}
    /\ connections = DeclaredConnections[dir]
    /\ \A t \in ProbTables :
         /\ DOMAIN probs[t] = {l.key : l \in Range(LinesOf(dir, t))}
         /\ \A key \in DOMAIN probs[t] : probs[t][key] = LastValue(t, key)

\* Whatever fails while the files are read, two tags connect only if the files
\* say so: connections are never worked out with a tag set that was cut off,
\* where a group that is missing would not be taken away.
OnlyDeclaredConnections == connections \subseteq DeclaredConnections[dir]

\* A word that the dictionary of analyses has gets these analyses and nothing
\* else, in their order, although the entries of the other dictionaries go to
\* the same lists, and although every candidate is post-processed when it is
\* read and again when it is given out.
AnalysesComeFirst ==
  failures = 0 /\ ~answer.failed /\ DeclaredAnalyses(answer.word) # <<>> =>
    answer.list = [i \in 1 .. Len(DeclaredAnalyses(answer.word)) |->
                     PostProcess(DeclaredAnalyses(answer.word)[i], 0)]

\* A reading whose unknown at j is taken for a proper noun, as the unknowns
\* before it were for common ones; those behind it are still unknown.
NamedAt(r, j) ==
  [k \in DOMAIN r |->
     IF r[k].tag # "unk" \/ k > j THEN r[k]
     ELSE [r[k] EXCEPT !.tag = IF k = j THEN "nqq" ELSE "ncn"]]

\* Every word gets a candidate unless an allocation has failed.  The chart's
\* readings come first, each without an unknown, and behind them, in their
\* order, one copy for each unknown they had, although the copies go to the
\* end of the list the readings are taken from.  So an unknown leaves only in
\* a copy, behind its proper noun.
UnknownsNamed ==
  LET found == answer.found
      copies == SelectSeq(Places(found), LAMBDA p : TagAt(found, p) = "unk")
      named == [i \in 1 .. Len(found) |-> NamedAt(found[i], Len(found[i]) + 1)]
  IN  /\ answer.word # <<>> /\ ~answer.failed => answer.list # <<>>
      /\ found # <<>> =>
           IF ~answer.failed
           THEN answer.list = named \o [i \in 1 .. Len(copies) |-> NamedAt(found[copies[i][1]], copies[i][2])]
           ELSE SubSeq(answer.list, 1, Len(found)) = named

\* The loop that frees a trie without recursion visits no node that it has
\* freed, and when the handle is gone it has freed all of them.
TriesFreedOnce ==
  /\ ~again
  /\ pc = "gone" => \A t \in Tries : freed[t] = Nodes(tries[t]) \ {Root}

\* hannanum_create returns and hannanum_destroy ends.
LifeEnds ==
  /\ <>(pc \in {"serving", "gone"})
  /\ pc = "free" ~> pc = "gone"

=============================================================================
