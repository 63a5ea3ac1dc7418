------------------------------ MODULE WordTrie ------------------------------
(***************************************************************************)
(* The word trie of trie.c as a heap of nodes: storing a word, looking it  *)
(* up, and freeing the nodes without recursion.                            *)
(*                                                                         *)
(* A trie is a record of functions over its nodes.  Node 0 is the root,    *)
(* which is part of the trie itself; the others are numbered in the order  *)
(* of their allocation and no number is used again, so that a node that is *)
(* visited after it was freed can be told from a new one.  The entries of  *)
(* a node, a list to whose tail an entry is added, are a sequence.         *)
(* trie_store_codepoints is a loop of Lexicon over NewChild.               *)
(***************************************************************************)
EXTENDS Integers, Sequences, FiniteSets, SequencesExt

CONSTANT MaxTrieWord    \* HANNANUM_MAX_TRIE_WORD

ASSUME TrieAssumption == MaxTrieWord \in Nat

Nil == -1
Root == 0
EmptyTrie == [key |-> (Root :> 0), child |-> (Root :> Nil),
              sibling |-> (Root :> Nil), info |-> (Root :> <<>>)]
Nodes(t) == DOMAIN t.key

\* The nodes from n on along the siblings.
Chain(t, n) ==
  LET from[m \in Nodes(t) \cup {Nil}] ==
        IF m = Nil THEN <<>> ELSE <<m>> \o from[t.sibling[m]]
  IN  from[n]

\* How many children of p a walk passes that looks for key k.
Passed(t, p, k) ==
  LET c == Chain(t, t.child[p])
  IN  CHOOSE i \in 0 .. Len(c) : /\ \A j \in 1 .. i : t.key[c[j]] < k
                                 /\ i < Len(c) => t.key[c[i + 1]] >= k

\* trie_node_look_node
LookNode(t, p, k) ==
  LET c == Chain(t, t.child[p])
      i == Passed(t, p, k) + 1
  IN  IF i <= Len(c) /\ t.key[c[i]] = k THEN c[i] ELSE Nil

\* Mutant of NewChild: the new node goes before its siblings.
NewChildFirst(t, p, k) ==
  LET n == Cardinality(Nodes(t))
  IN  [key     |-> t.key @@ (n :> k),
       child   |-> [t.child EXCEPT ![p] = n] @@ (n :> Nil),
       sibling |-> t.sibling @@ (n :> t.child[p]),
       info    |-> t.info @@ (n :> <<>>)]

\* The allocation in trie_node_insert_child, for a key that p has no child of.
NewChild(t, p, k) ==
  LET n == Cardinality(Nodes(t))
      c == Chain(t, t.child[p])
      i == Passed(t, p, k)
      next == IF i < Len(c) THEN c[i + 1] ELSE Nil
      made == [key     |-> t.key @@ (n :> k),
               child   |-> t.child @@ (n :> Nil),
               sibling |-> t.sibling @@ (n :> next),
               info    |-> t.info @@ (n :> <<>>)]
  IN  IF i = 0 THEN [made EXCEPT !.child[p] = n] ELSE [made EXCEPT !.sibling[c[i]] = n]

\* The node that the walk of trie_search_codepoints and of a dictionary scan
\* reaches along w, or Nil.
NodeAt(t, w) ==
  LET walk[i \in 0 .. Len(w)] ==
        IF i = 0 THEN Root
        ELSE LET n == walk[i - 1] IN IF n = Nil THEN Nil ELSE LookNode(t, n, w[i])
  IN  walk[Len(w)]

Entries(t, w) == IF NodeAt(t, w) = Nil THEN <<>> ELSE t.info[NodeAt(t, w)]

\* Mutant of Splice: the rest of the chain is lost.
SpliceCut(t, n) ==
  IF t.child[n] = Nil THEN t
  ELSE [t EXCEPT !.sibling[n] = t.child[n], !.child[n] = Nil]

\* One turn of trie_node_free_children: the children of n go into the chain
\* after it.
Splice(t, n) ==
  IF t.child[n] = Nil THEN t
  ELSE [t EXCEPT !.sibling[Last(Chain(t, t.child[n]))] = t.sibling[n],
                 !.sibling[n] = t.child[n], !.child[n] = Nil]

=============================================================================
