----------------------------- MODULE DomainMatcher -----------------------------
(***************************************************************************)
(* The matcher of host names, common/domain: MatcherBuilder collects names *)
(* and suffixes, reversed, with a label byte after a suffix; Build sorts   *)
(* them and lays them out as a trie in level order, a succinctSet, which   *)
(* Has walks.  Names are sequences of ASCII codes.                         *)
(***************************************************************************)
EXTENDS Integers, Sequences, SequencesExt

RootLabel == 10       \* '\n' ends the name of a suffix without a leading dot
PrefixLabel == 13     \* '\r' ends a suffix with one
Dot == 46

\* strings.ToLower.
Lower(name) == [i \in DOMAIN name |-> IF name[i] \in 65 .. 90 THEN name[i] + 32 ELSE name[i]]

-----------------------------------------------------------------------------
(***************************************************************************)
(* MatcherBuilder: `seen` holds names and suffixes alike, as written.      *)
(***************************************************************************)
NoNames == [seen |-> {}, keys |-> {}]

AddDomain(b, d) ==
  IF d \in b.seen THEN b
  ELSE [seen |-> b.seen \cup {d}, keys |-> b.keys \cup {Reverse(d)}]

AddDomainSuffix(b, d) ==
  IF d \in b.seen THEN b
  ELSE [seen |-> b.seen \cup {d},
        keys |-> b.keys \cup {Append(Reverse(d), IF d[1] = Dot THEN PrefixLabel ELSE RootLabel)}]

\* newDomainRule adds every Domain before the first DomainSuffix.
Collected(domains, suffixes) ==
  FoldLeft(AddDomainSuffix, FoldLeft(AddDomain, NoNames, domains), suffixes).keys

\* The order of strings: byte by byte, a prefix first.
Before(s, t) ==
  \E n \in 0 .. Len(s) :
    /\ n <= Len(t) /\ SubSeq(s, 1, n) = SubSeq(t, 1, n)
    /\ \/ n = Len(s) /\ n < Len(t)
       \/ n < Len(s) /\ n < Len(t) /\ s[n + 1] < t[n + 1]

SortedKeys(keys) == SetToSortSeq(keys, Before)

-----------------------------------------------------------------------------
(***************************************************************************)
(* newSuccinctSet.  A node is a run [s, e) of keys that agree on their     *)
(* first col bytes.  Positions and nodes count from 0, as in the code.     *)
(***************************************************************************)
Column(keys, j, col) == keys[j + 1][col + 1]

\* Where the runs of equal bytes begin among the keys s .. e-1 (not empty ones).
RunStarts(keys, s, e, col) ==
  {j \in s .. e - 1 : j = s \/ Column(keys, j, col) # Column(keys, j - 1, col)}

RunEnd(starts, e, j) ==
  IF \E k \in starts : k > j THEN CHOOSE k \in starts : k > j /\ starts \cap (j + 1 .. k - 1) = {}
  ELSE e

\* The i-th node of the queue: note a leaf, queue and label its children.
Expand(keys, set, i) ==
  LET node == set.queue[i + 1]
      leaf == node.col = Len(keys[node.s + 1])
      starts == RunStarts(keys, IF leaf THEN node.s + 1 ELSE node.s, node.e, node.col)
      runs == SetToSortSeq(starts, <)
  IN [queue |-> set.queue \o
                  [r \in DOMAIN runs |-> [s |-> runs[r], e |-> RunEnd(starts, node.e, runs[r]),
                                          col |-> node.col + 1]],
      leaves |-> IF leaf THEN set.leaves \cup {i} ELSE set.leaves,
      labels |-> set.labels \o [r \in DOMAIN runs |-> Column(keys, runs[r], node.col)],
      bitmap |-> set.bitmap \o [r \in DOMAIN runs |-> 0] \o <<1>>]

\* The keys must not be empty: the code panics on keys[0].
SuccinctSet(keys) ==
  LET built[i \in Nat] ==
        IF i = 0 THEN [queue |-> <<[s |-> 0, e |-> Len(keys), col |-> 0]>>,
                       leaves |-> {}, labels |-> <<>>, bitmap |-> <<>>]
        ELSE LET set == built[i - 1]
             IN IF i > Len(set.queue) THEN set ELSE Expand(keys, set, i - 1)
  IN built[1 + FoldLeft(LAMBDA n, key : n + Len(key), 0, keys)]

Build(domains, suffixes) == SuccinctSet(SortedKeys(Collected(domains, suffixes)))

-----------------------------------------------------------------------------
(***************************************************************************)
(* succinctSet.Has.  The ranks and selects tables make these two fast.     *)
(***************************************************************************)
CountZeros(bitmap, n) == Cardinality({p \in 1 .. n : bitmap[p] = 0})

SelectIthOne(bitmap, i) ==
  CHOOSE p \in 0 .. Len(bitmap) - 1 :
    bitmap[p + 1] = 1 /\ p - CountZeros(bitmap, p) = i

\* The positions of the bits of a node's children.
First(set, node) == IF node = 0 THEN 0 ELSE SelectIthOne(set.bitmap, node - 1) + 1
Children(set, node) == First(set, node) .. SelectIthOne(set.bitmap, node) - 1
Label(set, node, p) == set.labels[p - node + 1]
Child(set, p) == CountZeros(set.bitmap, p + 1)

\* Mutant: a name that only ends with the same letters counts.
Decisive_NoDot(set, node, p, c) ==
  \/ Label(set, node, p) \in {PrefixLabel, c}
  \/ Label(set, node, p) = RootLabel /\ Child(set, p) \in set.leaves

\* The label at p ends the search among the children, or is the next byte's.
Decisive(set, node, p, c) ==
  \/ Label(set, node, p) \in {PrefixLabel, c}
  \/ Label(set, node, p) = RootLabel /\ c = Dot /\ Child(set, p) \in set.leaves

Has(set, key) ==
  LET walk[i \in 1 .. Len(key) + 1, node \in 0 .. Len(set.queue) - 1] ==
        IF i > Len(key)
        THEN \/ node \in set.leaves
             \/ \E p \in Children(set, node) : Label(set, node, p) \in {PrefixLabel, RootLabel}
        ELSE LET here == {p \in Children(set, node) : Decisive(set, node, p, key[i])}
             IN IF here = {} THEN FALSE
                ELSE LET p == Min(here)
                     IN Label(set, node, p) # key[i] \/ walk[i + 1, Child(set, p)]
  IN walk[1, 0]

MatchName(set, name) == Has(set, Reverse(Lower(name)))

-----------------------------------------------------------------------------
EndsWith(name, suffix) ==
  Len(suffix) <= Len(name) /\ SubSeq(name, Len(name) - Len(suffix) + 1, Len(name)) = suffix

\* What the two lists of a rule say: the name is one of the domains, or ends with
\* a suffix at a dot.  A suffix that is a domain too counts as a domain only.  The
\* builder lowers no name of a rule: one with an upper-case letter matches nothing.
Means(domains, suffixes, name) ==
  \/ Lower(name) \in ToSet(domains)
  \/ \E s \in ToSet(suffixes) \ ToSet(domains) :
       \/ Lower(name) = s
       \/ EndsWith(Lower(name), IF s[1] = Dot THEN s ELSE <<Dot>> \o s)
=============================================================================
