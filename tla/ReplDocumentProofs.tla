------------------------- MODULE ReplDocumentProofs -------------------------
(***************************************************************************)
(* The document layer keeps its bookkeeping and the PIDE text together,    *)
(* for every set of theories and texts and every bound.  First what the    *)
(* operators on a node do (Sent, Discarded, WithProbes, Restored), then    *)
(* one step per action.                                                    *)
(***************************************************************************)
EXTENDS ReplDocument, SequenceTheorems, WellFoundedInduction, TLAPS

Nodes == [chain : Seq(Entries), doc : Seq(AllTexts)]

\* A node whose chain describes its text.
Good(n) == n \in Nodes /\ InSync(n.chain, n.doc)

IsBare(n) == Header(n.chain) = "bare"

\* Node m has everything node n has.
Extends(n, m) ==
  /\ Len(n.chain) <= Len(m.chain) /\ Len(n.doc) <= Len(m.doc)
  /\ \A i \in 1..Len(n.chain) : m.chain[i] = n.chain[i]
  /\ \A i \in 1..Len(n.doc) : m.doc[i] = n.doc[i]

\* A function on 1..n is a sequence of length n.
LEMMA FunctionSeq ==
  ASSUME NEW S, NEW n \in Nat, NEW f \in [1..n -> S]
  PROVE  f \in Seq(S) /\ Len(f) = n
BY SeqDef, LenProperties

\* Entries, texts and lengths of a typed node.
LEMMA NodeTypes ==
  ASSUME NEW n \in Nodes
  PROVE  /\ n.chain \in Seq(Entries) /\ n.doc \in Seq(AllTexts)
         /\ Len(n.chain) \in Nat /\ Len(n.doc) \in Nat
         /\ \A i \in 1..Len(n.chain) : /\ n.chain[i] \in Entries
                                       /\ n.chain[i].text \in AllTexts
                                       /\ n.chain[i].header \in Headers
         /\ \A i \in 1..Len(n.doc) : n.doc[i] \in AllTexts
         /\ n.chain = <<>> <=> Len(n.chain) = 0
<1>1. n.chain \in Seq(Entries) /\ n.doc \in Seq(AllTexts)
  BY DEF Nodes
<1>2. /\ \A i \in 1..Len(n.chain) : n.chain[i] \in Entries
      /\ \A i \in 1..Len(n.doc) : n.doc[i] \in AllTexts
  BY <1>1, ElementOfSeq
<1>3. \A e \in Entries : e.text \in AllTexts /\ e.header \in Headers
  BY DEF Entries, AllTexts
<1>4. n.chain = <<>> <=> Len(n.chain) = 0
  BY <1>1, EmptySeq
<1>5. QED BY <1>1, <1>2, <1>3, <1>4, LenProperties

\* The text lacks nothing unless the chain ends in a header without imports.
LEMMA FullText ==
  ASSUME NEW n, Good(n), ~IsBare(n)
  PROVE  /\ Len(n.doc) = Len(n.chain)
         /\ \A i \in 1..Len(n.chain) : n.chain[i].header # "bare" /\ n.doc[i] = n.chain[i].text
<1>1. n \in Nodes /\ InSync(n.chain, n.doc)
  BY DEF Good
<1>2. Len(n.chain) \in Nat /\ Len(n.doc) \in Nat
  BY <1>1, NodeTypes
<1>3. CASE n.chain = <<>>
  BY <1>1, <1>2, <1>3, NodeTypes DEF InSync
<1>4. CASE n.chain # <<>>
  <2>1. n.chain[Len(n.chain)].header # "bare" /\ Len(n.chain) \in 1..Len(n.chain)
    BY <1>1, <1>2, <1>4, NodeTypes DEF IsBare, Header
  <2>2. Len(n.chain) <= Len(n.doc)
    BY <1>1, <2>1 DEF InSync
  <2>3. QED BY <1>1, <1>2, <2>2 DEF InSync
<1>5. QED BY <1>3, <1>4

\* Two texts of one chain are the same text.
LEMMA OneText ==
  ASSUME NEW c \in Seq(Entries), NEW d \in Seq(AllTexts), NEW e \in Seq(AllTexts),
         InSync(c, d), InSync(c, e)
  PROVE  d = e
<1>1. Len(c) \in Nat /\ Len(d) \in Nat /\ Len(e) \in Nat
  BY LenProperties
<1>2. Len(d) = Len(e)
  BY <1>1 DEF InSync
<1>3. \A i \in 1..Len(d) : d[i] = e[i]
  BY <1>1, <1>2 DEF InSync
<1>4. d \in [1..Len(d) -> AllTexts] /\ e \in [1..Len(d) -> AllTexts]
  BY <1>2, LenProperties
<1>5. QED BY <1>3, <1>4

\* Headers stay bare and never become bare by anything but a header without imports.
LEMMA HeaderStep ==
  ASSUME NEW h \in Headers, NEW x, NEW g \in NextHeaders(h, x)
  PROVE  /\ g \in Headers
         /\ h = "bare" => g = "bare"
         /\ g = "bare" => NextHeaders(h, x) = {"bare"}
         /\ h = "done" => g = "done"
BY DEF NextHeaders, Headers

\* The header of a chain.
LEMMA HeaderType ==
  ASSUME NEW n \in Nodes
  PROVE  Header(n.chain) \in Headers
<1>1. CASE n.chain = <<>>
  BY <1>1 DEF Header, Headers
<1>2. CASE n.chain # <<>>
  BY <1>2, NodeTypes DEF Header
<1>3. QED BY <1>1, <1>2

\* send_edit keeps chain and text together.
LEMMA SentGood ==
  ASSUME NEW n, Good(n), NEW x \in Texts, NEW h \in NextHeaders(Header(n.chain), x)
  PROVE  /\ Good(Sent(n, x, h))
         /\ Header(Sent(n, x, h).chain) = h
         /\ IsBare(n) => IsBare(Sent(n, x, h))
<1> DEFINE m == Sent(n, x, h)  e == [text |-> x, header |-> h]  k == Len(n.chain)
<1>1. n \in Nodes /\ InSync(n.chain, n.doc)
  BY DEF Good
<1>2. h \in Headers /\ (IsBare(n) => h = "bare")
  BY <1>1, HeaderStep, HeaderType DEF IsBare
<1>3. x \in AllTexts /\ e \in Entries /\ e.header = h /\ e.text = x
  BY <1>2 DEF AllTexts, Entries
<1> HIDE DEF e
<1>4. k \in Nat /\ Len(n.doc) \in Nat /\ n.chain \in Seq(Entries) /\ n.doc \in Seq(AllTexts)
  BY <1>1, NodeTypes
<1>5. /\ m.chain = Append(n.chain, e)
      /\ m.doc = IF h = "bare" THEN n.doc ELSE InsertText(n.doc, k, x)
      /\ m = [chain |-> m.chain, doc |-> m.doc]
  BY DEF Sent, e
<1>6. /\ m.chain \in Seq(Entries) /\ m.chain # <<>> /\ Len(m.chain) = k + 1
      /\ \A i \in 1..k : m.chain[i] = n.chain[i]
      /\ m.chain[k + 1] = e
  BY <1>3, <1>4, <1>5, AppendProperties
<1>7. Header(m.chain) = h
  BY <1>3, <1>6 DEF Header
<1>8. m.doc \in Seq(AllTexts) /\ InSync(m.chain, m.doc)
  <2>1. CASE h = "bare"
    <3>1. m.doc = n.doc
      BY <1>5, <2>1
    <3>2. \A i \in 1..(k + 1) : i <= Len(n.doc) <=> m.chain[i].header # "bare"
      BY <1>1, <1>3, <1>4, <1>6, <2>1 DEF InSync
    <3>3. Len(n.doc) <= k /\ \A i \in 1..Len(n.doc) : n.doc[i] = n.chain[i].text
      BY <1>1 DEF InSync
    <3>4. \A i \in 1..Len(n.doc) : n.doc[i] = m.chain[i].text
      <4>1. \A i \in 1..Len(n.doc) : i \in 1..k
        BY <1>4, <3>3
      <4>2. QED BY <1>6, <3>3, <4>1
    <3>5. QED BY <1>4, <1>6, <3>1, <3>2, <3>3, <3>4 DEF InSync
  <2>2. CASE h # "bare"
    <3>1. /\ Len(n.doc) = k
          /\ \A i \in 1..k : n.chain[i].header # "bare" /\ n.doc[i] = n.chain[i].text
      BY <1>2, <2>2, FullText
    <3>2. m.doc = [i \in 1..(k + 1) |-> IF i <= k THEN n.doc[i] ELSE IF i = k + 1 THEN x ELSE n.doc[i - 1]]
      BY <1>5, <2>2, <3>1 DEF InsertText
    <3>3. \A i \in 1..k : n.doc[i] \in AllTexts
      BY <1>1, <3>1, NodeTypes
    <3>4. m.doc \in [1..(k + 1) -> AllTexts]
      BY <1>3, <1>4, <3>2, <3>3
    <3>5. m.doc \in Seq(AllTexts) /\ Len(m.doc) = k + 1
      <4>1. k + 1 \in Nat
        BY <1>4
      <4>2. QED BY <3>4, <4>1, FunctionSeq
    <3>6. \A i \in 1..(k + 1) : m.chain[i].header # "bare" /\ m.doc[i] = m.chain[i].text
      BY <1>3, <1>4, <1>6, <2>2, <3>1, <3>2
    <3>7. QED BY <1>4, <1>6, <3>5, <3>6 DEF InSync
  <2>3. QED BY <2>1, <2>2
<1>9. m \in Nodes
  BY <1>5, <1>6, <1>8 DEF Nodes
<1>10. QED BY <1>2, <1>7, <1>8, <1>9 DEF Good, IsBare

\* A chain whose text is torn only grows by texts that are not sent.
LEMMA SentTorn ==
  ASSUME NEW n \in Nodes, IsTorn(n), NEW x \in Texts
  PROVE  Sent(n, x, "bare") \in Nodes /\ IsTorn(Sent(n, x, "bare"))
<1>1. n.chain \in Seq(Entries) /\ n.doc \in Seq(AllTexts) /\ n.doc = <<Torn>>
  BY DEF Nodes, IsTorn
<1>2. [text |-> x, header |-> "bare"] \in Entries
  BY DEF Entries, Headers
<1>3. Append(n.chain, [text |-> x, header |-> "bare"]) \in Seq(Entries)
  BY <1>1, <1>2, AppendProperties
<1>4. QED BY <1>1, <1>3 DEF Sent, Nodes, IsTorn

\* discard_last_edit keeps them together, and a full text full.
LEMMA DiscardedGood ==
  ASSUME NEW n, Good(n), ~IsBare(n)
  PROVE  Good(Discarded(n)) /\ ~IsBare(Discarded(n))
<1>1. CASE n.chain = <<>>
  BY <1>1 DEF Discarded
<1>2. CASE n.chain # <<>>
  <2> DEFINE m == Discarded(n)  k == Len(n.chain)
  <2>1. n \in Nodes /\ k \in Nat /\ k >= 1
    BY <1>2, NodeTypes DEF Good
  <2>2. /\ Len(n.doc) = k
        /\ \A i \in 1..k : n.chain[i].header # "bare" /\ n.doc[i] = n.chain[i].text
    BY FullText
  <2>3. /\ m.chain = SubSeq(n.chain, 1, k - 1) /\ m.doc = RemoveText(n.doc, k)
        /\ m = [chain |-> m.chain, doc |-> m.doc]
    BY <1>2 DEF Discarded
  <2>4. \A i \in 1..k : n.chain[i] \in Entries /\ n.doc[i] \in AllTexts
    BY <2>1, <2>2, NodeTypes
  <2>5. /\ m.chain \in Seq(Entries) /\ Len(m.chain) = k - 1
        /\ \A i \in 1..(k - 1) : m.chain[i] = n.chain[i]
    BY <2>1, <2>3, <2>4, SubSeqProperties
  <2>6. m.doc = [i \in 1..(k - 1) |-> IF i < k THEN n.doc[i] ELSE n.doc[i + 1]]
    BY <2>2, <2>3 DEF RemoveText
  <2>7. m.doc \in [1..(k - 1) -> AllTexts] /\ \A i \in 1..(k - 1) : m.doc[i] = n.doc[i]
    BY <2>1, <2>4, <2>6
  <2>8. m.doc \in Seq(AllTexts) /\ Len(m.doc) = k - 1
    <3>1. k - 1 \in Nat
      BY <2>1
    <3>2. QED BY <2>7, <3>1, FunctionSeq
  <2>9. m \in Nodes
    BY <2>3, <2>5, <2>8 DEF Nodes
  <2> HIDE DEF m
  <2>10. \A i \in 1..(k - 1) : m.chain[i].header # "bare" /\ m.doc[i] = m.chain[i].text
    BY <2>1, <2>2, <2>5, <2>7, SMTT(30)
  <2>11. InSync(m.chain, m.doc)
    BY <2>1, <2>5, <2>8, <2>10 DEF InSync
  <2>12. Header(m.chain) # "bare"
    BY <2>1, <2>5, <2>10 DEF Header
  <2>13. QED BY <2>9, <2>11, <2>12 DEF Good, IsBare, m
<1>3. QED BY <1>1, <1>2

\* Inserting probes at the end keeps them together.
LEMMA WithProbesGood ==
  ASSUME NEW n, Good(n), Begun(n), NEW j \in 1..2
  PROVE  Good(WithProbes(n, j)) /\ ~IsBare(WithProbes(n, j)) /\ Begun(WithProbes(n, j))
<1> DEFINE m == WithProbes(n, j)  k == Len(n.chain)
           es == [i \in 1..j |-> [text |-> Probe, header |-> "done"]]
           xs == [i \in 1..j |-> Probe]
<1>1. n \in Nodes /\ k \in Nat /\ n.chain \in Seq(Entries) /\ n.doc \in Seq(AllTexts)
  BY NodeTypes DEF Good
<1>2. /\ Len(n.doc) = k
      /\ \A i \in 1..k : n.chain[i].header # "bare" /\ n.doc[i] = n.chain[i].text
  BY FullText DEF Begun, IsBare
<1>3. es \in [1..j -> Entries] /\ xs \in [1..j -> AllTexts]
  BY DEF Entries, AllTexts, Headers
<1>4. /\ es \in Seq(Entries) /\ Len(es) = j /\ xs \in Seq(AllTexts) /\ Len(xs) = j
  BY <1>3, SeqDef, LenProperties
<1>5. \A i \in 1..j : es[i].header = "done" /\ es[i].text = Probe /\ xs[i] = Probe
  OBVIOUS
<1>6. m = [chain |-> n.chain \o es, doc |-> n.doc \o xs]
  BY DEF WithProbes
<1> HIDE DEF es, xs, m
<1>7. /\ m.chain \in Seq(Entries) /\ Len(m.chain) = k + j
      /\ \A i \in 1..(k + j) : m.chain[i] = IF i <= k THEN n.chain[i] ELSE es[i - k]
  BY <1>1, <1>4, <1>6, ConcatProperties
<1>8. /\ m.doc \in Seq(AllTexts) /\ Len(m.doc) = k + j
      /\ \A i \in 1..(k + j) : m.doc[i] = IF i <= k THEN n.doc[i] ELSE xs[i - k]
  <2>1. m.doc = n.doc \o xs
    BY <1>6
  <2>2. /\ n.doc \o xs \in Seq(AllTexts) /\ Len(n.doc \o xs) = Len(n.doc) + j
        /\ \A i \in 1..(Len(n.doc) + j) :
             (n.doc \o xs)[i] = IF i <= Len(n.doc) THEN n.doc[i] ELSE xs[i - Len(n.doc)]
    BY <1>1, <1>4, ConcatProperties
  <2>3. QED BY <1>2, <2>1, <2>2
<1>9. \A i \in 1..(k + j) : m.chain[i].header # "bare" /\ m.doc[i] = m.chain[i].text
  <2>1. TAKE i \in 1..(k + j)
  <2>2. CASE i <= k
    BY <1>1, <1>2, <1>7, <1>8, <2>2
  <2>3. CASE i > k
    <3>1. i - k \in 1..j
      BY <1>1, <2>3
    <3>2. m.chain[i] = es[i - k] /\ m.doc[i] = xs[i - k]
      BY <1>1, <1>7, <1>8, <2>3
    <3>3. QED BY <1>5, <3>1, <3>2
  <2>4. QED BY <1>1, <2>2, <2>3
<1>10. InSync(m.chain, m.doc)
  BY <1>1, <1>7, <1>8, <1>9 DEF InSync
<1>11. m \in Nodes
  BY <1>6, <1>7, <1>8 DEF Nodes
<1>12. Header(m.chain) = "done"
  <2>1. m.chain # <<>> /\ k + j \in 1..(k + j) /\ ~(k + j <= k) /\ (k + j) - k = j
    BY <1>1, <1>11, <1>7, NodeTypes
  <2>2. m.chain[k + j] = es[j]
    BY <1>7, <2>1
  <2>3. es[j].header = "done"
    BY <1>5
  <2>4. QED BY <1>7, <2>1, <2>2, <2>3 DEF Header
<1>13. QED BY <1>10, <1>11, <1>12 DEF Good, IsBare, Begun, m

\* A probe leaves a good node, whatever fails in it.
LEMMA ProbeLeavesGood ==
  ASSUME NEW n, Good(n), NEW m \in ProbeLeaves(n)
  PROVE  Good(m) /\ (IsBare(n) => IsBare(m))
<1>1. CASE ~Begun(n) \/ Ended(n) \/ IsTorn(n)
  BY <1>1 DEF ProbeLeaves
<1>2. CASE Begun(n) /\ ~Ended(n) /\ ~IsTorn(n)
  <2>1. m \in {Discarded(WithProbes(n, 1)), Discarded(WithProbes(n, 2)), WithProbes(n, 2)}
    BY <1>2 DEF ProbeLeaves
  <2>2. /\ Good(WithProbes(n, 1)) /\ ~IsBare(WithProbes(n, 1))
        /\ Good(WithProbes(n, 2)) /\ ~IsBare(WithProbes(n, 2))
    BY <1>2, WithProbesGood
  <2>3. Good(Discarded(WithProbes(n, 1))) /\ Good(Discarded(WithProbes(n, 2)))
    BY <2>2, DiscardedGood
  <2>4. ~IsBare(n)
    BY <1>2 DEF IsBare, Begun
  <2>5. QED BY <2>1, <2>2, <2>3, <2>4
<1>3. QED BY <1>1, <1>2

\* So do two probes in a row.
LEMMA ProofOpenLeavesGood ==
  ASSUME NEW n, Good(n), NEW m \in ProofOpenLeaves(n)
  PROVE  Good(m) /\ (IsBare(n) => IsBare(m))
<1>1. CASE m \in ProbeLeaves(n)
  BY <1>1, ProbeLeavesGood
<1>2. CASE \E l \in ProbeLeaves(n) : m \in ProbeLeaves(l)
  <2>1. PICK l \in ProbeLeaves(n) : m \in ProbeLeaves(l)
    BY <1>2
  <2>2. Good(l) /\ (IsBare(n) => IsBare(l))
    BY ProbeLeavesGood
  <2>3. QED BY <2>1, <2>2, ProbeLeavesGood
<1>3. QED BY <1>1, <1>2 DEF ProofOpenLeaves

\* nearest_common_ancestor exists, and both chains agree up to it.
LEMMA AncestorShared ==
  ASSUME NEW a \in Seq(Entries), NEW b \in Seq(Entries)
  PROVE  /\ Ancestor(a, b) \in 0..Len(a)
         /\ Ancestor(a, b) <= Len(b)
         /\ \A k \in 1..Ancestor(a, b) : a[k] = b[k]
<1> DEFINE P(i) == Parts(a, b, i)
           T == {i \in 0..Len(a) : P(i)}
<1>1. Len(a) \in Nat /\ Len(b) \in Nat
  BY LenProperties
<1>2. T \subseteq Nat /\ T # {}
  <2>1. Len(a) \in T
    BY <1>1 DEF Parts
  <2>2. QED BY <1>1, <2>1
<1>3. \E i \in T : \A k \in T : ~(<<k, i>> \in OpToRel(<, Nat))
  BY <1>2, NatLessThanWellFounded, WFMin
<1>4. PICK i \in T : \A k \in T : ~(k < i)
  BY <1>2, <1>3 DEF OpToRel
<1>5. \A k \in 0..(i - 1) : ~P(k)
  BY <1>1, <1>4
<1>6. \E j \in 0..Len(a) : Parts(a, b, j) /\ \A k \in 0..(j - 1) : ~Parts(a, b, k)
  BY <1>4, <1>5
<1> DEFINE j == Ancestor(a, b)
<1>7. j \in 0..Len(a) /\ \A k \in 0..(j - 1) : ~Parts(a, b, k)
  BY <1>6 DEF Ancestor
<1> HIDE DEF j
<1>8. \A k \in 0..(j - 1) : k # Len(b) /\ a[k + 1] = b[k + 1]
  BY <1>7 DEF Parts
<1>9. j <= Len(b)
  <2>1. SUFFICES ASSUME j > Len(b) PROVE FALSE
    BY <1>1, <1>7
  <2>2. Len(b) \in 0..(j - 1)
    BY <1>1, <1>7, <2>1
  <2>3. QED BY <1>8, <2>2
<1>10. \A k \in 1..j : a[k] = b[k]
  <2>1. TAKE k \in 1..j
  <2>2. k - 1 \in 0..(j - 1) /\ (k - 1) + 1 = k
    BY <1>7
  <2>3. QED BY <1>8, <2>2
<1>11. QED BY <1>7, <1>9, <1>10 DEF j

\* restore_state of a theory gives the text of the saved chain.
LEMMA RestoredGood ==
  ASSUME NEW n, Good(n), ~IsBare(n), NEW c \in Seq(Entries)
  PROVE  /\ Restored(n, c) \in Nodes /\ Restored(n, c).chain = c
         /\ Len(Restored(n, c).doc) = Len(c)
         /\ \A k \in 1..Len(c) : Restored(n, c).doc[k] = c[k].text
<1> DEFINE i == Ancestor(n.chain, c)  m == Restored(n, c)
<1>1. n \in Nodes /\ n.chain \in Seq(Entries) /\ Len(n.chain) \in Nat /\ Len(c) \in Nat
  BY NodeTypes, LenProperties DEF Good
<1>2. /\ Len(n.doc) = Len(n.chain)
      /\ \A k \in 1..Len(n.chain) : n.doc[k] = n.chain[k].text
  BY FullText
<1>3. i \in 0..Len(n.chain) /\ i <= Len(c) /\ \A k \in 1..i : n.chain[k] = c[k]
  BY <1>1, AncestorShared
<1> HIDE DEF i
<1>4. m = [chain |-> c,
           doc |-> [k \in 1..Len(c) |-> IF k <= i THEN n.doc[k]
                                        ELSE IF k <= Len(c) THEN c[k].text
                                        ELSE n.doc[k - Len(c) + Len(n.chain)]]]
  <2>1. Len(c) + (Len(n.doc) - Len(n.chain)) = Len(c)
    BY <1>1, <1>2
  <2>2. QED BY <2>1 DEF Restored, i
<1> HIDE DEF m
<1>5. \A k \in 1..Len(c) : c[k].text \in AllTexts
  <2>1. \A k \in 1..Len(c) : c[k] \in Entries
    BY ElementOfSeq
  <2>2. \A e \in Entries : e.text \in AllTexts
    BY DEF Entries, AllTexts
  <2>3. QED BY <2>1, <2>2
<1>6. \A k \in 1..Len(c) : m.doc[k] = c[k].text
  BY <1>1, <1>2, <1>3, <1>4
<1>7. m.doc \in [1..Len(c) -> AllTexts]
  BY <1>4, <1>5, <1>6
<1>8. m.doc \in Seq(AllTexts) /\ Len(m.doc) = Len(c)
  BY <1>1, <1>7, SeqDef, LenProperties
<1>9. m \in Nodes /\ m.chain = c
  BY <1>4, <1>8 DEF Nodes
<1>10. QED BY <1>6, <1>8, <1>9 DEF m

-----------------------------------------------------------------------------
(* The actions.                                                            *)

\* In a wedged session only the types are left to show.
LEMMA WhenWedged ==
  ASSUME TypeOK', wedged'
  PROVE  IInv'
BY DEF IInv, Coherent, SavedInSync, RestoreExact

\* The nodes of a session that is not wedged.
LEMMA NodesGood ==
  ASSUME IInv, ~wedged, NEW t \in Theories
  PROVE  /\ node[t] \in Nodes
         /\ ~IsTorn(node[t]) => Good(node[t])
BY DEF IInv, TypeOK, Coherent, Good, Nodes

\* An operation that replaces the current node by a good or a torn one, and keeps
\* a torn text torn and a bare header bare, preserves the invariant.
LEMMA NodeChanged ==
  ASSUME IInv, Active, NEW m \in Nodes, IsTorn(m) \/ Good(m),
         IsTorn(Here) => IsTorn(m), IsBare(Here) => IsBare(m) \/ IsTorn(m), Change(m),
         reply' \in Replies, reply'.op # "restore",
         UNCHANGED <<thys, entered, saved, count, known, wedged, snap>>
  PROVE  IInv'
<1>1. TypeOK /\ ~wedged /\ entered \in Theories
  BY DEF IInv, TypeOK, Active
<1>2. node' = [node EXCEPT ![entered] = m] /\ node \in [Theories -> Nodes]
  BY DEF Change, IInv, TypeOK, Nodes
<1>3. /\ node' \in [Theories -> Nodes]
      /\ \A t \in Theories : node'[t] = IF t = entered THEN m ELSE node[t]
  BY <1>1, <1>2
<1>4. TypeOK'
  BY <1>1, <1>3 DEF TypeOK, Nodes
<1>5. \A t \in Theories : IsTorn(node'[t]) \/ InSync(node'[t].chain, node'[t].doc)
  BY <1>1, <1>3, NodesGood DEF Good
<1>6. Coherent'
  BY <1>5 DEF Coherent
<1>7. \A t \in Theories : /\ IsTorn(node[t]) => IsTorn(node'[t])
                          /\ Behind(node[t]) => Behind(node'[t])
  BY <1>3 DEF Behind, IsBare, Here
<1>8. SavedInSync'
  BY <1>1, <1>7 DEF IInv, SavedInSync
<1>9. RestoreExact'
  BY DEF RestoreExact
<1>10. QED BY <1>4, <1>6, <1>8, <1>9 DEF IInv

\* An operation that leaves the nodes alone.
LEMMA NodeKept ==
  ASSUME IInv, reply' \in Replies, reply'.op # "restore",
         UNCHANGED <<node, thys, entered, saved, count, known, wedged, snap>>
  PROVE  IInv'
<1>1. TypeOK'
  BY DEF IInv, TypeOK
<1>2. Coherent' /\ SavedInSync'
  BY DEF IInv, Coherent, SavedInSync
<1>3. RestoreExact'
  BY DEF RestoreExact
<1>4. QED BY <1>1, <1>2, <1>3 DEF IInv

\* Ids start with 0.
LEMMA ZeroId == 0 \in Ids
BY TextAssumption DEF Ids

\* The answer of an operation that is not a restore.
LEMMA AnswerType ==
  ASSUME NEW op \in {"none", "enter", "step", "rollback", "verify", "report", "probe", "save", "reset"},
         NEW res \in {"ok", "raised", "rejected", "kept", "discarded", "timed out", "false"},
         Answer(op, res)
  PROVE  reply' \in Replies /\ reply'.op # "restore"
<1>1. 0 \in Ids
  BY ZeroId
<1>2. reply' = [op |-> op, res |-> res, id |-> 0]
  BY DEF Answer
<1>3. reply'.op = op /\ op # "restore"
  BY <1>2
<1>4. reply' \in Replies
  BY <1>1, <1>2 DEF Replies
<1>5. QED BY <1>3, <1>4

\* enter_thy, step and the operations that probe.
LEMMA EditingActions ==
  ASSUME IInv,
         \/ \E t \in Theories : EnterThy(t)
         \/ \E x \in Texts : Step(x) \/ StepRejected(x) \/ VerifyChunk(x) \/ StepChunkReport(x)
         \/ ProbeState
  PROVE  IInv'
<1>1. ASSUME NEW t \in Theories, EnterThy(t) PROVE IInv'
  <2>1. reply' \in Replies /\ reply'.op # "restore"
    BY <1>1, AnswerType DEF EnterThy
  <2>2. TypeOK'
    BY <1>1, <2>1 DEF EnterThy, IInv, TypeOK
  <2>3. Coherent' /\ SavedInSync'
    BY <1>1 DEF EnterThy, IInv, Coherent, SavedInSync
  <2>4. RestoreExact'
    BY <2>1 DEF RestoreExact
  <2>5. QED BY <2>2, <2>3, <2>4 DEF IInv
<1>2. Active => /\ Here \in Nodes
                /\ ~IsTorn(Here) => Good(Here)
  BY NodesGood DEF Active, Here, IInv, TypeOK
<1>3. ASSUME NEW x \in Texts, Step(x) PROVE IInv'
  <2>1. PICK h \in NextHeaders(Header(Here.chain), x) :
          /\ IsTorn(Here) => h = "bare"
          /\ Change(Sent(Here, x, h))
          /\ Answer("step", IF h = "bare" THEN "raised" ELSE "ok")
    BY <1>3 DEF Step
  <2>2. Active /\ UNCHANGED <<thys, entered, saved, count, known, wedged, snap>>
    BY <1>3 DEF Step
  <2>3. reply' \in Replies /\ reply'.op # "restore"
    BY <2>1, AnswerType
  <2>4. CASE IsTorn(Here)
    BY <1>2, <2>1, <2>2, <2>3, <2>4, SentTorn, NodeChanged
  <2>5. CASE ~IsTorn(Here)
    <3>1. Good(Sent(Here, x, h)) /\ (IsBare(Here) => IsBare(Sent(Here, x, h)))
      BY <1>2, <2>2, <2>5, SentGood
    <3>2. Sent(Here, x, h) \in Nodes
      BY <3>1 DEF Good
    <3>3. QED BY <2>1, <2>2, <2>3, <2>5, <3>1, <3>2, NodeChanged
  <2>6. QED BY <2>4, <2>5
<1>4. ASSUME NEW x \in Texts, StepRejected(x) PROVE IInv'
  <2>1. reply' \in Replies /\ reply'.op # "restore"
    BY <1>4, AnswerType DEF StepRejected
  <2>2. QED BY <1>4, <2>1, NodeKept DEF StepRejected
<1>5. ASSUME NEW x \in Texts, VerifyChunk(x) PROVE IInv'
  <2> DEFINE n == Sent(Here, x, "done")
  <2>1. Active /\ Begun(Here) /\ ~IsBare(Here) /\ ~IsTorn(Here)
    BY <1>5 DEF VerifyChunk, Begun, IsBare
  <2>2. "done" \in NextHeaders(Header(Here.chain), x)
    BY <2>1 DEF NextHeaders, Begun
  <2>3. Good(n) /\ ~IsBare(n)
    BY <1>2, <2>1, <2>2, SentGood DEF IsBare
  <2> HIDE DEF n
  <2>4. CASE (\E m \in ProofOpenLeaves(n) : Fits(m) /\ Change(m)) /\ Answer("verify", "kept")
    <3>1. PICK m \in ProofOpenLeaves(n) : Change(m)
      BY <2>4
    <3>2. Good(m) /\ m \in Nodes /\ reply' \in Replies /\ reply'.op # "restore"
      BY <2>3, <2>4, ProofOpenLeavesGood, AnswerType DEF Good
    <3>3. QED BY <1>5, <2>1, <3>1, <3>2, NodeChanged DEF VerifyChunk
  <2>5. CASE Change(Discarded(n)) /\ Answer("verify", "discarded")
    <3>1. /\ Good(Discarded(n)) /\ Discarded(n) \in Nodes
          /\ reply' \in Replies /\ reply'.op # "restore"
      BY <2>3, <2>5, DiscardedGood, AnswerType DEF Good
    <3>2. QED BY <1>5, <2>1, <2>5, <3>1, NodeChanged DEF VerifyChunk
  <2>6. QED BY <1>5, <2>4, <2>5 DEF VerifyChunk, n
<1>6. ASSUME NEW x \in Texts, StepChunkReport(x) PROVE IInv'
  <2> DEFINE hs == NextHeaders(Header(Here.chain), x)
             now == IF hs = {} THEN {Here} ELSE {Sent(Here, x, h) : h \in hs}
  <2>1. /\ Active /\ Here \in Nodes /\ Header(Here.chain) \in Headers
        /\ ~IsTorn(Here) => Good(Here)
        /\ UNCHANGED <<thys, entered, saved, count, known, wedged, snap>>
    BY <1>2, <1>6, HeaderType DEF StepChunkReport
  <2>2. CASE hs = {"bare"} /\ Change(Sent(Here, x, "bare")) /\ Answer("report", "raised")
    <3>1. reply' \in Replies /\ reply'.op # "restore"
      BY <2>2, AnswerType
    <3>2. CASE IsTorn(Here)
      BY <2>1, <2>2, <3>1, <3>2, SentTorn, NodeChanged
    <3>3. CASE ~IsTorn(Here)
      <4>1. "bare" \in NextHeaders(Header(Here.chain), x)
        BY <2>2
      <4>2. Good(Sent(Here, x, "bare")) /\ Header(Sent(Here, x, "bare").chain) = "bare"
        BY <2>1, <3>3, <4>1, SentGood
      <4>3. Sent(Here, x, "bare") \in Nodes /\ IsBare(Sent(Here, x, "bare"))
        BY <4>2 DEF Good, IsBare
      <4>4. QED BY <2>1, <2>2, <3>1, <3>3, <4>2, <4>3, NodeChanged
    <3>4. QED BY <3>2, <3>3
  <2>3. CASE /\ hs # {"bare"} /\ ~IsTorn(Here)
             /\ \E n \in now : \/ /\ \E m \in ProofOpenLeaves(n) : Fits(m) /\ Change(m)
                                 /\ Answer("report", "kept")
                              \/ /\ Change(Discarded(n))
                                 /\ Answer("report", "timed out")
    <3>1. PICK n \in now : \/ /\ \E m \in ProofOpenLeaves(n) : Fits(m) /\ Change(m)
                              /\ Answer("report", "kept")
                           \/ /\ Change(Discarded(n))
                              /\ Answer("report", "timed out")
      BY <2>3
    <3>2. Good(n) /\ ~IsBare(n) /\ ~IsBare(Here)
      <4>1. CASE hs = {}
        <5>1. Header(Here.chain) # "bare"
          BY <4>1 DEF NextHeaders
        <5>2. QED BY <2>1, <2>3, <4>1, <5>1 DEF IsBare
      <4>2. CASE hs # {}
        <5>1. PICK h \in hs : n = Sent(Here, x, h)
          BY <4>2
        <5>2. Good(n) /\ Header(n.chain) = h /\ (IsBare(Here) => IsBare(n))
          BY <2>1, <2>3, <5>1, SentGood
        <5>3. h = "bare" => hs = {"bare"}
          BY <2>1, HeaderStep
        <5>4. QED BY <2>3, <5>2, <5>3 DEF IsBare
      <4>3. QED BY <4>1, <4>2
    <3> HIDE DEF hs, now
    <3>3. CASE (\E m \in ProofOpenLeaves(n) : Change(m)) /\ Answer("report", "kept")
      <4>1. PICK m \in ProofOpenLeaves(n) : Change(m)
        BY <3>3
      <4>2. Good(m) /\ m \in Nodes /\ reply' \in Replies /\ reply'.op # "restore"
        BY <3>2, <3>3, ProofOpenLeavesGood, AnswerType DEF Good
      <4>3. QED BY <2>1, <2>3, <3>2, <4>1, <4>2, NodeChanged
    <3>4. CASE Change(Discarded(n)) /\ Answer("report", "timed out")
      <4>1. /\ Good(Discarded(n)) /\ Discarded(n) \in Nodes
            /\ reply' \in Replies /\ reply'.op # "restore"
        BY <3>2, <3>4, DiscardedGood, AnswerType DEF Good
      <4>2. QED BY <2>1, <2>3, <3>2, <3>4, <4>1, NodeChanged
    <3>5. QED BY <3>1, <3>3, <3>4
  <2>4. QED BY <1>6, <2>2, <2>3 DEF StepChunkReport
<1>7. ASSUME ProbeState PROVE IInv'
  <2>1. PICK m \in ProbeLeaves(Here) : Change(m)
    BY <1>7 DEF ProbeState
  <2>2. Active /\ UNCHANGED <<thys, entered, saved, count, known, wedged, snap>>
    BY <1>7 DEF ProbeState
  <2>3. reply' \in Replies /\ reply'.op # "restore"
    BY <1>7, AnswerType DEF ProbeState
  <2>4. CASE IsTorn(Here)
    <3>1. m = Here
      BY <2>1, <2>4 DEF ProbeLeaves
    <3>2. QED BY <1>2, <2>1, <2>2, <2>3, <2>4, <3>1, NodeChanged
  <2>5. CASE ~IsTorn(Here)
    <3>1. Good(m) /\ (IsBare(Here) => IsBare(m))
      BY <1>2, <2>1, <2>2, <2>5, ProbeLeavesGood
    <3>2. m \in Nodes
      BY <3>1 DEF Good
    <3>3. QED BY <2>1, <2>2, <2>3, <2>5, <3>1, <3>2, NodeChanged
  <2>6. QED BY <2>4, <2>5
<1>8. QED BY <1>1, <1>3, <1>4, <1>5, <1>6, <1>7

\* rollback
LEMMA RollbackAction ==
  ASSUME IInv, Rollback
  PROVE  IInv'
<1>1. /\ Active /\ ~IsTorn(Here) /\ ~IsBare(Here) /\ Change(Discarded(Here))
      /\ UNCHANGED <<thys, entered, saved, count, known, wedged, snap>>
  BY DEF Rollback, Behind, IsBare
<1>2. Good(Here)
  BY <1>1, NodesGood DEF Active, Here, IInv, TypeOK
<1>3. reply' \in Replies /\ reply'.op # "restore"
  BY AnswerType DEF Rollback
<1>4. Good(Discarded(Here)) /\ Discarded(Here) \in Nodes
  BY <1>1, <1>2, DiscardedGood DEF Good
<1>5. QED BY <1>1, <1>3, <1>4, NodeChanged

\* An edit that PIDE rejects wedges the session.
LEMMA RejectedAction ==
  ASSUME IInv, NEW op \in {"step", "rollback", "verify", "report", "probe"}, EditRejected(op)
  PROVE  IInv'
<1>1. wedged' = TRUE /\ UNCHANGED <<node, thys, entered, saved, count, known, snap>>
  BY DEF EditRejected
<1>2. reply' \in Replies
  BY AnswerType DEF EditRejected
<1>3. TypeOK'
  BY <1>1, <1>2 DEF IInv, TypeOK
<1>4. QED BY <1>1, <1>3, WhenWedged

\* saved_states.addOne
LEMMA SavedMap ==
  ASSUME NEW f, DOMAIN f \subseteq Ids, f \in [DOMAIN f -> Seq(Entries)],
         NEW i \in Ids, NEW c \in Seq(Entries)
  PROVE  /\ DOMAIN Saved(f, i, c) = DOMAIN f \cup {i}
         /\ DOMAIN Saved(f, i, c) \subseteq Ids
         /\ Saved(f, i, c) \in [DOMAIN Saved(f, i, c) -> Seq(Entries)]
         /\ Saved(f, i, c)[i] = c
         /\ \A k \in DOMAIN f : k # i => Saved(f, i, c)[k] = f[k]
BY DEF Saved

\* save_state: what is saved describes the text the nodes have now.
LEMMA SaveAction ==
  ASSUME IInv, NEW heard \in BOOLEAN, SaveState(heard)
  PROVE  IInv'
<1>1. /\ TypeOK /\ ~wedged /\ count \in Ids /\ count + 1 \in Ids /\ count \in Nat
      /\ node \in [Theories -> Nodes]
  BY TextAssumption, SMTT(30) DEF SaveState, IInv, TypeOK, Nodes, Ids
<1>2. \A t \in Theories : /\ IsTorn(node[t]) \/ InSync(node[t].chain, node[t].doc)
                          /\ node[t].chain \in Seq(Entries) /\ node[t].doc \in Seq(AllTexts)
  BY <1>1, NodesGood, NodeTypes DEF Good
<1>3. /\ DOMAIN saved' = Theories
      /\ \A t \in Theories : saved'[t] = IF t \in thys THEN Saved(saved[t], count, node[t].chain)
                                                       ELSE saved[t]
  BY DEF SaveState
<1>4. \A t \in Theories : /\ DOMAIN saved[t] \subseteq Ids
                          /\ saved[t] \in [DOMAIN saved[t] -> Seq(Entries)]
  BY <1>1 DEF TypeOK
<1>5. /\ snap' \in [Ids -> [Theories -> Seq(AllTexts)]]
      /\ snap'[count] = [t \in Theories |-> node[t].doc]
      /\ \A i \in Ids : i # count => snap'[i] = snap[i]
  <2>1. [t \in Theories |-> node[t].doc] \in [Theories -> Seq(AllTexts)]
    BY <1>2
  <2>2. snap \in [Ids -> [Theories -> Seq(AllTexts)]]
    BY <1>1 DEF TypeOK
  <2>3. snap' = [snap EXCEPT ![count] = [t \in Theories |-> node[t].doc]]
    BY DEF SaveState
  <2>4. QED BY <1>1, <2>1, <2>2, <2>3
<1>6. reply' \in Replies /\ reply'.op # "restore"
  BY <1>1 DEF SaveState, Replies
<1>7. ASSUME NEW t \in Theories
      PROVE  /\ DOMAIN saved'[t] = IF t \in thys THEN DOMAIN saved[t] \cup {count} ELSE DOMAIN saved[t]
             /\ DOMAIN saved'[t] \subseteq Ids
             /\ saved'[t] \in [DOMAIN saved'[t] -> Seq(Entries)]
             /\ t \in thys => saved'[t][count] = node[t].chain
             /\ \A k \in DOMAIN saved[t] : k # count => saved'[t][k] = saved[t][k]
  <2> DEFINE f == saved[t]  c == node[t].chain
  <2>1. DOMAIN f \subseteq Ids /\ f \in [DOMAIN f -> Seq(Entries)] /\ c \in Seq(Entries) /\ count \in Ids
    BY <1>1, <1>2, <1>4
  <2>2. saved'[t] = IF t \in thys THEN Saved(f, count, c) ELSE f
    BY <1>3
  <2> HIDE DEF f, c
  <2>3. /\ DOMAIN Saved(f, count, c) = DOMAIN f \cup {count}
        /\ DOMAIN Saved(f, count, c) \subseteq Ids
        /\ Saved(f, count, c) \in [DOMAIN Saved(f, count, c) -> Seq(Entries)]
        /\ Saved(f, count, c)[count] = c
        /\ \A k \in DOMAIN f : k # count => Saved(f, count, c)[k] = f[k]
    BY <2>1, SavedMap
  <2>4. CASE t \in thys
    BY <2>2, <2>3, <2>4 DEF f, c
  <2>5. CASE t \notin thys
    BY <2>1, <2>2, <2>5 DEF f
  <2>6. QED BY <2>4, <2>5
<1>8. TypeOK'
  BY <1>1, <1>3, <1>5, <1>6, <1>7 DEF SaveState, TypeOK
<1>9. Coherent'
  BY DEF SaveState, IInv, Coherent
<1>10. SavedInSync'
  <2>1. SUFFICES ASSUME NEW t \in Theories, NEW i \in DOMAIN saved'[t]
                 PROVE  /\ i < count + 1 /\ t \in thys
                        /\ IsTorn(node[t]) \/ InSync(saved'[t][i], snap'[i][t])
                        /\ Header(saved'[t][i]) = "bare" => Behind(node[t])
    BY DEF SaveState, SavedInSync
  <2>2. CASE i \in DOMAIN saved[t]
    <3>1. /\ i < count /\ t \in thys
          /\ IsTorn(node[t]) \/ InSync(saved[t][i], snap[i][t])
          /\ Header(saved[t][i]) = "bare" => Behind(node[t])
      BY <1>1, <2>2 DEF IInv, SavedInSync
    <3>2. i \in Ids /\ i # count /\ i < count + 1
      BY <1>1, <1>4, <2>2, <3>1 DEF Ids
    <3>3. saved'[t][i] = saved[t][i] /\ snap'[i] = snap[i]
      BY <1>5, <1>7, <2>2, <3>2
    <3>4. QED BY <3>1, <3>2, <3>3
  <2>3. CASE i \notin DOMAIN saved[t]
    <3>1. t \in thys /\ i = count
      BY <1>7, <2>1, <2>3
    <3>2. saved'[t][i] = node[t].chain
      BY <1>7, <3>1
    <3>3. snap'[i][t] = node[t].doc
      BY <1>5, <3>1
    <3>4. QED BY <1>1, <1>2, <3>1, <3>2, <3>3 DEF Behind
  <2>4. QED BY <2>2, <2>3
<1>11. RestoreExact'
  BY <1>6 DEF RestoreExact
<1>12. QED BY <1>8, <1>9, <1>10, <1>11 DEF IInv

\* restore_checkpoint: every theory saved under the id gets the saved text back, is
\* torn, or wedges the session.
LEMMA RestoreAction ==
  ASSUME IInv, NEW i \in Ids, RestoreCheckpoint(i)
  PROVE  IInv'
<1> DEFINE back == IF Valid(i) THEN {t \in thys : i \in DOMAIN saved[t] /\ node[t].chain # saved[t][i]}
                   ELSE {}
           behind == {t \in back : Behind(node[t])}
<1>1. TypeOK /\ ~wedged /\ node \in [Theories -> Nodes] /\ thys \subseteq Theories
  BY DEF RestoreCheckpoint, IInv, TypeOK, Nodes
<1>2. PICK fit \in SUBSET {t \in behind : MayFit(node[t], saved[t][i])} :
        /\ node' = [t \in Theories |->
                      IF t \in fit THEN [chain |-> saved[t][i], doc |-> <<Torn>>]
                      ELSE IF t \in back \ behind THEN Restored(node[t], saved[t][i])
                      ELSE node[t]]
        /\ wedged' = (behind # fit)
  BY DEF RestoreCheckpoint
<1>3. /\ UNCHANGED <<thys, entered, saved, count, known, snap>>
      /\ reply' = [op |-> "restore", res |-> IF Valid(i) THEN "ok" ELSE "false", id |-> i]
  BY DEF RestoreCheckpoint
<1>4. /\ fit \subseteq behind /\ behind \subseteq back
      /\ \A t \in back : t \in Theories /\ i \in DOMAIN saved[t] /\ saved[t][i] \in Seq(Entries)
      /\ \A t \in back \ behind : ~Behind(node[t])
  BY <1>1 DEF TypeOK
<1>5. \A t \in thys : Valid(i) /\ i \in DOMAIN saved[t] /\ t \notin back => node[t].chain = saved[t][i]
  OBVIOUS
<1> HIDE DEF back, behind
<1>6. ASSUME NEW t \in fit
      PROVE  node'[t] \in Nodes /\ IsTorn(node'[t])
  <2>1. node'[t] = [chain |-> saved[t][i], doc |-> <<Torn>>] /\ saved[t][i] \in Seq(Entries)
    BY <1>2, <1>4, <1>6
  <2>2. <<Torn>> \in Seq(AllTexts)
    BY DEF AllTexts
  <2>3. QED BY <2>1, <2>2 DEF Nodes, IsTorn
<1>7. ASSUME NEW t \in back \ behind
      PROVE  /\ node'[t] \in Nodes /\ node'[t].chain = saved[t][i]
             /\ InSync(saved[t][i], node'[t].doc) /\ InSync(saved[t][i], snap[i][t])
             /\ ~IsTorn(node[t])
  <2> DEFINE c == saved[t][i]  s == [chain |-> c, doc |-> snap[i][t]]
  <2>1. /\ t \in Theories /\ c \in Seq(Entries) /\ ~IsTorn(node[t]) /\ ~IsBare(node[t])
        /\ t \notin fit /\ i \in DOMAIN saved[t]
    BY <1>4, <1>7 DEF Behind, IsBare
  <2>2. Good(node[t]) /\ node'[t] = Restored(node[t], c)
    BY <1>1, <1>2, <1>7, <2>1, NodesGood
  <2>3. InSync(c, snap[i][t]) /\ Header(c) # "bare" /\ snap[i][t] \in Seq(AllTexts)
    BY <1>1, <2>1 DEF IInv, SavedInSync, TypeOK, Behind, IsBare
  <2>4. Good(s) /\ ~IsBare(s) /\ s.chain = c
    BY <2>1, <2>3 DEF Good, IsBare, Nodes
  <2>5. Len(c) \in Nat /\ \A k \in 1..Len(c) : c[k].header # "bare"
    BY <2>4, FullText, NodeTypes DEF Good
  <2> HIDE DEF s, c
  <2>6. /\ node'[t] \in Nodes /\ node'[t].chain = c /\ Len(node'[t].doc) = Len(c)
        /\ \A k \in 1..Len(c) : node'[t].doc[k] = c[k].text
    BY <2>1, <2>2, RestoredGood
  <2>7. InSync(c, node'[t].doc)
    BY <2>5, <2>6 DEF InSync
  <2>8. QED BY <2>1, <2>3, <2>6, <2>7 DEF c
<1>8. \A t \in Theories : t \notin back => node'[t] = node[t]
  BY <1>2, <1>4
<1>9. \A t \in Theories : t \in behind /\ t \notin fit => node'[t] = node[t]
  BY <1>2
<1>10. node' \in [Theories -> Nodes]
  <2>1. \A t \in Theories : node'[t] \in Nodes
    BY <1>1, <1>6, <1>7, <1>8, <1>9
  <2>2. QED BY <1>2, <2>1
<1>11. reply' \in Replies
  BY <1>3 DEF Replies
<1>12. TypeOK'
  BY <1>1, <1>2, <1>3, <1>10, <1>11 DEF TypeOK, Nodes
<1>13. CASE wedged'
  BY <1>12, <1>13, WhenWedged
<1>14. CASE ~wedged'
  <2>1. behind = fit
    BY <1>2, <1>14
  <2>2. \A t \in Theories : IsTorn(node'[t]) \/ InSync(node'[t].chain, node'[t].doc)
    BY <1>1, <1>6, <1>7, <1>8, <2>1, NodesGood DEF Good
  <2>3. Coherent'
    BY <2>2 DEF Coherent
  <2>4. \A t \in Theories : /\ IsTorn(node[t]) => IsTorn(node'[t])
                            /\ Behind(node[t]) => Behind(node'[t])
    BY <1>4, <1>6, <1>8, <2>1, <1>7 DEF Behind
  <2>5. SavedInSync'
    BY <1>1, <1>3, <2>4 DEF IInv, SavedInSync
  <2>6. RestoreExact'
    <3>1. SUFFICES ASSUME Valid(i), NEW t \in thys, i \in DOMAIN saved[t], ~IsTorn(node'[t])
                   PROVE  node'[t].doc = snap[i][t]
      BY <1>3 DEF RestoreExact
    <3>2. /\ t \in Theories /\ t \notin fit /\ ~IsTorn(node[t])
          /\ saved[t][i] \in Seq(Entries) /\ snap[i][t] \in Seq(AllTexts)
      BY <1>1, <1>6, <2>4, <3>1 DEF TypeOK
    <3>3. InSync(saved[t][i], snap[i][t]) /\ node'[t].doc \in Seq(AllTexts)
      BY <1>1, <1>10, <3>1, <3>2 DEF IInv, SavedInSync, Nodes
    <3>4. node'[t].chain = saved[t][i]
      BY <1>5, <1>7, <1>8, <2>1, <3>1, <3>2
    <3>5. InSync(saved[t][i], node'[t].doc)
      BY <2>2, <3>1, <3>2, <3>4
    <3>6. QED BY <3>2, <3>3, <3>5, OneText
  <2>7. QED BY <1>12, <2>3, <2>5, <2>6 DEF IInv
<1>15. QED BY <1>13, <1>14

\* The empty chain describes the empty text.
LEMMA EmptyInSync == InSync(<<>>, <<>>)
<1>1. Len(<<>>) = 0 /\ 1..0 = {}
  BY EmptySeq
<1>2. QED BY <1>1 DEF InSync

\* The empty map has no ids.
LEMMA EmptyMap == DOMAIN <<>> = {} /\ <<>> \in [{} -> Seq(Entries)]
OBVIOUS

\* reset: everything is empty.
LEMMA ResetAction ==
  ASSUME IInv, NEW heard \in BOOLEAN, Reset(heard)
  PROVE  IInv'
<1>1. reply' \in Replies /\ reply'.op # "restore"
  BY AnswerType DEF Reset
<1>2. <<>> \in Seq(Entries) /\ <<>> \in Seq(AllTexts) /\ Len(<<>>) = 0 /\ DOMAIN <<>> = {}
  BY EmptySeq
<1>3. Empty \in Nodes /\ Empty.chain = <<>> /\ Empty.doc = <<>>
  BY <1>2 DEF Empty, Nodes
<1>4. node' \in [Theories -> Nodes] /\ \A t \in Theories : node'[t] = Empty
  BY <1>3 DEF Reset
<1>5. saved' = [t \in Theories |-> <<>>] /\ \A t \in Theories : DOMAIN saved'[t] = {}
  BY <1>2 DEF Reset
<1>6. snap' \in [Ids -> [Theories -> Seq(AllTexts)]]
  <2>1. [t \in Theories |-> <<>>] \in [Theories -> Seq(AllTexts)]
    BY <1>2
  <2>2. QED BY <2>1 DEF Reset, IInv, TypeOK
<1>7. TypeOK'
  <2>1. \A t \in Theories : saved'[t] \in [DOMAIN saved'[t] -> Seq(Entries)]
    BY <1>5
  <2>2. known' \subseteq Ids /\ wedged' \in BOOLEAN /\ count' \in Ids
    BY ZeroId DEF Reset, IInv, TypeOK
  <2>3. QED BY <1>1, <1>4, <1>5, <1>6, <2>1, <2>2 DEF Reset, TypeOK, Nodes
<1>8. Coherent'
  BY <1>3, <1>4, EmptyInSync DEF Coherent
<1>9. SavedInSync'
  BY <1>5 DEF SavedInSync
<1>10. RestoreExact'
  BY <1>1 DEF RestoreExact
<1>11. QED BY <1>7, <1>8, <1>9, <1>10 DEF IInv

\* The initial document satisfies the invariant.
LEMMA InitInv ==
  ASSUME Init
  PROVE  IInv
<1>1. <<>> \in Seq(Entries) /\ <<>> \in Seq(AllTexts) /\ Len(<<>>) = 0 /\ DOMAIN <<>> = {}
  BY EmptySeq
<1>2. Empty \in Nodes /\ Empty.chain = <<>> /\ Empty.doc = <<>>
  BY <1>1 DEF Empty, Nodes
<1>3. node \in [Theories -> Nodes] /\ \A t \in Theories : node[t] = Empty
  BY <1>2 DEF Init
<1>4. \A t \in Theories : DOMAIN saved[t] = {} /\ saved[t] \in [DOMAIN saved[t] -> Seq(Entries)]
  <2>1. \A t \in Theories : saved[t] = <<>>
    BY DEF Init
  <2>2. QED BY <2>1, EmptyMap
<1>5. reply \in Replies /\ reply.op # "restore"
  BY ZeroId DEF Init, Replies
<1>6. snap \in [Ids -> [Theories -> Seq(AllTexts)]]
  BY <1>1 DEF Init
<1>7. TypeOK
  BY <1>3, <1>4, <1>5, <1>6, ZeroId DEF Init, TypeOK, Nodes
<1>8. Coherent
  BY <1>2, <1>3, EmptyInSync DEF Coherent
<1>9. SavedInSync /\ RestoreExact
  BY <1>4, <1>5 DEF SavedInSync, RestoreExact
<1>10. QED BY <1>7, <1>8, <1>9 DEF IInv

\* The bookkeeping of every theory, the saved states and the restored texts are
\* right in every reachable state of a backend, for every set of texts and bound.
THEOREM DocumentInvariant == Spec => []IInv
<1>1. Init => IInv
  BY InitInv
<1>2. IInv /\ [Next]_vars => IInv'
  <2>1. SUFFICES ASSUME IInv, [Next]_vars PROVE IInv'
    OBVIOUS
  <2>2. CASE UNCHANGED vars
    BY <2>1, <2>2 DEF vars, IInv, TypeOK, Coherent, SavedInSync, RestoreExact
  <2>3. CASE Next
    <3>1. CASE \/ \E t \in Theories : EnterThy(t)
               \/ \E x \in Texts : Step(x) \/ StepRejected(x) \/ VerifyChunk(x) \/ StepChunkReport(x)
               \/ ProbeState
      BY <2>1, <3>1, EditingActions
    <3>2. CASE Rollback
      BY <2>1, <3>2, RollbackAction
    <3>3. CASE \E heard \in BOOLEAN : SaveState(heard)
      BY <2>1, <3>3, SaveAction
    <3>4. CASE \E heard \in BOOLEAN : Reset(heard)
      BY <2>1, <3>4, ResetAction
    <3>5. CASE \E i \in Ids : RestoreCheckpoint(i)
      BY <2>1, <3>5, RestoreAction
    <3>6. CASE Hung
      BY <2>2, <3>6 DEF Hung
    <3>7. CASE \E op \in {"step", "rollback", "verify", "report", "probe"} : EditRejected(op)
      BY <2>1, <3>7, RejectedAction
    <3>8. QED BY <2>3, <3>1, <3>2, <3>3, <3>4, <3>5, <3>6, <3>7 DEF Next
  <2>4. QED BY <2>1, <2>2, <2>3
<1>3. QED BY <1>1, <1>2, PTL DEF Spec

\* Status chains and PIDE text never drift apart (Thy_Info against the node), but in
\* a theory restored out of a header without imports.
THEOREM DocumentCoherent == Spec => []Coherent
<1>1. IInv => Coherent
  BY DEF IInv
<1>2. QED BY <1>1, DocumentInvariant, PTL

\* An accepted checkpoint brings back the text of every theory saved in it, but of
\* one restored out of a header without imports.
THEOREM CheckpointsExact == Spec => []RestoreExact
<1>1. IInv => RestoreExact
  BY DEF IInv
<1>2. QED BY <1>1, DocumentInvariant, PTL

-----------------------------------------------------------------------------
(* NothingLost: the chains and texts only grow.                            *)

\* A node has what it has, and growing twice is growing.
LEMMA ExtendsOrder ==
  ASSUME NEW l \in Nodes, NEW m \in Nodes, NEW n \in Nodes
  PROVE  /\ Extends(l, l)
         /\ Extends(l, m) /\ Extends(m, n) => Extends(l, n)
<1>1. /\ Len(l.chain) \in Nat /\ Len(m.chain) \in Nat /\ Len(n.chain) \in Nat
      /\ Len(l.doc) \in Nat /\ Len(m.doc) \in Nat /\ Len(n.doc) \in Nat
  BY NodeTypes
<1>2. Extends(l, l)
  BY <1>1 DEF Extends
<1>3. ASSUME Extends(l, m), Extends(m, n) PROVE Extends(l, n)
  BY <1>1, <1>3 DEF Extends
<1>4. QED BY <1>2, <1>3

\* Full nodes: it is enough to compare the chains.
LEMMA ExtendsFull ==
  ASSUME NEW n, Good(n), NEW m, Good(m), ~IsBare(m),
         Len(n.chain) <= Len(m.chain), \A i \in 1..Len(n.chain) : m.chain[i] = n.chain[i]
  PROVE  Extends(n, m)
<1>1. /\ Len(n.chain) \in Nat /\ Len(m.chain) \in Nat /\ Len(n.doc) \in Nat /\ Len(m.doc) \in Nat
  BY NodeTypes DEF Good
<1>2. /\ Len(m.doc) = Len(m.chain)
      /\ \A i \in 1..Len(m.chain) : m.doc[i] = m.chain[i].text
  BY FullText
<1>3. Len(n.doc) <= Len(n.chain) /\ \A i \in 1..Len(n.doc) : n.doc[i] = n.chain[i].text
  BY DEF Good, InSync
<1>4. ASSUME NEW i \in 1..Len(n.doc) PROVE m.doc[i] = n.doc[i]
  <2>1. i \in 1..Len(n.chain) /\ i \in 1..Len(m.chain)
    BY <1>1, <1>3
  <2>2. m.chain[i] = n.chain[i]
    BY <2>1
  <2>3. QED BY <1>2, <1>3, <2>1, <2>2
<1>5. Len(n.doc) <= Len(m.doc)
  BY <1>1, <1>2, <1>3
<1>6. QED BY <1>4, <1>5 DEF Extends

\* send_edit only adds.
LEMMA SentExtends ==
  ASSUME NEW n, Good(n), NEW x \in Texts, NEW h \in NextHeaders(Header(n.chain), x)
  PROVE  /\ Extends(n, Sent(n, x, h))
         /\ Len(Sent(n, x, h).chain) = Len(n.chain) + 1
<1> DEFINE m == Sent(n, x, h)  e == [text |-> x, header |-> h]
<1>1. n \in Nodes /\ n.chain \in Seq(Entries) /\ Len(n.chain) \in Nat /\ Len(n.doc) \in Nat
  BY NodeTypes DEF Good
<1>2. e \in Entries
  BY <1>1, HeaderStep, HeaderType DEF Entries, AllTexts
<1>3. m.chain = Append(n.chain, e)
  BY DEF Sent
<1>4. /\ Len(m.chain) = Len(n.chain) + 1
      /\ \A i \in 1..Len(n.chain) : m.chain[i] = n.chain[i]
  BY <1>1, <1>2, <1>3, AppendProperties
<1>5. Good(m) /\ Header(m.chain) = h
  BY SentGood
<1>6. CASE h = "bare"
  <2>1. m.doc = n.doc
    BY <1>6 DEF Sent
  <2>2. QED BY <1>1, <1>4, <2>1 DEF Extends
<1>7. CASE h # "bare"
  <2>1. ~IsBare(m) /\ Len(n.chain) <= Len(m.chain)
    BY <1>1, <1>4, <1>5, <1>7 DEF IsBare
  <2> HIDE DEF m
  <2>2. Extends(n, m)
    BY <1>4, <1>5, <2>1, ExtendsFull
  <2>3. QED BY <1>4, <2>2 DEF m
<1>8. QED BY <1>6, <1>7

\* Nor does it change a torn text.
LEMMA TornExtends ==
  ASSUME NEW n \in Nodes, NEW x \in Texts
  PROVE  Extends(n, Sent(n, x, "bare"))
<1> DEFINE e == [text |-> x, header |-> "bare"]
<1>1. n.chain \in Seq(Entries) /\ Len(n.chain) \in Nat /\ Len(n.doc) \in Nat
  BY NodeTypes
<1>2. e \in Entries
  BY DEF Entries, Headers
<1>3. Sent(n, x, "bare").chain = Append(n.chain, e) /\ Sent(n, x, "bare").doc = n.doc
  BY DEF Sent
<1> HIDE DEF e
<1>4. /\ Len(Append(n.chain, e)) = Len(n.chain) + 1
      /\ \A i \in 1..Len(n.chain) : Append(n.chain, e)[i] = n.chain[i]
  BY <1>1, <1>2, AppendProperties
<1>5. QED BY <1>1, <1>3, <1>4 DEF Extends

\* discard_last_edit takes nothing from a node that was extended.
LEMMA DiscardedExtends ==
  ASSUME NEW n, Good(n), NEW m, Good(m), ~IsBare(m), Extends(n, m),
         Len(n.chain) < Len(m.chain)
  PROVE  Extends(n, Discarded(m))
<1> DEFINE d == Discarded(m)  k == Len(m.chain)
<1>1. m \in Nodes /\ Len(n.chain) \in Nat /\ k \in Nat /\ k >= 1 /\ m.chain # <<>>
  BY NodeTypes DEF Good
<1>2. d.chain = SubSeq(m.chain, 1, k - 1)
  BY <1>1 DEF Discarded
<1>3. \A i \in 1..(k - 1) : m.chain[i] \in Entries
  BY <1>1, NodeTypes
<1>4. Len(d.chain) = k - 1 /\ \A i \in 1..(k - 1) : d.chain[i] = m.chain[i]
  BY <1>1, <1>2, <1>3, SubSeqProperties
<1>5. Good(d) /\ ~IsBare(d)
  BY DiscardedGood
<1> HIDE DEF d
<1>6. Len(n.chain) <= Len(d.chain) /\ \A i \in 1..Len(n.chain) : d.chain[i] = n.chain[i]
  BY <1>1, <1>4 DEF Extends
<1>7. QED BY <1>5, <1>6, ExtendsFull DEF d

\* Inserting probes only adds.
LEMMA WithProbesExtends ==
  ASSUME NEW n, Good(n), Begun(n), NEW j \in 1..2
  PROVE  Extends(n, WithProbes(n, j)) /\ Len(n.chain) < Len(WithProbes(n, j).chain)
<1> DEFINE m == WithProbes(n, j)
           es == [i \in 1..j |-> [text |-> Probe, header |-> "done"]]
<1>1. n.chain \in Seq(Entries) /\ Len(n.chain) \in Nat
  BY NodeTypes DEF Good
<1>2. es \in [1..j -> Entries]
  BY DEF Entries, AllTexts, Headers
<1>3. es \in Seq(Entries) /\ Len(es) = j
  BY <1>2, SeqDef, LenProperties
<1>4. m.chain = n.chain \o es
  BY DEF WithProbes
<1>5. Good(m) /\ ~IsBare(m)
  BY WithProbesGood
<1> HIDE DEF es, m
<1>6. /\ Len(m.chain) = Len(n.chain) + j
      /\ \A i \in 1..(Len(n.chain) + j) : m.chain[i] = IF i <= Len(n.chain) THEN n.chain[i]
                                                       ELSE es[i - Len(n.chain)]
  BY <1>1, <1>3, <1>4, ConcatProperties
<1>7. Len(n.chain) < Len(m.chain) /\ \A i \in 1..Len(n.chain) : m.chain[i] = n.chain[i]
  BY <1>1, <1>6
<1>8. Len(n.chain) <= Len(m.chain)
  BY <1>1, <1>6
<1>9. Extends(n, m)
  BY <1>5, <1>7, <1>8, ExtendsFull
<1>10. QED BY <1>7, <1>9 DEF m

\* A probe takes nothing away, whatever fails in it.
LEMMA ProbeLeavesExtends ==
  ASSUME NEW n, Good(n), NEW m \in ProbeLeaves(n)
  PROVE  Extends(n, m)
<1>1. CASE ~Begun(n) \/ Ended(n) \/ IsTorn(n)
  BY <1>1, ExtendsOrder DEF ProbeLeaves, Good
<1>2. CASE Begun(n) /\ ~Ended(n) /\ ~IsTorn(n)
  <2>1. m \in {Discarded(WithProbes(n, 1)), Discarded(WithProbes(n, 2)), WithProbes(n, 2)}
    BY <1>2 DEF ProbeLeaves
  <2>2. ASSUME NEW j \in 1..2
        PROVE  Extends(n, WithProbes(n, j)) /\ Extends(n, Discarded(WithProbes(n, j)))
    BY <1>2, WithProbesGood, WithProbesExtends, DiscardedExtends
  <2>3. 1 \in 1..2 /\ 2 \in 1..2
    OBVIOUS
  <2>4. QED BY <2>1, <2>2, <2>3
<1>3. QED BY <1>1, <1>2

\* Neither do two.
LEMMA ProofOpenLeavesExtends ==
  ASSUME NEW n, Good(n), NEW m \in ProofOpenLeaves(n)
  PROVE  Extends(n, m)
<1>1. CASE m \in ProbeLeaves(n)
  BY <1>1, ProbeLeavesExtends
<1>2. CASE \E l \in ProbeLeaves(n) : m \in ProbeLeaves(l)
  <2>1. PICK l \in ProbeLeaves(n) : m \in ProbeLeaves(l)
    BY <1>2
  <2>2. Good(l) /\ Good(m)
    BY <2>1, ProbeLeavesGood
  <2>3. Extends(n, l) /\ Extends(l, m)
    BY <2>1, <2>2, ProbeLeavesExtends
  <2>4. QED BY <2>2, <2>3, ExtendsOrder DEF Good
<1>3. QED BY <1>1, <1>2 DEF ProofOpenLeaves

\* Sending, verifying and probing never remove text that was there before.
THEOREM NothingIsLost == Spec => NothingLost
<1> DEFINE Grows == \A t \in Theories : Extends(node[t], node'[t])
           Asked == reply'.op \in {"step", "verify", "probe"}
<1>1. IInv /\ [Next]_vars /\ Asked => Grows
  <2>1. SUFFICES ASSUME IInv, [Next]_vars, Asked PROVE Grows
    OBVIOUS
  <2>2. node \in [Theories -> Nodes]
    BY <2>1 DEF IInv, TypeOK, Nodes
  <2>3. ASSUME UNCHANGED node PROVE Grows
    BY <2>2, <2>3, ExtendsOrder
  <2>4. ASSUME Active, NEW m, Extends(Here, m), Change(m) PROVE Grows
    <3>1. \A t \in Theories : node'[t] = IF t = entered THEN m ELSE node[t]
      BY <2>2, <2>4 DEF Change
    <3>2. QED BY <2>2, <2>4, <3>1, ExtendsOrder DEF Here
  <2>5. Active => Here \in Nodes /\ (~IsTorn(Here) => Good(Here))
    BY <2>1, NodesGood DEF Active, Here, IInv, TypeOK
  <2>6. ASSUME NEW x \in Texts, Step(x) PROVE Grows
    <3>1. PICK h \in NextHeaders(Header(Here.chain), x) :
                 (IsTorn(Here) => h = "bare") /\ Change(Sent(Here, x, h))
      BY <2>6 DEF Step
    <3>2. Active /\ Here \in Nodes
      BY <2>5, <2>6 DEF Step
    <3>3. CASE IsTorn(Here)
      BY <2>4, <3>1, <3>2, <3>3, TornExtends
    <3>4. CASE ~IsTorn(Here)
      BY <2>4, <2>5, <3>1, <3>2, <3>4, SentExtends
    <3>5. QED BY <3>3, <3>4
  <2>7. ASSUME NEW x \in Texts, VerifyChunk(x) PROVE Grows
    <3> DEFINE n == Sent(Here, x, "done")
    <3>1. Active /\ Begun(Here) /\ Good(Here)
      BY <2>5, <2>7 DEF VerifyChunk
    <3>2. "done" \in NextHeaders(Header(Here.chain), x)
      BY <3>1 DEF NextHeaders, Begun
    <3>3. /\ Good(n) /\ ~IsBare(n) /\ Extends(Here, n) /\ Len(n.chain) = Len(Here.chain) + 1
      BY <3>1, <3>2, SentGood, SentExtends DEF IsBare
    <3>4. Len(Here.chain) \in Nat /\ Here \in Nodes /\ n \in Nodes
      BY <3>1, <3>3, NodeTypes DEF Good
    <3> HIDE DEF n
    <3>5. CASE Change(Discarded(n))
      <4>1. Len(Here.chain) < Len(n.chain)
        BY <3>3, <3>4
      <4>2. Extends(Here, Discarded(n))
        BY <3>1, <3>3, <4>1, DiscardedExtends
      <4>3. QED BY <2>4, <3>1, <3>5, <4>2
    <3>6. CASE \E m \in ProofOpenLeaves(n) : Change(m)
      <4>1. PICK m \in ProofOpenLeaves(n) : Change(m)
        BY <3>6
      <4>2. Good(m) /\ Extends(n, m)
        BY <3>3, ProofOpenLeavesGood, ProofOpenLeavesExtends
      <4>3. Extends(Here, m)
        BY <3>3, <3>4, <4>2, ExtendsOrder DEF Good
      <4>4. QED BY <2>4, <3>1, <4>1, <4>3
    <3>7. QED BY <2>7, <3>5, <3>6 DEF VerifyChunk, n
  <2>8. ASSUME ProbeState PROVE Grows
    <3>1. PICK m \in ProbeLeaves(Here) : Change(m)
      BY <2>8 DEF ProbeState
    <3>2. Active /\ Here \in Nodes
      BY <2>5, <2>8 DEF ProbeState
    <3>3. CASE IsTorn(Here)
      <4>1. m = Here
        BY <3>1, <3>3 DEF ProbeLeaves
      <4>2. QED BY <2>4, <3>1, <3>2, <4>1, ExtendsOrder
    <3>4. CASE ~IsTorn(Here)
      <4>1. Extends(Here, m)
        BY <2>5, <3>1, <3>2, <3>4, ProbeLeavesExtends
      <4>2. QED BY <2>4, <3>1, <3>2, <4>1
    <3>5. QED BY <3>3, <3>4
  <2>9. CASE UNCHANGED vars
    BY <2>3, <2>9 DEF vars
  <2>10. CASE Next
    <3>1. ASSUME NEW t \in Theories, EnterThy(t) PROVE Grows
      BY <2>3, <3>1 DEF EnterThy
    <3>2. ASSUME NEW x \in Texts, StepRejected(x) PROVE Grows
      BY <2>3, <3>2 DEF StepRejected
    <3>3. ASSUME NEW x \in Texts, StepChunkReport(x) PROVE FALSE
      <4>1. \E res \in {"raised", "kept", "timed out"} : Answer("report", res)
        BY <3>3, Zenon DEF StepChunkReport
      <4>2. reply'.op = "report"
        <5>1. PICK res : Answer("report", res)
          BY <4>1
        <5>2. QED BY <5>1 DEF Answer
      <4>3. QED BY <2>1, <4>2
    <3>4. ASSUME Rollback PROVE FALSE
      BY <2>1, <3>4 DEF Rollback, Answer
    <3>5. ASSUME NEW heard \in BOOLEAN, SaveState(heard) \/ Reset(heard) PROVE FALSE
      BY <2>1, <3>5 DEF SaveState, Reset, Answer
    <3>6. ASSUME NEW i \in Ids, RestoreCheckpoint(i) PROVE FALSE
      BY <2>1, <3>6 DEF RestoreCheckpoint
    <3>7. CASE Hung
      BY <2>9, <3>7 DEF Hung
    <3>8. ASSUME NEW op \in {"step", "rollback", "verify", "report", "probe"}, EditRejected(op)
          PROVE  Grows
      BY <2>3, <3>8 DEF EditRejected
    <3> HIDE DEF Grows
    <3>9. QED BY <2>6, <2>7, <2>8, <2>10, <3>1, <3>2, <3>3, <3>4, <3>5, <3>6, <3>7, <3>8 DEF Next
  <2>11. QED BY <2>1, <2>9, <2>10
<1>2. IInv /\ [Next]_vars =>
        [Asked => \A t \in Theories : /\ Len(node[t].chain) <= Len(node'[t].chain)
                                      /\ Len(node[t].doc) <= Len(node'[t].doc)
                                      /\ \A i \in 1..Len(node[t].chain) : node'[t].chain[i] = node[t].chain[i]
                                      /\ \A i \in 1..Len(node[t].doc) : node'[t].doc[i] = node[t].doc[i]]_vars
  BY <1>1 DEF Extends
<1>3. QED BY <1>2, DocumentInvariant, PTL DEF Spec, NothingLost
=============================================================================
