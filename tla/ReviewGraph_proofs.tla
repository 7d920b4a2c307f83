--------------------------- MODULE ReviewGraph_proofs ---------------------------
(***************************************************************************)
(* For all libraries, questions and limits: the retriever finds the best   *)
(* documents; the evaluator is sound, that is, whatever result it is       *)
(* handed, one that passes says what the documents say at that moment; and *)
(* it rejects nothing that the graph made of documents that can be         *)
(* reviewed.                                                               *)
(***************************************************************************)
EXTENDS ReviewGraph, Flattening, FiniteSetTheorems, TLAPS

-------------------------------------------------------------------------------
\* The inductive invariant

\* What the nodes list of each action.
ProvenanceOf(docs) == ForEachAction(docs, LAMBDA doc, action : Digest(doc.id, action))
ActionsOf(docs) == ForEachAction(docs, Analyzed)
ConsequentialOf(docs) == FlattenSeq(ForEachAction(docs, IfConsequential))

\* What the nodes before this one have made of the documents.
GatedOf(docs) == [i \in DOMAIN ActionsOf(docs) |-> Gated(ActionsOf(docs)[i])]
MadeBefore(node, docs) ==
    LET first == {"retrieve"}
        second == {"retrieve", "analyze"}
        third == {"retrieve", "analyze", "safety_review"}
        fourth == {"retrieve", "analyze", "safety_review", "finalize"} IN
    [retrieved |-> IF node \in first THEN << >> ELSE Ids(docs),
     provenance |-> IF node \in first THEN Missing ELSE ProvenanceOf(docs),
     actions |-> IF node \in second THEN << >> ELSE
                 IF node \in third THEN ActionsOf(docs) ELSE GatedOf(docs),
     consequential_ids |-> IF node \in second THEN Missing ELSE ConsequentialOf(docs),
     executed |-> IF node \in third THEN Missing ELSE << >>,
     citations |-> IF node \in fourth THEN << >> ELSE Ids(docs),
     status |-> IF node \in fourth THEN Missing ELSE
                IF docs = << >> THEN "blocked_missing_evidence"
                                ELSE "ready_for_review"]

\* A question is being reviewed, or was and has its verdict.
Asked == stage # "judged" \/ verdict # Missing

\* The documents are those that the question retrieves from the retriever's, and
\* lack no key once they have been analyzed; a
\* result that was not altered is what the nodes have made of them; a verdict is
\* of the result and the documents as they still are.
IInv ==
    /\ stage \in {"retrieve", "analyze", "safety_review", "finalize",
                  "evaluate", "judged"}
    /\ question \in Questions \cup {{}} /\ held \in Libraries \cup {<< >>}
    /\ library \in Libraries \cup {NoLibrary}
    /\ altered \in 0..MaxAlterations
    /\ stage \notin {"evaluate", "judged"} => altered = 0
    /\ Asked => question \in Questions /\ held \in Libraries
    /\ Asked /\ stage # "retrieve" => documents = Search(question, held)
    /\ Asked /\ stage \notin {"retrieve", "analyze"} => Complete(documents)
    /\ \/ documents = << >>
       \/ question \in Questions /\ held \in Libraries
            /\ documents = Search(question, held)
    /\ Asked /\ altered = 0 => result = MadeBefore(stage, documents)
    /\ verdict # Missing =>
         stage = "judged" /\ verdict.passed = (Violations(result) = {})

-------------------------------------------------------------------------------
\* The retriever

LEMMA ScoreType ==
    ASSUME NEW query, IsFiniteSet(query), NEW document
    PROVE  Score(query, document) \in Nat
  BY FS_Intersection, FS_CardinalityType DEF Score

\* Before is a strict total order on the hits.
LEMMA BeforeIsTotal ==
    ASSUME NEW query \in Questions, NEW docs \in Libraries,
           NEW i \in DOMAIN docs, NEW j \in DOMAIN docs
    PROVE  /\ ~ Before(query, docs, i, i)
           /\ i # j => Before(query, docs, i, j) \/ Before(query, docs, j, i)
           /\ \A k \in DOMAIN docs :
                Before(query, docs, i, j) /\ Before(query, docs, j, k)
                  => Before(query, docs, i, k)
  <1>1. \A k \in DOMAIN docs :
          k \in Nat /\ docs[k].id \in Nat /\ Score(query, docs[k]) \in Nat
    BY ScoreType, QuestionsAssumption, LibrariesAssumption
  <1> QED
    BY <1>1 DEF Before

LEMMA HitsAreFinite ==
    ASSUME NEW query, NEW docs \in Libraries
    PROVE  /\ IsFiniteSet(Hits(query, docs))
           /\ Cardinality(Hits(query, docs)) \in Nat
           /\ Cardinality(Hits(query, docs)) = 0 <=> Hits(query, docs) = {}
           /\ \A S \in SUBSET Hits(query, docs) :
                /\ IsFiniteSet(S) /\ Cardinality(S) \in Nat
                /\ Cardinality(S) <= Cardinality(Hits(query, docs))
  <1>1. IsFiniteSet(DOMAIN docs)
    BY LibrariesAssumption, FS_Interval
  <1>2. Hits(query, docs) \in SUBSET DOMAIN docs
    BY DEF Hits
  <1>3. IsFiniteSet(Hits(query, docs))
    BY <1>1, <1>2, FS_Subset
  <1> QED
    BY <1>3, FS_Subset, FS_CardinalityType, FS_EmptySet

\* A hit that is before another one has a smaller rank.
LEMMA RankGrows ==
    ASSUME NEW query \in Questions, NEW docs \in Libraries,
           NEW i \in Hits(query, docs), NEW j \in Hits(query, docs),
           Before(query, docs, i, j)
    PROVE  Rank(query, docs, i) < Rank(query, docs, j)
  <1> DEFINE Earlier(k) == {h \in Hits(query, docs) : Before(query, docs, h, k)}
  <1>1. i \in DOMAIN docs /\ j \in DOMAIN docs
    BY DEF Hits
  <1>2. Earlier(i) \in SUBSET Earlier(j)
    BY <1>1, BeforeIsTotal DEF Hits
  <1>3. i \in Earlier(j) /\ i \notin Earlier(i)
    BY <1>1, BeforeIsTotal
  <1>4. /\ IsFiniteSet(Earlier(j))
        /\ Cardinality(Earlier(i)) \in Nat /\ Cardinality(Earlier(j)) \in Nat
    BY HitsAreFinite
  <1>5. Rank(query, docs, i) = Cardinality(Earlier(i)) + 1
        /\ Rank(query, docs, j) = Cardinality(Earlier(j)) + 1
    BY DEF Rank
  <1> HIDE DEF Earlier
  <1>6. Cardinality(Earlier(i)) <= Cardinality(Earlier(j))
        /\ Cardinality(Earlier(i)) # Cardinality(Earlier(j))
    BY <1>2, <1>3, <1>4, FS_Subset
  <1> QED
    BY <1>4, <1>5, <1>6

\* The ranks of the hits are 1, 2, ... up to their number, each one's own.
LEMMA RanksAreNumbers ==
    ASSUME NEW query \in Questions, NEW docs \in Libraries
    PROVE  LET hits == Hits(query, docs) IN
           /\ \A i \in hits : Rank(query, docs, i) \in 1..Cardinality(hits)
           /\ \A i, j \in hits :
                Rank(query, docs, i) = Rank(query, docs, j) => i = j
           /\ \A n \in 1..Cardinality(hits) :
                \E i \in hits : Rank(query, docs, i) = n
  <1> DEFINE hits == Hits(query, docs)
             size == Cardinality(hits)
             rank == [i \in hits |-> Rank(query, docs, i)]
  <1>1. /\ IsFiniteSet(hits) /\ size \in Nat
        /\ hits \subseteq DOMAIN docs
    BY HitsAreFinite DEF Hits
  <1>2. ASSUME NEW i \in hits
        PROVE  Rank(query, docs, i) \in 1..size
    <2> DEFINE earlier == {h \in hits : Before(query, docs, h, i)}
    <2>1. /\ earlier \in SUBSET hits /\ Cardinality(earlier) \in Nat
          /\ Cardinality(earlier) <= size
      BY HitsAreFinite
    <2>2. i \notin earlier
      BY <1>1, BeforeIsTotal
    <2>3. Rank(query, docs, i) = Cardinality(earlier) + 1
      BY DEF Rank
    <2> HIDE DEF earlier, hits
    <2>4. Cardinality(earlier) # size
      BY <1>1, <1>2, <2>1, <2>2, FS_Subset
    <2> QED
      BY <1>1, <2>1, <2>3, <2>4
  <1>3. ASSUME NEW i \in hits, NEW j \in hits,
               Rank(query, docs, i) = Rank(query, docs, j)
        PROVE  i = j
    <2> SUFFICES ASSUME i # j PROVE FALSE
      OBVIOUS
    <2>1. Before(query, docs, i, j) \/ Before(query, docs, j, i)
      BY <1>1, BeforeIsTotal
    <2>2. Rank(query, docs, i) < Rank(query, docs, j)
          \/ Rank(query, docs, j) < Rank(query, docs, i)
      BY <2>1, RankGrows
    <2>3. Rank(query, docs, i) \in Nat
      BY <1>1, <1>2
    <2> QED
      BY <1>3, <2>2, <2>3
  <1> HIDE DEF hits
  <1>4. rank \in Injection(hits, 1..size)
    BY <1>2, <1>3 DEF Injection, IsInjective
  <1>5. IsFiniteSet(1..size) /\ Cardinality(1..size) = size
    BY <1>1, FS_Interval
  <1>6. rank \in Surjection(hits, 1..size)
    <2> HIDE DEF rank
    <2> QED
      BY <1>4, <1>5, FS_Injection
  <1>7. ASSUME NEW n \in 1..size
        PROVE  \E i \in hits : Rank(query, docs, i) = n
    BY <1>6 DEF Surjection
  <1> QED
    BY <1>2, <1>3, <1>7 DEF hits

\* What search() returns.
LEMMA SearchReturns ==
    ASSUME NEW query \in Questions, NEW docs \in Libraries
    PROVE  LET hits == Hits(query, docs)
               found == Search(query, docs) IN
           /\ DOMAIN found = 1..Len(found) /\ Len(found) \in 0..Limit
           /\ Len(found) <= Cardinality(hits)
           /\ Len(found) < Limit => Len(found) = Cardinality(hits)
           /\ \A n \in DOMAIN found :
                \E i \in hits : found[n] = docs[i] /\ Rank(query, docs, i) = n
           /\ \A i \in hits :
                Rank(query, docs, i) <= Len(found)
                  => found[Rank(query, docs, i)] = docs[i]
  <1> DEFINE hits == Hits(query, docs)
             size == Cardinality(hits)
             bound == IF size < Limit THEN size ELSE Limit
             Nth(n) == CHOOSE i \in hits : Rank(query, docs, i) = n
             found == [n \in 1..bound |-> docs[Nth(n)]]
  <1>1. found = Search(query, docs)
    BY DEF Search
  <1>2. /\ size \in Nat /\ bound \in Nat
        /\ bound \in 0..Limit /\ bound <= size
        /\ bound < Limit => bound = size
    BY HitsAreFinite, ReviewAssumption
  <1>3. /\ \A i \in hits : Rank(query, docs, i) \in 1..size
        /\ \A i, j \in hits : Rank(query, docs, i) = Rank(query, docs, j) => i = j
        /\ \A n \in 1..size : \E i \in hits : Rank(query, docs, i) = n
    BY RanksAreNumbers
  <1> HIDE DEF hits, size, bound
  <1>4. DOMAIN found = 1..bound /\ Len(found) = bound
    BY <1>2
  <1>5. ASSUME NEW n \in 1..bound
        PROVE  Nth(n) \in hits /\ Rank(query, docs, Nth(n)) = n
    <2>1. n \in 1..size
      BY <1>2
    <2> QED
      BY <1>3, <2>1
  <1>6. ASSUME NEW i \in hits, Rank(query, docs, i) <= bound
        PROVE  found[Rank(query, docs, i)] = docs[i]
    <2>1. Rank(query, docs, i) \in 1..bound
      BY <1>2, <1>3, <1>6
    <2>2. Nth(Rank(query, docs, i)) = i
      BY <1>3, <1>5, <2>1
    <2> QED
      BY <2>1, <2>2
  <1>7. \A n \in 1..bound :
          \E i \in hits : found[n] = docs[i] /\ Rank(query, docs, i) = n
    BY <1>5
  <1> HIDE DEF found
  <1> QED
    BY <1>1, <1>2, <1>4, <1>6, <1>7 DEF hits, size

\* Documents as search() returns them.
LEMMA RetrievedAreHeld ==
    ASSUME NEW query \in Questions, NEW docs \in Libraries
    PROVE  LET found == Search(query, docs) IN
           /\ found \in Seq(ToSet(docs)) /\ Len(found) <= Limit
           /\ \A i \in DOMAIN found, j \in DOMAIN found :
                (\A k, l \in DOMAIN docs : docs[k].id = docs[l].id => k = l)
                  /\ found[i].id = found[j].id => i = j
  <1> DEFINE found == Search(query, docs)
             hits == Hits(query, docs)
  <1>1. /\ DOMAIN found = 1..Len(found) /\ Len(found) \in 0..Limit
        /\ \A n \in DOMAIN found :
             \E i \in hits : found[n] = docs[i] /\ Rank(query, docs, i) = n
    BY SearchReturns
  <1>2. hits \subseteq DOMAIN docs
    BY DEF Hits
  <1>3. found = [n \in 1..Len(found) |-> found[n]]
    <2>1. found = [n \in DOMAIN found |-> found[n]]
      BY DEF Search
    <2> QED
      BY <1>1, <2>1
  <1> HIDE DEF found, hits
  <1>4. \A n \in 1..Len(found) : found[n] \in ToSet(docs)
    BY <1>1, <1>2 DEF ToSet
  <1>5. found \in [1..Len(found) -> ToSet(docs)] /\ Len(found) \in Nat /\ Len(found) <= Limit
    BY <1>1, <1>3, <1>4, ReviewAssumption
  <1>6. found \in Seq(ToSet(docs))
    BY <1>5
  <1>7. ASSUME NEW i \in DOMAIN found, NEW j \in DOMAIN found,
               \A k, l \in DOMAIN docs : docs[k].id = docs[l].id => k = l,
               found[i].id = found[j].id
        PROVE  i = j
    <2>1. PICK k \in hits : found[i] = docs[k] /\ Rank(query, docs, k) = i
      BY <1>1
    <2>2. PICK l \in hits : found[j] = docs[l] /\ Rank(query, docs, l) = j
      BY <1>1
    <2>3. k = l
      BY <1>2, <1>7, <2>1, <2>2
    <2> QED
      BY <2>1, <2>2, <2>3
  <1> QED
    BY <1>5, <1>6, <1>7 DEF found

-------------------------------------------------------------------------------
\* The lists that the nodes make of the documents' actions

\* Documents as search() returns them, and where their actions are.
FromLibrary(docs) == \E held_ \in Libraries : docs \in Seq(ToSet(held_))
ActionPositions(docs) == UNION {{i} \X DOMAIN docs[i].actions : i \in DOMAIN docs}
Doc(docs, p) == docs[p[1]]
Source(docs, p) == docs[p[1]].actions[p[2]]

\* pos takes a list made by ForEachAction back to the actions it was made from.
Lists(pos, list, docs) ==
    /\ pos \in [DOMAIN list -> ActionPositions(docs)]
    /\ \A m, n \in DOMAIN list : pos[m] = pos[n] => m = n
    /\ \A p \in ActionPositions(docs) : \E n \in DOMAIN list : pos[n] = p

LEMMA DocumentsAndActions ==
    ASSUME NEW docs, FromLibrary(docs)
    PROVE  /\ Len(docs) \in Nat /\ DOMAIN docs = 1..Len(docs)
           /\ \A i \in DOMAIN docs :
                /\ docs[i].id \in Nat
                /\ docs[i].actions \in Seq(ToSet(docs[i].actions))
                /\ \A j \in DOMAIN docs[i].actions :
                     /\ docs[i].actions[j].action_id
                          \in STRING \cup DOMAIN Printed \cup {Missing}
                     /\ Digest(docs[i].id, docs[i].actions[j]) \in LibraryDigests
           /\ \A p \in ActionPositions(docs) :
                /\ p = <<p[1], p[2]>>
                /\ p[1] \in DOMAIN docs /\ p[2] \in DOMAIN docs[p[1]].actions
                /\ Source(docs, p).action_id
                     \in STRING \cup DOMAIN Printed \cup {Missing}
                /\ Digest(Doc(docs, p).id, Source(docs, p)) \in LibraryDigests
  <1>1. PICK lib \in Libraries : docs \in Seq(ToSet(lib))
    BY DEF FromLibrary
  <1>2. \A doc \in ToSet(lib) :
          /\ doc.id \in Nat
          /\ doc.actions \in Seq(ToSet(doc.actions))
          /\ \A action \in ToSet(doc.actions) :
               /\ action.action_id \in STRING \cup DOMAIN Printed \cup {Missing}
               /\ Digest(doc.id, action) \in LibraryDigests
    <2>1. \A doc \in ToSet(lib) :
            /\ doc.id \in Nat
            /\ doc.actions \in Seq(ToSet(doc.actions))
            /\ \A action \in ToSet(doc.actions) :
                 action.action_id \in STRING \cup DOMAIN Printed \cup {Missing}
      BY LibrariesAssumption
    <2>2. \A doc \in ToSet(lib) : \A action \in ToSet(doc.actions) :
            Digest(doc.id, action) \in LibraryDigests
      BY DEF LibraryDigests
    <2> QED
      BY <2>1, <2>2
  <1>3. Len(docs) \in Nat /\ DOMAIN docs = 1..Len(docs)
        /\ \A i \in DOMAIN docs : docs[i] \in ToSet(lib)
    BY <1>1
  <1>4. \A i \in DOMAIN docs : \A j \in DOMAIN docs[i].actions :
          docs[i].actions[j] \in ToSet(docs[i].actions)
    BY DEF ToSet
  <1>5. \A i \in DOMAIN docs :
                /\ docs[i].id \in Nat
                /\ docs[i].actions \in Seq(ToSet(docs[i].actions))
                /\ \A j \in DOMAIN docs[i].actions :
                     /\ docs[i].actions[j].action_id
                          \in STRING \cup DOMAIN Printed \cup {Missing}
                     /\ Digest(docs[i].id, docs[i].actions[j]) \in LibraryDigests
    BY <1>2, <1>3, <1>4
  <1>6. \A p \in ActionPositions(docs) :
          p = <<p[1], p[2]>> /\ p[1] \in DOMAIN docs /\ p[2] \in DOMAIN docs[p[1]].actions
    BY DEF ActionPositions
  <1> QED
    BY <1>3, <1>5, <1>6 DEF Doc, Source

\* What is printed is a string, a string is printed as it is, and the actions of
\* complete documents can be printed.
LEMMA StrType ==
    ASSUME NEW value \in STRING \cup DOMAIN Printed
    PROVE  /\ Str(value) \in STRING /\ Str(Str(value)) = Str(value)
           /\ Got(value) = value /\ Got(Str(value)) = Str(value)
  <1>1. Str(value) \in STRING
    BY PrintedAssumption DEF Str
  <1>2. value # Missing /\ Str(value) # Missing
    BY <1>1, SentinelAssumption
  <1> QED
    BY <1>1, <1>2 DEF Str, Got

LEMMA CompleteActions ==
    ASSUME NEW docs, FromLibrary(docs), Complete(docs)
    PROVE  /\ \A i \in DOMAIN docs : \A j \in DOMAIN docs[i].actions :
                LET id == docs[i].actions[j].action_id IN
                /\ id \in STRING \cup DOMAIN Printed /\ Str(id) \in STRING
                /\ HasKeys(docs[i].actions[j])
           /\ \A p \in ActionPositions(docs) :
                LET id == Source(docs, p).action_id IN
                /\ id \in STRING \cup DOMAIN Printed /\ Str(id) \in STRING
                /\ HasKeys(Source(docs, p))
  <1>1. ASSUME NEW i \in DOMAIN docs, NEW j \in DOMAIN docs[i].actions
        PROVE  LET id == docs[i].actions[j].action_id IN
               /\ id \in STRING \cup DOMAIN Printed /\ Str(id) \in STRING
               /\ HasKeys(docs[i].actions[j])
    <2>1. HasKeys(docs[i].actions[j])
      BY DEF Complete, ToSet
    <2>2. docs[i].actions[j].action_id # Missing
      BY <2>1 DEF HasKeys
    <2>3. docs[i].actions[j].action_id \in STRING \cup DOMAIN Printed
      BY <2>2, DocumentsAndActions
    <2> QED
      BY <2>1, <2>3, StrType
  <1>2. \A p \in ActionPositions(docs) :
          p[1] \in DOMAIN docs /\ p[2] \in DOMAIN docs[p[1]].actions
    BY DocumentsAndActions
  <1> QED
    BY <1>1, <1>2 DEF Source

LEMMA PrintedDescription ==
    ASSUME NEW docs, FromLibrary(docs), Complete(docs), NEW p \in ActionPositions(docs)
    PROVE  Source(docs, p).description \in STRING \cup DOMAIN Printed
  <1> DEFINE action == Source(docs, p)
  <1>1. PICK lib \in Libraries : docs \in Seq(ToSet(lib))
    BY DEF FromLibrary
  <1>2. p[1] \in DOMAIN docs /\ p[2] \in DOMAIN docs[p[1]].actions
    BY DocumentsAndActions
  <1>3. docs[p[1]] \in ToSet(lib)
    BY <1>1, <1>2
  <1>4. action \in ToSet(docs[p[1]].actions)
    BY <1>2 DEF Source, ToSet
  <1>5. HasKeys(action)
    BY CompleteActions
  <1> HIDE DEF action
  <1>6. {action.action_id, action.description}
          \subseteq STRING \cup DOMAIN Printed \cup {Missing}
    BY <1>3, <1>4, LibrariesAssumption
  <1> QED
    BY <1>5, <1>6 DEF HasKeys, action

LEMMA PlaceOfAction ==
    ASSUME NEW docs, NEW i \in DOMAIN docs, NEW j \in DOMAIN docs[i].actions
    PROVE  /\ <<i, j>> \in ActionPositions(docs)
           /\ Doc(docs, <<i, j>>) = docs[i]
           /\ Source(docs, <<i, j>>) = docs[i].actions[j]
  BY DEF ActionPositions, Doc, Source

\* A list of lists with a value for each action, and what it is flattened.
PerAction(seqs, docs, S) ==
    /\ seqs = [i \in DOMAIN docs |-> [j \in DOMAIN docs[i].actions |-> seqs[i][j]]]
    /\ \A i \in DOMAIN docs : \A j \in DOMAIN docs[i].actions : seqs[i][j] \in S
Flattened(pos, seqs, docs) ==
    /\ Lists(pos, FlattenSeq(seqs), docs)
    /\ \A n \in DOMAIN FlattenSeq(seqs) :
         /\ pos[n][1] \in DOMAIN docs
         /\ pos[n][2] \in DOMAIN docs[pos[n][1]].actions
         /\ FlattenSeq(seqs)[n] = seqs[pos[n][1]][pos[n][2]]

LEMMA FlattenedValues ==
    ASSUME NEW docs, FromLibrary(docs), NEW S, NEW seqs, PerAction(seqs, docs, S)
    PROVE  /\ FlattenSeq(seqs) \in Seq(S)
           /\ \E pos : Flattened(pos, seqs, docs)
  <1>1. /\ Len(docs) \in Nat /\ DOMAIN docs = 1..Len(docs)
        /\ \A i \in DOMAIN docs : docs[i].actions \in Seq(ToSet(docs[i].actions))
    BY DocumentsAndActions
  <1>2. ASSUME NEW i \in DOMAIN docs
        PROVE  seqs[i] \in Seq(S) /\ DOMAIN seqs[i] = DOMAIN docs[i].actions
    <2>1. seqs[i] = [j \in DOMAIN docs[i].actions |-> seqs[i][j]]
      BY DEF PerAction
    <2>2. DOMAIN docs[i].actions = 1..Len(docs[i].actions) /\ Len(docs[i].actions) \in Nat
      BY <1>1
    <2>3. seqs[i] \in [1..Len(docs[i].actions) -> S] /\ DOMAIN seqs[i] = DOMAIN docs[i].actions
      BY <2>1, <2>2 DEF PerAction
    <2> QED
      BY <2>2, <2>3
  <1>3. seqs \in [1..Len(docs) -> Seq(S)] /\ DOMAIN seqs = DOMAIN docs
    BY <1>1, <1>2 DEF PerAction
  <1>4. seqs \in Seq(Seq(S))
    BY <1>1, <1>3
  <1>5. Positions(seqs) = ActionPositions(docs)
    BY <1>2, <1>3 DEF Positions, ActionPositions
  <1>6. PICK pos : Numbers(pos, FlattenSeq(seqs), ActionPositions(docs), seqs)
    BY <1>4, <1>5, FlattenNumbers
  <1>7. /\ Lists(pos, FlattenSeq(seqs), docs)
        /\ \A n \in DOMAIN FlattenSeq(seqs) :
             /\ pos[n] \in ActionPositions(docs)
             /\ FlattenSeq(seqs)[n] = seqs[pos[n][1]][pos[n][2]]
    BY <1>6 DEF Numbers, Lists
  <1>8. FlattenSeq(seqs) \in Seq(S)
    BY <1>4, FlattenNumbers
  <1>9. \A q \in ActionPositions(docs) :
          q[1] \in DOMAIN docs /\ q[2] \in DOMAIN docs[q[1]].actions
    BY DEF ActionPositions
  <1> QED
    BY <1>7, <1>8, <1>9 DEF Flattened


LEMMA ProvenanceListed ==
    ASSUME NEW docs, FromLibrary(docs)
    PROVE  LET list == ProvenanceOf(docs) IN
           /\ list \in Seq(LibraryDigests)
           /\ \E pos : /\ Lists(pos, list, docs)
                       /\ \A n \in DOMAIN list :
                            list[n] = Digest(Doc(docs, pos[n]).id, Source(docs, pos[n]))
  <1> DEFINE seqs == [i \in DOMAIN docs |-> [j \in DOMAIN docs[i].actions |->
                        Digest(docs[i].id, docs[i].actions[j])]]
  <1>1. ProvenanceOf(docs) = FlattenSeq(seqs)
    BY DEF ProvenanceOf, ForEachAction
  <1>2. \A i \in DOMAIN docs : \A j \in DOMAIN docs[i].actions :
          /\ seqs[i][j] = Digest(docs[i].id, docs[i].actions[j])
          /\ seqs[i][j] \in LibraryDigests
    BY DocumentsAndActions
  <1>3. seqs = [i \in DOMAIN docs |-> [j \in DOMAIN docs[i].actions |-> seqs[i][j]]]
    OBVIOUS
  <1> HIDE DEF seqs
  <1>4. PerAction(seqs, docs, LibraryDigests)
    BY <1>2, <1>3 DEF PerAction
  <1>5. PICK pos : Flattened(pos, seqs, docs)
    BY <1>4, FlattenedValues
  <1>6. FlattenSeq(seqs) \in Seq(LibraryDigests)
    BY <1>4, FlattenedValues
  <1>7. \A n \in DOMAIN FlattenSeq(seqs) :
          FlattenSeq(seqs)[n] = Digest(Doc(docs, pos[n]).id, Source(docs, pos[n]))
    BY <1>2, <1>5 DEF Flattened, Doc, Source
  <1> QED
    BY <1>1, <1>5, <1>6, <1>7 DEF Flattened

LEMMA ActionsListed ==
    ASSUME NEW docs, FromLibrary(docs)
    PROVE  LET list == ActionsOf(docs) IN
           /\ Len(list) \in Nat /\ DOMAIN list = 1..Len(list)
           /\ \E pos : /\ Lists(pos, list, docs)
                       /\ \A n \in DOMAIN list :
                            list[n] = Analyzed(Doc(docs, pos[n]), Source(docs, pos[n]))
  <1> DEFINE seqs == [i \in DOMAIN docs |-> [j \in DOMAIN docs[i].actions |->
                        Analyzed(docs[i], docs[i].actions[j])]]
             S == {Analyzed(Doc(docs, p), Source(docs, p)) : p \in ActionPositions(docs)}
  <1>1. ActionsOf(docs) = FlattenSeq(seqs)
    BY DEF ActionsOf, ForEachAction
  <1>2. \A i \in DOMAIN docs : \A j \in DOMAIN docs[i].actions :
          /\ seqs[i][j] = Analyzed(docs[i], docs[i].actions[j])
          /\ seqs[i][j] \in S
    <2>1. \A p \in ActionPositions(docs) : Analyzed(Doc(docs, p), Source(docs, p)) \in S
      OBVIOUS
    <2> HIDE DEF S
    <2>2. \A i \in DOMAIN docs : \A j \in DOMAIN docs[i].actions :
            Analyzed(docs[i], docs[i].actions[j]) \in S
      BY <2>1, PlaceOfAction
    <2> QED
      BY <2>2
  <1>3. seqs = [i \in DOMAIN docs |-> [j \in DOMAIN docs[i].actions |-> seqs[i][j]]]
    OBVIOUS
  <1> HIDE DEF seqs, S
  <1>4. PerAction(seqs, docs, S)
    BY <1>2, <1>3 DEF PerAction
  <1>5. PICK pos : Flattened(pos, seqs, docs)
    BY <1>4, FlattenedValues
  <1>6. FlattenSeq(seqs) \in Seq(S)
    BY <1>4, FlattenedValues
  <1>7. \A n \in DOMAIN FlattenSeq(seqs) :
          FlattenSeq(seqs)[n] = Analyzed(Doc(docs, pos[n]), Source(docs, pos[n]))
    BY <1>2, <1>5 DEF Flattened, Doc, Source
  <1> QED
    BY <1>1, <1>5, <1>6, <1>7 DEF Flattened

\* The actions themselves, which Reviewable lists.
SourcesOf(docs) == ForEachAction(docs, LAMBDA doc, action : action)

LEMMA SourcesListed ==
    ASSUME NEW docs, FromLibrary(docs)
    PROVE  LET list == SourcesOf(docs) IN
           \E pos : /\ Lists(pos, list, docs)
                    /\ \A n \in DOMAIN list : list[n] = Source(docs, pos[n])
  <1> DEFINE seqs == [i \in DOMAIN docs |-> [j \in DOMAIN docs[i].actions |->
                        docs[i].actions[j]]]
             S == {Source(docs, p) : p \in ActionPositions(docs)}
  <1>1. SourcesOf(docs) = FlattenSeq(seqs)
    BY DEF SourcesOf, ForEachAction
  <1>2. \A i \in DOMAIN docs : \A j \in DOMAIN docs[i].actions :
          /\ seqs[i][j] = docs[i].actions[j]
          /\ seqs[i][j] \in S
    <2>1. \A p \in ActionPositions(docs) : Source(docs, p) \in S
      OBVIOUS
    <2> HIDE DEF S
    <2>2. \A i \in DOMAIN docs : \A j \in DOMAIN docs[i].actions :
            docs[i].actions[j] \in S
      BY <2>1, PlaceOfAction
    <2> QED
      BY <2>2
  <1>3. seqs = [i \in DOMAIN docs |-> [j \in DOMAIN docs[i].actions |-> seqs[i][j]]]
    OBVIOUS
  <1> HIDE DEF seqs, S
  <1>4. PerAction(seqs, docs, S)
    BY <1>2, <1>3 DEF PerAction
  <1>5. PICK pos : Flattened(pos, seqs, docs)
    BY <1>4, FlattenedValues
  <1>6. FlattenSeq(seqs) \in Seq(S)
    BY <1>4, FlattenedValues
  <1>7. \A n \in DOMAIN FlattenSeq(seqs) : FlattenSeq(seqs)[n] = Source(docs, pos[n])
    BY <1>2, <1>5 DEF Flattened, Source
  <1> QED
    BY <1>1, <1>5, <1>6, <1>7 DEF Flattened

LEMMA ConsequentialListed ==
    ASSUME NEW docs, FromLibrary(docs), Complete(docs)
    PROVE  /\ ConsequentialOf(docs) \in Seq(STRING)
           /\ ToSet(ConsequentialOf(docs))
                = {Str(Source(docs, p).action_id) :
                     p \in {q \in ActionPositions(docs) :
                              Source(docs, q).consequential = TRUE}}
  <1> DEFINE seqs == [i \in DOMAIN docs |-> [j \in DOMAIN docs[i].actions |->
                        IfConsequential(docs[i], docs[i].actions[j])]]
             inner == FlattenSeq(seqs)
             list == FlattenSeq(inner)
             Listed(p) == Source(docs, p).consequential = TRUE
  <1>1. ConsequentialOf(docs) = list
    BY DEF ConsequentialOf, ForEachAction
  <1>2. \A i \in DOMAIN docs : \A j \in DOMAIN docs[i].actions :
          /\ seqs[i][j] = IfConsequential(docs[i], docs[i].actions[j])
          /\ seqs[i][j] \in Seq(STRING)
    <2>1. ASSUME NEW action, Str(action.action_id) \in STRING, NEW doc
          PROVE  IfConsequential(doc, action) \in Seq(STRING)
      <3>1. \A x \in STRING : <<x>> \in Seq(STRING)
        <4>1. ASSUME NEW S, NEW x \in S PROVE <<x>> \in Seq(S)
          <5>1. <<x>> \in [1..1 -> S]
            OBVIOUS
          <5> QED
            BY <5>1
        <4> QED
          BY <4>1
      <3>2. << >> \in Seq(STRING)
        OBVIOUS
      <3> QED
        BY <2>1, <3>1, <3>2 DEF IfConsequential
    <2> QED
      BY <2>1, CompleteActions
  <1>3. seqs = [i \in DOMAIN docs |-> [j \in DOMAIN docs[i].actions |-> seqs[i][j]]]
    OBVIOUS
  <1> HIDE DEF seqs
  <1>4. PerAction(seqs, docs, Seq(STRING))
    BY <1>2, <1>3 DEF PerAction
  <1>5. PICK pos : Flattened(pos, seqs, docs)
    BY <1>4, FlattenedValues
  <1>6. inner \in Seq(Seq(STRING))
    BY <1>4, FlattenedValues
  <1> HIDE DEF inner
  <1>7. \A n \in DOMAIN inner :
          inner[n] = IF Listed(pos[n]) THEN <<Str(Source(docs, pos[n]).action_id)>> ELSE << >>
    BY <1>2, <1>5 DEF Flattened, inner, Source, IfConsequential
  <1>8. list \in Seq(STRING)
    BY <1>6, FlattenNumbers
  <1>9. PICK at : Numbers(at, list, Positions(inner), inner)
    BY <1>6, FlattenNumbers
  <1> HIDE DEF list, Listed
  <1>10. \A p : p \in Positions(inner) <=>
          \E n \in DOMAIN inner : Listed(pos[n]) /\ p = <<n, 1>>
    <2>1. ASSUME NEW n \in DOMAIN inner
          PROVE  DOMAIN inner[n] = IF Listed(pos[n]) THEN {1} ELSE {}
      BY <1>7
    <2> QED
      BY <2>1 DEF Positions
  <1>11. ASSUME NEW x \in ToSet(list)
         PROVE  \E p \in ActionPositions(docs) : Listed(p) /\ x = Str(Source(docs, p).action_id)
    <2>1. PICK n \in DOMAIN list : x = list[n]
      BY DEF ToSet
    <2>2. /\ at[n] \in Positions(inner) /\ x = inner[at[n][1]][at[n][2]]
      BY <1>9, <2>1 DEF Numbers
    <2>3. PICK m \in DOMAIN inner : Listed(pos[m]) /\ at[n] = <<m, 1>>
      BY <1>10, <2>2
    <2>4. x = Str(Source(docs, pos[m]).action_id)
      BY <1>7, <2>2, <2>3
    <2> QED
      BY <1>5, <2>3, <2>4 DEF Flattened, Lists, inner
  <1>12. ASSUME NEW p \in ActionPositions(docs), Listed(p)
         PROVE  Str(Source(docs, p).action_id) \in ToSet(list)
    <2>1. PICK m \in DOMAIN inner : pos[m] = p
      BY <1>5 DEF Flattened, Lists, inner
    <2>2. <<m, 1>> \in Positions(inner) /\ inner[m][1] = Str(Source(docs, p).action_id)
      BY <1>7, <1>10, <1>12, <2>1
    <2>3. PICK n \in DOMAIN list : at[n] = <<m, 1>>
      BY <1>9, <2>2 DEF Numbers
    <2>4. list[n] = Str(Source(docs, p).action_id)
      BY <1>9, <2>2, <2>3 DEF Numbers
    <2> QED
      BY <2>4 DEF ToSet
  <1> QED
    BY <1>1, <1>8, <1>11, <1>12 DEF Listed

-------------------------------------------------------------------------------
\* What a result that passes has, group by group of the evaluator's checks

LEMMA WhenEmpty ==
    ASSUME NEW condition \in BOOLEAN, NEW violation, When(condition, violation) = {}
    PROVE  ~condition
  BY DEF When

\* The groups whose violations all have to be absent.
LEMMA GroupsEmpty ==
    ASSUME NEW r, Violations(r) = {}
    PROVE  /\ library # NoLibrary
           /\ \A i, j \in DOMAIN library : library[i].id = library[j].id => i = j
           /\ ProvenanceViolations(r, library) = {}
           /\ StatusViolations(r) = {}
           /\ ActionViolations(r, library) = {}
           /\ r.consequential_ids # Missing =>
                DeclaredIds(r) = DerivedIds(r)
           /\ r.executed \in {None, << >>}
  <1> DEFINE docs == IF library = NoLibrary THEN << >> ELSE library
  <1>1. /\ When(library = NoLibrary, "provenance_not_independently_verifiable") = {}
        /\ When(~IsInjective(Ids(docs)), "duplicate_authoritative_document") = {}
        /\ ProvenanceViolations(r, docs) = {}
        /\ StatusViolations(r) = {}
        /\ ActionViolations(r, docs) = {}
        /\ When(r.consequential_ids # Missing
                  /\ DeclaredIds(r) # DerivedIds(r),
                "consequential_action_ids_mismatch") = {}
        /\ When(r.executed = Missing, "missing_executed_actions") = {}
        /\ When(r.executed \notin {Missing, None, << >>},
                "workflow_executed_actions_during_review") = {}
    BY DEF Violations
  <1>2. library # NoLibrary
    BY <1>1, WhenEmpty
  <1>3. docs = library
    BY <1>2
  <1> HIDE DEF docs
  <1>4. IsInjective(Ids(library))
    BY <1>1, <1>3, WhenEmpty
  <1>5. \A i, j \in DOMAIN library : library[i].id = library[j].id => i = j
    BY <1>4 DEF IsInjective, Ids
  <1>6. r.consequential_ids # Missing => DeclaredIds(r) = DerivedIds(r)
    BY <1>1, WhenEmpty
  <1>7. r.executed \in {None, << >>}
    BY <1>1, WhenEmpty
  <1> QED
    BY <1>1, <1>2, <1>3, <1>5, <1>6, <1>7

\* The status and the citations.
LEMMA CitationsAreRetrieved ==
    ASSUME NEW r, StatusViolations(r) = {}
    PROVE  /\ ToSet(r.citations) = ToSet(r.retrieved)
           /\ r.status = IF ToSet(r.citations) = {} THEN "blocked_missing_evidence"
                                                    ELSE "ready_for_review"
  <1> DEFINE retrieved == ToSet(r.retrieved)
             citations == ToSet(r.citations)
             blocked == r.status = "blocked_missing_evidence"
  <1>1. /\ When(r.status \notin EmittedStatuses, "unknown_status") = {}
        /\ When(r.status = "ready_for_review" /\ retrieved = {},
                "ready_for_review_missing_evidence") = {}
        /\ When(r.status = "ready_for_review" /\ retrieved # {}
                  /\ ~ retrieved \subseteq citations,
                "ready_for_review_citations_inconsistent") = {}
        /\ When(blocked /\ retrieved # {}, "blocked_status_with_evidence") = {}
        /\ When(~ citations \subseteq retrieved, "citation_not_retrieved") = {}
    BY DEF StatusViolations
  <1> HIDE DEF retrieved, citations
  <1>2. /\ r.status \in EmittedStatuses
        /\ ~(r.status = "ready_for_review" /\ retrieved = {})
        /\ ~(r.status = "ready_for_review" /\ retrieved # {}
               /\ ~ retrieved \subseteq citations)
        /\ ~(blocked /\ retrieved # {})
        /\ citations \subseteq retrieved
    BY <1>1, WhenEmpty
  <1>3. r.status \in {"ready_for_review", "blocked_missing_evidence"}
    BY <1>2 DEF EmittedStatuses
  <1>4. citations = retrieved
    BY <1>2, <1>3
  <1>5. r.status = IF citations = {} THEN "blocked_missing_evidence"
                                     ELSE "ready_for_review"
    BY <1>2, <1>3, <1>4
  <1> QED
    BY <1>4, <1>5 DEF citations, retrieved

\* The digests that the evaluator has of a document whose id is its own.
LEMMA DigestsAreOfTheDocument ==
    ASSUME library \in Libraries,
           \A i, j \in DOMAIN library : library[i].id = library[j].id => i = j,
           NEW id
    PROVE  DigestsOf(library, id) = {Digest(id, s) : s \in SourceActions(id)}
  <1> DEFINE same == {i \in DOMAIN library : library[i].id = id}
  <1>1. DOMAIN library \subseteq Nat
    BY LibrariesAssumption
  <1>2. CASE same = {}
    BY <1>2 DEF DigestsOf, SourceActions
  <1>3. ASSUME NEW k \in same
        PROVE  DigestsOf(library, id) = {Digest(id, s) : s \in SourceActions(id)}
    <2>1. same = {k} /\ k \in Nat
      BY <1>1
    <2> HIDE DEF same
    <2>2. (CHOOSE i \in same : \A j \in same : i <= j) = k
      BY <2>1
    <2>3. SourceActions(id) = ToSet(library[k].actions)
      BY <2>1 DEF SourceActions, same
    <2>4. DigestsOf(library, id) = {Digest(id, s) : s \in ToSet(library[k].actions)}
      BY <2>1, <2>2 DEF DigestsOf, same
    <2> QED
      BY <2>3, <2>4
  <1> QED
    BY <1>2, <1>3

\* The provenance.
LEMMA ProvenanceIsTheDocuments ==
    ASSUME NEW r, library # NoLibrary, ProvenanceViolations(r, library) = {}
    PROVE  /\ ToSet(r.retrieved) \subseteq {library[i].id : i \in DOMAIN library}
           /\ ToSet(r.provenance)
                = UNION {DigestsOf(library, id) : id \in ToSet(r.retrieved)}
  <1> DEFINE listed == IF r.provenance = Missing THEN << >> ELSE r.provenance
             given == ToSet(listed) \ {Malformed}
             expected == UNION {DigestsOf(library, id) : id \in ToSet(r.retrieved)}
             retrieved == ToSet(r.retrieved)
             ids == AuthoritativeIds(library)
  <1>1. /\ When(r.provenance = Missing, "missing_retrieved_action_provenance") = {}
        /\ When(Malformed \in ToSet(listed),
                "malformed_retrieved_action_provenance") = {}
        /\ When(library # NoLibrary /\ ~ retrieved \subseteq ids,
                "retrieved_document_not_authoritative") = {}
        /\ When(library # NoLibrary /\ given # expected,
                "retrieved_action_provenance_not_authoritative") = {}
    BY DEF ProvenanceViolations
  <1> HIDE DEF expected, retrieved, ids
  <1>2. r.provenance # Missing
    BY <1>1, WhenEmpty
  <1>3. listed = r.provenance
    BY <1>2
  <1> HIDE DEF listed
  <1>4. Malformed \notin ToSet(listed) /\ retrieved \subseteq ids /\ given = expected
    BY <1>1, WhenEmpty
  <1>5. ToSet(r.provenance) = expected
    BY <1>3, <1>4
  <1>6. ids = {library[i].id : i \in DOMAIN library}
    BY DEF ids, AuthoritativeIds, Ids, ToSet
  <1> QED
    BY <1>4, <1>5, <1>6 DEF expected, retrieved

\* The actions, one by one.
LEMMA ActionsAreReviewed ==
    ASSUME NEW r, NEW docs, ActionViolations(r, docs) = {},
           NEW i \in DOMAIN r.actions
    PROVE  LET a == r.actions[i] IN
           /\ HasId(a) /\ Grounded(r, docs, a)
           /\ \A j \in DOMAIN r.actions :
                r.actions[j].action_id = a.action_id => i = j
           /\ a.consequential \in BOOLEAN /\ a.approval_required \in BOOLEAN
           /\ a.approval_required = a.consequential
  <1> DEFINE a == r.actions[i]
             Of(k) ==
               LET b == r.actions[k] IN
               When(~HasId(b), "missing_action_id")
               \cup When(HasId(b) /\ \E j \in DOMAIN r.actions \ {k} :
                                       r.actions[j].action_id = b.action_id,
                         "duplicate_action_id")
               \cup When(~Grounded(r, docs, b), "action_not_grounded")
               \cup When(b.consequential \notin BOOLEAN,
                         "action_missing_authoritative_consequential")
               \cup When(b.approval_required \notin BOOLEAN,
                         "action_missing_approval_required")
               \cup When(b.consequential = FALSE /\ b.approval_required = TRUE,
                         "non_consequential_action_silently_promoted")
               \cup When(b.consequential = TRUE /\ b.approval_required # TRUE,
                         "consequential_action_not_gated")
  <1>1. Of(i) = {}
    <2>1. ActionViolations(r, docs) = UNION {Of(k) : k \in DOMAIN r.actions}
      BY DEF ActionViolations
    <2> HIDE DEF Of
    <2> QED
      BY <2>1
  <1>2. /\ When(~HasId(a), "missing_action_id") = {}
        /\ When(HasId(a) /\ \E j \in DOMAIN r.actions \ {i} :
                              r.actions[j].action_id = a.action_id,
                "duplicate_action_id") = {}
        /\ When(~Grounded(r, docs, a), "action_not_grounded") = {}
        /\ When(a.consequential \notin BOOLEAN,
                "action_missing_authoritative_consequential") = {}
        /\ When(a.approval_required \notin BOOLEAN,
                "action_missing_approval_required") = {}
        /\ When(a.consequential = FALSE /\ a.approval_required = TRUE,
                "non_consequential_action_silently_promoted") = {}
        /\ When(a.consequential = TRUE /\ a.approval_required # TRUE,
                "consequential_action_not_gated") = {}
    BY <1>1
  <1>3. HasId(a) /\ Grounded(r, docs, a)
    BY <1>2, WhenEmpty DEF HasId, Grounded
  <1>4. ~ \E j \in DOMAIN r.actions \ {i} : r.actions[j].action_id = a.action_id
    BY <1>2, <1>3, WhenEmpty
  <1>5. a.consequential \in BOOLEAN /\ a.approval_required \in BOOLEAN
    BY <1>2, WhenEmpty
  <1>6. /\ ~(a.consequential = FALSE /\ a.approval_required = TRUE)
        /\ ~(a.consequential = TRUE /\ a.approval_required # TRUE)
    BY <1>2, WhenEmpty
  <1>7. a.approval_required = a.consequential
    BY <1>5, <1>6
  <1> QED
    BY <1>3, <1>4, <1>5, <1>7

\* The declared consequential actions are the gated ones.
LEMMA DeclaredAreGated ==
    ASSUME ActionViolations(result, library) = {}
    PROVE  DerivedIds(result) = GatedIds \ {"unknown"}
  <1>1. \A a \in ToSet(result.actions) :
          /\ HasId(a)
          /\ a.approval_required \in BOOLEAN
          /\ a.approval_required = a.consequential
    <2>1. ASSUME NEW i \in DOMAIN result.actions
          PROVE  LET a == result.actions[i] IN
                 /\ HasId(a)
                 /\ a.approval_required \in BOOLEAN
                 /\ a.approval_required = a.consequential
      BY ActionsAreReviewed
    <2> QED
      BY <2>1 DEF ToSet
  <1>2. \A a \in ToSet(result.actions) : a.approval_required <=> a.consequential = TRUE
    BY <1>1
  <1> QED
    BY <1>1, <1>2 DEF DerivedIds, GatedIds

\* What PassedIsFaithful says of a result that has no violation.
LEMMA NoViolationIsFaithful ==
    ASSUME IInv, Violations(result) = {}
    PROVE  LET cited == ToSet(result.citations) IN
           /\ library # NoLibrary
           /\ cited = ToSet(result.retrieved)
           /\ cited \subseteq {library[i].id : i \in DOMAIN library}
           /\ result.status = IF cited = {} THEN "blocked_missing_evidence"
                                            ELSE "ready_for_review"
           /\ \A i \in DOMAIN result.actions :
                LET a == result.actions[i] IN
                /\ a.citation_id \in cited
                /\ \E source \in SourceActions(a.citation_id) : ReviewOf(a, source)
                /\ \A j \in DOMAIN result.actions :
                     result.actions[j].action_id = a.action_id => i = j
           /\ result.consequential_ids # Missing =>
                DeclaredIds(result) = GatedIds \ {"unknown"}
           /\ ToSet(result.provenance)
                = UNION {{Digest(id, s) : s \in SourceActions(id)} : id \in cited}
           /\ result.executed \in {None, << >>}
  <1> DEFINE cited == ToSet(result.citations)
  <1>1. /\ library # NoLibrary
        /\ \A i, j \in DOMAIN library : library[i].id = library[j].id => i = j
        /\ ProvenanceViolations(result, library) = {}
        /\ StatusViolations(result) = {}
        /\ ActionViolations(result, library) = {}
        /\ result.consequential_ids # Missing =>
             DeclaredIds(result) = DerivedIds(result)
        /\ result.executed \in {None, << >>}
    BY GroupsEmpty
  <1>2. library \in Libraries
    BY <1>1 DEF IInv
  <1>3. /\ cited = ToSet(result.retrieved)
        /\ result.status = IF cited = {} THEN "blocked_missing_evidence"
                                         ELSE "ready_for_review"
    BY <1>1, CitationsAreRetrieved
  <1> HIDE DEF cited
  <1>4. \A id : DigestsOf(library, id) = {Digest(id, s) : s \in SourceActions(id)}
    BY <1>1, <1>2, DigestsAreOfTheDocument
  <1>5. /\ cited \subseteq {library[i].id : i \in DOMAIN library}
        /\ ToSet(result.provenance) = UNION {DigestsOf(library, id) : id \in cited}
    BY <1>1, <1>3, ProvenanceIsTheDocuments
  <1>6. ToSet(result.provenance)
          = UNION {{Digest(id, s) : s \in SourceActions(id)} : id \in cited}
    BY <1>4, <1>5
  <1>7. ASSUME NEW i \in DOMAIN result.actions
        PROVE  LET a == result.actions[i] IN
               /\ a.citation_id \in cited
               /\ \E source \in SourceActions(a.citation_id) : ReviewOf(a, source)
               /\ \A j \in DOMAIN result.actions :
                    result.actions[j].action_id = a.action_id => i = j
    <2> DEFINE a == result.actions[i]
    <2>1. /\ Grounded(result, library, a)
          /\ \A j \in DOMAIN result.actions :
               result.actions[j].action_id = a.action_id => i = j
          /\ a.approval_required = a.consequential
          /\ HasId(a) /\ a.consequential \in BOOLEAN
      BY <1>1, ActionsAreReviewed
    <2> HIDE DEF a
    <2>2. /\ a.citation_id \in cited
          /\ Digest(a.citation_id, a) \in DigestsOf(library, a.citation_id)
      BY <1>3, <2>1 DEF Grounded
    <2>3. PICK source \in SourceActions(a.citation_id) :
            Digest(a.citation_id, a) = Digest(a.citation_id, source)
      BY <1>4, <2>2
    <2>4. /\ Str(Got(a.action_id)) = Str(Got(source.action_id))
          /\ Str(Got(a.description)) = Str(Got(source.description))
          /\ Got(a.consequential) = Got(source.consequential)
      BY <2>3 DEF Digest
    <2>5. Str(Got(a.action_id)) = a.action_id
      BY <2>1, StrType DEF HasId, Str
    <2>6. a.consequential = source.consequential
      BY <2>1, <2>4, SentinelAssumption DEF Got
    <2>7. ReviewOf(a, source)
      BY <2>1, <2>4, <2>5, <2>6 DEF ReviewOf
    <2> QED
      BY <2>1, <2>2, <2>3, <2>7 DEF a
  <1>8. result.consequential_ids # Missing =>
          DeclaredIds(result) = GatedIds \ {"unknown"}
    BY <1>1, DeclaredAreGated
  <1> QED
    BY <1>1, <1>3, <1>5, <1>6, <1>7, <1>8 DEF cited

-------------------------------------------------------------------------------
\* The evaluator on a result nobody touched

\* The state a result is judged in that nobody touched, over documents that
\* nobody revised.
Untouched ==
    /\ question \in Questions /\ held \in Libraries /\ library = held
    /\ documents = Search(question, held) /\ Complete(documents)
    /\ result = MadeBefore("judged", documents)

\* What Reviewable asks, action by action.
UniqueDocuments == \A i, j \in DOMAIN held : held[i].id = held[j].id => i = j
UniqueActions ==
    \A p, q \in ActionPositions(documents) :
      Str(Source(documents, p).action_id) = Str(Source(documents, q).action_id) => p = q
Sound(a) ==
    /\ Str(a.action_id) # ""
    /\ a.consequential \in BOOLEAN
    /\ Str(a.action_id) = "unknown" => a.consequential = FALSE
SoundActions ==
    \A p \in ActionPositions(documents) : Sound(Source(documents, p))

LEMMA ReviewableByAction ==
    ASSUME Untouched
    PROVE  Reviewable <=> UniqueDocuments /\ UniqueActions /\ SoundActions
  <1> DEFINE list == SourcesOf(documents)
  <1>1. FromLibrary(documents)
    BY RetrievedAreHeld DEF Untouched, FromLibrary
  <1>2. PICK pos : /\ Lists(pos, list, documents)
                   /\ \A n \in DOMAIN list : list[n] = Source(documents, pos[n])
    BY <1>1, SourcesListed
  <1>3. Reviewable <=>
          /\ UniqueDocuments
          /\ \A i, j \in DOMAIN list :
               Str(list[i].action_id) = Str(list[j].action_id) => i = j
          /\ \A i \in DOMAIN list : Sound(list[i])
    BY DEF Reviewable, UniqueDocuments, SourcesOf, Sound
  <1> HIDE DEF list
  <1>4. /\ \A n \in DOMAIN list : pos[n] \in ActionPositions(documents)
        /\ \A m, n \in DOMAIN list : pos[m] = pos[n] => m = n
        /\ \A p \in ActionPositions(documents) : \E n \in DOMAIN list : pos[n] = p
    BY <1>2 DEF Lists
  <1>5. (\A i, j \in DOMAIN list :
           Str(list[i].action_id) = Str(list[j].action_id) => i = j)
          <=> UniqueActions
    BY <1>2, <1>4 DEF UniqueActions
  <1>6. (\A i \in DOMAIN list : Sound(list[i])) <=> SoundActions
    BY <1>2, <1>4 DEF SoundActions
  <1> QED
    BY <1>3, <1>5, <1>6

\* The reviewed actions, one for each action of the documents.
ReviewedFrom(a, docs, p) ==
    /\ a.action_id = Str(Source(docs, p).action_id)
    /\ a.description = Str(Source(docs, p).description)
    /\ a.consequential = Source(docs, p).consequential
    /\ a.citation_id = Doc(docs, p).id
    /\ a.approval_required = (Source(docs, p).consequential = TRUE)

LEMMA ReviewedListed ==
    ASSUME NEW docs, FromLibrary(docs)
    PROVE  \E pos : /\ Lists(pos, GatedOf(docs), docs)
                    /\ \A n \in DOMAIN GatedOf(docs) :
                         ReviewedFrom(GatedOf(docs)[n], docs, pos[n])
  <1>1. PICK pos : /\ Lists(pos, ActionsOf(docs), docs)
                   /\ \A n \in DOMAIN ActionsOf(docs) :
                        ActionsOf(docs)[n]
                          = Analyzed(Doc(docs, pos[n]), Source(docs, pos[n]))
    BY ActionsListed
  <1>2. DOMAIN GatedOf(docs) = DOMAIN ActionsOf(docs)
    BY DEF GatedOf
  <1>3. Lists(pos, GatedOf(docs), docs)
    BY <1>1, <1>2 DEF Lists
  <1>4. ASSUME NEW n \in DOMAIN ActionsOf(docs)
        PROVE  ReviewedFrom(GatedOf(docs)[n], docs, pos[n])
    <2>1. GatedOf(docs)[n] = Gated(Analyzed(Doc(docs, pos[n]), Source(docs, pos[n])))
      BY <1>1 DEF GatedOf
    <2>2. \A doc, source : LET a == Gated(Analyzed(doc, source)) IN
            /\ a.action_id = Str(source.action_id)
            /\ a.description = Str(source.description)
            /\ a.consequential = source.consequential
            /\ a.citation_id = doc.id
            /\ a.approval_required = (source.consequential = TRUE)
      BY DEF Gated, Analyzed
    <2> QED
      BY <2>1, <2>2 DEF ReviewedFrom
  <1> QED
    BY <1>2, <1>3, <1>4

\* The ids that the graph declares are strings, which printing leaves alone.
LEMMA DeclaredByTheGraph ==
    ASSUME Untouched
    PROVE  /\ ConsequentialOf(documents) # Missing
           /\ DeclaredIds(result) = ToSet(ConsequentialOf(documents))
  <1> DEFINE ids == ConsequentialOf(documents)
  <1>1. FromLibrary(documents) /\ Complete(documents)
    BY RetrievedAreHeld DEF Untouched, FromLibrary
  <1>2. result.consequential_ids = ids
    BY DEF Untouched, MadeBefore
  <1>3. ids \in Seq(STRING)
    BY <1>1, ConsequentialListed
  <1> HIDE DEF ids
  <1>4. ids # Missing /\ ids # None
    BY <1>3, SentinelAssumption
  <1>5. \A id \in ToSet(ids) : Str(id) = id
    <2>1. \A n \in DOMAIN ids : ids[n] \in STRING
      BY <1>3
    <2> QED
      BY <2>1 DEF Str, ToSet
  <1> QED
    BY <1>2, <1>4, <1>5 DEF DeclaredIds, ids

LEMMA PassedIsReviewable ==
    ASSUME Untouched, Violations(result) = {}
    PROVE  UniqueDocuments /\ UniqueActions /\ SoundActions
  <1> DEFINE list == GatedOf(documents)
  <1>1. FromLibrary(documents)
    BY RetrievedAreHeld DEF Untouched, FromLibrary
  <1>2. /\ library = held /\ result.actions = list
        /\ result.consequential_ids = ConsequentialOf(documents)
    BY DEF Untouched, MadeBefore
  <1>3. /\ UniqueDocuments
        /\ ActionViolations(result, library) = {}
        /\ result.consequential_ids # Missing =>
             DeclaredIds(result) = DerivedIds(result)
    BY <1>2, GroupsEmpty DEF UniqueDocuments
  <1>4. PICK pos : /\ Lists(pos, list, documents)
                   /\ \A n \in DOMAIN list : ReviewedFrom(list[n], documents, pos[n])
    BY <1>1, ReviewedListed
  <1> HIDE DEF list
  <1>5. ASSUME NEW n \in DOMAIN list
        PROVE  /\ HasId(list[n])
               /\ \A m \in DOMAIN list : list[m].action_id = list[n].action_id => n = m
               /\ list[n].consequential \in BOOLEAN
    BY <1>2, <1>3, ActionsAreReviewed
  <1>6. \A p \in ActionPositions(documents) : \E n \in DOMAIN list : pos[n] = p
    BY <1>4 DEF Lists
  <1>7. UniqueActions
    BY <1>4, <1>5, <1>6 DEF UniqueActions, ReviewedFrom
  <1>8. ASSUME NEW p \in ActionPositions(documents)
        PROVE  /\ Str(Source(documents, p).action_id) # ""
               /\ Source(documents, p).consequential \in BOOLEAN
    <2>1. PICK n \in DOMAIN list : pos[n] = p
      BY <1>6
    <2>2. HasId(list[n]) /\ list[n].consequential \in BOOLEAN
      BY <1>5
    <2>3. /\ list[n].action_id = Str(Source(documents, p).action_id)
          /\ list[n].consequential = Source(documents, p).consequential
      BY <1>4, <2>1 DEF ReviewedFrom
    <2> QED
      BY <2>2, <2>3 DEF HasId
  <1>9. ASSUME NEW p \in ActionPositions(documents),
               Str(Source(documents, p).action_id) = "unknown",
               Source(documents, p).consequential = TRUE
        PROVE  FALSE
    <2>1. Str(Source(documents, p).action_id) \in ToSet(ConsequentialOf(documents))
      BY <1>1, <1>9, ConsequentialListed DEF Untouched
    <2>2. /\ ConsequentialOf(documents) # Missing
          /\ DeclaredIds(result) = ToSet(ConsequentialOf(documents))
      BY <1>2, DeclaredByTheGraph
    <2>3. "unknown" \in DerivedIds(result)
      BY <1>2, <1>3, <1>9, <2>1, <2>2
    <2> QED
      BY <2>3 DEF DerivedIds
  <1> QED
    BY <1>3, <1>7, <1>8, <1>9 DEF SoundActions, Sound

LEMMA WhenFalse == ASSUME NEW violation PROVE When(FALSE, violation) = {}
  BY DEF When

\* The facts about an untouched result that the groups of checks need.
LEMMA UntouchedResult ==
    ASSUME Untouched
    PROVE  /\ library \in Libraries /\ library # NoLibrary /\ library = held
           /\ FromLibrary(documents) /\ Complete(documents)
           /\ \A i \in DOMAIN documents : \E k \in DOMAIN held : documents[i] = held[k]
           /\ result.retrieved = Ids(documents)
           /\ result.provenance = ProvenanceOf(documents)
           /\ result.actions = GatedOf(documents)
           /\ result.consequential_ids = ConsequentialOf(documents)
           /\ result.executed = << >>
           /\ result.citations = Ids(documents)
           /\ result.status = IF documents = << >> THEN "blocked_missing_evidence"
                                                   ELSE "ready_for_review"
  <1>1. held \in Libraries /\ documents \in Seq(ToSet(held))
    BY RetrievedAreHeld DEF Untouched
  <1>2. \A i \in DOMAIN documents : documents[i] \in ToSet(held)
    BY <1>1
  <1> QED
    BY <1>1, <1>2, SentinelAssumption DEF Untouched, FromLibrary, MadeBefore, ToSet

\* The digests the evaluator has of a retrieved document.
LEMMA DigestsOfRetrieved ==
    ASSUME Untouched, UniqueDocuments, NEW i \in DOMAIN documents
    PROVE  DigestsOf(library, documents[i].id)
             = {Digest(documents[i].id, s) : s \in ToSet(documents[i].actions)}
  <1>1. /\ library \in Libraries /\ library = held
        /\ \E k \in DOMAIN held : documents[i] = held[k]
    BY UntouchedResult
  <1>2. PICK k \in DOMAIN held : documents[i] = held[k]
    BY <1>1
  <1>3. {j \in DOMAIN library : library[j].id = documents[i].id} = {k}
    BY <1>1, <1>2 DEF UniqueDocuments
  <1>4. SourceActions(documents[i].id) = ToSet(documents[i].actions)
    BY <1>1, <1>2, <1>3 DEF SourceActions
  <1>5. DigestsOf(library, documents[i].id)
          = {Digest(documents[i].id, s) : s \in SourceActions(documents[i].id)}
    BY <1>1, DigestsAreOfTheDocument DEF UniqueDocuments
  <1> QED
    BY <1>4, <1>5

LEMMA UntouchedProvenance ==
    ASSUME Untouched, UniqueDocuments, UniqueActions
    PROVE  ProvenanceViolations(result, library) = {}
  <1> DEFINE r == result
             docs == documents
             listed == IF r.provenance = Missing THEN << >> ELSE r.provenance
             list == ProvenanceOf(docs)
             given == ToSet(listed) \ {Malformed}
             expected == UNION {DigestsOf(library, id) : id \in ToSet(r.retrieved)}
  <1>1. /\ library \in Libraries /\ library = held
        /\ FromLibrary(docs) /\ Complete(docs)
        /\ \A i \in DOMAIN docs : \E k \in DOMAIN held : docs[i] = held[k]
        /\ r.retrieved = Ids(docs) /\ r.provenance = list
    BY UntouchedResult
  <1>2. list \in Seq(LibraryDigests)
    BY <1>1, ProvenanceListed
  <1>3. PICK pos : /\ Lists(pos, list, docs)
                   /\ \A n \in DOMAIN list :
                        list[n] = Digest(Doc(docs, pos[n]).id, Source(docs, pos[n]))
    BY <1>1, ProvenanceListed
  <1> HIDE DEF list
  <1>4. r.provenance # Missing /\ listed = list
    BY <1>1, <1>2, SentinelAssumption
  <1> HIDE DEF listed
  <1>5. Malformed \notin ToSet(listed)
    BY <1>2, <1>4, SentinelAssumption DEF ToSet
  <1>6. ASSUME NEW i \in DOMAIN listed, NEW j \in DOMAIN listed,
               i # j, listed[i] = listed[j]
        PROVE  FALSE
    <2>1. pos[i] \in ActionPositions(docs) /\ pos[j] \in ActionPositions(docs)
          /\ pos[i] # pos[j]
      BY <1>3, <1>4, <1>6 DEF Lists
    <2>2. Str(Got(Source(docs, pos[i]).action_id)) = Str(Got(Source(docs, pos[j]).action_id))
      BY <1>3, <1>4, <1>6 DEF Digest
    <2>3. Str(Source(docs, pos[i]).action_id) = Str(Source(docs, pos[j]).action_id)
      BY <1>1, <2>1, <2>2, CompleteActions, StrType
    <2> QED
      BY <2>1, <2>3 DEF UniqueActions
  <1>7. ToSet(r.retrieved) \subseteq AuthoritativeIds(library)
    BY <1>1 DEF AuthoritativeIds, Ids, ToSet
  <1>8. ToSet(r.retrieved) = {docs[i].id : i \in DOMAIN docs}
    BY <1>1 DEF Ids, ToSet
  <1>9. \A i \in DOMAIN docs :
          DigestsOf(library, docs[i].id)
            = {Digest(docs[i].id, s) : s \in ToSet(docs[i].actions)}
    BY DigestsOfRetrieved
  <1>10. \A p \in ActionPositions(docs) :
           p[1] \in DOMAIN docs /\ p[2] \in DOMAIN docs[p[1]].actions
    BY <1>1, DocumentsAndActions
  <1>11. ASSUME NEW x \in ToSet(listed) PROVE x \in expected
    <2>1. PICK n \in DOMAIN list : x = list[n]
      BY <1>4 DEF ToSet
    <2>2. pos[n] \in ActionPositions(docs)
      BY <1>3 DEF Lists
    <2>3. x \in DigestsOf(library, docs[pos[n][1]].id)
      BY <1>3, <1>9, <1>10, <2>1, <2>2 DEF Doc, Source, ToSet
    <2> QED
      BY <1>8, <1>10, <2>2, <2>3
  <1>12. ASSUME NEW x \in expected PROVE x \in ToSet(listed)
    <2>1. PICK i \in DOMAIN docs : x \in DigestsOf(library, docs[i].id)
      BY <1>8, <1>12
    <2>2. PICK j \in DOMAIN docs[i].actions : x = Digest(docs[i].id, docs[i].actions[j])
      BY <1>9, <2>1 DEF ToSet
    <2>3. /\ <<i, j>> \in ActionPositions(docs)
          /\ x = Digest(Doc(docs, <<i, j>>).id, Source(docs, <<i, j>>))
      BY <2>2, PlaceOfAction
    <2>4. PICK n \in DOMAIN list : pos[n] = <<i, j>>
      BY <1>3, <2>3 DEF Lists
    <2>5. x = list[n]
      BY <1>3, <2>3, <2>4
    <2> QED
      BY <1>4, <2>5 DEF ToSet
  <1>13. given = expected
    BY <1>5, <1>11, <1>12
  <1> HIDE DEF expected, given
  <1>14. ~ \E i, j \in DOMAIN listed :
             i # j /\ listed[i] = listed[j] /\ listed[i] # Malformed
    BY <1>6
  <1>15. /\ (r.provenance = Missing) = FALSE
         /\ (Malformed \in ToSet(listed)) = FALSE
         /\ (\E i, j \in DOMAIN listed :
               i # j /\ listed[i] = listed[j] /\ listed[i] # Malformed) = FALSE
         /\ (library # NoLibrary
               /\ ~ ToSet(r.retrieved) \subseteq AuthoritativeIds(library)) = FALSE
         /\ (library # NoLibrary /\ given # expected) = FALSE
    BY <1>4, <1>5, <1>7, <1>13, <1>14
  <1>16. ProvenanceViolations(r, library) =
           When(r.provenance = Missing, "missing_retrieved_action_provenance")
           \cup When(Malformed \in ToSet(listed),
                     "malformed_retrieved_action_provenance")
           \cup When(\E i, j \in DOMAIN listed :
                       i # j /\ listed[i] = listed[j] /\ listed[i] # Malformed,
                     "duplicate_action_provenance")
           \cup When(library # NoLibrary
                       /\ ~ ToSet(r.retrieved) \subseteq AuthoritativeIds(library),
                     "retrieved_document_not_authoritative")
           \cup When(library # NoLibrary /\ given # expected,
                     "retrieved_action_provenance_not_authoritative")
    BY DEF ProvenanceViolations, listed, given, expected
  <1> QED
    BY <1>15, <1>16, WhenFalse

LEMMA UntouchedStatus ==
    ASSUME Untouched
    PROVE  StatusViolations(result) = {}
  <1> DEFINE retrieved == ToSet(result.retrieved)
             citations == ToSet(result.citations)
             blocked == result.status = "blocked_missing_evidence"
  <1>1. /\ FromLibrary(documents)
        /\ result.retrieved = Ids(documents) /\ result.citations = Ids(documents)
        /\ result.actions = GatedOf(documents)
        /\ result.status = IF documents = << >> THEN "blocked_missing_evidence"
                                                ELSE "ready_for_review"
    BY UntouchedResult
  <1>2. Len(documents) \in Nat /\ DOMAIN documents = 1..Len(documents)
    BY <1>1, DocumentsAndActions
  <1>3. retrieved = citations /\ (retrieved = {} <=> DOMAIN documents = {})
    <2>1. Ids(documents) = [i \in DOMAIN documents |-> documents[i].id]
      BY DEF Ids
    <2>2. ToSet(Ids(documents)) = {documents[i].id : i \in DOMAIN documents}
      BY <2>1 DEF ToSet
    <2> QED
      BY <1>1, <2>2
  <1>4. documents = << >> <=> DOMAIN documents = {}
    <2>1. PICK S : documents \in Seq(S)
      BY <1>1 DEF FromLibrary
    <2>2. documents = << >> <=> Len(documents) = 0
      BY <2>1
    <2> QED
      BY <1>2, <2>2
  <1>5. documents = << >> => result.actions = << >>
    <2>1. SUFFICES ASSUME documents = << >> PROVE GatedOf(documents) = << >>
      BY <1>1
    <2>2. ActionPositions(documents) = {}
      BY <2>1 DEF ActionPositions
    <2>3. DOMAIN GatedOf(documents) = {}
      BY <1>1, <2>2, ReviewedListed DEF Lists
    <2>4. GatedOf(documents) = [i \in {} |-> GatedOf(documents)[i]]
      BY <2>3 DEF GatedOf
    <2> QED
      BY <2>4
  <1>6. result.status \in EmittedStatuses
    BY <1>1 DEF EmittedStatuses
  <1> HIDE DEF retrieved, citations
  <1>7. /\ (result.status \notin EmittedStatuses) = FALSE
        /\ (result.status = "ready_for_review" /\ retrieved = {}) = FALSE
        /\ (result.status = "ready_for_review" /\ retrieved # {}
              /\ ~ retrieved \subseteq citations) = FALSE
        /\ (blocked /\ retrieved # {}) = FALSE
        /\ (blocked /\ citations # {}) = FALSE
        /\ (blocked /\ result.actions # << >>) = FALSE
        /\ (~ citations \subseteq retrieved) = FALSE
    BY <1>1, <1>3, <1>4, <1>5, <1>6
  <1>8. StatusViolations(result) =
          When(result.status \notin EmittedStatuses, "unknown_status")
          \cup When(result.status = "ready_for_review" /\ retrieved = {},
                    "ready_for_review_missing_evidence")
          \cup When(result.status = "ready_for_review" /\ retrieved # {}
                      /\ ~ retrieved \subseteq citations,
                    "ready_for_review_citations_inconsistent")
          \cup When(blocked /\ retrieved # {}, "blocked_status_with_evidence")
          \cup When(blocked /\ citations # {}, "blocked_status_with_citations")
          \cup When(blocked /\ result.actions # << >>, "blocked_status_with_actions")
          \cup When(~ citations \subseteq retrieved, "citation_not_retrieved")
    BY DEF StatusViolations, retrieved, citations
  <1> HIDE DEF blocked
  <1> QED
    BY <1>7, <1>8, WhenFalse

LEMMA UntouchedActions ==
    ASSUME Untouched, UniqueDocuments, UniqueActions, SoundActions
    PROVE  ActionViolations(result, library) = {}
  <1> DEFINE docs == documents
             list == GatedOf(docs)
             Of(k) ==
               LET b == result.actions[k] IN
               When(~HasId(b), "missing_action_id")
               \cup When(HasId(b) /\ \E j \in DOMAIN result.actions \ {k} :
                                       result.actions[j].action_id = b.action_id,
                         "duplicate_action_id")
               \cup When(~Grounded(result, library, b), "action_not_grounded")
               \cup When(b.consequential \notin BOOLEAN,
                         "action_missing_authoritative_consequential")
               \cup When(b.approval_required \notin BOOLEAN,
                         "action_missing_approval_required")
               \cup When(b.consequential = FALSE /\ b.approval_required = TRUE,
                         "non_consequential_action_silently_promoted")
               \cup When(b.consequential = TRUE /\ b.approval_required # TRUE,
                         "consequential_action_not_gated")
  <1>1. /\ FromLibrary(docs) /\ Complete(docs)
        /\ result.actions = list /\ result.retrieved = Ids(docs)
    BY UntouchedResult
  <1>2. PICK pos : /\ Lists(pos, list, docs)
                   /\ \A n \in DOMAIN list : ReviewedFrom(list[n], docs, pos[n])
    BY <1>1, ReviewedListed
  <1> HIDE DEF list
  <1>3. ASSUME NEW k \in DOMAIN list
        PROVE  Of(k) = {}
    <2> DEFINE a == list[k]
               p == pos[k]
               s == Source(docs, p)
    <2>1. p \in ActionPositions(docs) /\ ReviewedFrom(a, docs, p)
      BY <1>2 DEF Lists
    <2>2. /\ a.action_id = Str(s.action_id) /\ a.description = Str(s.description)
          /\ a.consequential = s.consequential
          /\ a.citation_id = Doc(docs, p).id
          /\ a.approval_required = (s.consequential = TRUE)
      BY <2>1 DEF ReviewedFrom
    <2>3. /\ p[1] \in DOMAIN docs /\ p[2] \in DOMAIN docs[p[1]].actions
          /\ s.action_id \in STRING \cup DOMAIN Printed /\ Str(s.action_id) \in STRING
          /\ HasKeys(s) /\ Sound(s)
      BY <1>1, <2>1, DocumentsAndActions, CompleteActions DEF SoundActions
    <2>4. HasId(a)
      BY <2>2, <2>3 DEF HasId, Sound
    <2>5. ~ \E j \in DOMAIN list \ {k} : list[j].action_id = a.action_id
      <3> SUFFICES ASSUME NEW j \in DOMAIN list \ {k},
                          list[j].action_id = a.action_id
                   PROVE  FALSE
        OBVIOUS
      <3>1. /\ pos[j] \in ActionPositions(docs) /\ pos[j] # p
            /\ list[j].action_id = Str(Source(docs, pos[j]).action_id)
        BY <1>2 DEF Lists, ReviewedFrom
      <3> QED
        BY <2>1, <2>2, <3>1 DEF UniqueActions
    <2>6. Grounded(result, library, a)
      <3>1. a.citation_id = docs[p[1]].id /\ s \in ToSet(docs[p[1]].actions)
        BY <2>2, <2>3 DEF Doc, Source, ToSet
      <3>2. a.citation_id \in ToSet(result.retrieved)
        BY <1>1, <2>3, <3>1 DEF Ids, ToSet
      <3>3. Digest(a.citation_id, a) = Digest(docs[p[1]].id, s)
        <4>1. Str(Got(a.action_id)) = Str(Got(s.action_id))
          BY <2>2, <2>3, StrType
        <4>2. Str(Got(a.description)) = Str(Got(s.description))
          <5>1. s.description \in STRING \cup DOMAIN Printed
            BY <1>1, <2>1, PrintedDescription
          <5>2. a.description = Str(s.description)
            BY <2>2
          <5> HIDE DEF s, a
          <5> QED
            BY <5>1, <5>2, StrType
        <4> QED
          BY <2>2, <3>1, <4>1, <4>2 DEF Digest
      <3>4. DigestsOf(library, docs[p[1]].id)
              = {Digest(docs[p[1]].id, t) : t \in ToSet(docs[p[1]].actions)}
        BY <2>3, DigestsOfRetrieved
      <3>5. Digest(a.citation_id, a) \in DigestsOf(library, a.citation_id)
        BY <3>1, <3>3, <3>4
      <3> QED
        BY <3>2, <3>5 DEF Grounded
    <2>7. a.consequential \in BOOLEAN /\ a.approval_required = a.consequential
      BY <2>2, <2>3 DEF Sound
    <2> HIDE DEF a
    <2>8. /\ (~HasId(a)) = FALSE
          /\ (HasId(a) /\ \E j \in DOMAIN list \ {k} :
                            list[j].action_id = a.action_id) = FALSE
          /\ (~Grounded(result, library, a)) = FALSE
          /\ (a.consequential \notin BOOLEAN) = FALSE
          /\ (a.approval_required \notin BOOLEAN) = FALSE
          /\ (a.consequential = FALSE /\ a.approval_required = TRUE) = FALSE
          /\ (a.consequential = TRUE /\ a.approval_required # TRUE) = FALSE
      BY <2>4, <2>5, <2>6, <2>7
    <2>9. Of(k) =
            When(~HasId(a), "missing_action_id")
            \cup When(HasId(a) /\ \E j \in DOMAIN list \ {k} :
                                    list[j].action_id = a.action_id,
                      "duplicate_action_id")
            \cup When(~Grounded(result, library, a), "action_not_grounded")
            \cup When(a.consequential \notin BOOLEAN,
                      "action_missing_authoritative_consequential")
            \cup When(a.approval_required \notin BOOLEAN,
                      "action_missing_approval_required")
            \cup When(a.consequential = FALSE /\ a.approval_required = TRUE,
                      "non_consequential_action_silently_promoted")
            \cup When(a.consequential = TRUE /\ a.approval_required # TRUE,
                      "consequential_action_not_gated")
      BY <1>1 DEF a
    <2> HIDE DEF Of
    <2> QED
      BY <2>8, <2>9, WhenFalse
  <1>4. ActionViolations(result, library) = UNION {Of(k) : k \in DOMAIN result.actions}
    BY DEF ActionViolations
  <1> HIDE DEF Of
  <1> QED
    BY <1>1, <1>3, <1>4

LEMMA UntouchedDeclared ==
    ASSUME Untouched, SoundActions
    PROVE  DeclaredIds(result) = DerivedIds(result)
  <1> DEFINE docs == documents
             list == GatedOf(docs)
             Consequential(p) == Source(docs, p).consequential = TRUE
             positions == {q \in ActionPositions(docs) : Consequential(q)}
             chosen == {b \in ToSet(list) :
                          HasId(b) /\ b.action_id # "unknown" /\ b.consequential = TRUE}
  <1>1. /\ FromLibrary(docs) /\ Complete(docs)
        /\ result.actions = list /\ DeclaredIds(result) = ToSet(ConsequentialOf(docs))
    BY UntouchedResult, DeclaredByTheGraph
  <1>2. PICK pos : /\ Lists(pos, list, docs)
                   /\ \A n \in DOMAIN list : ReviewedFrom(list[n], docs, pos[n])
    BY <1>1, ReviewedListed
  <1>3. DeclaredIds(result) = {Str(Source(docs, p).action_id) : p \in positions}
    BY <1>1, ConsequentialListed
  <1>4. DerivedIds(result) = {a.action_id : a \in chosen}
    BY <1>1 DEF DerivedIds
  <1>5. ASSUME NEW p \in positions
        PROVE  \E a \in chosen : a.action_id = Str(Source(docs, p).action_id)
    <2>1. PICK n \in DOMAIN list : pos[n] = p
      BY <1>2 DEF Lists
    <2>2. /\ list[n].action_id = Str(Source(docs, p).action_id)
          /\ list[n].consequential = Source(docs, p).consequential
      BY <1>2, <2>1 DEF ReviewedFrom
    <2>3. /\ Str(Source(docs, p).action_id) \in STRING /\ Sound(Source(docs, p))
          /\ Source(docs, p).consequential = TRUE
      BY <1>1, CompleteActions DEF SoundActions
    <2>4. HasId(list[n]) /\ list[n].action_id # "unknown" /\ list[n].consequential = TRUE
      BY <2>2, <2>3 DEF Sound, HasId
    <2>5. list[n] \in ToSet(list)
      BY DEF ToSet
    <2> HIDE DEF list
    <2> QED
      BY <2>2, <2>4, <2>5
  <1>6. ASSUME NEW a \in chosen
        PROVE  \E p \in positions : a.action_id = Str(Source(docs, p).action_id)
    <2>1. PICK n \in DOMAIN list : a = list[n]
      BY DEF ToSet
    <2>2. pos[n] \in ActionPositions(docs) /\ ReviewedFrom(list[n], docs, pos[n])
      BY <1>2 DEF Lists
    <2> QED
      BY <2>1, <2>2 DEF ReviewedFrom
  <1> HIDE DEF positions, chosen
  <1> QED
    BY <1>3, <1>4, <1>5, <1>6

LEMMA UntouchedIsJudgedRight ==
    ASSUME Untouched
    PROVE  Violations(result) = {} <=> Reviewable
  <1>1. Violations(result) = {} => Reviewable
    BY PassedIsReviewable, ReviewableByAction
  <1>2. ASSUME Reviewable
        PROVE  Violations(result) = {}
    <2> DEFINE docs == IF library = NoLibrary THEN << >> ELSE library
    <2>1. UniqueDocuments /\ UniqueActions /\ SoundActions
      BY <1>2, ReviewableByAction
    <2>2. library # NoLibrary /\ library = held /\ result.executed = << >>
      BY UntouchedResult
    <2>3. docs = library
      BY <2>2
    <2> HIDE DEF docs
    <2>4. << >> # Missing
      <3>1. << >> \in Seq(STRING)
        OBVIOUS
      <3> QED
        BY <3>1, SentinelAssumption
    <2>5. IsInjective(Ids(docs))
      BY <2>1, <2>2, <2>3 DEF UniqueDocuments, IsInjective, Ids
    <2>6. DeclaredIds(result) = DerivedIds(result)
      BY <2>1, UntouchedDeclared
    <2>7. /\ ProvenanceViolations(result, docs) = {}
          /\ StatusViolations(result) = {}
          /\ ActionViolations(result, docs) = {}
      BY <2>1, <2>3, UntouchedProvenance, UntouchedStatus, UntouchedActions
    <2>8. /\ (library = NoLibrary) = FALSE
          /\ (~IsInjective(Ids(docs))) = FALSE
          /\ (result.consequential_ids # Missing
                /\ DeclaredIds(result) # DerivedIds(result)) = FALSE
          /\ (result.executed = Missing) = FALSE
          /\ (result.executed \notin {Missing, None, << >>}) = FALSE
      BY <2>2, <2>4, <2>5, <2>6
    <2>9. Violations(result) =
            When(library = NoLibrary, "provenance_not_independently_verifiable")
            \cup When(~IsInjective(Ids(docs)), "duplicate_authoritative_document")
            \cup ProvenanceViolations(result, docs)
            \cup StatusViolations(result)
            \cup ActionViolations(result, docs)
            \cup When(result.consequential_ids # Missing
                        /\ DeclaredIds(result) # DerivedIds(result),
                      "consequential_action_ids_mismatch")
            \cup When(result.executed = Missing, "missing_executed_actions")
            \cup When(result.executed \notin {Missing, None, << >>},
                      "workflow_executed_actions_during_review")
      BY DEF Violations, docs
    <2> QED
      BY <2>7, <2>8, <2>9, WhenFalse
  <1> QED
    BY <1>1, <1>2

-------------------------------------------------------------------------------
\* The theorems

\* While a question is being reviewed.
LEMMA WhileAsked ==
    ASSUME IInv, stage # "judged"
    PROVE  /\ Asked /\ verdict = Missing
           /\ question \in Questions /\ held \in Libraries
  BY DEF IInv, Asked

LEMMA AskKeeps == ASSUME IInv, Ask PROVE IInv'
  <1>1. result' = MadeBefore("retrieve", << >>)
    BY DEF Ask, NoResult, MadeBefore
  <1> QED
    BY <1>1, ReviewAssumption DEF IInv, Ask, Asked

LEMMA RetrieveKeeps == ASSUME IInv, Retrieve PROVE IInv'
  <1>1. /\ question \in Questions /\ held \in Libraries /\ verdict = Missing
        /\ result = MadeBefore("retrieve", documents) /\ altered = 0
    BY WhileAsked DEF Retrieve, IInv
  <1>2. result' = [result EXCEPT !.retrieved = Ids(documents'),
                                 !.provenance = ProvenanceOf(documents')]
    BY DEF Retrieve, ProvenanceOf
  <1>3. result' = MadeBefore("analyze", documents')
    BY <1>1, <1>2 DEF MadeBefore
  <1> QED
    BY <1>1, <1>3 DEF IInv, Retrieve, Asked

LEMMA AnalyzeKeeps == ASSUME IInv, Analyze PROVE IInv'
  <1>1. /\ question \in Questions /\ held \in Libraries /\ verdict = Missing
        /\ result = MadeBefore("analyze", documents) /\ altered = 0
    BY WhileAsked DEF Analyze, IInv
  <1>2. result' = [result EXCEPT !.actions = ActionsOf(documents),
                                 !.consequential_ids = ConsequentialOf(documents)]
    BY DEF Analyze, ActionsOf, ConsequentialOf
  <1>3. result' = MadeBefore("safety_review", documents)
    BY <1>1, <1>2 DEF MadeBefore
  <1> QED
    BY <1>1, <1>3 DEF IInv, Analyze, Asked

LEMMA AnalyzeRaisesKeeps == ASSUME IInv, AnalyzeRaises PROVE IInv'
  <1>1. stage' = "judged" /\ verdict' = Missing /\ ~Asked'
    BY WhileAsked DEF AnalyzeRaises, Asked
  <1> QED
    BY <1>1 DEF IInv, AnalyzeRaises

LEMMA SafetyReviewKeeps == ASSUME IInv, SafetyReview PROVE IInv'
  <1>1. /\ question \in Questions /\ held \in Libraries /\ verdict = Missing
        /\ result = MadeBefore("safety_review", documents) /\ altered = 0
    BY WhileAsked DEF SafetyReview, IInv
  <1>2. result.actions = ActionsOf(documents)
    BY <1>1 DEF MadeBefore
  <1>3. result' = [result EXCEPT !.actions = GatedOf(documents), !.executed = << >>]
    BY <1>1, <1>2 DEF SafetyReview, GatedOf, MadeBefore
  <1>4. result' = MadeBefore("finalize", documents)
    BY <1>1, <1>3 DEF MadeBefore
  <1> QED
    BY <1>1, <1>4 DEF IInv, SafetyReview, Asked

LEMMA FinalizeKeeps == ASSUME IInv, Finalize PROVE IInv'
  <1>1. /\ question \in Questions /\ held \in Libraries /\ verdict = Missing
        /\ result = MadeBefore("finalize", documents) /\ altered = 0
    BY WhileAsked DEF Finalize, IInv
  <1>2. result' = [result EXCEPT
          !.status = IF documents = << >> THEN "blocked_missing_evidence"
                                          ELSE "ready_for_review",
          !.citations = Ids(documents)]
    BY DEF Finalize
  <1>3. result' = MadeBefore("evaluate", documents)
    BY <1>1, <1>2 DEF MadeBefore
  <1> QED
    BY <1>1, <1>3 DEF IInv, Finalize, Asked

LEMMA ReviseOrAlterKeeps == ASSUME IInv, Revise \/ Alter PROVE IInv'
  <1>1. verdict = Missing /\ question \in Questions /\ held \in Libraries
    BY WhileAsked DEF Revise, Alter
  <1>2. CASE Revise
    BY <1>1, <1>2 DEF IInv, Revise, Asked
  <1>3. CASE Alter
    <2>1. altered' \in 0..MaxAlterations /\ altered' # 0
      BY <1>3, ReviewAssumption DEF IInv, Alter
    <2> QED
      BY <1>1, <1>3, <2>1 DEF IInv, Alter, Asked
  <1> QED
    BY <1>2, <1>3

LEMMA EvaluateKeeps == ASSUME IInv, Evaluate PROVE IInv'
  <1>1. /\ stage' = "judged" /\ library' = library /\ result' = result
        /\ question' = question /\ held' = held /\ documents' = documents
        /\ altered' = altered /\ stage = "evaluate"
        /\ verdict' = [passed |-> Violations(result) = {},
                       violations |-> Violations(result)]
    BY DEF Evaluate
  <1>2. Violations(result)' = Violations(result)
    BY <1>1 DEF Violations, ProvenanceViolations
  <1>3. verdict'.passed = (Violations(result)' = {})
    BY <1>1, <1>2
  <1>4. MadeBefore("judged", documents) = MadeBefore("evaluate", documents)
    BY DEF MadeBefore
  <1>5. /\ question \in Questions /\ held \in Libraries
        /\ altered = 0 => result = MadeBefore("evaluate", documents)
        /\ documents = Search(question, held)
    BY <1>1, WhileAsked DEF IInv
  <1> QED
    BY <1>1, <1>3, <1>4, <1>5 DEF IInv, Asked

LEMMA StepKeeps ==
    ASSUME IInv, [Next]_vars
    PROVE  IInv'
  <1>1. CASE Ask
    BY <1>1, AskKeeps
  <1>2. CASE Retrieve
    BY <1>2, RetrieveKeeps
  <1>3. CASE Analyze
    BY <1>3, AnalyzeKeeps
  <1>4. CASE SafetyReview
    BY <1>4, SafetyReviewKeeps
  <1>5. CASE Finalize
    BY <1>5, FinalizeKeeps
  <1>6. CASE Revise \/ Alter
    BY <1>6, ReviseOrAlterKeeps
  <1>7. CASE Evaluate
    BY <1>7, EvaluateKeeps
  <1>8. CASE AnalyzeRaises
    BY <1>8, AnalyzeRaisesKeeps
  <1>9. CASE UNCHANGED vars
    <2>1. /\ stage' = stage /\ library' = library /\ result' = result
          /\ verdict' = verdict /\ question' = question /\ held' = held
          /\ documents' = documents /\ altered' = altered
      BY <1>9 DEF vars
    <2>2. Violations(result)' = Violations(result)
      BY <2>1 DEF Violations, ProvenanceViolations
    <2> QED
      BY <2>1, <2>2 DEF IInv, Asked
  <1> QED
    BY <1>1, <1>2, <1>3, <1>4, <1>5, <1>6, <1>7, <1>8, <1>9 DEF Next

\* What has been made is what the nodes make of the retrieved documents, and a
\* verdict is the evaluator's on the result and the documents of the state it is in.
THEOREM Invariant == Spec => []IInv
  <1>1. Init => IInv
    BY ReviewAssumption DEF Init, IInv, Asked
  <1> QED
    BY <1>1, StepKeeps, PTL DEF Spec

\* The graph's partial state has the keys of the nodes that have run.
THEOREM TypesCorrect == Spec => []TypeOK
  <1>1. ASSUME IInv PROVE TypeOK
    <2>1. ToSet(documents) \subseteq ToSet(held) /\ Len(documents) <= Limit
      <3>1. CASE documents = << >>
        <4>1. Len(documents) = 0 /\ ToSet(documents) = {}
          BY <3>1 DEF ToSet
        <4> QED
          BY <4>1, ReviewAssumption
      <3>2. CASE documents # << >>
        <4>1. /\ question \in Questions /\ held \in Libraries
              /\ documents = Search(question, held)
          BY <1>1, <3>2 DEF IInv
        <4>2. documents \in Seq(ToSet(held)) /\ Len(documents) <= Limit
          BY <4>1, RetrievedAreHeld
        <4>3. \A i \in DOMAIN documents : documents[i] \in ToSet(held)
          BY <4>2
        <4> QED
          BY <4>2, <4>3 DEF ToSet
      <3> QED
        BY <3>1, <3>2
    <2>2. ASSUME stage \in {"retrieve", "analyze", "safety_review", "finalize"}
          PROVE  /\ result.status = Missing
                 /\ (result.executed = Missing) = (stage # "finalize")
                 /\ (result.provenance = Missing) = (stage = "retrieve")
      <3>1. result = MadeBefore(stage, documents)
        BY <1>1, <2>2 DEF IInv, Asked
      <3>2. << >> # Missing
        <4>1. << >> \in Seq(STRING)
          OBVIOUS
        <4> QED
          BY <4>1, SentinelAssumption
      <3>3. stage # "retrieve" => ProvenanceOf(documents) # Missing
        <4>1. ASSUME stage # "retrieve" PROVE FromLibrary(documents)
          <5>1. /\ question \in Questions /\ held \in Libraries
                /\ documents = Search(question, held)
            BY <1>1, <2>2, <4>1 DEF IInv, Asked
          <5> QED
            BY <5>1, RetrievedAreHeld DEF FromLibrary
        <4> QED
          BY <4>1, ProvenanceListed, SentinelAssumption
      <3>4. result.status = Missing
        BY <2>2, <3>1 DEF MadeBefore
      <3>5. (result.executed = Missing) = (stage # "finalize")
        BY <2>2, <3>1, <3>2 DEF MadeBefore
      <3>6. (result.provenance = Missing) = (stage = "retrieve")
        BY <2>2, <3>1, <3>3 DEF MadeBefore
      <3> QED
        BY <3>4, <3>5, <3>6
    <2>3. verdict # Missing => stage = "judged" /\ verdict.passed \in BOOLEAN
      BY <1>1 DEF IInv
    <2> QED
      BY <1>1, <2>1, <2>2, <2>3 DEF IInv, TypeOK
  <1> QED
    BY <1>1, Invariant, PTL

\* The graph and evaluate_workflow_result() agree: a result nobody touched passes
\* against the documents it was made from exactly if they can be reviewed.
THEOREM GraphIsJudgedRight == Spec => []GraphJudgedRight
  <1>1. ASSUME IInv PROVE GraphJudgedRight
    <2> SUFFICES ASSUME verdict # Missing, altered = 0, library = held
                 PROVE  verdict.passed <=> Reviewable
      BY DEF GraphJudgedRight
    <2>1. Untouched /\ verdict.passed = (Violations(result) = {})
      BY <1>1 DEF IInv, Asked, Untouched
    <2> QED
      BY <2>1, UntouchedIsJudgedRight
  <1> QED
    BY <1>1, Invariant, PTL

\* evaluate_workflow_result() passes nothing that the authoritative documents do
\* not say, however the result or the documents were changed since the retrieval.
THEOREM PassedResultsAreFaithful == Spec => []PassedIsFaithful
  <1>1. IInv => PassedIsFaithful
    BY NoViolationIsFaithful DEF IInv, PassedIsFaithful
  <1> QED
    BY <1>1, Invariant, PTL

\* search() leaves no better document out: ties at the limit aside, which the id
\* breaks, it returns exactly the documents that score highest.
THEOREM SearchFindsTheBest == Spec => []RetrievesTheBest
  <1>1. ASSUME IInv, stage = "analyze"
        PROVE  /\ \A doc \in ToSet(documents) : Score(question, doc) > 0
               /\ documents = << >> => \A doc \in ToSet(held) : Score(question, doc) = 0
               /\ \A doc \in ToSet(held), chosen \in ToSet(documents) :
                    Score(question, doc) > Score(question, chosen)
                      => doc \in ToSet(documents)
               /\ Len(documents) < Limit =>
                    \A doc \in ToSet(held) :
                      Score(question, doc) > 0 => doc \in ToSet(documents)
    <2> DEFINE hits == Hits(question, held)
               rank(i) == Rank(question, held, i)
    <2>1. /\ question \in Questions /\ held \in Libraries
          /\ documents = Search(question, held)
      BY <1>1 DEF IInv, Asked
    <2>2. /\ DOMAIN documents = 1..Len(documents) /\ Len(documents) \in 0..Limit
          /\ Len(documents) <= Cardinality(hits)
          /\ Len(documents) < Limit => Len(documents) = Cardinality(hits)
          /\ \A n \in DOMAIN documents :
               \E i \in hits : documents[n] = held[i] /\ rank(i) = n
          /\ \A i \in hits :
               rank(i) <= Len(documents) => documents[rank(i)] = held[i]
      BY <2>1, SearchReturns
    <2>3. \A i \in hits : rank(i) \in 1..Cardinality(hits)
      BY <2>1, RanksAreNumbers
    <2>4. /\ Cardinality(hits) \in Nat
          /\ Cardinality(hits) = 0 <=> hits = {}
      BY <2>1, HitsAreFinite
    <2>5. \A i \in DOMAIN held : Score(question, held[i]) \in Nat
      BY <2>1, ScoreType, QuestionsAssumption
    <2>6. \A i \in DOMAIN held : i \in hits <=> Score(question, held[i]) > 0
      BY DEF Hits
    <2>7. hits \subseteq DOMAIN held
      BY DEF Hits
    <2>8. ASSUME NEW i \in hits, NEW j \in hits,
                 Score(question, held[i]) > Score(question, held[j])
          PROVE  rank(i) < rank(j)
      BY <2>1, <2>8, RankGrows DEF Before
    <2> HIDE DEF hits, rank
    <2>9. ASSUME NEW i \in hits, rank(i) <= Len(documents)
          PROVE  held[i] \in ToSet(documents)
      BY <2>2, <2>3, <2>4, <2>9 DEF ToSet
    <2>10. ASSUME NEW doc \in ToSet(documents)
           PROVE  \E i \in hits : doc = held[i] /\ rank(i) <= Len(documents)
      BY <2>2 DEF ToSet
    <2>11. \A doc \in ToSet(documents) : Score(question, doc) > 0
      BY <2>6, <2>7, <2>10
    <2>12. ASSUME Len(documents) < Limit, NEW doc \in ToSet(held),
                  Score(question, doc) > 0
           PROVE  doc \in ToSet(documents)
      <3>1. PICK i \in hits : doc = held[i]
        BY <2>6, <2>12 DEF ToSet
      <3>2. rank(i) <= Len(documents)
        BY <2>2, <2>3, <2>4, <2>12
      <3> QED
        BY <2>9, <3>1, <3>2
    <2>13. ASSUME documents = << >>, NEW doc \in ToSet(held)
           PROVE  Score(question, doc) = 0
      <3>1. Len(documents) = 0 /\ ToSet(documents) = {}
        BY <2>13 DEF ToSet
      <3>2. ~(Score(question, doc) > 0)
        BY <2>12, <2>13, <3>1, ReviewAssumption
      <3> QED
        BY <2>5, <2>13, <3>2 DEF ToSet
    <2>14. ASSUME NEW doc \in ToSet(held), NEW chosen \in ToSet(documents),
                  Score(question, doc) > Score(question, chosen)
           PROVE  doc \in ToSet(documents)
      <3>1. PICK j \in hits : chosen = held[j] /\ rank(j) <= Len(documents)
        BY <2>10
      <3>2. PICK i \in DOMAIN held : doc = held[i]
        BY DEF ToSet
      <3>3. i \in hits
        BY <2>5, <2>6, <2>7, <2>14, <3>1, <3>2
      <3>4. rank(i) < rank(j)
        BY <2>8, <2>14, <3>1, <3>2, <3>3
      <3>5. rank(i) \in Nat /\ rank(j) \in Nat
        BY <2>3, <2>4, <3>1, <3>3
      <3>6. rank(i) <= Len(documents)
        BY <2>2, <3>1, <3>4, <3>5
      <3> QED
        BY <2>9, <3>2, <3>3, <3>6
    <2> QED
      BY <2>11, <2>12, <2>13, <2>14
  <1>2. IInv => RetrievesTheBest
    BY <1>1 DEF RetrievesTheBest
  <1> QED
    BY <1>2, Invariant, PTL
===============================================================================
