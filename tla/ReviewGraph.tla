------------------------------ MODULE ReviewGraph ------------------------------
(***************************************************************************)
(* The read-only review of an incident (agent_workflow/): the keyword      *)
(* retriever, the four nodes of the graph, and the evaluator, which checks *)
(* a result against the authoritative documents.  Between the retrieval    *)
(* and the evaluation the documents may be revised, and the result handed  *)
(* to the evaluator may have been altered: telling those apart from a      *)
(* faithful result is what the evaluator is for.                           *)
(*                                                                         *)
(* A text is its set of terms.  A digest stands for the tuple of fields it *)
(* is computed from.  Document ids are numbers, ordered like the strings   *)
(* they stand for.  Action ids and descriptions are any values: the graph   *)
(* and the digests print them, str(), and a string is printed as itself.    *)
(***************************************************************************)
EXTENDS Naturals, Sequences, FiniteSets, SequencesExt

CONSTANTS
    Libraries,      \* versions of the runbook documents, each a sequence
    Questions,      \* sets of terms
    DocumentIds,    \* ids that appear in results
    Descriptions,
    Limit,          \* documents retrieved at most: search()'s default, 3
    MaxAlterations, \* bound: changes made to a result
    NotABool,       \* a value of another type where a bool belongs
    Malformed,      \* a string that is not a digest
    Missing,        \* an absent key
    None,           \* null, and what .get() returns for an absent key
    Printed,        \* str() of the values that are not strings
    NoLibrary       \* no authoritative documents are given

ASSUME ReviewAssumption == Limit \in Nat \ {0} /\ MaxAlterations \in Nat
ASSUME QuestionsAssumption == \A query \in Questions : IsFiniteSet(query)
ASSUME PrintedAssumption ==
    /\ None \in DOMAIN Printed
    /\ \A value \in DOMAIN Printed : value \notin STRING /\ Printed[value] \in STRING
ASSUME LibrariesAssumption ==
    \A docs \in Libraries :
      /\ docs \in Seq(ToSet(docs))
      /\ \A doc \in ToSet(docs) :
           /\ doc.id \in Nat
           /\ doc.actions \in Seq(ToSet(doc.actions))
           /\ \A action \in ToSet(doc.actions) :
                {action.action_id, action.description}
                  \subseteq STRING \cup DOMAIN Printed \cup {Missing}

VARIABLES
    stage,       \* the node that runs next, or "evaluate", "judged"
    question,
    held,        \* the retriever's documents
    library,     \* the documents the evaluator will be given
    documents,   \* retrieved_documents
    result,      \* the rest of the graph's state, as far as it is evaluated
    altered,     \* changes made to the result
    verdict      \* what the evaluator returned

vars == <<stage, question, held, library, documents, result, altered, verdict>>

NoResult ==
    [retrieved |-> << >>, provenance |-> Missing, actions |-> << >>,
     consequential_ids |-> Missing, executed |-> Missing, citations |-> << >>,
     status |-> Missing]

Init ==
    /\ stage = "judged"
    /\ question = {}
    /\ held = << >>
    /\ library = NoLibrary
    /\ documents = << >>
    /\ result = NoResult
    /\ altered = 0
    /\ verdict = Missing

-------------------------------------------------------------------------------
\* The retriever

Score(query, document) == Cardinality(query \cap document.terms)

\* Mutant of Before: documents are ranked by id alone.
BeforeById(query, docs, i, j) ==
    \/ docs[i].id < docs[j].id
    \/ docs[i].id = docs[j].id /\ i < j

\* The stable sort by (-score, id).
Before(query, docs, i, j) ==
    LET s == Score(query, docs[i])
        t == Score(query, docs[j]) IN
    \/ s > t
    \/ s = t /\ docs[i].id < docs[j].id
    \/ s = t /\ docs[i].id = docs[j].id /\ i < j

Hits(query, docs) == {i \in DOMAIN docs : Score(query, docs[i]) > 0}
Rank(query, docs, i) ==
    Cardinality({j \in Hits(query, docs) : Before(query, docs, j, i)}) + 1

Search(query, docs) ==
    LET found == Cardinality(Hits(query, docs)) IN
    [n \in 1..(IF found < Limit THEN found ELSE Limit) |->
       docs[CHOOSE i \in Hits(query, docs) : Rank(query, docs, i) = n]]

-------------------------------------------------------------------------------
\* The graph

\* str(value) and action.get(key).
Str(value) == IF value \in STRING THEN value ELSE Printed[value]
Got(value) == IF value = Missing THEN None ELSE value

\* Mutant of Digest: the fields are hashed as they are, not as they are printed.
DigestRaw(id, action) ==
    <<id, action.action_id, action.description, action.consequential>>

Digest(id, action) ==
    <<id, Str(Got(action.action_id)), Str(Got(action.description)),
      Got(action.consequential)>>

LibraryDigests ==
    UNION {UNION {{Digest(doc.id, action) : action \in ToSet(doc.actions)} :
                    doc \in ToSet(docs)} : docs \in Libraries}

\* What stands for an absent or a malformed value is no value.
ASSUME SentinelAssumption ==
    /\ Missing \notin {None} \cup DOMAIN Printed
    /\ \A absent \in {Missing, None} :
         absent \notin STRING \cup BOOLEAN \cup Seq(STRING) \cup Seq(LibraryDigests)
    /\ Malformed \notin LibraryDigests
    /\ NoLibrary \notin Libraries

\* [Op(document, action) : document in docs, action in its actions], flattened.
ForEachAction(docs, Op(_, _)) ==
    FlattenSeq([i \in DOMAIN docs |->
      [j \in DOMAIN docs[i].actions |-> Op(docs[i], docs[i].actions[j])]])

Ids(docs) == [i \in DOMAIN docs |-> docs[i].id]

\* A retriever is built and the graph invoked, with any question.
Ask ==
    /\ stage = "judged"
    /\ question' \in Questions
    /\ held' \in Libraries
    /\ library' \in {held', NoLibrary}
    /\ stage' = "retrieve"
    /\ documents' = << >>
    /\ result' = NoResult
    /\ altered' = 0
    /\ verdict' = Missing

Retrieve ==
    /\ stage = "retrieve"
    /\ documents' = Search(question, held)
    /\ result' = [result EXCEPT
         !.retrieved = Ids(documents'),
         !.provenance = ForEachAction(documents',
                          LAMBDA doc, action : Digest(doc.id, action))]
    /\ stage' = "analyze"
    /\ UNCHANGED <<question, held, library, altered, verdict>>

Analyzed(doc, action) ==
    [action_id |-> Str(action.action_id), description |-> Str(action.description),
     citation_id |-> doc.id, consequential |-> action.consequential,
     approval_required |-> FALSE]

IfConsequential(doc, action) ==
    IF action.consequential = TRUE THEN <<Str(action.action_id)>> ELSE << >>

\* The keys that the node reads of every action are there.
HasKeys(action) ==
    Missing \notin {action.action_id, action.description, action.consequential}
Complete(docs) == \A doc \in ToSet(docs) : \A action \in ToSet(doc.actions) : HasKeys(action)

Analyze ==
    /\ stage = "analyze"
    /\ Complete(documents)
    /\ result' = [result EXCEPT
         !.actions = ForEachAction(documents, Analyzed),
         !.consequential_ids = FlattenSeq(ForEachAction(documents, IfConsequential))]
    /\ stage' = "safety_review"
    /\ UNCHANGED <<question, held, library, documents, altered, verdict>>

\* A KeyError ends the run, and there is no result to evaluate.
AnalyzeRaises ==
    /\ stage = "analyze"
    /\ ~Complete(documents)
    /\ stage' = "judged"
    /\ UNCHANGED <<question, held, library, documents, result, altered, verdict>>

Gated(action) ==
    [action EXCEPT !.approval_required = action.consequential = TRUE]

\* Mutant of SafetyReview: the list of executed actions is not written.
SafetyReviewSilent ==
    /\ stage = "safety_review"
    /\ result' = [result EXCEPT !.actions = [i \in DOMAIN @ |-> Gated(@[i])]]
    /\ stage' = "finalize"
    /\ UNCHANGED <<question, held, library, documents, altered, verdict>>

SafetyReview ==
    /\ stage = "safety_review"
    /\ result' = [result EXCEPT
         !.actions = [i \in DOMAIN @ |-> Gated(@[i])],
         !.executed = << >>]
    /\ stage' = "finalize"
    /\ UNCHANGED <<question, held, library, documents, altered, verdict>>

Finalize ==
    /\ stage = "finalize"
    /\ result' = [result EXCEPT
         !.status = IF documents = << >> THEN "blocked_missing_evidence"
                                         ELSE "ready_for_review",
         !.citations = Ids(documents)]
    /\ stage' = "evaluate"
    /\ UNCHANGED <<question, held, library, documents, altered, verdict>>

-------------------------------------------------------------------------------
\* What may happen before the evaluation

\* The authoritative documents are replaced by another version.
Revise ==
    /\ stage \notin {"retrieve", "judged"}
    /\ library = held
    /\ library' \in Libraries \ {held}
    /\ UNCHANGED <<stage, question, held, documents, result, altered, verdict>>

\* A list without one of its members, or with another one.
Edited(list, extra) ==
    {RemoveAt(list, i) : i \in DOMAIN list}
      \cup {Append(list, x) : x \in extra \cup ToSet(list)}

AlteredAction(a, i) ==
    {[a EXCEPT ![i].action_id = x] :
       x \in {"", Missing} \cup DOMAIN Printed \cup {a[j].action_id : j \in DOMAIN a}}
    \cup {[a EXCEPT ![i].description = x] : x \in Descriptions}
    \cup {[a EXCEPT ![i].citation_id = x] : x \in DocumentIds}
    \cup {[a EXCEPT ![i].consequential = x] : x \in BOOLEAN \cup {NotABool, Missing}}
    \cup {[a EXCEPT ![i].approval_required = x] : x \in BOOLEAN \cup {Missing}}

AlteredResults ==
    {[result EXCEPT !.status = s] :
       s \in {"ready_for_review", "blocked_missing_evidence", "unheard_of"}}
    \cup {[result EXCEPT !.retrieved = x] :
            x \in Edited(result.retrieved, DocumentIds)}
    \cup {[result EXCEPT !.citations = x] :
            x \in Edited(result.citations, DocumentIds)}
    \cup {[result EXCEPT !.provenance = x] :
            x \in {Missing} \cup (IF result.provenance = Missing THEN {} ELSE
                                  Edited(result.provenance, {Malformed}))}
    \cup {[result EXCEPT !.actions = x] :
            x \in Edited(result.actions, {})
                    \cup UNION {AlteredAction(result.actions, i) :
                                  i \in DOMAIN result.actions}}
    \cup {[result EXCEPT !.consequential_ids = x] :
            x \in {Missing, None, << >>} \cup {<<id>> : id \in DOMAIN Printed}}
    \cup {[result EXCEPT !.executed = x] : x \in {Missing, None, <<"restart">>}}

Alter ==
    /\ stage = "evaluate"
    /\ altered < MaxAlterations
    /\ altered' = altered + 1
    /\ result' \in AlteredResults \ {result}
    /\ UNCHANGED <<stage, question, held, library, documents, verdict>>

-------------------------------------------------------------------------------
\* The evaluator

EmittedStatuses == {"ready_for_review", "blocked_missing_evidence"}

When(condition, violation) == IF condition THEN {violation} ELSE {}

\* The digests of the first document with this id.
DigestsOf(docs, id) ==
    LET same == {i \in DOMAIN docs : docs[i].id = id} IN
    IF same = {} THEN {} ELSE
      LET first == CHOOSE i \in same : \A j \in same : i <= j IN
      {Digest(id, action) : action \in ToSet(docs[first].actions)}

AuthoritativeIds(docs) == ToSet(Ids(docs))

ProvenanceViolations(r, docs) ==
    LET listed == IF r.provenance = Missing THEN << >> ELSE r.provenance
        given == ToSet(listed) \ {Malformed}
        expected == UNION {DigestsOf(docs, id) : id \in ToSet(r.retrieved)}
    IN  When(r.provenance = Missing, "missing_retrieved_action_provenance")
        \cup When(Malformed \in ToSet(listed),
                  "malformed_retrieved_action_provenance")
        \cup When(\E i, j \in DOMAIN listed :
                    i # j /\ listed[i] = listed[j] /\ listed[i] # Malformed,
                  "duplicate_action_provenance")
        \cup When(library # NoLibrary
                    /\ ~ ToSet(r.retrieved) \subseteq AuthoritativeIds(docs),
                  "retrieved_document_not_authoritative")
        \cup When(library # NoLibrary /\ given # expected,
                  "retrieved_action_provenance_not_authoritative")

StatusViolations(r) ==
    LET retrieved == ToSet(r.retrieved)
        citations == ToSet(r.citations)
        blocked == r.status = "blocked_missing_evidence"
    IN  When(r.status \notin EmittedStatuses, "unknown_status")
        \cup When(r.status = "ready_for_review" /\ retrieved = {},
                  "ready_for_review_missing_evidence")
        \cup When(r.status = "ready_for_review" /\ retrieved # {}
                    /\ ~ retrieved \subseteq citations,
                  "ready_for_review_citations_inconsistent")
        \cup When(blocked /\ retrieved # {}, "blocked_status_with_evidence")
        \cup When(blocked /\ citations # {}, "blocked_status_with_citations")
        \cup When(blocked /\ r.actions # << >>, "blocked_status_with_actions")
        \cup When(~ citations \subseteq retrieved, "citation_not_retrieved")

\* The empty string stands for the blank ones.
HasId(action) == action.action_id \in STRING /\ action.action_id # ""

Grounded(r, docs, action) ==
    /\ action.citation_id \in ToSet(r.retrieved)
    /\ Digest(action.citation_id, action) \in DigestsOf(docs, action.citation_id)

\* Mutant of ActionViolations: the source's word on an action is not asked for.
ActionViolationsUngrounded(r, docs) ==
    UNION {LET a == r.actions[i] IN
           When(~HasId(a), "missing_action_id")
           \cup When(a.consequential = TRUE /\ a.approval_required # TRUE,
                     "consequential_action_not_gated")
           : i \in DOMAIN r.actions}

ActionViolations(r, docs) ==
    UNION {LET a == r.actions[i] IN
           When(~HasId(a), "missing_action_id")
           \cup When(HasId(a) /\ \E j \in DOMAIN r.actions \ {i} :
                                   r.actions[j].action_id = a.action_id,
                     "duplicate_action_id")
           \cup When(~Grounded(r, docs, a), "action_not_grounded")
           \cup When(a.consequential \notin BOOLEAN,
                     "action_missing_authoritative_consequential")
           \cup When(a.approval_required \notin BOOLEAN,
                     "action_missing_approval_required")
           \cup When(a.consequential = FALSE /\ a.approval_required = TRUE,
                     "non_consequential_action_silently_promoted")
           \cup When(a.consequential = TRUE /\ a.approval_required # TRUE,
                     "consequential_action_not_gated")
           : i \in DOMAIN r.actions}

\* "unknown" is also what the evaluator calls an action without an id.
DerivedIds(r) ==
    {a.action_id : a \in {b \in ToSet(r.actions) :
       HasId(b) /\ b.action_id # "unknown" /\ b.consequential = TRUE}}

DeclaredIds(r) ==
    IF r.consequential_ids = None THEN {} ELSE {Str(id) : id \in ToSet(r.consequential_ids)}

Violations(r) ==
    LET docs == IF library = NoLibrary THEN << >> ELSE library IN
    When(library = NoLibrary, "provenance_not_independently_verifiable")
    \cup When(~IsInjective(Ids(docs)), "duplicate_authoritative_document")
    \cup ProvenanceViolations(r, docs)
    \cup StatusViolations(r)
    \cup ActionViolations(r, docs)
    \cup When(r.consequential_ids # Missing
                /\ DeclaredIds(r) # DerivedIds(r),
              "consequential_action_ids_mismatch")
    \cup When(r.executed = Missing, "missing_executed_actions")
    \cup When(r.executed \notin {Missing, None, << >>},
              "workflow_executed_actions_during_review")

Evaluate ==
    /\ stage = "evaluate"
    /\ verdict' = [passed |-> Violations(result) = {},
                   violations |-> Violations(result)]
    /\ stage' = "judged"
    /\ UNCHANGED <<question, held, library, documents, result, altered>>

Next ==
    \/ Ask \/ Retrieve \/ Analyze \/ AnalyzeRaises \/ SafetyReview \/ Finalize
    \/ Revise \/ Alter \/ Evaluate

Spec == Init /\ [][Next]_vars

-------------------------------------------------------------------------------
\* Properties

\* The type invariant: the graph's partial state has the keys of the nodes that
\* have run, and an unaltered one has no others.
TypeOK ==
    /\ stage \in {"retrieve", "analyze", "safety_review", "finalize",
                  "evaluate", "judged"}
    /\ question \in Questions \cup {{}}
    /\ held \in Libraries \cup {<< >>}
    /\ library \in Libraries \cup {NoLibrary}
    /\ ToSet(documents) \subseteq ToSet(held)
    /\ Len(documents) <= Limit
    /\ altered \in 0..MaxAlterations
    /\ stage \in {"retrieve", "analyze", "safety_review", "finalize"} =>
         /\ result.status = Missing
         /\ (result.executed = Missing) = (stage # "finalize")
         /\ (result.provenance = Missing) = (stage = "retrieve")
    /\ verdict # Missing => stage = "judged" /\ verdict.passed \in BOOLEAN

\* The actions of a document, and what its data say of one after a review: texts
\* are compared as they are printed.
SourceActions(id) ==
    UNION {ToSet(library[i].actions) : i \in {j \in DOMAIN library : library[j].id = id}}
ReviewOf(a, source) ==
    /\ a.action_id = Str(Got(source.action_id))
    /\ Str(Got(a.description)) = Str(Got(source.description))
    /\ a.consequential = source.consequential
    /\ a.approval_required = source.consequential

GatedIds ==
    {a.action_id : a \in {b \in ToSet(result.actions) : b.approval_required}}

\* A result that passes may be relied on, whatever was done to it or to the
\* documents since the retrieval: each action is the reviewed form of an action
\* of a retrieved document as that document is now, with its fields as they are
\* printed, so that none that the document calls consequential is ungated; no
\* action id is used twice; the consequential actions, if declared, are these, but
\* for one that is called "unknown", which DerivedIds leaves out; the citations are
\* the retrieved documents, there are some exactly if the review is ready, and
\* nothing was executed.  A result that leaves actions out may pass.
PassedIsFaithful ==
    verdict # Missing /\ verdict.passed =>
      LET cited == ToSet(result.citations) IN
      /\ library # NoLibrary
      /\ cited = ToSet(result.retrieved)
      /\ cited \subseteq {library[i].id : i \in DOMAIN library}
      /\ result.status = IF cited = {} THEN "blocked_missing_evidence"
                                       ELSE "ready_for_review"
      /\ \A i \in DOMAIN result.actions :
           LET a == result.actions[i] IN
           /\ a.citation_id \in cited
           /\ \E source \in SourceActions(a.citation_id) : ReviewOf(a, source)
           /\ \A j \in DOMAIN result.actions :
                result.actions[j].action_id = a.action_id => i = j
      /\ result.consequential_ids # Missing =>
           DeclaredIds(result) = GatedIds \ {"unknown"}
      /\ ToSet(result.provenance)
           = UNION {{Digest(id, s) : s \in SourceActions(id)} : id \in cited}
      /\ result.executed \in {None, << >>}

\* The documents a question retrieves can be reviewed: no id names two documents
\* of the library or, as it is printed, two retrieved actions, each action has an
\* id, other than the evaluator's own "unknown" if it is consequential, and says
\* whether it is.
Reviewable ==
    LET actions == ForEachAction(documents, LAMBDA doc, action : action) IN
    /\ \A i, j \in DOMAIN held : held[i].id = held[j].id => i = j
    /\ \A i, j \in DOMAIN actions :
         Str(actions[i].action_id) = Str(actions[j].action_id) => i = j
    /\ \A i \in DOMAIN actions :
         /\ Str(actions[i].action_id) # ""
         /\ actions[i].consequential \in BOOLEAN
         /\ Str(actions[i].action_id) = "unknown" => actions[i].consequential = FALSE

\* The graph and its evaluator agree: a result nobody touched passes against the
\* documents it was made from exactly if they can be reviewed, also when nothing
\* was retrieved, two retrieved documents share an action id, or an action id or
\* a description is not a string (test_agent_workflow.py:561-589).
GraphJudgedRight ==
    verdict # Missing /\ altered = 0 /\ library = held =>
      (verdict.passed <=> Reviewable)

\* No better document is left out: what is retrieved has a term of the question,
\* there is something as soon as one document has one, and a document with a
\* higher score than a retrieved one is retrieved too.
RetrievesTheBest ==
    stage = "analyze" =>
      /\ \A doc \in ToSet(documents) : Score(question, doc) > 0
      /\ documents = << >> => \A doc \in ToSet(held) : Score(question, doc) = 0
      /\ \A doc \in ToSet(held), chosen \in ToSet(documents) :
           Score(question, doc) > Score(question, chosen) => doc \in ToSet(documents)
      /\ Len(documents) < Limit =>
           \A doc \in ToSet(held) : Score(question, doc) > 0 => doc \in ToSet(documents)
===============================================================================
