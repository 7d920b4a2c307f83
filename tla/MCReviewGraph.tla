----------------------------- MODULE MCReviewGraph -----------------------------
\* Instances of ReviewGraph for TLC.
EXTENDS ReviewGraph

Action(id, description, consequential) ==
    [action_id |-> id, description |-> description, consequential |-> consequential]
Document(id, terms, actions) == [id |-> id, terms |-> terms, actions |-> actions]

Check   == Action("check", "look", FALSE)
Scale   == Action("scale", "grow", TRUE)
Issuer  == Action("issuer", "look", FALSE)

Payments == Document(1, {"gateway", "rate"}, <<Check, Scale>>)
Identity == Document(2, {"token", "rate"}, <<Issuer>>)
Empty    == Document(3, {"gateway", "token"}, << >>)
\* Payments as revised: scaling is no longer consequential.
Relaxed  == Document(1, {"gateway", "rate"}, <<Check, [Scale EXCEPT !.consequential = FALSE]>>)
\* Documents that cannot be reviewed.
Clash    == Document(2, {"token", "rate"}, <<Check>>)
Nameless == Document(2, {"token"}, <<Action("", "look", FALSE)>>)
Unsure   == Document(2, {"token"}, <<Action("issuer", "look", NotABool)>>)
Unknown  == Document(2, {"token"}, <<Action("unknown", "grow", TRUE)>>)

\* Documents with ids and descriptions that are not strings.
CONSTANT Number42
Numeric  == Document(2, {"token", "rate"}, <<Action(Number42, Number42, TRUE)>>)
AsText   == Document(2, {"token", "rate"}, <<Action("42", "42", TRUE)>>)
Both     == Document(2, {"token"}, <<Action(Number42, "look", FALSE),
                                      Action("42", "look", FALSE)>>)
Nulls    == Document(2, {"token"}, <<Action(None, None, FALSE)>>)
Lacking  == Document(2, {"token"}, <<Action(None, Missing, FALSE)>>)

PrintedValues ==
    [value \in {None, Number42} |-> IF value = None THEN "None" ELSE "42"]

AllLibraries ==
    {<<Payments, Identity, Empty>>, <<Relaxed, Identity>>, <<Payments, Clash>>,
     <<Payments, Relaxed>>, <<Nameless>>, <<Unsure>>, <<Unknown>>,
     <<Numeric>>, <<AsText>>, <<Both>>, <<Nulls>>, <<Lacking>>}

AllQuestions ==
    {{"robot"}, {"token"}, {"gateway", "token"}, {"gateway", "token", "rate"}}
===============================================================================
