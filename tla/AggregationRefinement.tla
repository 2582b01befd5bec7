------------------------ MODULE AggregationRefinement ------------------------
(***************************************************************************)
(* Stages lets Stages 3 and 4 make any group that Aggregate allows; what   *)
(* they make of a ledger is searched for in Aggregation.  To Stages the    *)
(* groups of both are of one kind, their margin is left at its maximum,    *)
(* and the policy of a group follows from the stage that proposed it.  The *)
(* inputs and similarities of Stages have no part in Aggregate.            *)
(***************************************************************************)
EXTENDS Aggregation

SeenByStages(g) ==
    LET aggregate == g.proposed_by \in {"STAGE3_AGGREGATE", "STAGE4_ADJUSTMENT"}
    IN [members |-> g.members,
        proposed_by |-> IF aggregate THEN "STAGE3_AGGREGATE" ELSE g.proposed_by,
        commit_policy |-> IF g.proposed_by = "STAGE1_EXACT" THEN "AUTO_COMMIT_STAGE1"
                          ELSE "AUTO_COMMIT_STAGE2_5_THRESHOLD",
        score_margin |-> IF aggregate THEN 1000 ELSE g.score_margin]
Seen == {SeenByStages(g) : g \in groups}

Pipeline == INSTANCE Stages WITH
    groups                 <- Seen,
    pass                   <- "STAGES3_4",
    seekers                <- {},
    Inputs                 <- {},
    CounterpartySimilarity <- <<>>,
    IdentifierSimilarity   <- <<>>

\* Every group Stages 3 and 4 make is one that the pipeline's model allows for:
\* open groups and unclaimed gateway records and bank credits, with both sides
\* and in one currency.  What holds of the pipeline with Aggregate in the place
\* of these stages holds of it with their searches.
ImplementsAggregate == [][Pipeline!Aggregate]_<<records, Seen, matched>>
=============================================================================
