---------------------------- MODULE MCAggregation ----------------------------
(* Small ledgers for Aggregation: one payment (1) with its settlement (2),  *)
(* two more gateway records (3, 4) and two bank credits (5, 6); and one day *)
(* with a settlement too many (7) for an exact search.                      *)
EXTENDS AggregationRefinement, TLC

Rec(id, source, entity_type, currency, day, amount, reference) ==
    id :> [id |-> id, source |-> source, entity_type |-> entity_type, currency |-> currency,
           day |-> day, amount |-> amount, reference |-> reference]

Base == Rec(1, "LEDGER", "PAYMENT", "INR", 1, 103000, "A")
        @@ Rec(2, "GATEWAY", "GATEWAY_SETTLEMENT", "INR", 1, 100000, "A")
        @@ Rec(3, "GATEWAY", "GATEWAY_SETTLEMENT", "INR", 2, 60000, "B")

Fourth == {Rec(4, "GATEWAY", "GATEWAY_SETTLEMENT", "INR", 2, 60000, "B"),
           Rec(4, "GATEWAY", "GATEWAY_SETTLEMENT", "INR", 2, 60030, "C"),
           Rec(4, "GATEWAY", "FEE", "INR", 1, -3000, "A"),
           Rec(4, "GATEWAY", "REFUND", "INR", 2, -40000, "D")}

Credits == {Rec(5, "BANK", "BANK_CREDIT", "INR", 3, a, "X")
            @@ Rec(6, "BANK", "BANK_CREDIT", c, 12, b, "Y") :
                a \in {60000, 97000, 100000, 120000}, b \in {60000, 100020, 160000},
                c \in {"INR", "USD"}}

Prior(members, matched_amount, proposed_by, score_margin) ==
    [members |-> members, matched_amount |-> matched_amount,
     proposed_by |-> proposed_by, score_margin |-> score_margin]
Pair(proposed_by, score_margin) == Prior({1, 2}, 100000, proposed_by, score_margin)

\* A payment with its settlement and its fee, the two without the payment, a
\* settlement of one rupee, and a refund both sides agree on.
Priors ==
    LET fee == Rec(4, "GATEWAY", "FEE", "INR", 1, -3000, "A")
        third == Rec(3, "GATEWAY", "GATEWAY_SETTLEMENT", "INR", 2, 60000, "B")
    IN {[records |-> Base @@ fee, groups |-> {Prior({1, 2, 4}, 100000, "STAGE1_EXACT", 0)}],
        [records |-> Base @@ fee, groups |-> {Prior({2, 4}, 100000, "STAGE1_EXACT", 0)}],
        [records |-> Rec(1, "LEDGER", "PAYMENT", "INR", 1, 102, "A")
                     @@ Rec(2, "GATEWAY", "GATEWAY_SETTLEMENT", "INR", 1, 100, "A") @@ third,
         groups |-> {Prior({1, 2}, 100, "STAGE2_CONSTRAINED", 200)}],
        [records |-> Rec(1, "LEDGER", "REFUND", "INR", 1, -40000, "A")
                     @@ Rec(2, "GATEWAY", "REFUND", "INR", 1, -40000, "A") @@ third,
         groups |-> {Prior({1, 2}, 40000, "STAGE2_CONSTRAINED", 200)}]}

MCInputs ==
    {[records |-> Base @@ four @@ credits, groups |-> prior] :
        four \in Fourth, credits \in Credits,
        prior \in {{}, {Pair("STAGE1_EXACT", 0)}, {Pair("STAGE2_CONSTRAINED", 200)}}}
    \cup
    {[records |-> Base @@ four @@ credits
                  @@ Rec(7, "GATEWAY", "GATEWAY_SETTLEMENT", "INR", 2, 20000, "E"),
      groups |-> {}] : four \in Fourth, credits \in Credits}
    \cup
    {[records |-> prior.records @@ credits, groups |-> prior.groups] :
        prior \in Priors, credits \in Credits}
=============================================================================
