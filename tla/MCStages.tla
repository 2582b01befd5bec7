------------------------------ MODULE MCStages ------------------------------
(* Small ledgers for Stages: two payments (1, 3), the settlement of the     *)
(* first (2), a second settlement or a refund (4) and two bank legs (5, 6). *)
(* References "A" and "A1", "B" and "B1" are one misprint apart.            *)
EXTENDS Stages, TLC

Rec(id, source, entity_type, day, amount, reference, counterparty) ==
    id :> [id |-> id, source |-> source, entity_type |-> entity_type, currency |-> "INR",
           day |-> day, amount |-> amount, reference |-> reference,
           counterparty |-> counterparty]

InDollars(rec) == [r \in DOMAIN rec |-> [rec[r] EXCEPT !.currency = "USD"]]

Settlement4(reference, counterparty) ==
    Rec(4, "GATEWAY", "GATEWAY_SETTLEMENT", 2, 19600, reference, counterparty)

Fourth == {Settlement4("B", "acme ltd"), Settlement4("B1", "zeta"), Settlement4("A", "acme"),
           InDollars(Settlement4("B", "acme ltd")),
           Rec(4, "GATEWAY", "REFUND", 2, -5000, "A", "acme")}
Fifth == {Rec(5, "BANK", "BANK_CREDIT", 3, amount, reference, counterparty) :
              amount \in {9000, 19500}, reference \in {"A", "B1", "X"},
              counterparty \in {"acme", "razor"}}
Sixth == {Rec(6, "BANK", "BANK_CREDIT", 7, 19620, "B", "acme ltd"),
          Rec(6, "BANK", "BANK_CREDIT", 3, 19620, "Y", "razor"),
          Rec(6, "BANK", "REFUND", 4, -5000, "A", "acme")}

MCInputs ==
    {Rec(1, "LEDGER", "PAYMENT", 1, 20000, "A", "acme")
     @@ Rec(2, "GATEWAY", "GATEWAY_SETTLEMENT", 2, amount, reference, "acme")
     @@ Rec(3, "LEDGER", entity_type, 1, 20100, "B", "acme ltd")
     @@ fourth @@ fifth @@ sixth :
        amount \in {9000, 19500}, reference \in {"A", "A1", "B"},
        entity_type \in {"PAYMENT", "LEDGER_ENTRY"},
        fourth \in Fourth, fifth \in Fifth, sixth \in Sixth}

Alike(a, b) == {a, b} \in {{"A", "A1"}, {"B", "B1"}, {"acme", "acme ltd"}}
Similarity(names) ==
    [a \in names |-> [b \in names |-> CASE a = b -> 1000
                                        [] Alike(a, b) -> 800
                                        [] OTHER -> 300]]
MCIdentifierSimilarity == Similarity({"A", "A1", "B", "B1", "X", "Y"})
MCCounterpartySimilarity == Similarity({"acme", "acme ltd", "zeta", "razor"})
=============================================================================
