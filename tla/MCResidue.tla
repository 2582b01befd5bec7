------------------------------ MODULE MCResidue ------------------------------
EXTENDS Residue

MCSource == [r \in Records |-> CASE r = 2 -> "LEDGER"
                                 [] r \in {1, 3, 6} -> "GATEWAY"
                                 [] OTHER -> "BANK"]
MCEntityType == [r \in Records |-> CASE MCSource[r] = "LEDGER" -> "PAYMENT"
                                     [] MCSource[r] = "GATEWAY" -> "GATEWAY_SETTLEMENT"
                                     [] OTHER -> "BANK_CREDIT"]
MCRefunds == [r \in Records |-> "REFUND"]
\* The id of 3 is a part of the id of 5, and 4's of some amount or date.
MCInside == [r \in Records |-> IF r = 5 THEN {3, 5} ELSE {r}]
MCApart == [r \in Records |-> {r}]
MCCurrency == [r \in Records |-> IF r = 5 THEN "USD" ELSE "INR"]
=============================================================================
