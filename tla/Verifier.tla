------------------------------ MODULE Verifier ------------------------------
(***************************************************************************)
(* verification/verifier.py: the independent check of one match group, and *)
(* the arithmetic of matching/common.py it shares with Stages 3 and 4.     *)
(*                                                                         *)
(* A member is a row [id, source, entity_type, currency, day, amount] with *)
(* the amount in paise, signed.  Scores and margins are in thousandths,    *)
(* the residual fraction in ten thousandths.  A group's members are a set: *)
(* the only order the code looks at is which member comes first, here the  *)
(* one with the lowest id.                                                 *)
(***************************************************************************)
EXTENDS Integers, FiniteSets, FiniteSetsExt, Functions

CONSTANTS
    MinScoreMargin,     \* Settings.default_min_score_margin, in thousandths
    ResidualTolerance   \* Settings.stage1_residual_tolerance_fraction

ASSUME VerifierAssumption == MinScoreMargin \in Nat /\ ResidualTolerance \in Nat

Source == {"LEDGER", "GATEWAY", "BANK"}

\* ENTITY_TO_ROLE: the role a record plays in the conservation equation.
Role(m) ==
    CASE m.entity_type \in {"PAYMENT", "GATEWAY_SETTLEMENT", "LEDGER_ENTRY"} -> "GROSS"
      [] m.entity_type = "BANK_CREDIT" -> "CREDIT"
      [] OTHER -> m.entity_type

OutflowRoles == {"FEE", "TAX", "REFUND", "CHARGEBACK", "REVERSAL"}
BreakoutRoles == {"FEE", "TAX", "ADJUSTMENT"}
GrossGatewayEntityTypes == {"GATEWAY_SETTLEMENT", "REFUND", "CHARGEBACK", "REVERSAL"}
DatePolicyWindow == 14

Abs(n) == IF n < 0 THEN -n ELSE n
TotalAmount(rows) == SumFunction([m \in rows |-> m.amount])
First(rows) == CHOOSE m \in rows : \A n \in rows : m.id <= n.id

OneCurrency(rows) == \A m, n \in rows : m.currency = n.currency
SlotsUnique(rows) ==
    \A m, n \in rows :
        m.source = n.source /\ m.entity_type = n.entity_type => m = n
WithinDatePolicy(rows) == \A m, n \in rows : m.day - n.day <= DatePolicyWindow

\* The fixed floor of one rupee and the proportional allowance of 0.1 %.
ToleranceFor(amount) == Max({100, Abs(amount) \div 1000})

-----------------------------------------------------------------------------
(* recompute_group_conservation                                            *)

\* One refund, chargeback, reversal or charge, seen on one to three sources.
PureOutflow(rows) ==
    \E role \in OutflowRoles : \A m \in rows : Role(m) = role

LedgerGross(m) == Role(m) = "GROSS" /\ m.source = "LEDGER"

\* Mutant: the ledger's view of a settlement counts beside the gateway's.
EffectiveAll(rows) == {m \in rows : Role(m) # "CREDIT"}

\* With the ledger's pre-fee amount present, the gateway's settlement already
\* is net: neither that ledger row nor the charges broken out count again.
Effective(rows) ==
    LET nonCredit == {m \in rows : Role(m) # "CREDIT"}
    IN IF \E m \in nonCredit : LedgerGross(m)
       THEN {m \in nonCredit : ~LedgerGross(m)
                               /\ ~(m.source = "GATEWAY" /\ Role(m) \in BreakoutRoles)}
       ELSE nonCredit

\* The member rows the rest is netted against: the bank credits, or else the
\* first gross row.
Against(rows) ==
    LET credits == {m \in rows : Role(m) = "CREDIT"}
        gross == {m \in Effective(rows) : Role(m) = "GROSS"}
    IN CASE credits # {} -> credits
         [] credits = {} /\ gross # {} -> {First(gross)}
         [] OTHER -> {}

Computable(rows) == PureOutflow(rows) \/ Against(rows) # {}

\* Mutant: a gross amount with nothing against it is taken as balanced.
ConservesAlone(rows) ==
    IF PureOutflow(rows) \/ Effective(rows) \ Against(rows) = {}
    THEN TRUE
    ELSE LET target == TotalAmount(Against(rows))
         IN Abs(TotalAmount(Effective(rows) \ Against(rows)) - target) <= ToleranceFor(target)

Conserves(rows) ==
    IF PureOutflow(rows)
    THEN \A m \in rows :
             Abs(m.amount - First(rows).amount) <= ToleranceFor(First(rows).amount)
    ELSE LET target == TotalAmount(Against(rows))
         IN Abs(TotalAmount(Effective(rows) \ Against(rows)) - target) <= ToleranceFor(target)

-----------------------------------------------------------------------------
(* verify_match_group                                                      *)

\* The gross amounts a Stage 1 group compares: the ledger's and the gateway's.
Matched(rows) ==
    LET gross == {m \in rows : m.source = "GATEWAY"
                               /\ m.entity_type \in GrossGatewayEntityTypes}
    IN IF gross = {} THEN 0 ELSE Abs(First(gross).amount)
Expected(rows) ==
    LET ledger == {m \in rows : m.source = "LEDGER"}
    IN IF ledger = {} THEN Matched(rows) ELSE Abs(First(ledger).amount)
ResidualWithinTolerance(rows) ==
    Abs(Expected(rows) - Matched(rows))
        <= (ResidualTolerance * Max({Expected(rows), Matched(rows)})) \div 10000

VerifyStage1(rows) ==
    CASE ~SlotsUnique(rows) -> "FAILED_UNIQUENESS"
      [] ~(OneCurrency(rows) /\ WithinDatePolicy(rows)) -> "FAILED_CURRENCY"
      [] ~ResidualWithinTolerance(rows) -> "RESIDUAL_EXCEEDS_TOLERANCE"
      [] OTHER -> "PASSED"

\* A sign its role cannot have.
Contradicts(m) ==
    \/ Role(m) \in {"GROSS", "CREDIT"} /\ m.amount <= 0
    \/ Role(m) \in OutflowRoles /\ m.amount >= 0

VerifyStage2To5(rows, score_margin) ==
    CASE score_margin < MinScoreMargin -> "FAILED_MARGIN"
      [] \E m \in rows : Contradicts(m) -> "FAILED_CONSERVATION"
      [] ~Computable(rows) -> "FAILED_CONSERVATION"
      [] ~Conserves(rows) -> "FAILED_CONSERVATION"
      [] ~OneCurrency(rows) -> "FAILED_CURRENCY"
      [] OTHER -> "PASSED"

VerifyMatchGroup(proposed_by, rows, score_margin) ==
    CASE proposed_by = "STAGE1_EXACT" -> VerifyStage1(rows)
      [] proposed_by = "STAGE6_LLM" -> "NOT_YET_RUN"
      [] OTHER -> VerifyStage2To5(rows, score_margin)
=============================================================================
