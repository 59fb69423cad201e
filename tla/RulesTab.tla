------------------------------ MODULE RulesTab ------------------------------
(***************************************************************************)
(* The Rules tab of TransactionMonitoringSection.tsx with the hooks        *)
(* useMonitoringRules and useCreateRule: the list of rules, how the        *)
(* conditions of each are put into words, and the dialog that creates one. *)
(*                                                                         *)
(* Conditions are the set of keys of a JSON object, or "raw" for a text    *)
(* that is no JSON object.  "amount" is the key "field" when its value is  *)
(* an amount, the only one a currency belongs to.                          *)
(***************************************************************************)
EXTENDS Naturals, FiniteSets, Sequences

CONSTANTS
  ConditionKeys,  \* keys a rule may have
  MaxRules        \* bound on rules

ASSUME RulesAssumption ==
  /\ ConditionKeys \subseteq {"amount", "field", "operator", "value", "currency", "countThreshold",
                              "windowHours", "direction", "minAmount"}
  /\ MaxRules \in Nat

VARIABLES
  rules,     \* server: the conditions of each rule, in the order of creation
  ruleList,  \* how many of them are on screen, and whether a fetch is out
  newRule,   \* the dialog: open, name given, conditions typed, and whether the
             \* creation under way is its own
  ruleCall,  \* the creation under way
  ruleTold   \* the last toast

ruleVars == <<rules, ruleList, newRule, ruleCall, ruleTold>>

Conditions == {C \in SUBSET ConditionKeys : C # {} /\ ~({"amount", "field"} \subseteq C)}
HasField(C) == C \intersect {"amount", "field"} # {}

(* formatConditionValue returns nothing for these keys.                    *)
Skipped(C) ==
  (IF HasField(C) THEN {"operator"} ELSE {})
    \union (IF HasField(C) /\ "operator" \in C THEN {"value", "currency"} ELSE {})
    \union (IF "countThreshold" \in C THEN {"windowHours"} ELSE {})

(* What the phrase made of one key tells: its own value, and what the      *)
(* phrases of a field and of a count take in from other keys.              *)
Phrase(C, key) ==
  CASE key \in {"amount", "field"} /\ {"operator", "value"} \subseteq C ->
         {key, "operator", "value"} \union (IF key = "amount" THEN {"currency"} ELSE {})
    [] key = "countThreshold" -> {key, "windowHours"}
    [] key = "minAmount" -> {key, "currency"}
    [] OTHER -> {key}

(* The keys of C whose value the card of the rule tells.                   *)
Visible(C) == C \intersect UNION {Phrase(C, key) : key \in C \ Skipped(C)}
-----------------------------------------------------------------------------
RulesAnswered ==
  /\ ruleList.asked
  /\ ruleList' = [shown |-> Len(rules), asked |-> FALSE]
  /\ ruleTold' = "none"
  /\ UNCHANGED <<rules, newRule, ruleCall>>

(* "New Rule" opens the dialog with what was typed last; closing keeps it. *)
OpenRuleDialog ==
  /\ newRule' = [newRule EXCEPT !.open = ~@]
  /\ ruleTold' = "none"
  /\ UNCHANGED <<rules, ruleList, ruleCall>>

TypeRule ==
  /\ newRule.open
  /\ \/ newRule' = [newRule EXCEPT !.named = ~@]
     \/ \E C \in Conditions : newRule' = [newRule EXCEPT !.conditions = C]
  /\ ruleTold' = "none"
  /\ UNCHANGED <<rules, ruleList, ruleCall>>

(* handleCreateRule up to its await.                                       *)
CreateRule ==
  /\ newRule.open /\ ruleCall = {}
  /\ IF newRule.named /\ newRule.conditions # {}
     THEN /\ ruleCall' = newRule.conditions
          /\ newRule' = [newRule EXCEPT !.mine = TRUE]
          /\ ruleTold' = "none"
     ELSE ruleTold' = "required" /\ UNCHANGED <<ruleCall, newRule>>
  /\ UNCHANGED <<rules, ruleList>>

(* ... and after it.  The form is not emptied.                             *)
RuleSettled ==
  /\ ruleCall # {}
  /\ \/ /\ Len(rules) < MaxRules
        /\ rules' = Append(rules, ruleCall)
        /\ ruleList' = [ruleList EXCEPT !.asked = TRUE]
        /\ newRule' = [newRule EXCEPT !.open = @ /\ ~newRule.mine]
        /\ ruleTold' = "created"
     \/ ruleTold' = "failed" /\ UNCHANGED <<rules, ruleList, newRule>>
  /\ ruleCall' = {}
-----------------------------------------------------------------------------
(* Another tab or section is chosen, and this one again.                   *)
LeaveRules ==
  /\ newRule' = [open |-> FALSE, named |-> FALSE, conditions |-> {}, mine |-> FALSE]
  /\ \E shown \in {0, Len(rules)} : ruleList' = [shown |-> shown, asked |-> TRUE]
  /\ ruleTold' = "none"
  /\ UNCHANGED <<rules, ruleCall>>
-----------------------------------------------------------------------------
RulesInit ==
  /\ rules = << >>
  /\ ruleList = [shown |-> 0, asked |-> TRUE]
  /\ newRule = [open |-> FALSE, named |-> FALSE, conditions |-> {}, mine |-> FALSE]
  /\ ruleCall = {}
  /\ ruleTold = "none"

RulesNext ==
  \/ RulesAnswered
  \/ OpenRuleDialog
  \/ TypeRule
  \/ CreateRule
  \/ RuleSettled
  \/ LeaveRules

RulesSpec == RulesInit /\ [][RulesNext]_ruleVars
-----------------------------------------------------------------------------
(* Properties                                                              *)

RulesTypeOK ==
  /\ rules \in Seq(Conditions)
  /\ ruleList.shown \in 0..Len(rules)
  /\ newRule.conditions \in Conditions \union {{}}
  /\ ruleCall \in Conditions \union {{}}

(* The list shows every rule there is once nothing is being fetched:       *)
(* creating one refetches it.                                              *)
RulesFresh == ~ruleList.asked => ruleList.shown = Len(rules)

(* The card of a rule tells every condition of a rule that compares its    *)
(* field with a value, except a currency where nothing is an amount: what  *)
(* formatConditionValue skips, another phrase has told.                    *)
RulesTold ==
  \A i \in 1..ruleList.shown :
    (HasField(rules[i]) => {"operator", "value"} \subseteq rules[i])
      => rules[i] \ Visible(rules[i])
           \subseteq (IF {"amount", "minAmount"} \intersect rules[i] = {} THEN {"currency"} ELSE {})
=============================================================================
