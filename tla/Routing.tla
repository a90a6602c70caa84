------------------------------ MODULE Routing ------------------------------
(***************************************************************************)
(* Which model answers a request, and what the spend controls make of that *)
(* choice: services/routing.  A message counts by its signals; amounts are *)
(* in units of 10^-8 US dollars, the precision the code rounds to.         *)
(***************************************************************************)
EXTENDS Integers, Sequences

Tiers == {"cheap", "standard", "strong"}
Rank(tier) == CASE tier = "cheap" -> 1 [] tier = "standard" -> 2 [] OTHER -> 3

NoCap == -1        \* null of a cap, a token limit and an estimate

DefaultModel(tier) ==
  CASE tier = "cheap" -> "gemini-flash" [] tier = "standard" -> "sonnet" [] OTHER -> "opus"

VisionModels == {"sonnet", "opus", "gemini-flash", "gemini-pro", "gpt-4o"}
GeminiModels == {"gemini-flash", "gemini-flash-lite", "gemini-pro"}

\* Per token; a variant has the price of the entry its name contains, and a model the
\* table does not know has none.
Pricing(model) ==
  CASE model \in {"gemini-flash", "gemini-flash-lite"} -> [input |-> 10, output |-> 40]
    [] model = "gemini-pro" -> [input |-> 125, output |-> 500]
    [] model = "sonnet" -> [input |-> 300, output |-> 1500]
    [] model = "opus" -> [input |-> 1500, output |-> 7500]
    [] model = "gpt-4o" -> [input |-> 500, output |-> 1500]

PricedModels == VisionModels \cup {"gemini-flash-lite"}
Priced(model) == model \in PricedModels

Cost(model, promptTokens, completionTokens) ==
  IF Priced(model)
  THEN promptTokens * Pricing(model).input + completionTokens * Pricing(model).output
  ELSE NoCap

-----------------------------------------------------------------------------
(* Routing.                                                                *)

Signals == [complexity : {"low", "medium", "high"}, vision : BOOLEAN, tools : BOOLEAN,
            followUp : BOOLEAN]

classifyTier(s) ==
  CASE s.complexity = "high" -> "strong"
    [] s.vision \/ s.tools \/ s.complexity = "medium" -> "standard"
    [] OTHER -> "cheap"

\* The tier of an escalation is guessed from the model that failed.
escalatedTier(failed) == IF failed \in GeminiModels THEN "standard" ELSE "strong"

FirstVision(models) ==
  LET seeing == {i \in 1..Len(models) : models[i] \in VisionModels} IN
  models[CHOOSE i \in seeing : \A j \in seeing : i <= j]

resolveTierModel(tier, s, settings) ==
  IF s.vision
  THEN FirstVision(<<CASE tier = "strong" -> settings.fallback
                       [] tier = "cheap" -> DefaultModel("standard")
                       [] OTHER -> settings.primary,
                     settings.primary, settings.fallback, DefaultModel("standard")>>)
  ELSE CASE tier = "cheap" -> DefaultModel("cheap")
         [] tier = "standard" -> settings.primary
         [] OTHER -> settings.fallback

Matches(pattern, tier, s) ==
  \/ pattern = <<"tier", tier>>
  \/ pattern = <<"vision", "true">> /\ s.vision
  \/ pattern = <<"tools", "true">> /\ s.tools
  \/ pattern = <<"complexity", "high">> /\ s.complexity = "high"

\* The matching rule of the highest priority wins, the first of several, unless the
\* request needs vision that its model lacks.
selectModel(tier, s, settings) ==
  LET rule(i) == settings.rules[i]
      matched == {i \in 1..Len(settings.rules) : Matches(rule(i).pattern, tier, s)}
      best == {i \in matched : \A j \in matched : rule(j).priority <= rule(i).priority}
      top == CHOOSE i \in best : \A j \in best : i <= j
  IN IF matched # {} /\ (s.vision => rule(top).model \in VisionModels)
     THEN rule(top).model
     ELSE resolveTierModel(tier, s, settings)

Decision(tier, s, settings, escalated) ==
  [model |-> selectModel(tier, s, settings), tier |-> tier, escalated |-> escalated]

routeModel(s, settings) == Decision(classifyTier(s), s, settings, FALSE)

Escalates(r) == r.tier # "strong" /\ ~r.escalated
escalateModel(r, s, settings) == Decision(escalatedTier(r.model), s, settings, TRUE)

-----------------------------------------------------------------------------
(* Spend controls.                                                         *)

CompletionTokens(s, stage) ==
  LET base == CASE s.complexity = "high" -> 900 [] s.complexity = "medium" -> 450 [] OTHER -> 220
      tokens == base + (IF s.tools THEN 180 ELSE 0) + (IF s.vision THEN 160 ELSE 0)
                     + (IF s.followUp THEN 120 ELSE 0)
      shorter == (tokens * 6 + 5) \div 10
  IN IF stage = "initial" THEN tokens ELSE IF shorter < 180 THEN 180 ELSE shorter

Remaining(limit, spent) ==
  IF limit = NoCap THEN NoCap ELSE IF limit > spent THEN limit - spent ELSE 0

minDefined(a, b) ==
  CASE a = NoCap -> b [] b = NoCap -> a [] OTHER -> IF a < b THEN a ELSE b

LowerTiers(tier) == {lower \in Tiers : Rank(lower) <= Rank(tier)}

MCandidates(r, s, settings, downgrade) ==
  {[model |-> r.model, tier |-> r.tier, place |-> 0]}
    \cup IF downgrade
         THEN {[model |-> resolveTierModel(tier, [s EXCEPT !.vision = FALSE], settings),
                tier |-> tier, place |-> 4 - Rank(tier)] : tier \in LowerTiers(r.tier)}
         ELSE {}

\* The routed model, then those of its tier and below, then the cheap default, each
\* only if it sees when the request needs vision.
Candidates(r, s, settings, downgrade) ==
  LET routed == [model |-> r.model, tier |-> r.tier, place |-> 0]
      lower == {[model |-> resolveTierModel(tier, s, settings), tier |-> tier,
                 place |-> 4 - Rank(tier)] : tier \in LowerTiers(r.tier)}
      last == [model |-> DefaultModel("cheap"), tier |-> "cheap", place |-> 4]
      all == {routed} \cup (IF downgrade THEN lower ELSE {})
                      \cup (IF downgrade /\ r.tier # "cheap" THEN {last} ELSE {})
  IN {c \in all : s.vision => c.model \in VisionModels}

MIN_COMPLETION_TOKENS == 96

MAffordableTokens(model, promptTokens, cap) == cap \div Pricing(model).output

\* calculateAffordableMaxCompletionTokens
AffordableTokens(model, promptTokens, cap) ==
  LET left == cap - promptTokens * Pricing(model).input IN
  IF left <= 0 THEN 0 ELSE left \div Pricing(model).output

\* The first candidate whose known estimate fits under both caps, and how many
\* tokens it may answer with; blocked if there is none or too few tokens.
enforceSpendControls(r, s, settings, stage, promptTokens, monthly, requestCost) ==
  LET cap == minDefined(Remaining(settings.requestCap, requestCost),
                        Remaining(settings.monthlyCap, monthly))
      estimate(c) == Cost(c.model, promptTokens, CompletionTokens(s, stage))
      fitting == {c \in Candidates(r, s, settings, stage = "initial") :
                    Priced(c.model) /\ estimate(c) <= cap}
      chosen == CHOOSE c \in fitting : \A d \in fitting : c.place <= d.place
      tokens == AffordableTokens(chosen.model, promptTokens, cap)
  IN IF cap = NoCap THEN [blocked |-> FALSE, routing |-> r, maxTokens |-> NoCap]
     ELSE IF fitting = {} THEN [blocked |-> TRUE, routing |-> r, maxTokens |-> NoCap]
     ELSE [blocked |-> tokens < MIN_COMPLETION_TOKENS, maxTokens |-> tokens,
           routing |-> [r EXCEPT !.model = chosen.model, !.tier =
                          IF chosen.model = r.model THEN r.tier ELSE chosen.tier]]
=============================================================================
