------------------------------ MODULE MCTurns ------------------------------
(* Turns with and without budgets and routing rules.                       *)
EXTENDS Turns, TLC

Signal(complexity, vision, tools) ==
  [complexity |-> complexity, vision |-> vision, tools |-> tools, followUp |-> FALSE]
MCMessages == {[kind |-> Signal("low", FALSE, FALSE), fact |-> "preference"],
               [kind |-> Signal("high", TRUE, TRUE), fact |-> "name"],
               [kind |-> Signal("medium", FALSE, TRUE), fact |-> NoFact]}
Symmetry == Permutations(Threads) \cup Permutations(Users)

Settings(primary, requestCap, monthlyCap, rules) ==
  [primary |-> primary, fallback |-> "opus", requestCap |-> requestCap, monthlyCap |-> monthlyCap,
   rules |-> rules]

MCSettings == {
  Settings("sonnet", NoCap, NoCap,
           <<[pattern |-> <<"complexity", "high">>, model |-> "llama", priority |-> 1],
             [pattern |-> <<"tier", "cheap">>, model |-> "llama", priority |-> 1]>>),
  Settings("sonnet", NoCap, 1500000, <<>>),
  Settings("gemini-flash-lite", 400000, NoCap,
           <<[pattern |-> <<"vision", "true">>, model |-> "gpt-4o", priority |-> 0]>>),
  Settings("gemini-pro", 1800000, 2400000, <<>>)}

MCPrompt == [initial |-> 1000, follow_up |-> 1200]
\* A provider counts more than was estimated, or as much.
MCCharges == [initial |-> {1400}, follow_up |-> {1200}]
\* A provider may report a model by a name that the tables do not know.
MCReported == [m \in Models \cup {"none"} |->
                 IF m \in {"none", "gpt-4o"} THEN "llama" ELSE m]
=============================================================================
