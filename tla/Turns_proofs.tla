---------------------------- MODULE Turns_proofs ----------------------------
(***************************************************************************)
(* Machine-checked proofs about Turns, for any threads, number of turns,   *)
(* messages, settings, prices of a prompt, events and faults.              *)
(***************************************************************************)
EXTENDS Turns, FiniteSetTheorems, SequenceTheorems, WellFoundedInduction, TLAPS

-----------------------------------------------------------------------------
(* Sums of costs.                                                          *)

\* A finite set of sets of one finite set has a smallest.
LEMMA SmallestSet ==
  ASSUME NEW S, IsFiniteSet(S), NEW T \in SUBSET SUBSET S, T # {}
  PROVE  \E U \in T : \A V \in T : ~(V \subseteq U /\ V # U)
<1>1. T \subseteq FiniteSubsetsOf(S)
  BY FS_Subset DEF FiniteSubsetsOf
<1>2. PICK U \in T : \A V \in T : ~(<<V, U>> \in StrictSubsetOrdering(S))
  BY <1>1, WFMin, FS_StrictSubsetOrderingWellFounded
<1>3. ASSUME NEW V \in T PROVE ~(V \subseteq U /\ V # U)
  BY <1>2 DEF StrictSubsetOrdering
<1> QED
  BY <1>3

\* What SumFunction unfolds to: a function over the subsets of S, each the value of one
\* element and the sum of the others.
Pick(s) == CHOOSE x \in s : TRUE
Sums(f, S, h) ==
  h = [s \in SUBSET S |-> IF s = {} THEN 0 ELSE f[Pick(s)] + h[s \ {Pick(s)}]]

\* The sum of the values of f is one of the functions described by Sums.
LEMMA SumIsPicked ==
  ASSUME NEW f, NEW S, S = DOMAIN f
  PROVE  SumFunction(f) = (CHOOSE h : Sums(f, S, h))[S]
BY DEF SumFunction, SumFunctionOnSet, FoldFunctionOnSet, MapThenFoldSet, Sums, Pick

\* Such a function at one set.
LEMMA SumsAt ==
  ASSUME NEW f, NEW S, NEW h, Sums(f, S, h), NEW U \in SUBSET S
  PROVE  /\ U \ {Pick(U)} \in SUBSET S
         /\ h[U] = IF U = {} THEN 0 ELSE f[Pick(U)] + h[U \ {Pick(U)}]
BY DEF Sums

\* An element that is picked is one.
LEMMA PickIn ==
  ASSUME NEW U, U # {}
  PROVE  Pick(U) \in U
BY DEF Pick

\* Such functions agree where both are defined.
LEMMA SumsAgree ==
  ASSUME NEW f, NEW S, IsFiniteSet(S), NEW g, NEW h, Sums(f, S, g),
         NEW V \in SUBSET S, Sums(f, V, h)
  PROVE  \A U \in SUBSET V : g[U] = h[U]
<1> DEFINE Bad == {U \in SUBSET V : g[U] # h[U]}
<1>1. SUFFICES ASSUME Bad # {} PROVE FALSE
  OBVIOUS
<1>2. PICK U \in Bad : \A W \in Bad : ~(W \subseteq U /\ W # U)
  <2>1. Bad \in SUBSET SUBSET S
    OBVIOUS
  <2> HIDE DEF Bad
  <2> QED
    BY <1>1, <2>1, SmallestSet
<1>0. U \in SUBSET V /\ U \in SUBSET S /\ g[U] # h[U]
  BY <1>2
<1>3. CASE U = {}
  <2>1. g[U] = 0 /\ h[U] = 0
    BY <1>0, <1>3, SumsAt
  <2> QED
    BY <1>0, <2>1
<1>4. CASE U # {}
  <2>1. U \ {Pick(U)} \in SUBSET V /\ U \ {Pick(U)} # U
    BY <1>2, <1>4, PickIn
  <2>2. g[U \ {Pick(U)}] = h[U \ {Pick(U)}]
    BY <1>2, <2>1
  <2>3. g[U] = f[Pick(U)] + g[U \ {Pick(U)}] /\ h[U] = f[Pick(U)] + h[U \ {Pick(U)}]
    BY <1>0, <1>4, SumsAt
  <2> QED
    BY <1>0, <2>2, <2>3
<1> QED
  BY <1>3, <1>4

\* There is one.
LEMMA SumsExist ==
  ASSUME NEW S, IsFiniteSet(S), NEW f
  PROVE  \E h : Sums(f, S, h)
<1> DEFINE Bad == {U \in SUBSET S : ~\E h : Sums(f, U, h)}
<1>1. SUFFICES ASSUME Bad # {} PROVE FALSE
  OBVIOUS
<1>2. PICK U \in Bad : \A W \in Bad : ~(W \subseteq U /\ W # U)
  <2>1. Bad \in SUBSET SUBSET S
    OBVIOUS
  <2> HIDE DEF Bad
  <2> QED
    BY <1>1, <2>1, SmallestSet
<1> DEFINE H(s) == CHOOSE h : Sums(f, s, h)
           rest(s) == s \ {Pick(s)}
           g == [s \in SUBSET U |-> IF s = {} THEN 0 ELSE f[Pick(s)] + H(rest(s))[rest(s)]]
<1>3. ASSUME NEW W \in SUBSET U, W # U PROVE Sums(f, W, H(W))
  BY <1>2, <1>3
<1> HIDE DEF H
<1>4. ASSUME NEW W \in SUBSET U, W # {} PROVE rest(W) \in SUBSET U /\ rest(W) # U /\ rest(W) # W
  BY <1>4, PickIn
<1>5. ASSUME NEW W \in SUBSET U, W # U PROVE g[W] = H(W)[W]
  <2>1. CASE W = {}
    <3>1. H(W)[W] = 0
      BY <1>3, <1>5, <2>1, SumsAt
    <3> QED
      BY <2>1, <3>1
  <2>2. CASE W # {}
    <3>1. H(W)[W] = f[Pick(W)] + H(W)[rest(W)]
      BY <1>3, <1>5, <2>2, SumsAt
    <3>2. rest(W) \in SUBSET W /\ IsFiniteSet(W)
      BY FS_Subset
    <3>3. Sums(f, W, H(W)) /\ Sums(f, rest(W), H(rest(W)))
      BY <1>3, <1>4, <1>5, <2>2
    <3>4. H(W)[rest(W)] = H(rest(W))[rest(W)]
      BY <3>2, <3>3, SumsAgree
    <3> QED
      BY <2>2, <3>1, <3>4
  <2> QED
    BY <2>1, <2>2
<1>6. g = [s \in SUBSET U |-> IF s = {} THEN 0 ELSE f[Pick(s)] + g[rest(s)]]
  <2>1. ASSUME NEW s \in SUBSET U
        PROVE  (IF s = {} THEN 0 ELSE f[Pick(s)] + H(rest(s))[rest(s)])
                 = IF s = {} THEN 0 ELSE f[Pick(s)] + g[rest(s)]
    BY <1>4, <1>5
  <2> QED
    BY <2>1
<1>7. Sums(f, U, g)
  BY <1>6 DEF Sums
<1> QED
  BY <1>2, <1>7

\* The sums of the values of f over the subsets of S.
Adds(f, S, h) ==
  /\ SumFunction(f) = h[S] /\ h[{}] = 0
  /\ \A U \in (SUBSET S) \ {{}} : h[U] = f[Pick(U)] + h[U \ {Pick(U)}]

\* The sum of the values of f is one such function, and adds up.
LEMMA SumIsOne ==
  ASSUME NEW S, IsFiniteSet(S), NEW f, S = DOMAIN f
  PROVE  \E h : Adds(f, S, h)
<1>1. PICK h : Sums(f, S, h) /\ SumFunction(f) = h[S]
  BY SumsExist, SumIsPicked
<1>2. h[{}] = 0
  BY <1>1, SumsAt
<1>3. ASSUME NEW U \in (SUBSET S) \ {{}}
      PROVE  h[U] = f[Pick(U)] + h[U \ {Pick(U)}]
  BY <1>1, SumsAt
<1> QED
  BY <1>1, <1>2, <1>3 DEF Adds

\* Changing the value of one element changes the sum by as much.
LEMMA SumChanges ==
  ASSUME NEW S, IsFiniteSet(S), NEW f \in [S -> Nat], NEW g \in [S -> Nat], NEW t \in S,
         \A s \in S \ {t} : g[s] = f[s]
  PROVE  /\ SumFunction(f) \in Nat
         /\ SumFunction(g) = SumFunction(f) - f[t] + g[t]
<1>1. PICK h : Adds(f, S, h)
  <2>1. DOMAIN f = S
    OBVIOUS
  <2> QED
    BY <2>1, SumIsOne
<1>2. PICK k : Adds(g, S, k)
  <2>1. DOMAIN g = S
    OBVIOUS
  <2> QED
    BY <2>1, SumIsOne
<1> DEFINE Right(U) == h[U] \in Nat /\ k[U] = IF t \in U THEN h[U] - f[t] + g[t] ELSE h[U]
           Bad == {U \in SUBSET S : ~Right(U)}
<1>3. ASSUME Bad # {} PROVE FALSE
  <2>0. Bad \in SUBSET SUBSET S
    OBVIOUS
  <2>1. PICK U \in Bad : \A W \in Bad : ~(W \subseteq U /\ W # U)
    <3> HIDE DEF Bad
    <3> QED
      BY <1>3, <2>0, SmallestSet
  <2>9. U \in SUBSET S
    BY <2>1
  <2>2. CASE U = {}
    <3>1. h[U] = 0 /\ k[U] = 0
      BY <1>1, <1>2, <2>2, <2>9 DEF Adds
    <3> QED
      BY <2>1, <2>2, <3>1
  <2>3. CASE U # {}
    <3> DEFINE p == Pick(U)
               W == U \ {p}
    <3>1. p \in U /\ W \in SUBSET S /\ W # U /\ W \subseteq U /\ p \in S
      BY <2>1, <2>3, PickIn
    <3>2. Right(W)
      BY <2>1, <3>1
    <3>3. h[U] = f[p] + h[W] /\ k[U] = g[p] + k[W]
      BY <1>1, <1>2, <2>3, <2>9 DEF Adds
    <3>4. f[p] \in Nat /\ g[p] \in Nat /\ f[t] \in Nat /\ g[t] \in Nat /\ (p # t => g[p] = f[p])
      BY <3>1
    <3> HIDE DEF p
    <3>5. CASE p = t
      BY <2>1, <3>1, <3>2, <3>3, <3>4, <3>5
    <3>6. CASE p # t
      BY <2>1, <3>1, <3>2, <3>3, <3>4, <3>6
    <3> QED
      BY <3>5, <3>6
  <2> QED
    BY <2>2, <2>3
<1>4. Right(S)
  BY <1>3
<1> QED
  BY <1>1, <1>2, <1>4 DEF Adds

\* A sum is at least each of its numbers.
LEMMA SumCovers ==
  ASSUME NEW S, IsFiniteSet(S), NEW f \in [S -> Nat], NEW t \in S
  PROVE  SumFunction(f) \in Nat /\ f[t] <= SumFunction(f)
<1> DEFINE g == [f EXCEPT ![t] = 0]
<1>1. g \in [S -> Nat] /\ g[t] = 0 /\ \A s \in S \ {t} : g[s] = f[s] /\ f[s] = g[s]
  OBVIOUS
<1> HIDE DEF g
<1>2. SumFunction(f) \in Nat /\ SumFunction(g) = SumFunction(f) - f[t] + g[t]
  BY <1>1, SumChanges
<1>3. SumFunction(g) \in Nat
  BY <1>1, SumChanges
<1> QED
  BY <1>1, <1>2, <1>3

-----------------------------------------------------------------------------
(* Least and greatest elements, which the choices of the router rest on.   *)

\* A set of numbers has a least element.
LEMMA Least ==
  ASSUME NEW S \in SUBSET Nat, S # {}
  PROVE  \E n \in S : \A m \in S : n <= m
<1>1. PICK k \in S : TRUE
  OBVIOUS
<1> DEFINE D == 0..k
           T == {0..n : n \in {m \in S : m <= k}}
<1>2. T \in SUBSET SUBSET D
  <2>1. ASSUME NEW m \in S, m <= k PROVE 0..m \subseteq D
    BY <1>1, <2>1
  <2> QED
    BY <2>1
<1>3. PICK U \in T : \A V \in T : ~(V \subseteq U /\ V # U)
  <2>1. T # {}
    BY <1>1
  <2>2. IsFiniteSet(D)
    <3>1. 0 \in Int /\ k \in Int
      BY <1>1
    <3> QED
      BY <3>1, FS_Interval
  <2> HIDE DEF T, D
  <2> QED
    BY <1>2, <2>1, <2>2, SmallestSet
<1>4. PICK n \in S : n <= k /\ U = 0..n
  BY <1>3
<1>5. ASSUME NEW m \in S, m < n PROVE FALSE
  <2>1. m \in Nat /\ n \in Nat /\ k \in Nat
    BY <1>1, <1>4
  <2>2. 0..m \in T /\ 0..m \subseteq U /\ n \notin 0..m /\ n \in U
    BY <1>4, <1>5, <2>1
  <2> QED
    BY <1>3, <2>2
<1>6. \A m \in S : n <= m
  BY <1>4, <1>5
<1> QED
  BY <1>6

\* Among finitely many there is one of the greatest priority.
LEMMA Greatest ==
  ASSUME NEW S, IsFiniteSet(S), S # {}, NEW p \in [S -> Nat]
  PROVE  \E i \in S : \A j \in S : p[j] <= p[i]
<1> DEFINE Top(U) == \E i \in U : \A j \in U : p[j] <= p[i]
           Bad == {U \in SUBSET S : U # {} /\ ~Top(U)}
<1>1. ASSUME Bad # {} PROVE FALSE
  <2>0. Bad \in SUBSET SUBSET S
    OBVIOUS
  <2>1. PICK U \in Bad : \A W \in Bad : ~(W \subseteq U /\ W # U)
    <3> HIDE DEF Bad
    <3> QED
      BY <1>1, <2>0, SmallestSet
  <2>2. PICK k \in U : TRUE
    BY <2>1
  <2>3. CASE U = {k}
    <3>1. Top(U)
      BY <2>1, <2>3
    <3> QED
      BY <2>1, <3>1
  <2>4. CASE U # {k}
    <3>1. Top(U \ {k})
      <4>1. U \ {k} \in SUBSET S /\ U \ {k} \subseteq U /\ U \ {k} # U /\ U \ {k} # {}
        BY <2>1, <2>2, <2>4
      <4>2. U \ {k} \notin Bad
        BY <2>1, <4>1
      <4> QED
        BY <4>1, <4>2
    <3>2. PICK i \in U \ {k} : \A j \in U \ {k} : p[j] <= p[i]
      BY <3>1
    <3>3. p[i] \in Nat /\ p[k] \in Nat /\ \A j \in U : p[j] \in Nat
      BY <2>1
    <3>4. CASE p[k] <= p[i]
      <4>1. \A j \in U : p[j] <= p[i]
        BY <3>2, <3>4
      <4> QED
        BY <2>1, <3>2, <4>1
    <3>5. CASE p[i] < p[k]
      <4>1. \A j \in U : p[j] <= p[k]
        BY <3>2, <3>3, <3>5
      <4> QED
        BY <2>1, <2>2, <4>1
    <3> QED
      BY <3>3, <3>4, <3>5
  <2> QED
    BY <2>3, <2>4
<1> QED
  BY <1>1

-----------------------------------------------------------------------------
(* Prices.                                                                 *)

\* What tokens cost.
LEMMA Prices ==
  ASSUME NEW m, Priced(m)
  PROVE  /\ Pricing(m).input \in {10, 125, 300, 1500, 500}
         /\ Pricing(m).output \in {40, 500, 1500, 7500}
<1>1. m \in {"gemini-flash", "gemini-flash-lite", "gemini-pro", "sonnet", "opus", "gpt-4o"}
  BY DEF Priced, PricedModels, VisionModels
<1> QED
  BY <1>1 DEF Pricing

\* More tokens cost no less.
LEMMA CostGrows ==
  ASSUME NEW m, Priced(m), NEW p \in Nat, NEW a \in Nat, NEW b \in Nat, a <= b
  PROVE  Cost(m, p, a) \in Nat /\ Cost(m, p, a) <= Cost(m, p, b)
BY Prices DEF Cost

\* A cost is a number, or unknown for a model without a price.
LEMMA CostTyped ==
  ASSUME NEW m, NEW p \in Nat, NEW a \in Nat
  PROVE  /\ Cost(m, p, a) \in Nat \cup {NoCap}
         /\ ~Priced(m) => Cost(m, p, a) = NoCap
BY CostGrows DEF Cost

\* The tokens that are affordable cost no more than the cap.
LEMMA AffordableFits ==
  ASSUME NEW m, Priced(m), NEW p \in Nat, NEW cap \in Nat
  PROVE  /\ AffordableTokens(m, p, cap) \in Nat
         /\ AffordableTokens(m, p, cap) > 0 => Cost(m, p, AffordableTokens(m, p, cap)) <= cap
<1> DEFINE in == Pricing(m).input
           out == Pricing(m).output
           left == cap - p * in
<1>1. in \in {10, 125, 300, 1500, 500} /\ out \in {40, 500, 1500, 7500}
  BY Prices
<1> HIDE DEF in, out
<1>2. left \in Int /\ p * in \in Nat
  BY <1>1
<1>3. left > 0 => left \div out \in Nat /\ (left \div out) * out <= left
  BY <1>1, <1>2
<1>4. AffordableTokens(m, p, cap) = IF left <= 0 THEN 0 ELSE left \div out
  BY DEF AffordableTokens, in, out
<1>5. \A n : Cost(m, p, n) = p * in + n * out
  BY DEF Cost, in, out
<1>6. CASE left <= 0
  BY <1>4, <1>6
<1>7. CASE left > 0
  <2> DEFINE n == left \div out
  <2>1. n \in Nat /\ n * out <= left /\ AffordableTokens(m, p, cap) = n
    BY <1>2, <1>3, <1>4, <1>7
  <2>2. Cost(m, p, n) = p * in + n * out
    BY <1>5
  <2> HIDE DEF n
  <2>3. n * out \in Nat
    BY <1>1, <2>1
  <2>4. p * in + n * out <= cap
    BY <1>2, <2>1, <2>3
  <2> QED
    BY <2>1, <2>2, <2>4
<1> QED
  BY <1>2, <1>6, <1>7

\* The estimate of an answer is a number of tokens.
LEMMA CompletionTyped ==
  ASSUME NEW s \in Signals, NEW stage
  PROVE  CompletionTokens(s, stage) \in Nat
BY DEF CompletionTokens, Signals

-----------------------------------------------------------------------------
(* Routing.                                                                *)

\* What TurnsAssumption says of one settings record.
Settings ==
  [primary : Models, fallback : Models, requestCap : Nat \cup {NoCap},
   monthlyCap : Nat \cup {NoCap},
   rules : Seq([pattern : STRING \X STRING, model : Models, priority : Nat])]

Sees(s, model) == s.vision => model \in VisionModels

\* A tier always has a model, one that sees if the request needs it.
LEMMA ResolveTyped ==
  ASSUME NEW tier, NEW s \in Signals, NEW g \in Settings
  PROVE  /\ resolveTierModel(tier, s, g) \in Models
         /\ Sees(s, resolveTierModel(tier, s, g))
<1>1. g.primary \in Models /\ g.fallback \in Models
  BY DEF Settings
<1>2. ASSUME NEW models \in Seq(Models), Len(models) = 4, models[4] = "sonnet"
      PROVE  FirstVision(models) \in Models /\ FirstVision(models) \in VisionModels
  <2> DEFINE seeing == {i \in 1..Len(models) : models[i] \in VisionModels}
             first == CHOOSE i \in seeing : \A j \in seeing : i <= j
  <2>1. seeing \in SUBSET Nat
    BY <1>2
  <2>2. 4 \in seeing
    BY <1>2 DEF VisionModels
  <2>3. \E i \in seeing : \A j \in seeing : i <= j
    <3> HIDE DEF seeing
    <3> QED
      BY <2>1, <2>2, Least
  <2>4. first \in seeing
    BY <2>3
  <2>5. FirstVision(models) = models[first]
    BY DEF FirstVision
  <2>6. models[first] \in VisionModels
    BY <2>4
  <2>7. FirstVision(models) \in VisionModels
    BY <2>5, <2>6
  <2>8. VisionModels \subseteq Models
    BY DEF Models, PricedModels
  <2> HIDE DEF first, seeing
  <2> QED
    BY <2>7, <2>8
<1>3. CASE s.vision
  <2> DEFINE choice == CASE tier = "strong" -> g.fallback
                         [] tier = "cheap" -> DefaultModel("standard")
                         [] OTHER -> g.primary
             models == <<choice, g.primary, g.fallback, DefaultModel("standard")>>
  <2>1. DefaultModel("standard") = "sonnet" /\ "sonnet" \in Models
    BY Zenon DEF DefaultModel, Models, PricedModels, VisionModels
  <2>2. choice \in Models
    <3>1. choice \in {g.fallback, DefaultModel("standard"), g.primary}
      <4>1. CASE tier = "strong"
        BY <4>1, Zenon
      <4>2. CASE tier = "cheap"
        BY <4>2, Zenon
      <4>3. CASE tier # "strong" /\ tier # "cheap"
        BY <4>3, Zenon
      <4> QED
        BY <4>1, <4>2, <4>3
    <3> HIDE DEF choice
    <3> QED
      BY <1>1, <2>1, <3>1
  <2>3. resolveTierModel(tier, s, g) = FirstVision(models)
    BY <1>3 DEF resolveTierModel
  <2> HIDE DEF choice
  <2>4. models \in Seq(Models) /\ Len(models) = 4 /\ models[4] = "sonnet"
    BY <1>1, <2>1, <2>2
  <2> HIDE DEF models
  <2> QED
    BY <1>2, <2>3, <2>4 DEF Sees
<1>4. CASE ~s.vision
  <2>1. DefaultModel("cheap") = "gemini-flash" /\ "gemini-flash" \in Models
    BY Zenon DEF DefaultModel, Models, PricedModels, VisionModels
  <2>2. resolveTierModel(tier, s, g) \in {DefaultModel("cheap"), g.primary, g.fallback}
    <3>1. CASE tier = "standard"
      BY <1>4, <3>1, Zenon DEF resolveTierModel
    <3>2. CASE tier = "cheap"
      BY <1>4, <3>2, Zenon DEF resolveTierModel
    <3>3. CASE tier # "standard" /\ tier # "cheap"
      BY <1>4, <3>3, Zenon DEF resolveTierModel
    <3> QED
      BY <3>1, <3>2, <3>3
  <2> QED
    BY <1>1, <1>4, <2>1, <2>2 DEF Sees
<1> QED
  BY <1>3, <1>4

\* So has a request, whatever the rules.
LEMMA SelectTyped ==
  ASSUME NEW tier, NEW s \in Signals, NEW g \in Settings
  PROVE  /\ selectModel(tier, s, g) \in Models
         /\ Sees(s, selectModel(tier, s, g))
<1> DEFINE rule(i) == g.rules[i]
           matched == {i \in 1..Len(g.rules) : Matches(rule(i).pattern, tier, s)}
           best == {i \in matched : \A j \in matched : rule(j).priority <= rule(i).priority}
           top == CHOOSE i \in best : \A j \in best : i <= j
<1>1. Len(g.rules) \in Nat /\ \A i \in 1..Len(g.rules) :
        rule(i).model \in Models /\ rule(i).priority \in Nat
  <2> DEFINE Rule == [pattern : STRING \X STRING, model : Models, priority : Nat]
  <2>1. g.rules \in Seq(Rule)
    BY DEF Settings
  <2>2. \A x \in Rule : x.model \in Models /\ x.priority \in Nat
    OBVIOUS
  <2> HIDE DEF Rule
  <2>3. \A i \in 1..Len(g.rules) : g.rules[i] \in Rule
    BY <2>1, ElementOfSeq
  <2> QED
    BY <2>1, <2>2, <2>3, LenProperties
<1>2. matched \subseteq 1..Len(g.rules)
  OBVIOUS
<1>3. CASE matched # {}
  <2> DEFINE p == [i \in matched |-> rule(i).priority]
  <2>1. IsFiniteSet(matched)
    <3>1. IsFiniteSet(1..Len(g.rules))
      BY <1>1, FS_Interval
    <3> QED
      BY <1>2, <3>1, FS_Subset
  <2>2. p \in [matched -> Nat]
    BY <1>1, <1>2
  <2>3. \E i \in matched : \A j \in matched : p[j] <= p[i]
    <3> HIDE DEF p, matched
    <3> QED
      BY <1>3, <2>1, <2>2, Greatest
  <2>4. best # {}
    BY <2>3
  <2>5. best \in SUBSET Nat /\ best \subseteq 1..Len(g.rules)
    BY <1>1
  <2>6. \E i \in best : \A j \in best : i <= j
    <3> HIDE DEF best
    <3> QED
      BY <2>4, <2>5, Least
  <2>7. top \in best
    BY <2>6
  <2>8. rule(top).model \in Models
    BY <1>1, <2>5, <2>7
  <2>9. selectModel(tier, s, g) =
          IF s.vision => rule(top).model \in VisionModels
          THEN rule(top).model ELSE resolveTierModel(tier, s, g)
    BY <1>3 DEF selectModel
  <2> HIDE DEF top
  <2> QED
    BY <2>8, <2>9, ResolveTyped DEF Sees
<1>4. CASE matched = {}
  <2>1. selectModel(tier, s, g) = resolveTierModel(tier, s, g)
    BY <1>4 DEF selectModel
  <2> QED
    BY <2>1, ResolveTyped
<1> QED
  BY <1>3, <1>4

\* A decision of the router has a model that sees if the request needs it.
LEMMA DecisionTyped ==
  ASSUME NEW tier \in Tiers, NEW s \in Signals, NEW g \in Settings, NEW escalated \in BOOLEAN
  PROVE  /\ Decision(tier, s, g, escalated) \in Routed
         /\ Sees(s, Decision(tier, s, g, escalated).model)
         /\ Decision(tier, s, g, escalated).escalated = escalated
BY SelectTyped DEF Decision, Routed

\* So has the first one.
LEMMA RouteTyped ==
  ASSUME NEW s \in Signals, NEW g \in Settings
  PROVE  /\ routeModel(s, g) \in Routed
         /\ Sees(s, routeModel(s, g).model)
<1>1. classifyTier(s) \in Tiers
  BY DEF classifyTier, Tiers
<1> QED
  BY <1>1, DecisionTyped DEF routeModel

\* So has an escalation.
LEMMA EscalateTyped ==
  ASSUME NEW r, NEW s \in Signals, NEW g \in Settings
  PROVE  /\ escalateModel(r, s, g) \in Routed
         /\ Sees(s, escalateModel(r, s, g).model)
         /\ escalateModel(r, s, g).escalated
<1>1. escalatedTier(r.model) \in Tiers
  BY DEF escalatedTier, Tiers
<1> QED
  BY <1>1, DecisionTyped DEF escalateModel

-----------------------------------------------------------------------------
(* Spend controls.                                                         *)

\* What is left of a cap is all that still fits.
LEMMA RemainingTyped ==
  ASSUME NEW limit \in Nat \cup {NoCap}, NEW used \in Nat
  PROVE  /\ Remaining(limit, used) \in Nat \cup {NoCap}
         /\ Remaining(limit, used) = NoCap <=> limit = NoCap
         /\ \A n \in Nat : limit # NoCap /\ n > 0 /\ n <= Remaining(limit, used) => used + n <= limit
BY DEF Remaining, NoCap

\* The smaller of two caps respects both.
LEMMA SmallerCap ==
  ASSUME NEW a \in Nat \cup {NoCap}, NEW b \in Nat \cup {NoCap}
  PROVE  /\ minDefined(a, b) \in Nat \cup {NoCap}
         /\ minDefined(a, b) = NoCap <=> a = NoCap /\ b = NoCap
         /\ a # NoCap => minDefined(a, b) <= a
         /\ b # NoCap => minDefined(a, b) <= b
<1>1. CASE a = NoCap
  <2>1. minDefined(a, b) = b
    BY <1>1, Zenon DEF minDefined
  <2> QED
    BY <1>1, <2>1 DEF NoCap
<1>2. CASE a # NoCap /\ b = NoCap
  <2>1. minDefined(a, b) = a
    BY <1>2, Zenon DEF minDefined
  <2> QED
    BY <1>2, <2>1 DEF NoCap
<1>3. CASE a # NoCap /\ b # NoCap
  <2>1. minDefined(a, b) = IF a < b THEN a ELSE b
    BY <1>3, Zenon DEF minDefined
  <2> QED
    BY <1>3, <2>1 DEF NoCap
<1> QED
  BY <1>1, <1>2, <1>3

\* The routed model is the first candidate, and all that is tried for a follow-up.
LEMMA CandidatesTyped ==
  ASSUME NEW r \in Routed, NEW s \in Signals, NEW g \in Settings, NEW downgrade \in BOOLEAN,
         NEW c \in Candidates(r, s, g, downgrade)
  PROVE  /\ c.model \in Models \cup {"none"} /\ c.tier \in Tiers /\ c.place \in Nat
         /\ Sees(s, c.model)
         /\ ~downgrade \/ c.place = 0 => c.model = r.model
<1> DEFINE routed == [model |-> r.model, tier |-> r.tier, place |-> 0]
           lower == {[model |-> resolveTierModel(tier, s, g), tier |-> tier,
                      place |-> 4 - Rank(tier)] : tier \in LowerTiers(r.tier)}
           last == [model |-> DefaultModel("cheap"), tier |-> "cheap", place |-> 4]
<1>1. Sees(s, c.model) /\ (c = routed \/ (downgrade /\ c \in lower) \/ (downgrade /\ c = last))
  BY DEF Candidates, Sees
<1>2. CASE c = routed
  BY <1>1, <1>2 DEF Routed
<1>3. CASE downgrade /\ c \in lower
  <2>1. PICK tier \in Tiers : c = [model |-> resolveTierModel(tier, s, g), tier |-> tier,
                                   place |-> 4 - Rank(tier)]
    BY <1>3 DEF LowerTiers
  <2>2. Rank(tier) \in 1..3
    <3>1. Rank(tier) = 1 \/ Rank(tier) = 2 \/ Rank(tier) = 3
      BY Zenon DEF Rank, Tiers
    <3> QED
      BY <3>1
  <2>3. resolveTierModel(tier, s, g) \in Models
    BY ResolveTyped
  <2> QED
    BY <1>1, <1>3, <2>1, <2>2, <2>3
<1>4. CASE downgrade /\ c = last
  <2>1. DefaultModel("cheap") \in Models
    BY Zenon DEF DefaultModel, Models, PricedModels, VisionModels
  <2>2. "cheap" \in Tiers
    BY DEF Tiers
  <2> QED
    BY <1>1, <1>4, <2>1, <2>2
<1> QED
  BY <1>1, <1>2, <1>3, <1>4

\* The routed model is among the candidates.
LEMMA RoutedIsCandidate ==
  ASSUME NEW r, NEW s, NEW g, NEW downgrade, Sees(s, r.model)
  PROVE  [model |-> r.model, tier |-> r.tier, place |-> 0] \in Candidates(r, s, g, downgrade)
BY DEF Candidates, Sees

\* What a decision of the spend controls lets a turn pay: a call with all the tokens it
\* may have fits into what both budgets have left.
Fits(model, maxTokens, prompt, g, monthly, requestCost) ==
  LET cost == Cost(model, prompt, maxTokens) IN
  g.requestCap # NoCap \/ g.monthlyCap # NoCap =>
    /\ maxTokens \in Nat /\ Priced(model)
    /\ g.requestCap # NoCap => requestCost + cost <= g.requestCap
    /\ g.monthlyCap # NoCap => monthly + cost <= g.monthlyCap

Obeys(o, r, s, g, stage, prompt, monthly, requestCost) ==
  LET estimate(m) == Cost(m, prompt, CompletionTokens(s, stage)) IN
  /\ o.blocked \in BOOLEAN /\ o.routing \in Routed /\ o.maxTokens \in Nat \cup {NoCap}
  /\ o.routing.escalated = r.escalated
  /\ Sees(s, o.routing.model)
  /\ stage # "initial" => o.routing.model = r.model
  /\ Priced(r.model) => estimate(o.routing.model) <= estimate(r.model)
  /\ ~o.blocked => Fits(o.routing.model, o.maxTokens, prompt, g, monthly, requestCost)

\* The decision of the spend controls obeys.
LEMMA Controls ==
  ASSUME NEW r \in Routed, NEW s \in Signals, NEW g \in Settings, NEW stage, NEW prompt \in Nat,
         NEW monthly \in Nat, NEW requestCost \in Nat, Sees(s, r.model)
  PROVE  Obeys(enforceSpendControls(r, s, g, stage, prompt, monthly, requestCost),
               r, s, g, stage, prompt, monthly, requestCost)
<1> DEFINE left == Remaining(g.requestCap, requestCost)
           month == Remaining(g.monthlyCap, monthly)
           cap == minDefined(left, month)
           estimate(m) == Cost(m, prompt, CompletionTokens(s, stage))
           all == Candidates(r, s, g, stage = "initial")
           fitting == {c \in all : Priced(c.model) /\ estimate(c.model) <= cap}
           chosen == CHOOSE c \in fitting : \A d \in fitting : c.place <= d.place
           tokens == AffordableTokens(chosen.model, prompt, cap)
           o == enforceSpendControls(r, s, g, stage, prompt, monthly, requestCost)
           Goal == Obeys(o, r, s, g, stage, prompt, monthly, requestCost)
<1>1. g.requestCap \in Nat \cup {NoCap} /\ g.monthlyCap \in Nat \cup {NoCap}
  BY DEF Settings
<1>2. /\ left \in Nat \cup {NoCap} /\ month \in Nat \cup {NoCap}
      /\ left = NoCap <=> g.requestCap = NoCap
      /\ month = NoCap <=> g.monthlyCap = NoCap
  BY <1>1, RemainingTyped
<1>3. /\ cap \in Nat \cup {NoCap}
      /\ cap = NoCap <=> g.requestCap = NoCap /\ g.monthlyCap = NoCap
      /\ left # NoCap => cap <= left
      /\ month # NoCap => cap <= month
  <2> HIDE DEF left, month
  <2> QED
    BY <1>2, SmallerCap
<1>4. \A m : estimate(m) \in Nat \cup {NoCap}
  BY CompletionTyped, CostTyped
<1>5. o = IF cap = NoCap THEN [blocked |-> FALSE, routing |-> r, maxTokens |-> NoCap]
          ELSE IF fitting = {} THEN [blocked |-> TRUE, routing |-> r, maxTokens |-> NoCap]
          ELSE [blocked |-> tokens < MIN_COMPLETION_TOKENS, maxTokens |-> tokens,
                routing |-> [r EXCEPT !.model = chosen.model, !.tier =
                               IF chosen.model = r.model THEN r.tier ELSE chosen.tier]]
  BY Zenon DEF enforceSpendControls
<1> SUFFICES Goal
  OBVIOUS
<1> HIDE DEF o, cap, estimate
<1>6. ASSUME o.routing = r, o.maxTokens = NoCap, o.blocked \in BOOLEAN, o.blocked \/ cap = NoCap
      PROVE  Goal
  <2>1. estimate(r.model) <= estimate(r.model)
    <3>1. estimate(r.model) \in Int
      BY <1>4 DEF NoCap
    <3> QED
      BY <3>1
  <2>2. ~o.blocked => Fits(o.routing.model, o.maxTokens, prompt, g, monthly, requestCost)
    BY <1>3, <1>6 DEF Fits
  <2> QED
    BY <1>6, <2>1, <2>2 DEF Obeys, estimate
<1>7. CASE cap = NoCap
  <2>1. o.routing = r /\ o.maxTokens = NoCap /\ o.blocked \in BOOLEAN
    BY <1>5, <1>7
  <2> QED
    BY <1>6, <1>7, <2>1
<1>8. CASE cap # NoCap /\ fitting = {}
  <2>1. o = [blocked |-> TRUE, routing |-> r, maxTokens |-> NoCap]
    BY <1>5, <1>8
  <2>2. o.routing = r /\ o.maxTokens = NoCap /\ o.blocked \in BOOLEAN /\ o.blocked
    BY <2>1
  <2> QED
    BY <1>6, <2>2
<1>9. CASE cap # NoCap /\ fitting # {}
  <2>1. \A c \in fitting : c \in all /\ c.place \in Nat
    BY CandidatesTyped
  <2>2. \E c \in fitting : \A d \in fitting : c.place <= d.place
    <3> DEFINE places == {c.place : c \in fitting}
    <3>1. places \in SUBSET Nat /\ places # {}
      BY <1>9, <2>1
    <3>2. \E n \in places : \A m \in places : n <= m
      <4> HIDE DEF places
      <4> QED
        BY <3>1, Least
    <3> HIDE DEF fitting
    <3> QED
      BY <3>2
  <2>3. chosen \in fitting /\ \A d \in fitting : chosen.place <= d.place
    <3> HIDE DEF fitting
    <3> QED
      BY <2>2
  <2>4. chosen \in all /\ Priced(chosen.model) /\ estimate(chosen.model) <= cap
    BY <2>3
  <2>5. /\ chosen.model \in Models \cup {"none"} /\ chosen.tier \in Tiers /\ chosen.place \in Nat
        /\ Sees(s, chosen.model)
        /\ stage # "initial" \/ chosen.place = 0 => chosen.model = r.model
    <3> HIDE DEF chosen
    <3> QED
      BY <2>4, CandidatesTyped
  <2>6. Priced(r.model) => estimate(chosen.model) <= estimate(r.model)
    <3> SUFFICES ASSUME Priced(r.model) PROVE estimate(chosen.model) <= estimate(r.model)
      OBVIOUS
    <3> DEFINE first == [model |-> r.model, tier |-> r.tier, place |-> 0]
    <3>1. first \in all
      BY RoutedIsCandidate
    <3>2. estimate(r.model) \in Int /\ estimate(chosen.model) \in Int /\ cap \in Int
      BY <1>3, <1>4 DEF NoCap
    <3>3. CASE estimate(r.model) <= cap
      <4>1. first \in fitting
        BY <3>1, <3>3
      <4>2. chosen.place <= 0
        BY <2>3, <4>1
      <4>3. chosen.place = 0
        BY <2>5, <4>2
      <4>4. chosen.model = r.model
        BY <2>5, <4>3
      <4> HIDE DEF chosen
      <4> QED
        BY <3>2, <4>4
    <3>4. CASE ~(estimate(r.model) <= cap)
      <4> HIDE DEF chosen
      <4> QED
        BY <2>4, <3>2, <3>4
    <3> QED
      BY <3>3, <3>4
  <2> HIDE DEF chosen, fitting
  <2>7. cap \in Nat
    BY <1>3, <1>9
  <2>8. tokens \in Nat /\ (tokens > 0 => Cost(chosen.model, prompt, tokens) <= cap)
    BY <2>4, <2>7, AffordableFits
  <2> DEFINE route == [r EXCEPT !.model = chosen.model, !.tier =
                         IF chosen.model = r.model THEN r.tier ELSE chosen.tier]
             lacks == tokens < MIN_COMPLETION_TOKENS
  <2>12. lacks \in BOOLEAN
    BY <2>8 DEF MIN_COMPLETION_TOKENS
  <2>9. o = [blocked |-> lacks, maxTokens |-> tokens, routing |-> route]
    BY <1>5, <1>9
  <2>10. route \in Routed /\ route.model = chosen.model /\ route.escalated = r.escalated
    BY <2>5 DEF Routed
  <2> HIDE DEF tokens, route, lacks
  <2>11. ~o.blocked => Fits(chosen.model, tokens, prompt, g, monthly, requestCost)
    <3> SUFFICES ASSUME ~o.blocked PROVE Fits(chosen.model, tokens, prompt, g, monthly, requestCost)
      OBVIOUS
    <3> DEFINE cost == Cost(chosen.model, prompt, tokens)
    <3>0. ~lacks
      BY <2>9
    <3>1. ~(tokens < 96) /\ tokens > 0
      BY <2>8, <3>0 DEF MIN_COMPLETION_TOKENS, lacks
    <3>2. cost \in Nat /\ cost > 0 /\ cost <= cap
      <4>1. cost = prompt * Pricing(chosen.model).input + tokens * Pricing(chosen.model).output
        BY <2>4 DEF Cost
      <4>2. Pricing(chosen.model).input \in Nat /\ Pricing(chosen.model).output \in Nat \ {0}
        BY <2>4, Prices
      <4>3. prompt * Pricing(chosen.model).input \in Nat
        BY <4>2
      <4>4. tokens * Pricing(chosen.model).output \in Nat \ {0}
        BY <2>4, <2>8, <3>1, Prices
      <4>5. cost \in Nat /\ cost > 0
        BY <4>1, <4>3, <4>4
      <4> QED
        BY <2>8, <3>1, <4>5
    <3> HIDE DEF cost
    <3>3. g.requestCap # NoCap => requestCost + cost <= g.requestCap
      <4>1. left # NoCap => cost <= left
        <5> HIDE DEF left
        <5> QED
          BY <1>2, <1>3, <2>7, <3>2 DEF NoCap
      <4> QED
        BY <1>1, <1>2, <3>2, <4>1, RemainingTyped
    <3>4. g.monthlyCap # NoCap => monthly + cost <= g.monthlyCap
      <4>1. month # NoCap => cost <= month
        <5> HIDE DEF month
        <5> QED
          BY <1>2, <1>3, <2>7, <3>2 DEF NoCap
      <4> QED
        BY <1>1, <1>2, <3>2, <4>1, RemainingTyped
    <3> QED
      BY <2>4, <2>8, <3>3, <3>4 DEF Fits, cost
  <2>13. o.blocked = lacks /\ o.maxTokens = tokens /\ o.routing = route
    BY <2>9
  <2>14. /\ o.blocked \in BOOLEAN /\ o.routing \in Routed /\ o.maxTokens \in Nat \cup {NoCap}
         /\ o.routing.escalated = r.escalated
         /\ Sees(s, o.routing.model)
         /\ stage # "initial" => o.routing.model = r.model
    BY <2>5, <2>8, <2>10, <2>12, <2>13
  <2>15. Priced(r.model) => estimate(o.routing.model) <= estimate(r.model)
    BY <2>6, <2>10, <2>13
  <2>16. ~o.blocked => Fits(o.routing.model, o.maxTokens, prompt, g, monthly, requestCost)
    BY <2>10, <2>11, <2>13, Zenon
  <2> QED
    BY <2>14, <2>15, <2>16, Zenon DEF Obeys, estimate
<1> QED
  BY <1>7, <1>8, <1>9

-----------------------------------------------------------------------------
(* The inductive invariant.                                                *)

Unpaid == {"idle", "finding", "creating", "meeting", "joining", "preparing", "calling",
           "retrying", "apologizing"}
Deciding == {"calling", "retrying", "using_tools", "following"}

\* What a turn has at a stage: a thread and a user unless it is idle, no cost before a call was
\* answered, and a fact to remember.
Staged(r) ==
  /\ r.pc = "idle" <=> r.thread = NoThread
  /\ r.pc # "idle" => r.user \in Users
  /\ r.pc \in Unpaid => r.cost = 0
  /\ r.pc \in {"remembering", "storing", "inserting"} => r.fact # NoFact
Stages == \A t \in Slots : Staged(turn[t])

\* A turn meets and joins a conversation that has its row.
Joined == \A t \in Slots : turn[t].pc \in {"meeting", "joining"} => turn[t].thread \in conversations

\* What the call under way would cost with the estimated prompt, both budgets bear.
Affords(g, r) ==
  /\ r.pc \in {"calling", "retrying"} =>
       Fits(r.routing.model, r.maxTokens, PromptTokens["initial"], g, r.monthly, 0)
  /\ r.pc = "following" =>
       Fits(r.routing.model, r.maxTokens, PromptTokens["follow_up"], g, r.monthly + r.cost, r.cost)
Budgets == \A t \in Slots : Affords(settings, turn[t])

\* The model of a turn suits its message, also while the tools are used.
Suits(g, r) == r.pc \in Deciding =>
  LET first == routeModel(r.kind, g).model
      estimate(m) == Cost(m, PromptTokens["initial"], CompletionTokens(r.kind, "initial"))
  IN /\ Sees(r.kind, r.routing.model)
     /\ ~r.routing.escalated /\ Priced(first) => estimate(r.routing.model) <= estimate(first)
Suited == \A t \in Slots : Suits(settings, turn[t])

\* What was paid in a slot is within the budgets but for the excess of its last call, and
\* a turn that decides on a call knows at least what its slot has logged: it read the sum
\* of all slots, and nobody else logs for its own.
Bounded(g, r, logged, beyond) ==
  /\ g.requestCap # NoCap => r.cost <= g.requestCap + beyond
  /\ g.monthlyCap # NoCap =>
       /\ logged + Unlogged(r) <= g.monthlyCap + beyond
       /\ r.pc \in Deciding => logged <= r.monthly
Bounds == \A t \in Slots : Bounded(settings, turn[t], usage[t], excess[t])

\* A thread that never had two turns at once: what one is about to create is not there.
Lone(c) ==
  /\ \A t, u \in Slots : turn[t].thread = c /\ turn[u].thread = c => t = u
  /\ \A t \in Slots : turn[t].thread = c =>
       /\ turn[t].pc = "creating" => c \notin conversations
       /\ turn[t].pc = "joining" => <<c, turn[t].user>> \notin participants
Apart == \A c \in Threads \ raced : Lone(c)

\* The turns of a user, and those about to insert a row, in a function from slots to turns.
Busy(tn, user) == {t \in Slots : tn[t].pc # "idle" /\ tn[t].user = user}
Inserting(tn, user, f) == {t \in Busy(tn, user) : tn[t].pc = "inserting" /\ tn[t].fact = f}

\* The rows of a fact and the turns that will insert one, which all looked before the first
\* row was there; the same of titles.
Rows == \A user \in Users :
  /\ Cardinality(Busy(turn, user)) <= atOnce[user]
  /\ \A f \in Facts : memory[user][f] + Cardinality(Inserting(turn, user, f)) <= atOnce[user]
Titles == \A c \in Threads : titles[c] + titling[c] <= titlers[c]

IInv == TypeOK /\ Stages /\ Joined /\ Budgets /\ Suited /\ Bounds /\ Apart /\ Rows /\ Titles
          /\ LogIsComplete /\ FailsOnlyInARace

-----------------------------------------------------------------------------
(* How the steps of a turn change its record.                              *)

Others(t, r) == turn' = [turn EXCEPT ![t] = r]

\* What is assumed of the settings and of the prompts.
LEMMA Constants ==
  /\ SettingsSet \subseteq Settings
  /\ PromptTokens["initial"] \in Nat /\ PromptTokens["follow_up"] \in Nat
BY TurnsAssumption DEF Settings

\* A slot without a turn has a record of a turn.
LEMMA IdleTyped == ASSUME Signals # {} PROVE Idle \in Turn
<1>1. (CHOOSE s \in Signals : TRUE) \in Signals
  OBVIOUS
<1>2. NoRoute \in Routed
  BY DEF NoRoute, Routed, Tiers
<1> DEFINE kind == CHOOSE s \in Signals : TRUE
<1> HIDE DEF kind
<1>3. Idle = [pc |-> "idle", thread |-> NoThread, user |-> NoUser, kind |-> kind, fact |-> NoFact,
              routing |-> NoRoute, maxTokens |-> NoCap, monthly |-> 0, cost |-> 0]
  BY DEF Idle, kind
<1> QED
  BY <1>1, <1>2, <1>3 DEF Turn, Pcs, kind

\* There are messages.
LEMMA SignalsExist == Signals # {}
<1>1. [complexity |-> "low", vision |-> FALSE, tools |-> FALSE, followUp |-> FALSE] \in Signals
  BY DEF Signals
<1> QED
  BY <1>1

\* Records that differ in their pc only.
Kept(q, r) ==
  /\ r.thread = q.thread /\ r.user = q.user /\ r.kind = q.kind /\ r.fact = q.fact
  /\ r.routing = q.routing
  /\ r.maxTokens = q.maxTokens /\ r.monthly = q.monthly /\ r.cost = q.cost

\* A turn that goes on changes its place only.
LEMMA Going ==
  ASSUME turn \in [Slots -> Turn], NEW t \in Slots, NEW pc \in Pcs, Goes(t, pc)
  PROVE  /\ turn'[t] \in Turn /\ Others(t, turn'[t])
         /\ turn'[t].pc = pc /\ Kept(turn[t], turn'[t])
<1> DEFINE q == turn[t]
           r == [pc |-> pc, thread |-> q.thread, user |-> q.user,
                 kind |-> q.kind, fact |-> q.fact,
                 routing |-> q.routing, maxTokens |-> q.maxTokens, monthly |-> q.monthly,
                 cost |-> q.cost]
<1>1. q \in Turn
  OBVIOUS
<1>2. r \in Turn /\ [q EXCEPT !.pc = pc] = r
  BY <1>1 DEF Turn
<1>3. turn' = [turn EXCEPT ![t] = r]
  BY <1>2 DEF Goes
<1>4. r.pc = pc /\ Kept(q, r)
  BY DEF Kept
<1> HIDE DEF r
<1>5. turn'[t] = r
  BY <1>3
<1> QED
  BY <1>2, <1>3, <1>4, <1>5 DEF Others

\* A turn that ends leaves its slot idle.
LEMMA Ending ==
  ASSUME turn \in [Slots -> Turn], NEW t \in Slots, Ends(t)
  PROVE  turn'[t] \in Turn /\ Others(t, turn'[t]) /\ turn'[t] = Idle
<1>1. turn' = [turn EXCEPT ![t] = Idle] /\ turn'[t] = Idle
  BY DEF Ends
<1> QED
  BY <1>1, IdleTyped, SignalsExist DEF Others

\* A turn for which the spend controls decide a call.
LEMMA Controlling ==
  ASSUME turn \in [Slots -> Turn], NEW t \in Slots, NEW o, NEW monthly \in Nat,
         NEW pc \in Pcs, NEW blocked \in Pcs, o.blocked \in BOOLEAN, o.routing \in Routed,
         o.maxTokens \in Nat \cup {NoCap}, Controlled(t, o, monthly, pc, blocked)
  PROVE  /\ turn'[t] \in Turn /\ Others(t, turn'[t])
         /\ turn'[t].pc = IF o.blocked THEN blocked ELSE pc
         /\ turn'[t].thread = turn[t].thread /\ turn'[t].user = turn[t].user
         /\ turn'[t].kind = turn[t].kind
         /\ turn'[t].fact = turn[t].fact /\ turn'[t].cost = turn[t].cost
         /\ turn'[t].routing = o.routing /\ turn'[t].maxTokens = o.maxTokens
         /\ turn'[t].monthly = monthly
<1> DEFINE q == turn[t]
           goes == IF o.blocked THEN blocked ELSE pc
           r == [pc |-> goes, thread |-> q.thread, user |-> q.user,
                 kind |-> q.kind, fact |-> q.fact,
                 routing |-> o.routing, maxTokens |-> o.maxTokens, monthly |-> monthly,
                 cost |-> q.cost]
<1>1. q \in Turn /\ goes \in Pcs
  OBVIOUS
<1> HIDE DEF goes
<1>2. turn' = [turn EXCEPT ![t].pc = goes, ![t].routing = o.routing,
                           ![t].maxTokens = o.maxTokens, ![t].monthly = monthly]
  BY DEF Controlled, goes
<1>3. r \in Turn
  BY <1>1 DEF Turn
<1>4. turn'[t] = r
  BY <1>1, <1>2 DEF Turn
<1>5. turn' = [turn EXCEPT ![t] = turn'[t]]
  BY <1>2
<1> QED
  BY <1>3, <1>4, <1>5 DEF Others, goes

\* The same, whatever they decide.
LEMMA ControlledPc ==
  ASSUME turn \in [Slots -> Turn], NEW t \in Slots, NEW o, NEW monthly, NEW pc, NEW blocked,
         Controlled(t, o, monthly, pc, blocked)
  PROVE  /\ turn'[t].pc \in {pc, blocked} /\ turn'[t].monthly = monthly
         /\ turn'[t].thread = turn[t].thread /\ turn'[t].user = turn[t].user
         /\ turn'[t].fact = turn[t].fact
         /\ turn'[t].cost = turn[t].cost
<1> DEFINE goes == IF o.blocked THEN blocked ELSE pc
<1>1. turn' = [turn EXCEPT ![t].pc = goes, ![t].routing = o.routing,
                           ![t].maxTokens = o.maxTokens, ![t].monthly = monthly]
  BY DEF Controlled
<1>2. goes \in {pc, blocked}
  OBVIOUS
<1> HIDE DEF goes
<1> QED
  BY <1>1, <1>2 DEF Turn

\* A turn whose call was answered pays for it.
LEMMA Answering ==
  ASSUME turn \in [Slots -> Turn], NEW t \in Slots, NEW pc \in Pcs, NEW cost \in Nat,
         turn' = [turn EXCEPT ![t].pc = pc, ![t].cost = cost]
  PROVE  /\ turn'[t] \in Turn /\ Others(t, turn'[t]) /\ turn'[t].pc = pc /\ turn'[t].cost = cost
         /\ turn'[t].thread = turn[t].thread /\ turn'[t].user = turn[t].user
         /\ turn'[t].kind = turn[t].kind
         /\ turn'[t].fact = turn[t].fact /\ turn'[t].routing = turn[t].routing
         /\ turn'[t].maxTokens = turn[t].maxTokens /\ turn'[t].monthly = turn[t].monthly
<1> DEFINE q == turn[t]
           r == [pc |-> pc, thread |-> q.thread, user |-> q.user,
                 kind |-> q.kind, fact |-> q.fact,
                 routing |-> q.routing, maxTokens |-> q.maxTokens, monthly |-> q.monthly,
                 cost |-> cost]
<1>1. q \in Turn
  OBVIOUS
<1>2. r \in Turn
  BY <1>1 DEF Turn
<1>3. turn'[t] = r
  BY <1>1 DEF Turn
<1>4. turn' = [turn EXCEPT ![t] = turn'[t]]
  OBVIOUS
<1> QED
  BY <1>2, <1>3, <1>4 DEF Others

\* The log of the month holds at least what each slot has logged.
LEMMA RecordedCovers ==
  ASSUME TypeOK, NEW t \in Slots
  PROVE  Recorded \in Nat /\ usage[t] <= Recorded
BY SumCovers, TurnsAssumption DEF TypeOK, Recorded

\* The spend controls decide for a turn as Controls has it.
LEMMA Deciders ==
  ASSUME TypeOK, NEW t \in Slots, NEW r \in Routed, Sees(turn[t].kind, r.model),
         NEW stage \in {"initial", "follow_up"}, NEW monthly \in Nat, NEW cost \in Nat
  PROVE  Obeys(Outcome(t, r, stage, monthly, cost), r, turn[t].kind, settings, stage,
               PromptTokens[stage], monthly, cost)
<1>1. turn[t].kind \in Signals /\ settings \in Settings /\ PromptTokens[stage] \in Nat
  BY Constants DEF TypeOK, Turn
<1> QED
  BY <1>1, Controls, Zenon DEF Outcome

\* What an answered call costs, and how many tokens it had.
LEMMA Replies ==
  ASSUME TypeOK, NEW t \in Slots, NEW stage \in {"initial", "follow_up"}, NEW a \in Answered(t, stage)
  PROVE  /\ Price(a) \in Nat /\ Expected(t, stage, a) \in Nat /\ a.completion \in Nat
         /\ turn[t].maxTokens \in Nat => a.completion <= turn[t].maxTokens
<1> DEFINE limit == turn[t].maxTokens
           estimated == CompletionTokens(turn[t].kind, stage)
           n == a.completion
<1>1. limit \in Nat \cup {NoCap} /\ turn[t].kind \in Signals /\ PromptTokens[stage] \in Nat
  BY Constants DEF TypeOK, Turn
<1>2. estimated \in Nat
  BY <1>1, CompletionTyped
<1>3. /\ n \in (IF limit = NoCap THEN {estimated} ELSE {minDefined(estimated, limit), limit})
      /\ a.prompt \in PromptCharges[stage]
  BY DEF Answered
<1>4. a.prompt \in Nat
  BY <1>3, TurnsAssumption
<1> HIDE DEF limit, estimated, n
<1>5. limit # NoCap => limit \in Nat /\ minDefined(estimated, limit) <= limit
                       /\ minDefined(estimated, limit) \in Nat
  <2>1. estimated \in Nat \cup {NoCap} /\ estimated # NoCap
    BY <1>2 DEF NoCap
  <2>2. /\ minDefined(estimated, limit) \in Nat \cup {NoCap}
        /\ minDefined(estimated, limit) # NoCap
        /\ limit # NoCap => minDefined(estimated, limit) <= limit
    BY <1>1, <2>1, SmallerCap
  <2> QED
    BY <1>1, <2>2
<1>6. n \in Nat /\ (limit \in Nat => n <= limit)
  BY <1>1, <1>2, <1>3, <1>5 DEF NoCap
<1>7. ASSUME NEW m, NEW prompt \in Nat PROVE Known(Cost(m, prompt, n)) \in Nat
  BY <1>6, CostTyped DEF Known
<1> QED
  BY <1>1, <1>4, <1>6, <1>7 DEF Price, Expected, limit, n

\* A call costs no more than what the spend controls left for it, and its excess.
LEMMA Charges ==
  ASSUME TypeOK, NEW t \in Slots, NEW stage \in {"initial", "follow_up"},
         NEW a \in Answered(t, stage), NEW monthly \in Nat, NEW requestCost \in Nat,
         Fits(turn[t].routing.model, turn[t].maxTokens, PromptTokens[stage], settings,
              monthly, requestCost), Pays(t, stage, a)
  PROVE  /\ Price(a) \in Nat /\ spent'[t] = spent[t] + Price(a) /\ spent' \in [Slots -> Nat]
         /\ excess' \in [Slots -> Nat]
         /\ \A u \in Slots \ {t} : spent'[u] = spent[u] /\ excess'[u] = excess[u]
         /\ settings.requestCap # NoCap => requestCost + Price(a) <= settings.requestCap + excess'[t]
         /\ settings.monthlyCap # NoCap => monthly + Price(a) <= settings.monthlyCap + excess'[t]
<1> DEFINE model == turn[t].routing.model
           limit == turn[t].maxTokens
           prompt == PromptTokens[stage]
           n == a.completion
           price == Price(a)
           expected == Expected(t, stage, a)
           beyond == Larger(price - expected, 0)
<1>1. prompt \in Nat /\ settings \in Settings /\ spent \in [Slots -> Nat] /\ excess \in [Slots -> Nat]
  BY Constants DEF TypeOK
<1>2. price \in Nat /\ expected \in Nat /\ n \in Nat /\ (limit \in Nat => n <= limit)
  BY Replies
<1>3. expected = Known(Cost(model, prompt, n))
  BY DEF Expected
<1>4. spent' = [spent EXCEPT ![t] = @ + price] /\ excess' = [excess EXCEPT ![t] = beyond]
  BY DEF Pays
<1> HIDE DEF price, expected, limit, prompt, model, n
<1>5. beyond \in Nat /\ price <= expected + beyond
  BY <1>2 DEF Larger
<1> HIDE DEF beyond
<1>6. /\ spent'[t] = spent[t] + price /\ spent' \in [Slots -> Nat]
      /\ excess' \in [Slots -> Nat] /\ excess'[t] = beyond
      /\ \A u \in Slots \ {t} : spent'[u] = spent[u] /\ excess'[u] = excess[u]
  BY <1>1, <1>2, <1>4, <1>5
<1>7. CASE settings.requestCap = NoCap /\ settings.monthlyCap = NoCap
  BY <1>2, <1>6, <1>7 DEF price
<1>8. CASE settings.requestCap # NoCap \/ settings.monthlyCap # NoCap
  <2> DEFINE most == Cost(model, prompt, limit)
  <2>1. /\ limit \in Nat /\ Priced(model)
        /\ settings.requestCap # NoCap => requestCost + most <= settings.requestCap
        /\ settings.monthlyCap # NoCap => monthly + most <= settings.monthlyCap
    BY <1>8 DEF Fits, limit, prompt, model
  <2>2. expected <= most /\ most \in Nat
    <3>1. Cost(model, prompt, n) \in Nat /\ Cost(model, prompt, n) <= most
      BY <1>1, <1>2, <2>1, CostGrows
    <3>2. most \in Nat
      <4>1. limit <= limit
        BY <2>1
      <4> QED
        BY <1>1, <2>1, <4>1, CostGrows
    <3> QED
      BY <1>3, <3>1, <3>2 DEF Known, NoCap
  <2>3. settings.requestCap \in Int /\ settings.monthlyCap \in Int
    BY <1>1 DEF Settings, NoCap
  <2> HIDE DEF most
  <2>4. /\ settings.requestCap # NoCap => requestCost + price <= settings.requestCap + beyond
        /\ settings.monthlyCap # NoCap => monthly + price <= settings.monthlyCap + beyond
    BY <1>2, <1>5, <2>1, <2>2, <2>3
  <2> QED
    BY <1>2, <1>6, <2>4 DEF price
<1> QED
  BY <1>7, <1>8

SlotStep(t) == Step(t) \/ StatementFails(t) \/ StepSkipped(t)

\* Every step of a turn keeps its thread and user or ends it.
Moved(t, q, r) ==
  /\ r \in Turn /\ Others(t, r) /\ Staged(r) /\ q.pc # "idle"
  /\ (r.thread = q.thread /\ r.user = q.user) \/ r = Idle

\* It holds of every step.
LEMMA Movement ==
  ASSUME TypeOK, Stages, Suited, NEW t \in Slots, SlotStep(t)
  PROVE  Moved(t, turn[t], turn'[t])
<1> DEFINE q == turn[t]
           r == turn'[t]
<1>1. turn \in [Slots -> Turn] /\ q \in Turn /\ Staged(q)
  BY DEF TypeOK, Stages
<1>2. ASSUME NEW pc \in Pcs, Goes(t, pc), q.pc # "idle", pc # "idle",
             pc \in Unpaid => q.pc \in Unpaid,
             pc \in {"remembering", "storing", "inserting"} => q.fact # NoFact
      PROVE  Moved(t, q, r)
  <2>1. r \in Turn /\ Others(t, r) /\ r.pc = pc /\ Kept(q, r)
    BY <1>1, <1>2, Going
  <2> QED
    BY <1>1, <1>2, <2>1 DEF Moved, Staged, Kept
<1>3. ASSUME Ends(t), q.pc # "idle"
      PROVE  Moved(t, q, r)
  <2>1. r \in Turn /\ Others(t, r) /\ r = Idle
    BY <1>1, <1>3, Ending
  <2>2. Staged(Idle)
    BY DEF Staged, Idle, Unpaid
  <2> QED
    BY <1>3, <2>1, <2>2 DEF Moved
<1>4. ASSUME FindConversation(t) PROVE Moved(t, q, r)
  <2>1. \E pc \in {"meeting", "creating"} : Goes(t, pc) /\ q.pc = "finding"
    BY <1>4 DEF FindConversation
  <2> QED
    BY <1>2, <2>1 DEF Pcs, Unpaid
<1>5. ASSUME CreateConversation(t) PROVE Moved(t, q, r)
  <2>1. q.pc = "creating" /\ (Ends(t) \/ Goes(t, "meeting"))
    BY <1>5 DEF CreateConversation, Throws
  <2> QED
    BY <1>2, <1>3, <2>1 DEF Pcs, Unpaid
<1>6. ASSUME Meet(t) PROVE Moved(t, q, r)
  <2>1. \E pc \in {"preparing", "joining"} : Goes(t, pc) /\ q.pc = "meeting"
    BY <1>6 DEF Meet
  <2> QED
    BY <1>2, <2>1 DEF Pcs, Unpaid
<1>7. ASSUME Join(t) PROVE Moved(t, q, r)
  <2>1. q.pc = "joining" /\ (Ends(t) \/ Goes(t, "preparing"))
    BY <1>7 DEF Join, Throws
  <2> QED
    BY <1>2, <1>3, <2>1 DEF Pcs, Unpaid
<1>8. ASSUME NEW o, NEW monthly \in Nat, NEW pc \in Pcs, NEW blocked \in Pcs,
             Controlled(t, o, monthly, pc, blocked), o.blocked \in BOOLEAN,
             o.routing \in Routed, o.maxTokens \in Nat \cup {NoCap}, q.pc # "idle",
             pc # "idle" /\ blocked # "idle", pc \in Unpaid \/ blocked \in Unpaid => q.pc \in Unpaid,
             pc \notin {"remembering", "storing", "inserting"},
             blocked \notin {"remembering", "storing", "inserting"}
      PROVE  Moved(t, q, r)
  <2>1. /\ r \in Turn /\ Others(t, r) /\ (r.pc = pc \/ r.pc = blocked)
        /\ r.thread = q.thread /\ r.user = q.user /\ r.fact = q.fact /\ r.cost = q.cost
    <3>1. /\ r \in Turn /\ Others(t, r) /\ r.pc = IF o.blocked THEN blocked ELSE pc
          /\ r.thread = q.thread /\ r.user = q.user /\ r.kind = q.kind
          /\ r.fact = q.fact /\ r.cost = q.cost
          /\ r.routing = o.routing /\ r.maxTokens = o.maxTokens /\ r.monthly = monthly
      <4>1. /\ Controlled(t, o, monthly, pc, blocked) /\ o.blocked \in BOOLEAN
            /\ o.routing \in Routed /\ o.maxTokens \in Nat \cup {NoCap}
        BY <1>8
      <4> QED
        BY <1>1, <4>1, Controlling
    <3> QED
      BY <3>1
  <2> QED
    BY <1>1, <1>8, <2>1 DEF Moved, Staged
<1>9. ASSUME Prepare(t) PROVE Moved(t, q, r)
  <2> DEFINE monthly == IF settings.monthlyCap # NoCap THEN Recorded ELSE 0
             route == routeModel(q.kind, settings)
             o == Outcome(t, route, "initial", monthly, 0)
  <2>1. monthly \in Nat /\ route \in Routed /\ Sees(q.kind, route.model)
    BY Constants, RouteTyped, RecordedCovers DEF TypeOK, Turn
  <2>2. q.pc = "preparing" /\ Controlled(t, o, monthly, "calling", "apologizing")
    BY <1>9 DEF Prepare
  <2> HIDE DEF monthly, route
  <2>3. o.blocked \in BOOLEAN /\ o.routing \in Routed /\ o.maxTokens \in Nat \cup {NoCap}
    BY <2>1, Deciders, Zenon DEF Obeys
  <2> HIDE DEF o
  <2> QED
    BY <1>8, <2>1, <2>2, <2>3 DEF Pcs, Unpaid
<1>10. ASSUME NEW pc \in Pcs, NEW cost \in Nat, q.pc # "idle", pc \in {"using_tools", "replying"},
              turn' = [turn EXCEPT ![t].pc = pc, ![t].cost = cost]
       PROVE  Moved(t, q, r)
  <2>1. r \in Turn /\ Others(t, r) /\ r.pc = pc /\ r.cost = cost
        /\ r.thread = q.thread /\ r.user = q.user
    BY <1>1, <1>10, Answering
  <2> QED
    BY <1>1, <1>10, <2>1 DEF Moved, Staged, Unpaid
<1>12. ASSUME Answers(t) PROVE Moved(t, q, r)
  <2>1. PICK a \in Answered(t, "initial"), pc \in {"using_tools", "replying"} :
          /\ q.pc \in {"calling", "retrying"}
          /\ turn' = [turn EXCEPT ![t].pc = pc, ![t].cost = Price(a)]
    BY <1>12 DEF Answers
  <2>2. Price(a) \in Nat
    BY <2>1, Replies
  <2> QED
    BY <1>10, <2>1, <2>2 DEF Pcs
<1>13. ASSUME CallFails(t) PROVE Moved(t, q, r)
  <2> DEFINE next == escalateModel(q.routing, q.kind, settings)
             o == Outcome(t, next, "initial", q.monthly, 0)
  <2>1. q.monthly \in Nat /\ next \in Routed /\ Sees(q.kind, next.model)
    BY Constants, EscalateTyped DEF TypeOK, Turn
  <2>2. q.pc = "calling" /\ (Controlled(t, o, q.monthly, "retrying", "apologizing")
                               \/ Goes(t, "apologizing"))
    BY <1>13 DEF CallFails
  <2> HIDE DEF next
  <2>3. o.blocked \in BOOLEAN /\ o.routing \in Routed /\ o.maxTokens \in Nat \cup {NoCap}
    BY <2>1, Deciders, Zenon DEF Obeys
  <2> HIDE DEF o
  <2> QED
    BY <1>2, <1>8, <2>1, <2>2, <2>3 DEF Pcs, Unpaid
<1>14. ASSUME RetryFails(t) PROVE Moved(t, q, r)
  <2>1. q.pc = "retrying" /\ Goes(t, "apologizing")
    BY <1>14 DEF RetryFails
  <2> QED
    BY <1>2, <2>1 DEF Pcs, Unpaid
<1>15. ASSUME Apologize(t) PROVE Moved(t, q, r)
  <2>1. q.pc = "apologizing" /\ Ends(t)
    BY <1>15 DEF Apologize
  <2> QED
    BY <1>3, <2>1
<1>16. ASSUME UseTools(t) PROVE Moved(t, q, r)
  <2> DEFINE monthly == q.monthly + q.cost
             o == Outcome(t, q.routing, "follow_up", monthly, q.cost)
             kept == [o EXCEPT !.routing = q.routing]
  <2>1. /\ q.monthly \in Nat /\ q.cost \in Nat /\ monthly \in Nat /\ q.routing \in Routed
    BY <1>1 DEF Turn
  <2>2. q.pc = "using_tools" /\ (Controlled(t, kept, q.monthly, "following", "replying")
                                   \/ Goes(t, "replying"))
    BY <1>16 DEF UseTools
  <2>3. Sees(q.kind, q.routing.model)
    BY <2>2 DEF Suited, Suits, Deciding
  <2> HIDE DEF monthly
  <2>4. o.blocked \in BOOLEAN /\ o.maxTokens \in Nat \cup {NoCap}
    BY <2>1, <2>3, Deciders, Zenon DEF Obeys
  <2>5. kept.blocked = o.blocked /\ kept.maxTokens = o.maxTokens /\ kept.routing = q.routing
    <3>1. \E x, y, z : o = [blocked |-> x, routing |-> y, maxTokens |-> z]
      BY Zenon DEF Outcome, enforceSpendControls
    <3> HIDE DEF o
    <3> QED
      BY <3>1
  <2> HIDE DEF o, kept
  <2> QED
    BY <1>2, <1>8, <2>1, <2>2, <2>4, <2>5 DEF Pcs, Unpaid
<1>17. ASSUME FollowUpAnswers(t) PROVE Moved(t, q, r)
  <2>1. PICK a \in Answered(t, "follow_up") :
          /\ q.pc = "following"
          /\ turn' = [turn EXCEPT ![t].pc = "replying", ![t].cost = Added(q.cost, Price(a))]
    BY <1>1, <1>17 DEF FollowUpAnswers
  <2>2. Added(q.cost, Price(a)) \in Nat
    <3>1. Price(a) \in Nat
      BY <2>1, Replies
    <3> QED
      BY <1>1, <3>1 DEF Added, Turn
  <2> QED
    BY <1>10, <2>1, <2>2 DEF Pcs
<1>18. ASSUME FollowUpFails(t) PROVE Moved(t, q, r)
  <2>1. q.pc = "following" /\ Goes(t, "replying")
    BY <1>18 DEF FollowUpFails
  <2> QED
    BY <1>2, <2>1 DEF Pcs, Unpaid
<1>19. ASSUME Reply(t) PROVE Moved(t, q, r)
  <2>1. \E pc \in {"logging", "remembering"} :
          Goes(t, pc) /\ q.pc = "replying" /\ (pc = "remembering" => q.fact # NoFact)
    BY <1>19 DEF Reply
  <2> QED
    BY <1>2, <2>1 DEF Pcs, Unpaid
<1>20. ASSUME Remember(t) PROVE Moved(t, q, r)
  <2>1. \E pc \in {"logging", "storing"} : Goes(t, pc) /\ q.pc = "remembering"
    BY <1>20 DEF Remember
  <2> QED
    BY <1>1, <1>2, <2>1 DEF Pcs, Unpaid, Staged
<1>21. ASSUME Store(t) PROVE Moved(t, q, r)
  <2>1. \E pc \in {"logging", "inserting"} : Goes(t, pc) /\ q.pc = "storing"
    BY <1>21 DEF Store
  <2> QED
    BY <1>1, <1>2, <2>1 DEF Pcs, Unpaid, Staged
<1>22. ASSUME Insert(t) PROVE Moved(t, q, r)
  <2>1. Goes(t, "logging") /\ q.pc = "inserting"
    BY <1>22 DEF Insert
  <2> QED
    BY <1>2, <2>1 DEF Pcs, Unpaid
<1>23. ASSUME LogUsage(t) PROVE Moved(t, q, r)
  <2>1. Goes(t, "finishing") /\ q.pc = "logging"
    BY <1>23 DEF LogUsage
  <2> QED
    BY <1>2, <2>1 DEF Pcs, Unpaid
<1>24. ASSUME Finish(t) PROVE Moved(t, q, r)
  <2>1. q.pc = "finishing" /\ Ends(t)
    BY <1>24 DEF Finish
  <2> QED
    BY <1>3, <2>1
<1>25. ASSUME StatementFails(t) PROVE Moved(t, q, r)
  <2>1. q.pc # "idle" /\ Ends(t)
    BY <1>25 DEF StatementFails, Throws
  <2> QED
    BY <1>3, <2>1
<1>26. ASSUME StepSkipped(t) PROVE Moved(t, q, r)
  <2>1. \E pc \in {"logging", "finishing"} :
          Goes(t, pc) /\ q.pc \in {"remembering", "storing", "inserting", "logging"}
    BY <1>26 DEF StepSkipped
  <2> QED
    BY <1>2, <2>1 DEF Pcs, Unpaid
<1> QED
  BY <1>4, <1>5, <1>6, <1>7, <1>9, <1>12, <1>13, <1>14, <1>15, <1>16, <1>17, <1>18, <1>19,
     <1>20, <1>21, <1>22, <1>23, <1>24, <1>25, <1>26 DEF SlotStep, Step

\* Ways that neither pay nor decide on a call.
Plain == Pcs \ Deciding

\* What a step of a turn may have paid or decided.
LEMMA Decisions ==
  ASSUME TypeOK, Stages, Suited, Budgets, NEW t \in Slots, SlotStep(t)
  PROVE  Affords(settings, turn'[t]) /\ Suits(settings, turn'[t])
<1> DEFINE q == turn[t]
           r == turn'[t]
           Decided == Affords(settings, r) /\ Suits(settings, r)
<1>1. /\ turn \in [Slots -> Turn] /\ q \in Turn /\ Staged(q) /\ Affords(settings, q)
      /\ Suits(settings, q) /\ settings \in Settings
  BY Constants DEF TypeOK, Stages, Budgets, Suited
<1>0. settings.requestCap \in Nat \cup {NoCap} /\ settings.monthlyCap \in Nat \cup {NoCap}
  BY <1>1 DEF Settings
<1>2. ASSUME NEW pc \in Plain, Goes(t, pc) PROVE Decided
  <2>1. r.pc = pc /\ Kept(q, r)
    BY <1>1, <1>2, Going DEF Plain
  <2> QED
    BY <1>1, <2>1 DEF Affords, Suits, Kept, Plain, Deciding
<1>3. ASSUME Ends(t) PROVE Decided
  <2>1. r = Idle /\ Idle.pc = "idle" /\ Idle.cost = 0
    BY <1>1, <1>3, Ending DEF Idle
  <2> QED
    BY <1>0, <2>1 DEF Affords, Suits, Deciding
<1>4. ASSUME NEW route \in Routed, NEW monthly \in Nat, NEW pc \in {"calling", "retrying"},
             Sees(q.kind, route.model), q.cost = 0,
             route = routeModel(q.kind, settings) \/ route.escalated,
             Controlled(t, Outcome(t, route, "initial", monthly, 0), monthly, pc, "apologizing")
      PROVE  Decided
  <2> DEFINE o == Outcome(t, route, "initial", monthly, 0)
  <2>1. Obeys(o, route, q.kind, settings, "initial", PromptTokens["initial"], monthly, 0)
    BY <1>4, Deciders
  <2> HIDE DEF o
  <2>2. o.blocked \in BOOLEAN /\ o.routing \in Routed /\ o.maxTokens \in Nat \cup {NoCap}
    BY <2>1, Zenon DEF Obeys
  <2>3. /\ r.pc = IF o.blocked THEN "apologizing" ELSE pc
        /\ r.thread = q.thread /\ r.user = q.user /\ r.kind = q.kind
        /\ r.fact = q.fact /\ r.cost = q.cost
        /\ r.routing = o.routing /\ r.maxTokens = o.maxTokens /\ r.monthly = monthly
    <3>1. pc \in Pcs /\ "apologizing" \in Pcs
      BY <1>4 DEF Pcs
    <3> QED
      BY <1>1, <1>4, <2>2, <3>1, Controlling DEF o
  <2>4. CASE o.blocked
    <3>1. r.pc = "apologizing" /\ r.cost = 0
      BY <1>4, <2>3, <2>4
    <3> QED
      BY <1>0, <3>1 DEF Affords, Suits, Deciding
  <2>5. CASE ~o.blocked
    <3>1. r.pc = pc /\ r.cost = 0
      BY <1>4, <2>3, <2>5
    <3>2. Fits(r.routing.model, r.maxTokens, PromptTokens["initial"], settings, r.monthly, 0)
      BY <2>1, <2>3, <2>5, Zenon DEF Obeys
    <3>3. Affords(settings, r)
      BY <1>0, <1>4, <3>1, <3>2 DEF Affords
    <3>4. Sees(r.kind, r.routing.model) /\ r.routing.escalated = route.escalated
      BY <2>1, <2>3, Zenon DEF Obeys
    <3>5. Priced(route.model) =>
            Cost(r.routing.model, PromptTokens["initial"], CompletionTokens(r.kind, "initial"))
              <= Cost(route.model, PromptTokens["initial"], CompletionTokens(r.kind, "initial"))
      BY <2>1, <2>3, Zenon DEF Obeys
    <3>6. Suits(settings, r)
      <4>1. CASE route.escalated
        BY <3>4, <4>1, Zenon DEF Suits
      <4>2. CASE route = routeModel(q.kind, settings)
        BY <2>3, <3>4, <3>5, <4>2, Zenon DEF Suits
      <4> QED
        BY <1>4, <4>1, <4>2
    <3> QED
      BY <3>3, <3>6
  <2> QED
    BY <2>2, <2>4, <2>5
<1>5. ASSUME Prepare(t) PROVE Decided
  <2> DEFINE monthly == IF settings.monthlyCap # NoCap THEN Recorded ELSE 0
             route == routeModel(q.kind, settings)
  <2>1. monthly \in Nat /\ route \in Routed /\ Sees(q.kind, route.model)
    BY Constants, RouteTyped, RecordedCovers DEF TypeOK, Turn
  <2>2. q.pc = "preparing"
        /\ Controlled(t, Outcome(t, route, "initial", monthly, 0), monthly, "calling", "apologizing")
    BY <1>5 DEF Prepare
  <2>3. q.cost = 0
    BY <1>1, <2>2 DEF Staged, Unpaid
  <2>4. route = routeModel(q.kind, settings)
    OBVIOUS
  <2> HIDE DEF monthly, route
  <2> QED
    BY <1>4, <2>1, <2>2, <2>3, <2>4
<1>6. ASSUME CallFails(t) PROVE Decided
  <2> DEFINE next == escalateModel(q.routing, q.kind, settings)
  <2>1. q.monthly \in Nat /\ next \in Routed /\ Sees(q.kind, next.model) /\ next.escalated
    BY Constants, EscalateTyped DEF TypeOK, Turn
  <2>2. q.pc = "calling" /\ (Controlled(t, Outcome(t, next, "initial", q.monthly, 0), q.monthly,
                                        "retrying", "apologizing")
                               \/ Goes(t, "apologizing"))
    BY <1>6 DEF CallFails
  <2>3. q.cost = 0
    BY <1>1, <2>2 DEF Staged, Unpaid
  <2>4. "apologizing" \in Plain
    BY DEF Plain, Pcs, Deciding
  <2> HIDE DEF next
  <2> QED
    BY <1>2, <1>4, <2>1, <2>2, <2>3, <2>4
<1>7. ASSUME UseTools(t) PROVE Decided
  <2> DEFINE monthly == q.monthly + q.cost
             o == Outcome(t, q.routing, "follow_up", monthly, q.cost)
             kept == [o EXCEPT !.routing = q.routing]
  <2>1. /\ q.monthly \in Nat /\ q.cost \in Nat /\ monthly \in Nat /\ q.routing \in Routed
    BY <1>1 DEF Turn
  <2>2. q.pc = "using_tools" /\ (Controlled(t, kept, q.monthly, "following", "replying")
                                   \/ Goes(t, "replying"))
    BY <1>7 DEF UseTools
  <2>3. Sees(q.kind, q.routing.model)
    BY <2>2 DEF Suited, Suits, Deciding
  <2>4. Obeys(o, q.routing, q.kind, settings, "follow_up", PromptTokens["follow_up"], monthly, q.cost)
    <3> HIDE DEF monthly
    <3> QED
      BY <2>1, <2>3, Deciders
  <2>5. kept.blocked = o.blocked /\ kept.maxTokens = o.maxTokens /\ kept.routing = q.routing
    <3>1. \E x, y, z : o = [blocked |-> x, routing |-> y, maxTokens |-> z]
      BY Zenon DEF Outcome, enforceSpendControls
    <3> HIDE DEF o
    <3> QED
      BY <3>1
  <2> HIDE DEF o, kept, monthly
  <2>6. o.blocked \in BOOLEAN /\ o.maxTokens \in Nat \cup {NoCap} /\ o.routing.model = q.routing.model
    BY <2>4, Zenon DEF Obeys
  <2>7. CASE Goes(t, "replying")
    BY <1>2, <2>7 DEF Plain, Pcs, Deciding
  <2>8. CASE Controlled(t, kept, q.monthly, "following", "replying")
    <3>1. /\ r.pc = IF kept.blocked THEN "replying" ELSE "following"
          /\ r.thread = q.thread /\ r.user = q.user /\ r.kind = q.kind
          /\ r.fact = q.fact /\ r.cost = q.cost
          /\ r.routing = q.routing /\ r.maxTokens = o.maxTokens /\ r.monthly = q.monthly
      <4>1. "following" \in Pcs /\ "replying" \in Pcs
        BY DEF Pcs
      <4>2. /\ kept.blocked \in BOOLEAN /\ kept.routing \in Routed
            /\ kept.maxTokens \in Nat \cup {NoCap}
        BY <2>1, <2>5, <2>6
      <4> QED
        BY <1>1, <2>1, <2>5, <2>8, <4>1, <4>2, Controlling
    <3>2. r.pc = "replying" \/ (r.pc = "following" /\ ~o.blocked)
      BY <2>5, <2>6, <3>1
    <3>3. ~o.blocked => Fits(r.routing.model, r.maxTokens, PromptTokens["follow_up"], settings,
                             r.monthly + r.cost, r.cost)
      BY <2>4, <2>6, <3>1, Zenon DEF Obeys, monthly
    <3>4. Affords(settings, r)
      BY <1>1, <3>1, <3>2, <3>3 DEF Affords
    <3>5. Suits(settings, r)
      <4>1. q.pc \in Deciding
        BY <2>2 DEF Deciding
      <4> QED
        BY <1>1, <3>1, <4>1, Zenon DEF Suits
    <3> QED
      BY <3>4, <3>5
  <2> QED
    BY <2>2, <2>7, <2>8
<1>8. ASSUME Answers(t) PROVE Decided
  <2>1. PICK a \in Answered(t, "initial"), pc \in {"using_tools", "replying"} :
          /\ q.pc \in {"calling", "retrying"}
          /\ turn' = [turn EXCEPT ![t].pc = pc, ![t].cost = Price(a)]
    BY <1>8 DEF Answers
  <2>2. Price(a) \in Nat
    BY <2>1, Replies
  <2>3. pc \in Pcs
    BY <2>1 DEF Pcs
  <2>4. r.pc = pc /\ r.cost = Price(a) /\ r.kind = q.kind /\ r.routing = q.routing
    BY <1>1, <2>1, <2>2, <2>3, Answering
  <2>5. q.pc \in Deciding
    BY <2>1 DEF Deciding
  <2>6. Affords(settings, r)
    BY <2>1, <2>4 DEF Affords
  <2>7. Suits(settings, r)
    BY <1>1, <2>4, <2>5, Zenon DEF Suits
  <2> QED
    BY <2>6, <2>7
<1>9. ASSUME FollowUpAnswers(t) PROVE Decided
  <2>1. PICK a \in Answered(t, "follow_up") :
          turn' = [turn EXCEPT ![t].pc = "replying", ![t].cost = Added(q.cost, Price(a))]
    BY <1>1, <1>9 DEF FollowUpAnswers
  <2>2. r.pc = "replying"
    BY <1>1, <2>1 DEF Turn
  <2> QED
    BY <2>2 DEF Affords, Suits, Deciding
<1>10. \A pc \in {"meeting", "creating", "preparing", "joining", "apologizing", "replying", "logging",
                  "remembering", "storing", "inserting", "finishing"} : Goes(t, pc) => Decided
  BY <1>2 DEF Plain, Pcs, Deciding
<1>11. CASE FindConversation(t) \/ Meet(t) \/ Reply(t) \/ Remember(t) \/ Store(t) \/ Insert(t)
  <2>1. \E pc \in {"meeting", "creating", "preparing", "joining", "logging", "remembering", "storing",
                   "inserting"} : Goes(t, pc)
    BY <1>11 DEF FindConversation, Meet, Reply, Remember, Store, Insert
  <2> QED
    BY <1>10, <2>1
<1>12. CASE CreateConversation(t) \/ Join(t) \/ Apologize(t) \/ Finish(t) \/ StatementFails(t)
  <2>1. Ends(t) \/ Goes(t, "meeting") \/ Goes(t, "preparing")
    BY <1>12 DEF CreateConversation, Join, Apologize, Finish, StatementFails, Throws
  <2> QED
    BY <1>3, <1>10, <2>1
<1>13. CASE RetryFails(t) \/ FollowUpFails(t) \/ LogUsage(t) \/ StepSkipped(t)
  <2>1. \E pc \in {"apologizing", "replying", "finishing", "logging"} : Goes(t, pc)
    BY <1>13 DEF RetryFails, FollowUpFails, LogUsage, StepSkipped
  <2> QED
    BY <1>10, <2>1
<1> QED
  BY <1>5, <1>6, <1>7, <1>8, <1>9, <1>11, <1>12, <1>13 DEF SlotStep, Step

\* How a step of a turn moves money: unless a fault hides some, what is spent is logged
\* or still to log, and what no budget bears is not spent.
Settles(t, q, r) ==
  /\ faults' \in 0..MaxFaults /\ faults <= faults'
  /\ spent' \in [Slots -> Nat] /\ usage' \in [Slots -> Nat] /\ excess' \in [Slots -> Nat]
  /\ \A u \in Slots \ {t} : spent'[u] = spent[u] /\ usage'[u] = usage[u] /\ excess'[u] = excess[u]
  /\ faults' = faults => spent'[t] + usage[t] + Unlogged(q) = spent[t] + usage'[t] + Unlogged(r)
  /\ Bounded(settings, r, usage'[t], excess'[t])

\* It holds of every step.
LEMMA Payments ==
  ASSUME TypeOK, Stages, Suited, Budgets, Bounds, NEW t \in Slots, SlotStep(t)
  PROVE  Settles(t, turn[t], turn'[t])
<1> DEFINE q == turn[t]
           r == turn'[t]
<1>1. /\ turn \in [Slots -> Turn] /\ q \in Turn /\ Staged(q) /\ Affords(settings, q)
      /\ Suits(settings, q) /\ settings \in Settings /\ Bounded(settings, q, usage[t], excess[t])
  BY Constants DEF TypeOK, Stages, Budgets, Suited, Bounds
<1>2. /\ q.cost \in Nat /\ q.monthly \in Nat /\ spent \in [Slots -> Nat]
      /\ usage \in [Slots -> Nat] /\ excess \in [Slots -> Nat]
      /\ spent[t] \in Nat /\ usage[t] \in Nat /\ excess[t] \in Nat
      /\ faults \in 0..MaxFaults /\ MaxFaults \in Nat
      /\ settings.monthlyCap \in Nat \cup {NoCap} /\ settings.monthlyCap \in Int
      /\ settings.requestCap \in Nat \cup {NoCap} /\ settings.requestCap \in Int
  <2>1. q.cost \in Nat /\ q.monthly \in Nat
    BY <1>1 DEF Turn
  <2>2. /\ spent \in [Slots -> Nat] /\ usage \in [Slots -> Nat] /\ excess \in [Slots -> Nat]
        /\ faults \in 0..MaxFaults
    BY DEF TypeOK
  <2>3. /\ settings.monthlyCap \in Nat \cup {NoCap} /\ settings.monthlyCap \in Int
        /\ settings.requestCap \in Nat \cup {NoCap} /\ settings.requestCap \in Int
    BY <1>1 DEF Settings, NoCap
  <2> QED
    BY <2>1, <2>2, <2>3, TurnsAssumption
<1>3. Fault => faults' \in 0..MaxFaults /\ faults' = faults + 1 /\ faults' # faults
  BY <1>2 DEF Fault
<1> DEFINE Paid == spent' \in [Slots -> Nat] /\ \A u \in Slots \ {t} : spent'[u] = spent[u]
           Hidden == (spent' = spent /\ faults' = faults) \/ (Fault /\ Paid)
<1>4. Charged(t) => Hidden
  BY <1>2 DEF Charged
<1>5. spent' = spent => Paid
  BY <1>2
<1>6. Hidden => Paid /\ faults' \in 0..MaxFaults /\ faults <= faults'
                 /\ (faults' = faults => spent' = spent)
  BY <1>2, <1>3, <1>5
<1> HIDE DEF Paid, Hidden
\* The money stays where it is.
<1>7. ASSUME r.cost = q.cost, q.pc # "finishing", UNCHANGED <<usage, excess>>, Hidden,
             r.pc = "finishing" => faults' # faults,
             r.pc \in Deciding /\ settings.monthlyCap # NoCap => usage[t] <= r.monthly
      PROVE  Settles(t, q, r)
  <2>1. Unlogged(q) = q.cost /\ (Unlogged(r) = q.cost \/ (Unlogged(r) = 0 /\ faults' # faults))
    BY <1>7 DEF Unlogged
  <2>2. Bounded(settings, r, usage[t], excess[t])
    BY <1>2, <1>1, <1>7, <2>1 DEF Bounded
  <2>3. faults' = faults => spent'[t] + usage[t] + Unlogged(q) = spent[t] + usage'[t] + Unlogged(r)
    BY <1>7, <1>6, <2>1
  <2>4. spent' \in [Slots -> Nat] /\ \A u \in Slots \ {t} : spent'[u] = spent[u]
    BY <1>7, <1>6 DEF Paid
  <2> QED
    BY <1>2, <1>7, <1>6, <2>2, <2>3, <2>4 DEF Settles
<1>8. ASSUME NEW pc \in Plain, Goes(t, pc), UNCHANGED <<usage, excess>>, Hidden,
             q.pc # "finishing", pc = "finishing" => faults' # faults
      PROVE  Settles(t, q, r)
  <2>1. r.pc = pc /\ r.cost = q.cost
    BY <1>1, <1>8, Going DEF Plain, Kept
  <2>2. r.pc \notin Deciding
    BY <2>1 DEF Plain
  <2> QED
    BY <1>7, <1>8, <2>1, <2>2
<1>9. ASSUME Ends(t), UNCHANGED <<spent, usage, excess>>,
             Fault \/ (faults' = faults /\ Unlogged(q) = 0)
      PROVE  Settles(t, q, r)
  <2>1. r = Idle /\ Idle.pc = "idle" /\ Idle.cost = 0 /\ Unlogged(Idle) = 0
    BY <1>1, <1>9, Ending DEF Idle, Unlogged
  <2>2. r.pc \notin Deciding
    BY <2>1 DEF Deciding
  <2>3. Unlogged(q) \in Nat
    BY <1>2 DEF Unlogged
  <2>4. Bounded(settings, r, usage[t], excess[t])
    BY <1>2, <1>1, <2>1, <2>2, <2>3 DEF Bounded
  <2>5. faults' \in 0..MaxFaults /\ faults <= faults' /\ (faults' = faults => Unlogged(q) = 0)
    BY <1>2, <1>3, <1>9
  <2> QED
    BY <1>2, <1>9, <2>1, <2>4, <2>5 DEF Settles
<1>10. q.pc \in Unpaid \cup {"finishing"} => Unlogged(q) = 0
  BY <1>1 DEF Staged, Unlogged
<1>11. ASSUME spent' = spent, faults' = faults PROVE Hidden
  BY <1>11 DEF Hidden
<1>12. ASSUME Prepare(t) PROVE Settles(t, q, r)
  <2> DEFINE monthly == IF settings.monthlyCap # NoCap THEN Recorded ELSE 0
             route == routeModel(q.kind, settings)
             o == Outcome(t, route, "initial", monthly, 0)
  <2>1. monthly \in Nat /\ route \in Routed /\ Sees(q.kind, route.model)
    BY Constants, RouteTyped, RecordedCovers DEF TypeOK, Turn
  <2>2. /\ q.pc = "preparing" /\ Controlled(t, o, monthly, "calling", "apologizing")
        /\ UNCHANGED <<spent, usage, excess, faults>>
    BY <1>12 DEF Prepare, money
  <2>3. settings.monthlyCap # NoCap => usage[t] <= monthly
    BY RecordedCovers
  <2> HIDE DEF monthly, route, o
  <2>4. /\ r.cost = q.cost /\ r.monthly = monthly /\ r.pc \in {"calling", "apologizing"}
    BY <1>1, <2>2, ControlledPc
  <2> QED
    BY <1>7, <1>11, <2>2, <2>3, <2>4
<1>13. q.pc \in Deciding /\ settings.monthlyCap # NoCap => usage[t] <= q.monthly
  BY <1>1 DEF Bounded
<1>14. ASSUME CallFails(t) PROVE Settles(t, q, r)
  <2> DEFINE o == Outcome(t, escalateModel(q.routing, q.kind, settings), "initial", q.monthly, 0)
  <2>1. /\ q.pc = "calling" /\ UNCHANGED <<usage, excess>> /\ Charged(t)
        /\ Controlled(t, o, q.monthly, "retrying", "apologizing") \/ Goes(t, "apologizing")
    BY <1>14 DEF CallFails
  <2> HIDE DEF o
  <2>2. r.cost = q.cost /\ r.monthly = q.monthly /\ r.pc \in {"retrying", "apologizing"}
    BY <1>1, <2>1, Going, ControlledPc DEF Pcs, Kept
  <2>3. q.pc \in Deciding
    BY <2>1 DEF Deciding
  <2> QED
    BY <1>7, <1>13, <1>4, <2>1, <2>2, <2>3
<1>15. ASSUME UseTools(t) PROVE Settles(t, q, r)
  <2> DEFINE o == [Outcome(t, q.routing, "follow_up", q.monthly + q.cost, q.cost)
                     EXCEPT !.routing = q.routing]
  <2>1. /\ q.pc = "using_tools" /\ UNCHANGED <<spent, usage, excess, faults>>
        /\ Goes(t, "replying") \/ Controlled(t, o, q.monthly, "following", "replying")
    BY <1>15 DEF UseTools, money
  <2> HIDE DEF o
  <2>2. r.cost = q.cost /\ r.monthly = q.monthly /\ r.pc \in {"following", "replying"}
    BY <1>1, <2>1, Going, ControlledPc DEF Pcs, Kept
  <2>3. q.pc \in Deciding
    BY <2>1 DEF Deciding
  <2> QED
    BY <1>7, <1>11, <1>13, <2>1, <2>2, <2>3
\* A call was answered.
<1>16. ASSUME NEW stage \in {"initial", "follow_up"}, NEW a \in Answered(t, stage),
              NEW pc \in {"using_tools", "replying"}, NEW cost \in Nat,
              q.pc \in {"calling", "retrying", "following"}, cost = q.cost + Price(a),
              turn' = [turn EXCEPT ![t].pc = pc, ![t].cost = cost],
              Fits(q.routing.model, q.maxTokens, PromptTokens[stage], settings,
                   q.monthly + q.cost, q.cost),
              Pays(t, stage, a), UNCHANGED <<usage, faults>>
       PROVE  Settles(t, q, r)
  <2>1. q.monthly + q.cost \in Nat
    BY <1>2
  <2>2. /\ Price(a) \in Nat /\ spent'[t] = spent[t] + Price(a) /\ spent' \in [Slots -> Nat]
        /\ excess' \in [Slots -> Nat]
        /\ \A u \in Slots \ {t} : spent'[u] = spent[u] /\ excess'[u] = excess[u]
        /\ settings.requestCap # NoCap => q.cost + Price(a) <= settings.requestCap + excess'[t]
        /\ settings.monthlyCap # NoCap =>
             q.monthly + q.cost + Price(a) <= settings.monthlyCap + excess'[t]
    BY <1>2, <1>16, <2>1, Charges
  <2> DEFINE k == Price(a)
             x == excess'[t]
  <2>3. pc \in Pcs
    BY <1>16 DEF Pcs
  <2>4. r.pc = pc /\ r.cost = cost /\ r.monthly = q.monthly
    <3>1. /\ turn' = [turn EXCEPT ![t].pc = pc, ![t].cost = cost] /\ cost \in Nat
          /\ turn \in [Slots -> Turn]
      BY <1>1, <1>16
    <3> QED
      BY <2>3, <3>1, Answering
  <2>5. Unlogged(q) = q.cost /\ Unlogged(r) = cost
    BY <1>16, <2>4 DEF Unlogged
  <2>6. q.pc \in Deciding
    BY <1>16 DEF Deciding
  <2>7. x \in Nat
    BY <2>2
  <2>8. /\ k \in Nat /\ spent'[t] = spent[t] + k /\ cost = q.cost + k
        /\ settings.requestCap # NoCap => q.cost + k <= settings.requestCap + x
        /\ settings.monthlyCap # NoCap => q.monthly + q.cost + k <= settings.monthlyCap + x
    BY <1>16, <2>2
  <2> HIDE DEF k, x
  <2>9. /\ settings.requestCap # NoCap => r.cost <= settings.requestCap + x
        /\ settings.monthlyCap # NoCap => usage[t] + Unlogged(r) <= settings.monthlyCap + x
        /\ settings.monthlyCap # NoCap => usage[t] <= r.monthly
    BY <1>2, <1>13, <2>4, <2>5, <2>6, <2>7, <2>8
  <2>10. Bounded(settings, r, usage[t], x)
    BY <2>9 DEF Bounded
  <2>11. spent'[t] + usage[t] + Unlogged(q) = spent[t] + usage[t] + Unlogged(r)
    BY <1>2, <2>5, <2>8
  <2> QED
    BY <1>2, <1>16, <2>2, <2>10, <2>11 DEF Settles, x
<1>17. ASSUME Answers(t) PROVE Settles(t, q, r)
  <2>1. PICK a \in Answered(t, "initial"), pc \in {"using_tools", "replying"} :
          /\ q.pc \in {"calling", "retrying"} /\ Pays(t, "initial", a)
          /\ turn' = [turn EXCEPT ![t].pc = pc, ![t].cost = Price(a)]
          /\ UNCHANGED <<usage, faults>>
    BY <1>17 DEF Answers
  <2>2. Fits(q.routing.model, q.maxTokens, PromptTokens["initial"], settings, q.monthly, 0)
    BY <1>1, <2>1 DEF Affords
  <2>3. q.cost = 0
    BY <1>1, <2>1 DEF Staged, Unpaid
  <2>4. Price(a) \in Nat
    BY <2>1, Replies
  <2> DEFINE k == Price(a)
  <2>5. k = q.cost + Price(a) /\ q.monthly + q.cost = q.monthly
    BY <1>2, <2>3, <2>4
  <2>6. Fits(q.routing.model, q.maxTokens, PromptTokens["initial"], settings,
             q.monthly + q.cost, q.cost)
    BY <2>2, <2>3, <2>5
  <2> QED
    BY <1>16, <2>1, <2>4, <2>5, <2>6
<1>18. ASSUME FollowUpAnswers(t) PROVE Settles(t, q, r)
  <2>1. PICK a \in Answered(t, "follow_up") :
          /\ q.pc = "following" /\ Pays(t, "follow_up", a)
          /\ turn' = [turn EXCEPT ![t].pc = "replying", ![t].cost = Added(q.cost, Price(a))]
          /\ UNCHANGED <<usage, faults>>
    BY <1>1, <1>18 DEF FollowUpAnswers
  <2>2. Fits(q.routing.model, q.maxTokens, PromptTokens["follow_up"], settings,
             q.monthly + q.cost, q.cost)
    BY <1>1, <2>1 DEF Affords
  <2>3. Price(a) \in Nat
    BY <2>1, Replies
  <2>4. Added(q.cost, Price(a)) \in Nat /\ Added(q.cost, Price(a)) = q.cost + Price(a)
    BY <1>2, <2>3 DEF Added
  <2> QED
    BY <1>16, <2>1, <2>2, <2>4
<1>19. ASSUME LogUsage(t) PROVE Settles(t, q, r)
  <2>1. /\ q.pc = "logging" /\ Goes(t, "finishing") /\ usage' = [usage EXCEPT ![t] = @ + q.cost]
        /\ UNCHANGED <<spent, excess, faults>>
    BY <1>19 DEF LogUsage
  <2>2. r.pc = "finishing" /\ r.cost = q.cost
    BY <1>1, <2>1, Going DEF Pcs, Kept
  <2>3. Unlogged(q) = q.cost /\ Unlogged(r) = 0 /\ r.pc \notin Deciding
    BY <2>1, <2>2 DEF Unlogged, Deciding
  <2>4. /\ usage' \in [Slots -> Nat] /\ usage'[t] = usage[t] + q.cost
        /\ \A u \in Slots \ {t} : usage'[u] = usage[u]
    BY <1>2, <2>1
  <2>5. Bounded(settings, r, usage'[t], excess[t])
    BY <1>2, <1>1, <2>2, <2>3, <2>4 DEF Bounded
  <2> QED
    BY <1>2, <2>1, <2>3, <2>4, <2>5 DEF Settles
<1>20. CASE FindConversation(t) \/ Meet(t) \/ Reply(t) \/ Remember(t) \/ Store(t) \/ Insert(t)
  <2>1. /\ \E pc \in {"meeting", "creating", "preparing", "joining", "logging", "remembering",
                      "storing", "inserting"} : Goes(t, pc)
        /\ q.pc # "finishing" /\ UNCHANGED <<spent, usage, excess, faults>>
    BY <1>20 DEF FindConversation, Meet, Reply, Remember, Store, Insert, money
  <2> QED
    BY <1>8, <1>11, <2>1 DEF Plain, Pcs, Deciding
<1>21. CASE CreateConversation(t) \/ Join(t)
  <2>1. /\ Ends(t) \/ Goes(t, "meeting") \/ Goes(t, "preparing")
        /\ q.pc \in {"creating", "joining"} /\ UNCHANGED <<spent, usage, excess, faults>>
    BY <1>21 DEF CreateConversation, Join, Throws, money
  <2>2. Unlogged(q) = 0
    BY <1>10, <2>1 DEF Unpaid
  <2> QED
    BY <1>8, <1>9, <1>11, <2>1, <2>2 DEF Plain, Pcs, Deciding
<1>22. CASE Apologize(t) \/ Finish(t)
  <2>1. /\ Ends(t) /\ q.pc \in {"apologizing", "finishing"}
        /\ UNCHANGED <<spent, usage, excess, faults>>
    BY <1>22 DEF Apologize, Finish, money
  <2>2. Unlogged(q) = 0
    BY <1>10, <2>1 DEF Unpaid
  <2> QED
    BY <1>9, <2>1, <2>2
<1>23. CASE StatementFails(t)
  <2>1. Ends(t) /\ Fault /\ UNCHANGED <<spent, usage, excess>>
    BY <1>23 DEF StatementFails, Throws, money
  <2> QED
    BY <1>9, <2>1
<1>27. CASE RetryFails(t) \/ FollowUpFails(t)
  <2>1. /\ \E pc \in {"apologizing", "replying"} : Goes(t, pc)
        /\ q.pc # "finishing" /\ Charged(t) /\ UNCHANGED <<usage, excess>>
    BY <1>27 DEF RetryFails, FollowUpFails
  <2> QED
    BY <1>8, <1>4, <2>1 DEF Plain, Pcs, Deciding
<1>28. CASE StepSkipped(t)
  <2>1. /\ \E pc \in {"logging", "finishing"} : Goes(t, pc)
        /\ q.pc # "finishing" /\ Fault /\ UNCHANGED <<spent, usage, excess>>
    BY <1>28 DEF StepSkipped, money
  <2>2. Hidden /\ faults' # faults
    BY <1>3, <1>5, <2>1 DEF Hidden
  <2> QED
    BY <1>8, <2>1, <2>2 DEF Plain, Pcs, Deciding
<1> QED
  BY <1>12, <1>14, <1>15, <1>17, <1>18, <1>19, <1>20, <1>21, <1>22, <1>23, <1>27, <1>28
     DEF SlotStep, Step

\* What a step of a turn writes: rows of its thread only, each when it is not there.
Writes(q, r) ==
  LET c == q.thread
      m == <<c, q.user>>
  IN
  /\ conversations \subseteq conversations' /\ conversations' \subseteq conversations \cup {c}
  /\ participants' \subseteq participants \cup {m} /\ participants' \subseteq conversations' \X Users
  /\ r.pc \in {"meeting", "joining"} => c \in conversations'
  /\ r.pc = "creating" => c \notin conversations'
  /\ r.pc = "joining" => r.user = q.user /\ m \notin participants'
  /\ failed' \subseteq failed \cup {c}
  /\ \/ failed' = failed \/ faults < faults'
     \/ q.pc = "creating" /\ c \in conversations
     \/ q.pc = "joining" /\ m \in participants
  /\ titles' = titles /\ titling' \in [Threads -> Nat] /\ titlers' \in [Threads -> Nat]
  /\ memory' \in [Users -> [Facts -> Nat]]
  /\ \A d \in Threads :
       /\ titlers[d] <= titlers'[d]
       /\ \/ titling'[d] = titling[d]
          \/ titles[d] = 0 /\ titling'[d] <= titlers'[d]
  /\ \/ /\ memory' = memory
        /\ r.pc = "inserting" => q.pc # "inserting" /\ r.fact = q.fact
                                 /\ memory[q.user][q.fact] = 0
     \/ /\ q.pc = "inserting" /\ r.pc # "inserting" /\ q.fact \in Facts
        /\ memory' = [memory EXCEPT ![q.user][q.fact] = @ + 1]

\* It holds of every step.
LEMMA Writing ==
  ASSUME TypeOK, Stages, Joined, NEW t \in Slots, SlotStep(t)
  PROVE  Writes(turn[t], turn'[t])
<1> DEFINE q == turn[t]
           r == turn'[t]
           c == q.thread
           m == <<c, q.user>>
<1>1. /\ turn \in [Slots -> Turn] /\ q \in Turn /\ Staged(q)
      /\ q.pc \in {"meeting", "joining"} => c \in conversations
      /\ participants \subseteq conversations \X Users
      /\ titling \in [Threads -> Nat] /\ titlers \in [Threads -> Nat]
      /\ memory \in [Users -> [Facts -> Nat]]
      /\ faults \in Nat
  BY DEF TypeOK, Stages, Joined
<1>2. Idle.pc = "idle"
  BY DEF Idle
<1>3. q.pc # "idle" => c \in Threads /\ q.user \in Users
  BY <1>1 DEF Staged, Turn
<1>7. q.pc \in {"remembering", "storing", "inserting"} => q.fact \in Facts
  BY <1>1 DEF Staged, Turn
<1> DEFINE Same == UNCHANGED <<conversations, participants, titling, titles, titlers, memory>>
<1>8. ASSUME Same, r.pc \notin {"meeting", "joining", "creating", "inserting"},
             failed' = failed \/ (failed' = failed \cup {c} /\ faults < faults')
      PROVE  Writes(q, r)
  BY <1>1, <1>8 DEF Writes
<1>9. CASE FindConversation(t)
  <2>1. /\ Goes(t, IF c \in conversations THEN "meeting" ELSE "creating")
        /\ Same /\ failed' = failed
    BY <1>9 DEF FindConversation, rows, behind
  <2>2. r.pc = IF c \in conversations THEN "meeting" ELSE "creating"
    BY <1>1, <2>1, Going DEF Pcs
  <2> QED
    BY <1>1, <2>1, <2>2 DEF Writes
<1>10. CASE CreateConversation(t)
  <2>1. /\ q.pc = "creating" /\ conversations' = conversations \cup {c}
        /\ UNCHANGED <<participants, titling, titles, titlers, memory>>
        /\ \/ Ends(t) /\ failed' = failed \cup {c} /\ c \in conversations
           \/ Goes(t, "meeting") /\ failed' = failed
    BY <1>10 DEF CreateConversation, Throws, behind
  <2>2. r.pc \in {"idle", "meeting"}
    BY <1>2, <1>1, <2>1, Going, Ending DEF Pcs
  <2> QED
    BY <1>1, <2>1, <2>2 DEF Writes
<1>11. CASE Meet(t)
  <2>1. /\ q.pc = "meeting" /\ Goes(t, IF m \in participants THEN "preparing" ELSE "joining")
        /\ Same /\ failed' = failed
    BY <1>11 DEF Meet, Member, rows, behind
  <2>2. /\ r.pc = IF m \in participants THEN "preparing" ELSE "joining"
        /\ r.user = q.user
    BY <1>1, <2>1, Going DEF Pcs, Kept
  <2> QED
    BY <1>1, <2>1, <2>2 DEF Writes
<1>12. CASE Join(t)
  <2>1. /\ q.pc = "joining" /\ participants' = participants \cup {m}
        /\ UNCHANGED <<conversations, titling, titles, titlers, memory>>
        /\ \/ Ends(t) /\ failed' = failed \cup {c} /\ m \in participants
           \/ Goes(t, "preparing") /\ failed' = failed
    BY <1>12 DEF Join, Member, Throws, behind
  <2>2. r.pc \in {"idle", "preparing"}
    BY <1>2, <1>1, <2>1, Going, Ending DEF Pcs
  <2>3. participants' \subseteq conversations' \X Users
    BY <1>1, <1>3, <2>1
  <2> QED
    BY <1>1, <2>1, <2>2, <2>3 DEF Writes
<1>13. CASE StatementFails(t)
  <2>1. Ends(t) /\ failed' = failed \cup {c} /\ faults' = faults + 1 /\ Same
    BY <1>13 DEF StatementFails, Throws, Fault, rows, behind
  <2>2. r.pc = "idle" /\ faults < faults'
    BY <1>2, <1>1, <2>1, Ending
  <2> QED
    BY <1>8, <2>1, <2>2
<1>14. CASE Prepare(t) \/ CallFails(t) \/ UseTools(t)
  <2>1. /\ Same /\ failed' = failed
        /\ \/ \E o, n : \/ Controlled(t, o, n, "calling", "apologizing")
                        \/ Controlled(t, o, n, "retrying", "apologizing")
                        \/ Controlled(t, o, n, "following", "replying")
           \/ Goes(t, "apologizing") \/ Goes(t, "replying")
    BY <1>14, Zenon DEF Prepare, CallFails, UseTools, rows, behind
  <2>2. r.pc \in {"calling", "retrying", "following", "apologizing", "replying"}
    BY <1>1, <2>1, Going, ControlledPc DEF Pcs
  <2> QED
    BY <1>8, <2>1, <2>2
<1>15. CASE Answers(t) \/ FollowUpAnswers(t)
  <2>1. /\ Same /\ failed' = failed
        /\ \E pc \in {"using_tools", "replying"} : \E cost :
             turn' = [turn EXCEPT ![t].pc = pc, ![t].cost = cost]
    BY <1>15 DEF Answers, FollowUpAnswers, rows, behind
  <2>2. r.pc \in {"using_tools", "replying"}
    BY <1>1, <2>1 DEF Turn
  <2> QED
    BY <1>8, <2>1, <2>2
<1>16. CASE RetryFails(t) \/ FollowUpFails(t) \/ Reply(t) \/ Remember(t) \/ LogUsage(t)
            \/ StepSkipped(t)
  <2>1. /\ Same /\ failed' = failed
        /\ \E pc \in {"apologizing", "replying", "logging", "remembering", "storing", "finishing"} :
             Goes(t, pc)
    BY <1>16 DEF RetryFails, FollowUpFails, Reply, Remember, LogUsage, StepSkipped, rows, behind
  <2>2. r.pc \in {"apologizing", "replying", "logging", "remembering", "storing", "finishing"}
    BY <1>1, <2>1, Going DEF Pcs
  <2> QED
    BY <1>8, <2>1, <2>2
<1>17. CASE Apologize(t)
  <2>1. Ends(t) /\ Same /\ failed' = failed
    BY <1>17 DEF Apologize, rows, behind
  <2>2. r.pc = "idle"
    BY <1>2, <1>1, <2>1, Ending
  <2> QED
    BY <1>8, <2>1, <2>2
<1>18. CASE Store(t)
  <2> DEFINE row == memory[q.user][q.fact]
  <2>1. /\ q.pc = "storing" /\ Goes(t, IF row > 0 THEN "logging" ELSE "inserting")
        /\ Same /\ failed' = failed
    BY <1>18 DEF Store, Row, rows, behind
  <2>2. r.pc = (IF row > 0 THEN "logging" ELSE "inserting") /\ r.fact = q.fact
    BY <1>1, <2>1, Going DEF Pcs, Kept
  <2>3. row \in Nat
    BY <1>1, <1>3, <1>7, <2>1, TurnsAssumption
  <2>4. r.pc = "inserting" => row = 0
    BY <2>2, <2>3
  <2>5. r.pc \in {"logging", "inserting"}
    BY <2>2
  <2> QED
    BY <1>1, <2>1, <2>2, <2>4, <2>5 DEF Writes
<1>19. CASE Insert(t)
  <2>1. /\ q.pc = "inserting" /\ Goes(t, "logging") /\ failed' = failed
        /\ UNCHANGED <<conversations, participants, titling, titles, titlers>>
        /\ memory' = [memory EXCEPT ![q.user][q.fact] = @ + 1]
    BY <1>19 DEF Insert, rows, behind
  <2>2. r.pc = "logging"
    BY <1>1, <2>1, Going DEF Pcs
  <2>3. q.user \in Users /\ q.fact \in Facts
    BY <1>3, <1>7, <2>1, TurnsAssumption
  <2>4. memory' \in [Users -> [Facts -> Nat]]
    BY <1>1, <2>1, <2>3
  <2> QED
    BY <1>1, <2>1, <2>2, <2>3, <2>4 DEF Writes
<1>20. CASE Finish(t)
  <2>1. /\ q.pc = "finishing" /\ Ends(t) /\ failed' = failed
        /\ UNCHANGED <<conversations, participants, titles, memory>>
        /\ titling' = IF titles[c] > 0 THEN titling ELSE [titling EXCEPT ![c] = @ + 1]
        /\ titlers' = [titlers EXCEPT ![c] = Larger(@, titling'[c])]
    BY <1>20 DEF Finish, rows
  <2>2. r.pc = "idle"
    BY <1>2, <1>1, <2>1, Ending
  <2>3. c \in Threads /\ titles[c] \in Nat
    BY <1>3, <2>1 DEF TypeOK
  <2>4. titling' \in [Threads -> Nat] /\ \A d \in Threads \ {c} : titling'[d] = titling[d]
    BY <1>1, <2>1, <2>3
  <2>5. titling'[c] = titling[c] \/ titles[c] = 0
    BY <1>1, <2>1, <2>3
  <2>6. /\ titlers' \in [Threads -> Nat] /\ titling'[c] <= titlers'[c]
        /\ \A d \in Threads : titlers[d] <= titlers'[d]
    BY <1>1, <2>1, <2>3, <2>4 DEF Larger
  <2>7. \A d \in Threads :
          /\ titlers[d] <= titlers'[d]
          /\ titling'[d] = titling[d] \/ (titles[d] = 0 /\ titling'[d] <= titlers'[d])
    BY <2>4, <2>5, <2>6
  <2> QED
    BY <1>1, <2>1, <2>2, <2>4, <2>6, <2>7 DEF Writes
<1> QED
  BY <1>9, <1>10, <1>11, <1>12, <1>13, <1>14, <1>15, <1>16, <1>17, <1>18, <1>19, <1>20
     DEF SlotStep, Step

\* What no step of a turn changes.
LEMMA Frame ==
  ASSUME NEW t \in Slots, SlotStep(t)
  PROVE  UNCHANGED <<settings, started, raced, atOnce>>
BY DEF SlotStep, Step, FindConversation, CreateConversation, Meet, Join, Prepare, Answers, CallFails,
       RetryFails, Apologize, UseTools, FollowUpAnswers, FollowUpFails, Reply, Remember, Store,
       Insert, LogUsage, Finish, StatementFails, StepSkipped, history

-----------------------------------------------------------------------------
(* A step of a turn preserves the invariant.                               *)

\* A step of one turn leaves the others alone.
LEMMA Elsewhere ==
  ASSUME turn \in [Slots -> Turn], NEW t \in Slots, Others(t, turn'[t])
  PROVE  \A u \in Slots \ {t} : turn'[u] = turn[u]
BY DEF Others

\* A step of a turn keeps types and stages.
LEMMA StepTyped ==
  ASSUME IInv, NEW t \in Slots, SlotStep(t)
  PROVE  TypeOK' /\ Stages' /\ Joined'
<1> DEFINE q == turn[t]
           r == turn'[t]
<1>1. /\ TypeOK /\ Stages /\ Joined /\ Moved(t, q, r) /\ Writes(q, r) /\ Settles(t, q, r)
      /\ UNCHANGED <<settings, started, raced, atOnce>>
  BY Movement, Writing, Payments, Frame DEF IInv
<1>2. \A u \in Slots \ {t} : turn'[u] = turn[u]
  BY <1>1, Elsewhere DEF Moved, TypeOK
<1>3. turn' \in [Slots -> Turn]
  BY <1>1 DEF Moved, Others, TypeOK
<1>4. q.thread \in Threads /\ q.user \in Users
  BY <1>1 DEF Moved, TypeOK, Stages, Staged, Turn
<1>5. /\ settings' \in SettingsSet /\ started' \in 0..MaxEvents
      /\ raced' \subseteq Threads /\ atOnce' \in [Users -> Nat]
  BY <1>1 DEF TypeOK
<1>6. /\ conversations' \subseteq Threads /\ participants' \subseteq conversations' \X Users
      /\ failed' \subseteq Threads
  BY <1>1, <1>4 DEF TypeOK, Writes
<1>7. /\ memory' \in [Users -> [Facts -> Nat]] /\ titling' \in [Threads -> Nat]
      /\ titles' \in [Threads -> Nat] /\ titlers' \in [Threads -> Nat]
  BY <1>1 DEF TypeOK, Writes
<1>8. /\ usage' \in [Slots -> Nat] /\ spent' \in [Slots -> Nat] /\ excess' \in [Slots -> Nat]
      /\ faults' \in 0..MaxFaults
  BY <1>1 DEF Settles
<1>9. TypeOK'
  BY <1>3, <1>5, <1>6, <1>7, <1>8 DEF TypeOK
<1>10. Stages'
  BY <1>1, <1>2 DEF Stages, Moved
<1>11. Joined'
  <2>1. r.pc \in {"meeting", "joining"} => r.thread \in conversations'
    <3>1. r.pc \in {"meeting", "joining"} => r.thread = q.thread
      <4>1. Idle.pc = "idle"
        BY DEF Idle
      <4> QED
        BY <1>1, <4>1 DEF Moved
    <3> QED
      BY <1>1, <3>1 DEF Writes
  <2>2. conversations \subseteq conversations'
    BY <1>1 DEF Writes
  <2> QED
    BY <1>1, <1>2, <2>1, <2>2 DEF Joined
<1> QED
  BY <1>9, <1>10, <1>11

\* It keeps the budgets and the models.
LEMMA StepAffords ==
  ASSUME IInv, NEW t \in Slots, SlotStep(t)
  PROVE  Budgets' /\ Suited'
<1>1. /\ Affords(settings, turn'[t]) /\ Suits(settings, turn'[t])
      /\ Moved(t, turn[t], turn'[t]) /\ settings' = settings
  BY Decisions, Movement, Frame DEF IInv
<1>2. \A u \in Slots \ {t} : turn'[u] = turn[u]
  BY <1>1, Elsewhere DEF Moved, TypeOK, IInv
<1> QED
  BY <1>1, <1>2 DEF Budgets, Suited, IInv

\* It keeps the log complete, and what was paid within the budgets.
LEMMA StepPays ==
  ASSUME IInv, NEW t \in Slots, SlotStep(t)
  PROVE  LogIsComplete' /\ Bounds'
<1> DEFINE q == turn[t]
           r == turn'[t]
<1>1. TypeOK /\ TypeOK' /\ Moved(t, q, r) /\ Settles(t, q, r) /\ settings' = settings
  BY Movement, Payments, StepTyped, Frame DEF IInv
<1>2. \A u \in Slots \ {t} : turn'[u] = turn[u]
  BY <1>1, Elsewhere DEF Moved, TypeOK
<1>3. \A u \in Slots \ {t} : spent'[u] = spent[u] /\ usage'[u] = usage[u] /\ excess'[u] = excess[u]
  BY <1>1 DEF Settles
<1>4. ASSUME faults' = 0, NEW u \in Slots PROVE spent'[u] = usage'[u] + Unlogged(turn'[u])
  <2>1. faults = 0 /\ faults' = faults
    BY <1>1, <1>4 DEF TypeOK, Settles
  <2>2. spent[u] = usage[u] + Unlogged(turn[u])
    BY <2>1 DEF IInv, LogIsComplete
  <2>3. CASE u = t
    <3>1. spent'[t] + usage[t] + Unlogged(q) = spent[t] + usage'[t] + Unlogged(r)
      BY <1>1, <2>1 DEF Settles
    <3>2. /\ spent[t] \in Nat /\ usage[t] \in Nat /\ spent'[t] \in Nat /\ usage'[t] \in Nat
          /\ Unlogged(q) \in Nat /\ Unlogged(r) \in Nat
      BY <1>1 DEF TypeOK, Unlogged, Turn
    <3> QED
      BY <2>2, <2>3, <3>1, <3>2
  <2>4. CASE u # t
    BY <1>2, <1>3, <2>2, <2>4
  <2> QED
    BY <2>3, <2>4
<1>5. \A u \in Slots : Bounded(settings, turn'[u], usage'[u], excess'[u])
  <2>1. Bounded(settings, r, usage'[t], excess'[t])
    BY <1>1 DEF Settles
  <2>2. ASSUME NEW u \in Slots \ {t} PROVE Bounded(settings, turn'[u], usage'[u], excess'[u])
    BY <1>2, <1>3 DEF IInv, Bounds
  <2> QED
    BY <2>1, <2>2
<1> QED
  BY <1>1, <1>4, <1>5 DEF LogIsComplete, Bounds

\* It refuses only in a race.
LEMMA StepApart ==
  ASSUME IInv, NEW t \in Slots, SlotStep(t)
  PROVE  Apart' /\ FailsOnlyInARace'
<1> DEFINE q == turn[t]
           r == turn'[t]
           own == q.thread
<1>1. /\ TypeOK /\ TypeOK' /\ Moved(t, q, r) /\ Writes(q, r) /\ Settles(t, q, r) /\ raced' = raced
      /\ Stages /\ Apart /\ FailsOnlyInARace
  BY Movement, Payments, Writing, StepTyped, Frame DEF IInv
<1>2. \A u \in Slots \ {t} : turn'[u] = turn[u]
  BY <1>1, Elsewhere DEF Moved, TypeOK
<1>3. /\ own \in Threads /\ ((r.thread = own /\ r.user = q.user) \/ r = Idle)
      /\ Idle.thread = NoThread /\ NoThread \notin Threads
  BY <1>1, TurnsAssumption DEF Moved, TypeOK, Stages, Staged, Turn, Idle
<1>4. own \notin raced => Lone(own)
  BY <1>1, <1>3 DEF Apart
<1>5. FailsOnlyInARace'
  <2>1. failed \subseteq raced \/ faults > 0
    BY <1>1 DEF FailsOnlyInARace
  <2>2. faults \in Nat /\ faults' \in Nat /\ faults <= faults'
    BY <1>1, TurnsAssumption DEF TypeOK, Settles
  <2>3. failed' \subseteq failed \cup {own}
    BY <1>1 DEF Writes
  <2>4. failed' = failed \/ faults < faults' \/ own \in raced
    <3>1. q.pc = "creating" /\ own \in conversations => own \in raced
      BY <1>3, <1>4 DEF Lone
    <3>2. q.pc = "joining" /\ <<own, q.user>> \in participants => own \in raced
      BY <1>3, <1>4 DEF Lone
    <3> QED
      BY <1>1, <3>1, <3>2, Zenon DEF Writes
  <2>5. failed' \subseteq raced \/ faults' > 0
    BY <2>1, <2>2, <2>3, <2>4
  <2> QED
    BY <1>1, <2>5 DEF FailsOnlyInARace
<1>6. ASSUME NEW c \in Threads \ raced PROVE Lone(c)'
  <2>1. Lone(c)
    BY <1>1, <1>6 DEF Apart
  <2>2. \A u \in Slots : turn'[u].thread = c => turn[u].thread = c
    BY <1>2, <1>3
  <2>3. \A s, u \in Slots : turn'[s].thread = c /\ turn'[u].thread = c => s = u
    BY <2>1, <2>2 DEF Lone
  <2>4. CASE c # own
    <3>1. \A u \in Slots : turn'[u].thread = c => turn'[u] = turn[u]
      BY <1>2, <1>3, <2>4
    <3>2. /\ c \in conversations' => c \in conversations
          /\ \A u \in Slots : <<c, turn[u].user>> \in participants' =>
                              <<c, turn[u].user>> \in participants
      BY <1>1, <1>6, <2>4 DEF Writes
    <3> QED
      BY <2>1, <2>3, <3>1, <3>2 DEF Lone
  <2>5. CASE c = own
    <3>1. \A u \in Slots : turn'[u].thread = c => u = t
      BY <1>3, <2>1, <2>2, <2>5 DEF Lone
    <3>2. /\ r.pc = "creating" => c \notin conversations'
          /\ r.pc = "joining" => <<c, r.user>> \notin participants'
      BY <1>1, <2>5 DEF Writes
    <3> QED
      BY <2>3, <3>1, <3>2 DEF Lone
  <2> QED
    BY <2>4, <2>5
<1> QED
  BY <1>1, <1>5, <1>6 DEF Apart

\* The turns of a user are finitely many, those about to insert among them.
LEMMA Counted ==
  ASSUME NEW tn, NEW user, NEW f
  PROVE  /\ IsFiniteSet(Busy(tn, user)) /\ Cardinality(Busy(tn, user)) \in Nat
         /\ IsFiniteSet(Inserting(tn, user, f)) /\ Cardinality(Inserting(tn, user, f)) \in Nat
         /\ Cardinality(Inserting(tn, user, f)) <= Cardinality(Busy(tn, user))
<1>1. Busy(tn, user) \in SUBSET Slots /\ Inserting(tn, user, f) \in SUBSET Busy(tn, user)
  BY DEF Busy, Inserting
<1>2. IsFiniteSet(Busy(tn, user))
  BY <1>1, FS_Subset, TurnsAssumption
<1>3. /\ IsFiniteSet(Inserting(tn, user, f))
      /\ Cardinality(Inserting(tn, user, f)) <= Cardinality(Busy(tn, user))
  BY <1>1, <1>2, FS_Subset
<1> QED
  BY <1>2, <1>3, FS_CardinalityType

\* It keeps the rows of memory and the titles within their bounds.
LEMMA StepWrites ==
  ASSUME IInv, NEW t \in Slots, SlotStep(t)
  PROVE  Rows' /\ Titles'
<1> DEFINE q == turn[t]
           r == turn'[t]
           own == q.user
<1>1. /\ TypeOK /\ TypeOK' /\ Moved(t, q, r) /\ Writes(q, r) /\ atOnce' = atOnce
      /\ Stages /\ Rows /\ Titles
  BY Movement, Writing, StepTyped, Frame DEF IInv
<1>2. \A u \in Slots \ {t} : turn'[u] = turn[u]
  BY <1>1, Elsewhere DEF Moved, TypeOK
<1>3. q.pc # "idle" /\ (r.pc # "idle" => r.user = own)
  BY <1>1 DEF Moved, Idle
<1>4. Titles'
  <2>1. ASSUME NEW c \in Threads PROVE titles'[c] + titling'[c] <= titlers'[c]
    <3>1. /\ titles[c] \in Nat /\ titling[c] \in Nat /\ titlers[c] \in Nat
          /\ titling'[c] \in Nat /\ titlers'[c] \in Nat
      BY <1>1 DEF TypeOK
    <3>2. titles[c] + titling[c] <= titlers[c]
      BY <1>1 DEF Titles
    <3>3. /\ titles'[c] = titles[c] /\ titlers[c] <= titlers'[c]
          /\ titling'[c] = titling[c] \/ (titles[c] = 0 /\ titling'[c] <= titlers'[c])
      BY <1>1 DEF Writes
    <3> QED
      BY <3>1, <3>2, <3>3
  <2> QED
    BY <2>1 DEF Titles
<1>5. ASSUME NEW user \in Users
      PROVE  /\ Cardinality(Busy(turn', user)) <= atOnce[user]
             /\ \A f \in Facts :
                  memory'[user][f] + Cardinality(Inserting(turn', user, f)) <= atOnce[user]
  <2>1. Busy(turn', user) \in SUBSET Busy(turn, user)
    BY <1>2, <1>3 DEF Busy
  <2>2. Cardinality(Busy(turn', user)) <= Cardinality(Busy(turn, user))
    BY <2>1, Counted, FS_Subset
  <2>3. Cardinality(Busy(turn, user)) <= atOnce[user] /\ atOnce[user] \in Nat
    BY <1>1 DEF Rows, TypeOK
  <2>4. Cardinality(Busy(turn', user)) <= atOnce[user]
    BY <2>2, <2>3, Counted
  <2>5. ASSUME NEW f \in Facts
        PROVE  memory'[user][f] + Cardinality(Inserting(turn', user, f)) <= atOnce[user]
    <3> DEFINE before == Inserting(turn, user, f)
               after == Inserting(turn', user, f)
    <3>1. /\ memory[user][f] \in Nat /\ memory[user][f] + Cardinality(before) <= atOnce[user]
          /\ IsFiniteSet(before) /\ Cardinality(before) \in Nat /\ Cardinality(after) \in Nat
          /\ Cardinality(after) <= Cardinality(Busy(turn', user))
      BY <1>1, Counted DEF Rows, TypeOK
    \* Nobody new is about to insert.
    <3>2. CASE memory' = memory /\ t \notin after
      <4>1. after \in SUBSET before
        BY <1>2, <2>1, <3>2 DEF Inserting, Busy
      <4>2. Cardinality(after) <= Cardinality(before)
        BY <3>1, <4>1, FS_Subset
      <4> QED
        BY <2>3, <3>1, <3>2, <4>2
    \* The turn found no row and is about to insert the first, as others may be.
    <3>3. CASE memory' = memory /\ t \in after
      <4>1. user = own /\ f = r.fact /\ r.pc = "inserting"
        BY <1>3, <3>3 DEF Inserting, Busy
      <4>2. memory[user][f] = 0
        BY <1>1, <3>3, <4>1 DEF Writes
      <4> QED
        BY <2>3, <2>4, <3>1, <3>3, <4>2, Counted
    \* It inserts, and is no longer about to.
    <3>4. CASE memory' # memory
      <4>1. /\ q.pc = "inserting" /\ r.pc # "inserting" /\ q.fact \in Facts
            /\ memory' = [memory EXCEPT ![own][q.fact] = @ + 1]
        BY <1>1, <3>4 DEF Writes
      <4>2. memory \in [Users -> [Facts -> Nat]]
        BY <1>1 DEF TypeOK
      <4>3. CASE user = own /\ f = q.fact
        <5>1. t \in before /\ after \in SUBSET (before \ {t})
          BY <1>2, <1>3, <2>1, <4>1, <4>3 DEF Inserting, Busy
        <5>2. Cardinality(before \ {t}) = Cardinality(before) - 1 /\ IsFiniteSet(before \ {t})
          BY <3>1, <5>1, FS_RemoveElement
        <5>3. Cardinality(after) <= Cardinality(before) - 1
          BY <5>1, <5>2, FS_Subset
        <5>4. memory'[user][f] = memory[user][f] + 1
          BY <4>1, <4>2, <4>3
        <5> QED
          BY <2>3, <3>1, <5>3, <5>4
      <4>4. CASE ~(user = own /\ f = q.fact)
        <5>1. after \in SUBSET before
          <6>1. \A u \in after : u # t /\ u \in Slots
            BY <4>1 DEF Inserting, Busy
          <6> QED
            BY <1>2, <2>1, <6>1 DEF Inserting
        <5>2. Cardinality(after) <= Cardinality(before)
          BY <3>1, <5>1, FS_Subset
        <5>3. memory'[user][f] = memory[user][f]
          BY <4>1, <4>2, <4>4
        <5> QED
          BY <2>3, <3>1, <5>2, <5>3
      <4> QED
        BY <4>3, <4>4
    <3> QED
      BY <3>2, <3>3, <3>4
  <2> QED
    BY <2>4, <2>5
<1> QED
  BY <1>1, <1>4, <1>5 DEF Rows

-----------------------------------------------------------------------------
(* The other steps.                                                        *)

\* An event that begins a turn keeps the invariant.
LEMMA Beginning ==
  ASSUME IInv, NEW c \in Threads, NEW who \in Users, NEW message \in Messages,
         Begin(c, who, message)
  PROVE  IInv'
<1> DEFINE t == CHOOSE u \in Slots : u \notin Active
           q == turn[t]
           r == turn'[t]
<1>1. /\ TypeOK /\ Stages /\ Joined /\ Budgets /\ Suited /\ Bounds /\ Apart
      /\ Rows /\ Titles /\ LogIsComplete /\ FailsOnlyInARace
  BY DEF IInv
<1>2. t \in Slots /\ q.pc = "idle"
  <2>1. \E u \in Slots : u \notin Active
    BY DEF Begin, Active
  <2>2. t \in Slots /\ t \notin Active
    BY <2>1
  <2> HIDE DEF t
  <2> QED
    BY <2>2 DEF Active
<1>3. /\ turn' = [turn EXCEPT ![t].pc = "finding", ![t].thread = c, ![t].user = who,
                              ![t].kind = message.kind, ![t].fact = message.fact]
      /\ started < MaxEvents /\ started' = started + 1
      /\ raced' = IF \E u \in Active : turn[u].thread = c THEN raced \cup {c} ELSE raced
      /\ atOnce' = [atOnce EXCEPT ![who] =
                       Larger(@, Cardinality(Busy(turn, who)) + 1)]
      /\ UNCHANGED <<settings, conversations, participants, memory, usage, spent, excess,
                     titling, titles, titlers, failed, faults>>
  <2>1. TurnsOf(who) = Busy(turn, who)
    BY DEF TurnsOf, Busy, Active
  <2> QED
    BY <2>1 DEF Begin, rows, behind, money
<1> HIDE DEF t
<1>4. message.kind \in Signals /\ message.fact \in Facts \cup {NoFact}
  BY TurnsAssumption
<1>5. /\ r \in Turn /\ r.pc = "finding" /\ r.thread = c /\ r.user = who /\ r.cost = q.cost
      /\ turn' \in [Slots -> Turn] /\ \A u \in Slots \ {t} : turn'[u] = turn[u]
  <2>1. turn \in [Slots -> Turn] /\ q \in Turn
    BY <1>1, <1>2 DEF TypeOK
  <2>2. r = [pc |-> "finding", thread |-> c, user |-> who,
             kind |-> message.kind, fact |-> message.fact,
             routing |-> q.routing, maxTokens |-> q.maxTokens, monthly |-> q.monthly,
             cost |-> q.cost]
    BY <1>2, <1>3, <2>1 DEF Turn
  <2>3. r \in Turn
    BY <1>4, <2>1, <2>2 DEF Turn, Pcs
  <2>4. turn' = [turn EXCEPT ![t] = r]
    BY <1>2, <1>3, <2>1
  <2>5. r.pc = "finding" /\ r.thread = c /\ r.user = who /\ r.cost = q.cost
    BY <2>2
  <2> HIDE DEF r
  <2> QED
    BY <1>2, <2>1, <2>3, <2>4, <2>5
<1>6. q.cost = 0 /\ NoThread \notin Threads
  BY <1>1, <1>2, TurnsAssumption DEF Stages, Staged, Unpaid
<1>7. atOnce \in [Users -> Nat]
  BY <1>1, TurnsAssumption DEF TypeOK
<1>8. /\ atOnce' \in [Users -> Nat] /\ \A user \in Users : atOnce[user] <= atOnce'[user]
       /\ Cardinality(Busy(turn, who)) + 1 <= atOnce'[who]
  <2> DEFINE n == Cardinality(Busy(turn, who)) + 1
  <2>1. n \in Nat
    BY Counted
  <2>2. atOnce' = [atOnce EXCEPT ![who] = Larger(@, n)]
    BY <1>3
  <2> HIDE DEF n
  <2>3. /\ atOnce' \in [Users -> Nat] /\ \A user \in Users : atOnce[user] <= atOnce'[user]
        /\ n <= atOnce'[who]
    BY <1>7, <2>1, <2>2 DEF Larger
  <2> QED
    BY <2>3 DEF n
<1>9. TypeOK'
  <2>1. /\ settings \in SettingsSet /\ conversations \subseteq Threads
        /\ participants \subseteq conversations \X Users /\ started \in 0..MaxEvents
        /\ memory \in [Users -> [Facts -> Nat]]
        /\ usage \in [Slots -> Nat] /\ spent \in [Slots -> Nat] /\ excess \in [Slots -> Nat]
        /\ titling \in [Threads -> Nat] /\ titles \in [Threads -> Nat]
        /\ titlers \in [Threads -> Nat]
        /\ raced \subseteq Threads /\ failed \subseteq Threads /\ faults \in 0..MaxFaults
    BY <1>1 DEF TypeOK
  <2>2. started' \in 0..MaxEvents
    BY <1>3, <2>1, TurnsAssumption
  <2>3. raced' \subseteq Threads
    BY <1>3, <2>1
  <2> QED
    BY <1>3, <1>5, <1>8, <2>1, <2>2, <2>3 DEF TypeOK
<1>10. Stages' /\ Joined'
  <2>1. Staged(r)
    BY <1>5, <1>6 DEF Staged
  <2> QED
    BY <1>1, <1>3, <1>5, <2>1 DEF Stages, Joined
<1>11. Budgets' /\ Suited'
  <2>1. Affords(settings, r) /\ Suits(settings, r)
    BY <1>1, <1>5, <1>6, Constants DEF Affords, Suits, Deciding, TypeOK, Settings
  <2> QED
    BY <1>1, <1>3, <1>5, <2>1 DEF Budgets, Suited
<1>12. Unlogged(q) = 0 /\ Unlogged(r) = 0
  BY <1>2, <1>5, <1>6 DEF Unlogged
<1>13. /\ LogIsComplete'
       /\ Bounds'
  <2>1. \A u \in Slots : Unlogged(turn'[u]) = Unlogged(turn[u])
    BY <1>2, <1>5, <1>12
  <2>2. Bounded(settings, r, usage[t], excess[t])
    <3>1. Bounded(settings, q, usage[t], excess[t])
      BY <1>1, <1>2 DEF Bounds
    <3> QED
      BY <1>5, <1>12, <3>1 DEF Bounded, Deciding
  <2>3. LogIsComplete'
    BY <1>1, <1>3, <2>1 DEF LogIsComplete
  <2>4. Bounds'
    BY <1>1, <1>3, <1>5, <2>2 DEF Bounds
  <2> QED
    BY <2>3, <2>4
<1>14. Rows' /\ Titles'
  <2>1. ASSUME NEW user \in Users
        PROVE  /\ Cardinality(Busy(turn', user)) <= atOnce'[user]
               /\ \A f \in Facts :
                    memory[user][f] + Cardinality(Inserting(turn', user, f)) <= atOnce'[user]
    <3>1. atOnce[user] \in Nat /\ atOnce'[user] \in Nat /\ atOnce[user] <= atOnce'[user]
      BY <1>7, <1>8
    <3>2. Cardinality(Busy(turn', user)) <= atOnce'[user]
      <4>1. CASE user = who
        <5>1. Busy(turn', user) \in SUBSET (Busy(turn, user) \cup {t})
          BY <1>5 DEF Busy
        <5>2. /\ IsFiniteSet(Busy(turn, user) \cup {t})
              /\ Cardinality(Busy(turn, user) \cup {t}) <= Cardinality(Busy(turn, user)) + 1
          <6>1. IsFiniteSet(Busy(turn, user)) /\ Cardinality(Busy(turn, user)) \in Nat
            BY Counted
          <6>2. /\ IsFiniteSet(Busy(turn, user) \cup {t})
                /\ \/ Cardinality(Busy(turn, user) \cup {t}) = Cardinality(Busy(turn, user))
                   \/ Cardinality(Busy(turn, user) \cup {t}) = Cardinality(Busy(turn, user)) + 1
            BY <6>1, FS_AddElement
          <6> QED
            BY <6>1, <6>2
        <5>3. Cardinality(Busy(turn', user)) <= Cardinality(Busy(turn, user) \cup {t})
          BY <5>1, <5>2, FS_Subset
        <5>4. /\ Cardinality(Busy(turn', user)) \in Nat /\ Cardinality(Busy(turn, user)) \in Nat
              /\ Cardinality(Busy(turn, user) \cup {t}) \in Nat
          BY <5>2, Counted, FS_CardinalityType
        <5>5. Cardinality(Busy(turn, user)) + 1 <= atOnce'[user]
          BY <1>8, <4>1
        <5> QED
          BY <3>1, <5>2, <5>3, <5>4, <5>5
      <4>2. CASE user # who
        <5>1. Busy(turn', user) \in SUBSET Busy(turn, user)
          BY <1>5, <4>2 DEF Busy
        <5>2. Cardinality(Busy(turn', user)) <= Cardinality(Busy(turn, user))
          BY <5>1, Counted, FS_Subset
        <5>3. Cardinality(Busy(turn, user)) <= atOnce[user]
          BY <1>1 DEF Rows
        <5> QED
          BY <3>1, <5>2, <5>3, Counted
      <4> QED
        BY <4>1, <4>2
    <3>3. ASSUME NEW f \in Facts
          PROVE  memory[user][f] + Cardinality(Inserting(turn', user, f)) <= atOnce'[user]
      <4>1. Inserting(turn', user, f) \in SUBSET Inserting(turn, user, f)
        BY <1>5 DEF Inserting, Busy
      <4>2. Cardinality(Inserting(turn', user, f)) <= Cardinality(Inserting(turn, user, f))
        BY <4>1, Counted, FS_Subset
      <4>3. /\ memory[user][f] + Cardinality(Inserting(turn, user, f)) <= atOnce[user]
            /\ memory[user][f] \in Nat
        BY <1>1 DEF Rows, TypeOK
      <4> QED
        BY <3>1, <4>2, <4>3, Counted
    <3> QED
      BY <3>2, <3>3
  <2>2. Rows'
    BY <1>3, <2>1 DEF Rows
  <2>3. Titles'
    BY <1>1, <1>3 DEF Titles
  <2> QED
    BY <2>2, <2>3
<1>15. raced \subseteq raced' /\ FailsOnlyInARace'
  BY <1>1, <1>3 DEF FailsOnlyInARace
<1>16. ASSUME NEW d \in Threads \ raced' PROVE Lone(d)'
  <2>1. Lone(d) /\ d \in Threads
    BY <1>1, <1>15, <1>16 DEF Apart
  <2>2. CASE d # c
    <3>1. \A u \in Slots : turn'[u].thread = d => u # t /\ turn'[u] = turn[u]
      BY <1>5, <2>2
    <3>2. UNCHANGED <<conversations, participants>>
      BY <1>3
    <3> QED
      BY <2>1, <3>1, <3>2 DEF Lone
  <2>3. CASE d = c
    <3>1. \A u \in Slots : turn[u].pc # "idle" => turn[u].thread # c
      BY <1>3, <1>16, <2>3 DEF Active
    <3>2. \A u \in Slots : turn[u].thread # c
      BY <1>1, <1>6, <3>1 DEF Stages, Staged
    <3>3. \A u \in Slots : turn'[u].thread = c => u = t /\ turn'[u].pc = "finding"
      BY <1>5, <3>2
    <3> QED
      BY <1>3, <2>1, <2>3, <3>3 DEF Lone
  <2> QED
    BY <2>2, <2>3
<1> QED
  BY <1>9, <1>10, <1>11, <1>13, <1>14, <1>15, <1>16 DEF IInv, Apart

\* So does a title that is written behind a turn.
LEMMA Titling ==
  ASSUME IInv, NEW c \in Threads, Titled(c)
  PROVE  IInv'
<1>1. /\ TypeOK /\ Stages /\ Joined /\ Budgets /\ Suited /\ Bounds /\ Apart
      /\ Rows /\ Titles /\ LogIsComplete /\ FailsOnlyInARace
  BY DEF IInv
<1>2. /\ titling[c] > 0 /\ titling' = [titling EXCEPT ![c] = @ - 1]
      /\ titles' = titles \/ titles' = [titles EXCEPT ![c] = @ + 1]
      /\ UNCHANGED <<settings, conversations, participants, turn, started, memory, usage, spent,
                     excess, titlers, raced, atOnce, failed, faults>>
  BY DEF Titled, rows, history, money
<1>3. titling' \in [Threads -> Nat] /\ titles' \in [Threads -> Nat]
  BY <1>1, <1>2 DEF TypeOK
<1>4. TypeOK'
  BY <1>1, <1>2, <1>3 DEF TypeOK
<1>5. /\ Stages' /\ Joined' /\ Budgets' /\ Suited' /\ Bounds' /\ Apart' /\ Rows'
      /\ LogIsComplete' /\ FailsOnlyInARace'
  BY <1>1, <1>2 DEF Stages, Joined, Budgets, Suited, Bounds, Apart, Lone, Rows, LogIsComplete,
                    FailsOnlyInARace
<1>6. Titles'
  <2>1. ASSUME NEW d \in Threads PROVE titles'[d] + titling'[d] <= titlers[d]
    <3>1. titling[d] \in Nat /\ titles[d] \in Nat /\ titlers[d] \in Nat
      BY <1>1 DEF TypeOK
    <3>2. titles'[d] + titling'[d] <= titles[d] + titling[d]
      BY <1>1, <1>2, <3>1 DEF TypeOK
    <3>3. titles[d] + titling[d] <= titlers[d] /\ titles'[d] \in Nat /\ titling'[d] \in Nat
      BY <1>1, <1>3 DEF Titles
    <3> QED
      BY <3>1, <3>2, <3>3
  <2> QED
    BY <1>2, <2>1 DEF Titles
<1> QED
  BY <1>4, <1>5, <1>6 DEF IInv

\* The invariant holds at first.
LEMMA Starting == Init => IInv
<1> SUFFICES ASSUME Init PROVE IInv
  OBVIOUS
<1>1. /\ settings \in SettingsSet /\ conversations = {} /\ participants = {}
      /\ turn = [t \in Slots |-> Idle] /\ started = 0
      /\ memory = [u \in Users |-> [f \in Facts |-> 0]]
      /\ usage = [t \in Slots |-> 0] /\ spent = usage /\ excess = usage
      /\ titling = [c \in Threads |-> 0] /\ titles = titling /\ titlers = titling
      /\ raced = {} /\ atOnce = [u \in Users |-> 0] /\ failed = {} /\ faults = 0
  BY DEF Init
<1>2. Idle \in Turn /\ Idle.pc = "idle" /\ Idle.cost = 0 /\ Idle.thread = NoThread /\ Idle.user = NoUser
  BY IdleTyped, SignalsExist DEF Idle
<1>3. TypeOK
  <2>1. turn \in [Slots -> Turn]
    BY <1>1, <1>2
  <2>2. memory \in [Users -> [Facts -> Nat]]
    BY <1>1
  <2>3. /\ titling \in [Threads -> Nat] /\ titles \in [Threads -> Nat] /\ titlers \in [Threads -> Nat]
        /\ usage \in [Slots -> Nat] /\ spent \in [Slots -> Nat] /\ excess \in [Slots -> Nat]
        /\ atOnce \in [Users -> Nat]
    BY <1>1
  <2>4. started \in 0..MaxEvents /\ faults \in 0..MaxFaults
    BY <1>1, TurnsAssumption
  <2> QED
    BY <1>1, <2>1, <2>2, <2>3, <2>4 DEF TypeOK
<1>4. Stages /\ Joined
  BY <1>1, <1>2 DEF Stages, Joined, Staged, Unpaid
<1>5. settings.requestCap \in Nat \cup {NoCap} /\ settings.monthlyCap \in Nat \cup {NoCap}
  BY <1>1, Constants DEF Settings
<1>6. Budgets /\ Suited
  BY <1>1, <1>2, <1>5 DEF Budgets, Suited, Affords, Suits, Deciding
<1>7. Unlogged(Idle) = 0
  BY <1>2 DEF Unlogged
<1>8. LogIsComplete
  BY <1>1, <1>7 DEF LogIsComplete
<1>9. Bounds /\ Rows /\ Titles
  <2>1. Bounds
    BY <1>1, <1>2, <1>5, <1>7 DEF Bounds, Bounded, Deciding
  <2>2. \A user \in Users : Busy(turn, user) = {} /\ \A f \in Facts : Inserting(turn, user, f) = {}
    BY <1>1, <1>2 DEF Busy, Inserting
  <2>3. ASSUME NEW user \in Users
        PROVE  /\ Cardinality(Busy(turn, user)) <= atOnce[user]
               /\ \A f \in Facts :
                    memory[user][f] + Cardinality(Inserting(turn, user, f)) <= atOnce[user]
    <3>1. Cardinality({}) = 0
      BY FS_EmptySet
    <3>2. atOnce[user] = 0 /\ \A f \in Facts : memory[user][f] = 0
      BY <1>1
    <3>3. Cardinality(Busy(turn, user)) = 0
      BY <2>2, <3>1
    <3>4. \A f \in Facts : Cardinality(Inserting(turn, user, f)) = 0
      BY <2>2, <3>1
    <3> QED
      BY <3>2, <3>3, <3>4
  <2>4. Titles
    BY <1>1 DEF Titles
  <2> QED
    BY <2>1, <2>3, <2>4 DEF Rows
<1>10. FailsOnlyInARace
  BY <1>1 DEF FailsOnlyInARace
<1>11. Apart
  BY <1>1, <1>2, TurnsAssumption DEF Apart, Lone
<1> QED
  BY <1>3, <1>4, <1>6, <1>8, <1>9, <1>10, <1>11 DEF IInv

\* Every step keeps it.
LEMMA Preserving == IInv /\ [Next]_vars => IInv'
<1> SUFFICES ASSUME IInv, [Next]_vars PROVE IInv'
  OBVIOUS
<1>1. ASSUME NEW t \in Slots, SlotStep(t) PROVE IInv'
  BY <1>1, StepTyped, StepAffords, StepPays, StepApart, StepWrites DEF IInv
<1>2. ASSUME NEW c \in Threads, NEW user \in Users, NEW message \in Messages,
             Begin(c, user, message)
      PROVE  IInv'
  BY <1>2, Beginning
<1>3. ASSUME NEW c \in Threads, Titled(c) PROVE IInv'
  BY <1>3, Titling
<1>4. CASE UNCHANGED vars
  BY <1>4 DEF vars, rows, money, behind, history, IInv, TypeOK, Stages, Joined, Budgets, Suited,
              Bounds, Apart, Lone, Rows, Titles, LogIsComplete, FailsOnlyInARace
<1> QED
  BY <1>1, <1>2, <1>3, <1>4 DEF Next, SlotStep

\* The inductive invariant holds of every behaviour.
LEMMA Invariance == Spec => []IInv
BY Starting, Preserving, PTL DEF Spec

-----------------------------------------------------------------------------
(* Theorems.                                                               *)

\* Every variable of the orchestrator's turns has its type, and a participant has a
\* conversation, whatever the events, settings and failures.
THEOREM TypeCorrect == Spec => []TypeOK
<1>1. IInv => TypeOK
  BY DEF IInv
<1> QED
  BY Invariance, <1>1, PTL

\* The calls of a turn cost no more than a request may, and those of the turns that follow
\* one another in a slot no more than the month may, but for what the last of them cost
\* beyond its estimate, whatever the provider counts and however many turns run at once.
THEOREM BudgetsHold == Spec => []WithinCaps
<1>1. IInv => WithinCaps
  BY DEF IInv, Bounds, Bounded, WithinCaps
<1> QED
  BY Invariance, <1>1, PTL

\* Without faults the usage log and the turns that have still to write to it account
\* for every answered call, however many turns are under way.
THEOREM AccountsForCalls == Spec => []LogIsComplete
<1>1. IInv => LogIsComplete
  BY DEF IInv
<1> QED
  BY Invariance, <1>1, PTL

\* An event is refused by the unique keys only if its thread had two under way at once,
\* or a statement failed.
THEOREM RefusedOnlyInARace == Spec => []FailsOnlyInARace
<1>1. IInv => FailsOnlyInARace
  BY DEF IInv
<1> QED
  BY Invariance, <1>1, PTL

\* Routing, rules, escalation and spend controls send an image only to a model that
\* sees, and never downgrade to a model that is estimated dearer than the routed one.
THEOREM DowngradesAreSound == Spec => []DowngradeIsSound
<1>1. IInv => DowngradeIsSound
  BY DEF IInv, Suited, Suits, Sees, DowngradeIsSound, CallingModel, Deciding
<1> QED
  BY Invariance, <1>1, PTL

\* A fact has no more rows than turns of its user were under way at once, and a thread was
\* given no more titles than were generated at once, for any users, threads and turns.
THEOREM WritesOncePerRace == Spec => []WrittenOncePerRace
<1>1. IInv => WrittenOncePerRace
  <2> SUFFICES ASSUME IInv PROVE WrittenOncePerRace
    OBVIOUS
  <2>1. ASSUME NEW user \in Users, NEW f \in Facts PROVE memory[user][f] <= atOnce[user]
    <3>1. /\ memory[user][f] + Cardinality(Inserting(turn, user, f)) <= atOnce[user]
          /\ memory[user][f] \in Nat /\ atOnce[user] \in Nat
      BY DEF IInv, Rows, TypeOK
    <3> QED
      BY <3>1, Counted
  <2>2. ASSUME NEW c \in Threads PROVE titles[c] <= titlers[c]
    BY DEF IInv, Titles, TypeOK
  <2> QED
    BY <2>1, <2>2 DEF WrittenOncePerRace
<1> QED
  BY Invariance, <1>1, PTL

=============================================================================
